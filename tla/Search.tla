-------------------------------- MODULE Search --------------------------------
(***************************************************************************)
(* Listing readings page by page: Search of internal/store/memory.go and   *)
(* of internal/store/postgres.go with the statements of storedb, the query *)
(* of GET /api/readings, and the walk over all the pages of a listing that *)
(* the command line's scanReadings and the web client's load-more do.      *)
(*                                                                         *)
(* A page says where it ended with a cursor, which holds the values of its *)
(* last row; the next page starts after those values.  Readings come, go   *)
(* and change between two pages, and in Postgres between the two           *)
(* statements that make up one page.                                       *)
(*                                                                         *)
(* What a search text matches is data: a row has the score it gets.        *)
(***************************************************************************)
EXTENDS Naturals, FiniteSets, Sequences

CONSTANTS
  Ids,        \* a set of numbers: ids are compared
  Times,      \* the values of created_at
  Lowered,    \* titles to the place of their lower-case form in the order
  Scores,     \* the scores for the query's text; 0 is no match
  Queries,    \* the listings asked for
  MaxChange   \* bound of the model: changes during a walk

ASSUME SearchConstants ==
  /\ IsFiniteSet(Ids) /\ Ids \subseteq Nat /\ Times \subseteq Nat /\ Scores \subseteq Nat
  /\ Lowered \in [DOMAIN Lowered -> Nat]
  /\ \A q \in Queries : /\ q.sort \in {"newest", "oldest", "title"} /\ q.text \in BOOLEAN
                         /\ q.limit \in Nat \ {0}
  /\ MaxChange \in Nat

VARIABLES
  readings,   \* the row of every id
  query,      \* the listing that is walked
  store,      \* the store that answers
  at,         \* "ask", "counted" between Postgres' two statements, or "done"
  cursor,     \* where the next page starts
  total,      \* the total of the last page, or what was counted for the next
  out,        \* the ids of the rows of all the pages, in order
  changes,    \* how many changes there were
  past        \* history: ids that changed their place, ids that once did not match

searchVars == <<readings, query, store, at, cursor, total, out, changes, past>>

-----------------------------------------------------------------------------
(* Rows and queries *)

Titles == DOMAIN Lowered
Unused == [status |-> "unused"]
Gone   == [status |-> "gone"]

Rows == [created: Times, title: Titles, status: {"pending", "ready"},
         tags: SUBSET {"tag"}, score: Scores]

\* A listing does not look at every column: the rows it can tell apart.
RowsSeen ==
  {row \in Rows :
     /\ query.sort = "title" => row.created = CHOOSE t \in Times : TRUE
     /\ query.sort # "title" => row.title = CHOOSE t \in Titles : TRUE
     /\ ~query.text          => row.score = 0
     /\ query.status = ""    => row.status = "ready"
     /\ query.tags = {}      => row.tags = {}}

Stored(id) == readings[id] \notin {Unused, Gone}

\* Neither store ranks when there is no search text.
scoreReading(id) == IF query.text THEN readings[id].score ELSE 0

Matches(id) ==
  /\ Stored(id)
  /\ query.status # "" => readings[id].status = query.status
  /\ query.tags \subseteq readings[id].tags
  /\ query.text => scoreReading(id) > 0

\* What a row's place in the listing depends on, with its id.
Place(id) ==
  <<scoreReading(id),
    IF query.sort = "title" THEN Lowered[readings[id].title] ELSE readings[id].created>>

NoCursor == [valid |-> FALSE, created |-> 0, id |-> 0, title |-> "", rank |-> 0]

CursorAt(id) ==
  [valid |-> TRUE, created |-> readings[id].created, id |-> id,
   title |-> readings[id].title, rank |-> scoreReading(id)]

\* (x, i) < (y, j), as SQL compares rows.
PairLess(x, i, y, j) == x < y \/ (x = y /\ i < j)

-----------------------------------------------------------------------------
(* Memory *)

\* Mutant: the best match first only when no other order is asked for.
PrecedesBySort(a, b) ==
  LET r == readings[a]
      s == readings[b]
  IN  CASE query.sort = "oldest" -> PairLess(r.created, a, s.created, b)
        [] query.sort = "title"  -> PairLess(Lowered[r.title], a, Lowered[s.title], b)
        [] OTHER                 -> IF scoreReading(a) # scoreReading(b)
                                    THEN scoreReading(a) > scoreReading(b)
                                    ELSE PairLess(s.created, b, r.created, a)

\* The order of sortMatches: by score, then by the order asked for.
Precedes(a, b) ==
  LET r == readings[a]
      s == readings[b]
  IN  IF scoreReading(a) # scoreReading(b) THEN scoreReading(a) > scoreReading(b)
      ELSE CASE query.sort = "oldest" -> PairLess(r.created, a, s.created, b)
             [] query.sort = "title"  -> PairLess(Lowered[r.title], a, Lowered[s.title], b)
             [] OTHER                 -> PairLess(s.created, b, r.created, a)

\* Mutant: the rows of the cursor's own time are taken to be passed.
isAfterCursorByTime(id, c) ==
  LET r == readings[id]
  IN  CASE query.sort = "title"  -> Lowered[c.title] < Lowered[r.title]
        [] query.sort = "oldest" -> c.created < r.created
        [] OTHER                 -> r.created < c.created

isAfterCursor(id, c) ==
  LET r == readings[id]
  IN  IF (c.rank > 0 \/ scoreReading(id) > 0) /\ scoreReading(id) # c.rank
      THEN scoreReading(id) < c.rank
      ELSE CASE query.sort = "title"  -> PairLess(Lowered[c.title], c.id, Lowered[r.title], id)
             [] query.sort = "oldest" -> PairLess(c.created, c.id, r.created, id)
             [] OTHER                 -> PairLess(r.created, id, c.created, c.id)

\* Rows in that order: the k-th is the one that k - 1 of them precede.
InOrder(S) ==
  [k \in 1 .. Cardinality(S) |-> CHOOSE id \in S : Cardinality({b \in S : Precedes(b, id)}) = k - 1]

sortMatches == InOrder({id \in Ids : Matches(id)})

\* The sorted matches from the first that is after the cursor.
applyCursor(matches, c) ==
  LET after == {i \in DOMAIN matches : isAfterCursor(matches[i], c)}
  IN  IF ~c.valid THEN matches
      ELSE IF after = {} THEN << >>
      ELSE SubSeq(matches, CHOOSE i \in after : \A j \in after : i <= j, Len(matches))

\* The page that matches begins with, and where the next one starts.
PageOf(matches) ==
  IF Len(matches) > query.limit
  THEN [ids |-> SubSeq(matches, 1, query.limit), next |-> CursorAt(matches[query.limit])]
  ELSE [ids |-> matches, next |-> NoCursor]

MemoryPage(c) == PageOf(applyCursor(sortMatches, c))

-----------------------------------------------------------------------------
(* Postgres *)

\* Mutant: what the cursor has passed is not counted.
CountRemaining ==
  Cardinality({id \in Ids : Matches(id) /\ (cursor.valid => isAfterCursor(id, cursor))})

CountReadings == Cardinality({id \in Ids : Matches(id)})

\* Mutant: the rank is not part of where a page starts.
SQLRankless(id, c, follows) == ~c.valid \/ follows

\* The last condition of the where clauses.
SQLAfter(id, c, follows) ==
  \/ ~c.valid
  \/ scoreReading(id) < c.rank
  \/ scoreReading(id) = c.rank /\ follows

SearchReadingsNewest(c) ==
  {id \in Ids : Matches(id) /\ SQLAfter(id, c, PairLess(readings[id].created, id, c.created, c.id))}

SearchReadingsOldest(c) ==
  {id \in Ids : Matches(id) /\ SQLAfter(id, c, PairLess(c.created, c.id, readings[id].created, id))}

\* A missing cursor has a title too, which is never looked at.
SearchReadingsTitle(c) ==
  {id \in Ids : Matches(id) /\ SQLAfter(id, c,
     c.valid /\ PairLess(Lowered[c.title], c.id, Lowered[readings[id].title], id))}

\* order by and limit, with one row more than the page holds.
searchRows(c) ==
  LET where == CASE query.sort = "oldest" -> SearchReadingsOldest(c)
                 [] query.sort = "title"  -> SearchReadingsTitle(c)
                 [] OTHER                 -> SearchReadingsNewest(c)
      found == InOrder(where)
  IN  SubSeq(found, 1, IF Len(found) > query.limit THEN query.limit + 1 ELSE Len(found))

PostgresPage(c) == PageOf(searchRows(c))

-----------------------------------------------------------------------------
(* The walk *)

\* One more page: until one comes without a cursor.
Take(page) ==
  /\ out' = out \o page.ids
  /\ cursor' = page.next
  /\ at' = IF page.next.valid THEN "ask" ELSE "done"
  /\ UNCHANGED <<readings, query, store, changes, past>>

MemorySearch ==
  /\ store = "memory" /\ at = "ask"
  /\ Take(MemoryPage(cursor))
  /\ total' = CountReadings

PostgresCount ==
  /\ store = "postgres" /\ at = "ask"
  /\ at' = "counted" /\ total' = CountReadings
  /\ UNCHANGED <<readings, query, store, cursor, out, changes, past>>

PostgresSearch ==
  /\ store = "postgres" /\ at = "counted"
  /\ Take(PostgresPage(cursor))
  /\ UNCHANGED total

-----------------------------------------------------------------------------
(* What happens to the readings meanwhile *)

Becomes(id, row) ==
  /\ changes < MaxChange /\ changes' = changes + 1
  /\ readings' = [readings EXCEPT ![id] = row]
  /\ UNCHANGED <<query, store, at, cursor, total, out>>
  /\ past' = [moved  |-> past.moved  \cup {i \in {id} : Stored(i) /\ Stored(i)' /\ Place(i) # Place(i)'},
              absent |-> past.absent \cup {i \in {id} : ~Matches(i)'}]

\* An id is given out once, and a reading keeps its created_at.
Save(id)   == readings[id] = Unused /\ \E row \in RowsSeen : Becomes(id, row)
Update(id) == Stored(id) /\ \E row \in RowsSeen : row.created = readings[id].created /\ Becomes(id, row)
Delete(id) == Stored(id) /\ Becomes(id, Gone)

-----------------------------------------------------------------------------

SearchInit ==
  /\ query \in Queries
  /\ readings \in [Ids -> RowsSeen \cup {Unused}]
  /\ store \in {"memory", "postgres"}
  /\ at = "ask" /\ cursor = NoCursor /\ total = 0 /\ out = << >> /\ changes = 0
  /\ past = [moved |-> {}, absent |-> {id \in Ids : ~Matches(id)}]

SearchNext ==
  \/ MemorySearch \/ PostgresCount \/ PostgresSearch
  \/ at # "done" /\ \E id \in Ids : Save(id) \/ Update(id) \/ Delete(id)

SearchSpec == SearchInit /\ [][SearchNext]_searchVars

-----------------------------------------------------------------------------
(* Properties *)

\* The readings that have matched since the walk began, at one place.
Steady == Ids \ (past.moved \cup past.absent)

Listings(id) == Cardinality({i \in DOMAIN out : out[i] = id})

\* The order of a listing: the better match first, then what was asked for.
Behind(p, i, q, j) ==
  \/ p[1] > q[1]
  \/ p[1] = q[1] /\ IF query.sort = "newest" THEN PairLess(q[2], j, p[2], i)
                                             ELSE PairLess(p[2], i, q[2], j)

\* A reading that matches all through the walk and keeps its place is
\* listed once, on whatever page, whichever readings come, go and move
\* around it: what the command line's drop, audit and recover, and the
\* client's list, rely on.  Only a reading that moved may come twice, and one
\* that leaves the listing and comes back has not: in a listing by time without
\* a text, where none moves, scanReadings' check for ids never finds one.
SteadyListedOnce ==
  /\ at = "done" => \A id \in Steady : Listings(id) = 1
  /\ \A id \in Ids : Listings(id) > 1 => id \in past.moved

\* The readings that kept their place come in their order, across pages.
OrderAcrossPages ==
  \A i, j \in DOMAIN out :
    i < j /\ {out[i], out[j]} \subseteq Steady =>
      Behind(Place(out[i]), out[i], Place(out[j]), out[j])

\* The total of a page is of the whole listing, not of what is left of it:
\* it counts every reading that stayed, and no other when nothing changed.
TotalWhole ==
  out # << >> => /\ Cardinality(Steady) <= total
                 /\ changes = 0 => total = Cardinality(Steady)

\* Both stores answer a query with the same page and the same cursor.
StoresAgree == at # "done" => MemoryPage(cursor) = PostgresPage(cursor)
==============================================================================
