--------------------------- MODULE PostgresReadings ---------------------------
(***************************************************************************)
(* The calls about readings of internal/store/postgres.go, as the          *)
(* statements of internal/store/storedb they run, each a transaction of    *)
(* its own.  Most calls are one statement.  UpdateStatus reads the row,    *)
(* merges its fields in Go and writes the merged columns back; a fenced    *)
(* write that changed no row looks whether the reading exists.  Other      *)
(* connections run their statements in between.                            *)
(*                                                                         *)
(* A column without a value is NULL; the rows a caller gets have "" there, *)
(* or no time.                                                             *)
(***************************************************************************)
EXTENDS Naturals, FiniteSets

CONSTANTS
  Ids,       \* of readings
  Callers,   \* goroutines
  Calls,     \* the calls they make
  MaxCall,   \* bound of the model: calls made
  MaxError,  \* bound of the model: calls that fail
  Null       \* SQL's NULL

Statuses == {"pending", "running", "ready", "failed"}

\* What a text column may hold: what the calls give, and what they stand for.
Texts == {k.value : k \in Calls} \cup {"", "page", "body", "run", "failed"}

\* The calls are those of the dispatcher, of the pipeline and of readingops: a
\* status write names a status, and the start of a reading it makes running.
ASSUME PgReadingsAssumption ==
  /\ Calls \subseteq [op : {"save", "status", "content", "tags", "import", "reprocess", "delete", "get", "list"},
                      id : Ids, to : Statuses \cup {""}, start : Nat, attempts : Nat, value : Texts]
  /\ \A k \in Calls : k.op = "status" => k.to \in Statuses /\ (k.to = "running" => k.start # 0)
  /\ Null \notin Texts /\ Null \notin Nat

VARIABLES
  table,     \* the row of every id
  call,      \* the call of every goroutine: what it has read, its answer
  count      \* calls made and failed

pgVars == <<table, call, count>>

-----------------------------------------------------------------------------
(* Rows and columns *)

NoRow == [status |-> "none"]
Idle  == [at |-> "idle"]
Stored(id) == table[id] # NoRow

nullif(text)   == IF text = "" THEN Null ELSE text
timestamptz(t) == IF t = 0 THEN Null ELSE t
stringValue(v) == IF v = Null THEN "" ELSE v
timeValue(v)   == IF v = Null THEN 0 ELSE v

readingFromFields(r) ==
  IF r = NoRow THEN r
  ELSE [r EXCEPT !.started = timeValue(@), !.error = stringValue(@),
                 !.content = stringValue(@), !.raw = stringValue(@)]

\* A fenced statement changes the row of the run it is for, any other the
\* row there is.
Fenced(k) == k.op \in {"content", "tags"} /\ k.start # 0
Where(k)  ==
  /\ Stored(k.id)
  /\ Fenced(k) => table[k.id].status = "running" /\ table[k.id].started = timestamptz(k.start)

-----------------------------------------------------------------------------
(* Statements *)

CreateReading(k) ==
  [key |-> k.value, status |-> "pending", started |-> Null, finished |-> FALSE, error |-> nullif(""),
   attempts |-> 0, content |-> nullif(""), raw |-> nullif(""), tags |-> ""]

UpdateReadingContent(r, k) == [r EXCEPT !.content = nullif(k.value), !.raw = nullif("run")]

ReplaceReadingTags(r, k) == [r EXCEPT !.tags = k.value]

ReprocessReading(r, k) ==
  [r EXCEPT !.status = "pending", !.content = Null, !.raw = nullif(k.value), !.error = Null,
            !.started = Null, !.finished = FALSE, !.attempts = 0]

UpdateReadingImport(r, k) ==
  [r EXCEPT !.status = "pending", !.content = Null, !.raw = nullif(k.value), !.error = Null,
            !.started = Null, !.finished = FALSE, !.attempts = 0, !.tags = ""]

\* Mutant: the whole reading is written back.
UpdateReadingWhole(r, merged) ==
  [merged EXCEPT !.started = timestamptz(@), !.error = nullif(@),
                 !.content = nullif(@), !.raw = nullif(@)]

UpdateReadingStatus(r, merged) ==
  [r EXCEPT !.status = merged.status, !.started = timestamptz(merged.started),
            !.finished = merged.finished, !.error = nullif(merged.error),
            !.attempts = merged.attempts]

ListNonTerminalReadings(cutoff) ==
  {<<id, table[id].attempts>> : id \in
     {i \in Ids : Stored(i) /\ \/ table[i].status = "pending"
                               \/ table[i].status = "running" /\ table[i].started < cutoff}}

-----------------------------------------------------------------------------
(* Calls *)

Begin(c) ==
  /\ call[c] = Idle
  /\ count.calls < MaxCall /\ count' = [count EXCEPT !.calls = @ + 1]
  /\ \E k \in Calls : call' = [call EXCEPT ![c] = [at |-> "called", k |-> k, answer |-> << >>]]
  /\ UNCHANGED table

Answer(c, answer) == call' = [call EXCEPT ![c].at = "answered", ![c].answer = answer]

Write(id, row) == table' = [table EXCEPT ![id] = row]

Failing == count.errors < MaxError /\ count' = [count EXCEPT !.errors = @ + 1]

At(c, at, ops) == call[c].at = at /\ call[c].k.op \in ops

\* on conflict (url_key) do nothing, and the primary key.
Taken(k) == Stored(k.id) \/ \E id \in Ids : Stored(id) /\ table[id].key = k.value

Save(c) ==
  LET k == call[c].k
  IN  /\ At(c, "called", {"save"})
      /\ IF Taken(k) THEN UNCHANGED table /\ Answer(c, <<"conflict">>)
         ELSE Write(k.id, CreateReading(k)) /\ Answer(c, <<"ok">>)
      /\ UNCHANGED count

Result(k) ==
  CASE k.op = "content"   -> UpdateReadingContent(table[k.id], k)
    [] k.op = "tags"      -> ReplaceReadingTags(table[k.id], k)
    [] k.op = "import"    -> UpdateReadingImport(table[k.id], k)
    [] k.op = "reprocess" -> ReprocessReading(table[k.id], k)
    [] k.op = "delete"    -> NoRow

\* The calls that are one statement, and for a fenced one a look after it.
Exec(c) ==
  LET k == call[c].k
  IN  /\ At(c, "called", {"content", "tags", "import", "reprocess", "delete"})
      /\ \/ Where(k) /\ Write(k.id, Result(k)) /\ Answer(c, <<"ok">>)
         \/ /\ ~Where(k) /\ UNCHANGED table
            /\ IF Fenced(k) THEN call' = [call EXCEPT ![c].at = "checking"]
               ELSE Answer(c, <<"notfound">>)
      /\ UNCHANGED count

\* A look that fails is taken for one that found nothing.
Check(c) ==
  /\ call[c].at = "checking"
  /\ \/ Stored(call[c].k.id) /\ Answer(c, <<"conflict">>)
     \/ Answer(c, <<"notfound">>)
  /\ UNCHANGED <<table, count>>

\* Mutant: a failure keeps the error there was.
mergedQuietly(k, r) ==
  [r EXCEPT !.status   = k.to,
            !.started  = IF k.to = "running" THEN k.start ELSE @,
            !.finished = @ \/ k.to \in {"ready", "failed"},
            !.attempts = IF k.to = "ready" THEN @ ELSE k.attempts]

\* UpdateStatus: the read and the merge.
merged(k, r) ==
  [r EXCEPT !.status   = k.to,
            !.started  = IF k.to = "running" THEN k.start ELSE @,
            !.finished = @ \/ k.to \in {"ready", "failed"},
            !.error    = CASE k.to = "failed" -> "failed"
                           [] k.to \in {"running", "ready"} -> ""
                           [] OTHER -> @,
            !.attempts = IF k.to = "ready" THEN @ ELSE k.attempts]

ReadStatus(c) ==
  LET k == call[c].k
  IN  /\ At(c, "called", {"status"})
      /\ IF Stored(k.id)
         THEN call' = [call EXCEPT ![c].at = "merged",
                                   ![c].answer = <<"row", merged(k, readingFromFields(table[k.id]))>>]
         ELSE Answer(c, <<"notfound">>)
      /\ UNCHANGED <<table, count>>

WriteStatus(c) ==
  LET id == call[c].k.id
  IN  /\ call[c].at = "merged"
      /\ IF Stored(id)
         THEN Write(id, UpdateReadingStatus(table[id], call[c].answer[2])) /\ Answer(c, <<"ok">>)
         ELSE UNCHANGED table /\ Answer(c, <<"notfound">>)
      /\ UNCHANGED count

Look(c) ==
  LET k == call[c].k
  IN  /\ At(c, "called", {"get", "list"})
      /\ \/ k.op = "list" /\ Answer(c, <<"ids", ListNonTerminalReadings(k.start)>>)
         \/ k.op = "get" /\ Stored(k.id) /\ Answer(c, <<"row", readingFromFields(table[k.id])>>)
         \/ k.op = "get" /\ ~Stored(k.id) /\ Answer(c, <<"notfound">>)
      /\ UNCHANGED <<table, count>>

\* The connection or the context ends before a statement, or after it.
Lose(c) ==
  LET k == call[c].k
  IN  /\ call[c].at \in {"called", "merged"} /\ Failing
      /\ Answer(c, <<"error">>)
      /\ \/ UNCHANGED table
         \/ At(c, "called", {"save"}) /\ ~Taken(k) /\ Write(k.id, CreateReading(k))
         \/ At(c, "called", {"content", "tags", "import", "reprocess", "delete"}) /\ Where(k)
              /\ Write(k.id, Result(k))
         \/ call[c].at = "merged" /\ Stored(k.id)
              /\ Write(k.id, UpdateReadingStatus(table[k.id], call[c].answer[2]))

Return(c) ==
  /\ call[c].at = "answered"
  /\ call' = [call EXCEPT ![c] = Idle]
  /\ UNCHANGED <<table, count>>

\* A fresh store, or one with a reading: pending, or running since 1.
InitRows ==
  LET fresh == [CreateReading([value |-> "page"]) EXCEPT !.raw = "body"]
  IN  {NoRow, fresh, [fresh EXCEPT !.status = "running", !.started = 1]}

PgInit ==
  /\ table \in {t \in [Ids -> InitRows] : \A i, j \in Ids : i # j /\ t[i] # NoRow => t[j] = NoRow}
  /\ call = [c \in Callers |-> Idle]
  /\ count = [calls |-> 0, errors |-> 0]

PgNext ==
  \E c \in Callers :
    Begin(c) \/ Save(c) \/ Exec(c) \/ Check(c) \/ ReadStatus(c) \/ WriteStatus(c)
      \/ Look(c) \/ Lose(c) \/ Return(c)

PgSpec == PgInit /\ [][PgNext]_pgVars

-----------------------------------------------------------------------------
(* Properties *)

\* Whatever status writes overlap, and whatever they merge: a running
\* reading has a start, without which no sweep would find it, a failed one
\* says why, a settled one when.  A column without a value is NULL, not "".
SettledIsWhole ==
  \A id \in Ids : Stored(id) =>
    /\ "" \notin {table[id].raw, table[id].content, table[id].error}
    /\ table[id].status = "running" => table[id].started # Null
    /\ table[id].status = "failed" => table[id].error # Null
    /\ table[id].status \in {"ready", "failed"} => table[id].finished

-----------------------------------------------------------------------------
(* What the calls promise *)

Columns == INSTANCE ReadingStore WITH rows <- table   \* for its Visible

Shown(r) == IF r = NoRow THEN r ELSE Columns!Visible(readingFromFields(r))

\* A call has taken effect with the statement that decides it.  A fenced
\* write without a row is refused, whatever the look after it says.
Promised(c) ==
  LET refused == Fenced(c.k) /\ c.answer \in {<<"conflict">>, <<"notfound">>}
  IN  CASE c.at = "idle"     -> c
        [] c.at = "called"   -> c
        [] c.at = "merged"   -> [c EXCEPT !.at = "called", !.answer = << >>]
        [] c.at = "checking" -> [c EXCEPT !.at = "answered", !.answer = <<"refused">>]
        [] c.at = "answered" -> [c EXCEPT !.answer =
             IF refused THEN <<"refused">>
             ELSE IF c.answer[1] = "row" THEN <<"row", Columns!Visible(c.answer[2])>> ELSE @]

Store == INSTANCE ReadingStore WITH
  rows <- [id \in Ids |-> Shown(table[id])],
  call <- [c \in Callers |-> Promised(call[c])]

\* Every call about a reading happens at once, as it does under the mutex of
\* Memory, although a status write is a read and a write with anything
\* between them: what it merges from its old read is never read again.
ImplementsStore == Store!StoreSpec
==============================================================================
