------------------------------ MODULE ClientList ------------------------------
(***************************************************************************)
(* web/src/App.tsx: the list of readings in the browser.                   *)
(*                                                                         *)
(* The list is loaded page by page, refreshed to the depth it has every    *)
(* few seconds while something in it is being processed, and again after a *)
(* submit.  Answers come late and in any order.  Every request takes a new *)
(* number, and one whose number is no longer the last changes nothing when *)
(* its answer comes: the last one is all that is kept of the requests      *)
(* here.  Two requests for one page share an answer that is on its way,    *)
(* which may be older than the request.                                    *)
(*                                                                         *)
(* The server is the list of readings, newest (the highest id) first.      *)
(***************************************************************************)
EXTENDS Naturals, SequencesExt

CONSTANTS
  MaxId,     \* bound of the model: readings there can be
  Ready,     \* how many readings there are at the start: each has been run
  Failed,    \* the ids of those of them that failed
  PageSize,
  MaxEvent,  \* bound of the model: what the user does
  MaxError   \* bound of the model: requests that fail

ASSUME ClientConstants ==
  /\ MaxId \in Nat \ {0} /\ PageSize \in Nat \ {0}
  /\ Ready \in 0 .. MaxId /\ Failed \subseteq 1 .. Ready
  /\ MaxEvent \in Nat /\ MaxError \in Nat

VARIABLES
  server,    \* the status of every reading, and how often it was (re)started
  token,     \* in localStorage
  view,      \* the list and its flags, as they are rendered
  current,   \* the list request with the last number, while it runs
  busy,      \* readingsLoadingRef: some list request runs
  shared,    \* the requests for pages that others may join
  submit,    \* the form
  count,     \* what the bounds count
  past       \* history: the writes that were acknowledged

listVars == <<server, token, view, current, busy, shared, submit, count, past>>

-----------------------------------------------------------------------------
(* The server *)

Ids      == 1 .. MaxId
NoToken  == "none"
Tokens   == {"good", "bad", NoToken}
NoCursor == 0     \* a cursor is the id it stands at
Absent   == [status |-> "none", version |-> 0]

Row(id) == [id |-> id, status |-> server[id].status, version |-> server[id].version]

\* The k-th of a finite set of numbers, in their order.
Nth(S, k) == CHOOSE n \in S : Cardinality({m \in S : m < n}) = k - 1

Page(cursor) ==
  LET ids  == {id \in Ids : server[id] # Absent /\ (cursor # NoCursor => id < cursor)}
      n    == Cardinality(ids)
      size == IF n > PageSize THEN PageSize ELSE n
      Newest(i) == Nth(ids, n + 1 - i)
  IN  [rows |-> [i \in 1 .. size |-> Row(Newest(i))],
       next |-> IF n > PageSize THEN Newest(PageSize) ELSE NoCursor]

Waiting == [is |-> "waiting"]
Denied  == [is |-> "unauthorized"]
Missing == [is |-> "not_found"]
Broken  == [is |-> "failed"]
Answered(what) == [is |-> "ok", what |-> what]

Failing == count.errors < MaxError /\ count' = [count EXCEPT !.errors = @ + 1]
Event   == count.events < MaxEvent /\ count' = [count EXCEPT !.events = @ + 1]

\* The answers to a request made with the token t, when it would be this one.
Reply(t, answer) ==
  IF t = "good" THEN {answer} \cup (IF count.errors < MaxError THEN {Broken} ELSE {}) ELSE {Denied}
Replied(answer) == IF answer = Broken THEN Failing ELSE UNCHANGED count

\* A run of the pipeline ends, either way.
Settle(id) ==
  /\ server[id].status = "pending"
  /\ \E status \in {"ready", "failed"} : server' = [server EXCEPT ![id].status = status]
  /\ UNCHANGED <<token, view, current, busy, shared, submit, count, past>>

-----------------------------------------------------------------------------
(* The list *)

NoRequest == [kind |-> "none"]
EmptyView == [readings |-> << >>, next |-> NoCursor, cursors |-> << >>,
              loading |-> FALSE, loadingMore |-> FALSE, error |-> FALSE]

hasProcessingReadings(rows) == \E i \in DOMAIN rows : rows[i].status = "pending"

\* appendUniqueReadings and mergeReadingsDocuments: a reading that comes again
\* keeps its place and gets its new values.
appendUnique(rows, more) ==
  LET Again(row, s) == {i \in DOMAIN s : s[i].id = row.id}
      new == {j \in DOMAIN more : Again(more[j], rows) = {}}
  IN  [i \in DOMAIN rows |->
         IF Again(rows[i], more) = {} THEN rows[i] ELSE more[CHOOSE j \in Again(rows[i], more) : TRUE]]
      \o [k \in 1 .. Cardinality(new) |-> more[Nth(new, k)]]

Request(kind, t, cursor) ==
  [kind |-> kind, token |-> t, cursor |-> cursor, bypass |-> FALSE, own |-> Waiting,
   pages |-> 1, rows |-> << >>, cursors |-> << >>]

\* listReadingsOnce: send a request for a page, or join one that is known.
Same(f, req) == f.token = req.token /\ f.cursor = req.cursor
Ask(req, known) ==
  /\ current' = [req EXCEPT !.own = Waiting]
  /\ shared' = IF req.bypass \/ \E f \in known : Same(f, req) THEN known
               ELSE known \cup {[token |-> req.token, cursor |-> req.cursor, doc |-> Waiting]}

\* loadReadings, and resetReadingsForMissingToken when there is no token.
loadReadings(t, cursor) ==
  IF t = NoToken
  THEN /\ view' = [EmptyView EXCEPT !.error = TRUE]
       /\ current' = NoRequest /\ busy' = FALSE
       /\ UNCHANGED shared
  ELSE /\ busy' = TRUE
       /\ IF cursor = NoCursor
          THEN /\ view' = [view EXCEPT !.readings = << >>, !.next = NoCursor,
                                       !.loading = TRUE, !.error = FALSE]
               /\ Ask(Request("first", t, cursor), shared)
          ELSE /\ view' = [view EXCEPT !.loadingMore = TRUE, !.error = FALSE]
               /\ Ask(Request("more", t, cursor), shared)

\* Mutant: as many pages as there are cursors.
PollShallow ==
  /\ hasProcessingReadings(view.readings) /\ token # NoToken
  /\ ~busy
  /\ busy' = TRUE
  /\ view' = [view EXCEPT !.error = FALSE]
  /\ Ask([Request("refresh", token, NoCursor) EXCEPT !.pages = Len(view.cursors)], shared)
  /\ UNCHANGED <<server, token, submit, count, past>>

\* The timer of the list: refresh what is seen, unless something is loading.
Poll ==
  /\ hasProcessingReadings(view.readings) /\ token # NoToken
  /\ ~busy
  /\ busy' = TRUE
  /\ view' = [view EXCEPT !.error = FALSE]
  /\ Ask([Request("refresh", token, NoCursor) EXCEPT !.pages = Len(view.cursors) + 1], shared)
  /\ UNCHANGED <<server, token, submit, count, past>>

handleLoadMore ==
  /\ view.next # NoCursor /\ ~view.loading /\ ~view.loadingMore /\ ~busy
  /\ Event
  /\ loadReadings(token, view.next)
  /\ UNCHANGED <<server, token, submit, past>>

Clear(v) == [v EXCEPT !.readings = << >>, !.next = NoCursor, !.cursors = << >>]

\* The request is over: its flags are taken back.
Finish(v) ==
  /\ current' = NoRequest /\ busy' = FALSE
  /\ view' = IF current.kind = "refresh" /\ ~current.bypass THEN v
             ELSE [v EXCEPT !.loading = FALSE, !.loadingMore = FALSE]

\* The catch blocks.
Fail(doc) ==
  LET kept == IF current.kind = "first" \/ (current.kind = "refresh" /\ doc = Denied)
              THEN Clear(view) ELSE view
  IN  /\ Finish([kept EXCEPT !.error = TRUE])
      /\ past' = [past EXCEPT !.dropped = TRUE]

\* Mutant: the depth after a refresh stays what it was.
ShowDeep(doc) ==
  /\ Finish([view EXCEPT !.readings = appendUnique(current.rows, doc.rows), !.next = doc.next])
  /\ past' = [past EXCEPT !.dropped = FALSE, !.kept = {}]

\* The pages of a first load or of a refresh are all there.
Show(doc) ==
  /\ Finish([view EXCEPT !.readings = appendUnique(current.rows, doc.rows), !.next = doc.next,
                         !.cursors = current.cursors])
  /\ past' = [past EXCEPT !.dropped = FALSE, !.kept = {}]

Extend(doc) ==
  /\ Finish([view EXCEPT !.readings = appendUnique(@, doc.rows), !.next = doc.next,
                         !.cursors = IF Contains(@, current.cursor) THEN @
                                     ELSE Append(@, current.cursor)])
  /\ UNCHANGED past

\* The answer to the last request comes.
Arrive(doc, known) ==
  IF doc.is # "ok" THEN Fail(doc) /\ shared' = known
  ELSE IF current.kind = "more" THEN Extend(doc.what) /\ shared' = known
  ELSE IF current.pages > 1 /\ doc.what.next # NoCursor
  THEN /\ Ask([current EXCEPT !.rows = appendUnique(@, doc.what.rows), !.cursor = doc.what.next,
                              !.pages = @ - 1, !.cursors = Append(@, doc.what.next)], known)
       /\ UNCHANGED <<view, busy, past>>
  ELSE Show(doc.what) /\ shared' = known

ServeList ==
  /\ \/ \E f \in shared : \E answer \in Reply(f.token, Answered(Page(f.cursor))) :
          /\ f.doc = Waiting
          /\ Replied(answer)
          /\ shared' = (shared \ {f}) \cup {[f EXCEPT !.doc = answer]}
          /\ UNCHANGED current
     \/ /\ current # NoRequest /\ current.bypass /\ current.own = Waiting
        /\ \E answer \in Reply(current.token, Answered(Page(current.cursor))) :
             Replied(answer) /\ current' = [current EXCEPT !.own = answer]
        /\ UNCHANGED shared
  /\ UNCHANGED <<server, token, view, busy, submit, past>>

WaitsFor(f) == current # NoRequest /\ ~current.bypass /\ Same(f, current)

\* An answer comes; if only requests with older numbers wait for it, nothing
\* happens.
DeliverList ==
  /\ \/ \E f \in shared :
          /\ f.doc # Waiting
          /\ IF WaitsFor(f) THEN Arrive(f.doc, shared \ {f})
             ELSE shared' = shared \ {f} /\ UNCHANGED <<view, current, busy, past>>
     \/ /\ current # NoRequest /\ current.bypass /\ current.own # Waiting
        /\ Arrive(current.own, shared)
  /\ UNCHANGED <<server, token, submit, count>>

-----------------------------------------------------------------------------
(* The form *)

NoSubmit == [at |-> "idle"]

\* handleSubmitURL.  The depth it refreshes to is that of the click.
SubmitClick ==
  /\ submit = NoSubmit /\ token # NoToken
  /\ Event
  /\ submit' = [at |-> "sent", token |-> token, pages |-> Len(view.cursors) + 1]
  /\ UNCHANGED <<server, token, view, current, busy, shared, past>>

\* IngestURL: a new URL becomes the next reading, a reading that failed is reset,
\* and either is run; any other reading is left as it is.
IngestURL(id) ==
  \/ /\ server[id].status = "failed" \/ \A i \in Ids : server[i] = Absent <=> i >= id
     /\ server' = [server EXCEPT ![id] = [status |-> "pending", version |-> @.version + 1]]
  \/ server[id].status \in {"pending", "ready"} /\ UNCHANGED server

\* It may be done although the answer is lost.
SubmitServe ==
  /\ submit.at = "sent"
  /\ \E id \in Ids, answer \in Reply(submit.token, [is |-> "ok"]) :
       /\ Replied(answer)
       /\ \/ answer # Denied /\ IngestURL(id)
          \/ answer.is # "ok" /\ UNCHANGED server
       /\ submit' = IF answer.is = "ok"
                    THEN [at |-> "done", token |-> submit.token, pages |-> submit.pages,
                          id |-> id, version |-> server'[id].version]
                    ELSE [at |-> "failed"]
  /\ UNCHANGED <<token, view, current, busy, shared, past>>

Later(i, j) == IF i > j THEN i ELSE j

\* The row on screen may be older than an acknowledged submit: it stays.
Acknowledged ==
  LET older == \E i \in DOMAIN view.readings :
                 view.readings[i].id = submit.id /\ view.readings[i].version < submit.version
  IN  past' = [past EXCEPT !.submitted[submit.id] = Later(@, submit.version),
                           !.kept = IF older THEN @ \cup {submit.id} ELSE @]

\* Mutant: the refresh joins what is under way.
SubmitAckShared ==
  /\ submit.at = "done"
  /\ IF submit.token # token
     THEN submit' = NoSubmit /\ UNCHANGED <<view, current, busy, shared, past>>
     ELSE /\ submit' = [at |-> "refreshing"]
          /\ Acknowledged
          /\ busy' = TRUE
          /\ view' = [view EXCEPT !.loading = TRUE, !.loadingMore = FALSE, !.error = FALSE]
          /\ Ask([Request("refresh", token, NoCursor) EXCEPT !.pages = submit.pages], shared)
  /\ UNCHANGED <<server, token, count>>

\* It is acknowledged: what is under way is older than that, so the refresh
\* asks for itself, whatever is loading.
SubmitAck ==
  /\ submit.at = "done"
  /\ IF submit.token # token
     THEN submit' = NoSubmit /\ UNCHANGED <<view, current, busy, shared, past>>
     ELSE /\ submit' = [at |-> "refreshing"]
          /\ Acknowledged
          /\ busy' = TRUE
          /\ view' = [view EXCEPT !.loading = TRUE, !.loadingMore = FALSE, !.error = FALSE]
          /\ Ask([Request("refresh", token, NoCursor) EXCEPT !.pages = submit.pages, !.bypass = TRUE], {})
  /\ UNCHANGED <<server, token, count>>

\* It failed, or its refresh is over or has been overtaken.
SubmitEnd ==
  /\ \/ submit.at = "failed"
     \/ submit.at = "refreshing" /\ ~(current # NoRequest /\ current.bypass)
  /\ submit' = NoSubmit
  /\ UNCHANGED <<server, token, view, current, busy, shared, count, past>>

-----------------------------------------------------------------------------

Restarted(row, version) ==
  [row EXCEPT !.status = "pending", !.version = Later(@, version)]

\* handleReprocess: the reset of the reading is acknowledged.  What is under
\* way is older than that, and the list shows the reset at once.
ListReset(id, version) ==
  /\ shared' = {} /\ current' = NoRequest /\ busy' = FALSE
  /\ view' = [view EXCEPT !.loading = FALSE, !.loadingMore = FALSE,
                          !.readings = [i \in DOMAIN @ |-> IF @[i].id # id THEN @[i]
                                                            ELSE Restarted(@[i], version)]]
  /\ past' = [past EXCEPT !.reset[id] = Later(@, version), !.dropped = @ \/ current # NoRequest]

\* The page opens with a token in localStorage; the first load has started.
ListInit ==
  /\ server = [id \in Ids |-> IF id > Ready THEN Absent
                               ELSE [status |-> IF id \in Failed THEN "failed" ELSE "ready",
                                     version |-> 1]]
  /\ token = "good"
  /\ count = [events |-> 0, errors |-> 0]
  /\ past = [reset |-> [id \in Ids |-> 0], submitted |-> [id \in Ids |-> 0],
             kept |-> {}, dropped |-> FALSE]
  /\ view = [EmptyView EXCEPT !.loading = TRUE]
  /\ current = Request("first", token, NoCursor) /\ busy = TRUE
  /\ shared = {[token |-> token, cursor |-> NoCursor, doc |-> Waiting]}
  /\ submit = NoSubmit

\* The steps that know nothing of the detail view.
ListStep ==
  \/ \E id \in Ids : Settle(id)
  \/ Poll \/ handleLoadMore \/ ServeList \/ DeliverList
  \/ SubmitClick \/ SubmitServe \/ SubmitAck \/ SubmitEnd

-----------------------------------------------------------------------------
(* Properties of the list *)

ShownIds == {view.readings[i].id : i \in DOMAIN view.readings}

\* What is shown are the pages from the first to where the next one starts:
\* newest first, nothing twice, with the cursor of every page where that starts,
\* whatever was added, refreshed or appended meanwhile (App.tsx
\* refreshVisibleReadings, appendUniqueReadings, mergeReadingsDocuments).
ListIsPages ==
  LET rows == view.readings
  IN  /\ \A i, j \in DOMAIN rows : i < j => rows[i].id > rows[j].id
      /\ view.next # NoCursor => rows # << >> /\ Last(rows).id = view.next
      /\ rows # << >> =>
           /\ \A i \in DOMAIN view.cursors : view.cursors[i] = rows[i * PageSize].id
           /\ Len(rows) <= PageSize * (Len(view.cursors) + 1)

\* Read your writes: no page that was asked for before a submit or a reprocess
\* was acknowledged is shown after it.  A row is not older than the last reset
\* of it by an acknowledged reprocess.  A row is older than the last
\* acknowledged submit of it only while it is still the row that was on screen
\* when that came and no first load or refresh has succeeded since: a submit
\* leaves the rows as they are (App.tsx handleSubmitURL), so the old row of a
\* failed reading stays until the refresh answers, and if that fails until a
\* later one does.  The reading of a submit or a reprocess is there unless its
\* place is further down or the request that would have brought it failed or
\* was given up.
ListReadsYourWrites ==
  /\ \A i \in DOMAIN view.readings :
       LET row == view.readings[i]
       IN  /\ row.version >= past.reset[row.id]
           /\ row.version >= past.submitted[row.id] \/ row.id \in past.kept
  /\ ~busy /\ ~past.dropped /\ view.readings # << >> =>
       \A id \in Ids : past.reset[id] > 0 \/ past.submitted[id] > 0 =>
         id \in ShownIds \/ id < Last(view.readings).id
==============================================================================
