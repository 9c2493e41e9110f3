----------------------------- MODULE ReadingOps -----------------------------
(***************************************************************************)
(* internal/readingops/service.go: the requests that create, replace and   *)
(* reset readings, over the store, the blobs and the dispatcher, with the  *)
(* runs of the pipeline beside them.                                       *)
(*                                                                         *)
(* A request is a goroutine of an HTTP handler or of the command line.     *)
(* Each of its calls is a step.  A call may fail; a failed write may have  *)
(* landed.  What a run does is Processing's subject: here it keeps blobs,  *)
(* points the row at them, indexes the reading and settles it.  A forced   *)
(* submit is taken to wait until the run it replaces has stopped.          *)
(***************************************************************************)
EXTENDS UrlKey

CONSTANTS
  Urls,       \* the URLs users submit
  MaxId,      \* bound of the model: ids NewID gives out
  Requests,   \* goroutines
  MaxRequest, \* bound of the model: requests that change something
  MaxRun,     \* bound of the model: runs started
  MaxBody,    \* bound of the model: markdown bodies uploaded
  MaxError,   \* bound of the model: calls that fail, channels that are full
  MaxCrash    \* bound of the model: restarts of the process

\* One of the URLs at least has a key: the reading that may be there at first
\* was submitted once.
ASSUME ReadingOpsAssumption ==
  /\ MaxId \in Nat \ {0}
  /\ {MaxRequest, MaxRun, MaxBody, MaxError, MaxCrash} \subseteq Nat
  /\ \E u \in Urls : URLKey(u) # Invalid

VARIABLES
  rows,       \* the reading of every id
  blobs,      \* the keys of the stored blobs
  vectors,    \* the ids in the vector index
  run,        \* the claim of every id and how far its run is
  request,    \* where every request is and what it holds
  used,       \* how many ids have been given out
  count,      \* what the bounds count
  past        \* history, see InitOps

opsVars == <<rows, blobs, vectors, run, request, used, count, past>>

-----------------------------------------------------------------------------
(* Values *)

Ids == 1 .. MaxId     \* in the order in which NewID makes them up

NoKey == <<"none", 0, 0>>
BodyKey(id, n)    == <<"body", id, n>>      \* readings/<id>/raw.md and raw-<new id>.md
RawKey(id, n)     == <<"raw", id, n>>       \* readings/<id>/<started_at>/raw
ContentKey(id, n) == <<"content", id, n>>   \* readings/<id>/<started_at>/content

NoRow  == [status |-> "none"]
NoRun  == [at |-> "none", gen |-> 0]
Queued == [at |-> "queued", gen |-> 0]
Idle   == [at |-> "idle"]

Stored(id)  == rows[id] # NoRow
HasKey(key) == {id \in Ids : Stored(id) /\ rows[id].key = key}

\* A markdown file behind a URL is fetched like a page.
urlIngestSourceKind(key) ==
  IF ClassifySource(key) = "markdown" THEN "web" ELSE ClassifySource(key)

NewRow(q) ==
  [url |-> q.url, key |-> URLKey(q.url), status |-> "pending", started |-> 0,
   kind |-> IF q.op = "import" THEN "markdown" ELSE urlIngestSourceKind(URLKey(q.url)),
   raw |-> q.body, content |-> NoKey]

Failing == count.error < MaxError /\ count' = [count EXCEPT !.error = @ + 1]

\* A call about a reading that is gone, or one that fails.
Refused(id) == (~Stored(id) /\ UNCHANGED count) \/ Failing

Goto(r, at) == request' = [request EXCEPT ![r].at = at]
Done(r)     == request' = [request EXCEPT ![r] = Idle]

-----------------------------------------------------------------------------
(* Requests: what is there already *)

\* r works on reading id from now on, which it has read as it is.
Begin(r, op, url, id, at) ==
  /\ count.request < MaxRequest /\ count' = [count EXCEPT !.request = @ + 1]
  /\ request' = [request EXCEPT ![r] = [at |-> at, op |-> op, url |-> url, id |-> id,
                                        body |-> NoKey, seen |-> rows[id]]]
  /\ past' = [past EXCEPT !.contested =
                @ \cup {i \in {id} : \E s \in Requests : request[s] # Idle /\ request[s].id = i}]

\* newID and, for an import, the GetByID that finds the id unused.
Create(r, op, url) ==
  /\ HasKey(URLKey(url)) = {}
  /\ used < MaxId /\ used' = used + 1
  /\ Begin(r, op, url, used + 1, IF op = "import" THEN "put" ELSE "save")

\* Only a failed reading is taken up again; any other is the answer.
Reuse(r, op, url) ==
  \E id \in HasKey(URLKey(url)) :
    /\ IF rows[id].status = "failed"
       THEN Begin(r, op, url, id, IF op = "import" THEN "put" ELSE "mark")
       ELSE UNCHANGED <<request, count, past>>
    /\ UNCHANGED used

\* IngestURL and ImportMarkdown, as far as GetByURLKey.  ImportBookmarks is
\* one IngestURL after another.
Submitted(r, op, url) ==
  /\ request[r] = Idle
  /\ URLKey(url) # Invalid
  /\ Create(r, op, url) \/ Reuse(r, op, url)
  /\ UNCHANGED <<rows, blobs, vectors, run>>

\* Reprocess, as far as GetByID.  A fresh pending or running reading is left
\* alone; the clock decides whether it is fresh.
ReprocessRead(r, id) ==
  /\ request[r] = Idle
  /\ Stored(id)
  /\ Begin(r, "reprocess", rows[id].url, id,
           IF rows[id].status \in {"ready", "failed"} THEN "mark" ELSE "force")
  /\ UNCHANGED <<rows, blobs, vectors, run, used>>

-----------------------------------------------------------------------------
(* Requests: new readings *)

PutBody(r) ==
  LET q == request[r]
      key == BodyKey(q.id, count.body + 1)
      counted == [count EXCEPT !.body = @ + 1]
  IN  /\ q.at = "put" /\ count.body < MaxBody
      /\ \/ /\ blobs' = blobs \cup {key}
            /\ request' = [request EXCEPT ![r].at = IF q.seen = NoRow THEN "save" ELSE "replace",
                                          ![r].body = key]
            /\ count' = counted
            /\ UNCHANGED past
         \/ /\ count.error < MaxError /\ count' = [counted EXCEPT !.error = @ + 1]
            /\ Done(r)
            /\ \E landed \in SUBSET {key} :
                 blobs' = blobs \cup landed /\ past' = [past EXCEPT !.displaced = @ \cup landed]
      /\ UNCHANGED <<rows, vectors, run, used>>

\* Mutant: the store does not compare the key of the page.
SaveUnchecked(r) ==
  LET q == request[r]
  IN  /\ q.at = "save"
      /\ rows' = [rows EXCEPT ![q.id] = NewRow(q)]
      /\ Goto(r, "submit")
      /\ UNCHANGED <<blobs, vectors, run, used, count, past>>

\* The index on url_key decides between two requests for one page.
SaveReading(r) ==
  LET q == request[r]
      saved == [rows EXCEPT ![q.id] = NewRow(q)]
      taken == HasKey(URLKey(q.url)) # {}
  IN  /\ q.at = "save"
      /\ \/ ~taken /\ rows' = saved /\ Goto(r, "submit") /\ UNCHANGED <<count, past>>
         \/ taken /\ Goto(r, "reread") /\ UNCHANGED <<rows, count, past>>
         \/ Failing /\ Goto(r, "undo") /\ UNCHANGED <<rows, past>>
         \/ /\ ~taken /\ Failing /\ rows' = saved /\ Goto(r, "undo")
            /\ past' = [past EXCEPT !.owed = @ \cup {q.id}, !.bodiless = @ \cup {q.id}]
      /\ UNCHANGED <<blobs, vectors, run, used>>

\* The request that lost reads who won, answers that reading if it can, and
\* discards its own body either way.
Reread(r) ==
  /\ request[r].at = "reread"
  /\ Goto(r, "undo")
  /\ UNCHANGED count \/ Failing
  /\ UNCHANGED <<rows, blobs, vectors, run, used, past>>

\* Deletes are best effort.
Undo(r) ==
  LET own == {request[r].body} \ {NoKey}
  IN  /\ request[r].at = "undo"
      /\ Done(r)
      /\ \/ blobs' = blobs \ own /\ UNCHANGED <<count, past>>
         \/ Failing /\ past' = [past EXCEPT !.displaced = @ \cup own] /\ UNCHANGED blobs
      /\ UNCHANGED <<rows, vectors, run, used>>

-----------------------------------------------------------------------------
(* Requests: readings that exist *)

Forced(q) == q.op = "reprocess" /\ q.seen.status \in {"pending", "running"}

\* A forced submit that fails releases its claim.
GiveUp(q) ==
  IF Forced(q) THEN run' = [run EXCEPT ![q.id] = NoRun] /\ past' = [past EXCEPT !.owed = @ \cup {q.id}]
  ELSE UNCHANGED <<run, past>>

\* markPending, as far as GetByID: a markdown reading keeps its body.
Mark(r) ==
  LET q == request[r]
  IN  /\ q.at = "mark"
      /\ \/ /\ Stored(q.id)
            /\ request' = [request EXCEPT ![r].at = "reset",
                 ![r].body = IF rows[q.id].kind = "markdown" THEN rows[q.id].raw ELSE NoKey]
            /\ UNCHANGED <<run, count, past>>
         \/ /\ Refused(q.id)
            /\ Done(r) /\ GiveUp(q)
      /\ UNCHANGED <<rows, blobs, vectors, used>>

\* store.Reprocess, the end of markPending.
Reset(q) ==
  /\ Stored(q.id)
  /\ rows' = [rows EXCEPT ![q.id] = [@ EXCEPT !.status = "pending", !.started = 0,
                                              !.raw = q.body, !.content = NoKey]]

ReprocessRow(r) ==
  LET q == request[r]
  IN  /\ q.at = "reset"
      /\ \/ Reset(q) /\ Goto(r, "submit") /\ UNCHANGED <<run, count, past>>
         \/ /\ Failing /\ Reset(q) /\ Done(r)
            /\ past' = [past EXCEPT !.owed = @ \cup {q.id}]
            /\ run' = IF Forced(q) THEN [run EXCEPT ![q.id] = NoRun] ELSE run
         \/ /\ Refused(q.id)
            /\ Done(r) /\ GiveUp(q) /\ UNCHANGED rows
      /\ UNCHANGED <<blobs, vectors, used>>

\* store.UpdateImport, in replaceFailedWithMarkdown.
Replace(q) ==
  /\ Stored(q.id)
  /\ rows' = [rows EXCEPT ![q.id] = [@ EXCEPT !.status = "pending", !.started = 0, !.kind = "markdown",
                                              !.raw = q.body, !.content = NoKey]]

UpdateImport(r) ==
  LET q == request[r]
  IN  /\ q.at = "replace"
      /\ \/ Replace(q) /\ Goto(r, "delete old") /\ UNCHANGED <<count, past>>
         \/ /\ Failing /\ Replace(q) /\ Goto(r, "undo")
            /\ past' = [past EXCEPT !.owed = @ \cup {q.id}, !.bodiless = @ \cup {q.id},
                                    !.displaced = @ \cup {q.seen.raw}]
         \/ /\ Refused(q.id)
            /\ Goto(r, "undo") /\ UNCHANGED <<rows, past>>
      /\ UNCHANGED <<blobs, vectors, run, used>>

\* Mutant: the row is read again, and what it points at now is deleted.
DeleteCurrent(r) ==
  LET q == request[r]
  IN  /\ q.at = "delete old"
      /\ Goto(r, "submit")
      /\ blobs' = blobs \ (IF Stored(q.id) THEN {rows[q.id].raw, rows[q.id].content} ELSE {})
      /\ UNCHANGED <<rows, vectors, run, used, count, past>>

\* What the row pointed at when it was read is deleted, best effort.
DeleteOld(r) ==
  LET q == request[r]
      old == {q.seen.raw, q.seen.content} \cap blobs
  IN  /\ q.at = "delete old"
      /\ Goto(r, "submit")
      /\ \/ blobs' = blobs \ old /\ UNCHANGED <<count, past>>
         \/ /\ Failing
            /\ \E kept \in (SUBSET old) \ {{}} :
                 blobs' = blobs \ (old \ kept) /\ past' = [past EXCEPT !.displaced = @ \cup kept]
      /\ UNCHANGED <<rows, vectors, run, used>>

-----------------------------------------------------------------------------
(* Requests: the dispatcher *)

\* Mutant: only a reading that is new is submitted.
SubmitCreated(r) ==
  LET q == request[r]
  IN  /\ q.at = "submit"
      /\ Done(r)
      /\ run' = IF q.seen = NoRow THEN [run EXCEPT ![q.id] = Queued] ELSE run
      /\ UNCHANGED <<rows, blobs, vectors, used, count, past>>

\* Submit, or the end of ForceSubmitAfter.  A claimed reading is not queued
\* again; an item that finds the channel full is dropped with its claim.
Submit(r) ==
  LET q == request[r]
      free == run[q.id].at \in {"none", "forced"}
  IN  /\ q.at = "submit"
      /\ Done(r)
      /\ \/ free /\ run' = [run EXCEPT ![q.id] = Queued] /\ UNCHANGED <<count, past>>
         \/ ~free /\ UNCHANGED <<run, count, past>>
         \/ /\ free /\ Failing /\ run' = [run EXCEPT ![q.id] = NoRun]
            /\ past' = [past EXCEPT !.owed = @ \cup {q.id}]
      /\ UNCHANGED <<rows, blobs, vectors, used>>

\* ForceSubmitAfter: one at a time takes the claim over and waits for the
\* run that had it.
ForceClaim(r) ==
  LET q == request[r]
  IN  /\ q.at = "force"
      /\ \A id \in Ids : run[id].at # "forced"
      /\ run' = [run EXCEPT ![q.id] = [at |-> "forced", gen |-> 0]]
      /\ Goto(r, "mark")
      /\ UNCHANGED <<rows, blobs, vectors, used, count, past>>

-----------------------------------------------------------------------------
(* Runs *)

RunAt(id, at) == run[id].at = at
Fenced(id)    == Stored(id) /\ rows[id].status = "running" /\ rows[id].started = run[id].gen

StartRun(id) ==
  /\ RunAt(id, "queued") /\ Stored(id) /\ count.run < MaxRun
  /\ count' = [count EXCEPT !.run = @ + 1]
  /\ rows' = [rows EXCEPT ![id] = [@ EXCEPT !.status = "running", !.started = count.run + 1]]
  /\ run' = [run EXCEPT ![id] = [at |-> "running", gen |-> count.run + 1]]
  /\ UNCHANGED <<blobs, vectors, request, used, past>>

\* The reading is gone, or the write fails.
StartFails(id) ==
  /\ RunAt(id, "queued")
  /\ Refused(id)
  /\ run' = [run EXCEPT ![id] = NoRun]
  /\ past' = [past EXCEPT !.owed = @ \cup {id}]
  /\ UNCHANGED <<rows, blobs, vectors, request, used>>

\* The source of an imported reading is its body; a fetched page is kept.
StoreContent(id) ==
  /\ RunAt(id, "running") /\ Stored(id)
  /\ rows[id].kind = "markdown" => rows[id].raw \in blobs
  /\ blobs' = blobs \cup {ContentKey(id, run[id].gen)}
                    \cup (IF rows[id].kind = "web" THEN {RawKey(id, run[id].gen)} ELSE {})
  /\ run' = [run EXCEPT ![id].at = "stored"]
  /\ UNCHANGED <<rows, vectors, request, used, count, past>>

\* The checkpoint lands only on the row this run has marked running.
Checkpoint(id) ==
  /\ RunAt(id, "stored") /\ Fenced(id)
  /\ rows' = [rows EXCEPT ![id] = [@ EXCEPT !.content = ContentKey(id, run[id].gen),
                                            !.raw = IF rows[id].kind = "web" THEN RawKey(id, run[id].gen)
                                                    ELSE rows[id].raw]]
  /\ run' = [run EXCEPT ![id].at = "pointed"]
  /\ UNCHANGED <<blobs, vectors, request, used, count, past>>

\* The index knows nothing of the rows.
Index(id) ==
  /\ RunAt(id, "pointed")
  /\ vectors' = vectors \cup {id}
  /\ run' = [run EXCEPT ![id].at = "indexed"]
  /\ UNCHANGED <<rows, blobs, request, used, count, past>>

\* The end of a run, or its retry: only a run that got everywhere is ready.
\* The write does nothing to a reading that is gone.
Settle(id) ==
  /\ run[id].at \in {"running", "stored", "pointed", "indexed"}
  /\ \E status \in {"failed", "pending"} \cup (IF RunAt(id, "indexed") /\ Fenced(id) THEN {"ready"} ELSE {}) :
       /\ rows' = IF Stored(id) THEN [rows EXCEPT ![id].status = status] ELSE rows
       /\ run' = [run EXCEPT ![id] = IF status = "pending" THEN Queued ELSE NoRun]
  /\ UNCHANGED <<blobs, vectors, request, used, count, past>>

-----------------------------------------------------------------------------
(* The process *)

\* Bodies a request has in its hands: staged for a row, or to be deleted.
InHand(q) ==
  CASE q.at \in {"save", "replace", "reread", "undo"} -> {q.body}
    [] q.at = "delete old" -> {q.seen.raw, q.seen.content}
    [] OTHER -> {}

\* A crash loses the requests and the claims; the sweep of the next process
\* queues what is pending, and what has been running for too long.
Restart ==
  /\ count.crash < MaxCrash /\ count' = [count EXCEPT !.crash = @ + 1]
  /\ \E overdue \in SUBSET {id \in Ids : rows[id].status = "running"} :
       run' = [id \in Ids |-> IF rows[id].status = "pending" \/ id \in overdue THEN Queued ELSE NoRun]
  /\ request' = [r \in Requests |-> Idle]
  /\ past' = [past EXCEPT !.owed = {}, !.displaced = @ \cup UNION {InHand(request[r]) : r \in Requests}]
  /\ UNCHANGED <<rows, blobs, vectors, used>>

\* A reading whose run failed after its checkpoint, before the model starts.
FailedRow(url, kind) ==
  [url |-> url, key |-> URLKey(url), status |-> "failed", started |-> 0, kind |-> kind,
   raw |-> IF kind = "markdown" THEN BodyKey(1, 0) ELSE RawKey(1, 0), content |-> ContentKey(1, 0)]

\* The store is empty, or one reading has failed.
InitOps ==
  /\ \/ rows = [id \in Ids |-> NoRow] /\ blobs = {} /\ used = 0
     \/ \E kind \in {"web", "markdown"} :
          /\ rows = [id \in Ids |-> IF id = 1 THEN FailedRow(CHOOSE u \in Urls : URLKey(u) # Invalid, kind) ELSE NoRow]
          /\ blobs = {rows[1].raw, rows[1].content} /\ used = 1
  /\ count = [request |-> 0, run |-> 0, body |-> 0, error |-> 0, crash |-> 0]
  /\ vectors = {id \in Ids : Stored(id)}
  /\ run = [id \in Ids |-> NoRun]
  /\ request = [r \in Requests |-> Idle]
  /\ past = [owed      |-> {},    \* readings whose Submit a failure took away
             displaced |-> {},    \* blobs a failure or a crash left behind
             bodiless  |-> {},    \* readings that lost their body to a rollback or a drop
             contested |-> {}]    \* readings two requests worked on at the same time

RequestStep(r) ==
  \/ \E op \in {"ingest", "import"}, url \in Urls : Submitted(r, op, url)
  \/ \E id \in Ids : ReprocessRead(r, id)
  \/ PutBody(r) \/ SaveReading(r) \/ Reread(r) \/ Undo(r)
  \/ Mark(r) \/ ReprocessRow(r) \/ UpdateImport(r) \/ DeleteOld(r)
  \/ Submit(r) \/ ForceClaim(r)

RunStep(id) ==
  StartRun(id) \/ StartFails(id) \/ StoreContent(id) \/ Checkpoint(id) \/ Index(id) \/ Settle(id)

OpsNext == Restart \/ (\E r \in Requests : RequestStep(r)) \/ (\E id \in Ids : RunStep(id))

-----------------------------------------------------------------------------
(* Properties *)

\* Two URLs have one key exactly when they show one page, for every pair of
\* Spellings (evaluated where the store is empty: it says nothing of states).
OneKeyPerPage == used = 0 => KeyIsPage

\* However two requests for one page interleave, it gets one reading.
OneReadingPerPage ==
  \A i, j \in Ids : Stored(i) /\ Stored(j) /\ SamePage(rows[i].url, rows[j].url) => i = j

\* A pending reading is queued or running, or a request is about to submit
\* it, or a failure the code knows of has taken its Submit away (the restart
\* makes up for that).
PendingIsSubmitted ==
  \A id \in Ids :
    rows[id].status = "pending" =>
      \/ run[id].at # "none"
      \/ id \in past.owed
      \/ \E r \in Requests : request[r].at \in {"delete old", "submit"} /\ request[r].id = id

\* An uploaded body and its reading stay together.  A body that no row points
\* at is in the hands of a request, or was left behind by a failure; the body
\* of an imported reading is there, unless a write that was reported as failed
\* had landed, and a fetched reading has no body.  Requests that overlapped on
\* one reading are excepted.
BodiesOwned ==
  /\ \A key \in blobs :
       key[1] = "body" =>
         \/ Stored(key[2]) /\ rows[key[2]].raw = key
         \/ key \in past.displaced \cup UNION {InHand(request[r]) : r \in Requests}
         \/ key[2] \in past.contested
  /\ \A id \in {i \in Ids \ past.contested : Stored(i)} :
       IF rows[id].kind = "markdown"
       THEN rows[id].raw[1] = "body" /\ (rows[id].raw \in blobs \/ id \in past.bodiless)
       ELSE rows[id].raw[1] \in {"raw", "none"}
=============================================================================
