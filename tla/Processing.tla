----------------------------- MODULE Processing -----------------------------
(***************************************************************************)
(* internal/pipeline/pipeline.go: what the runs of one reading do to its   *)
(* content in the store, to the blobs and to the vector index, while       *)
(* requests of internal/readingops reset, force or replace the reading.    *)
(*                                                                         *)
(* The dispatcher is Lifecycle.  A run does its calls one after another;   *)
(* a call checks its context when it is entered and lands in a later step, *)
(* so a run that was replaced lands at most the call it was in, and the    *)
(* next one fails.  An action is the landing of one call that changes      *)
(* something, with the calls before it that only read or compute.          *)
(*                                                                         *)
(* A generation is the started_at of a run; 0 stands for a nil started_at. *)
(***************************************************************************)
EXTENDS Lifecycle

CONSTANTS
  Requests,     \* the goroutines of the HTTP handlers
  Kinds,        \* the source kinds a reading may have at first
  MaxRun,       \* bound of the model: runs started
  MaxImport,    \* bound of the model: markdown bodies imported
  ForcesDrain   \* TRUE when every handler stops within ForceWaitTTL

ASSUME ProcessingAssumption ==
  /\ Kinds \subseteq {"web", "youtube", "markdown", "reddit"}
  /\ MaxRun \in Nat /\ MaxImport \in Nat
  /\ ForcesDrain \in BOOLEAN

VARIABLES
  started,      \* started_at of the row
  kind,         \* source_kind of the row
  contentKey,   \* content_key of the row
  rawKey,       \* raw_key of the row
  summary,      \* the summary in the row: who wrote it, from which text
  tags,         \* the tags of the row, likewise
  blobs,        \* the text of every blob
  vector,       \* the vector of the reading: its generation, and of which text
  pipe,         \* where every run is and what it holds
  clock,        \* the last started_at given out
  request,      \* where every request is and what it holds
  imported,     \* markdown bodies stored
  serving,      \* the startup sweep is over
  outdated,     \* history: runs that loaded the reading before its last reset
  undone        \* history: bodies removed by the rollback of an import

contentVars == <<contentKey, rawKey, summary, tags>>
rowVars     == <<started, kind, contentVars>>
runVars     == <<pipe, clock, outdated>>
requestVars == <<request, imported, serving, undone>>
vars == <<lifeVars, rowVars, blobs, vector, runVars, requestVars>>

-----------------------------------------------------------------------------
(* Values *)

Texts == ({"fetched"} \X (1 .. MaxRun)) \cup ({"imported"} \X (0 .. MaxImport))
Keys  == ({"raw", "content"} \X (0 .. MaxRun)) \cup ({"import"} \X (0 .. MaxImport))
NoText == <<"none", 0>>
NoKey  == <<"none", 0>>

\* runKey: the blobs of a run are named by the started_at it has loaded.
RawKeyOf(fence)     == <<"raw", fence>>
ContentKeyOf(fence) == <<"content", fence>>

NoSummary == [by |-> 0, of |-> NoText]
NoVector  == [gen |-> 0, of |-> NoText]

NoPipe == [at |-> "off", gen |-> 0, fence |-> 0, kind |-> "web",
           raw |-> NoKey, content |-> NoKey, text |-> NoText]
Idle   == [at |-> "idle", raw |-> NoKey, content |-> NoKey, body |-> NoKey]

\* The forced submit of a request, from its claim until its item is queued.
ForceSteps == {"await", "force mark", "force reset"}
Forcing    == \E q \in Requests : request[q].at \in ForceSteps

-----------------------------------------------------------------------------
(* Runs: from the claim to the load of the reading *)

\* The context of a run that has been replaced fails its next call.
Proceed(w, at) == IF w \in live THEN at ELSE "aborted"

\* The item of a forced submit is queued only after its reset.
BeginRun(w) ==
  /\ ~Forcing
  /\ Begin(w)
  /\ UNCHANGED <<rowVars, blobs, vector, runVars, requestVars>>

StartRun(w) ==
  /\ clock < MaxRun
  /\ EnterRunningWrite(w)
  /\ clock' = clock + 1
  /\ pipe' = [pipe EXCEPT ![w].gen = clock + 1]
  /\ UNCHANGED <<rowVars, blobs, vector, outdated, requestVars>>

RunningLands(w) ==
  /\ MarkRunning(w)
  /\ started' = pipe[w].gen
  /\ pipe' = [pipe EXCEPT ![w].at = Proceed(w, "load")]
  /\ UNCHANGED <<kind, contentVars, blobs, vector, clock, outdated, requestVars>>

RunningFails(w) ==
  /\ RunningWriteFails(w)
  /\ \E landed \in BOOLEAN :
       /\ landed => stage[w] = "writing"
       /\ row' = IF landed THEN Running(w) ELSE row
       /\ started' = IF landed THEN pipe[w].gen ELSE started
  /\ pipe' = [pipe EXCEPT ![w] = NoPipe]
  /\ outdated' = outdated \ {w}
  /\ UNCHANGED <<kind, contentVars, blobs, vector, clock, requestVars>>

\* Process loads the reading: what it does and how its writes are fenced
\* follows from the row as it is now, not as the Running write left it.
Load(w) ==
  /\ pipe[w].at = "load"
  /\ pipe' = [pipe EXCEPT
       ![w] = [@ EXCEPT !.at = Proceed(w, IF kind = "reddit" THEN "rejected"
                                          ELSE IF contentKey # NoKey THEN "reuse"
                                          ELSE "acquire"),
                        !.fence = started, !.kind = kind,
                        !.raw = rawKey, !.content = contentKey]]
  /\ UNCHANGED <<lifeVars, rowVars, blobs, vector, clock, outdated, requestVars>>

-----------------------------------------------------------------------------
(* Runs: the steps of Process *)

At(w, at) == stage[w] = "handling" /\ pipe[w].at = at

\* Mutant: the fence compares the status and not the generation.
FenceStatusOnly(w) == pipe[w].fence # 0 => row.status = "running"

\* ExpectedStartedAt: a nil generation is not fenced.
FenceOK(w) == pipe[w].fence # 0 => row.status = "running" /\ started = pipe[w].fence

\* A checkpoint is there already: its content is used again.
Reuse(w) ==
  /\ At(w, "reuse")
  /\ blobs[pipe[w].content] # NoText
  /\ pipe' = [pipe EXCEPT ![w].at = Proceed(w, "vector"), ![w].text = blobs[pipe[w].content]]
  /\ UNCHANGED <<lifeVars, rowVars, blobs, vector, clock, outdated, requestVars>>

Acquired(w, text, raw) ==
  /\ pipe' = [pipe EXCEPT ![w] = [@ EXCEPT !.at = Proceed(w, "index"), !.text = text, !.raw = raw]]
  /\ UNCHANGED <<lifeVars, rowVars, vector, clock, outdated, requestVars>>

\* A page is fetched, extracted, and kept as it was fetched.
AcquireFetched(w) ==
  /\ At(w, "acquire") /\ pipe[w].kind = "web"
  /\ blobs' = [blobs EXCEPT ![RawKeyOf(pipe[w].fence)] = <<"fetched", pipe[w].gen>>]
  /\ Acquired(w, <<"fetched", pipe[w].gen>>, RawKeyOf(pipe[w].fence))

\* A video has no raw blob.
AcquireYouTube(w) ==
  /\ At(w, "acquire") /\ pipe[w].kind = "youtube"
  /\ Acquired(w, <<"fetched", pipe[w].gen>>, pipe[w].raw)
  /\ UNCHANGED blobs

\* The source of a markdown reading is the body that was imported.
AcquireMarkdown(w) ==
  /\ At(w, "acquire") /\ pipe[w].kind = "markdown"
  /\ pipe[w].raw # NoKey /\ blobs[pipe[w].raw] # NoText
  /\ Acquired(w, blobs[pipe[w].raw], pipe[w].raw)
  /\ UNCHANGED blobs

\* embed, query, hydrate, and the blob the checkpoint will point at.
Index(w) ==
  LET key == ContentKeyOf(pipe[w].fence)
  IN  /\ At(w, "index")
      /\ blobs' = [blobs EXCEPT ![key] = pipe[w].text]
      /\ pipe' = [pipe EXCEPT ![w].at = Proceed(w, "checkpoint"), ![w].content = key]
      /\ UNCHANGED <<lifeVars, rowVars, vector, clock, outdated, requestVars>>

\* UpdateContent, with the summary given.
UpdateContent(w, sum) ==
  /\ FenceOK(w)
  /\ contentKey' = pipe[w].content
  /\ rawKey' = pipe[w].raw
  /\ summary' = sum
  /\ UNCHANGED <<lifeVars, started, kind, tags, blobs, vector, clock, outdated, requestVars>>

Checkpoint(w) ==
  /\ At(w, "checkpoint")
  /\ UpdateContent(w, NoSummary)
  /\ pipe' = [pipe EXCEPT ![w].at = Proceed(w, "vector")]

\* Mutant: the index does not compare generations.
UpsertLastWins(w) ==
  /\ At(w, "vector")
  /\ vector' = [gen |-> pipe[w].fence, of |-> pipe[w].text]
  /\ pipe' = [pipe EXCEPT ![w].at = Proceed(w, "persist")]
  /\ UNCHANGED <<lifeVars, rowVars, blobs, clock, outdated, requestVars>>

\* The index keeps a vector of a later generation, and says nothing.
Upsert(w) ==
  /\ At(w, "vector")
  /\ vector' = IF pipe[w].fence # 0 /\ vector.gen > pipe[w].fence THEN vector
               ELSE [gen |-> pipe[w].fence, of |-> pipe[w].text]
  /\ pipe' = [pipe EXCEPT ![w].at = Proceed(w, "persist")]
  /\ UNCHANGED <<lifeVars, rowVars, blobs, clock, outdated, requestVars>>

SummaryBy(w) == [by |-> pipe[w].gen, of |-> pipe[w].text]

Persist(w) ==
  /\ At(w, "persist")
  /\ UpdateContent(w, SummaryBy(w))
  /\ pipe' = [pipe EXCEPT ![w].at = Proceed(w, "tags")]

\* Mutant: tags are written without ExpectedStartedAt.
ReplaceTagsUnfenced(w) ==
  /\ At(w, "tags")
  /\ tags' = SummaryBy(w)
  /\ pipe' = [pipe EXCEPT ![w].at = Proceed(w, "notify")]
  /\ UNCHANGED <<lifeVars, started, kind, contentKey, rawKey, summary, blobs, vector,
                 clock, outdated, requestVars>>

ReplaceTags(w) ==
  /\ At(w, "tags") /\ FenceOK(w)
  /\ tags' = SummaryBy(w)
  /\ pipe' = [pipe EXCEPT ![w].at = Proceed(w, "notify")]
  /\ UNCHANGED <<lifeVars, started, kind, contentKey, rawKey, summary, blobs, vector,
                 clock, outdated, requestVars>>

\* The notification, and one more best-effort write of the same content.
Notify(w) ==
  /\ At(w, "notify")
  /\ pipe' = [pipe EXCEPT ![w].at = Proceed(w, "done")]
  /\ \/ UpdateContent(w, SummaryBy(w))
     \/ UNCHANGED <<lifeVars, rowVars, blobs, vector, clock, outdated, requestVars>>

\* What Process may return from where it is.  Calls of external services fail
\* in every way Classify knows; a conflict, a missing blob, an error of the
\* store, also one reported for a write that landed, is a Retry.
Returns(w) ==
  LET markdown == pipe[w].at = "acquire" /\ pipe[w].kind = "markdown"
  IN  CASE pipe[w].at = "rejected" -> {"Fail"}
        [] markdown -> IF pipe[w].raw = NoKey THEN {"Fail"} ELSE {"Retry"}
        [] pipe[w].at \in {"acquire", "index", "vector", "persist"} /\ ~markdown -> {"Retry", "Requeue", "Fail"}
        [] pipe[w].at = "done" -> {"Done"}
        [] OTHER -> {"Retry"}

Return(w) ==
  /\ \E outcome \in Returns(w) : HandlerReturns(w, outcome)
  /\ pipe' = [pipe EXCEPT ![w] = NoPipe]
  /\ outdated' = outdated \ {w}
  /\ UNCHANGED <<rowVars, blobs, vector, clock, requestVars>>

Settle(w) == FinishRelease(w) /\ UNCHANGED <<rowVars, blobs, vector, runVars, requestVars>>

-----------------------------------------------------------------------------
(* Requests on a reading that exists *)

Goto(q, at) == request' = [request EXCEPT ![q].at = at]
Finish(q)   == request' = [request EXCEPT ![q] = Idle]

Quiet == UNCHANGED <<imported, serving, undone>>
NoRun == UNCHANGED <<pipe, clock>>

\* IngestURL and Reprocess read the row; what they do about a settled row, or
\* one whose age makes it stale, follows in later steps.
Reset(q) ==
  /\ serving /\ request[q].at = "idle"
  /\ row.status \in {"ready", "failed"}
  /\ Goto(q, "mark")
  /\ Quiet /\ UNCHANGED <<lifeVars, rowVars, blobs, vector, runVars>>

ForceRead(q) ==
  /\ serving /\ request[q].at = "idle"
  /\ row.status \in {"pending", "running"}
  /\ Goto(q, "force")
  /\ Quiet /\ UNCHANGED <<lifeVars, rowVars, blobs, vector, runVars>>

ForceClaim(q) ==
  /\ request[q].at = "force" /\ ~Forcing
  /\ Replace
  /\ Goto(q, "await")
  /\ Quiet /\ UNCHANGED <<rowVars, blobs, vector, runVars>>

\* The wait ends when the stale handlers have stopped or ForceWaitTTL is over.
Drained(q) ==
  /\ request[q].at = "await"
  /\ ForcesDrain => \A w \in Runs : stage[w] = "off"
  /\ Goto(q, "force mark")
  /\ Quiet /\ UNCHANGED <<lifeVars, rowVars, blobs, vector, runVars>>

\* markPending reads which body a markdown reading has.
MarkRead(q) ==
  /\ request[q].at \in {"mark", "force mark"}
  /\ request' = [request EXCEPT
       ![q] = [@ EXCEPT !.at = IF request[q].at = "mark" THEN "reset" ELSE "force reset",
                        !.raw = IF kind = "markdown" THEN rawKey ELSE NoKey]]
  /\ Quiet /\ UNCHANGED <<lifeVars, rowVars, blobs, vector, runVars>>

\* The row starts anew; the runs that have loaded it are outdated.
Cleared(raw) ==
  /\ started' = 0
  /\ contentKey' = NoKey
  /\ rawKey' = raw
  /\ summary' = NoSummary
  /\ outdated' = {w \in Runs : pipe[w].at \notin {"off", "load"}}

\* store.Reprocess; it writes whatever the row has become, and keeps the tags.
Reprocess(raw) ==
  /\ ResetRow
  /\ Cleared(raw)
  /\ UNCHANGED <<kind, tags>>

NothingReset == UNCHANGED <<lifeVars, rowVars, outdated>>

MarkPending(q) ==
  /\ request[q].at = "reset"
  /\ Reprocess(request[q].raw)
  /\ Goto(q, "submit")
  /\ Quiet /\ NoRun /\ UNCHANGED <<blobs, vector>>

\* An error, also of a write that landed, ends the request.
MarkPendingFails(q) ==
  /\ \/ request[q].at = "mark" /\ NothingReset
     \/ request[q].at = "reset" /\ (Reprocess(request[q].raw) \/ NothingReset)
  /\ Finish(q)
  /\ Quiet /\ NoRun /\ UNCHANGED <<blobs, vector>>

\* A forced reset; its item is queued in the same step.
ForceMarkPending(q) ==
  /\ request[q].at = "force reset"
  /\ Reprocess(request[q].raw)
  /\ Finish(q)
  /\ Quiet /\ NoRun /\ UNCHANGED <<blobs, vector>>

\* Its reset fails: the replacement claim is released and nothing is queued.
ForceFails(q) ==
  /\ \/ /\ request[q].at \in {"force mark", "force reset"}
        /\ GiveUp(FALSE)
        /\ UNCHANGED <<rowVars, outdated>>
     \/ /\ request[q].at = "force reset"
        /\ GiveUp(TRUE)
        /\ Cleared(request[q].raw)
        /\ UNCHANGED <<kind, tags>>
  /\ Finish(q)
  /\ Quiet /\ NoRun /\ UNCHANGED <<blobs, vector>>

\* A Submit is dropped while the work of the reading is somebody's.
Submit(q) ==
  /\ request[q].at = "submit" /\ ~Settling
  /\ \/ Accept(0)
     \/ work # "none" /\ UNCHANGED lifeVars
  /\ Finish(q)
  /\ Quiet /\ UNCHANGED <<rowVars, blobs, vector, runVars>>

\* ImportMarkdown for a failed reading remembers the blobs it will replace.
Import(q) ==
  /\ serving /\ request[q].at = "idle" /\ row.status = "failed"
  /\ request' = [request EXCEPT ![q] = [Idle EXCEPT !.at = "put", !.raw = rawKey, !.content = contentKey]]
  /\ Quiet /\ UNCHANGED <<lifeVars, rowVars, blobs, vector, runVars>>

\* Mutant: the old blobs are deleted before the row points at the new body.
PutBodyDeletingOld(q) ==
  /\ request[q].at = "put" /\ imported < MaxImport
  /\ imported' = imported + 1
  /\ blobs' = [k \in Keys |-> IF k = <<"import", imported + 1>> THEN <<"imported", imported + 1>>
                              ELSE IF k \in {request[q].raw, request[q].content} THEN NoText
                              ELSE blobs[k]]
  /\ request' = [request EXCEPT ![q] = [@ EXCEPT !.at = "update", !.body = <<"import", imported + 1>>]]
  /\ UNCHANGED <<lifeVars, rowVars, vector, runVars, serving, undone>>

\* The new body is stored under a key of its own.
PutBody(q) ==
  /\ request[q].at = "put" /\ imported < MaxImport
  /\ imported' = imported + 1
  /\ blobs' = [blobs EXCEPT ![<<"import", imported + 1>>] = <<"imported", imported + 1>>]
  /\ \/ request' = [request EXCEPT ![q] = [@ EXCEPT !.at = "update", !.body = <<"import", imported + 1>>]]
     \/ Finish(q)
  /\ UNCHANGED <<lifeVars, rowVars, vector, runVars, serving, undone>>

\* store.UpdateImport; the tags of the import are seeds, not a summary's.
Replaced(q) ==
  /\ ResetRow
  /\ Cleared(request[q].body)
  /\ kind' = "markdown"
  /\ tags' = NoSummary

UpdateImport(q) ==
  /\ request[q].at = "update"
  /\ Replaced(q)
  /\ Goto(q, "delete raw")
  /\ Quiet /\ NoRun /\ UNCHANGED <<blobs, vector>>

\* UpdateImport reports an error, although it may have landed; the new body
\* is then rolled back.
UpdateImportFails(q) ==
  /\ request[q].at = "update"
  /\ Replaced(q) \/ NothingReset
  /\ Goto(q, "undo")
  /\ Quiet /\ NoRun /\ UNCHANGED <<blobs, vector>>

\* Every deletion is best effort.
Without(key) == {blobs} \cup IF key = NoKey THEN {} ELSE {[blobs EXCEPT ![key] = NoText]}

Undo(q) ==
  /\ request[q].at = "undo"
  /\ blobs' \in Without(request[q].body)
  /\ undone' = undone \cup {request[q].body}
  /\ Finish(q)
  /\ UNCHANGED <<lifeVars, rowVars, vector, runVars, imported, serving>>

DeleteRaw(q) ==
  /\ request[q].at = "delete raw"
  /\ blobs' \in Without(request[q].raw)
  /\ Goto(q, "delete content")
  /\ Quiet /\ UNCHANGED <<lifeVars, rowVars, vector, runVars>>

DeleteContent(q) ==
  /\ request[q].at = "delete content"
  /\ blobs' \in Without(request[q].content)
  /\ Goto(q, "submit")
  /\ Quiet /\ UNCHANGED <<lifeVars, rowVars, vector, runVars>>

-----------------------------------------------------------------------------
(* The process *)

\* The channel is full, or the workers drain.
DropItem ==
  /\ ~Forcing
  /\ GiveUp(FALSE)
  /\ UNCHANGED <<rowVars, blobs, vector, runVars, requestVars>>

\* Mutant: the sweep recovers readings of every status.
SweepAll ==
  /\ ~serving /\ serving' = TRUE
  /\ Accept(row.attempts)
  /\ UNCHANGED <<rowVars, blobs, vector, runVars, request, imported, undone>>

\* Sweep: a pending row, and a running one that is overdue, resumes where the
\* row says; afterwards the server serves.
Sweep ==
  /\ ~serving /\ serving' = TRUE
  /\ \/ row.status \in {"pending", "running"} /\ Accept(row.attempts)
     \/ row.status # "pending" /\ UNCHANGED lifeVars
  /\ UNCHANGED <<rowVars, blobs, vector, runVars, request, imported, undone>>

\* The store, the blobs and the index survive.
Stop ==
  /\ Crash
  /\ pipe' = [w \in Runs |-> NoPipe]
  /\ request' = [q \in Requests |-> Idle]
  /\ outdated' = {}
  /\ serving' = FALSE
  /\ UNCHANGED <<rowVars, blobs, vector, clock, imported, undone>>

\* A reading that was stored and never run; a markdown one has its body.
Init ==
  /\ LifeInit /\ row = Pending(0)
  /\ kind \in Kinds
  /\ started = 0 /\ contentKey = NoKey
  /\ rawKey = IF kind = "markdown" THEN <<"import", 0>> ELSE NoKey
  /\ summary = NoSummary /\ tags = NoSummary
  /\ blobs = [k \in Keys |-> IF k = rawKey THEN <<"imported", 0>> ELSE NoText]
  /\ vector = NoVector
  /\ pipe = [w \in Runs |-> NoPipe]
  /\ clock = 0 /\ imported = 0
  /\ request = [q \in Requests |-> Idle]
  /\ serving = FALSE /\ outdated = {} /\ undone = {}

RunNext(w) ==
  \/ BeginRun(w) \/ StartRun(w) \/ RunningLands(w) \/ RunningFails(w) \/ Load(w)
  \/ Reuse(w) \/ AcquireFetched(w) \/ AcquireYouTube(w) \/ AcquireMarkdown(w)
  \/ Index(w) \/ Checkpoint(w) \/ Upsert(w) \/ Persist(w) \/ ReplaceTags(w) \/ Notify(w)
  \/ Return(w) \/ Settle(w)

RequestNext(q) ==
  \/ Reset(q) \/ MarkRead(q) \/ MarkPending(q) \/ MarkPendingFails(q) \/ Submit(q)
  \/ ForceRead(q) \/ ForceClaim(q) \/ Drained(q) \/ ForceMarkPending(q) \/ ForceFails(q)
  \/ Import(q) \/ PutBody(q) \/ UpdateImport(q) \/ UpdateImportFails(q) \/ Undo(q)
  \/ DeleteRaw(q) \/ DeleteContent(q)

Next ==
  \/ \E w \in Runs : RunNext(w)
  \/ \E q \in Requests : RequestNext(q)
  \/ DropItem \/ Sweep \/ Stop

Spec == Init /\ [][Next]_vars

-----------------------------------------------------------------------------
(* Safety *)

\* Every variable has the type its declaration describes.
TypeOK ==
  /\ row.status \in {"pending", "running", "ready", "failed"} /\ row.attempts \in 0 .. MaxAttempts - 1
  /\ started \in 0 .. clock /\ clock \in 0 .. MaxRun
  /\ kind \in Kinds \cup {"markdown"}
  /\ {contentKey, rawKey} \subseteq Keys \cup {NoKey}
  /\ \A s \in {summary, tags} : s.by \in 0 .. clock /\ s.of \in Texts \cup {NoText}
  /\ blobs \in [Keys -> Texts \cup {NoText}]
  /\ vector.gen \in 0 .. clock /\ vector.of \in Texts \cup {NoText}
  /\ \A w \in Runs : (stage[w] = "handling") = (pipe[w].at # "off")
  /\ imported \in 0 .. MaxImport
  /\ outdated \subseteq {w \in Runs : stage[w] = "handling"}

\* "Ready means processing completed successfully": a ready reading points at
\* content that is there, its summary is of that content, and its tags are of
\* the run that wrote the summary, whatever was retried, forced or restarted.
ReadyIsComplete ==
  row.status = "ready" =>
    /\ contentKey # NoKey /\ blobs[contentKey] # NoText
    /\ summary.of = blobs[contentKey]
    /\ tags = summary

\* "A crash between the two leaves an orphan blob but no dangling pointer":
\* the content the row points at is there, and so is the body of a markdown
\* reading, which can be fetched from nowhere else, unless the import that
\* stored it reported an error and was rolled back.
NoDanglingPointer ==
  /\ contentKey # NoKey => blobs[contentKey] # NoText
  /\ kind = "markdown" => rawKey # NoKey /\ (blobs[rawKey] # NoText \/ rawKey \in undone)

\* The vector of a ready reading is of its content and bears its generation,
\* also when a stale run beside its replacement, or one before a crash, was in
\* the index last, unless a generation before the last one was written back to
\* the row by a Running write that came late.
VectorMatchesContent ==
  row.status = "ready" /\ started = clock => vector = [gen |-> started, of |-> blobs[contentKey]]

\* ExpectedStartedAt prevents "stale in-flight handlers from overwriting
\* replacement content after a manual reprocess": a run that loaded the reading
\* before its last reset changes its content no more.
FenceHolds ==
  [][\A w \in outdated : pipe'[w] # pipe[w] => UNCHANGED contentVars]_vars

\* The table of allowed transitions (status.go): no step takes a row from one
\* status to another that the table does not list.
Allowed ==
  {<<"pending", "running">>, <<"pending", "failed">>, <<"running", "ready">>,
   <<"running", "failed">>, <<"running", "pending">>, <<"ready", "pending">>,
   <<"failed", "pending">>}
TransitionsAllowed ==
  [][row'.status # row.status => <<row.status, row'.status>> \in Allowed]_vars
=============================================================================
