--------------------------- MODULE ProcessingProofs ---------------------------
(***************************************************************************)
(* Theorems about Processing, for any number of runs, imports and          *)
(* attempts.  The types need nothing else.  The rest is about one request  *)
(* at a time (OneRequest): with two that overlap it is not true.           *)
(***************************************************************************)
EXTENDS Processing, TLAPS

-----------------------------------------------------------------------------
(* Types *)

Statuses == {"pending", "running", "ready", "failed"}
KindSet  == {"web", "youtube", "markdown", "reddit"}

Places == {"off", "load", "aborted", "rejected", "reuse", "acquire", "index", "checkpoint",
           "vector", "persist", "tags", "notify", "done"}
RequestPlaces ==
  {"idle", "mark", "reset", "submit", "force", "await", "force mark", "force reset",
   "put", "update", "undo", "delete raw", "delete content"}

SomeKey  == Keys \cup {NoKey}
SomeText == Texts \cup {NoText}
Clocks   == 0 .. MaxRun
Notes    == [by : Clocks, of : SomeText]
Vectors  == [gen : Clocks, of : SomeText]
Pipes    == [at : Places, gen : Clocks, fence : Clocks, kind : KindSet,
             raw : SomeKey, content : SomeKey, text : SomeText]
Held     == [at : RequestPlaces, raw : SomeKey, content : SomeKey, body : SomeKey]

LifeTypes ==
  /\ row \in [status : Statuses, attempts : 0 .. MaxAttempts - 1]
  /\ work \in {"none", "waiting", "held"}
  /\ next \in 0 .. MaxAttempts - 1
  /\ live \subseteq Runs
  /\ stage \in [Runs -> RunStages \cup {"off"}]
  /\ attempt \in [Runs -> 0 .. MaxAttempts - 1]

RowTypes ==
  /\ started \in Clocks
  /\ kind \in KindSet \cap (Kinds \cup {"markdown"})
  /\ contentKey \in SomeKey /\ rawKey \in SomeKey
  /\ summary \in Notes /\ tags \in Notes
  /\ blobs \in [Keys -> SomeText]
  /\ vector \in Vectors

RunTypes ==
  /\ clock \in Clocks
  /\ pipe \in [Runs -> Pipes]
  /\ outdated \subseteq Runs

RequestTypes ==
  /\ request \in [Requests -> Held]
  /\ imported \in 0 .. MaxImport
  /\ serving \in BOOLEAN

\* What a run holds where it is.
PipeTypes ==
  \A w \in Runs :
    /\ stage[w] = "handling" <=> pipe[w].at # "off"
    /\ stage[w] \in {"writing", "handling"} => pipe[w].gen > 0
    /\ pipe[w].at = "reuse" => pipe[w].content # NoKey
    /\ pipe[w].gen <= clock /\ pipe[w].fence <= clock
    /\ w \in outdated => stage[w] = "handling"

\* What the store and the index hold was written by a run that was started.
Dated == started <= clock /\ summary.by <= clock /\ tags.by <= clock /\ vector.gen <= clock

HeldTypes ==
  \A q \in Requests :
    request[q].at \in {"update", "undo", "delete raw", "delete content"} => request[q].body # NoKey

Types == LifeTypes /\ RowTypes /\ RunTypes /\ RequestTypes /\ PipeTypes /\ Dated /\ HeldTypes

-----------------------------------------------------------------------------
(* What Lifecycle does, whoever takes its steps *)

LEMMA DecideType ==
  ASSUME NEW outcome \in Outcomes, NEW n \in 0 .. MaxAttempts - 1
  PROVE  Decide(outcome, n, MaxAttempts).next \in 0 .. MaxAttempts - 1
BY LifecycleAssumption DEF Decide

LEMMA LifeTyped == ASSUME LifeTypes, [LifeNext]_lifeVars PROVE LifeTypes'
<1> USE LifecycleAssumption
<1>1. CASE ResetRow
  BY <1>1 DEF ResetRow, LifeTypes, Pending, Statuses
<1>2. ASSUME NEW n \in 0 .. MaxAttempts - 1, Accept(n)
      PROVE  LifeTypes'
  BY <1>2 DEF Accept, LifeTypes
<1>3. ASSUME NEW reset \in BOOLEAN, GiveUp(reset)
      PROVE  LifeTypes'
  BY <1>3 DEF GiveUp, LifeTypes, Pending, Statuses
<1>4. CASE Replace
  BY <1>4 DEF Replace, LifeTypes
<1>5. ASSUME NEW w \in Runs, Begin(w)
      PROVE  LifeTypes'
  BY <1>5 DEF Begin, LifeTypes, RunStages
<1>6. ASSUME NEW w \in Runs, EnterRunningWrite(w)
      PROVE  LifeTypes'
  BY <1>6 DEF EnterRunningWrite, LifeTypes, RunStages
<1>7. ASSUME NEW w \in Runs, MarkRunning(w)
      PROVE  LifeTypes'
  BY <1>7 DEF MarkRunning, Running, LifeTypes, RunStages, Statuses
<1>8. ASSUME NEW w \in Runs, RunningWriteFails(w)
      PROVE  LifeTypes'
  BY <1>8 DEF RunningWriteFails, Running, EndRun, LifeTypes, RunStages, Statuses
<1>9. ASSUME NEW w \in Runs, NEW outcome \in Outcomes, HandlerReturns(w, outcome)
      PROVE  LifeTypes'
  <2>1. CASE Discard(w)
    BY <2>1 DEF Discard, EndRun, LifeTypes, RunStages
  <2>2. ASSUME NEW landed \in BOOLEAN, FinishWrite(w, outcome, landed)
        PROVE  LifeTypes'
    BY <2>2 DEF FinishWrite, LifeTypes, RunStages, Statuses
  <2>3. ASSUME NEW landed \in BOOLEAN, Redispatch(w, outcome, landed)
        PROVE  LifeTypes'
    <3>1. Decide(outcome, attempt[w], MaxAttempts).next \in 0 .. MaxAttempts - 1
      BY DecideType DEF LifeTypes
    <3> QED
      BY <2>3, <3>1 DEF Redispatch, Pending, EndRun, LifeTypes, RunStages, Statuses
  <2> QED
    BY <1>9, <2>1, <2>2, <2>3 DEF HandlerReturns
<1>10. ASSUME NEW w \in Runs, FinishRelease(w)
       PROVE  LifeTypes'
  BY <1>10 DEF FinishRelease, EndRun, LifeTypes, RunStages
<1>11. CASE Crash
  BY <1>11 DEF Crash, LifeTypes, RunStages
<1>12. CASE UNCHANGED lifeVars
  BY <1>12 DEF lifeVars, LifeTypes
<1> QED
  BY <1>1, <1>2, <1>3, <1>4, <1>5, <1>6, <1>7, <1>8, <1>9, <1>10, <1>11, <1>12 DEF LifeNext, RunStep

\* One run is live at most, it holds the work, and a run that writes its
\* outcome is live.
LifeOwners ==
  /\ \A v, w \in live : v = w
  /\ live = {} <=> work # "held"
  /\ \A w \in live : stage[w] # "off"
  /\ \A w \in Runs : stage[w] = "finishing" => w \in live

LEMMA LifeOwned == ASSUME LifeTypes, LifeOwners, [LifeNext]_lifeVars PROVE LifeOwners'
<1>1. CASE ResetRow
  BY <1>1 DEF ResetRow, LifeOwners
<1>2. ASSUME NEW n \in 0 .. MaxAttempts - 1, Accept(n)
      PROVE  LifeOwners'
  BY <1>2 DEF Accept, LifeOwners
<1>3. ASSUME NEW reset \in BOOLEAN, GiveUp(reset)
      PROVE  LifeOwners'
  BY <1>3 DEF GiveUp, LifeOwners
<1>4. CASE Replace
  BY <1>4 DEF Replace, Settling, LifeOwners
<1>5. ASSUME NEW w \in Runs, Begin(w)
      PROVE  LifeOwners'
  BY <1>5 DEF Begin, LifeOwners, LifeTypes
<1>6. ASSUME NEW w \in Runs, EnterRunningWrite(w)
      PROVE  LifeOwners'
  BY <1>6 DEF EnterRunningWrite, LifeOwners, LifeTypes
<1>7. ASSUME NEW w \in Runs, MarkRunning(w)
      PROVE  LifeOwners'
  BY <1>7 DEF MarkRunning, LifeOwners, LifeTypes
<1>8. ASSUME NEW w \in Runs, NEW passedOn \in {"none", "waiting"}, NEW n, EndRun(w, passedOn, n)
      PROVE  LifeOwners'
  BY <1>8 DEF EndRun, LifeOwners, LifeTypes
<1>9. ASSUME NEW w \in Runs, NEW outcome \in Outcomes, HandlerReturns(w, outcome)
      PROVE  LifeOwners'
  <2>1. ASSUME NEW landed \in BOOLEAN, FinishWrite(w, outcome, landed)
        PROVE  LifeOwners'
    BY <2>1 DEF FinishWrite, LifeOwners, LifeTypes
  <2> QED
    BY <1>8, <1>9, <2>1 DEF HandlerReturns, Discard, Redispatch
<1>10. ASSUME NEW w \in Runs, FinishRelease(w) \/ RunningWriteFails(w)
       PROVE  LifeOwners'
  BY <1>8, <1>10 DEF FinishRelease, RunningWriteFails
<1>11. CASE Crash
  BY <1>11 DEF Crash, LifeOwners
<1>12. CASE UNCHANGED lifeVars
  BY <1>12 DEF lifeVars, LifeOwners
<1> QED
  BY <1>1, <1>2, <1>3, <1>4, <1>5, <1>6, <1>7, <1>9, <1>10, <1>11, <1>12 DEF LifeNext, RunStep

-----------------------------------------------------------------------------
(* Every step is one of Lifecycle, or none *)

LEMMA LifeStep == ASSUME LifeTypes, [Next]_vars PROVE [LifeNext]_lifeVars
<1> USE LifecycleAssumption
<1>1. ASSUME NEW w \in Runs, RunNext(w)
      PROVE  [LifeNext]_lifeVars
  <2>1. CASE BeginRun(w) \/ StartRun(w) \/ RunningLands(w) \/ RunningFails(w) \/ Settle(w)
    BY <2>1 DEF BeginRun, StartRun, RunningLands, RunningFails, Settle, LifeNext, RunStep
  <2>2. CASE Return(w)
    <3>1. \E outcome \in Outcomes : HandlerReturns(w, outcome)
      BY <2>2 DEF Return, Returns, Outcomes
    <3> QED
      BY <3>1 DEF LifeNext, RunStep
  <2>3. CASE \/ Load(w) \/ Reuse(w) \/ AcquireFetched(w) \/ AcquireYouTube(w) \/ AcquireMarkdown(w)
             \/ Index(w) \/ Checkpoint(w) \/ Upsert(w) \/ Persist(w) \/ ReplaceTags(w) \/ Notify(w)
    BY <2>3 DEF Load, Reuse, AcquireFetched, AcquireYouTube, AcquireMarkdown, Acquired, Index,
                Checkpoint, Upsert, Persist, ReplaceTags, Notify, UpdateContent
  <2> QED
    BY <1>1, <2>1, <2>2, <2>3 DEF RunNext
<1>2. ASSUME NEW q \in Requests, RequestNext(q)
      PROVE  [LifeNext]_lifeVars
  <2>1. CASE \/ MarkPending(q) \/ MarkPendingFails(q) \/ ForceMarkPending(q) \/ UpdateImport(q)
             \/ UpdateImportFails(q)
    BY <2>1 DEF MarkPending, MarkPendingFails, ForceMarkPending, UpdateImport, UpdateImportFails,
                Reprocess, Replaced, NothingReset, LifeNext
  <2>2. CASE ForceFails(q)
    <3>1. GiveUp(FALSE) \/ GiveUp(TRUE)
      BY <2>2 DEF ForceFails
    <3> QED
      BY <3>1 DEF LifeNext
  <2>4. CASE Submit(q)
    BY <2>4 DEF Submit, LifeNext
  <2>5. CASE ForceClaim(q)
    BY <2>5 DEF ForceClaim, LifeNext
  <2>3. CASE Reset(q) \/ MarkRead(q) \/ ForceRead(q) \/ Drained(q) \/ Import(q)
    BY <2>3 DEF Reset, MarkRead, ForceRead, Drained, Import
  <2>6. CASE PutBody(q)
    BY <2>6 DEF PutBody
  <2>7. CASE Undo(q)
    BY <2>7 DEF Undo
  <2>8. CASE DeleteRaw(q)
    BY <2>8 DEF DeleteRaw
  <2>9. CASE DeleteContent(q)
    BY <2>9 DEF DeleteContent
  <2> QED
    BY <1>2, <2>1, <2>2, <2>3, <2>4, <2>5, <2>6, <2>7, <2>8, <2>9 DEF RequestNext
<1>3. CASE DropItem \/ Sweep \/ Stop
  BY <1>3 DEF DropItem, Sweep, Stop, LifeNext, LifeTypes
<1>4. CASE UNCHANGED vars
  BY <1>4 DEF vars
<1> QED
  BY <1>1, <1>2, <1>3, <1>4 DEF Next

-----------------------------------------------------------------------------
(* Types are kept *)

LEMMA KeysOf ==
  ASSUME NEW n \in Clocks
  PROVE  RawKeyOf(n) \in Keys /\ ContentKeyOf(n) \in Keys
BY DEF RawKeyOf, ContentKeyOf, Keys, Clocks

LEMMA TextOf ==
  ASSUME NEW n \in Clocks, n > 0
  PROVE  <<"fetched", n>> \in Texts /\ <<"fetched", n>> # NoText
BY ProcessingAssumption DEF Texts, Clocks, NoText

\* The control of a run: none of its locals but where it is.
LEMMA RunTyped ==
  ASSUME Types, LifeTypes', NEW w \in Runs,
         \/ BeginRun(w) \/ StartRun(w) \/ RunningLands(w) \/ RunningFails(w) \/ Return(w) \/ Settle(w)
  PROVE  Types'
<1> USE ProcessingAssumption DEF Types
<1>1. CASE BeginRun(w) \/ Settle(w)
  <2>1. UNCHANGED <<rowVars, blobs, vector, runVars, requestVars>>
    BY <1>1 DEF BeginRun, Settle
  <2>2. PipeTypes'
    BY <1>1, <2>1 DEF BeginRun, Settle, Begin, FinishRelease, EndRun, PipeTypes, LifeTypes, runVars
  <2> QED
    BY <2>1, <2>2 DEF RowTypes, RunTypes, RequestTypes, Dated, HeldTypes, rowVars, contentVars, runVars, requestVars
<1>2. CASE StartRun(w)
  <2>1. UNCHANGED <<rowVars, blobs, vector, outdated, requestVars>>
    BY <1>2 DEF StartRun
  <2>2. clock' = clock + 1 /\ clock' \in Clocks
    BY <1>2 DEF StartRun, RunTypes, Clocks
  <2>3. RunTypes'
    BY <1>2, <2>1, <2>2 DEF StartRun, RunTypes, Pipes
  <2>4. PipeTypes'
    BY <1>2, <2>1, <2>2 DEF StartRun, EnterRunningWrite, PipeTypes, RunTypes, LifeTypes, Pipes, Clocks
  <2>5. Dated'
    BY <2>1, <2>2 DEF Dated, RowTypes, RunTypes, Clocks, Notes, Vectors, rowVars, contentVars
  <2> QED
    BY <2>1, <2>3, <2>4, <2>5 DEF RowTypes, RequestTypes, HeldTypes, rowVars, contentVars, requestVars
<1>3. CASE RunningLands(w)
  <2>1. UNCHANGED <<kind, contentVars, blobs, vector, clock, outdated, requestVars>>
    BY <1>3 DEF RunningLands
  <2>2. started' = pipe[w].gen /\ pipe[w].gen \in Clocks /\ pipe[w].gen <= clock
    BY <1>3 DEF RunningLands, RunTypes, Pipes, PipeTypes
  <2>3. RunTypes'
    BY <1>3, <2>1 DEF RunningLands, RunTypes, Pipes, Proceed, Places
  <2>4. PipeTypes'
    BY <1>3, <2>1 DEF RunningLands, MarkRunning, PipeTypes, RunTypes, LifeTypes, Pipes, Proceed
  <2> QED
    BY <2>1, <2>2, <2>3, <2>4 DEF RowTypes, RequestTypes, Dated, HeldTypes, contentVars, requestVars
<1>4. CASE RunningFails(w)
  <2>1. UNCHANGED <<kind, contentVars, blobs, vector, clock, requestVars>>
    BY <1>4 DEF RunningFails
  <2>2. started' \in Clocks /\ started' <= clock
    BY <1>4 DEF RunningFails, RunTypes, RowTypes, Pipes, PipeTypes, Dated
  <2>3. NoPipe \in Pipes
    BY DEF NoPipe, Pipes, Clocks, Places, KindSet, SomeKey, SomeText
  <2>4. RunTypes'
    BY <1>4, <2>1, <2>3 DEF RunningFails, RunTypes
  <2>5. PipeTypes'
    BY <1>4, <2>1 DEF RunningFails, RunningWriteFails, EndRun, PipeTypes, RunTypes, LifeTypes, NoPipe, Clocks
  <2> QED
    BY <2>1, <2>2, <2>4, <2>5 DEF RowTypes, RequestTypes, Dated, HeldTypes, contentVars, requestVars
<1>5. CASE Return(w)
  <2>1. UNCHANGED <<rowVars, blobs, vector, clock, requestVars>>
    BY <1>5 DEF Return
  <2>2. NoPipe \in Pipes
    BY DEF NoPipe, Pipes, Clocks, Places, KindSet, SomeKey, SomeText
  <2>3. RunTypes'
    BY <1>5, <2>1, <2>2 DEF Return, RunTypes
  <2>4. stage' = [stage EXCEPT ![w] = "off"] \/ stage' = [stage EXCEPT ![w] = "finishing"]
    BY <1>5 DEF Return, HandlerReturns, Discard, FinishWrite, Redispatch, EndRun
  <2>5. pipe' = [pipe EXCEPT ![w] = NoPipe] /\ outdated' = outdated \ {w}
    BY <1>5 DEF Return
  <2>6. PipeTypes'
    BY <2>1, <2>4, <2>5 DEF PipeTypes, RunTypes, LifeTypes, NoPipe, Clocks
  <2> QED
    BY <2>1, <2>3, <2>6 DEF RowTypes, RequestTypes, Dated, HeldTypes, rowVars, contentVars, requestVars
<1> QED
  BY <1>1, <1>2, <1>3, <1>4, <1>5

\* A run takes its record p: the other runs keep theirs.
LEMMA PipeTyped ==
  ASSUME Types, NEW w \in Runs, NEW p \in Pipes, pipe[w].at # "off", p.at # "off",
         p.gen = pipe[w].gen, p.fence <= clock, p.at = "reuse" => p.content # NoKey,
         pipe' = [pipe EXCEPT ![w] = p], UNCHANGED <<lifeVars, clock, outdated>>
  PROVE  RunTypes' /\ PipeTypes'
BY DEF Types, LifeTypes, RunTypes, PipeTypes, lifeVars

LEMMA ProceedIs ==
  ASSUME NEW w, NEW at \in Places
  PROVE  Proceed(w, at) \in Places /\ Proceed(w, at) \in {at, "aborted"}
BY DEF Proceed, Places

\* The record of a run that goes on to at, or stops there.
LEMMA GoesOn ==
  ASSUME NEW p \in Pipes, NEW at \in Places, NEW r, r = [p EXCEPT !.at = at]
  PROVE  /\ r \in Pipes /\ r.at = at
         /\ r.gen = p.gen /\ r.fence = p.fence /\ r.kind = p.kind
         /\ r.raw = p.raw /\ r.content = p.content /\ r.text = p.text
BY DEF Pipes

LEMMA LoadTyped == ASSUME Types, NEW w \in Runs, Load(w) PROVE Types'
<1> DEFINE at == Proceed(w, IF kind = "reddit" THEN "rejected"
                            ELSE IF contentKey # NoKey THEN "reuse" ELSE "acquire")
           p  == [pipe[w] EXCEPT !.at = at, !.fence = started, !.kind = kind, !.raw = rawKey, !.content = contentKey]
<1>1. UNCHANGED <<lifeVars, rowVars, blobs, vector, clock, outdated, requestVars>>
  BY DEF Load
<1>2. at \in Places /\ at # "off" /\ (at = "reuse" => contentKey # NoKey)
  BY DEF Proceed, Places
<1>3. pipe[w] \in Pipes /\ pipe[w].at # "off" /\ started \in Clocks /\ kind \in KindSet
      /\ rawKey \in SomeKey /\ contentKey \in SomeKey /\ started <= clock
  BY DEF Types, RunTypes, RowTypes, Dated, Load
<1>4. p \in Pipes /\ p.at = at /\ p.gen = pipe[w].gen /\ p.fence = started /\ p.content = contentKey
  <2> HIDE DEF at
  <2> QED
    BY <1>2, <1>3 DEF Pipes
<1>5. pipe' = [pipe EXCEPT ![w] = p]
  BY DEF Load
<1>6. RunTypes' /\ PipeTypes'
  <2> HIDE DEF at, p
  <2> QED
    BY <1>1, <1>2, <1>3, <1>4, <1>5, PipeTyped
<1>7. LifeTypes' /\ RowTypes' /\ RequestTypes' /\ HeldTypes' /\ Dated'
  BY <1>1 DEF Types, LifeTypes, RowTypes, RequestTypes, HeldTypes, Dated, lifeVars, rowVars, contentVars, requestVars
<1> QED
  BY <1>6, <1>7 DEF Types

\* A run goes on to at, with the raw key, the content key and the text given.
Steps(w, at, raw, content, text) ==
  /\ pipe' \in [Runs -> Pipes]
  /\ \A v \in Runs : v # w => pipe'[v] = pipe[v]
  /\ pipe'[w].at = Proceed(w, at)
  /\ pipe'[w].gen = pipe[w].gen /\ pipe'[w].fence = pipe[w].fence /\ pipe'[w].kind = pipe[w].kind
  /\ pipe'[w].raw = raw /\ pipe'[w].content = content /\ pipe'[w].text = text

LEMMA MovesOn ==
  ASSUME Types, NEW w \in Runs, NEW at \in Places,
         pipe' = [pipe EXCEPT ![w].at = Proceed(w, at)]
  PROVE  Steps(w, at, pipe[w].raw, pipe[w].content, pipe[w].text)
<1>1. Proceed(w, at) \in Places
  BY ProceedIs
<1>2. pipe \in [Runs -> Pipes]
  BY DEF Types, RunTypes
<1> QED
  BY <1>1, <1>2 DEF Steps, Pipes

LEMMA ReuseDoes ==
  ASSUME Types, NEW w \in Runs, Reuse(w)
  PROVE  Steps(w, "vector", pipe[w].raw, pipe[w].content, blobs[pipe[w].content])
<1>1. Proceed(w, "vector") \in Places
  BY DEF Proceed, Places
<1>2. pipe \in [Runs -> Pipes] /\ blobs[pipe[w].content] \in SomeText
  <2>1. pipe[w].content \in Keys
    BY DEF Types, RunTypes, PipeTypes, Reuse, At, Pipes, SomeKey
  <2> QED
    BY <2>1 DEF Types, RunTypes, RowTypes
<1>3. pipe' = [pipe EXCEPT ![w].at = Proceed(w, "vector"), ![w].text = blobs[pipe[w].content]]
  BY DEF Reuse
<1> QED
  BY <1>1, <1>2, <1>3 DEF Steps, Pipes

LEMMA AcquiredDoes ==
  ASSUME Types, NEW w \in Runs, NEW text \in SomeText, NEW raw \in SomeKey, Acquired(w, text, raw)
  PROVE  Steps(w, "index", raw, pipe[w].content, text)
<1>1. Proceed(w, "index") \in Places
  BY DEF Proceed, Places
<1>2. pipe \in [Runs -> Pipes]
  BY DEF Types, RunTypes
<1>3. pipe' = [pipe EXCEPT ![w] = [@ EXCEPT !.at = Proceed(w, "index"), !.text = text, !.raw = raw]]
  BY DEF Acquired
<1> QED
  BY <1>1, <1>2, <1>3 DEF Steps, Pipes

LEMMA FetchedDoes ==
  ASSUME Types, NEW w \in Runs, AcquireFetched(w)
  PROVE  /\ RawKeyOf(pipe[w].fence) \in Keys /\ <<"fetched", pipe[w].gen>> \in Texts
         /\ <<"fetched", pipe[w].gen>> # NoText
         /\ Steps(w, "index", RawKeyOf(pipe[w].fence), pipe[w].content, <<"fetched", pipe[w].gen>>)
<1>1. pipe[w].gen \in Clocks /\ pipe[w].gen > 0 /\ pipe[w].fence \in Clocks
  BY DEF Types, RunTypes, PipeTypes, Pipes, AcquireFetched, At
<1>2. RawKeyOf(pipe[w].fence) \in Keys /\ <<"fetched", pipe[w].gen>> \in Texts /\ <<"fetched", pipe[w].gen>> # NoText
  BY <1>1, KeysOf, TextOf
<1> QED
  BY <1>2, AcquiredDoes DEF AcquireFetched, SomeKey, SomeText

LEMMA YouTubeDoes ==
  ASSUME Types, NEW w \in Runs, AcquireYouTube(w)
  PROVE  /\ <<"fetched", pipe[w].gen>> \in Texts /\ <<"fetched", pipe[w].gen>> # NoText
         /\ Steps(w, "index", pipe[w].raw, pipe[w].content, <<"fetched", pipe[w].gen>>)
<1>1. pipe[w].gen \in Clocks /\ pipe[w].gen > 0 /\ pipe[w].raw \in SomeKey
  BY DEF Types, RunTypes, PipeTypes, Pipes, AcquireYouTube, At
<1>2. <<"fetched", pipe[w].gen>> \in Texts /\ <<"fetched", pipe[w].gen>> # NoText
  BY <1>1, TextOf
<1> QED
  BY <1>1, <1>2, AcquiredDoes DEF AcquireYouTube, SomeText

LEMMA MarkdownDoes ==
  ASSUME Types, NEW w \in Runs, AcquireMarkdown(w)
  PROVE  /\ pipe[w].raw \in Keys /\ blobs[pipe[w].raw] \in Texts
         /\ Steps(w, "index", pipe[w].raw, pipe[w].content, blobs[pipe[w].raw])
<1>1. pipe[w].raw \in Keys
  BY DEF Types, RunTypes, Pipes, AcquireMarkdown, SomeKey
<1>2. blobs[pipe[w].raw] \in Texts
  BY <1>1 DEF Types, RowTypes, AcquireMarkdown, SomeText
<1> QED
  BY <1>1, <1>2, AcquiredDoes DEF AcquireMarkdown, SomeText, SomeKey

LEMMA IndexDoes ==
  ASSUME Types, NEW w \in Runs, Index(w)
  PROVE  /\ ContentKeyOf(pipe[w].fence) \in Keys
         /\ Steps(w, "checkpoint", pipe[w].raw, ContentKeyOf(pipe[w].fence), pipe[w].text)
<1> DEFINE key == ContentKeyOf(pipe[w].fence)
<1>1. Proceed(w, "checkpoint") \in Places
  BY DEF Proceed, Places
<1>2. pipe \in [Runs -> Pipes] /\ pipe[w].fence \in Clocks
  BY DEF Types, RunTypes, Pipes
<1>3. key \in Keys /\ key \in SomeKey
  BY <1>2, KeysOf DEF SomeKey
<1>4. pipe' = [pipe EXCEPT ![w].at = Proceed(w, "checkpoint"), ![w].content = key]
  BY DEF Index
<1> QED
  <2> HIDE DEF key
  <2>1. Steps(w, "checkpoint", pipe[w].raw, key, pipe[w].text)
    BY <1>1, <1>2, <1>3, <1>4 DEF Steps, Pipes
  <2> QED
    BY <1>3, <2>1 DEF key

\* The steps that change nothing in their record but where it is.
LEMMA OtherDoes ==
  ASSUME Types, NEW w \in Runs
  PROVE  /\ Checkpoint(w) => Steps(w, "vector", pipe[w].raw, pipe[w].content, pipe[w].text)
         /\ Upsert(w) => Steps(w, "persist", pipe[w].raw, pipe[w].content, pipe[w].text)
         /\ Persist(w) => Steps(w, "tags", pipe[w].raw, pipe[w].content, pipe[w].text)
         /\ ReplaceTags(w) => Steps(w, "notify", pipe[w].raw, pipe[w].content, pipe[w].text)
         /\ Notify(w) => Steps(w, "done", pipe[w].raw, pipe[w].content, pipe[w].text)
<1>1. {"vector", "persist", "tags", "notify", "done"} \subseteq Places
  BY DEF Places
<1>2. Checkpoint(w) => pipe' = [pipe EXCEPT ![w].at = Proceed(w, "vector")]
  BY DEF Checkpoint
<1>3. Upsert(w) => pipe' = [pipe EXCEPT ![w].at = Proceed(w, "persist")]
  BY DEF Upsert
<1>4. Persist(w) => pipe' = [pipe EXCEPT ![w].at = Proceed(w, "tags")]
  BY DEF Persist
<1>5. ReplaceTags(w) => pipe' = [pipe EXCEPT ![w].at = Proceed(w, "notify")]
  BY DEF ReplaceTags
<1>6. Notify(w) => pipe' = [pipe EXCEPT ![w].at = Proceed(w, "done")]
  BY DEF Notify
<1> QED
  BY <1>1, <1>2, <1>3, <1>4, <1>5, <1>6, MovesOn

\* The steps of Process that follow the load of the reading.
Work(w) ==
  \/ Reuse(w) \/ AcquireFetched(w) \/ AcquireYouTube(w) \/ AcquireMarkdown(w)
  \/ Index(w) \/ Checkpoint(w) \/ Upsert(w) \/ Persist(w) \/ ReplaceTags(w) \/ Notify(w)

\* They leave the claim, the clock, the other runs and the requests alone.
Worked(w) ==
  /\ stage[w] = "handling"
  /\ pipe[w].at \in {"reuse", "acquire", "index", "checkpoint", "vector", "persist", "tags", "notify"}
  /\ pipe' \in [Runs -> Pipes]
  /\ \A v \in Runs : v # w => pipe'[v] = pipe[v]
  /\ pipe'[w].at \in {"aborted", "index", "checkpoint", "vector", "persist", "tags", "notify", "done"}
  /\ w \in live => pipe'[w].at # "aborted"
  /\ pipe'[w].gen = pipe[w].gen /\ pipe'[w].fence = pipe[w].fence /\ pipe'[w].kind = pipe[w].kind
  /\ UNCHANGED <<lifeVars, started, kind, clock, outdated, requestVars>>

LEMMA StepsWork ==
  ASSUME NEW w \in Runs, NEW from, NEW to, NEW raw, NEW content, NEW text,
         from \in {"reuse", "acquire", "index", "checkpoint", "vector", "persist", "tags", "notify"},
         to \in {"index", "checkpoint", "vector", "persist", "tags", "notify", "done"},
         At(w, from), Steps(w, to, raw, content, text),
         UNCHANGED <<lifeVars, started, kind, clock, outdated, requestVars>>
  PROVE  Worked(w)
BY DEF Worked, At, Steps, Proceed

LEMMA WorkWorks == ASSUME Types, NEW w \in Runs, Work(w) PROVE Worked(w)
<1>1. CASE Reuse(w)
  <2>1. At(w, "reuse") /\ UNCHANGED <<lifeVars, started, kind, clock, outdated, requestVars>>
    BY <1>1 DEF Reuse, rowVars
  <2> QED
    BY <1>1, <2>1, ReuseDoes, StepsWork
<1>2. CASE AcquireFetched(w)
  <2>1. At(w, "acquire") /\ UNCHANGED <<lifeVars, started, kind, clock, outdated, requestVars>>
    BY <1>2 DEF AcquireFetched, Acquired, rowVars
  <2>2. \E raw, text : Steps(w, "index", raw, pipe[w].content, text)
    BY <1>2, FetchedDoes
  <2> QED
    BY <2>1, <2>2, StepsWork
<1>3. CASE AcquireYouTube(w)
  <2>1. At(w, "acquire") /\ UNCHANGED <<lifeVars, started, kind, clock, outdated, requestVars>>
    BY <1>3 DEF AcquireYouTube, Acquired, rowVars
  <2>2. \E raw, text : Steps(w, "index", raw, pipe[w].content, text)
    BY <1>3, YouTubeDoes
  <2> QED
    BY <2>1, <2>2, StepsWork
<1>4. CASE AcquireMarkdown(w)
  <2>1. At(w, "acquire") /\ UNCHANGED <<lifeVars, started, kind, clock, outdated, requestVars>>
    BY <1>4 DEF AcquireMarkdown, Acquired, rowVars
  <2> QED
    BY <1>4, <2>1, MarkdownDoes, StepsWork
<1>5. CASE Index(w)
  <2>1. At(w, "index") /\ UNCHANGED <<lifeVars, started, kind, clock, outdated, requestVars>>
    BY <1>5 DEF Index, rowVars
  <2> QED
    BY <1>5, <2>1, IndexDoes, StepsWork
<1>6. CASE Checkpoint(w)
  <2>1. At(w, "checkpoint") /\ UNCHANGED <<lifeVars, started, kind, clock, outdated, requestVars>>
    BY <1>6 DEF Checkpoint, UpdateContent
  <2> QED
    BY <1>6, <2>1, OtherDoes, StepsWork
<1>7. CASE Upsert(w)
  <2>1. At(w, "vector") /\ UNCHANGED <<lifeVars, started, kind, clock, outdated, requestVars>>
    BY <1>7 DEF Upsert, rowVars
  <2> QED
    BY <1>7, <2>1, OtherDoes, StepsWork
<1>8. CASE Persist(w)
  <2>1. At(w, "persist") /\ UNCHANGED <<lifeVars, started, kind, clock, outdated, requestVars>>
    BY <1>8 DEF Persist, UpdateContent
  <2> QED
    BY <1>8, <2>1, OtherDoes, StepsWork
<1>9. CASE ReplaceTags(w)
  <2>1. At(w, "tags") /\ UNCHANGED <<lifeVars, started, kind, clock, outdated, requestVars>>
    BY <1>9 DEF ReplaceTags
  <2> QED
    BY <1>9, <2>1, OtherDoes, StepsWork
<1>10. CASE Notify(w)
  <2>1. At(w, "notify") /\ UNCHANGED <<lifeVars, started, kind, clock, outdated, requestVars>>
    BY <1>10 DEF Notify, UpdateContent, rowVars
  <2> QED
    BY <1>10, <2>1, OtherDoes, StepsWork
<1> QED
  BY <1>1, <1>2, <1>3, <1>4, <1>5, <1>6, <1>7, <1>8, <1>9, <1>10 DEF Work

LEMMA SummaryTyped ==
  ASSUME Types, NEW w \in Runs
  PROVE  SummaryBy(w) \in Notes /\ SummaryBy(w).by <= clock /\ SummaryBy(w).of = pipe[w].text
BY DEF SummaryBy, Notes, Types, RunTypes, PipeTypes, Pipes

LEMMA NotesTyped == NoSummary \in Notes /\ NoSummary.by = 0 /\ 0 \in Clocks
BY ProcessingAssumption DEF NoSummary, Notes, Clocks, SomeText

LEMMA WorkTyped == ASSUME Types, NEW w \in Runs, Work(w) PROVE Types'
<1> USE DEF Types
<1>1. Worked(w)
  BY WorkWorks
<1>2. RunTypes' /\ PipeTypes'
  BY <1>1 DEF Worked, RunTypes, PipeTypes, lifeVars, Pipes
<1>3. LifeTypes' /\ RequestTypes' /\ HeldTypes'
  BY <1>1 DEF Worked, LifeTypes, RequestTypes, HeldTypes, lifeVars, requestVars
<1>4. pipe[w] \in Pipes /\ pipe[w].fence <= clock
  BY DEF RunTypes, PipeTypes
<1>5. CASE Reuse(w) \/ AcquireYouTube(w) \/ AcquireMarkdown(w)
  <2>1. UNCHANGED <<rowVars, blobs, vector, clock>>
    BY <1>5 DEF Reuse, AcquireYouTube, AcquireMarkdown, Acquired
  <2>2. RowTypes' /\ Dated'
    BY <2>1 DEF RowTypes, Dated, rowVars, contentVars
  <2> QED
    BY <1>2, <1>3, <2>2
<1>6. CASE AcquireFetched(w)
  <2>1. UNCHANGED <<rowVars, vector, clock>>
        /\ blobs' = [blobs EXCEPT ![RawKeyOf(pipe[w].fence)] = <<"fetched", pipe[w].gen>>]
    BY <1>6 DEF AcquireFetched, Acquired
  <2>2. RawKeyOf(pipe[w].fence) \in Keys /\ <<"fetched", pipe[w].gen>> \in SomeText
    BY <1>6, FetchedDoes DEF SomeText
  <2>3. blobs' \in [Keys -> SomeText]
    BY <2>1, <2>2 DEF RowTypes
  <2>4. RowTypes' /\ Dated'
    BY <2>1, <2>3 DEF RowTypes, Dated, rowVars, contentVars
  <2> QED
    BY <1>2, <1>3, <2>4
<1>7. CASE Index(w)
  <2>1. UNCHANGED <<rowVars, vector, clock>> /\ blobs' = [blobs EXCEPT ![ContentKeyOf(pipe[w].fence)] = pipe[w].text]
    BY <1>7 DEF Index
  <2>2. ContentKeyOf(pipe[w].fence) \in Keys /\ pipe[w].text \in SomeText
    BY <1>4, <1>7, IndexDoes DEF Pipes
  <2>3. blobs' \in [Keys -> SomeText]
    BY <2>1, <2>2 DEF RowTypes
  <2>4. RowTypes' /\ Dated'
    BY <2>1, <2>3 DEF RowTypes, Dated, rowVars, contentVars
  <2> QED
    BY <1>2, <1>3, <2>4
<1>8. ASSUME NEW sum \in Notes, sum.by <= clock, UpdateContent(w, sum)
      PROVE  RowTypes' /\ Dated'
  <2>1. pipe[w].content \in SomeKey /\ pipe[w].raw \in SomeKey
    BY <1>4 DEF Pipes
  <2> QED
    BY <1>8, <2>1 DEF UpdateContent, RowTypes, Dated
<1>9. CASE Checkpoint(w) \/ Persist(w) \/ Notify(w)
  <2>1. \/ UpdateContent(w, NoSummary) \/ UpdateContent(w, SummaryBy(w))
        \/ UNCHANGED <<lifeVars, rowVars, blobs, vector, clock, outdated, requestVars>>
    BY <1>9 DEF Checkpoint, Persist, Notify
  <2>2. CASE UpdateContent(w, NoSummary)
    <3>1. NoSummary.by <= clock
      BY NotesTyped DEF RunTypes, Clocks
    <3> QED
      BY <1>2, <1>3, <1>8, <2>2, <3>1, NotesTyped
  <2>3. CASE UpdateContent(w, SummaryBy(w))
    BY <1>2, <1>3, <1>8, <2>3, SummaryTyped
  <2>4. CASE UNCHANGED <<lifeVars, rowVars, blobs, vector, clock, outdated, requestVars>>
    BY <1>2, <1>3, <2>4 DEF RowTypes, Dated, rowVars, contentVars
  <2> QED
    BY <2>1, <2>2, <2>3, <2>4
<1>10. CASE Upsert(w)
  <2>1. UNCHANGED <<rowVars, blobs, clock>>
    BY <1>10 DEF Upsert
  <2>2. vector' = vector \/ vector' = [gen |-> pipe[w].fence, of |-> pipe[w].text]
    BY <1>10 DEF Upsert
  <2>3. vector' \in Vectors /\ vector'.gen <= clock
    BY <1>4, <2>2 DEF Pipes, Vectors, RowTypes, Dated
  <2>4. RowTypes' /\ Dated'
    BY <2>1, <2>3 DEF RowTypes, Dated, rowVars, contentVars
  <2> QED
    BY <1>2, <1>3, <2>4
<1>11. CASE ReplaceTags(w)
  <2>1. UNCHANGED <<started, kind, contentKey, rawKey, summary, blobs, vector, clock>> /\ tags' = SummaryBy(w)
    BY <1>11 DEF ReplaceTags
  <2>2. RowTypes' /\ Dated'
    BY <2>1, SummaryTyped DEF RowTypes, Dated
  <2> QED
    BY <1>2, <1>3, <2>2
<1> QED
  BY <1>5, <1>6, <1>7, <1>9, <1>10, <1>11 DEF Work

-----------------------------------------------------------------------------
(* The requests *)

\* A request goes on to at, with the keys given.
Goes(q, at, raw, content, body) ==
  /\ request' \in [Requests -> Held]
  /\ \A r \in Requests : r # q => request'[r] = request[r]
  /\ request'[q].at = at
  /\ request'[q].raw = raw /\ request'[q].content = content /\ request'[q].body = body

LEMMA GotoDoes ==
  ASSUME Types, NEW q \in Requests, NEW at \in RequestPlaces, Goto(q, at)
  PROVE  Goes(q, at, request[q].raw, request[q].content, request[q].body)
<1>1. request \in [Requests -> Held]
  BY DEF Types, RequestTypes
<1> QED
  BY <1>1 DEF Goto, Goes, Held

LEMMA IdleHeld == Idle \in Held /\ Idle.at = "idle" /\ Idle.raw = NoKey /\ Idle.content = NoKey /\ Idle.body = NoKey
BY DEF Idle, Held, RequestPlaces, SomeKey

LEMMA FinishDoes ==
  ASSUME Types, NEW q \in Requests, Finish(q)
  PROVE  Goes(q, "idle", NoKey, NoKey, NoKey)
<1>1. request \in [Requests -> Held]
  BY DEF Types, RequestTypes
<1> QED
  BY <1>1, IdleHeld DEF Finish, Goes

MarkRaw == IF kind = "markdown" THEN rawKey ELSE NoKey

LEMMA MarkReadDoes ==
  ASSUME Types, NEW q \in Requests, MarkRead(q)
  PROVE  /\ MarkRaw \in SomeKey
         /\ Goes(q, IF request[q].at = "mark" THEN "reset" ELSE "force reset",
                 MarkRaw, request[q].content, request[q].body)
<1> DEFINE at == IF request[q].at = "mark" THEN "reset" ELSE "force reset"
<1>1. request \in [Requests -> Held] /\ rawKey \in SomeKey
  BY DEF Types, RequestTypes, RowTypes
<1>2. at \in RequestPlaces /\ MarkRaw \in SomeKey
  BY <1>1 DEF RequestPlaces, MarkRaw, SomeKey
<1>3. request' = [request EXCEPT ![q] = [@ EXCEPT !.at = at, !.raw = MarkRaw]]
  BY DEF MarkRead, MarkRaw
<1> HIDE DEF at
<1>4. Goes(q, at, MarkRaw, request[q].content, request[q].body)
  BY <1>1, <1>2, <1>3 DEF Goes, Held
<1> QED
  BY <1>2, <1>4 DEF at

LEMMA ImportDoes ==
  ASSUME Types, NEW q \in Requests, Import(q)
  PROVE  Goes(q, "put", rawKey, contentKey, NoKey)
<1>1. request \in [Requests -> Held] /\ rawKey \in SomeKey /\ contentKey \in SomeKey
  BY DEF Types, RequestTypes, RowTypes
<1>2. request' = [request EXCEPT ![q] = [Idle EXCEPT !.at = "put", !.raw = rawKey, !.content = contentKey]]
  BY DEF Import
<1> QED
  BY <1>1, <1>2, IdleHeld DEF Goes, Held, RequestPlaces

\* The body is stored; the request goes on with it or reports an error.
NextBody == <<"import", imported + 1>>

LEMMA NextBodyIs ==
  ASSUME Types, imported < MaxImport
  PROVE  /\ NextBody \in Keys /\ NextBody # NoKey /\ imported + 1 \in 0 .. MaxImport
         /\ <<"imported", imported + 1>> \in Texts /\ <<"imported", imported + 1>> # NoText
<1>1. imported + 1 \in 0 .. MaxImport
  BY ProcessingAssumption DEF Types, RequestTypes
<1> QED
  BY <1>1 DEF NextBody, Keys, Texts, NoKey, NoText

LEMMA PutBodyDoes ==
  ASSUME Types, NEW q \in Requests, PutBody(q)
  PROVE  \/ Goes(q, "update", request[q].raw, request[q].content, NextBody)
         \/ Goes(q, "idle", NoKey, NoKey, NoKey)
<1>1. request \in [Requests -> Held] /\ NextBody \in SomeKey
  BY NextBodyIs DEF Types, RequestTypes, PutBody, SomeKey
<1>2. CASE Finish(q)
  BY <1>2, FinishDoes
<1>3. CASE request' = [request EXCEPT ![q] = [@ EXCEPT !.at = "update", !.body = NextBody]]
  BY <1>1, <1>3 DEF Goes, Held, RequestPlaces
<1> QED
  BY <1>2, <1>3 DEF PutBody, NextBody

\* What no request touches, and what it does to the row: nothing, or it starts
\* it anew, with the body the request has read or, for an import, has stored.
Renewed(q) ==
  /\ row' = Pending(0)
  /\ \/ request[q].at \in {"reset", "force reset"} /\ Cleared(request[q].raw) /\ UNCHANGED <<kind, tags>>
     \/ request[q].at = "update" /\ Cleared(request[q].body) /\ kind' = "markdown" /\ tags' = NoSummary

Kept == UNCHANGED <<row, rowVars, outdated>>

Requested(q) == UNCHANGED <<stage, attempt, pipe, clock, vector, serving>> /\ (Kept \/ Renewed(q))

LEMMA RequestDoes == ASSUME NEW q \in Requests, RequestNext(q) PROVE Requested(q)
<1>1. CASE Reset(q) \/ MarkRead(q) \/ ForceRead(q) \/ Drained(q) \/ Import(q)
  BY <1>1 DEF Reset, MarkRead, ForceRead, Drained, Import, Requested, Kept, lifeVars, runVars, Quiet
<1>2. CASE PutBody(q) \/ Undo(q)
  BY <1>2 DEF PutBody, Undo, Requested, Kept, lifeVars, runVars
<1>3. CASE DeleteRaw(q) \/ DeleteContent(q)
  BY <1>3 DEF DeleteRaw, DeleteContent, Requested, Kept, lifeVars, runVars, Quiet
<1>4. CASE Submit(q)
  BY <1>4 DEF Submit, Accept, Requested, Kept, lifeVars, runVars, Quiet
<1>5. CASE ForceClaim(q)
  BY <1>5 DEF ForceClaim, Replace, Requested, Kept, runVars, Quiet
<1>6. CASE MarkPending(q) \/ ForceMarkPending(q)
  BY <1>6 DEF MarkPending, ForceMarkPending, Reprocess, ResetRow, Requested, Renewed, Quiet, NoRun
<1>7. CASE MarkPendingFails(q)
  BY <1>7 DEF MarkPendingFails, Reprocess, NothingReset, ResetRow, Requested, Renewed, Kept, lifeVars, Quiet, NoRun
<1>8. CASE ForceFails(q)
  BY <1>8 DEF ForceFails, GiveUp, Requested, Renewed, Kept, Quiet, NoRun
<1>9. CASE UpdateImport(q)
  BY <1>9 DEF UpdateImport, Replaced, ResetRow, Requested, Renewed, Quiet, NoRun
<1>10. CASE UpdateImportFails(q)
  BY <1>10 DEF UpdateImportFails, Replaced, NothingReset, ResetRow, Requested, Renewed, Kept, lifeVars, Quiet, NoRun
<1> QED
  BY <1>1, <1>2, <1>3, <1>4, <1>5, <1>6, <1>7, <1>8, <1>9, <1>10 DEF RequestNext

LEMMA RequestRowTyped ==
  ASSUME Types, NEW q \in Requests, Requested(q), blobs' \in [Keys -> SomeText]
  PROVE  RowTypes' /\ RunTypes' /\ PipeTypes' /\ Dated'
<1> USE DEF Types
<1>1. UNCHANGED <<stage, pipe, clock, vector>>
  BY DEF Requested
<1>2. CASE Kept
  BY <1>1, <1>2 DEF Kept, RowTypes, RunTypes, PipeTypes, Dated, rowVars, contentVars
<1>3. CASE Renewed(q)
  <2>1. request[q].raw \in SomeKey /\ request[q].body \in SomeKey
    BY DEF RequestTypes, Held
  <2>2. /\ started' = 0 /\ contentKey' = NoKey /\ rawKey' \in SomeKey /\ summary' = NoSummary
        /\ outdated' = {w \in Runs : pipe[w].at \notin {"off", "load"}}
    BY <1>3, <2>1 DEF Renewed, Cleared
  <2>3. kind' \in {kind, "markdown"} /\ tags' \in {tags, NoSummary}
    BY <1>3 DEF Renewed
  <2>4. RunTypes' /\ PipeTypes'
    BY <1>1, <2>2 DEF RunTypes, PipeTypes
  <2>5. contentKey' \in SomeKey /\ kind' \in KindSet \cap (Kinds \cup {"markdown"})
    BY <2>2, <2>3 DEF RowTypes, SomeKey, KindSet
  <2>6. RowTypes'
    BY <1>1, <2>2, <2>3, <2>5, NotesTyped DEF RowTypes
  <2>7. Dated'
    BY <1>1, <2>2, <2>3, NotesTyped DEF RunTypes, Dated, Clocks
  <2> QED
    BY <2>4, <2>6, <2>7
<1> QED
  BY <1>2, <1>3 DEF Requested

\* What a request holds is of its type wherever it goes on to.
LEMMA HeldTyped ==
  ASSUME Types, NEW q \in Requests, NEW at, NEW raw, NEW content, NEW body, Goes(q, at, raw, content, body),
         at \in {"update", "undo", "delete raw", "delete content"} => body # NoKey,
         imported' \in 0 .. MaxImport, serving' = serving
  PROVE  RequestTypes' /\ HeldTypes'
BY DEF Types, RequestTypes, HeldTypes, Goes

LEMMA DeletionTyped ==
  ASSUME Types, NEW key \in SomeKey, blobs' \in Without(key)
  PROVE  blobs' \in [Keys -> SomeText]
<1>1. CASE blobs' = blobs
  BY <1>1 DEF Types, RowTypes
<1>2. CASE key # NoKey /\ blobs' = [blobs EXCEPT ![key] = NoText]
  BY <1>2 DEF Types, RowTypes, SomeKey, SomeText
<1> QED
  BY <1>1, <1>2 DEF Without

LEMMA RequestTyped == ASSUME Types, LifeTypes', NEW q \in Requests, RequestNext(q) PROVE Types'
<1>1. Requested(q) /\ serving' = serving
  BY RequestDoes DEF Requested
<1>2. blobs \in [Keys -> SomeText] /\ imported \in 0 .. MaxImport /\ request[q] \in Held
  BY DEF Types, RowTypes, RequestTypes
<1>3. ASSUME blobs' \in [Keys -> SomeText], RequestTypes', HeldTypes'
      PROVE  Types'
  BY <1>1, <1>3, RequestRowTyped DEF Types
<1>4. CASE Reset(q) \/ ForceRead(q) \/ ForceClaim(q) \/ Drained(q) \/ MarkPending(q)
  <2>1. \E at \in {"mark", "force", "await", "force mark", "submit"} : Goto(q, at)
    BY <1>4 DEF Reset, ForceRead, ForceClaim, Drained, MarkPending
  <2>2. \E at \in {"mark", "force", "await", "force mark", "submit"} :
          Goes(q, at, request[q].raw, request[q].content, request[q].body)
    BY <2>1, GotoDoes DEF RequestPlaces
  <2>3. UNCHANGED <<blobs, imported>>
    BY <1>4 DEF Reset, ForceRead, ForceClaim, Drained, MarkPending, Quiet
  <2> QED
    BY <1>1, <1>2, <1>3, <2>2, <2>3, HeldTyped
<1>5. CASE Submit(q) \/ MarkPendingFails(q) \/ ForceMarkPending(q) \/ ForceFails(q)
  <2>1. Goes(q, "idle", NoKey, NoKey, NoKey)
    BY <1>5, FinishDoes DEF Submit, MarkPendingFails, ForceMarkPending, ForceFails
  <2>2. UNCHANGED <<blobs, imported>>
    BY <1>5 DEF Submit, MarkPendingFails, ForceMarkPending, ForceFails, Quiet
  <2> QED
    BY <1>1, <1>2, <1>3, <2>1, <2>2, HeldTyped
<1>6. CASE MarkRead(q)
  <2>1. \E at \in {"reset", "force reset"} : \E raw : Goes(q, at, raw, request[q].content, request[q].body)
    BY <1>6, MarkReadDoes
  <2>2. UNCHANGED <<blobs, imported>>
    BY <1>6 DEF MarkRead, Quiet
  <2> QED
    BY <1>1, <1>2, <1>3, <2>1, <2>2, HeldTyped
<1>7. CASE Import(q)
  <2>1. Goes(q, "put", rawKey, contentKey, NoKey)
    BY <1>7, ImportDoes
  <2>2. UNCHANGED <<blobs, imported>>
    BY <1>7 DEF Import, Quiet
  <2> QED
    BY <1>1, <1>2, <1>3, <2>1, <2>2, HeldTyped
<1>8. CASE PutBody(q)
  <2>1. imported < MaxImport /\ imported' = imported + 1
        /\ blobs' = [blobs EXCEPT ![NextBody] = <<"imported", imported + 1>>]
    BY <1>8 DEF PutBody, NextBody
  <2>2. imported' \in 0 .. MaxImport /\ blobs' \in [Keys -> SomeText] /\ NextBody # NoKey
    BY <1>2, <2>1, NextBodyIs DEF SomeText
  <2>3. CASE Goes(q, "update", request[q].raw, request[q].content, NextBody)
    <3>1. RequestTypes' /\ HeldTypes'
      BY <1>1, <2>2, <2>3, HeldTyped
    <3> QED
      BY <1>3, <2>2, <3>1
  <2>4. CASE Goes(q, "idle", NoKey, NoKey, NoKey)
    BY <1>1, <1>3, <2>2, <2>4, HeldTyped
  <2> QED
    BY <1>8, <2>3, <2>4, PutBodyDoes
<1>9. CASE UpdateImport(q) \/ UpdateImportFails(q)
  <2>1. \E at \in {"delete raw", "undo"} : Goto(q, at)
    BY <1>9 DEF UpdateImport, UpdateImportFails
  <2>2. \E at \in {"delete raw", "undo"} : Goes(q, at, request[q].raw, request[q].content, request[q].body)
    BY <2>1, GotoDoes DEF RequestPlaces
  <2>3. UNCHANGED <<blobs, imported>> /\ request[q].body # NoKey
    BY <1>9 DEF UpdateImport, UpdateImportFails, Quiet, Types, HeldTypes
  <2>4. RequestTypes' /\ HeldTypes'
    BY <1>1, <1>2, <2>2, <2>3, HeldTyped
  <2> QED
    BY <1>2, <1>3, <2>3, <2>4
<1>10. CASE Undo(q)
  <2>1. Goes(q, "idle", NoKey, NoKey, NoKey) /\ imported' = imported
    BY <1>10, FinishDoes DEF Undo
  <2>2. blobs' \in [Keys -> SomeText]
    BY <1>2, <1>10, DeletionTyped DEF Undo, Held
  <2> QED
    BY <1>1, <1>2, <1>3, <2>1, <2>2, HeldTyped
<1>11. CASE DeleteRaw(q) \/ DeleteContent(q)
  <2>1. \E at \in {"delete content", "submit"} : Goto(q, at)
    BY <1>11 DEF DeleteRaw, DeleteContent
  <2>2. \E at \in {"delete content", "submit"} : Goes(q, at, request[q].raw, request[q].content, request[q].body)
    BY <2>1, GotoDoes DEF RequestPlaces
  <2>3. imported' = imported /\ request[q].body # NoKey
    BY <1>11 DEF DeleteRaw, DeleteContent, Quiet, Types, HeldTypes
  <2>4. blobs' \in [Keys -> SomeText]
    BY <1>2, <1>11, DeletionTyped DEF DeleteRaw, DeleteContent, Held
  <2> QED
    BY <1>1, <1>2, <1>3, <2>2, <2>3, <2>4, HeldTyped
<1> QED
  BY <1>4, <1>5, <1>6, <1>7, <1>8, <1>9, <1>10, <1>11 DEF RequestNext

LEMMA NoPipeTyped == NoPipe \in Pipes /\ NoPipe.at = "off" /\ NoPipe.gen = 0 /\ NoPipe.fence = 0
BY ProcessingAssumption DEF NoPipe, Pipes, Places, Clocks, KindSet, SomeKey, SomeText

LEMMA SystemTyped == ASSUME Types, LifeTypes', DropItem \/ Sweep \/ Stop PROVE Types'
<1> USE DEF Types
<1>1. CASE DropItem \/ Sweep
  <2>1. UNCHANGED <<stage, rowVars, blobs, vector, runVars, request, imported>> /\ serving' \in BOOLEAN
    BY <1>1 DEF DropItem, Sweep, GiveUp, Accept, lifeVars, requestVars, RequestTypes
  <2> QED
    BY <2>1 DEF RowTypes, RunTypes, RequestTypes, PipeTypes, Dated, HeldTypes, rowVars, contentVars, runVars
<1>2. CASE Stop
  <2>1. /\ UNCHANGED <<rowVars, blobs, vector, clock, imported>> /\ serving' = FALSE
        /\ pipe' = [w \in Runs |-> NoPipe] /\ request' = [q \in Requests |-> Idle] /\ outdated' = {}
        /\ stage' = [w \in Runs |-> "off"]
    BY <1>2 DEF Stop, Crash
  <2>2. RunTypes' /\ PipeTypes'
    BY <2>1, NoPipeTyped DEF RunTypes, PipeTypes, Clocks
  <2>3. RequestTypes' /\ HeldTypes'
    BY <2>1, IdleHeld DEF RequestTypes, HeldTypes
  <2> QED
    BY <2>1, <2>2, <2>3 DEF RowTypes, Dated, rowVars, contentVars
<1> QED
  BY <1>1, <1>2

LEMMA TypesInit == ASSUME Init PROVE Types
<1> USE LifecycleAssumption, ProcessingAssumption DEF Init
<1>1. LifeTypes
  BY DEF LifeInit, LifeTypes, Pending, Statuses, RunStages
<1>2. rawKey \in SomeKey /\ contentKey \in SomeKey
  BY DEF SomeKey, Keys
<1>3. kind \in KindSet \cap (Kinds \cup {"markdown"})
  BY DEF KindSet
<1>4. blobs \in [Keys -> SomeText]
  BY DEF SomeText, Texts
<1>5. vector \in Vectors /\ vector.gen = 0
  BY DEF NoVector, Vectors, Clocks, SomeText
<1>6. RowTypes
  BY <1>2, <1>3, <1>4, <1>5, NotesTyped DEF RowTypes
<1>7. RunTypes /\ PipeTypes
  BY NoPipeTyped DEF LifeInit, RunTypes, PipeTypes, Clocks
<1>8. RequestTypes /\ HeldTypes
  <2>1. imported = 0 /\ serving = FALSE /\ request = [q \in Requests |-> Idle]
    OBVIOUS
  <2>2. imported \in 0 .. MaxImport
    BY <2>1
  <2> QED
    BY <2>1, <2>2, IdleHeld DEF RequestTypes, HeldTypes
<1>9. Dated
  BY <1>5, NotesTyped DEF Dated
<1> QED
  BY <1>1, <1>6, <1>7, <1>8, <1>9 DEF Types

LEMMA TypesKept == ASSUME Types, [Next]_vars PROVE Types'
<1>1. LifeTypes'
  BY LifeStep, LifeTyped DEF Types
<1>2. ASSUME NEW w \in Runs, RunNext(w)
      PROVE  Types'
  BY <1>1, <1>2, RunTyped, LoadTyped, WorkTyped DEF RunNext, Work
<1>3. ASSUME NEW q \in Requests, RequestNext(q)
      PROVE  Types'
  BY <1>1, <1>3, RequestTyped
<1>4. CASE DropItem \/ Sweep \/ Stop
  BY <1>1, <1>4, SystemTyped
<1>5. CASE UNCHANGED vars
  <2>1. UNCHANGED <<lifeVars, rowVars, blobs, vector, runVars, requestVars>>
    BY <1>5 DEF vars
  <2> QED
    BY <2>1 DEF Types, LifeTypes, RowTypes, RunTypes, RequestTypes, PipeTypes, Dated, HeldTypes,
                lifeVars, rowVars, contentVars, runVars, requestVars
<1> QED
  BY <1>2, <1>3, <1>4, <1>5 DEF Next

LEMMA TypesImply == ASSUME Types PROVE TypeOK
<1> USE DEF Types
<1>1. row.status \in {"pending", "running", "ready", "failed"} /\ row.attempts \in 0 .. MaxAttempts - 1
  BY DEF LifeTypes, Statuses
<1>2. started \in 0 .. clock /\ clock \in 0 .. MaxRun
  BY ProcessingAssumption DEF RowTypes, RunTypes, Dated, Clocks
<1>3. kind \in Kinds \cup {"markdown"} /\ {contentKey, rawKey} \subseteq Keys \cup {NoKey}
  BY DEF RowTypes, SomeKey
<1>4. ASSUME NEW s \in {summary, tags}
      PROVE  s.by \in 0 .. clock /\ s.of \in Texts \cup {NoText}
  BY ProcessingAssumption DEF RowTypes, RunTypes, Dated, Notes, Clocks, SomeText
<1>5. blobs \in [Keys -> Texts \cup {NoText}]
  BY DEF RowTypes, SomeText
<1>6. vector.gen \in 0 .. clock /\ vector.of \in Texts \cup {NoText}
  BY ProcessingAssumption DEF RowTypes, RunTypes, Dated, Vectors, Clocks, SomeText
<1>7. ASSUME NEW w \in Runs
      PROVE  (stage[w] = "handling") = (pipe[w].at # "off")
  BY DEF PipeTypes
<1>8. imported \in 0 .. MaxImport /\ outdated \subseteq {w \in Runs : stage[w] = "handling"}
  BY DEF RequestTypes, RunTypes, PipeTypes
<1> QED
  BY <1>1, <1>2, <1>3, <1>4, <1>5, <1>6, <1>7, <1>8 DEF TypeOK

LEMMA TypesAlways == Spec => []Types
<1>1. Init => Types
  BY TypesInit
<1>2. Types /\ [Next]_vars => Types'
  BY TypesKept
<1> QED
  BY <1>1, <1>2, PTL DEF Spec

\* Every variable keeps its type, and a run handles the reading exactly while
\* it has a place in Process, whatever is requested, interrupted or lost.
THEOREM TypesCorrect == Spec => []TypeOK
BY TypesAlways, TypesImply, PTL

=============================================================================
