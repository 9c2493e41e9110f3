-------------------------- MODULE ProcessingSafety --------------------------
(***************************************************************************)
(* The safety of Processing, for one request at a time and any number of   *)
(* runs, imports and attempts: what a ready reading, its content, its      *)
(* fence and its status keep.  A reset is written only when no run writes  *)
(* an outcome, every run that has loaded the reading is outdated by it,    *)
(* and an outdated run fails the fence; so at most one run at a time, the  *)
(* current one, changes content, and what it holds is what the row says.   *)
(***************************************************************************)
EXTENDS ProcessingProofs

\* The goroutines of the HTTP handlers follow one another.
OneRequest == \A q, r \in Requests : q = r

-----------------------------------------------------------------------------
(* The invariant *)

Owners ==
  /\ LifeOwners
  /\ \A w \in live : pipe[w].at # "aborted"
  /\ Forcing => work = "waiting"
  /\ ~serving => /\ work = "none"
                 /\ \A w \in Runs : stage[w] = "off"
                 /\ \A q \in Requests : request[q].at = "idle"

\* A run that has loaded the reading, and one that has loaded it as it is.
Working(w) == pipe[w].at \notin {"off", "load", "aborted"}
Current(w) == Working(w) /\ w \notin outdated

Settled   == row.status \in {"ready", "failed"}
\* No run is queued, and a live one only has its claim to release.
Quiescent == work # "waiting" /\ \A w \in live : stage[w] = "finishing"

\* The requests that reset a settled row, before and after they do.
Cleaning  == {"delete raw", "delete content", "submit"}
Resetting == Cleaning \cup {"mark", "reset", "put", "update", "undo"}

\* When the row is settled and who may reset it.
Resets ==
  /\ Settled => Quiescent \/ Forcing
  /\ \A q \in Requests : request[q].at \in Resetting => Quiescent
  /\ \A q \in Requests : request[q].at \in Cleaning =>
       ~Settled /\ contentKey = NoKey /\ \A v \in Runs : ~Current(v)

\* What the row says while a run is live, and while one is current.
RunRows ==
  /\ \A w \in live : stage[w] = "handling" => row.status = "running"
  /\ \A w \in live : pipe[w].at = "load" => started # 0
  /\ \A w \in live : w \notin outdated
  /\ \A w \in Runs : Current(w) => row.status = "running"
  /\ \A v, w \in Runs : Current(v) /\ Current(w) => v = w
  /\ \A v \in Runs : Current(v) /\ v \notin live => live = {} /\ (work = "none" \/ Forcing)

\* Every generation is given out once, and an outdated run holds an old one.
Fences ==
  /\ \A w \in Runs : stage[w] = "writing" =>
        /\ pipe[w].gen # started
        /\ \A v \in Runs : Working(v) => pipe[v].fence # pipe[w].gen
        /\ \A v \in Runs : v # w /\ stage[v] = "writing" => pipe[v].gen # pipe[w].gen
  /\ \A w \in Runs : Working(w) => pipe[w].fence # 0
  /\ \A w \in outdated : Working(w) => pipe[w].fence # started
  /\ \A v, w \in Runs : v # w /\ Working(v) /\ Working(w) => pipe[v].fence # pipe[w].fence

Control == Owners /\ Resets /\ RunRows /\ Fences

\* The bodies of imports that were stored so far.
Body(key) == key[1] = "import" /\ key[2] <= imported

\* What the row points at is there, and no outdated run writes to it.
Pointers ==
  /\ contentKey # NoKey =>
       /\ contentKey[1] = "content" /\ blobs[contentKey] # NoText
       /\ \A v \in outdated : Working(v) => contentKey # ContentKeyOf(pipe[v].fence)
  /\ kind = "markdown" => rawKey[1] = "import" /\ (blobs[rawKey] # NoText \/ rawKey \in undone)
  /\ rawKey[1] = "import" => Body(rawKey)

\* What a request holds while it replaces the row's keys and its blobs.
Holds(r) ==
  /\ r.at \in {"reset", "force reset"} => r.raw = MarkRaw
  /\ r.at \in {"put", "update", "delete raw", "delete content"} => r.content[1] # "import"
  /\ r.at = "put" /\ r.raw[1] = "import" => Body(r.raw)
  /\ r.at \in {"update", "delete raw"} => r.raw # r.body
  /\ r.at \in {"update", "undo", "delete raw", "delete content"} => Body(r.body)
  /\ r.at = "update" => blobs[r.body] # NoText
  /\ r.at \in {"delete raw", "delete content"} => kind = "markdown" /\ rawKey = r.body
Replacing == \A q \in Requests : Holds(request[q])

\* How far the current run is, and what the row says by then.
Progress(w) ==
  LET p == pipe[w]
  IN  /\ p.kind = kind
      /\ kind = "markdown" => p.raw = rawKey
      /\ p.raw[1] = "import" => Body(p.raw)
      /\ p.at \in {"acquire", "index", "checkpoint"} => contentKey = NoKey
      /\ p.at \in {"index", "checkpoint"} => p.text # NoText
      /\ p.at = "reuse" => p.content = contentKey
      /\ p.at = "checkpoint" => p.content = ContentKeyOf(p.fence) /\ blobs[p.content] = p.text
      /\ p.at \in {"vector", "persist", "tags", "notify", "done"} =>
           contentKey = p.content /\ contentKey # NoKey /\ blobs[contentKey] = p.text
      /\ p.at \in {"tags", "notify", "done"} => summary = SummaryBy(w)
      /\ p.at \in {"notify", "done"} => tags = SummaryBy(w)

Content == Pointers /\ Replacing /\ (\A w \in Runs : Current(w) => Progress(w)) /\ ReadyIsComplete

\* The live run bears the last generation, and no other is about to write it.
GenLast ==
  \A w \in live : stage[w] \in {"writing", "handling"} =>
    /\ pipe[w].gen = clock
    /\ \A v \in Runs : v # w /\ stage[v] = "writing" => pipe[v].gen # clock

\* Its fence is the last generation if the row's is, and once it has written
\* its vector under that fence, no other run's vector replaces it.
Indexed == {"persist", "tags", "notify", "done"}
FenceLast  == \A w \in live : Working(w) /\ started = clock => pipe[w].fence = clock
VectorLast ==
  \A w \in live : pipe[w].at \in Indexed /\ pipe[w].fence = clock =>
    vector = [gen |-> clock, of |-> pipe[w].text]

Latest == GenLast /\ FenceLast /\ VectorLast /\ VectorMatchesContent

\* The Running write of a run that was replaced lands although the forced
\* submit has gone on (ForceWaitTTL is over, its reset is written or has
\* failed), or while the row it waits to reset is settled.
LateRunning(w) ==
  /\ RunningLands(w) \/ RunningFails(w)
  /\ w \notin live /\ started' # started
  /\ ~Forcing \/ Settled

-----------------------------------------------------------------------------
(* Owners are kept *)

OwnersRest ==
  /\ \A w \in live : pipe[w].at # "aborted"
  /\ Forcing => work = "waiting"
  /\ ~serving => /\ work = "none"
                 /\ \A w \in Runs : stage[w] = "off"
                 /\ \A q \in Requests : request[q].at = "idle"

\* A run exists only while the server serves.
LEMMA RunServes ==
  ASSUME Types, Owners, NEW w \in Runs, stage[w] # "off"
  PROVE  serving = TRUE
BY DEF Types, RequestTypes, Owners

LEMMA OwnersRun ==
  ASSUME Types, Types', Owners, NEW w \in Runs, RunNext(w)
  PROVE  OwnersRest'
<1> USE DEF OwnersRest
<1>1. UNCHANGED <<request, serving>> /\ Forcing' = Forcing
  BY WorkWorks DEF RunNext, BeginRun, StartRun, RunningLands, RunningFails, Load, Return, Settle, Work, Worked,
       requestVars, Forcing
<1>2. CASE BeginRun(w)
  <2>1. live' = {w} /\ pipe' = pipe /\ ~Forcing /\ work = "waiting" /\ stage[w] = "off"
    BY <1>2 DEF BeginRun, Begin, runVars
  <2>2. serving' = TRUE
    BY <1>1, <2>1 DEF Types, RequestTypes, Owners
  <2>3. pipe'[w].at # "aborted"
    BY <2>1 DEF Types, PipeTypes
  <2> QED
    BY <1>1, <2>1, <2>2, <2>3
<1>3. CASE ~BeginRun(w)
  <2>1. stage[w] # "off"
    BY <1>3, WorkWorks DEF RunNext, StartRun, EnterRunningWrite, RunningLands, MarkRunning, RunningFails,
         RunningWriteFails, Load, Return, HandlerReturns, Discard, FinishWrite, Redispatch, Settle, FinishRelease,
         Work, Worked, Types, PipeTypes
  <2>2. serving' = TRUE
    BY <1>1, <2>1, RunServes
  <2>3. Forcing' => work' = "waiting"
    <3>1. CASE w \in live
      BY <1>1, <3>1 DEF Owners, LifeOwners
    <3>2. CASE w \notin live
      <4>1. work' = work
        BY <1>3, <3>2, WorkWorks DEF RunNext, StartRun, EnterRunningWrite, RunningLands, MarkRunning, RunningFails,
             RunningWriteFails, EndRun, Load, Return, HandlerReturns, Discard, FinishWrite, Redispatch, Settle,
             FinishRelease, Work, Worked, lifeVars
      <4> QED
        BY <1>1, <4>1 DEF Owners
    <3> QED
      BY <3>1, <3>2
  <2>4. live' \subseteq live
    BY <1>3, WorkWorks DEF RunNext, StartRun, EnterRunningWrite, RunningLands, MarkRunning, RunningFails,
         RunningWriteFails, EndRun, Load, Return, HandlerReturns, Discard, FinishWrite, Redispatch, Settle,
         FinishRelease, Work, Worked, lifeVars
  <2>5. ASSUME NEW v \in live'
        PROVE  pipe'[v].at # "aborted"
    <3>1. v \in live /\ v \in Runs /\ pipe[v].at # "aborted"
      BY <2>4 DEF Owners, Types, LifeTypes
    <3>2. CASE v # w
      <4>1. pipe'[v] = pipe[v]
        BY <1>3, <3>1, <3>2, WorkWorks DEF RunNext, StartRun, RunningLands, RunningFails, Load, Return, Settle,
             Work, Worked, runVars, Types, RunTypes
      <4> QED
        BY <3>1, <4>1
    <3>3. CASE v = w /\ Work(w)
      BY <3>1, <3>3, WorkWorks DEF Worked
    <3>4. CASE v = w /\ (RunningFails(w) \/ Return(w))
      BY <3>1, <3>4, NoPipeTyped DEF RunningFails, Return, Types, RunTypes
    <3>5. CASE v = w /\ Load(w)
      <4>1. pipe[w] \in Pipes /\ w \in live
        BY <3>1, <3>5 DEF Types, RunTypes
      <4>2. pipe'[w].at \in {"rejected", "reuse", "acquire"}
        BY <3>5, <4>1 DEF Load, Proceed, Types, RunTypes, Pipes
      <4> QED
        BY <3>5, <4>2
    <3>6. CASE v = w /\ (StartRun(w) \/ RunningLands(w) \/ Settle(w))
      BY <3>1, <3>6 DEF StartRun, RunningLands, Settle, runVars, Proceed, Types, RunTypes, Pipes
    <3> QED
      BY <1>3, <3>2, <3>3, <3>4, <3>5, <3>6 DEF RunNext, Work
  <2> QED
    BY <2>2, <2>3, <2>5
<1> QED
  BY <1>2, <1>3

\* With one request, its place says everything.
LEMMA TheRequest ==
  ASSUME OneRequest, NEW q \in Requests
  PROVE  /\ Forcing <=> request[q].at \in ForceSteps
         /\ Forcing' <=> request'[q].at \in ForceSteps
         /\ \A r \in Requests : r = q
BY DEF OneRequest, Forcing

\* Where a request goes, and what it does to the work and to the row.
Idles == UNCHANGED lifeVars /\ Kept

Enters(q) ==      \* Reset, Import; ForceRead
  /\ request[q].at = "idle" /\ serving /\ Idles
  /\ \/ request'[q].at \in {"mark", "put"} /\ Settled
     \/ request'[q].at = "force"
Claims(q) ==      \* ForceClaim
  /\ request[q].at = "force" /\ request'[q].at = "await"
  /\ Replace /\ Kept
Drains(q) ==      \* Drained
  /\ request[q].at = "await" /\ request'[q].at = "force mark"
  /\ ForcesDrain => \A w \in Runs : stage[w] = "off"
  /\ Idles
Marks(q) ==       \* MarkRead, of a forced submit
  /\ request[q].at = "force mark" /\ request'[q].at = "force reset"
  /\ Idles
Continues(q) ==   \* MarkRead, PutBody, Undo; a reset or an update that did not land
  /\ request[q].at \in Resetting \ Cleaning
  /\ request'[q].at \in (Resetting \ Cleaning) \cup {"idle"}
  /\ Idles
Cleans(q) ==      \* DeleteRaw, DeleteContent
  /\ request[q].at \in Cleaning /\ request'[q].at \in Cleaning
  /\ Idles
Submits(q) ==     \* Submit
  /\ request[q].at = "submit" /\ request'[q].at = "idle"
  /\ Accept(0) \/ UNCHANGED lifeVars
  /\ Kept
Renews(q) ==      \* MarkPending, UpdateImport, also when they report an error
  /\ request[q].at \in {"reset", "update"}
  /\ request'[q].at \in Resetting \cup {"idle"}
  /\ ResetRow /\ Renewed(q)
ForceRenews(q) == \* ForceMarkPending, ForceFails
  /\ request[q].at = "force reset" /\ request'[q].at = "idle"
  /\ ResetRow \/ GiveUp(TRUE)
  /\ Renewed(q)
ForceGivesUp(q) ==    \* ForceFails
  /\ request[q].at \in {"force mark", "force reset"} /\ request'[q].at = "idle"
  /\ GiveUp(FALSE) /\ Kept

Route(q) ==
  \/ Enters(q) \/ Claims(q) \/ Drains(q) \/ Marks(q) \/ Continues(q) \/ Cleans(q) \/ Submits(q)
  \/ Renews(q) \/ ForceRenews(q) \/ ForceGivesUp(q)

LEMMA AtPlace ==
  ASSUME Types, NEW q \in Requests, NEW at \in RequestPlaces
  PROVE  /\ Goto(q, at) => request'[q].at = at
         /\ Finish(q) => request'[q].at = "idle"
<1>1. Goto(q, at) => request'[q].at = at
  BY GotoDoes DEF Goes
<1>2. Finish(q) => request'[q].at = "idle"
  BY FinishDoes DEF Goes
<1> QED
  BY <1>1, <1>2

LEMMA RequestRoute == ASSUME Types, NEW q \in Requests, RequestNext(q) PROVE Route(q)
<1> USE AtPlace DEF RequestPlaces, Idles, Kept, Resetting, Cleaning
<1>1. CASE Reset(q)
  BY <1>1 DEF Reset, Enters, Settled, Route, runVars, lifeVars
<1>2. CASE ForceRead(q)
  BY <1>2 DEF ForceRead, Enters, Route, runVars, lifeVars
<1>3. CASE ForceClaim(q)
  BY <1>3 DEF ForceClaim, Replace, Claims, Route, runVars
<1>4. CASE Drained(q)
  BY <1>4 DEF Drained, Drains, Route, runVars, lifeVars
<1>5. CASE MarkRead(q)
  <2>1. request'[q].at = IF request[q].at = "mark" THEN "reset" ELSE "force reset"
    BY <1>5, MarkReadDoes DEF Goes
  <2>2. Idles
    BY <1>5 DEF MarkRead, runVars, lifeVars
  <2>3. CASE request[q].at = "mark"
    BY <2>1, <2>2, <2>3 DEF Continues, Route
  <2>4. CASE request[q].at = "force mark"
    BY <2>1, <2>2, <2>4 DEF Marks, Route
  <2> QED
    BY <1>5, <2>3, <2>4 DEF MarkRead
<1>6. CASE Import(q)
  <2>1. request'[q].at = "put"
    BY <1>6, ImportDoes DEF Goes
  <2> QED
    BY <1>6, <2>1 DEF Import, Enters, Settled, Route, runVars, lifeVars
<1>7. CASE PutBody(q)
  <2>1. request'[q].at \in {"update", "idle"}
    BY <1>7, PutBodyDoes DEF Goes
  <2> QED
    BY <1>7, <2>1 DEF PutBody, Continues, Route, runVars, lifeVars
<1>8. CASE Undo(q)
  BY <1>8 DEF Undo, Continues, Route, runVars, lifeVars
<1>9. CASE DeleteRaw(q) \/ DeleteContent(q)
  BY <1>9 DEF DeleteRaw, DeleteContent, Cleans, Route, runVars, lifeVars
<1>10. CASE Submit(q)
  BY <1>10 DEF Submit, Accept, Submits, Route, runVars, lifeVars
<1>11. CASE MarkPending(q)
  BY <1>11 DEF MarkPending, Reprocess, ResetRow, Renews, Renewed, Route
<1>12. CASE MarkPendingFails(q)
  BY <1>12 DEF MarkPendingFails, NothingReset, Reprocess, ResetRow, Renews, Renewed, Continues, Route, lifeVars
<1>13. CASE ForceMarkPending(q)
  BY <1>13 DEF ForceMarkPending, Reprocess, ResetRow, ForceRenews, Renewed, Route
<1>14. CASE ForceFails(q)
  BY <1>14 DEF ForceFails, GiveUp, ForceRenews, ForceGivesUp, Renewed, Route
<1>15. CASE UpdateImport(q)
  BY <1>15 DEF UpdateImport, Replaced, ResetRow, Renews, Renewed, Route
<1>16. CASE UpdateImportFails(q)
  BY <1>16 DEF UpdateImportFails, NothingReset, Replaced, ResetRow, Renews, Renewed, Continues, Route, lifeVars
<1> QED
  BY <1>1, <1>2, <1>3, <1>4, <1>5, <1>6, <1>7, <1>8, <1>9, <1>10, <1>11, <1>12, <1>13, <1>14, <1>15, <1>16
     DEF RequestNext

LEMMA OwnersRequest ==
  ASSUME OneRequest, Types, Owners, NEW q \in Requests, RequestNext(q)
  PROVE  OwnersRest'
<1>1. Route(q) /\ UNCHANGED <<stage, pipe, serving>>
  BY RequestRoute, RequestDoes DEF Requested
<1>2. live' \subseteq live
  BY <1>1 DEF Route, Enters, Claims, Drains, Marks, Continues, Cleans, Submits, Renews, ForceRenews, ForceGivesUp,
       Idles, lifeVars, Replace, Accept, ResetRow, GiveUp
<1>3. \A w \in live' : pipe'[w].at # "aborted"
  BY <1>1, <1>2 DEF Owners
<1>4. serving' = TRUE
  <2>1. request[q].at # "idle" \/ serving
    BY <1>1 DEF Route, Enters, Claims, Drains, Marks, Continues, Cleans, Submits, Renews, ForceRenews, ForceGivesUp,
         Resetting, Cleaning
  <2>2. serving = TRUE
    BY <2>1 DEF Owners, Types, RequestTypes
  <2> QED
    BY <1>1, <2>2
<1>5. ASSUME Forcing'
      PROVE  work' = "waiting"
  <2>1. request'[q].at \in ForceSteps
    BY <1>5, TheRequest
  <2>2. Claims(q) \/ Drains(q) \/ Marks(q)
    BY <1>1, <2>1 DEF Route, Enters, Continues, Cleans, Submits, Renews, ForceRenews, ForceGivesUp, ForceSteps,
         Resetting, Cleaning
  <2>3. CASE Claims(q)
    BY <2>3 DEF Claims, Replace
  <2>4. CASE Drains(q) \/ Marks(q)
    <3>1. Forcing /\ work' = work
      BY <2>4, TheRequest DEF Drains, Marks, Idles, lifeVars, ForceSteps
    <3> QED
      BY <3>1 DEF Owners
  <2> QED
    BY <2>2, <2>3, <2>4
<1> QED
  BY <1>3, <1>4, <1>5 DEF OwnersRest

LEMMA OwnersSystem ==
  ASSUME Types, Owners, DropItem \/ Sweep \/ Stop
  PROVE  OwnersRest'
<1>1. CASE DropItem
  <2>1. UNCHANGED <<live, stage, pipe, request, serving>> /\ ~Forcing /\ work = "waiting"
    BY <1>1 DEF DropItem, GiveUp, runVars, requestVars
  <2>2. serving' = TRUE /\ ~Forcing'
    BY <2>1 DEF Owners, Types, RequestTypes, Forcing
  <2> QED
    BY <2>1, <2>2 DEF Owners, OwnersRest
<1>2. CASE Sweep
  <2>1. UNCHANGED <<live, stage, pipe, request>> /\ serving' = TRUE /\ \A q \in Requests : request[q].at = "idle"
    BY <1>2 DEF Sweep, Accept, lifeVars, runVars, Owners
  <2>2. ~Forcing'
    BY <2>1 DEF Forcing, ForceSteps
  <2> QED
    BY <2>1, <2>2 DEF Owners, OwnersRest
<1>3. CASE Stop
  <2>1. /\ live' = {} /\ work' = "none" /\ stage' = [w \in Runs |-> "off"]
        /\ request' = [q \in Requests |-> Idle] /\ serving' = FALSE
    BY <1>3 DEF Stop, Crash
  <2>2. ~Forcing'
    BY <2>1, IdleHeld DEF Forcing, ForceSteps
  <2> QED
    BY <2>1, <2>2, IdleHeld DEF OwnersRest
<1> QED
  BY <1>1, <1>2, <1>3

LEMMA OwnersKept == ASSUME OneRequest, Types, Types', Owners, [Next]_vars PROVE Owners'
<1>1. LifeOwners'
  BY LifeStep, LifeOwned DEF Types, Owners
<1>2. OwnersRest'
  <2>1. CASE Next
    BY <2>1, OwnersRun, OwnersRequest, OwnersSystem DEF Next
  <2>2. CASE UNCHANGED vars
    <3>1. UNCHANGED <<live, work, stage, pipe, request, serving>>
      BY <2>2 DEF vars, lifeVars, runVars, requestVars
    <3> QED
      BY <3>1 DEF Owners, OwnersRest, Forcing
  <2> QED
    BY <2>1, <2>2
<1> QED
  BY <1>1, <1>2 DEF Owners, OwnersRest

-----------------------------------------------------------------------------
(* Fences are kept *)

\* A step that gives no generation out and lets no run in keeps them.
LEMMA FencesStay ==
  ASSUME Fences, Types, started' = started,
         \A v \in Runs : stage'[v] = "writing" => stage[v] = "writing" /\ pipe'[v].gen = pipe[v].gen,
         \A v \in Runs : Working(v)' => Working(v) /\ pipe'[v].fence = pipe[v].fence,
         outdated' \subseteq outdated
  PROVE  Fences'
BY DEF Fences, Types, RunTypes

\* The row starts anew: the runs that have loaded it are outdated.
LEMMA FencesRenewed ==
  ASSUME Fences, Types, started' = 0, UNCHANGED <<stage, pipe>>,
         outdated' = {w \in Runs : pipe[w].at \notin {"off", "load"}}
  PROVE  Fences'
<1>1. \A w \in Runs : stage[w] = "writing" => pipe[w].gen # 0
  BY DEF Types, PipeTypes, RunTypes, Pipes, Clocks
<1> QED
  BY <1>1 DEF Fences, Working

LEMMA FencesStartRun ==
  ASSUME Types, Fences, NEW w \in Runs, StartRun(w)
  PROVE  Fences'
<1>1. /\ stage' = [stage EXCEPT ![w] = "writing"] /\ pipe' = [pipe EXCEPT ![w].gen = clock + 1]
      /\ started' = started /\ outdated' = outdated
  BY DEF StartRun, EnterRunningWrite, rowVars
<1>2. /\ \A v \in Runs : v # w => pipe'[v] = pipe[v] /\ stage'[v] = stage[v]
      /\ pipe'[w].gen = clock + 1 /\ pipe'[w].at = pipe[w].at /\ pipe'[w].fence = pipe[w].fence
      /\ stage'[w] = "writing"
  BY <1>1 DEF Types, LifeTypes, RunTypes, Pipes
<1>3. \A v \in Runs : pipe[v].fence # clock + 1 /\ pipe[v].gen # clock + 1
  BY DEF Types, RunTypes, PipeTypes, Pipes, Clocks
<1>4. started # clock + 1
  BY DEF Types, RowTypes, RunTypes, Dated, Clocks
<1>5. \A v \in Runs : Working(v)' <=> Working(v)
  BY <1>2 DEF Working
<1>6. \A v \in Runs : pipe'[v].fence = pipe[v].fence
  BY <1>2
<1> QED
  BY <1>1, <1>2, <1>3, <1>4, <1>5, <1>6 DEF Fences, Types, RunTypes

\* The generation of a run reaches the row: it was never there before.
LEMMA FencesLand ==
  ASSUME Types, Fences, NEW w \in Runs, stage[w] = "writing", stage'[w] # "writing", started' = pipe[w].gen,
         \A v \in Runs : v # w => stage'[v] = stage[v] /\ pipe'[v] = pipe[v],
         pipe'[w].at \in {"off", "load", "aborted"}, outdated' \subseteq outdated
  PROVE  Fences'
<1>1. \A v \in Runs : Working(v)' => Working(v) /\ v # w
  BY DEF Working
<1> QED
  BY <1>1 DEF Fences, Types, RunTypes

LEMMA FencesRunningLands ==
  ASSUME Types, Fences, NEW w \in Runs, RunningLands(w)
  PROVE  Fences'
<1>1. /\ stage' = [stage EXCEPT ![w] = "handling"] /\ pipe' = [pipe EXCEPT ![w].at = Proceed(w, "load")]
      /\ started' = pipe[w].gen /\ stage[w] = "writing" /\ outdated' = outdated
  BY DEF RunningLands, MarkRunning
<1>2. pipe'[w].at \in {"load", "aborted"}
  BY <1>1 DEF Types, RunTypes, Pipes, Proceed
<1>3. stage'[w] = "handling" /\ \A v \in Runs : v # w => stage'[v] = stage[v] /\ pipe'[v] = pipe[v]
  BY <1>1 DEF Types, RunTypes, LifeTypes
<1> QED
  BY <1>1, <1>2, <1>3, FencesLand

LEMMA FencesRunningFails ==
  ASSUME Types, Fences, NEW w \in Runs, RunningFails(w)
  PROVE  Fences'
<1>1. /\ stage' = [stage EXCEPT ![w] = "off"] /\ pipe' = [pipe EXCEPT ![w] = NoPipe]
      /\ outdated' \subseteq outdated
  BY DEF RunningFails, RunningWriteFails, EndRun
<1>2. started' = started \/ (stage[w] = "writing" /\ started' = pipe[w].gen)
  BY DEF RunningFails
<1>3. pipe'[w].at = "off" /\ stage'[w] = "off" /\ \A v \in Runs : v # w => stage'[v] = stage[v] /\ pipe'[v] = pipe[v]
  BY <1>1, NoPipeTyped DEF Types, RunTypes, LifeTypes
<1>4. CASE started' = started
  <2>1. \A v \in Runs : Working(v)' => Working(v) /\ pipe'[v].fence = pipe[v].fence
    BY <1>3 DEF Working
  <2> QED
    BY <1>1, <1>3, <1>4, <2>1, FencesStay
<1>5. CASE stage[w] = "writing" /\ started' = pipe[w].gen
  BY <1>1, <1>3, <1>5, FencesLand
<1> QED
  BY <1>2, <1>4, <1>5

\* A run loads the generation the row has now.
LEMMA FencesLoad ==
  ASSUME Types, Control, NEW w \in Runs, Load(w)
  PROVE  Fences'
<1>1. UNCHANGED <<stage, started, outdated>> /\ pipe[w].at = "load" /\ stage[w] = "handling"
  BY DEF Load, lifeVars, rowVars, Types, PipeTypes
<1>2. pipe'[w].fence = started /\ pipe'[w].gen = pipe[w].gen /\ (w \notin live => pipe'[w].at = "aborted")
      /\ \A v \in Runs : v # w => pipe'[v] = pipe[v]
  BY DEF Load, Proceed, Types, RunTypes, Pipes
<1>3. CASE w \notin live
  <2>1. \A v \in Runs : Working(v)' => Working(v) /\ pipe'[v].fence = pipe[v].fence
    BY <1>2, <1>3 DEF Working
  <2>2. \A v \in Runs : stage'[v] = "writing" => stage[v] = "writing" /\ pipe'[v].gen = pipe[v].gen
    BY <1>1, <1>2
  <2> QED
    BY <1>1, <2>1, <2>2, FencesStay DEF Control
<1>4. CASE w \in live
  <2>1. started # 0 /\ w \notin outdated
    BY <1>1, <1>4 DEF Control, RunRows
  <2>2. ASSUME NEW v \in Runs, v # w, Working(v)
        PROVE  pipe[v].fence # started
    <3>1. v \notin live /\ live # {}
      BY <1>4, <2>2 DEF Control, Owners, LifeOwners, Types, LifeTypes
    <3>2. v \in outdated
      BY <2>2, <3>1 DEF Control, RunRows, Current
    <3> QED
      BY <2>2, <3>2 DEF Control, Fences
  <2>3. \A v \in Runs : v # w => (Working(v)' <=> Working(v))
    BY <1>2 DEF Working
  <2>4. ~Working(w)
    BY <1>1 DEF Working
  <2>5. \A v \in Runs : stage[v] = "writing" => pipe[v].gen # started /\ v # w
    BY <1>1 DEF Control, Fences
  <2> QED
    BY <1>1, <1>2, <2>1, <2>2, <2>3, <2>4, <2>5 DEF Control, Fences, Types, RunTypes
<1> QED
  BY <1>3, <1>4

LEMMA FencesKept == ASSUME Types, Control, [Next]_vars PROVE Fences'
<1> USE DEF Control
<1>1. ASSUME NEW w \in Runs, BeginRun(w) \/ Settle(w)
      PROVE  Fences'
  <2>1. UNCHANGED <<started, pipe, outdated>>
        /\ (stage' = [stage EXCEPT ![w] = "begun"] \/ stage' = [stage EXCEPT ![w] = "off"])
    BY <1>1 DEF BeginRun, Begin, Settle, FinishRelease, EndRun, rowVars, runVars
  <2>2. \A v \in Runs : stage'[v] = "writing" => stage[v] = "writing"
    BY <2>1 DEF Types, LifeTypes
  <2> QED
    BY <2>1, <2>2, FencesStay DEF Working
<1>2. ASSUME NEW w \in Runs, Return(w)
      PROVE  Fences'
  <2>1. /\ started' = started /\ outdated' \subseteq outdated /\ pipe' = [pipe EXCEPT ![w] = NoPipe]
        /\ stage' = [stage EXCEPT ![w] = "off"] \/ stage' = [stage EXCEPT ![w] = "finishing"]
    BY <1>2 DEF Return, HandlerReturns, Discard, FinishWrite, Redispatch, EndRun, rowVars
  <2>2. pipe'[w].at = "off" /\ stage'[w] # "writing"
        /\ \A v \in Runs : v # w => stage'[v] = stage[v] /\ pipe'[v] = pipe[v]
    BY <2>1, NoPipeTyped DEF Types, RunTypes, LifeTypes
  <2>3. \A v \in Runs : Working(v)' => Working(v) /\ pipe'[v].fence = pipe[v].fence
    BY <2>2 DEF Working
  <2>4. \A v \in Runs : stage'[v] = "writing" => stage[v] = "writing" /\ pipe'[v].gen = pipe[v].gen
    BY <2>2
  <2> QED
    BY <2>1, <2>3, <2>4, FencesStay
<1>3. ASSUME NEW w \in Runs, Work(w)
      PROVE  Fences'
  <2>1. Worked(w)
    BY <1>3, WorkWorks
  <2>2. UNCHANGED <<stage, started, outdated>> /\ \A v \in Runs : pipe'[v].gen = pipe[v].gen /\ pipe'[v].fence = pipe[v].fence
    BY <2>1 DEF Worked, lifeVars
  <2>3. \A v \in Runs : Working(v)' => Working(v)
    BY <2>1 DEF Worked, Working
  <2> QED
    BY <2>2, <2>3, FencesStay
<1>4. ASSUME NEW q \in Requests, RequestNext(q)
      PROVE  Fences'
  <2>1. UNCHANGED <<stage, pipe>> /\ (Kept \/ Renewed(q))
    BY <1>4, RequestDoes DEF Requested
  <2>2. CASE Kept
    BY <2>1, <2>2, FencesStay DEF Kept, Working, rowVars
  <2>3. CASE Renewed(q)
    BY <2>1, <2>3, FencesRenewed DEF Renewed, Cleared
  <2> QED
    BY <2>1, <2>2, <2>3
<1>5. CASE DropItem \/ Sweep
  BY <1>5, FencesStay DEF DropItem, Sweep, GiveUp, Accept, lifeVars, rowVars, runVars, Working
<1>6. CASE Stop
  <2>1. started' = started /\ outdated' = {} /\ stage' = [w \in Runs |-> "off"] /\ pipe' = [w \in Runs |-> NoPipe]
    BY <1>6 DEF Stop, Crash, rowVars
  <2> QED
    BY <2>1, NoPipeTyped, FencesStay DEF Working
<1>7. CASE UNCHANGED vars
  BY <1>7, FencesStay DEF vars, lifeVars, rowVars, runVars, Working
<1> QED
  BY <1>1, <1>2, <1>3, <1>4, <1>5, <1>6, <1>7, FencesStartRun, FencesRunningLands, FencesRunningFails, FencesLoad
     DEF Next, RunNext, Work

-----------------------------------------------------------------------------
(* Resets and runs *)

\* The fence holds outdated runs back.
LEMMA FencedIsCurrent ==
  ASSUME Fences, NEW w \in Runs, Working(w), FenceOK(w)
  PROVE  Current(w) /\ row.status = "running"
BY DEF Fences, FenceOK, Current

\* Process changes the content of the row for a current run only.
LEMMA WorkFenced ==
  ASSUME Types, Fences, NEW w \in Runs, Work(w)
  PROVE  UNCHANGED contentVars \/ Current(w)
<1>1. Working(w)
  BY WorkWorks DEF Worked, Working
<1>2. CASE Checkpoint(w) \/ Persist(w) \/ ReplaceTags(w)
  BY <1>1, <1>2, FencedIsCurrent DEF Checkpoint, Persist, ReplaceTags, UpdateContent
<1>3. CASE Notify(w)
  BY <1>1, <1>3, FencedIsCurrent DEF Notify, UpdateContent, rowVars
<1>4. CASE Reuse(w) \/ AcquireFetched(w) \/ AcquireYouTube(w) \/ AcquireMarkdown(w) \/ Index(w) \/ Upsert(w)
  BY <1>4 DEF Reuse, AcquireFetched, AcquireYouTube, AcquireMarkdown, Acquired, Index, Upsert, rowVars
<1> QED
  BY <1>2, <1>3, <1>4 DEF Work

LEMMA RowsWork ==
  ASSUME Types, Control, NEW w \in Runs, Work(w)
  PROVE  Resets' /\ RunRows'
<1> USE DEF Control
<1>1. Worked(w) /\ UNCHANGED <<lifeVars, started, outdated, request>>
  BY WorkWorks DEF Worked, requestVars
<1>2. \A v \in Runs : (Working(v)' => Working(v)) /\ (Current(v)' => Current(v))
  BY <1>1 DEF Worked, Working, Current
<1>3. UNCHANGED <<Forcing, Quiescent, Settled>>
  BY <1>1 DEF Forcing, Quiescent, Settled, lifeVars
<1>4. ASSUME NEW q \in Requests, request[q].at \in Cleaning
      PROVE  contentKey' = NoKey
  <2>1. ~Current(w) /\ contentKey = NoKey
    BY <1>4 DEF Resets
  <2> QED
    BY <2>1, WorkFenced DEF contentVars
<1>5. Resets'
  BY <1>1, <1>2, <1>3, <1>4 DEF Resets
<1>6. \A v \in live : pipe'[v].at = "load" => pipe[v].at = "load"
  BY <1>1 DEF Worked, Types, LifeTypes
<1>7. RunRows'
  BY <1>1, <1>2, <1>3, <1>6 DEF RunRows, lifeVars
<1> QED
  BY <1>5, <1>7

LEMMA RowsBegin ==
  ASSUME Types, Control, NEW w \in Runs, BeginRun(w)
  PROVE  Resets' /\ RunRows'
<1> USE DEF Control
<1>1. /\ ~Forcing /\ work = "waiting" /\ stage[w] = "off"
      /\ work' = "held" /\ live' = {w} /\ stage' = [stage EXCEPT ![w] = "begun"]
      /\ UNCHANGED <<row, started, contentKey, pipe, outdated, request>>
  BY DEF BeginRun, Begin, rowVars, contentVars, runVars, requestVars
<1>2. stage'[w] = "begun" /\ pipe[w].at = "off" /\ w \notin outdated
  BY <1>1 DEF Types, LifeTypes, PipeTypes
<1>3. live = {} /\ ~Quiescent
  BY <1>1 DEF Owners, LifeOwners, Quiescent
<1>4. ~Settled /\ \A q \in Requests : request[q].at \notin Resetting
  BY <1>1, <1>3 DEF Resets
<1>5. \A v \in Runs : ~Current(v)
  BY <1>1, <1>3 DEF RunRows
<1>6. ~Settled' /\ \A v \in Runs : ~Current(v)'
  BY <1>1, <1>4, <1>5 DEF Settled, Current, Working
<1>7. Resets'
  BY <1>1, <1>4, <1>6 DEF Resets, Resetting
<1>8. RunRows'
  BY <1>1, <1>2, <1>6 DEF RunRows
<1> QED
  BY <1>7, <1>8

LEMMA RowsStart ==
  ASSUME Types, Control, NEW w \in Runs, StartRun(w)
  PROVE  Resets' /\ RunRows'
<1> USE DEF Control
<1>1. /\ stage[w] = "begun" /\ w \in live /\ stage' = [stage EXCEPT ![w] = "writing"]
      /\ pipe' = [pipe EXCEPT ![w].gen = clock + 1]
      /\ UNCHANGED <<row, work, live, started, contentKey, outdated, request>>
  BY DEF StartRun, EnterRunningWrite, rowVars, contentVars, requestVars
<1>2. \A v \in Runs : pipe'[v].at = pipe[v].at
  BY <1>1 DEF Types, RunTypes, Pipes
<1>3. stage'[w] = "writing" /\ \A v \in Runs : v # w => stage'[v] = stage[v]
  BY <1>1 DEF Types, LifeTypes
<1>4. \A v \in Runs : Current(v)' <=> Current(v)
  BY <1>1, <1>2 DEF Current, Working
<1>5. ~Quiescent
  BY <1>1 DEF Quiescent
<1>6. UNCHANGED <<Settled, Forcing>>
  BY <1>1 DEF Settled, Forcing
<1>7. Resets'
  BY <1>1, <1>5, <1>6, <1>4 DEF Resets, Resetting
<1>8. RunRows'
  BY <1>1, <1>2, <1>3, <1>4, <1>6 DEF RunRows, Types, LifeTypes
<1> QED
  BY <1>7, <1>8

\* A run the reset would have to wait for: no request is resetting the row.
LEMMA BusyRun ==
  ASSUME Control, NEW w \in live, stage[w] # "finishing"
  PROVE  ~Quiescent /\ \A q \in Requests : request[q].at \notin Resetting
BY DEF Control, Resets, Quiescent

LEMMA RowsLands ==
  ASSUME Types, Control, NEW w \in Runs, RunningLands(w)
  PROVE  Resets' /\ RunRows'
<1> USE DEF Control
<1>1. /\ stage[w] = "writing" /\ stage' = [stage EXCEPT ![w] = "handling"]
      /\ pipe' = [pipe EXCEPT ![w].at = Proceed(w, "load")] /\ row' = Running(w) /\ started' = pipe[w].gen
      /\ UNCHANGED <<work, live, contentKey, outdated, request>>
  BY DEF RunningLands, MarkRunning, contentVars, requestVars
<1>2. /\ pipe'[w].at \in {"load", "aborted"} /\ stage'[w] = "handling" /\ pipe[w].at = "off"
      /\ \A v \in Runs : v # w => pipe'[v] = pipe[v] /\ stage'[v] = stage[v]
  BY <1>1 DEF Types, RunTypes, Pipes, LifeTypes, PipeTypes, Proceed
<1>3. row'.status = "running" /\ ~Settled'
  BY <1>1 DEF Running, Settled
<1>4. started' # 0
  BY <1>1 DEF Types, PipeTypes, RunTypes, Pipes, Clocks
<1>5. \A v \in Runs : Current(v)' <=> Current(v)
  BY <1>1, <1>2 DEF Current, Working
<1>6. \A q \in Requests : request[q].at \in Resetting => Quiescent'
  <2>1. SUFFICES ASSUME NEW q \in Requests, request[q].at \in Resetting
                 PROVE  Quiescent'
    OBVIOUS
  <2>2. w \notin live /\ Quiescent
    BY <1>1, <2>1, BusyRun DEF Resets
  <2> QED
    BY <1>1, <1>2, <2>2 DEF Quiescent, Types, LifeTypes
<1>7. Resets'
  BY <1>1, <1>3, <1>5, <1>6 DEF Resets
<1>8. Forcing' = Forcing
  BY <1>1 DEF Forcing
<1>9. RunRows'
  BY <1>1, <1>3, <1>4, <1>5, <1>8 DEF RunRows
<1> QED
  BY <1>7, <1>9

LEMMA RowsFails ==
  ASSUME Types, Control, NEW w \in Runs, RunningFails(w)
  PROVE  Resets' /\ RunRows'
<1> USE DEF Control
<1>1. /\ stage' = [stage EXCEPT ![w] = "off"] /\ pipe' = [pipe EXCEPT ![w] = NoPipe]
      /\ stage[w] \in {"begun", "writing"} /\ outdated' = outdated \ {w} /\ live' = live \ {w}
      /\ work' = IF w \in live THEN "none" ELSE work
      /\ UNCHANGED <<contentKey, request>>
  BY DEF RunningFails, RunningWriteFails, EndRun, contentVars, requestVars
<1>2. (row' = row /\ started' = started) \/ (row' = Running(w) /\ started' = pipe[w].gen /\ stage[w] = "writing")
  BY DEF RunningFails
<1>3. /\ pipe'[w].at = "off" /\ stage'[w] = "off" /\ pipe[w].at = "off"
      /\ \A v \in Runs : v # w => pipe'[v] = pipe[v] /\ stage'[v] = stage[v]
  BY <1>1, NoPipeTyped DEF Types, RunTypes, Pipes, LifeTypes, PipeTypes
<1>4. row'.status = row.status \/ row'.status = "running"
  BY <1>2 DEF Running
<1>5. started' = started \/ started' # 0
  BY <1>2 DEF Types, PipeTypes, RunTypes, Pipes, Clocks
<1>6. \A v \in Runs : Current(v)' <=> Current(v)
  BY <1>1, <1>3 DEF Current, Working
<1>7. Quiescent => Quiescent' /\ w \notin live
  <2>1. ASSUME Quiescent
        PROVE  w \notin live
    BY <1>1, <2>1 DEF Quiescent
  <2> QED
    BY <1>1, <1>3, <2>1 DEF Quiescent, Types, LifeTypes
<1>8. (Settled' => Settled) /\ Forcing' = Forcing
  BY <1>1, <1>4 DEF Settled, Forcing
<1>9. Resets'
  BY <1>1, <1>6, <1>7, <1>8 DEF Resets
<1>10. RunRows'
  <2>1. ASSUME NEW v \in Runs, Current(v)', v \notin live'
        PROVE  live' = {} /\ (work' = "none" \/ Forcing')
    <3>1. v # w /\ v \notin live /\ Current(v)
      BY <1>1, <1>3, <1>6, <2>1 DEF Current, Working
    <3> QED
      BY <1>1, <1>8, <3>1 DEF RunRows
  <2>2. \A v \in live' : v \in live /\ v # w /\ pipe'[v] = pipe[v] /\ stage'[v] = stage[v] /\ v \notin outdated'
    BY <1>1, <1>3 DEF RunRows, Types, LifeTypes
  <2>3. \A v \in live' : stage'[v] = "handling" => row'.status = "running"
    BY <1>4, <2>2 DEF RunRows
  <2>4. \A v \in live' : pipe'[v].at = "load" => started' # 0
    BY <1>5, <2>2 DEF RunRows
  <2>5. \A v \in Runs : Current(v)' => row'.status = "running"
    BY <1>4, <1>6 DEF RunRows
  <2> QED
    BY <1>6, <2>1, <2>2, <2>3, <2>4, <2>5 DEF RunRows
<1> QED
  BY <1>9, <1>10

LEMMA RowsLoad ==
  ASSUME Types, Control, NEW w \in Runs, Load(w)
  PROVE  Resets' /\ RunRows'
<1> USE DEF Control
<1>1. UNCHANGED <<row, work, live, stage, started, contentKey, outdated, request>> /\ pipe[w].at = "load"
  BY DEF Load, lifeVars, rowVars, contentVars, requestVars
<1>2. /\ pipe'[w].at \in {"rejected", "reuse", "acquire", "aborted"}
      /\ w \notin live => pipe'[w].at = "aborted"
      /\ \A v \in Runs : v # w => pipe'[v] = pipe[v]
  BY DEF Load, Proceed, Types, RunTypes, Pipes
<1>3. UNCHANGED <<Settled, Quiescent, Forcing>>
  BY <1>1 DEF Settled, Quiescent, Forcing
<1>4. \A v \in Runs : Current(v)' => Current(v) \/ (v = w /\ w \in live)
  BY <1>1, <1>2 DEF Current, Working
<1>5. CASE w \in live
  <2>1. stage[w] = "handling" /\ row.status = "running"
    BY <1>1, <1>5 DEF Types, PipeTypes, RunRows
  <2>2. \A q \in Requests : request[q].at \notin Resetting
    BY <1>5, <2>1, BusyRun
  <2>3. Resets'
    BY <1>1, <1>3, <2>2 DEF Resets, Resetting
  <2>4. \A v \in Runs : v \in live => v = w
    BY <1>5 DEF Owners, LifeOwners
  <2>5. \A v \in Runs : ~Current(v)
    BY <1>1, <1>5, <2>4 DEF RunRows, Current, Working
  <2> QED
    BY <1>1, <1>2, <1>3, <1>4, <1>5, <2>1, <2>3, <2>4, <2>5 DEF RunRows
<1>6. CASE w \notin live
  <2>1. Resets'
    BY <1>1, <1>3, <1>4, <1>6 DEF Resets
  <2> QED
    BY <1>1, <1>2, <1>3, <1>4, <1>6, <2>1 DEF RunRows, Types, LifeTypes
<1> QED
  BY <1>5, <1>6

\* A run returns: it is discarded, it writes its outcome, or it is redispatched.
Discards(w) == w \notin live /\ UNCHANGED <<row, work, live>> /\ stage' = [stage EXCEPT ![w] = "off"]
Finishes(w) ==
  /\ w \in live /\ stage' = [stage EXCEPT ![w] = "finishing"]
  /\ row'.status \in {row.status, "failed", "ready"} /\ UNCHANGED <<work, live>>
Passes(w) ==
  /\ w \in live /\ stage' = [stage EXCEPT ![w] = "off"]
  /\ row'.status \in {row.status, "pending"} /\ work' = "waiting" /\ live' = live \ {w}

LEMMA ReturnDoes ==
  ASSUME NEW w \in Runs, Return(w)
  PROVE  stage[w] = "handling" /\ (Discards(w) \/ Finishes(w) \/ Passes(w))
<1>1. PICK outcome \in Returns(w) : HandlerReturns(w, outcome)
  BY DEF Return
<1>2. CASE Discard(w)
  BY <1>2 DEF Discard, EndRun, Discards
<1>3. ASSUME NEW landed \in BOOLEAN, FinishWrite(w, outcome, landed)
      PROVE  stage[w] = "handling" /\ Finishes(w)
  <2>1. row'.status \in {row.status, "failed", "ready"}
    BY <1>3 DEF FinishWrite
  <2> QED
    BY <1>3, <2>1 DEF FinishWrite, Finishes
<1>4. ASSUME NEW landed \in BOOLEAN, Redispatch(w, outcome, landed)
      PROVE  stage[w] = "handling" /\ Passes(w)
  BY <1>4 DEF Redispatch, EndRun, Passes, Pending
<1> QED
  BY <1>1, <1>2, <1>3, <1>4 DEF HandlerReturns

LEMMA RowsReturn ==
  ASSUME Types, Control, NEW w \in Runs, Return(w)
  PROVE  Resets' /\ RunRows'
<1> USE DEF Control
<1>1. /\ pipe' = [pipe EXCEPT ![w] = NoPipe] /\ outdated' = outdated \ {w}
      /\ UNCHANGED <<started, contentKey, request>>
  BY DEF Return, rowVars, contentVars, requestVars
<1>2. stage[w] = "handling" /\ (Discards(w) \/ Finishes(w) \/ Passes(w))
  BY ReturnDoes
<1>3. pipe'[w].at = "off" /\ \A v \in Runs : v # w => pipe'[v] = pipe[v]
  BY <1>1, NoPipeTyped DEF Types, RunTypes
<1>4. Forcing' = Forcing
  BY <1>1 DEF Forcing
<1>5. \A v \in Runs : Current(v)' => Current(v) /\ v # w
  BY <1>1, <1>3 DEF Current, Working
<1>6. CASE Discards(w)
  <2>1. w \notin live /\ UNCHANGED <<row, work, live>> /\ \A v \in Runs : v # w => stage'[v] = stage[v]
    BY <1>6 DEF Discards, Types, LifeTypes
  <2>2. Quiescent' = Quiescent /\ Settled' = Settled
    BY <2>1 DEF Quiescent, Settled, Types, LifeTypes
  <2>3. Resets'
    BY <1>1, <1>4, <1>5, <2>1, <2>2 DEF Resets
  <2>4. RunRows'
    BY <1>1, <1>3, <1>4, <1>5, <2>1 DEF RunRows, Types, LifeTypes
  <2> QED
    BY <2>3, <2>4
<1>7. CASE Finishes(w) \/ Passes(w)
  <2>1. w \in live /\ live = {w}
    BY <1>7 DEF Finishes, Passes, Owners, LifeOwners
  <2>2. \A q \in Requests : request'[q].at \notin Resetting
    BY <1>1, <1>2, <2>1, BusyRun
  <2>3. \A v \in Runs : ~Current(v)'
    BY <1>5, <2>1 DEF RunRows
  <2>4. live' \subseteq {w}
    BY <1>7, <2>1 DEF Finishes, Passes
  <2>5. RunRows'
    <3>1. \A v \in live' : stage'[v] # "handling"
      BY <1>7, <2>1, <2>4 DEF Finishes, Passes, Types, LifeTypes
    <3> QED
      BY <1>1, <1>3, <2>3, <2>4, <3>1 DEF RunRows
  <2>6. CASE Finishes(w)
    <3>1. work' = "held" /\ live' = {w} /\ stage'[w] = "finishing"
      BY <2>1, <2>6 DEF Finishes, Owners, LifeOwners, Types, LifeTypes
    <3>2. Quiescent'
      BY <3>1 DEF Quiescent
    <3>3. Resets'
      BY <2>2, <3>2 DEF Resets, Resetting
    <3> QED
      BY <2>5, <3>3
  <2>7. CASE Passes(w)
    <3>1. row.status = "running"
      BY <1>2, <2>1 DEF RunRows
    <3>2. ~Settled'
      BY <2>7, <3>1 DEF Passes, Settled
    <3>3. Resets'
      BY <2>2, <3>2 DEF Resets, Resetting
    <3> QED
      BY <2>5, <3>3
  <2> QED
    BY <1>7, <2>6, <2>7
<1> QED
  BY <1>2, <1>6, <1>7

LEMMA RowsSettle ==
  ASSUME Types, Control, NEW w \in Runs, Settle(w)
  PROVE  Resets' /\ RunRows'
<1> USE DEF Control
<1>1. /\ stage[w] = "finishing" /\ stage' = [stage EXCEPT ![w] = "off"] /\ live' = live \ {w}
      /\ work' = IF w \in live THEN "none" ELSE work
      /\ UNCHANGED <<row, started, contentKey, pipe, outdated, request>>
  BY DEF Settle, FinishRelease, EndRun, rowVars, contentVars, runVars, requestVars
<1>2. live = {w} /\ live' = {} /\ work' = "none"
  BY <1>1 DEF Owners, LifeOwners
<1>3. Quiescent'
  BY <1>2 DEF Quiescent
<1>4. \A v \in Runs : Current(v)' <=> Current(v)
  BY <1>1 DEF Current, Working
<1>5. Resets'
  BY <1>1, <1>3, <1>4 DEF Resets, Settled
<1>6. RunRows'
  BY <1>1, <1>2, <1>4 DEF RunRows
<1> QED
  BY <1>5, <1>6

\* A step of a request that leaves the work, the row and the runs alone.
LEMMA RowsIdle ==
  ASSUME OneRequest, Types, Control, NEW q \in Requests, Idles, pipe' = pipe,
         request'[q].at \in Resetting => Quiescent,
         request'[q].at \in Cleaning => request[q].at \in Cleaning,
         Forcing => request'[q].at \in ForceSteps
  PROVE  Resets' /\ RunRows'
<1> USE DEF Control
<1>1. UNCHANGED <<row, work, live, stage, started, contentKey, outdated>>
  BY DEF Idles, Kept, lifeVars, rowVars, contentVars
<1>2. UNCHANGED <<Settled, Quiescent>> /\ \A v \in Runs : Current(v)' <=> Current(v)
  BY <1>1 DEF Settled, Quiescent, Current, Working
<1>3. Forcing => Forcing'
  BY TheRequest
<1>4. \A r \in Requests : r = q
  BY TheRequest
<1>5. Resets'
  BY <1>1, <1>2, <1>3, <1>4 DEF Resets
<1>6. RunRows'
  BY <1>1, <1>2, <1>3 DEF RunRows
<1> QED
  BY <1>5, <1>6

\* A reset of the row: every run that has loaded the reading is outdated.
LEMMA RowsRenewed ==
  ASSUME OneRequest, Types, Control, NEW q \in Requests, Renewed(q), UNCHANGED <<stage, pipe>>,
         live' = live, \A w \in live : stage[w] # "handling",
         request'[q].at \in Resetting => Quiescent'
  PROVE  Resets' /\ RunRows'
<1> USE DEF Control
<1>1. row'.status = "pending" /\ ~Settled' /\ contentKey' = NoKey
      /\ outdated' = {w \in Runs : pipe[w].at \notin {"off", "load"}}
  BY DEF Renewed, Cleared, Pending, Settled
<1>2. \A v \in Runs : ~Current(v)'
  BY <1>1 DEF Current, Working
<1>3. \A w \in live : w \in Runs /\ pipe[w].at = "off"
  BY DEF Types, LifeTypes, PipeTypes
<1>4. \A w \in live : w \notin outdated'
  BY <1>1, <1>3
<1>5. Resets'
  BY <1>1, <1>2, TheRequest DEF Resets
<1>6. RunRows'
  BY <1>2, <1>3, <1>4 DEF RunRows
<1> QED
  BY <1>5, <1>6

LEMMA RowsRequest ==
  ASSUME OneRequest, Types, Control, NEW q \in Requests, RequestNext(q)
  PROVE  Resets' /\ RunRows'
<1> USE DEF Control
<1>1. Route(q) /\ UNCHANGED <<stage, pipe>> /\ Types
  BY RequestRoute, RequestDoes DEF Requested
<1>2. Resetting \cap ForceSteps = {} /\ Cleaning \subseteq Resetting
  BY DEF Resetting, Cleaning, ForceSteps
<1>3. CASE Enters(q)
  <2>1. ~Forcing /\ Idles
    BY <1>3, TheRequest DEF Enters, ForceSteps
  <2>2. request'[q].at \in {"mark", "put"} => Quiescent
    BY <1>3, <2>1 DEF Enters, Resets
  <2>3. request'[q].at \in {"mark", "put", "force"}
    BY <1>3 DEF Enters
  <2>4. request'[q].at \in Resetting => Quiescent
    BY <2>2, <2>3 DEF Resetting, Cleaning
  <2>5. request'[q].at \notin Cleaning
    BY <2>3 DEF Cleaning
  <2> QED
    BY <1>1, <2>1, <2>4, <2>5, RowsIdle
<1>4. CASE Drains(q) \/ Marks(q)
  <2>1. Idles /\ request'[q].at \in {"force mark", "force reset"}
    BY <1>4 DEF Drains, Marks
  <2> QED
    BY <1>1, <2>1, RowsIdle DEF Resetting, Cleaning, ForceSteps
<1>5. CASE Continues(q)
  <2>1. Idles /\ request[q].at \in Resetting /\ request'[q].at \notin Cleaning
    BY <1>5 DEF Continues, Cleaning
  <2>2. Quiescent /\ ~Forcing
    BY <1>2, <2>1, TheRequest DEF Resets
  <2> QED
    BY <1>1, <2>1, <2>2, RowsIdle
<1>6. CASE Cleans(q)
  <2>1. Idles /\ request[q].at \in Cleaning
    BY <1>6 DEF Cleans
  <2>2. Quiescent /\ ~Forcing
    BY <1>2, <2>1, TheRequest DEF Resets
  <2> QED
    BY <1>1, <2>1, <2>2, RowsIdle
<1>7. CASE Submits(q) /\ UNCHANGED lifeVars
  <2>1. Idles /\ request[q].at \in Cleaning /\ request'[q].at = "idle"
    BY <1>7 DEF Submits, Idles, Cleaning
  <2>2. ~Forcing
    BY <1>2, <2>1, TheRequest
  <2> QED
    BY <1>1, <2>1, <2>2, RowsIdle DEF Resetting, Cleaning
<1>8. CASE Submits(q) /\ Accept(0)
  <2>1. /\ UNCHANGED <<row, live, started, contentKey, outdated>> /\ request[q].at = "submit"
        /\ request'[q].at = "idle"
    BY <1>8 DEF Submits, Accept, Kept, rowVars, contentVars
  <2>2. ~Settled /\ \A v \in Runs : ~Current(v)
    BY <2>1 DEF Resets, Cleaning
  <2>3. ~Settled' /\ \A v \in Runs : ~Current(v)'
    BY <1>1, <2>1, <2>2 DEF Settled, Current, Working
  <2>4. Resets'
    BY <2>1, <2>3, TheRequest DEF Resets, Resetting, Cleaning
  <2> QED
    BY <1>1, <2>1, <2>3, <2>4 DEF RunRows
<1>9. CASE Claims(q)
  <2>1. live' = {} /\ UNCHANGED <<row, started, contentKey, outdated>> /\ request'[q].at = "await"
    BY <1>9 DEF Claims, Replace, Kept, rowVars, contentVars
  <2>2. Forcing' /\ \A v \in Runs : Current(v)' <=> Current(v)
    BY <1>1, <2>1, TheRequest DEF ForceSteps, Current, Working
  <2>3. Resets'
    BY <2>1, <2>2, TheRequest DEF Resets, Resetting, Cleaning
  <2> QED
    BY <2>1, <2>2, <2>3 DEF RunRows
<1>10. CASE Renews(q)
  <2>1. Renewed(q) /\ UNCHANGED <<work, live>> /\ request[q].at \in Resetting
    BY <1>10 DEF Renews, ResetRow, Resetting
  <2>2. Quiescent
    BY <2>1 DEF Resets
  <2>3. Quiescent' /\ \A w \in live : stage[w] # "handling"
    BY <1>1, <2>1, <2>2 DEF Quiescent
  <2> QED
    BY <1>1, <2>1, <2>3, RowsRenewed
<1>11. CASE ForceRenews(q)
  <2>1. Renewed(q) /\ live' = live /\ Forcing /\ request'[q].at = "idle"
    BY <1>11, TheRequest DEF ForceRenews, ResetRow, GiveUp, ForceSteps
  <2>2. live = {}
    BY <2>1 DEF Owners, LifeOwners
  <2> QED
    BY <1>1, <2>1, <2>2, RowsRenewed DEF Resetting, Cleaning
<1>12. CASE ForceGivesUp(q)
  <2>1. UNCHANGED <<row, live, started, contentKey, outdated>> /\ work' = "none" /\ request'[q].at = "idle" /\ Forcing
    BY <1>12, TheRequest DEF ForceGivesUp, GiveUp, Kept, rowVars, contentVars, ForceSteps
  <2>2. live = {} /\ \A v \in Runs : Current(v)' <=> Current(v)
    BY <1>1, <2>1 DEF Owners, LifeOwners, Current, Working
  <2>3. Quiescent'
    BY <2>1, <2>2 DEF Quiescent
  <2>4. Resets'
    BY <2>1, <2>3, TheRequest DEF Resets, Resetting, Cleaning
  <2> QED
    BY <2>1, <2>2, <2>4 DEF RunRows
<1> QED
  BY <1>1, <1>3, <1>4, <1>5, <1>6, <1>7, <1>8, <1>9, <1>10, <1>11, <1>12 DEF Route, Submits

LEMMA RowsSystem ==
  ASSUME Types, Control, DropItem \/ Sweep \/ Stop
  PROVE  Resets' /\ RunRows'
<1> USE DEF Control
<1>1. CASE DropItem
  <2>1. /\ UNCHANGED <<row, live, stage, started, contentKey, pipe, outdated, request>>
        /\ work = "waiting" /\ work' = "none" /\ ~Forcing
    BY <1>1 DEF DropItem, GiveUp, rowVars, contentVars, runVars, requestVars
  <2>2. live = {} /\ \A v \in Runs : Current(v)' <=> Current(v)
    BY <2>1 DEF Owners, LifeOwners, Current, Working
  <2>3. Quiescent' /\ Settled' = Settled
    BY <2>1, <2>2 DEF Quiescent, Settled
  <2>4. Resets'
    BY <2>1, <2>2, <2>3 DEF Resets
  <2> QED
    BY <2>1, <2>2, <2>4 DEF RunRows
<1>2. CASE Sweep
  <2>1. /\ UNCHANGED <<row, live, stage, started, contentKey, pipe, outdated, request>> /\ ~serving
        /\ work' = "waiting" => ~Settled
    BY <1>2 DEF Sweep, Accept, lifeVars, rowVars, contentVars, runVars, Settled, Owners
  <2>2. live = {} /\ (\A w \in Runs : stage[w] = "off") /\ \A q \in Requests : request'[q].at = "idle"
    BY <2>1 DEF Owners, LifeOwners
  <2>3. \A v \in Runs : ~Current(v)'
    BY <2>1, <2>2 DEF Types, PipeTypes, Current, Working
  <2>4. (work' = "waiting" \/ Quiescent') /\ Settled' = Settled
    BY <2>1, <2>2 DEF Quiescent, Settled
  <2>5. Resets'
    BY <2>1, <2>2, <2>4 DEF Resets, Resetting, Cleaning
  <2> QED
    BY <2>1, <2>2, <2>3, <2>5 DEF RunRows
<1>3. CASE Stop
  <2>1. /\ live' = {} /\ work' = "none" /\ pipe' = [w \in Runs |-> NoPipe] /\ request' = [q \in Requests |-> Idle]
    BY <1>3 DEF Stop, Crash
  <2>2. \A v \in Runs : ~Current(v)'
    BY <2>1, NoPipeTyped DEF Current, Working
  <2>3. Quiescent' /\ \A q \in Requests : request'[q].at = "idle"
    BY <2>1, IdleHeld DEF Quiescent
  <2>4. Resets'
    BY <2>3 DEF Resets, Resetting, Cleaning
  <2> QED
    BY <2>1, <2>2, <2>4 DEF RunRows
<1> QED
  BY <1>1, <1>2, <1>3

LEMMA ControlKept == ASSUME OneRequest, Types, Types', Control, [Next]_vars PROVE Control'
<1>1. Owners' /\ Fences'
  BY OwnersKept, FencesKept DEF Control
<1>2. ASSUME NEW w \in Runs, RunNext(w)
      PROVE  Resets' /\ RunRows'
  BY <1>2, RowsBegin, RowsStart, RowsLands, RowsFails, RowsLoad, RowsWork, RowsReturn, RowsSettle DEF RunNext, Work
<1>3. CASE UNCHANGED vars
  <2>1. UNCHANGED <<row, work, live, stage, started, contentKey, pipe, outdated, request>>
    BY <1>3 DEF vars, lifeVars, rowVars, contentVars, runVars, requestVars
  <2>2. UNCHANGED <<Settled, Quiescent, Forcing>> /\ \A v \in Runs : Current(v)' <=> Current(v)
    BY <2>1 DEF Settled, Quiescent, Forcing, Current, Working
  <2>3. Resets'
    BY <2>1, <2>2 DEF Control, Resets
  <2>4. RunRows'
    BY <2>1, <2>2 DEF Control, RunRows
  <2> QED
    BY <1>1, <2>3, <2>4 DEF Control
<1> QED
  BY <1>1, <1>2, <1>3, RowsRequest, RowsSystem DEF Next, Control

LEMMA ControlInit == ASSUME Init PROVE Control
<1>1. /\ live = {} /\ work = "none" /\ stage = [w \in Runs |-> "off"] /\ outdated = {}
      /\ pipe = [w \in Runs |-> NoPipe] /\ request = [q \in Requests |-> Idle] /\ row = Pending(0)
  BY DEF Init, LifeInit
<1>2. \A w \in Runs : stage[w] = "off" /\ ~Working(w) /\ ~Current(w)
  BY <1>1, NoPipeTyped DEF Working, Current
<1>3. (\A q \in Requests : request[q].at = "idle") /\ ~Forcing
  BY <1>1, IdleHeld DEF Forcing, ForceSteps
<1>4. Owners
  BY <1>1, <1>2, <1>3 DEF Owners, LifeOwners
<1>5. Resets
  BY <1>1, <1>3 DEF Resets, Resetting, Cleaning, Settled, Pending
<1>6. RunRows /\ Fences
  BY <1>1, <1>2 DEF RunRows, Fences
<1> QED
  BY <1>4, <1>5, <1>6 DEF Control

LEMMA ControlAlways == ASSUME OneRequest PROVE Spec => [](Types /\ Control)
<1>1. Init => Types /\ Control
  BY TypesInit, ControlInit
<1>2. Types /\ Control /\ [Next]_vars => (Types /\ Control)'
  BY TypesKept, ControlKept
<1> QED
  BY <1>1, <1>2, PTL DEF Spec

\* What the fence is for: a run that loaded the reading before its last reset
\* takes no step that changes the content of the row.
LEMMA FenceStep ==
  ASSUME Types, Control, [Next]_vars, NEW w \in outdated, pipe'[w] # pipe[w]
  PROVE  UNCHANGED contentVars
<1>1. w \in Runs
  BY DEF Types, RunTypes
<1>2. ASSUME NEW v \in Runs, Work(v)
      PROVE  UNCHANGED contentVars
  <2>1. v = w
    BY <1>1, <1>2, WorkWorks DEF Worked
  <2> QED
    BY <1>2, <2>1, WorkFenced DEF Control, Current
<1>3. ASSUME NEW v \in Runs, RunNext(v), ~Work(v)
      PROVE  UNCHANGED contentVars
  BY <1>3 DEF RunNext, Work, BeginRun, StartRun, RunningLands, RunningFails, Load, Return, Settle, rowVars, contentVars
<1>4. ASSUME NEW q \in Requests, RequestNext(q)
      PROVE  UNCHANGED contentVars
  BY <1>4, RequestDoes DEF Requested
<1>5. CASE DropItem \/ Sweep \/ Stop
  BY <1>5 DEF DropItem, Sweep, Stop, rowVars
<1>6. CASE UNCHANGED vars
  BY <1>6 DEF vars, runVars
<1> QED
  BY <1>2, <1>3, <1>4, <1>5, <1>6 DEF Next

\* "Stale in-flight handlers" do not overwrite "replacement content after a
\* manual reprocess": FenceHolds, when requests follow one another.
THEOREM FenceCorrect == ASSUME OneRequest PROVE Spec => FenceHolds
<1>1. Types /\ Control /\ [Next]_vars
        => [\A w \in outdated : pipe'[w] # pipe[w] => UNCHANGED contentVars]_vars
  BY FenceStep
<1> QED
  BY <1>1, ControlAlways, PTL DEF Spec, FenceHolds

-----------------------------------------------------------------------------
(* Content *)

LEMMA KeyTags ==
  /\ NoKey[1] = "none" /\ NextBody[1] = "import" /\ NextBody[2] = imported + 1
  /\ \A n : RawKeyOf(n)[1] = "raw" /\ ContentKeyOf(n)[1] = "content"
  /\ \A m, n : ContentKeyOf(m) = ContentKeyOf(n) => m = n
BY DEF NoKey, NextBody, RawKeyOf, ContentKeyOf

LEMMA BodyStays ==
  ASSUME Types, Types', imported <= imported', NEW key \in SomeKey, Body(key)
  PROVE  key[1] = "import" /\ key[2] <= imported'
<1>1. imported \in Nat /\ imported' \in Nat
  BY ProcessingAssumption DEF Types, RequestTypes
<1>2. key[2] \in Nat
  BY ProcessingAssumption DEF Body, SomeKey, Keys, NoKey
<1> QED
  BY <1>1, <1>2 DEF Body

\* A step that leaves the row's content, and the blobs it points at or will
\* point at, alone.
Untouched ==
  /\ UNCHANGED <<kind, contentKey, rawKey>>
  /\ imported <= imported' /\ undone \subseteq undone'
  /\ contentKey # NoKey => blobs'[contentKey] = blobs[contentKey]
  /\ kind = "markdown" /\ blobs[rawKey] # NoText => blobs'[rawKey] # NoText \/ rawKey \in undone'
  /\ \A v \in Runs : Current(v)' /\ pipe[v].at = "checkpoint" => blobs'[pipe[v].content] = blobs[pipe[v].content]
  /\ \A v \in outdated' : Working(v)' => v \in outdated /\ Working(v) /\ pipe'[v].fence = pipe[v].fence

LEMMA PointersStay == ASSUME Types, Types', Pointers, Untouched PROVE Pointers'
<1>1. UNCHANGED <<kind, contentKey, rawKey>>
  BY DEF Untouched
<1>2. rawKey[1] = "import" => rawKey[1] = "import" /\ rawKey[2] <= imported'
  BY BodyStays DEF Pointers, Untouched, Types, RowTypes
<1>3. kind = "markdown" => rawKey[1] = "import" /\ (blobs'[rawKey] # NoText \/ rawKey \in undone')
  BY DEF Pointers, Untouched
<1>4. contentKey # NoKey => contentKey[1] = "content" /\ blobs'[contentKey] # NoText
  BY DEF Pointers, Untouched
<1>5. contentKey # NoKey => \A v \in outdated' : Working(v)' => contentKey # ContentKeyOf(pipe'[v].fence)
  BY DEF Pointers, Untouched
<1> QED
  BY <1>1, <1>2, <1>3, <1>4, <1>5 DEF Pointers, Body

LEMMA ProgressStays ==
  ASSUME Types, Types', Untouched, UNCHANGED <<summary, tags>>,
         NEW v \in Runs, Current(v)', Progress(v), pipe'[v] = pipe[v]
  PROVE  Progress(v)'
<1>1. UNCHANGED <<kind, contentKey, rawKey, summary, tags>>
  BY DEF Untouched
<1>2. pipe[v].raw[1] = "import" => pipe[v].raw[2] <= imported'
  BY <1>1, BodyStays DEF Progress, Untouched, Types, RunTypes, Pipes
<1>3. pipe[v].at = "checkpoint" => blobs'[pipe[v].content] = blobs[pipe[v].content]
  BY DEF Untouched
<1>4. contentKey # NoKey => blobs'[contentKey] = blobs[contentKey]
  BY DEF Untouched
<1>5. SummaryBy(v)' = SummaryBy(v)
  BY DEF SummaryBy
<1> QED
  BY <1>1, <1>2, <1>3, <1>4, <1>5 DEF Progress, Body

LEMMA ReadyStays ==
  ASSUME ReadyIsComplete, Untouched, UNCHANGED <<summary, tags>>, row'.status = "ready" => row.status = "ready"
  PROVE  ReadyIsComplete'
BY DEF ReadyIsComplete, Untouched

LEMMA ReplacingStays ==
  ASSUME Replacing, UNCHANGED <<kind, request, imported>>, kind = "markdown" => rawKey' = rawKey,
         \A q \in Requests : request[q].at = "update" => blobs'[request[q].body] = blobs[request[q].body]
  PROVE  Replacing'
BY DEF Replacing, Holds, MarkRaw, Body

\* The steps of a run up to the load, and after its return.
LEMMA ContentControl ==
  ASSUME Types, Types', Control, Content, NEW w \in Runs,
         BeginRun(w) \/ StartRun(w) \/ RunningLands(w) \/ RunningFails(w) \/ Settle(w)
  PROVE  Content'
<1>1. UNCHANGED <<kind, contentVars, blobs, request, imported, undone>> /\ outdated' \subseteq outdated
  BY DEF BeginRun, StartRun, RunningLands, RunningFails, Settle, rowVars, runVars, requestVars
<1>2. /\ pipe'[w].at \in {"off", "load", "aborted"} /\ pipe[w].at = "off"
      /\ \A v \in Runs : v # w => pipe'[v] = pipe[v]
  <2>1. pipe[w].at = "off"
    BY DEF BeginRun, Begin, StartRun, EnterRunningWrite, RunningLands, MarkRunning, RunningFails, RunningWriteFails,
           Settle, FinishRelease, Types, PipeTypes
  <2>2. CASE BeginRun(w) \/ Settle(w)
    BY <2>1, <2>2 DEF BeginRun, Settle, runVars
  <2>3. CASE StartRun(w)
    BY <2>1, <2>3 DEF StartRun, Types, RunTypes, Pipes
  <2>4. CASE RunningLands(w)
    BY <2>4 DEF RunningLands, Proceed, Types, RunTypes, Pipes, MarkRunning, PipeTypes
  <2>5. CASE RunningFails(w)
    BY <2>1, <2>5, NoPipeTyped DEF RunningFails, Types, RunTypes
  <2> QED
    BY <2>1, <2>2, <2>3, <2>4, <2>5
<1>3. \A v \in Runs : Working(v)' => Working(v) /\ v # w /\ pipe'[v] = pipe[v]
  BY <1>2 DEF Working
<1>4. \A v \in Runs : Current(v)' => Current(v) /\ pipe'[v] = pipe[v]
  <2>1. CASE RunningFails(w)
    <3>1. outdated' = outdated \ {w}
      BY <2>1 DEF RunningFails
    <3> QED
      BY <1>3, <3>1 DEF Current
  <2>2. CASE ~RunningFails(w)
    <3>1. outdated' = outdated
      BY <2>2 DEF BeginRun, StartRun, RunningLands, Settle, runVars
    <3> QED
      BY <1>3, <3>1 DEF Current
  <2> QED
    BY <2>1, <2>2
<1>5. Untouched
  <2>1. imported <= imported'
    BY <1>1, ProcessingAssumption DEF Types, RequestTypes
  <2> QED
    BY <1>1, <1>3, <1>4, <2>1 DEF Untouched, contentVars, Types, RunTypes
<1>6. row'.status = "ready" => row.status = "ready"
  BY DEF BeginRun, Begin, StartRun, EnterRunningWrite, RunningLands, MarkRunning, RunningFails, Running,
         Settle, FinishRelease
<1>7. \A v \in Runs : Current(v)' => Progress(v)'
  BY <1>1, <1>4, <1>5, ProgressStays DEF Content, contentVars
<1> QED
  BY <1>1, <1>5, <1>6, <1>7, PointersStay, ReadyStays, ReplacingStays DEF Content, contentVars

LEMMA ContentLoad == ASSUME Types, Types', Control, Control', Content, NEW w \in Runs, Load(w) PROVE Content'
<1>1. UNCHANGED <<row, kind, contentVars, blobs, request, imported, undone, outdated, live>> /\ pipe[w].at = "load"
  BY DEF Load, lifeVars, rowVars, requestVars
<1>2. /\ pipe'[w].kind = kind /\ pipe'[w].raw = rawKey /\ pipe'[w].content = contentKey
      /\ pipe'[w].at \in {"rejected", "reuse", "acquire", "aborted"}
      /\ pipe'[w].at = "acquire" => contentKey = NoKey
      /\ \A v \in Runs : v # w => pipe'[v] = pipe[v]
  BY DEF Load, Proceed, Types, RunTypes, Pipes
<1>3. w \in outdated => pipe'[w].at = "aborted"
  BY DEF Control, RunRows, Load, Proceed, Types, RunTypes, Pipes
<1>4. \A v \in outdated : Working(v)' => v # w /\ Working(v) /\ pipe'[v].fence = pipe[v].fence
  BY <1>2, <1>3 DEF Working, Types, RunTypes
<1>5. imported <= imported'
  BY <1>1, ProcessingAssumption DEF Types, RequestTypes
<1>6. Untouched
  BY <1>1, <1>4, <1>5 DEF Untouched, contentVars
<1>7. ASSUME NEW v \in Runs, Current(v)'
      PROVE  Progress(v)'
  <2>1. CASE v # w
    <3>1. pipe'[v] = pipe[v] /\ Current(v)
      BY <1>1, <1>2, <1>7, <2>1 DEF Current, Working
    <3> QED
      BY <1>1, <1>6, <1>7, <3>1, ProgressStays DEF Content, contentVars
  <2>2. CASE v = w
    <3>1. rawKey[1] = "import" => Body(rawKey)
      BY DEF Content, Pointers
    <3> QED
      BY <1>1, <1>2, <2>2, <3>1 DEF Progress, Body, contentVars
  <2> QED
    BY <2>1, <2>2
<1> QED
  BY <1>1, <1>6, <1>7, PointersStay, ReadyStays, ReplacingStays DEF Content, contentVars

LEMMA DoneDecides ==
  ASSUME NEW outcome \in Outcomes, NEW n,
         ~Decide(outcome, n, MaxAttempts).redispatch, ~Decide(outcome, n, MaxAttempts).markFailed
  PROVE  outcome = "Done"
BY DEF Decide, Outcomes

\* A row becomes ready when the live run is done.
LEMMA BecomesReady ==
  ASSUME Types, NEW w \in Runs, Return(w), row'.status = "ready", row.status # "ready"
  PROVE  w \in live /\ pipe[w].at = "done"
<1>1. PICK outcome \in Returns(w) : HandlerReturns(w, outcome)
  BY DEF Return
<1>2. outcome \in Outcomes
  BY <1>1 DEF Returns, Outcomes
<1>3. PICK landed \in BOOLEAN : FinishWrite(w, outcome, landed)
  BY <1>1 DEF HandlerReturns, Discard, Redispatch, Pending
<1>4. w \in live /\ ~Decide(outcome, attempt[w], MaxAttempts).redispatch
      /\ ~Decide(outcome, attempt[w], MaxAttempts).markFailed
  BY <1>3 DEF FinishWrite
<1>5. outcome = "Done"
  BY <1>2, <1>4, DoneDecides
<1>6. pipe[w].at = "done"
  BY <1>1, <1>5 DEF Returns
<1> QED
  BY <1>4, <1>6

LEMMA ContentReturn == ASSUME Types, Types', Control, Content, NEW w \in Runs, Return(w) PROVE Content'
<1>1. /\ UNCHANGED <<kind, contentVars, blobs, request, imported, undone>>
      /\ pipe' = [pipe EXCEPT ![w] = NoPipe] /\ outdated' = outdated \ {w}
  BY DEF Return, rowVars, requestVars
<1>2. pipe'[w].at = "off" /\ \A v \in Runs : v # w => pipe'[v] = pipe[v]
  BY <1>1, NoPipeTyped DEF Types, RunTypes
<1>3. \A v \in Runs : Working(v)' => Working(v) /\ pipe'[v] = pipe[v]
  BY <1>2 DEF Working
<1>4. \A v \in Runs : Current(v)' => Current(v) /\ pipe'[v] = pipe[v]
  BY <1>1, <1>2, <1>3 DEF Current, Working
<1>5. imported <= imported'
  BY <1>1, ProcessingAssumption DEF Types, RequestTypes
<1>6. Untouched
  BY <1>1, <1>3, <1>4, <1>5 DEF Untouched, contentVars, Types, RunTypes
<1>7. \A v \in Runs : Current(v)' => Progress(v)'
  BY <1>1, <1>4, <1>6, ProgressStays DEF Content, contentVars
<1>8. ReadyIsComplete'
  <2>1. CASE row'.status = "ready" => row.status = "ready"
    BY <1>1, <1>6, <2>1, ReadyStays DEF Content, contentVars
  <2>2. CASE row'.status = "ready" /\ row.status # "ready"
    <3>1. pipe[w].at = "done" /\ Current(w)
      BY <2>2, BecomesReady DEF Control, RunRows, Current, Working
    <3>2. /\ contentKey # NoKey /\ blobs[contentKey] = pipe[w].text
          /\ summary = SummaryBy(w) /\ tags = SummaryBy(w)
      BY <3>1 DEF Content, Progress
    <3>3. blobs[contentKey] # NoText
      BY <3>2 DEF Content, Pointers
    <3> QED
      BY <1>1, <3>2, <3>3 DEF ReadyIsComplete, SummaryBy, contentVars
  <2> QED
    BY <2>1, <2>2
<1> QED
  BY <1>1, <1>6, <1>7, <1>8, PointersStay, ReplacingStays DEF Content, contentVars

LEMMA WorkBlobs ==
  ASSUME Types, NEW w \in Runs, Work(w), NEW k \in Keys, k[1] # "raw", k # ContentKeyOf(pipe[w].fence)
  PROVE  blobs'[k] = blobs[k]
<1>1. CASE AcquireFetched(w)
  <2>1. blobs' = [blobs EXCEPT ![RawKeyOf(pipe[w].fence)] = <<"fetched", pipe[w].gen>>] /\ k # RawKeyOf(pipe[w].fence)
    BY <1>1, KeyTags DEF AcquireFetched
  <2> QED
    BY <2>1 DEF Types, RowTypes
<1>2. CASE Index(w)
  <2>1. blobs' = [blobs EXCEPT ![ContentKeyOf(pipe[w].fence)] = pipe[w].text]
    BY <1>2 DEF Index
  <2> QED
    BY <2>1 DEF Types, RowTypes
<1>3. CASE ~AcquireFetched(w) /\ ~Index(w)
  BY <1>3 DEF Work, Reuse, AcquireYouTube, AcquireMarkdown, Checkpoint, Upsert, Persist, ReplaceTags, Notify, UpdateContent
<1> QED
  BY <1>1, <1>2, <1>3

LEMMA WorkRaw ==
  ASSUME Types, Control, Content, NEW w \in Runs, Work(w)
  PROVE  /\ rawKey' \in {rawKey, pipe[w].raw}
         /\ kind = "markdown" => rawKey' = rawKey
<1>1. rawKey' \in {rawKey, pipe[w].raw}
  BY DEF Work, Reuse, AcquireFetched, AcquireYouTube, AcquireMarkdown, Acquired, Index, Checkpoint, Upsert, Persist,
         ReplaceTags, Notify, UpdateContent, rowVars, contentVars
<1>2. ASSUME kind = "markdown"
      PROVE  rawKey' = rawKey
  <2>1. CASE Current(w)
    BY <1>1, <1>2, <2>1 DEF Content, Progress
  <2>2. CASE ~Current(w)
    BY <2>2, WorkFenced DEF Control, contentVars
  <2> QED
    BY <2>1, <2>2
<1> QED
  BY <1>1, <1>2

LEMMA ReplacingWork == ASSUME Types, Control, Content, NEW w \in Runs, Work(w) PROVE Replacing'
<1>1. UNCHANGED <<kind, request, imported>>
  BY WorkWorks DEF Worked, requestVars
<1>2. ASSUME NEW q \in Requests, request[q].at = "update"
      PROVE  blobs'[request[q].body] = blobs[request[q].body]
  <2>1. request[q].body[1] = "import" /\ request[q].body \in SomeKey
    BY <1>2 DEF Content, Replacing, Holds, Body, Types, RequestTypes, Held
  <2>2. request[q].body \in Keys /\ request[q].body # ContentKeyOf(pipe[w].fence)
    BY <2>1, KeyTags DEF SomeKey
  <2> QED
    BY <2>1, <2>2, WorkBlobs
<1> QED
  BY <1>1, <1>2, WorkRaw, ReplacingStays DEF Content

\* A run that is not the current one changes nothing the row points at.
LEMMA ContentOutdated ==
  ASSUME Types, Types', Control, Content, NEW w \in Runs, Work(w), ~Current(w)
  PROVE  Content'
<1>1. Worked(w) /\ UNCHANGED <<row, kind, contentVars, request, imported, undone, outdated>>
  BY WorkWorks, WorkFenced DEF Control, Worked, lifeVars, requestVars
<1>2. Working(w) /\ w \in outdated
  BY <1>1 DEF Worked, Working, Current
<1>3. contentKey # NoKey => blobs'[contentKey] = blobs[contentKey]
  <2>1. SUFFICES ASSUME contentKey # NoKey
                 PROVE  blobs'[contentKey] = blobs[contentKey]
    OBVIOUS
  <2>2. contentKey \in Keys /\ contentKey[1] = "content" /\ contentKey # ContentKeyOf(pipe[w].fence)
    BY <1>2, <2>1 DEF Content, Pointers, Types, RowTypes, SomeKey
  <2> QED
    BY <2>2, WorkBlobs
<1>4. kind = "markdown" => blobs'[rawKey] = blobs[rawKey]
  <2>1. SUFFICES ASSUME kind = "markdown"
                 PROVE  blobs'[rawKey] = blobs[rawKey]
    OBVIOUS
  <2>2. rawKey \in Keys /\ rawKey[1] = "import" /\ rawKey # ContentKeyOf(pipe[w].fence)
    BY <2>1, KeyTags DEF Content, Pointers, Types, RowTypes, SomeKey
  <2> QED
    BY <2>2, WorkBlobs
<1>5. ASSUME NEW v \in Runs, Current(v)'
      PROVE  Current(v) /\ Progress(v) /\ pipe'[v] = pipe[v] /\ v # w
  <2>1. v # w
    BY <1>1, <1>2, <1>5 DEF Current
  <2>2. pipe'[v] = pipe[v]
    BY <1>1, <2>1 DEF Worked
  <2> QED
    BY <1>1, <1>5, <2>1, <2>2 DEF Current, Working, Content
<1>6. ASSUME NEW v \in Runs, Current(v)', pipe[v].at = "checkpoint"
      PROVE  blobs'[pipe[v].content] = blobs[pipe[v].content]
  <2>1. pipe[v].content = ContentKeyOf(pipe[v].fence) /\ pipe[v].fence # pipe[w].fence
    BY <1>2, <1>5, <1>6 DEF Progress, Control, Fences, Current
  <2>2. pipe[v].content \in Keys
    BY <2>1, KeysOf DEF Types, RunTypes, Pipes
  <2> QED
    BY <2>1, <2>2, KeyTags, WorkBlobs
<1>7. imported <= imported'
  BY <1>1, ProcessingAssumption DEF Types, RequestTypes
<1>8. \A v \in outdated : Working(v)' => Working(v) /\ pipe'[v].fence = pipe[v].fence
  BY <1>1 DEF Worked, Working, Types, RunTypes
<1>9. Untouched
  BY <1>1, <1>3, <1>4, <1>6, <1>7, <1>8 DEF Untouched, contentVars
<1>10. \A v \in Runs : Current(v)' => Progress(v)'
  BY <1>1, <1>5, <1>9, ProgressStays DEF contentVars
<1> QED
  BY <1>1, <1>9, <1>10, PointersStay, ReadyStays, ReplacingWork DEF Content, contentVars

\* What a step of the current run has to keep.
LEMMA ContentCurrent ==
  ASSUME Types, Types', Control, Content, NEW w \in Runs, Work(w), Current(w),
         Pointers', pipe'[w].at # "aborted" => Progress(w)'
  PROVE  Content'
<1>1. Worked(w) /\ UNCHANGED <<row, outdated>>
  BY WorkWorks DEF Worked, lifeVars
<1>2. \A v \in Runs : Current(v)' => v = w /\ pipe'[w].at # "aborted"
  BY <1>1 DEF Control, RunRows, Worked, Current, Working
<1>3. row'.status = "running"
  BY <1>1 DEF Control, RunRows
<1> QED
  BY <1>2, <1>3, ReplacingWork DEF Content, ReadyIsComplete

\* Steps that write nothing to the row.
LEMMA CurrentReads ==
  ASSUME Types, Types', Control, Content, NEW w \in Runs, Current(w), Worked(w),
         UNCHANGED <<contentKey, rawKey>>,
         contentKey # NoKey => blobs'[contentKey] = blobs[contentKey],
         kind = "markdown" => blobs'[rawKey] = blobs[rawKey],
         pipe[w].at # "checkpoint"
  PROVE  Pointers'
<1>1. UNCHANGED <<kind, imported, undone, outdated>> /\ imported <= imported'
  BY ProcessingAssumption DEF Worked, requestVars, Types, RequestTypes
<1>2. \A v \in Runs : Current(v)' => v = w
  BY DEF Control, RunRows, Worked, Current, Working
<1>3. \A v \in outdated : Working(v)' => Working(v) /\ pipe'[v].fence = pipe[v].fence
  BY DEF Worked, Working, Types, RunTypes
<1>4. Untouched
  BY <1>1, <1>2, <1>3 DEF Untouched
<1> QED
  BY <1>4, PointersStay DEF Content

LEMMA ContentReuse ==
  ASSUME Types, Types', Control, Content, NEW w \in Runs, Reuse(w), Current(w)
  PROVE  Content'
<1>1. Worked(w) /\ UNCHANGED <<contentVars, blobs>> /\ pipe[w].at = "reuse"
  BY WorkWorks DEF Work, Reuse, rowVars, At
<1>2. Steps(w, "vector", pipe[w].raw, pipe[w].content, blobs[pipe[w].content])
  BY ReuseDoes
<1>3. Pointers'
  BY <1>1, CurrentReads DEF contentVars
<1>4. Progress(w) /\ contentKey = pipe[w].content /\ contentKey # NoKey
  BY <1>1 DEF Content, Progress, Types, PipeTypes
<1>5. UNCHANGED <<kind, imported>>
  BY <1>1 DEF Worked, requestVars
<1>6. pipe'[w].at # "aborted" => Progress(w)'
  BY <1>1, <1>2, <1>4, <1>5 DEF Progress, Steps, Proceed, contentVars, Body
<1> QED
  BY <1>3, <1>6, ContentCurrent DEF Work

LEMMA ContentAcquired ==
  ASSUME Types, Types', Control, Content, NEW w \in Runs, Worked(w), Work(w), Current(w),
         pipe[w].at = "acquire", UNCHANGED contentVars, NEW raw, NEW text,
         Steps(w, "index", raw, pipe[w].content, text), text # NoText,
         raw = pipe[w].raw \/ (raw[1] = "raw" /\ pipe[w].kind = "web"),
         kind = "markdown" => blobs'[rawKey] = blobs[rawKey]
  PROVE  Content'
<1>1. Progress(w) /\ contentKey = NoKey
  BY DEF Content, Progress
<1>2. Pointers'
  BY <1>1, CurrentReads DEF contentVars
<1>3. UNCHANGED <<kind, imported>>
  BY DEF Worked, requestVars
<1>4. kind = "markdown" => raw = rawKey
  BY <1>1 DEF Progress
<1>5. raw[1] = "import" => Body(raw)
  BY <1>1 DEF Progress
<1>6. pipe'[w].at # "aborted" => Progress(w)'
  BY <1>1, <1>3, <1>4, <1>5 DEF Progress, Steps, Proceed, contentVars, Body
<1> QED
  BY <1>2, <1>6, ContentCurrent

LEMMA ContentAcquire ==
  ASSUME Types, Types', Control, Content, NEW w \in Runs, Current(w),
         AcquireFetched(w) \/ AcquireYouTube(w) \/ AcquireMarkdown(w)
  PROVE  Content'
<1>1. Work(w) /\ Worked(w) /\ UNCHANGED contentVars /\ pipe[w].at = "acquire"
  BY WorkWorks DEF Work, AcquireFetched, AcquireYouTube, AcquireMarkdown, Acquired, At, rowVars
<1>2. CASE AcquireFetched(w)
  <2>1. pipe[w].kind = "web" /\ kind # "markdown"
    BY <1>2 DEF AcquireFetched, Content, Progress
  <2>2. RawKeyOf(pipe[w].fence)[1] = "raw"
    BY KeyTags
  <2>3. \E text : text # NoText /\ Steps(w, "index", RawKeyOf(pipe[w].fence), pipe[w].content, text)
    BY <1>2, FetchedDoes
  <2> QED
    BY <1>1, <2>1, <2>2, <2>3, ContentAcquired
<1>3. CASE AcquireYouTube(w)
  <2>1. \E text : text # NoText /\ Steps(w, "index", pipe[w].raw, pipe[w].content, text)
    BY <1>3, YouTubeDoes
  <2>2. blobs' = blobs
    BY <1>3 DEF AcquireYouTube
  <2> QED
    BY <1>1, <2>1, <2>2, ContentAcquired
<1>4. CASE AcquireMarkdown(w)
  <2>1. blobs[pipe[w].raw] # NoText /\ Steps(w, "index", pipe[w].raw, pipe[w].content, blobs[pipe[w].raw])
    BY <1>4, MarkdownDoes DEF AcquireMarkdown
  <2>2. blobs' = blobs
    BY <1>4 DEF AcquireMarkdown
  <2> QED
    BY <1>1, <2>1, <2>2, ContentAcquired
<1> QED
  BY <1>2, <1>3, <1>4

LEMMA ContentIndex ==
  ASSUME Types, Types', Control, Content, NEW w \in Runs, Index(w), Current(w)
  PROVE  Content'
<1>1. Worked(w) /\ UNCHANGED contentVars /\ pipe[w].at = "index"
      /\ blobs' = [blobs EXCEPT ![ContentKeyOf(pipe[w].fence)] = pipe[w].text]
  BY WorkWorks DEF Work, Index, rowVars, At
<1>2. ContentKeyOf(pipe[w].fence) \in Keys /\ Steps(w, "checkpoint", pipe[w].raw, ContentKeyOf(pipe[w].fence), pipe[w].text)
  BY IndexDoes
<1>3. Progress(w) /\ contentKey = NoKey
  BY <1>1 DEF Content, Progress
<1>4. kind = "markdown" => blobs'[rawKey] = blobs[rawKey]
  <2>1. SUFFICES ASSUME kind = "markdown"
                 PROVE  blobs'[rawKey] = blobs[rawKey]
    OBVIOUS
  <2>2. rawKey \in Keys /\ rawKey[1] = "import" /\ rawKey # ContentKeyOf(pipe[w].fence)
    BY <2>1, KeyTags DEF Content, Pointers, Types, RowTypes, SomeKey
  <2> QED
    BY <2>2, WorkBlobs DEF Work
<1>5. Pointers'
  BY <1>1, <1>3, <1>4, CurrentReads DEF contentVars
<1>6. UNCHANGED <<kind, imported>>
  BY <1>1 DEF Worked, requestVars
<1>7. blobs'[ContentKeyOf(pipe[w].fence)] = pipe[w].text
  BY <1>1, <1>2 DEF Types, RowTypes
<1>8. pipe'[w].at # "aborted" => Progress(w)'
  BY <1>1, <1>2, <1>3, <1>6, <1>7 DEF Progress, Steps, Proceed, contentVars, Body
<1> QED
  BY <1>5, <1>8, ContentCurrent DEF Work

\* The content of a current run that is written, or was written before.
LEMMA PointersWritten ==
  ASSUME Types, Types', Control, Content, NEW w \in Runs, Current(w), Worked(w), NEW sum, UpdateContent(w, sum),
         pipe[w].at \in {"checkpoint", "persist", "notify"}
  PROVE  Pointers'
<1>1. /\ contentKey' = pipe[w].content /\ rawKey' = pipe[w].raw
      /\ UNCHANGED <<kind, blobs, outdated, imported, undone>>
  BY DEF UpdateContent, requestVars
<1>2. Progress(w)
  BY DEF Content
<1>3. pipe[w].content[1] = "content" /\ blobs[pipe[w].content] # NoText
  <2>1. CASE pipe[w].at = "checkpoint"
    BY <1>2, <2>1, KeyTags DEF Progress
  <2>2. CASE pipe[w].at # "checkpoint"
    BY <1>2, <2>2 DEF Progress, Content, Pointers
  <2> QED
    BY <2>1, <2>2
<1>4. ASSUME NEW v \in outdated, Working(v)'
      PROVE  pipe[w].content # ContentKeyOf(pipe'[v].fence)
  <2>1. v \in Runs /\ v # w /\ Working(v) /\ pipe'[v] = pipe[v]
    BY <1>4 DEF Types, RunTypes, Current, Worked, Working
  <2>2. CASE pipe[w].at = "checkpoint"
    <3>1. pipe[v].fence # pipe[w].fence /\ pipe[w].content = ContentKeyOf(pipe[w].fence)
      BY <1>2, <2>1, <2>2 DEF Control, Fences, Current, Progress
    <3> QED
      BY <2>1, <3>1, KeyTags
  <2>3. CASE pipe[w].at # "checkpoint"
    BY <1>2, <2>1, <2>3 DEF Progress, Content, Pointers
  <2> QED
    BY <2>2, <2>3
<1>5. kind = "markdown" => pipe[w].raw = rawKey
  BY <1>2 DEF Progress
<1>6. pipe[w].raw[1] = "import" => Body(pipe[w].raw)
  BY <1>2 DEF Progress
<1> QED
  BY <1>1, <1>3, <1>4, <1>5, <1>6 DEF Content, Pointers, Body

LEMMA ContentCheckpoint ==
  ASSUME Types, Types', Control, Content, NEW w \in Runs, Checkpoint(w), Current(w)
  PROVE  Content'
<1>1. Worked(w) /\ pipe[w].at = "checkpoint" /\ UpdateContent(w, NoSummary)
  BY WorkWorks DEF Work, Checkpoint, At
<1>2. Steps(w, "vector", pipe[w].raw, pipe[w].content, pipe[w].text)
  BY OtherDoes
<1>3. Pointers'
  BY <1>1, PointersWritten
<1>4. /\ contentKey' = pipe[w].content /\ rawKey' = pipe[w].raw /\ UNCHANGED <<kind, blobs, imported>>
  BY <1>1 DEF UpdateContent, requestVars
<1>5. Progress(w)
  BY DEF Content
<1>6. pipe[w].text # NoText /\ pipe[w].content = ContentKeyOf(pipe[w].fence) /\ blobs[pipe[w].content] = pipe[w].text
  BY <1>1, <1>5 DEF Progress
<1>7. pipe[w].content # NoKey
  <2>1. ContentKeyOf(pipe[w].fence)[1] = "content" /\ NoKey[1] = "none"
    BY KeyTags
  <2> QED
    BY <1>6, <2>1
<1>8. pipe'[w].at # "aborted" => Progress(w)'
  BY <1>1, <1>2, <1>4, <1>5, <1>6, <1>7 DEF Progress, Steps, Proceed, Body
<1> QED
  BY <1>3, <1>8, ContentCurrent DEF Work

LEMMA ContentUpsert ==
  ASSUME Types, Types', Control, Content, NEW w \in Runs, Upsert(w), Current(w)
  PROVE  Content'
<1>1. Worked(w) /\ pipe[w].at = "vector" /\ UNCHANGED <<contentVars, blobs>>
  BY WorkWorks DEF Work, Upsert, At, rowVars
<1>2. Steps(w, "persist", pipe[w].raw, pipe[w].content, pipe[w].text)
  BY OtherDoes
<1>3. Pointers'
  BY <1>1, CurrentReads DEF contentVars
<1>4. Progress(w) /\ UNCHANGED <<kind, imported>>
  BY <1>1 DEF Content, Worked, requestVars
<1>5. pipe'[w].at # "aborted" => Progress(w)'
  BY <1>1, <1>2, <1>4 DEF Progress, Steps, Proceed, Body, contentVars
<1> QED
  BY <1>3, <1>5, ContentCurrent DEF Work

LEMMA ContentPersist ==
  ASSUME Types, Types', Control, Content, NEW w \in Runs, Persist(w), Current(w)
  PROVE  Content'
<1>1. Worked(w) /\ pipe[w].at = "persist" /\ UpdateContent(w, SummaryBy(w))
  BY WorkWorks DEF Work, Persist, At
<1>2. Steps(w, "tags", pipe[w].raw, pipe[w].content, pipe[w].text)
  BY OtherDoes
<1>3. Pointers'
  BY <1>1, PointersWritten
<1>4. /\ contentKey' = pipe[w].content /\ rawKey' = pipe[w].raw /\ UNCHANGED <<kind, blobs, imported>>
      /\ summary' = SummaryBy(w)
  BY <1>1 DEF UpdateContent, requestVars
<1>5. Progress(w)
  BY DEF Content
<1>6. SummaryBy(w)' = SummaryBy(w)
  BY <1>2 DEF SummaryBy, Steps
<1>7. pipe'[w].at # "aborted" => Progress(w)'
  BY <1>1, <1>2, <1>4, <1>5, <1>6 DEF Progress, Steps, Proceed, Body
<1> QED
  BY <1>3, <1>7, ContentCurrent DEF Work

LEMMA ContentTags ==
  ASSUME Types, Types', Control, Content, NEW w \in Runs, ReplaceTags(w), Current(w)
  PROVE  Content'
<1>1. Worked(w) /\ pipe[w].at = "tags" /\ UNCHANGED <<contentKey, rawKey, summary, blobs>> /\ tags' = SummaryBy(w)
  BY WorkWorks DEF Work, ReplaceTags, At
<1>2. Steps(w, "notify", pipe[w].raw, pipe[w].content, pipe[w].text)
  BY OtherDoes
<1>3. Pointers'
  BY <1>1, CurrentReads
<1>4. Progress(w) /\ UNCHANGED <<kind, imported>>
  BY <1>1 DEF Content, Worked, requestVars
<1>5. SummaryBy(w)' = SummaryBy(w)
  BY <1>2 DEF SummaryBy, Steps
<1>6. pipe'[w].at # "aborted" => Progress(w)'
  BY <1>1, <1>2, <1>4, <1>5 DEF Progress, Steps, Proceed, Body
<1> QED
  BY <1>3, <1>6, ContentCurrent DEF Work

LEMMA ContentNotify ==
  ASSUME Types, Types', Control, Content, NEW w \in Runs, Notify(w), Current(w)
  PROVE  Content'
<1>1. Worked(w) /\ pipe[w].at = "notify"
      /\ (UpdateContent(w, SummaryBy(w)) \/ UNCHANGED <<contentVars, blobs>>)
  BY WorkWorks DEF Work, Notify, At, rowVars
<1>2. Steps(w, "done", pipe[w].raw, pipe[w].content, pipe[w].text)
  BY OtherDoes
<1>3. Pointers'
  BY <1>1, PointersWritten, CurrentReads DEF contentVars
<1>4. Progress(w) /\ UNCHANGED <<kind, imported>>
  BY <1>1 DEF Content, Worked, requestVars
<1>5. /\ contentKey' = pipe[w].content /\ summary' = SummaryBy(w) /\ UNCHANGED <<tags, blobs>>
      /\ kind = "markdown" => rawKey' = pipe[w].raw
  BY <1>1, <1>4 DEF UpdateContent, Progress, contentVars
<1>6. SummaryBy(w)' = SummaryBy(w)
  BY <1>2 DEF SummaryBy, Steps
<1>7. pipe'[w].at # "aborted" => Progress(w)'
  BY <1>1, <1>2, <1>4, <1>5, <1>6 DEF Progress, Steps, Proceed, Body
<1> QED
  BY <1>3, <1>7, ContentCurrent DEF Work

LEMMA ContentRun ==
  ASSUME Types, Types', Control, Control', Content, NEW w \in Runs, RunNext(w)
  PROVE  Content'
<1>1. CASE Work(w)
  BY <1>1, ContentOutdated, ContentReuse, ContentAcquire, ContentIndex, ContentCheckpoint, ContentUpsert,
     ContentPersist, ContentTags, ContentNotify DEF Work
<1>2. CASE ~Work(w)
  BY <1>2, ContentControl, ContentLoad, ContentReturn DEF RunNext, Work
<1> QED
  BY <1>1, <1>2

\* A request that does not reset the row, and spares the blobs in use.
LEMMA ContentKept ==
  ASSUME Types, Types', Content, Kept, pipe' = pipe,
         imported <= imported', undone \subseteq undone',
         contentKey # NoKey => blobs'[contentKey] = blobs[contentKey],
         kind = "markdown" /\ blobs[rawKey] # NoText => blobs'[rawKey] # NoText \/ rawKey \in undone',
         \A v \in Runs : Current(v) /\ pipe[v].at = "checkpoint" => blobs'[pipe[v].content] = blobs[pipe[v].content],
         Replacing'
  PROVE  Content'
<1>1. UNCHANGED <<row, kind, contentKey, rawKey, summary, tags, outdated>>
  BY DEF Kept, rowVars, contentVars
<1>2. \A v \in Runs : (Working(v)' <=> Working(v)) /\ (Current(v)' <=> Current(v))
  BY <1>1 DEF Working, Current
<1>3. Untouched
  BY <1>1, <1>2 DEF Untouched, Types, RunTypes
<1>4. \A v \in Runs : Current(v)' => Progress(v)'
  BY <1>1, <1>2, <1>3, ProgressStays DEF Content
<1> QED
  BY <1>1, <1>3, <1>4, PointersStay, ReadyStays DEF Content

\* A reset: nothing is left to point at but the source the request holds.
LEMMA ContentRenewed ==
  ASSUME Types, Types', Content, NEW q \in Requests, Renewed(q), UNCHANGED <<pipe, blobs, imported, undone>>,
         Replacing'
  PROVE  Content'
<1>1. /\ contentKey' = NoKey /\ row'.status = "pending"
      /\ outdated' = {w \in Runs : pipe[w].at \notin {"off", "load"}}
  BY DEF Renewed, Cleared, Pending
<1>2. \A v \in Runs : ~Current(v)'
  BY <1>1 DEF Current, Working
<1>3. Holds(request[q])
  BY DEF Content, Replacing
<1>4. /\ kind' = "markdown" => rawKey'[1] = "import" /\ (blobs[rawKey'] # NoText \/ rawKey' \in undone)
      /\ rawKey'[1] = "import" => Body(rawKey')
  <2>1. CASE request[q].at \in {"reset", "force reset"} /\ Cleared(request[q].raw) /\ UNCHANGED <<kind, tags>>
    <3>1. rawKey' = MarkRaw /\ kind' = kind
      BY <1>3, <2>1 DEF Holds, Cleared
    <3> QED
      BY <3>1, KeyTags DEF MarkRaw, Content, Pointers
  <2>2. CASE request[q].at = "update" /\ Cleared(request[q].body) /\ kind' = "markdown"
    <3>1. rawKey' = request[q].body /\ Body(request[q].body) /\ blobs[request[q].body] # NoText
      BY <1>3, <2>2 DEF Holds, Cleared
    <3> QED
      BY <3>1 DEF Body
  <2> QED
    BY <2>1, <2>2 DEF Renewed
<1>5. Pointers'
  BY <1>1, <1>4 DEF Pointers, Body
<1> QED
  BY <1>1, <1>2, <1>5 DEF Content, ReadyIsComplete

LEMMA TheReplacing ==
  ASSUME OneRequest, NEW q \in Requests, Holds(request[q])'
  PROVE  Replacing'
BY TheRequest DEF Replacing

\* A request at a place where nothing is held.
LEMMA HoldsNothing ==
  ASSUME NEW q \in Requests, request'[q].at \in {"idle", "mark", "submit", "force", "await", "force mark"}
  PROVE  Holds(request[q])'
BY DEF Holds

\* The requests that leave the blobs alone.
LEMMA ContentPlain ==
  ASSUME OneRequest, Types, Types', Content, NEW q \in Requests, Requested(q),
         UNCHANGED <<blobs, imported, undone>>, Holds(request[q])'
  PROVE  Content'
<1>1. Replacing'
  BY TheReplacing
<1>2. imported <= imported' /\ pipe' = pipe
  BY ProcessingAssumption DEF Types, RequestTypes, Requested
<1>3. CASE Kept
  BY <1>1, <1>2, <1>3, ContentKept
<1>4. CASE Renewed(q)
  BY <1>1, <1>2, <1>4, ContentRenewed
<1> QED
  BY <1>3, <1>4 DEF Requested

LEMMA HoldsPlain ==
  ASSUME Types, Content, NEW q \in Requests,
         \/ Reset(q) \/ MarkRead(q) \/ MarkPending(q) \/ MarkPendingFails(q) \/ Submit(q)
         \/ ForceRead(q) \/ ForceClaim(q) \/ Drained(q) \/ ForceMarkPending(q) \/ ForceFails(q)
         \/ Import(q) \/ UpdateImport(q) \/ UpdateImportFails(q)
  PROVE  Holds(request[q])' /\ UNCHANGED <<blobs, imported, undone>>
<1>1. UNCHANGED <<blobs, imported, undone>>
  BY DEF Reset, MarkRead, MarkPending, MarkPendingFails, Submit, ForceRead, ForceClaim, Drained, ForceMarkPending,
         ForceFails, Import, UpdateImport, UpdateImportFails, Quiet
<1>2. CASE Reset(q) \/ MarkPending(q) \/ Submit(q) \/ ForceRead(q) \/ ForceClaim(q) \/ Drained(q)
  <2>1. request'[q].at \in {"mark", "submit", "idle", "force", "await", "force mark"}
    BY <1>2, AtPlace DEF Reset, MarkPending, Submit, ForceRead, ForceClaim, Drained, RequestPlaces
  <2> QED
    BY <1>1, <2>1, HoldsNothing
<1>3. CASE MarkPendingFails(q) \/ ForceMarkPending(q) \/ ForceFails(q)
  <2>1. request'[q].at = "idle"
    BY <1>3, AtPlace DEF MarkPendingFails, ForceMarkPending, ForceFails, RequestPlaces
  <2> QED
    BY <1>1, <2>1, HoldsNothing
<1>4. CASE MarkRead(q)
  <2>1. request'[q].at \in {"reset", "force reset"} /\ request'[q].raw = MarkRaw
    BY <1>4, MarkReadDoes DEF Goes
  <2>2. MarkRaw' = MarkRaw
    BY <1>4 DEF MarkRead, MarkRaw, rowVars, contentVars
  <2> QED
    BY <1>1, <2>1, <2>2 DEF Holds
<1>5. CASE Import(q)
  <2>1. request'[q].at = "put" /\ request'[q].raw = rawKey /\ request'[q].content = contentKey
    BY <1>5, ImportDoes DEF Goes
  <2>2. contentKey[1] # "import"
    BY KeyTags DEF Content, Pointers
  <2>3. rawKey[1] = "import" => Body(rawKey)
    BY DEF Content, Pointers
  <2> QED
    BY <1>1, <2>1, <2>2, <2>3 DEF Holds, Body
<1>6. CASE UpdateImport(q) \/ UpdateImportFails(q)
  <2>1. Holds(request[q]) /\ request[q].at = "update"
    BY <1>6 DEF Content, Replacing, UpdateImport, UpdateImportFails
  <2>2. \E at \in {"delete raw", "undo"} : Goto(q, at)
    BY <1>6 DEF UpdateImport, UpdateImportFails
  <2>3. request'[q].raw = request[q].raw /\ request'[q].content = request[q].content /\ request'[q].body = request[q].body
    BY <2>2, GotoDoes DEF Goes, RequestPlaces
  <2>4. CASE UpdateImport(q)
    <3>1. request'[q].at = "delete raw" /\ kind' = "markdown" /\ rawKey' = request[q].body
      BY <2>4, AtPlace DEF UpdateImport, Replaced, Cleared, RequestPlaces
    <3> QED
      BY <1>1, <2>1, <2>3, <3>1 DEF Holds, Body
  <2>5. CASE UpdateImportFails(q)
    <3>1. request'[q].at = "undo"
      BY <2>5, AtPlace DEF UpdateImportFails, RequestPlaces
    <3> QED
      BY <1>1, <2>1, <2>3, <3>1 DEF Holds, Body
  <2> QED
    BY <1>6, <2>4, <2>5
<1> QED
  BY <1>2, <1>3, <1>4, <1>5, <1>6

LEMMA ContentPutBody ==
  ASSUME OneRequest, Types, Types', Content, NEW q \in Requests, PutBody(q)
  PROVE  Content'
<1>1. /\ Kept /\ pipe' = pipe /\ undone' = undone /\ imported' = imported + 1 /\ imported < MaxImport
      /\ blobs' = [blobs EXCEPT ![NextBody] = <<"imported", imported + 1>>]
      /\ request[q].at = "put"
  BY DEF PutBody, Kept, lifeVars, runVars, NextBody
<1>2. NextBody \in Keys /\ <<"imported", imported + 1>> # NoText
  BY <1>1, NextBodyIs
<1>3. blobs'[NextBody] # NoText /\ \A k \in Keys : k # NextBody => blobs'[k] = blobs[k]
  BY <1>1, <1>2 DEF Types, RowTypes
<1>4. imported \in Nat /\ imported <= imported'
  BY <1>1, ProcessingAssumption DEF Types, RequestTypes
<1>5. \A k \in Keys : k[1] # "import" => blobs'[k] = blobs[k]
  BY <1>3, KeyTags
<1>6. contentKey # NoKey => blobs'[contentKey] = blobs[contentKey]
  BY <1>5 DEF Content, Pointers, Types, RowTypes, SomeKey
<1>7. kind = "markdown" /\ blobs[rawKey] # NoText => blobs'[rawKey] # NoText
  <2>1. kind = "markdown" => rawKey \in Keys
    BY KeyTags DEF Content, Pointers, Types, RowTypes, SomeKey
  <2> QED
    BY <1>3, <2>1
<1>8. ASSUME NEW v \in Runs, Current(v), pipe[v].at = "checkpoint"
      PROVE  blobs'[pipe[v].content] = blobs[pipe[v].content]
  <2>1. pipe[v].content = ContentKeyOf(pipe[v].fence) /\ pipe[v].fence \in Clocks
    BY <1>8 DEF Content, Progress, Types, RunTypes, Pipes
  <2> QED
    BY <1>5, <2>1, KeysOf, KeyTags
<1>9. Holds(request[q])'
  <2>1. CASE Goes(q, "idle", NoKey, NoKey, NoKey)
    BY <2>1, HoldsNothing DEF Goes
  <2>2. CASE Goes(q, "update", request[q].raw, request[q].content, NextBody)
    <3>1. Holds(request[q])
      BY DEF Content, Replacing
    <3>2. request[q].raw # NextBody
      BY <1>1, <1>4, <3>1, KeyTags DEF Holds, Body
    <3>3. /\ request'[q].at = "update" /\ request'[q].raw = request[q].raw
          /\ request'[q].content = request[q].content /\ request'[q].body = NextBody
      BY <2>2 DEF Goes
    <3>4. NextBody[1] = "import" /\ NextBody[2] <= imported'
      BY <1>1, <1>4, KeyTags
    <3> QED
      BY <1>1, <1>3, <3>1, <3>2, <3>3, <3>4 DEF Holds, Body
  <2> QED
    BY <2>1, <2>2, PutBodyDoes
<1> QED
  BY <1>1, <1>4, <1>6, <1>7, <1>8, <1>9, TheReplacing, ContentKept

\* A deletion takes the blob it names, or nothing.
LEMMA DeletionSpares ==
  ASSUME Types, NEW key \in SomeKey, blobs' \in Without(key), NEW k \in Keys, k # key
  PROVE  blobs'[k] = blobs[k]
<1>1. CASE blobs' = blobs
  BY <1>1
<1>2. CASE key # NoKey /\ blobs' = [blobs EXCEPT ![key] = NoText]
  BY <1>2 DEF Types, RowTypes, SomeKey
<1> QED
  BY <1>1, <1>2 DEF Without

LEMMA ContentUndo ==
  ASSUME OneRequest, Types, Types', Content, NEW q \in Requests, Undo(q)
  PROVE  Content'
<1>1. /\ Kept /\ pipe' = pipe /\ imported' = imported /\ undone' = undone \cup {request[q].body}
      /\ blobs' \in Without(request[q].body) /\ request[q].at = "undo"
  BY DEF Undo, Kept, lifeVars, runVars
<1>2. request[q].body[1] = "import" /\ request[q].body \in SomeKey
  BY <1>1 DEF Content, Replacing, Holds, Body, Types, RequestTypes, Held
<1>3. imported <= imported'
  BY <1>1, ProcessingAssumption DEF Types, RequestTypes
<1>4. \A k \in Keys : k # request[q].body => blobs'[k] = blobs[k]
  BY <1>1, <1>2, DeletionSpares
<1>5. contentKey # NoKey => blobs'[contentKey] = blobs[contentKey]
  BY <1>2, <1>4 DEF Content, Pointers, Types, RowTypes, SomeKey
<1>6. kind = "markdown" /\ blobs[rawKey] # NoText => blobs'[rawKey] # NoText \/ rawKey \in undone'
  <2>1. kind = "markdown" => rawKey \in Keys
    BY KeyTags DEF Content, Pointers, Types, RowTypes, SomeKey
  <2> QED
    BY <1>1, <1>4, <2>1
<1>7. ASSUME NEW v \in Runs, Current(v), pipe[v].at = "checkpoint"
      PROVE  blobs'[pipe[v].content] = blobs[pipe[v].content]
  <2>1. pipe[v].content = ContentKeyOf(pipe[v].fence) /\ pipe[v].fence \in Clocks
    BY <1>7 DEF Content, Progress, Types, RunTypes, Pipes
  <2> QED
    BY <1>2, <1>4, <2>1, KeysOf, KeyTags
<1>8. Holds(request[q])'
  BY AtPlace, HoldsNothing DEF Undo, RequestPlaces
<1> QED
  BY <1>1, <1>3, <1>5, <1>6, <1>7, <1>8, TheReplacing, ContentKept

LEMMA ContentDelete ==
  ASSUME OneRequest, Types, Types', Control, Content, NEW q \in Requests, DeleteRaw(q) \/ DeleteContent(q)
  PROVE  Content'
<1>1. Kept /\ UNCHANGED <<pipe, undone>> /\ request[q].at \in {"delete raw", "delete content"}
  BY DEF DeleteRaw, DeleteContent, Kept, Quiet, lifeVars, runVars
<1>i. imported' = imported
  BY DEF DeleteRaw, DeleteContent, Quiet
<1>2. contentKey = NoKey /\ \A v \in Runs : ~Current(v)
  BY <1>1 DEF Control, Resets, Cleaning
<1>3. Holds(request[q]) /\ kind = "markdown" /\ rawKey = request[q].body /\ rawKey[1] = "import"
  BY <1>1 DEF Content, Replacing, Holds, Body
<1>4. rawKey \in Keys /\ request[q].raw \in SomeKey /\ request[q].content \in SomeKey
  BY <1>3, KeyTags DEF Types, RowTypes, RequestTypes, Held, SomeKey
<1>5. blobs'[rawKey] = blobs[rawKey]
  <2>1. CASE DeleteRaw(q)
    BY <1>3, <1>4, <2>1, DeletionSpares DEF DeleteRaw, Holds
  <2>2. CASE DeleteContent(q)
    <3>1. request[q].content # rawKey
      BY <1>3, <2>2 DEF DeleteContent, Holds
    <3> QED
      BY <1>4, <2>2, <3>1, DeletionSpares DEF DeleteContent
  <2> QED
    BY <2>1, <2>2
<1>6. imported <= imported'
  BY <1>i, ProcessingAssumption DEF Types, RequestTypes
<1>7. Holds(request[q])'
  <2>1. CASE DeleteContent(q)
    BY <2>1, AtPlace, HoldsNothing DEF DeleteContent, RequestPlaces
  <2>2. CASE DeleteRaw(q)
    <3>1. Goes(q, "delete content", request[q].raw, request[q].content, request[q].body)
      BY <2>2, GotoDoes DEF DeleteRaw, RequestPlaces
    <3>2. UNCHANGED <<kind, rawKey, imported>>
      BY <1>1, <1>i DEF Kept, rowVars, contentVars
    <3> QED
      BY <1>1, <1>3, <3>1, <3>2 DEF Goes, Holds, Body
  <2> QED
    BY <2>1, <2>2
<1> QED
  BY <1>1, <1>2, <1>5, <1>6, <1>7, TheReplacing, ContentKept

LEMMA ContentRequest ==
  ASSUME OneRequest, Types, Types', Control, Content, NEW q \in Requests, RequestNext(q)
  PROVE  Content'
BY HoldsPlain, ContentPlain, RequestDoes, ContentPutBody, ContentUndo, ContentDelete DEF RequestNext

LEMMA ContentSystem ==
  ASSUME Types, Types', Content, DropItem \/ Sweep \/ Stop
  PROVE  Content'
<1>1. UNCHANGED <<kind, contentVars, blobs, imported, undone>> /\ row' = row
  BY DEF DropItem, GiveUp, Sweep, Accept, Stop, Crash, lifeVars, rowVars, requestVars
<1>2. imported <= imported'
  BY <1>1, ProcessingAssumption DEF Types, RequestTypes
<1>3. CASE DropItem \/ Sweep
  <2>1. UNCHANGED <<pipe, outdated, request>>
    BY <1>3 DEF DropItem, Sweep, runVars, requestVars
  <2>2. \A v \in Runs : (Working(v)' <=> Working(v)) /\ (Current(v)' <=> Current(v))
    BY <2>1 DEF Working, Current
  <2>3. Untouched
    BY <1>1, <1>2, <2>1, <2>2 DEF Untouched, contentVars, Types, RunTypes
  <2>4. \A v \in Runs : Current(v)' => Progress(v)'
    BY <1>1, <2>1, <2>2, <2>3, ProgressStays DEF Content, contentVars
  <2> QED
    BY <1>1, <2>1, <2>3, <2>4, PointersStay, ReadyStays, ReplacingStays DEF Content, contentVars
<1>4. CASE Stop
  <2>1. pipe' = [w \in Runs |-> NoPipe] /\ request' = [q \in Requests |-> Idle] /\ outdated' = {}
    BY <1>4 DEF Stop
  <2>2. \A v \in Runs : ~Working(v)' /\ ~Current(v)'
    BY <2>1, NoPipeTyped DEF Working, Current
  <2>3. Untouched
    BY <1>1, <1>2, <2>1, <2>2 DEF Untouched, contentVars
  <2>4. Replacing'
    BY <2>1, IdleHeld, HoldsNothing DEF Replacing
  <2> QED
    BY <1>1, <2>2, <2>3, <2>4, PointersStay, ReadyStays DEF Content, contentVars
<1> QED
  BY <1>3, <1>4

LEMMA ContentIdle == ASSUME Content, UNCHANGED vars PROVE Content'
<1>1. UNCHANGED <<row, kind, contentKey, rawKey, summary, tags, blobs, pipe, outdated, request, imported, undone>>
  BY DEF vars, lifeVars, rowVars, contentVars, runVars, requestVars
<1>2. Pointers' /\ Replacing' /\ ReadyIsComplete'
  BY <1>1 DEF Content, Pointers, Replacing, Holds, Body, MarkRaw, Working, ReadyIsComplete
<1>3. \A w \in Runs : Current(w)' => Progress(w)'
  BY <1>1 DEF Content, Current, Working, Progress, Body, SummaryBy
<1> QED
  BY <1>2, <1>3 DEF Content

LEMMA ContentSteps ==
  ASSUME OneRequest, Types, Types', Control, Control', Content, [Next]_vars
  PROVE  Content'
BY ContentRun, ContentRequest, ContentSystem, ContentIdle DEF Next

LEMMA ContentInit == ASSUME Init PROVE Content
<1>1. /\ contentKey = NoKey /\ imported = 0 /\ undone = {} /\ outdated = {} /\ row.status = "pending"
      /\ pipe = [w \in Runs |-> NoPipe] /\ request = [q \in Requests |-> Idle]
      /\ rawKey = IF kind = "markdown" THEN <<"import", 0>> ELSE NoKey
      /\ blobs = [k \in Keys |-> IF k = rawKey THEN <<"imported", 0>> ELSE NoText]
  BY DEF Init, Pending
<1>2. kind = "markdown" => rawKey[1] = "import" /\ blobs[rawKey] # NoText
  <2>1. <<"import", 0>> \in Keys /\ <<"imported", 0>> # NoText
    BY ProcessingAssumption DEF Keys, NoText
  <2> QED
    BY <1>1, <2>1
<1>3. rawKey[1] = "import" => Body(rawKey)
  BY <1>1, KeyTags DEF Body
<1>4. Pointers
  BY <1>1, <1>2, <1>3 DEF Pointers
<1>5. Replacing
  BY <1>1, IdleHeld DEF Replacing, Holds
<1>6. \A w \in Runs : ~Current(w)
  BY <1>1, NoPipeTyped DEF Current, Working
<1> QED
  BY <1>1, <1>4, <1>5, <1>6 DEF Content, ReadyIsComplete

LEMMA ContentAlways == ASSUME OneRequest PROVE Spec => [](Types /\ Control /\ Content)
<1>1. Init => Content
  BY ContentInit
<1>2. Types /\ Types' /\ Control /\ Control' /\ Content /\ [Next]_vars => Content'
  BY ContentSteps
<1> QED
  BY <1>1, <1>2, ControlAlways, PTL DEF Spec

\* "Ready means processing completed successfully": a ready reading points at
\* content that is there, and its summary and its tags are of that content,
\* after every retry, forced submit, import and restart.
THEOREM ReadyCorrect == ASSUME OneRequest PROVE Spec => []ReadyIsComplete
<1>1. Content => ReadyIsComplete
  BY DEF Content
<1> QED
  BY <1>1, ContentAlways, PTL

\* A crash, a failed write or a failed deletion leaves an orphan blob "but no
\* dangling pointer": NoDanglingPointer, whatever step comes next.
THEOREM PointersCorrect == ASSUME OneRequest PROVE Spec => []NoDanglingPointer
<1>1. Content => NoDanglingPointer
  BY KeyTags DEF Content, Pointers, NoDanglingPointer
<1> QED
  BY <1>1, ContentAlways, PTL

-----------------------------------------------------------------------------
(* The last generation *)

\* With every run off or finishing, no run is anywhere in Process.
LEMMA Rests ==
  ASSUME Types, NEW v \in Runs, stage[v] \in {"off", "finishing"}
  PROVE  pipe[v].at = "off" /\ ~Working(v)
BY DEF Types, PipeTypes, Working

LEMMA RequestLive == ASSUME Types, NEW q \in Requests, RequestNext(q) PROVE live' \subseteq live
<1>1. Route(q)
  BY RequestRoute
<1> QED
  BY <1>1 DEF Route, Enters, Claims, Drains, Marks, Continues, Cleans, Submits, Renews, ForceRenews, ForceGivesUp,
     Idles, lifeVars, Replace, Accept, ResetRow, GiveUp

\* A reset finds no run that is live and handling.
LEMMA RenewsIdle ==
  ASSUME OneRequest, Types, Control, NEW q \in Requests, Renewed(q)
  PROVE  \A w \in live : stage[w] = "finishing"
<1>1. request[q].at \in {"reset", "force reset", "update"}
  BY DEF Renewed
<1>2. CASE request[q].at = "force reset"
  BY <1>2, TheRequest DEF Control, Owners, LifeOwners, ForceSteps
<1>3. CASE request[q].at \in {"reset", "update"}
  BY <1>3 DEF Control, Resets, Resetting, Quiescent
<1> QED
  BY <1>1, <1>2, <1>3

\* The run that starts is the only live one.
LEMMA StartsAlone ==
  ASSUME Types, Control, NEW w \in Runs, StartRun(w)
  PROVE  /\ live = {w} /\ live' = {w}
         /\ stage[w] = "begun" /\ stage' = [stage EXCEPT ![w] = "writing"]
         /\ clock' = clock + 1 /\ pipe'[w].gen = clock + 1 /\ pipe'[w].at = "off"
         /\ \A v \in Runs : v # w => pipe'[v] = pipe[v]
         /\ ~Settled /\ UNCHANGED <<row, started, contentKey, blobs, vector>>
<1>1. /\ stage[w] = "begun" /\ w \in live /\ live' = live /\ clock' = clock + 1
      /\ stage' = [stage EXCEPT ![w] = "writing"] /\ pipe' = [pipe EXCEPT ![w].gen = clock + 1]
      /\ UNCHANGED <<row, started, contentKey, blobs, vector>>
  BY DEF StartRun, EnterRunningWrite, rowVars, contentVars
<1>2. live = {w}
  BY <1>1 DEF Control, Owners, LifeOwners
<1>3. pipe'[w].gen = clock + 1 /\ pipe'[w].at = pipe[w].at /\ \A v \in Runs : v # w => pipe'[v] = pipe[v]
  BY <1>1 DEF Types, RunTypes, Pipes
<1>4. pipe[w].at = "off"
  BY <1>1 DEF Types, PipeTypes
<1>5. ~Settled
  BY <1>1, <1>2 DEF Control, Owners, LifeOwners, Resets, Quiescent
<1> QED
  BY <1>1, <1>2, <1>3, <1>4, <1>5

\* No other step gives a generation out, makes a run live that writes or
\* handles, or changes the generation of one that writes or is live.
GensStay ==
  /\ clock' = clock
  /\ \A w \in live' : stage'[w] \in {"writing", "handling"} =>
       w \in live /\ stage[w] \in {"writing", "handling"} /\ pipe'[w].gen = pipe[w].gen
  /\ \A v \in Runs : stage'[v] = "writing" => stage[v] = "writing" /\ pipe'[v].gen = pipe[v].gen

LEMMA GensOfRun ==
  ASSUME Types, NEW w \in Runs, RunNext(w), ~StartRun(w)
  PROVE  GensStay
<1> USE DEF GensStay
<1>1. CASE BeginRun(w)
  <2>1. UNCHANGED <<pipe, clock>> /\ live' = {w} /\ stage' = [stage EXCEPT ![w] = "begun"]
    BY <1>1 DEF BeginRun, Begin, runVars
  <2> QED
    BY <2>1 DEF Types, LifeTypes
<1>2. CASE RunningLands(w)
  <2>1. /\ stage[w] = "writing" /\ stage' = [stage EXCEPT ![w] = "handling"]
        /\ pipe' = [pipe EXCEPT ![w].at = Proceed(w, "load")] /\ UNCHANGED <<clock, live>>
    BY <1>2 DEF RunningLands, MarkRunning
  <2>2. \A v \in Runs : pipe'[v].gen = pipe[v].gen
    BY <2>1 DEF Types, RunTypes, Pipes
  <2> QED
    BY <2>1, <2>2 DEF Types, LifeTypes
<1>3. CASE RunningFails(w) \/ Return(w)
  <2>1. /\ live' \subseteq live /\ clock' = clock /\ pipe' = [pipe EXCEPT ![w] = NoPipe]
        /\ \E at \in {"off", "finishing"} : stage' = [stage EXCEPT ![w] = at]
    BY <1>3, ReturnDoes DEF RunningFails, RunningWriteFails, EndRun, Return, Discards, Finishes, Passes
  <2> QED
    BY <2>1 DEF Types, LifeTypes, RunTypes
<1>4. CASE Load(w)
  <2>1. UNCHANGED <<live, stage, clock>> /\ \A v \in Runs : pipe'[v].gen = pipe[v].gen
    BY <1>4 DEF Load, lifeVars, Types, RunTypes, Pipes
  <2>2. stage[w] = "handling"
    BY <1>4 DEF Load, Types, PipeTypes
  <2> QED
    BY <2>1, <2>2 DEF Types, LifeTypes
<1>5. CASE Work(w)
  <2>1. UNCHANGED <<live, stage, clock>> /\ \A v \in Runs : pipe'[v].gen = pipe[v].gen
    BY <1>5, WorkWorks DEF Worked, lifeVars
  <2> QED
    BY <2>1 DEF Types, LifeTypes
<1>6. CASE Settle(w)
  <2>1. live' \subseteq live /\ UNCHANGED <<pipe, clock>> /\ stage' = [stage EXCEPT ![w] = "off"]
    BY <1>6 DEF Settle, FinishRelease, EndRun, runVars
  <2> QED
    BY <2>1 DEF Types, LifeTypes
<1> QED
  BY <1>1, <1>2, <1>3, <1>4, <1>5, <1>6 DEF RunNext, Work

LEMMA GensOfRest ==
  ASSUME Types, [Next]_vars, ~\E w \in Runs : RunNext(w)
  PROVE  GensStay
<1> USE DEF GensStay
<1>1. ASSUME NEW q \in Requests, RequestNext(q)
      PROVE  GensStay
  BY <1>1, RequestDoes, RequestLive DEF Requested
<1>2. CASE DropItem \/ Sweep
  BY <1>2 DEF DropItem, GiveUp, Sweep, Accept, lifeVars, runVars
<1>3. CASE Stop
  BY <1>3 DEF Stop, Crash
<1>4. CASE UNCHANGED vars
  BY <1>4 DEF vars, lifeVars, runVars
<1> QED
  BY <1>1, <1>2, <1>3, <1>4 DEF Next

LEMMA GenLastKept == ASSUME Types, Types', Control, GenLast, [Next]_vars PROVE GenLast'
<1>1. ASSUME NEW w \in Runs, StartRun(w)
      PROVE  GenLast'
  <2>1. \A v \in Runs : pipe[v].gen <= clock /\ pipe[v].gen \in Nat /\ clock \in Nat
    BY ProcessingAssumption DEF Types, PipeTypes, RunTypes, Pipes, Clocks
  <2>2. \A v \in Runs : pipe[v].gen # clock + 1
    BY <2>1
  <2> QED
    BY <1>1, <2>2, StartsAlone DEF GenLast
<1>2. CASE GensStay
  BY <1>2 DEF GensStay, GenLast
<1> QED
  BY <1>1, <1>2, GensOfRun, GensOfRest

\* What a step does to the fences of live runs that work, when it gives no
\* generation out: a run that goes on keeps its fence, one that loads the
\* reading takes the row's.
LEMMA FenceLastStays ==
  ASSUME FenceLast, clock' = clock, started' \in {started} \/ started' # clock,
         \A w \in live' : Working(w)' => \/ w \in live /\ Working(w) /\ pipe'[w].fence = pipe[w].fence
                                        \/ pipe'[w].fence = started'
  PROVE  FenceLast'
BY DEF FenceLast

LEMMA FenceLastOfRun ==
  ASSUME Types, Types', Control, GenLast, FenceLast, NEW w \in Runs, RunNext(w)
  PROVE  FenceLast'
<1>1. CASE StartRun(w)
  BY <1>1, StartsAlone DEF FenceLast, Working
<1>2. CASE BeginRun(w)
  <2>1. live' = {w} /\ stage[w] = "off" /\ pipe' = pipe
    BY <1>2 DEF BeginRun, Begin, runVars
  <2> QED
    BY <2>1, Rests DEF FenceLast, Working
<1>3. CASE RunningLands(w)
  <2>1. /\ stage[w] = "writing" /\ started' = pipe[w].gen /\ UNCHANGED <<live, clock>>
        /\ pipe' = [pipe EXCEPT ![w].at = Proceed(w, "load")]
    BY <1>3 DEF RunningLands, MarkRunning
  <2>2. ~Working(w)' /\ \A v \in Runs : v # w => pipe'[v] = pipe[v]
    BY <2>1 DEF Proceed, Working, Types, RunTypes, Pipes
  <2>3. ASSUME NEW v \in live, v # w, Working(v)
        PROVE  started' # clock
    <3>1. v \in Runs /\ stage[v] = "handling"
      BY <2>3 DEF Types, LifeTypes, PipeTypes, Working
    <3> QED
      BY <2>1, <2>3, <3>1 DEF GenLast
  <2> QED
    BY <2>1, <2>2, <2>3 DEF FenceLast, Working, Types, LifeTypes
<1>4. CASE RunningFails(w)
  <2>1. /\ stage[w] \in {"begun", "writing"} /\ live' = live \ {w} /\ clock' = clock
        /\ pipe' = [pipe EXCEPT ![w] = NoPipe]
        /\ started' = started \/ (stage[w] = "writing" /\ started' = pipe[w].gen)
    BY <1>4 DEF RunningFails, RunningWriteFails, EndRun
  <2>2. \A v \in Runs : v # w => pipe'[v] = pipe[v]
    BY <2>1 DEF Types, RunTypes
  <2>3. ASSUME NEW v \in live', Working(v)'
        PROVE  v \in live /\ Working(v) /\ pipe'[v] = pipe[v] /\ (started' \in {started} \/ started' # clock)
    <3>1. v \in live /\ v \in Runs /\ v # w /\ pipe'[v] = pipe[v]
      BY <2>1, <2>2, <2>3 DEF Types, LifeTypes
    <3>2. Working(v) /\ stage[v] = "handling"
      BY <2>3, <3>1 DEF Working, Types, PipeTypes
    <3> QED
      BY <2>1, <3>1, <3>2 DEF GenLast
  <2> QED
    BY <2>1, <2>3 DEF FenceLast
<1>5. CASE Load(w)
  <2>1. /\ UNCHANGED <<live, started, clock>> /\ pipe'[w].fence = started
        /\ \A v \in Runs : v # w => pipe'[v] = pipe[v]
    BY <1>5 DEF Load, lifeVars, rowVars, Types, RunTypes, Pipes
  <2> QED
    BY <2>1, FenceLastStays DEF Working, Types, LifeTypes
<1>6. CASE Work(w)
  <2>1. /\ UNCHANGED <<live, started, clock>> /\ Working(w) /\ pipe'[w].fence = pipe[w].fence
        /\ \A v \in Runs : v # w => pipe'[v] = pipe[v]
    BY <1>6, WorkWorks DEF Worked, Working, lifeVars
  <2> QED
    BY <2>1, FenceLastStays DEF Working, Types, LifeTypes
<1>7. CASE Return(w)
  <2>1. live' \subseteq live /\ UNCHANGED <<started, clock>> /\ pipe' = [pipe EXCEPT ![w] = NoPipe]
    BY <1>7, ReturnDoes DEF Return, Discards, Finishes, Passes, rowVars
  <2>2. ~Working(w)' /\ \A v \in Runs : v # w => pipe'[v] = pipe[v]
    BY <2>1, NoPipeTyped DEF Working, Types, RunTypes
  <2> QED
    BY <2>1, <2>2, FenceLastStays DEF Working, Types, LifeTypes
<1>8. CASE Settle(w)
  <2>1. live' \subseteq live /\ UNCHANGED <<pipe, started, clock>>
    BY <1>8 DEF Settle, FinishRelease, EndRun, rowVars, runVars
  <2> QED
    BY <2>1 DEF FenceLast, Working
<1> QED
  BY <1>1, <1>2, <1>3, <1>4, <1>5, <1>6, <1>7, <1>8 DEF RunNext, Work

LEMMA FenceLastOfRequest ==
  ASSUME OneRequest, Types, Control, FenceLast, NEW q \in Requests, RequestNext(q)
  PROVE  FenceLast'
<1>1. UNCHANGED <<pipe, clock>> /\ live' \subseteq live /\ (Kept \/ Renewed(q))
  BY RequestDoes, RequestLive DEF Requested
<1>2. CASE Kept
  BY <1>1, <1>2 DEF Kept, rowVars, FenceLast, Working
<1>3. CASE Renewed(q)
  <2>1. \A w \in live : ~Working(w)
    BY <1>3, RenewsIdle, Rests DEF Types, LifeTypes
  <2> QED
    BY <1>1, <2>1 DEF FenceLast, Working
<1> QED
  BY <1>1, <1>2, <1>3

\* The system's steps, and none at all, keep the live runs as they are.
LEMMA LastIdle ==
  ASSUME DropItem \/ Sweep \/ Stop \/ UNCHANGED vars
  PROVE  /\ live' = {} \/ UNCHANGED <<live, pipe, stage>>
         /\ UNCHANGED <<row, started, contentKey, blobs, vector, clock>>
BY DEF DropItem, GiveUp, Sweep, Accept, Stop, Crash, vars, lifeVars, rowVars, contentVars, runVars

LEMMA FenceLastKept ==
  ASSUME OneRequest, Types, Types', Control, GenLast, FenceLast, [Next]_vars
  PROVE  FenceLast'
<1>1. CASE DropItem \/ Sweep \/ Stop \/ UNCHANGED vars
  BY <1>1, LastIdle DEF FenceLast, Working
<1> QED
  BY <1>1, FenceLastOfRun, FenceLastOfRequest DEF Next

LEMMA VectorKept ==
  ASSUME NEW w \in Runs, Work(w), ~Upsert(w)
  PROVE  vector' = vector
BY DEF Work, Reuse, AcquireFetched, AcquireYouTube, AcquireMarkdown, Acquired, Index, Checkpoint, Persist,
       ReplaceTags, Notify, UpdateContent

\* A request leaves the blob of a ready reading alone.
LEMMA ReadyBlob ==
  ASSUME Types, Control, Content, NEW q \in Requests, RequestNext(q), row.status = "ready"
  PROVE  blobs'[contentKey] = blobs[contentKey]
<1>1. contentKey \in Keys /\ contentKey[1] = "content"
  BY DEF Content, ReadyIsComplete, Pointers, Types, RowTypes, SomeKey
<1>2. CASE PutBody(q)
  <2>1. blobs' = [blobs EXCEPT ![NextBody] = <<"imported", imported + 1>>] /\ contentKey # NextBody
    BY <1>1, <1>2, KeyTags DEF PutBody, NextBody
  <2> QED
    BY <1>1, <2>1 DEF Types, RowTypes
<1>3. CASE Undo(q)
  <2>1. request[q].body[1] = "import" /\ request[q].body \in SomeKey /\ blobs' \in Without(request[q].body)
    BY <1>3 DEF Undo, Content, Replacing, Holds, Body, Types, RequestTypes, Held
  <2> QED
    BY <1>1, <2>1, DeletionSpares
<1>4. ~DeleteRaw(q) /\ ~DeleteContent(q)
  BY DEF DeleteRaw, DeleteContent, Control, Resets, Cleaning, Settled
<1>5. CASE ~PutBody(q) /\ ~Undo(q)
  BY <1>4, <1>5 DEF RequestNext, Reset, MarkRead, MarkPending, MarkPendingFails, Submit, ForceRead, ForceClaim, Drained,
     ForceMarkPending, ForceFails, Import, UpdateImport, UpdateImportFails
<1> QED
  BY <1>2, <1>3, <1>5

\* What is left to show of the vector of a live run: a step that leaves the
\* index and the clock alone takes no run to where its vector is written.
LEMMA VectorLastStays ==
  ASSUME VectorLast, UNCHANGED <<vector, clock>>,
         \A w \in live' : pipe'[w].at \in Indexed => w \in live /\ pipe'[w] = pipe[w]
  PROVE  VectorLast'
BY DEF VectorLast

\* The vector of the last generation is not replaced by another run's, and
\* its run replaces any other.
LEMMA UpsertLast ==
  ASSUME Types, Control, NEW w \in Runs, Upsert(w)
  PROVE  /\ pipe[w].fence = clock => vector' = [gen |-> clock, of |-> pipe[w].text]
         /\ pipe[w].fence # clock /\ vector.gen = clock => vector' = vector
<1>1. pipe[w].at = "vector" /\ pipe[w].fence # 0
  BY DEF Upsert, At, Control, Fences, Working
<1>2. /\ vector.gen <= clock /\ vector.gen \in Nat /\ clock \in Nat
      /\ pipe[w].fence <= clock /\ pipe[w].fence \in Nat
  BY ProcessingAssumption DEF Types, RowTypes, RunTypes, PipeTypes, Vectors, Pipes, Clocks, Dated
<1>3. /\ pipe[w].fence = clock => ~(vector.gen > pipe[w].fence)
      /\ pipe[w].fence # clock /\ vector.gen = clock => vector.gen > pipe[w].fence
  BY <1>2
<1> QED
  BY <1>1, <1>3 DEF Upsert

LEMMA VectorLastWork ==
  ASSUME Types, Types', Control, VectorLast, NEW w \in Runs, Work(w)
  PROVE  VectorLast'
<1>1. UNCHANGED <<live, clock>> /\ Working(w) /\ pipe'[w].fence = pipe[w].fence
      /\ \A v \in Runs : v # w => pipe'[v] = pipe[v]
  BY WorkWorks DEF Worked, Working, lifeVars
<1>2. ASSUME NEW v \in live, v # w, pipe[v].at \in Indexed, pipe[v].fence = clock
      PROVE  vector' = [gen |-> clock, of |-> pipe[v].text]
  <2>1. vector = [gen |-> clock, of |-> pipe[v].text]
    BY <1>2 DEF VectorLast
  <2>2. CASE Upsert(w)
    <3>1. pipe[w].fence # clock
      BY <1>1, <1>2 DEF Control, Fences, Working, Indexed, Types, LifeTypes
    <3> QED
      BY <2>1, <2>2, <3>1, UpsertLast
  <2> QED
    BY <2>1, <2>2, VectorKept
<1>3. ASSUME w \in live, pipe'[w].at \in Indexed, pipe[w].fence = clock
      PROVE  vector' = [gen |-> clock, of |-> pipe'[w].text]
  <2>1. CASE Upsert(w)
    BY <1>3, <2>1, UpsertLast, OtherDoes DEF Steps
  <2>2. CASE Persist(w) \/ ReplaceTags(w) \/ Notify(w)
    <3>1. pipe[w].at \in {"persist", "tags", "notify"} /\ pipe'[w].text = pipe[w].text
      BY <2>2, OtherDoes DEF Persist, ReplaceTags, Notify, At, Steps
    <3>2. ~Upsert(w)
      BY <3>1 DEF Upsert, At
    <3> QED
      BY <1>3, <3>1, <3>2, VectorKept DEF VectorLast, Indexed
  <2>3. CASE Checkpoint(w)
    BY <1>3, <2>3, OtherDoes DEF Steps, Proceed, Indexed
  <2>4. CASE Reuse(w)
    BY <1>3, <2>4, ReuseDoes DEF Steps, Proceed, Indexed
  <2>5. CASE AcquireFetched(w) \/ AcquireYouTube(w) \/ AcquireMarkdown(w)
    <3>1. pipe'[w].at = Proceed(w, "index")
      BY <2>5, FetchedDoes, YouTubeDoes, MarkdownDoes DEF Steps
    <3> QED
      BY <1>3, <3>1 DEF Proceed, Indexed
  <2>6. CASE Index(w)
    BY <1>3, <2>6, IndexDoes DEF Steps, Proceed, Indexed
  <2> QED
    BY <2>1, <2>2, <2>3, <2>4, <2>5, <2>6 DEF Work
<1> QED
  BY <1>1, <1>2, <1>3 DEF VectorLast, Types, LifeTypes

LEMMA VectorLastOfRun ==
  ASSUME Types, Types', Control, VectorLast, NEW w \in Runs, RunNext(w)
  PROVE  VectorLast'
<1>1. CASE StartRun(w)
  BY <1>1, StartsAlone DEF VectorLast, Indexed
<1>2. CASE BeginRun(w)
  <2>1. live' = {w} /\ stage[w] = "off" /\ pipe' = pipe
    BY <1>2 DEF BeginRun, Begin, runVars
  <2> QED
    BY <2>1, Rests DEF VectorLast, Indexed
<1>3. CASE RunningLands(w) \/ Load(w)
  <2>1. UNCHANGED <<live, vector, clock>>
    BY <1>3 DEF RunningLands, MarkRunning, Load, lifeVars
  <2>2. /\ \E at \in {"load", "aborted", "rejected", "reuse", "acquire"} : pipe'[w].at = at
        /\ \A v \in Runs : v # w => pipe'[v] = pipe[v]
    <3>1. CASE RunningLands(w)
      BY <3>1 DEF RunningLands, Proceed, Types, RunTypes, Pipes
    <3>2. CASE Load(w)
      BY <3>2 DEF Load, Proceed, Types, RunTypes, Pipes
    <3> QED
      BY <1>3, <3>1, <3>2
  <2> QED
    BY <2>1, <2>2, VectorLastStays DEF Indexed, Types, LifeTypes
<1>4. CASE RunningFails(w) \/ Return(w)
  <2>1. /\ live' \subseteq live /\ UNCHANGED <<vector, clock>> /\ pipe' = [pipe EXCEPT ![w] = NoPipe]
    BY <1>4, ReturnDoes DEF RunningFails, RunningWriteFails, EndRun, Return, Discards, Finishes, Passes
  <2>2. pipe'[w].at = "off" /\ \A v \in Runs : v # w => pipe'[v] = pipe[v]
    BY <2>1, NoPipeTyped DEF Types, RunTypes
  <2> QED
    BY <2>1, <2>2, VectorLastStays DEF Indexed, Types, LifeTypes
<1>5. CASE Settle(w)
  <2>1. live' \subseteq live /\ UNCHANGED <<pipe, vector, clock>>
    BY <1>5 DEF Settle, FinishRelease, EndRun, runVars
  <2> QED
    BY <2>1, VectorLastStays
<1> QED
  BY <1>1, <1>2, <1>3, <1>4, <1>5, VectorLastWork DEF RunNext, Work

LEMMA VectorLastKept ==
  ASSUME Types, Types', Control, VectorLast, [Next]_vars
  PROVE  VectorLast'
<1>1. ASSUME NEW q \in Requests, RequestNext(q)
      PROVE  VectorLast'
  BY <1>1, RequestDoes, RequestLive, VectorLastStays DEF Requested
<1>2. CASE DropItem \/ Sweep \/ Stop \/ UNCHANGED vars
  BY <1>2, LastIdle DEF VectorLast
<1> QED
  BY <1>1, <1>2, VectorLastOfRun DEF Next

\* A run that is not current leaves the blob of the row's content alone.
LEMMA OutdatedSpares ==
  ASSUME Types, Control, Content, NEW w \in Runs, Work(w), ~Current(w), contentKey # NoKey
  PROVE  UNCHANGED contentKey /\ blobs'[contentKey] = blobs[contentKey]
<1>1. Working(w) /\ w \in outdated
  BY WorkWorks DEF Worked, Working, Current
<1>2. contentKey \in Keys /\ contentKey[1] = "content" /\ contentKey # ContentKeyOf(pipe[w].fence)
  BY <1>1 DEF Content, Pointers, Types, RowTypes, SomeKey
<1> QED
  BY <1>2, WorkBlobs, WorkFenced DEF Control, contentVars

\* The row of a reading that has just become ready says what its run wrote.
LEMMA MatchesNew ==
  ASSUME Types, Control, Content, FenceLast, VectorLast, NEW w \in Runs, Return(w),
         row'.status = "ready", row.status # "ready"
  PROVE  VectorMatchesContent'
<1>1. UNCHANGED <<started, contentKey, blobs, vector, clock>>
  BY DEF Return, rowVars, contentVars
<1>2. w \in live /\ pipe[w].at = "done"
  BY BecomesReady
<1>3. Progress(w) /\ Working(w)
  BY <1>2 DEF Control, RunRows, Current, Working, Content
<1>4. ASSUME started = clock
      PROVE  vector = [gen |-> started, of |-> blobs[contentKey]]
  <2>1. pipe[w].fence = clock
    BY <1>2, <1>3, <1>4 DEF FenceLast
  <2>2. vector = [gen |-> clock, of |-> pipe[w].text]
    BY <1>2, <2>1 DEF VectorLast, Indexed
  <2> QED
    BY <1>2, <1>3, <1>4, <2>2 DEF Progress
<1> QED
  BY <1>1, <1>4 DEF VectorMatchesContent

\* Nothing replaces the vector of a ready reading that bears the last
\* generation: only outdated runs work, and their fences are older.
LEMMA MatchesWork ==
  ASSUME Types, Control, Content, VectorMatchesContent, NEW w \in Runs, Work(w), row.status = "ready"
  PROVE  VectorMatchesContent'
<1>1. UNCHANGED <<started, clock, row>> /\ Working(w) /\ w \in outdated
  BY WorkWorks DEF Worked, Working, lifeVars, Control, RunRows, Current
<1>2. contentKey # NoKey /\ ~Current(w)
  BY <1>1 DEF Content, ReadyIsComplete, Current
<1>3. UNCHANGED contentKey /\ blobs'[contentKey] = blobs[contentKey]
  BY <1>2, OutdatedSpares
<1>4. ASSUME started = clock
      PROVE  vector' = vector
  <2>1. pipe[w].fence # clock /\ vector.gen = clock
    BY <1>1, <1>4 DEF Control, Fences, VectorMatchesContent
  <2> QED
    BY <2>1, UpsertLast, VectorKept
<1> QED
  BY <1>1, <1>3, <1>4 DEF VectorMatchesContent

LEMMA MatchesOfRun ==
  ASSUME Types, Control, Content, FenceLast, VectorLast, VectorMatchesContent, NEW w \in Runs, RunNext(w)
  PROVE  VectorMatchesContent'
<1>1. CASE StartRun(w)
  BY <1>1, StartsAlone DEF VectorMatchesContent, Settled
<1>2. CASE RunningLands(w)
  <2>1. row'.status = "running"
    BY <1>2 DEF RunningLands, MarkRunning, Running
  <2> QED
    BY <2>1 DEF VectorMatchesContent
<1>3. CASE RunningFails(w)
  <2>1. /\ row'.status = "running" \/ UNCHANGED <<row, started>>
        /\ UNCHANGED <<contentKey, blobs, vector, clock>>
    BY <1>3 DEF RunningFails, Running, contentVars
  <2> QED
    BY <2>1 DEF VectorMatchesContent
<1>4. CASE BeginRun(w) \/ Load(w) \/ Settle(w)
  <2>1. UNCHANGED <<row, started, contentKey, blobs, vector, clock>>
    BY <1>4 DEF BeginRun, Begin, Load, Settle, FinishRelease, lifeVars, rowVars, contentVars, runVars
  <2> QED
    BY <2>1 DEF VectorMatchesContent
<1>5. CASE Work(w)
  <2>1. row' = row
    BY <1>5, WorkWorks DEF Worked, lifeVars
  <2> QED
    BY <1>5, <2>1, MatchesWork DEF VectorMatchesContent
<1>6. CASE Return(w)
  <2>1. UNCHANGED <<started, contentKey, blobs, vector, clock>>
    BY <1>6 DEF Return, rowVars, contentVars
  <2> QED
    BY <1>6, <2>1, MatchesNew DEF VectorMatchesContent
<1> QED
  BY <1>1, <1>2, <1>3, <1>4, <1>5, <1>6 DEF RunNext, Work

LEMMA MatchesKept ==
  ASSUME OneRequest, Types, Control, Content, FenceLast, VectorLast, VectorMatchesContent, [Next]_vars
  PROVE  VectorMatchesContent'
<1>1. ASSUME NEW q \in Requests, RequestNext(q)
      PROVE  VectorMatchesContent'
  <2>1. CASE Kept
    <3>1. UNCHANGED <<row, started, contentKey, vector, clock>>
      BY <1>1, <2>1, RequestDoes DEF Requested, Kept, rowVars, contentVars
    <3> QED
      BY <1>1, <3>1, ReadyBlob DEF VectorMatchesContent
  <2>2. CASE Renewed(q)
    BY <2>2 DEF Renewed, Pending, VectorMatchesContent
  <2> QED
    BY <1>1, <2>1, <2>2, RequestDoes DEF Requested
<1>2. CASE DropItem \/ Sweep \/ Stop \/ UNCHANGED vars
  BY <1>2, LastIdle DEF VectorMatchesContent
<1> QED
  BY <1>1, <1>2, MatchesOfRun DEF Next

LEMMA LatestInit == ASSUME Init PROVE Latest
<1>1. live = {} /\ row.status = "pending"
  BY DEF Init, LifeInit, Pending
<1> QED
  BY <1>1 DEF Latest, GenLast, FenceLast, VectorLast, VectorMatchesContent

LEMMA LatestAlways == ASSUME OneRequest PROVE Spec => [](Types /\ Control /\ Content /\ Latest)
<1>1. Init => Latest
  BY LatestInit
<1>2. Types /\ Types' /\ Control /\ Content /\ Latest /\ [Next]_vars => Latest'
  BY GenLastKept, FenceLastKept, VectorLastKept, MatchesKept DEF Latest
<1> QED
  BY <1>1, <1>2, ContentAlways, PTL DEF Spec

\* The vector of a ready reading is of its content and bears its generation,
\* whatever stale runs work beside their replacements after ForceWaitTTL,
\* unless the row bears a generation before the last one.
THEOREM VectorCorrect == ASSUME OneRequest PROVE Spec => []VectorMatchesContent
<1>1. Latest => VectorMatchesContent
  BY DEF Latest
<1> QED
  BY <1>1, LatestAlways, PTL

-----------------------------------------------------------------------------
(* Without late Running writes *)

NoLateRunning == \A w \in Runs : ~LateRunning(w)

\* A Running write that lands is of the live run, on a row that is not
\* settled, or late, or while a forced submit is about to reset the row.
LEMMA RunningWrites ==
  ASSUME Types, Control, NEW w \in Runs, RunningLands(w) \/ RunningFails(w), started' # started
  PROVE  /\ started' = pipe[w].gen /\ row'.status = "running" /\ stage[w] = "writing"
         /\ w \in live => ~Settled
         /\ w \notin live /\ ~LateRunning(w) => ~Settled /\ live' = {}
<1>1. started' = pipe[w].gen /\ row'.status = "running" /\ stage[w] = "writing" /\ live' \subseteq live
  BY DEF RunningLands, MarkRunning, RunningFails, RunningWriteFails, EndRun, Running
<1>2. w \in live => ~Settled
  BY <1>1 DEF Control, Owners, LifeOwners, Resets, Quiescent
<1>3. ASSUME w \notin live, ~LateRunning(w)
      PROVE  ~Settled /\ live' = {}
  <2>1. Forcing /\ ~Settled
    BY <1>3 DEF LateRunning
  <2>2. live = {}
    BY <2>1 DEF Control, Owners, LifeOwners
  <2> QED
    BY <1>1, <2>1, <2>2
<1> QED
  BY <1>1, <1>2, <1>3

LEMMA RunTransition ==
  ASSUME Types, Control, NEW w \in Runs, RunNext(w), row'.status # row.status
  PROVE  <<row.status, row'.status>> \in Allowed \/ LateRunning(w)
<1>1. row.status \in Statuses
  BY DEF Types, LifeTypes
<1>2. CASE RunningLands(w) \/ RunningFails(w)
  <2>1. stage[w] = "writing" /\ started' = pipe[w].gen
    BY <1>2 DEF RunningLands, MarkRunning, RunningFails
  <2>2. started' # started
    BY <2>1 DEF Control, Fences
  <2>3. row'.status = "running" /\ (Settled => LateRunning(w))
    BY <1>2, <2>2, RunningWrites
  <2>4. CASE row.status = "pending"
    BY <2>3, <2>4 DEF Allowed
  <2>5. CASE row.status # "pending"
    BY <1>1, <2>3, <2>5 DEF Settled, Statuses
  <2> QED
    BY <2>4, <2>5
<1>3. CASE Return(w)
  <2>1. w \in live /\ stage[w] = "handling" /\ row'.status \in {"failed", "ready", "pending"}
    BY <1>3, ReturnDoes DEF Discards, Finishes, Passes
  <2>2. row.status = "running"
    BY <2>1 DEF Control, RunRows
  <2> QED
    BY <2>1, <2>2 DEF Allowed
<1>4. CASE BeginRun(w) \/ StartRun(w) \/ Load(w) \/ Settle(w) \/ Work(w)
  BY <1>4, WorkWorks DEF BeginRun, Begin, StartRun, EnterRunningWrite, Load, Settle, FinishRelease, Worked, lifeVars
<1> QED
  BY <1>2, <1>3, <1>4 DEF RunNext, Work

LEMMA TransitionStep ==
  ASSUME Types, Control, [Next]_vars, row'.status # row.status
  PROVE  <<row.status, row'.status>> \in Allowed \/ ~NoLateRunning
<1>1. ASSUME NEW q \in Requests, RequestNext(q)
      PROVE  <<row.status, row'.status>> \in Allowed
  <2>1. Kept \/ Renewed(q)
    BY <1>1, RequestDoes DEF Requested
  <2>2. ~Kept
    <3>1. Kept => row' = row
      BY DEF Kept
    <3> QED
      BY <3>1
  <2>3. row'.status = "pending"
    <3>1. row' = Pending(0)
      BY <2>1, <2>2 DEF Renewed
    <3> QED
      BY <3>1 DEF Pending
  <2>4. row.status \in Statuses
    BY DEF Types, LifeTypes
  <2> QED
    BY <2>3, <2>4 DEF Allowed, Statuses
<1>2. ~DropItem /\ ~Sweep /\ ~Stop /\ ~UNCHANGED vars
  BY LastIdle
<1> QED
  BY <1>1, <1>2, RunTransition DEF Next, NoLateRunning

\* The table of allowed transitions (status.go), forced submits that go on
\* after ForceWaitTTL included: the only step that takes a row to a status the
\* table does not list is a Running write that comes late; in a behaviour
\* without one, TransitionsAllowed holds.
THEOREM TransitionsCorrect ==
  ASSUME OneRequest
  PROVE  /\ Spec => [][row'.status # row.status =>
                        <<row.status, row'.status>> \in Allowed \/ \E w \in Runs : LateRunning(w)]_vars
         /\ Spec /\ [][NoLateRunning]_vars => TransitionsAllowed
<1>1. Types /\ Control /\ [Next]_vars
        => [row'.status # row.status =>
              <<row.status, row'.status>> \in Allowed \/ \E w \in Runs : LateRunning(w)]_vars
  BY TransitionStep DEF NoLateRunning
<1>2. Types /\ Control /\ [Next]_vars /\ [NoLateRunning]_vars
        => [row'.status # row.status => <<row.status, row'.status>> \in Allowed]_vars
  BY TransitionStep
<1>3. Spec => [][row'.status # row.status =>
                   <<row.status, row'.status>> \in Allowed \/ \E w \in Runs : LateRunning(w)]_vars
  BY <1>1, ControlAlways, PTL DEF Spec
<1>4. Spec /\ [][NoLateRunning]_vars => TransitionsAllowed
  BY <1>2, ControlAlways, PTL DEF Spec, TransitionsAllowed
<1> QED
  BY <1>3, <1>4

\* The row of a ready reading, and of one that is handled, bears the last
\* generation.
Newest ==
  /\ row.status = "ready" => started = clock
  /\ \A w \in live : stage[w] = "handling" => started = clock

LEMMA NewestOfRun ==
  ASSUME Types, Types', Control, GenLast, Newest, NEW w \in Runs, RunNext(w), ~LateRunning(w)
  PROVE  Newest'
<1>1. CASE StartRun(w)
  <2>1. /\ live' = {w} /\ stage' = [stage EXCEPT ![w] = "writing"] /\ row' = row /\ ~Settled
    BY <1>1, StartsAlone
  <2> QED
    BY <2>1 DEF Newest, Settled, Types, LifeTypes
<1>2. CASE BeginRun(w)
  <2>1. live' = {w} /\ stage' = [stage EXCEPT ![w] = "begun"] /\ UNCHANGED <<row, started, clock>>
    BY <1>2 DEF BeginRun, Begin, rowVars, runVars
  <2> QED
    BY <2>1 DEF Newest, Types, LifeTypes
<1>3. CASE (RunningLands(w) \/ RunningFails(w)) /\ started' # started
  <2>1. started' = pipe[w].gen /\ row'.status = "running" /\ stage[w] = "writing" /\ clock' = clock
    BY <1>3, RunningWrites DEF RunningLands, RunningFails
  <2>2. CASE w \in live
    <3>1. \A v \in live' : v = w
      BY <2>2 , <1>3 DEF RunningLands, MarkRunning, RunningFails, RunningWriteFails, EndRun, Control, Owners, LifeOwners
    <3>2. pipe[w].gen = clock
      BY <2>1, <2>2 DEF GenLast
    <3> QED
      BY <2>1, <3>2 DEF Newest
  <2>3. CASE w \notin live
    BY <1>3, <2>1, <2>3, RunningWrites DEF Newest
  <2> QED
    BY <2>2, <2>3
<1>4. CASE RunningFails(w) /\ started' = started
  <2>1. /\ row'.status = "running" \/ row' = row
        /\ live' \subseteq live /\ clock' = clock /\ stage' = [stage EXCEPT ![w] = "off"]
    BY <1>4 DEF RunningFails, RunningWriteFails, EndRun, Running
  <2>2. \A v \in live' : stage'[v] = "handling" => v \in live /\ stage[v] = "handling"
    BY <2>1 DEF Types, LifeTypes
  <2> QED
    BY <1>4, <2>1, <2>2 DEF Newest
<1>5. CASE RunningLands(w) /\ started' = started
  BY <1>5 DEF RunningLands, MarkRunning, Control, Fences
<1>6. CASE Load(w) \/ Work(w)
  <2>1. UNCHANGED <<row, live, stage, started, clock>>
    BY <1>6, WorkWorks DEF Load, Worked, lifeVars, rowVars
  <2> QED
    BY <2>1 DEF Newest
<1>7. CASE Return(w)
  <2>1. /\ UNCHANGED <<started, clock>> /\ live' \subseteq live
        /\ \E at \in {"off", "finishing"} : stage' = [stage EXCEPT ![w] = at]
    BY <1>7, ReturnDoes DEF Return, rowVars, Discards, Finishes, Passes
  <2>2. \A v \in live' : stage'[v] = "handling" => v \in live /\ stage[v] = "handling"
    BY <2>1 DEF Types, LifeTypes
  <2>3. row'.status = "ready" => row.status = "ready" \/ (w \in live /\ stage[w] = "handling")
    BY <1>7, ReturnDoes, BecomesReady
  <2> QED
    BY <2>1, <2>2, <2>3 DEF Newest
<1>8. CASE Settle(w)
  <2>1. live' \subseteq live /\ UNCHANGED <<row, started, clock>> /\ stage' = [stage EXCEPT ![w] = "off"]
    BY <1>8 DEF Settle, FinishRelease, EndRun, rowVars, runVars
  <2>2. \A v \in live' : stage'[v] = "handling" => v \in live /\ stage[v] = "handling"
    BY <2>1 DEF Types, LifeTypes
  <2> QED
    BY <2>1, <2>2 DEF Newest
<1> QED
  BY <1>1, <1>2, <1>3, <1>4, <1>5, <1>6, <1>7, <1>8 DEF RunNext, Work

LEMMA NewestKept ==
  ASSUME OneRequest, Types, Types', Control, GenLast, Newest, [Next]_vars, [NoLateRunning]_vars
  PROVE  Newest'
<1>1. ASSUME NEW q \in Requests, RequestNext(q)
      PROVE  Newest'
  <2>1. UNCHANGED <<stage, clock>> /\ live' \subseteq live /\ (Kept \/ Renewed(q))
    BY <1>1, RequestDoes, RequestLive DEF Requested
  <2>2. CASE Kept
    BY <2>1, <2>2 DEF Kept, rowVars, Newest
  <2>3. CASE Renewed(q)
    <3>1. row'.status = "pending"
      BY <2>3 DEF Renewed, Pending
    <3> QED
      BY <2>1, <2>3, <3>1, RenewsIdle DEF Newest
  <2> QED
    BY <2>1, <2>2, <2>3
<1>2. CASE DropItem \/ Sweep \/ Stop \/ UNCHANGED vars
  BY <1>2, LastIdle DEF Newest
<1>3. ASSUME NEW w \in Runs, RunNext(w), ~UNCHANGED vars
      PROVE  Newest'
  BY <1>3, NewestOfRun DEF NoLateRunning
<1> QED
  BY <1>1, <1>2, <1>3 DEF Next

\* Unless a Running write comes late, a ready reading bears the last generation
\* given out, so that the vector in the index is always that of its content.
THEOREM GenerationLast ==
  ASSUME OneRequest
  PROVE  Spec /\ [][NoLateRunning]_vars
           => [](row.status = "ready" => started = clock /\ vector = [gen |-> started, of |-> blobs[contentKey]])
<1>1. Init => Newest
  BY DEF Init, LifeInit, Pending, Newest
<1>2. Types /\ Types' /\ Control /\ Latest /\ Newest /\ [Next]_vars /\ [NoLateRunning]_vars => Newest'
  BY NewestKept DEF Latest
<1>3. Latest /\ Newest
        => (row.status = "ready" => started = clock /\ vector = [gen |-> started, of |-> blobs[contentKey]])
  BY DEF Latest, Newest, VectorMatchesContent
<1> QED
  BY <1>1, <1>2, <1>3, LatestAlways, PTL DEF Spec
=============================================================================
