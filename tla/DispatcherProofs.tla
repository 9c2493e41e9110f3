-------------------------- MODULE DispatcherProofs --------------------------
(***************************************************************************)
(* Theorems about Dispatcher, for every set of readings, workers and       *)
(* callers, every channel capacity and every retry budget.                 *)
(***************************************************************************)
EXTENDS DispatcherMap, TLAPS

\* decide always names an attempt, and never one beyond the budget.
LEMMA DecideType ==
  ASSUME NEW outcome \in Outcomes, NEW attempt \in Nat, NEW max \in Nat
  PROVE  Decide(outcome, attempt, max) \in Action
  BY DEF Decide, Action

LEMMA EndRunType ==
  ASSUME TypeOK, NEW w \in Workers, NEW claims \in [Ids -> Claims], EndRun(w, claims)
  PROVE  /\ inflight' \in [Ids -> Claims]
         /\ cwait' \in [Threads -> DoneRefs]
         /\ wpc' \in [Workers -> WorkerStages]
         /\ witem' \in [Workers -> Items \cup {NoItem}]
         /\ \A v \in Workers : wpc'[v] \notin {"recv", "stopped"} => witem'[v] \in Items
         /\ cancelled' \subseteq Workers
  BY DEF EndRun, TypeOK, Claims, DoneRefs, WorkerStages, RunStages

LEMMA ReleasedType ==
  ASSUME TypeOK, NEW it \in Items
  PROVE  /\ Released(it) \in [Ids -> Claims]
         /\ GivenUp(it) \subseteq Ids
  BY DEF Released, GivenUp, TypeOK, Items, Claims, NoClaim, DoneRefs

LEMMA WorkerType ==
  ASSUME TypeOK, NEW w \in Workers, WorkerNext(w)
  PROVE  TypeOK'
<1> USE DispatcherAssumption
<1>1. CASE Receive(w)
  BY <1>1 DEF Receive, TypeOK, WorkerStages, callerVars
<1>2. CASE ReceiveDrained(w)
  <2>1. Head(ch) \in Items
    BY <1>2 DEF ReceiveDrained, TypeOK
  <2> QED
    BY <1>2, <2>1, ReleasedType DEF ReceiveDrained, TypeOK, WorkerStages, callerVars
<1>3. CASE StopWorker(w)
  BY <1>3 DEF StopWorker, TypeOK, WorkerStages, callerVars, claimVars
<1>4. CASE BeginRun(w)
  <2>1. witem[w] \in Items /\ witem[w].id \in Ids
    BY <1>4 DEF BeginRun, TypeOK, Items
  <2>2. inflight' \in [Ids -> Claims]
    BY <1>4, <2>1, ZenonT(30) DEF BeginRun, TypeOK, Claims, DoneRefs
  <2> QED
    BY <1>4, <2>1, <2>2 DEF BeginRun, TypeOK, WorkerStages, RunStages, callerVars
<1>5. CASE SkipStaleItem(w)
  BY <1>5 DEF SkipStaleItem, TypeOK, WorkerStages, callerVars, claimVars
<1>6. CASE EnterRunningWrite(w)
  BY <1>6 DEF EnterRunningWrite, TypeOK, WorkerStages, RunStages, callerVars, claimVars
<1>7. CASE MarkRunning(w)
  BY <1>7 DEF MarkRunning, MarkedRunning, TypeOK, WorkerStages, RunStages, callerVars, claimVars,
              Rows, Statuses, Items
<1>8. CASE RunningWriteFails(w)
  <2>1. witem[w] \in Items
    BY <1>8 DEF RunningWriteFails, TypeOK
  <2>2. row' \in [Ids -> Rows]
    BY <1>8, <2>1 DEF RunningWriteFails, MarkedRunning, TypeOK, Rows, Statuses, Items
  <2> QED
    BY <1>8, <2>1, <2>2, ReleasedType, EndRunType DEF RunningWriteFails, TypeOK
<1>9. CASE \E outcome \in Outcomes : HandlerReturns(w, outcome)
  <2> PICK outcome \in Outcomes : HandlerReturns(w, outcome)
    BY <1>9
  <2> DEFINE it  == witem[w]
             act == Decide(outcome, it.attempt, MaxAttempts)
  <2>1. CASE DiscardResult(w)
    BY <2>1, EndRunType DEF DiscardResult, TypeOK
  <2>2. ASSUME NEW landed \in BOOLEAN, FinishWrite(w, outcome, landed)
        PROVE  TypeOK'
    BY <2>2, ZenonT(30) DEF FinishWrite, TypeOK, WorkerStages, RunStages, callerVars, claimVars,
                Rows, Statuses, Items
  <2>3. ASSUME NEW landed \in BOOLEAN, Redispatch(w, outcome, landed)
        PROVE  TypeOK'
    <3>1. it \in Items /\ it.id \in Ids /\ act.next \in Nat
      BY <2>3, DecideType DEF Redispatch, TypeOK, Items, Action
    <3>2. Pending(act.next) \in Rows /\ [it EXCEPT !.attempt = act.next] \in Items
      BY <3>1 DEF Pending, Rows, Statuses, Items
    <3>3. row' \in [Ids -> Rows] /\ delayed' \subseteq Items
      BY <2>3, <3>1, <3>2 DEF Redispatch, TypeOK
    <3> QED
      BY <2>3, <3>3, EndRunType DEF Redispatch, TypeOK
  <2> QED
    BY <2>1, <2>2, <2>3 DEF HandlerReturns
<1>10. CASE FinishRelease(w)
  <2>1. witem[w] \in Items
    BY <1>10 DEF FinishRelease, TypeOK
  <2> QED
    BY <1>10, <2>1, ReleasedType, EndRunType DEF FinishRelease, TypeOK
<1> QED
  BY <1>1, <1>2, <1>3, <1>4, <1>5, <1>6, <1>7, <1>8, <1>9, <1>10 DEF WorkerNext

\* A channel with room stays within its capacity after a send.
LEMMA AppendType ==
  ASSUME TypeOK, NEW it \in Items, ChannelHasRoom
  PROVE  Append(ch, it) \in Seq(Items) /\ Len(Append(ch, it)) <= Buffer
<1> ch \in Seq(Items) /\ Buffer \in Nat
  BY DispatcherAssumption DEF TypeOK
<1>1. Append(ch, it) \in Seq(Items) /\ Len(Append(ch, it)) = Len(ch) + 1 /\ Len(ch) \in Nat
  OBVIOUS
<1> QED
  BY <1>1 DEF ChannelHasRoom

LEMMA StampedType ==
  ASSUME TypeOK, NEW it \in Items
  PROVE  Stamped(it) \in Items
  BY SMTT(30) DEF Stamped, TypeOK, Items

LEMMA QueueClaimedType ==
  ASSUME TypeOK, NEW it \in Items, QueueClaimed(it)
  PROVE  /\ inflight' \in [Ids -> Claims]
         /\ ch' \in Seq(Items) /\ Len(ch') <= Buffer
         /\ dropped' \subseteq Ids
         /\ nextToken' = nextToken
<1>1. CASE Owns(it) /\ ChannelHasRoom
  <2>1. ch' = Append(ch, it) /\ UNCHANGED <<inflight, dropped, nextToken>>
    BY <1>1 DEF QueueClaimed
  <2>2. ch' \in Seq(Items) /\ Len(ch') <= Buffer
    BY <1>1, <2>1, AppendType
  <2> QED
    BY <2>1, <2>2 DEF TypeOK
<1>2. CASE Owns(it) /\ ~ChannelHasRoom
  BY <1>2, ReleasedType DEF QueueClaimed, TypeOK
<1>3. CASE ~Owns(it)
  BY <1>3 DEF QueueClaimed, TypeOK
<1> QED
  BY <1>1, <1>2, <1>3

LEMMA ClaimType ==
  ASSUME TypeOK, NEW id \in Ids, NEW done \in DoneRefs, Claim(id, done)
  PROVE  /\ inflight' \in [Ids -> Claims]
         /\ nextToken' \in Nat
         /\ dropped' \subseteq Ids
  BY DEF Claim, TypeOK, Claims

LEMMA ResetType ==
  ASSUME TypeOK, NEW id \in Ids
  PROVE  Reset(id) \in [Ids -> Rows]
  BY DEF Reset, Pending, TypeOK, Rows, Statuses

LEMMA CallerType ==
  ASSUME TypeOK, NEW c \in Callers, CallerNext(c)
  PROVE  TypeOK'
<1> c \in Threads
  BY DEF Threads
<1>1. ASSUME NEW id \in Ids, ResetRow(c, id) PROVE TypeOK'
  <2>1. row' \in [Ids -> Rows]
    BY <1>1, ResetType DEF ResetRow
  <2>2. citem' \in [Threads -> Items \cup {NoItem}] /\ citem'[c] \in Items
    BY <1>1 DEF ResetRow, TypeOK, Items
  <2> QED
    BY <1>1, <2>1, <2>2 DEF ResetRow, TypeOK, CallerStages, claimVars, workerVars
<1>2. ASSUME NEW id \in Ids, ForceClaim(c, id) PROVE TypeOK'
  <2>1. inflight[id].done \in DoneRefs
    BY <1>2 DEF TypeOK, Claims
  <2>2. Claim(id, inflight[id].done)
    BY <1>2 DEF ForceClaim
  <2> QED
    BY <1>2, <2>1, <2>2, ClaimType, SMTT(30) DEF ForceClaim, TypeOK, Items, CallerStages, ForceStages
<1>3. CASE SubmitDuplicate(c)
  BY <1>3 DEF SubmitDuplicate, TypeOK, CallerStages, claimVars, workerVars
<1>4. CASE SubmitClaim(c)
  <2>1. citem[c] \in Items /\ citem[c].id \in Ids
    BY <1>4 DEF SubmitClaim, TypeOK, Items
  <2>2. NoRun \in DoneRefs
    BY DEF DoneRefs
  <2>3. citem' \in [Threads -> Items \cup {NoItem}] /\ citem'[c] \in Items
    BY <1>4, <2>1, StampedType DEF SubmitClaim, TypeOK
  <2> QED
    BY <1>4, <2>1, <2>2, <2>3, ClaimType DEF SubmitClaim, TypeOK, CallerStages, workerVars
<1>5. CASE AwaitDrained(c)
  BY <1>5 DEF AwaitDrained, TypeOK, CallerStages, ForceStages, claimVars, workerVars, DoneRefs
<1>6. CASE AwaitTimeout(c)
  BY <1>6 DEF AwaitTimeout, TypeOK, CallerStages, ForceStages, claimVars, workerVars, DoneRefs
<1>7. CASE ForceFails(c)
  <2>1. citem[c] \in Items /\ citem[c].id \in Ids
    BY <1>7 DEF ForceFails, TypeOK, Items
  <2>2. row' \in [Ids -> Rows]
    BY <1>7, <2>1, ResetType DEF ForceFails, TypeOK
  <2> QED
    BY <1>7, <2>1, <2>2, ReleasedType DEF ForceFails, TypeOK, CallerStages, workerVars, DoneRefs
<1>8. CASE BeforeQueue(c)
  <2>1. citem[c].id \in Ids
    BY <1>8 DEF BeforeQueue, TypeOK, Items
  <2> QED
    BY <1>8, <2>1, ResetType DEF BeforeQueue, TypeOK, CallerStages, ForceStages,
                                 claimVars, workerVars
<1>9. CASE Enqueue(c)
  <2>1. citem[c] \in Items
    BY <1>9 DEF Enqueue, TypeOK
  <2> QED
    BY <1>9, <2>1, QueueClaimedType DEF Enqueue, TypeOK, CallerStages, workerVars
<1>10. ASSUME NEW id \in Ids, ResetRowFails(c, id) PROVE TypeOK'
  BY <1>10, ResetType DEF ResetRowFails, TypeOK, claimVars, workerVars, callerVars
<1> QED
  BY <1>1, <1>2, <1>3, <1>4, <1>5, <1>6, <1>7, <1>8, <1>9, <1>10 DEF CallerNext

LEMMA FireDelayType ==
  ASSUME TypeOK, NEW it \in delayed, FireDelay(it)
  PROVE  TypeOK'
  BY QueueClaimedType DEF FireDelay, TypeOK, workerVars, callerVars

LEMMA SweepType ==
  ASSUME TypeOK, SweepNext
  PROVE  TypeOK'
<1> Sweeper \in Threads
  BY DEF Threads
<1>1. ASSUME NEW it \in backlog, SweepClaim(it) PROVE TypeOK'
  <2>1. it \in Items /\ it.id \in Ids
    BY <1>1 DEF TypeOK, Items
  <2>2. NoRun \in DoneRefs
    BY DEF DoneRefs
  <2>3. Stamped(it) \in Items
    BY <2>1, StampedType
  <2>4. citem' \in [Threads -> Items \cup {NoItem}]
        /\ \A c \in Threads : cpc'[c] # "idle" => citem'[c] \in Items
    BY <1>1, <2>3 DEF SweepClaim, TypeOK
  <2>5. cpc' \in [Threads -> CallerStages] /\ backlog' \subseteq Items
    BY <1>1 DEF SweepClaim, TypeOK, CallerStages
  <2>6. inflight' \in [Ids -> Claims] /\ nextToken' \in Nat /\ dropped' \subseteq Ids
    BY <1>1, <2>1, <2>2, ClaimType DEF SweepClaim
  <2>7. UNCHANGED <<row, ch, wpc, witem, cancelled, delayed, cwait, phase>>
    BY <1>1 DEF SweepClaim, workerVars
  <2> QED
    BY <2>4, <2>5, <2>6, <2>7 DEF TypeOK
<1>2. CASE SweepSend
  <2>1. citem[Sweeper] \in Items
    BY <1>2 DEF SweepSend, TypeOK
  <2> QED
    BY <1>2, <2>1, AppendType
    DEF SweepSend, TypeOK, CallerStages, claimVars, workerVars
<1>3. CASE SweepDone
  BY <1>3 DEF SweepDone, TypeOK, Phases, claimVars, workerVars, callerVars
<1>4. CASE SweepAbort
  <2>1. cpc[Sweeper] = "send" => citem[Sweeper] \in Items /\ citem[Sweeper].id \in Ids
    BY DEF TypeOK, Items
  <2>2. \A it \in backlog : it.id \in Ids
    BY DEF TypeOK, Items
  <2>3. inflight' \in [Ids -> Claims] /\ dropped' \subseteq Ids
    BY <1>4, <2>1, <2>2, ReleasedType DEF SweepAbort, TypeOK
  <2>4. nextToken' = nextToken /\ row' = row /\ ch' = ch /\ wpc' = wpc /\ witem' = witem
        /\ cancelled' = cancelled /\ delayed' = delayed /\ cwait' = cwait
        /\ phase' = "drain" /\ backlog' = {}
        /\ cpc' = [cpc EXCEPT ![Sweeper] = "idle"]
        /\ citem' = [citem EXCEPT ![Sweeper] = NoItem]
    BY <1>4 DEF SweepAbort, workerVars
  <2> QED
    BY <2>3, <2>4 DEF TypeOK, Phases, CallerStages
<1> QED
  BY <1>1, <1>2, <1>3, <1>4 DEF SweepNext

LEMMA ListedType ==
  ASSUME row \in [Ids -> Rows], NEW overdue
  PROVE  {ListedItem(id) : id \in Listed(row, overdue)} \subseteq Items
  BY DEF ListedItem, Listed, Rows, Items

LEMMA InitType == Init => TypeOK
<1> SUFFICES ASSUME Init PROVE TypeOK
  OBVIOUS
<1>1. row \in [Ids -> Rows]
  BY DEF Init, Rows
<1>2. backlog \subseteq Items
  BY <1>1, ListedType DEF Init
<1> QED
  BY <1>1, <1>2, DispatcherAssumption
  DEF Init, TypeOK, Claims, DoneRefs, NoClaim, WorkerStages, CallerStages, Phases

LEMMA RestartType ==
  ASSUME TypeOK, Restart
  PROVE  TypeOK'
<1> PICK overdue \in SUBSET Ids : Boot(row, overdue) /\ row' = row
  BY DEF Restart
<1>1. backlog' \subseteq Items
  BY ListedType DEF Boot, TypeOK
<1>2. inflight' \in [Ids -> Claims]
  BY DEF Boot, Claims, DoneRefs, NoClaim
<1> QED
  BY <1>1, <1>2, DispatcherAssumption
  DEF Boot, TypeOK, DoneRefs, WorkerStages, CallerStages, Phases

\* Type correctness: in every reachable state of the dispatcher every variable
\* has its type and the channel is within its capacity.
THEOREM TypeCorrect == Spec => []TypeOK
<1>1. Init => TypeOK
  BY InitType
<1>2. TypeOK /\ [Next]_vars => TypeOK'
  <2> SUFFICES ASSUME TypeOK, [Next]_vars PROVE TypeOK'
    OBVIOUS
  <2>1. CASE \E w \in Workers : WorkerNext(w)
    BY <2>1, WorkerType
  <2>2. CASE \E c \in Callers : CallerNext(c)
    BY <2>2, CallerType
  <2>3. CASE \E it \in delayed : FireDelay(it)
    BY <2>3, FireDelayType
  <2>4. CASE SweepNext
    BY <2>4, SweepType
  <2>5. CASE Shutdown
    BY <2>5 DEF Shutdown, TypeOK, Phases, claimVars, workerVars, callerVars
  <2>6. CASE Restart
    BY <2>6, RestartType
  <2>7. CASE UNCHANGED vars
    BY <2>7 DEF vars, TypeOK
  <2> QED
    BY <2>1, <2>2, <2>3, <2>4, <2>5, <2>6, <2>7 DEF Next, Step
<1> QED
  BY <1>1, <1>2, PTL DEF Spec

-----------------------------------------------------------------------------
(* Ownership: the inductive invariant *)

\* No goroutine, slot or timer holds a token that has not been given out.
TokensGivenOut ==
  /\ \A w \in Workers : Busy(w) => witem[w].token \in 1 .. nextToken
  /\ \A c \in Threads : Carrying(c) => citem[c].token \in 1 .. nextToken
  /\ \A i \in DOMAIN ch : ch[i].token \in 1 .. nextToken
  /\ \A it \in delayed : it.token \in 1 .. nextToken

\* No two places hold the same token.
DistinctCarriers ==
  /\ \A v, w \in Workers : Busy(v) /\ Busy(w) /\ witem[v].token = witem[w].token => v = w
  /\ \A c, d \in Threads : Carrying(c) /\ Carrying(d) /\ citem[c].token = citem[d].token => c = d
  /\ \A i, j \in DOMAIN ch : ch[i].token = ch[j].token => i = j
  /\ \A d, e \in delayed : d.token = e.token => d = e
  /\ \A w \in Workers, c \in Threads : Busy(w) /\ Carrying(c) => witem[w].token # citem[c].token
  /\ \A w \in Workers, i \in DOMAIN ch : Busy(w) => witem[w].token # ch[i].token
  /\ \A w \in Workers, d \in delayed : Busy(w) => witem[w].token # d.token
  /\ \A c \in Threads, i \in DOMAIN ch : Carrying(c) => citem[c].token # ch[i].token
  /\ \A c \in Threads, d \in delayed : Carrying(c) => citem[c].token # d.token
  /\ \A i \in DOMAIN ch, d \in delayed : ch[i].token # d.token

\* Some place holds the item of the claim.
Carried(id, token) ==
  \/ \E w \in Workers : Busy(w) /\ witem[w].id = id /\ witem[w].token = token
  \/ \E c \in Threads : Carrying(c) /\ citem[c].id = id /\ citem[c].token = token
  \/ \E i \in DOMAIN ch : ch[i].id = id /\ ch[i].token = token
  \/ \E it \in delayed : it.id = id /\ it.token = token

ClaimCarried == \A id \in Ids : Claimed(id) => Carried(id, inflight[id].token)

\* While finish holds inflightMu its claim stands, and the row it has written
\* is pending again only if a caller that is about to submit has reset it.
FinishingOwns ==
  \A w \in Workers : wpc[w] = "finishing" =>
    /\ Owns(witem[w])
    /\ row[witem[w].id].status = "pending" =>
         \/ witem[w].id \in dropped
         \/ \E c \in Callers : cpc[c] = "submit" /\ citem[c].id = witem[w].id

\* The sweeper holds at most the item it is sending; the others never send.
SweeperStages == /\ cpc[Sweeper] \in {"idle", "send"}
                 /\ phase # "sweep" => cpc[Sweeper] = "idle"
                 /\ \A c \in Callers : cpc[c] # "send"

Ownership ==
  /\ TypeOK
  /\ TokensGivenOut
  /\ DistinctCarriers
  /\ ClaimCarried
  /\ LiveRunOwnsClaim
  /\ ForceOwnsClaim
  /\ FinishingOwns
  /\ PendingRowHasWork
  /\ SweeperStages

\* Removing items, and taking them off the head of the channel, creates no
\* second carrier.
LEMMA FewerCarriers ==
  ASSUME TokensGivenOut, DistinctCarriers, NEW k \in Nat,
         nextToken' = nextToken,
         \A w \in Workers : Busy(w)' => Busy(w) /\ witem'[w] = witem[w],
         \A c \in Threads : Carrying(c)' => Carrying(c) /\ citem'[c] = citem[c],
         DOMAIN ch' \subseteq Nat,
         \A i \in DOMAIN ch' : i + k \in DOMAIN ch /\ ch'[i] = ch[i + k],
         delayed' \subseteq delayed
  PROVE  TokensGivenOut' /\ DistinctCarriers'
<1>1. TokensGivenOut'
  BY DEF TokensGivenOut
<1>2. \A i, j \in DOMAIN ch' : ch'[i].token = ch'[j].token => i = j
  BY DEF DistinctCarriers
<1> QED
  BY <1>1, <1>2 DEF DistinctCarriers

\* A step that moves no item leaves every claim carried.
LEMMA SameCarriers ==
  ASSUME TypeOK, TokensGivenOut, DistinctCarriers, ClaimCarried,
         nextToken' = nextToken, ch' = ch, delayed' = delayed,
         \A w \in Workers : Busy(w)' = Busy(w) /\ (Busy(w) => witem'[w] = witem[w]),
         \A c \in Threads : Carrying(c)' = Carrying(c) /\ (Carrying(c) => citem'[c] = citem[c]),
         \A id \in Ids : inflight'[id].token = inflight[id].token
  PROVE  TokensGivenOut' /\ DistinctCarriers' /\ ClaimCarried'
<1>1. TokensGivenOut' /\ DistinctCarriers'
  <2>1. ch \in Seq(Items)
    BY DEF TypeOK
  <2>2. DOMAIN ch \subseteq Nat /\ \A i \in DOMAIN ch : i + 0 = i
    BY <2>1
  <2> QED
    BY <2>2, FewerCarriers
<1>2. \A id \in Ids, token \in Nat : Carried(id, token) => Carried(id, token)'
  BY DEF Carried
<1>3. \A id \in Ids : Claimed(id)' => Claimed(id)
  BY DEF Claimed
<1>4. \A id \in Ids : inflight[id].token \in Nat
  BY DEF TypeOK, Claims
<1> QED
  BY <1>1, <1>2, <1>3, <1>4 DEF ClaimCarried

LEMMA BeginRunOwnership ==
  ASSUME Ownership, NEW w \in Workers, BeginRun(w)
  PROVE  Ownership'
<1> USE DEF Ownership
<1>1. TypeOK'
  BY WorkerType DEF WorkerNext
<1>2. witem[w] \in Items /\ witem[w].id \in Ids /\ Owns(witem[w])
  BY DEF BeginRun, TypeOK, Items
<1>3. \A id \in Ids : /\ inflight'[id].token = inflight[id].token
                      /\ inflight'[id].done = IF id = witem[w].id THEN w ELSE inflight[id].done
  BY <1>2 DEF BeginRun, TypeOK, Claims
<1>4. UNCHANGED <<row, nextToken, ch, witem, cancelled, delayed, cpc, citem, cwait, phase, backlog, dropped>>
      /\ wpc' = [wpc EXCEPT ![w] = "begun"] /\ wpc[w] = "got"
  BY DEF BeginRun, callerVars
<1>5. TokensGivenOut' /\ DistinctCarriers' /\ ClaimCarried'
  BY <1>3, <1>4, SameCarriers DEF Busy, Carrying, TypeOK
<1>6. LiveRunOwnsClaim'
  <2> SUFFICES ASSUME NEW v \in Workers, wpc'[v] \in RunStages, v \notin cancelled'
               PROVE  Owns(witem[v])' /\ inflight'[witem'[v].id].done = v
    BY DEF LiveRunOwnsClaim
  <2>1. CASE v = w
    BY <1>2, <1>3, <1>4, <2>1 DEF Owns
  <2>2. CASE v # w
    <3>1. wpc[v] \in RunStages /\ v \notin cancelled /\ Busy(v) /\ Busy(w)
      BY <1>4, <2>2 DEF TypeOK, Busy, RunStages
    <3>2. Owns(witem[v]) /\ inflight[witem[v].id].done = v /\ witem[v].id \in Ids
      BY <3>1 DEF LiveRunOwnsClaim, TypeOK, Items, Busy
    <3>3. witem[v].id # witem[w].id
      BY <1>2, <2>2, <3>1, <3>2 DEF DistinctCarriers, Owns
    <3> QED
      BY <1>3, <1>4, <3>2, <3>3 DEF Owns
  <2> QED
    BY <2>1, <2>2
<1>7. ForceOwnsClaim'
  BY <1>3, <1>4 DEF ForceOwnsClaim, Owns, TypeOK, Items, Threads, ForceStages
<1>8. FinishingOwns'
  BY <1>3, <1>4 DEF FinishingOwns, Owns, TypeOK, Items
<1>9. PendingRowHasWork'
  BY <1>3, <1>4 DEF PendingRowHasWork, Claimed, TypeOK
<1> QED
  BY <1>1, <1>4, <1>5, <1>6, <1>7, <1>8, <1>9 DEF SweeperStages

\* Every place that gives up its item without passing it on has lost the
\* claim, or loses it in the same step.
LEMMA RemovedCarriers ==
  ASSUME TypeOK, TokensGivenOut, DistinctCarriers, ClaimCarried,
         nextToken' = nextToken, ch' = ch, delayed' \subseteq delayed,
         \A w \in Workers : Busy(w)' => Busy(w) /\ witem'[w] = witem[w],
         \A c \in Threads : Carrying(c)' => Carrying(c) /\ citem'[c] = citem[c],
         \A w \in Workers : Busy(w) /\ ~Busy(w)' => inflight'[witem[w].id].token # witem[w].token,
         \A c \in Threads : Carrying(c) /\ ~Carrying(c)' => inflight'[citem[c].id].token # citem[c].token,
         \A it \in delayed \ delayed' : inflight'[it.id].token # it.token,
         \A id \in Ids : Claimed(id)' => inflight'[id].token = inflight[id].token
  PROVE  TokensGivenOut' /\ DistinctCarriers' /\ ClaimCarried'
<1>1. TokensGivenOut' /\ DistinctCarriers'
  <2>1. ch \in Seq(Items)
    BY DEF TypeOK
  <2>2. DOMAIN ch \subseteq Nat /\ \A i \in DOMAIN ch : i + 0 = i
    BY <2>1
  <2> QED
    BY <2>2, FewerCarriers
<1>2. SUFFICES ASSUME NEW id \in Ids, Claimed(id)'
               PROVE  Carried(id, inflight[id].token)'
  BY <1>1 DEF ClaimCarried
<1>3. inflight'[id].token = inflight[id].token /\ Carried(id, inflight[id].token)
  BY <1>2 DEF ClaimCarried, Claimed
<1> QED
  BY <1>3 DEF Carried

LEMMA EndRunEffect ==
  ASSUME TypeOK, NEW w \in Workers, NEW claims \in [Ids -> Claims], EndRun(w, claims)
  PROVE  /\ \A id \in Ids : /\ inflight'[id].token = claims[id].token
                            /\ claims[id].done # w => inflight'[id] = claims[id]
         /\ ~Busy(w)' /\ wpc'[w] \notin RunStages
         /\ \A v \in Workers \ {w} : wpc'[v] = wpc[v] /\ witem'[v] = witem[v]
         /\ cancelled' = cancelled \ {w}
  BY DEF EndRun, TypeOK, Claims, Busy, RunStages

LEMMA ReleasedEffect ==
  ASSUME TypeOK, NEW it \in Items
  PROVE  /\ Owns(it) => Released(it) = [inflight EXCEPT ![it.id] = NoClaim]
         /\ ~Owns(it) => Released(it) = inflight
         /\ \A id \in Ids \ {it.id} : Released(it)[id] = inflight[id]
         /\ it.token # 0 => Released(it)[it.id].token # it.token
         /\ \A id \in Ids : Released(it)[id].token \in {0, inflight[id].token}
  BY DEF Released, NoClaim, TypeOK, Items, Claims, Owns

\* When a run ends, whether it releases its claim or keeps it, the claims of
\* the other runs and of the forced submits stand.
LEMMA EndRunOwnership ==
  ASSUME Ownership, NEW w \in Workers, Busy(w), NEW claims,
         claims = inflight \/ claims = Released(witem[w]),
         EndRun(w, claims), UNCHANGED <<cpc, citem, phase>>
  PROVE  /\ LiveRunOwnsClaim' /\ ForceOwnsClaim' /\ SweeperStages'
         /\ \A v \in Workers \ {w} : Busy(v) /\ Owns(witem[v]) => Owns(witem[v])'
<1> USE DEF Ownership
<1>1. witem[w] \in Items /\ witem[w].id \in Ids /\ witem[w].token # 0
  BY DEF TypeOK, Busy, Items, TokensGivenOut
<1>2. claims \in [Ids -> Claims]
  BY <1>1, ReleasedType DEF TypeOK
<1>3. \A it \in Items : Owns(it) /\ it.token # witem[w].token => claims[it.id] = inflight[it.id]
  BY <1>1, ReleasedEffect DEF Owns, Items
<1>4. \A v \in Workers \ {w} : Busy(v) => /\ witem[v] \in Items
                                           /\ witem[v].token # witem[w].token
  BY DEF DistinctCarriers, TypeOK, Busy
<1>5. \A v \in Workers \ {w} : wpc'[v] = wpc[v] /\ witem'[v] = witem[v]
  BY <1>2, EndRunEffect
<1>6. \A v \in Workers \ {w} : Busy(v) /\ Owns(witem[v]) => Owns(witem[v])'
  BY <1>2, <1>3, <1>4, <1>5, EndRunEffect DEF Owns, Items
<1>7. LiveRunOwnsClaim'
  <2> SUFFICES ASSUME NEW v \in Workers, wpc'[v] \in RunStages, v \notin cancelled'
               PROVE  Owns(witem[v])' /\ inflight'[witem'[v].id].done = v
    BY DEF LiveRunOwnsClaim
  <2>1. v # w /\ wpc[v] \in RunStages /\ v \notin cancelled /\ Busy(v)
    BY <1>2, EndRunEffect DEF Busy, RunStages
  <2>2. Owns(witem[v]) /\ inflight[witem[v].id].done = v /\ witem[v].id \in Ids
    BY <2>1, <1>4 DEF LiveRunOwnsClaim, Items
  <2>3. claims[witem[v].id] = inflight[witem[v].id]
    BY <1>3, <1>4, <2>1, <2>2
  <2> QED
    BY <1>2, <1>5, <1>6, <2>1, <2>2, <2>3, EndRunEffect
<1>8. ForceOwnsClaim'
  <2> SUFFICES ASSUME NEW c \in Callers, cpc[c] \in ForceStages
               PROVE  Owns(citem[c])'
    BY DEF ForceOwnsClaim
  <2>1. citem[c] \in Items /\ citem[c].token # witem[w].token /\ Owns(citem[c])
    BY DEF ForceOwnsClaim, ForceStages, TypeOK, Threads, DistinctCarriers, Carrying
  <2>2. claims[citem[c].id] = inflight[citem[c].id]
    BY <1>3, <2>1
  <2> QED
    BY <1>2, <2>1, <2>2, EndRunEffect DEF Owns, Items
<1> QED
  BY <1>6, <1>7, <1>8 DEF SweeperStages

LEMMA RunningWriteFailsOwnership ==
  ASSUME Ownership, NEW w \in Workers, RunningWriteFails(w)
  PROVE  Ownership'
<1> USE DEF Ownership
<1>1. TypeOK'
  BY WorkerType DEF WorkerNext
<1>2. /\ EndRun(w, Released(witem[w])) /\ dropped' = GivenUp(witem[w]) /\ MuFree
      /\ UNCHANGED <<nextToken, ch, delayed, cpc, citem, phase, backlog>>
      /\ Busy(w) /\ row' \in {row, MarkedRunning(witem[w])}
  BY DEF RunningWriteFails, Busy
<1>3. witem[w] \in Items /\ witem[w].id \in Ids /\ witem[w].token # 0
  BY <1>2 DEF TypeOK, Busy, Items, TokensGivenOut
<1>4. Released(witem[w]) \in [Ids -> Claims]
  BY <1>3, ReleasedType
<1>5. /\ \A v \in Workers \ {w} : wpc'[v] = wpc[v] /\ witem'[v] = witem[v]
      /\ ~Busy(w)' /\ wpc'[w] \notin RunStages
      /\ \A id \in Ids : inflight'[id].token = Released(witem[w])[id].token
  BY <1>2, <1>4, EndRunEffect
<1>6. LiveRunOwnsClaim' /\ ForceOwnsClaim' /\ SweeperStages'
  BY <1>2, EndRunOwnership
<1>7. TokensGivenOut' /\ DistinctCarriers' /\ ClaimCarried'
  <2>1. inflight'[witem[w].id].token # witem[w].token
    BY <1>3, <1>5, ReleasedEffect
  <2>2. \A id \in Ids : Claimed(id)' => inflight'[id].token = inflight[id].token
    BY <1>3, <1>5, ReleasedEffect DEF Claimed
  <2> QED
    BY <1>2, <1>5, <2>1, <2>2, RemovedCarriers DEF Busy, Carrying
<1>8. FinishingOwns'
  BY <1>2, <1>5 DEF FinishingOwns, MuFree, RunStages
<1>9. PendingRowHasWork'
  <2>1. \A id \in Ids : Claimed(id) => Claimed(id)' \/ id \in dropped'
    BY <1>2, <1>3, <1>5, ReleasedEffect DEF Claimed, GivenUp, TypeOK
  <2>2. dropped \subseteq dropped'
    BY <1>2 DEF GivenUp
  <2>3. \A id \in Ids : row'[id].status = "pending" => row[id].status = "pending"
    BY <1>2 DEF MarkedRunning, TypeOK
  <2> QED
    BY <1>2, <2>1, <2>2, <2>3 DEF PendingRowHasWork
<1> QED
  BY <1>1, <1>6, <1>7, <1>8, <1>9

LEMMA DiscardResultOwnership ==
  ASSUME Ownership, NEW w \in Workers, DiscardResult(w)
  PROVE  Ownership'
<1> USE DEF Ownership
<1>1. TypeOK'
  BY WorkerType DEF WorkerNext, HandlerReturns, Outcomes
<1>2. /\ EndRun(w, inflight) /\ MuFree /\ ~Owns(witem[w])
      /\ UNCHANGED <<row, nextToken, ch, delayed, cpc, citem, phase, backlog, dropped>>
      /\ Busy(w)
  BY DEF DiscardResult, Busy
<1>3. witem[w] \in Items /\ witem[w].id \in Ids /\ inflight \in [Ids -> Claims]
  BY <1>2 DEF TypeOK, Busy, Items
<1>4. /\ \A v \in Workers \ {w} : wpc'[v] = wpc[v] /\ witem'[v] = witem[v]
      /\ ~Busy(w)' /\ wpc'[w] \notin RunStages
      /\ \A id \in Ids : inflight'[id].token = inflight[id].token
  BY <1>2, <1>3, EndRunEffect
<1>5. LiveRunOwnsClaim' /\ ForceOwnsClaim' /\ SweeperStages'
  BY <1>2, EndRunOwnership
<1>6. TokensGivenOut' /\ DistinctCarriers' /\ ClaimCarried'
  BY <1>2, <1>3, <1>4, RemovedCarriers DEF Busy, Carrying, Owns
<1>7. FinishingOwns'
  BY <1>2, <1>4 DEF FinishingOwns, MuFree, RunStages
<1>8. PendingRowHasWork'
  BY <1>2, <1>4 DEF PendingRowHasWork, Claimed
<1> QED
  BY <1>1, <1>5, <1>6, <1>7, <1>8

LEMMA FinishReleaseOwnership ==
  ASSUME Ownership, NEW w \in Workers, FinishRelease(w)
  PROVE  Ownership'
<1> USE DEF Ownership
<1>1. TypeOK'
  BY WorkerType DEF WorkerNext
<1>2. /\ EndRun(w, Released(witem[w])) /\ wpc[w] = "finishing"
      /\ UNCHANGED <<row, nextToken, ch, delayed, cpc, citem, phase, backlog, dropped>>
      /\ Busy(w)
  BY DEF FinishRelease, Busy
<1>3. witem[w] \in Items /\ witem[w].id \in Ids /\ witem[w].token # 0
  BY <1>2 DEF TypeOK, Busy, Items, TokensGivenOut
<1>4. Released(witem[w]) \in [Ids -> Claims]
  BY <1>3, ReleasedType
<1>5. /\ \A v \in Workers \ {w} : wpc'[v] = wpc[v] /\ witem'[v] = witem[v]
      /\ ~Busy(w)' /\ wpc'[w] \notin RunStages
      /\ \A id \in Ids : inflight'[id].token = Released(witem[w])[id].token
  BY <1>2, <1>4, EndRunEffect
<1>6. /\ LiveRunOwnsClaim' /\ ForceOwnsClaim' /\ SweeperStages'
      /\ \A v \in Workers \ {w} : Busy(v) /\ Owns(witem[v]) => Owns(witem[v])'
  BY <1>2, EndRunOwnership
<1>7. TokensGivenOut' /\ DistinctCarriers' /\ ClaimCarried'
  <2>1. inflight'[witem[w].id].token # witem[w].token
    BY <1>3, <1>5, ReleasedEffect
  <2>2. \A id \in Ids : Claimed(id)' => inflight'[id].token = inflight[id].token
    BY <1>3, <1>5, ReleasedEffect DEF Claimed
  <2> QED
    BY <1>2, <1>5, <2>1, <2>2, RemovedCarriers DEF Busy, Carrying
<1>8. FinishingOwns'
  BY <1>2, <1>5, <1>6 DEF FinishingOwns, RunStages, Busy
<1>9. PendingRowHasWork'
  <2>1. \A id \in Ids \ {witem[w].id} : Claimed(id) => Claimed(id)'
    BY <1>3, <1>5, ReleasedEffect DEF Claimed
  <2>2. row[witem[w].id].status = "pending" =>
          \/ witem[w].id \in dropped
          \/ \E c \in Callers : cpc[c] = "submit" /\ citem[c].id = witem[w].id
    BY <1>2 DEF FinishingOwns
  <2> QED
    BY <1>2, <2>1, <2>2 DEF PendingRowHasWork
<1> QED
  BY <1>1, <1>6, <1>7, <1>8, <1>9

LEMMA RedispatchOwnership ==
  ASSUME Ownership, NEW w \in Workers, NEW outcome \in Outcomes, NEW landed \in BOOLEAN,
         Redispatch(w, outcome, landed)
  PROVE  Ownership'
<1> USE DEF Ownership
<1>1. TypeOK'
  BY WorkerType DEF WorkerNext, HandlerReturns
<1> DEFINE it   == witem[w]
           next == [it EXCEPT !.attempt = Decide(outcome, it.attempt, MaxAttempts).next]
<1>2. /\ EndRun(w, inflight) /\ MuFree /\ Owns(it) /\ Busy(w)
      /\ delayed' = delayed \cup {next}
      /\ UNCHANGED <<nextToken, ch, cpc, citem, phase, backlog, dropped>>
      /\ \A id \in Ids \ {it.id} : row'[id] = row[id]
  BY DEF Redispatch, Busy, TypeOK
<1>3. it \in Items /\ it.id \in Ids /\ it.token \in 1 .. nextToken /\ inflight \in [Ids -> Claims]
  BY <1>2 DEF TypeOK, Busy, Items, TokensGivenOut
<1>4. next.id = it.id /\ next.token = it.token
  BY <1>3 DEF Items
<1> HIDE DEF next
<1>5. /\ \A v \in Workers \ {w} : wpc'[v] = wpc[v] /\ witem'[v] = witem[v]
      /\ ~Busy(w)' /\ wpc'[w] \notin RunStages
      /\ \A id \in Ids : inflight'[id].token = inflight[id].token
  BY <1>2, <1>3, EndRunEffect
<1>6. LiveRunOwnsClaim' /\ ForceOwnsClaim' /\ SweeperStages'
  BY <1>2, EndRunOwnership
<1>7. \A v \in Workers : Busy(v)' => Busy(v) /\ v # w /\ witem'[v] = witem[v]
  BY <1>5 DEF Busy
<1>8. TokensGivenOut'
  BY <1>2, <1>3, <1>4, <1>7 DEF TokensGivenOut, Carrying
<1>9. DistinctCarriers'
  BY <1>2, <1>4, <1>7 DEF DistinctCarriers, Carrying
<1>10. ClaimCarried'
  <2> SUFFICES ASSUME NEW id \in Ids, Claimed(id)
               PROVE  Carried(id, inflight[id].token)'
    BY <1>5 DEF ClaimCarried, Claimed
  <2>1. Carried(id, inflight[id].token)
    BY DEF ClaimCarried
  <2>2. CASE it.id = id /\ it.token = inflight[id].token
    BY <1>2, <1>4, <1>5, <2>2 DEF Carried
  <2>3. CASE ~(it.id = id /\ it.token = inflight[id].token)
    BY <1>2, <1>5, <2>1, <2>3 DEF Carried, Carrying, Busy
  <2> QED
    BY <2>2, <2>3
<1>11. FinishingOwns'
  BY <1>2, <1>5 DEF FinishingOwns, MuFree, RunStages
<1>12. PendingRowHasWork'
  BY <1>2, <1>3, <1>5 DEF PendingRowHasWork, Claimed, Owns
<1> QED
  BY <1>1, <1>6, <1>8, <1>9, <1>10, <1>11, <1>12

LEMMA FinishWriteOwnership ==
  ASSUME Ownership, NEW w \in Workers, NEW outcome \in Outcomes, NEW landed \in BOOLEAN,
         FinishWrite(w, outcome, landed)
  PROVE  Ownership'
<1> USE DEF Ownership
<1>1. TypeOK'
  BY WorkerType DEF WorkerNext, HandlerReturns
<1>2. /\ MuFree /\ Owns(witem[w]) /\ wpc[w] = "handling"
      /\ wpc' = [wpc EXCEPT ![w] = "finishing"]
      /\ dropped \subseteq dropped'
      /\ UNCHANGED <<inflight, nextToken, ch, witem, cancelled, delayed, cpc, citem, cwait,
                     phase, backlog>>
      /\ \A id \in Ids \ {witem[w].id} : row'[id] = row[id]
      /\ row'[witem[w].id].status = "pending" =>
           witem[w].id \in dropped'
  <2>1. witem[w].id \in Ids
    BY DEF FinishWrite, TypeOK, Items
  <2> QED
    BY <2>1 DEF FinishWrite, callerVars, claimVars, TypeOK, Rows
<1>3. TokensGivenOut' /\ DistinctCarriers' /\ ClaimCarried'
  BY <1>2, SameCarriers DEF Busy, Carrying, TypeOK
<1>4. LiveRunOwnsClaim'
  BY <1>2 DEF LiveRunOwnsClaim, Owns, RunStages, TypeOK
<1>5. ForceOwnsClaim'
  BY <1>2 DEF ForceOwnsClaim, Owns
<1>6. FinishingOwns'
  BY <1>2 DEF FinishingOwns, MuFree, Owns, TypeOK
<1>7. PendingRowHasWork'
  BY <1>2 DEF PendingRowHasWork, Claimed
<1>8. SweeperStages'
  BY <1>2 DEF SweeperStages
<1> QED
  BY <1>1, <1>3, <1>4, <1>5, <1>6, <1>7, <1>8

\* The worker steps that change nothing but the stage of the worker, and the
\* write that marks a row running.
LEMMA StageOwnership ==
  ASSUME Ownership, NEW w \in Workers,
         StopWorker(w) \/ EnterRunningWrite(w) \/ MarkRunning(w)
  PROVE  Ownership'
<1> USE DEF Ownership
<1>1. TypeOK'
  BY WorkerType DEF WorkerNext
<1>2. /\ UNCHANGED <<inflight, nextToken, ch, witem, cancelled, delayed, cpc, citem, cwait,
                     phase, backlog, dropped>>
      /\ \A v \in Workers : wpc'[v] # wpc[v] => wpc'[v] # "finishing" /\ Busy(v)' = Busy(v)
      /\ \A v \in Workers : wpc'[v] \in RunStages => wpc[v] \in RunStages
      /\ \A id \in Ids : row'[id].status = "pending" => row[id].status = "pending"
  <2>1. CASE StopWorker(w)
    BY <2>1 DEF StopWorker, callerVars, claimVars, Busy, RunStages, TypeOK
  <2>2. CASE EnterRunningWrite(w)
    BY <2>2 DEF EnterRunningWrite, callerVars, claimVars, Busy, RunStages, TypeOK
  <2>3. CASE MarkRunning(w)
    BY <2>3 DEF MarkRunning, MarkedRunning, callerVars, claimVars, Busy, RunStages, TypeOK
  <2> QED
    BY <2>1, <2>2, <2>3
<1>3. TokensGivenOut' /\ DistinctCarriers' /\ ClaimCarried'
  BY <1>2, SameCarriers DEF Busy, Carrying, TypeOK
<1>4. LiveRunOwnsClaim'
  BY <1>2 DEF LiveRunOwnsClaim, Owns
<1>5. ForceOwnsClaim'
  BY <1>2 DEF ForceOwnsClaim, Owns
<1>6. FinishingOwns'
  BY <1>2, ZenonT(30) DEF FinishingOwns, Owns, TypeOK, Items, Busy
<1>7. PendingRowHasWork'
  BY <1>2 DEF PendingRowHasWork, Claimed
<1>8. SweeperStages'
  BY <1>2 DEF SweeperStages
<1> QED
  BY <1>1, <1>3, <1>4, <1>5, <1>6, <1>7, <1>8

LEMMA SkipStaleItemOwnership ==
  ASSUME Ownership, NEW w \in Workers, SkipStaleItem(w)
  PROVE  Ownership'
<1> USE DEF Ownership
<1>1. TypeOK'
  BY WorkerType DEF WorkerNext
<1>2. /\ ~Owns(witem[w]) /\ Busy(w) /\ ~Busy(w)' /\ wpc'[w] \notin RunStages /\ MuFree
      /\ \A v \in Workers \ {w} : wpc'[v] = wpc[v] /\ witem'[v] = witem[v]
      /\ UNCHANGED <<row, inflight, nextToken, ch, cancelled, delayed, cpc, citem, cwait,
                     phase, backlog, dropped>>
  BY DEF SkipStaleItem, Busy, RunStages, callerVars, claimVars, TypeOK
<1>3. TokensGivenOut' /\ DistinctCarriers' /\ ClaimCarried'
  BY <1>2, RemovedCarriers DEF Busy, Carrying, Owns
<1>4. LiveRunOwnsClaim'
  BY <1>2 DEF LiveRunOwnsClaim, Owns
<1>5. ForceOwnsClaim'
  BY <1>2 DEF ForceOwnsClaim, Owns
<1>6. FinishingOwns'
  BY <1>2 DEF FinishingOwns, MuFree, RunStages
<1>7. PendingRowHasWork'
  BY <1>2 DEF PendingRowHasWork, Claimed
<1>8. SweeperStages'
  BY <1>2 DEF SweeperStages
<1> QED
  BY <1>1, <1>3, <1>4, <1>5, <1>6, <1>7, <1>8

\* What a receive takes from the channel, and what it leaves.
LEMMA HeadTail ==
  ASSUME TypeOK, ch # <<>>
  PROVE  /\ 1 \in DOMAIN ch /\ Head(ch) = ch[1] /\ Head(ch) \in Items
         /\ DOMAIN Tail(ch) \subseteq Nat
         /\ \A i \in DOMAIN Tail(ch) : /\ i + 1 \in DOMAIN ch /\ i + 1 # 1
                                       /\ Tail(ch)[i] = ch[i + 1]
         /\ \A j \in DOMAIN ch \ {1} : /\ j - 1 \in DOMAIN Tail(ch)
                                       /\ Tail(ch)[j - 1] = ch[j]
<1> ch \in Seq(Items)
  BY DEF TypeOK
<1> QED
  OBVIOUS

\* What a send adds to the channel.
LEMMA Appended ==
  ASSUME TypeOK, NEW it \in Items
  PROVE  LET last == Len(ch) + 1
         IN  /\ last \notin DOMAIN ch /\ DOMAIN ch \subseteq DOMAIN Append(ch, it)
             /\ DOMAIN Append(ch, it) = DOMAIN ch \cup {last}
             /\ Append(ch, it)[last] = it
             /\ \A i \in DOMAIN ch : Append(ch, it)[i] = ch[i]
<1> ch \in Seq(Items)
  BY DEF TypeOK
<1> QED
  OBVIOUS

LEMMA ReceiveOwnership ==
  ASSUME Ownership, NEW w \in Workers, Receive(w)
  PROVE  Ownership'
<1> USE DEF Ownership
<1>1. TypeOK'
  BY WorkerType DEF WorkerNext
<1>2. /\ wpc[w] = "recv" /\ ch # <<>> /\ ch' = Tail(ch)
      /\ wpc'[w] = "got" /\ witem'[w] = Head(ch)
      /\ \A v \in Workers \ {w} : wpc'[v] = wpc[v] /\ witem'[v] = witem[v]
      /\ UNCHANGED <<row, inflight, nextToken, cancelled, delayed, cpc, citem, cwait,
                     phase, backlog, dropped>>
  BY DEF Receive, callerVars, TypeOK
<1>3. /\ 1 \in DOMAIN ch /\ witem'[w] = ch[1]
      /\ \A i \in DOMAIN ch' : i + 1 \in DOMAIN ch /\ i + 1 # 1 /\ ch'[i] = ch[i + 1]
      /\ \A j \in DOMAIN ch \ {1} : j - 1 \in DOMAIN ch' /\ ch'[j - 1] = ch[j]
      /\ DOMAIN ch' \subseteq Nat
  BY <1>2, HeadTail
<1>4. TokensGivenOut'
  BY <1>2, <1>3 DEF TokensGivenOut, Busy, Carrying
<1>5. DistinctCarriers'
  <2>1. \A i, j \in DOMAIN ch' : ch'[i].token = ch'[j].token => i = j
    BY <1>3 DEF DistinctCarriers
  <2>2. \A i \in DOMAIN ch' : ch'[i].token # ch[1].token
    BY <1>3 DEF DistinctCarriers
  <2>3. \A v, x \in Workers : Busy(v)' /\ Busy(x)' /\ witem'[v].token = witem'[x].token => v = x
    BY <1>2, <1>3 DEF DistinctCarriers, Busy
  <2>4. \A v \in Workers, i \in DOMAIN ch' : Busy(v)' => witem'[v].token # ch'[i].token
    BY <1>2, <1>3, <2>2 DEF DistinctCarriers, Busy
  <2>5. \A v \in Workers, c \in Threads : Busy(v)' /\ Carrying(c)' => witem'[v].token # citem'[c].token
    BY <1>2, <1>3 DEF DistinctCarriers, Busy, Carrying
  <2>6. \A v \in Workers, d \in delayed' : Busy(v)' => witem'[v].token # d.token
    BY <1>2, <1>3 DEF DistinctCarriers, Busy
  <2>7. /\ \A c \in Threads, i \in DOMAIN ch' : Carrying(c)' => citem'[c].token # ch'[i].token
        /\ \A i \in DOMAIN ch', d \in delayed' : ch'[i].token # d.token
    BY <1>2, <1>3 DEF DistinctCarriers, Carrying
  <2> QED
    BY <1>2, <2>1, <2>3, <2>4, <2>5, <2>6, <2>7 DEF DistinctCarriers, Carrying
<1>6. ClaimCarried'
  <2> SUFFICES ASSUME NEW id \in Ids, NEW token, Carried(id, token)
               PROVE  Carried(id, token)'
    BY <1>2 DEF ClaimCarried, Claimed
  <2>1. CASE \E i \in DOMAIN ch : ch[i].id = id /\ ch[i].token = token
    <3> PICK i \in DOMAIN ch : ch[i].id = id /\ ch[i].token = token
      BY <2>1
    <3>1. CASE i = 1
      BY <1>2, <1>3, <3>1 DEF Carried, Busy
    <3>2. CASE i # 1
      BY <1>3, <3>2 DEF Carried
    <3> QED
      BY <3>1, <3>2
  <2>2. CASE ~\E i \in DOMAIN ch : ch[i].id = id /\ ch[i].token = token
    BY <1>2, <2>2 DEF Carried, Busy, Carrying
  <2> QED
    BY <2>1, <2>2
<1>7. LiveRunOwnsClaim'
  BY <1>2 DEF LiveRunOwnsClaim, Owns, RunStages
<1>8. ForceOwnsClaim'
  BY <1>2 DEF ForceOwnsClaim, Owns
<1>9. FinishingOwns'
  BY <1>2 DEF FinishingOwns, Owns
<1>10. PendingRowHasWork' /\ SweeperStages'
  BY <1>2 DEF PendingRowHasWork, Claimed, SweeperStages
<1> QED
  BY <1>1, <1>4, <1>5, <1>6, <1>7, <1>8, <1>9, <1>10

LEMMA ReceiveDrainedOwnership ==
  ASSUME Ownership, NEW w \in Workers, ReceiveDrained(w)
  PROVE  Ownership'
<1> USE DEF Ownership
<1>1. TypeOK'
  BY WorkerType DEF WorkerNext
<1>2. /\ wpc[w] = "recv" /\ ch # <<>> /\ ch' = Tail(ch) /\ MuFree
      /\ wpc' = [wpc EXCEPT ![w] = "stopped"]
      /\ inflight' = Released(Head(ch)) /\ dropped' = GivenUp(Head(ch))
      /\ UNCHANGED <<row, nextToken, witem, cancelled, delayed, cpc, citem, cwait,
                     phase, backlog>>
  BY DEF ReceiveDrained, callerVars
<1> DEFINE it == Head(ch)
<1>3. /\ 1 \in DOMAIN ch /\ it = ch[1] /\ it \in Items /\ it.id \in Ids /\ it.token # 0
      /\ \A i \in DOMAIN ch' : i + 1 \in DOMAIN ch /\ i + 1 # 1 /\ ch'[i] = ch[i + 1]
      /\ \A j \in DOMAIN ch \ {1} : j - 1 \in DOMAIN ch' /\ ch'[j - 1] = ch[j]
      /\ DOMAIN ch' \subseteq Nat
  <2>1. 1 \in DOMAIN ch /\ Head(ch) = ch[1] /\ Head(ch) \in Items
    BY <1>2, HeadTail
  <2>2. ch[1].token \in 1 .. nextToken
    BY <2>1 DEF TokensGivenOut
  <2>3. it.id \in Ids /\ it.token # 0
    BY <2>1, <2>2 DEF Items, TypeOK
  <2> QED
    BY <1>2, <2>1, <2>3, HeadTail
<1>4. /\ \A v \in Workers : Busy(v)' = Busy(v)
      /\ \A v \in Workers : wpc'[v] \in RunStages => wpc[v] \in RunStages /\ Busy(v)
      /\ \A v \in Workers : wpc'[v] # "finishing"
  BY <1>2 DEF Busy, RunStages, MuFree, TypeOK
<1>5. TokensGivenOut' /\ DistinctCarriers'
  BY <1>2, <1>3, <1>4, FewerCarriers DEF Carrying
<1>6. \A x \in Items : x.token # it.token /\ Owns(x) => inflight'[x.id] = inflight[x.id]
  BY <1>2, <1>3, ReleasedEffect DEF Owns, Items
<1>7. ClaimCarried'
  <2> SUFFICES ASSUME NEW id \in Ids, Claimed(id)'
               PROVE  Carried(id, inflight[id].token)'
    BY DEF ClaimCarried
  <2> DEFINE token == inflight[id].token
  <2>1. inflight'[id].token = token /\ Carried(id, token)
    BY <1>2, <1>3, <1>4, ReleasedEffect DEF Claimed, ClaimCarried
  <2>2. ~(it.id = id /\ it.token = token)
    BY <1>2, <1>3, <2>1, ReleasedEffect
  <2>3. CASE \E i \in DOMAIN ch : ch[i].id = id /\ ch[i].token = token
    <3> PICK i \in DOMAIN ch : ch[i].id = id /\ ch[i].token = token
      BY <2>3
    <3>1. i # 1
      BY <1>3, <2>2
    <3> QED
      BY <1>3, <2>1, <3>1 DEF Carried
  <2>4. CASE ~\E i \in DOMAIN ch : ch[i].id = id /\ ch[i].token = token
    BY <1>2, <1>4, <2>1, <2>4 DEF Carried, Carrying
  <2> QED
    BY <2>3, <2>4
<1>8. LiveRunOwnsClaim'
  <2> SUFFICES ASSUME NEW v \in Workers, wpc'[v] \in RunStages, v \notin cancelled
               PROVE  Owns(witem[v])' /\ inflight'[witem[v].id].done = v
    BY <1>2 DEF LiveRunOwnsClaim
  <2>1. Busy(v) /\ wpc[v] \in RunStages /\ witem[v] \in Items
    BY <1>4 DEF Busy, TypeOK
  <2>2. Owns(witem[v]) /\ inflight[witem[v].id].done = v /\ witem[v].token # it.token
    BY <1>3, <2>1 DEF LiveRunOwnsClaim, DistinctCarriers
  <2> QED
    BY <1>2, <1>6, <2>1, <2>2 DEF Owns
<1>9. ForceOwnsClaim'
  <2> SUFFICES ASSUME NEW c \in Callers, cpc[c] \in ForceStages
               PROVE  Owns(citem[c])'
    BY <1>2 DEF ForceOwnsClaim
  <2>1. citem[c] \in Items /\ citem[c].token # it.token /\ Owns(citem[c])
    BY <1>3 DEF ForceOwnsClaim, ForceStages, TypeOK, Threads, DistinctCarriers, Carrying
  <2> QED
    BY <1>2, <1>6, <2>1 DEF Owns
<1>10. FinishingOwns' /\ SweeperStages'
  BY <1>2, <1>4 DEF FinishingOwns, SweeperStages
<1>11. PendingRowHasWork'
  <2>1. \A id \in Ids : Claimed(id) => Claimed(id)' \/ id \in dropped'
    BY <1>2, <1>3, ReleasedEffect DEF Claimed, GivenUp
  <2>2. dropped \subseteq dropped'
    BY <1>2 DEF GivenUp
  <2> QED
    BY <1>2, <2>1, <2>2 DEF PendingRowHasWork
<1> QED
  BY <1>1, <1>5, <1>7, <1>8, <1>9, <1>10, <1>11

\* An item moves from a caller or a timer to the channel.
LEMMA SentCarriers ==
  ASSUME TypeOK, TokensGivenOut, DistinctCarriers, ClaimCarried,
         NEW it \in Items, it.token \in 1 .. nextToken,
         ch' = Append(ch, it), UNCHANGED <<wpc, witem, nextToken>>,
         delayed' \subseteq delayed,
         \A c \in Threads : Carrying(c)' => Carrying(c) /\ citem'[c] = citem[c],
         \A w \in Workers : Busy(w) => witem[w].token # it.token,
         \A i \in DOMAIN ch : ch[i].token # it.token,
         \A d \in delayed' : d.token # it.token,
         \A c \in Threads : Carrying(c)' => citem[c].token # it.token,
         \A d \in delayed \ delayed' : d.id = it.id /\ d.token = it.token,
         \A c \in Threads : Carrying(c) /\ ~Carrying(c)' => citem[c].id = it.id /\ citem[c].token = it.token,
         \A id \in Ids : inflight'[id].token = inflight[id].token
  PROVE  TokensGivenOut' /\ DistinctCarriers' /\ ClaimCarried'
<1> DEFINE last == Len(ch) + 1
<1>1. /\ last \notin DOMAIN ch /\ DOMAIN ch \subseteq DOMAIN ch'
      /\ DOMAIN ch' = DOMAIN ch \cup {last} /\ ch'[last] = it
      /\ \A i \in DOMAIN ch : ch'[i] = ch[i]
  BY Appended
<1> HIDE DEF last
<1>2. \A w \in Workers : Busy(w)' = Busy(w) /\ witem'[w] = witem[w]
  BY DEF Busy
<1>3. TokensGivenOut'
  BY <1>1, <1>2 DEF TokensGivenOut
<1>4. DistinctCarriers'
  <2>1. \A i, j \in DOMAIN ch' : ch'[i].token = ch'[j].token => i = j
    BY <1>1 DEF DistinctCarriers
  <2>2. /\ \A w \in Workers, i \in DOMAIN ch' : Busy(w)' => witem'[w].token # ch'[i].token
        /\ \A c \in Threads, i \in DOMAIN ch' : Carrying(c)' => citem'[c].token # ch'[i].token
        /\ \A i \in DOMAIN ch', d \in delayed' : ch'[i].token # d.token
    BY <1>1, <1>2 DEF DistinctCarriers
  <2> QED
    BY <1>2, <2>1, <2>2 DEF DistinctCarriers
<1>5. ClaimCarried'
  <2> SUFFICES ASSUME NEW id \in Ids, NEW token, Carried(id, token)
               PROVE  Carried(id, token)'
    BY DEF ClaimCarried, Claimed
  <2>1. CASE it.id = id /\ it.token = token
    BY <1>1, <2>1 DEF Carried
  <2>2. CASE ~(it.id = id /\ it.token = token)
    BY <1>1, <1>2, <2>2 DEF Carried
  <2> QED
    BY <2>1, <2>2
<1> QED
  BY <1>3, <1>4, <1>5

\* queueClaimed of an item that no other place holds: the item is in the
\* channel, or its claim is gone; no other claim changes.
LEMMA QueueOwnership ==
  ASSUME Ownership, NEW it \in Items, it.token \in 1 .. nextToken, QueueClaimed(it),
         UNCHANGED <<wpc, witem, cancelled>>,
         delayed' \subseteq delayed,
         \A c \in Threads : Carrying(c)' => Carrying(c) /\ citem'[c] = citem[c],
         \A w \in Workers : Busy(w) => witem[w].token # it.token,
         \A i \in DOMAIN ch : ch[i].token # it.token,
         \A d \in delayed' : d.token # it.token,
         \A c \in Threads : Carrying(c)' => citem[c].token # it.token,
         \A d \in delayed \ delayed' : d.id = it.id /\ d.token = it.token,
         \A c \in Threads : Carrying(c) /\ ~Carrying(c)' => citem[c].id = it.id /\ citem[c].token = it.token,
         \A c \in Callers : cpc'[c] \in ForceStages => cpc[c] \in ForceStages
  PROVE  /\ TokensGivenOut' /\ DistinctCarriers' /\ ClaimCarried'
         /\ LiveRunOwnsClaim' /\ ForceOwnsClaim' /\ FinishingOwns'
         /\ dropped \subseteq dropped'
         /\ \A id \in Ids : Claimed(id) => Claimed(id)' \/ id \in dropped'
<1> USE DEF Ownership
<1>1. MuFree /\ UNCHANGED nextToken
  BY DEF QueueClaimed
<1>2. it.id \in Ids /\ it.token # 0
  BY DEF Items, TypeOK
<1>3. FinishingOwns'
  BY <1>1 DEF FinishingOwns, MuFree
<1>4. CASE ~Owns(it)
  <2>1. UNCHANGED <<ch, inflight, dropped>>
    BY <1>4 DEF QueueClaimed
  <2>2. TokensGivenOut' /\ DistinctCarriers' /\ ClaimCarried'
    BY <1>1, <1>4, <2>1, RemovedCarriers DEF Busy, Owns
  <2>3. LiveRunOwnsClaim' /\ ForceOwnsClaim'
    BY <2>1 DEF LiveRunOwnsClaim, ForceOwnsClaim, Owns, Threads, Carrying, ForceStages
  <2> QED
    BY <1>3, <2>1, <2>2, <2>3 DEF Claimed
<1>5. CASE Owns(it) /\ ChannelHasRoom
  <2>1. ch' = Append(ch, it) /\ UNCHANGED <<inflight, dropped>>
    BY <1>5 DEF QueueClaimed
  <2>2. TokensGivenOut' /\ DistinctCarriers' /\ ClaimCarried'
    BY <1>1, <2>1, SentCarriers
  <2>3. LiveRunOwnsClaim' /\ ForceOwnsClaim'
    BY <2>1 DEF LiveRunOwnsClaim, ForceOwnsClaim, Owns, Threads, Carrying, ForceStages
  <2> QED
    BY <1>3, <2>1, <2>2, <2>3 DEF Claimed
<1>6. CASE Owns(it) /\ ~ChannelHasRoom
  <2>1. /\ inflight' = Released(it) /\ dropped' = dropped \cup {it.id} /\ ch' = ch
        /\ inflight' = [inflight EXCEPT ![it.id] = NoClaim]
    BY <1>6, ReleasedEffect DEF QueueClaimed, GivenUp
  <2>2. inflight'[it.id].token # it.token
        /\ \A id \in Ids : Claimed(id)' => inflight'[id].token = inflight[id].token
    BY <1>2, <2>1 DEF Claimed, NoClaim, TypeOK
  <2>3. TokensGivenOut' /\ DistinctCarriers' /\ ClaimCarried'
    BY <1>1, <2>1, <2>2, RemovedCarriers DEF Busy
  <2>4. \A x \in Items : x.token # it.token /\ Owns(x) => inflight'[x.id] = inflight[x.id]
    BY <1>6, <2>1 DEF Owns, Items, TypeOK
  <2>5. LiveRunOwnsClaim'
    BY <2>4 DEF LiveRunOwnsClaim, Owns, Busy, RunStages, TypeOK
  <2>6. ForceOwnsClaim'
    <3> SUFFICES ASSUME NEW c \in Callers, cpc'[c] \in ForceStages
                 PROVE  Owns(citem[c])'
      BY DEF ForceOwnsClaim
    <3>1. /\ c \in Threads /\ Carrying(c)' /\ citem'[c] = citem[c] /\ citem[c] \in Items
          /\ citem[c].token # it.token /\ Owns(citem[c])
      BY DEF ForceOwnsClaim, Threads, Carrying, ForceStages, TypeOK
    <3> QED
      BY <2>4, <3>1 DEF Owns
  <2>7. \A id \in Ids : Claimed(id) => Claimed(id)' \/ id \in dropped'
    BY <2>1 DEF Claimed, TypeOK
  <2> QED
    BY <1>3, <2>1, <2>3, <2>5, <2>6, <2>7
<1> QED
  BY <1>4, <1>5, <1>6

LEMMA FireDelayOwnership ==
  ASSUME Ownership, NEW it \in delayed, FireDelay(it)
  PROVE  Ownership'
<1> USE DEF Ownership
<1>1. TypeOK'
  BY FireDelayType
<1>2. /\ delayed' = delayed \ {it} /\ QueueClaimed(it)
      /\ UNCHANGED <<row, wpc, witem, cancelled, cpc, citem, cwait, phase, backlog>>
  BY DEF FireDelay, workerVars, callerVars
<1>3. it \in Items /\ it.token \in 1 .. nextToken
  BY DEF TypeOK, TokensGivenOut
<1>4. /\ \A w \in Workers : Busy(w) => witem[w].token # it.token
      /\ \A i \in DOMAIN ch : ch[i].token # it.token
      /\ \A d \in delayed' : d.token # it.token
      /\ \A c \in Threads : Carrying(c) => citem[c].token # it.token
  BY <1>2 DEF DistinctCarriers
<1>5. /\ TokensGivenOut' /\ DistinctCarriers' /\ ClaimCarried'
      /\ LiveRunOwnsClaim' /\ ForceOwnsClaim' /\ FinishingOwns'
      /\ dropped \subseteq dropped'
      /\ \A id \in Ids : Claimed(id) => Claimed(id)' \/ id \in dropped'
  BY <1>2, <1>3, <1>4, QueueOwnership DEF Carrying
<1>6. PendingRowHasWork' /\ SweeperStages'
  BY <1>2, <1>5 DEF PendingRowHasWork, SweeperStages
<1> QED
  BY <1>1, <1>5, <1>6

LEMMA EnqueueOwnership ==
  ASSUME Ownership, NEW c \in Callers, Enqueue(c)
  PROVE  Ownership'
<1> USE DEF Ownership
<1>1. TypeOK'
  BY CallerType DEF CallerNext
<1> DEFINE it == citem[c]
<1>2. /\ cpc[c] \in {"queue", "enqueue"} /\ QueueClaimed(it)
      /\ cpc' = [cpc EXCEPT ![c] = "idle"] /\ citem' = [citem EXCEPT ![c] = NoItem]
      /\ UNCHANGED <<row, wpc, witem, cancelled, delayed, cwait, phase, backlog>>
  BY DEF Enqueue, workerVars
<1>3. c \in Threads /\ Carrying(c) /\ ~Carrying(c)' /\ it \in Items /\ it.token \in 1 .. nextToken
  BY <1>2 DEF Threads, Carrying, TypeOK, TokensGivenOut
<1>4. /\ \A w \in Workers : Busy(w) => witem[w].token # it.token
      /\ \A i \in DOMAIN ch : ch[i].token # it.token
      /\ \A d \in delayed' : d.token # it.token
      /\ \A d \in Threads : Carrying(d)' => /\ Carrying(d) /\ citem'[d] = citem[d]
                                            /\ citem[d].token # it.token
      /\ \A d \in Threads : Carrying(d) /\ ~Carrying(d)' => d = c
      /\ \A d \in Callers : cpc'[d] \in ForceStages => cpc[d] \in ForceStages
  BY <1>2, <1>3 DEF DistinctCarriers, Carrying, ForceStages, TypeOK, Threads
<1>5. /\ TokensGivenOut' /\ DistinctCarriers' /\ ClaimCarried'
      /\ LiveRunOwnsClaim' /\ ForceOwnsClaim' /\ FinishingOwns'
      /\ dropped \subseteq dropped'
      /\ \A id \in Ids : Claimed(id) => Claimed(id)' \/ id \in dropped'
  BY <1>2, <1>3, <1>4, QueueOwnership
<1>6. PendingRowHasWork'
  BY <1>2, <1>5 DEF PendingRowHasWork, TypeOK, Threads
<1>7. SweeperStages'
  BY <1>2, DispatcherAssumption DEF SweeperStages, TypeOK, Threads
<1> QED
  BY <1>1, <1>5, <1>6, <1>7

\* A claim on a free id, or one that replaces the claim of a forced submit,
\* puts an item with a new token into the hands of one caller.
LEMMA ClaimCarriers ==
  ASSUME Ownership, NEW c \in Threads, NEW id \in Ids, NEW done, Claim(id, done),
         ~Carrying(c), Carrying(c)', citem'[c].id = id, citem'[c].token = nextToken + 1,
         \A d \in Threads \ {c} : Carrying(d)' = Carrying(d) /\ citem'[d] = citem[d],
         UNCHANGED <<ch, wpc, witem, delayed>>
  PROVE  TokensGivenOut' /\ DistinctCarriers' /\ ClaimCarried'
<1> USE DEF Ownership
<1>1. /\ nextToken' = nextToken + 1 /\ nextToken \in Nat
      /\ \A i \in Ids \ {id} : inflight'[i] = inflight[i]
      /\ inflight'[id].token = nextToken + 1
  BY DEF Claim, TypeOK, Claims
<1>2. \A w \in Workers : Busy(w)' = Busy(w) /\ witem'[w] = witem[w]
  BY DEF Busy
<1>3. \A n \in 1 .. nextToken : n \in 1 .. nextToken' /\ n # nextToken + 1
  BY <1>1
<1>4. TokensGivenOut'
  BY <1>1, <1>2, <1>3 DEF TokensGivenOut
<1>5. DistinctCarriers'
  BY <1>2, <1>3 DEF TokensGivenOut, DistinctCarriers
<1>6. ClaimCarried'
  <2> SUFFICES ASSUME NEW i \in Ids, Claimed(i)'
               PROVE  Carried(i, inflight[i].token)'
    BY DEF ClaimCarried
  <2>1. CASE i = id
    BY <1>1, <2>1 DEF Carried
  <2>2. CASE i # id
    <3>1. Carried(i, inflight[i].token) /\ inflight'[i] = inflight[i]
      BY <1>1, <2>2 DEF ClaimCarried, Claimed
    <3> QED
      BY <1>2, <3>1 DEF Carried
  <2> QED
    BY <2>1, <2>2
<1> QED
  BY <1>4, <1>5, <1>6

\* The callers' steps before a claim: the row is reset, the duplicate dropped.
LEMMA ResetRowOwnership ==
  ASSUME Ownership, NEW c \in Callers, NEW id \in Ids, ResetRow(c, id)
  PROVE  Ownership'
<1> USE DEF Ownership
<1>1. TypeOK'
  BY CallerType DEF CallerNext
<1>2. /\ cpc[c] = "idle" /\ cpc' = [cpc EXCEPT ![c] = "submit"]
      /\ citem'[c].id = id /\ \A d \in Threads \ {c} : citem'[d] = citem[d]
      /\ row' = [row EXCEPT ![id] = Pending(0)]
      /\ UNCHANGED <<inflight, nextToken, ch, wpc, witem, cancelled, delayed, cwait,
                     phase, backlog, dropped>>
  BY DEF ResetRow, Reset, claimVars, workerVars, TypeOK, Threads
<1>3. c \in Threads /\ Sweeper \in Threads /\ c # Sweeper
  BY DispatcherAssumption DEF Threads
<1>4. TokensGivenOut' /\ DistinctCarriers' /\ ClaimCarried'
  BY <1>2, <1>3, SameCarriers DEF Busy, Carrying, TypeOK
<1>5. LiveRunOwnsClaim'
  BY <1>2 DEF LiveRunOwnsClaim, Owns
<1>6. ForceOwnsClaim'
  BY <1>2, <1>3 DEF ForceOwnsClaim, Owns, ForceStages, TypeOK, Threads
<1>7. \A i \in Ids : row'[i].status = "pending" =>
        i = id \/ row[i].status = "pending"
  BY <1>2 DEF TypeOK
<1>8. cpc'[c] = "submit" /\ \A d \in Callers : cpc[d] = "submit" => cpc'[d] = "submit" /\ citem'[d] = citem[d]
  BY <1>2, <1>3 DEF TypeOK, Threads
<1>9. FinishingOwns'
  <2> SUFFICES ASSUME NEW w \in Workers, wpc[w] = "finishing"
               PROVE  /\ Owns(witem[w])'
                      /\ row'[witem[w].id].status = "pending" =>
                           \/ witem[w].id \in dropped
                           \/ \E d \in Callers : cpc'[d] = "submit" /\ citem'[d].id = witem[w].id
    BY <1>2 DEF FinishingOwns
  <2>1. witem[w].id \in Ids
    BY DEF TypeOK, Items
  <2> QED
    BY <1>2, <1>7, <1>8, <2>1 DEF FinishingOwns, Owns
<1>10. PendingRowHasWork'
  BY <1>2, <1>7, <1>8 DEF PendingRowHasWork, Claimed
<1>11. SweeperStages'
  BY <1>2, <1>3 DEF SweeperStages, TypeOK, Threads
<1> QED
  BY <1>1, <1>4, <1>5, <1>6, <1>9, <1>10, <1>11

LEMMA ResetRowFailsOwnership ==
  ASSUME Ownership, NEW c \in Callers, NEW id \in Ids, ResetRowFails(c, id)
  PROVE  Ownership'
<1> USE DEF Ownership
<1>1. TypeOK'
  BY CallerType DEF CallerNext
<1>2. /\ row' = Reset(id) /\ dropped' = dropped \cup {id}
      /\ UNCHANGED <<inflight, nextToken, ch, wpc, witem, cancelled, delayed, cpc, citem,
                     phase, backlog>>
  BY DEF ResetRowFails, claimVars, workerVars, callerVars
<1>3. TokensGivenOut' /\ DistinctCarriers' /\ ClaimCarried'
  BY <1>2, SameCarriers DEF Busy, Carrying
<1>4. LiveRunOwnsClaim' /\ ForceOwnsClaim' /\ SweeperStages'
  BY <1>2 DEF LiveRunOwnsClaim, ForceOwnsClaim, Owns, SweeperStages
<1>5. \A i \in Ids : row'[i].status = "pending" => row[i].status = "pending" \/ i \in dropped'
  BY <1>2 DEF Reset, TypeOK
<1>6. FinishingOwns'
  <2> SUFFICES ASSUME NEW w \in Workers, wpc[w] = "finishing"
               PROVE  /\ Owns(witem[w])'
                      /\ row'[witem[w].id].status = "pending" =>
                           \/ witem[w].id \in dropped'
                           \/ \E d \in Callers : cpc[d] = "submit" /\ citem[d].id = witem[w].id
    BY <1>2 DEF FinishingOwns
  <2>1. witem[w].id \in Ids
    BY DEF TypeOK, Items
  <2> QED
    BY <1>2, <1>5, <2>1 DEF FinishingOwns, Owns
<1>7. PendingRowHasWork'
  BY <1>2, <1>5 DEF PendingRowHasWork, Claimed
<1> QED
  BY <1>1, <1>3, <1>4, <1>6, <1>7

LEMMA SubmitDuplicateOwnership ==
  ASSUME Ownership, NEW c \in Callers, SubmitDuplicate(c)
  PROVE  Ownership'
<1> USE DEF Ownership
<1>1. TypeOK'
  BY CallerType DEF CallerNext
<1>2. /\ cpc[c] = "submit" /\ cpc' = [cpc EXCEPT ![c] = "idle"] /\ MuFree
      /\ Claimed(citem[c].id)
      /\ \A d \in Threads \ {c} : citem'[d] = citem[d]
      /\ UNCHANGED <<row, inflight, nextToken, ch, wpc, witem, cancelled, delayed, cwait,
                     phase, backlog, dropped>>
  BY DEF SubmitDuplicate, claimVars, workerVars, TypeOK, Threads
<1>3. c \in Threads /\ Sweeper \in Threads /\ c # Sweeper
  BY DispatcherAssumption DEF Threads
<1>4. TokensGivenOut' /\ DistinctCarriers' /\ ClaimCarried'
  BY <1>2, <1>3, SameCarriers DEF Busy, Carrying, TypeOK
<1>5. LiveRunOwnsClaim'
  BY <1>2 DEF LiveRunOwnsClaim, Owns
<1>6. ForceOwnsClaim'
  BY <1>2, <1>3 DEF ForceOwnsClaim, Owns, ForceStages, TypeOK, Threads
<1>7. FinishingOwns'
  BY <1>2 DEF FinishingOwns, MuFree
<1>8. PendingRowHasWork'
  BY <1>2, <1>3 DEF PendingRowHasWork, Claimed, TypeOK, Threads
<1>9. SweeperStages'
  BY <1>2, <1>3 DEF SweeperStages, TypeOK, Threads
<1> QED
  BY <1>1, <1>4, <1>5, <1>6, <1>7, <1>8, <1>9

\* A claim on a free id leaves the claims of every run and forced submit.
LEMMA FreshClaim ==
  ASSUME Ownership, NEW c \in Threads, NEW id \in Ids, Claim(id, NoRun), ~Claimed(id), MuFree,
         ~Carrying(c), Carrying(c)', citem'[c].id = id, citem'[c].token = nextToken + 1,
         \A d \in Threads \ {c} : cpc'[d] = cpc[d] /\ citem'[d] = citem[d],
         cpc'[c] \notin ForceStages,
         UNCHANGED <<ch, wpc, witem, cancelled, delayed>>
  PROVE  /\ TokensGivenOut' /\ DistinctCarriers' /\ ClaimCarried'
         /\ LiveRunOwnsClaim' /\ ForceOwnsClaim' /\ FinishingOwns'
         /\ Claimed(id)' /\ \A i \in Ids : Claimed(i) => Claimed(i)'
         /\ dropped' = dropped \ {id}
<1> USE DEF Ownership
<1>1. TokensGivenOut' /\ DistinctCarriers' /\ ClaimCarried'
  BY ClaimCarriers DEF Carrying
<1>2. /\ nextToken \in Nat /\ inflight \in [Ids -> Claims] /\ dropped' = dropped \ {id}
      /\ inflight' = [inflight EXCEPT ![id] = [token |-> nextToken + 1, done |-> NoRun]]
  BY DEF Claim, TypeOK
<1>3. /\ \A i \in Ids \ {id} : inflight'[i] = inflight[i]
      /\ inflight'[id].token = nextToken + 1 /\ inflight[id].token = 0
  BY <1>2 DEF Claimed
<1>4. Claimed(id)' /\ \A i \in Ids : Claimed(i) => Claimed(i)'
  BY <1>2, <1>3 DEF Claimed
<1>5. \A it \in Items : Owns(it) /\ it.token # 0 => inflight'[it.id] = inflight[it.id]
  BY <1>3 DEF Owns, Items
<1>6. LiveRunOwnsClaim'
  <2> SUFFICES ASSUME NEW v \in Workers, wpc[v] \in RunStages, v \notin cancelled
               PROVE  Owns(witem[v])' /\ inflight'[witem[v].id].done = v
    BY DEF LiveRunOwnsClaim
  <2>1. /\ witem[v] \in Items /\ witem[v].token # 0
        /\ Owns(witem[v]) /\ inflight[witem[v].id].done = v
    BY DEF LiveRunOwnsClaim, TokensGivenOut, Busy, RunStages, TypeOK
  <2> QED
    BY <1>5, <2>1 DEF Owns
<1>7. ForceOwnsClaim'
  <2> SUFFICES ASSUME NEW d \in Callers, cpc'[d] \in ForceStages
               PROVE  Owns(citem[d])'
    BY DEF ForceOwnsClaim
  <2>1. d # c /\ d \in Threads /\ cpc[d] \in ForceStages /\ citem'[d] = citem[d]
    BY DEF Threads
  <2>2. citem[d] \in Items /\ citem[d].token # 0 /\ Owns(citem[d])
    BY <2>1 DEF ForceOwnsClaim, TokensGivenOut, Carrying, ForceStages, TypeOK
  <2> QED
    BY <1>5, <2>1, <2>2 DEF Owns
<1>8. FinishingOwns'
  BY DEF FinishingOwns, MuFree
<1> QED
  BY <1>1, <1>2, <1>4, <1>6, <1>7, <1>8

LEMMA SubmitClaimOwnership ==
  ASSUME Ownership, NEW c \in Callers, SubmitClaim(c)
  PROVE  Ownership'
<1> USE DEF Ownership
<1>1. TypeOK'
  BY CallerType DEF CallerNext
<1> DEFINE id == citem[c].id
<1>2. /\ cpc[c] = "submit" /\ cpc' = [cpc EXCEPT ![c] = "queue"] /\ MuFree
      /\ ~Claimed(id) /\ Claim(id, NoRun)
      /\ citem' = [citem EXCEPT ![c] = Stamped(citem[c])]
      /\ UNCHANGED <<row, ch, wpc, witem, cancelled, delayed, cwait, phase, backlog>>
  BY DEF SubmitClaim, workerVars
<1>3. c \in Threads /\ Sweeper \in Threads /\ c # Sweeper /\ citem[c] \in Items /\ id \in Ids
  BY <1>2, DispatcherAssumption DEF Threads, TypeOK, Items
<1>4. Stamped(citem[c]).id = id /\ Stamped(citem[c]).token = nextToken + 1
  BY <1>3 DEF Stamped, Items, TypeOK
<1>5. /\ citem'[c] = Stamped(citem[c]) /\ cpc'[c] = "queue"
      /\ \A d \in Threads \ {c} : cpc'[d] = cpc[d] /\ citem'[d] = citem[d]
  BY <1>2, <1>3 DEF TypeOK
<1>6. ~Carrying(c) /\ Carrying(c)' /\ cpc'[c] \notin ForceStages
  BY <1>2, <1>5 DEF Carrying, ForceStages
<1>7. /\ TokensGivenOut' /\ DistinctCarriers' /\ ClaimCarried'
      /\ LiveRunOwnsClaim' /\ ForceOwnsClaim' /\ FinishingOwns'
      /\ Claimed(id)' /\ \A i \in Ids : Claimed(i) => Claimed(i)'
      /\ dropped' = dropped \ {id}
  BY <1>2, <1>3, <1>4, <1>5, <1>6, FreshClaim
<1>8. PendingRowHasWork'
  <2>1. \A d \in Callers : cpc[d] = "submit" /\ citem[d].id # id => cpc'[d] = "submit" /\ citem'[d] = citem[d]
    BY <1>5 DEF Threads
  <2> SUFFICES ASSUME NEW i \in Ids, row[i].status = "pending", i # id
               PROVE  \/ Claimed(i)' \/ i \in dropped'
                      \/ \E d \in Callers : cpc'[d] = "submit" /\ citem'[d].id = i
                      \/ \E it \in backlog : it.id = i
    BY <1>2, <1>4, <1>5, <1>7 DEF PendingRowHasWork
  <2> QED
    BY <1>7, <2>1 DEF PendingRowHasWork
<1>9. SweeperStages'
  BY <1>2, <1>3, <1>5 DEF SweeperStages
<1> QED
  BY <1>1, <1>7, <1>8, <1>9

LEMMA SweepClaimOwnership ==
  ASSUME Ownership, NEW it \in backlog, SweepClaim(it)
  PROVE  Ownership'
<1> USE DEF Ownership
<1>1. TypeOK'
  BY SweepType DEF SweepNext
<1>2. /\ cpc[Sweeper] = "idle" /\ cpc' = [cpc EXCEPT ![Sweeper] = "send"] /\ MuFree
      /\ ~Claimed(it.id) /\ Claim(it.id, NoRun) /\ phase = "sweep"
      /\ citem' = [citem EXCEPT ![Sweeper] = Stamped(it)]
      /\ backlog' = backlog \ {it}
      /\ UNCHANGED <<row, ch, wpc, witem, cancelled, delayed, cwait, phase>>
  BY DEF SweepClaim, workerVars
<1>3. Sweeper \in Threads /\ Sweeper \notin Callers /\ it \in Items /\ it.id \in Ids
  BY DispatcherAssumption DEF Threads, TypeOK, Items
<1>4. Stamped(it).id = it.id /\ Stamped(it).token = nextToken + 1
  BY <1>3 DEF Stamped, Items, TypeOK
<1>5. /\ citem'[Sweeper] = Stamped(it) /\ cpc'[Sweeper] = "send"
      /\ \A d \in Threads \ {Sweeper} : cpc'[d] = cpc[d] /\ citem'[d] = citem[d]
  BY <1>2, <1>3 DEF TypeOK
<1>6. ~Carrying(Sweeper) /\ Carrying(Sweeper)' /\ cpc'[Sweeper] \notin ForceStages
  BY <1>2, <1>5 DEF Carrying, ForceStages
<1>7. /\ TokensGivenOut' /\ DistinctCarriers' /\ ClaimCarried'
      /\ LiveRunOwnsClaim' /\ ForceOwnsClaim' /\ FinishingOwns'
      /\ Claimed(it.id)' /\ \A i \in Ids : Claimed(i) => Claimed(i)'
      /\ dropped' = dropped \ {it.id}
  BY <1>2, <1>3, <1>4, <1>5, <1>6, FreshClaim
<1>8. PendingRowHasWork'
  <2>1. \A d \in Callers : cpc'[d] = cpc[d] /\ citem'[d] = citem[d]
    BY <1>3, <1>5 DEF Threads
  <2> SUFFICES ASSUME NEW i \in Ids, row[i].status = "pending", i # it.id
               PROVE  \/ Claimed(i)' \/ i \in dropped'
                      \/ \E d \in Callers : cpc'[d] = "submit" /\ citem'[d].id = i
                      \/ \E x \in backlog' : x.id = i
    BY <1>2, <1>7 DEF PendingRowHasWork
  <2> QED
    BY <1>2, <1>7, <2>1 DEF PendingRowHasWork
<1>9. SweeperStages'
  BY <1>2, <1>3, <1>5 DEF SweeperStages, Threads
<1> QED
  BY <1>1, <1>7, <1>8, <1>9

\* A forced claim: the run it cancels is the one the old claim referred to,
\* and forceMu keeps every other forced submit out.
LEMMA ForceClaimOwnership ==
  ASSUME Ownership, NEW c \in Callers, NEW id \in Ids, ForceClaim(c, id)
  PROVE  Ownership'
<1> USE DEF Ownership
<1>1. TypeOK'
  BY CallerType DEF CallerNext
<1> DEFINE done == inflight[id].done
<1>2. /\ cpc[c] = "idle" /\ ForceMuFree /\ MuFree /\ Claim(id, done)
      /\ cancelled' = cancelled \cup ({done} \cap Workers)
      /\ cpc' = [cpc EXCEPT ![c] = IF done = NoRun THEN "before" ELSE "await"]
      /\ citem' = [citem EXCEPT ![c] = [id |-> id, attempt |-> 0, token |-> nextToken + 1]]
      /\ UNCHANGED <<row, ch, wpc, witem, delayed, phase, backlog>>
  BY DEF ForceClaim
<1>3. c \in Threads /\ Sweeper \in Threads /\ c # Sweeper
  BY DispatcherAssumption DEF Threads
<1>4. /\ citem'[c].id = id /\ citem'[c].token = nextToken + 1
      /\ cpc'[c] \in {"before", "await"}
      /\ \A d \in Threads \ {c} : cpc'[d] = cpc[d] /\ citem'[d] = citem[d]
  BY <1>2, <1>3 DEF TypeOK
<1>5. ~Carrying(c) /\ Carrying(c)'
  BY <1>2, <1>4 DEF Carrying
<1>6. TokensGivenOut' /\ DistinctCarriers' /\ ClaimCarried'
  BY <1>2, <1>3, <1>4, <1>5, ClaimCarriers DEF Carrying
<1>7. /\ inflight'[id].token = nextToken + 1 /\ nextToken \in Nat
      /\ \A i \in Ids \ {id} : inflight'[i] = inflight[i]
      /\ dropped' = dropped \ {id}
  BY <1>2 DEF Claim, TypeOK
<1>8. LiveRunOwnsClaim'
  <2> SUFFICES ASSUME NEW v \in Workers, wpc[v] \in RunStages, v \notin cancelled'
               PROVE  Owns(witem[v])' /\ inflight'[witem[v].id].done = v
    BY <1>2 DEF LiveRunOwnsClaim
  <2>1. /\ witem[v] \in Items /\ witem[v].id \in Ids /\ v \notin cancelled
        /\ Owns(witem[v]) /\ inflight[witem[v].id].done = v
    BY <1>2 DEF LiveRunOwnsClaim, Busy, RunStages, TypeOK, Items
  <2>2. witem[v].id # id
    BY <1>2, <2>1
  <2> QED
    BY <1>2, <1>7, <2>1, <2>2 DEF Owns
<1>9. ForceOwnsClaim'
  <2> SUFFICES ASSUME NEW d \in Callers, cpc'[d] \in ForceStages
               PROVE  Owns(citem[d])'
    BY DEF ForceOwnsClaim
  <2>1. d = c
    BY <1>2, <1>4 DEF ForceMuFree, Threads
  <2> QED
    BY <1>4, <1>7, <2>1 DEF Owns
<1>10. FinishingOwns'
  BY <1>2 DEF FinishingOwns, MuFree
<1>11. PendingRowHasWork'
  <2>1. \A d \in Callers : cpc[d] = "submit" => cpc'[d] = "submit" /\ citem'[d] = citem[d]
    BY <1>2, <1>4 DEF Threads
  <2>2. \A i \in Ids : i # id /\ Claimed(i) => Claimed(i)'
    BY <1>7 DEF Claimed
  <2>3. Claimed(id)'
    BY <1>7 DEF Claimed
  <2> SUFFICES ASSUME NEW i \in Ids, row[i].status = "pending", i # id
               PROVE  \/ Claimed(i)' \/ i \in dropped'
                      \/ \E d \in Callers : cpc'[d] = "submit" /\ citem'[d].id = i
                      \/ \E it \in backlog : it.id = i
    BY <1>2, <2>3 DEF PendingRowHasWork
  <2> QED
    BY <1>7, <2>1, <2>2 DEF PendingRowHasWork
<1>12. SweeperStages'
  BY <1>2, <1>3, <1>4 DEF SweeperStages
<1> QED
  BY <1>1, <1>6, <1>8, <1>9, <1>10, <1>11, <1>12

\* The end of the wait for a stale handler moves no item.
LEMMA AwaitOwnership ==
  ASSUME Ownership, NEW c \in Callers, AwaitDrained(c) \/ AwaitTimeout(c)
  PROVE  Ownership'
<1> USE DEF Ownership
<1>1. TypeOK'
  BY CallerType DEF CallerNext
<1>2. /\ cpc[c] = "await" /\ cpc' = [cpc EXCEPT ![c] = "before"]
      /\ UNCHANGED <<row, inflight, nextToken, ch, wpc, witem, cancelled, delayed, citem,
                     phase, backlog, dropped>>
  BY DEF AwaitDrained, AwaitTimeout, claimVars, workerVars
<1>3. c \in Threads /\ Sweeper \in Threads /\ c # Sweeper
  BY DispatcherAssumption DEF Threads
<1>4. cpc'[c] = "before" /\ \A d \in Threads \ {c} : cpc'[d] = cpc[d]
  BY <1>2, <1>3 DEF TypeOK
<1>5. TokensGivenOut' /\ DistinctCarriers' /\ ClaimCarried'
  BY <1>2, <1>3, <1>4, SameCarriers DEF Busy, Carrying
<1>6. LiveRunOwnsClaim'
  BY <1>2 DEF LiveRunOwnsClaim, Owns
<1>7. ForceOwnsClaim'
  BY <1>2, <1>4 DEF ForceOwnsClaim, Owns, ForceStages, Threads
<1>8. \A d \in Callers : cpc[d] = "submit" => cpc'[d] = "submit"
  BY <1>2, <1>4 DEF Threads
<1>9. FinishingOwns'
  BY <1>2, <1>8 DEF FinishingOwns, Owns
<1>10. PendingRowHasWork'
  BY <1>2, <1>8 DEF PendingRowHasWork, Claimed
<1>11. SweeperStages'
  BY <1>2, <1>3, <1>4 DEF SweeperStages
<1> QED
  BY <1>1, <1>5, <1>6, <1>7, <1>9, <1>10, <1>11

\* The row a forced submit resets is claimed by it, and by no run that ends.
LEMMA BeforeQueueOwnership ==
  ASSUME Ownership, NEW c \in Callers, BeforeQueue(c)
  PROVE  Ownership'
<1> USE DEF Ownership
<1>1. TypeOK'
  BY CallerType DEF CallerNext
<1>2. /\ cpc[c] = "before" /\ cpc' = [cpc EXCEPT ![c] = "enqueue"]
      /\ row' = [row EXCEPT ![citem[c].id] = Pending(0)]
      /\ UNCHANGED <<inflight, nextToken, ch, wpc, witem, cancelled, delayed, citem,
                     phase, backlog, dropped>>
  BY DEF BeforeQueue, Reset, claimVars, workerVars
<1>3. c \in Threads /\ Sweeper \in Threads /\ c # Sweeper /\ Carrying(c)
  BY <1>2, DispatcherAssumption DEF Threads, Carrying
<1>4. cpc'[c] = "enqueue" /\ \A d \in Threads \ {c} : cpc'[d] = cpc[d]
  BY <1>2, <1>3 DEF TypeOK
<1>5. citem[c] \in Items /\ citem[c].id \in Ids /\ citem[c].token # 0 /\ Owns(citem[c])
  BY <1>2, <1>3 DEF ForceOwnsClaim, ForceStages, TokensGivenOut, TypeOK, Items
<1>6. TokensGivenOut' /\ DistinctCarriers' /\ ClaimCarried'
  BY <1>2, <1>3, <1>4, SameCarriers DEF Busy, Carrying
<1>7. LiveRunOwnsClaim'
  BY <1>2 DEF LiveRunOwnsClaim, Owns
<1>8. ForceOwnsClaim'
  BY <1>2, <1>4 DEF ForceOwnsClaim, Owns, ForceStages, Threads
<1>9. \A d \in Callers : cpc[d] = "submit" => cpc'[d] = "submit"
  BY <1>2, <1>4 DEF Threads
<1>10. \A i \in Ids \ {citem[c].id} : row'[i] = row[i]
  BY <1>2 DEF TypeOK
<1>11. FinishingOwns'
  <2> SUFFICES ASSUME NEW w \in Workers, wpc[w] = "finishing"
               PROVE  /\ Owns(witem[w])'
                      /\ row'[witem[w].id].status = "pending" =>
                           \/ witem[w].id \in dropped
                           \/ \E d \in Callers : cpc'[d] = "submit" /\ citem[d].id = witem[w].id
    BY <1>2 DEF FinishingOwns
  <2>1. Busy(w) /\ witem[w] \in Items /\ witem[w].id \in Ids /\ Owns(witem[w])
    BY DEF Busy, TypeOK, Items, FinishingOwns
  <2>2. witem[w].id # citem[c].id
    BY <1>3, <1>5, <2>1 DEF DistinctCarriers, Owns
  <2> QED
    BY <1>2, <1>9, <1>10, <2>1, <2>2 DEF FinishingOwns, Owns
<1>12. Claimed(citem[c].id)
  BY <1>5 DEF Claimed, Owns
<1>13. PendingRowHasWork'
  BY <1>2, <1>9, <1>10, <1>12 DEF PendingRowHasWork, Claimed
<1>14. SweeperStages'
  BY <1>2, <1>3, <1>4 DEF SweeperStages
<1> QED
  BY <1>1, <1>6, <1>7, <1>8, <1>11, <1>13, <1>14

\* A goroutine gives up the item it carries and releases its claim.
LEMMA ReleaseByThread ==
  ASSUME Ownership, MuFree, NEW c \in Threads, Carrying(c), ~Carrying(c)',
         \A d \in Threads \ {c} : cpc'[d] = cpc[d] /\ citem'[d] = citem[d],
         inflight' = Released(citem[c]),
         UNCHANGED <<nextToken, ch, wpc, witem, cancelled, delayed>>
  PROVE  /\ TokensGivenOut' /\ DistinctCarriers' /\ ClaimCarried'
         /\ LiveRunOwnsClaim' /\ ForceOwnsClaim' /\ FinishingOwns'
<1> USE DEF Ownership
<1> DEFINE it == citem[c]
<1>1. it \in Items /\ it.id \in Ids /\ it.token # 0
  BY DEF Carrying, TypeOK, Items, TokensGivenOut
<1>2. /\ \A w \in Workers : Busy(w)' = Busy(w) /\ witem'[w] = witem[w]
      /\ \A d \in Threads : Carrying(d)' => d # c /\ Carrying(d) /\ citem'[d] = citem[d]
      /\ \A d \in Threads : Carrying(d) /\ ~Carrying(d)' => d = c
  BY DEF Busy, Carrying
<1>3. /\ inflight'[it.id].token # it.token
      /\ \A i \in Ids : Claimed(i)' => inflight'[i].token = inflight[i].token
  BY <1>1, ReleasedEffect DEF Claimed
<1>4. TokensGivenOut' /\ DistinctCarriers' /\ ClaimCarried'
  BY <1>2, <1>3, RemovedCarriers
<1>5. \A x \in Items : x.token # it.token /\ Owns(x) => inflight'[x.id] = inflight[x.id]
  BY <1>1, ReleasedEffect DEF Owns, Items
<1>6. LiveRunOwnsClaim'
  <2> SUFFICES ASSUME NEW v \in Workers, wpc[v] \in RunStages, v \notin cancelled
               PROVE  Owns(witem[v])' /\ inflight'[witem[v].id].done = v
    BY DEF LiveRunOwnsClaim
  <2>1. /\ witem[v] \in Items /\ Owns(witem[v]) /\ inflight[witem[v].id].done = v
        /\ witem[v].token # it.token
    BY DEF LiveRunOwnsClaim, Busy, RunStages, TypeOK, DistinctCarriers
  <2> QED
    BY <1>5, <2>1 DEF Owns
<1>7. ForceOwnsClaim'
  <2> SUFFICES ASSUME NEW d \in Callers, cpc'[d] \in ForceStages
               PROVE  Owns(citem[d])'
    BY DEF ForceOwnsClaim
  <2>1. d \in Threads /\ Carrying(d)'
    BY DEF Threads, Carrying, ForceStages
  <2>2. d # c /\ Carrying(d) /\ cpc[d] \in ForceStages /\ citem'[d] = citem[d]
    BY <1>2, <2>1
  <2>3. citem[d] \in Items /\ citem[d].token # it.token /\ Owns(citem[d])
    BY <2>1, <2>2 DEF ForceOwnsClaim, ForceStages, TypeOK, DistinctCarriers
  <2> QED
    BY <1>5, <2>2, <2>3 DEF Owns
<1>8. FinishingOwns'
  BY DEF FinishingOwns, MuFree
<1> QED
  BY <1>4, <1>6, <1>7, <1>8

LEMMA ForceFailsOwnership ==
  ASSUME Ownership, NEW c \in Callers, ForceFails(c)
  PROVE  Ownership'
<1> USE DEF Ownership
<1>1. TypeOK'
  BY CallerType DEF CallerNext
<1>2. /\ cpc[c] \in {"await", "before"} /\ MuFree /\ cpc' = [cpc EXCEPT ![c] = "idle"]
      /\ inflight' = Released(citem[c]) /\ dropped' = GivenUp(citem[c])
      /\ citem' = [citem EXCEPT ![c] = NoItem] /\ row' \in {row, Reset(citem[c].id)}
      /\ UNCHANGED <<nextToken, ch, wpc, witem, cancelled, delayed, phase, backlog>>
  BY DEF ForceFails, workerVars
<1>3. c \in Threads /\ Sweeper \in Threads /\ c # Sweeper
  BY DispatcherAssumption DEF Threads
<1>4. cpc'[c] = "idle" /\ \A d \in Threads \ {c} : cpc'[d] = cpc[d] /\ citem'[d] = citem[d]
  BY <1>2, <1>3 DEF TypeOK
<1>5. Carrying(c) /\ ~Carrying(c)'
  BY <1>2, <1>4 DEF Carrying
<1>6. /\ TokensGivenOut' /\ DistinctCarriers' /\ ClaimCarried'
      /\ LiveRunOwnsClaim' /\ ForceOwnsClaim' /\ FinishingOwns'
  BY <1>2, <1>3, <1>4, <1>5, ReleaseByThread
<1>7. PendingRowHasWork'
  <2>1. citem[c] \in Items
    BY <1>3, <1>5 DEF Carrying, TypeOK
  <2>2. \A i \in Ids : Claimed(i) => Claimed(i)' \/ i \in dropped'
    BY <1>2, <2>1, ReleasedEffect DEF Claimed, GivenUp, TypeOK
  <2>3. dropped \subseteq dropped'
    BY <1>2 DEF GivenUp
  <2>4. \A d \in Callers : cpc[d] = "submit" => cpc'[d] = "submit" /\ citem'[d] = citem[d]
    BY <1>2, <1>4 DEF Threads
  <2>5. citem[c].id \in dropped'
    BY <1>2 DEF ForceOwnsClaim, ForceStages, GivenUp
  <2>6. \A i \in Ids : row'[i].status = "pending" => row[i].status = "pending" \/ i \in dropped'
    BY <1>2, <2>5 DEF Reset, TypeOK
  <2> QED
    BY <1>2, <2>2, <2>3, <2>4, <2>6 DEF PendingRowHasWork
<1>8. SweeperStages'
  BY <1>2, <1>3, <1>4 DEF SweeperStages
<1> QED
  BY <1>1, <1>6, <1>7, <1>8

LEMMA SweepSendOwnership ==
  ASSUME Ownership, SweepSend
  PROVE  Ownership'
<1> USE DEF Ownership
<1>1. TypeOK'
  BY SweepType DEF SweepNext
<1> DEFINE it == citem[Sweeper]
<1>2. /\ cpc[Sweeper] = "send" /\ ch' = Append(ch, it)
      /\ cpc' = [cpc EXCEPT ![Sweeper] = "idle"] /\ citem' = [citem EXCEPT ![Sweeper] = NoItem]
      /\ UNCHANGED <<row, inflight, nextToken, wpc, witem, cancelled, delayed, phase, backlog, dropped>>
  BY DEF SweepSend, claimVars, workerVars
<1>3. Sweeper \in Threads /\ Sweeper \notin Callers
  BY DispatcherAssumption DEF Threads
<1>4. cpc'[Sweeper] = "idle" /\ \A d \in Threads \ {Sweeper} : cpc'[d] = cpc[d] /\ citem'[d] = citem[d]
  BY <1>2, <1>3 DEF TypeOK
<1>5. /\ Carrying(Sweeper) /\ ~Carrying(Sweeper)' /\ it \in Items /\ it.token \in 1 .. nextToken
  BY <1>2, <1>3, <1>4 DEF Carrying, TypeOK, TokensGivenOut
<1>6. /\ \A w \in Workers : Busy(w) => witem[w].token # it.token
      /\ \A i \in DOMAIN ch : ch[i].token # it.token
      /\ \A d \in delayed' : d.token # it.token
      /\ \A d \in Threads : Carrying(d)' => /\ Carrying(d) /\ citem'[d] = citem[d]
                                            /\ citem[d].token # it.token
      /\ \A d \in Threads : Carrying(d) /\ ~Carrying(d)' => d = Sweeper
  BY <1>2, <1>3, <1>4, <1>5 DEF DistinctCarriers, Carrying
<1>7. TokensGivenOut' /\ DistinctCarriers' /\ ClaimCarried'
  BY <1>2, <1>5, <1>6, SentCarriers
<1>8. \A d \in Callers : cpc'[d] = cpc[d] /\ citem'[d] = citem[d]
  BY <1>3, <1>4 DEF Threads
<1>9. LiveRunOwnsClaim' /\ ForceOwnsClaim'
  BY <1>2, <1>8 DEF LiveRunOwnsClaim, ForceOwnsClaim, Owns
<1>10. FinishingOwns'
  BY <1>2, <1>8 DEF FinishingOwns, Owns
<1>11. PendingRowHasWork'
  BY <1>2, <1>8 DEF PendingRowHasWork, Claimed
<1>12. SweeperStages'
  BY <1>2, <1>4, <1>8 DEF SweeperStages
<1> QED
  BY <1>1, <1>7, <1>9, <1>10, <1>11, <1>12

LEMMA SweepAbortOwnership ==
  ASSUME Ownership, SweepAbort
  PROVE  Ownership'
<1> USE DEF Ownership
<1>1. TypeOK'
  BY SweepType DEF SweepNext
<1>2. /\ MuFree /\ phase' = "drain" /\ backlog' = {}
      /\ cpc' = [cpc EXCEPT ![Sweeper] = "idle"] /\ citem' = [citem EXCEPT ![Sweeper] = NoItem]
      /\ UNCHANGED <<row, nextToken, ch, wpc, witem, cancelled, delayed, cwait>>
      /\ dropped \subseteq dropped' /\ \A it \in backlog : it.id \in dropped'
  BY DEF SweepAbort, workerVars
<1>3. Sweeper \in Threads /\ Sweeper \notin Callers
  BY DispatcherAssumption DEF Threads
<1>4. cpc'[Sweeper] = "idle" /\ \A d \in Threads \ {Sweeper} : cpc'[d] = cpc[d] /\ citem'[d] = citem[d]
  BY <1>2, <1>3 DEF TypeOK
<1>5. \A d \in Callers : cpc'[d] = cpc[d] /\ citem'[d] = citem[d]
  BY <1>3, <1>4 DEF Threads
<1>6. SweeperStages'
  BY <1>2, <1>4, <1>5 DEF SweeperStages
<1>7. CASE cpc[Sweeper] = "send"
  <2>1. /\ inflight' = Released(citem[Sweeper]) /\ citem[Sweeper].id \in dropped'
        /\ Carrying(Sweeper) /\ ~Carrying(Sweeper)' /\ citem[Sweeper] \in Items
    BY <1>3, <1>4, <1>7 DEF SweepAbort, Carrying, TypeOK
  <2>2. /\ TokensGivenOut' /\ DistinctCarriers' /\ ClaimCarried'
        /\ LiveRunOwnsClaim' /\ ForceOwnsClaim' /\ FinishingOwns'
    BY <1>2, <1>3, <1>4, <2>1, ReleaseByThread
  <2>3. \A i \in Ids : Claimed(i) => Claimed(i)' \/ i \in dropped'
    BY <2>1, ReleasedEffect DEF Claimed
  <2>4. PendingRowHasWork'
    BY <1>2, <1>5, <2>3 DEF PendingRowHasWork
  <2> QED
    BY <1>1, <1>6, <2>2, <2>4
<1>8. CASE cpc[Sweeper] # "send"
  <2>1. inflight' = inflight /\ cpc' = cpc
    BY <1>2, <1>8 DEF SweepAbort, SweeperStages, TypeOK
  <2>2. \A c \in Threads : Carrying(c)' = Carrying(c) /\ (Carrying(c) => citem'[c] = citem[c])
    BY <1>4, <2>1 DEF Carrying
  <2>3. TokensGivenOut' /\ DistinctCarriers' /\ ClaimCarried'
    BY <1>2, <2>1, <2>2, SameCarriers DEF Busy
  <2>4. LiveRunOwnsClaim' /\ ForceOwnsClaim'
    BY <1>2, <1>5, <2>1 DEF LiveRunOwnsClaim, ForceOwnsClaim, Owns
  <2>5. FinishingOwns'
    BY <1>2 DEF FinishingOwns, MuFree
  <2>6. PendingRowHasWork'
    BY <1>2, <1>5, <2>1 DEF PendingRowHasWork, Claimed
  <2> QED
    BY <1>1, <1>6, <2>3, <2>4, <2>5, <2>6
<1> QED
  BY <1>7, <1>8

\* The steps that touch nothing but the phase of the process.
LEMMA PhaseOwnership ==
  ASSUME Ownership, SweepDone \/ Shutdown
  PROVE  Ownership'
<1> USE DEF Ownership
<1>1. TypeOK'
  BY SweepType DEF SweepNext, Shutdown, TypeOK, Phases, claimVars, workerVars, callerVars
<1>2. /\ UNCHANGED <<row, inflight, nextToken, ch, wpc, witem, cancelled, delayed, cpc,
                      citem, cwait, backlog, dropped>>
      /\ phase = "sweep" => cpc[Sweeper] = "idle"
  BY DEF SweepDone, Shutdown, claimVars, workerVars, callerVars
<1>3. TokensGivenOut' /\ DistinctCarriers' /\ ClaimCarried'
  BY <1>2, SameCarriers DEF Busy, Carrying
<1>4. LiveRunOwnsClaim' /\ ForceOwnsClaim'
  BY <1>2 DEF LiveRunOwnsClaim, ForceOwnsClaim, Owns
<1>5. FinishingOwns' /\ PendingRowHasWork'
  BY <1>2 DEF FinishingOwns, PendingRowHasWork, Claimed, Owns
<1>6. SweeperStages'
  BY <1>2 DEF SweeperStages
<1> QED
  BY <1>1, <1>3, <1>4, <1>5, <1>6

\* What Sweep lists covers every pending row.
LEMMA ListedCoversPending ==
  ASSUME NEW overdue, NEW id \in Ids, row[id].status = "pending"
  PROVE  \E it \in {ListedItem(i) : i \in Listed(row, overdue)} : it.id = id
<1>1. id \in Listed(row, overdue) /\ ListedItem(id).id = id
  BY DEF Listed, ListedItem
<1> QED
  BY <1>1

LEMMA InitOwnership == Init => Ownership
<1> SUFFICES ASSUME Init PROVE Ownership
  OBVIOUS
<1>1. /\ \A w \in Workers : wpc[w] = "recv" /\ ~Busy(w)
      /\ \A c \in Threads : cpc[c] = "idle" /\ ~Carrying(c)
      /\ DOMAIN ch = {} /\ delayed = {} /\ phase = "sweep"
      /\ \A id \in Ids : ~Claimed(id)
      /\ Sweeper \in Threads /\ Callers \subseteq Threads
  BY DEF Init, Busy, Carrying, Claimed, NoClaim, Threads
<1>2. TokensGivenOut /\ DistinctCarriers /\ ClaimCarried
  BY <1>1 DEF TokensGivenOut, DistinctCarriers, ClaimCarried
<1>3. LiveRunOwnsClaim /\ ForceOwnsClaim /\ FinishingOwns /\ SweeperStages
  BY <1>1 DEF LiveRunOwnsClaim, ForceOwnsClaim, FinishingOwns, SweeperStages,
              RunStages, ForceStages
<1>4. PendingRowHasWork
  BY ListedCoversPending DEF Init, PendingRowHasWork
<1> QED
  BY <1>2, <1>3, <1>4, InitType DEF Ownership

LEMMA RestartOwnership ==
  ASSUME Ownership, Restart
  PROVE  Ownership'
<1> USE DEF Ownership
<1> PICK overdue \in SUBSET Ids : Boot(row, overdue) /\ row' = row
  BY DEF Restart
<1>1. TypeOK'
  BY RestartType
<1>2. /\ \A w \in Workers : wpc'[w] = "recv" /\ ~Busy(w)'
      /\ \A c \in Threads : cpc'[c] = "idle" /\ ~Carrying(c)'
      /\ DOMAIN ch' = {} /\ delayed' = {} /\ phase' = "sweep"
      /\ \A id \in Ids : ~Claimed(id)'
      /\ Sweeper \in Threads /\ Callers \subseteq Threads
  BY DEF Boot, Busy, Carrying, Claimed, NoClaim, Threads
<1>3. TokensGivenOut' /\ DistinctCarriers' /\ ClaimCarried'
  BY <1>2 DEF TokensGivenOut, DistinctCarriers, ClaimCarried
<1>4. LiveRunOwnsClaim' /\ ForceOwnsClaim' /\ FinishingOwns' /\ SweeperStages'
  BY <1>2 DEF LiveRunOwnsClaim, ForceOwnsClaim, FinishingOwns, SweeperStages,
              RunStages, ForceStages
<1>5. PendingRowHasWork'
  BY ListedCoversPending DEF Boot, PendingRowHasWork
<1> QED
  BY <1>1, <1>3, <1>4, <1>5

LEMMA WorkerOwnership ==
  ASSUME Ownership, NEW w \in Workers, WorkerNext(w)
  PROVE  Ownership'
<1>1. CASE \E outcome \in Outcomes : HandlerReturns(w, outcome)
  BY <1>1, DiscardResultOwnership, FinishWriteOwnership, RedispatchOwnership
  DEF HandlerReturns
<1>2. CASE Receive(w) \/ ReceiveDrained(w) \/ BeginRun(w) \/ SkipStaleItem(w)
  BY <1>2, ReceiveOwnership, ReceiveDrainedOwnership, BeginRunOwnership, SkipStaleItemOwnership
<1>3. CASE StopWorker(w) \/ EnterRunningWrite(w) \/ MarkRunning(w)
  BY <1>3, StageOwnership
<1>4. CASE RunningWriteFails(w) \/ FinishRelease(w)
  BY <1>4, RunningWriteFailsOwnership, FinishReleaseOwnership
<1> QED
  BY <1>1, <1>2, <1>3, <1>4 DEF WorkerNext

LEMMA CallerOwnership ==
  ASSUME Ownership, NEW c \in Callers, CallerNext(c)
  PROVE  Ownership'
<1>1. CASE \E id \in Ids : ResetRow(c, id) \/ ResetRowFails(c, id) \/ ForceClaim(c, id)
  BY <1>1, ResetRowOwnership, ResetRowFailsOwnership, ForceClaimOwnership
<1>2. CASE SubmitDuplicate(c) \/ SubmitClaim(c) \/ Enqueue(c)
  BY <1>2, SubmitDuplicateOwnership, SubmitClaimOwnership, EnqueueOwnership
<1>3. CASE AwaitDrained(c) \/ AwaitTimeout(c) \/ ForceFails(c) \/ BeforeQueue(c)
  BY <1>3, AwaitOwnership, ForceFailsOwnership, BeforeQueueOwnership
<1> QED
  BY <1>1, <1>2, <1>3 DEF CallerNext

LEMMA StutterOwnership ==
  ASSUME Ownership, UNCHANGED vars
  PROVE  Ownership'
<1> USE DEF Ownership
<1>1. UNCHANGED <<row, inflight, nextToken, ch, wpc, witem, cancelled, delayed, cpc,
                  citem, cwait, phase, backlog, dropped>>
  BY DEF vars
<1>2. TypeOK'
  BY <1>1 DEF TypeOK
<1>3. TokensGivenOut' /\ DistinctCarriers' /\ ClaimCarried'
  BY <1>1, SameCarriers DEF Busy, Carrying
<1>4. LiveRunOwnsClaim' /\ ForceOwnsClaim' /\ FinishingOwns' /\ PendingRowHasWork'
  BY <1>1 DEF LiveRunOwnsClaim, ForceOwnsClaim, FinishingOwns, PendingRowHasWork, Claimed, Owns
<1>5. SweeperStages'
  BY <1>1 DEF SweeperStages
<1> QED
  BY <1>2, <1>3, <1>4, <1>5

LEMMA NextOwnership ==
  ASSUME Ownership, [Next]_vars
  PROVE  Ownership'
<1>1. CASE \E w \in Workers : WorkerNext(w)
  BY <1>1, WorkerOwnership
<1>2. CASE \E c \in Callers : CallerNext(c)
  BY <1>2, CallerOwnership
<1>3. CASE \E it \in delayed : FireDelay(it)
  BY <1>3, FireDelayOwnership
<1>4. CASE SweepNext
  BY <1>4, SweepClaimOwnership, SweepSendOwnership, SweepAbortOwnership, PhaseOwnership
  DEF SweepNext
<1>5. CASE Shutdown
  BY <1>5, PhaseOwnership
<1>6. CASE Restart
  BY <1>6, RestartOwnership
<1>7. CASE UNCHANGED vars
  BY <1>7, StutterOwnership
<1> QED
  BY <1>1, <1>2, <1>3, <1>4, <1>5, <1>6, <1>7 DEF Next, Step

LEMMA OwnershipInvariant == Spec => []Ownership
<1>1. Init => Ownership
  BY InitOwnership
<1>2. Ownership /\ [Next]_vars => Ownership'
  BY NextOwnership
<1> QED
  BY <1>1, <1>2, PTL DEF Spec

\* A run that nobody has cancelled is the run of the current claim, for any
\* number of workers, forced submits and readings, and across restarts.
THEOREM LiveRunOwns == Spec => []LiveRunOwnsClaim
<1>1. Ownership => LiveRunOwnsClaim
  BY DEF Ownership
<1> QED
  BY <1>1, OwnershipInvariant, PTL

\* A forced submit keeps its replacement claim until its item is queued,
\* however many requests force the same reading.
THEOREM ForceOwns == Spec => []ForceOwnsClaim
<1>1. Ownership => ForceOwnsClaim
  BY DEF Ownership
<1> QED
  BY <1>1, OwnershipInvariant, PTL

\* No pending row is forgotten outside the documented give-ups: the terminal
\* write of a run, its release of the claim and a reset by a request can be
\* interleaved in every way.
THEOREM PendingNotForgotten == Spec => []PendingRowHasWork
<1>1. Ownership => PendingRowHasWork
  BY DEF Ownership
<1> QED
  BY <1>1, OwnershipInvariant, PTL

\* A claim has exactly one carrier of its item.
LEMMA OneCarrier ==
  ASSUME Ownership
  PROVE  ClaimHasOneCarrier
<1> USE DEF Ownership
<1> SUFFICES ASSUME NEW id \in Ids, Claimed(id)
             PROVE  LET places == Carriers(id, inflight[id].token)
                    IN  places # {} /\ \A p, q \in places : p = q
  BY DEF ClaimHasOneCarrier
<1> DEFINE token == inflight[id].token
           places == Carriers(id, token)
<1>1. Carried(id, token)
  BY DEF ClaimCarried
<1> HIDE DEF token
<1>2. places # {}
  BY <1>1 DEF Carried, Carriers
<1>3. \A p \in places :
        \/ \E c \in Threads : p = <<"caller", c>> /\ Carrying(c) /\ citem[c].token = token
        \/ \E i \in DOMAIN ch : p = <<"channel", i>> /\ ch[i].token = token
        \/ \E w \in Workers : p = <<"worker", w>> /\ Busy(w) /\ witem[w].token = token
        \/ \E it \in delayed : p = <<"timer", it>> /\ it.token = token
  BY DEF Carriers
<1>4. \A p, q \in places : p = q
  BY <1>3 DEF DistinctCarriers
<1> QED
  BY <1>2, <1>4 DEF token

\* Ownership is held from the claim to the terminal outcome by exactly one
\* item: no claim is ever stranded without work and no work runs twice.
THEOREM OneCarrierPerClaim == Spec => []ClaimHasOneCarrier
<1>1. Ownership => ClaimHasOneCarrier
  BY OneCarrier
<1> QED
  BY <1>1, OwnershipInvariant, PTL

-----------------------------------------------------------------------------
(* The retry budget *)

\* A re-dispatch stays within the budget.
LEMMA DecideBudget ==
  ASSUME NEW outcome \in Outcomes, NEW attempt \in Nat, attempt < MaxAttempts,
         Decide(outcome, attempt, MaxAttempts).redispatch
  PROVE  Decide(outcome, attempt, MaxAttempts).next < MaxAttempts
  BY DispatcherAssumption DEF Decide

\* A run ends: nothing but the worker's own item leaves, no item changes.
LEMMA EndRunBudget ==
  ASSUME TypeOK, NEW w \in Workers, NEW claims, EndRun(w, claims)
  PROVE  \A v \in Workers : Busy(v)' => Busy(v) /\ witem'[v] = witem[v]
  BY DEF EndRun, TypeOK, Busy

LEMMA WorkerBudget ==
  ASSUME TypeOK, AttemptBudget, NEW w \in Workers, WorkerNext(w)
  PROVE  AttemptBudget'
<1> USE DEF AttemptBudget
<1>1. CASE Receive(w)
  <2>1. /\ wpc' = [wpc EXCEPT ![w] = "got"] /\ witem' = [witem EXCEPT ![w] = Head(ch)]
        /\ ch # <<>> /\ ch' = Tail(ch)
        /\ UNCHANGED <<row, delayed, cpc, citem, backlog>>
    BY <1>1 DEF Receive, callerVars
  <2>2. 1 \in DOMAIN ch /\ Head(ch) = ch[1]
        /\ \A i \in DOMAIN Tail(ch) : i + 1 \in DOMAIN ch /\ Tail(ch)[i] = ch[i + 1]
    BY <2>1, HeadTail
  <2>3. \A i \in DOMAIN ch' : ch'[i].attempt < MaxAttempts
    BY <2>1, <2>2
  <2>4. \A v \in Workers : Busy(v)' => witem'[v].attempt < MaxAttempts
    BY <2>1, <2>2 DEF TypeOK, Busy
  <2> QED
    BY <2>1, <2>3, <2>4
<1>2. CASE ReceiveDrained(w)
  <2>1. /\ wpc' = [wpc EXCEPT ![w] = "stopped"] /\ ch # <<>> /\ ch' = Tail(ch)
        /\ UNCHANGED <<row, witem, delayed, cpc, citem, backlog>>
    BY <1>2 DEF ReceiveDrained, callerVars
  <2>2. \A i \in DOMAIN Tail(ch) : i + 1 \in DOMAIN ch /\ Tail(ch)[i] = ch[i + 1]
    BY <2>1, HeadTail
  <2>3. \A i \in DOMAIN ch' : ch'[i].attempt < MaxAttempts
    BY <2>1, <2>2
  <2>4. \A v \in Workers : Busy(v)' => Busy(v)
    BY <2>1 DEF TypeOK, Busy
  <2> QED
    BY <2>1, <2>3, <2>4
<1>3. CASE StopWorker(w) \/ BeginRun(w) \/ SkipStaleItem(w) \/ EnterRunningWrite(w)
  <2>1. UNCHANGED <<row, ch, delayed, cpc, citem, backlog>>
        /\ \A v \in Workers : Busy(v)' => Busy(v) /\ witem'[v] = witem[v]
    BY <1>3 DEF StopWorker, BeginRun, SkipStaleItem, EnterRunningWrite, TypeOK, Busy,
                claimVars, callerVars
  <2> QED
    BY <2>1
<1>4. CASE MarkRunning(w)
  <2>1. /\ row' = [row EXCEPT ![witem[w].id] = [status |-> "running", attempts |-> witem[w].attempt]]
        /\ Busy(w) /\ UNCHANGED <<ch, witem, delayed, cpc, citem, backlog>>
        /\ \A v \in Workers : Busy(v)' => Busy(v)
    BY <1>4 DEF MarkRunning, MarkedRunning, TypeOK, Busy, callerVars
  <2>2. \A id \in Ids : row'[id].attempts < MaxAttempts
    BY <2>1 DEF TypeOK
  <2> QED
    BY <2>1, <2>2
<1>5. CASE DiscardResult(w) \/ FinishRelease(w)
  BY <1>5, EndRunBudget DEF DiscardResult, FinishRelease
<1>8. CASE RunningWriteFails(w)
  <2>1. /\ row' \in {row, MarkedRunning(witem[w])} /\ Busy(w)
        /\ EndRun(w, Released(witem[w])) /\ UNCHANGED <<ch, delayed, cpc, citem, backlog>>
    BY <1>8 DEF RunningWriteFails, Busy
  <2>2. \A id \in Ids : row'[id].attempts < MaxAttempts
    BY <2>1 DEF TypeOK, MarkedRunning
  <2>3. \A v \in Workers : Busy(v)' => Busy(v) /\ witem'[v] = witem[v]
    BY <2>1, EndRunBudget
  <2> QED
    BY <2>1, <2>2, <2>3
<1>6. ASSUME NEW outcome \in Outcomes, NEW landed \in BOOLEAN, FinishWrite(w, outcome, landed)
      PROVE  AttemptBudget'
  <2>1. /\ wpc[w] = "handling" /\ wpc' = [wpc EXCEPT ![w] = "finishing"]
        /\ UNCHANGED <<ch, witem, delayed, cpc, citem, backlog>>
        /\ \/ row' = row
           \/ row' = [row EXCEPT ![witem[w].id] = [status |-> "failed", attempts |-> witem[w].attempt]]
           \/ row' = [row EXCEPT ![witem[w].id].status = "ready"]
    BY <1>6 DEF FinishWrite, callerVars
  <2>2. \A id \in Ids : row'[id].attempts < MaxAttempts
    <3>1. witem[w].id \in Ids /\ witem[w].attempt < MaxAttempts /\ row \in [Ids -> Rows]
      BY <2>1 DEF TypeOK, Busy, Items
    <3>2. CASE row' = [row EXCEPT ![witem[w].id].status = "ready"]
      <4>1. \A id \in Ids : row'[id].attempts = row[id].attempts
        BY <3>1, <3>2 DEF Rows
      <4> QED
        BY <4>1
    <3>3. CASE row' = [row EXCEPT ![witem[w].id] = [status |-> "failed", attempts |-> witem[w].attempt]]
      BY <3>1, <3>3
    <3> QED
      BY <2>1, <3>2, <3>3
  <2>3. \A v \in Workers : Busy(v)' => Busy(v)
    BY <2>1 DEF TypeOK, Busy
  <2> QED
    BY <2>1, <2>2, <2>3
<1>7. ASSUME NEW outcome \in Outcomes, NEW landed \in BOOLEAN, Redispatch(w, outcome, landed)
      PROVE  AttemptBudget'
  <2> DEFINE it  == witem[w]
             act == Decide(outcome, it.attempt, MaxAttempts)
  <2>1. /\ wpc[w] = "handling" /\ act.redispatch /\ EndRun(w, inflight)
        /\ row' = IF landed THEN [row EXCEPT ![it.id] = Pending(act.next)] ELSE row
        /\ delayed' = delayed \cup {[it EXCEPT !.attempt = act.next]}
        /\ UNCHANGED <<ch, cpc, citem, backlog>>
    BY <1>7 DEF Redispatch
  <2>2. it \in Items /\ it.attempt \in Nat /\ it.attempt < MaxAttempts
    BY <2>1 DEF TypeOK, Items, Busy
  <2>3. act.next < MaxAttempts
    BY <2>1, <2>2, DecideBudget
  <2> HIDE DEF act
  <2>4. \A id \in Ids : row'[id].attempts < MaxAttempts
    BY <2>1, <2>3 DEF TypeOK, Pending
  <2>5. [it EXCEPT !.attempt = act.next].attempt < MaxAttempts
    BY <2>2, <2>3 DEF Items
  <2>6. \A d \in delayed' : d.attempt < MaxAttempts
    BY <2>1, <2>5
  <2>7. \A v \in Workers : Busy(v)' => Busy(v) /\ witem'[v] = witem[v]
    BY <2>1, EndRunBudget
  <2> QED
    BY <2>1, <2>4, <2>6, <2>7
<1> QED
  BY <1>1, <1>2, <1>3, <1>4, <1>5, <1>6, <1>7, <1>8 DEF WorkerNext, HandlerReturns

\* A send, if it happens at all, adds the item to the channel.
LEMMA QueueBudget ==
  ASSUME TypeOK, AttemptBudget, NEW it \in Items, it.attempt < MaxAttempts, QueueClaimed(it)
  PROVE  \A i \in DOMAIN ch' : ch'[i].attempt < MaxAttempts
<1>1. CASE ch' = Append(ch, it)
  BY <1>1, Appended DEF AttemptBudget
<1>2. CASE ch' = ch
  BY <1>2 DEF AttemptBudget
<1> QED
  BY <1>1, <1>2 DEF QueueClaimed

LEMMA CallerBudget ==
  ASSUME TypeOK, AttemptBudget, NEW c \in Callers, CallerNext(c)
  PROVE  AttemptBudget'
<1> USE DEF AttemptBudget
<1>1. c \in Threads /\ MaxAttempts > 0
  BY DispatcherAssumption DEF Threads
<1>2. ASSUME NEW id \in Ids, ResetRow(c, id) PROVE AttemptBudget'
  <2>1. /\ row' = [row EXCEPT ![id] = Pending(0)] /\ cpc' = [cpc EXCEPT ![c] = "submit"]
        /\ citem' = [citem EXCEPT ![c] = [id |-> id, attempt |-> 0, token |-> 0]]
        /\ UNCHANGED <<ch, wpc, witem, delayed, backlog>>
    BY <1>2 DEF ResetRow, Reset, workerVars
  <2>2. \A i \in Ids : row'[i].attempts < MaxAttempts
    BY <1>1, <2>1 DEF TypeOK, Pending
  <2>3. \A d \in Threads : cpc'[d] # "idle" => citem'[d].attempt < MaxAttempts
    BY <1>1, <2>1 DEF TypeOK
  <2> QED
    BY <2>1, <2>2, <2>3 DEF Busy
<1>3. ASSUME NEW id \in Ids, ForceClaim(c, id) PROVE AttemptBudget'
  <2>1. /\ citem' = [citem EXCEPT ![c] = [id |-> id, attempt |-> 0, token |-> nextToken + 1]]
        /\ \A d \in Threads \ {c} : cpc'[d] = cpc[d]
        /\ UNCHANGED <<row, ch, wpc, witem, delayed, backlog>>
    BY <1>3 DEF ForceClaim, TypeOK
  <2>2. \A d \in Threads : cpc'[d] # "idle" => citem'[d].attempt < MaxAttempts
    BY <1>1, <2>1 DEF TypeOK
  <2> QED
    BY <2>1, <2>2 DEF Busy
<1>4. CASE SubmitClaim(c)
  <2>1. /\ citem' = [citem EXCEPT ![c] = Stamped(citem[c])] /\ cpc[c] = "submit"
        /\ \A d \in Threads \ {c} : cpc'[d] = cpc[d]
        /\ UNCHANGED <<row, ch, wpc, witem, delayed, backlog>>
    BY <1>4 DEF SubmitClaim, TypeOK, workerVars
  <2>2. Stamped(citem[c]).attempt = citem[c].attempt
    BY <1>1, <2>1 DEF TypeOK, Stamped, Items
  <2>3. \A d \in Threads : cpc'[d] # "idle" => citem'[d].attempt < MaxAttempts
    BY <1>1, <2>1, <2>2 DEF TypeOK
  <2> QED
    BY <2>1, <2>3 DEF Busy
<1>5. CASE SubmitDuplicate(c) \/ AwaitDrained(c) \/ AwaitTimeout(c)
  <2>1. /\ UNCHANGED <<row, ch, wpc, witem, delayed, backlog>>
        /\ \A d \in Threads : cpc'[d] # "idle" => cpc[d] # "idle" /\ citem'[d] = citem[d]
    BY <1>5 DEF SubmitDuplicate, AwaitDrained, AwaitTimeout, TypeOK,
                claimVars, workerVars
  <2> QED
    BY <2>1 DEF Busy
<1>6. CASE BeforeQueue(c)
  <2>1. /\ row' = [row EXCEPT ![citem[c].id] = Pending(0)]
        /\ UNCHANGED <<ch, wpc, witem, delayed, citem, backlog>>
        /\ \A d \in Threads : cpc'[d] # "idle" => cpc[d] # "idle"
    BY <1>6 DEF BeforeQueue, Reset, TypeOK, workerVars
  <2>2. \A i \in Ids : row'[i].attempts < MaxAttempts
    BY <1>1, <2>1 DEF TypeOK, Pending
  <2> QED
    BY <2>1, <2>2 DEF Busy
<1>7. CASE Enqueue(c)
  <2>1. /\ QueueClaimed(citem[c]) /\ cpc[c] # "idle"
        /\ UNCHANGED <<row, wpc, witem, delayed, backlog>>
        /\ \A d \in Threads : cpc'[d] # "idle" => cpc[d] # "idle" /\ citem'[d] = citem[d]
    BY <1>7 DEF Enqueue, TypeOK, workerVars
  <2>2. citem[c] \in Items /\ citem[c].attempt < MaxAttempts
    BY <1>1, <2>1 DEF TypeOK
  <2>3. \A i \in DOMAIN ch' : ch'[i].attempt < MaxAttempts
    BY <2>1, <2>2, QueueBudget
  <2> QED
    BY <2>1, <2>3 DEF Busy
<1>8. CASE ForceFails(c)
  <2>1. /\ row' \in {row, Reset(citem[c].id)} /\ UNCHANGED <<ch, wpc, witem, delayed, backlog>>
        /\ \A d \in Threads : cpc'[d] # "idle" => cpc[d] # "idle" /\ citem'[d] = citem[d]
    BY <1>8 DEF ForceFails, TypeOK, workerVars
  <2>2. \A i \in Ids : row'[i].attempts < MaxAttempts
    BY <1>1, <2>1 DEF TypeOK, Reset, Pending
  <2> QED
    BY <2>1, <2>2 DEF Busy
<1>9. ASSUME NEW id \in Ids, ResetRowFails(c, id) PROVE AttemptBudget'
  <2>1. row' = Reset(id) /\ UNCHANGED <<ch, wpc, witem, delayed, cpc, citem, backlog>>
    BY <1>9 DEF ResetRowFails, workerVars, callerVars
  <2>2. \A i \in Ids : row'[i].attempts < MaxAttempts
    BY <1>1, <2>1 DEF TypeOK, Reset, Pending
  <2> QED
    BY <2>1, <2>2 DEF Busy
<1> QED
  BY <1>2, <1>3, <1>4, <1>5, <1>6, <1>7, <1>8, <1>9 DEF CallerNext

LEMMA SweepBudget ==
  ASSUME TypeOK, AttemptBudget, SweepNext
  PROVE  AttemptBudget'
<1> USE DEF AttemptBudget
<1>1. Sweeper \in Threads
  BY DEF Threads
<1>2. ASSUME NEW it \in backlog, SweepClaim(it) PROVE AttemptBudget'
  <2>1. /\ citem' = [citem EXCEPT ![Sweeper] = Stamped(it)] /\ backlog' \subseteq backlog
        /\ \A d \in Threads \ {Sweeper} : cpc'[d] = cpc[d]
        /\ UNCHANGED <<row, ch, wpc, witem, delayed>>
    BY <1>2 DEF SweepClaim, TypeOK, workerVars
  <2>2. Stamped(it).attempt = it.attempt
    BY DEF TypeOK, Stamped, Items
  <2>3. \A d \in Threads : cpc'[d] # "idle" => citem'[d].attempt < MaxAttempts
    BY <1>1, <2>1, <2>2 DEF TypeOK
  <2> QED
    BY <2>1, <2>3 DEF Busy
<1>3. CASE SweepSend
  <2>1. /\ ch' = Append(ch, citem[Sweeper]) /\ cpc[Sweeper] # "idle"
        /\ UNCHANGED <<row, wpc, witem, delayed, backlog>>
        /\ \A d \in Threads : cpc'[d] # "idle" => cpc[d] # "idle" /\ citem'[d] = citem[d]
    BY <1>3 DEF SweepSend, TypeOK, workerVars
  <2>2. citem[Sweeper] \in Items /\ citem[Sweeper].attempt < MaxAttempts
    BY <1>1, <2>1 DEF TypeOK
  <2>3. \A i \in DOMAIN ch' : ch'[i].attempt < MaxAttempts
    BY <2>1, <2>2, Appended
  <2> QED
    BY <2>1, <2>3 DEF Busy
<1>4. CASE SweepDone
  BY <1>4 DEF SweepDone, workerVars, callerVars, Busy
<1>5. CASE SweepAbort
  <2>1. /\ UNCHANGED <<row, ch, wpc, witem, delayed>> /\ backlog' = {}
        /\ \A d \in Threads : cpc'[d] # "idle" => cpc[d] # "idle" /\ citem'[d] = citem[d]
    BY <1>5 DEF SweepAbort, TypeOK, workerVars
  <2> QED
    BY <2>1 DEF Busy
<1> QED
  BY <1>2, <1>3, <1>4, <1>5 DEF SweepNext

LEMMA ListedBudget ==
  ASSUME \A id \in Ids : row[id].attempts < MaxAttempts, NEW overdue
  PROVE  \A it \in {ListedItem(id) : id \in Listed(row, overdue)} : it.attempt < MaxAttempts
  BY DEF ListedItem, Listed

LEMMA InitBudget == Init => AttemptBudget
<1> SUFFICES ASSUME Init PROVE AttemptBudget
  OBVIOUS
<1>1. \A id \in Ids : row[id].attempts < MaxAttempts
  BY DispatcherAssumption DEF Init
<1>2. \A it \in backlog : it.attempt < MaxAttempts
  BY <1>1, ListedBudget DEF Init
<1> QED
  BY <1>1, <1>2 DEF Init, AttemptBudget, Busy

LEMMA RestartBudget ==
  ASSUME TypeOK, AttemptBudget, Restart
  PROVE  AttemptBudget'
<1> PICK overdue \in SUBSET Ids : Boot(row, overdue) /\ row' = row
  BY DEF Restart
<1>1. \A it \in backlog' : it.attempt < MaxAttempts
  BY ListedBudget DEF Boot, AttemptBudget
<1>2. /\ DOMAIN ch' = {} /\ delayed' = {}
      /\ \A w \in Workers : ~Busy(w)'
      /\ \A c \in Threads : cpc'[c] = "idle"
  BY DEF Boot, Busy
<1> QED
  BY <1>1, <1>2 DEF AttemptBudget

\* The retry budget is honoured across retries, requeues, lost writes, forced
\* submits and restarts, for any budget.
THEOREM BudgetHolds == Spec => []AttemptBudget
<1>1. Init => AttemptBudget
  BY InitBudget
<1>2. TypeOK /\ AttemptBudget /\ [Next]_vars => AttemptBudget'
  <2> SUFFICES ASSUME TypeOK, AttemptBudget, [Next]_vars PROVE AttemptBudget'
    OBVIOUS
  <2>1. CASE \E it \in delayed : FireDelay(it)
    <3> PICK it \in delayed : FireDelay(it)
      BY <2>1
    <3>1. it \in Items /\ it.attempt < MaxAttempts /\ QueueClaimed(it)
          /\ delayed' \subseteq delayed /\ UNCHANGED <<row, wpc, witem, cpc, citem, backlog>>
      BY DEF FireDelay, TypeOK, AttemptBudget, workerVars, callerVars
    <3>2. \A i \in DOMAIN ch' : ch'[i].attempt < MaxAttempts
      BY <3>1, QueueBudget
    <3> QED
      BY <3>1, <3>2 DEF AttemptBudget, Busy
  <2>2. CASE Shutdown
    BY <2>2 DEF Shutdown, AttemptBudget, Busy, workerVars, callerVars
  <2>3. CASE UNCHANGED vars
    BY <2>3 DEF vars, AttemptBudget, Busy
  <2> QED
    BY <2>1, <2>2, <2>3, WorkerBudget, CallerBudget, SweepBudget, RestartBudget DEF Next, Step
<1> QED
  BY <1>1, <1>2, TypeCorrect, PTL DEF Spec

-----------------------------------------------------------------------------
(* What the refinement needs beyond Ownership *)

\* The done channel of a claim is that of a run of the same reading, and a
\* cancelled run has lost its claim.
ClaimsKnowRuns ==
  /\ \A id \in Ids : inflight[id].done \in Workers =>
       wpc[inflight[id].done] \in RunStages /\ witem[inflight[id].done].id = id
  /\ \A w \in cancelled : wpc[w] \in RunStages /\ ~Owns(witem[w])

\* A request submits with a fresh budget.
FreshSubmits == \A c \in Callers : cpc[c] = "submit" => citem[c].attempt = 0

\* Nothing in the process refers to the reading.
Untouched(id) ==
  /\ ~Claimed(id)
  /\ \A w \in Workers : Busy(w) => witem[w].id # id
  /\ \A c \in Threads : Carrying(c) => citem[c].id # id
  /\ \A i \in DOMAIN ch : ch[i].id # id
  /\ \A it \in delayed : it.id # id

\* Until it is swept a listed reading is left alone, so that what Sweep read
\* of its row is still what the row says.
SweepAlone ==
  /\ backlog # {} => phase = "sweep"
  /\ phase = "sweep" => \A c \in Callers : cpc[c] = "idle"
  /\ \A it \in backlog : it.attempt = row[it.id].attempts /\ Untouched(it.id)
  /\ \A it, other \in backlog : it.id = other.id => it = other

Conduct == Ownership /\ AttemptBudget /\ ClaimsKnowRuns /\ FreshSubmits /\ SweepAlone

\* A step that starts and ends no run: claims are released, or replaced by
\* newer ones that cancel the run they replace.
LEMMA RunsGoOn ==
  ASSUME TypeOK, TokensGivenOut, ClaimsKnowRuns,
         \A w \in Workers : wpc[w] \in RunStages => wpc'[w] \in RunStages /\ witem'[w] = witem[w],
         \A id \in Ids : \/ inflight'[id].done = inflight[id].done
                         \/ inflight'[id].done \notin Workers,
         \A id \in Ids : \/ inflight'[id].token \in {0, inflight[id].token}
                         \/ inflight'[id].token > nextToken,
         \A w \in cancelled' : \/ w \in cancelled
                               \/ \E id \in Ids : /\ inflight[id].done = w /\ w \in Workers
                                                  /\ inflight'[id].token > nextToken
  PROVE  ClaimsKnowRuns'
<1>1. \A id \in Ids : inflight'[id].done \in Workers =>
        wpc'[inflight'[id].done] \in RunStages /\ witem'[inflight'[id].done].id = id
  BY DEF ClaimsKnowRuns
<1>2. ASSUME NEW w \in cancelled'
      PROVE  wpc'[w] \in RunStages /\ inflight'[witem'[w].id].token # witem'[w].token
  <2>1. w \in Workers /\ wpc[w] \in RunStages
    BY <1>2 DEF ClaimsKnowRuns, TypeOK
  <2>2. witem'[w] = witem[w] /\ wpc'[w] \in RunStages /\ Busy(w)
    BY <2>1 DEF Busy, RunStages
  <2>3. witem[w].id \in Ids /\ witem[w].token \in 1 .. nextToken /\ nextToken \in Nat
    BY <2>1, <2>2 DEF TypeOK, Busy, Items, TokensGivenOut
  <2>4. CASE w \in cancelled
    BY <2>2, <2>3, <2>4 DEF ClaimsKnowRuns, Owns
  <2>5. CASE \E id \in Ids : inflight[id].done = w /\ w \in Workers /\ inflight'[id].token > nextToken
    <3> PICK id \in Ids : inflight[id].done = w /\ w \in Workers /\ inflight'[id].token > nextToken
      BY <2>5
    <3>1. witem[w].id = id
      BY DEF ClaimsKnowRuns
    <3> QED
      BY <2>2, <2>3, <3>1
  <2> QED
    BY <1>2, <2>4, <2>5
<1> QED
  BY <1>1, <1>2 DEF ClaimsKnowRuns, Owns

LEMMA EndRunClaims ==
  ASSUME TypeOK, TokensGivenOut, ClaimsKnowRuns, NEW w \in Workers, wpc[w] \in RunStages,
         NEW claims, claims = inflight \/ claims = Released(witem[w]), EndRun(w, claims)
  PROVE  ClaimsKnowRuns'
<1>1. witem[w] \in Items
  BY DEF TypeOK, RunStages
<1>2. claims \in [Ids -> Claims] /\ \A id \in Ids : claims[id] \in {inflight[id], NoClaim}
  BY <1>1, ReleasedType DEF Released, TypeOK, Items
<1>3. \A id \in Ids : /\ inflight'[id].token \in {0, inflight[id].token}
                      /\ inflight'[id].done \in Workers =>
                           inflight'[id].done = inflight[id].done /\ inflight'[id].done # w
  BY <1>2, DispatcherAssumption DEF EndRun, Claims, NoClaim
<1>4. /\ \A v \in Workers \ {w} : wpc'[v] = wpc[v] /\ witem'[v] = witem[v]
      /\ cancelled' = cancelled \ {w}
  BY <1>2, EndRunEffect
<1>5. \A v \in Workers : wpc[v] \in RunStages => witem[v].id \in Ids /\ witem[v].token \in 1 .. nextToken
  BY DEF TypeOK, Busy, Items, TokensGivenOut, RunStages
<1>6. cancelled \subseteq Workers
  BY DEF TypeOK
<1>7. ASSUME NEW v \in cancelled'
      PROVE  wpc'[v] \in RunStages /\ inflight'[witem'[v].id].token # witem'[v].token
  BY <1>3, <1>4, <1>5, <1>6, <1>7 DEF ClaimsKnowRuns, Owns
<1> QED
  BY <1>3, <1>4, <1>7 DEF ClaimsKnowRuns, Owns

LEMMA WorkerClaims ==
  ASSUME Ownership, ClaimsKnowRuns, NEW w \in Workers, WorkerNext(w)
  PROVE  ClaimsKnowRuns'
<1> TypeOK /\ TokensGivenOut /\ FinishingOwns
  BY DEF Ownership
<1> USE DEF RunStages
<1>1. CASE Receive(w) \/ StopWorker(w) \/ SkipStaleItem(w) \/ EnterRunningWrite(w) \/ MarkRunning(w)
  <2>1. /\ \A v \in Workers : wpc[v] \in RunStages => wpc'[v] \in RunStages /\ witem'[v] = witem[v]
        /\ inflight' = inflight /\ cancelled' = cancelled
    BY <1>1 DEF Receive, StopWorker, SkipStaleItem, EnterRunningWrite, MarkRunning, TypeOK, claimVars
  <2> QED
    BY <2>1, RunsGoOn
<1>2. CASE ReceiveDrained(w)
  <2>1. Head(ch) \in Items
    BY <1>2 DEF ReceiveDrained, TypeOK
  <2>2. \A id \in Ids : Released(Head(ch))[id] \in {inflight[id], NoClaim}
    BY <2>1 DEF Released, TypeOK, Items
  <2>3. /\ \A v \in Workers : wpc[v] \in RunStages => wpc'[v] \in RunStages /\ witem'[v] = witem[v]
        /\ inflight' = Released(Head(ch)) /\ cancelled' = cancelled
    BY <1>2 DEF ReceiveDrained, TypeOK
  <2>4. \A id \in Ids : \/ inflight'[id].done = inflight[id].done
                        \/ inflight'[id].done \notin Workers
    BY <2>2, <2>3, DispatcherAssumption DEF NoClaim
  <2>5. \A id \in Ids : inflight'[id].token \in {0, inflight[id].token}
    BY <2>2, <2>3 DEF NoClaim
  <2> QED
    BY <2>3, <2>4, <2>5, RunsGoOn
<1>3. CASE BeginRun(w)
  <2>1. /\ wpc[w] = "got" /\ witem[w] \in Items /\ witem[w].id \in Ids /\ witem' = witem
        /\ cancelled' = cancelled /\ cancelled \subseteq Workers
    BY <1>3 DEF BeginRun, TypeOK, Items
  <2>2. /\ \A v \in Workers \ {w} : wpc'[v] = wpc[v]
        /\ wpc'[w] = "begun"
    BY <1>3 DEF BeginRun, TypeOK
  <2>3. \A id \in Ids : /\ inflight'[id].token = inflight[id].token
                        /\ inflight'[id].done = IF id = witem[w].id THEN w ELSE inflight[id].done
    BY <1>3, <2>1 DEF BeginRun, TypeOK, Claims
  <2>4. \A v \in cancelled : v # w /\ witem[v].id \in Ids
    BY <2>1 DEF ClaimsKnowRuns, TypeOK, Items
  <2>5. \A id \in Ids : inflight'[id].done \in Workers =>
          wpc'[inflight'[id].done] \in RunStages /\ witem'[inflight'[id].done].id = id
    BY <2>1, <2>2, <2>3 DEF ClaimsKnowRuns
  <2>6. \A v \in cancelled' : wpc'[v] \in RunStages /\ inflight'[witem'[v].id].token # witem'[v].token
    BY <2>1, <2>2, <2>3, <2>4 DEF ClaimsKnowRuns, Owns
  <2> QED
    BY <2>5, <2>6 DEF ClaimsKnowRuns, Owns
<1>4. CASE RunningWriteFails(w) \/ DiscardResult(w) \/ FinishRelease(w)
  <2>1. wpc[w] \in RunStages /\ (EndRun(w, inflight) \/ EndRun(w, Released(witem[w])))
    BY <1>4 DEF RunningWriteFails, DiscardResult, FinishRelease
  <2> QED
    BY <2>1, EndRunClaims
<1>5. ASSUME NEW outcome \in Outcomes, NEW landed \in BOOLEAN, FinishWrite(w, outcome, landed)
      PROVE  ClaimsKnowRuns'
  <2>1. /\ \A v \in Workers : wpc[v] \in RunStages => wpc'[v] \in RunStages /\ witem'[v] = witem[v]
        /\ inflight' = inflight /\ cancelled' = cancelled
    BY <1>5 DEF FinishWrite, TypeOK, claimVars
  <2> QED
    BY <2>1, RunsGoOn
<1>6. ASSUME NEW outcome \in Outcomes, NEW landed \in BOOLEAN, Redispatch(w, outcome, landed)
      PROVE  ClaimsKnowRuns'
  <2>1. wpc[w] \in RunStages /\ EndRun(w, inflight)
    BY <1>6 DEF Redispatch
  <2> QED
    BY <2>1, EndRunClaims
<1> QED
  BY <1>1, <1>2, <1>3, <1>4, <1>5, <1>6 DEF WorkerNext, HandlerReturns

\* A step of a request, of the sweeper or of a timer starts and ends no run.
LEMMA QueueClaims ==
  ASSUME TypeOK, NEW it \in Items, QueueClaimed(it) \/ inflight' = Released(it)
  PROVE  \A id \in Ids : inflight'[id] \in {inflight[id], NoClaim}
  BY DEF QueueClaimed, Released, TypeOK, Items

LEMMA ReleaseClaims ==
  ASSUME TypeOK, TokensGivenOut, ClaimsKnowRuns,
         wpc' = wpc, witem' = witem, cancelled' = cancelled,
         \A id \in Ids : inflight'[id] \in {inflight[id], NoClaim}
  PROVE  ClaimsKnowRuns'
<1>1. \A id \in Ids : \/ inflight'[id].done = inflight[id].done
                      \/ inflight'[id].done \notin Workers
  BY DispatcherAssumption DEF NoClaim
<1>2. \A id \in Ids : inflight'[id].token \in {0, inflight[id].token}
  BY DEF NoClaim
<1> QED
  BY <1>1, <1>2, RunsGoOn

\* A claim that begins no run but takes over the done channel it replaces.
LEMMA ClaimClaims ==
  ASSUME TypeOK, TokensGivenOut, ClaimsKnowRuns, wpc' = wpc, witem' = witem,
         NEW id \in Ids, NEW done, done \in {NoRun, inflight[id].done}, Claim(id, done),
         cancelled' \in {cancelled, cancelled \cup ({inflight[id].done} \cap Workers)}
  PROVE  ClaimsKnowRuns'
<1>1. nextToken \in Nat /\ inflight'[id] = [token |-> nextToken + 1, done |-> done]
      /\ \A i \in Ids \ {id} : inflight'[i] = inflight[i]
  BY DEF Claim, TypeOK
<1>2. \A i \in Ids : \/ inflight'[i].done = inflight[i].done
                     \/ inflight'[i].done \notin Workers
  BY <1>1, DispatcherAssumption
<1>3. \A i \in Ids : inflight'[i].token = inflight[i].token \/ inflight'[i].token > nextToken
  BY <1>1
<1>4. inflight'[id].token > nextToken
  BY <1>1
<1>5. \A v \in cancelled' : v \in cancelled \/ (inflight[id].done = v /\ v \in Workers)
  OBVIOUS
<1> QED
  BY <1>2, <1>3, <1>4, <1>5, RunsGoOn

LEMMA CallerClaims ==
  ASSUME Ownership, ClaimsKnowRuns, NEW c \in Callers, CallerNext(c)
  PROVE  ClaimsKnowRuns'
<1> TypeOK /\ TokensGivenOut /\ c \in Threads
  BY DEF Ownership, Threads
<1>1. CASE \/ \E id \in Ids : ResetRow(c, id) \/ ResetRowFails(c, id)
           \/ SubmitDuplicate(c) \/ AwaitDrained(c) \/ AwaitTimeout(c) \/ BeforeQueue(c)
  BY <1>1, ReleaseClaims DEF ResetRow, ResetRowFails, SubmitDuplicate, AwaitDrained, AwaitTimeout,
     BeforeQueue, claimVars, workerVars
<1>2. CASE SubmitClaim(c)
  <2>1. citem[c].id \in Ids
    BY <1>2 DEF SubmitClaim, TypeOK, Items
  <2> QED
    BY <1>2, <2>1, ClaimClaims DEF SubmitClaim, workerVars
<1>3. ASSUME NEW id \in Ids, ForceClaim(c, id) PROVE ClaimsKnowRuns'
  BY <1>3, ClaimClaims DEF ForceClaim
<1>4. CASE ForceFails(c) \/ Enqueue(c)
  <2>1. citem[c] \in Items
    BY <1>4 DEF ForceFails, Enqueue, TypeOK
  <2> QED
    BY <1>4, <2>1, QueueClaims, ReleaseClaims DEF ForceFails, Enqueue, workerVars
<1> QED
  BY <1>1, <1>2, <1>3, <1>4 DEF CallerNext

LEMMA SweepClaims ==
  ASSUME Ownership, ClaimsKnowRuns, SweepNext
  PROVE  ClaimsKnowRuns'
<1> TypeOK /\ TokensGivenOut /\ Sweeper \in Threads
  BY DEF Ownership, Threads
<1>1. ASSUME NEW it \in backlog, SweepClaim(it) PROVE ClaimsKnowRuns'
  <2>1. it.id \in Ids
    BY DEF TypeOK, Items
  <2> QED
    BY <1>1, <2>1, ClaimClaims DEF SweepClaim, workerVars
<1>2. CASE SweepSend \/ SweepDone
  BY <1>2, ReleaseClaims DEF SweepSend, SweepDone, claimVars, workerVars
<1>3. CASE SweepAbort
  <2>1. CASE cpc[Sweeper] = "send"
    <3>1. citem[Sweeper] \in Items
      BY <2>1 DEF TypeOK
    <3> QED
      BY <1>3, <2>1, <3>1, QueueClaims, ReleaseClaims DEF SweepAbort, workerVars
  <2>2. CASE cpc[Sweeper] # "send"
    BY <1>3, <2>2, ReleaseClaims DEF SweepAbort, workerVars
  <2> QED
    BY <2>1, <2>2
<1> QED
  BY <1>1, <1>2, <1>3 DEF SweepNext

LEMMA FireClaims ==
  ASSUME Ownership, ClaimsKnowRuns, NEW it \in delayed, FireDelay(it)
  PROVE  ClaimsKnowRuns'
<1> TypeOK /\ TokensGivenOut /\ it \in Items
  BY DEF Ownership, TypeOK
<1> QED
  BY QueueClaims, ReleaseClaims DEF FireDelay, workerVars

LEMMA SubmitsStayFresh ==
  ASSUME Ownership, FreshSubmits, [Next]_vars
  PROVE  FreshSubmits'
<1> TypeOK
  BY DEF Ownership
<1> \A c \in Callers : c \in Threads /\ c # Sweeper
  BY DispatcherAssumption DEF Threads
<1> USE DEF FreshSubmits
<1>1. ASSUME NEW w \in Workers, WorkerNext(w) PROVE FreshSubmits'
  BY <1>1 DEF WorkerNext, Receive, ReceiveDrained, StopWorker, BeginRun, SkipStaleItem, EnterRunningWrite,
     MarkRunning, RunningWriteFails, HandlerReturns, DiscardResult, FinishWrite, FinishRelease, Redispatch,
     callerVars
<1>2. ASSUME NEW c \in Callers, CallerNext(c) PROVE FreshSubmits'
  <2>1. ASSUME NEW id \in Ids, ResetRow(c, id) PROVE FreshSubmits'
    BY <2>1 DEF ResetRow, TypeOK
  <2>2. ASSUME NEW id \in Ids, ResetRowFails(c, id) PROVE FreshSubmits'
    BY <2>2 DEF ResetRowFails, callerVars
  <2>3. ASSUME NEW id \in Ids, ForceClaim(c, id) PROVE FreshSubmits'
    BY <2>3 DEF ForceClaim, TypeOK
  <2>4. ASSUME SubmitDuplicate(c) \/ SubmitClaim(c) \/ AwaitDrained(c) \/ AwaitTimeout(c)
               \/ ForceFails(c) \/ BeforeQueue(c) \/ Enqueue(c)
        PROVE  FreshSubmits'
    BY <2>4 DEF SubmitDuplicate, SubmitClaim, AwaitDrained, AwaitTimeout, ForceFails, BeforeQueue,
                Enqueue, TypeOK
  <2> QED
    BY <1>2, <2>1, <2>2, <2>3, <2>4 DEF CallerNext
<1>3. ASSUME NEW it \in delayed, FireDelay(it) PROVE FreshSubmits'
  BY <1>3 DEF FireDelay, callerVars
<1>4. CASE SweepNext
  BY <1>4 DEF SweepNext, SweepClaim, SweepSend, SweepDone, SweepAbort, callerVars, TypeOK
<1>5. CASE Shutdown
  BY <1>5 DEF Shutdown, callerVars
<1>6. CASE Restart
  BY <1>6 DEF Restart, Boot
<1>7. CASE UNCHANGED vars
  BY <1>7 DEF vars
<1> QED
  BY <1>1, <1>2, <1>3, <1>4, <1>5, <1>6, <1>7 DEF Next, Step

\* The sweep goes on: no request begins, and what is still to be swept is
\* left alone.
LEMMA SweepGoesOn ==
  ASSUME SweepAlone, backlog' \subseteq backlog, phase' = phase, cpc' = cpc \/ phase = "sweep",
         \A c \in Callers : cpc'[c] = cpc[c],
         \A id \in Ids : Untouched(id) => Untouched(id)' /\ row'[id] = row[id],
         TypeOK
  PROVE  SweepAlone'
<1>1. \A it \in backlog : it.id \in Ids
  BY DEF TypeOK, Items
<1> QED
  BY <1>1 DEF SweepAlone

LEMMA WorkerLeavesAlone ==
  ASSUME TypeOK, NEW w \in Workers, WorkerNext(w), NEW id \in Ids, Untouched(id)
  PROVE  Untouched(id)' /\ row'[id] = row[id]
<1> USE DEF Untouched, Claimed
<1>1. CASE Receive(w)
  <2>1. /\ wpc' = [wpc EXCEPT ![w] = "got"] /\ witem' = [witem EXCEPT ![w] = Head(ch)]
        /\ ch # <<>> /\ ch' = Tail(ch)
        /\ UNCHANGED <<row, inflight, delayed, cpc, citem, backlog>>
    BY <1>1 DEF Receive, callerVars
  <2>2. 1 \in DOMAIN ch /\ Head(ch) = ch[1]
        /\ \A i \in DOMAIN Tail(ch) : i + 1 \in DOMAIN ch /\ Tail(ch)[i] = ch[i + 1]
    BY <2>1, HeadTail
  <2>3. \A v \in Workers : Busy(v)' => witem'[v].id # id
    BY <2>1, <2>2 DEF TypeOK, Busy
  <2> QED
    BY <2>1, <2>2, <2>3 DEF Carrying
<1>2. CASE ReceiveDrained(w)
  <2>1. /\ wpc' = [wpc EXCEPT ![w] = "stopped"] /\ ch # <<>> /\ ch' = Tail(ch)
        /\ inflight' = Released(Head(ch))
        /\ UNCHANGED <<row, witem, delayed, cpc, citem, backlog>>
    BY <1>2 DEF ReceiveDrained, callerVars
  <2>2. Head(ch) \in Items
        /\ \A i \in DOMAIN Tail(ch) : i + 1 \in DOMAIN ch /\ Tail(ch)[i] = ch[i + 1]
    BY <2>1, HeadTail DEF TypeOK
  <2>3. \A v \in Workers : Busy(v)' => Busy(v)
    BY <2>1 DEF TypeOK, Busy
  <2>4. inflight'[id].token = 0
    BY <2>1, <2>2, ReleasedEffect
  <2> QED
    BY <2>1, <2>2, <2>3, <2>4 DEF Carrying
<1>3. CASE StopWorker(w) \/ BeginRun(w) \/ SkipStaleItem(w) \/ EnterRunningWrite(w)
  <2>1. UNCHANGED <<row, ch, delayed, cpc, citem, backlog>>
        /\ \A v \in Workers : Busy(v)' => Busy(v) /\ witem'[v] = witem[v]
    BY <1>3 DEF StopWorker, BeginRun, SkipStaleItem, EnterRunningWrite, TypeOK, Busy,
                claimVars, callerVars
  <2>2. inflight' = inflight \/ inflight' = [inflight EXCEPT ![witem[w].id].done = w]
    BY <1>3 DEF StopWorker, BeginRun, SkipStaleItem, EnterRunningWrite, claimVars
  <2>3. inflight'[id].token = 0
    <3>1. inflight \in [Ids -> Claims] /\ inflight[id].token = 0
      BY DEF TypeOK
    <3>2. inflight'[id] = inflight[id] \/ inflight'[id] = [inflight[id] EXCEPT !.done = w]
      BY <2>2, <3>1
    <3> QED
      BY <3>1, <3>2 DEF Claims
  <2> QED
    BY <2>1, <2>3 DEF Carrying
<1>4. CASE MarkRunning(w)
  <2>1. /\ row' = [row EXCEPT ![witem[w].id] = [status |-> "running", attempts |-> witem[w].attempt]]
        /\ Busy(w) /\ UNCHANGED <<inflight, ch, witem, delayed, cpc, citem, backlog>>
        /\ \A v \in Workers : Busy(v)' => Busy(v)
    BY <1>4 DEF MarkRunning, MarkedRunning, TypeOK, Busy, callerVars, claimVars
  <2> QED
    BY <2>1 DEF TypeOK, Carrying
<1>5. CASE DiscardResult(w) \/ FinishRelease(w) \/ RunningWriteFails(w)
  <2>1. /\ Busy(w) /\ witem[w] \in Items /\ UNCHANGED <<ch, delayed, cpc, citem, backlog>>
        /\ \E claims \in {inflight, Released(witem[w])} : EndRun(w, claims)
    BY <1>5 DEF DiscardResult, FinishRelease, RunningWriteFails, Busy, TypeOK
  <2>2. witem[w].id # id
    BY <2>1
  <2>3. row'[id] = row[id]
    BY <1>5, <2>2 DEF DiscardResult, FinishRelease, RunningWriteFails, MarkedRunning, TypeOK
  <2>4. \A v \in Workers : Busy(v)' => Busy(v) /\ witem'[v] = witem[v]
    BY <2>1, EndRunBudget
  <2>5. inflight'[id].token = 0
    BY <2>1, EndRunEffect, ReleasedEffect, ReleasedType, SMTT(30) DEF TypeOK
  <2> QED
    BY <2>1, <2>3, <2>4, <2>5 DEF Carrying
<1>6. ASSUME NEW outcome \in Outcomes, NEW landed \in BOOLEAN, FinishWrite(w, outcome, landed)
      PROVE  Untouched(id)' /\ row'[id] = row[id]
  <2>1. /\ wpc[w] = "handling" /\ wpc' = [wpc EXCEPT ![w] = "finishing"]
        /\ UNCHANGED <<inflight, ch, witem, delayed, cpc, citem, backlog>>
        /\ \/ row' = row
           \/ row' = [row EXCEPT ![witem[w].id] = [status |-> "failed", attempts |-> witem[w].attempt]]
           \/ row' = [row EXCEPT ![witem[w].id].status = "ready"]
    BY <1>6 DEF FinishWrite, callerVars, claimVars
  <2>2. Busy(w) /\ \A v \in Workers : Busy(v)' => Busy(v)
    BY <2>1 DEF TypeOK, Busy
  <2>3. row'[id] = row[id]
    BY <2>1, <2>2 DEF TypeOK
  <2> QED
    BY <2>1, <2>2, <2>3 DEF Carrying
<1>7. ASSUME NEW outcome \in Outcomes, NEW landed \in BOOLEAN, Redispatch(w, outcome, landed)
      PROVE  Untouched(id)' /\ row'[id] = row[id]
  <2> DEFINE it  == witem[w]
             act == Decide(outcome, it.attempt, MaxAttempts)
  <2>1. /\ Busy(w) /\ it \in Items /\ EndRun(w, inflight)
        /\ row' = IF landed THEN [row EXCEPT ![it.id] = Pending(act.next)] ELSE row
        /\ delayed' = delayed \cup {[it EXCEPT !.attempt = act.next]}
        /\ UNCHANGED <<ch, cpc, citem, backlog>>
    BY <1>7 DEF Redispatch, Busy, TypeOK
  <2> HIDE DEF act
  <2>2. it.id # id
    BY <2>1
  <2>3. [it EXCEPT !.attempt = act.next].id = it.id
    BY <2>1 DEF Items
  <2>4. \A v \in Workers : Busy(v)' => Busy(v) /\ witem'[v] = witem[v]
    BY <2>1, EndRunBudget
  <2>5. inflight'[id].token = 0
    BY <2>1, EndRunEffect DEF TypeOK
  <2>6. row'[id] = row[id]
    BY <2>1, <2>2 DEF TypeOK
  <2>7. \A d \in delayed' : d.id # id
    BY <2>1, <2>2, <2>3
  <2> QED
    BY <2>1, <2>4, <2>5, <2>6, <2>7 DEF Carrying
<1> QED
  BY <1>1, <1>2, <1>3, <1>4, <1>5, <1>6, <1>7 DEF WorkerNext, HandlerReturns

LEMMA QueueLeavesAlone ==
  ASSUME TypeOK, NEW it \in Items, QueueClaimed(it), NEW id \in Ids, it.id # id,
         inflight[id].token = 0, \A i \in DOMAIN ch : ch[i].id # id
  PROVE  inflight'[id].token = 0 /\ \A i \in DOMAIN ch' : ch'[i].id # id
<1>1. inflight'[id].token = 0
  BY QueueClaims DEF NoClaim
<1>2. CASE ch' = Append(ch, it)
  BY <1>1, <1>2, Appended
<1>3. CASE ch' = ch
  BY <1>1, <1>3
<1> QED
  BY <1>2, <1>3 DEF QueueClaimed

LEMMA FireLeavesAlone ==
  ASSUME TypeOK, NEW it \in delayed, FireDelay(it), NEW id \in Ids, Untouched(id)
  PROVE  Untouched(id)' /\ row'[id] = row[id]
<1>1. it \in Items /\ it.id # id /\ QueueClaimed(it) /\ delayed' \subseteq delayed
      /\ UNCHANGED <<row, wpc, witem, cpc, citem>>
  BY DEF FireDelay, TypeOK, Untouched, workerVars, callerVars
<1>2. inflight'[id].token = 0 /\ \A i \in DOMAIN ch' : ch'[i].id # id
  BY <1>1, QueueLeavesAlone DEF Untouched, Claimed
<1> QED
  BY <1>1, <1>2 DEF Untouched, Claimed, Busy, Carrying

\* Once the process serves, nothing is left to sweep.
LEMMA SweptAlready ==
  ASSUME SweepAlone, phase # "sweep", phase' # "sweep", backlog' = backlog
  PROVE  SweepAlone'
  BY DEF SweepAlone

LEMMA CallerLeavesAlone ==
  ASSUME TypeOK, SweepAlone, NEW c \in Callers, CallerNext(c)
  PROVE  SweepAlone'
<1>1. phase # "sweep"
  BY DEF CallerNext, ResetRow, ResetRowFails, ForceClaim, SubmitDuplicate, SubmitClaim, AwaitDrained,
     AwaitTimeout, ForceFails, BeforeQueue, Enqueue, SweepAlone
<1>2. phase' = phase /\ backlog' = backlog
  BY DEF CallerNext, ResetRow, ResetRowFails, ForceClaim, SubmitDuplicate, SubmitClaim, AwaitDrained,
     AwaitTimeout, ForceFails, BeforeQueue, Enqueue
<1> QED
  BY <1>1, <1>2, SweptAlready

LEMMA SweepLeavesAlone ==
  ASSUME TypeOK, SweeperStages, SweepAlone, SweepNext
  PROVE  SweepAlone'
<1> Sweeper \in Threads /\ \A c \in Callers : c \in Threads /\ c # Sweeper
  BY DispatcherAssumption DEF Threads
<1>1. ASSUME NEW it \in backlog, SweepClaim(it) PROVE SweepAlone'
  <2>1. /\ it \in Items /\ it.id \in Ids /\ backlog' = backlog \ {it} /\ phase' = phase /\ phase = "sweep"
        /\ cpc' = [cpc EXCEPT ![Sweeper] = "send"] /\ citem' = [citem EXCEPT ![Sweeper] = Stamped(it)]
        /\ UNCHANGED <<row, ch, wpc, witem, delayed>>
        /\ \A id \in Ids \ {it.id} : inflight'[id] = inflight[id]
    BY <1>1 DEF SweepClaim, TypeOK, Items, Claim, workerVars
  <2>2. Stamped(it).id = it.id
    BY <2>1 DEF Stamped, Items
  <2>3. \A id \in Ids \ {it.id} : Untouched(id) => Untouched(id)'
    BY <2>1, <2>2 DEF Untouched, Claimed, Busy, Carrying, TypeOK
  <2>4. \A other \in backlog' : other \in backlog /\ other.id \in Ids \ {it.id}
    BY <2>1 DEF SweepAlone, TypeOK, Items
  <2>5. \A c \in Callers : cpc'[c] = cpc[c]
    BY <2>1 DEF TypeOK
  <2> QED
    BY <2>1, <2>3, <2>4, <2>5 DEF SweepAlone
<1>2. CASE SweepSend
  <2>1. /\ ch' = Append(ch, citem[Sweeper]) /\ cpc[Sweeper] = "send" /\ phase' = phase
        /\ UNCHANGED <<row, inflight, wpc, witem, delayed, backlog>> /\ phase = "sweep"
        /\ cpc' = [cpc EXCEPT ![Sweeper] = "idle"] /\ citem' = [citem EXCEPT ![Sweeper] = NoItem]
    BY <1>2 DEF SweepSend, TypeOK, workerVars, claimVars
  <2>2. citem[Sweeper] \in Items /\ Carrying(Sweeper)
    BY <2>1 DEF TypeOK, Carrying
  <2>3. \A d \in Threads : Carrying(d)' => Carrying(d) /\ citem'[d] = citem[d]
    BY <2>1 DEF Carrying, TypeOK
  <2>4. ASSUME NEW id \in Ids, Untouched(id) PROVE Untouched(id)'
    <3>1. citem[Sweeper].id # id
      BY <2>2, <2>4 DEF Untouched
    <3>2. \A i \in DOMAIN ch' : ch'[i].id # id
      BY <2>1, <2>2, <2>4, <3>1, Appended DEF Untouched
    <3> QED
      BY <2>1, <2>3, <2>4, <3>2 DEF Untouched, Claimed, Busy
  <2>5. \A c \in Callers : cpc'[c] = cpc[c]
    BY <2>1 DEF TypeOK
  <2> QED
    BY <2>1, <2>4, <2>5, SweepGoesOn
<1>3. CASE SweepDone \/ SweepAbort
  BY <1>3 DEF SweepDone, SweepAbort, SweepAlone
<1> QED
  BY <1>1, <1>2, <1>3 DEF SweepNext

\* What a process boots with: every listed row once, and nothing claimed.
LEMMA BootedAlone ==
  ASSUME NEW overdue, \A id \in Ids : ListedItem(id).id = id
  PROVE  \A it, other \in {ListedItem(id) : id \in Listed(row, overdue)} :
           /\ it.attempt = row[it.id].attempts
           /\ it.id = other.id => it = other
  BY DEF ListedItem, Listed

LEMMA RestartAlone ==
  ASSUME Restart
  PROVE  SweepAlone' /\ ClaimsKnowRuns'
<1> PICK overdue \in SUBSET Ids : Boot(row, overdue) /\ row' = row
  BY DEF Restart
<1>1. \A it, other \in backlog' : /\ it.attempt = row[it.id].attempts
                                  /\ it.id = other.id => it = other
  BY BootedAlone DEF Boot, ListedItem
<1>2. \A it \in backlog' : it.id \in Ids
  BY DEF Boot, ListedItem, Listed
<1>3. /\ DOMAIN ch' = {} /\ delayed' = {} /\ phase' = "sweep"
      /\ \A w \in Workers : ~Busy(w)'
      /\ \A c \in Threads : cpc'[c] = "idle"
      /\ \A id \in Ids : inflight'[id] = NoClaim
      /\ cancelled' = {}
  BY DEF Boot, Busy
<1>4. SweepAlone'
  BY <1>1, <1>2, <1>3 DEF SweepAlone, Untouched, Claimed, NoClaim, Carrying, Threads
<1>5. ClaimsKnowRuns'
  BY <1>3, DispatcherAssumption DEF ClaimsKnowRuns, NoClaim
<1> QED
  BY <1>4, <1>5

LEMMA InitConduct == Init => Conduct
<1> SUFFICES ASSUME Init PROVE Conduct
  OBVIOUS
<1>1. \A it, other \in backlog : /\ it.attempt = row[it.id].attempts /\ it.id \in Ids
                                 /\ it.id = other.id => it = other
  <2> PICK overdue \in SUBSET Ids : backlog = {ListedItem(id) : id \in Listed(row, overdue)}
    BY DEF Init
  <2>1. \A id \in Ids : ListedItem(id).id = id
    BY DEF ListedItem
  <2> QED
    BY <2>1, BootedAlone DEF Listed
<1>2. /\ DOMAIN ch = {} /\ delayed = {} /\ phase = "sweep"
      /\ \A w \in Workers : ~Busy(w)
      /\ \A c \in Threads : cpc[c] = "idle"
      /\ \A id \in Ids : inflight[id] = NoClaim
  BY DEF Init, Busy
<1>4. SweepAlone
  BY <1>1, <1>2 DEF SweepAlone, Untouched, Claimed, NoClaim, Carrying, Threads
<1>3. ClaimsKnowRuns /\ FreshSubmits
  BY DispatcherAssumption DEF Init, ClaimsKnowRuns, FreshSubmits, NoClaim, Threads
<1> QED
  BY <1>3, <1>4, InitOwnership, InitBudget DEF Conduct

LEMMA ConductKept == Conduct /\ [Next]_vars => ClaimsKnowRuns' /\ FreshSubmits' /\ SweepAlone'
<1> SUFFICES ASSUME Conduct, [Next]_vars PROVE ClaimsKnowRuns' /\ FreshSubmits' /\ SweepAlone'
  OBVIOUS
<1>1. Ownership /\ TypeOK /\ SweeperStages /\ ClaimsKnowRuns /\ FreshSubmits /\ SweepAlone
  BY DEF Conduct, Ownership
<1>2. FreshSubmits'
  BY <1>1, SubmitsStayFresh
<1>3. ASSUME NEW w \in Workers, WorkerNext(w) PROVE ClaimsKnowRuns' /\ SweepAlone'
  <2>1. UNCHANGED <<cpc, phase, backlog>>
    BY <1>3 DEF WorkerNext, Receive, ReceiveDrained, StopWorker, BeginRun, SkipStaleItem, EnterRunningWrite,
       MarkRunning, RunningWriteFails, HandlerReturns, DiscardResult, FinishWrite, FinishRelease, Redispatch,
       callerVars
  <2>2. SweepAlone'
    BY <1>1, <1>3, <2>1, WorkerLeavesAlone, SweepGoesOn
  <2> QED
    BY <1>1, <1>3, <2>2, WorkerClaims
<1>4. ASSUME NEW c \in Callers, CallerNext(c) PROVE ClaimsKnowRuns' /\ SweepAlone'
  BY <1>1, <1>4, CallerClaims, CallerLeavesAlone
<1>5. ASSUME NEW it \in delayed, FireDelay(it) PROVE ClaimsKnowRuns' /\ SweepAlone'
  <2>1. UNCHANGED <<cpc, phase, backlog>>
    BY <1>5 DEF FireDelay, callerVars
  <2>2. SweepAlone'
    BY <1>1, <1>5, <2>1, FireLeavesAlone, SweepGoesOn
  <2> QED
    BY <1>1, <1>5, <2>2, FireClaims
<1>6. CASE SweepNext
  BY <1>1, <1>2, <1>6, SweepClaims, SweepLeavesAlone
<1>7. CASE Shutdown
  <2>1. ClaimsKnowRuns'
    BY <1>1, <1>7 DEF Shutdown, ClaimsKnowRuns, Owns, claimVars, workerVars
  <2>2. SweepAlone'
    BY <1>1, <1>7, SweptAlready DEF Shutdown
  <2> QED
    BY <1>2, <2>1, <2>2
<1>8. CASE Restart
  BY <1>2, <1>8, RestartAlone
<1>9. CASE UNCHANGED vars
  <2>1. ClaimsKnowRuns'
    BY <1>1, <1>9 DEF vars, ClaimsKnowRuns, Owns
  <2>2. SweepAlone'
    BY <1>1, <1>9 DEF vars, SweepAlone, Untouched, Claimed, Busy, Carrying
  <2> QED
    BY <1>2, <2>1, <2>2
<1> QED
  BY <1>2, <1>3, <1>4, <1>5, <1>6, <1>7, <1>8, <1>9 DEF Next, Step

LEMMA ConductInvariant == Spec => []Conduct
<1>1. Init => Conduct
  BY InitConduct
<1>2. /\ Ownership /\ AttemptBudget /\ Ownership' /\ AttemptBudget'
      /\ ClaimsKnowRuns /\ FreshSubmits /\ SweepAlone
      /\ [Next]_vars
      => (ClaimsKnowRuns /\ FreshSubmits /\ SweepAlone)'
  BY ConductKept DEF Conduct
<1>3. Conduct <=> (Ownership /\ AttemptBudget /\ ClaimsKnowRuns /\ FreshSubmits /\ SweepAlone)
  BY DEF Conduct
<1> QED
  BY <1>1, <1>2, <1>3, OwnershipInvariant, BudgetHolds, PTL DEF Spec

-----------------------------------------------------------------------------
(* Dispatcher implements Lifecycle *)

StageOf(id)   == [w \in Workers |-> IF w \in RunOf(id) THEN wpc[w] ELSE "off"]
AttemptOf(id) == [w \in Workers |-> IF w \in RunOf(id) THEN witem[w].attempt ELSE 0]

\* Some place other than a run holds the item.
OnTheWay(it) ==
  \/ \E c \in Threads : Carrying(c) /\ citem[c] = it
  \/ \E i \in DOMAIN ch : ch[i] = it
  \/ \E w \in Workers : wpc[w] = "got" /\ witem[w] = it
  \/ it \in delayed

LEMMA ItemsAre ==
  ASSUME NEW id, NEW it
  PROVE  it \in ItemsFor(id) <=> it.id = id /\ Owns(it) /\ OnTheWay(it)
  BY DEF ItemsFor, OnTheWay

LEMMA ItemsAreNext ==
  ASSUME NEW id, NEW it
  PROVE  it \in ItemsFor(id)' <=> it.id = id /\ inflight'[it.id].token = it.token /\ OnTheWay(it)'
  BY DEF ItemsFor, OnTheWay, Owns

\* The work that is on its way is waiting, and is the only one.
LEMMA WorkIsWaiting ==
  Ownership => \A id \in Ids : \A it \in ItemsFor(id) :
                 /\ Claimed(id) /\ LiveOf(id) = {} /\ WorkOf(id) = "waiting"
                 /\ NextOf(id) = it.attempt
<1> SUFFICES ASSUME Ownership, NEW id \in Ids, NEW it \in ItemsFor(id)
             PROVE  /\ Claimed(id) /\ LiveOf(id) = {} /\ WorkOf(id) = "waiting"
                    /\ NextOf(id) = it.attempt
  OBVIOUS
<1> TypeOK /\ TokensGivenOut /\ DistinctCarriers
  BY DEF Ownership
<1>1. it.id = id /\ it.token = inflight[id].token /\ OnTheWay(it)
  BY ItemsAre DEF Owns
<1>2. it.token # 0
  BY <1>1 DEF OnTheWay, TokensGivenOut, TypeOK, Busy
<1>3. \A w \in Workers : wpc[w] \in RunStages => witem[w].token # it.token
  BY <1>1 DEF OnTheWay, DistinctCarriers, Busy, RunStages
<1>4. LiveOf(id) = {}
  BY <1>1, <1>3 DEF LiveOf, RunOf, Owns
<1>5. ASSUME NEW other \in ItemsFor(id) PROVE other = it
  <2>1. other.token = it.token /\ OnTheWay(other)
    BY <1>1, ItemsAre DEF Owns
  <2> QED
    BY <1>1, <2>1 DEF OnTheWay, DistinctCarriers, Busy
<1>6. ItemsFor(id) = {it}
  BY <1>5
<1> QED
  BY <1>1, <1>2, <1>4, <1>6 DEF Claimed, WorkOf, NextOf

LEMMA WorkIsWaitingNext ==
  Ownership' => \A id \in Ids : \A it \in ItemsFor(id)' :
                 /\ Claimed(id)' /\ LiveOf(id)' = {} /\ WorkOf(id)' = "waiting"
                 /\ NextOf(id)' = it.attempt
<1>1. (Ownership => \A id \in Ids : \A it \in ItemsFor(id) :
                 /\ Claimed(id) /\ LiveOf(id) = {} /\ WorkOf(id) = "waiting"
                 /\ NextOf(id) = it.attempt)'
  BY WorkIsWaiting, PTL
<1> QED
  BY <1>1

\* At most one run of a reading is live, and then nothing is on its way.
LEMMA OneLive ==
  ASSUME Ownership, NEW id \in Ids, NEW w \in LiveOf(id)
  PROVE  /\ LiveOf(id) = {w} /\ Claimed(id)
         /\ WorkOf(id) = "held" /\ NextOf(id) = 0
         /\ ItemsFor(id) = {}
<1> TypeOK /\ TokensGivenOut /\ DistinctCarriers
  BY DEF Ownership
<1>1. w \in Workers /\ wpc[w] \in RunStages /\ Busy(w) /\ witem[w].id = id /\ Owns(witem[w])
  BY DEF LiveOf, RunOf, Busy, RunStages
<1>2. \A v \in LiveOf(id) : v = w
  BY <1>1 DEF LiveOf, RunOf, Busy, RunStages, DistinctCarriers, Owns
<1>3. Claimed(id)
  BY <1>1 DEF TokensGivenOut, Owns, Claimed, TypeOK
<1>4. ItemsFor(id) = {}
  BY WorkIsWaiting
<1> QED
  BY <1>2, <1>3, <1>4 DEF WorkOf, NextOf

LEMMA OneLiveNext ==
  Ownership' => \A id \in Ids : \A w \in LiveOf(id)' :
                  /\ LiveOf(id)' = {w} /\ Claimed(id)'
                  /\ WorkOf(id)' = "held" /\ NextOf(id)' = 0
<1>1. Ownership => \A id \in Ids : \A w \in LiveOf(id) :
        /\ LiveOf(id) = {w} /\ Claimed(id) /\ WorkOf(id) = "held" /\ NextOf(id) = 0
  BY OneLive
<1>2. (Ownership => \A id \in Ids : \A w \in LiveOf(id) :
        /\ LiveOf(id) = {w} /\ Claimed(id) /\ WorkOf(id) = "held" /\ NextOf(id) = 0)'
  BY <1>1, PTL
<1> QED
  BY <1>2

\* A step that touches neither the row, the claim, the runs nor the waiting
\* item of a reading.
LEMMA Unaffected ==
  ASSUME NEW id \in Ids, row'[id] = row[id], inflight'[id].token = inflight[id].token,
         \A w \in Workers : \/ wpc[w] \in RunStages /\ witem[w].id = id
                            \/ wpc'[w] \in RunStages /\ witem'[w].id = id
                            => wpc'[w] = wpc[w] /\ witem'[w] = witem[w],
         \A it : it.id = id /\ Owns(it) => (OnTheWay(it)' <=> OnTheWay(it))
  PROVE  UNCHANGED L(id)!lifeVars
<1>1. RunOf(id)' = RunOf(id) /\ \A w \in RunOf(id) : wpc'[w] = wpc[w] /\ witem'[w] = witem[w]
  BY DEF RunOf
<1>2. LiveOf(id)' = LiveOf(id)
  BY <1>1 DEF LiveOf, RunOf, Owns
<1>3. ItemsFor(id)' = ItemsFor(id)
  <2>1. \A it : it \in ItemsFor(id)' <=> it \in ItemsFor(id)
    BY ItemsAre, ItemsAreNext DEF Owns
  <2> QED
    BY <2>1
<1>4. WorkOf(id)' = WorkOf(id)
  BY <1>2 DEF WorkOf, Claimed
<1>5. NextOf(id)' = NextOf(id)
  BY <1>3, <1>4 DEF NextOf
<1> QED
  BY <1>1, <1>2, <1>4, <1>5 DEF L!lifeVars

\* The same, but the row is reset: by a request, or before a forced run.
LEMMA OnlyReset ==
  ASSUME NEW id \in Ids, row'[id] = Pending(0), inflight' = inflight, wpc' = wpc, witem' = witem,
         \A it : OnTheWay(it)' <=> OnTheWay(it)
  PROVE  L(id)!LifeNext
<1>1. RunOf(id)' = RunOf(id) /\ LiveOf(id)' = LiveOf(id)
  BY DEF RunOf, LiveOf, Owns
<1>2. ItemsFor(id)' = ItemsFor(id)
  <2>1. \A it : it \in ItemsFor(id)' <=> it \in ItemsFor(id)
    BY ItemsAre, ItemsAreNext DEF Owns
  <2> QED
    BY <2>1
<1>3. WorkOf(id)' = WorkOf(id)
  BY <1>1 DEF WorkOf, Claimed
<1>4. NextOf(id)' = NextOf(id)
  BY <1>2, <1>3 DEF NextOf
<1>5. L(id)!ResetRow
  BY <1>1, <1>3, <1>4 DEF L!ResetRow, L!Pending, Pending
<1> QED
  BY <1>5 DEF L!LifeNext

\* A waiting claim is released, and the row perhaps reset.
LEMMA WaitingGivenUp ==
  ASSUME Ownership, NEW id \in Ids, NEW it \in ItemsFor(id), ~Claimed(id)',
         row'[id] \in {row[id], Pending(0)},
         \A w \in Workers : wpc[w] \in RunStages \/ wpc'[w] \in RunStages
                            => wpc'[w] = wpc[w] /\ witem'[w] = witem[w]
  PROVE  L(id)!LifeNext
<1>0. TypeOK /\ TokensGivenOut
  BY DEF Ownership
<1>1. LiveOf(id) = {} /\ WorkOf(id) = "waiting"
  BY <1>0, WorkIsWaiting
<1>2. RunOf(id)' = RunOf(id) /\ \A w \in RunOf(id) : wpc'[w] = wpc[w] /\ witem'[w] = witem[w]
  BY DEF RunOf
<1>3. LiveOf(id)' = {}
  <2>1. \A w \in RunOf(id) : witem[w].token # 0
    BY <1>0 DEF RunOf, TokensGivenOut, Busy, RunStages
  <2> QED
    BY <1>2, <2>1 DEF LiveOf, RunOf, Owns, Claimed
<1>4. WorkOf(id)' = "none" /\ NextOf(id)' = 0
  BY DEF WorkOf, NextOf
<1>5. \E reset \in BOOLEAN : row'[id] = IF reset THEN Pending(0) ELSE row[id]
  BY DEF Pending
<1>6. \E reset \in BOOLEAN : L(id)!GiveUp(reset)
  BY <1>1, <1>2, <1>3, <1>4, <1>5 DEF L!GiveUp, L!Pending, Pending
<1> QED
  BY <1>6 DEF L!LifeNext

\* queueClaimed: a stale item is forgotten, a full channel ends the claim.
LEMMA QueueImplements ==
  ASSUME Ownership, NEW it \in Items, QueueClaimed(it), OnTheWay(it), wpc' = wpc, witem' = witem,
         \A other : other # it =>
           (\/ \E c \in Threads : Carrying(c)' /\ citem'[c] = other
            \/ other \in delayed') <=>
           (\/ \E c \in Threads : Carrying(c) /\ citem[c] = other
            \/ other \in delayed),
         row' = row, NEW id \in Ids
  PROVE  L(id)!LifeNext \/ UNCHANGED L(id)!lifeVars
<1> TypeOK
  BY DEF Ownership
<1> it.id \in Ids
  BY DEF Items
<1>1. CASE ~Owns(it)
  <2>1. inflight' = inflight /\ ch' = ch
    BY <1>1 DEF QueueClaimed
  <2>2. \A other : other.id = id /\ Owns(other) => (OnTheWay(other)' <=> OnTheWay(other))
    BY <1>1, <2>1 DEF OnTheWay
  <2> QED
    BY <2>1, <2>2, Unaffected
<1>2. CASE Owns(it) /\ ChannelHasRoom
  <2>1. inflight' = inflight /\ ch' = Append(ch, it)
    BY <1>2 DEF QueueClaimed
  <2>2. \A other : (\E i \in DOMAIN ch' : ch'[i] = other) <=> other = it \/ \E i \in DOMAIN ch : ch[i] = other
    BY <2>1, Appended
  <2>3. \A other : OnTheWay(other)' <=> OnTheWay(other)
    BY <2>2 DEF OnTheWay
  <2> QED
    BY <2>1, <2>3, Unaffected
<1>3. CASE Owns(it) /\ ~ChannelHasRoom
  <2>1. inflight' = [inflight EXCEPT ![it.id] = NoClaim] /\ ch' = ch
    BY <1>3, ReleasedEffect DEF QueueClaimed
  <2>2. CASE id = it.id
    <3>1. it \in ItemsFor(id)
      BY <1>3, <2>2, ItemsAre
    <3>2. ~Claimed(id)'
      BY <2>1, <2>2 DEF Claimed, NoClaim, TypeOK
    <3> QED
      BY <2>2, <3>1, <3>2, WaitingGivenUp
  <2>3. CASE id # it.id
    <3>1. inflight'[id] = inflight[id]
      BY <2>1, <2>3 DEF TypeOK
    <3>2. \A other : other.id = id /\ Owns(other) => (OnTheWay(other)' <=> OnTheWay(other))
      BY <2>1, <2>3 DEF OnTheWay
    <3> QED
      BY <3>1, <3>2, Unaffected
  <2> QED
    BY <2>2, <2>3
<1> QED
  BY <1>1, <1>2, <1>3

\* The run of one reading leaves every other reading as it is.
LEMMA OthersUnaffected ==
  ASSUME TypeOK, NEW w \in Workers, NEW id \in Ids, witem[w].id # id, wpc[w] \in RunStages \cup {"got"},
         \A v \in Workers \ {w} : wpc'[v] = wpc[v] /\ witem'[v] = witem[v],
         \/ wpc'[w] \notin RunStages \cup {"got"}
         \/ wpc'[w] \in RunStages /\ witem'[w] = witem[w],
         row'[id] = row[id], inflight'[id].token = inflight[id].token,
         UNCHANGED <<ch, cpc, citem>>,
         \A it : it.id = id => (it \in delayed' <=> it \in delayed)
  PROVE  UNCHANGED L(id)!lifeVars
<1>1. \A v \in Workers : \/ wpc[v] \in RunStages /\ witem[v].id = id
                         \/ wpc'[v] \in RunStages /\ witem'[v].id = id
                         => wpc'[v] = wpc[v] /\ witem'[v] = witem[v]
  OBVIOUS
<1>2. \A it : it.id = id => ((\E v \in Workers : wpc'[v] = "got" /\ witem'[v] = it)
                             <=> (\E v \in Workers : wpc[v] = "got" /\ witem[v] = it))
  BY DEF RunStages
<1>3. \A it : it.id = id /\ Owns(it) => (OnTheWay(it)' <=> OnTheWay(it))
  BY <1>2 DEF OnTheWay, Carrying
<1> QED
  BY <1>1, <1>3, Unaffected

\* What becomes of the slots when one of them takes a step.
LEMMA SlotMoves ==
  ASSUME NEW w \in Workers, NEW id \in Ids,
         \A v \in Workers \ {w} : wpc'[v] = wpc[v] /\ witem'[v] = witem[v]
  PROVE  /\ StageOf(id)' = [StageOf(id) EXCEPT ![w] = IF w \in RunOf(id)' THEN wpc'[w] ELSE "off"]
         /\ AttemptOf(id)' = [AttemptOf(id) EXCEPT ![w] = IF w \in RunOf(id)' THEN witem'[w].attempt ELSE 0]
  BY DEF StageOf, AttemptOf, RunOf

LEMMA ReceiveImplements ==
  ASSUME Ownership, NEW w \in Workers, Receive(w), NEW id \in Ids
  PROVE  UNCHANGED L(id)!lifeVars
<1> TypeOK
  BY DEF Ownership
<1>1. /\ wpc[w] = "recv" /\ wpc' = [wpc EXCEPT ![w] = "got"] /\ witem' = [witem EXCEPT ![w] = Head(ch)]
      /\ ch # <<>> /\ ch' = Tail(ch)
      /\ UNCHANGED <<row, inflight, delayed, cpc, citem>>
  BY DEF Receive, callerVars
<1>2. /\ 1 \in DOMAIN ch /\ Head(ch) = ch[1]
      /\ \A i \in DOMAIN Tail(ch) : i + 1 \in DOMAIN ch /\ Tail(ch)[i] = ch[i + 1]
      /\ \A j \in DOMAIN ch \ {1} : j - 1 \in DOMAIN Tail(ch) /\ Tail(ch)[j - 1] = ch[j]
  BY <1>1, HeadTail
<1>3. /\ wpc'[w] = "got" /\ witem'[w] = ch[1]
      /\ \A v \in Workers \ {w} : wpc'[v] = wpc[v] /\ witem'[v] = witem[v]
  BY <1>1, <1>2 DEF TypeOK
<1>4. \A it : OnTheWay(it)' <=> OnTheWay(it)
  <2> TAKE it
  <2>1. (\E i \in DOMAIN ch : ch[i] = it) <=> it = ch[1] \/ \E i \in DOMAIN ch' : ch'[i] = it
    BY <1>1, <1>2
  <2>2. (\E v \in Workers : wpc'[v] = "got" /\ witem'[v] = it)
          <=> it = ch[1] \/ \E v \in Workers : wpc[v] = "got" /\ witem[v] = it
    BY <1>1, <1>3
  <2> QED
    BY <1>1, <2>1, <2>2 DEF OnTheWay, Carrying
<1> QED
  BY <1>1, <1>3, <1>4, Unaffected DEF RunStages

\* A slot that holds no run stops, or gives up what it would have run.
LEMMA ReceiveDrainedImplements ==
  ASSUME Ownership, NEW w \in Workers, ReceiveDrained(w), NEW id \in Ids
  PROVE  L(id)!LifeNext \/ UNCHANGED L(id)!lifeVars
<1> TypeOK
  BY DEF Ownership
<1> DEFINE it == Head(ch)
<1>1. /\ wpc[w] = "recv" /\ wpc' = [wpc EXCEPT ![w] = "stopped"] /\ witem' = witem
      /\ ch # <<>> /\ ch' = Tail(ch) /\ inflight' = Released(it)
      /\ UNCHANGED <<row, delayed, cpc, citem>>
  BY DEF ReceiveDrained, callerVars
<1>2. /\ 1 \in DOMAIN ch /\ it = ch[1] /\ it \in Items /\ it.id \in Ids
      /\ \A i \in DOMAIN Tail(ch) : i + 1 \in DOMAIN ch /\ Tail(ch)[i] = ch[i + 1]
      /\ \A j \in DOMAIN ch \ {1} : j - 1 \in DOMAIN Tail(ch) /\ Tail(ch)[j - 1] = ch[j]
  BY <1>1, HeadTail DEF Items
<1>3. wpc'[w] = "stopped" /\ \A v \in Workers \ {w} : wpc'[v] = wpc[v]
  BY <1>1 DEF TypeOK
<1>4. \A v \in Workers : wpc[v] \in RunStages \/ wpc'[v] \in RunStages
                           => wpc'[v] = wpc[v] /\ witem'[v] = witem[v]
  BY <1>1, <1>3 DEF RunStages
<1>5. CASE id = it.id /\ Owns(it)
  <2> HIDE DEF it
  <2>1. OnTheWay(it)
    BY <1>2 DEF OnTheWay
  <2>2. it \in ItemsFor(id)
    BY <1>5, <2>1, ItemsAre
  <2>3. inflight' = [inflight EXCEPT ![id] = NoClaim]
    BY <1>1, <1>2, <1>5, ReleasedEffect
  <2>4. ~Claimed(id)'
    BY <2>3 DEF Claimed, NoClaim, TypeOK
  <2> QED
    BY <1>1, <1>4, <2>2, <2>4, WaitingGivenUp
<1>6. CASE ~(id = it.id /\ Owns(it))
  <2>1. inflight'[id] = inflight[id]
    <3> HIDE DEF it
    <3> QED
      BY <1>1, <1>2, <1>6, ReleasedEffect
  <2>2. ASSUME NEW other, other.id = id, Owns(other) PROVE OnTheWay(other)' <=> OnTheWay(other)
    <3>1. other # ch[1]
      BY <1>2, <1>6, <2>2
    <3>2. (\E i \in DOMAIN ch : ch[i] = other) <=> \E i \in DOMAIN ch' : ch'[i] = other
      BY <1>1, <1>2, <3>1
    <3>3. \A v \in Workers : wpc'[v] = "got" <=> wpc[v] = "got"
      BY <1>1, <1>3
    <3> QED
      BY <1>1, <3>2, <3>3 DEF OnTheWay, Carrying
  <2> QED
    BY <1>1, <1>4, <2>1, <2>2, Unaffected
<1> QED
  BY <1>5, <1>6

LEMMA StopImplements ==
  ASSUME Ownership, NEW w \in Workers, StopWorker(w) \/ SkipStaleItem(w), NEW id \in Ids
  PROVE  UNCHANGED L(id)!lifeVars
<1> TypeOK
  BY DEF Ownership
<1>1. /\ UNCHANGED <<row, inflight, ch, delayed, cpc, citem>>
      /\ wpc'[w] \in {"stopped", "recv"}
      /\ \A v \in Workers \ {w} : wpc'[v] = wpc[v] /\ witem'[v] = witem[v]
      /\ wpc[w] = "recv" \/ (wpc[w] = "got" /\ ~Owns(witem[w]))
  BY DEF StopWorker, SkipStaleItem, TypeOK, claimVars, callerVars
<1>2. ASSUME NEW it, Owns(it) PROVE OnTheWay(it)' <=> OnTheWay(it)
  <2>1. (\E v \in Workers : wpc'[v] = "got" /\ witem'[v] = it)
          <=> (\E v \in Workers : wpc[v] = "got" /\ witem[v] = it)
    BY <1>1, <1>2
  <2> QED
    BY <1>1, <2>1 DEF OnTheWay, Carrying
<1>3. \A v \in Workers : wpc[v] \in RunStages \/ wpc'[v] \in RunStages
                           => wpc'[v] = wpc[v] /\ witem'[v] = witem[v]
  BY <1>1 DEF RunStages
<1> QED
  BY <1>1, <1>2, <1>3, Unaffected

LEMMA BeginRunImplements ==
  ASSUME Ownership, Ownership', NEW w \in Workers, BeginRun(w), NEW id \in Ids
  PROVE  L(id)!LifeNext \/ UNCHANGED L(id)!lifeVars
<1> TypeOK
  BY DEF Ownership
<1>1. /\ wpc[w] = "got" /\ witem[w] \in Items /\ witem[w].id \in Ids /\ Owns(witem[w])
      /\ UNCHANGED <<row, ch, witem, delayed, cpc, citem>>
      /\ wpc'[w] = "begun" /\ \A v \in Workers \ {w} : wpc'[v] = wpc[v] /\ witem'[v] = witem[v]
  BY DEF BeginRun, TypeOK, Items, callerVars
<1>2. \A i \in Ids : inflight'[i].token = inflight[i].token
  BY <1>1 DEF BeginRun, TypeOK, Claims
<1>3. CASE witem[w].id # id
  BY <1>1, <1>2, <1>3, OthersUnaffected DEF RunStages
<1>4. CASE witem[w].id = id
  <2>1. witem[w] \in ItemsFor(id)
    BY <1>1, <1>4, ItemsAre DEF OnTheWay
  <2>2. LiveOf(id) = {} /\ WorkOf(id) = "waiting" /\ NextOf(id) = witem[w].attempt
    BY <2>1, WorkIsWaiting
  <2>3. w \in RunOf(id)' /\ w \notin RunOf(id) /\ w \in LiveOf(id)'
    BY <1>1, <1>2, <1>4 DEF RunOf, LiveOf, RunStages, Owns
  <2>4. LiveOf(id)' = {w} /\ WorkOf(id)' = "held" /\ NextOf(id)' = 0
    BY <2>3, OneLiveNext
  <2>5. StageOf(id)' = [StageOf(id) EXCEPT ![w] = "begun"]
        /\ AttemptOf(id)' = [AttemptOf(id) EXCEPT ![w] = NextOf(id)]
    BY <1>1, <2>2, <2>3, SlotMoves
  <2>6. StageOf(id)[w] = "off"
    BY <2>3 DEF StageOf
  <2>7. L(id)!Begin(w)
    BY <1>1, <2>2, <2>4, <2>5, <2>6 DEF L!Begin, StageOf, AttemptOf
  <2> QED
    BY <2>7 DEF L!LifeNext, L!RunStep, Runs
<1> QED
  BY <1>3, <1>4

\* The two halves of the Running write.
LEMMA RunningImplements ==
  ASSUME Ownership, NEW w \in Workers, EnterRunningWrite(w) \/ MarkRunning(w), NEW id \in Ids
  PROVE  L(id)!LifeNext \/ UNCHANGED L(id)!lifeVars
<1> TypeOK /\ LiveRunOwnsClaim
  BY DEF Ownership
<1>1. /\ wpc[w] \in {"begun", "writing"} /\ witem[w] \in Items /\ witem[w].id \in Ids
      /\ UNCHANGED <<inflight, ch, witem, delayed, cpc, citem>>
      /\ wpc'[w] \in {"writing", "handling"}
      /\ \A v \in Workers \ {w} : wpc'[v] = wpc[v] /\ witem'[v] = witem[v]
      /\ \A i \in Ids \ {witem[w].id} : row'[i] = row[i]
  BY DEF EnterRunningWrite, MarkRunning, MarkedRunning, TypeOK, Items, claimVars, callerVars
<1>2. CASE witem[w].id # id
  BY <1>1, <1>2, OthersUnaffected DEF RunStages
<1>3. CASE witem[w].id = id
  <2>1. RunOf(id)' = RunOf(id) /\ w \in RunOf(id)
    BY <1>1, <1>3 DEF RunOf, RunStages
  <2>2. LiveOf(id)' = LiveOf(id)
    BY <1>1, <2>1 DEF LiveOf, Owns
  <2>3. ItemsFor(id)' = ItemsFor(id)
    <3>1. \A it : OnTheWay(it)' <=> OnTheWay(it)
      BY <1>1 DEF OnTheWay, Carrying
    <3>2. \A it : it \in ItemsFor(id)' <=> it \in ItemsFor(id)
      BY <1>1, <3>1, ItemsAre, ItemsAreNext DEF Owns
    <3> QED
      BY <3>2
  <2>4. WorkOf(id)' = WorkOf(id) /\ NextOf(id)' = NextOf(id)
    BY <1>1, <2>2, <2>3 DEF WorkOf, NextOf, Claimed
  <2>5. StageOf(id)' = [StageOf(id) EXCEPT ![w] = wpc'[w]] /\ AttemptOf(id)' = AttemptOf(id)
    <3>1. StageOf(id)' = [StageOf(id) EXCEPT ![w] = wpc'[w]]
      BY <1>1, <2>1, SlotMoves
    <3>2. AttemptOf(id)' = AttemptOf(id)
      BY <1>1, <2>1 DEF AttemptOf
    <3> QED
      BY <3>1, <3>2
  <2>6. StageOf(id)[w] = wpc[w] /\ AttemptOf(id)[w] = witem[w].attempt
    BY <2>1 DEF StageOf, AttemptOf
  <2>7. CASE EnterRunningWrite(w)
    <3>1. wpc[w] = "begun" /\ wpc'[w] = "writing" /\ row' = row /\ w \in LiveOf(id)
      BY <1>1, <2>1, <2>7 DEF EnterRunningWrite, LiveRunOwnsClaim, LiveOf, RunStages, TypeOK
    <3>2. L(id)!EnterRunningWrite(w)
      BY <2>2, <2>4, <2>5, <2>6, <3>1 DEF L!EnterRunningWrite, StageOf, AttemptOf
    <3> QED
      BY <3>2 DEF L!LifeNext, L!RunStep, Runs
  <2>8. CASE MarkRunning(w)
    <3>1. wpc[w] = "writing" /\ wpc'[w] = "handling"
          /\ row'[id] = [status |-> "running", attempts |-> AttemptOf(id)[w]]
      BY <1>3, <2>6, <2>8 DEF MarkRunning, MarkedRunning, TypeOK
    <3>2. L(id)!MarkRunning(w)
      BY <2>2, <2>4, <2>5, <2>6, <3>1 DEF L!MarkRunning, L!Running, StageOf, AttemptOf
    <3> QED
      BY <3>2 DEF L!LifeNext, L!RunStep, Runs
  <2> QED
    BY <2>7, <2>8
<1> QED
  BY <1>2, <1>3

\* A run that ends takes its claim with it, unless it had lost it.
LEMMA RunIsOver ==
  ASSUME Ownership, NEW w \in Workers, wpc[w] \in RunStages, EndRun(w, Released(witem[w])),
         NEW id \in Ids, witem[w].id = id, UNCHANGED <<ch, delayed, cpc, citem>>
  PROVE  L(id)!EndRun(w, "none", 0)
<1> TypeOK /\ TokensGivenOut
  BY DEF Ownership
<1>1. /\ witem[w] \in Items /\ Busy(w) /\ witem[w].token # 0
      /\ wpc'[w] \in {"recv", "stopped"} /\ Released(witem[w]) \in [Ids -> Claims]
  BY ReleasedType DEF EndRun, TypeOK, Busy, RunStages, TokensGivenOut
<1>2. /\ \A v \in Workers \ {w} : wpc'[v] = wpc[v] /\ witem'[v] = witem[v]
      /\ inflight'[id].token = Released(witem[w])[id].token
  BY <1>1, EndRunEffect
<1>3. w \in RunOf(id) /\ RunOf(id)' = RunOf(id) \ {w}
  BY <1>1, <1>2 DEF RunOf, RunStages
<1>4. StageOf(id)' = [StageOf(id) EXCEPT ![w] = "off"] /\ AttemptOf(id)' = [AttemptOf(id) EXCEPT ![w] = 0]
  BY <1>2, <1>3, SlotMoves
<1>5. CASE w \in LiveOf(id)
  <2>1. inflight'[id].token = 0
    BY <1>1, <1>2, <1>5, ReleasedEffect DEF LiveOf, NoClaim, TypeOK
  <2>2. WorkOf(id)' = "none" /\ NextOf(id)' = 0
    BY <2>1 DEF WorkOf, NextOf, Claimed
  <2>3. LiveOf(id) = {w}
    BY <1>5, OneLive
  <2>4. \A v \in RunOf(id) \ {w} : witem'[v].id = id /\ witem'[v].token # 0
    BY <1>2 DEF RunOf, TokensGivenOut, Busy, RunStages
  <2>5. LiveOf(id)' = {}
    BY <1>3, <2>1, <2>4 DEF LiveOf, Owns
  <2> QED
    BY <1>4, <2>2, <2>3, <2>5 DEF L!EndRun, StageOf, AttemptOf
<1>6. CASE w \notin LiveOf(id)
  <2>1. inflight'[id].token = inflight[id].token /\ ~Owns(witem[w])
    BY <1>1, <1>2, <1>3, <1>6, ReleasedEffect DEF LiveOf
  <2>2. LiveOf(id)' = LiveOf(id)
    BY <1>2, <1>3, <1>6, <2>1 DEF LiveOf, RunOf, Owns
  <2>3. \A it : (\E v \in Workers : wpc'[v] = "got" /\ witem'[v] = it)
                  <=> (\E v \in Workers : wpc[v] = "got" /\ witem[v] = it)
    BY <1>1, <1>2 DEF RunStages
  <2>4. \A it : it \in ItemsFor(id)' <=> it \in ItemsFor(id)
    BY <2>1, <2>3, ItemsAre, ItemsAreNext DEF OnTheWay, Carrying, Owns
  <2>5. ItemsFor(id)' = ItemsFor(id)
    BY <2>4
  <2>6. WorkOf(id)' = WorkOf(id) /\ NextOf(id)' = NextOf(id)
    BY <2>1, <2>2, <2>5 DEF WorkOf, NextOf, Claimed
  <2> QED
    BY <1>4, <1>6, <2>2, <2>6 DEF L!EndRun, StageOf, AttemptOf
<1> QED
  BY <1>5, <1>6

\* ... and the readings it does not run are left as they are.
LEMMA OtherRunIsOver ==
  ASSUME TypeOK, NEW w \in Workers, wpc[w] \in RunStages, NEW claims,
         claims = inflight \/ claims = Released(witem[w]), EndRun(w, claims),
         NEW id \in Ids, witem[w].id # id, row'[id] = row[id], UNCHANGED <<ch, cpc, citem>>,
         \A it : it.id = id => (it \in delayed' <=> it \in delayed)
  PROVE  UNCHANGED L(id)!lifeVars
<1>1. witem[w] \in Items /\ wpc'[w] \in {"recv", "stopped"}
  BY DEF EndRun, TypeOK, RunStages
<1>2. claims \in [Ids -> Claims] /\ claims[id] = inflight[id]
  BY <1>1, ReleasedType, ReleasedEffect DEF TypeOK
<1>3. /\ \A v \in Workers \ {w} : wpc'[v] = wpc[v] /\ witem'[v] = witem[v]
      /\ inflight'[id].token = inflight[id].token
  BY <1>2, EndRunEffect
<1> QED
  BY <1>1, <1>3, OthersUnaffected DEF RunStages

\* Where a run is, seen from Lifecycle.
LEMMA RunSeen ==
  ASSUME TypeOK, NEW w \in Workers, wpc[w] \in RunStages, NEW id \in Ids, witem[w].id = id
  PROVE  /\ StageOf(id)[w] = wpc[w] /\ AttemptOf(id)[w] = witem[w].attempt
         /\ w \in LiveOf(id) <=> Owns(witem[w])
  BY DEF StageOf, AttemptOf, RunOf, LiveOf

LEMMA RunningWriteFailsImplements ==
  ASSUME Conduct, NEW w \in Workers, RunningWriteFails(w), NEW id \in Ids
  PROVE  L(id)!LifeNext \/ UNCHANGED L(id)!lifeVars
<1> Ownership /\ TypeOK /\ ClaimsKnowRuns
  BY DEF Conduct, Ownership
<1>1. /\ wpc[w] \in RunStages /\ EndRun(w, Released(witem[w])) /\ UNCHANGED <<ch, delayed, cpc, citem>>
      /\ witem[w] \in Items /\ witem[w].id \in Ids
      /\ \/ wpc[w] = "begun" /\ ~Owns(witem[w]) /\ row' = row
         \/ wpc[w] = "writing" /\ row' \in {row, MarkedRunning(witem[w])}
  BY DEF RunningWriteFails, RunStages, TypeOK, Items, ClaimsKnowRuns
<1>2. CASE witem[w].id # id
  <2>1. row'[id] = row[id]
    BY <1>1, <1>2 DEF MarkedRunning, TypeOK
  <2> QED
    BY <1>1, <1>2, <2>1, OtherRunIsOver
<1>3. CASE witem[w].id = id
  <2>1. L(id)!EndRun(w, "none", 0)
    BY <1>1, <1>3, RunIsOver
  <2>2. /\ StageOf(id)[w] = wpc[w] /\ AttemptOf(id)[w] = witem[w].attempt
        /\ (w \in LiveOf(id) <=> Owns(witem[w]))
    BY <1>1, <1>3, RunSeen
  <2>3. row' \in {row, MarkedRunning(witem[w])} =>
          row'[id] \in {row[id], [status |-> "running", attempts |-> AttemptOf(id)[w]]}
    BY <1>1, <1>3, <2>2 DEF MarkedRunning, TypeOK
  <2>4. L(id)!RunningWriteFails(w)
    BY <1>1, <2>1, <2>2, <2>3 DEF L!RunningWriteFails, L!Running, StageOf, AttemptOf
  <2> QED
    BY <2>4 DEF L!LifeNext, L!RunStep, Runs
<1> QED
  BY <1>2, <1>3

LEMMA DiscardImplements ==
  ASSUME Ownership, NEW w \in Workers, DiscardResult(w), NEW id \in Ids
  PROVE  L(id)!LifeNext \/ UNCHANGED L(id)!lifeVars
<1> TypeOK
  BY DEF Ownership
<1>1. /\ wpc[w] \in RunStages /\ wpc[w] = "handling" /\ EndRun(w, inflight)
      /\ UNCHANGED <<row, ch, delayed, cpc, citem>>
      /\ witem[w] \in Items /\ witem[w].id \in Ids /\ ~Owns(witem[w])
  BY DEF DiscardResult, RunStages, TypeOK, Items
<1>2. CASE witem[w].id # id
  BY <1>1, <1>2, OtherRunIsOver
<1>3. CASE witem[w].id = id
  <2>1. L(id)!EndRun(w, "none", 0)
    BY <1>1, <1>3, RunIsOver DEF Released
  <2>2. StageOf(id)[w] = wpc[w] /\ w \notin LiveOf(id)
    BY <1>1, <1>3, RunSeen
  <2>3. L(id)!Discard(w)
    BY <1>1, <2>1, <2>2 DEF L!Discard, StageOf
  <2> QED
    BY <2>3 DEF L!LifeNext, L!RunStep, L!HandlerReturns, L!Outcomes, Runs
<1> QED
  BY <1>2, <1>3

LEMMA FinishReleaseImplements ==
  ASSUME Ownership, NEW w \in Workers, FinishRelease(w), NEW id \in Ids
  PROVE  L(id)!LifeNext \/ UNCHANGED L(id)!lifeVars
<1> TypeOK
  BY DEF Ownership
<1>1. /\ wpc[w] \in RunStages /\ wpc[w] = "finishing" /\ EndRun(w, Released(witem[w]))
      /\ UNCHANGED <<row, ch, delayed, cpc, citem>> /\ witem[w] \in Items /\ witem[w].id \in Ids
  BY DEF FinishRelease, RunStages, TypeOK, Items
<1>2. CASE witem[w].id # id
  BY <1>1, <1>2, OtherRunIsOver
<1>3. CASE witem[w].id = id
  <2>1. L(id)!EndRun(w, "none", 0)
    BY <1>1, <1>3, RunIsOver
  <2>2. StageOf(id)[w] = wpc[w]
    BY <1>1, <1>3, RunSeen
  <2>3. L(id)!FinishRelease(w)
    BY <1>1, <2>1, <2>2 DEF L!FinishRelease, StageOf
  <2> QED
    BY <2>3 DEF L!LifeNext, L!RunStep, Runs
<1> QED
  BY <1>2, <1>3

LEMMA FinishWriteImplements ==
  ASSUME Ownership, NEW w \in Workers, NEW outcome \in Outcomes, NEW landed \in BOOLEAN,
         FinishWrite(w, outcome, landed), NEW id \in Ids
  PROVE  L(id)!LifeNext \/ UNCHANGED L(id)!lifeVars
<1> TypeOK
  BY DEF Ownership
<1> DEFINE act == Decide(outcome, witem[w].attempt, MaxAttempts)
           failed == [status |-> "failed", attempts |-> witem[w].attempt]
<1>1. /\ wpc[w] = "handling" /\ wpc[w] \in RunStages /\ witem[w].id \in Ids /\ Owns(witem[w])
      /\ ~act.redispatch
      /\ UNCHANGED <<inflight, ch, witem, delayed, cpc, citem>>
      /\ wpc'[w] = "finishing" /\ \A v \in Workers \ {w} : wpc'[v] = wpc[v] /\ witem'[v] = witem[v]
      /\ row' = IF ~landed THEN row
                ELSE IF act.markFailed THEN [row EXCEPT ![witem[w].id] = failed]
                ELSE [row EXCEPT ![witem[w].id].status = "ready"]
  BY DEF FinishWrite, TypeOK, Items, claimVars, callerVars, RunStages
<1> HIDE DEF act
<1>2. CASE witem[w].id # id
  <2>1. row'[id] = row[id]
    BY <1>1, <1>2 DEF TypeOK
  <2> QED
    BY <1>1, <1>2, <2>1, OthersUnaffected DEF RunStages
<1>3. CASE witem[w].id = id
  <2>1. RunOf(id)' = RunOf(id) /\ w \in RunOf(id) /\ w \in LiveOf(id)
    BY <1>1, <1>3 DEF RunOf, LiveOf, RunStages
  <2>2. LiveOf(id)' = LiveOf(id)
    BY <1>1, <2>1 DEF LiveOf, Owns
  <2>3. WorkOf(id)' = WorkOf(id) /\ WorkOf(id) = "held" /\ NextOf(id)' = NextOf(id)
    BY <1>1, <2>1, <2>2, OneLive DEF WorkOf, NextOf, Claimed
  <2>4. StageOf(id)' = [StageOf(id) EXCEPT ![w] = "finishing"]
    BY <1>1, <2>1, SlotMoves
  <2>8. AttemptOf(id)' = AttemptOf(id)
    BY <1>1, <2>1 DEF AttemptOf
  <2>5. StageOf(id)[w] = "handling" /\ AttemptOf(id)[w] = witem[w].attempt
    BY <1>1, <2>1 DEF StageOf, AttemptOf
  <2>6. row'[id] = IF ~landed THEN row[id]
                   ELSE IF act.markFailed THEN failed ELSE [row[id] EXCEPT !.status = "ready"]
    BY <1>1, <1>3 DEF TypeOK
  <2>7. L(id)!FinishWrite(w, outcome, landed)
    BY <1>1, <2>1, <2>2, <2>3, <2>4, <2>5, <2>6, <2>8
    DEF L!FinishWrite, L!Decide, Decide, act, StageOf, AttemptOf
  <2> QED
    BY <2>7 DEF L!LifeNext, L!RunStep, L!HandlerReturns, L!Outcomes, Outcomes, Runs
<1> QED
  BY <1>2, <1>3

LEMMA RedispatchImplements ==
  ASSUME Ownership, Ownership', NEW w \in Workers, NEW outcome \in Outcomes, NEW landed \in BOOLEAN,
         Redispatch(w, outcome, landed), NEW id \in Ids
  PROVE  L(id)!LifeNext \/ UNCHANGED L(id)!lifeVars
<1> TypeOK
  BY DEF Ownership
<1> DEFINE act == Decide(outcome, witem[w].attempt, MaxAttempts)
           again == [witem[w] EXCEPT !.attempt = act.next]
<1>1. /\ wpc[w] = "handling" /\ wpc[w] \in RunStages /\ witem[w] \in Items /\ witem[w].id \in Ids
      /\ Owns(witem[w]) /\ act.redispatch /\ EndRun(w, inflight)
      /\ delayed' = delayed \cup {again}
      /\ UNCHANGED <<ch, cpc, citem>>
      /\ row' = IF landed THEN [row EXCEPT ![witem[w].id] = Pending(act.next)] ELSE row
  BY DEF Redispatch, TypeOK, Items, RunStages
<1> HIDE DEF act
<1>2. again.id = witem[w].id /\ again.token = witem[w].token /\ again.attempt = act.next
  BY <1>1 DEF Items
<1> HIDE DEF again
<1>3. CASE witem[w].id # id
  <2>1. row'[id] = row[id] /\ \A it : it.id = id => (it \in delayed' <=> it \in delayed)
    BY <1>1, <1>2, <1>3 DEF TypeOK
  <2> QED
    BY <1>1, <1>3, <2>1, OtherRunIsOver
<1>4. CASE witem[w].id = id
  <2>1. /\ inflight'[id].token = inflight[id].token
        /\ \A v \in Workers \ {w} : wpc'[v] = wpc[v] /\ witem'[v] = witem[v]
        /\ wpc'[w] \notin RunStages
    BY <1>1, EndRunEffect DEF TypeOK
  <2>2. w \in LiveOf(id) /\ StageOf(id)[w] = "handling" /\ AttemptOf(id)[w] = witem[w].attempt
    BY <1>1, <1>4, RunSeen
  <2>3. LiveOf(id) = {w}
    BY <2>2, OneLive
  <2>4. PICK it : it = again /\ it \in delayed'
    BY <1>1
  <2>5. it \in ItemsFor(id)'
    BY <1>1, <1>2, <1>4, <2>1, <2>4, ItemsAreNext DEF OnTheWay, Owns
  <2>6. LiveOf(id)' = {} /\ WorkOf(id)' = "waiting" /\ NextOf(id)' = act.next
    BY <1>2, <2>4, <2>5, WorkIsWaitingNext
  <2>7. w \notin RunOf(id)'
    BY <2>1 DEF RunOf
  <2>8. StageOf(id)' = [StageOf(id) EXCEPT ![w] = "off"] /\ AttemptOf(id)' = [AttemptOf(id) EXCEPT ![w] = 0]
    BY <2>1, <2>7, SlotMoves
  <2>9. row'[id] = IF landed THEN Pending(act.next) ELSE row[id]
    BY <1>1, <1>4 DEF TypeOK
  <2>10. L(id)!Decide(outcome, AttemptOf(id)[w], MaxAttempts) = act
    BY <2>2 DEF L!Decide, Decide, act
  <2>11. L(id)!Pending(act.next) = Pending(act.next)
    BY DEF L!Pending, Pending
  <2>12. L(id)!Redispatch(w, outcome, landed)
    BY <1>1, <2>2, <2>3, <2>6, <2>8, <2>9, <2>10, <2>11 DEF L!Redispatch, L!EndRun, StageOf, AttemptOf
  <2> QED
    BY <2>12 DEF L!LifeNext, L!RunStep, L!HandlerReturns, L!Outcomes, Outcomes, Runs
<1> QED
  BY <1>3, <1>4

LEMMA WorkerImplements ==
  ASSUME Conduct, Conduct', NEW w \in Workers, WorkerNext(w), NEW id \in Ids
  PROVE  L(id)!LifeNext \/ UNCHANGED L(id)!lifeVars
<1> Ownership /\ Ownership'
  BY DEF Conduct
<1>1. CASE Receive(w) \/ ReceiveDrained(w) \/ StopWorker(w) \/ SkipStaleItem(w) \/ BeginRun(w)
  BY <1>1, ReceiveImplements, ReceiveDrainedImplements, StopImplements, BeginRunImplements
<1>2. CASE EnterRunningWrite(w) \/ MarkRunning(w) \/ RunningWriteFails(w) \/ FinishRelease(w)
  BY <1>2, RunningImplements, RunningWriteFailsImplements, FinishReleaseImplements
<1>3. CASE \E outcome \in Outcomes : HandlerReturns(w, outcome)
  BY <1>3, DiscardImplements, FinishWriteImplements, RedispatchImplements DEF HandlerReturns
<1> QED
  BY <1>1, <1>2, <1>3 DEF WorkerNext

\* A goroutine takes a claim of its own, to be carried to the channel.
LEMMA NewClaimSeen ==
  ASSUME Ownership', NEW id \in Ids, NEW it, it.id = id, inflight'[id].token = it.token,
         NEW c \in Threads, Carrying(c)', citem'[c] = it, wpc' = wpc, witem' = witem
  PROVE  /\ WorkOf(id)' = "waiting" /\ NextOf(id)' = it.attempt /\ LiveOf(id)' = {}
         /\ StageOf(id)' = StageOf(id) /\ AttemptOf(id)' = AttemptOf(id)
<1>1. it \in ItemsFor(id)'
  BY ItemsAreNext DEF OnTheWay
<1>2. RunOf(id)' = RunOf(id)
  BY DEF RunOf
<1> QED
  BY <1>1, <1>2, WorkIsWaitingNext DEF StageOf, AttemptOf

\* ... and leaves every other reading as it is.
LEMMA OthersKeepClaims ==
  ASSUME TypeOK, NEW id \in Ids, NEW other \in Ids, id # other, NEW done, Claim(other, done),
         wpc' = wpc, witem' = witem, row' = row, ch' = ch, delayed' = delayed,
         NEW c \in Threads, ~Carrying(c), citem'[c].id = other,
         \A d \in Threads \ {c} : cpc'[d] = cpc[d] /\ citem'[d] = citem[d]
  PROVE  UNCHANGED L(id)!lifeVars
<1>1. inflight'[id] = inflight[id]
  BY DEF Claim, TypeOK
<1>2. \A it : it.id = id => (OnTheWay(it)' <=> OnTheWay(it))
  BY DEF OnTheWay, Carrying
<1> QED
  BY <1>1, <1>2, Unaffected

\* Submit and Sweep claim what nobody has claimed.
LEMMA AcceptImplements ==
  ASSUME Ownership, Ownership', NEW c \in Threads, ~Carrying(c),
         NEW it \in Items, ~Claimed(it.id), it.attempt \in {0, row[it.id].attempts}, it.attempt < MaxAttempts,
         Claim(it.id, NoRun), Carrying(c)', citem'[c] = Stamped(it),
         wpc' = wpc, witem' = witem, row' = row, ch' = ch, delayed' = delayed,
         \A d \in Threads \ {c} : cpc'[d] = cpc[d] /\ citem'[d] = citem[d],
         NEW id \in Ids
  PROVE  L(id)!LifeNext \/ UNCHANGED L(id)!lifeVars
<1> TypeOK /\ TokensGivenOut
  BY DEF Ownership
<1>1. /\ it.id \in Ids /\ it.attempt \in Nat
      /\ inflight'[it.id].token = nextToken + 1
      /\ \A s : s = Stamped(it) => s.id = it.id /\ s.token = nextToken + 1 /\ s.attempt = it.attempt
  BY DEF Items, Claim, Stamped, TypeOK
<1>2. CASE it.id # id
  BY <1>1, <1>2, OthersKeepClaims
<1>3. CASE it.id = id
  <2>1. PICK s : s = Stamped(it)
    OBVIOUS
  <2>2. /\ WorkOf(id)' = "waiting" /\ NextOf(id)' = it.attempt /\ LiveOf(id)' = {}
        /\ StageOf(id)' = StageOf(id) /\ AttemptOf(id)' = AttemptOf(id)
    BY <1>1, <1>3, <2>1, NewClaimSeen
  <2>3. WorkOf(id) = "none" /\ LiveOf(id) = {}
    BY <1>3 DEF WorkOf, LiveOf, RunOf, Claimed, Owns, TokensGivenOut, Busy, RunStages
  <2>4. it.attempt \in 0 .. MaxAttempts - 1
    BY <1>1, DispatcherAssumption
  <2>5. L(id)!Accept(it.attempt)
    BY <1>3, <2>2, <2>3 DEF L!Accept, StageOf, AttemptOf
  <2> QED
    BY <2>4, <2>5 DEF L!LifeNext
<1> QED
  BY <1>2, <1>3

LEMMA SubmitImplements ==
  ASSUME Conduct, Conduct', NEW c \in Callers, SubmitDuplicate(c) \/ SubmitClaim(c), NEW id \in Ids
  PROVE  L(id)!LifeNext \/ UNCHANGED L(id)!lifeVars
<1> Ownership /\ Ownership' /\ TypeOK /\ c \in Threads /\ MaxAttempts > 0
  BY DispatcherAssumption DEF Conduct, Ownership, Threads
<1>1. ~Carrying(c) /\ citem[c] \in Items /\ citem[c].attempt = 0
      /\ UNCHANGED <<row, ch, wpc, witem, delayed>>
  BY DEF SubmitDuplicate, SubmitClaim, Carrying, TypeOK, Conduct, FreshSubmits, workerVars
<1>2. \A d \in Threads \ {c} : cpc'[d] = cpc[d] /\ citem'[d] = citem[d]
  BY DEF SubmitDuplicate, SubmitClaim, TypeOK
<1>3. CASE SubmitDuplicate(c)
  <2>1. ~Carrying(c)' /\ inflight' = inflight
    BY <1>3 DEF SubmitDuplicate, Carrying, TypeOK, claimVars
  <2>2. \A it : OnTheWay(it)' <=> OnTheWay(it)
    BY <1>1, <1>2, <2>1 DEF OnTheWay, Carrying
  <2> QED
    BY <1>1, <2>1, <2>2, Unaffected
<1>4. CASE SubmitClaim(c)
  <2>1. /\ Carrying(c)' /\ ~Claimed(citem[c].id) /\ Claim(citem[c].id, NoRun)
        /\ citem'[c] = Stamped(citem[c])
    BY <1>4 DEF SubmitClaim, Carrying, TypeOK
  <2>2. PICK it \in Items : it = citem[c]
    BY <1>1
  <2> QED
    BY <1>1, <1>2, <2>1, <2>2, AcceptImplements DEF Stamped
<1> QED
  BY <1>3, <1>4

LEMMA ResetImplements ==
  ASSUME Ownership, NEW c \in Callers,
         (\E i \in Ids : ResetRow(c, i) \/ ResetRowFails(c, i)) \/ BeforeQueue(c), NEW id \in Ids
  PROVE  L(id)!LifeNext \/ UNCHANGED L(id)!lifeVars
<1> TypeOK /\ c \in Threads
  BY DEF Ownership, Threads
<1>1. PICK i \in Ids : row' = Reset(i)
  BY DEF ResetRow, ResetRowFails, BeforeQueue, TypeOK, Items
<1>2. UNCHANGED <<inflight, ch, wpc, witem, delayed>>
  BY DEF ResetRow, ResetRowFails, BeforeQueue, claimVars, workerVars
<1>3. \A d \in Threads : Carrying(d)' = Carrying(d) /\ (Carrying(d) => citem'[d] = citem[d])
  BY DEF ResetRow, ResetRowFails, BeforeQueue, TypeOK, Carrying, callerVars
<1>4. \A it : OnTheWay(it)' <=> OnTheWay(it)
  BY <1>2, <1>3 DEF OnTheWay
<1>5. CASE id = i
  <2>1. row'[id] = Pending(0)
    BY <1>1, <1>5 DEF Reset, TypeOK
  <2> QED
    BY <1>2, <1>4, <2>1, OnlyReset
<1>6. CASE id # i
  <2>1. row'[id] = row[id]
    BY <1>1, <1>6 DEF Reset, TypeOK
  <2> QED
    BY <1>2, <1>4, <2>1, Unaffected
<1> QED
  BY <1>5, <1>6

LEMMA ForceClaimImplements ==
  ASSUME Ownership, Ownership', NEW c \in Callers, NEW i \in Ids, ForceClaim(c, i), NEW id \in Ids
  PROVE  L(id)!LifeNext \/ UNCHANGED L(id)!lifeVars
<1> TypeOK /\ c \in Threads
  BY DEF Ownership, Threads
<1>1. /\ ~Carrying(c) /\ MuFree /\ Claim(i, inflight[i].done) /\ Carrying(c)'
      /\ citem'[c] = [id |-> i, attempt |-> 0, token |-> nextToken + 1]
      /\ UNCHANGED <<row, ch, wpc, witem, delayed>>
      /\ \A d \in Threads \ {c} : cpc'[d] = cpc[d] /\ citem'[d] = citem[d]
  BY DEF ForceClaim, Carrying, TypeOK
<1>2. CASE i # id
  <2>1. citem'[c].id = i
    BY <1>1
  <2> QED
    BY <1>1, <1>2, <2>1, OthersKeepClaims
<1>3. CASE i = id
  <2>1. inflight'[id].token = nextToken + 1
    BY <1>1, <1>3 DEF Claim, TypeOK
  <2>2. PICK it : it = [id |-> i, attempt |-> 0, token |-> nextToken + 1]
    OBVIOUS
  <2>3. /\ WorkOf(id)' = "waiting" /\ NextOf(id)' = 0 /\ LiveOf(id)' = {}
        /\ StageOf(id)' = StageOf(id) /\ AttemptOf(id)' = AttemptOf(id)
    BY <1>1, <1>3, <2>1, <2>2, NewClaimSeen
  <2>4. \A w \in Workers : StageOf(id)[w] # "finishing"
    BY <1>1 DEF StageOf, MuFree
  <2>5. L(id)!Replace
    BY <1>1, <2>3, <2>4 DEF L!Replace, L!Settling, Runs, StageOf, AttemptOf
  <2> QED
    BY <2>5 DEF L!LifeNext
<1> QED
  BY <1>2, <1>3

LEMMA AwaitImplements ==
  ASSUME Ownership, NEW c \in Callers, AwaitDrained(c) \/ AwaitTimeout(c), NEW id \in Ids
  PROVE  UNCHANGED L(id)!lifeVars
<1> TypeOK /\ c \in Threads
  BY DEF Ownership, Threads
<1>1. UNCHANGED <<row, inflight, ch, wpc, witem, delayed, citem>>
  BY DEF AwaitDrained, AwaitTimeout, claimVars, workerVars
<1>2. \A d \in Threads : Carrying(d)' = Carrying(d)
  BY DEF AwaitDrained, AwaitTimeout, TypeOK, Carrying
<1>3. \A it : OnTheWay(it)' <=> OnTheWay(it)
  BY <1>1, <1>2 DEF OnTheWay
<1> QED
  BY <1>1, <1>3, Unaffected

\* A goroutine lets go of the item it carries, and of its claim.
LEMMA LetGoImplements ==
  ASSUME Ownership, NEW c \in Threads, Carrying(c), ~Carrying(c)', NEW it \in Items, it = citem[c],
         inflight' = Released(it), UNCHANGED <<ch, wpc, witem, delayed>>,
         \A d \in Threads \ {c} : cpc'[d] = cpc[d] /\ citem'[d] = citem[d],
         row' = row \/ (row' = Reset(it.id) /\ Owns(it)), NEW id \in Ids
  PROVE  L(id)!LifeNext \/ UNCHANGED L(id)!lifeVars
<1> TypeOK /\ it.id \in Ids
  BY DEF Ownership, Items
<1>1. CASE id = it.id /\ Owns(it)
  <2>1. it \in ItemsFor(id)
    BY <1>1, ItemsAre DEF OnTheWay
  <2>2. ~Claimed(id)'
    BY <1>1, ReleasedEffect DEF Claimed, NoClaim, TypeOK
  <2>3. row'[id] \in {row[id], Pending(0)}
    BY <1>1 DEF Reset, TypeOK
  <2> QED
    BY <2>1, <2>2, <2>3, WaitingGivenUp
<1>2. CASE ~(id = it.id /\ Owns(it))
  <2>1. inflight'[id] = inflight[id] /\ row'[id] = row[id]
    BY <1>2, ReleasedEffect DEF Reset, TypeOK
  <2>2. \A other : other.id = id /\ Owns(other) => (OnTheWay(other)' <=> OnTheWay(other))
    BY <1>2 DEF OnTheWay, Carrying
  <2> QED
    BY <2>1, <2>2, Unaffected
<1> QED
  BY <1>1, <1>2

LEMMA ForceFailsImplements ==
  ASSUME Ownership, NEW c \in Callers, ForceFails(c), NEW id \in Ids
  PROVE  L(id)!LifeNext \/ UNCHANGED L(id)!lifeVars
<1> TypeOK /\ ForceOwnsClaim /\ c \in Threads
  BY DEF Ownership, Threads
<1>1. /\ Carrying(c) /\ ~Carrying(c)' /\ citem[c] \in Items /\ Owns(citem[c])
      /\ inflight' = Released(citem[c]) /\ UNCHANGED <<ch, wpc, witem, delayed>>
      /\ \A d \in Threads \ {c} : cpc'[d] = cpc[d] /\ citem'[d] = citem[d]
      /\ row' = row \/ row' = Reset(citem[c].id)
  BY DEF ForceFails, Carrying, TypeOK, ForceOwnsClaim, ForceStages, workerVars
<1>2. PICK it \in Items : it = citem[c]
  BY <1>1
<1> QED
  BY <1>1, <1>2, LetGoImplements

LEMMA EnqueueImplements ==
  ASSUME Ownership, NEW c \in Callers, Enqueue(c), NEW id \in Ids
  PROVE  L(id)!LifeNext \/ UNCHANGED L(id)!lifeVars
<1> TypeOK /\ c \in Threads
  BY DEF Ownership, Threads
<1>1. /\ Carrying(c) /\ ~Carrying(c)' /\ citem[c] \in Items /\ QueueClaimed(citem[c])
      /\ UNCHANGED <<row, wpc, witem, delayed>>
      /\ \A d \in Threads \ {c} : cpc'[d] = cpc[d] /\ citem'[d] = citem[d]
  BY DEF Enqueue, Carrying, TypeOK, workerVars
<1>2. PICK it \in Items : it = citem[c] /\ QueueClaimed(it)
  BY <1>1 DEF QueueClaimed, Owns, Released, GivenUp
<1>3. OnTheWay(it)
  BY <1>1, <1>2 DEF OnTheWay
<1>4. \A other : other # it =>
           (\/ \E d \in Threads : Carrying(d)' /\ citem'[d] = other
            \/ other \in delayed') <=>
           (\/ \E d \in Threads : Carrying(d) /\ citem[d] = other
            \/ other \in delayed)
  BY <1>1, <1>2 DEF Carrying
<1> QED
  BY <1>1, <1>2, <1>3, <1>4, QueueImplements

LEMMA CallerImplements ==
  ASSUME Conduct, Conduct', NEW c \in Callers, CallerNext(c), NEW id \in Ids
  PROVE  L(id)!LifeNext \/ UNCHANGED L(id)!lifeVars
<1> Ownership /\ Ownership'
  BY DEF Conduct
<1> QED
  BY SubmitImplements, ResetImplements, ForceClaimImplements, AwaitImplements, ForceFailsImplements,
     EnqueueImplements DEF CallerNext

LEMMA FireImplements ==
  ASSUME Ownership, NEW it \in delayed, FireDelay(it), NEW id \in Ids
  PROVE  L(id)!LifeNext \/ UNCHANGED L(id)!lifeVars
<1> TypeOK /\ it \in Items
  BY DEF Ownership, TypeOK
<1>1. /\ QueueClaimed(it) /\ OnTheWay(it) /\ delayed' = delayed \ {it}
      /\ UNCHANGED <<row, wpc, witem, cpc, citem>>
  BY DEF FireDelay, OnTheWay, workerVars, callerVars
<1>2. \A other : other # it =>
           (\/ \E d \in Threads : Carrying(d)' /\ citem'[d] = other
            \/ other \in delayed') <=>
           (\/ \E d \in Threads : Carrying(d) /\ citem[d] = other
            \/ other \in delayed)
  BY <1>1 DEF Carrying
<1> QED
  BY <1>1, <1>2, QueueImplements

LEMMA SweepImplements ==
  ASSUME Conduct, Conduct', SweepNext, NEW id \in Ids
  PROVE  L(id)!LifeNext \/ UNCHANGED L(id)!lifeVars
<1> Ownership /\ Ownership' /\ TypeOK /\ SweeperStages /\ Sweeper \in Threads
  BY DEF Conduct, Ownership, Threads
<1>1. ASSUME NEW it \in backlog, SweepClaim(it)
      PROVE  L(id)!LifeNext \/ UNCHANGED L(id)!lifeVars
  <2>1. it \in Items /\ it.attempt = row[it.id].attempts /\ it.attempt < MaxAttempts
    BY DEF TypeOK, Conduct, SweepAlone, AttemptBudget
  <2>2. /\ ~Carrying(Sweeper) /\ ~Claimed(it.id) /\ Claim(it.id, NoRun) /\ Carrying(Sweeper)'
        /\ citem'[Sweeper] = Stamped(it) /\ UNCHANGED <<row, ch, wpc, witem, delayed>>
        /\ \A d \in Threads \ {Sweeper} : cpc'[d] = cpc[d] /\ citem'[d] = citem[d]
    BY <1>1 DEF SweepClaim, Carrying, TypeOK, workerVars
  <2> QED
    BY <2>1, <2>2, AcceptImplements
<1>2. CASE SweepSend
  <2>1. /\ ch' = Append(ch, citem[Sweeper]) /\ citem[Sweeper] \in Items
        /\ Carrying(Sweeper) /\ ~Carrying(Sweeper)' /\ UNCHANGED <<row, inflight, wpc, witem, delayed>>
        /\ \A d \in Threads \ {Sweeper} : cpc'[d] = cpc[d] /\ citem'[d] = citem[d]
    BY <1>2 DEF SweepSend, Carrying, TypeOK, claimVars, workerVars
  <2>2. \A it : (\E i \in DOMAIN ch' : ch'[i] = it)
                  <=> it = citem[Sweeper] \/ \E i \in DOMAIN ch : ch[i] = it
    BY <2>1, Appended
  <2>3. \A it : OnTheWay(it)' <=> OnTheWay(it)
    BY <2>1, <2>2 DEF OnTheWay, Carrying
  <2> QED
    BY <2>1, <2>3, Unaffected
<1>3. CASE SweepDone
  <2>1. UNCHANGED <<row, inflight, ch, wpc, witem, delayed, cpc, citem>>
    BY <1>3 DEF SweepDone, claimVars, workerVars, callerVars
  <2>2. \A it : OnTheWay(it)' <=> OnTheWay(it)
    BY <2>1 DEF OnTheWay, Carrying
  <2> QED
    BY <2>1, <2>2, Unaffected
<1>4. CASE SweepAbort
  <2>1. /\ ~Carrying(Sweeper)' /\ UNCHANGED <<row, ch, wpc, witem, delayed>>
        /\ \A d \in Threads \ {Sweeper} : cpc'[d] = cpc[d] /\ citem'[d] = citem[d]
    BY <1>4 DEF SweepAbort, Carrying, TypeOK, workerVars
  <2>2. CASE cpc[Sweeper] = "send"
    <3>1. Carrying(Sweeper) /\ citem[Sweeper] \in Items /\ inflight' = Released(citem[Sweeper])
      BY <1>4, <2>2 DEF SweepAbort, Carrying, TypeOK
    <3>2. PICK it \in Items : it = citem[Sweeper]
      BY <3>1
    <3> QED
      BY <2>1, <3>1, <3>2, LetGoImplements
  <2>3. CASE cpc[Sweeper] = "idle"
    <3>1. ~Carrying(Sweeper) /\ inflight' = inflight
      BY <1>4, <2>3 DEF SweepAbort, Carrying
    <3>2. \A it : OnTheWay(it)' <=> OnTheWay(it)
      BY <2>1, <3>1 DEF OnTheWay, Carrying
    <3> QED
      BY <2>1, <3>1, <3>2, Unaffected
  <2> QED
    BY <2>2, <2>3 DEF SweeperStages
<1> QED
  BY <1>1, <1>2, <1>3, <1>4 DEF SweepNext

LEMMA RestartImplements ==
  ASSUME Restart, NEW id \in Ids
  PROVE  L(id)!LifeNext
<1> PICK overdue \in SUBSET Ids : Boot(row, overdue) /\ row' = row
  BY DEF Restart
<1>1. inflight'[id].token = 0 /\ \A w \in Workers : wpc'[w] \notin RunStages
  BY DEF Boot, NoClaim, RunStages
<1>2. RunOf(id)' = {} /\ LiveOf(id)' = {}
  BY <1>1 DEF RunOf, LiveOf
<1>3. WorkOf(id)' = "none" /\ NextOf(id)' = 0
  BY <1>1 DEF WorkOf, NextOf, Claimed
<1>4. L(id)!Crash
  BY <1>2, <1>3 DEF L!Crash, Runs
<1> QED
  BY <1>4 DEF L!LifeNext

LEMMA IdleImplements ==
  ASSUME UNCHANGED <<row, inflight, ch, wpc, witem, delayed, cpc, citem>>, NEW id \in Ids
  PROVE  UNCHANGED L(id)!lifeVars
<1>1. \A it : OnTheWay(it)' <=> OnTheWay(it)
  BY DEF OnTheWay, Carrying
<1> QED
  BY <1>1, Unaffected

LEMMA InitImplements == Init => \A id \in Ids : L(id)!LifeInit
<1> SUFFICES ASSUME Init, NEW id \in Ids PROVE L(id)!LifeInit
  OBVIOUS
<1>1. RunOf(id) = {} /\ LiveOf(id) = {}
  BY DEF Init, RunOf, LiveOf, RunStages
<1>2. WorkOf(id) = "none" /\ NextOf(id) = 0
  BY DEF Init, WorkOf, NextOf, Claimed, NoClaim
<1>3. row[id] \in [status : {"pending", "running", "ready", "failed"}, attempts : 0 .. MaxAttempts - 1]
  BY DEF Init, Statuses
<1> QED
  BY <1>1, <1>2, <1>3 DEF L!LifeInit, Runs

LEMMA NextImplements ==
  Conduct /\ Conduct' /\ [Next]_vars => \A id \in Ids : L(id)!LifeNext \/ UNCHANGED L(id)!lifeVars
<1> SUFFICES ASSUME Conduct, Conduct', [Next]_vars, NEW id \in Ids
             PROVE  L(id)!LifeNext \/ UNCHANGED L(id)!lifeVars
  OBVIOUS
<1>1. CASE \E w \in Workers : WorkerNext(w)
  BY <1>1, WorkerImplements
<1>2. CASE \E c \in Callers : CallerNext(c)
  BY <1>2, CallerImplements
<1>3. CASE \E it \in delayed : FireDelay(it)
  BY <1>3, FireImplements DEF Conduct
<1>4. CASE SweepNext
  BY <1>4, SweepImplements
<1>5. CASE Shutdown
  BY <1>5, IdleImplements DEF Shutdown, claimVars, workerVars, callerVars
<1>6. CASE Restart
  BY <1>6, RestartImplements
<1>7. CASE UNCHANGED vars
  BY <1>7, IdleImplements DEF vars
<1> QED
  BY <1>1, <1>2, <1>3, <1>4, <1>5, <1>6, <1>7 DEF Next, Step

LifeStep == \A id \in Ids : L(id)!LifeNext \/ UNCHANGED L(id)!lifeVars
LifeStart == \A id \in Ids : L(id)!LifeInit

\* For every reading, whatever the goroutines, timers, forced submits, full
\* channels, sweeps, drains and crashes do, the dispatcher does what Lifecycle
\* allows: work that is waiting or held by one live run, passed on with the
\* attempt of the retry policy, and stale runs that only end their write.
THEOREM DispatcherImplements == Spec => ImplementsLifecycle
<1>1. Spec => LifeStart /\ [][LifeStep]_vars
  <2>1. Init => LifeStart
    BY InitImplements DEF LifeStart
  <2>2. Conduct /\ Conduct' /\ [Next]_vars => LifeStep
    BY NextImplements DEF LifeStep
  <2> QED
    BY <2>1, <2>2, ConductInvariant, PTL DEF Spec
<1> QED
  BY <1>1 DEF ImplementsLifecycle, LifeStart, LifeStep
=============================================================================
