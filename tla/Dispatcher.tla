----------------------------- MODULE Dispatcher -----------------------------
(***************************************************************************)
(* internal/dispatch/dispatcher.go: the in-process dispatcher that owns    *)
(* the running of every reading, together with the part of the runtime     *)
(* that starts, sweeps, drains and restarts it.                            *)
(*                                                                         *)
(* A reading id is owned through a claim, an entry of the inflight map     *)
(* stamped with a token that never repeats within a process.  The work     *)
(* itself travels as an item (id, attempt, token): from the goroutine that *)
(* claimed it, through the bounded channel, to a worker, and, on a retry,  *)
(* to a timer and back to the channel.  A forced submit replaces the claim *)
(* by one with a newer token and so orphans the item of the older one.     *)
(*                                                                         *)
(* The callers are the HTTP handlers.  They are the most general client    *)
(* the API has: a caller may reset any row to pending at any time and then *)
(* Submit it (readingops.markPending and SaveReading are unconditional     *)
(* writes), or force it.  ReadingOps narrows them to the real operations.  *)
(***************************************************************************)
EXTENDS Naturals, Sequences, RetryPolicy

CONSTANTS
  Ids,          \* the readings in the store
  Workers,      \* the goroutines of Run
  Callers,      \* the request goroutines that use the dispatcher
  Sweeper,      \* the goroutine that runs Sweep at startup
  Buffer,       \* the capacity of the dispatch channel
  MaxAttempts,  \* Dispatcher.Max
  MaxToken,     \* bound of the model: claims made in one process lifetime
  NoItem,       \* a goroutine that carries no item
  NoRun,        \* a nil done channel: the claim has not begun a run
  Drained       \* a closed done channel: its run has left handle

ASSUME DispatcherAssumption ==
  /\ Buffer \in Nat \ {0}
  /\ MaxAttempts \in Nat \ {0}
  /\ MaxToken \in Nat
  /\ Sweeper \notin Callers
  /\ NoRun # Drained
  /\ NoRun \notin Workers
  /\ Drained \notin Workers

VARIABLES
  row,        \* the store: status and process_attempts of every reading
  inflight,   \* the claim of every reading, NoClaim when the map has no entry
  nextToken,  \* the last token given out
  ch,         \* the dispatch channel
  wpc,        \* where every worker is
  witem,      \* the item a worker has received
  cancelled,  \* the workers whose run context has been cancelled
  delayed,    \* the items whose re-dispatch timer has not fired
  cpc,        \* where every caller (and the sweeper) is
  citem,      \* the item a caller carries
  cwait,      \* the done channel a forced submit waits for
  phase,      \* of the process: sweep, serve, stopping, drain
  backlog,    \* what Sweep listed and has not claimed yet
  dropped     \* history: ids given up since their last claim

storeVars  == row
claimVars  == <<inflight, nextToken>>
workerVars == <<wpc, witem, cancelled>>
callerVars == <<cpc, citem, cwait>>
vars == <<row, inflight, nextToken, ch, wpc, witem, cancelled, delayed,
          cpc, citem, cwait, phase, backlog, dropped>>

-----------------------------------------------------------------------------
(* Values *)

Threads  == Callers \cup {Sweeper}
Statuses == {"pending", "running", "ready", "failed"}
Phases   == {"sweep", "serve", "stopping", "drain"}
Rows     == [status : Statuses, attempts : Nat]
Items    == [id : Ids, attempt : Nat, token : Nat]
DoneRefs == Workers \cup {NoRun, Drained}
Claims   == [token : Nat, done : DoneRefs]

\* Token 0 is never given out, so it marks the absence of a claim.
NoClaim == [token |-> 0, done |-> NoRun]

\* The stages of handle in which a run context exists.
RunStages    == {"begun", "writing", "handling", "finishing"}
WorkerStages == {"recv", "got", "stopped"} \cup RunStages
ForceStages  == {"await", "before", "enqueue"}
CallerStages == {"idle", "submit", "queue", "send"} \cup ForceStages

Pending(attempts) == [status |-> "pending", attempts |-> attempts]

-----------------------------------------------------------------------------
(* The claim map *)

\* inflightMu is held across the store write of a terminal outcome; every
\* other critical section is one step of this specification.
MuFree      == \A w \in Workers : wpc[w] # "finishing"

\* Mutant: ForceSubmitAfter without forceMu.
NoForceMu == TRUE

\* forceMu is held from the forced claim until its item is queued.
ForceMuFree == \A c \in Callers : cpc[c] \notin ForceStages

ChannelHasRoom == Len(ch) < Buffer

Claimed(id) == inflight[id].token # 0
Owns(it)    == inflight[it.id].token = it.token

\* The item of a new claim carries the token that claim takes.
Stamped(it) == [it EXCEPT !.token = nextToken + 1]

Claim(id, done) ==
  /\ nextToken < MaxToken
  /\ nextToken' = nextToken + 1
  /\ inflight' = [inflight EXCEPT ![id] = [token |-> nextToken + 1, done |-> done]]
  /\ dropped' = dropped \ {id}

\* The release of a claim that has been replaced is a no-op.  The context it
\* cancels is always that of a run that has ended, or is the releaser's own.
Released(it) == IF Owns(it) THEN [inflight EXCEPT ![it.id] = NoClaim] ELSE inflight
GivenUp(it)  == IF Owns(it) THEN dropped \cup {it.id} ELSE dropped

\* Mutant: the send grows the queue instead of dropping at capacity.
QueueUnbounded(it) ==
  /\ MuFree
  /\ ch' = IF Owns(it) THEN Append(ch, it) ELSE ch
  /\ UNCHANGED <<claimVars, dropped>>

\* Mutant: a full channel drops the item but keeps its claim.
QueueLeaksClaim(it) ==
  /\ MuFree
  /\ ch' = IF Owns(it) /\ ChannelHasRoom THEN Append(ch, it) ELSE ch
  /\ UNCHANGED <<claimVars, dropped>>

\* queueClaimed: a stale item is forgotten, a full channel ends the claim.
QueueClaimed(it) ==
  /\ MuFree
  /\ UNCHANGED nextToken
  /\ \/ /\ ~Owns(it)
        /\ UNCHANGED <<ch, inflight, dropped>>
     \/ /\ Owns(it)
        /\ ChannelHasRoom
        /\ ch' = Append(ch, it)
        /\ UNCHANGED <<inflight, dropped>>
     \/ /\ Owns(it)
        /\ ~ChannelHasRoom
        /\ inflight' = Released(it)
        /\ dropped' = GivenUp(it)
        /\ UNCHANGED ch

-----------------------------------------------------------------------------
(* Workers: Run and handle *)

\* The deferred end of handle: the context is cancelled and done is closed, so
\* whoever refers to this run's done channel now refers to a closed one.
EndRun(w, claims) ==
  /\ inflight' = [id \in Ids |->
       IF claims[id].done = w THEN [claims[id] EXCEPT !.done = Drained]
                              ELSE claims[id]]
  /\ cwait' = [c \in Threads |-> IF cwait[c] = w THEN Drained ELSE cwait[c]]
  /\ wpc' = [wpc EXCEPT ![w] = IF phase = "drain" THEN "stopped" ELSE "recv"]
  /\ witem' = [witem EXCEPT ![w] = NoItem]
  /\ cancelled' = cancelled \ {w}

Receive(w) ==
  /\ wpc[w] = "recv" /\ phase # "drain" /\ ch # <<>>
  /\ wpc' = [wpc EXCEPT ![w] = "got"]
  /\ witem' = [witem EXCEPT ![w] = Head(ch)]
  /\ ch' = Tail(ch)
  /\ UNCHANGED <<row, inflight, nextToken, cancelled, delayed, callerVars,
                 phase, backlog, dropped>>

\* A receive that races with the cancellation of the worker context.
ReceiveDrained(w) ==
  /\ wpc[w] = "recv" /\ phase = "drain" /\ ch # <<>>
  /\ MuFree
  /\ wpc' = [wpc EXCEPT ![w] = "stopped"]
  /\ ch' = Tail(ch)
  /\ inflight' = Released(Head(ch))
  /\ dropped' = GivenUp(Head(ch))
  /\ UNCHANGED <<row, nextToken, witem, cancelled, delayed, callerVars,
                 phase, backlog>>

StopWorker(w) ==
  /\ wpc[w] = "recv" /\ phase = "drain"
  /\ wpc' = [wpc EXCEPT ![w] = "stopped"]
  /\ UNCHANGED <<row, claimVars, ch, witem, cancelled, delayed, callerVars,
                 phase, backlog, dropped>>

\* Mutant: beginRun that does not compare the token of the item.
BeginRunUnchecked(w) ==
  /\ wpc[w] = "got" /\ MuFree
  /\ inflight' = [inflight EXCEPT ![witem[w].id].done = w]
  /\ wpc' = [wpc EXCEPT ![w] = "begun"]
  /\ UNCHANGED <<row, nextToken, ch, witem, cancelled, delayed, callerVars,
                 phase, backlog, dropped>>

BeginRun(w) ==
  /\ wpc[w] = "got" /\ MuFree /\ Owns(witem[w])
  /\ inflight' = [inflight EXCEPT ![witem[w].id].done = w]
  /\ wpc' = [wpc EXCEPT ![w] = "begun"]
  /\ UNCHANGED <<row, nextToken, ch, witem, cancelled, delayed, callerVars,
                 phase, backlog, dropped>>

SkipStaleItem(w) ==
  /\ wpc[w] = "got" /\ MuFree /\ ~Owns(witem[w])
  /\ wpc' = [wpc EXCEPT ![w] = IF phase = "drain" THEN "stopped" ELSE "recv"]
  /\ witem' = [witem EXCEPT ![w] = NoItem]
  /\ UNCHANGED <<row, claimVars, ch, cancelled, delayed, callerVars,
                 phase, backlog, dropped>>

\* UpdateStatus checks its context when it is entered; the write itself lands
\* in a later step and is not recalled by a cancellation in between.
EnterRunningWrite(w) ==
  /\ wpc[w] = "begun" /\ w \notin cancelled
  /\ wpc' = [wpc EXCEPT ![w] = "writing"]
  /\ UNCHANGED <<row, claimVars, ch, witem, cancelled, delayed, callerVars,
                 phase, backlog, dropped>>

MarkedRunning(it) ==
  [row EXCEPT ![it.id] = [status |-> "running", attempts |-> it.attempt]]

MarkRunning(w) ==
  /\ wpc[w] = "writing"
  /\ row' = MarkedRunning(witem[w])
  /\ wpc' = [wpc EXCEPT ![w] = "handling"]
  /\ UNCHANGED <<claimVars, ch, witem, cancelled, delayed, callerVars,
                 phase, backlog, dropped>>

\* The Running write fails: at once when the context is already cancelled, or
\* later, when the row may have changed although an error was reported.
RunningWriteFails(w) ==
  /\ MuFree
  /\ \/ wpc[w] = "begun" /\ w \in cancelled /\ UNCHANGED row
     \/ wpc[w] = "writing" /\ row' \in {row, MarkedRunning(witem[w])}
  /\ dropped' = GivenUp(witem[w])
  /\ EndRun(w, Released(witem[w]))
  /\ UNCHANGED <<nextToken, ch, delayed, cpc, citem, phase, backlog>>

\* The handler of a replaced claim returns: its result is discarded.
DiscardResult(w) ==
  /\ wpc[w] = "handling" /\ MuFree /\ ~Owns(witem[w])
  /\ EndRun(w, inflight)
  /\ UNCHANGED <<row, nextToken, ch, delayed, cpc, citem, phase, backlog, dropped>>

\* finish, up to its store write.  A lost write (landed = FALSE) is ignored.
FinishWrite(w, outcome, landed) ==
  LET it  == witem[w]
      act == Decide(outcome, it.attempt, MaxAttempts)
  IN  /\ wpc[w] = "handling" /\ MuFree /\ Owns(it)
      /\ ~act.redispatch
      /\ wpc' = [wpc EXCEPT ![w] = "finishing"]
      /\ row' = IF ~landed THEN row
                ELSE IF act.markFailed
                THEN [row EXCEPT ![it.id] = [status |-> "failed", attempts |-> it.attempt]]
                ELSE [row EXCEPT ![it.id].status = "ready"]
      /\ dropped' = IF landed THEN dropped ELSE dropped \cup {it.id}
      /\ UNCHANGED <<claimVars, ch, witem, cancelled, delayed, callerVars,
                     phase, backlog>>

\* finish, from the deletion of the claim to the end of handle.
FinishRelease(w) ==
  /\ wpc[w] = "finishing"
  /\ EndRun(w, Released(witem[w]))
  /\ UNCHANGED <<row, nextToken, ch, delayed, cpc, citem, phase, backlog, dropped>>

\* redispatch: the claim is retained across the delay.
Redispatch(w, outcome, landed) ==
  LET it  == witem[w]
      act == Decide(outcome, it.attempt, MaxAttempts)
  IN  /\ wpc[w] = "handling" /\ MuFree /\ Owns(it)
      /\ act.redispatch
      /\ row' = IF landed THEN [row EXCEPT ![it.id] = Pending(act.next)] ELSE row
      /\ delayed' = delayed \cup {[it EXCEPT !.attempt = act.next]}
      /\ EndRun(w, inflight)
      /\ UNCHANGED <<nextToken, ch, cpc, citem, phase, backlog, dropped>>

HandlerReturns(w, outcome) ==
  \/ DiscardResult(w)
  \/ \E landed \in BOOLEAN :
       FinishWrite(w, outcome, landed) \/ Redispatch(w, outcome, landed)

\* The timer of a re-dispatched item fires.
FireDelay(it) ==
  /\ it \in delayed
  /\ delayed' = delayed \ {it}
  /\ QueueClaimed(it)
  /\ UNCHANGED <<row, workerVars, callerVars, phase, backlog>>

-----------------------------------------------------------------------------
(* Callers: Submit and ForceSubmitAfter *)

Reset(id) == [row EXCEPT ![id] = Pending(0)]

\* Before it submits, a caller writes the row pending with a fresh budget.
ResetRow(c, id) ==
  /\ cpc[c] = "idle" /\ phase = "serve"
  /\ row' = Reset(id)
  /\ cpc' = [cpc EXCEPT ![c] = "submit"]
  /\ citem' = [citem EXCEPT ![c] = [id |-> id, attempt |-> 0, token |-> 0]]
  /\ UNCHANGED <<claimVars, ch, workerVars, delayed, cwait, phase, backlog, dropped>>

\* The reset lands but reports an error, and the request ends before Submit.
ResetRowFails(c, id) ==
  /\ cpc[c] = "idle" /\ phase = "serve"
  /\ row' = Reset(id)
  /\ dropped' = dropped \cup {id}
  /\ UNCHANGED <<claimVars, ch, workerVars, delayed, callerVars, phase, backlog>>

\* Mutant: the duplicate check looks at the map without inflightMu.
SubmitDuplicateUnlocked(c) ==
  /\ cpc[c] = "submit" /\ Claimed(citem[c].id)
  /\ cpc' = [cpc EXCEPT ![c] = "idle"]
  /\ citem' = [citem EXCEPT ![c] = NoItem]
  /\ UNCHANGED <<row, claimVars, ch, workerVars, delayed, cwait, phase, backlog, dropped>>

SubmitDuplicate(c) ==
  /\ cpc[c] = "submit" /\ MuFree /\ Claimed(citem[c].id)
  /\ cpc' = [cpc EXCEPT ![c] = "idle"]
  /\ citem' = [citem EXCEPT ![c] = NoItem]
  /\ UNCHANGED <<row, claimVars, ch, workerVars, delayed, cwait, phase, backlog, dropped>>

SubmitClaim(c) ==
  /\ cpc[c] = "submit" /\ MuFree /\ ~Claimed(citem[c].id)
  /\ Claim(citem[c].id, NoRun)
  /\ cpc' = [cpc EXCEPT ![c] = "queue"]
  /\ citem' = [citem EXCEPT ![c] = Stamped(citem[c])]
  /\ UNCHANGED <<row, ch, workerVars, delayed, cwait, phase, backlog>>

\* Mutant: forceClaim that does not cancel the run it replaces.
ForceClaimNoCancel(c, id) ==
  /\ cpc[c] = "idle" /\ phase = "serve" /\ ForceMuFree /\ MuFree
  /\ Claim(id, inflight[id].done)
  /\ cpc' = [cpc EXCEPT ![c] = IF inflight[id].done = NoRun THEN "before" ELSE "await"]
  /\ citem' = [citem EXCEPT ![c] = [id |-> id, attempt |-> 0, token |-> nextToken + 1]]
  /\ cwait' = [cwait EXCEPT ![c] = inflight[id].done]
  /\ UNCHANGED <<row, ch, workerVars, delayed, phase, backlog>>

\* forceClaim: cancel the current run, replace the claim, inherit its done.
ForceClaim(c, id) ==
  LET done == inflight[id].done
  IN  /\ cpc[c] = "idle" /\ phase = "serve" /\ ForceMuFree /\ MuFree
      /\ Claim(id, done)
      /\ cancelled' = cancelled \cup ({done} \cap Workers)
      /\ cpc' = [cpc EXCEPT ![c] = IF done = NoRun THEN "before" ELSE "await"]
      /\ citem' = [citem EXCEPT ![c] = [id |-> id, attempt |-> 0, token |-> nextToken + 1]]
      /\ cwait' = [cwait EXCEPT ![c] = done]
      /\ UNCHANGED <<row, ch, wpc, witem, delayed, phase, backlog>>

AwaitDrained(c) ==
  /\ cpc[c] = "await" /\ cwait[c] = Drained
  /\ cpc' = [cpc EXCEPT ![c] = "before"]
  /\ cwait' = [cwait EXCEPT ![c] = NoRun]
  /\ UNCHANGED <<row, claimVars, ch, workerVars, delayed, citem, phase, backlog, dropped>>

\* Mutant: the wait for the stale handler has no budget.
AwaitForEver(c) == cpc[c] = "await" /\ cwait[c] = Drained /\ AwaitDrained(c)

\* ForceWaitTTL has elapsed: proceed although the stale handler still runs.
AwaitTimeout(c) ==
  /\ cpc[c] = "await" /\ cwait[c] # Drained
  /\ cpc' = [cpc EXCEPT ![c] = "before"]
  /\ cwait' = [cwait EXCEPT ![c] = NoRun]
  /\ UNCHANGED <<row, claimVars, ch, workerVars, delayed, citem, phase, backlog, dropped>>

\* Mutant: an aborted forced submit keeps its replacement claim.
ForceFailsKeepingClaim(c) ==
  /\ cpc[c] \in {"await", "before"} /\ MuFree
  /\ cpc' = [cpc EXCEPT ![c] = "idle"]
  /\ citem' = [citem EXCEPT ![c] = NoItem]
  /\ cwait' = [cwait EXCEPT ![c] = NoRun]
  /\ UNCHANGED <<row, claimVars, ch, workerVars, delayed, phase, backlog, dropped>>

\* The context of the caller is cancelled while it waits, or beforeQueue
\* fails, though its reset may have landed: the replacement claim is released
\* and nothing is queued.
ForceFails(c) ==
  /\ MuFree
  /\ \/ cpc[c] = "await" /\ UNCHANGED row
     \/ cpc[c] = "before" /\ row' \in {row, Reset(citem[c].id)}
  /\ inflight' = Released(citem[c])
  /\ dropped' = GivenUp(citem[c])
  /\ cpc' = [cpc EXCEPT ![c] = "idle"]
  /\ citem' = [citem EXCEPT ![c] = NoItem]
  /\ cwait' = [cwait EXCEPT ![c] = NoRun]
  /\ UNCHANGED <<nextToken, ch, workerVars, delayed, phase, backlog>>

BeforeQueue(c) ==
  /\ cpc[c] = "before"
  /\ row' = Reset(citem[c].id)
  /\ cpc' = [cpc EXCEPT ![c] = "enqueue"]
  /\ UNCHANGED <<claimVars, ch, workerVars, delayed, citem, cwait, phase, backlog, dropped>>

Enqueue(c) ==
  /\ cpc[c] \in {"queue", "enqueue"}
  /\ QueueClaimed(citem[c])
  /\ cpc' = [cpc EXCEPT ![c] = "idle"]
  /\ citem' = [citem EXCEPT ![c] = NoItem]
  /\ UNCHANGED <<row, workerVars, delayed, cwait, phase, backlog>>

-----------------------------------------------------------------------------
(* Startup, Sweep, shutdown, crash *)

ListedItem(id) == [id |-> id, attempt |-> row[id].attempts, token |-> 0]

\* ListNonTerminal: every pending row, and the running ones started before the
\* cutoff; which these are depends on the clock, so any subset may be.
Listed(r, overdue) == {id \in Ids : \/ r[id].status = "pending"
                                    \/ r[id].status = "running" /\ id \in overdue}

\* claim refuses a claimed id; no other goroutine claims before the server
\* serves, so Sweep never meets one.
SweepClaim(it) ==
  /\ phase = "sweep" /\ cpc[Sweeper] = "idle" /\ it \in backlog /\ MuFree
  /\ ~Claimed(it.id)
  /\ Claim(it.id, NoRun)
  /\ backlog' = backlog \ {it}
  /\ cpc' = [cpc EXCEPT ![Sweeper] = "send"]
  /\ citem' = [citem EXCEPT ![Sweeper] = Stamped(it)]
  /\ UNCHANGED <<row, ch, workerVars, delayed, cwait, phase>>

\* Mutant: recovery through the lossy, non-blocking send of the live path.
SweepSendLossy ==
  /\ phase = "sweep" /\ cpc[Sweeper] = "send"
  /\ ch' = IF ChannelHasRoom THEN Append(ch, citem[Sweeper]) ELSE ch
  /\ inflight' = IF ChannelHasRoom THEN inflight ELSE Released(citem[Sweeper])
  /\ cpc' = [cpc EXCEPT ![Sweeper] = "idle"]
  /\ citem' = [citem EXCEPT ![Sweeper] = NoItem]
  /\ UNCHANGED <<row, nextToken, workerVars, delayed, cwait, phase, backlog, dropped>>

\* enqueueRecovered blocks until the channel has room.
SweepSend ==
  /\ phase = "sweep" /\ cpc[Sweeper] = "send" /\ ChannelHasRoom
  /\ ch' = Append(ch, citem[Sweeper])
  /\ cpc' = [cpc EXCEPT ![Sweeper] = "idle"]
  /\ citem' = [citem EXCEPT ![Sweeper] = NoItem]
  /\ UNCHANGED <<row, claimVars, workerVars, delayed, cwait, phase, backlog, dropped>>

SweepDone ==
  /\ phase = "sweep" /\ cpc[Sweeper] = "idle" /\ backlog = {}
  /\ phase' = "serve"
  /\ UNCHANGED <<row, claimVars, ch, workerVars, delayed, callerVars, backlog, dropped>>

\* A signal during the sweep: Sweep returns its context's error, the process
\* cancels the workers and exits.
SweepAbort ==
  /\ phase = "sweep" /\ MuFree
  /\ phase' = "drain"
  /\ backlog' = {}
  /\ LET unswept == dropped \cup {it.id : it \in backlog}
     IN  IF cpc[Sweeper] = "send"
         THEN /\ inflight' = Released(citem[Sweeper])
              /\ dropped' = unswept \cup {citem[Sweeper].id}
         ELSE /\ dropped' = unswept
              /\ UNCHANGED inflight
  /\ cpc' = [cpc EXCEPT ![Sweeper] = "idle"]
  /\ citem' = [citem EXCEPT ![Sweeper] = NoItem]
  /\ UNCHANGED <<row, nextToken, ch, workerVars, delayed, cwait>>

\* The server stops taking requests, then the workers are told to drain: when
\* the requests are done, or when the shutdown timeout has passed.
Shutdown ==
  /\ \/ phase = "serve" /\ phase' = "stopping"
     \/ phase = "stopping" /\ phase' = "drain"
  /\ UNCHANGED <<row, claimVars, ch, workerVars, delayed, callerVars, backlog, dropped>>

\* What a new process starts from: nothing but the rows survives.
Boot(r, overdue) ==
  /\ inflight' = [id \in Ids |-> NoClaim]
  /\ nextToken' = 0
  /\ ch' = <<>>
  /\ wpc' = [w \in Workers |-> "recv"]
  /\ witem' = [w \in Workers |-> NoItem]
  /\ cancelled' = {}
  /\ delayed' = {}
  /\ cpc' = [c \in Threads |-> "idle"]
  /\ citem' = [c \in Threads |-> NoItem]
  /\ cwait' = [c \in Threads |-> NoRun]
  /\ phase' = "sweep"
  /\ backlog' = {ListedItem(id) : id \in Listed(r, overdue)}
  /\ dropped' = {}

\* A crash, or the exit that ends a drain, and the start of the next process.
Restart ==
  /\ \E overdue \in SUBSET Ids : Boot(row, overdue)
  /\ UNCHANGED row

Init ==
  /\ row \in [Ids -> [status : Statuses, attempts : 0 .. MaxAttempts - 1]]
  /\ inflight = [id \in Ids |-> NoClaim]
  /\ nextToken = 0
  /\ ch = <<>>
  /\ wpc = [w \in Workers |-> "recv"]
  /\ witem = [w \in Workers |-> NoItem]
  /\ cancelled = {}
  /\ delayed = {}
  /\ cpc = [c \in Threads |-> "idle"]
  /\ citem = [c \in Threads |-> NoItem]
  /\ cwait = [c \in Threads |-> NoRun]
  /\ phase = "sweep"
  /\ \E overdue \in SUBSET Ids : backlog = {ListedItem(id) : id \in Listed(row, overdue)}
  /\ dropped = {}

WorkerNext(w) ==
  \/ Receive(w) \/ ReceiveDrained(w) \/ StopWorker(w)
  \/ BeginRun(w) \/ SkipStaleItem(w)
  \/ EnterRunningWrite(w) \/ MarkRunning(w) \/ RunningWriteFails(w)
  \/ \E outcome \in Outcomes : HandlerReturns(w, outcome)
  \/ FinishRelease(w)

CallerNext(c) ==
  \/ \E id \in Ids : ResetRow(c, id) \/ ResetRowFails(c, id) \/ ForceClaim(c, id)
  \/ SubmitDuplicate(c) \/ SubmitClaim(c)
  \/ AwaitDrained(c) \/ AwaitTimeout(c) \/ ForceFails(c) \/ BeforeQueue(c)
  \/ Enqueue(c)

SweepNext == (\E it \in backlog : SweepClaim(it)) \/ SweepSend \/ SweepDone \/ SweepAbort

\* One process lifetime.
Step ==
  \/ \E w \in Workers : WorkerNext(w)
  \/ \E c \in Callers : CallerNext(c)
  \/ \E it \in delayed : FireDelay(it)
  \/ SweepNext
  \/ Shutdown

Next == Step \/ Restart

Spec == Init /\ [][Next]_vars

-----------------------------------------------------------------------------
(* Safety *)

\* Every variable has the type its declaration describes; in particular a
\* goroutine in a stage that works on an item has one, and a channel within
\* its capacity holds only items.
TypeOK ==
  /\ row \in [Ids -> Rows]
  /\ inflight \in [Ids -> Claims]
  /\ nextToken \in Nat
  /\ ch \in Seq(Items) /\ Len(ch) <= Buffer
  /\ wpc \in [Workers -> WorkerStages]
  /\ witem \in [Workers -> Items \cup {NoItem}]
  /\ \A w \in Workers : wpc[w] \notin {"recv", "stopped"} => witem[w] \in Items
  /\ cancelled \subseteq Workers
  /\ delayed \subseteq Items
  /\ cpc \in [Threads -> CallerStages]
  /\ citem \in [Threads -> Items \cup {NoItem}]
  /\ \A c \in Threads : cpc[c] # "idle" => citem[c] \in Items
  /\ cwait \in [Threads -> DoneRefs]
  /\ phase \in Phases
  /\ backlog \subseteq Items
  /\ dropped \subseteq Ids

\* A worker, and a caller, that holds an item whose run is still to end.
Busy(w)     == wpc[w] \notin {"recv", "stopped"}
Carrying(c) == cpc[c] \notin {"idle", "submit"}

\* The places that hold the item of a claim.
Carriers(id, token) ==
  {<<"caller", c>> : c \in {d \in Threads : Carrying(d) /\ citem[d].id = id
                                                   /\ citem[d].token = token}}
  \cup {<<"channel", i>> : i \in {j \in DOMAIN ch : ch[j].id = id /\ ch[j].token = token}}
  \cup {<<"worker", w>> : w \in {v \in Workers : Busy(v) /\ witem[v].id = id
                                                        /\ witem[v].token = token}}
  \cup {<<"timer", it>> : it \in {d \in delayed : d.id = id /\ d.token = token}}

\* "Ownership is held from the moment the id is enqueued until its work
\* reaches a terminal outcome": a claim always has exactly one carrier of its
\* item.  With none the id would be owned by nobody for the rest of the
\* process and drop every Submit; with two its pipeline would run twice.
ClaimHasOneCarrier ==
  \A id \in Ids : Claimed(id) =>
    LET places == Carriers(id, inflight[id].token)
    IN  places # {} /\ \A p, q \in places : p = q

\* A run that nobody has cancelled is the run of the current claim, and the
\* claim can reach it: two runs of one reading are never both live, and a
\* forced submit always cancels the right one.
LiveRunOwnsClaim ==
  \A w \in Workers : (wpc[w] \in RunStages /\ w \notin cancelled) =>
    Owns(witem[w]) /\ inflight[witem[w].id].done = w

\* Forced submits are serialised by forceMu so that none loses its replacement
\* claim to another while it waits for the stale handler, resets the row, or
\* queues its item.
ForceOwnsClaim ==
  \A c \in Callers : cpc[c] \in ForceStages => Owns(citem[c])

\* No pending row is forgotten: it is claimed, about to be submitted, or
\* listed by the sweep, unless it was given up since its last claim: full
\* channel, failed or lost store write, failed force, shutdown.  The claim is
\* held until the terminal write has landed exactly so that a reset that
\* follows the write is not dropped as a duplicate.
PendingRowHasWork ==
  \A id \in Ids : row[id].status = "pending" =>
    \/ Claimed(id)
    \/ id \in dropped
    \/ \E c \in Callers : cpc[c] = "submit" /\ citem[c].id = id
    \/ \E it \in backlog : it.id = id

\* "Each resumes at its stored attempt count so Max is honored across
\* restarts": no row or item ever carries an attempt beyond the budget,
\* whatever retries, lost writes, forced submits and restarts happen.
AttemptBudget ==
  /\ \A id \in Ids : row[id].attempts < MaxAttempts
  /\ \A i \in DOMAIN ch : ch[i].attempt < MaxAttempts
  /\ \A w \in Workers : Busy(w) => witem[w].attempt < MaxAttempts
  /\ \A it \in delayed \cup backlog : it.attempt < MaxAttempts
  /\ \A c \in Threads : cpc[c] # "idle" => citem[c].attempt < MaxAttempts

\* "the store ExpectedStartedAt fence makes any late stale write a no-op, so
\* proceeding on timeout is safe" (dispatcher.go, ForceWaitTTL): a reading that
\* has been settled is set running again only by the run that owns its claim.
\* The code does not keep this: the Running write itself is not fenced.
StaleRunCannotReopen ==
  [][\A id \in Ids :
       (row[id].status \in {"ready", "failed"} /\ row'[id].status = "running")
         => \E w \in Workers : /\ wpc[w] = "writing"
                               /\ witem[w].id = id /\ Owns(witem[w])]_vars

-----------------------------------------------------------------------------
(* Fairness and liveness, within one process lifetime.  Init covers every   *)
(* store a crash can have left, so what follows a restart is included.      *)

\* What the Go scheduler, the timers and the store's own timeouts ensure: a
\* goroutine that can take a step does, a timer fires, a store call returns.
\* A blocked sender is handed the slot the next receive frees, hence SF.
SchedulerFairness ==
  /\ \A w \in Workers :
       /\ WF_vars(Receive(w) \/ BeginRun(w) \/ SkipStaleItem(w))
       /\ WF_vars(EnterRunningWrite(w) \/ MarkRunning(w) \/ RunningWriteFails(w))
       /\ WF_vars(FinishRelease(w))
  /\ \A c \in Callers :
       /\ WF_vars(SubmitDuplicate(c) \/ SubmitClaim(c) \/ Enqueue(c))
       /\ WF_vars(AwaitDrained(c) \/ AwaitTimeout(c))
       /\ WF_vars(BeforeQueue(c) \/ (cpc[c] = "before" /\ ForceFails(c)))
  /\ \A id \in Ids :
       /\ WF_vars(\E it \in delayed : it.id = id /\ FireDelay(it))
       /\ WF_vars(\E it \in backlog : it.id = id /\ SweepClaim(it))
  /\ SF_vars(SweepSend)

\* Every fetch, embedding and summary call of the handler has a timeout, and
\* an upstream does not rate-limit one reading for ever.
HandlerFairness ==
  \A w \in Workers, id \in Ids :
    SF_vars(/\ wpc[w] = "handling" /\ witem[w].id = id
            /\ \E outcome \in Outcomes \ {"Requeue"} : HandlerReturns(w, outcome))

Lifetime     == Init /\ [][Step]_vars
FairSpec     == Lifetime /\ SchedulerFairness /\ HandlerFairness
HangingSpec  == Lifetime /\ SchedulerFairness

\* A claim is not held for ever while handlers return: it is released or
\* replaced, through every retry, requeue, lost write and forced submit, unless
\* the workers drain.
ClaimRetires ==
  HandlerFairness =>
    \A id \in Ids, token \in 1 .. MaxToken :
      inflight[id].token = token ~> (inflight[id].token # token \/ phase = "drain")

\* "Recovery is non-lossy": whatever Sweep lists is handed to the handler,
\* even when the backlog exceeds the channel, or its Running write fails.
BacklogIsRun ==
  \A id \in Ids :
    (\E it \in backlog : it.id = id) ~>
      \/ \E w \in Workers : wpc[w] = "handling" /\ witem[w].id = id
      \/ id \in dropped
      \/ phase = "drain"

\* "a stale handler stuck in a non-cancelable call cannot wedge forced
\* recovery": a forced submit comes to its end although no handler returns.
ForceNeverWedges ==
  \A c \in Callers : cpc[c] \in ForceStages ~> cpc[c] \notin ForceStages

=============================================================================
