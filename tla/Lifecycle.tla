----------------------------- MODULE Lifecycle -----------------------------
(***************************************************************************)
(* What the dispatcher promises about one reading, without the claim map,  *)
(* the tokens, the channel, the timers and the goroutines it keeps the     *)
(* promise with.  The work of a reading is nobody's, waiting, or held by   *)
(* one live run; a forced submit makes the live run stale, and from then   *)
(* on that run changes nothing but what it had already begun to write.     *)
(*                                                                         *)
(* Dispatcher implements this module for every reading (see DispatcherMap) *)
(* and Processing builds the steps of the pipeline on it.                  *)
(***************************************************************************)
EXTENDS Naturals, RetryPolicy

CONSTANTS Runs,         \* the worker slots a run of this reading may use
          MaxAttempts   \* the retry budget

ASSUME LifecycleAssumption == MaxAttempts \in Nat \ {0}

VARIABLES
  row,      \* status and process_attempts of the reading
  work,     \* none, waiting (claimed, no run yet), held (a run is live)
  next,     \* the attempt the waiting work will run with
  live,     \* the run that owns the work: at most one
  stage,    \* how far every run is, off when the slot runs another reading
  attempt   \* the attempt every run was started with

lifeVars == <<row, work, next, live, stage, attempt>>

RunStages == {"begun", "writing", "handling", "finishing"}
Pending(n) == [status |-> "pending", attempts |-> n]
Running(w) == [status |-> "running", attempts |-> attempt[w]]

\* The slot of a run is free again; if the run was live, the work is passed
\* on as given.
EndRun(w, passedOn, n) ==
  /\ stage' = [stage EXCEPT ![w] = "off"]
  /\ attempt' = [attempt EXCEPT ![w] = 0]
  /\ live' = live \ {w}
  /\ work' = IF w \in live THEN passedOn ELSE work
  /\ next' = IF w \in live THEN n ELSE next

\* A request resets the row, whatever it is.
ResetRow ==
  /\ row' = Pending(0)
  /\ UNCHANGED <<work, next, live, stage, attempt>>

\* Submit starts with a fresh budget, Sweep where the row says.
Accept(n) ==
  /\ work = "none" /\ n \in {0, row.attempts}
  /\ work' = "waiting" /\ next' = n
  /\ UNCHANGED <<row, live, stage, attempt>>

\* A full channel, a drain, a failed forced submit, whose reset may have landed.
GiveUp(reset) ==
  /\ work = "waiting"
  /\ work' = "none" /\ next' = 0
  /\ row' = IF reset THEN Pending(0) ELSE row
  /\ UNCHANGED <<live, stage, attempt>>

\* A run that writes its outcome keeps the claim map locked.
Settling == \E w \in Runs : stage[w] = "finishing"

\* A forced submit: whatever run is live becomes stale.
Replace ==
  /\ ~Settling
  /\ work' = "waiting" /\ next' = 0 /\ live' = {}
  /\ UNCHANGED <<row, stage, attempt>>

Begin(w) ==
  /\ work = "waiting" /\ stage[w] = "off"
  /\ work' = "held" /\ live' = {w} /\ next' = 0
  /\ stage' = [stage EXCEPT ![w] = "begun"]
  /\ attempt' = [attempt EXCEPT ![w] = next]
  /\ UNCHANGED row

EnterRunningWrite(w) ==
  /\ stage[w] = "begun" /\ w \in live
  /\ stage' = [stage EXCEPT ![w] = "writing"]
  /\ UNCHANGED <<row, work, next, live, attempt>>

MarkRunning(w) ==
  /\ stage[w] = "writing"
  /\ row' = Running(w)
  /\ stage' = [stage EXCEPT ![w] = "handling"]
  /\ UNCHANGED <<work, next, live, attempt>>

RunningWriteFails(w) ==
  /\ \/ stage[w] = "begun" /\ w \notin live /\ UNCHANGED row
     \/ stage[w] = "writing" /\ row' \in {row, Running(w)}
  /\ EndRun(w, "none", 0)

Discard(w) ==
  /\ stage[w] = "handling" /\ w \notin live
  /\ EndRun(w, "none", 0)
  /\ UNCHANGED row

FinishWrite(w, outcome, landed) ==
  LET act == Decide(outcome, attempt[w], MaxAttempts)
  IN  /\ stage[w] = "handling" /\ w \in live /\ ~act.redispatch
      /\ stage' = [stage EXCEPT ![w] = "finishing"]
      /\ row' = IF ~landed THEN row
                ELSE IF act.markFailed THEN [status |-> "failed", attempts |-> attempt[w]]
                ELSE [row EXCEPT !.status = "ready"]
      /\ UNCHANGED <<work, next, live, attempt>>

FinishRelease(w) ==
  /\ stage[w] = "finishing"
  /\ EndRun(w, "none", 0)
  /\ UNCHANGED row

\* A retry or a requeue passes the work on, to wait for its timer.
Redispatch(w, outcome, landed) ==
  LET act == Decide(outcome, attempt[w], MaxAttempts)
  IN  /\ stage[w] = "handling" /\ w \in live /\ act.redispatch
      /\ row' = IF landed THEN Pending(act.next) ELSE row
      /\ EndRun(w, "waiting", act.next)

HandlerReturns(w, outcome) ==
  \/ Discard(w)
  \/ \E landed \in BOOLEAN : FinishWrite(w, outcome, landed) \/ Redispatch(w, outcome, landed)

\* The process dies; only the row survives.
Crash ==
  /\ work' = "none" /\ next' = 0 /\ live' = {}
  /\ stage' = [w \in Runs |-> "off"]
  /\ attempt' = [w \in Runs |-> 0]
  /\ UNCHANGED row

LifeInit ==
  /\ row \in [status : {"pending", "running", "ready", "failed"}, attempts : 0 .. MaxAttempts - 1]
  /\ work = "none" /\ next = 0 /\ live = {}
  /\ stage = [w \in Runs |-> "off"]
  /\ attempt = [w \in Runs |-> 0]

RunStep(w) ==
  \/ Begin(w) \/ EnterRunningWrite(w) \/ MarkRunning(w) \/ RunningWriteFails(w)
  \/ \E outcome \in Outcomes : HandlerReturns(w, outcome)
  \/ FinishRelease(w)

LifeNext ==
  \/ ResetRow \/ (\E n \in 0 .. MaxAttempts - 1 : Accept(n)) \/ (\E reset \in BOOLEAN : GiveUp(reset)) \/ Replace
  \/ \E w \in Runs : RunStep(w)
  \/ Crash

LifeSpec == LifeInit /\ [][LifeNext]_lifeVars
=============================================================================
