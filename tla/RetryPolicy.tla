---------------------------- MODULE RetryPolicy ----------------------------
(***************************************************************************)
(* The pure half of internal/dispatch: what an error of a pipeline run     *)
(* means (Classify), and what the dispatcher does next (decide).  Both are *)
(* data-free functions in the source, so they are operators here, used by  *)
(* the state machines of the other modules.                                *)
(***************************************************************************)
EXTENDS Naturals

Outcomes == {"Done", "Retry", "Requeue", "Fail"}

(***************************************************************************)
(* An error is abstracted to the set of markers errors.As and errors.Is    *)
(* find in its chain; a nil error is NoError.                              *)
(***************************************************************************)
Markers == {"ratelimited", "permanent"}
NoError == {"nil"}
Errors  == {NoError} \cup SUBSET Markers

Classify(err) ==
  CASE err = NoError              -> "Done"
    [] "ratelimited" \in err      -> "Requeue"
    [] err = {"permanent"}        -> "Fail"
    [] err = {}                   -> "Retry"

Action == [redispatch : BOOLEAN, markFailed : BOOLEAN, next : Nat]

\* Mutant: the budget test is off by one.
DecideOneMore(outcome, attempt, maxAttempts) ==
  LET retries == outcome = "Retry" /\ attempt + 1 <= maxAttempts
      requeue == outcome = "Requeue"
      spent   == outcome = "Retry" /\ ~retries
  IN  [redispatch |-> requeue \/ retries,
       markFailed |-> outcome = "Fail" \/ spent,
       next       |-> IF retries THEN attempt + 1 ELSE attempt]

Decide(outcome, attempt, maxAttempts) ==
  LET retries == outcome = "Retry" /\ attempt + 1 < maxAttempts
      requeue == outcome = "Requeue"
      spent   == outcome = "Retry" /\ ~retries
  IN  [redispatch |-> requeue \/ retries,
       markFailed |-> outcome = "Fail" \/ spent,
       next       |-> IF retries THEN attempt + 1 ELSE attempt]
=============================================================================
