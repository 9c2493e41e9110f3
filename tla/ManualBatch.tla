---------------------------- MODULE ManualBatch ----------------------------
(***************************************************************************)
(* The batch store of internal/store (memory.go): manual summarization     *)
(* batches and the readings in them.  Each operation is one critical       *)
(* section of Memory.mu, and so one action; a call that ends in            *)
(* ErrConflict, or repeats one that was done, changes nothing.             *)
(*                                                                         *)
(* Counts, URLs and timestamps are left out: no operation decides by them. *)
(* FinishedAt of an item is set exactly when its state is past submitted,  *)
(* SubmittedAt of a batch only in states past planned.                     *)
(***************************************************************************)
EXTENDS Naturals, FiniteSets

CONSTANTS
  Batches,    \* batch ids
  CustomIds,  \* custom_ids of items
  Readings,   \* reading ids
  Remotes,    \* ids of batches at the provider
  Results,    \* result JSON with its error fields
  None        \* the empty remote id, the nil result, no batch, no reading

ASSUME ManualBatchAssumption ==
  None \notin Batches \cup Readings \cup Remotes \cup Results

VARIABLES
  batch,      \* state and remote id of every batch
  item        \* state, batch, reading and result of every item

batchVars == <<batch, item>>

-----------------------------------------------------------------------------

BatchStates == {"absent", "planned", "submitted", "results_ready", "applied", "canceled", "failed"}
ItemStates  == {"absent", "planned", "submitted", "succeeded", "errored", "canceled",
                "expired", "applied", "failed"}

ActiveStates == {"planned", "submitted", "succeeded"}
ResultStates == {"succeeded", "errored", "canceled", "expired"}

NoBatch == [state |-> "absent", remote |-> None]
NoItem  == [state |-> "absent", batch |-> None, reading |-> None, result |-> None]

ItemsOf(b) == {i \in CustomIds : item[i].batch = b}
Active(i)  == item[i].state \in ActiveStates

validBatchTransition(from, to) ==
  \/ from \in {"planned", "submitted", "results_ready"} /\ to \in {"canceled", "failed"}
  \/ from = "submitted" /\ to = "results_ready"
  \/ from = "results_ready" /\ to = "applied"

\* The states that end the items of a batch with it.
Cascades(to) == to \in {"canceled", "failed"}

-----------------------------------------------------------------------------

\* new gives the reading of each custom_id in the batch.
CreatePlannedBatch(b, new) ==
  /\ batch[b].state = "absent"
  /\ \A i \in DOMAIN new :
       /\ item[i].state = "absent"
       /\ \A j \in DOMAIN new : new[i] = new[j] => i = j
       /\ \A j \in CustomIds : Active(j) => item[j].reading # new[i]
  /\ batch' = [batch EXCEPT ![b].state = "planned"]
  /\ item' = [i \in CustomIds |->
                IF i \in DOMAIN new
                THEN [state |-> "planned", batch |-> b, reading |-> new[i], result |-> None]
                ELSE item[i]]

RemoteFree(b, remote) ==
  remote # None => \A other \in Batches \ {b} : batch[other].remote # remote

SubmitBatch(b, remote) ==
  /\ batch[b].state = "planned"
  /\ RemoteFree(b, remote)
  /\ \A i \in ItemsOf(b) : item[i].state = "planned"
  /\ batch' = [batch EXCEPT ![b] = [state |-> "submitted", remote |-> remote]]
  /\ item' = [i \in CustomIds |->
                IF item[i].batch = b THEN [item[i] EXCEPT !.state = "submitted"] ELSE item[i]]

\* A call with the state the batch has only refreshes metadata.
UpdateBatchState(b, to) ==
  /\ validBatchTransition(batch[b].state, to)
  /\ to = "applied" => \A i \in ItemsOf(b) : ~Active(i)
  /\ batch' = [batch EXCEPT ![b].state = to]
  /\ item' = [i \in CustomIds |->
                IF Cascades(to) /\ item[i].batch = b /\ Active(i)
                THEN [item[i] EXCEPT !.state = to] ELSE item[i]]

WriteBatchItemResult(i, state, result) ==
  /\ state \in ResultStates
  /\ item[i].state = "submitted"
  /\ item' = [item EXCEPT ![i] = [@ EXCEPT !.state = state, !.result = result]]
  /\ UNCHANGED batch

MarkBatchItemApplied(i) ==
  /\ item[i].state = "succeeded"
  /\ item' = [item EXCEPT ![i].state = "applied"]
  /\ UNCHANGED batch

Init ==
  /\ batch = [b \in Batches |-> NoBatch]
  /\ item = [i \in CustomIds |-> NoItem]

Next ==
  \/ \E b \in Batches :
       \/ \E ids \in SUBSET CustomIds : \E new \in [ids -> Readings] : CreatePlannedBatch(b, new)
       \/ \E remote \in Remotes \cup {None} : SubmitBatch(b, remote)
       \/ \E to \in BatchStates : UpdateBatchState(b, to)
  \/ \E i \in CustomIds :
       \/ \E state \in ResultStates, result \in Results : WriteBatchItemResult(i, state, result)
       \/ MarkBatchItemApplied(i)

Spec == Init /\ [][Next]_batchVars

-----------------------------------------------------------------------------

\* Batches and items have the states of store.go; an item that exists has a
\* batch and a reading.
TypeOK ==
  /\ batch \in [Batches -> [state : BatchStates, remote : Remotes \cup {None}]]
  /\ item \in [CustomIds -> [state : ItemStates, batch : Batches \cup {None},
                             reading : Readings \cup {None}, result : Results \cup {None}]]
  /\ \A i \in CustomIds :
       item[i].state # "absent" => item[i].batch \in Batches /\ item[i].reading \in Readings
  /\ \A i \in CustomIds : item[i].state = "absent" => item[i] = NoItem

\* "Prevents more than one active batch item per reading" (ACCEPTANCE.md, C8):
\* two items that are planned, submitted or succeeded are of two readings, in
\* whatever batches they are.
OneActiveItemPerReading ==
  \A i, j \in CustomIds : Active(i) /\ Active(j) /\ item[i].reading = item[j].reading => i = j

\* A batch and its items move together: an item is planned while its batch is,
\* waits for its result only while the batch is at the provider, and a batch
\* that was applied, canceled or failed holds no reading any more.
ItemsFollowBatch ==
  \A b \in Batches : \A i \in ItemsOf(b) :
    /\ batch[b].state = "planned" => item[i].state = "planned"
    /\ batch[b].state \in {"submitted", "results_ready"} => item[i].state # "planned"
    /\ batch[b].state \in {"applied", "canceled", "failed"} => ~Active(i)
    /\ batch[b].state # "absent"

\* No two batches stand for the same one at the provider, canceled and failed
\* ones included: results are collected by remote id.
RemoteIdsUnique ==
  \A b, c \in Batches : batch[b].remote = batch[c].remote /\ batch[b].remote # None => b = c

\* A result that was recorded stands, whatever arrives twice or late; an item
\* that has ended is not touched again, and one that was applied had succeeded.
ResultsStand ==
  [][\A i \in CustomIds :
       /\ item[i].result # None => item'[i].result = item[i].result
       /\ item[i].state \notin ActiveStates \cup {"absent"} => item'[i] = item[i]
       /\ item'[i].state = "applied" => item[i].state \in {"succeeded", "applied"}]_batchVars
=============================================================================
