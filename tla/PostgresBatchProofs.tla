------------------------ MODULE PostgresBatchProofs ------------------------
(***************************************************************************)
(* Proofs about manual batches, for any batches, custom_ids, readings,     *)
(* results and connections: what ManualBatch keeps, and that PostgresBatch *)
(* implements it.                                                          *)
(*                                                                         *)
(* The invariants of ManualBatch are proved together: an item may be made  *)
(* active only because it was not there, an item that waits for a result   *)
(* belongs to a batch that is at the provider, and a result is recorded    *)
(* once because an item that has not ended has none.                       *)
(*                                                                         *)
(* A transaction reads in one step and writes in others, and what it has   *)
(* read may be out of date.  PgInv says what is still true when it         *)
(* commits: TxnOK of one transaction and the tables, because row locks and *)
(* unique keys keep the others away, and PairOK of any two transactions.   *)
(***************************************************************************)
EXTENDS PostgresBatch, TLAPS

-----------------------------------------------------------------------------
(* The operations of ManualBatch *)

USE DEF ItemsOf, Active, ActiveStates, ResultStates, BatchStates, ItemStates

NoEarlyResult ==
  \A i \in CustomIds : item[i].state \in {"absent", "planned", "submitted"} => item[i].result = None

IndInv ==
  /\ TypeOK
  /\ OneActiveItemPerReading
  /\ ItemsFollowBatch
  /\ RemoteIdsUnique
  /\ NoEarlyResult

\* An item whose state alone changes.
LEMMA StateOnly ==
  ASSUME NEW A, NEW B, NEW C, NEW D, NEW x \in [state : A, batch : B, reading : C, result : D],
         NEW s \in A, NEW y, y = [x EXCEPT !.state = s]
  PROVE  /\ y \in [state : A, batch : B, reading : C, result : D]
         /\ y.state = s /\ y.batch = x.batch /\ y.reading = x.reading
  OBVIOUS

-----------------------------------------------------------------------------

\* Nothing exists at first.
LEMMA InitInv == Init => IndInv
  BY ManualBatchAssumption DEF Init, IndInv, TypeOK, OneActiveItemPerReading, ItemsFollowBatch,
     RemoteIdsUnique, NoEarlyResult, NoBatch, NoItem

\* CreatePlannedBatch: the new items are of readings no active item has, and
\* of a batch that had no items.
LEMMA CreateInv ==
  ASSUME IndInv, NEW b \in Batches, NEW ids \in SUBSET CustomIds, NEW new \in [ids -> Readings],
         CreatePlannedBatch(b, new)
  PROVE  IndInv'
<1> USE DEF CreatePlannedBatch
<1>1. TypeOK'
  BY ManualBatchAssumption DEF IndInv, TypeOK, NoItem
<1>2. OneActiveItemPerReading'
  BY DEF IndInv, TypeOK, OneActiveItemPerReading
<1>3. ItemsFollowBatch'
  BY DEF IndInv, TypeOK, ItemsFollowBatch
<1>4. RemoteIdsUnique'
  BY DEF IndInv, TypeOK, RemoteIdsUnique
<1>5. NoEarlyResult'
  BY DEF IndInv, TypeOK, NoEarlyResult
<1> QED BY <1>1, <1>2, <1>3, <1>4, <1>5 DEF IndInv

\* SubmitBatch: the items of the batch are planned, so no item becomes active.
LEMMA SubmitInv ==
  ASSUME IndInv, NEW b \in Batches, NEW remote \in Remotes \cup {None}, SubmitBatch(b, remote)
  PROVE  IndInv'
<1> USE DEF SubmitBatch, RemoteFree
<1>1. TypeOK'
  <2>1. batch' \in [Batches -> [state : BatchStates, remote : Remotes \cup {None}]]
    BY DEF IndInv, TypeOK
  <2>2. ASSUME NEW i \in CustomIds
        PROVE  \/ item'[i] = item[i]
               \/ item[i].batch = b /\ item'[i] = [item[i] EXCEPT !.state = "submitted"]
    BY DEF IndInv, TypeOK
  <2>3. \A i \in CustomIds : item[i].batch = b => item[i].state # "absent"
    BY ManualBatchAssumption DEF IndInv, TypeOK, NoItem
  <2>4. item' = [i \in CustomIds |-> item'[i]]
    BY DEF IndInv, TypeOK
  <2> HIDE DEF SubmitBatch
  <2>5. ASSUME NEW i \in CustomIds
        PROVE  /\ item'[i] \in [state : ItemStates, batch : Batches \cup {None},
                                reading : Readings \cup {None}, result : Results \cup {None}]
               /\ item'[i].state # "absent" => item'[i].batch \in Batches /\ item'[i].reading \in Readings
               /\ item'[i].state = "absent" => item'[i] = NoItem
    <3>1. CASE item'[i] = item[i]
      BY <3>1 DEF IndInv, TypeOK
    <3>2. CASE item'[i] # item[i]
      <4>1. item[i].batch = b /\ item'[i] = [item[i] EXCEPT !.state = "submitted"]
        BY <3>2, <2>2
      <4>2. /\ item[i] \in [state : ItemStates, batch : Batches \cup {None},
                             reading : Readings \cup {None}, result : Results \cup {None}]
            /\ item[i].batch \in Batches /\ item[i].reading \in Readings
        BY <4>1, <2>3 DEF IndInv, TypeOK
      <4> HIDE DEF ItemStates
      <4>3. "submitted" \in ItemStates
        BY DEF ItemStates
      <4> QED BY <4>1, <4>2, <4>3, StateOnly
    <3> QED BY <3>1, <3>2
  <2> QED BY <2>1, <2>4, <2>5 DEF TypeOK
<1>2. OneActiveItemPerReading'
  BY DEF IndInv, TypeOK, OneActiveItemPerReading
<1>3. ItemsFollowBatch'
  BY DEF IndInv, TypeOK, ItemsFollowBatch
<1>4. RemoteIdsUnique'
  BY DEF IndInv, TypeOK, RemoteIdsUnique
<1>5. NoEarlyResult'
  BY DEF IndInv, TypeOK, NoEarlyResult
<1> QED BY <1>1, <1>2, <1>3, <1>4, <1>5 DEF IndInv

\* UpdateBatchState: a batch that ends takes its active items with it, or has
\* none.
LEMMA UpdateInv ==
  ASSUME IndInv, NEW b \in Batches, NEW to \in BatchStates, UpdateBatchState(b, to)
  PROVE  IndInv'
<1> USE DEF UpdateBatchState, Cascades, validBatchTransition
<1>1. TypeOK'
  <2>1. batch' \in [Batches -> [state : BatchStates, remote : Remotes \cup {None}]]
    BY DEF IndInv, TypeOK
  <2>2. ASSUME NEW i \in CustomIds
        PROVE  \/ item'[i] = item[i]
               \/ /\ item[i].state # "absent" /\ to \in {"canceled", "failed"}
                  /\ item'[i] = [item[i] EXCEPT !.state = to]
    BY DEF IndInv, TypeOK
  <2>3. item' = [i \in CustomIds |-> item'[i]]
    BY DEF IndInv, TypeOK
  <2> HIDE DEF UpdateBatchState
  <2>4. ASSUME NEW i \in CustomIds
        PROVE  /\ item'[i] \in [state : ItemStates, batch : Batches \cup {None},
                                reading : Readings \cup {None}, result : Results \cup {None}]
               /\ item'[i].state # "absent" => item'[i].batch \in Batches /\ item'[i].reading \in Readings
               /\ item'[i].state = "absent" => item'[i] = NoItem
    <3>1. CASE item'[i] = item[i]
      BY <3>1 DEF IndInv, TypeOK
    <3>2. CASE item'[i] # item[i]
      <4>1. /\ item[i].state # "absent" /\ to \in {"canceled", "failed"}
            /\ item'[i] = [item[i] EXCEPT !.state = to]
        BY <3>2, <2>2
      <4>2. /\ item[i] \in [state : ItemStates, batch : Batches \cup {None},
                             reading : Readings \cup {None}, result : Results \cup {None}]
            /\ item[i].batch \in Batches /\ item[i].reading \in Readings
        BY <4>1 DEF IndInv, TypeOK
      <4>3. to \in ItemStates /\ to # "absent"
        BY <4>1
      <4> HIDE DEF ItemStates
      <4> QED BY <4>1, <4>2, <4>3, StateOnly
    <3> QED BY <3>1, <3>2
  <2> QED BY <2>1, <2>3, <2>4 DEF TypeOK
<1>2. OneActiveItemPerReading'
  BY DEF IndInv, TypeOK, OneActiveItemPerReading
<1>3. ItemsFollowBatch'
  BY DEF IndInv, TypeOK, ItemsFollowBatch
<1>4. RemoteIdsUnique'
  BY DEF IndInv, TypeOK, RemoteIdsUnique
<1>5. NoEarlyResult'
  BY DEF IndInv, TypeOK, NoEarlyResult
<1> QED BY <1>1, <1>2, <1>3, <1>4, <1>5 DEF IndInv

\* WriteBatchItemResult: the item was active and belongs to a batch that has
\* not ended.
LEMMA WriteInv ==
  ASSUME IndInv, NEW i \in CustomIds, NEW state \in ResultStates, NEW result \in Results,
         WriteBatchItemResult(i, state, result)
  PROVE  IndInv'
<1> USE DEF WriteBatchItemResult
<1>1. TypeOK'
  BY ManualBatchAssumption, ZenonT(30) DEF IndInv, TypeOK, NoItem
<1>2. OneActiveItemPerReading'
  BY DEF IndInv, TypeOK, OneActiveItemPerReading
<1>3. ItemsFollowBatch'
  BY DEF IndInv, TypeOK, ItemsFollowBatch
<1>4. RemoteIdsUnique'
  BY DEF IndInv, TypeOK, RemoteIdsUnique
<1>5. NoEarlyResult'
  BY DEF IndInv, TypeOK, NoEarlyResult
<1> QED BY <1>1, <1>2, <1>3, <1>4, <1>5 DEF IndInv

\* MarkBatchItemApplied: the item stops being active.
LEMMA ApplyInv ==
  ASSUME IndInv, NEW i \in CustomIds, MarkBatchItemApplied(i)
  PROVE  IndInv'
<1> USE DEF MarkBatchItemApplied
<1>1. TypeOK'
  BY ManualBatchAssumption, ZenonT(30) DEF IndInv, TypeOK, NoItem
<1>2. OneActiveItemPerReading'
  BY DEF IndInv, TypeOK, OneActiveItemPerReading
<1>3. ItemsFollowBatch'
  BY DEF IndInv, TypeOK, ItemsFollowBatch
<1>4. RemoteIdsUnique'
  BY DEF IndInv, TypeOK, RemoteIdsUnique
<1>5. NoEarlyResult'
  BY DEF IndInv, TypeOK, NoEarlyResult
<1> QED BY <1>1, <1>2, <1>3, <1>4, <1>5 DEF IndInv

\* The invariant is kept by every operation and by calls that change nothing.
LEMMA NextInv == IndInv /\ [Next]_batchVars => IndInv'
<1> SUFFICES ASSUME IndInv, [Next]_batchVars PROVE IndInv'
  OBVIOUS
<1>1. ASSUME NEW b \in Batches, NEW ids \in SUBSET CustomIds, NEW new \in [ids -> Readings],
             CreatePlannedBatch(b, new)
      PROVE  IndInv'
  BY <1>1, CreateInv
<1>2. ASSUME NEW b \in Batches, NEW remote \in Remotes \cup {None}, SubmitBatch(b, remote)
      PROVE  IndInv'
  BY <1>2, SubmitInv
<1>3. ASSUME NEW b \in Batches, NEW to \in BatchStates, UpdateBatchState(b, to)
      PROVE  IndInv'
  BY <1>3, UpdateInv
<1>4. ASSUME NEW i \in CustomIds, NEW state \in ResultStates, NEW result \in Results,
             WriteBatchItemResult(i, state, result)
      PROVE  IndInv'
  BY <1>4, WriteInv
<1>5. ASSUME NEW i \in CustomIds, MarkBatchItemApplied(i)
      PROVE  IndInv'
  BY <1>5, ApplyInv
<1>6. CASE UNCHANGED batchVars
  BY <1>6 DEF batchVars, IndInv, TypeOK, OneActiveItemPerReading, ItemsFollowBatch,
     RemoteIdsUnique, NoEarlyResult
<1> QED BY <1>1, <1>2, <1>3, <1>4, <1>5, <1>6 DEF Next

LEMMA Invariant == Spec => []IndInv
  BY InitInv, NextInv, PTL DEF Spec

-----------------------------------------------------------------------------

\* Rows have the states of store.go in every state of every history.
THEOREM BatchTypeCorrect == Spec => []TypeOK
  BY Invariant, PTL DEF IndInv

\* A reading is in one active batch item at most, however many batches are
\* created, canceled and created again.
THEOREM OneActiveItem == Spec => []OneActiveItemPerReading
  BY Invariant, PTL DEF IndInv

\* Items never run ahead of their batch and never outlive it as active ones.
THEOREM ItemsMoveWithBatch == Spec => []ItemsFollowBatch
  BY Invariant, PTL DEF IndInv

\* A batch at the provider has one batch here.
THEOREM RemoteIdsAreUnique == Spec => []RemoteIdsUnique
  BY Invariant, PTL DEF IndInv

\* What a step does to an item that has a result, or has ended.
LEMMA ResultStep ==
  ASSUME IndInv, [Next]_batchVars, NEW i \in CustomIds
  PROVE  /\ item[i].result # None => item'[i].result = item[i].result
         /\ item[i].state \notin ActiveStates \cup {"absent"} => item'[i] = item[i]
         /\ item'[i].state = "applied" => item[i].state \in {"succeeded", "applied"}
<1> USE DEF IndInv, TypeOK
<1>1. ASSUME NEW b \in Batches, NEW ids \in SUBSET CustomIds, NEW new \in [ids -> Readings],
             CreatePlannedBatch(b, new)
      PROVE  /\ item[i].state # "absent" => item'[i] = item[i]
             /\ item'[i].state # item[i].state => item'[i].state = "planned"
  BY <1>1 DEF CreatePlannedBatch
<1>2. ASSUME NEW b \in Batches, NEW remote \in Remotes \cup {None}, SubmitBatch(b, remote)
      PROVE  \/ item'[i] = item[i]
             \/ item[i].state = "planned" /\ item'[i] = [item[i] EXCEPT !.state = "submitted"]
  BY <1>2 DEF SubmitBatch
<1>3. ASSUME NEW b \in Batches, NEW to \in BatchStates, UpdateBatchState(b, to)
      PROVE  \/ item'[i] = item[i]
             \/ Active(i) /\ to # "applied" /\ item'[i] = [item[i] EXCEPT !.state = to]
  BY <1>3 DEF UpdateBatchState, Cascades
<1>4. ASSUME NEW j \in CustomIds, NEW state \in ResultStates, NEW result \in Results,
             WriteBatchItemResult(j, state, result)
      PROVE  \/ item'[i] = item[i]
             \/ item[i].state = "submitted" /\ item'[i].state # "applied"
  BY <1>4 DEF WriteBatchItemResult
<1>5. ASSUME NEW j \in CustomIds, MarkBatchItemApplied(j)
      PROVE  \/ item'[i] = item[i]
             \/ item[i].state = "succeeded" /\ item'[i] = [item[i] EXCEPT !.state = "applied"]
  BY <1>5 DEF MarkBatchItemApplied
<1>6. CASE UNCHANGED batchVars
  BY <1>6 DEF batchVars
<1> QED BY <1>1, <1>2, <1>3, <1>4, <1>5, <1>6, ZenonT(30) DEF Next, NoEarlyResult, NoItem

\* A recorded result is never replaced and an ended item never touched, for
\* any order in which results arrive and any number of repetitions.
THEOREM RecordedResultsStand == Spec => ResultsStand
<1>1. IndInv /\ [Next]_batchVars =>
        [\A i \in CustomIds :
           /\ item[i].result # None => item'[i].result = item[i].result
           /\ item[i].state \notin ActiveStates \cup {"absent"} => item'[i] = item[i]
           /\ item'[i].state = "applied" => item[i].state \in {"succeeded", "applied"}]_batchVars
  BY ResultStep
<1> QED BY <1>1, Invariant, PTL DEF Spec, ResultsStand

-----------------------------------------------------------------------------
(* The transactions of PostgresBatch *)

Ops    == {"none", "create", "submit", "update"}
Stages == {"read", "insert", "list", "update", "items", "count", "cascade", "commit"}

TxnRecord ==
  [op : Ops, at : Stages, b : Batches \cup {None}, to : BatchStates, from : BatchStates,
   remote : Remotes \cup {None}, rows : SUBSET CustomIds, new : [CustomIds -> Readings \cup {None}]]

\* A create holds a batch id, custom_ids and readings nobody else has.
CreateOK(c) ==
  txn[c].op = "create" =>
    /\ txn[c].b \in Batches /\ txn[c].at = "insert"
    /\ batch[txn[c].b].state = "absent"
    /\ \A i \in Inserted(c) :
         /\ item[i].state = "absent"
         /\ \A j \in Inserted(c) : txn[c].new[i] = txn[c].new[j] => i = j
         /\ \A j \in CustomIds : Active(j) => item[j].reading # txn[c].new[i]

\* A submit that holds the row of its batch has a planned batch and a free
\* remote id, and once it holds the items, all of them.
SubmitOK(c) ==
  txn[c].op = "submit" =>
    /\ txn[c].b \in Batches /\ txn[c].at \in {"list", "update", "items", "commit"}
    /\ batch[txn[c].b].state # "absent"
    /\ txn[c].at \in {"items", "commit"} =>
         batch[txn[c].b].state = "planned" /\ RemoteFree(txn[c].b, txn[c].remote)
    /\ txn[c].at = "commit" => txn[c].rows = ItemsOf(txn[c].b)

Ends(c) == txn[c].from # txn[c].to /\ Cascades(txn[c].to)

\* An update that holds the row of its batch has read the state it still has;
\* an applied batch has no active item from the count on, a canceled or failed
\* one takes all of them along.
UpdateOK(c) ==
  txn[c].op = "update" =>
    /\ txn[c].b \in Batches /\ txn[c].at \in {"count", "update", "cascade", "commit"}
    /\ batch[txn[c].b].state # "absent"
    /\ txn[c].from = txn[c].to \/ validBatchTransition(txn[c].from, txn[c].to)
    /\ txn[c].at \in {"cascade", "commit"} => batch[txn[c].b].state = txn[c].from
    /\ txn[c].at = "cascade" => Ends(c)
    /\ txn[c].at \in {"count", "update"} => txn[c].rows = {}
    /\ txn[c].at = "cascade" => txn[c].rows = {}
    /\ txn[c].at = "commit" =>
         txn[c].rows = IF Ends(c) THEN {i \in ItemsOf(txn[c].b) : Active(i)} ELSE {}
    /\ txn[c].to = "applied" /\ txn[c].from # "applied" /\ txn[c].at \in {"update", "commit"} =>
         \A i \in ItemsOf(txn[c].b) : ~Active(i)

TxnOK(c) ==
  /\ Idle(c) => txn[c] = Fresh
  /\ CreateOK(c) /\ SubmitOK(c) /\ UpdateOK(c)

\* The row of its batch is locked by the transaction.
Holds(c) == txn[c].op \in {"submit", "update"} /\ txn[c].at \in {"items", "cascade", "commit"}

PairOK(c, d) ==
  /\ txn[c].op = "create" /\ txn[d].op = "create" =>
       /\ txn[c].b # txn[d].b
       /\ \A i \in Inserted(c), j \in Inserted(d) : i # j /\ txn[c].new[i] # txn[d].new[j]
  /\ Holds(c) /\ Holds(d) => txn[c].b # txn[d].b
  /\ /\ Holds(c) /\ Holds(d) /\ txn[c].op = "submit" /\ txn[d].op = "submit"
     /\ txn[c].remote # None
     => txn[c].remote # txn[d].remote

TxnInv ==
  /\ txn \in [Callers -> TxnRecord]
  /\ \A c \in Callers : TxnOK(c)
  /\ \A c, d \in Callers : c # d => PairOK(c, d)

PgInv == IndInv /\ TxnInv

-----------------------------------------------------------------------------
(* Every commit is an operation of ManualBatch *)

\* CommitCreate is CreatePlannedBatch of the items it inserted.
LEMMA CreateCommits ==
  ASSUME PgInv, NEW c \in Callers, CommitCreate(c)
  PROVE  \E b \in Batches : \E ids \in SUBSET CustomIds : \E new \in [ids -> Readings] :
           CreatePlannedBatch(b, new)
<1> DEFINE b == txn[c].b
           ids == Inserted(c)
           new == [i \in ids |-> txn[c].new[i]]
<1>1. b \in Batches /\ ids \in SUBSET CustomIds /\ new \in [ids -> Readings]
  BY DEF PgInv, TxnInv, TxnRecord, TxnOK, CreateOK, CommitCreate, At, Inserted
<1>2. CreatePlannedBatch(b, new)
  BY <1>1 DEF PgInv, TxnInv, TxnOK, CreateOK, CommitCreate, At, CreatePlannedBatch
<1> QED BY <1>1, <1>2

\* CommitSubmit is SubmitBatch: the rows it updated are all of the batch.
LEMMA SubmitCommits ==
  ASSUME PgInv, NEW c \in Callers, CommitSubmit(c)
  PROVE  \E b \in Batches : \E remote \in Remotes \cup {None} : SubmitBatch(b, remote)
<1> DEFINE b == txn[c].b
           remote == txn[c].remote
<1>1. /\ b \in Batches /\ remote \in Remotes \cup {None}
      /\ batch[b].state = "planned" /\ RemoteFree(b, remote)
      /\ txn[c].rows = ItemsOf(b)
  BY DEF PgInv, TxnInv, TxnRecord, TxnOK, SubmitOK, CommitSubmit, At
<1>2. \A i \in ItemsOf(b) : item[i].state = "planned"
  BY <1>1 DEF PgInv, IndInv, ItemsFollowBatch
<1>3. item' = [i \in CustomIds |->
                 IF item[i].batch = b THEN [item[i] EXCEPT !.state = "submitted"] ELSE item[i]]
  <2>1. \A i \in CustomIds : i \in txn[c].rows <=> item[i].batch = b
    BY <1>1 DEF ItemsOf
  <2> QED BY <2>1 DEF CommitSubmit
<1>4. SubmitBatch(b, remote)
  BY <1>1, <1>2, <1>3 DEF CommitSubmit, SubmitBatch
<1> QED BY <1>1, <1>4

\* A call with the state the batch has commits what was there.
LEMMA UpdateCommits ==
  ASSUME PgInv, NEW c \in Callers, CommitUpdate(c)
  PROVE  \/ \E b \in Batches : \E to \in BatchStates : UpdateBatchState(b, to)
         \/ UNCHANGED batchVars
<1> DEFINE b == txn[c].b
           to == txn[c].to
<1>1. /\ b \in Batches /\ to \in BatchStates
      /\ batch[b].state = txn[c].from
      /\ txn[c].rows = IF Ends(c) THEN {i \in ItemsOf(b) : Active(i)} ELSE {}
      /\ to = "applied" /\ txn[c].from # "applied" => \A i \in ItemsOf(b) : ~Active(i)
      /\ txn[c].from = to \/ validBatchTransition(txn[c].from, to)
  BY DEF PgInv, TxnInv, TxnRecord, TxnOK, UpdateOK, CommitUpdate, At
<1>2. CASE txn[c].from = to
  <2>1. item' = item
    BY <1>1, <1>2 DEF CommitUpdate, Ends, PgInv, IndInv, TypeOK
  <2>2. batch' = batch
    BY <1>1, <1>2 DEF CommitUpdate, PgInv, IndInv, TypeOK
  <2> QED BY <2>1, <2>2 DEF batchVars
<1>3. CASE txn[c].from # to
  <2>1. validBatchTransition(batch[b].state, to)
    BY <1>1, <1>3
  <2>2. item' = [i \in CustomIds |->
                   IF Cascades(to) /\ item[i].batch = b /\ Active(i)
                   THEN [item[i] EXCEPT !.state = to] ELSE item[i]]
    <3>1. \A i \in CustomIds :
            i \in txn[c].rows <=> Cascades(to) /\ item[i].batch = b /\ Active(i)
      BY <1>1, <1>3 DEF Ends, ItemsOf
    <3> QED BY <3>1 DEF CommitUpdate
  <2>3. to = "applied" => \A i \in ItemsOf(b) : ~Active(i)
    BY <1>1, <1>3
  <2>4. UpdateBatchState(b, to)
    BY <2>1, <2>2, <2>3 DEF CommitUpdate, UpdateBatchState
  <2> QED BY <1>1, <2>4
<1> QED BY <1>2, <1>3

\* A result is written by one conditional update.
LEMMA ResultCommits ==
  ASSUME NEW i \in CustomIds, NEW state \in ResultStates, NEW result \in Results,
         WriteManualBatchItemResult(i, state, result)
  PROVE  WriteBatchItemResult(i, state, result)
  BY DEF WriteManualBatchItemResult, WriteBatchItemResult

\* So is the mark that it was applied.
LEMMA ApplyCommits ==
  ASSUME NEW i \in CustomIds, MarkManualBatchItemApplied(i)
  PROVE  MarkBatchItemApplied(i)
  BY DEF MarkManualBatchItemApplied, MarkBatchItemApplied

\* A statement that commits nothing.
LocalStep(c) ==
  \/ \E b \in Batches : InsertBatch(c, b)
  \/ \E i \in CustomIds, r \in Readings : InsertItem(c, i, r)
  \/ \E b \in Batches, remote \in Remotes \cup {None} : SubmitRead(c, b, remote)
  \/ ListItems(c) \/ SubmitRow(c) \/ SubmitItems(c)
  \/ \E b \in Batches, to \in BatchStates : UpdateRead(c, b, to)
  \/ CountActive(c) \/ UpdateRow(c) \/ Cascade(c) \/ Rollback(c)

\* Every step maps to a step of ManualBatch or to a stutter.
LEMMA StepSimulation == PgInv /\ [PgNext]_vars => [Next]_batchVars
<1> SUFFICES ASSUME PgInv, [PgNext]_vars PROVE [Next]_batchVars
  OBVIOUS
<1>1. CASE \E c \in Callers : CommitCreate(c)
  BY <1>1, CreateCommits DEF Next
<1>2. CASE \E c \in Callers : CommitSubmit(c)
  BY <1>2, SubmitCommits DEF Next
<1>3. CASE \E c \in Callers : CommitUpdate(c)
  BY <1>3, UpdateCommits DEF Next
<1>4. CASE \E i \in CustomIds, state \in ResultStates, result \in Results :
             WriteManualBatchItemResult(i, state, result)
  BY <1>4, ResultCommits DEF Next
<1>5. CASE \E i \in CustomIds : MarkManualBatchItemApplied(i)
  BY <1>5, ApplyCommits DEF Next
<1>6. CASE \E c \in Callers : LocalStep(c)
  BY <1>6, ZenonT(30) DEF LocalStep, InsertBatch, InsertItem, SubmitRead, ListItems, SubmitRow, SubmitItems,
     UpdateRead, CountActive, UpdateRow, Cascade, Rollback, Uncommitted, batchVars
<1>7. CASE UNCHANGED vars
  BY <1>7 DEF vars, batchVars
<1> QED
  BY <1>1, <1>2, <1>3, <1>4, <1>5, <1>6, <1>7
     DEF PgNext, CreateNext, SubmitNext, UpdateNext, LocalStep

\* So the committed tables keep the invariant of ManualBatch.
LEMMA StepInv == PgInv /\ [PgNext]_vars => IndInv'
  BY StepSimulation, NextInv DEF PgInv

-----------------------------------------------------------------------------
(* Statements: one transaction moves, the tables stay *)

\* What holds of two transactions holds the other way round.
LEMMA PairSymmetric ==
  ASSUME NEW c \in Callers, NEW d \in Callers, PairOK(c, d)
  PROVE  PairOK(d, c)
  BY DEF PairOK

\* A transaction that did nothing, over tables that did not change.
LEMMA StayOK ==
  ASSUME PgInv, Uncommitted, NEW d \in Callers, txn'[d] = txn[d]
  PROVE  TxnOK(d)'
<1>1. TxnOK(d) /\ batch' = batch /\ item' = item
  BY DEF PgInv, TxnInv, Uncommitted
<1>2. CreateOK(d)'
  BY <1>1 DEF TxnOK, CreateOK, Inserted, Active
<1>3. SubmitOK(d)'
  BY <1>1 DEF TxnOK, SubmitOK, RemoteFree, ItemsOf
<1>4. Ends(d)' <=> Ends(d)
  BY DEF Ends
<1>5. /\ ItemsOf(txn[d].b)' = ItemsOf(txn[d].b)
      /\ {i \in ItemsOf(txn[d].b) : Active(i)}' = {i \in ItemsOf(txn[d].b) : Active(i)}
      /\ \A i \in CustomIds : Active(i)' <=> Active(i)
  BY <1>1 DEF ItemsOf, Active
<1>6. \A i \in ItemsOf(txn[d].b) : i \in CustomIds
  BY DEF ItemsOf
<1>7. UpdateOK(d)'
  BY <1>1, <1>4, <1>5, <1>6 DEF TxnOK, UpdateOK
<1> QED BY <1>1, <1>2, <1>3, <1>7 DEF TxnOK, Idle

\* A statement keeps TxnInv if the transaction it belongs to ends up right,
\* by itself and beside every other.
LEMMA LocalInv ==
  ASSUME PgInv, NEW c \in Callers, Uncommitted,
         NEW rec \in TxnRecord, txn' = [txn EXCEPT ![c] = rec],
         TxnOK(c)', \A d \in Callers \ {c} : PairOK(c, d)'
  PROVE  TxnInv'
<1>1. txn' \in [Callers -> TxnRecord]
  BY DEF PgInv, TxnInv
<1>2. \A d \in Callers \ {c} : txn'[d] = txn[d]
  BY DEF PgInv, TxnInv
<1>3. ASSUME NEW d \in Callers PROVE TxnOK(d)'
  <2>1. CASE d = c
    BY <2>1
  <2>2. CASE d # c
    BY <1>2, <2>2, StayOK
  <2> QED BY <2>1, <2>2
<1>4. ASSUME NEW d \in Callers, NEW e \in Callers, d # e PROVE PairOK(d, e)'
  <2>1. CASE d = c
    BY <1>4, <2>1
  <2>2. CASE e = c
    BY <1>4, <2>2 DEF PairOK
  <2>3. CASE d # c /\ e # c
    BY <1>2, <1>4, <2>3 DEF PgInv, TxnInv, PairOK, Holds, Inserted
  <2> QED BY <2>1, <2>2, <2>3
<1> QED BY <1>1, <1>3, <1>4 DEF TxnInv

\* No transaction is a transaction record.
LEMMA FreshIsTxn == Fresh \in TxnRecord
  BY DEF Fresh, TxnRecord, Ops, Stages, BatchStates

LEMMA FreshOK ==
  ASSUME NEW c \in Callers, txn'[c] = Fresh
  PROVE  TxnOK(c)' /\ \A d \in Callers \ {c} : PairOK(c, d)'
  BY DEF Fresh, TxnOK, CreateOK, SubmitOK, UpdateOK, PairOK, Holds, Idle

\* Rollback: nothing held, nothing owed.
LEMMA RollbackInv ==
  ASSUME PgInv, NEW c \in Callers, Rollback(c)
  PROVE  TxnInv'
<1>1. txn' = [txn EXCEPT ![c] = Fresh] /\ Uncommitted
  BY DEF Rollback, End
<1>2. txn'[c] = Fresh
  BY <1>1 DEF PgInv, TxnInv
<1> QED BY <1>1, <1>2, FreshIsTxn, FreshOK, LocalInv

\* InsertBatch: an id nobody else is inserting.
LEMMA InsertBatchInv ==
  ASSUME PgInv, NEW c \in Callers, NEW b \in Batches, InsertBatch(c, b)
  PROVE  TxnInv'
<1> DEFINE rec == [Fresh EXCEPT !.op = "create", !.at = "insert", !.b = b]
<1>1. rec \in TxnRecord
  BY DEF Fresh, TxnRecord, Ops, Stages, BatchStates
<1>2. txn' = [txn EXCEPT ![c] = rec] /\ Uncommitted
  BY DEF InsertBatch
<1>3. txn'[c] = rec /\ \A d \in Callers \ {c} : txn'[d] = txn[d]
  BY <1>2 DEF PgInv, TxnInv
<1>4. rec.op = "create" /\ rec.at = "insert" /\ rec.b = b /\ \A i \in CustomIds : rec.new[i] = None
  BY DEF Fresh
<1>5. TxnOK(c)'
  BY <1>2, <1>3, <1>4 DEF InsertBatch, Uncommitted, TxnOK, CreateOK, SubmitOK, UpdateOK, Idle, Inserted
<1>6. ASSUME NEW d \in Callers \ {c} PROVE PairOK(c, d)'
  BY <1>3, <1>4 DEF InsertBatch, PairOK, Holds, Inserted, Others, Idle
<1> QED BY <1>1, <1>2, <1>5, <1>6, LocalInv

\* InsertItem: the primary key and the index keep the others off.
LEMMA InsertItemInv ==
  ASSUME PgInv, NEW c \in Callers, NEW i \in CustomIds, NEW r \in Readings, InsertItem(c, i, r)
  PROVE  TxnInv'
<1> DEFINE rec == [txn[c] EXCEPT !.new = [txn[c].new EXCEPT ![i] = r]]
<1>1. txn[c] \in TxnRecord
  BY DEF PgInv, TxnInv
<1>2. rec \in TxnRecord
  BY <1>1 DEF TxnRecord
<1>3. txn' = [txn EXCEPT ![c] = rec] /\ Uncommitted
  BY DEF InsertItem
<1>4. txn'[c] = rec /\ \A d \in Callers \ {c} : txn'[d] = txn[d]
  BY <1>3 DEF PgInv, TxnInv
<1>5. /\ rec.op = "create" /\ rec.at = "insert" /\ rec.b = txn[c].b
      /\ rec.new[i] = r /\ \A j \in CustomIds \ {i} : rec.new[j] = txn[c].new[j]
  BY <1>1 DEF TxnRecord, InsertItem, At
<1>6. r # None
  BY ManualBatchAssumption
<1>7. Inserted(c)' = Inserted(c) \cup {i}
  BY <1>4, <1>5, <1>6 DEF Inserted
<1> HIDE DEF rec
<1>8. TxnOK(c)'
  <2>1. CreateOK(c)
    BY DEF PgInv, TxnInv, TxnOK
  <2>2. batch' = batch /\ item' = item
    BY <1>3 DEF Uncommitted
  <2>3. CreateOK(c)'
    BY <2>1, <2>2, <1>4, <1>5, <1>7 DEF CreateOK, InsertItem, At, Inserted, Active
  <2> QED BY <2>3, <1>4, <1>5 DEF TxnOK, SubmitOK, UpdateOK, Idle
<1>9. ASSUME NEW d \in Callers \ {c} PROVE PairOK(c, d)'
  <2>1. PairOK(c, d) /\ Inserted(d)' = Inserted(d)
    BY <1>4 DEF PgInv, TxnInv, Inserted
  <2>2. txn[d].op = "create" => \A j \in Inserted(d) : j # i /\ txn[d].new[j] # r
    BY DEF InsertItem, Others, Idle
  <2> QED BY <1>4, <1>5, <1>7, <2>1, <2>2 DEF PairOK, Holds, InsertItem, At, Inserted
<1> QED BY <1>2, <1>3, <1>8, <1>9, LocalInv

\* SubmitRead and ListItems hold nothing.
LEMMA SubmitReadInv ==
  ASSUME PgInv, NEW c \in Callers, NEW b \in Batches, NEW remote \in Remotes \cup {None},
         SubmitRead(c, b, remote)
  PROVE  TxnInv'
<1> DEFINE rec == [Fresh EXCEPT !.op = "submit", !.at = "list", !.b = b, !.remote = remote]
<1>1. rec \in TxnRecord
  BY DEF Fresh, TxnRecord, Ops, Stages, BatchStates
<1>2. txn' = [txn EXCEPT ![c] = rec] /\ Uncommitted
  BY DEF SubmitRead
<1>3. txn'[c] = rec /\ \A d \in Callers \ {c} : txn'[d] = txn[d]
  BY <1>2 DEF PgInv, TxnInv
<1>4. rec.op = "submit" /\ rec.at = "list" /\ rec.b = b
  BY DEF Fresh
<1>5. TxnOK(c)'
  BY <1>2, <1>3, <1>4 DEF SubmitRead, Uncommitted, TxnOK, CreateOK, SubmitOK, UpdateOK, Idle
<1>6. ASSUME NEW d \in Callers \ {c} PROVE PairOK(c, d)'
  BY <1>3, <1>4 DEF PairOK, Holds
<1> QED BY <1>1, <1>2, <1>5, <1>6, LocalInv

LEMMA ListItemsInv ==
  ASSUME PgInv, NEW c \in Callers, ListItems(c)
  PROVE  TxnInv'
<1> DEFINE rec == [txn[c] EXCEPT !.at = "update", !.rows = ItemsOf(txn[c].b)]
<1>1. txn[c] \in TxnRecord /\ SubmitOK(c)
  BY DEF PgInv, TxnInv, TxnOK
<1>2. rec \in TxnRecord
  BY <1>1 DEF TxnRecord, Stages, ItemsOf
<1>3. txn' = [txn EXCEPT ![c] = rec] /\ Uncommitted
  BY DEF ListItems
<1>4. txn'[c] = rec /\ \A d \in Callers \ {c} : txn'[d] = txn[d]
  BY <1>3 DEF PgInv, TxnInv
<1>5. rec.op = "submit" /\ rec.at = "update" /\ rec.b = txn[c].b
  BY <1>1 DEF TxnRecord, ListItems, At
<1> HIDE DEF rec
<1>6. TxnOK(c)'
  BY <1>1, <1>3, <1>4, <1>5 DEF ListItems, At, Uncommitted, TxnOK, CreateOK, SubmitOK, UpdateOK, Idle
<1>7. ASSUME NEW d \in Callers \ {c} PROVE PairOK(c, d)'
  BY <1>4, <1>5 DEF PairOK, Holds
<1> QED BY <1>2, <1>3, <1>6, <1>7, LocalInv

\* The row of the batch is taken: nobody else has it, nor its remote id.
LEMMA SubmitRowInv ==
  ASSUME PgInv, NEW c \in Callers, SubmitRow(c)
  PROVE  TxnInv'
<1> DEFINE rec == [txn[c] EXCEPT !.at = "items"]
<1>1. txn[c] \in TxnRecord /\ SubmitOK(c)
  BY DEF PgInv, TxnInv, TxnOK
<1>2. rec \in TxnRecord
  BY <1>1 DEF TxnRecord, Stages
<1>3. txn' = [txn EXCEPT ![c] = rec] /\ Uncommitted
  BY DEF SubmitRow, Goto
<1>4. txn'[c] = rec /\ \A d \in Callers \ {c} : txn'[d] = txn[d]
  BY <1>3 DEF PgInv, TxnInv
<1>5. rec.op = "submit" /\ rec.at = "items" /\ rec.b = txn[c].b /\ rec.remote = txn[c].remote
  BY <1>1 DEF TxnRecord, SubmitRow, At
<1> HIDE DEF rec
<1>6. TxnOK(c)'
  BY <1>1, <1>3, <1>4, <1>5
     DEF SubmitRow, At, Uncommitted, TxnOK, CreateOK, SubmitOK, UpdateOK, Idle, RemoteFree
<1>7. ASSUME NEW d \in Callers \ {c} PROVE PairOK(c, d)'
  <2>1. SubmitOK(d)
    BY DEF PgInv, TxnInv, TxnOK
  <2> QED BY <2>1, <1>4, <1>5 DEF SubmitOK, PairOK, Holds, SubmitRow, BatchLocked, Others, Idle
<1> QED BY <1>2, <1>3, <1>6, <1>7, LocalInv

\* SubmitItems: all items of a planned batch are planned, so all are taken.
LEMMA SubmitItemsInv ==
  ASSUME PgInv, NEW c \in Callers, SubmitItems(c)
  PROVE  TxnInv'
<1> DEFINE rows == {i \in ItemsOf(txn[c].b) : item[i].state = "planned"}
           rec == [txn[c] EXCEPT !.at = "commit", !.rows = rows]
<1>1. txn[c] \in TxnRecord /\ SubmitOK(c)
  BY DEF PgInv, TxnInv, TxnOK
<1>2. rec \in TxnRecord
  BY <1>1 DEF TxnRecord, Stages, ItemsOf
<1>3. txn' = [txn EXCEPT ![c] = rec] /\ Uncommitted
  BY DEF SubmitItems
<1>4. txn'[c] = rec /\ \A d \in Callers \ {c} : txn'[d] = txn[d]
  BY <1>3 DEF PgInv, TxnInv
<1>5. rows = ItemsOf(txn[c].b)
  BY <1>1 DEF SubmitOK, SubmitItems, At, PgInv, IndInv, ItemsFollowBatch
<1>6. /\ rec.op = "submit" /\ rec.at = "commit" /\ rec.b = txn[c].b /\ rec.remote = txn[c].remote
      /\ rec.rows = ItemsOf(txn[c].b)
  BY <1>1, <1>5 DEF TxnRecord, SubmitItems, At
<1> HIDE DEF rec
<1>7. TxnOK(c)'
  BY <1>1, <1>3, <1>4, <1>6, ZenonT(30)
     DEF SubmitItems, At, Uncommitted, TxnOK, CreateOK, SubmitOK, UpdateOK, Idle, RemoteFree, ItemsOf
<1>8. ASSUME NEW d \in Callers \ {c} PROVE PairOK(c, d)'
  <2>1. PairOK(c, d) /\ Holds(c)
    BY DEF PgInv, TxnInv, SubmitItems, At, Holds
  <2> QED BY <2>1, <1>4, <1>6 DEF PairOK, Holds, SubmitItems, At
<1> QED BY <1>2, <1>3, <1>7, <1>8, LocalInv

\* UpdateRead: what is read need not last.
LEMMA UpdateReadInv ==
  ASSUME PgInv, NEW c \in Callers, NEW b \in Batches, NEW to \in BatchStates, UpdateRead(c, b, to)
  PROVE  TxnInv'
<1> DEFINE at == IF to = "applied" /\ batch[b].state # to THEN "count" ELSE "update"
           rec == [Fresh EXCEPT !.op = "update", !.b = b, !.to = to, !.from = batch[b].state, !.at = at]
<1>1. batch[b].state \in BatchStates
  BY DEF PgInv, IndInv, TypeOK
<1>2. rec \in TxnRecord
  BY <1>1 DEF Fresh, TxnRecord, Ops, Stages
<1>3. txn' = [txn EXCEPT ![c] = rec] /\ Uncommitted
  BY DEF UpdateRead
<1>4. txn'[c] = rec /\ \A d \in Callers \ {c} : txn'[d] = txn[d]
  BY <1>3 DEF PgInv, TxnInv
<1>5. /\ rec.op = "update" /\ rec.at = at /\ rec.b = b /\ rec.rows = {}
      /\ rec.to = to /\ rec.from = batch[b].state
  BY DEF Fresh
<1> HIDE DEF rec
<1>6. TxnOK(c)'
  BY <1>3, <1>4, <1>5 DEF UpdateRead, Uncommitted, TxnOK, CreateOK, SubmitOK, UpdateOK, Idle
<1>7. ASSUME NEW d \in Callers \ {c} PROVE PairOK(c, d)'
  BY <1>4, <1>5 DEF PairOK, Holds
<1> QED BY <1>2, <1>3, <1>6, <1>7, LocalInv

\* CountActive: an item that is not active will not be.
LEMMA CountActiveInv ==
  ASSUME PgInv, NEW c \in Callers, CountActive(c)
  PROVE  TxnInv'
<1> DEFINE rec == [txn[c] EXCEPT !.at = "update"]
<1>1. txn[c] \in TxnRecord /\ UpdateOK(c)
  BY DEF PgInv, TxnInv, TxnOK
<1>2. rec \in TxnRecord
  BY <1>1 DEF TxnRecord, Stages
<1>3. txn' = [txn EXCEPT ![c] = rec] /\ Uncommitted
  BY DEF CountActive, Goto
<1>4. txn'[c] = rec /\ \A d \in Callers \ {c} : txn'[d] = txn[d]
  BY <1>3 DEF PgInv, TxnInv
<1>5. /\ rec.op = "update" /\ rec.at = "update" /\ rec.b = txn[c].b /\ rec.rows = txn[c].rows
      /\ rec.to = txn[c].to /\ rec.from = txn[c].from
  BY <1>1 DEF TxnRecord, CountActive, At
<1> HIDE DEF rec
<1>6. TxnOK(c)'
  BY <1>1, <1>3, <1>4, <1>5
     DEF CountActive, At, Uncommitted, TxnOK, CreateOK, SubmitOK, UpdateOK, Idle, ItemsOf, Active, Ends
<1>7. ASSUME NEW d \in Callers \ {c} PROVE PairOK(c, d)'
  BY <1>4, <1>5 DEF PairOK, Holds
<1> QED BY <1>2, <1>3, <1>6, <1>7, LocalInv

\* UpdateRow: the row still has the state that was read, and is locked.
LEMMA UpdateRowInv ==
  ASSUME PgInv, NEW c \in Callers, UpdateRow(c)
  PROVE  TxnInv'
<1> DEFINE at == IF Ends(c) THEN "cascade" ELSE "commit"
           rec == [txn[c] EXCEPT !.at = at]
<1>1. txn[c] \in TxnRecord /\ UpdateOK(c)
  BY DEF PgInv, TxnInv, TxnOK
<1>2. rec \in TxnRecord
  BY <1>1 DEF TxnRecord, Stages
<1>3. txn' = [txn EXCEPT ![c] = rec] /\ Uncommitted
  BY DEF UpdateRow, Goto, Ends
<1>4. txn'[c] = rec /\ \A d \in Callers \ {c} : txn'[d] = txn[d]
  BY <1>3 DEF PgInv, TxnInv
<1>5. /\ rec.op = "update" /\ rec.at = at /\ rec.b = txn[c].b /\ rec.rows = txn[c].rows
      /\ rec.to = txn[c].to /\ rec.from = txn[c].from
  BY <1>1 DEF TxnRecord, UpdateRow, At
<1> HIDE DEF rec
<1>6. TxnOK(c)'
  <2>1. /\ batch' = batch /\ item' = item
        /\ batch[txn[c].b].state = txn[c].from
        /\ txn[c].op = "update" /\ txn[c].at = "update"
    BY <1>3 DEF UpdateRow, At, Uncommitted
  <2>2. Ends(c)' <=> Ends(c)
    BY <1>4, <1>5 DEF Ends
  <2>3. Ends(c) => txn[c].to # "applied"
    BY DEF Ends, Cascades
  <2>4. UpdateOK(c)'
    BY <1>1, <1>4, <1>5, <2>1, <2>2, <2>3 DEF UpdateOK, ItemsOf, Active
  <2> QED BY <1>4, <1>5, <2>1, <2>4 DEF TxnOK, CreateOK, SubmitOK, Idle
<1>7. ASSUME NEW d \in Callers \ {c} PROVE PairOK(c, d)'
  BY <1>4, <1>5 DEF PairOK, Holds, UpdateRow, BatchLocked, Others, Idle
<1> QED BY <1>2, <1>3, <1>6, <1>7, LocalInv

\* Cascade: the rows it writes are the active items, and stay so.
LEMMA CascadeInv ==
  ASSUME PgInv, NEW c \in Callers, Cascade(c)
  PROVE  TxnInv'
<1> DEFINE rows == {i \in ItemsOf(txn[c].b) : Active(i)}
           rec == [txn[c] EXCEPT !.at = "commit", !.rows = rows]
<1>1. txn[c] \in TxnRecord /\ UpdateOK(c)
  BY DEF PgInv, TxnInv, TxnOK
<1>2. rec \in TxnRecord
  BY <1>1 DEF TxnRecord, Stages, ItemsOf
<1>3. txn' = [txn EXCEPT ![c] = rec] /\ Uncommitted
  BY DEF Cascade
<1>4. txn'[c] = rec /\ \A d \in Callers \ {c} : txn'[d] = txn[d]
  BY <1>3 DEF PgInv, TxnInv
<1>5. /\ rec.op = "update" /\ rec.at = "commit" /\ rec.b = txn[c].b /\ rec.rows = rows
      /\ rec.to = txn[c].to /\ rec.from = txn[c].from
  BY <1>1 DEF TxnRecord, Cascade, At
<1> HIDE DEF rec
<1>6. TxnOK(c)'
  <2>1. Ends(c) /\ Ends(c)' /\ txn[c].to # "applied"
    BY <1>1, <1>4, <1>5 DEF UpdateOK, Cascade, At, Ends, Cascades
  <2> QED
    BY <1>1, <1>3, <1>4, <1>5, <2>1, ZenonT(30)
       DEF Cascade, At, Uncommitted, TxnOK, CreateOK, SubmitOK, UpdateOK, Idle, ItemsOf, Active
<1>7. ASSUME NEW d \in Callers \ {c} PROVE PairOK(c, d)'
  <2>1. PairOK(c, d) /\ Holds(c)
    BY DEF PgInv, TxnInv, Cascade, At, Holds
  <2> QED BY <2>1, <1>4, <1>5 DEF PairOK, Holds, Cascade, At
<1> QED BY <1>2, <1>3, <1>6, <1>7, LocalInv

-----------------------------------------------------------------------------
(* Commits: the tables move, and every other transaction is still right    *)

\* A batch that exists keeps its items, and an item that has ended stays so.
LEMMA TablesGrow ==
  ASSUME IndInv, [Next]_batchVars
  PROVE  /\ \A b \in Batches : batch[b].state # "absent" =>
              batch'[b].state # "absent" /\ ItemsOf(b)' = ItemsOf(b)
         /\ \A i \in CustomIds : item[i].state # "absent" =>
              item'[i].reading = item[i].reading /\ (Active(i)' => Active(i))
<1> USE DEF IndInv, TypeOK, ItemsOf, Active, ActiveStates
<1>1. ASSUME NEW b \in Batches, NEW ids \in SUBSET CustomIds, NEW new \in [ids -> Readings],
             CreatePlannedBatch(b, new)
      PROVE  /\ \A x \in Batches : batch[x].state # "absent" => x # b /\ batch'[x] = batch[x]
             /\ \A i \in CustomIds :
                  \/ item'[i] = item[i]
                  \/ item[i] = NoItem /\ item'[i].batch = b
  BY <1>1 DEF CreatePlannedBatch
<1>2. ASSUME NEW b \in Batches, NEW remote \in Remotes \cup {None}, SubmitBatch(b, remote)
      PROVE  /\ \A x \in Batches : batch[x].state # "absent" => batch'[x].state # "absent"
             /\ \A i \in CustomIds :
                  /\ item'[i].batch = item[i].batch /\ item'[i].reading = item[i].reading
                  /\ Active(i)' => Active(i)
  BY <1>2 DEF SubmitBatch
<1>3. ASSUME NEW b \in Batches, NEW to \in BatchStates, UpdateBatchState(b, to)
      PROVE  /\ \A x \in Batches : batch[x].state # "absent" => batch'[x].state # "absent"
             /\ \A i \in CustomIds :
                  /\ item'[i].batch = item[i].batch /\ item'[i].reading = item[i].reading
                  /\ Active(i)' => Active(i)
  BY <1>3 DEF UpdateBatchState, validBatchTransition
<1>4. ASSUME NEW i \in CustomIds, NEW state \in ResultStates, NEW result \in Results,
             WriteBatchItemResult(i, state, result)
      PROVE  /\ batch' = batch
             /\ \A j \in CustomIds :
                  /\ item'[j].batch = item[j].batch /\ item'[j].reading = item[j].reading
                  /\ Active(j)' => Active(j)
  BY <1>4 DEF WriteBatchItemResult
<1>5. ASSUME NEW i \in CustomIds, MarkBatchItemApplied(i)
      PROVE  /\ batch' = batch
             /\ \A j \in CustomIds :
                  /\ item'[j].batch = item[j].batch /\ item'[j].reading = item[j].reading
                  /\ Active(j)' => Active(j)
  BY <1>5 DEF MarkBatchItemApplied
<1>6. CASE UNCHANGED batchVars
  BY <1>6 DEF batchVars
<1>7. CASE \E b \in Batches : \E ids \in SUBSET CustomIds : \E new \in [ids -> Readings] :
             CreatePlannedBatch(b, new)
  <2>1. PICK b \in Batches :
          /\ \A x \in Batches : batch[x].state # "absent" => x # b /\ batch'[x] = batch[x]
          /\ \A i \in CustomIds :
               \/ item'[i] = item[i]
               \/ item[i] = NoItem /\ item'[i].batch = b
    BY <1>1, <1>7
  <2>2. ASSUME NEW x \in Batches, batch[x].state # "absent"
        PROVE  ItemsOf(x)' = ItemsOf(x)
    BY <2>1, <2>2, ManualBatchAssumption DEF NoItem
  <2>3. \A i \in CustomIds : item[i].state # "absent" => item'[i] = item[i]
    BY <2>1 DEF NoItem
  <2> QED BY <2>1, <2>2, <2>3
<1>8. CASE /\ \A x \in Batches : batch[x].state # "absent" => batch'[x].state # "absent"
           /\ \A i \in CustomIds :
                /\ item'[i].batch = item[i].batch /\ item'[i].reading = item[i].reading
                /\ Active(i)' => Active(i)
  BY <1>8
<1> QED BY <1>2, <1>3, <1>4, <1>5, <1>6, <1>7, <1>8 DEF Next

\* What a commit must leave to a transaction that is not its own.
Spared(d) ==
  /\ txn'[d] = txn[d]
  /\ txn[d].op = "create" =>
       /\ batch'[txn[d].b].state = "absent"
       /\ \A i \in Inserted(d) :
            /\ item'[i].state = "absent"
            /\ \A j \in CustomIds :
                 item[j].state = "absent" /\ Active(j)' => item'[j].reading # txn[d].new[i]
  /\ Holds(d) => batch'[txn[d].b] = batch[txn[d].b]
  /\ Holds(d) /\ txn[d].op = "submit" /\ txn[d].remote # None =>
       \A x \in Batches \ {txn[d].b} : batch'[x].remote # txn[d].remote
  /\ txn[d].op = "update" /\ txn[d].at = "commit" => \A i \in txn[d].rows : Active(i)'

\* A transaction that is spared by a commit is still right.
LEMMA SparedOK ==
  ASSUME PgInv, [PgNext]_vars, NEW d \in Callers, Spared(d)
  PROVE  TxnOK(d)'
<1>1. TxnOK(d) /\ txn'[d] = txn[d]
  BY DEF PgInv, TxnInv, Spared
<1>2. /\ \A b \in Batches : batch[b].state # "absent" =>
           batch'[b].state # "absent" /\ ItemsOf(b)' = ItemsOf(b)
      /\ \A i \in CustomIds : item[i].state # "absent" =>
           item'[i].reading = item[i].reading /\ (Active(i)' => Active(i))
  BY StepSimulation, TablesGrow DEF PgInv
<1>3. CreateOK(d)'
  <2>1. SUFFICES ASSUME txn[d].op = "create" PROVE CreateOK(d)'
    BY <1>1 DEF CreateOK
  <2>2. Inserted(d)' = Inserted(d)
    BY <1>1 DEF Inserted
  <2>3. ASSUME NEW i \in Inserted(d), NEW j \in CustomIds, Active(j)'
        PROVE  item'[j].reading # txn[d].new[i]
    BY <1>1, <1>2, <2>1, <2>3 DEF TxnOK, CreateOK, Spared
  <2> QED BY <1>1, <2>1, <2>2, <2>3 DEF TxnOK, CreateOK, Spared
<1>4. txn[d].op \in {"submit", "update"} =>
        /\ txn[d].b \in Batches
        /\ batch'[txn[d].b].state # "absent"
        /\ ItemsOf(txn[d].b)' = ItemsOf(txn[d].b)
  <2>1. txn[d].op \in {"submit", "update"} => txn[d].b \in Batches /\ batch[txn[d].b].state # "absent"
    BY <1>1 DEF TxnOK, SubmitOK, UpdateOK
  <2>2. ItemsOf(txn[d].b)' = {i \in CustomIds : item'[i].batch = txn[d].b}
    BY <1>1 DEF ItemsOf
  <2>3. \A b \in Batches : ItemsOf(b)' = {i \in CustomIds : item'[i].batch = b}
    BY DEF ItemsOf
  <2> QED BY <1>2, <2>1, <2>2, <2>3
<1>5. SubmitOK(d)'
  <2>1. SUFFICES ASSUME txn[d].op = "submit" PROVE SubmitOK(d)'
    BY <1>1 DEF SubmitOK
  <2>2. txn[d].at \in {"items", "commit"} =>
          batch'[txn[d].b].state = "planned" /\ RemoteFree(txn[d].b, txn[d].remote)'
    BY <1>1, <2>1 DEF TxnOK, SubmitOK, Spared, Holds, RemoteFree
  <2> QED BY <1>1, <1>4, <2>1, <2>2 DEF TxnOK, SubmitOK
<1>6. UpdateOK(d)'
  <2>1. SUFFICES ASSUME txn[d].op = "update" PROVE UpdateOK(d)'
    BY <1>1 DEF UpdateOK
  <2>2. txn[d].at \in {"cascade", "commit"} => batch'[txn[d].b].state = txn[d].from
    BY <1>1, <2>1 DEF TxnOK, UpdateOK, Spared, Holds
  <2>3. Ends(d)' <=> Ends(d)
    BY <1>1 DEF Ends
  <2>4. \A i \in ItemsOf(txn[d].b) : i \in CustomIds /\ (Active(i)' => Active(i))
    <3>1. \A i \in ItemsOf(txn[d].b) : i \in CustomIds /\ item[i].batch = txn[d].b
      BY DEF ItemsOf
    <3>2. txn[d].b \in Batches
      BY <1>4, <2>1
    <3>3. \A i \in ItemsOf(txn[d].b) : item[i].state # "absent"
      BY <3>1, <3>2, ManualBatchAssumption DEF PgInv, IndInv, TypeOK, NoItem
    <3> QED BY <3>1, <3>3, <1>2
  <2>5. txn[d].at = "commit" =>
          txn[d].rows = IF Ends(d) THEN {i \in ItemsOf(txn[d].b) : Active(i)'} ELSE {}
    BY <1>1, <2>1, <2>4 DEF TxnOK, UpdateOK, Spared
  <2>6. txn[d].at = "commit" =>
          txn'[d].rows = IF Ends(d)' THEN {i \in ItemsOf(txn[d].b) : Active(i)}' ELSE {}
    BY <1>1, <1>4, <2>1, <2>3, <2>5
  <2>7. txn[d].to = "applied" /\ txn[d].from # "applied" /\ txn[d].at \in {"update", "commit"} =>
          \A i \in ItemsOf(txn[d].b)' : ~Active(i)'
    BY <1>1, <1>4, <2>1, <2>4 DEF TxnOK, UpdateOK
  <2> QED BY <1>1, <1>4, <2>1, <2>2, <2>3, <2>6, <2>7 DEF TxnOK, UpdateOK
<1> QED BY <1>1, <1>3, <1>5, <1>6 DEF TxnOK, Idle

\* A commit that spares the others keeps TxnInv.
LEMMA CommitInv ==
  ASSUME PgInv, [PgNext]_vars, NEW c \in Callers, txn' = [txn EXCEPT ![c] = Fresh],
         \A d \in Callers \ {c} : Spared(d)
  PROVE  TxnInv'
<1>1. txn' \in [Callers -> TxnRecord] /\ txn'[c] = Fresh
  BY FreshIsTxn DEF PgInv, TxnInv
<1>2. ASSUME NEW d \in Callers PROVE TxnOK(d)'
  BY <1>1, FreshOK, SparedOK
<1>3. ASSUME NEW d \in Callers, NEW e \in Callers, d # e PROVE PairOK(d, e)'
  <2>1. CASE d = c
    BY <1>1, <1>3, <2>1, FreshOK
  <2>2. CASE e = c
    <3>1. PairOK(c, d)'
      BY <1>1, <1>3, <2>2, FreshOK
    <3> QED BY <2>2, <3>1 DEF PairOK
  <2>3. CASE d # c /\ e # c
    BY <1>3, <2>3 DEF PgInv, TxnInv, PairOK, Holds, Inserted, Spared
  <2> QED BY <2>1, <2>2, <2>3
<1> QED BY <1>1, <1>2, <1>3 DEF TxnInv

\* CommitCreate: the batch, the custom_ids and the readings were its own.
LEMMA CommitCreateInv ==
  ASSUME PgInv, [PgNext]_vars, NEW c \in Callers, CommitCreate(c)
  PROVE  TxnInv'
<1>1. txn' = [txn EXCEPT ![c] = Fresh]
  BY DEF CommitCreate, End
<1>2. CreateOK(c) /\ txn[c].op = "create"
  BY DEF PgInv, TxnInv, TxnOK, CommitCreate, At
<1>3. /\ \A x \in Batches : batch'[x].remote = batch[x].remote
      /\ \A x \in Batches \ {txn[c].b} : batch'[x] = batch[x]
  BY DEF CommitCreate, PgInv, IndInv, TypeOK
<1>4. \A j \in CustomIds : IF j \in Inserted(c) THEN item'[j].reading = txn[c].new[j]
                                               ELSE item'[j] = item[j]
  BY DEF CommitCreate
<1>5. ASSUME NEW d \in Callers \ {c} PROVE Spared(d)
  <2>1. TxnOK(d) /\ PairOK(c, d) /\ txn'[d] = txn[d]
    BY <1>1 DEF PgInv, TxnInv
  <2>2. txn[d].op = "create" =>
          /\ batch'[txn[d].b].state = "absent"
          /\ \A i \in Inserted(d) :
               /\ item'[i].state = "absent"
               /\ \A j \in CustomIds :
                    item[j].state = "absent" /\ Active(j)' => item'[j].reading # txn[d].new[i]
    <3>1. txn[d].op = "create" => batch'[txn[d].b].state = "absent"
      BY <1>2, <1>3, <2>1 DEF TxnOK, CreateOK, PairOK
    <3>2. ASSUME txn[d].op = "create", NEW i \in Inserted(d)
          PROVE  item'[i].state = "absent"
      BY <1>2, <1>4, <2>1, <3>2 DEF TxnOK, CreateOK, PairOK, Inserted
    <3>3. ASSUME txn[d].op = "create", NEW i \in Inserted(d), NEW j \in CustomIds,
                 item[j].state = "absent", Active(j)'
          PROVE  item'[j].reading # txn[d].new[i]
      <4>1. j \in Inserted(c)
        BY <1>4, <3>3 DEF Active, ActiveStates
      <4> QED BY <1>2, <1>4, <2>1, <3>3, <4>1 DEF PairOK
    <3> QED BY <3>1, <3>2, <3>3
  <2>3. Holds(d) => txn[d].b \in Batches /\ txn[d].b # txn[c].b
    BY <1>2, <2>1 DEF Holds, TxnOK, SubmitOK, UpdateOK, CreateOK
  <2>4. Holds(d) /\ txn[d].op = "submit" /\ txn[d].remote # None =>
          \A x \in Batches \ {txn[d].b} : batch'[x].remote # txn[d].remote
    BY <1>3, <2>1 DEF TxnOK, SubmitOK, RemoteFree, Holds
  <2>5. txn[d].op = "update" /\ txn[d].at = "commit" => \A i \in txn[d].rows : Active(i)'
    <3>1. SUFFICES ASSUME txn[d].op = "update", txn[d].at = "commit", NEW i \in txn[d].rows
                   PROVE  Active(i)'
      OBVIOUS
    <3>2. i \in CustomIds /\ Active(i)
      BY <2>1, <3>1 DEF TxnOK, UpdateOK, ItemsOf
    <3>3. i \notin Inserted(c)
      BY <1>2, <3>2 DEF CreateOK, Active, ActiveStates
    <3> QED BY <1>4, <3>2, <3>3 DEF Active
  <2> QED BY <1>3, <2>1, <2>2, <2>3, <2>4, <2>5 DEF Spared
<1> QED BY <1>1, <1>5, CommitInv

\* A commit that changes rows of existing items of one batch, which it holds.
LEMMA HolderInv ==
  ASSUME PgInv, [PgNext]_vars, NEW c \in Callers, Holds(c), txn' = [txn EXCEPT ![c] = Fresh],
         txn[c].b \in Batches, batch[txn[c].b].state # "absent",
         \A x \in Batches \ {txn[c].b} : batch'[x] = batch[x],
         batch'[txn[c].b].remote \in {batch[txn[c].b].remote, txn[c].remote},
         txn[c].op = "submit" \/ batch'[txn[c].b].remote = batch[txn[c].b].remote,
         \A i \in CustomIds \ ItemsOf(txn[c].b) : item'[i] = item[i]
  PROVE  TxnInv'
<1>1. \A i \in ItemsOf(txn[c].b) : item[i].state # "absent"
  BY ManualBatchAssumption DEF PgInv, IndInv, TypeOK, NoItem, ItemsOf
<1>2. ASSUME NEW d \in Callers \ {c} PROVE Spared(d)
  <2>1. TxnOK(d) /\ PairOK(c, d) /\ txn'[d] = txn[d]
    BY DEF PgInv, TxnInv
  <2>2. txn[d].op = "create" =>
          /\ batch'[txn[d].b].state = "absent"
          /\ \A i \in Inserted(d) :
               /\ item'[i].state = "absent"
               /\ \A j \in CustomIds :
                    item[j].state = "absent" /\ Active(j)' => item'[j].reading # txn[d].new[i]
    BY <1>1, <2>1 DEF TxnOK, CreateOK, Inserted, Active, ActiveStates
  <2>3. Holds(d) => txn[d].b \in Batches /\ txn[d].b # txn[c].b
    BY <2>1 DEF Holds, TxnOK, SubmitOK, UpdateOK, PairOK
  <2>4. Holds(d) /\ txn[d].op = "submit" /\ txn[d].remote # None =>
          \A x \in Batches \ {txn[d].b} : batch'[x].remote # txn[d].remote
    BY <2>1, <2>3 DEF TxnOK, SubmitOK, RemoteFree, Holds, PairOK
  <2>5. txn[d].op = "update" /\ txn[d].at = "commit" => \A i \in txn[d].rows : Active(i)'
    BY <2>1, <2>3 DEF TxnOK, UpdateOK, Holds, ItemsOf, Active
  <2> QED BY <2>1, <2>2, <2>3, <2>4, <2>5 DEF Spared
<1> QED BY <1>2, CommitInv

\* CommitSubmit: its remote id is nobody else's.
LEMMA CommitSubmitInv ==
  ASSUME PgInv, [PgNext]_vars, NEW c \in Callers, CommitSubmit(c)
  PROVE  TxnInv'
<1>1. /\ Holds(c) /\ SubmitOK(c) /\ txn[c].op = "submit" /\ txn[c].at = "commit"
      /\ txn' = [txn EXCEPT ![c] = Fresh]
  BY DEF PgInv, TxnInv, TxnOK, CommitSubmit, At, Holds, End
<1>2. /\ \A x \in Batches \ {txn[c].b} : batch'[x] = batch[x]
      /\ batch'[txn[c].b].remote = txn[c].remote
  BY <1>1 DEF CommitSubmit, SubmitOK, PgInv, IndInv, TypeOK
<1>3. \A i \in CustomIds \ ItemsOf(txn[c].b) : item'[i] = item[i]
  BY <1>1 DEF CommitSubmit, SubmitOK
<1> QED BY <1>1, <1>2, <1>3, HolderInv DEF SubmitOK

\* CommitUpdate: its rows are nobody else's.
LEMMA CommitUpdateInv ==
  ASSUME PgInv, [PgNext]_vars, NEW c \in Callers, CommitUpdate(c)
  PROVE  TxnInv'
<1>1. /\ Holds(c) /\ UpdateOK(c) /\ txn[c].op = "update" /\ txn[c].at = "commit"
      /\ txn' = [txn EXCEPT ![c] = Fresh]
  BY DEF PgInv, TxnInv, TxnOK, CommitUpdate, At, Holds, End
<1>2. /\ \A x \in Batches \ {txn[c].b} : batch'[x] = batch[x]
      /\ batch'[txn[c].b].remote = batch[txn[c].b].remote
  BY <1>1 DEF CommitUpdate, UpdateOK, PgInv, IndInv, TypeOK
<1>3. \A i \in CustomIds \ ItemsOf(txn[c].b) : item'[i] = item[i]
  BY <1>1 DEF CommitUpdate, UpdateOK
<1> QED BY <1>1, <1>2, <1>3, HolderInv DEF UpdateOK

\* A conditional update of one item that no open transaction has written.
LEMMA ItemInv ==
  ASSUME PgInv, [PgNext]_vars, NEW i \in CustomIds, Free(i), item[i].state # "absent",
         UNCHANGED <<batch, txn>>, \A j \in CustomIds \ {i} : item'[j] = item[j]
  PROVE  TxnInv'
<1>1. ASSUME NEW d \in Callers PROVE Spared(d)
  <2>1. TxnOK(d)
    BY DEF PgInv, TxnInv
  <2>2. txn[d].op = "create" =>
          /\ batch'[txn[d].b].state = "absent"
          /\ \A k \in Inserted(d) :
               /\ item'[k].state = "absent"
               /\ \A j \in CustomIds :
                    item[j].state = "absent" /\ Active(j)' => item'[j].reading # txn[d].new[k]
    BY <2>1 DEF TxnOK, CreateOK, Inserted, Active, ActiveStates
  <2>3. Holds(d) /\ txn[d].op = "submit" /\ txn[d].remote # None =>
          \A x \in Batches \ {txn[d].b} : batch'[x].remote # txn[d].remote
    BY <2>1 DEF TxnOK, SubmitOK, RemoteFree, Holds
  <2>4. txn[d].op = "update" /\ txn[d].at = "commit" => \A k \in txn[d].rows : Active(k)'
    BY <2>1 DEF Free, TxnOK, UpdateOK, ItemsOf, Active
  <2> QED BY <2>2, <2>3, <2>4 DEF Spared
<1>2. ASSUME NEW d \in Callers PROVE TxnOK(d)'
  BY <1>1, SparedOK
<1>3. ASSUME NEW d \in Callers, NEW e \in Callers, d # e PROVE PairOK(d, e)'
  BY <1>3 DEF PgInv, TxnInv, PairOK, Holds, Inserted
<1> QED BY <1>2, <1>3 DEF TxnInv, PgInv

-----------------------------------------------------------------------------

\* No transaction is open at first.
LEMMA PgInitInv == PgInit => PgInv
<1> SUFFICES ASSUME PgInit PROVE PgInv
  OBVIOUS
<1>1. IndInv
  BY InitInv DEF PgInit
<1>2. txn \in [Callers -> TxnRecord] /\ \A c \in Callers : txn[c] = Fresh
  BY FreshIsTxn DEF PgInit
<1>3. TxnInv
  BY <1>2 DEF TxnInv, TxnOK, CreateOK, SubmitOK, UpdateOK, PairOK, Holds, Fresh, Idle
<1> QED BY <1>1, <1>3 DEF PgInv

\* The invariant is kept by every statement and commit.
LEMMA PgNextInv == PgInv /\ [PgNext]_vars => PgInv'
<1> SUFFICES ASSUME PgInv, [PgNext]_vars PROVE TxnInv'
  BY StepInv DEF PgInv
<1>1. ASSUME NEW c \in Callers, CreateNext(c) PROVE TxnInv'
  BY <1>1, InsertBatchInv, InsertItemInv, CommitCreateInv DEF CreateNext
<1>2. ASSUME NEW c \in Callers, SubmitNext(c) PROVE TxnInv'
  BY <1>2, SubmitReadInv, ListItemsInv, SubmitRowInv, SubmitItemsInv, CommitSubmitInv DEF SubmitNext
<1>3. ASSUME NEW c \in Callers, UpdateNext(c) PROVE TxnInv'
  BY <1>3, UpdateReadInv, CountActiveInv, UpdateRowInv, CascadeInv, CommitUpdateInv DEF UpdateNext
<1>4. ASSUME NEW c \in Callers, Rollback(c) PROVE TxnInv'
  BY <1>4, RollbackInv
<1>5. ASSUME NEW i \in CustomIds, NEW state \in ResultStates, NEW result \in Results,
             WriteManualBatchItemResult(i, state, result)
      PROVE  TxnInv'
  <2>1. /\ Free(i) /\ item[i].state # "absent" /\ UNCHANGED <<batch, txn>>
        /\ \A j \in CustomIds \ {i} : item'[j] = item[j]
    BY <1>5 DEF WriteManualBatchItemResult, PgInv, IndInv, TypeOK
  <2> QED BY <2>1, ItemInv
<1>6. ASSUME NEW i \in CustomIds, MarkManualBatchItemApplied(i) PROVE TxnInv'
  <2>1. /\ Free(i) /\ item[i].state # "absent" /\ UNCHANGED <<batch, txn>>
        /\ \A j \in CustomIds \ {i} : item'[j] = item[j]
    BY <1>6 DEF MarkManualBatchItemApplied, PgInv, IndInv, TypeOK
  <2> QED BY <2>1, ItemInv
<1>7. CASE UNCHANGED vars
  <2>1. Uncommitted /\ txn' = txn
    BY <1>7 DEF vars, Uncommitted
  <2>2. \A c \in Callers : TxnOK(c)'
    BY <2>1, StayOK
  <2>3. \A c, d \in Callers : c # d => PairOK(c, d)'
    BY <2>1 DEF PgInv, TxnInv, PairOK, Holds, Inserted
  <2> QED BY <2>1, <2>2, <2>3 DEF PgInv, TxnInv
<1> QED BY <1>1, <1>2, <1>3, <1>4, <1>5, <1>6, <1>7 DEF PgNext

LEMMA PgInvariant == PgSpec => []PgInv
  BY PgInitInv, PgNextInv, PTL DEF PgSpec

\* Postgres keeps the contract of Memory for any number of connections and
\* any interleaving of their statements: a state read before a lock was taken
\* is never what a commit relies on.
THEOREM PgImplements == PgSpec => ImplementsManualBatch
<1>1. PgInit => Init
  BY DEF PgInit
<1> QED BY <1>1, PgInvariant, StepSimulation, PTL DEF PgSpec, Spec, ImplementsManualBatch

\* What is proved of the contract holds of the tables that are committed: two
\* transactions that both saw a reading free do not both commit an item of it.
THEOREM PgOneActiveItem == PgSpec => []OneActiveItemPerReading
  BY PgImplements, OneActiveItem, PTL DEF ImplementsManualBatch
=============================================================================
