--------------------------- MODULE PostgresBatch ---------------------------
(***************************************************************************)
(* The batch store of internal/store (postgres.go, query.sql): the same    *)
(* operations as ManualBatch, as transactions of several statements at     *)
(* READ COMMITTED.  A read sees what is committed; an update waits for the *)
(* row locks of other transactions and evaluates its WHERE on the rows     *)
(* that are committed then; an insert waits for the unique keys other      *)
(* transactions have written.  What a transaction writes is seen by others *)
(* when it commits.                                                        *)
(*                                                                         *)
(* batch and item of ManualBatch are the committed tables.                 *)
(***************************************************************************)
EXTENDS ManualBatch

CONSTANT Callers    \* connections of the pool

VARIABLE txn        \* the open transaction of every caller

vars == <<batch, item, txn>>

-----------------------------------------------------------------------------
(* Transactions: to is the batch state a call asks for, from the one it     *)
(* read, rows are the items it has read or written, new the readings of     *)
(* the items it has inserted.                                               *)

Fresh == [op |-> "none", at |-> "read", b |-> None, to |-> "absent", from |-> "absent",
          remote |-> None, rows |-> {}, new |-> [i \in CustomIds |-> None]]

Idle(c) == txn[c].op = "none"
At(c, op, at) == txn[c].op = op /\ txn[c].at = at
Others(c) == {d \in Callers \ {c} : ~Idle(d)}

\* Rows another transaction has written and not yet committed.
BatchLocked(c) ==
  \E d \in Others(c) : txn[d].b = txn[c].b /\ txn[d].at \in {"items", "cascade", "commit"}
ItemLocked(c, i) ==
  \E d \in Others(c) : txn[d].at = "commit" /\ i \in txn[d].rows

Goto(c, at) == txn' = [txn EXCEPT ![c].at = at]
End(c)      == txn' = [txn EXCEPT ![c] = Fresh]
Uncommitted == UNCHANGED <<batch, item>>

\* A conflict, an error of the connection, a deadlock or a crash rolls back.
Rollback(c) ==
  /\ ~Idle(c)
  /\ End(c)
  /\ Uncommitted

-----------------------------------------------------------------------------
(* CreatePlannedBatch *)

Inserted(d) == {i \in CustomIds : txn[d].new[i] # None}

InsertBatch(c, b) ==
  /\ Idle(c)
  /\ batch[b].state = "absent"
  /\ \A d \in Others(c) : ~(txn[d].op = "create" /\ txn[d].b = b)
  /\ txn' = [txn EXCEPT ![c] = [Fresh EXCEPT !.op = "create", !.at = "insert", !.b = b]]
  /\ Uncommitted

\* Mutant: the active items of a reading are looked up, and no index guards them.
InsertItemLookup(c, i, r) ==
  /\ At(c, "create", "insert")
  /\ item[i].state = "absent"
  /\ \A j \in CustomIds : Active(j) => item[j].reading # r
  /\ \A d \in Others(c) \cup {c} : i \notin Inserted(d)
  /\ txn' = [txn EXCEPT ![c].new[i] = r]
  /\ Uncommitted

\* The primary key and the unique index over the readings of active items.
InsertItem(c, i, r) ==
  /\ At(c, "create", "insert")
  /\ item[i].state = "absent"
  /\ \A j \in CustomIds : Active(j) => item[j].reading # r
  /\ \A d \in Others(c) \cup {c} : \A j \in Inserted(d) : j # i /\ txn[d].new[j] # r
  /\ txn' = [txn EXCEPT ![c].new[i] = r]
  /\ Uncommitted

CommitCreate(c) ==
  LET new == txn[c].new
  IN  /\ At(c, "create", "insert")
      /\ batch' = [batch EXCEPT ![txn[c].b].state = "planned"]
      /\ item' = [i \in CustomIds |->
                    IF i \in Inserted(c)
                    THEN [state |-> "planned", batch |-> txn[c].b, reading |-> new[i], result |-> None]
                    ELSE item[i]]
      /\ End(c)

-----------------------------------------------------------------------------
(* SubmitBatch *)

SubmitRead(c, b, remote) ==
  /\ Idle(c)
  /\ batch[b].state = "planned"
  /\ txn' = [txn EXCEPT ![c] = [Fresh EXCEPT !.op = "submit", !.at = "list", !.b = b, !.remote = remote]]
  /\ Uncommitted

ListItems(c) ==
  /\ At(c, "submit", "list")
  /\ \A i \in ItemsOf(txn[c].b) : item[i].state = "planned"
  /\ txn' = [txn EXCEPT ![c].at = "update", ![c].rows = ItemsOf(txn[c].b)]
  /\ Uncommitted

\* Mutant: the update of the batch is not conditional on its state.
SubmitRowUnfenced(c) ==
  /\ At(c, "submit", "update")
  /\ ~BatchLocked(c)
  /\ RemoteFree(txn[c].b, txn[c].remote)
  /\ Goto(c, "items")
  /\ Uncommitted

\* Mutant: the remote id is looked up, and no index guards it.
SubmitRowLookup(c) ==
  /\ At(c, "submit", "update")
  /\ ~BatchLocked(c)
  /\ batch[txn[c].b].state = "planned"
  /\ RemoteFree(txn[c].b, txn[c].remote)
  /\ Goto(c, "items")
  /\ Uncommitted

\* where state = 'planned', and the unique index over remote ids.
SubmitRow(c) ==
  /\ At(c, "submit", "update")
  /\ ~BatchLocked(c)
  /\ batch[txn[c].b].state = "planned"
  /\ RemoteFree(txn[c].b, txn[c].remote)
  /\ txn[c].remote # None =>
       \A d \in Others(c) : txn[d].at \in {"items", "commit"} => txn[d].remote # txn[c].remote
  /\ Goto(c, "items")
  /\ Uncommitted

\* As many rows as were listed, or the call rolls back.
SubmitItems(c) ==
  LET rows == {i \in ItemsOf(txn[c].b) : item[i].state = "planned"}
  IN  /\ At(c, "submit", "items")
      /\ \A i \in rows : ~ItemLocked(c, i)
      /\ Cardinality(rows) = Cardinality(txn[c].rows)
      /\ txn' = [txn EXCEPT ![c].at = "commit", ![c].rows = rows]
      /\ Uncommitted

CommitSubmit(c) ==
  /\ At(c, "submit", "commit")
  /\ batch' = [batch EXCEPT ![txn[c].b] = [state |-> "submitted", remote |-> txn[c].remote]]
  /\ item' = [i \in CustomIds |->
                IF i \in txn[c].rows THEN [item[i] EXCEPT !.state = "submitted"] ELSE item[i]]
  /\ End(c)

-----------------------------------------------------------------------------
(* UpdateBatchState *)

\* A call with the state the batch has refreshes its metadata.
UpdateRead(c, b, to) ==
  /\ Idle(c)
  /\ batch[b].state # "absent"
  /\ batch[b].state = to \/ validBatchTransition(batch[b].state, to)
  /\ txn' = [txn EXCEPT ![c] =
       [Fresh EXCEPT !.op = "update", !.b = b, !.to = to, !.from = batch[b].state,
                     !.at = IF to = "applied" /\ batch[b].state # to THEN "count" ELSE "update"]]
  /\ Uncommitted

CountActive(c) ==
  /\ At(c, "update", "count")
  /\ \A i \in ItemsOf(txn[c].b) : ~Active(i)
  /\ Goto(c, "update")
  /\ Uncommitted

\* where state = the state that was read.
UpdateRow(c) ==
  /\ At(c, "update", "update")
  /\ ~BatchLocked(c)
  /\ batch[txn[c].b].state = txn[c].from
  /\ Goto(c, IF txn[c].from # txn[c].to /\ Cascades(txn[c].to) THEN "cascade" ELSE "commit")
  /\ Uncommitted

\* Mutant: a planned batch cannot be canceled with its items.
CascadeSubmitted(c) ==
  LET rows == {i \in ItemsOf(txn[c].b) : item[i].state \in {"submitted", "succeeded"}}
  IN  /\ At(c, "update", "cascade")
      /\ \A i \in rows : ~ItemLocked(c, i)
      /\ txn' = [txn EXCEPT ![c].at = "commit", ![c].rows = rows]
      /\ Uncommitted

Cascade(c) ==
  LET rows == {i \in ItemsOf(txn[c].b) : Active(i)}
  IN  /\ At(c, "update", "cascade")
      /\ \A i \in rows : ~ItemLocked(c, i)
      /\ txn' = [txn EXCEPT ![c].at = "commit", ![c].rows = rows]
      /\ Uncommitted

CommitUpdate(c) ==
  /\ At(c, "update", "commit")
  /\ batch' = [batch EXCEPT ![txn[c].b].state = txn[c].to]
  /\ item' = [i \in CustomIds |->
                IF i \in txn[c].rows THEN [item[i] EXCEPT !.state = txn[c].to] ELSE item[i]]
  /\ End(c)

-----------------------------------------------------------------------------
(* Operations of one conditional update.  The read before it only decides  *)
(* what a call that changes nothing returns.                               *)

Free(i) == \A d \in Callers : ~(txn[d].at = "commit" /\ i \in txn[d].rows)

\* Mutant: a result replaces an earlier one.
WriteResultAgain(i, state, result) ==
  /\ Free(i)
  /\ item[i].state \in {"submitted"} \cup ResultStates
  /\ item' = [item EXCEPT ![i] = [@ EXCEPT !.state = state, !.result = result]]
  /\ UNCHANGED <<batch, txn>>

\* Mutant: a result is stored for any custom_id that has none.
WriteResultUnchecked(i, state, result) ==
  /\ Free(i)
  /\ item[i].result = None
  /\ item' = [item EXCEPT ![i] = [@ EXCEPT !.state = state, !.result = result]]
  /\ UNCHANGED <<batch, txn>>

WriteManualBatchItemResult(i, state, result) ==
  /\ Free(i)
  /\ item[i].state = "submitted"
  /\ item' = [item EXCEPT ![i] = [@ EXCEPT !.state = state, !.result = result]]
  /\ UNCHANGED <<batch, txn>>

MarkManualBatchItemApplied(i) ==
  /\ Free(i)
  /\ item[i].state = "succeeded"
  /\ item' = [item EXCEPT ![i].state = "applied"]
  /\ UNCHANGED <<batch, txn>>

-----------------------------------------------------------------------------

PgInit ==
  /\ Init
  /\ txn = [c \in Callers |-> Fresh]

CreateNext(c) ==
  \/ \E b \in Batches : InsertBatch(c, b)
  \/ \E i \in CustomIds, r \in Readings : InsertItem(c, i, r)
  \/ CommitCreate(c)

SubmitNext(c) ==
  \/ \E b \in Batches, remote \in Remotes \cup {None} : SubmitRead(c, b, remote)
  \/ ListItems(c) \/ SubmitRow(c) \/ SubmitItems(c) \/ CommitSubmit(c)

UpdateNext(c) ==
  \/ \E b \in Batches, to \in BatchStates : UpdateRead(c, b, to)
  \/ CountActive(c) \/ UpdateRow(c) \/ Cascade(c) \/ CommitUpdate(c)

PgNext ==
  \/ \E c \in Callers : CreateNext(c) \/ SubmitNext(c) \/ UpdateNext(c) \/ Rollback(c)
  \/ \E i \in CustomIds :
       \/ \E state \in ResultStates, result \in Results : WriteManualBatchItemResult(i, state, result)
       \/ MarkManualBatchItemApplied(i)

PgSpec == PgInit /\ [][PgNext]_vars

-----------------------------------------------------------------------------

\* Postgres keeps the contract of Memory also when transactions interleave:
\* every commit is an operation of ManualBatch, every other step changes
\* nothing that is seen.
ImplementsManualBatch == Spec
=============================================================================
