----------------------------- MODULE ReaderCtl ------------------------------
(***************************************************************************)
(* internal/readerctl/readerctl.go: drop, audit and recover, beside the    *)
(* requests and the runs of ReadingOps.  The import commands are requests; *)
(* recover sends one Reprocess after another.                              *)
(*                                                                         *)
(* One command per behaviour; it ends in "done".  Scans are a single step: *)
(* Search is what pages them.                                              *)
(***************************************************************************)
EXTENDS ReadingOps, FiniteSetsExt

VARIABLE ctl    \* the command and how far it is

vars == <<opsVars, ctl>>

NotStarted == [at |-> "off"]
Finished   == [at |-> "done"]

-----------------------------------------------------------------------------
(* What a reading owns *)

VectorKey(id) == <<"vector", id, 0>>
BlobRefs(row) == IF row = NoRow THEN {} ELSE {row.raw, row.content} \ {NoKey}

\* Everything the rows refer to, and everything that is there.
Referenced(theRows) == UNION {BlobRefs(theRows[id]) : id \in Ids}
                       \cup {VectorKey(id) : id \in {i \in Ids : theRows[i] # NoRow}}
Artifacts == blobs \cup {VectorKey(id) : id \in vectors}
Owned     == Artifacts \cap Referenced(rows)
Orphans   == Artifacts \ Referenced(rows)
Missing   == (UNION {BlobRefs(rows[id]) : id \in Ids}) \ blobs

-----------------------------------------------------------------------------
(* drop *)

\* drop <ids> and drop --all with --yes: the rows are read before anything is
\* deleted, and an id that is missing ends the command.
DropRead ==
  /\ ctl = NotStarted
  /\ \E ids \in (SUBSET Ids) \ {{}} :
       ctl' = IF \A id \in ids : Stored(id)
              THEN [at |-> "drop", todo |-> {<<id, rows[id]>> : id \in ids}]
              ELSE Finished
  /\ UNCHANGED opsVars

DropNext ==
  /\ ctl.at = "drop"
  /\ ctl' = IF ctl.todo = {} THEN Finished
            ELSE LET t == CHOOSE t \in ctl.todo : \A s \in ctl.todo : t[1] <= s[1]
                 IN  [at |-> "raw", id |-> t[1], row |-> t[2], todo |-> ctl.todo \ {t}]
  /\ UNCHANGED opsVars

\* A delete that fails, landed or not, leaves the reading to the next drop.
Onward(next) ==
  \/ ctl' = [ctl EXCEPT !.at = next] /\ UNCHANGED count
  \/ Failing /\ ctl' = [at |-> "drop", todo |-> ctl.todo]

\* Mutant: the index is left as it is.
DropBlobOnly ==
  /\ ctl.at \in {"raw", "content"}
  /\ blobs' = blobs \ {ctl.row[ctl.at]}
  /\ ctl' = [ctl EXCEPT !.at = IF ctl.at = "raw" THEN "content" ELSE "row"]
  /\ past' = [past EXCEPT !.bodiless = @ \cup {ctl.id}]
  /\ UNCHANGED <<rows, vectors, run, request, used, count>>

DropBlob ==
  /\ ctl.at \in {"raw", "content"}
  /\ Onward(IF ctl.at = "raw" THEN "content" ELSE "vector")
  /\ blobs' = blobs \ {ctl.row[ctl.at]} \/ (ctl'.at = "drop" /\ UNCHANGED blobs)
  /\ past' = [past EXCEPT !.bodiless = @ \cup {ctl.id}]
  /\ UNCHANGED <<rows, vectors, run, request, used>>

DropVector ==
  /\ ctl.at = "vector"
  /\ Onward("row")
  /\ vectors' = vectors \ {ctl.id} \/ (ctl'.at = "drop" /\ UNCHANGED vectors)
  /\ UNCHANGED <<rows, blobs, run, request, used, past>>

\* Store.Delete; with --all a row that has gone is no failure.
DropRow ==
  /\ ctl.at = "row"
  /\ ctl' = [at |-> "drop", todo |-> ctl.todo]
  /\ UNCHANGED count \/ Failing
  /\ \/ /\ rows' = [rows EXCEPT ![ctl.id] = NoRow]
        /\ past' = [past EXCEPT !.displaced = @ \cup (BlobRefs(rows[ctl.id]) \ BlobRefs(ctl.row))]
     \/ count' # count /\ UNCHANGED <<rows, past>>
  /\ UNCHANGED <<blobs, vectors, run, request, used>>

-----------------------------------------------------------------------------
(* audit *)

\* The scan.  owned, orphans and missing are history: what has been so ever
\* since.
AuditScan ==
  /\ ctl = NotStarted
  /\ ctl' = [at |-> "check", rows |-> rows, missingBlobs |-> {}, orphaned |-> {},
             owned |-> Owned, orphans |-> Orphans, missing |-> Missing]
  /\ UNCHANGED opsVars

AuditCheck ==
  /\ ctl.at = "check"
  /\ ctl' = [ctl EXCEPT !.at = "blobs",
                        !.missingBlobs = (UNION {BlobRefs(ctl.rows[id]) : id \in Ids}) \ blobs]
  /\ UNCHANGED opsVars

\* Mutant: only raw blobs count as referenced.
AuditBlobsRaw ==
  /\ ctl.at = "blobs"
  /\ ctl' = [ctl EXCEPT !.at = "vectors",
                        !.orphaned = blobs \ {ctl.rows[id].raw : id \in {i \in Ids : ctl.rows[i] # NoRow}}]
  /\ UNCHANGED opsVars

AuditBlobs ==
  /\ ctl.at = "blobs"
  /\ ctl' = [ctl EXCEPT !.at = "vectors", !.orphaned = blobs \ Referenced(ctl.rows)]
  /\ UNCHANGED opsVars

AuditVectors ==
  /\ ctl.at = "vectors"
  /\ ctl' = [ctl EXCEPT !.at = "reported",
                        !.orphaned = @ \cup ({VectorKey(id) : id \in vectors} \ Referenced(ctl.rows))]
  /\ UNCHANGED opsVars

-----------------------------------------------------------------------------
(* recover *)

\* Failed readings and those the clock calls stale.
RecoverScan ==
  /\ ctl = NotStarted
  /\ \E stale \in SUBSET {id \in Ids : rows[id].status \in {"pending", "running"}} :
       ctl' = [at |-> "recover", todo |-> stale \cup {id \in Ids : rows[id].status = "failed"}]
  /\ UNCHANGED opsVars

\* ops().Reprocess, which may find the reading fresh by now or gone; its own
\* errors do not end the command.  Bound of the model: the next reading is
\* taken up when no request is active.
RecoverOne ==
  /\ ctl.at = "recover" /\ \A r \in Requests : request[r] = Idle
  /\ IF ctl.todo = {} THEN ctl' = Finished /\ UNCHANGED opsVars
     ELSE LET id == Min(ctl.todo)
          IN  /\ ctl' = [ctl EXCEPT !.todo = @ \ {id}]
              /\ (\E r \in Requests : ReprocessRead(r, id)) \/ UNCHANGED opsVars

-----------------------------------------------------------------------------
(* Specification *)

\* Bounds of the model: a command runs beside one request, not beside two, and
\* not in a behaviour with a restart; nothing is looked at after its end.
Alongside ==
  /\ ctl.at \notin {"done", "reported"}
  /\ ctl.at # "off" => Cardinality({r \in Requests : request'[r] # Idle}) <= 1 /\ count'.crash = 0

Watch ==
  ctl' = IF ctl.at \in {"check", "blobs", "vectors"}
         THEN [ctl EXCEPT !.owned = @ \cap Owned', !.orphans = @ \cap Orphans', !.missing = @ \cap Missing']
         ELSE ctl

Command ==
  \/ DropRead \/ DropNext \/ DropBlob \/ DropVector \/ DropRow
  \/ AuditScan \/ AuditCheck \/ AuditBlobs \/ AuditVectors
  \/ RecoverScan \/ RecoverOne

Init == InitOps /\ ctl = NotStarted

Next ==
  \/ OpsNext /\ Watch /\ Alongside
  \/ Command /\ Alongside

Spec == Init /\ [][Next]_vars

-----------------------------------------------------------------------------
(* Properties *)

\* A reading that is dropped while nobody works on it leaves nothing behind:
\* its row goes last, after a delete of everything it refers to.
DropLeavesNothing ==
  [][\A id \in Ids :
       Stored(id) /\ ~Stored(id)' /\ rows[id] = ctl.row /\ rows[id].status \in {"ready", "failed"}
       => BlobRefs(rows[id]) \cap blobs = {} /\ id \notin vectors]_vars

\* Whatever happens while an audit runs: what had no owner all along is
\* reported, what had one all along is not; likewise for missing blobs.
AuditExact ==
  ctl.at = "reported" =>
    /\ ctl.orphans \subseteq ctl.orphaned /\ ctl.orphaned \cap ctl.owned = {}
    /\ ctl.missing \subseteq ctl.missingBlobs /\ ctl.missingBlobs \cap ctl.owned = {}
=============================================================================
