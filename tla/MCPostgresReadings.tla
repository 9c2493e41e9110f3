-------------------------- MODULE MCPostgresReadings --------------------------
(* Two readings that want one page, two goroutines, runs that start at 1 and 2. *)
EXTENDS PostgresReadings, TLC

Plain == [op |-> "get", id |-> 1, to |-> "", start |-> 0, attempts |-> 0, value |-> ""]

MCCalls ==
  {[Plain EXCEPT !.op = "save", !.id = id, !.value = "page"] : id \in Ids}
  \cup {[Plain EXCEPT !.op = "status", !.to = to, !.attempts = 1] : to \in {"pending", "ready", "failed"}}
  \cup {[Plain EXCEPT !.op = "status", !.to = "running", !.start = 2]}
  \cup {[Plain EXCEPT !.op = op, !.start = start, !.value = "text"] :
          op \in {"content", "tags"}, start \in 0 .. 2}
  \cup {[Plain EXCEPT !.op = op, !.value = "body"] : op \in {"import", "reprocess"}}
  \cup {[Plain EXCEPT !.op = op] : op \in {"delete", "get"}}
  \cup {[Plain EXCEPT !.op = "list", !.start = 2]}

Symmetry == Permutations(Callers)
==============================================================================
