--------------------------- MODULE DispatcherMap ---------------------------
(***************************************************************************)
(* The refinement mapping from Dispatcher to Lifecycle, one reading at a   *)
(* time.                                                                   *)
(***************************************************************************)
EXTENDS Dispatcher

Runs == Workers

\* A run of id holds the work as long as its item carries the claim's token.
RunOf(id)  == {w \in Workers : wpc[w] \in RunStages /\ witem[w].id = id}
LiveOf(id) == {w \in RunOf(id) : Owns(witem[w])}

WorkOf(id) == IF ~Claimed(id) THEN "none"
              ELSE IF LiveOf(id) # {} THEN "held" ELSE "waiting"

\* The items that are on their way with the claim of id.
ItemsFor(id) ==
  {it \in {citem[c] : c \in {d \in Threads : Carrying(d)}}
          \cup {ch[i] : i \in DOMAIN ch}
          \cup {witem[w] : w \in {v \in Workers : wpc[v] = "got"}}
          \cup delayed : it.id = id /\ Owns(it)}

NextOf(id) == IF WorkOf(id) = "waiting" THEN (CHOOSE it \in ItemsFor(id) : TRUE).attempt ELSE 0

L(id) == INSTANCE Lifecycle WITH
  row     <- row[id],
  work    <- WorkOf(id),
  next    <- NextOf(id),
  live    <- LiveOf(id),
  stage   <- [w \in Workers |-> IF w \in RunOf(id) THEN wpc[w] ELSE "off"],
  attempt <- [w \in Workers |-> IF w \in RunOf(id) THEN witem[w].attempt ELSE 0]

\* "Ownership is held from the moment the id is enqueued until its work
\* reaches a terminal outcome": for every reading, the claims, items, channel,
\* timers and goroutines start as and only ever do what Lifecycle allows: the
\* work is waiting or held by one live run, is passed on with the attempt the
\* retry policy gives it, and a stale run does nothing but end the write it
\* had begun.  (The conjunction over all id of L(id)!LifeSpec, in one box.)
ImplementsLifecycle ==
  /\ \A id \in Ids : L(id)!LifeInit
  /\ [][\A id \in Ids : L(id)!LifeNext \/ UNCHANGED L(id)!lifeVars]_vars
=============================================================================
