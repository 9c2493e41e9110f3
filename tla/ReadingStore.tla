----------------------------- MODULE ReadingStore -----------------------------
(***************************************************************************)
(* What a store of readings promises: internal/store/memory.go, where one  *)
(* mutex makes every call a single step.  Goroutines call it, the call     *)
(* takes effect once, they get the answer.  A call that failed may or may  *)
(* not have taken effect.                                                  *)
(*                                                                         *)
(* Of the columns that a status write merges, a row here shows what is     *)
(* read of them: when a running reading was started, why a failed one      *)
(* failed, the attempts of one that is not settled.                        *)
(***************************************************************************)
EXTENDS Naturals, FiniteSets

CONSTANTS
  Ids,       \* of readings
  Callers,   \* goroutines
  Calls,     \* the calls they make
  MaxCall,   \* bound of the model: calls made
  MaxError   \* bound of the model: calls that fail

VARIABLES
  rows,      \* the reading of every id
  call,      \* the call of every goroutine and its answer
  count      \* calls made and failed

storeVars == <<rows, call, count>>

-----------------------------------------------------------------------------

NoRow == [status |-> "none"]
Idle  == [at |-> "idle"]
Stored(id) == rows[id] # NoRow

\* What is read of a reading's merged columns.
Visible(r) ==
  [r EXCEPT !.started  = IF r.status = "running" THEN @ ELSE 0,
            !.finished = IF r.status \in {"ready", "failed"} THEN @ ELSE FALSE,
            !.error    = IF r.status = "failed" THEN @ ELSE "",
            !.attempts = IF r.status \in {"pending", "running"} THEN @ ELSE 0]

NewReading(k) ==
  [key |-> k.value, status |-> "pending", started |-> 0, finished |-> FALSE, error |-> "",
   attempts |-> 0, content |-> "", raw |-> "", tags |-> ""]

\* A call of the dispatcher gives the fields of its status.
UpdateStatus(r, k) ==
  [r EXCEPT !.status   = k.to,
            !.started  = IF k.to = "running" THEN k.start ELSE @,
            !.finished = @ \/ k.to \in {"ready", "failed"},
            !.error    = CASE k.to = "failed" -> "failed"
                           [] k.to \in {"running", "ready"} -> ""
                           [] OTHER -> @,
            !.attempts = IF k.to = "ready" THEN @ ELSE k.attempts]

UpdateContent(r, k) == [r EXCEPT !.content = k.value, !.raw = "run"]
ReplaceTags(r, k)   == [r EXCEPT !.tags = k.value]

Reprocess(r, k) ==
  [r EXCEPT !.status = "pending", !.content = "", !.raw = k.value, !.error = "",
            !.started = 0, !.finished = FALSE, !.attempts = 0]

UpdateImport(r, k) == [Reprocess(r, k) EXCEPT !.tags = ""]

\* A call that names the run it is for is refused when that run is not the
\* reading's.
Fenced(k) == k.op \in {"content", "tags"} /\ k.start # 0
OfRun(r, k) == r # NoRow /\ r.status = "running" /\ r.started = k.start

ListNonTerminal(cutoff) ==
  {<<id, rows[id].attempts>> : id \in
     {i \in Ids : Stored(i) /\ \/ rows[i].status = "pending"
                               \/ rows[i].status = "running" /\ rows[i].started < cutoff}}

Result(k) ==
  CASE k.op = "status"    -> UpdateStatus(rows[k.id], k)
    [] k.op = "content"   -> UpdateContent(rows[k.id], k)
    [] k.op = "tags"      -> ReplaceTags(rows[k.id], k)
    [] k.op = "import"    -> UpdateImport(rows[k.id], k)
    [] k.op = "reprocess" -> Reprocess(rows[k.id], k)

-----------------------------------------------------------------------------

Begin(c) ==
  /\ call[c] = Idle
  /\ count.calls < MaxCall /\ count' = [count EXCEPT !.calls = @ + 1]
  /\ \E k \in Calls : call' = [call EXCEPT ![c] = [at |-> "called", k |-> k, answer |-> << >>]]
  /\ UNCHANGED rows

Answer(c, answer) == call' = [call EXCEPT ![c].at = "answered", ![c].answer = answer]

Write(id, row) == rows' = [rows EXCEPT ![id] = row]

Refuse(c, k) ==
  LET conflict == k.op = "save" /\ (Stored(k.id) \/ \E id \in Ids : Stored(id) /\ rows[id].key = k.value)
  IN  /\ UNCHANGED rows
      /\ \/ conflict /\ Answer(c, <<"conflict">>)
         \/ Fenced(k) /\ ~OfRun(rows[k.id], k) /\ Answer(c, <<"refused">>)
         \/ k.op \notin {"save", "list"} /\ ~Fenced(k) /\ ~Stored(k.id) /\ Answer(c, <<"notfound">>)

\* The change a call makes to the row of its reading.
Change(k) ==
  \/ /\ k.op = "save" /\ ~Stored(k.id) /\ \A id \in Ids : Stored(id) => rows[id].key # k.value
     /\ Write(k.id, NewReading(k))
  \/ /\ k.op = "delete" /\ Stored(k.id)
     /\ Write(k.id, NoRow)
  \/ /\ k.op \in {"status", "content", "tags", "import", "reprocess"} /\ Stored(k.id)
     /\ Fenced(k) => OfRun(rows[k.id], k)
     /\ Write(k.id, Visible(Result(k)))

Look(c, k) ==
  /\ UNCHANGED rows
  /\ \/ k.op = "get" /\ Stored(k.id) /\ Answer(c, <<"row", rows[k.id]>>)
     \/ k.op = "list" /\ Answer(c, <<"ids", ListNonTerminal(k.start)>>)

Effect(c) ==
  /\ call[c].at = "called"
  /\ \/ Refuse(c, call[c].k)
     \/ Look(c, call[c].k)
     \/ Change(call[c].k) /\ Answer(c, <<"ok">>)
  /\ UNCHANGED count

Lose(c) ==
  /\ call[c].at = "called"
  /\ count.errors < MaxError /\ count' = [count EXCEPT !.errors = @ + 1]
  /\ UNCHANGED rows \/ Change(call[c].k)
  /\ Answer(c, <<"error">>)

Return(c) ==
  /\ call[c].at = "answered"
  /\ call' = [call EXCEPT ![c] = Idle]
  /\ UNCHANGED <<rows, count>>

\* A fresh store, or one with a reading: pending, or running since 1.
InitReadings ==
  LET fresh == [NewReading([value |-> "page"]) EXCEPT !.raw = "body"]
  IN  {NoRow, fresh, [fresh EXCEPT !.status = "running", !.started = 1]}

StoreInit ==
  /\ rows \in {r \in [Ids -> InitReadings] : \A i, j \in Ids : i # j /\ r[i] # NoRow => r[j] = NoRow}
  /\ call = [c \in Callers |-> Idle]
  /\ count = [calls |-> 0, errors |-> 0]

StoreNext == \E c \in Callers : Begin(c) \/ Effect(c) \/ Lose(c) \/ Return(c)

StoreSpec == StoreInit /\ [][StoreNext]_storeVars
==============================================================================
