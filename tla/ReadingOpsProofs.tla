-------------------------- MODULE ReadingOpsProofs --------------------------
EXTENDS ReaderCtl, WellFoundedInduction, TLAPS
-----------------------------------------------------------------------------
(* The inductive invariant *)

Statuses  == {"pending", "running", "ready", "failed"}
Kinds     == {"web", "youtube", "markdown", "reddit"}
Keys      == {"none", "body", "raw", "content"} \X (0 .. MaxId) \X Nat
RunPlaces == {"none", "queued", "forced", "running", "stored", "pointed", "indexed"}
Places    == {"put", "save", "reread", "undo", "mark", "reset", "replace", "delete old", "submit", "force"}

\* What the raw pointer of reading id may be when n bodies have been uploaded.
RawOf(id, key, n) ==
  /\ key \in Keys /\ key[1] \in {"none", "body", "raw"}
  /\ key[1] # "none" => key[2] = id
  /\ key[1] = "body" => key[3] <= n

Rows ==
  [url : Urls, key : {URLKey(u) : u \in Urls}, status : Statuses, started : Nat, kind : Kinds,
   raw : Keys, content : Keys]

RowOK(id, row, n) ==
  /\ row \in Rows
  /\ row.key = URLKey(row.url) /\ row.key # Invalid
  /\ RawOf(id, row.raw, n) /\ row.content[1] \in {"none", "content"}

Busy ==
  [at : Places, op : {"ingest", "import", "reprocess"}, url : Urls, id : Ids, body : Keys,
   seen : Rows \cup {NoRow}]

\* Where a request that found nothing, or something, is.
Fits(place, seen) ==
  /\ place = "save" => seen = NoRow
  /\ place \in {"replace", "delete old"} => seen # NoRow

BusyOK(q, n) ==
  /\ q \in Busy /\ URLKey(q.url) # Invalid /\ RawOf(q.id, q.body, n)
  /\ q.seen # NoRow => RowOK(q.id, q.seen, n)
  /\ Fits(q.at, q.seen)

RowsOK ==
  /\ rows \in [Ids -> Rows \cup {NoRow}]
  /\ \A id \in Ids : Stored(id) => RowOK(id, rows[id], count.body) /\ id <= used

RunsOK ==
  /\ run \in [Ids -> [at : RunPlaces, gen : Nat]]
  /\ \A id \in Ids : id > used => run[id].at = "none"

RequestsOK ==
  /\ request \in [Requests -> Busy \cup {Idle}]
  /\ \A r \in Requests : request[r] # Idle => BusyOK(request[r], count.body) /\ request[r].id <= used

BlobsOK == blobs \subseteq {"body", "raw", "content"} \X Ids \X Nat

RestOK ==
  /\ used \in 0 .. MaxId
  /\ count \in [request : Nat, run : Nat, body : Nat, error : Nat, crash : Nat]
  /\ past \in [owed : SUBSET Ids, displaced : SUBSET Keys, bodiless : SUBSET Ids, contested : SUBSET Ids]
  /\ \A id \in past.contested : id <= used

Types == RowsOK /\ RunsOK /\ RequestsOK /\ BlobsOK /\ RestOK

OneKeyOneRow == \A i, j \in Ids : Stored(i) /\ Stored(j) /\ rows[i].key = rows[j].key => i = j

Works(r, id) == request[r] # Idle /\ request[r].id = id
Creating(q)  == q.at \in {"put", "save"} /\ q.seen = NoRow

\* What a request that works on a reading alone knows of its row, of the
\* claim and of its body.
StepOK(q, row, claim, theBlobs, bodiless) ==
  /\ Creating(q) => row = NoRow /\ claim = "none"
  /\ q.at \in {"put", "save", "replace", "mark", "reset", "delete old", "submit"} =>
       claim \in {"none", "forced"}
  /\ q.at \in {"delete old", "submit"} /\ row # NoRow => row.status = "pending"
  /\ q.at \in {"put", "replace"} /\ q.seen # NoRow /\ row # NoRow => row = q.seen
  /\ q.at = "reset" /\ row # NoRow => q.body = (IF row.kind = "markdown" THEN row.raw ELSE NoKey)
  /\ q.at = "replace" \/ (q.at = "save" /\ q.op = "import") =>
       q.body[1] = "body" /\ (q.body \in theBlobs \/ q.id \in bodiless)
  /\ q.at = "put" => q.op = "import"
  /\ q.at = "save" /\ q.op # "import" => q.body = NoKey
  /\ q.at = "replace" => q.body # q.seen.raw
  /\ q.at = "delete old" => q.body # q.seen.raw /\ (row # NoRow => row.raw = q.body)
  /\ q.at \in {"undo", "reread"} =>
       /\ q.body[1] \in {"body", "none"}
       /\ row # NoRow => row.raw # q.body \/ q.body = NoKey \/ q.id \in bodiless

\* A body of the reading is pointed at, left behind or in hand.
BodyOwned(id, key) ==
  \/ Stored(id) /\ rows[id].raw = key
  \/ key \in past.displaced
  \/ \E r \in Requests : Works(r, id) /\ key \in InHand(request[r])

Sole(id) == \A r, s \in Requests : Works(r, id) /\ Works(s, id) => r = s

Steps(id) ==
  \A r \in Requests : Works(r, id) => StepOK(request[r], rows[id], run[id].at, blobs, past.bodiless)

Settled(id) ==
  Stored(id) /\ rows[id].status \in {"ready", "failed"} => run[id].at \in {"none", "forced"}

Bodied(id) ==
  Stored(id) => IF rows[id].kind = "markdown"
                THEN rows[id].raw[1] = "body" /\ (rows[id].raw \in blobs \/ id \in past.bodiless)
                ELSE rows[id].raw[1] \in {"raw", "none"}

OwnBodies(id) == \A key \in blobs : key[1] = "body" /\ key[2] = id => BodyOwned(id, key)

IdOK(id) == Sole(id) /\ Steps(id) /\ Settled(id) /\ Bodied(id) /\ OwnBodies(id)

Newborn     == \A r \in Requests : Creating(request[r]) => request[r].id \notin past.contested
Uncontested == Newborn /\ \A id \in Ids \ past.contested : IdOK(id)

PendingOK(id) ==
  rows[id].status = "pending" =>
    \/ run[id].at # "none"
    \/ id \in past.owed
    \/ \E r \in Requests : request[r].at \in {"delete old", "submit"} /\ request[r].id = id

OpsInv == Types /\ OneKeyOneRow /\ Uncontested /\ PendingIsSubmitted

\* What the command holds.  A drop: rows as they were read, the body of the
\* one it is at deleted.  An audit: what it has read, and what has been so ever
\* since.
Todo(todo, n) == \A t \in todo : RowOK(t[1], t[2], n)
Refs          == {"none", "body", "raw", "content", "vector"} \X (0 .. MaxId) \X Nat
RefsOf(theRows) == UNION {BlobRefs(theRows[id]) : id \in Ids}

Dropping ==
  /\ ctl \in [at : {"raw", "content", "vector", "row"}, id : Ids, row : Rows, todo : SUBSET (Ids \X Rows)]
  /\ Todo(ctl.todo, count.body) /\ RowOK(ctl.id, ctl.row, count.body)
  /\ ctl.at # "raw" /\ ctl.row.raw[1] = "body" => ctl.row.raw \notin blobs

Audits ==
  [at : {"check", "blobs", "vectors", "reported"}, rows : [Ids -> Rows \cup {NoRow}], missingBlobs : SUBSET Refs,
   orphaned : SUBSET Refs, owned : SUBSET Refs, orphans : SUBSET Refs, missing : SUBSET Refs]

AuditOK(c, owned, orphans, missing) ==
  /\ c \in Audits
  /\ c.owned \subseteq owned /\ c.owned \subseteq Referenced(c.rows)
  /\ c.orphans \subseteq orphans /\ c.orphans \cap Referenced(c.rows) = {}
  /\ c.missing \subseteq missing /\ c.missing \subseteq RefsOf(c.rows)
  /\ c.at # "check" => c.missing \subseteq c.missingBlobs /\ c.missingBlobs \cap c.owned = {}
  /\ c.at \in {"vectors", "reported"} => c.orphaned \cap Referenced(c.rows) = {}
  /\ c.at = "vectors" => \A x \in c.orphans : x \in c.orphaned \/ x[1] = "vector"
  /\ c.at = "reported" => c.orphans \subseteq c.orphaned

CtlOK ==
  \/ ctl = NotStarted \/ ctl = Finished
  \/ ctl \in [at : {"drop"}, todo : SUBSET (Ids \X Rows)] /\ Todo(ctl.todo, count.body)
  \/ Dropping
  \/ ctl \in [at : {"recover"}, todo : SUBSET Ids]
  \/ AuditOK(ctl, Owned, Orphans, Missing)

IInv == OpsInv /\ vectors \subseteq Ids /\ CtlOK
-----------------------------------------------------------------------------
(* Facts about the values *)

LEMMA Values ==
  /\ NoRow \notin Rows /\ Idle \notin Busy /\ Idle.at = "idle" /\ NoRow.status = "none"
  /\ NoKey \in Keys /\ NoKey[1] = "none"
<1>1. NoRow.status = "none" /\ Idle.at = "idle"
  BY DEF NoRow, Idle
<1>2. \A row \in Rows : row.status # "none"
  BY DEF Rows, Statuses
<1>3. \A q \in Busy : q.at # "idle"
  BY DEF Busy, Places
<1>4. NoKey \in Keys /\ NoKey[1] = "none"
  BY ReadingOpsAssumption DEF NoKey, Keys
<1> QED
  BY <1>1, <1>2, <1>3, <1>4

LEMMA RowMonotone ==
  ASSUME NEW id, NEW row, NEW m \in Nat, NEW n \in Nat, m <= n, RowOK(id, row, m)
  PROVE  RowOK(id, row, n)
<1>1. \A key : RawOf(id, key, m) => RawOf(id, key, n)
  BY DEF RawOf, Keys
<1> QED
  BY <1>1 DEF RowOK

LEMMA BusyMonotone ==
  ASSUME NEW q, NEW m \in Nat, NEW n \in Nat, m <= n, BusyOK(q, m)
  PROVE  BusyOK(q, n)
<1>1. RawOf(q.id, q.body, n)
  <2>1. RawOf(q.id, q.body, m)
    BY DEF BusyOK
  <2> QED
    BY <2>1 DEF RawOf, Keys
<1>2. q.seen # NoRow => RowOK(q.id, q.seen, n)
  BY RowMonotone DEF BusyOK
<1> QED
  BY <1>1, <1>2 DEF BusyOK

LEMMA Bounds ==
  ASSUME RestOK
  PROVE  used \in Nat /\ count.body \in Nat
<1>1. used \in 0 .. MaxId /\ count \in [request : Nat, run : Nat, body : Nat, error : Nat, crash : Nat]
  BY DEF RestOK
<1>2. used \in Nat
  BY <1>1
<1>3. count.body \in Nat
  BY <1>1
<1> QED
  BY <1>2, <1>3

LEMMA CountBody ==
  ASSUME RestOK, Failing \/ UNCHANGED count
  PROVE  /\ count' \in [request : Nat, run : Nat, body : Nat, error : Nat, crash : Nat]
         /\ count'.body = count.body /\ count.body \in Nat
BY DEF RestOK, Failing

LEMMA RowIs ==
  ASSUME RowsOK, NEW id \in Ids
  PROVE  /\ Stored(id) => rows[id] \in Rows
         /\ ~Stored(id) => rows[id] = NoRow
         /\ rows[id].status \in Statuses \cup {"none"}
         /\ rows[id].status = "none" <=> ~Stored(id)
BY Values DEF RowsOK, Stored, Rows, Statuses

\* A new key of page U: its source is not a markdown file.
LEMMA IngestKind ==
  ASSUME NEW key
  PROVE  urlIngestSourceKind(key) \in Kinds \ {"markdown"}
BY DEF urlIngestSourceKind, ClassifySource, Kinds

-----------------------------------------------------------------------------
(* What one write leaves alone *)

LEMMA RowWritten ==
  ASSUME RowsOK, NEW id \in Ids, NEW row, row = NoRow \/ (RowOK(id, row, count'.body) /\ id <= used'),
         rows' = [rows EXCEPT ![id] = row], used \in Nat, used' \in Nat, used <= used',
         count.body \in Nat, count'.body \in Nat, count.body <= count'.body
  PROVE  RowsOK' /\ rows'[id] = row /\ \A j \in Ids \ {id} : rows'[j] = rows[j]
<1>1. rows'[id] = row /\ \A j \in Ids \ {id} : rows'[j] = rows[j]
  BY DEF RowsOK
<1>2. rows' \in [Ids -> Rows \cup {NoRow}]
  BY <1>1 DEF RowsOK, RowOK
<1>3. ASSUME NEW j \in Ids, rows'[j] # NoRow
      PROVE  RowOK(j, rows'[j], count'.body) /\ j <= used'
  <2>1. CASE j = id
    BY <1>1, <1>3, <2>1
  <2>2. CASE j # id
    <3>1. rows'[j] = rows[j] /\ RowOK(j, rows[j], count.body) /\ j <= used
      BY <1>1, <1>3, <2>2 DEF RowsOK, Stored
    <3>2. RowOK(j, rows[j], count'.body)
      BY <3>1, RowMonotone
    <3> QED
      BY <3>1, <3>2 DEF Ids
  <2> QED
    BY <2>1, <2>2
<1> QED
  BY <1>1, <1>2, <1>3 DEF RowsOK, Stored

LEMMA RowsStay ==
  ASSUME RowsOK, rows' = rows, used \in Nat, used' \in Nat, used <= used',
         count.body \in Nat, count'.body \in Nat, count.body <= count'.body
  PROVE  RowsOK'
<1>1. ASSUME NEW j \in Ids, rows'[j] # NoRow
      PROVE  RowOK(j, rows'[j], count'.body) /\ j <= used'
  <2>1. RowOK(j, rows[j], count.body) /\ j <= used
    BY <1>1 DEF RowsOK, Stored
  <2>2. RowOK(j, rows[j], count'.body)
    BY <2>1, RowMonotone
  <2> QED
    BY <2>1, <2>2 DEF Ids
<1> QED
  BY <1>1 DEF RowsOK, Stored

LEMMA RunWritten ==
  ASSUME RunsOK, RestOK, NEW id \in Ids, NEW new \in [at : RunPlaces, gen : Nat], id <= used,
         run' = [run EXCEPT ![id] = new], used' = used
  PROVE  RunsOK' /\ run'[id] = new /\ \A j \in Ids \ {id} : run'[j] = run[j]
<1>1. run'[id] = new /\ \A j \in Ids \ {id} : run'[j] = run[j]
  BY DEF RunsOK
<1>2. run' \in [Ids -> [at : RunPlaces, gen : Nat]]
  BY DEF RunsOK
<1>3. \A j \in Ids : j > used' => run'[j].at = "none"
  <2> TAKE j \in Ids
  <2> HAVE j > used'
  <2>1. j # id
    BY RestOK DEF RestOK, Ids
  <2> QED
    BY <1>1, <2>1 DEF RunsOK
<1> QED
  BY <1>1, <1>2, <1>3 DEF RunsOK

LEMMA RequestsStay ==
  ASSUME RequestsOK, request' = request, used \in Nat, used' \in Nat, used <= used',
         count.body \in Nat, count'.body \in Nat, count.body <= count'.body
  PROVE  RequestsOK'
<1>1. ASSUME NEW r \in Requests, request[r] # Idle
      PROVE  BusyOK(request[r], count'.body) /\ request[r].id <= used'
  <2>1. BusyOK(request[r], count.body) /\ request[r].id <= used /\ request[r].id \in Ids
    BY <1>1 DEF RequestsOK, BusyOK, Busy
  <2>2. BusyOK(request[r], count'.body)
    BY <2>1, BusyMonotone
  <2> QED
    BY <2>1, <2>2 DEF Ids
<1> QED
  BY <1>1 DEF RequestsOK

LEMMA RequestWritten ==
  ASSUME RequestsOK, NEW r \in Requests, NEW q, request' = [request EXCEPT ![r] = q],
         q = Idle \/ (BusyOK(q, count'.body) /\ q.id <= used'),
         used \in Nat, used' \in Nat, used <= used',
         count.body \in Nat, count'.body \in Nat, count.body <= count'.body
  PROVE  RequestsOK' /\ request'[r] = q /\ \A s \in Requests \ {r} : request'[s] = request[s]
<1>1. request'[r] = q /\ \A s \in Requests \ {r} : request'[s] = request[s]
  BY DEF RequestsOK
<1>2. request' \in [Requests -> Busy \cup {Idle}]
  BY <1>1 DEF RequestsOK, BusyOK
<1>3. ASSUME NEW s \in Requests, request'[s] # Idle
      PROVE  BusyOK(request'[s], count'.body) /\ request'[s].id <= used'
  <2>1. CASE s = r
    BY <1>1, <1>3, <2>1
  <2>2. CASE s # r
    <3>1. /\ request'[s] = request[s] /\ BusyOK(request[s], count.body)
          /\ request[s].id <= used /\ request[s].id \in Ids
      BY <1>1, <1>3, <2>2 DEF RequestsOK, BusyOK, Busy
    <3>2. BusyOK(request[s], count'.body)
      BY <3>1, BusyMonotone
    <3> QED
      BY <3>1, <3>2 DEF Ids
  <2> QED
    BY <2>1, <2>2
<1> QED
  BY <1>1, <1>2, <1>3 DEF RequestsOK

\* A request goes on to another place with what it holds.
LEMMA Goes ==
  ASSUME Types, NEW r \in Requests, request[r] # Idle, NEW place, place \in Places, Goto(r, place),
         used' = used, count'.body = count.body,
         Fits(place, request[r].seen)
  PROVE  /\ RequestsOK' /\ \A s \in Requests \ {r} : request'[s] = request[s]
         /\ request'[r] \in Busy /\ request'[r] # Idle /\ request'[r].at = place
         /\ request'[r].op = request[r].op /\ request'[r].url = request[r].url
         /\ request'[r].id = request[r].id /\ request'[r].body = request[r].body
         /\ request'[r].seen = request[r].seen
<1> DEFINE q == [request[r] EXCEPT !.at = place]
<1>1. BusyOK(request[r], count.body) /\ request[r].id <= used /\ request[r] \in Busy
  BY DEF Types, RequestsOK, BusyOK
<1>2. request' = [request EXCEPT ![r] = q]
  BY DEF Goto
<1>3. /\ q \in Busy /\ q.at = place /\ q.op = request[r].op /\ q.url = request[r].url
      /\ q.id = request[r].id /\ q.body = request[r].body /\ q.seen = request[r].seen
  BY <1>1 DEF Busy
<1> HIDE DEF q
<1>4. BusyOK(q, count'.body) /\ q.id <= used'
  BY <1>1, <1>3 DEF BusyOK
<1>5. RequestsOK /\ used \in Nat /\ count.body \in Nat
  BY Bounds DEF Types
<1>6. \A n \in Nat : n <= n
  OBVIOUS
<1>8. used' \in Nat /\ used <= used' /\ count'.body \in Nat /\ count.body <= count'.body
  BY <1>5, <1>6
<1>7. RequestsOK' /\ request'[r] = q /\ \A s \in Requests \ {r} : request'[s] = request[s]
  BY <1>2, <1>4, <1>5, <1>8, RequestWritten
<1> QED
  BY <1>3, <1>7, Values

LEMMA Ends ==
  ASSUME Types, NEW r \in Requests, Done(r), used' = used,
         count'.body \in Nat, count.body <= count'.body
  PROVE  /\ RequestsOK' /\ \A s \in Requests \ {r} : request'[s] = request[s]
         /\ request'[r] = Idle
<1>1. request' = [request EXCEPT ![r] = Idle]
  BY DEF Done
<1>2. used \in Nat /\ count.body \in Nat /\ RequestsOK /\ used <= used'
  BY Bounds DEF Types
<1> QED
  BY <1>1, <1>2, RequestWritten

-----------------------------------------------------------------------------
(* A step that works on one reading *)

\* What a request works on, seen from the outside.
LEMMA RequestIs ==
  ASSUME Types, NEW r \in Requests, request[r] # Idle
  PROVE  /\ request[r] \in Busy /\ request[r].id \in Ids /\ request[r].id <= used
         /\ request[r].at \in Places /\ request[r].body \in Keys /\ request[r].body[1] \in {"none", "body", "raw"}
         /\ request[r].body[1] # "none" => request[r].body[2] = request[r].id
         /\ request[r].seen = NoRow \/ RowOK(request[r].id, request[r].seen, count.body)
         /\ Fits(request[r].at, request[r].seen)
<1>1. request[r] \in Busy /\ BusyOK(request[r], count.body) /\ request[r].id <= used
  BY DEF Types, RequestsOK, BusyOK
<1>2. request[r].id \in Ids /\ request[r].at \in Places /\ request[r].body \in Keys
  BY <1>1 DEF Busy
<1> QED
  BY <1>1, <1>2 DEF BusyOK, RawOf

\* The rows, bodies and requests of the other readings stay as they were.
Elsewhere(i) ==
  /\ \A j \in Ids \ {i} : rows'[j] = rows[j] /\ run'[j] = run[j]
  /\ \A r \in Requests : request'[r] = request[r] \/ (Works(r, i) /\ (request'[r] = Idle \/ request'[r].id = i))
  /\ \A r \in Requests : Creating(request'[r]) => Creating(request[r])
  /\ \A key : key[1] = "body" /\ key[2] # i => (key \in blobs' <=> key \in blobs)
  /\ past'.contested = past.contested /\ past.owed \subseteq past'.owed
  /\ past.displaced \subseteq past'.displaced /\ past.bodiless \subseteq past'.bodiless

LEMMA Others ==
  ASSUME Types, Types', Uncontested, NEW i \in Ids, Elsewhere(i),
         i \notin past.contested => Steps(i)' /\ Settled(i)' /\ Bodied(i)' /\ OwnBodies(i)'
  PROVE  Uncontested'
<1>1. ASSUME NEW r \in Requests, NEW id \in Ids, request'[r] # Idle, request'[r].id = id
      PROVE  Works(r, id)
  BY <1>1 DEF Elsewhere, Works
<1>2. Newborn'
  <2> SUFFICES ASSUME NEW r \in Requests, Creating(request'[r])
               PROVE  request'[r].id \notin past.contested
    BY DEF Newborn, Elsewhere
  <2>1. Creating(request[r]) /\ request[r].id \notin past.contested
    BY DEF Newborn, Uncontested, Elsewhere
  <2>2. request'[r] # Idle
    BY Values DEF Creating
  <2>3. request'[r].id = request[r].id
    BY <2>2 DEF Elsewhere, Works
  <2> QED
    BY <2>1, <2>3
<1>3. ASSUME NEW id \in Ids, id \notin past.contested
      PROVE  IdOK(id)'
  <2>1. IdOK(id)
    BY <1>3 DEF Uncontested
  <2>2. Sole(id)'
    BY <1>1, <2>1 DEF IdOK, Sole, Works
  <2>3. CASE id = i
    BY <1>3, <2>2, <2>3 DEF IdOK
  <2>4. CASE id # i
    <3>1. rows'[id] = rows[id] /\ run'[id] = run[id]
      BY <2>4 DEF Elsewhere
    <3>2. ASSUME NEW r \in Requests
          PROVE  /\ request'[r] # Idle /\ request'[r].id = id => request'[r] = request[r]
                 /\ Works(r, id) => request'[r] = request[r]
      BY <2>4 DEF Elsewhere, Works
    <3>3. \A key : key[1] = "body" /\ key[2] = id => (key \in blobs' <=> key \in blobs)
      BY <2>4 DEF Elsewhere
    <3>4. Steps(id)'
      <4> SUFFICES ASSUME NEW r \in Requests, request'[r] # Idle, request'[r].id = id
                   PROVE  StepOK(request'[r], rows'[id], run'[id].at, blobs', past'.bodiless)
        BY DEF Steps, Works
      <4>1. request'[r] = request[r] /\ Works(r, id)
        BY <3>2 DEF Works
      <4>2. StepOK(request[r], rows[id], run[id].at, blobs, past.bodiless)
        BY <2>1, <4>1 DEF IdOK, Steps
      <4>3. request[r].body[1] = "body" => request[r].body[2] = id
        BY <4>1, RequestIs DEF Works
      <4>4. request[r].body[1] = "body" => (request[r].body \in blobs' <=> request[r].body \in blobs)
        BY <3>3, <4>3
      <4> HIDE <3>3
      <4>5. past.bodiless \subseteq past'.bodiless
        BY DEF Elsewhere
      <4>6. StepOK(request[r], rows[id], run[id].at, blobs', past'.bodiless)
        BY <4>2, <4>4, <4>5 DEF StepOK
      <4> QED
        BY <3>1, <4>1, <4>6
    <3>5. Settled(id)'
      BY <2>1, <3>1 DEF IdOK, Settled, Stored
    <3>6. Bodied(id)'
      <4> SUFFICES ASSUME rows'[id] # NoRow
                   PROVE  IF rows'[id].kind = "markdown"
                          THEN rows'[id].raw[1] = "body" /\ (rows'[id].raw \in blobs' \/ id \in past'.bodiless)
                          ELSE rows'[id].raw[1] \in {"raw", "none"}
        BY DEF Bodied, Stored
      <4>1. Stored(id) /\ RowOK(id, rows[id], count.body)
        BY <3>1 DEF Stored, Types, RowsOK
      <4>2. rows[id].raw[1] = "body" => (rows[id].raw \in blobs' <=> rows[id].raw \in blobs)
        BY <3>3, <4>1 DEF RowOK, RawOf
      <4> QED
        BY <2>1, <3>1, <4>1, <4>2 DEF IdOK, Bodied, Elsewhere
    <3>7. OwnBodies(id)'
      <4> SUFFICES ASSUME NEW key \in blobs', key[1] = "body", key[2] = id
                   PROVE  BodyOwned(id, key)'
        BY DEF OwnBodies
      <4>1. BodyOwned(id, key)
        BY <2>1, <3>3 DEF IdOK, OwnBodies
      <4>2. CASE Stored(id) /\ rows[id].raw = key
        BY <3>1, <4>2 DEF BodyOwned, Stored
      <4>3. CASE key \in past.displaced
        BY <4>3 DEF BodyOwned, Elsewhere
      <4>4. CASE \E r \in Requests : Works(r, id) /\ key \in InHand(request[r])
        <5>1. PICK r \in Requests : Works(r, id) /\ key \in InHand(request[r])
          BY <4>4
        <5>2. request'[r] = request[r]
          BY <3>2, <5>1
        <5> QED
          BY <5>1, <5>2 DEF BodyOwned, Works
      <4> QED
        BY <4>1, <4>2, <4>3, <4>4 DEF BodyOwned
    <3> QED
      BY <2>2, <3>4, <3>5, <3>6, <3>7 DEF IdOK
  <2> QED
    BY <2>3, <2>4
<1> QED
  BY <1>2, <1>3 DEF Uncontested, Elsewhere

\* A run that has begun leaves its request nothing to know but its own body.
LEMMA RunningAlone ==
  ASSUME NEW i \in Ids, IdOK(i), run[i].at \notin {"none", "forced"}, NEW r \in Requests, Types, Works(r, i)
  PROVE  /\ request[r].at \in {"reread", "undo", "force"}
         /\ \A row, claim :
              (row # NoRow => row.raw = rows[i].raw \/ row.raw[1] = "raw") /\ (row # NoRow => rows[i] # NoRow)
                => StepOK(request[r], row, claim, blobs, past.bodiless)
<1>1. StepOK(request[r], rows[i], run[i].at, blobs, past.bodiless)
  BY DEF IdOK, Steps
<1>2. request[r].at \in Places
  BY RequestIs DEF Works
<1>3. request[r].at \in {"reread", "undo", "force"}
  BY <1>1, <1>2 DEF StepOK, Places
<1> QED
  BY <1>1, <1>3, ZenonT(30) DEF StepOK, Creating

\* A body that is stored has a new number.
Fresh ==
  /\ count.body <= count'.body
  /\ \A key \in blobs' \ blobs : key[1] = "body" => key[3] > count.body

LEMMA Touch ==
  ASSUME OpsInv, Types', NEW i \in Ids, Elsewhere(i),
         Stored(i)' => \/ Stored(i) /\ rows'[i].key = rows[i].key
                       \/ \A j \in Ids \ {i} : Stored(j) => rows[j].key # rows'[i].key,
         PendingOK(i)',
         i \notin past.contested => Steps(i)' /\ Settled(i)' /\ Bodied(i)' /\ OwnBodies(i)'
  PROVE  OpsInv'
<1>1. Uncontested'
  BY Others DEF OpsInv
<1>2. OneKeyOneRow'
  <2>1. \A j \in Ids \ {i} : rows'[j] = rows[j]
    BY DEF Elsewhere
  <2>2. \A j, k \in Ids : Stored(j) /\ Stored(k) /\ rows[j].key = rows[k].key => j = k
    BY DEF OpsInv, OneKeyOneRow
  <2> SUFFICES ASSUME NEW j \in Ids, NEW k \in Ids, rows'[j] # NoRow, rows'[k] # NoRow,
                      rows'[j].key = rows'[k].key, j # k
               PROVE  FALSE
    BY DEF OneKeyOneRow, Stored
  <2>3. CASE j # i /\ k # i
    BY <2>1, <2>2, <2>3 DEF Stored
  <2>4. CASE j = i /\ k # i
    BY <2>1, <2>2, <2>4 DEF Stored
  <2>5. CASE j # i /\ k = i
    BY <2>1, <2>2, <2>5 DEF Stored
  <2> QED
    BY <2>3, <2>4, <2>5
<1>3. PendingIsSubmitted'
  <2> SUFFICES ASSUME NEW j \in Ids
               PROVE  PendingOK(j)'
    BY DEF PendingIsSubmitted, PendingOK
  <2>1. CASE j = i
    BY <2>1
  <2>2. CASE j # i
    <3> SUFFICES ASSUME rows'[j].status = "pending"
                 PROVE  \/ run'[j].at # "none"
                        \/ j \in past'.owed
                        \/ \E r \in Requests : request'[r].at \in {"delete old", "submit"} /\ request'[r].id = j
      BY DEF PendingOK
    <3>1. rows'[j] = rows[j] /\ run'[j] = run[j] /\ past.owed \subseteq past'.owed
      BY <2>2 DEF Elsewhere
    <3>2. PendingOK(j)
      BY DEF OpsInv, PendingIsSubmitted, PendingOK
    <3>3. CASE \E r \in Requests : request[r].at \in {"delete old", "submit"} /\ request[r].id = j
      <4>1. PICK r \in Requests : request[r].at \in {"delete old", "submit"} /\ request[r].id = j
        BY <3>3
      <4>2. request'[r] = request[r]
        BY <2>2, <4>1 DEF Elsewhere, Works
      <4> QED
        BY <4>1, <4>2
    <3> QED
      BY <3>1, <3>2, <3>3 DEF PendingOK
  <2> QED
    BY <2>1, <2>2
<1> QED
  BY <1>1, <1>2, <1>3 DEF OpsInv

\* The request that works on a reading alone has made a step.
LEMMA SoleStep ==
  ASSUME NEW i \in Ids, Types, IdOK(i), Elsewhere(i), NEW r \in Requests, Works(r, i),
         request'[r] = Idle \/ StepOK(request'[r], rows'[i], run'[i].at, blobs', past'.bodiless)
  PROVE  Steps(i)'
<1> SUFFICES ASSUME NEW s \in Requests, request'[s] # Idle, request'[s].id = i
             PROVE  StepOK(request'[s], rows'[i], run'[i].at, blobs', past'.bodiless)
  BY DEF Steps, Works
<1>1. Works(s, i)
  BY DEF Elsewhere, Works
<1>2. s = r
  BY <1>1 DEF IdOK, Sole
<1> QED
  BY <1>2

-----------------------------------------------------------------------------
(* Runs *)

\* A step of a run: the row stays the row of its page and keeps its body.
LEMMA RunTouch ==
  ASSUME OpsInv, NEW i \in Ids, NEW x, NEW y \in [at : RunPlaces, gen : Nat],
         run[i].at \notin {"none", "forced"},
         rows' = [rows EXCEPT ![i] = x], run' = [run EXCEPT ![i] = y],
         request' = request, used' = used, count'.body = count.body, BlobsOK', RestOK',
         \A key : key[1] = "body" => (key \in blobs' <=> key \in blobs),
         past'.contested = past.contested, past'.displaced = past.displaced,
         past'.bodiless = past.bodiless, past.owed \subseteq past'.owed,
         rows[i] = NoRow => x = NoRow,
         Stored(i) => /\ RowOK(i, x, count.body) /\ x.key = rows[i].key /\ x.kind = rows[i].kind
                      /\ x.raw = rows[i].raw \/ (x.raw[1] = "raw" /\ x.kind # "markdown"),
         x.status \in {"ready", "failed"} => y.at \in {"none", "forced"} \/ x.status = rows[i].status,
         x.status = "pending" => y.at # "none" \/ i \in past'.owed
  PROVE  OpsInv' /\ Fresh
<1>1. /\ Types /\ RowsOK /\ RunsOK /\ RequestsOK /\ RestOK /\ used \in Nat /\ count.body \in Nat
      /\ i <= used /\ used <= used' /\ count.body <= count'.body
  <2>1. Types /\ RowsOK /\ RunsOK /\ RequestsOK /\ RestOK
    BY DEF OpsInv, Types
  <2>2. used \in Nat /\ count.body \in Nat
    BY <2>1, Bounds
  <2>3. i <= used
    BY <2>1, <2>2 DEF RunsOK, Ids
  <2> QED
    BY <2>1, <2>2, <2>3
<1>2. RowsOK' /\ rows'[i] = x /\ \A j \in Ids \ {i} : rows'[j] = rows[j]
  <2>1. x = NoRow \/ (RowOK(i, x, count'.body) /\ i <= used')
    BY <1>1 DEF Stored
  <2> QED
    BY <1>1, <2>1, RowWritten
<1>3. RunsOK' /\ run'[i] = y /\ \A j \in Ids \ {i} : run'[j] = run[j]
  BY <1>1, RunWritten
<1>4. Types'
  <2>1. RequestsOK'
    BY <1>1, RequestsStay
  <2> QED
    BY <1>2, <1>3, <2>1 DEF Types
<1>5. Elsewhere(i)
  BY <1>2, <1>3 DEF Elsewhere
<1>6. Stored(i)' => Stored(i) /\ rows'[i].key = rows[i].key
  BY <1>2 DEF Stored
<1>7. PendingOK(i)'
  BY <1>2, <1>3 DEF PendingOK
<1>8. ASSUME i \notin past.contested
      PROVE  Steps(i)' /\ Settled(i)' /\ Bodied(i)' /\ OwnBodies(i)'
  <2>1. IdOK(i)
    BY <1>8 DEF OpsInv, Uncontested
  <2>2. Bodied(i)'
    <3> SUFFICES ASSUME x # NoRow
                 PROVE  IF x.kind = "markdown"
                        THEN x.raw[1] = "body" /\ (x.raw \in blobs' \/ i \in past'.bodiless)
                        ELSE x.raw[1] \in {"raw", "none"}
      BY <1>2 DEF Bodied, Stored
    <3>1. Stored(i)
      BY DEF Stored
    <3> QED
      BY <2>1, <3>1 DEF IdOK, Bodied
  <2>3. Settled(i)'
    <3>1. rows[i].status \notin {"ready", "failed"}
      BY <1>1, <2>1, RowIs DEF IdOK, Settled
    <3> QED
      BY <1>2, <1>3, <3>1 DEF Settled
  <2>4. Steps(i)'
    <3> SUFFICES ASSUME NEW r \in Requests, request[r] # Idle, request[r].id = i
                 PROVE  StepOK(request[r], x, y.at, blobs', past.bodiless)
      BY <1>2, <1>3 DEF Steps, Works
    <3>1. Works(r, i)
      BY DEF Works
    <3>2. x # NoRow => (x.raw = rows[i].raw \/ x.raw[1] = "raw") /\ rows[i] # NoRow
      BY DEF Stored
    <3>3. /\ request[r].at \in {"reread", "undo", "force"}
          /\ StepOK(request[r], x, y.at, blobs, past.bodiless)
      BY <1>1, <2>1, <3>1, <3>2, RunningAlone
    <3> QED
      BY <3>3 DEF StepOK
  <2>5. OwnBodies(i)'
    <3> SUFFICES ASSUME NEW key \in blobs', key[1] = "body", key[2] = i
                 PROVE  BodyOwned(i, key)'
      BY DEF OwnBodies
    <3>1. BodyOwned(i, key)
      BY <2>1 DEF IdOK, OwnBodies
    <3>2. CASE Stored(i) /\ rows[i].raw = key
      <4>1. rows[i].kind = "markdown"
        BY <2>1, <3>2 DEF IdOK, Bodied
      <4>2. x # NoRow /\ x.raw = key
        BY <3>2, <4>1, Values DEF RowOK
      <4> QED
        BY <1>2, <4>2 DEF BodyOwned, Stored
    <3>3. CASE key \in past.displaced
      BY <3>3 DEF BodyOwned
    <3>4. CASE \E r \in Requests : Works(r, i) /\ key \in InHand(request[r])
      BY <3>4 DEF BodyOwned, Works
    <3> QED
      BY <3>1, <3>2, <3>3, <3>4 DEF BodyOwned
  <2> QED
    BY <2>2, <2>3, <2>4, <2>5
<1>9. OpsInv'
  BY <1>4, <1>5, <1>6, <1>7, <1>8, Touch
<1>10. Fresh
  BY <1>1 DEF Fresh
<1> QED
  BY <1>9, <1>10

LEMMA Claim ==
  ASSUME Types, NEW i \in Ids
  PROVE  run[i] \in [at : RunPlaces, gen : Nat] /\ run[i].at \in RunPlaces /\ run[i].gen \in Nat
BY DEF Types, RunsOK

LEMMA NewClaims ==
  /\ NoRun \in [at : RunPlaces, gen : Nat] /\ NoRun.at = "none"
  /\ Queued \in [at : RunPlaces, gen : Nat] /\ Queued.at = "queued"
BY DEF NoRun, Queued, RunPlaces

\* The fields of a row that are not written stay.
LEMMA RowFields ==
  ASSUME NEW i \in Ids, NEW n \in Nat, NEW row, RowOK(i, row, n), NEW status \in Statuses
  PROVE  LET x == [row EXCEPT !.status = status]
         IN  /\ RowOK(i, x, n) /\ x.key = row.key /\ x.kind = row.kind /\ x.raw = row.raw
             /\ x.status = status
<1> DEFINE x == [row EXCEPT !.status = status]
<1>1. /\ x \in Rows /\ x.key = row.key /\ x.kind = row.kind /\ x.raw = row.raw /\ x.content = row.content
      /\ x.url = row.url /\ x.status = status
  BY DEF RowOK, Rows
<1> HIDE DEF x
<1>2. RowOK(i, x, n)
  BY <1>1 DEF RowOK
<1> QED
  BY <1>1, <1>2 DEF x

LEMMA StartRunKeeps ==
  ASSUME OpsInv, NEW i \in Ids, StartRun(i)
  PROVE  OpsInv' /\ Fresh
<1> DEFINE x == [rows[i] EXCEPT !.status = "running", !.started = count.run + 1]
           y == [at |-> "running", gen |-> count.run + 1]
<1>1. /\ run[i].at = "queued" /\ Stored(i) /\ rows' = [rows EXCEPT ![i] = x]
      /\ run' = [run EXCEPT ![i] = y] /\ count' = [count EXCEPT !.run = @ + 1]
      /\ blobs' = blobs /\ request' = request /\ used' = used /\ past' = past
  BY DEF StartRun, RunAt
<1>2. /\ Types /\ RestOK /\ BlobsOK /\ RowOK(i, rows[i], count.body)
      /\ count \in [request : Nat, run : Nat, body : Nat, error : Nat, crash : Nat]
  BY <1>1 DEF OpsInv, Types, RowsOK, RestOK
<1>3. count.run \in Nat /\ count'.body = count.body
  BY <1>1, <1>2
<1>4. count' \in [request : Nat, run : Nat, body : Nat, error : Nat, crash : Nat]
  BY <1>1, <1>2
<1>5. /\ x \in Rows /\ x.key = rows[i].key /\ x.kind = rows[i].kind /\ x.raw = rows[i].raw
      /\ x.content = rows[i].content /\ x.url = rows[i].url /\ x.status = "running"
  <2>1. rows[i] \in Rows /\ count.run + 1 \in Nat
    BY <1>2, <1>3 DEF RowOK
  <2> QED
    BY <2>1 DEF Rows, Statuses
<1>6. y \in [at : RunPlaces, gen : Nat]
  BY <1>3 DEF RunPlaces
<1> HIDE DEF x, y
<1>7. RowOK(i, x, count.body)
  BY <1>2, <1>5 DEF RowOK
<1>8. RestOK' /\ BlobsOK'
  BY <1>1, <1>2, <1>4 DEF RestOK, BlobsOK
<1>9. rows[i] = NoRow => x = NoRow
  BY <1>1 DEF Stored
<1> QED
  BY <1>1, <1>3, <1>5, <1>6, <1>7, <1>8, <1>9, RunTouch

LEMMA StartFailsKeeps ==
  ASSUME OpsInv, NEW i \in Ids, StartFails(i)
  PROVE  OpsInv' /\ Fresh
<1>1. /\ run[i].at = "queued" /\ run' = [run EXCEPT ![i] = NoRun]
      /\ past' = [past EXCEPT !.owed = @ \cup {i}] /\ (Failing \/ UNCHANGED count)
      /\ rows' = rows /\ blobs' = blobs /\ request' = request /\ used' = used
  BY DEF StartFails, RunAt, Refused
<1>2. Types /\ RestOK /\ BlobsOK /\ rows \in [Ids -> Rows \cup {NoRow}]
  BY DEF OpsInv, Types, RowsOK
<1>3. /\ count' \in [request : Nat, run : Nat, body : Nat, error : Nat, crash : Nat]
      /\ count'.body = count.body
  BY <1>1, <1>2, CountBody
<1>4. /\ past' \in [owed : SUBSET Ids, displaced : SUBSET Keys, bodiless : SUBSET Ids, contested : SUBSET Ids]
      /\ past'.owed = past.owed \cup {i} /\ past'.displaced = past.displaced
      /\ past'.bodiless = past.bodiless /\ past'.contested = past.contested
  BY <1>1, <1>2 DEF RestOK
<1>5. RestOK' /\ BlobsOK'
  BY <1>1, <1>2, <1>3, <1>4 DEF RestOK, BlobsOK
<1>6. rows' = [rows EXCEPT ![i] = rows[i]]
  BY <1>1, <1>2
<1>7. Stored(i) => RowOK(i, rows[i], count.body)
  BY <1>2 DEF Types, RowsOK
<1>8. NoRun \in [at : RunPlaces, gen : Nat] /\ NoRun.at = "none"
  BY NewClaims
<1>9. run[i].at \notin {"none", "forced"} /\ i \in past'.owed /\ past.owed \subseteq past'.owed
  BY <1>1, <1>4
<1> HIDE DEF NoRun
<1> QED
  BY <1>1, <1>3, <1>4, <1>5, <1>6, <1>7, <1>8, <1>9, RunTouch

LEMMA StoreContentKeeps ==
  ASSUME OpsInv, NEW i \in Ids, StoreContent(i)
  PROVE  OpsInv' /\ Fresh
<1> DEFINE y == [run[i] EXCEPT !.at = "stored"]
<1>1. /\ run[i].at = "running" /\ Stored(i) /\ run' = [run EXCEPT ![i] = y]
      /\ blobs \subseteq blobs' /\ blobs' \subseteq blobs \cup {ContentKey(i, run[i].gen), RawKey(i, run[i].gen)}
      /\ rows' = rows /\ request' = request /\ used' = used /\ past' = past /\ count' = count
  BY DEF StoreContent, RunAt
<1>2. Types /\ RestOK /\ BlobsOK /\ rows \in [Ids -> Rows \cup {NoRow}]
  BY DEF OpsInv, Types, RowsOK
<1>3. run[i] \in [at : RunPlaces, gen : Nat] /\ run[i].gen \in Nat
  BY <1>2, Claim
<1>4. y \in [at : RunPlaces, gen : Nat] /\ y.at = "stored"
  BY <1>3 DEF RunPlaces
<1> HIDE DEF y
<1>5. /\ ContentKey(i, run[i].gen) \in {"body", "raw", "content"} \X Ids \X Nat
      /\ RawKey(i, run[i].gen) \in {"body", "raw", "content"} \X Ids \X Nat
      /\ ContentKey(i, run[i].gen)[1] # "body" /\ RawKey(i, run[i].gen)[1] # "body"
  BY <1>3 DEF ContentKey, RawKey
<1>6. BlobsOK' /\ \A key : key[1] = "body" => (key \in blobs' <=> key \in blobs)
  BY <1>1, <1>2, <1>5 DEF BlobsOK
<1>7. RestOK'
  BY <1>1, <1>2 DEF RestOK
<1>8. rows' = [rows EXCEPT ![i] = rows[i]]
  BY <1>1, <1>2
<1>9. RowOK(i, rows[i], count.body)
  BY <1>1, <1>2 DEF Types, RowsOK
<1> QED
  BY <1>1, <1>4, <1>6, <1>7, <1>8, <1>9, RunTouch

LEMMA CheckpointKeeps ==
  ASSUME OpsInv, NEW i \in Ids, Checkpoint(i)
  PROVE  OpsInv' /\ Fresh
<1> DEFINE raw == IF rows[i].kind = "web" THEN RawKey(i, run[i].gen) ELSE rows[i].raw
           x == [rows[i] EXCEPT !.content = ContentKey(i, run[i].gen), !.raw = raw]
           y == [run[i] EXCEPT !.at = "pointed"]
<1>1. /\ run[i].at = "stored" /\ Stored(i) /\ rows' = [rows EXCEPT ![i] = x]
      /\ run' = [run EXCEPT ![i] = y]
      /\ blobs' = blobs /\ request' = request /\ used' = used /\ past' = past /\ count' = count
  BY DEF Checkpoint, RunAt, Fenced
<1>2. Types /\ RestOK /\ BlobsOK /\ RowOK(i, rows[i], count.body) /\ rows[i] \in Rows
  BY <1>1 DEF OpsInv, Types, RowsOK, RowOK
<1>3. run[i] \in [at : RunPlaces, gen : Nat] /\ run[i].gen \in Nat
  BY <1>2, Claim
<1>4. y \in [at : RunPlaces, gen : Nat] /\ y.at = "pointed"
  BY <1>3 DEF RunPlaces
<1>5. /\ ContentKey(i, run[i].gen) \in Keys /\ ContentKey(i, run[i].gen)[1] = "content"
      /\ RawOf(i, RawKey(i, run[i].gen), count.body) /\ RawKey(i, run[i].gen)[1] = "raw"
  BY <1>3 DEF ContentKey, RawKey, Keys, RawOf, Ids
<1>6. RawOf(i, raw, count.body) /\ (raw = rows[i].raw \/ (raw[1] = "raw" /\ rows[i].kind # "markdown"))
  BY <1>2, <1>5 DEF RowOK
<1>7. raw \in Keys
  BY <1>6 DEF RawOf
<1> HIDE DEF raw, y
<1>8. /\ x \in Rows /\ x.key = rows[i].key /\ x.kind = rows[i].kind /\ x.raw = raw
      /\ x.content = ContentKey(i, run[i].gen) /\ x.url = rows[i].url /\ x.status = rows[i].status
  BY <1>2, <1>5, <1>7 DEF Rows
<1> HIDE DEF x
<1>9. RowOK(i, x, count.body)
  BY <1>2, <1>5, <1>6, <1>8 DEF RowOK
<1>10. RestOK' /\ BlobsOK'
  BY <1>1, <1>2 DEF RestOK, BlobsOK
<1>11. rows[i] = NoRow => x = NoRow
  BY <1>1 DEF Stored
<1> QED
  BY <1>1, <1>4, <1>6, <1>8, <1>9, <1>10, <1>11, RunTouch

LEMMA IndexKeeps ==
  ASSUME OpsInv, NEW i \in Ids, Index(i)
  PROVE  OpsInv' /\ Fresh
<1> DEFINE y == [run[i] EXCEPT !.at = "indexed"]
<1>1. /\ run[i].at = "pointed" /\ run' = [run EXCEPT ![i] = y] /\ blobs' = blobs
      /\ rows' = rows /\ request' = request /\ used' = used /\ past' = past /\ count' = count
  BY DEF Index, RunAt
<1>2. Types /\ RestOK /\ BlobsOK /\ rows \in [Ids -> Rows \cup {NoRow}]
  BY DEF OpsInv, Types, RowsOK
<1>3. y \in [at : RunPlaces, gen : Nat] /\ y.at = "indexed"
  BY <1>2, Claim DEF RunPlaces
<1> HIDE DEF y
<1>4. RestOK' /\ BlobsOK'
  BY <1>1, <1>2 DEF RestOK, BlobsOK
<1>5. rows' = [rows EXCEPT ![i] = rows[i]]
  BY <1>1, <1>2
<1>6. Stored(i) => RowOK(i, rows[i], count.body)
  BY <1>2 DEF Types, RowsOK
<1> QED
  BY <1>1, <1>3, <1>4, <1>5, <1>6, RunTouch

LEMMA SettleKeeps ==
  ASSUME OpsInv, NEW i \in Ids, Settle(i)
  PROVE  OpsInv' /\ Fresh
<1>1. /\ run[i].at \notin {"none", "forced"}
      /\ blobs' = blobs /\ request' = request /\ used' = used /\ past' = past /\ count' = count
  BY DEF Settle
<1>2. PICK status \in {"failed", "pending", "ready"} :
        /\ rows' = IF Stored(i) THEN [rows EXCEPT ![i].status = status] ELSE rows
        /\ run' = [run EXCEPT ![i] = IF status = "pending" THEN Queued ELSE NoRun]
  BY DEF Settle
<1> DEFINE x == IF Stored(i) THEN [rows[i] EXCEPT !.status = status] ELSE rows[i]
           y == IF status = "pending" THEN Queued ELSE NoRun
<1>3. Types /\ RestOK /\ BlobsOK /\ rows \in [Ids -> Rows \cup {NoRow}] /\ count.body \in Nat
  BY Bounds DEF OpsInv, Types, RowsOK
<1>4. rows' = [rows EXCEPT ![i] = x]
  BY <1>2, <1>3
<1>5. y \in [at : RunPlaces, gen : Nat] /\ (status = "pending" => y.at = "queued")
      /\ (status # "pending" => y.at = "none")
  BY NewClaims
<1>6. Stored(i) => /\ RowOK(i, x, count.body) /\ x.key = rows[i].key /\ x.kind = rows[i].kind
                   /\ x.raw = rows[i].raw /\ x.status = status
  <2> SUFFICES ASSUME Stored(i)
               PROVE  /\ RowOK(i, x, count.body) /\ x.key = rows[i].key /\ x.kind = rows[i].kind
                      /\ x.raw = rows[i].raw /\ x.status = status
    OBVIOUS
  <2>1. RowOK(i, rows[i], count.body) /\ status \in Statuses
    BY <1>3 DEF Types, RowsOK, Statuses
  <2> QED
    BY <1>3, <2>1, RowFields
<1>7. ~Stored(i) => x = NoRow /\ x.status = "none"
  BY <1>3, Values DEF Stored
<1>8. rows[i] = NoRow => x = NoRow
  BY <1>7 DEF Stored
<1>9. run' = [run EXCEPT ![i] = y]
  BY <1>2
<1> HIDE DEF x, y
<1>10. RestOK' /\ BlobsOK'
  BY <1>1, <1>3 DEF RestOK, BlobsOK
<1>11. /\ x.status \in {"ready", "failed"} => y.at \in {"none", "forced"}
       /\ x.status = "pending" => y.at # "none"
  BY <1>5, <1>6, <1>7
<1> QED
  BY <1>1, <1>4, <1>5, <1>6, <1>8, <1>9, <1>10, <1>11, RunTouch

LEMMA RunStepKeeps ==
  ASSUME OpsInv, NEW i \in Ids, RunStep(i)
  PROVE  OpsInv' /\ Fresh
BY StartRunKeeps, StartFailsKeeps, StoreContentKeeps, CheckpointKeeps, IndexKeeps, SettleKeeps DEF RunStep

-----------------------------------------------------------------------------
(* Requests that begin, and the restart *)

LEMMA InHandIs ==
  ASSUME Types, NEW r \in Requests
  PROVE  /\ InHand(request[r]) \subseteq Keys
         /\ request[r].at \in {"save", "replace", "reread", "undo"} => InHand(request[r]) = {request[r].body}
         /\ request[r].at = "delete old" => InHand(request[r]) = {request[r].seen.raw, request[r].seen.content}
         /\ request[r].at \notin {"save", "replace", "reread", "undo", "delete old"} => InHand(request[r]) = {}
         /\ request[r] = Idle => InHand(request[r]) = {}
<1>1. /\ request[r].at \in {"save", "replace", "reread", "undo"} => InHand(request[r]) = {request[r].body}
      /\ request[r].at = "delete old" => InHand(request[r]) = {request[r].seen.raw, request[r].seen.content}
      /\ request[r].at \notin {"save", "replace", "reread", "undo", "delete old"} => InHand(request[r]) = {}
  BY DEF InHand
<1>2. request[r] = Idle => InHand(request[r]) = {}
  BY <1>1, Values
<1>3. request[r] # Idle => request[r].body \in Keys
  BY RequestIs
<1>4. request[r] # Idle /\ request[r].at = "delete old" => request[r].seen.raw \in Keys /\ request[r].seen.content \in Keys
  BY RequestIs DEF Fits, RowOK, Rows
<1>5. InHand(request[r]) \subseteq Keys
  BY <1>1, <1>2, <1>3, <1>4
<1> QED
  BY <1>1, <1>2, <1>5

LEMMA Stutter ==
  ASSUME OpsInv, UNCHANGED opsVars
  PROVE  OpsInv' /\ Fresh
<1>1. Types'
  BY DEF opsVars, OpsInv, Types, RowsOK, RunsOK, RequestsOK, BlobsOK, RestOK, Stored
<1>2. Uncontested'
  BY DEF opsVars, OpsInv, Uncontested, Newborn, IdOK, Sole, Steps, Settled, Bodied, OwnBodies, BodyOwned, Works, Stored
<1>3. OneKeyOneRow' /\ PendingIsSubmitted'
  BY DEF opsVars, OpsInv, OneKeyOneRow, PendingIsSubmitted, Stored
<1>4. Fresh
  BY Bounds DEF Fresh, opsVars, OpsInv, Types
<1> QED
  BY <1>1, <1>2, <1>3, <1>4 DEF OpsInv

\* A request begins on a reading that is there, or on a new id.
LEMMA BeginKeeps ==
  ASSUME OpsInv, NEW r \in Requests, request[r] = Idle, NEW i \in Ids,
         NEW op \in {"ingest", "import", "reprocess"}, NEW url \in Urls, URLKey(url) # Invalid,
         NEW place \in {"put", "save", "mark", "force"}, Begin(r, op, url, i, place),
         UNCHANGED <<rows, blobs, run>>, used' \in 0 .. MaxId,
         place = "put" => op = "import",
         \/ /\ used' = used /\ Stored(i) /\ place # "save"
            /\ place # "force" => rows[i].status \in {"ready", "failed"}
         \/ used' = used + 1 /\ i = used + 1 /\ place \in {"put", "save"} /\ (place = "save" => op # "import")
  PROVE  OpsInv' /\ Fresh
<1> DEFINE q == [at |-> place, op |-> op, url |-> url, id |-> i, body |-> NoKey, seen |-> rows[i]]
           X == {k \in {i} : \E s \in Requests : request[s] # Idle /\ request[s].id = k}
<1>1. /\ count' = [count EXCEPT !.request = @ + 1] /\ request' = [request EXCEPT ![r] = q]
      /\ past' = [past EXCEPT !.contested = @ \cup X]
      /\ rows' = rows /\ blobs' = blobs /\ run' = run
  BY DEF Begin
<1>2. /\ Types /\ RowsOK /\ RunsOK /\ RequestsOK /\ BlobsOK /\ RestOK
      /\ used \in Nat /\ used' \in Nat /\ used <= used' /\ count.body \in Nat
  <2>1. Types /\ RowsOK /\ RunsOK /\ RequestsOK /\ BlobsOK /\ RestOK
    BY DEF OpsInv, Types
  <2>2. used \in Nat /\ count.body \in Nat
    BY <2>1, Bounds
  <2> QED
    BY <2>1, <2>2
<1>3. /\ q.at = place /\ q.op = op /\ q.url = url /\ q.id = i /\ q.body = NoKey /\ q.seen = rows[i]
      /\ q \in Busy
  <2>1. NoKey \in Keys /\ rows[i] \in Rows \cup {NoRow} /\ place \in Places
    BY <1>2, Values DEF RowsOK, Places
  <2> QED
    BY <2>1 DEF Busy
<1> HIDE DEF q
<1>4. /\ count' \in [request : Nat, run : Nat, body : Nat, error : Nat, crash : Nat]
      /\ count'.body = count.body
  BY <1>1, <1>2 DEF RestOK
<1>5. i <= used'
  BY <1>2 DEF RowsOK, Ids
<1>6. BusyOK(q, count'.body)
  <2>1. rows[i] # NoRow => RowOK(i, rows[i], count.body)
    BY <1>2 DEF RowsOK, Stored
  <2>2. RawOf(i, NoKey, count.body)
    BY Values DEF RawOf, NoKey
  <2>3. place = "save" => rows[i] = NoRow
    BY <1>2 DEF RowsOK, Stored, Ids
  <2>4. Fits(place, rows[i])
    BY <2>3 DEF Fits
  <2> QED
    BY <1>3, <1>4, <2>1, <2>2, <2>4 DEF BusyOK
<1>7. RequestsOK' /\ request'[r] = q /\ \A s \in Requests \ {r} : request'[s] = request[s]
  <2>1. count'.body \in Nat /\ count.body <= count'.body
    BY <1>2, <1>4
  <2> QED
    BY <1>1, <1>2, <1>3, <1>5, <1>6, <2>1, RequestWritten
<1>8. /\ past'.owed = past.owed /\ past'.displaced = past.displaced /\ past'.bodiless = past.bodiless
      /\ past'.contested = past.contested \cup X
      /\ past' \in [owed : SUBSET Ids, displaced : SUBSET Keys, bodiless : SUBSET Ids, contested : SUBSET Ids]
  BY <1>1, <1>2 DEF RestOK
<1>9. \A k \in X : k = i /\ k <= used
  BY <1>2 DEF RequestsOK
<1>10. Types'
  <2>1. RowsOK'
    <3>1. count'.body \in Nat /\ count.body <= count'.body
      BY <1>2, <1>4
    <3> QED
      BY <1>1, <1>2, <3>1, RowsStay
  <2>2. RunsOK' /\ BlobsOK'
    BY <1>1, <1>2 DEF RunsOK, BlobsOK, Ids
  <2>3. \A k \in past'.contested : k <= used'
    BY <1>2, <1>8, <1>9 DEF RestOK, Ids
  <2> QED
    BY <1>4, <1>7, <1>8, <2>1, <2>2, <2>3 DEF Types, RestOK
<1> HIDE DEF X
<1>11. ~Stored(i) => rows[i] = NoRow /\ run[i].at = "none" /\ i \notin past'.contested /\ i = used + 1
  <2> SUFFICES ASSUME ~Stored(i)
               PROVE  rows[i] = NoRow /\ run[i].at = "none" /\ i \notin past'.contested /\ i = used + 1
    OBVIOUS
  <2>1. i = used + 1 /\ ~(i <= used)
    BY <1>2
  <2>2. i \notin past.contested
    BY <1>2, <2>1 DEF RestOK
  <2> QED
    BY <1>2, <1>8, <1>9, <2>1, <2>2 DEF Stored, RunsOK
<1>12. Newborn'
  <2> SUFFICES ASSUME NEW s \in Requests, Creating(request'[s])
               PROVE  request'[s].id \notin past'.contested
    BY DEF Newborn
  <2>1. CASE s = r
    BY <1>3, <1>7, <1>11, <2>1 DEF Creating, Stored
  <2>2. CASE s # r
    <3>1. Creating(request[s]) /\ request'[s] = request[s]
      BY <1>7, <2>2
    <3>2. request[s] # Idle /\ request[s].id \in Ids /\ request[s].id <= used
      BY <1>2, <3>1, Values, RequestIs DEF Creating
    <3>3. request[s].id \notin past.contested
      BY <3>1 DEF OpsInv, Uncontested, Newborn
    <3>4. StepOK(request[s], rows[request[s].id], run[request[s].id].at, blobs, past.bodiless)
      BY <3>2, <3>3 DEF OpsInv, Uncontested, IdOK, Steps, Works
    <3>5. rows[request[s].id] = NoRow
      BY <3>1, <3>4 DEF StepOK
    <3>6. request[s].id # i
      BY <1>2, <3>2, <3>5 DEF Stored
    <3> QED
      BY <1>8, <1>9, <3>1, <3>3, <3>6
  <2> QED
    BY <2>1, <2>2
<1>13. ASSUME NEW k \in Ids, k \notin past'.contested
       PROVE  IdOK(k)'
  <2>1. IdOK(k)
    BY <1>8, <1>13 DEF OpsInv, Uncontested
  <2>2. ~Works(r, k)
    BY DEF Works
  <2>3. \A s \in Requests : Works(s, k) => request'[s] = request[s]
    BY <1>7, <2>2
  <2>4. Settled(k)' /\ Bodied(k)'
    BY <1>1, <1>8, <2>1 DEF IdOK, Settled, Bodied, Stored
  <2>5. OwnBodies(k)'
    <3> SUFFICES ASSUME NEW key \in blobs, key[1] = "body", key[2] = k
                 PROVE  BodyOwned(k, key)'
      BY <1>1 DEF OwnBodies
    <3>1. BodyOwned(k, key)
      BY <2>1 DEF IdOK, OwnBodies
    <3> QED
      BY <1>1, <1>8, <2>3, <3>1 DEF BodyOwned, Stored, Works
  <2>6. CASE k # i
    <3>1. \A s \in Requests : request'[s] # Idle /\ request'[s].id = k => Works(s, k) /\ request'[s] = request[s]
      BY <1>3, <1>7, <2>6 DEF Works
    <3>2. Sole(k)'
      BY <2>1, <3>1 DEF IdOK, Sole, Works
    <3>3. Steps(k)'
      BY <1>1, <1>8, <2>1, <3>1 DEF IdOK, Steps, Works
    <3> QED
      BY <2>4, <2>5, <3>2, <3>3 DEF IdOK
  <2>7. CASE k = i
    <3>1. \A s \in Requests : ~Works(s, i)
      BY <1>8, <1>13, <2>7 DEF X, Works
    <3>2. \A s \in Requests : request'[s] # Idle /\ request'[s].id = i => s = r
      BY <1>7, <3>1 DEF Works
    <3>3. Sole(k)'
      BY <2>7, <3>2 DEF Sole, Works
    <3>4. place # "force" => run[i].at \in {"none", "forced"}
      <4>1. CASE ~Stored(i)
        BY <1>11, <4>1
      <4>2. CASE Stored(i)
        <5>1. i <= used
          BY <1>2, <4>2 DEF RowsOK
        <5>2. place # "force" => rows[i].status \in {"ready", "failed"}
          BY <1>2, <5>1
        <5> QED
          BY <2>1, <2>7, <4>2, <5>2 DEF IdOK, Settled
      <4> QED
        BY <4>1, <4>2
    <3>5. StepOK(q, rows[i], run[i].at, blobs, past.bodiless)
      BY <1>3, <1>11, <3>4 DEF StepOK, Creating, Stored
    <3>6. Steps(k)'
      BY <1>1, <1>7, <1>8, <2>7, <3>2, <3>5 DEF Steps, Works
    <3> QED
      BY <2>4, <2>5, <3>3, <3>6 DEF IdOK
  <2> QED
    BY <2>6, <2>7
<1>14. OneKeyOneRow'
  BY <1>1 DEF OpsInv, OneKeyOneRow, Stored
<1>15. PendingIsSubmitted'
  <2>1. \A s \in Requests : request[s].at \in {"delete old", "submit"} => request'[s] = request[s]
    BY <1>7, Values
  <2>2. \A k \in Ids : PendingOK(k)
    BY DEF OpsInv, PendingIsSubmitted, PendingOK
  <2>3. ASSUME NEW k \in Ids
        PROVE  PendingOK(k)'
    <3>1. PendingOK(k)
      BY <2>2
    <3> QED
      BY <1>1, <1>8, <2>1, <3>1 DEF PendingOK
  <2> QED
    BY <2>3 DEF PendingIsSubmitted, PendingOK
<1>16. Fresh
  BY <1>1, <1>2, <1>4 DEF Fresh
<1> QED
  BY <1>10, <1>12, <1>13, <1>14, <1>15, <1>16 DEF OpsInv, Uncontested

LEMMA SubmittedKeeps ==
  ASSUME OpsInv, NEW r \in Requests, NEW op \in {"ingest", "import"}, NEW url \in Urls, Submitted(r, op, url)
  PROVE  OpsInv' /\ Fresh
<1>1. /\ request[r] = Idle /\ URLKey(url) # Invalid
      /\ rows' = rows /\ blobs' = blobs /\ vectors' = vectors /\ run' = run
  BY DEF Submitted
<1>2. Types /\ RestOK /\ used \in Nat /\ used \in 0 .. MaxId /\ MaxId \in Nat
  BY Bounds, ReadingOpsAssumption DEF OpsInv, Types, RestOK
<1>3. CASE Create(r, op, url)
  <2> DEFINE place == IF op = "import" THEN "put" ELSE "save"
  <2>1. used < MaxId /\ used' = used + 1 /\ Begin(r, op, url, used + 1, place)
    BY <1>3 DEF Create
  <2>2. used + 1 \in Ids /\ used' \in 0 .. MaxId
    BY <1>2, <2>1 DEF Ids
  <2>3. /\ place \in {"put", "save"} /\ place \in {"put", "save", "mark", "force"}
        /\ (place = "put" => op = "import") /\ (place = "save" => op # "import")
    OBVIOUS
  <2> HIDE DEF place
  <2> QED
    BY <1>1, <2>1, <2>2, <2>3, BeginKeeps
<1>4. CASE Reuse(r, op, url)
  <2>1. PICK id \in HasKey(URLKey(url)) :
          /\ IF rows[id].status = "failed"
             THEN Begin(r, op, url, id, IF op = "import" THEN "put" ELSE "mark")
             ELSE UNCHANGED <<request, count, past>>
          /\ UNCHANGED used
    BY <1>4 DEF Reuse
  <2>2. id \in Ids /\ Stored(id) /\ used' = used
    BY <2>1 DEF HasKey
  <2>3. CASE rows[id].status = "failed"
    <3> DEFINE place == IF op = "import" THEN "put" ELSE "mark"
    <3>1. Begin(r, op, url, id, place)
      BY <2>1, <2>3
    <3>2. /\ place \in {"put", "save", "mark", "force"} /\ place # "save"
          /\ (place = "put" => op = "import")
      OBVIOUS
    <3> HIDE DEF place
    <3> QED
      BY <1>1, <1>2, <2>2, <2>3, <3>1, <3>2, BeginKeeps
  <2>4. CASE rows[id].status # "failed"
    <3>1. UNCHANGED opsVars
      BY <1>1, <2>1, <2>4 DEF opsVars
    <3> QED
      BY <3>1, Stutter
  <2> QED
    BY <2>3, <2>4
<1> QED
  BY <1>3, <1>4 DEF Submitted

LEMMA ReprocessReadKeeps ==
  ASSUME OpsInv, NEW r \in Requests, NEW i \in Ids, ReprocessRead(r, i)
  PROVE  OpsInv' /\ Fresh
<1> DEFINE place == IF rows[i].status \in {"ready", "failed"} THEN "mark" ELSE "force"
<1>1. /\ request[r] = Idle /\ Stored(i) /\ Begin(r, "reprocess", rows[i].url, i, place)
      /\ rows' = rows /\ blobs' = blobs /\ run' = run /\ used' = used
  BY DEF ReprocessRead
<1>2. Types /\ RestOK /\ used \in 0 .. MaxId
  BY DEF OpsInv, Types, RestOK
<1>3. rows[i].url \in Urls /\ URLKey(rows[i].url) # Invalid
  BY <1>1, <1>2 DEF Types, RowsOK, RowOK, Rows
<1>4. /\ place \in {"put", "save", "mark", "force"} /\ place # "save" /\ place # "put"
      /\ place # "force" => rows[i].status \in {"ready", "failed"}
  OBVIOUS
<1> HIDE DEF place
<1> QED
  BY <1>1, <1>2, <1>3, <1>4, BeginKeeps

LEMMA RestartKeeps ==
  ASSUME OpsInv, Restart
  PROVE  OpsInv' /\ Fresh
<1> DEFINE hands == UNION {InHand(request[r]) : r \in Requests}
<1>1. PICK overdue \in SUBSET {id \in Ids : rows[id].status = "running"} :
        run' = [id \in Ids |-> IF rows[id].status = "pending" \/ id \in overdue THEN Queued ELSE NoRun]
  BY DEF Restart
<1>2. /\ count' = [count EXCEPT !.crash = @ + 1] /\ request' = [r \in Requests |-> Idle]
      /\ past' = [past EXCEPT !.owed = {}, !.displaced = @ \cup hands]
      /\ rows' = rows /\ blobs' = blobs /\ used' = used
  BY DEF Restart
<1>3. Types /\ RowsOK /\ RunsOK /\ RequestsOK /\ BlobsOK /\ RestOK /\ used \in Nat /\ count.body \in Nat
  BY Bounds DEF OpsInv, Types
<1>4. hands \subseteq Keys
  <2>1. \A r \in Requests : InHand(request[r]) \subseteq Keys
    BY <1>3, InHandIs
  <2> QED
    BY <2>1
<1>5. \A r \in Requests : InHand(request[r]) \subseteq hands
  OBVIOUS
<1> HIDE DEF hands
<1>6. /\ past' \in [owed : SUBSET Ids, displaced : SUBSET Keys, bodiless : SUBSET Ids, contested : SUBSET Ids]
      /\ past'.displaced = past.displaced \cup hands
      /\ past'.bodiless = past.bodiless /\ past'.contested = past.contested
  BY <1>2, <1>3, <1>4 DEF RestOK
<1>7. /\ count' \in [request : Nat, run : Nat, body : Nat, error : Nat, crash : Nat]
      /\ count'.body = count.body
  BY <1>2, <1>3 DEF RestOK
<1>8. \A r \in Requests : request'[r] = Idle
  BY <1>2
<1>9. \A id \in Ids : run'[id] = IF rows[id].status = "pending" \/ id \in overdue THEN Queued ELSE NoRun
  BY <1>1
<1>10. Types'
  <2>1. RowsOK'
    <3>1. count'.body \in Nat /\ count.body <= count'.body /\ used' \in Nat /\ used <= used'
      BY <1>2, <1>3, <1>7
    <3> QED
      BY <1>2, <1>3, <3>1, RowsStay
  <2>2. RunsOK'
    <3>1. run' \in [Ids -> [at : RunPlaces, gen : Nat]]
      BY <1>1, NewClaims
    <3>2. ASSUME NEW id \in Ids, id > used'
          PROVE  run'[id].at = "none"
      <4>1. ~Stored(id)
        BY <1>2, <1>3, <3>2 DEF RowsOK, Ids
      <4>2. rows[id].status = "none"
        BY <1>3, <4>1, RowIs
      <4> QED
        BY <1>1, <1>9, <4>2, NewClaims
    <3> QED
      BY <3>1, <3>2 DEF RunsOK
  <2>3. RequestsOK'
    BY <1>2, <1>8 DEF RequestsOK
  <2> QED
    BY <1>2, <1>3, <1>6, <1>7, <2>1, <2>2, <2>3 DEF Types, BlobsOK, RestOK
<1>11. Newborn'
  BY <1>8, Values DEF Newborn, Creating
<1>12. ASSUME NEW id \in Ids, id \notin past.contested
       PROVE  IdOK(id)'
  <2>1. IdOK(id)
    BY <1>12 DEF OpsInv, Uncontested
  <2>2. Sole(id)' /\ Steps(id)'
    BY <1>8 DEF Sole, Steps, Works
  <2>3. Settled(id)'
    BY <1>1, <1>2, <1>9, NewClaims DEF Settled, Stored
  <2>4. Bodied(id)'
    BY <1>2, <1>6, <2>1 DEF IdOK, Bodied, Stored
  <2>5. OwnBodies(id)'
    BY <1>2, <1>5, <1>6, <2>1 DEF IdOK, OwnBodies, BodyOwned, Stored
  <2> QED
    BY <2>2, <2>3, <2>4, <2>5 DEF IdOK
<1>13. OneKeyOneRow'
  BY <1>2 DEF OpsInv, OneKeyOneRow, Stored
<1>14. PendingIsSubmitted'
  BY <1>2, <1>9, NewClaims DEF PendingIsSubmitted
<1>15. Fresh
  BY <1>2, <1>3, <1>7 DEF Fresh
<1> QED
  BY <1>6, <1>10, <1>11, <1>12, <1>13, <1>14, <1>15 DEF OpsInv, Uncontested

-----------------------------------------------------------------------------
(* Requests at work *)

LEMMA AtWork ==
  ASSUME OpsInv, NEW r \in Requests, request[r] # Idle
  PROVE  /\ Types /\ RowsOK /\ RunsOK /\ RequestsOK /\ BlobsOK /\ RestOK
         /\ used \in Nat /\ count.body \in Nat
         /\ request[r].id \in Ids /\ request[r].id <= used /\ Works(r, request[r].id)
         /\ request[r].id \notin past.contested =>
              /\ IdOK(request[r].id)
              /\ StepOK(request[r], rows[request[r].id], run[request[r].id].at, blobs, past.bodiless)
         /\ Creating(request[r]) => request[r].id \notin past.contested
<1>1. Types /\ RowsOK /\ RunsOK /\ RequestsOK /\ BlobsOK /\ RestOK
  BY DEF OpsInv, Types
<1>2. used \in Nat /\ count.body \in Nat
  BY <1>1, Bounds
<1>3. request[r].id \in Ids /\ request[r].id <= used /\ Works(r, request[r].id)
  BY <1>1, RequestIs DEF Works
<1>4. request[r].id \notin past.contested =>
        /\ IdOK(request[r].id)
        /\ StepOK(request[r], rows[request[r].id], run[request[r].id].at, blobs, past.bodiless)
  BY <1>3 DEF OpsInv, Uncontested, IdOK, Steps
<1>5. Creating(request[r]) => request[r].id \notin past.contested
  BY DEF OpsInv, Uncontested, Newborn
<1> QED
  BY <1>1, <1>2, <1>3, <1>4, <1>5

\* Row, claim and body of a reading are left alone, and no Submit is lost.
LEMMA PendingStays ==
  ASSUME OpsInv, NEW r \in Requests, NEW i \in Ids, request[r].at \notin {"delete old", "submit"},
         \A s \in Requests \ {r} : request'[s] = request[s],
         rows'[i] = rows[i], run'[i] = run[i], past.owed \subseteq past'.owed
  PROVE  PendingOK(i)'
<1>1. PendingOK(i)
  BY DEF OpsInv, PendingIsSubmitted, PendingOK
<1>2. \A s \in Requests : request[s].at \in {"delete old", "submit"} => request'[s] = request[s]
  OBVIOUS
<1> QED
  BY <1>1, <1>2 DEF PendingOK

\* What is left of what the reading owned when its request has let it go: a
\* body in its hands is gone, left behind or the one the row points at.
LEMMA OwnedStay ==
  ASSUME Types, NEW i \in Ids, IdOK(i), NEW r \in Requests, Works(r, i),
         past.displaced \subseteq past'.displaced,
         \A key \in blobs' : key[1] = "body" /\ key[2] = i =>
           \/ /\ key \in blobs
              /\ Stored(i) /\ rows[i].raw = key => BodyOwned(i, key)'
              /\ key \in InHand(request[r]) => BodyOwned(i, key)'
           \/ BodyOwned(i, key)'
  PROVE  OwnBodies(i)'
<1> SUFFICES ASSUME NEW key \in blobs', key[1] = "body", key[2] = i, ~BodyOwned(i, key)'
             PROVE  FALSE
  BY DEF OwnBodies
<1>1. /\ key \in blobs /\ ~(Stored(i) /\ rows[i].raw = key) /\ key \notin InHand(request[r])
  OBVIOUS
<1>2. BodyOwned(i, key)
  BY <1>1 DEF IdOK, OwnBodies
<1>3. key \in past.displaced
  BY <1>1, <1>2 DEF BodyOwned, IdOK, Sole
<1> QED
  BY <1>3 DEF BodyOwned

LEMMA PutBodyKeeps ==
  ASSUME OpsInv, NEW r \in Requests, NEW i \in Ids, request[r].id = i, PutBody(r),
         NEW key, key = BodyKey(i, count.body + 1)
  PROVE  OpsInv' /\ Fresh
<1> DEFINE n == count.body + 1
           place == IF request[r].seen = NoRow THEN "save" ELSE "replace"
           counted == [count EXCEPT !.body = @ + 1]
           q == [request[r] EXCEPT !.at = place, !.body = key]
<1>1. /\ request[r].at = "put" /\ rows' = rows /\ run' = run /\ used' = used
      /\ \/ /\ blobs' = blobs \cup {key} /\ request' = [request EXCEPT ![r] = q]
            /\ count' = counted /\ past' = past
         \/ /\ count' = [counted EXCEPT !.error = @ + 1] /\ Done(r)
            /\ \E landed \in SUBSET {key} :
                 blobs' = blobs \cup landed /\ past' = [past EXCEPT !.displaced = @ \cup landed]
  BY ZenonT(30) DEF PutBody
<1>2. request[r] # Idle
  BY <1>1, Values
<1>3. /\ Types /\ RowsOK /\ RunsOK /\ RequestsOK /\ BlobsOK /\ RestOK /\ used \in Nat /\ count.body \in Nat
      /\ i \in Ids /\ i <= used /\ Works(r, i)
      /\ i \notin past.contested => IdOK(i) /\ StepOK(request[r], rows[i], run[i].at, blobs, past.bodiless)
  BY <1>2, AtWork
<1>4. n \in Nat /\ n > count.body /\ count.body <= n
  BY <1>3
<1>5. /\ key = <<"body", i, n>> /\ key[1] = "body" /\ key[2] = i /\ key[3] = n
      /\ key \in {"body", "raw", "content"} \X Ids \X Nat /\ key \in Keys /\ RawOf(i, key, n)
  BY <1>3, <1>4 DEF BodyKey, Keys, RawOf, Ids
<1>6. /\ count' \in [request : Nat, run : Nat, body : Nat, error : Nat, crash : Nat]
      /\ count'.body = n
  <2>1. /\ counted \in [request : Nat, run : Nat, body : Nat, error : Nat, crash : Nat]
        /\ counted.body = n
    BY <1>3, <1>4 DEF RestOK
  <2> HIDE DEF counted
  <2>2. count' = counted \/ count' = [counted EXCEPT !.error = @ + 1]
    BY <1>1
  <2> QED
    BY <2>1, <2>2
<1>7. request[r] \in Busy /\ BusyOK(request[r], count.body)
  BY <1>2, <1>3 DEF RequestsOK, BusyOK
<1>8. /\ q \in Busy /\ q.at = place /\ q.body = key /\ q.op = request[r].op /\ q.url = request[r].url
      /\ q.id = i /\ q.seen = request[r].seen
  BY <1>5, <1>7 DEF Busy, Places
<1>9. place = "save" => request[r].seen = NoRow
  OBVIOUS
<1>10. place = "replace" => request[r].seen # NoRow
  OBVIOUS
<1>11. place \in {"save", "replace"}
  OBVIOUS
<1> HIDE DEF n, place, counted, q
<1>12. BusyOK(q, n)
  <2>1. BusyOK(request[r], n)
    BY <1>3, <1>4, <1>7, BusyMonotone
  <2>2. Fits(place, request[r].seen)
    BY <1>9, <1>10, <1>11 DEF Fits
  <2> QED
    BY <1>5, <1>8, <2>1, <2>2 DEF BusyOK
<1>13. count'.body \in Nat /\ count.body <= count'.body /\ used' \in Nat /\ used <= used'
  BY <1>1, <1>3, <1>4, <1>6
<1>14. RowsOK' /\ RunsOK'
  <2>1. RowsOK'
    BY <1>1, <1>3, <1>13, RowsStay
  <2> QED
    BY <1>1, <1>3, <2>1 DEF RunsOK
<1>15. CASE /\ blobs' = blobs \cup {key} /\ request' = [request EXCEPT ![r] = q]
            /\ count' = counted /\ past' = past
  <2>1. RequestsOK' /\ request'[r] = q /\ \A s \in Requests \ {r} : request'[s] = request[s]
    <3>1. BusyOK(q, count'.body) /\ q.id <= used'
      BY <1>1, <1>3, <1>6, <1>8, <1>12
    <3> QED
      BY <1>3, <1>13, <1>15, <3>1, RequestWritten
  <2>2. BlobsOK' /\ RestOK'
    BY <1>1, <1>3, <1>5, <1>6, <1>15 DEF BlobsOK, RestOK
  <2>3. Types'
    BY <1>14, <2>1, <2>2 DEF Types
  <2>4. Elsewhere(i)
    BY <1>1, <1>3, <1>5, <1>8, <1>15, <2>1 DEF Elsewhere, Creating
  <2>5. Stored(i)' => Stored(i) /\ rows'[i].key = rows[i].key
    BY <1>1 DEF Stored
  <2>6. PendingOK(i)'
    BY <1>1, <1>3, <1>15, <2>1, PendingStays
  <2>7. ASSUME i \notin past.contested
        PROVE  Steps(i)' /\ Settled(i)' /\ Bodied(i)' /\ OwnBodies(i)'
    <3>1. IdOK(i) /\ StepOK(request[r], rows[i], run[i].at, blobs, past.bodiless)
      BY <1>3, <2>7
    <3>2. Settled(i)' /\ Bodied(i)'
      BY <1>1, <1>15, <3>1 DEF IdOK, Settled, Bodied, Stored
    <3>3. StepOK(q, rows[i], run[i].at, blobs', past.bodiless)
      <4>1. key # request[r].seen.raw \/ request[r].seen = NoRow
        BY <1>3, <1>4, <1>5, <1>7 DEF BusyOK, RowOK, RawOf, Keys
      <4>2. key \in blobs'
        BY <1>15
      <4> QED
        BY <1>1, <1>5, <1>8, <1>9, <1>10, <1>11, <3>1, <4>1, <4>2 DEF StepOK, Creating
    <3>4. Steps(i)'
      BY <1>1, <1>3, <1>15, <2>1, <2>4, <3>1, <3>3, SoleStep
    <3>5. OwnBodies(i)'
      <4>1. InHand(request'[r]) = {key}
        BY <1>8, <1>11, <2>1 DEF InHand
      <4>2. q # Idle
        BY <1>8, Values
      <4>3. BodyOwned(i, key)'
        BY <1>8, <2>1, <4>1, <4>2 DEF BodyOwned, Works
      <4>4. InHand(request[r]) = {}
        BY <1>1, <1>3, InHandIs
      <4>5. \A k : Stored(i) /\ rows[i].raw = k => BodyOwned(i, k)'
        BY <1>1 DEF BodyOwned, Stored
      <4> QED
        BY <1>3, <1>15, <3>1, <4>3, <4>4, <4>5, OwnedStay
    <3> QED
      BY <3>2, <3>4, <3>5
  <2>8. OpsInv'
    BY <1>3, <2>3, <2>4, <2>5, <2>6, <2>7, Touch
  <2>9. Fresh
    BY <1>4, <1>5, <1>13, <1>15 DEF Fresh
  <2> QED
    BY <2>8, <2>9
<1>16. CASE /\ count' = [counted EXCEPT !.error = @ + 1] /\ Done(r)
            /\ \E landed \in SUBSET {key} :
                 blobs' = blobs \cup landed /\ past' = [past EXCEPT !.displaced = @ \cup landed]
  <2>1. RequestsOK' /\ request'[r] = Idle /\ \A s \in Requests \ {r} : request'[s] = request[s]
    BY <1>1, <1>3, <1>13, <1>16, Ends
  <2>2. PICK landed \in SUBSET {key} :
          blobs' = blobs \cup landed /\ past' = [past EXCEPT !.displaced = @ \cup landed]
    BY <1>16
  <2>3. /\ past' \in [owed : SUBSET Ids, displaced : SUBSET Keys, bodiless : SUBSET Ids, contested : SUBSET Ids]
        /\ past'.displaced = past.displaced \cup landed /\ past'.owed = past.owed
        /\ past'.bodiless = past.bodiless /\ past'.contested = past.contested
    BY <1>3, <1>5, <2>2 DEF RestOK
  <2>4. BlobsOK' /\ RestOK'
    BY <1>1, <1>3, <1>5, <1>6, <2>2, <2>3 DEF BlobsOK, RestOK
  <2>5. Types'
    BY <1>14, <2>1, <2>4 DEF Types
  <2>6. Elsewhere(i)
    BY <1>1, <1>3, <1>5, <2>1, <2>2, <2>3, Values DEF Elsewhere, Creating
  <2>7. Stored(i)' => Stored(i) /\ rows'[i].key = rows[i].key
    BY <1>1 DEF Stored
  <2>8. PendingOK(i)'
    BY <1>1, <1>3, <2>1, <2>3, PendingStays
  <2>9. ASSUME i \notin past.contested
        PROVE  Steps(i)' /\ Settled(i)' /\ Bodied(i)' /\ OwnBodies(i)'
    <3>1. IdOK(i)
      BY <1>3, <2>9
    <3>2. Settled(i)' /\ Bodied(i)'
      BY <1>1, <2>2, <2>3, <3>1 DEF IdOK, Settled, Bodied, Stored
    <3>3. Steps(i)'
      BY <1>3, <2>1, <2>6, <3>1, SoleStep
    <3>4. OwnBodies(i)'
      <4>1. \A k \in landed : BodyOwned(i, k)'
        BY <2>3 DEF BodyOwned
      <4>2. InHand(request[r]) = {}
        BY <1>1, <1>3, InHandIs
      <4>3. \A k : Stored(i) /\ rows[i].raw = k => BodyOwned(i, k)'
        BY <1>1 DEF BodyOwned, Stored
      <4>4. \A k \in blobs' : k \in blobs \/ k \in landed
        BY <2>2
      <4> QED
        BY <1>3, <2>3, <3>1, <4>1, <4>2, <4>3, <4>4, OwnedStay
    <3> QED
      BY <3>2, <3>3, <3>4
  <2>10. OpsInv'
    BY <1>3, <2>5, <2>6, <2>7, <2>8, <2>9, Touch
  <2>11. Fresh
    BY <1>4, <1>5, <1>13, <2>2 DEF Fresh
  <2> QED
    BY <2>10, <2>11
<1> QED
  BY <1>1, <1>15, <1>16

\* A step of the request that works on reading i, given by what it does to
\* the reading.
LEMMA WorkTouch ==
  ASSUME OpsInv, NEW r \in Requests, NEW i \in Ids, request[r] # Idle, request[r].id = i,
         RowsOK', RunsOK', RequestsOK', BlobsOK', RestOK',
         \A j \in Ids \ {i} : rows'[j] = rows[j] /\ run'[j] = run[j],
         \A s \in Requests \ {r} : request'[s] = request[s],
         \/ request'[r] = Idle
         \/ request'[r].id = i /\ (Creating(request'[r]) => Creating(request[r])),
         \A key : key[1] = "body" /\ key[2] # i => (key \in blobs' <=> key \in blobs),
         past'.contested = past.contested, past.owed \subseteq past'.owed,
         past.displaced \subseteq past'.displaced, past.bodiless \subseteq past'.bodiless,
         Stored(i)' => \/ Stored(i) /\ rows'[i].key = rows[i].key
                       \/ \A j \in Ids \ {i} : Stored(j) => rows[j].key # rows'[i].key,
         PendingOK(i)',
         i \notin past.contested =>
           /\ request'[r] = Idle \/ StepOK(request'[r], rows'[i], run'[i].at, blobs', past'.bodiless)
           /\ Settled(i)' /\ Bodied(i)' /\ OwnBodies(i)'
  PROVE  OpsInv'
<1>1. Types /\ Works(r, i)
  BY DEF OpsInv, Works
<1>2. Types'
  BY DEF Types
<1>3. Elsewhere(i)
  BY <1>1, Values DEF Elsewhere, Creating
<1>4. ASSUME i \notin past.contested
      PROVE  Steps(i)' /\ Settled(i)' /\ Bodied(i)' /\ OwnBodies(i)'
  <2>1. IdOK(i)
    BY <1>4 DEF OpsInv, Uncontested
  <2>2. Steps(i)'
    BY <1>1, <1>3, <1>4, <2>1, SoleStep
  <2> QED
    BY <1>4, <2>2
<1> QED
  BY <1>2, <1>3, <1>4, Touch

LEMMA SaveReadingKeeps ==
  ASSUME OpsInv, NEW r \in Requests, NEW i \in Ids, request[r].id = i, SaveReading(r)
  PROVE  OpsInv' /\ Fresh
<1> DEFINE x == NewRow(request[r])
           saved == [rows EXCEPT ![i] = x]
           taken == HasKey(URLKey(request[r].url)) # {}
<1>1. /\ request[r].at = "save" /\ blobs' = blobs /\ run' = run /\ used' = used
      /\ \/ ~taken /\ rows' = saved /\ Goto(r, "submit") /\ count' = count /\ past' = past
         \/ taken /\ Goto(r, "reread") /\ rows' = rows /\ count' = count /\ past' = past
         \/ Failing /\ Goto(r, "undo") /\ rows' = rows /\ past' = past
         \/ /\ ~taken /\ Failing /\ rows' = saved /\ Goto(r, "undo")
            /\ past' = [past EXCEPT !.owed = @ \cup {i}, !.bodiless = @ \cup {i}]
  BY DEF SaveReading
<1>2. request[r] # Idle
  BY <1>1, Values
<1>3. /\ Types /\ RowsOK /\ RunsOK /\ RequestsOK /\ BlobsOK /\ RestOK /\ used \in Nat /\ count.body \in Nat
      /\ i \in Ids /\ i <= used /\ Works(r, i)
      /\ i \notin past.contested => IdOK(i) /\ StepOK(request[r], rows[i], run[i].at, blobs, past.bodiless)
      /\ Creating(request[r]) => i \notin past.contested
  BY <1>2, AtWork
<1>4. request[r] \in Busy /\ BusyOK(request[r], count.body) /\ request[r].seen = NoRow
  BY <1>1, <1>2, <1>3 DEF RequestsOK, BusyOK, Fits
<1>5. Creating(request[r]) /\ i \notin past.contested
  BY <1>1, <1>3, <1>4 DEF Creating
<1>6. IdOK(i) /\ StepOK(request[r], rows[i], run[i].at, blobs, past.bodiless)
  BY <1>3, <1>5
<1>7. /\ rows[i] = NoRow /\ ~Stored(i) /\ run[i].at = "none"
      /\ request[r].op = "import" =>
           request[r].body[1] = "body" /\ (request[r].body \in blobs \/ i \in past.bodiless)
      /\ request[r].op # "import" => request[r].body = NoKey
  BY <1>1, <1>5, <1>6 DEF StepOK, Stored
<1>8. /\ x.url = request[r].url /\ x.key = URLKey(request[r].url) /\ x.status = "pending"
      /\ x.raw = request[r].body /\ x.content = NoKey
      /\ request[r].op = "import" => x.kind = "markdown"
      /\ request[r].op # "import" => x.kind \in Kinds \ {"markdown"}
      /\ x \in Rows
  <2>1. urlIngestSourceKind(URLKey(request[r].url)) \in Kinds \ {"markdown"}
    BY IngestKind
  <2>2. request[r].url \in Urls /\ request[r].body \in Keys
    BY <1>4 DEF Busy
  <2>3. "markdown" \in Kinds /\ "pending" \in Statuses
    BY DEF Kinds, Statuses
  <2> QED
    BY <2>1, <2>2, <2>3, Values DEF NewRow, Rows
<1> HIDE DEF x
<1>9. RowOK(i, x, count.body)
  BY <1>4, <1>8, Values DEF BusyOK, RowOK
<1>10. /\ count' \in [request : Nat, run : Nat, body : Nat, error : Nat, crash : Nat]
       /\ count'.body = count.body
  BY <1>1, <1>3, CountBody
<1>11. count.body <= count'.body /\ count'.body \in Nat /\ used' \in Nat /\ used <= used'
  BY <1>1, <1>3, <1>10
<1>12. RunsOK' /\ BlobsOK' /\ Fresh
  BY <1>1, <1>3, <1>11 DEF RunsOK, BlobsOK, Fresh
<1>13. ASSUME rows' = saved
       PROVE  RowsOK' /\ rows'[i] = x /\ \A j \in Ids \ {i} : rows'[j] = rows[j]
  <2>1. RowOK(i, x, count'.body) /\ i <= used'
    BY <1>1, <1>3, <1>9, <1>10
  <2> HIDE DEF saved
  <2>2. rows' = [rows EXCEPT ![i] = x]
    BY <1>13 DEF saved
  <2> QED
    BY <1>3, <1>11, <2>1, <2>2, RowWritten
<1>14. InHand(request[r]) = {request[r].body}
  BY <1>1, <1>3, InHandIs
<1>15. ASSUME NEW place \in {"submit", "reread", "undo"}, Goto(r, place)
       PROVE  /\ RequestsOK' /\ \A s \in Requests \ {r} : request'[s] = request[s]
              /\ request'[r] \in Busy /\ request'[r] # Idle /\ request'[r].at = place
              /\ request'[r].op = request[r].op
              /\ request'[r].id = i /\ request'[r].body = request[r].body
              /\ ~Creating(request'[r])
  <2>1. place \in Places /\ Fits(place, request[r].seen)
    BY DEF Places, Fits
  <2>2. /\ RequestsOK' /\ \A s \in Requests \ {r} : request'[s] = request[s]
        /\ request'[r] \in Busy /\ request'[r] # Idle /\ request'[r].at = place
        /\ request'[r].op = request[r].op
        /\ request'[r].id = request[r].id /\ request'[r].body = request[r].body
    BY <1>1, <1>2, <1>3, <1>10, <1>15, <2>1, Goes
  <2> QED
    BY <2>2 DEF Creating
<1>16. ASSUME ~taken, NEW j \in Ids, Stored(j)
       PROVE  rows[j].key # x.key
  BY <1>8, <1>16 DEF HasKey
<1>17. CASE ~taken /\ rows' = saved /\ Goto(r, "submit") /\ count' = count /\ past' = past
  <2>1. RowsOK' /\ rows'[i] = x /\ \A j \in Ids \ {i} : rows'[j] = rows[j]
    BY <1>13, <1>17
  <2>2. /\ RequestsOK' /\ \A s \in Requests \ {r} : request'[s] = request[s]
        /\ request'[r] # Idle /\ request'[r].at = "submit" /\ request'[r].id = i /\ ~Creating(request'[r])
    BY <1>15, <1>17
  <2>3. RestOK'
    BY <1>1, <1>3, <1>17 DEF RestOK
  <2>4. PendingOK(i)'
    BY <2>2 DEF PendingOK
  <2>5. StepOK(request'[r], rows'[i], run'[i].at, blobs', past'.bodiless)
    BY <1>1, <1>7, <1>8, <2>1, <2>2 DEF StepOK
  <2>6. Settled(i)' /\ Bodied(i)'
    BY <1>1, <1>7, <1>8, <1>17, <2>1, Values DEF Settled, Bodied, Stored
  <2>7. OwnBodies(i)'
    <3>1. ASSUME NEW key, key = request[r].body
          PROVE  BodyOwned(i, key)'
      <4>1. rows'[i] # NoRow /\ rows'[i].raw = key
        BY <1>8, <2>1, <3>1, Values
      <4> QED
        BY <4>1 DEF BodyOwned, Stored
    <3> QED
      BY <1>1, <1>3, <1>6, <1>7, <1>14, <1>17, <3>1, OwnedStay
  <2>8. \A j \in Ids \ {i} : Stored(j) => rows[j].key # rows'[i].key
    BY <1>16, <1>17, <2>1
  <2>9. OpsInv'
    BY <1>1, <1>2, <1>12, <1>17, <2>1, <2>2, <2>3, <2>4, <2>5, <2>6, <2>7, <2>8, WorkTouch
  <2> QED
    BY <1>12, <2>9
<1>18. ASSUME NEW place \in {"reread", "undo"}, Goto(r, place), rows' = rows, past' = past
       PROVE  OpsInv'
  <2>1. RowsOK'
    BY <1>3, <1>11, <1>18, RowsStay
  <2>2. /\ RequestsOK' /\ \A s \in Requests \ {r} : request'[s] = request[s]
        /\ request'[r] # Idle /\ request'[r].at = place /\ request'[r].id = i
        /\ request'[r].body = request[r].body /\ ~Creating(request'[r])
    BY <1>15, <1>18
  <2>3. RestOK'
    BY <1>1, <1>3, <1>10, <1>18 DEF RestOK
  <2>4. PendingOK(i)'
    BY <1>7, <1>18, RowIs, <1>3 DEF PendingOK
  <2>5. StepOK(request'[r], rows'[i], run'[i].at, blobs', past'.bodiless)
    <3>1. request[r].body[1] \in {"body", "none"}
      BY <1>7, Values
    <3> QED
      BY <1>1, <1>7, <1>18, <2>2, <3>1 DEF StepOK
  <2>6. Settled(i)' /\ Bodied(i)'
    BY <1>7, <1>18 DEF Settled, Bodied, Stored
  <2>7. OwnBodies(i)'
    <3>1. InHand(request'[r]) = {request[r].body}
      BY <1>18, <2>2 DEF InHand
    <3>2. ASSUME NEW key, key = request[r].body
          PROVE  BodyOwned(i, key)'
      BY <2>2, <3>1, <3>2 DEF BodyOwned, Works
    <3> QED
      BY <1>1, <1>3, <1>6, <1>7, <1>14, <1>18, <3>2, OwnedStay
  <2>8. ~Stored(i)'
    BY <1>7, <1>18 DEF Stored
  <2> QED
    BY <1>1, <1>2, <1>12, <1>18, <2>1, <2>2, <2>3, <2>4, <2>5, <2>6, <2>7, <2>8, WorkTouch
<1>19. CASE /\ ~taken /\ Failing /\ rows' = saved /\ Goto(r, "undo")
            /\ past' = [past EXCEPT !.owed = @ \cup {i}, !.bodiless = @ \cup {i}]
  <2>1. RowsOK' /\ rows'[i] = x /\ \A j \in Ids \ {i} : rows'[j] = rows[j]
    BY <1>13, <1>19
  <2>2. /\ RequestsOK' /\ \A s \in Requests \ {r} : request'[s] = request[s]
        /\ request'[r] # Idle /\ request'[r].at = "undo" /\ request'[r].id = i
        /\ request'[r].body = request[r].body /\ ~Creating(request'[r])
    BY <1>15, <1>19
  <2>3. /\ past' \in [owed : SUBSET Ids, displaced : SUBSET Keys, bodiless : SUBSET Ids, contested : SUBSET Ids]
        /\ past'.owed = past.owed \cup {i} /\ past'.bodiless = past.bodiless \cup {i}
        /\ past'.displaced = past.displaced /\ past'.contested = past.contested
    BY <1>3, <1>19 DEF RestOK
  <2>4. RestOK'
    BY <1>1, <1>3, <1>10, <2>3 DEF RestOK
  <2>5. PendingOK(i)'
    BY <2>3 DEF PendingOK
  <2>6. StepOK(request'[r], rows'[i], run'[i].at, blobs', past'.bodiless)
    <3>1. request[r].body[1] \in {"body", "none"}
      BY <1>7, Values
    <3>2. i \in past'.bodiless
      BY <2>3
    <3> QED
      BY <1>1, <2>2, <3>1, <3>2 DEF StepOK
  <2>7. Settled(i)' /\ Bodied(i)'
    BY <1>1, <1>7, <1>8, <2>1, <2>3, Values DEF Settled, Bodied, Stored
  <2>8. OwnBodies(i)'
    <3>1. ASSUME NEW key, key = request[r].body
          PROVE  BodyOwned(i, key)'
      <4>1. rows'[i] # NoRow /\ rows'[i].raw = key
        BY <1>8, <2>1, <3>1, Values
      <4> QED
        BY <4>1 DEF BodyOwned, Stored
    <3> QED
      BY <1>1, <1>3, <1>6, <1>7, <1>14, <2>3, <3>1, OwnedStay
  <2>9. \A j \in Ids \ {i} : Stored(j) => rows[j].key # rows'[i].key
    BY <1>16, <1>19, <2>1
  <2>10. OpsInv'
    BY <1>1, <1>2, <1>12, <2>1, <2>2, <2>3, <2>4, <2>5, <2>6, <2>7, <2>8, <2>9, WorkTouch
  <2> QED
    BY <1>12, <2>10
<1> QED
  BY <1>1, <1>12, <1>17, <1>18, <1>19

LEMMA NothingInHand ==
  ASSUME Types, NEW i \in Ids, IdOK(i), NEW r \in Requests, Works(r, i), InHand(request[r]) = {},
         rows'[i] = rows[i], past.displaced \subseteq past'.displaced, blobs' = blobs
  PROVE  OwnBodies(i)'
<1>1. \A key : Stored(i) /\ rows[i].raw = key => BodyOwned(i, key)'
  BY DEF BodyOwned, Stored
<1> QED
  BY <1>1, OwnedStay

LEMMA BodyStays ==
  ASSUME NEW i \in Ids, IdOK(i), rows'[i] = rows[i], blobs' = blobs, past.bodiless \subseteq past'.bodiless
  PROVE  Bodied(i)'
BY DEF IdOK, Bodied, Stored

\* A request that goes on, or ends, and touches neither rows nor blobs.
LEMMA ClaimTouch ==
  ASSUME OpsInv, NEW r \in Requests, NEW i \in Ids, request[r] # Idle, request[r].id = i,
         request[r].at \in {"mark", "reset", "submit", "force"},
         rows' = rows, blobs' = blobs, used' = used,
         count' \in [request : Nat, run : Nat, body : Nat, error : Nat, crash : Nat],
         count'.body = count.body,
         RunsOK', \A j \in Ids \ {i} : run'[j] = run[j],
         RequestsOK', \A s \in Requests \ {r} : request'[s] = request[s],
         request'[r] = Idle \/ (request'[r].id = i /\ ~Creating(request'[r])),
         past' \in [owed : SUBSET Ids, displaced : SUBSET Keys, bodiless : SUBSET Ids, contested : SUBSET Ids],
         past'.contested = past.contested, past.owed \subseteq past'.owed,
         past'.displaced = past.displaced, past'.bodiless = past.bodiless,
         PendingOK(i)',
         i \notin past.contested =>
           /\ request'[r] = Idle \/ StepOK(request'[r], rows[i], run'[i].at, blobs, past.bodiless)
           /\ Settled(i)'
  PROVE  OpsInv' /\ Fresh
<1>1. /\ Types /\ RowsOK /\ BlobsOK /\ RestOK /\ used \in Nat /\ count.body \in Nat /\ Works(r, i)
      /\ i \notin past.contested => IdOK(i)
  BY AtWork
<1>2. count'.body \in Nat /\ count.body <= count'.body /\ used' \in Nat /\ used <= used'
  BY <1>1
<1>3. RowsOK'
  BY <1>1, <1>2, RowsStay
<1>4. BlobsOK' /\ RestOK'
  BY <1>1 DEF BlobsOK, RestOK
<1>5. InHand(request[r]) = {}
  BY <1>1, InHandIs
<1>6. i \notin past.contested => Bodied(i)' /\ OwnBodies(i)'
  BY <1>1, <1>5, BodyStays, NothingInHand
<1>7. Stored(i)' => Stored(i) /\ rows'[i].key = rows[i].key
  BY DEF Stored
<1>8. OpsInv'
  BY <1>3, <1>4, <1>6, <1>7, WorkTouch
<1>9. Fresh
  BY <1>2 DEF Fresh
<1> QED
  BY <1>8, <1>9

LEMMA GaveUp ==
  ASSUME RunsOK, RestOK, NEW q, NEW i \in Ids, q.id = i, i <= used, used' = used, GiveUp(q)
  PROVE  /\ RunsOK' /\ \A j \in Ids \ {i} : run'[j] = run[j]
         /\ past' \in [owed : SUBSET Ids, displaced : SUBSET Keys, bodiless : SUBSET Ids, contested : SUBSET Ids]
         /\ past'.contested = past.contested /\ past.owed \subseteq past'.owed
         /\ past'.displaced = past.displaced /\ past'.bodiless = past.bodiless
         /\ \/ run'[i] = run[i] /\ past' = past
            \/ run'[i].at = "none" /\ i \in past'.owed
<1>1. CASE Forced(q)
  <2>1. run' = [run EXCEPT ![i] = NoRun] /\ past' = [past EXCEPT !.owed = @ \cup {i}]
    BY <1>1 DEF GiveUp
  <2>2. NoRun \in [at : RunPlaces, gen : Nat] /\ NoRun.at = "none"
    BY NewClaims
  <2>3. RunsOK' /\ run'[i] = NoRun /\ \A j \in Ids \ {i} : run'[j] = run[j]
    BY <2>1, <2>2, RunWritten
  <2>4. /\ past' \in [owed : SUBSET Ids, displaced : SUBSET Keys, bodiless : SUBSET Ids, contested : SUBSET Ids]
        /\ past'.owed = past.owed \cup {i} /\ past'.contested = past.contested
        /\ past'.displaced = past.displaced /\ past'.bodiless = past.bodiless
    BY <2>1 DEF RestOK
  <2> QED
    BY <2>2, <2>3, <2>4
<1>2. CASE ~Forced(q)
  <2>1. run' = run /\ past' = past
    BY <1>2 DEF GiveUp
  <2> QED
    BY <2>1 DEF RunsOK, RestOK
<1> QED
  BY <1>1, <1>2

LEMMA MarkKeeps ==
  ASSUME OpsInv, NEW r \in Requests, NEW i \in Ids, request[r].id = i, Mark(r),
         NEW body, body = IF rows[i].kind = "markdown" THEN rows[i].raw ELSE NoKey
  PROVE  OpsInv' /\ Fresh
<1>1. /\ request[r].at = "mark" /\ rows' = rows /\ blobs' = blobs /\ used' = used
      /\ \/ /\ Stored(i) /\ request' = [request EXCEPT ![r].at = "reset", ![r].body = body]
            /\ run' = run /\ count' = count /\ past' = past
         \/ Refused(i) /\ Done(r) /\ GiveUp(request[r])
  BY DEF Mark
<1>2. request[r] # Idle
  BY <1>1, Values
<1>3. /\ Types /\ RowsOK /\ RunsOK /\ RequestsOK /\ BlobsOK /\ RestOK /\ used \in Nat /\ count.body \in Nat
      /\ i \in Ids /\ i <= used /\ Works(r, i)
      /\ i \notin past.contested => IdOK(i) /\ StepOK(request[r], rows[i], run[i].at, blobs, past.bodiless)
  BY <1>2, AtWork
<1>4. request[r] \in Busy /\ BusyOK(request[r], count.body)
  BY <1>2, <1>3 DEF RequestsOK, BusyOK
<1>5. CASE /\ Stored(i) /\ request' = [request EXCEPT ![r].at = "reset", ![r].body = body]
           /\ run' = run /\ count' = count /\ past' = past
  <2> DEFINE q == [request[r] EXCEPT !.at = "reset", !.body = body]
  <2>1. RawOf(i, body, count.body) /\ body \in Keys
    <3>1. RawOf(i, rows[i].raw, count.body) /\ RawOf(i, NoKey, count.body)
      BY <1>3, <1>5, Values DEF RowsOK, RowOK, RawOf
    <3>2. RawOf(i, body, count.body)
      BY <3>1
    <3> QED
      BY <3>2 DEF RawOf
  <2>2. request' = [request EXCEPT ![r] = q]
    BY <1>3, <1>5 DEF RequestsOK
  <2>3. /\ q \in Busy /\ q.at = "reset" /\ q.body = body /\ q.op = request[r].op /\ q.url = request[r].url
        /\ q.id = i /\ q.seen = request[r].seen
    BY <1>4, <2>1 DEF Busy, Places
  <2> HIDE DEF q
  <2>4. BusyOK(q, count'.body) /\ q.id <= used'
    BY <1>1, <1>3, <1>4, <1>5, <2>1, <2>3 DEF BusyOK, Fits
  <2>5. count'.body \in Nat /\ count.body <= count'.body /\ used' \in Nat /\ used <= used'
    BY <1>1, <1>3, <1>5
  <2>6. RequestsOK' /\ request'[r] = q /\ \A s \in Requests \ {r} : request'[s] = request[s]
    BY <1>3, <2>2, <2>4, <2>5, RequestWritten
  <2>7. PendingOK(i)'
    BY <1>1, <1>5, <2>6, PendingStays
  <2>8. ~Creating(q)
    BY <2>3 DEF Creating
  <2>9. ASSUME i \notin past.contested
        PROVE  StepOK(q, rows[i], run[i].at, blobs, past.bodiless) /\ Settled(i)'
    <3>1. IdOK(i) /\ StepOK(request[r], rows[i], run[i].at, blobs, past.bodiless)
      BY <1>3, <2>9
    <3>2. Settled(i)'
      BY <1>1, <1>5, <3>1 DEF IdOK, Settled, Stored
    <3> QED
      BY <1>1, <2>3, <2>8, <3>1, <3>2 DEF StepOK
  <2>10. /\ RunsOK' /\ \A j \in Ids \ {i} : run'[j] = run[j]
         /\ past' \in [owed : SUBSET Ids, displaced : SUBSET Keys, bodiless : SUBSET Ids, contested : SUBSET Ids]
         /\ count' \in [request : Nat, run : Nat, body : Nat, error : Nat, crash : Nat]
    BY <1>1, <1>3, <1>5 DEF RunsOK, RestOK
  <2> QED
    BY <1>1, <1>2, <1>5, <2>3, <2>6, <2>7, <2>8, <2>9, <2>10, ClaimTouch
<1>6. CASE Refused(i) /\ Done(r) /\ GiveUp(request[r])
  <2>1. /\ count' \in [request : Nat, run : Nat, body : Nat, error : Nat, crash : Nat]
        /\ count'.body = count.body
    BY <1>3, <1>6, CountBody DEF Refused
  <2>2. RequestsOK' /\ request'[r] = Idle /\ \A s \in Requests \ {r} : request'[s] = request[s]
    BY <1>1, <1>3, <1>6, <2>1, Ends
  <2>3. /\ RunsOK' /\ \A j \in Ids \ {i} : run'[j] = run[j]
        /\ past' \in [owed : SUBSET Ids, displaced : SUBSET Keys, bodiless : SUBSET Ids, contested : SUBSET Ids]
        /\ past'.contested = past.contested /\ past.owed \subseteq past'.owed
        /\ past'.displaced = past.displaced /\ past'.bodiless = past.bodiless
        /\ (run'[i] = run[i] /\ past' = past) \/ (run'[i].at = "none" /\ i \in past'.owed)
    BY <1>1, <1>3, <1>6, GaveUp
  <2>4. PendingOK(i)'
    <3>1. CASE run'[i] = run[i]
      BY <1>1, <2>2, <2>3, <3>1, PendingStays
    <3>2. CASE i \in past'.owed
      BY <3>2 DEF PendingOK
    <3> QED
      BY <2>3, <3>1, <3>2
  <2>5. i \notin past.contested => Settled(i)'
    BY <1>1, <1>3, <2>3 DEF IdOK, Settled, Stored
  <2> QED
    BY <1>1, <1>2, <2>1, <2>2, <2>3, <2>4, <2>5, ClaimTouch
<1> QED
  BY <1>1, <1>5, <1>6

LEMMA SubmitKeeps ==
  ASSUME OpsInv, NEW r \in Requests, NEW i \in Ids, request[r].id = i, Submit(r)
  PROVE  OpsInv' /\ Fresh
<1> DEFINE free == run[i].at \in {"none", "forced"}
<1>1. /\ request[r].at = "submit" /\ Done(r) /\ rows' = rows /\ blobs' = blobs /\ used' = used
      /\ \/ free /\ run' = [run EXCEPT ![i] = Queued] /\ count' = count /\ past' = past
         \/ ~free /\ run' = run /\ count' = count /\ past' = past
         \/ /\ free /\ Failing /\ run' = [run EXCEPT ![i] = NoRun]
            /\ past' = [past EXCEPT !.owed = @ \cup {i}]
  BY DEF Submit
<1>2. request[r] # Idle
  BY <1>1, Values
<1>3. /\ Types /\ RowsOK /\ RunsOK /\ RequestsOK /\ BlobsOK /\ RestOK /\ used \in Nat /\ count.body \in Nat
      /\ i \in Ids /\ i <= used /\ Works(r, i)
      /\ i \notin past.contested => IdOK(i) /\ StepOK(request[r], rows[i], run[i].at, blobs, past.bodiless)
  BY <1>2, AtWork
<1>4. /\ count' \in [request : Nat, run : Nat, body : Nat, error : Nat, crash : Nat]
      /\ count'.body = count.body
  BY <1>1, <1>3, CountBody
<1>5. RequestsOK' /\ request'[r] = Idle /\ \A s \in Requests \ {r} : request'[s] = request[s]
  BY <1>1, <1>3, <1>4, Ends
<1>6. i \notin past.contested /\ Stored(i) => rows[i].status = "pending"
  BY <1>1, <1>3 DEF StepOK, Stored
<1>7. /\ past' \in [owed : SUBSET Ids, displaced : SUBSET Keys, bodiless : SUBSET Ids, contested : SUBSET Ids]
      /\ past'.contested = past.contested /\ past.owed \subseteq past'.owed
      /\ past'.displaced = past.displaced /\ past'.bodiless = past.bodiless
  BY <1>1, <1>3 DEF RestOK
<1>8. i \notin past.contested => Settled(i)'
  BY <1>1, <1>6 DEF Settled, Stored
<1>9. RunsOK' /\ \A j \in Ids \ {i} : run'[j] = run[j]
  <2>1. CASE run' = [run EXCEPT ![i] = Queued]
    BY <1>1, <1>3, <2>1, NewClaims, RunWritten
  <2>2. CASE run' = [run EXCEPT ![i] = NoRun]
    BY <1>1, <1>3, <2>2, NewClaims, RunWritten
  <2>3. CASE run' = run
    BY <1>1, <1>3, <2>3 DEF RunsOK
  <2> QED
    BY <1>1, <2>1, <2>2, <2>3
<1>10. PendingOK(i)'
  <2>1. CASE run' = [run EXCEPT ![i] = Queued]
    <3>1. run'[i].at = "queued"
      BY <1>3, <2>1, NewClaims DEF RunsOK
    <3> QED
      BY <3>1 DEF PendingOK
  <2>2. CASE past' = [past EXCEPT !.owed = @ \cup {i}]
    <3>1. i \in past'.owed
      BY <1>3, <2>2 DEF RestOK
    <3> QED
      BY <3>1 DEF PendingOK
  <2>3. CASE ~free /\ run' = run
    BY <2>3 DEF PendingOK
  <2> QED
    BY <1>1, <2>1, <2>2, <2>3
<1> QED
  BY <1>1, <1>2, <1>4, <1>5, <1>7, <1>8, <1>9, <1>10, ClaimTouch

LEMMA ForceClaimKeeps ==
  ASSUME OpsInv, NEW r \in Requests, NEW i \in Ids, request[r].id = i, ForceClaim(r)
  PROVE  OpsInv' /\ Fresh
<1> DEFINE y == [at |-> "forced", gen |-> 0]
<1>1. /\ request[r].at = "force" /\ Goto(r, "mark") /\ run' = [run EXCEPT ![i] = y]
      /\ rows' = rows /\ blobs' = blobs /\ used' = used /\ count' = count /\ past' = past
  BY DEF ForceClaim
<1>2. request[r] # Idle
  BY <1>1, Values
<1>3. /\ Types /\ RunsOK /\ RestOK /\ i <= used
      /\ i \notin past.contested => IdOK(i) /\ StepOK(request[r], rows[i], run[i].at, blobs, past.bodiless)
  BY <1>2, AtWork
<1>4. "mark" \in Places /\ Fits("mark", request[r].seen)
  BY DEF Places, Fits
<1>5. /\ RequestsOK' /\ \A s \in Requests \ {r} : request'[s] = request[s]
      /\ request'[r] # Idle /\ request'[r].at = "mark" /\ request'[r].id = i
  BY <1>1, <1>2, <1>3, <1>4, Goes
<1>6. y \in [at : RunPlaces, gen : Nat] /\ y.at = "forced"
  BY DEF RunPlaces
<1> HIDE DEF y
<1>7. RunsOK' /\ run'[i] = y /\ \A j \in Ids \ {i} : run'[j] = run[j]
  BY <1>1, <1>3, <1>6, RunWritten
<1>8. PendingOK(i)'
  BY <1>6, <1>7 DEF PendingOK
<1>9. ~Creating(request'[r])
  BY <1>5 DEF Creating
<1>10. StepOK(request'[r], rows[i], run'[i].at, blobs, past.bodiless)
  BY <1>5, <1>6, <1>7, <1>9 DEF StepOK
<1>11. Settled(i)'
  BY <1>6, <1>7 DEF Settled
<1>12. /\ count' \in [request : Nat, run : Nat, body : Nat, error : Nat, crash : Nat]
       /\ past' \in [owed : SUBSET Ids, displaced : SUBSET Keys, bodiless : SUBSET Ids, contested : SUBSET Ids]
  BY <1>1, <1>3 DEF RestOK
<1> QED
  BY <1>1, <1>2, <1>5, <1>7, <1>8, <1>9, <1>10, <1>11, <1>12, ClaimTouch

LEMMA RereadKeeps ==
  ASSUME OpsInv, NEW r \in Requests, NEW i \in Ids, request[r].id = i, Reread(r)
  PROVE  OpsInv' /\ Fresh
<1>1. /\ request[r].at = "reread" /\ Goto(r, "undo") /\ (Failing \/ UNCHANGED count)
      /\ rows' = rows /\ blobs' = blobs /\ run' = run /\ used' = used /\ past' = past
  BY DEF Reread
<1>2. request[r] # Idle
  BY <1>1, Values
<1>3. /\ Types /\ RowsOK /\ RunsOK /\ BlobsOK /\ RestOK /\ used \in Nat /\ count.body \in Nat /\ Works(r, i)
      /\ i \notin past.contested => IdOK(i) /\ StepOK(request[r], rows[i], run[i].at, blobs, past.bodiless)
  BY <1>2, AtWork
<1>4. /\ count' \in [request : Nat, run : Nat, body : Nat, error : Nat, crash : Nat]
      /\ count'.body = count.body
  BY <1>1, <1>3, CountBody
<1>5. "undo" \in Places /\ Fits("undo", request[r].seen)
  BY DEF Places, Fits
<1>6. /\ RequestsOK' /\ \A s \in Requests \ {r} : request'[s] = request[s]
      /\ request'[r] # Idle /\ request'[r].at = "undo" /\ request'[r].id = i
      /\ request'[r].body = request[r].body
  BY <1>1, <1>2, <1>3, <1>4, <1>5, Goes
<1>7. count'.body \in Nat /\ count.body <= count'.body /\ used' \in Nat /\ used <= used'
  BY <1>1, <1>3, <1>4
<1>8. RowsOK'
  BY <1>1, <1>3, <1>7, RowsStay
<1>9. RunsOK' /\ BlobsOK' /\ RestOK'
  BY <1>1, <1>3, <1>4 DEF RunsOK, BlobsOK, RestOK
<1>10. PendingOK(i)'
  BY <1>1, <1>6, PendingStays
<1>11. ~Creating(request'[r])
  BY <1>6 DEF Creating
<1>12. ASSUME i \notin past.contested
       PROVE  /\ StepOK(request'[r], rows'[i], run'[i].at, blobs', past'.bodiless)
              /\ Settled(i)' /\ Bodied(i)' /\ OwnBodies(i)'
  <2>1. IdOK(i) /\ StepOK(request[r], rows[i], run[i].at, blobs, past.bodiless)
    BY <1>3, <1>12
  <2>2. StepOK(request'[r], rows'[i], run'[i].at, blobs', past'.bodiless)
    BY <1>1, <1>6, <1>11, <2>1 DEF StepOK
  <2>3. Settled(i)' /\ Bodied(i)'
    BY <1>1, <2>1 DEF IdOK, Settled, Bodied, Stored
  <2>4. OwnBodies(i)'
    <3>1. InHand(request[r]) = {request[r].body}
      BY <1>1, <1>3, InHandIs
    <3>2. InHand(request'[r]) = {request[r].body}
      BY <1>6 DEF InHand
    <3>3. ASSUME NEW key, key = request[r].body
          PROVE  BodyOwned(i, key)'
      BY <1>6, <3>2, <3>3 DEF BodyOwned, Works
    <3>4. \A key : Stored(i) /\ rows[i].raw = key => BodyOwned(i, key)'
      BY <1>1 DEF BodyOwned, Stored
    <3> QED
      BY <1>1, <1>3, <2>1, <3>1, <3>3, <3>4, OwnedStay
  <2> QED
    BY <2>2, <2>3, <2>4
<1>13. Stored(i)' => Stored(i) /\ rows'[i].key = rows[i].key
  BY <1>1 DEF Stored
<1>14. OpsInv'
  BY <1>1, <1>2, <1>6, <1>8, <1>9, <1>10, <1>11, <1>12, <1>13, WorkTouch
<1> QED
  BY <1>1, <1>7, <1>14 DEF Fresh

LEMMA UndoKeeps ==
  ASSUME OpsInv, NEW r \in Requests, NEW i \in Ids, request[r].id = i, Undo(r),
         NEW own, own = {request[r].body} \ {NoKey}
  PROVE  OpsInv' /\ Fresh
<1>1. /\ request[r].at = "undo" /\ Done(r)
      /\ \/ blobs' = blobs \ own /\ count' = count /\ past' = past
         \/ Failing /\ past' = [past EXCEPT !.displaced = @ \cup own] /\ blobs' = blobs
      /\ rows' = rows /\ run' = run /\ used' = used
  BY DEF Undo
<1>2. request[r] # Idle
  BY <1>1, Values
<1>3. /\ Types /\ RowsOK /\ RunsOK /\ BlobsOK /\ RestOK /\ used \in Nat /\ count.body \in Nat /\ Works(r, i)
      /\ i \notin past.contested => IdOK(i) /\ StepOK(request[r], rows[i], run[i].at, blobs, past.bodiless)
  BY <1>2, AtWork
<1>4. /\ count' \in [request : Nat, run : Nat, body : Nat, error : Nat, crash : Nat]
      /\ count'.body = count.body
  BY <1>1, <1>3, CountBody
<1>5. count'.body \in Nat /\ count.body <= count'.body /\ used' \in Nat /\ used <= used'
  BY <1>1, <1>3, <1>4
<1>6. RequestsOK' /\ request'[r] = Idle /\ \A s \in Requests \ {r} : request'[s] = request[s]
  BY <1>1, <1>3, <1>5, Ends
<1>7. request[r].body \in Keys /\ (request[r].body[1] = "body" => request[r].body[2] = i)
  BY <1>2, <1>3, RequestIs
<1>8. /\ past' \in [owed : SUBSET Ids, displaced : SUBSET Keys, bodiless : SUBSET Ids, contested : SUBSET Ids]
      /\ past'.contested = past.contested /\ past'.owed = past.owed
      /\ past.displaced \subseteq past'.displaced /\ past'.bodiless = past.bodiless
      /\ blobs' = blobs \ own \/ own \subseteq past'.displaced
  BY <1>1, <1>3, <1>7 DEF RestOK
<1>9. blobs' \subseteq blobs /\ \A key \in blobs \ blobs' : key = request[r].body /\ key # NoKey
  BY <1>1
<1>10. RowsOK'
  BY <1>1, <1>3, <1>5, RowsStay
<1>11. RunsOK' /\ BlobsOK' /\ RestOK'
  BY <1>1, <1>3, <1>4, <1>8, <1>9 DEF RunsOK, BlobsOK, RestOK
<1>12. PendingOK(i)'
  BY <1>1, <1>6, <1>8, PendingStays
<1>13. \A key : key[1] = "body" /\ key[2] # i => (key \in blobs' <=> key \in blobs)
  BY <1>7, <1>9
<1>14. ASSUME i \notin past.contested
       PROVE  Settled(i)' /\ Bodied(i)' /\ OwnBodies(i)'
  <2>1. IdOK(i) /\ StepOK(request[r], rows[i], run[i].at, blobs, past.bodiless)
    BY <1>3, <1>14
  <2>2. Settled(i)'
    BY <1>1, <2>1 DEF IdOK, Settled, Stored
  <2>3. Bodied(i)'
    <3>1. rows[i] # NoRow =>
            rows[i].raw # request[r].body \/ request[r].body = NoKey \/ i \in past.bodiless
      BY <1>1, <2>1 DEF StepOK
    <3>2. rows[i] # NoRow => (rows[i].raw \in blobs => rows[i].raw \in blobs' \/ i \in past.bodiless)
      BY <1>9, <3>1
    <3> QED
      BY <1>1, <1>8, <2>1, <3>2 DEF IdOK, Bodied, Stored
  <2>4. OwnBodies(i)'
    <3>1. InHand(request[r]) = {request[r].body}
      BY <1>1, <1>3, InHandIs
    <3>2. ASSUME NEW key \in blobs', key = request[r].body, key[1] = "body"
          PROVE  BodyOwned(i, key)'
      <4>1. key \in own
        BY <3>2, Values
      <4>2. key \in past'.displaced
        BY <1>8, <3>2, <4>1
      <4> QED
        BY <4>2 DEF BodyOwned
    <3>3. \A key : Stored(i) /\ rows[i].raw = key => BodyOwned(i, key)'
      BY <1>1 DEF BodyOwned, Stored
    <3> QED
      BY <1>3, <1>8, <1>9, <2>1, <3>1, <3>2, <3>3, OwnedStay
  <2> QED
    BY <2>2, <2>3, <2>4
<1>15. Stored(i)' => Stored(i) /\ rows'[i].key = rows[i].key
  BY <1>1 DEF Stored
<1>16. OpsInv'
  BY <1>1, <1>2, <1>6, <1>8, <1>10, <1>11, <1>12, <1>13, <1>14, <1>15, WorkTouch
<1> QED
  BY <1>5, <1>9, <1>16 DEF Fresh

LEMMA ReprocessRowKeeps ==
  ASSUME OpsInv, NEW r \in Requests, NEW i \in Ids, request[r].id = i, ReprocessRow(r)
  PROVE  OpsInv' /\ Fresh
<1> DEFINE x == [rows[i] EXCEPT !.status = "pending", !.started = 0, !.raw = request[r].body, !.content = NoKey]
<1>1. /\ request[r].at = "reset" /\ blobs' = blobs /\ used' = used
      /\ \/ Reset(request[r]) /\ Goto(r, "submit") /\ run' = run /\ count' = count /\ past' = past
         \/ /\ Failing /\ Reset(request[r]) /\ Done(r)
            /\ past' = [past EXCEPT !.owed = @ \cup {i}]
            /\ run' = IF Forced(request[r]) THEN [run EXCEPT ![i] = NoRun] ELSE run
         \/ Refused(i) /\ Done(r) /\ GiveUp(request[r]) /\ rows' = rows
  BY DEF ReprocessRow
<1>2. request[r] # Idle
  BY <1>1, Values
<1>3. /\ Types /\ RowsOK /\ RunsOK /\ RequestsOK /\ BlobsOK /\ RestOK /\ used \in Nat /\ count.body \in Nat
      /\ i <= used /\ Works(r, i)
      /\ i \notin past.contested => IdOK(i) /\ StepOK(request[r], rows[i], run[i].at, blobs, past.bodiless)
  BY <1>2, AtWork
<1>4. /\ count' \in [request : Nat, run : Nat, body : Nat, error : Nat, crash : Nat]
      /\ count'.body = count.body
  BY <1>1, <1>3, CountBody DEF Refused
<1>5. count'.body \in Nat /\ count.body <= count'.body /\ used' \in Nat /\ used <= used'
  BY <1>1, <1>3, <1>4
<1>6. BusyOK(request[r], count.body)
  BY <1>2, <1>3 DEF RequestsOK
<1>7. InHand(request[r]) = {}
  BY <1>1, <1>3, InHandIs
<1>8. ASSUME Reset(request[r])
      PROVE  /\ RowsOK' /\ \A j \in Ids \ {i} : rows'[j] = rows[j]
             /\ Stored(i) /\ rows'[i] # NoRow /\ rows'[i].key = rows[i].key /\ rows'[i].kind = rows[i].kind
             /\ rows'[i].raw = request[r].body /\ rows'[i].status = "pending"
             /\ i \notin past.contested => Settled(i)' /\ OwnBodies(i)'
             /\ i \notin past.contested /\ past'.bodiless = past.bodiless => Bodied(i)'
             /\ i \notin past.contested => run[i].at \in {"none", "forced"}
  <2>1. Stored(i) /\ rows' = [rows EXCEPT ![i] = x]
    BY <1>8 DEF Reset
  <2>2. RowOK(i, rows[i], count.body) /\ RawOf(i, request[r].body, count.body)
    BY <1>3, <1>6, <2>1 DEF RowsOK, BusyOK
  <2>3. /\ x \in Rows /\ x.url = rows[i].url /\ x.key = rows[i].key /\ x.kind = rows[i].kind
        /\ x.raw = request[r].body /\ x.content = NoKey /\ x.status = "pending"
    <3>1. rows[i] \in Rows /\ request[r].body \in Keys /\ NoKey \in Keys /\ "pending" \in Statuses
      BY <2>2, Values DEF RowOK, RawOf, Statuses
    <3> QED
      BY <3>1 DEF Rows
  <2> HIDE DEF x
  <2>4. RowOK(i, x, count'.body) /\ i <= used'
    BY <1>1, <1>3, <1>4, <2>2, <2>3, Values DEF RowOK
  <2>5. RowsOK' /\ rows'[i] = x /\ \A j \in Ids \ {i} : rows'[j] = rows[j]
    BY <1>3, <1>5, <2>1, <2>4, RowWritten
  <2>6. x # NoRow
    BY <2>3, Values
  <2>7. Settled(i)'
    BY <2>3, <2>5 DEF Settled
  <2>8. ASSUME i \notin past.contested
        PROVE  OwnBodies(i)' /\ (past'.bodiless = past.bodiless => Bodied(i)') /\ run[i].at \in {"none", "forced"}
    <3>1. IdOK(i) /\ StepOK(request[r], rows[i], run[i].at, blobs, past.bodiless)
      BY <1>3, <2>8
    <3>2. request[r].body = (IF rows[i].kind = "markdown" THEN rows[i].raw ELSE NoKey)
          /\ run[i].at \in {"none", "forced"}
      BY <1>1, <2>1, <3>1 DEF StepOK, Stored
    <3>3. IF rows[i].kind = "markdown"
          THEN rows[i].raw[1] = "body" /\ (rows[i].raw \in blobs \/ i \in past.bodiless)
          ELSE rows[i].raw[1] \in {"raw", "none"}
      BY <2>1, <3>1 DEF IdOK, Bodied
    <3>4. past'.bodiless = past.bodiless => Bodied(i)'
      BY <1>1, <2>3, <2>5, <3>2, <3>3, Values DEF Bodied, Stored
    <3>5. ASSUME NEW key, key[1] = "body", Stored(i), rows[i].raw = key
          PROVE  BodyOwned(i, key)'
      <4>1. x.raw = key
        BY <2>3, <3>2, <3>3, <3>5
      <4> QED
        BY <2>5, <2>6, <4>1 DEF BodyOwned, Stored
    <3>6. past.displaced \subseteq past'.displaced
      BY <1>1, <1>3, <1>8, GaveUp DEF RestOK
    <3>7. OwnBodies(i)'
      BY <1>1, <1>3, <1>7, <3>1, <3>5, <3>6, OwnedStay
    <3> QED
      BY <3>2, <3>4, <3>7
  <2> QED
    BY <2>1, <2>3, <2>5, <2>6, <2>7, <2>8
<1>9. BlobsOK' /\ Fresh
  BY <1>1, <1>3, <1>5 DEF BlobsOK, Fresh
<1>10. CASE Reset(request[r]) /\ Goto(r, "submit") /\ run' = run /\ count' = count /\ past' = past
  <2>1. "submit" \in Places /\ Fits("submit", request[r].seen)
    BY DEF Places, Fits
  <2>2. /\ RequestsOK' /\ \A s \in Requests \ {r} : request'[s] = request[s]
        /\ request'[r] # Idle /\ request'[r].at = "submit" /\ request'[r].id = i
    BY <1>1, <1>2, <1>3, <1>4, <1>10, <2>1, Goes
  <2>3. ~Creating(request'[r])
    BY <2>2 DEF Creating
  <2>4. RunsOK' /\ RestOK'
    BY <1>1, <1>3, <1>10 DEF RunsOK, RestOK
  <2>5. PendingOK(i)'
    BY <2>2 DEF PendingOK
  <2>6. i \notin past.contested => StepOK(request'[r], rows'[i], run'[i].at, blobs', past'.bodiless)
    BY <1>8, <1>10, <2>2, <2>3 DEF StepOK
  <2>7. OpsInv'
    BY <1>1, <1>2, <1>8, <1>9, <1>10, <2>2, <2>3, <2>4, <2>5, <2>6, WorkTouch
  <2> QED
    BY <1>9, <2>7
<1>11. CASE /\ Failing /\ Reset(request[r]) /\ Done(r)
            /\ past' = [past EXCEPT !.owed = @ \cup {i}]
            /\ run' = IF Forced(request[r]) THEN [run EXCEPT ![i] = NoRun] ELSE run
  <2>1. RequestsOK' /\ request'[r] = Idle /\ \A s \in Requests \ {r} : request'[s] = request[s]
    BY <1>1, <1>3, <1>5, <1>11, Ends
  <2>2. RunsOK' /\ \A j \in Ids \ {i} : run'[j] = run[j]
    <3>1. CASE run' = [run EXCEPT ![i] = NoRun]
      BY <1>1, <1>3, <3>1, NewClaims, RunWritten
    <3>2. CASE run' = run
      BY <1>1, <1>3, <3>2 DEF RunsOK
    <3> QED
      BY <1>11, <3>1, <3>2
  <2>3. /\ past' \in [owed : SUBSET Ids, displaced : SUBSET Keys, bodiless : SUBSET Ids, contested : SUBSET Ids]
        /\ past'.owed = past.owed \cup {i} /\ past'.contested = past.contested
        /\ past'.displaced = past.displaced /\ past'.bodiless = past.bodiless
    BY <1>3, <1>11 DEF RestOK
  <2>4. RestOK'
    BY <1>1, <1>3, <1>4, <2>3 DEF RestOK
  <2>5. PendingOK(i)'
    BY <2>3 DEF PendingOK
  <2>6. OpsInv'
    BY <1>1, <1>2, <1>8, <1>9, <1>11, <2>1, <2>2, <2>3, <2>4, <2>5, WorkTouch
  <2> QED
    BY <1>9, <2>6
<1>12. CASE Refused(i) /\ Done(r) /\ GiveUp(request[r]) /\ rows' = rows
  <2>1. RequestsOK' /\ request'[r] = Idle /\ \A s \in Requests \ {r} : request'[s] = request[s]
    BY <1>1, <1>3, <1>5, <1>12, Ends
  <2>2. /\ RunsOK' /\ \A j \in Ids \ {i} : run'[j] = run[j]
        /\ past' \in [owed : SUBSET Ids, displaced : SUBSET Keys, bodiless : SUBSET Ids, contested : SUBSET Ids]
        /\ past'.contested = past.contested /\ past.owed \subseteq past'.owed
        /\ past'.displaced = past.displaced /\ past'.bodiless = past.bodiless
        /\ (run'[i] = run[i] /\ past' = past) \/ (run'[i].at = "none" /\ i \in past'.owed)
    BY <1>1, <1>3, <1>12, GaveUp
  <2>3. PendingOK(i)'
    <3>1. CASE run'[i] = run[i]
      BY <1>1, <1>12, <2>1, <2>2, <3>1, PendingStays
    <3>2. CASE i \in past'.owed
      BY <3>2 DEF PendingOK
    <3> QED
      BY <2>2, <3>1, <3>2
  <2>4. i \notin past.contested => Settled(i)'
    BY <1>3, <1>12, <2>2 DEF IdOK, Settled, Stored
  <2> QED
    BY <1>1, <1>2, <1>4, <1>12, <2>1, <2>2, <2>3, <2>4, ClaimTouch
<1> QED
  BY <1>1, <1>10, <1>11, <1>12

LEMMA UpdateImportKeeps ==
  ASSUME OpsInv, NEW r \in Requests, NEW i \in Ids, request[r].id = i, UpdateImport(r)
  PROVE  OpsInv' /\ Fresh
<1> DEFINE x == [rows[i] EXCEPT !.status = "pending", !.started = 0, !.kind = "markdown",
                                !.raw = request[r].body, !.content = NoKey]
<1>1. /\ request[r].at = "replace" /\ blobs' = blobs /\ run' = run /\ used' = used
      /\ \/ Replace(request[r]) /\ Goto(r, "delete old") /\ count' = count /\ past' = past
         \/ /\ Failing /\ Replace(request[r]) /\ Goto(r, "undo")
            /\ past' = [past EXCEPT !.owed = @ \cup {i}, !.bodiless = @ \cup {i},
                                    !.displaced = @ \cup {request[r].seen.raw}]
         \/ Refused(i) /\ Goto(r, "undo") /\ rows' = rows /\ past' = past
  BY DEF UpdateImport
<1>2. request[r] # Idle
  BY <1>1, Values
<1>3. /\ Types /\ RowsOK /\ RunsOK /\ RequestsOK /\ BlobsOK /\ RestOK /\ used \in Nat /\ count.body \in Nat
      /\ i <= used /\ Works(r, i)
      /\ i \notin past.contested => IdOK(i) /\ StepOK(request[r], rows[i], run[i].at, blobs, past.bodiless)
  BY <1>2, AtWork
<1>4. /\ count' \in [request : Nat, run : Nat, body : Nat, error : Nat, crash : Nat]
      /\ count'.body = count.body
  BY <1>1, <1>3, CountBody DEF Refused
<1>5. count'.body \in Nat /\ count.body <= count'.body /\ used' \in Nat /\ used <= used'
  <2>1. used' = used /\ used \in Nat /\ count.body \in Nat
    BY <1>1, <1>3
  <2> QED
    BY <1>4, <2>1
<1>6. /\ BusyOK(request[r], count.body) /\ request[r].seen # NoRow
      /\ RowOK(i, request[r].seen, count.body) /\ request[r].seen.raw \in Keys
  BY <1>1, <1>2, <1>3 DEF RequestsOK, BusyOK, Fits, RowOK, RawOf
<1>7. InHand(request[r]) = {request[r].body}
  BY <1>1, <1>3, InHandIs
<1>8. ASSUME i \notin past.contested
      PROVE  /\ Stored(i) => rows[i] = request[r].seen
             /\ run[i].at \in {"none", "forced"} /\ request[r].body # request[r].seen.raw
             /\ request[r].body[1] = "body" /\ (request[r].body \in blobs \/ i \in past.bodiless)
  BY <1>1, <1>3, <1>6, <1>8 DEF StepOK, Stored
<1>9. BlobsOK' /\ RunsOK' /\ Fresh
  BY <1>1, <1>3, <1>5 DEF BlobsOK, RunsOK, Fresh
<1>10. ASSUME NEW place \in {"delete old", "undo"}, Goto(r, place)
       PROVE  /\ RequestsOK' /\ \A s \in Requests \ {r} : request'[s] = request[s]
              /\ request'[r] # Idle /\ request'[r].at = place
              /\ request'[r].id = i /\ request'[r].body = request[r].body
              /\ request'[r].seen = request[r].seen /\ ~Creating(request'[r])
  <2>1. place \in Places /\ Fits(place, request[r].seen)
    BY <1>6 DEF Places, Fits
  <2>2. /\ RequestsOK' /\ \A s \in Requests \ {r} : request'[s] = request[s]
        /\ request'[r] # Idle /\ request'[r].at = place
        /\ request'[r].id = request[r].id /\ request'[r].body = request[r].body
        /\ request'[r].seen = request[r].seen
    BY <1>1, <1>2, <1>3, <1>4, <1>10, <2>1, Goes
  <2> QED
    BY <2>2 DEF Creating
<1>11. ASSUME Replace(request[r])
       PROVE  /\ RowsOK' /\ \A j \in Ids \ {i} : rows'[j] = rows[j]
              /\ Stored(i) /\ rows'[i] # NoRow /\ rows'[i].key = rows[i].key /\ rows'[i].kind = "markdown"
              /\ rows'[i].raw = request[r].body /\ rows'[i].status = "pending"
  <2>1. Stored(i) /\ rows' = [rows EXCEPT ![i] = x]
    BY <1>11 DEF Replace
  <2>2. RowOK(i, rows[i], count.body) /\ RawOf(i, request[r].body, count.body)
    BY <1>3, <1>6, <2>1 DEF RowsOK, BusyOK
  <2>3. /\ x \in Rows /\ x.url = rows[i].url /\ x.key = rows[i].key /\ x.kind = "markdown"
        /\ x.raw = request[r].body /\ x.content = NoKey /\ x.status = "pending"
    <3>1. /\ rows[i] \in Rows /\ request[r].body \in Keys /\ NoKey \in Keys
          /\ "pending" \in Statuses /\ "markdown" \in Kinds
      BY <2>2, Values DEF RowOK, RawOf, Statuses, Kinds
    <3> QED
      BY <3>1 DEF Rows
  <2> HIDE DEF x
  <2>4. RowOK(i, x, count'.body) /\ i <= used'
    BY <1>1, <1>3, <1>4, <2>2, <2>3, Values DEF RowOK
  <2>5. RowsOK' /\ rows'[i] = x /\ \A j \in Ids \ {i} : rows'[j] = rows[j]
    BY <1>3, <1>5, <2>1, <2>4, RowWritten
  <2> QED
    BY <2>1, <2>3, <2>5, Values
<1>12. ASSUME Replace(request[r])
       PROVE  Settled(i)' /\ \A key : key = request[r].body => BodyOwned(i, key)'
  <2>1. Settled(i)'
    BY <1>11, <1>12 DEF Settled
  <2>2. ASSUME NEW key, key = request[r].body
        PROVE  BodyOwned(i, key)'
    BY <1>11, <1>12, <2>2 DEF BodyOwned, Stored
  <2> QED
    BY <2>1, <2>2
<1>13. CASE Replace(request[r]) /\ Goto(r, "delete old") /\ count' = count /\ past' = past
  <2>1. /\ RequestsOK' /\ \A s \in Requests \ {r} : request'[s] = request[s]
        /\ request'[r] # Idle /\ request'[r].at = "delete old" /\ request'[r].id = i
        /\ request'[r].body = request[r].body /\ request'[r].seen = request[r].seen /\ ~Creating(request'[r])
    BY <1>10, <1>13
  <2>2. RestOK'
    BY <1>1, <1>3, <1>13 DEF RestOK
  <2>3. PendingOK(i)'
    BY <2>1 DEF PendingOK
  <2>4. ASSUME i \notin past.contested
        PROVE  /\ StepOK(request'[r], rows'[i], run'[i].at, blobs', past'.bodiless)
               /\ Bodied(i)' /\ OwnBodies(i)'
    <3>1. StepOK(request'[r], rows'[i], run'[i].at, blobs', past'.bodiless)
      BY <1>1, <1>8, <1>11, <1>13, <2>1, <2>4 DEF StepOK
    <3>2. Bodied(i)'
      BY <1>1, <1>8, <1>11, <1>13, <2>4 DEF Bodied, Stored
    <3>3. OwnBodies(i)'
      <4>1. InHand(request'[r]) = {request[r].seen.raw, request[r].seen.content}
        BY <2>1 DEF InHand
      <4>2. ASSUME NEW key, Stored(i), rows[i].raw = key
            PROVE  BodyOwned(i, key)'
        <5>1. key \in InHand(request'[r])
          BY <1>8, <2>4, <4>1, <4>2
        <5> QED
          BY <2>1, <5>1 DEF BodyOwned, Works
      <4> QED
        BY <1>1, <1>3, <1>7, <1>12, <1>13, <2>4, <4>2, OwnedStay
    <3> QED
      BY <3>1, <3>2, <3>3
  <2>5. OpsInv'
    BY <1>1, <1>2, <1>9, <1>11, <1>12, <1>13, <2>1, <2>2, <2>3, <2>4, WorkTouch
  <2> QED
    BY <1>9, <2>5
<1>14. CASE /\ Failing /\ Replace(request[r]) /\ Goto(r, "undo")
            /\ past' = [past EXCEPT !.owed = @ \cup {i}, !.bodiless = @ \cup {i},
                                    !.displaced = @ \cup {request[r].seen.raw}]
  <2>1. /\ RequestsOK' /\ \A s \in Requests \ {r} : request'[s] = request[s]
        /\ request'[r] # Idle /\ request'[r].at = "undo" /\ request'[r].id = i
        /\ request'[r].body = request[r].body /\ ~Creating(request'[r])
    BY <1>10, <1>14
  <2>2. /\ past' \in [owed : SUBSET Ids, displaced : SUBSET Keys, bodiless : SUBSET Ids, contested : SUBSET Ids]
        /\ past'.owed = past.owed \cup {i} /\ past'.contested = past.contested
        /\ past'.displaced = past.displaced \cup {request[r].seen.raw}
        /\ past'.bodiless = past.bodiless \cup {i}
    BY <1>3, <1>6, <1>14 DEF RestOK
  <2>3. RestOK'
    BY <1>1, <1>3, <1>4, <2>2 DEF RestOK
  <2>4. PendingOK(i)'
    BY <2>2 DEF PendingOK
  <2>5. ASSUME i \notin past.contested
        PROVE  /\ StepOK(request'[r], rows'[i], run'[i].at, blobs', past'.bodiless)
               /\ Bodied(i)' /\ OwnBodies(i)'
    <3>1. i \in past'.bodiless
      BY <2>2
    <3>2. StepOK(request'[r], rows'[i], run'[i].at, blobs', past'.bodiless)
      BY <1>8, <2>1, <2>5, <3>1 DEF StepOK
    <3>3. Bodied(i)'
      BY <1>8, <1>11, <1>14, <2>5, <3>1 DEF Bodied, Stored
    <3>4. OwnBodies(i)'
      <4>1. ASSUME NEW key, Stored(i), rows[i].raw = key
            PROVE  BodyOwned(i, key)'
        <5>1. key \in past'.displaced
          BY <1>8, <2>2, <2>5, <4>1
        <5> QED
          BY <5>1 DEF BodyOwned
      <4> QED
        BY <1>1, <1>3, <1>7, <1>12, <1>14, <2>2, <2>5, <4>1, OwnedStay, ZenonT(30)
    <3> QED
      BY <3>2, <3>3, <3>4
  <2>6. OpsInv'
    BY <1>1, <1>2, <1>9, <1>11, <1>12, <1>14, <2>1, <2>2, <2>3, <2>4, <2>5, WorkTouch
  <2> QED
    BY <1>9, <2>6
<1>15. CASE Refused(i) /\ Goto(r, "undo") /\ rows' = rows /\ past' = past
  <2>1. /\ RequestsOK' /\ \A s \in Requests \ {r} : request'[s] = request[s]
        /\ request'[r] # Idle /\ request'[r].at = "undo" /\ request'[r].id = i
        /\ request'[r].body = request[r].body /\ ~Creating(request'[r])
    BY <1>10, <1>15
  <2>2. RowsOK'
    BY <1>3, <1>5, <1>15, RowsStay
  <2>3. RestOK'
    BY <1>1, <1>3, <1>4, <1>15 DEF RestOK
  <2>4. PendingOK(i)'
    BY <1>1, <1>15, <2>1, PendingStays
  <2>5. ASSUME i \notin past.contested
        PROVE  /\ StepOK(request'[r], rows'[i], run'[i].at, blobs', past'.bodiless)
               /\ Settled(i)' /\ Bodied(i)' /\ OwnBodies(i)'
    <3>1. IdOK(i)
      BY <1>3, <2>5
    <3>2. StepOK(request'[r], rows'[i], run'[i].at, blobs', past'.bodiless)
      BY <1>8, <1>15, <2>1, <2>5 DEF StepOK, Stored
    <3>3. Settled(i)' /\ Bodied(i)'
      BY <1>1, <1>15, <3>1 DEF IdOK, Settled, Bodied, Stored
    <3>4. OwnBodies(i)'
      <4>1. InHand(request'[r]) = {request[r].body}
        BY <2>1 DEF InHand
      <4>2. ASSUME NEW key, key = request[r].body
            PROVE  BodyOwned(i, key)'
        BY <2>1, <4>1, <4>2 DEF BodyOwned, Works
      <4>3. \A key : Stored(i) /\ rows[i].raw = key => BodyOwned(i, key)'
        BY <1>15 DEF BodyOwned, Stored
      <4> QED
        BY <1>1, <1>3, <1>7, <1>15, <3>1, <4>2, <4>3, OwnedStay
    <3> QED
      BY <3>2, <3>3, <3>4
  <2>6. Stored(i)' => Stored(i) /\ rows'[i].key = rows[i].key
    BY <1>15 DEF Stored
  <2>7. OpsInv'
    BY <1>1, <1>2, <1>9, <1>15, <2>1, <2>2, <2>3, <2>4, <2>5, <2>6, WorkTouch
  <2> QED
    BY <1>9, <2>7
<1> QED
  BY <1>1, <1>13, <1>14, <1>15

LEMMA DeleteOldKeeps ==
  ASSUME OpsInv, NEW r \in Requests, NEW i \in Ids, request[r].id = i, DeleteOld(r)
  PROVE  OpsInv' /\ Fresh
<1> DEFINE old == {request[r].seen.raw, request[r].seen.content} \cap blobs
<1>1. /\ request[r].at = "delete old" /\ Goto(r, "submit")
      /\ rows' = rows /\ run' = run /\ used' = used
      /\ \/ blobs' = blobs \ old /\ count' = count /\ past' = past
         \/ /\ Failing
            /\ \E kept \in (SUBSET old) \ {{}} :
                 blobs' = blobs \ (old \ kept) /\ past' = [past EXCEPT !.displaced = @ \cup kept]
  BY DEF DeleteOld
<1>2. request[r] # Idle
  BY <1>1, Values
<1>3. /\ Types /\ RowsOK /\ RunsOK /\ RequestsOK /\ BlobsOK /\ RestOK /\ used \in Nat /\ count.body \in Nat
      /\ i <= used /\ Works(r, i)
      /\ i \notin past.contested => IdOK(i) /\ StepOK(request[r], rows[i], run[i].at, blobs, past.bodiless)
  BY <1>2, AtWork
<1>4. /\ count' \in [request : Nat, run : Nat, body : Nat, error : Nat, crash : Nat]
      /\ count'.body = count.body
  BY <1>1, <1>3, CountBody
<1>5. count'.body \in Nat /\ count.body <= count'.body /\ used' \in Nat /\ used <= used'
  <2>1. used' = used /\ used \in Nat /\ count.body \in Nat
    BY <1>1, <1>3
  <2> QED
    BY <1>4, <2>1
<1>6. /\ BusyOK(request[r], count.body) /\ request[r].seen # NoRow
      /\ RowOK(i, request[r].seen, count.body)
      /\ request[r].seen.raw \in Keys /\ request[r].seen.content \in Keys
      /\ request[r].seen.raw[1] = "body" => request[r].seen.raw[2] = i
      /\ request[r].seen.content[1] # "body"
  <2>1. BusyOK(request[r], count.body) /\ request[r].seen # NoRow
    BY <1>1, <1>2, <1>3 DEF RequestsOK, BusyOK, Fits
  <2>2. RowOK(i, request[r].seen, count.body)
    BY <2>1 DEF BusyOK
  <2> QED
    BY <2>1, <2>2 DEF RowOK, RawOf, Rows
<1>7. InHand(request[r]) = {request[r].seen.raw, request[r].seen.content}
  BY <1>1, <1>3, InHandIs
<1>8. /\ past' \in [owed : SUBSET Ids, displaced : SUBSET Keys, bodiless : SUBSET Ids, contested : SUBSET Ids]
      /\ past'.contested = past.contested /\ past'.owed = past.owed
      /\ past.displaced \subseteq past'.displaced /\ past'.bodiless = past.bodiless
      /\ blobs' \subseteq blobs /\ \A key \in old \cap blobs' : key \in past'.displaced
      /\ \A key \in blobs \ blobs' : key \in old
  <2>1. old \subseteq Keys
    BY <1>6
  <2>2. CASE blobs' = blobs \ old /\ count' = count /\ past' = past
    BY <1>3, <2>2 DEF RestOK
  <2>3. CASE \E kept \in (SUBSET old) \ {{}} :
               blobs' = blobs \ (old \ kept) /\ past' = [past EXCEPT !.displaced = @ \cup kept]
    <3>1. PICK kept \in (SUBSET old) \ {{}} :
                 blobs' = blobs \ (old \ kept) /\ past' = [past EXCEPT !.displaced = @ \cup kept]
      BY <2>3
    <3>2. kept \subseteq old
      OBVIOUS
    <3> HIDE DEF old
    <3>3. /\ past' \in [owed : SUBSET Ids, displaced : SUBSET Keys, bodiless : SUBSET Ids, contested : SUBSET Ids]
          /\ past'.contested = past.contested /\ past'.owed = past.owed
          /\ past'.displaced = past.displaced \cup kept /\ past'.bodiless = past.bodiless
      BY <1>3, <2>1, <3>1, <3>2 DEF RestOK
    <3> QED
      BY <3>1, <3>3
  <2> QED
    BY <1>1, <2>2, <2>3
<1>9. \A key \in blobs : key \in InHand(request[r]) => key \in old
  BY <1>7
<1>10. \A key \in old : key = request[r].seen.raw \/ key[1] # "body"
  BY <1>6
<1> HIDE DEF old
<1>11. "submit" \in Places /\ Fits("submit", request[r].seen)
  BY DEF Places, Fits
<1>12. /\ RequestsOK' /\ \A s \in Requests \ {r} : request'[s] = request[s]
       /\ request'[r] # Idle /\ request'[r].at = "submit" /\ request'[r].id = i
  BY <1>1, <1>2, <1>3, <1>4, <1>11, Goes
<1>13. ~Creating(request'[r])
  BY <1>12 DEF Creating
<1>14. RowsOK'
  BY <1>1, <1>3, <1>5, RowsStay
<1>15. RunsOK' /\ BlobsOK' /\ RestOK'
  BY <1>1, <1>3, <1>4, <1>8 DEF RunsOK, BlobsOK, RestOK
<1>16. PendingOK(i)'
  BY <1>12 DEF PendingOK
<1>17. \A key : key[1] = "body" /\ key[2] # i => (key \in blobs' <=> key \in blobs)
  BY <1>6, <1>8, <1>10
<1>18. ASSUME i \notin past.contested
       PROVE  /\ StepOK(request'[r], rows'[i], run'[i].at, blobs', past'.bodiless)
              /\ Settled(i)' /\ Bodied(i)' /\ OwnBodies(i)'
  <2>1. IdOK(i) /\ StepOK(request[r], rows[i], run[i].at, blobs, past.bodiless)
    BY <1>3, <1>18
  <2>2. /\ request[r].body # request[r].seen.raw /\ (rows[i] # NoRow => rows[i].raw = request[r].body)
        /\ run[i].at \in {"none", "forced"} /\ (rows[i] # NoRow => rows[i].status = "pending")
    BY <1>1, <2>1 DEF StepOK
  <2>3. StepOK(request'[r], rows'[i], run'[i].at, blobs', past'.bodiless)
    BY <1>1, <1>12, <1>13, <2>2 DEF StepOK
  <2>4. Settled(i)'
    BY <1>1, <2>1 DEF IdOK, Settled, Stored
  <2>5. Bodied(i)'
    <3>1. rows[i] # NoRow /\ rows[i].raw[1] = "body" /\ rows[i].raw \in blobs => rows[i].raw \in blobs'
      BY <1>8, <1>10, <2>2
    <3> QED
      BY <1>1, <1>8, <2>1, <3>1 DEF IdOK, Bodied, Stored
  <2>6. OwnBodies(i)'
    <3>1. ASSUME NEW key \in blobs', key \in InHand(request[r])
          PROVE  BodyOwned(i, key)'
      <4>1. key \in past'.displaced
        BY <1>8, <1>9, <3>1
      <4> QED
        BY <4>1 DEF BodyOwned
    <3>2. \A key : Stored(i) /\ rows[i].raw = key => BodyOwned(i, key)'
      BY <1>1 DEF BodyOwned, Stored
    <3> QED
      BY <1>3, <1>8, <2>1, <3>1, <3>2, OwnedStay
  <2> QED
    BY <2>3, <2>4, <2>5, <2>6
<1>19. Stored(i)' => Stored(i) /\ rows'[i].key = rows[i].key
  BY <1>1 DEF Stored
<1>20. OpsInv'
  BY <1>1, <1>2, <1>8, <1>12, <1>13, <1>14, <1>15, <1>16, <1>17, <1>18, <1>19, WorkTouch
<1>21. Fresh
  BY <1>5, <1>8 DEF Fresh
<1> QED
  BY <1>20, <1>21

LEMMA RequestStepKeeps ==
  ASSUME OpsInv, NEW r \in Requests, RequestStep(r)
  PROVE  OpsInv' /\ Fresh
<1>1. CASE \E op \in {"ingest", "import"}, url \in Urls : Submitted(r, op, url)
  BY <1>1, SubmittedKeeps
<1>2. CASE \E id \in Ids : ReprocessRead(r, id)
  BY <1>2, ReprocessReadKeeps
<1>3. CASE \/ PutBody(r) \/ SaveReading(r) \/ Reread(r) \/ Undo(r)
           \/ Mark(r) \/ ReprocessRow(r) \/ UpdateImport(r) \/ DeleteOld(r)
           \/ Submit(r) \/ ForceClaim(r)
  <2>1. request[r] # Idle
    BY <1>3, Values DEF PutBody, SaveReading, Reread, Undo, Mark, ReprocessRow, UpdateImport, DeleteOld, Submit, ForceClaim
  <2>2. PICK i \in Ids : request[r].id = i
    BY <2>1, AtWork
  <2>3. CASE PutBody(r)
    <3>1. PICK key : key = BodyKey(i, count.body + 1)
      OBVIOUS
    <3> QED
      BY <2>2, <2>3, <3>1, PutBodyKeeps
  <2>4. CASE Undo(r)
    <3>1. PICK own : own = {request[r].body} \ {NoKey}
      OBVIOUS
    <3> QED
      BY <2>2, <2>4, <3>1, UndoKeeps
  <2>5. CASE Mark(r)
    <3>1. PICK body : body = IF rows[i].kind = "markdown" THEN rows[i].raw ELSE NoKey
      OBVIOUS
    <3> QED
      BY <2>2, <2>5, <3>1, MarkKeeps
  <2>6. CASE SaveReading(r) \/ Reread(r) \/ ReprocessRow(r) \/ UpdateImport(r)
    BY <2>2, <2>6, SaveReadingKeeps, RereadKeeps, ReprocessRowKeeps, UpdateImportKeeps
  <2>7. CASE DeleteOld(r) \/ Submit(r) \/ ForceClaim(r)
    BY <2>2, <2>7, DeleteOldKeeps, SubmitKeeps, ForceClaimKeeps
  <2> QED
    BY <1>3, <2>3, <2>4, <2>5, <2>6, <2>7
<1> QED
  BY <1>1, <1>2, <1>3 DEF RequestStep

LEMMA OpsKeep ==
  ASSUME OpsInv, OpsNext
  PROVE  OpsInv' /\ Fresh
BY RestartKeeps, RequestStepKeeps, RunStepKeeps DEF OpsNext

-----------------------------------------------------------------------------
(* The commands *)

LEMMA Least ==
  ASSUME NEW S, S \subseteq Nat, S # {}
  PROVE  \E x \in S : \A y \in S : x <= y
<1> DEFINE R == OpToRel(<, Nat)
<1>1. IsWellFoundedOn(R, Nat)
  BY NatLessThanWellFounded
<1>2. \A x, y \in Nat : y < x => <<y, x>> \in R
  BY DEF OpToRel
<1> HIDE DEF R
<1>3. PICK x \in S : \A y \in S : ~(<<y, x>> \in R)
  BY <1>1, WFMin
<1>4. \A y \in S : ~(y < x)
  BY <1>2, <1>3
<1> QED
  BY <1>4

\* A step of the requests or the runs leaves a command what it holds.
LEMMA CommandStays ==
  ASSUME IInv, Fresh, count'.body \in Nat, ctl' = ctl, ctl.at \notin {"check", "blobs", "vectors", "reported"}
  PROVE  CtlOK'
<1>1. count.body \in Nat /\ count.body <= count'.body
  BY Bounds DEF IInv, OpsInv, Types, Fresh
<1>2. CASE ctl = NotStarted \/ ctl = Finished \/ ctl \in [at : {"recover"}, todo : SUBSET Ids]
  BY <1>2 DEF CtlOK
<1>3. \A todo : Todo(todo, count.body) => Todo(todo, count'.body)
  BY <1>1, RowMonotone DEF Todo
<1>4. CASE ctl \in [at : {"drop"}, todo : SUBSET (Ids \X Rows)] /\ Todo(ctl.todo, count.body)
  BY <1>3, <1>4 DEF CtlOK
<1>5. CASE Dropping
  <2>1. /\ ctl \in [at : {"raw", "content", "vector", "row"}, id : Ids, row : Rows, todo : SUBSET (Ids \X Rows)]
        /\ Todo(ctl.todo, count.body) /\ RowOK(ctl.id, ctl.row, count.body)
        /\ ctl.at # "raw" /\ ctl.row.raw[1] = "body" => ctl.row.raw \notin blobs
    BY <1>5 DEF Dropping
  <2>2. RowOK(ctl.id, ctl.row, count'.body)
    BY <1>1, <2>1, RowMonotone
  <2>3. ctl.row.raw[1] = "body" => ctl.row.raw[3] <= count.body /\ ctl.row.raw[3] \in Nat
    BY <2>1 DEF RowOK, RawOf, Keys
  <2>4. ctl.at # "raw" /\ ctl.row.raw[1] = "body" => ctl.row.raw \notin blobs'
    BY <1>1, <2>1, <2>3 DEF Fresh
  <2>5. Dropping'
    BY <1>3, <2>1, <2>2, <2>4 DEF Dropping
  <2> QED
    BY <2>5 DEF CtlOK
<1>6. CASE AuditOK(ctl, Owned, Orphans, Missing)
  BY <1>6 DEF AuditOK, Audits
<1> QED
  BY <1>2, <1>4, <1>5, <1>6 DEF IInv, CtlOK

\* What an audit has seen ever since is cut down with every step beside it.
LEMMA WatchKeeps ==
  ASSUME AuditOK(ctl, Owned, Orphans, Missing), ctl.at \in {"check", "blobs", "vectors"}, Watch
  PROVE  AuditOK(ctl, Owned, Orphans, Missing)'
<1>1. ctl \in Audits
  BY DEF AuditOK
<1>2. /\ ctl' \in Audits /\ ctl'.at = ctl.at /\ ctl'.rows = ctl.rows /\ ctl'.missingBlobs = ctl.missingBlobs
      /\ ctl'.orphaned = ctl.orphaned /\ ctl'.owned = ctl.owned \cap Owned'
      /\ ctl'.orphans = ctl.orphans \cap Orphans' /\ ctl'.missing = ctl.missing \cap Missing'
  <2> DEFINE a == Owned'
             b == Orphans'
             c == Missing'
  <2>1. ctl' = [ctl EXCEPT !.owned = @ \cap a, !.orphans = @ \cap b, !.missing = @ \cap c]
    BY DEF Watch
  <2> HIDE DEF a, b, c
  <2>2. /\ ctl' \in Audits /\ ctl'.at = ctl.at /\ ctl'.rows = ctl.rows /\ ctl'.missingBlobs = ctl.missingBlobs
        /\ ctl'.orphaned = ctl.orphaned /\ ctl'.owned = ctl.owned \cap a
        /\ ctl'.orphans = ctl.orphans \cap b /\ ctl'.missing = ctl.missing \cap c
    BY <1>1, <2>1 DEF Audits
  <2> QED
    BY <2>2 DEF a, b, c
<1> DEFINE R == Referenced(ctl.rows)
           F == RefsOf(ctl.rows)
<1>3. Referenced(ctl'.rows) = R /\ RefsOf(ctl'.rows) = F
  BY <1>2
<1>4. /\ ctl.owned \subseteq R /\ ctl.orphans \cap R = {} /\ ctl.missing \subseteq F
      /\ ctl.at # "check" => ctl.missing \subseteq ctl.missingBlobs /\ ctl.missingBlobs \cap ctl.owned = {}
      /\ ctl.at \in {"vectors", "reported"} => ctl.orphaned \cap R = {}
      /\ ctl.at = "vectors" => \A x \in ctl.orphans : x \in ctl.orphaned \/ x[1] = "vector"
  BY DEF AuditOK
<1> HIDE DEF R, F
<1> SUFFICES /\ ctl' \in Audits
             /\ ctl'.owned \subseteq Owned' /\ ctl'.owned \subseteq R
             /\ ctl'.orphans \subseteq Orphans' /\ ctl'.orphans \cap R = {}
             /\ ctl'.missing \subseteq Missing' /\ ctl'.missing \subseteq F
             /\ ctl'.at # "check" => ctl'.missing \subseteq ctl'.missingBlobs /\ ctl'.missingBlobs \cap ctl'.owned = {}
             /\ ctl'.at \in {"vectors", "reported"} => ctl'.orphaned \cap R = {}
             /\ ctl'.at = "vectors" => \A x \in ctl'.orphans : x \in ctl'.orphaned \/ x[1] = "vector"
             /\ ctl'.at = "reported" => ctl'.orphans \subseteq ctl'.orphaned
  BY <1>3 DEF AuditOK
<1> QED
  BY <1>2, <1>4

\* Which command it is, and what it holds.
LEMMA CtlAt ==
  ASSUME CtlOK
  PROVE  /\ ctl.at = "drop" => ctl \in [at : {"drop"}, todo : SUBSET (Ids \X Rows)] /\ Todo(ctl.todo, count.body)
         /\ ctl.at \in {"raw", "content", "vector", "row"} => Dropping
         /\ ctl.at = "recover" => ctl \in [at : {"recover"}, todo : SUBSET Ids]
         /\ ctl.at \in {"check", "blobs", "vectors", "reported"} => AuditOK(ctl, Owned, Orphans, Missing)
<1>1. NotStarted.at = "off" /\ Finished.at = "done"
  BY DEF NotStarted, Finished
<1>2. ctl \in [at : {"drop"}, todo : SUBSET (Ids \X Rows)] => ctl.at = "drop"
  OBVIOUS
<1>3. Dropping => ctl.at \in {"raw", "content", "vector", "row"}
  BY DEF Dropping
<1>4. ctl \in [at : {"recover"}, todo : SUBSET Ids] => ctl.at = "recover"
  OBVIOUS
<1>5. AuditOK(ctl, Owned, Orphans, Missing) => ctl.at \in {"check", "blobs", "vectors", "reported"}
  BY DEF AuditOK, Audits
<1> QED
  BY <1>1, <1>2, <1>3, <1>4, <1>5 DEF CtlOK

\* A drop works beside the requests, and deletes blobs only.
LEMMA DropTypes ==
  ASSUME Types, rows' = rows, UNCHANGED <<run, request, used>>, blobs' \subseteq blobs,
         UNCHANGED count \/ Failing,
         past' \in [owed : SUBSET Ids, displaced : SUBSET Keys, bodiless : SUBSET Ids, contested : SUBSET Ids],
         past'.contested = past.contested
  PROVE  Types' /\ count'.body = count.body
<1>1. /\ count' \in [request : Nat, run : Nat, body : Nat, error : Nat, crash : Nat]
      /\ count'.body = count.body /\ count.body \in Nat
  BY CountBody DEF Types
<1>2. used \in Nat /\ used' = used
  BY Bounds DEF Types
<1>3. used' \in Nat /\ used <= used' /\ count'.body \in Nat /\ count.body <= count'.body
  BY <1>1, <1>2
<1>4. RowsOK' /\ RequestsOK'
  BY <1>1, <1>2, <1>3, RowsStay, RequestsStay DEF Types
<1>5. RunsOK' /\ BlobsOK' /\ RestOK'
  BY <1>1, <1>2 DEF Types, RunsOK, BlobsOK, RestOK
<1> QED
  BY <1>1, <1>4, <1>5 DEF Types

LEMMA CountTouch ==
  ASSUME OpsInv, UNCHANGED <<rows, blobs, run, request, used, past>>, UNCHANGED count \/ Failing
  PROVE  OpsInv' /\ count'.body = count.body
<1>1. Types' /\ count'.body = count.body
  BY DropTypes DEF OpsInv, Types, RestOK
<1>2. Uncontested'
  BY DEF OpsInv, Uncontested, Newborn, IdOK, Sole, Steps, Settled, Bodied, OwnBodies, BodyOwned, Works, Stored
<1>3. OneKeyOneRow' /\ PendingIsSubmitted'
  BY DEF OpsInv, OneKeyOneRow, PendingIsSubmitted, Stored
<1> QED
  BY <1>1, <1>2, <1>3 DEF OpsInv

LEMMA DropBlobKeeps ==
  ASSUME OpsInv, Dropping, DropBlob, NEW i \in Ids, ctl.id = i
  PROVE  OpsInv' /\ count'.body = count.body /\ blobs' \subseteq blobs
<1> DEFINE gone == ctl.row[ctl.at]
<1>1. /\ blobs' \subseteq blobs /\ \A key \in blobs \ blobs' : key = gone
      /\ past' = [past EXCEPT !.bodiless = @ \cup {i}]
      /\ rows' = rows /\ run' = run /\ request' = request /\ used' = used
      /\ UNCHANGED count \/ Failing
  BY DEF DropBlob, Onward
<1>2. gone[1] = "body" => gone[2] = i
  <2>1. RowOK(i, ctl.row, count.body) /\ ctl.at \in {"raw", "content"}
    BY DEF Dropping, DropBlob
  <2> QED
    BY <2>1 DEF RowOK, RawOf, Rows
<1>3. /\ past' \in [owed : SUBSET Ids, displaced : SUBSET Keys, bodiless : SUBSET Ids, contested : SUBSET Ids]
      /\ past'.contested = past.contested /\ past'.owed = past.owed /\ past'.displaced = past.displaced
      /\ past'.bodiless = past.bodiless \cup {i}
  BY <1>1 DEF OpsInv, Types, RestOK
<1>4. Types' /\ count'.body = count.body
  BY <1>1, <1>3, DropTypes DEF OpsInv
<1> HIDE DEF gone
<1>5. Elsewhere(i)
  BY <1>1, <1>2, <1>3 DEF Elsewhere
<1>6. PendingOK(i)'
  BY <1>1, <1>3, ZenonT(30) DEF OpsInv, PendingIsSubmitted, PendingOK
<1>7. ASSUME i \notin past.contested
      PROVE  Steps(i)' /\ Settled(i)' /\ Bodied(i)' /\ OwnBodies(i)'
  <2>1. IdOK(i)
    BY <1>7 DEF OpsInv, Uncontested
  <2>2. Steps(i)'
    <3> SUFFICES ASSUME NEW r \in Requests, Works(r, i)
                 PROVE  StepOK(request[r], rows[i], run[i].at, blobs', past'.bodiless)
      BY <1>1 DEF Steps, Works
    <3>1. StepOK(request[r], rows[i], run[i].at, blobs, past.bodiless) /\ request[r].id \in past'.bodiless
      BY <1>3, <2>1 DEF IdOK, Steps, Works
    <3> QED
      BY <3>1 DEF StepOK
  <2>3. Settled(i)'
    BY <1>1, <2>1 DEF IdOK, Settled, Stored
  <2>4. Bodied(i)'
    BY <1>1, <1>3, <2>1 DEF IdOK, Bodied, Stored
  <2>5. OwnBodies(i)'
    BY <1>1, <1>3, <2>1 DEF IdOK, OwnBodies, BodyOwned, Works, Stored
  <2> QED
    BY <2>2, <2>3, <2>4, <2>5
<1>8. Stored(i)' => Stored(i) /\ rows'[i].key = rows[i].key
  BY <1>1 DEF Stored
<1>9. OpsInv'
  BY <1>4, <1>5, <1>6, <1>7, <1>8, Touch
<1> QED
  BY <1>1, <1>4, <1>9

\* A row refers to blobs.
LEMMA RefsAre ==
  ASSUME NEW row, row = NoRow \/ (row \in Rows /\ row.content[1] # "body")
  PROVE  /\ BlobRefs(row) \subseteq Keys
         /\ \A key \in BlobRefs(row) : key[1] = "body" => row # NoRow /\ key = row.raw
BY DEF BlobRefs, Rows

LEMMA DropRowKeeps ==
  ASSUME OpsInv, Dropping, DropRow, NEW i \in Ids, ctl.id = i
  PROVE  OpsInv' /\ count'.body = count.body /\ blobs' = blobs
<1> DEFINE left == BlobRefs(rows[i]) \ BlobRefs(ctl.row)
<1>1. /\ UNCHANGED count \/ Failing
      /\ blobs' = blobs /\ run' = run /\ request' = request /\ used' = used
      /\ \/ rows' = [rows EXCEPT ![i] = NoRow] /\ past' = [past EXCEPT !.displaced = @ \cup left]
         \/ rows' = rows /\ past' = past
  BY DEF DropRow
<1>2. CASE rows' = rows /\ past' = past
  BY <1>1, <1>2, CountTouch
<1>3. CASE rows' = [rows EXCEPT ![i] = NoRow] /\ past' = [past EXCEPT !.displaced = @ \cup left]
  <2>1. rows[i] = NoRow \/ RowOK(i, rows[i], count.body)
    BY DEF OpsInv, Types, RowsOK, Stored
  <2>2. ctl.row \in Rows /\ ctl.row.content[1] # "body" /\ (ctl.row.raw[1] = "body" => ctl.row.raw \notin blobs)
    BY DEF Dropping, DropRow, RowOK
  <2>3. /\ left \subseteq Keys
        /\ \A key \in blobs : key[1] = "body" /\ rows[i] # NoRow /\ key = rows[i].raw => key \in left
    <3>1. BlobRefs(rows[i]) \subseteq Keys
      BY <2>1, RefsAre DEF RowOK
    <3>2. \A key \in BlobRefs(ctl.row) : key[1] = "body" => key \notin blobs
      BY <2>2, RefsAre
    <3>3. \A key : key[1] = "body" /\ rows[i] # NoRow /\ key = rows[i].raw => key \in BlobRefs(rows[i])
      BY Values DEF BlobRefs
    <3> QED
      BY <3>1, <3>2, <3>3
  <2> HIDE DEF left
  <2>4. /\ past' \in [owed : SUBSET Ids, displaced : SUBSET Keys, bodiless : SUBSET Ids, contested : SUBSET Ids]
        /\ past'.contested = past.contested /\ past'.owed = past.owed
        /\ past'.displaced = past.displaced \cup left /\ past'.bodiless = past.bodiless
    BY <1>3, <2>3 DEF OpsInv, Types, RestOK
  <2>5. /\ count' \in [request : Nat, run : Nat, body : Nat, error : Nat, crash : Nat]
        /\ count'.body = count.body /\ count.body \in Nat
    BY <1>1, CountBody DEF OpsInv, Types
  <2>6. used \in Nat /\ used' = used
    BY <1>1, Bounds DEF OpsInv, Types
  <2>7. used' \in Nat /\ used <= used' /\ count'.body \in Nat /\ count.body <= count'.body
    BY <2>5, <2>6
  <2>8. RowsOK' /\ rows'[i] = NoRow /\ \A j \in Ids \ {i} : rows'[j] = rows[j]
    BY <1>3, <2>5, <2>6, <2>7, RowWritten DEF OpsInv, Types
  <2>9. RequestsOK'
    BY <1>1, <2>5, <2>6, <2>7, RequestsStay DEF OpsInv, Types
  <2>10. RunsOK' /\ BlobsOK' /\ RestOK'
    BY <1>1, <2>4, <2>5, <2>6 DEF OpsInv, Types, RunsOK, BlobsOK, RestOK
  <2>11. Types'
    BY <2>8, <2>9, <2>10 DEF Types
  <2>12. Elsewhere(i)
    BY <1>1, <2>4, <2>8 DEF Elsewhere
  <2>13. PendingOK(i)' /\ ~Stored(i)'
    BY <2>8, Values DEF PendingOK, Stored
  <2>14. ASSUME i \notin past.contested
         PROVE  Steps(i)' /\ Settled(i)' /\ Bodied(i)' /\ OwnBodies(i)'
    <3>1. IdOK(i)
      BY <2>14 DEF OpsInv, Uncontested
    <3>2. Steps(i)'
      <4> SUFFICES ASSUME NEW r \in Requests, Works(r, i)
                   PROVE  StepOK(request[r], NoRow, run[i].at, blobs, past.bodiless)
        BY <1>1, <2>4, <2>8 DEF Steps, Works
      <4>1. StepOK(request[r], rows[i], run[i].at, blobs, past.bodiless)
        BY <3>1 DEF IdOK, Steps
      <4> QED
        BY <4>1 DEF StepOK
    <3>3. Settled(i)' /\ Bodied(i)'
      BY <2>13 DEF Settled, Bodied
    <3>4. OwnBodies(i)'
      <4> SUFFICES ASSUME NEW key \in blobs, key[1] = "body", key[2] = i
                   PROVE  BodyOwned(i, key)'
        BY <1>1 DEF OwnBodies
      <4>1. BodyOwned(i, key)
        BY <3>1 DEF IdOK, OwnBodies
      <4>2. CASE Stored(i) /\ rows[i].raw = key
        BY <2>3, <2>4, <4>2 DEF BodyOwned, Stored
      <4>3. CASE key \in past.displaced \/ \E r \in Requests : Works(r, i) /\ key \in InHand(request[r])
        BY <1>1, <2>4, <4>3 DEF BodyOwned, Works
      <4> QED
        BY <4>1, <4>2, <4>3 DEF BodyOwned
    <3> QED
      BY <3>2, <3>3, <3>4
  <2>15. OpsInv'
    BY <2>11, <2>12, <2>13, <2>14, Touch
  <2> QED
    BY <1>1, <2>5, <2>15
<1> QED
  BY <1>1, <1>2, <1>3

\* What a drop holds stays right as long as no body is uploaded.
LEMMA BackToDrop ==
  ASSUME NEW todo \in SUBSET (Ids \X Rows), Todo(todo, count.body), count'.body = count.body,
         ctl' = [at |-> "drop", todo |-> todo]
  PROVE  CtlOK'
BY DEF CtlOK

LEMMA DropReadHolds ==
  ASSUME IInv, DropRead
  PROVE  CtlOK'
<1>1. PICK ids \in SUBSET Ids :
        ctl' = IF \A id \in ids : Stored(id)
               THEN [at |-> "drop", todo |-> {<<id, rows[id]>> : id \in ids}]
               ELSE Finished
  BY DEF DropRead
<1>2. CASE ctl' = Finished
  BY <1>2 DEF CtlOK
<1>3. CASE \A id \in ids : Stored(id)
  <2> DEFINE todo == {<<id, rows[id]>> : id \in ids}
  <2>1. \A id \in ids : id \in Ids /\ rows[id] \in Rows /\ RowOK(id, rows[id], count.body)
    BY <1>3 DEF IInv, OpsInv, Types, RowsOK, RowOK
  <2>2. todo \in SUBSET (Ids \X Rows) /\ Todo(todo, count.body)
    BY <2>1 DEF Todo
  <2>3. count'.body = count.body
    BY DEF DropRead, opsVars
  <2>4. ctl' = [at |-> "drop", todo |-> todo]
    BY <1>1, <1>3
  <2> HIDE DEF todo
  <2> QED
    BY <2>2, <2>3, <2>4, BackToDrop
<1> QED
  BY <1>1, <1>2, <1>3

LEMMA DropNextHolds ==
  ASSUME IInv, DropNext
  PROVE  CtlOK'
<1>1. ctl \in [at : {"drop"}, todo : SUBSET (Ids \X Rows)] /\ Todo(ctl.todo, count.body)
  BY CtlAt DEF IInv, DropNext
<1>2. CASE ctl.todo = {}
  BY <1>2 DEF DropNext, CtlOK
<1>3. CASE ctl.todo # {}
  <2> DEFINE first(t) == \A s \in ctl.todo : t[1] <= s[1]
             t == CHOOSE t \in ctl.todo : first(t)
  <2>1. t \in ctl.todo
    <3>1. {s[1] : s \in ctl.todo} \subseteq Nat /\ {s[1] : s \in ctl.todo} # {}
      BY <1>1, <1>3 DEF Ids
    <3>2. PICK x \in {s[1] : s \in ctl.todo} : \A y \in {s[1] : s \in ctl.todo} : x <= y
      BY <3>1, Least
    <3>3. PICK s \in ctl.todo : x = s[1]
      BY <3>2
    <3>4. first(s)
      BY <3>2, <3>3
    <3> QED
      BY <3>4
  <2>2. ctl' = [at |-> "raw", id |-> t[1], row |-> t[2], todo |-> ctl.todo \ {t}]
    BY <1>3 DEF DropNext
  <2> HIDE DEF t
  <2>3. t[1] \in Ids /\ t[2] \in Rows /\ RowOK(t[1], t[2], count.body)
    BY <1>1, <2>1 DEF Todo
  <2>4. ctl.todo \ {t} \in SUBSET (Ids \X Rows) /\ Todo(ctl.todo \ {t}, count.body)
    BY <1>1 DEF Todo
  <2>5. count'.body = count.body
    BY DEF DropNext, opsVars
  <2>6. Dropping'
    BY <2>2, <2>3, <2>4, <2>5 DEF Dropping
  <2> QED
    BY <2>6 DEF CtlOK
<1> QED
  BY <1>2, <1>3

LEMMA DropHolds ==
  ASSUME Dropping, count'.body = count.body, blobs' \subseteq blobs,
         NEW next \in {"content", "vector", "row"}, Onward(next),
         ctl' = [ctl EXCEPT !.at = next] /\ ctl.row.raw[1] = "body" => ctl.row.raw \notin blobs'
  PROVE  CtlOK'
<1>1. /\ ctl \in [at : {"raw", "content", "vector", "row"}, id : Ids, row : Rows, todo : SUBSET (Ids \X Rows)]
      /\ Todo(ctl.todo, count.body) /\ RowOK(ctl.id, ctl.row, count.body)
  BY DEF Dropping
<1>2. CASE ctl' = [at |-> "drop", todo |-> ctl.todo]
  BY <1>1, <1>2, BackToDrop
<1>3. CASE ctl' = [ctl EXCEPT !.at = next]
  <2>1. /\ ctl' \in [at : {"raw", "content", "vector", "row"}, id : Ids, row : Rows, todo : SUBSET (Ids \X Rows)]
        /\ ctl'.id = ctl.id /\ ctl'.row = ctl.row /\ ctl'.todo = ctl.todo
    BY <1>1, <1>3
  <2>2. Dropping'
    BY <1>1, <1>3, <2>1 DEF Dropping
  <2> QED
    BY <2>2 DEF CtlOK
<1> QED
  BY <1>2, <1>3 DEF Onward

LEMMA DropBlobHolds ==
  ASSUME IInv, DropBlob
  PROVE  OpsInv' /\ CtlOK'
<1>1. Dropping /\ ctl.at \in {"raw", "content"}
  BY CtlAt DEF IInv, DropBlob
<1>2. PICK i \in Ids : ctl.id = i
  BY <1>1 DEF Dropping
<1>3. OpsInv' /\ count'.body = count.body /\ blobs' \subseteq blobs
  BY <1>1, <1>2, DropBlobKeeps DEF IInv
<1>4. PICK next \in {"content", "vector", "row"} : Onward(next)
  BY DEF DropBlob
<1>5. ASSUME ctl' = [ctl EXCEPT !.at = next], ctl.row.raw[1] = "body"
      PROVE  ctl.row.raw \notin blobs'
  <2>1. ctl'.at = next
    BY <1>1, <1>5 DEF Dropping
  <2>2. blobs' = blobs \ {ctl.row[ctl.at]}
    BY <2>1 DEF DropBlob
  <2>3. ctl.at = "raw" \/ ctl.row.raw \notin blobs
    BY <1>1, <1>5 DEF Dropping
  <2> QED
    BY <2>2, <2>3
<1> QED
  BY <1>1, <1>3, <1>4, <1>5, DropHolds

LEMMA DropVectorHolds ==
  ASSUME IInv, DropVector
  PROVE  OpsInv' /\ CtlOK'
<1>1. Dropping /\ ctl.at = "vector" /\ blobs' = blobs
  BY CtlAt DEF IInv, DropVector
<1>2. OpsInv' /\ count'.body = count.body
  BY CountTouch DEF IInv, DropVector, Onward
<1>3. ctl.row.raw[1] = "body" => ctl.row.raw \notin blobs'
  BY <1>1 DEF Dropping
<1> QED
  BY <1>1, <1>2, <1>3, DropHolds DEF DropVector

LEMMA DropRowHolds ==
  ASSUME IInv, DropRow
  PROVE  OpsInv' /\ CtlOK'
<1>1. Dropping
  BY CtlAt DEF IInv, DropRow
<1>2. PICK i \in Ids : ctl.id = i
  BY <1>1 DEF Dropping
<1>3. OpsInv' /\ count'.body = count.body
  BY <1>1, <1>2, DropRowKeeps DEF IInv
<1> QED
  BY <1>1, <1>3, BackToDrop DEF DropRow, Dropping

-----------------------------------------------------------------------------
(* The audit and the recovery *)

\* What is there, and what is referred to.
LEMMA ArtifactsAre ==
  ASSUME BlobsOK, vectors \subseteq Ids
  PROVE  /\ Artifacts \subseteq Refs /\ \A x \in blobs : x[1] # "vector"
         /\ \A x \in Artifacts : x \in blobs \/ (x[1] = "vector" /\ x \in {VectorKey(id) : id \in vectors})
<1>1. \A x \in blobs : x \in Refs /\ x[1] # "vector"
  BY DEF BlobsOK, Refs, Ids
<1>2. \A id \in vectors : VectorKey(id) \in Refs /\ VectorKey(id)[1] = "vector"
  BY DEF VectorKey, Refs, Ids
<1> QED
  BY <1>1, <1>2 DEF Artifacts

LEMMA RowRefs ==
  ASSUME NEW theRows \in [Ids -> Rows \cup {NoRow}]
  PROVE  /\ RefsOf(theRows) \subseteq Refs /\ \A x \in RefsOf(theRows) : x[1] # "vector"
         /\ RefsOf(theRows) \subseteq Referenced(theRows)
<1>1. \A id \in Ids : BlobRefs(theRows[id]) \subseteq Keys
  BY DEF BlobRefs, Rows
<1>2. \A x \in Keys : x \in Refs /\ x[1] # "vector"
  BY DEF Keys, Refs
<1>3. \A x \in RefsOf(theRows) : \E id \in Ids : x \in BlobRefs(theRows[id])
  BY DEF RefsOf
<1>4. RefsOf(theRows) \subseteq Referenced(theRows)
  BY DEF RefsOf, Referenced
<1> QED
  BY <1>1, <1>2, <1>3, <1>4

LEMMA AuditScanHolds ==
  ASSUME IInv, AuditScan
  PROVE  CtlOK'
<1>1. /\ ctl' = [at |-> "check", rows |-> rows, missingBlobs |-> {}, orphaned |-> {},
                 owned |-> Owned, orphans |-> Orphans, missing |-> Missing]
      /\ Owned' = Owned /\ Orphans' = Orphans /\ Missing' = Missing
  BY DEF AuditScan, opsVars, Owned, Orphans, Missing, Artifacts
<1>2. rows \in [Ids -> Rows \cup {NoRow}] /\ BlobsOK /\ vectors \subseteq Ids
  BY DEF IInv, OpsInv, Types, RowsOK
<1>3. Missing = RefsOf(rows) \ blobs
  BY DEF Missing, RefsOf
<1>4. Owned \subseteq Refs /\ Orphans \subseteq Refs /\ Missing \subseteq Refs
  BY <1>2, <1>3, ArtifactsAre, RowRefs DEF Owned, Orphans
<1>5. Owned \subseteq Referenced(rows) /\ Orphans \cap Referenced(rows) = {} /\ Missing \subseteq RefsOf(rows)
  BY <1>3 DEF Owned, Orphans
<1>6. ctl' \in Audits
  BY <1>1, <1>2, <1>4 DEF Audits
<1>7. AuditOK(ctl', Owned, Orphans, Missing)
  BY <1>1, <1>5, <1>6 DEF AuditOK
<1> QED
  BY <1>1, <1>7 DEF CtlOK

\* What an audit knows, taken apart.
LEMMA AuditIs ==
  ASSUME IInv, ctl.at \in {"check", "blobs", "vectors", "reported"}
  PROVE  /\ ctl \in Audits /\ BlobsOK /\ vectors \subseteq Ids
         /\ ctl.rows \in [Ids -> Rows \cup {NoRow}]
         /\ AuditOK(ctl, Owned, Orphans, Missing)
BY CtlAt DEF IInv, OpsInv, Types, AuditOK, Audits

LEMMA NothingMoved ==
  ASSUME UNCHANGED opsVars
  PROVE  Owned' = Owned /\ Orphans' = Orphans /\ Missing' = Missing
BY DEF opsVars, Owned, Orphans, Missing, Artifacts

LEMMA AuditCheckHolds ==
  ASSUME IInv, AuditCheck
  PROVE  CtlOK'
<1> DEFINE found == RefsOf(ctl.rows) \ blobs
<1>1. ctl.at = "check" /\ ctl' = [ctl EXCEPT !.at = "blobs", !.missingBlobs = found]
  BY DEF AuditCheck, RefsOf
<1>2. ctl \in Audits /\ AuditOK(ctl, Owned, Orphans, Missing)
  BY <1>1, AuditIs
<1>3. found \subseteq Refs /\ \A x \in found : x \notin Artifacts
  BY <1>1, AuditIs, RowRefs, ArtifactsAre
<1>4. ctl.missing \subseteq found
  BY <1>2 DEF AuditOK, Missing
<1>5. found \cap ctl.owned = {}
  BY <1>2, <1>3 DEF AuditOK, Owned
<1> HIDE DEF found
<1>6. /\ ctl' \in Audits /\ ctl'.at = "blobs" /\ ctl'.rows = ctl.rows /\ ctl'.missingBlobs = found
      /\ ctl'.owned = ctl.owned /\ ctl'.orphans = ctl.orphans /\ ctl'.missing = ctl.missing
  BY <1>1, <1>2, <1>3 DEF Audits
<1>7. AuditOK(ctl', Owned, Orphans, Missing)
  BY <1>2, <1>4, <1>5, <1>6 DEF AuditOK
<1> QED
  BY <1>7, NothingMoved DEF AuditCheck, CtlOK

LEMMA AuditBlobsHolds ==
  ASSUME IInv, AuditBlobs
  PROVE  CtlOK'
<1> DEFINE found == blobs \ Referenced(ctl.rows)
<1>1. ctl.at = "blobs" /\ ctl' = [ctl EXCEPT !.at = "vectors", !.orphaned = found]
  BY DEF AuditBlobs
<1>2. ctl \in Audits /\ AuditOK(ctl, Owned, Orphans, Missing)
  BY <1>1, AuditIs
<1>3. found \subseteq Refs /\ found \cap Referenced(ctl.rows) = {}
  BY <1>1, AuditIs, ArtifactsAre DEF Artifacts
<1>4. \A x \in ctl.orphans : x \in found \/ x[1] = "vector"
  <2>1. ctl.orphans \subseteq Artifacts /\ ctl.orphans \cap Referenced(ctl.rows) = {}
    BY <1>2 DEF AuditOK, Orphans
  <2> QED
    BY <1>1, <2>1, AuditIs, ArtifactsAre
<1> HIDE DEF found
<1>5. /\ ctl' \in Audits /\ ctl'.at = "vectors" /\ ctl'.rows = ctl.rows /\ ctl'.orphaned = found
      /\ ctl'.missingBlobs = ctl.missingBlobs
      /\ ctl'.owned = ctl.owned /\ ctl'.orphans = ctl.orphans /\ ctl'.missing = ctl.missing
  BY <1>1, <1>2, <1>3 DEF Audits
<1>6. AuditOK(ctl', Owned, Orphans, Missing)
  BY <1>1, <1>2, <1>3, <1>4, <1>5 DEF AuditOK
<1> QED
  BY <1>6, NothingMoved DEF AuditBlobs, CtlOK

LEMMA AuditVectorsHolds ==
  ASSUME IInv, AuditVectors
  PROVE  CtlOK'
<1> DEFINE indexed == {VectorKey(id) : id \in vectors}
           found   == ctl.orphaned \cup (indexed \ Referenced(ctl.rows))
<1>1. ctl.at = "vectors" /\ ctl' = [ctl EXCEPT !.at = "reported", !.orphaned = found]
  BY DEF AuditVectors
<1>2. ctl \in Audits /\ AuditOK(ctl, Owned, Orphans, Missing)
  BY <1>1, AuditIs
<1>3. indexed \subseteq Refs
  BY <1>1, AuditIs, ArtifactsAre DEF Artifacts
<1>4. found \subseteq Refs /\ found \cap Referenced(ctl.rows) = {}
  <2>1. ctl.orphaned \subseteq Refs /\ ctl.orphaned \cap Referenced(ctl.rows) = {}
    BY <1>1, <1>2 DEF AuditOK, Audits
  <2> HIDE DEF indexed
  <2> QED
    BY <1>3, <2>1
<1>5. ctl.orphans \subseteq found
  <2>1. /\ ctl.orphans \subseteq Artifacts /\ ctl.orphans \cap Referenced(ctl.rows) = {}
        /\ \A x \in ctl.orphans : x \in ctl.orphaned \/ x[1] = "vector"
    BY <1>1, <1>2 DEF AuditOK, Orphans
  <2>2. \A x \in Artifacts : x[1] = "vector" => x \in indexed
    BY <1>1, AuditIs, ArtifactsAre
  <2> HIDE DEF indexed
  <2> QED
    BY <2>1, <2>2
<1> HIDE DEF found
<1>6. /\ ctl' \in Audits /\ ctl'.at = "reported" /\ ctl'.rows = ctl.rows /\ ctl'.orphaned = found
      /\ ctl'.missingBlobs = ctl.missingBlobs
      /\ ctl'.owned = ctl.owned /\ ctl'.orphans = ctl.orphans /\ ctl'.missing = ctl.missing
  BY <1>1, <1>2, <1>4 DEF Audits
<1>7. AuditOK(ctl', Owned, Orphans, Missing)
  BY <1>1, <1>2, <1>4, <1>5, <1>6 DEF AuditOK
<1> QED
  BY <1>7, NothingMoved DEF AuditVectors, CtlOK

LEMMA RecoverScanHolds ==
  ASSUME RecoverScan
  PROVE  CtlOK'
BY DEF RecoverScan, CtlOK

LEMMA RecoverOneHolds ==
  ASSUME IInv, RecoverOne
  PROVE  OpsInv' /\ CtlOK' /\ vectors' = vectors
<1>1. ctl \in [at : {"recover"}, todo : SUBSET Ids]
  BY CtlAt DEF IInv, RecoverOne
<1>2. CASE ctl.todo = {}
  BY <1>2, Stutter DEF RecoverOne, CtlOK, IInv, opsVars
<1>3. CASE ctl.todo # {}
  <2>1. PICK i : i = Min(ctl.todo)
    OBVIOUS
  <2>2. i \in ctl.todo
    <3>1. \E x \in ctl.todo : \A y \in ctl.todo : x <= y
      BY <1>1, <1>3, Least DEF Ids
    <3> QED
      BY <2>1, <3>1 DEF Min
  <2>3. /\ ctl' = [ctl EXCEPT !.todo = @ \ {i}]
        /\ (\E r \in Requests : ReprocessRead(r, i)) \/ UNCHANGED opsVars
    BY <1>3, <2>1 DEF RecoverOne
  <2>4. i \in Ids
    BY <1>1, <2>2
  <2>5. OpsInv' /\ vectors' = vectors
    BY <2>3, <2>4, ReprocessReadKeeps, Stutter DEF IInv, ReprocessRead, opsVars
  <2>6. ctl' \in [at : {"recover"}, todo : SUBSET Ids]
    BY <1>1, <2>3
  <2> QED
    BY <2>5, <2>6 DEF CtlOK
<1> QED
  BY <1>2, <1>3

LEMMA CommandKeeps ==
  ASSUME IInv, Command
  PROVE  IInv'
<1>1. CASE DropRead
  BY <1>1, DropReadHolds, Stutter DEF IInv, DropRead, opsVars
<1>2. CASE DropNext
  BY <1>2, DropNextHolds, Stutter DEF IInv, DropNext, opsVars
<1>3. CASE DropBlob
  BY <1>3, DropBlobHolds DEF IInv, DropBlob
<1>4. CASE DropVector
  BY <1>4, DropVectorHolds DEF IInv, DropVector
<1>5. CASE DropRow
  BY <1>5, DropRowHolds DEF IInv, DropRow
<1>6. CASE AuditScan
  BY <1>6, AuditScanHolds, Stutter DEF IInv, AuditScan, opsVars
<1>7. CASE AuditCheck
  BY <1>7, AuditCheckHolds, Stutter DEF IInv, AuditCheck, opsVars
<1>8. CASE AuditBlobs
  BY <1>8, AuditBlobsHolds, Stutter DEF IInv, AuditBlobs, opsVars
<1>9. CASE AuditVectors
  BY <1>9, AuditVectorsHolds, Stutter DEF IInv, AuditVectors, opsVars
<1>10. CASE RecoverScan
  BY <1>10, RecoverScanHolds, Stutter DEF IInv, RecoverScan, opsVars
<1>11. CASE RecoverOne
  BY <1>11, RecoverOneHolds DEF IInv
<1> QED
  BY <1>1, <1>2, <1>3, <1>4, <1>5, <1>6, <1>7, <1>8, <1>9, <1>10, <1>11 DEF Command

-----------------------------------------------------------------------------
(* The invariant *)

LEMMA VectorsKeep ==
  ASSUME vectors \subseteq Ids, OpsNext
  PROVE  vectors' \subseteq Ids
<1>1. ASSUME NEW r \in Requests, RequestStep(r)
      PROVE  vectors' = vectors
  BY <1>1 DEF RequestStep, Submitted, ReprocessRead, PutBody, SaveReading, Reread, Undo, Mark, ReprocessRow,
              UpdateImport, DeleteOld, Submit, ForceClaim
<1>2. ASSUME NEW id \in Ids, RunStep(id)
      PROVE  vectors' \subseteq vectors \cup {id}
  BY <1>2 DEF RunStep, StartRun, StartFails, StoreContent, Checkpoint, Index, Settle
<1>3. Restart => vectors' = vectors
  BY DEF Restart
<1> QED
  BY <1>1, <1>2, <1>3 DEF OpsNext

LEMMA NextKeeps ==
  ASSUME IInv, Next
  PROVE  IInv'
<1>1. CASE Command
  BY <1>1, CommandKeeps
<1>2. CASE OpsNext /\ Watch /\ Alongside
  <2>1. OpsInv' /\ Fresh
    BY <1>2, OpsKeep DEF IInv
  <2>2. vectors' \subseteq Ids
    BY <1>2, VectorsKeep DEF IInv
  <2>3. count'.body \in Nat
    BY <2>1 DEF OpsInv, Types, RestOK
  <2>4. CASE ctl.at \in {"check", "blobs", "vectors"}
    <3>1. AuditOK(ctl, Owned, Orphans, Missing)
      BY <2>4, CtlAt DEF IInv
    <3>2. AuditOK(ctl, Owned, Orphans, Missing)'
      BY <1>2, <2>4, <3>1, WatchKeeps
    <3> QED
      BY <2>1, <2>2, <3>2 DEF IInv, CtlOK
  <2>5. CASE ctl.at \notin {"check", "blobs", "vectors"}
    <3>1. ctl' = ctl /\ ctl.at \notin {"check", "blobs", "vectors", "reported"}
      BY <1>2, <2>5 DEF Watch, Alongside
    <3>2. CtlOK'
      BY <2>1, <2>3, <3>1, CommandStays
    <3> QED
      BY <2>1, <2>2, <3>2 DEF IInv
  <2> QED
    BY <2>4, <2>5
<1> QED
  BY <1>1, <1>2 DEF Next

LEMMA StutterKeeps ==
  ASSUME IInv, UNCHANGED vars
  PROVE  IInv'
<1>1. UNCHANGED opsVars /\ ctl' = ctl
  BY DEF vars
<1>2. OpsInv'
  BY <1>1, Stutter DEF IInv
<1>3. vectors' \subseteq Ids
  BY <1>1 DEF IInv, opsVars
<1>4. CtlOK'
  <2>1. count' = count /\ blobs' = blobs
    BY <1>1 DEF opsVars
  <2>2. Owned' = Owned /\ Orphans' = Orphans /\ Missing' = Missing
    BY <1>1, NothingMoved
  <2> QED
    BY <1>1, <2>1, <2>2 DEF IInv, CtlOK, Dropping
<1> QED
  BY <1>2, <1>3, <1>4 DEF IInv

\* The reading that may be there at first.
LEMMA FirstRow ==
  ASSUME NEW kind \in {"web", "markdown"}
  PROVE  LET row == FailedRow(CHOOSE u \in Urls : URLKey(u) # Invalid, kind)
         IN  /\ RowOK(1, row, 0) /\ row.status = "failed" /\ row.kind = kind
             /\ row.raw = (IF kind = "markdown" THEN <<"body", 1, 0>> ELSE <<"raw", 1, 0>>)
             /\ row.content = <<"content", 1, 0>>
<1> DEFINE url == CHOOSE u \in Urls : URLKey(u) # Invalid
<1>1. url \in Urls /\ URLKey(url) # Invalid
  BY ReadingOpsAssumption
<1> HIDE DEF url
<1>2. 1 \in 0 .. MaxId
  BY ReadingOpsAssumption
<1>3. <<"body", 1, 0>> \in Keys /\ <<"raw", 1, 0>> \in Keys /\ <<"content", 1, 0>> \in Keys
  BY <1>2 DEF Keys
<1>4. /\ FailedRow(url, kind) \in Rows
      /\ FailedRow(url, kind).key = URLKey(FailedRow(url, kind).url) /\ FailedRow(url, kind).key # Invalid
      /\ FailedRow(url, kind).status = "failed" /\ FailedRow(url, kind).kind = kind
      /\ FailedRow(url, kind).raw = (IF kind = "markdown" THEN <<"body", 1, 0>> ELSE <<"raw", 1, 0>>)
      /\ FailedRow(url, kind).content = <<"content", 1, 0>>
  BY <1>1, <1>3 DEF FailedRow, Rows, Statuses, Kinds, BodyKey, RawKey, ContentKey
<1>5. RowOK(1, FailedRow(url, kind), 0)
  BY <1>3, <1>4 DEF RowOK, RawOf
<1> QED
  BY <1>4, <1>5 DEF url

LEMMA InitHolds ==
  ASSUME Init
  PROVE  IInv
<1>1. /\ count = [request |-> 0, run |-> 0, body |-> 0, error |-> 0, crash |-> 0]
      /\ vectors = {id \in Ids : Stored(id)}
      /\ run = [id \in Ids |-> NoRun] /\ request = [r \in Requests |-> Idle]
      /\ past = [owed |-> {}, displaced |-> {}, bodiless |-> {}, contested |-> {}]
      /\ ctl = NotStarted
  BY DEF Init, InitOps
<1>2. 1 \in Ids /\ 0 \in 0 .. MaxId /\ 1 \in 0 .. MaxId
  BY ReadingOpsAssumption DEF Ids
<1>3. RunsOK /\ RequestsOK
  BY <1>1, NewClaims DEF RunsOK, RequestsOK
<1>4. \A r \in Requests : request[r] = Idle /\ \A id \in Ids : ~Works(r, id)
  BY <1>1 DEF Works
<1>5. Newborn /\ \A id \in Ids : Sole(id) /\ Steps(id) /\ run[id].at = "none"
  BY <1>1, <1>4, NewClaims, Values DEF Newborn, Creating, Sole, Steps
<1>6. CASE rows = [id \in Ids |-> NoRow] /\ blobs = {} /\ used = 0
  <2>1. \A id \in Ids : ~Stored(id) /\ rows[id] = NoRow
    BY <1>6 DEF Stored
  <2>2. Types
    BY <1>1, <1>2, <1>3, <1>6, <2>1 DEF Types, RowsOK, BlobsOK, RestOK
  <2>3. Uncontested
    BY <1>5, <1>6, <2>1 DEF Uncontested, IdOK, Settled, Bodied, OwnBodies
  <2>4. OneKeyOneRow /\ PendingIsSubmitted
    BY <2>1, Values DEF OneKeyOneRow, PendingIsSubmitted
  <2> QED
    BY <1>1, <2>2, <2>3, <2>4 DEF IInv, OpsInv, CtlOK
<1>7. ASSUME NEW kind \in {"web", "markdown"}, NEW row,
             row = FailedRow(CHOOSE u \in Urls : URLKey(u) # Invalid, kind),
             rows = [id \in Ids |-> IF id = 1 THEN row ELSE NoRow],
             blobs = {rows[1].raw, rows[1].content}, used = 1
      PROVE  IInv
  <2>1. /\ RowOK(1, row, 0) /\ row.status = "failed" /\ row.kind = kind
        /\ row.raw = (IF kind = "markdown" THEN <<"body", 1, 0>> ELSE <<"raw", 1, 0>>)
        /\ row.content = <<"content", 1, 0>>
    BY <1>7, FirstRow
  <2>2. row \in Rows /\ row # NoRow
    BY <2>1, Values DEF RowOK
  <2>3. rows[1] = row /\ Stored(1) /\ \A id \in Ids \ {1} : rows[id] = NoRow /\ ~Stored(id)
    BY <1>2, <1>7, <2>2 DEF Stored
  <2>4. RowsOK
    <3>1. rows \in [Ids -> Rows \cup {NoRow}]
      BY <1>7, <2>2
    <3>2. \A id \in Ids : Stored(id) => RowOK(id, rows[id], count.body) /\ id <= used
      BY <1>1, <1>7, <2>1, <2>3
    <3> QED
      BY <3>1, <3>2 DEF RowsOK
  <2>5. blobs = {row.raw, row.content}
    BY <1>7, <2>3
  <2>6. BlobsOK
    BY <1>2, <2>1, <2>5 DEF BlobsOK
  <2>7. Types
    BY <1>1, <1>2, <1>3, <1>7, <2>4, <2>6 DEF Types, RestOK
  <2>8. \A id \in Ids : Settled(id)
    BY <1>5 DEF Settled
  <2>9. \A id \in Ids : Bodied(id)
    BY <2>1, <2>3, <2>5 DEF Bodied
  <2>10. \A id \in Ids : OwnBodies(id)
    <3> SUFFICES ASSUME NEW id \in Ids, NEW key \in blobs, key[1] = "body", key[2] = id
                 PROVE  BodyOwned(id, key)
      BY DEF OwnBodies
    <3>1. key = row.raw /\ id = 1
      BY <2>1, <2>5
    <3> QED
      BY <2>3, <3>1 DEF BodyOwned
  <2>11. Uncontested
    BY <1>5, <2>8, <2>9, <2>10 DEF Uncontested, IdOK
  <2>12. OneKeyOneRow
    BY <2>3 DEF OneKeyOneRow
  <2>13. PendingIsSubmitted
    BY <2>1, <2>3, Values DEF PendingIsSubmitted
  <2> QED
    BY <1>1, <2>7, <2>11, <2>12, <2>13 DEF IInv, OpsInv, CtlOK
<1> QED
  BY <1>6, <1>7 DEF Init, InitOps

-----------------------------------------------------------------------------
(* The keys of the pages *)

\* URLs with a path of segments and one trailing slash at most, and one video
\* at most in the query.
Plain(u) ==
  /\ u.segs \in Seq(STRING)
  /\ u.slashes \in {0, 1}
  /\ \A i, j \in VideoIds : <<"v", i>> \in u.query /\ <<"v", j>> \in u.query => i = j

\* The path of a video and no more.
NoWatchSlash(u) == u.segs = <<"watch">> => u.slashes = 0

Generic(u) == KeyOf(u.name, canonicalPort(u), u.segs, canonicalSlashes(u), filteredQuery(u.query))
OnShort(u) == u.name = "youtu.be" /\ canonicalPort(u) = NoPort
OnWatch(u) == u.name \in YouTubeHosts /\ canonicalPort(u) = NoPort /\ IsWatchPath(u)

LEMMA KeyCases ==
  ASSUME NEW u
  PROVE  \/ URLKey(u) = Invalid
         \/ Fetchable(u) /\ OnShort(u) /\ URLKey(u) = youtubeShortKey(u)
         \/ Fetchable(u) /\ ~OnShort(u) /\ OnWatch(u) /\ URLKey(u) = youtubeWatchKey(u)
         \/ Fetchable(u) /\ ~OnShort(u) /\ ~OnWatch(u) /\ URLKey(u) = Generic(u)
BY DEF URLKey, Fetchable, OnShort, OnWatch, Generic

LEMMA DefaultServer ==
  ASSUME NEW u, u.scheme \in {"http", "https"}
  PROVE  /\ Server(u)[2] = "default" <=> canonicalPort(u) = NoPort
         /\ Server(u)[2] \in {"default", "other"} /\ Server(u)[1] = u.name
         /\ canonicalPort(u) # NoPort => canonicalPort(u) = u.port
BY DEF Server, canonicalPort, defaultPort, NoPort

LEMMA ShortIs ==
  ASSUME NEW u, Plain(u), youtubeShortKey(u) # Invalid
  PROVE  \E id \in VideoIds : u.segs = <<id>> /\ youtubeShortKey(u) = VideoKey(id)
<1>1. Len(u.segs) = 1 /\ u.segs[1] \in VideoIds /\ youtubeShortKey(u) = VideoKey(u.segs[1])
  BY DEF youtubeShortKey
<1>2. u.segs = <<u.segs[1]>>
  BY <1>1 DEF Plain
<1> QED
  BY <1>1, <1>2

LEMMA WatchIs ==
  ASSUME NEW u, youtubeWatchKey(u) # Invalid
  PROVE  \E id \in VideoIds : <<"v", id>> \in u.query /\ youtubeWatchKey(u) = VideoKey(id)
BY DEF youtubeWatchKey

\* A key is the key of the one video a URL shows, or of a URL without one.
LEMMA KeyIs ==
  ASSUME NEW u, Plain(u), URLKey(u) # Invalid
  PROVE  /\ Fetchable(u)
         /\ \/ \E id \in VideoIds : Videos(u) = {id} /\ URLKey(u) = VideoKey(id)
            \/ Videos(u) = {} /\ ~OnWatch(u) /\ URLKey(u) = Generic(u)
<1>1. Fetchable(u) /\ u.scheme \in {"http", "https"}
  BY KeyCases DEF Fetchable
<1>2. Server(u)[2] = "default" <=> canonicalPort(u) = NoPort
  BY <1>1, DefaultServer
<1>3. CASE OnShort(u)
  <2>1. URLKey(u) = youtubeShortKey(u)
    BY <1>3, KeyCases
  <2>2. PICK id \in VideoIds : u.segs = <<id>> /\ URLKey(u) = VideoKey(id)
    BY <2>1, ShortIs
  <2>3. \A i \in VideoIds : u.segs = <<i>> => i = id
    BY <2>2
  <2>4. Videos(u) = {id}
    BY <1>2, <1>3, <2>2, <2>3 DEF Videos, OnShort
  <2> QED
    BY <1>1, <2>2, <2>4
<1>4. CASE ~OnShort(u) /\ OnWatch(u)
  <2>1. URLKey(u) = youtubeWatchKey(u)
    BY <1>4, KeyCases
  <2>2. PICK id \in VideoIds : <<"v", id>> \in u.query /\ URLKey(u) = VideoKey(id)
    BY <2>1, WatchIs
  <2>3. u.name \in YouTubeHosts \ {"youtu.be"} /\ IsWatchPath(u) /\ Server(u)[2] = "default"
    BY <1>2, <1>4 DEF OnShort, OnWatch
  <2>4. \A i \in VideoIds : <<"v", i>> \in u.query => i = id
    BY <2>2 DEF Plain
  <2>5. Videos(u) = {id}
    BY <2>2, <2>3, <2>4 DEF Videos
  <2> QED
    BY <1>1, <2>2, <2>5
<1>5. CASE ~OnShort(u) /\ ~OnWatch(u)
  <2>1. URLKey(u) = Generic(u)
    BY <1>5, KeyCases
  <2>2. Videos(u) = {}
    BY <1>2, <1>5 DEF Videos, OnShort, OnWatch
  <2> QED
    BY <1>1, <1>5, <2>1, <2>2
<1> QED
  BY <1>3, <1>4, <1>5

LEMMA PageHasOneKey ==
  ASSUME NEW u, NEW v, Plain(u), Plain(v), URLKey(u) # Invalid, URLKey(v) # Invalid, SamePage(u, v)
  PROVE  URLKey(u) = URLKey(v)
<1>1. CASE Videos(u) \cap Videos(v) # {}
  BY <1>1, KeyIs
<1>2. CASE Videos(u) \cap Videos(v) = {}
  <2>1. /\ Videos(u) = {} /\ Videos(v) = {}
        /\ Server(u) = Server(v) /\ (Server(u)[2] = "other" => u.port = v.port)
        /\ u.segs = v.segs /\ Content(u.query) = Content(v.query)
    BY <1>2 DEF SamePage
  <2>2. URLKey(u) = Generic(u) /\ URLKey(v) = Generic(v) /\ Fetchable(u) /\ Fetchable(v)
    BY <2>1, KeyIs
  <2>3. u.name = v.name /\ canonicalPort(u) = canonicalPort(v)
    <3> u.scheme \in {"http", "https"} /\ v.scheme \in {"http", "https"}
      BY <2>2 DEF Fetchable
    <3>1. /\ Server(u)[2] = "default" <=> canonicalPort(u) = NoPort
          /\ Server(u)[2] \in {"default", "other"} /\ Server(u)[1] = u.name
          /\ canonicalPort(u) # NoPort => canonicalPort(u) = u.port
      BY DefaultServer
    <3>2. /\ Server(v)[2] = "default" <=> canonicalPort(v) = NoPort
          /\ Server(v)[1] = v.name
          /\ canonicalPort(v) # NoPort => canonicalPort(v) = v.port
      BY DefaultServer
    <3> QED
      BY <2>1, <3>1, <3>2
  <2>4. canonicalSlashes(u) = canonicalSlashes(v)
    BY <2>1 DEF canonicalSlashes, Plain
  <2>5. filteredQuery(u.query) = filteredQuery(v.query)
    BY <2>1 DEF filteredQuery, Content
  <2> QED
    BY <2>1, <2>2, <2>3, <2>4, <2>5 DEF Generic
<1> QED
  BY <1>1, <1>2

LEMMA KeyHasOnePage ==
  ASSUME NEW u, NEW v, Plain(u), Plain(v), NoWatchSlash(u), NoWatchSlash(v),
         URLKey(u) # Invalid, URLKey(u) = URLKey(v)
  PROVE  SamePage(u, v)
<1>1. ASSUME NEW i, NEW j, VideoKey(i) = VideoKey(j)
      PROVE  i = j
  <2>1. VideoKey(i).query = {<<"v", i>>} /\ VideoKey(j).query = {<<"v", j>>}
    BY DEF VideoKey, KeyOf
  <2>2. <<"v", i>> = <<"v", j>>
    BY <1>1, <2>1
  <2> QED
    BY <2>2
<1>2. ASSUME NEW x, Plain(x), NoWatchSlash(x), Fetchable(x), ~OnWatch(x), NEW id
      PROVE  Generic(x) # VideoKey(id)
  <2>1. SUFFICES ASSUME Generic(x) = VideoKey(id) PROVE FALSE
    OBVIOUS
  <2>2. x.name = "www.youtube.com" /\ canonicalPort(x) = NoPort /\ x.segs = <<"watch">>
    BY <2>1 DEF Generic, VideoKey, KeyOf
  <2> QED
    BY <1>2, <2>2 DEF OnWatch, IsWatchPath, NoWatchSlash, YouTubeHosts
<1>3. CASE Videos(u) # {} /\ Videos(v) # {}
  BY <1>1, <1>3, KeyIs DEF SamePage
<1>4. CASE Videos(u) = {} /\ Videos(v) = {}
  <2>1. Generic(u) = Generic(v) /\ Fetchable(u) /\ Fetchable(v)
    BY <1>4, KeyIs
  <2>2. /\ u.name = v.name /\ canonicalPort(u) = canonicalPort(v) /\ u.segs = v.segs
        /\ filteredQuery(u.query) = filteredQuery(v.query)
    BY <2>1 DEF Generic, KeyOf
  <2>3. Content(u.query) = Content(v.query)
    BY <2>2 DEF filteredQuery, Content
  <2>4. Server(u) = Server(v) /\ (Server(u)[2] = "other" => u.port = v.port)
    <3> u.scheme \in {"http", "https"} /\ v.scheme \in {"http", "https"}
      BY <2>1 DEF Fetchable
    <3>1. /\ Server(u)[2] = "default" <=> canonicalPort(u) = NoPort
          /\ Server(u)[2] \in {"default", "other"} /\ Server(u)[1] = u.name
          /\ canonicalPort(u) # NoPort => canonicalPort(u) = u.port
      BY DefaultServer
    <3>2. /\ Server(v)[2] = "default" <=> canonicalPort(v) = NoPort
          /\ Server(v)[2] \in {"default", "other"} /\ Server(v)[1] = v.name
          /\ canonicalPort(v) # NoPort => canonicalPort(v) = v.port
      BY DefaultServer
    <3>3. Server(u)[1] = Server(v)[1] /\ Server(u)[2] = Server(v)[2]
      BY <2>2, <3>1, <3>2
    <3>4. Server(u) = <<Server(u)[1], Server(u)[2]>> /\ Server(v) = <<Server(v)[1], Server(v)[2]>>
      BY DEF Server
    <3>5. Server(u)[2] = "other" => u.port = v.port
      BY <2>2, <3>1, <3>2
    <3> QED
      BY <3>3, <3>4, <3>5
  <2> QED
    BY <1>4, <2>1, <2>2, <2>3, <2>4 DEF SamePage
<1>5. ~(Videos(u) = {} /\ Videos(v) # {}) /\ ~(Videos(v) = {} /\ Videos(u) # {})
  BY <1>2, KeyIs
<1> QED
  BY <1>3, <1>4, <1>5

-----------------------------------------------------------------------------
(* Theorems *)

\* The inductive invariant holds in every state that requests, runs, crashes
\* and one command reach: rows, claims, requests, blobs and the command fit
\* together (service.go and readerctl.go).
THEOREM ReaderInvariant == Spec => []IInv
<1>1. Init => IInv
  BY InitHolds
<1>2. IInv /\ [Next]_vars => IInv'
  BY NextKeeps, StutterKeeps
<1> QED
  BY <1>1, <1>2, PTL DEF Spec

\* URLKey gives two URLs one key exactly when they show one page, for every
\* URL with a key, one trailing slash and one v parameter at most, and no
\* slash after the path of a video (url.go).
THEOREM KeysCorrect ==
  ASSUME \A u \in Spellings : Plain(u) /\ NoWatchSlash(u)
  PROVE  Spec => []OneKeyPerPage
<1>1. KeyIsPage
  BY PageHasOneKey, KeyHasOnePage DEF KeyIsPage
<1>2. OneKeyPerPage
  BY <1>1 DEF OneKeyPerPage
<1> QED
  BY <1>2, PTL

\* However requests for one page interleave, and whatever fails, drops or
\* restarts, the page has one reading: the row that is saved keeps others with
\* its key out (SaveReading, store.Save's index on url_key).
THEOREM ReadingsCorrect ==
  ASSUME \A u \in Urls : Plain(u)
  PROVE  Spec => []OneReadingPerPage
<1>1. IInv => OneReadingPerPage
  <2> SUFFICES ASSUME IInv, NEW i \in Ids, NEW j \in Ids, Stored(i), Stored(j), SamePage(rows[i].url, rows[j].url)
               PROVE  i = j
    BY DEF OneReadingPerPage
  <2>1. \A id \in {i, j} : /\ rows[id].url \in Urls /\ rows[id].key = URLKey(rows[id].url)
                           /\ rows[id].key # Invalid
    BY DEF IInv, OpsInv, Types, RowsOK, RowOK, Rows
  <2>2. URLKey(rows[i].url) = URLKey(rows[j].url)
    BY <2>1, PageHasOneKey
  <2> QED
    BY <2>1, <2>2 DEF IInv, OpsInv, OneKeyOneRow
<1> QED
  BY <1>1, ReaderInvariant, PTL

\* No reading is left pending with nobody to run it, but where a failure the
\* code reports has taken its Submit away (Submit, ForceSubmitAfter, sweep).
THEOREM PendingCorrect == Spec => []PendingIsSubmitted
<1>1. IInv => PendingIsSubmitted
  BY DEF IInv, OpsInv
<1> QED
  BY <1>1, ReaderInvariant, PTL

\* An uploaded body and its reading stay together, with every order of
\* uploads, replacements, resets, deletes, failures, crashes and drops, as
\* long as requests do not overlap on the reading.
THEOREM BodiesCorrect == Spec => []BodiesOwned
<1>1. IInv => BodiesOwned
  <2> SUFFICES ASSUME IInv
               PROVE  BodiesOwned
    OBVIOUS
  <2>1. ASSUME NEW key \in blobs, key[1] = "body", key[2] \notin past.contested
        PROVE  \/ Stored(key[2]) /\ rows[key[2]].raw = key
               \/ key \in past.displaced \cup UNION {InHand(request[r]) : r \in Requests}
    <3>1. key[2] \in Ids
      BY DEF IInv, OpsInv, Types, BlobsOK
    <3>2. BodyOwned(key[2], key)
      BY <2>1, <3>1 DEF IInv, OpsInv, Uncontested, IdOK, OwnBodies
    <3> QED
      BY <3>2 DEF BodyOwned
  <2>2. ASSUME NEW id \in Ids \ past.contested, Stored(id)
        PROVE  IF rows[id].kind = "markdown"
               THEN rows[id].raw[1] = "body" /\ (rows[id].raw \in blobs \/ id \in past.bodiless)
               ELSE rows[id].raw[1] \in {"raw", "none"}
    BY <2>2 DEF IInv, OpsInv, Uncontested, IdOK, Bodied
  <2> QED
    BY <2>1, <2>2 DEF BodiesOwned
<1> QED
  BY <1>1, ReaderInvariant, PTL

\* Whatever requests and runs do while an audit runs, it reports what had no
\* owner all along and nothing that had one all along (readerctl.go, audit).
THEOREM AuditCorrect == Spec => []AuditExact
<1>1. IInv => AuditExact
  <2> SUFFICES ASSUME IInv, ctl.at = "reported"
               PROVE  /\ ctl.orphans \subseteq ctl.orphaned /\ ctl.orphaned \cap ctl.owned = {}
                      /\ ctl.missing \subseteq ctl.missingBlobs /\ ctl.missingBlobs \cap ctl.owned = {}
    BY DEF AuditExact
  <2>1. AuditOK(ctl, Owned, Orphans, Missing)
    BY CtlAt DEF IInv
  <2>2. /\ ctl.owned \subseteq Referenced(ctl.rows) /\ ctl.orphaned \cap Referenced(ctl.rows) = {}
        /\ ctl.orphans \subseteq ctl.orphaned
        /\ ctl.missing \subseteq ctl.missingBlobs /\ ctl.missingBlobs \cap ctl.owned = {}
    BY <2>1 DEF AuditOK
  <2> QED
    BY <2>2
<1> QED
  BY <1>1, ReaderInvariant, PTL
=============================================================================
