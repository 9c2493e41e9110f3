------------------------ MODULE PostgresReadingsProofs ------------------------
(***************************************************************************)
(* PostgresReadings implements ReadingStore, for any readings, goroutines  *)
(* and calls.  A status write reads a row, merges its fields and writes    *)
(* the merged columns back, and the row may have become another in         *)
(* between; Merges says of what it carries what is still right then: the   *)
(* columns a reader of the new status looks at are the call's own.         *)
(***************************************************************************)
EXTENDS PostgresReadings, TLAPS

(* The rows of the table, and those a caller gets *)

TableRows ==
  [key : Texts, status : Statuses, started : Nat \cup {Null}, finished : BOOLEAN, error : Texts \cup {Null},
   attempts : Nat, content : Texts \cup {Null}, raw : Texts \cup {Null}, tags : Texts]

ReadRows ==
  [key : Texts, status : Statuses, started : Nat, finished : BOOLEAN, error : Texts,
   attempts : Nat, content : Texts, raw : Texts, tags : Texts]

LEMMA Converts ==
  /\ \A v \in Texts : nullif(v) \in Texts \cup {Null} /\ nullif(v) # "" /\ stringValue(nullif(v)) = v
  /\ \A v \in Texts \cup {Null} : stringValue(v) \in Texts
  /\ \A t \in Nat : timestamptz(t) \in Nat \cup {Null} /\ timeValue(timestamptz(t)) = t
  /\ \A t \in Nat \cup {Null} : timeValue(t) \in Nat
  /\ \A v \in Texts : v # "" => nullif(v) # Null
<1>1. Null \notin Texts /\ Null \notin Nat
  BY PgReadingsAssumption
<1>2. \A v \in Texts : nullif(v) \in Texts \cup {Null} /\ (v # "" => nullif(v) # Null)
  BY <1>1 DEF nullif
<1>3. \A v \in Texts : nullif(v) # ""
  BY <1>1 DEF nullif
<1>4. \A v \in Texts : stringValue(nullif(v)) = v
  BY <1>1 DEF nullif, stringValue
<1>5. \A v \in Texts \cup {Null} : stringValue(v) \in Texts
  BY <1>1 DEF stringValue, Texts
<1>6. \A t \in Nat : timestamptz(t) \in Nat \cup {Null} /\ timeValue(timestamptz(t)) = t
  BY <1>1 DEF timestamptz, timeValue
<1>7. \A t \in Nat \cup {Null} : timeValue(t) \in Nat
  BY <1>1 DEF timeValue
<1> QED
  BY <1>2, <1>3, <1>4, <1>5, <1>6, <1>7

LEMMA ReadOf ==
  ASSUME NEW r \in TableRows
  PROVE  /\ r # NoRow
         /\ readingFromFields(r) \in ReadRows
         /\ readingFromFields(r).key = r.key /\ readingFromFields(r).status = r.status
         /\ readingFromFields(r).started = timeValue(r.started)
         /\ readingFromFields(r).finished = r.finished
         /\ readingFromFields(r).error = stringValue(r.error)
         /\ readingFromFields(r).attempts = r.attempts
         /\ readingFromFields(r).content = stringValue(r.content)
         /\ readingFromFields(r).raw = stringValue(r.raw)
         /\ readingFromFields(r).tags = r.tags
<1>1. r # NoRow
  BY DEF TableRows, NoRow, Statuses
<1>2. readingFromFields(r) =
        [r EXCEPT !.started = timeValue(r.started), !.error = stringValue(r.error),
                  !.content = stringValue(r.content), !.raw = stringValue(r.raw)]
  BY <1>1 DEF readingFromFields
<1> QED
  BY <1>1, <1>2, Converts, ZenonT(30) DEF TableRows, ReadRows

LEMMA SameRow ==
  ASSUME NEW r \in ReadRows, NEW s \in ReadRows,
         r.key = s.key, r.status = s.status, r.started = s.started, r.finished = s.finished,
         r.error = s.error, r.attempts = s.attempts, r.content = s.content, r.raw = s.raw, r.tags = s.tags
  PROVE  r = s
BY DEF ReadRows

-----------------------------------------------------------------------------
(* What a caller sees of a row *)

\* A row as the store promises it: what every statement has to leave.
Whole(r) ==
  /\ r \in TableRows
  /\ r.raw # "" /\ r.content # "" /\ r.error # ""
  /\ r.status = "running" => r.started # Null
  /\ r.status = "failed" => r.error # Null
  /\ r.status \in {"ready", "failed"} => r.finished = TRUE

LEMMA VisibleOf ==
  ASSUME NEW r \in ReadRows
  PROVE  LET v == Columns!Visible(r)
         IN  /\ v \in ReadRows
             /\ v.key = r.key /\ v.status = r.status /\ v.content = r.content /\ v.raw = r.raw /\ v.tags = r.tags
             /\ v.started  = IF r.status = "running" THEN r.started ELSE 0
             /\ v.finished = IF r.status \in {"ready", "failed"} THEN r.finished ELSE FALSE
             /\ v.error    = IF r.status = "failed" THEN r.error ELSE ""
             /\ v.attempts = IF r.status \in {"pending", "running"} THEN r.attempts ELSE 0
<1> DEFINE started  == IF r.status = "running" THEN r.started ELSE 0
           finished == IF r.status \in {"ready", "failed"} THEN r.finished ELSE FALSE
           error    == IF r.status = "failed" THEN r.error ELSE ""
           attempts == IF r.status \in {"pending", "running"} THEN r.attempts ELSE 0
<1>1. Columns!Visible(r) =
        [r EXCEPT !.started = started, !.finished = finished, !.error = error, !.attempts = attempts]
  BY DEF Columns!Visible
<1>2. started \in Nat /\ finished \in BOOLEAN /\ error \in Texts /\ attempts \in Nat
  BY DEF ReadRows, Texts
<1> HIDE DEF started, finished, error, attempts
<1>3. /\ Columns!Visible(r) \in ReadRows
      /\ Columns!Visible(r).key = r.key /\ Columns!Visible(r).status = r.status
      /\ Columns!Visible(r).content = r.content /\ Columns!Visible(r).raw = r.raw
      /\ Columns!Visible(r).tags = r.tags
      /\ Columns!Visible(r).started = started /\ Columns!Visible(r).finished = finished
      /\ Columns!Visible(r).error = error /\ Columns!Visible(r).attempts = attempts
  BY <1>1, <1>2 DEF ReadRows
<1> QED
  BY <1>3 DEF started, finished, error, attempts

LEMMA SeenAs ==
  ASSUME NEW r \in ReadRows, NEW s \in ReadRows,
         r.key = s.key, r.status = s.status, r.tags = s.tags, r.content = s.content, r.raw = s.raw,
         r.status = "running" => r.started = s.started,
         r.status \in {"ready", "failed"} => r.finished = s.finished,
         r.status = "failed" => r.error = s.error,
         r.status \in {"pending", "running"} => r.attempts = s.attempts
  PROVE  Columns!Visible(r) = Columns!Visible(s)
<1> DEFINE v == Columns!Visible(r)
           u == Columns!Visible(s)
<1>1. /\ v \in ReadRows /\ u \in ReadRows
      /\ v.key = u.key /\ v.status = u.status /\ v.tags = u.tags /\ v.content = u.content /\ v.raw = u.raw
  BY VisibleOf
<1>2. v.started = u.started
  <2>1. v.started = (IF r.status = "running" THEN r.started ELSE 0)
        /\ u.started = (IF s.status = "running" THEN s.started ELSE 0)
    BY VisibleOf
  <2> QED
    BY <2>1
<1>3. v.finished = u.finished
  <2>1. v.finished = (IF r.status \in {"ready", "failed"} THEN r.finished ELSE FALSE)
        /\ u.finished = (IF s.status \in {"ready", "failed"} THEN s.finished ELSE FALSE)
    BY VisibleOf
  <2> QED
    BY <2>1
<1>4. v.error = u.error
  <2>1. v.error = (IF r.status = "failed" THEN r.error ELSE "")
        /\ u.error = (IF s.status = "failed" THEN s.error ELSE "")
    BY VisibleOf
  <2> QED
    BY <2>1
<1>5. v.attempts = u.attempts
  <2>1. v.attempts = (IF r.status \in {"pending", "running"} THEN r.attempts ELSE 0)
        /\ u.attempts = (IF s.status \in {"pending", "running"} THEN s.attempts ELSE 0)
    BY VisibleOf
  <2> QED
    BY <2>1
<1> HIDE DEF u, v
<1>6. v = u
  BY <1>1, <1>2, <1>3, <1>4, <1>5, SameRow
<1> QED
  BY <1>6 DEF u, v

LEMMA ShownIs ==
  ASSUME NEW r \in TableRows
  PROVE  /\ Shown(r) = Columns!Visible(readingFromFields(r))
         /\ Shown(r) \in ReadRows /\ Shown(r) # NoRow
         /\ Shown(r).key = r.key /\ Shown(r).status = r.status /\ Shown(r).tags = r.tags
         /\ Shown(r).content = stringValue(r.content) /\ Shown(r).raw = stringValue(r.raw)
<1>1. Shown(r) = Columns!Visible(readingFromFields(r)) /\ readingFromFields(r) \in ReadRows
  BY ReadOf DEF Shown
<1>2. Shown(r) \in ReadRows
  BY <1>1, VisibleOf
<1>3. Shown(r) # NoRow
  BY <1>2 DEF ReadRows, NoRow, Statuses
<1>4. /\ Shown(r).key = readingFromFields(r).key /\ Shown(r).status = readingFromFields(r).status
      /\ Shown(r).tags = readingFromFields(r).tags /\ Shown(r).content = readingFromFields(r).content
      /\ Shown(r).raw = readingFromFields(r).raw
  BY <1>1, VisibleOf, ZenonT(30)
<1>5. /\ readingFromFields(r).key = r.key /\ readingFromFields(r).status = r.status
      /\ readingFromFields(r).tags = r.tags /\ readingFromFields(r).content = stringValue(r.content)
      /\ readingFromFields(r).raw = stringValue(r.raw)
  BY ReadOf
<1> QED
  BY <1>1, <1>2, <1>3, <1>4, <1>5

\* A row is shown as the promised one when what is read of them agrees.
LEMMA ShowsAs ==
  ASSUME NEW r \in TableRows, NEW s \in ReadRows,
         r.key = s.key, r.status = s.status, r.tags = s.tags,
         stringValue(r.content) = s.content, stringValue(r.raw) = s.raw,
         r.status = "running" => timeValue(r.started) = s.started,
         r.status \in {"ready", "failed"} => r.finished = s.finished,
         r.status = "failed" => stringValue(r.error) = s.error,
         r.status \in {"pending", "running"} => r.attempts = s.attempts
  PROVE  Shown(r) = Columns!Visible(s)
BY ReadOf, SeenAs, ShownIs

-----------------------------------------------------------------------------
(* The statements *)

LEMMA CallOf ==
  ASSUME NEW k \in Calls
  PROVE  /\ k.id \in Ids /\ k.start \in Nat /\ k.attempts \in Nat /\ k.value \in Texts
         /\ k.op \in {"save", "status", "content", "tags", "import", "reprocess", "delete", "get", "list"}
         /\ k.op = "status" => k.to \in Statuses /\ (k.to = "running" => k.start # 0)
BY PgReadingsAssumption

LEMMA Literals ==
  /\ {"", "page", "body", "run", "failed"} \subseteq Texts
  /\ Null \notin Texts /\ Null \notin Nat
BY PgReadingsAssumption DEF Texts

\* Every statement leaves a whole row, and is shown as Memory changes its own.
LEMMA Creates ==
  ASSUME NEW k, k.value \in Texts
  PROVE  Whole(CreateReading(k)) /\ Shown(CreateReading(k)) = Store!NewReading(k)
<1> DEFINE r == CreateReading(k)
           s == Store!NewReading(k)
<1>1. nullif("") = Null
  BY DEF nullif
<1>2. r \in TableRows /\ Whole(r)
  BY <1>1, Literals DEF CreateReading, TableRows, Statuses, Whole
<1>3. s \in ReadRows
  BY Literals DEF Store!NewReading, ReadRows, Statuses
<1>4. stringValue(Null) = "" /\ timeValue(Null) = 0
  BY DEF stringValue, timeValue
<1>5. Shown(r) = Columns!Visible(s)
  <2>1. /\ r.key = s.key /\ r.status = s.status /\ r.tags = s.tags /\ r.attempts = s.attempts
        /\ stringValue(r.content) = s.content /\ stringValue(r.raw) = s.raw
        /\ r.status = "pending"
    BY <1>1, <1>4 DEF CreateReading, Store!NewReading
  <2> HIDE DEF r, s
  <2> QED
    BY <1>2, <1>3, <2>1, ShowsAs
<1>6. Columns!Visible(s) = s
  <2>1. s.status = "pending" /\ s.started = 0 /\ s.finished = FALSE /\ s.error = ""
    BY DEF Store!NewReading
  <2> HIDE DEF s
  <2>2. LET v == Columns!Visible(s)
        IN  /\ v \in ReadRows
            /\ v.key = s.key /\ v.status = s.status /\ v.content = s.content /\ v.raw = s.raw /\ v.tags = s.tags
            /\ v.started = s.started /\ v.finished = s.finished /\ v.error = s.error /\ v.attempts = s.attempts
    BY <1>3, <2>1, VisibleOf
  <2> QED
    BY <1>3, <2>2, SameRow
<1> QED
  BY <1>2, <1>5, <1>6

\* What is read of a row is shown of it.
LEMMA ShownKeeps ==
  ASSUME NEW r \in TableRows
  PROVE  /\ r.status = "running" => Shown(r).started = timeValue(r.started)
         /\ r.status \in {"ready", "failed"} => Shown(r).finished = r.finished
         /\ r.status = "failed" => Shown(r).error = stringValue(r.error)
         /\ r.status \in {"pending", "running"} => Shown(r).attempts = r.attempts
<1> DEFINE f == readingFromFields(r)
<1>1. f \in ReadRows /\ Shown(r) = Columns!Visible(f)
  BY ReadOf, ShownIs
<1>2. /\ f.status = r.status /\ f.started = timeValue(r.started) /\ f.error = stringValue(r.error)
      /\ f.attempts = r.attempts
  BY ReadOf
<1>3. f.finished = r.finished
  BY ReadOf
<1> HIDE DEF f
<1>4. r.status = "running" => Shown(r).started = timeValue(r.started)
  BY <1>1, <1>2, VisibleOf
<1>5. r.status \in {"ready", "failed"} => Shown(r).finished = r.finished
  BY <1>1, <1>2, <1>3, VisibleOf, ZenonT(30)
<1>6. r.status = "failed" => Shown(r).error = stringValue(r.error)
  BY <1>1, <1>2, VisibleOf, ZenonT(30)
<1>7. r.status \in {"pending", "running"} => Shown(r).attempts = r.attempts
  <2>1. Shown(r).attempts = (IF f.status \in {"pending", "running"} THEN f.attempts ELSE 0)
    BY <1>1, VisibleOf, ZenonT(30)
  <2> QED
    BY <1>2, <2>1
<1> QED
  BY <1>4, <1>5, <1>6, <1>7

LEMMA WritesContent ==
  ASSUME NEW r, Whole(r), NEW k \in Calls
  PROVE  /\ Whole(UpdateReadingContent(r, k))
         /\ Shown(UpdateReadingContent(r, k)) = Columns!Visible(Store!UpdateContent(Shown(r), k))
<1> DEFINE t == UpdateReadingContent(r, k)
           a == Shown(r)
           s == Store!UpdateContent(a, k)
<1>1. r \in TableRows /\ a \in ReadRows
  BY ShownIs DEF Whole
<1>2. nullif("run") = "run" /\ nullif(k.value) \in Texts \cup {Null} /\ nullif(k.value) # ""
      /\ stringValue("run") = "run" /\ stringValue(nullif(k.value)) = k.value /\ k.value \in Texts
  BY CallOf, Converts, Literals DEF nullif, stringValue
<1>3. /\ t \in TableRows
      /\ t.key = r.key /\ t.status = r.status /\ t.tags = r.tags /\ t.started = r.started /\ t.error = r.error
      /\ t.attempts = r.attempts /\ t.content = nullif(k.value) /\ t.raw = "run"
  BY <1>1, <1>2, Literals DEF UpdateReadingContent, TableRows
<1>4. t.finished = r.finished
  BY <1>1 DEF UpdateReadingContent, TableRows
<1> HIDE DEF a
<1>5. /\ s \in ReadRows
      /\ s.key = a.key /\ s.status = a.status /\ s.tags = a.tags /\ s.started = a.started /\ s.error = a.error
      /\ s.attempts = a.attempts /\ s.content = k.value /\ s.raw = "run"
  BY <1>1, <1>2, Literals DEF Store!UpdateContent, ReadRows
<1>6. s.finished = a.finished
  BY <1>1 DEF Store!UpdateContent, ReadRows
<1> HIDE DEF t, s
<1>7. Whole(t)
  BY <1>2, <1>3, <1>4 DEF Whole
<1>8. a.key = r.key /\ a.status = r.status /\ a.tags = r.tags
  BY <1>1, ShownIs DEF a
<1>9. /\ t.status = "running" => timeValue(t.started) = s.started
      /\ t.status = "failed" => stringValue(t.error) = s.error
      /\ t.status \in {"pending", "running"} => t.attempts = s.attempts
  BY <1>1, <1>3, <1>5, ShownKeeps DEF a
<1>10. t.status \in {"ready", "failed"} => t.finished = s.finished
  BY <1>1, <1>3, <1>4, <1>6, ShownKeeps DEF a
<1>11. Shown(t) = Columns!Visible(s)
  BY <1>2, <1>3, <1>5, <1>8, <1>9, <1>10, ShowsAs
<1> QED
  BY <1>7, <1>11 DEF a, t, s

LEMMA WritesTags ==
  ASSUME NEW r, Whole(r), NEW k \in Calls
  PROVE  /\ Whole(ReplaceReadingTags(r, k))
         /\ Shown(ReplaceReadingTags(r, k)) = Columns!Visible(Store!ReplaceTags(Shown(r), k))
<1> DEFINE t == ReplaceReadingTags(r, k)
           a == Shown(r)
           s == Store!ReplaceTags(a, k)
<1>1. r \in TableRows /\ a \in ReadRows /\ k.value \in Texts
  BY CallOf, ShownIs DEF Whole
<1>2. /\ t \in TableRows
      /\ t.key = r.key /\ t.status = r.status /\ t.tags = k.value /\ t.started = r.started /\ t.error = r.error
      /\ t.attempts = r.attempts /\ t.content = r.content /\ t.raw = r.raw
  BY <1>1 DEF ReplaceReadingTags, TableRows
<1>3. t.finished = r.finished
  BY <1>1 DEF ReplaceReadingTags, TableRows
<1> HIDE DEF a
<1>4. /\ s \in ReadRows
      /\ s.key = a.key /\ s.status = a.status /\ s.tags = k.value /\ s.started = a.started /\ s.error = a.error
      /\ s.attempts = a.attempts /\ s.content = a.content /\ s.raw = a.raw
  BY <1>1 DEF Store!ReplaceTags, ReadRows
<1>5. s.finished = a.finished
  BY <1>1 DEF Store!ReplaceTags, ReadRows
<1> HIDE DEF t, s
<1>6. Whole(t)
  BY <1>2, <1>3 DEF Whole
<1>7. /\ a.key = r.key /\ a.status = r.status
      /\ a.content = stringValue(r.content) /\ a.raw = stringValue(r.raw)
  BY <1>1, ShownIs DEF a
<1>8. /\ t.status = "running" => timeValue(t.started) = s.started
      /\ t.status = "failed" => stringValue(t.error) = s.error
      /\ t.status \in {"pending", "running"} => t.attempts = s.attempts
  BY <1>1, <1>2, <1>4, ShownKeeps DEF a
<1>9. t.status \in {"ready", "failed"} => t.finished = s.finished
  BY <1>1, <1>2, <1>3, <1>5, ShownKeeps DEF a
<1>10. Shown(t) = Columns!Visible(s)
  BY <1>2, <1>4, <1>7, <1>8, <1>9, ShowsAs
<1> QED
  BY <1>6, <1>10 DEF a, t, s

LEMMA Resets ==
  ASSUME NEW r, Whole(r), NEW k \in Calls
  PROVE  /\ Whole(ReprocessReading(r, k)) /\ Whole(UpdateReadingImport(r, k))
         /\ Shown(ReprocessReading(r, k)) = Columns!Visible(Store!Reprocess(Shown(r), k))
         /\ Shown(UpdateReadingImport(r, k)) = Columns!Visible(Store!UpdateImport(Shown(r), k))
<1> DEFINE a == Shown(r)
           t == ReprocessReading(r, k)
           s == Store!Reprocess(a, k)
           u == UpdateReadingImport(r, k)
           v == Store!UpdateImport(a, k)
<1>1. /\ r \in TableRows /\ a \in ReadRows /\ a.key = r.key /\ a.tags = r.tags
      /\ k.value \in Texts /\ "" \in Texts /\ Null # ""
  BY CallOf, Literals, ShownIs DEF Whole
<1>2. nullif(k.value) \in Texts \cup {Null} /\ nullif(k.value) # "" /\ stringValue(nullif(k.value)) = k.value
      /\ stringValue(Null) = ""
  BY <1>1, Converts DEF stringValue
<1>3. /\ t \in TableRows /\ t.key = r.key /\ t.status = "pending" /\ t.tags = r.tags /\ t.error = Null
      /\ t.attempts = 0 /\ t.content = Null /\ t.raw = nullif(k.value)
  BY <1>1, <1>2 DEF ReprocessReading, TableRows, Statuses
<1>4. /\ u \in TableRows /\ u.key = r.key /\ u.status = "pending" /\ u.tags = "" /\ u.error = Null
      /\ u.attempts = 0 /\ u.content = Null /\ u.raw = nullif(k.value)
  BY <1>1, <1>2 DEF UpdateReadingImport, TableRows, Statuses
<1> HIDE DEF a
<1>5. /\ s \in ReadRows /\ s.key = a.key /\ s.status = "pending" /\ s.tags = a.tags
      /\ s.attempts = 0 /\ s.content = "" /\ s.raw = k.value
  BY <1>1 DEF Store!Reprocess, ReadRows, Statuses
<1> HIDE DEF s
<1>6. v = [s EXCEPT !.tags = ""]
  BY DEF Store!UpdateImport, s
<1> HIDE DEF t, u, v
<1>7. /\ v \in ReadRows /\ v.key = a.key /\ v.status = "pending" /\ v.tags = ""
      /\ v.attempts = 0 /\ v.content = "" /\ v.raw = k.value
  BY <1>1, <1>5, <1>6 DEF ReadRows
<1>8. Whole(t) /\ Whole(u)
  BY <1>1, <1>2, <1>3, <1>4 DEF Whole
<1>9. Shown(t) = Columns!Visible(s)
  BY <1>1, <1>2, <1>3, <1>5, ShowsAs
<1>10. Shown(u) = Columns!Visible(v)
  BY <1>1, <1>2, <1>4, <1>7, ShowsAs
<1> QED
  BY <1>8, <1>9, <1>10 DEF a, t, s, u, v

\* What UpdateStatus carries from its read to its write: a row it has read,
\* with the columns that the new status is read with from the call.
Merges(k, m) ==
  /\ m \in ReadRows
  /\ m.status = k.to
  /\ k.to = "running" => m.started = k.start
  /\ k.to \in {"ready", "failed"} => m.finished = TRUE
  /\ k.to = "failed" => m.error = "failed"
  /\ k.to # "ready" => m.attempts = k.attempts

LEMMA MergeOf ==
  ASSUME NEW r \in ReadRows, NEW k \in Calls, k.op = "status"
  PROVE  /\ Merges(k, merged(k, r)) /\ Merges(k, Store!UpdateStatus(r, k))
         /\ Store!UpdateStatus(r, k).key = r.key /\ Store!UpdateStatus(r, k).tags = r.tags
         /\ Store!UpdateStatus(r, k).content = r.content /\ Store!UpdateStatus(r, k).raw = r.raw
<1> DEFINE started  == IF k.to = "running" THEN k.start ELSE r.started
           finished == r.finished \/ k.to \in {"ready", "failed"}
           error    == CASE k.to = "failed" -> "failed"
                         [] k.to \in {"running", "ready"} -> ""
                         [] OTHER -> r.error
           attempts == IF k.to = "ready" THEN r.attempts ELSE k.attempts
           m == [r EXCEPT !.status = k.to, !.started = started, !.finished = finished, !.error = error,
                          !.attempts = attempts]
<1>1. merged(k, r) = m /\ Store!UpdateStatus(r, k) = m
  BY DEF merged, Store!UpdateStatus
<1>2. k.to \in Statuses /\ k.attempts \in Nat /\ k.start \in Nat
  BY CallOf
<1>3. started \in Nat /\ attempts \in Nat
  BY <1>2 DEF ReadRows
<1>4. error \in Texts
  BY Literals DEF ReadRows
<1>5. finished \in BOOLEAN
  OBVIOUS
<1> HIDE DEF started, finished, error, attempts
<1>6. /\ m \in ReadRows /\ m.status = k.to /\ m.started = started /\ m.finished = finished /\ m.error = error
      /\ m.attempts = attempts
      /\ m.key = r.key /\ m.tags = r.tags /\ m.content = r.content /\ m.raw = r.raw
  BY <1>2, <1>3, <1>4, <1>5 DEF ReadRows
<1> HIDE DEF m
<1>7. k.to = "running" => m.started = k.start
  BY <1>6 DEF started
<1>8. k.to \in {"ready", "failed"} => m.finished = TRUE
  BY <1>6 DEF finished
<1>9. k.to = "failed" => m.error = "failed"
  BY <1>6 DEF error
<1>10. k.to # "ready" => m.attempts = k.attempts
  BY <1>6 DEF attempts
<1> QED
  BY <1>1, <1>6, <1>7, <1>8, <1>9, <1>10 DEF Merges

LEMMA WritesStatus ==
  ASSUME NEW r, Whole(r), NEW k \in Calls, k.op = "status", NEW m, Merges(k, m)
  PROVE  /\ Whole(UpdateReadingStatus(r, m))
         /\ Shown(UpdateReadingStatus(r, m)) = Columns!Visible(Store!UpdateStatus(Shown(r), k))
<1> DEFINE t == UpdateReadingStatus(r, m)
           a == Shown(r)
           s == Store!UpdateStatus(a, k)
<1>1. r \in TableRows /\ a \in ReadRows
  BY ShownIs DEF Whole
<1>2. k.to \in Statuses /\ (k.to = "running" => k.start # 0) /\ k.start \in Nat
  BY CallOf
<1>3. m \in ReadRows /\ m.status = k.to /\ m.started \in Nat /\ m.error \in Texts /\ m.finished \in BOOLEAN
      /\ m.attempts \in Nat
  BY DEF Merges, ReadRows
<1>4. /\ timestamptz(m.started) \in Nat \cup {Null} /\ timeValue(timestamptz(m.started)) = m.started
      /\ nullif(m.error) \in Texts \cup {Null} /\ nullif(m.error) # "" /\ stringValue(nullif(m.error)) = m.error
      /\ m.error # "" => nullif(m.error) # Null
      /\ m.started # 0 => timestamptz(m.started) # Null
  BY <1>3, Converts, Literals DEF timestamptz
<1>5. /\ t \in TableRows
      /\ t.key = r.key /\ t.status = k.to /\ t.tags = r.tags /\ t.started = timestamptz(m.started)
      /\ t.error = nullif(m.error) /\ t.attempts = m.attempts /\ t.content = r.content /\ t.raw = r.raw
      /\ t.finished = m.finished
  BY <1>1, <1>2, <1>3, <1>4 DEF UpdateReadingStatus, TableRows
<1> HIDE DEF t
<1>6. Whole(t)
  <2>1. t.status = "running" => t.started # Null
    BY <1>2, <1>4, <1>5 DEF Merges
  <2>2. t.status = "failed" => t.error # Null
    BY <1>4, <1>5 DEF Merges
  <2>3. t.status \in {"ready", "failed"} => t.finished = TRUE
    BY <1>5 DEF Merges
  <2> QED
    BY <1>4, <1>5, <2>1, <2>2, <2>3 DEF Whole
<1> HIDE DEF a
<1>7. /\ Merges(k, s) /\ s.key = a.key /\ s.tags = a.tags /\ s.content = a.content /\ s.raw = a.raw
  BY <1>1, MergeOf
<1>8. a.key = r.key /\ a.tags = r.tags /\ a.content = stringValue(r.content) /\ a.raw = stringValue(r.raw)
  BY <1>1, ShownIs DEF a
<1> HIDE DEF s
<1>9. /\ t.status = "running" => timeValue(t.started) = s.started
      /\ t.status = "failed" => stringValue(t.error) = s.error
      /\ t.status \in {"pending", "running"} => t.attempts = s.attempts
  BY <1>4, <1>5, <1>7 DEF Merges
<1>10. t.status \in {"ready", "failed"} => t.finished = s.finished
  BY <1>5, <1>7 DEF Merges
<1>11. Shown(t) = Columns!Visible(s)
  BY <1>5, <1>7, <1>8, <1>9, <1>10, ShowsAs DEF Merges
<1> QED
  BY <1>6, <1>11 DEF a, t, s

-----------------------------------------------------------------------------
(* The invariant *)

\* A call and what it holds: one that checks was fenced, one that has merged
\* is a status write.
CallOK(c) ==
  \/ c = Idle
  \/ /\ c = [at |-> c.at, k |-> c.k, answer |-> c.answer]
     /\ c.at \in {"called", "checking", "merged", "answered"} /\ c.k \in Calls
     /\ c.at = "called" => c.answer = << >>
     /\ c.at = "checking" => Fenced(c.k)
     /\ c.at = "merged" => c.k.op = "status" /\ Merges(c.k, c.answer[2])

PgInv ==
  /\ table \in [Ids -> TableRows \cup {NoRow}]
  /\ \A id \in Ids : Stored(id) => Whole(table[id])
  /\ call = [c \in Callers |-> call[c]]
  /\ \A c \in Callers : CallOK(call[c])

LEMMA Holding ==
  ASSUME PgInv, NEW c \in Callers, call[c].at \in {"called", "checking", "merged", "answered"}
  PROVE  /\ call[c] = [at |-> call[c].at, k |-> call[c].k, answer |-> call[c].answer]
         /\ call[c].k \in Calls /\ call[c].k.id \in Ids /\ call[c] # Idle
         /\ call[c].at = "called" => call[c].answer = << >>
         /\ call[c].at = "checking" => Fenced(call[c].k)
         /\ call[c].at = "merged" => call[c].k.op = "status" /\ Merges(call[c].k, call[c].answer[2])
<1>1. call[c] # Idle
  BY DEF Idle
<1> QED
  BY <1>1, CallOf DEF PgInv, CallOK

\* A statement that leaves a whole row.
LEMMA TableKept ==
  ASSUME PgInv, NEW id \in Ids, NEW row, Write(id, row), row = NoRow \/ Whole(row)
  PROVE  /\ table' \in [Ids -> TableRows \cup {NoRow}]
         /\ \A i \in Ids : Stored(i)' => Whole(table[i])'
<1>1. table' = [table EXCEPT ![id] = row] /\ row \in TableRows \cup {NoRow}
  BY DEF Write, Whole
<1>2. \A i \in Ids : table'[i] = IF i = id THEN row ELSE table[i]
  BY <1>1 DEF PgInv
<1> QED
  BY <1>1, <1>2 DEF PgInv, Stored

LEMMA CallKept ==
  ASSUME PgInv, NEW c \in Callers, NEW d, call' = [call EXCEPT ![c] = d], CallOK(d)
  PROVE  /\ call' = [e \in Callers |-> call'[e]]
         /\ \A e \in Callers : CallOK(call[e])'
<1>1. call' = [e \in Callers |-> IF e = c THEN d ELSE call[e]]
  BY DEF PgInv
<1>2. \A e \in Callers : CallOK(call'[e])
  BY <1>1 DEF PgInv
<1> QED
  BY <1>1, <1>2 DEF CallOK, Idle, Fenced, Merges

\* What a step sets of a call, and what it leaves.
SetAt(f, c, at)           == [f EXCEPT ![c].at = at]
SetBoth(f, c, at, answer) == [f EXCEPT ![c].at = at, ![c].answer = answer]
IsAt(f, c, at, k, answer) == f = [e \in Callers |-> f[e]] /\ f[c] = [at |-> at, k |-> k, answer |-> answer]

LEMMA Sets ==
  ASSUME NEW f, NEW c \in Callers, NEW was, NEW k, NEW said, IsAt(f, c, was, k, said), NEW at, NEW answer
  PROVE  /\ SetAt(f, c, at) = [f EXCEPT ![c] = [at |-> at, k |-> k, answer |-> said]]
         /\ SetBoth(f, c, at, answer) = [f EXCEPT ![c] = [at |-> at, k |-> k, answer |-> answer]]
<1> DEFINE x == [at |-> was, k |-> k, answer |-> said]
           y == [at |-> at, k |-> k, answer |-> said]
           z == [at |-> at, k |-> k, answer |-> answer]
<1>1. f[c] = x /\ f = [e \in Callers |-> f[e]]
  BY DEF IsAt
<1>2. [x EXCEPT !.at = at] = y
  OBVIOUS
<1>3. [y EXCEPT !.answer = answer] = z
  OBVIOUS
<1> HIDE DEF x, y, z
<1>4. SetAt(f, c, at) = [f EXCEPT ![c] = y]
  BY <1>1, <1>2 DEF SetAt
<1>5. [[f EXCEPT ![c] = y] EXCEPT ![c].answer = answer] = [f EXCEPT ![c] = z]
  BY <1>1, <1>3
<1>6. SetBoth(f, c, at, answer) = [SetAt(f, c, at) EXCEPT ![c].answer = answer]
  BY DEF SetBoth, SetAt
<1> QED
  BY <1>4, <1>5, <1>6 DEF y, z

LEMMA CallSets ==
  ASSUME PgInv, NEW c \in Callers, call[c].at \in {"called", "checking", "merged", "answered"}, NEW at, NEW answer
  PROVE  /\ SetAt(call, c, at) = [call EXCEPT ![c] = [at |-> at, k |-> call[c].k, answer |-> call[c].answer]]
         /\ SetBoth(call, c, at, answer) = [call EXCEPT ![c] = [at |-> at, k |-> call[c].k, answer |-> answer]]
<1>1. IsAt(call, c, call[c].at, call[c].k, call[c].answer)
  BY Holding DEF IsAt, PgInv
<1> QED
  BY <1>1, Sets

LEMMA AnswerIs ==
  ASSUME PgInv, NEW c \in Callers, call[c].at \in {"called", "checking", "merged"}, NEW answer, Answer(c, answer)
  PROVE  LET d == [at |-> "answered", k |-> call[c].k, answer |-> answer]
         IN  call' = [call EXCEPT ![c] = d] /\ CallOK(d)
<1> DEFINE d == [at |-> "answered", k |-> call[c].k, answer |-> answer]
<1>1. call' = SetBoth(call, c, "answered", answer)
  BY DEF Answer, SetBoth
<1>2. call' = [call EXCEPT ![c] = d]
  BY <1>1, CallSets
<1>3. CallOK(d)
  BY Holding DEF CallOK
<1> QED
  BY <1>2, <1>3

\* A step leaves the table alone, or a row of it whole or gone.
TableStep ==
  \/ table' = table
  \/ \E id \in Ids : \E row : Write(id, row) /\ (row = NoRow \/ Whole(row))

LEMMA StepKeeps ==
  ASSUME PgInv, TableStep, NEW c \in Callers, NEW d, call' = [call EXCEPT ![c] = d], CallOK(d)
  PROVE  PgInv'
<1>1. table' \in [Ids -> TableRows \cup {NoRow}] /\ \A i \in Ids : Stored(i)' => Whole(table[i])'
  <2>1. CASE table' = table
    BY <2>1 DEF PgInv, Stored
  <2>2. CASE table' # table
    BY <2>2, TableKept DEF TableStep
  <2> QED
    BY <2>1, <2>2
<1>2. call' = [e \in Callers |-> call'[e]] /\ \A e \in Callers : CallOK(call[e])'
  BY CallKept
<1> QED
  BY <1>1, <1>2 DEF PgInv

LEMMA StoredWhole == ASSUME PgInv, NEW id \in Ids, Stored(id) PROVE Whole(table[id]) /\ table[id] \in TableRows
BY DEF PgInv, Whole

\* What the calls of one statement make of the row there is.
LEMMA ResultWhole ==
  ASSUME PgInv, NEW k \in Calls, k.op \in {"content", "tags", "import", "reprocess", "delete"}, Stored(k.id)
  PROVE  Result(k) = NoRow \/ Whole(Result(k))
<1>1. Whole(table[k.id])
  BY CallOf, StoredWhole
<1>2. CASE k.op = "content"
  BY <1>1, <1>2, WritesContent DEF Result
<1>3. CASE k.op = "tags"
  BY <1>1, <1>3, WritesTags DEF Result
<1>4. CASE k.op = "import"
  BY <1>1, <1>4, Resets DEF Result
<1>5. CASE k.op = "reprocess"
  BY <1>1, <1>5, Resets DEF Result
<1>6. CASE k.op = "delete"
  BY <1>6 DEF Result
<1> QED
  BY <1>2, <1>3, <1>4, <1>5, <1>6

LEMMA StatusWhole ==
  ASSUME PgInv, NEW c \in Callers, call[c].at = "merged", Stored(call[c].k.id)
  PROVE  Whole(UpdateReadingStatus(table[call[c].k.id], call[c].answer[2]))
BY Holding, StoredWhole, WritesStatus

LEMMA BeginIs ==
  ASSUME PgInv, NEW c \in Callers, Begin(c)
  PROVE  \E k \in Calls : LET d == [at |-> "called", k |-> k, answer |-> << >>]
                          IN  call' = [call EXCEPT ![c] = d] /\ CallOK(d)
BY DEF Begin, CallOK

\* An action that answers a call.
Answers(c) == \E answer : Answer(c, answer)

LEMMA AnswersKeep ==
  ASSUME PgInv, TableStep, NEW c \in Callers, call[c].at \in {"called", "checking", "merged"}, Answers(c)
  PROVE  PgInv'
BY AnswerIs, StepKeeps DEF Answers

LEMMA CallsAnswer ==
  ASSUME PgInv, NEW c \in Callers, Save(c) \/ Look(c) \/ WriteStatus(c) \/ Check(c) \/ Lose(c)
  PROVE  Answers(c) /\ call[c].at \in {"called", "checking", "merged"}
<1>1. CASE Save(c)
  BY <1>1 DEF Save, At, Answers
<1>2. CASE Look(c)
  BY <1>2 DEF Look, At, Answers
<1>3. CASE WriteStatus(c)
  BY <1>3 DEF WriteStatus, Answers
<1>4. CASE Check(c)
  BY <1>4 DEF Check, Answers
<1>5. CASE Lose(c)
  BY <1>5 DEF Lose, Answers
<1> QED
  BY <1>1, <1>2, <1>3, <1>4, <1>5

LEMMA CallsStep ==
  ASSUME PgInv, NEW c \in Callers,
         Save(c) \/ Look(c) \/ WriteStatus(c) \/ Check(c) \/ Lose(c) \/ Exec(c)
  PROVE  TableStep
<1>1. call[c].k \in Calls /\ call[c].k.id \in Ids
  BY CallsAnswer, Holding DEF Exec, At
<1>2. Whole(CreateReading(call[c].k))
  BY <1>1, CallOf, Creates
<1>3. CASE Save(c)
  BY <1>1, <1>2, <1>3 DEF Save, TableStep
<1>4. CASE Look(c) \/ Check(c)
  BY <1>4 DEF Look, Check, TableStep
<1>5. CASE WriteStatus(c)
  BY <1>1, <1>5, StatusWhole DEF WriteStatus, TableStep
<1>6. CASE Exec(c)
  BY <1>1, <1>6, ResultWhole DEF Exec, At, Where, TableStep
<1>7. CASE Lose(c)
  BY <1>1, <1>2, <1>7, ResultWhole, StatusWhole DEF Lose, At, Where, TableStep
<1> QED
  BY <1>3, <1>4, <1>5, <1>6, <1>7

\* A fenced write that changed no row is looked at again.
LEMMA ExecIs ==
  ASSUME PgInv, NEW c \in Callers, Exec(c)
  PROVE  \/ Answers(c)
         \/ LET d == [at |-> "checking", k |-> call[c].k, answer |-> << >>]
            IN  /\ call' = [call EXCEPT ![c] = d] /\ CallOK(d)
                /\ Fenced(call[c].k) /\ ~Where(call[c].k) /\ table' = table
<1> DEFINE d == [at |-> "checking", k |-> call[c].k, answer |-> << >>]
<1>1. call[c].at = "called"
  BY DEF Exec, At
<1>2. ASSUME ~Answers(c)
      PROVE  /\ call' = SetAt(call, c, "checking")
             /\ Fenced(call[c].k) /\ ~Where(call[c].k) /\ table' = table
  BY <1>2 DEF Exec, Answers, SetAt
<1>3. SetAt(call, c, "checking") = [call EXCEPT ![c] = d] /\ call[c].k \in Calls
  <2>1. call[c].k \in Calls /\ call[c].answer = << >>
    BY <1>1, Holding
  <2>2. SetAt(call, c, "checking") = [call EXCEPT ![c] = [at |-> "checking", k |-> call[c].k, answer |-> call[c].answer]]
    BY <1>1, CallSets
  <2> QED
    BY <2>1, <2>2
<1>4. Fenced(call[c].k) => CallOK(d)
  BY <1>3 DEF CallOK
<1> QED
  BY <1>2, <1>3, <1>4

\* A status write that has read its row goes on with what it merged.
LEMMA ReadStatusIs ==
  ASSUME PgInv, NEW c \in Callers, ReadStatus(c)
  PROVE  \/ Answers(c) /\ ~Stored(call[c].k.id)
         \/ \E m : LET d == [at |-> "merged", k |-> call[c].k, answer |-> <<"row", m>>]
                   IN  call' = [call EXCEPT ![c] = d] /\ CallOK(d)
<1>1. call[c].at = "called" /\ call[c].k \in Calls /\ call[c].k.id \in Ids /\ call[c].k.op = "status"
  BY Holding DEF ReadStatus, At
<1>2. CASE ~Stored(call[c].k.id)
  BY <1>2 DEF ReadStatus, Answers
<1>3. CASE Stored(call[c].k.id)
  <2> DEFINE k == call[c].k
             m == merged(k, readingFromFields(table[k.id]))
             d == [at |-> "merged", k |-> k, answer |-> <<"row", m>>]
  <2>1. Merges(k, m)
    BY <1>1, <1>3, MergeOf, ReadOf, StoredWhole
  <2>2. call' = SetBoth(call, c, "merged", <<"row", m>>)
    BY <1>3 DEF ReadStatus, SetBoth
  <2> HIDE DEF m
  <2>3. call' = [call EXCEPT ![c] = d]
    BY <1>1, <2>2, CallSets
  <2>4. CallOK(d)
    BY <1>1, <2>1 DEF CallOK
  <2> QED
    BY <2>3, <2>4
<1> QED
  BY <1>2, <1>3

LEMMA NextInv ==
  ASSUME PgInv, NEW c \in Callers,
         \/ Begin(c) \/ Save(c) \/ Exec(c) \/ Check(c) \/ ReadStatus(c) \/ WriteStatus(c)
         \/ Look(c) \/ Lose(c) \/ Return(c)
  PROVE  PgInv'
<1>1. CASE Begin(c)
  BY <1>1, BeginIs, StepKeeps DEF Begin, TableStep
<1>2. CASE Save(c) \/ Look(c) \/ WriteStatus(c) \/ Check(c) \/ Lose(c)
  BY <1>2, CallsAnswer, CallsStep, AnswersKeep
<1>3. CASE Exec(c)
  <2>1. call[c].at = "called"
    BY <1>3 DEF Exec, At
  <2> QED
    BY <1>3, <2>1, ExecIs, CallsStep, AnswersKeep, StepKeeps
<1>4. CASE ReadStatus(c)
  <2>1. call[c].at = "called" /\ TableStep
    BY <1>4 DEF ReadStatus, At, TableStep
  <2> QED
    BY <1>4, <2>1, ReadStatusIs, AnswersKeep, StepKeeps
<1>5. CASE Return(c)
  BY <1>5, StepKeeps DEF Return, TableStep, CallOK
<1> QED
  BY <1>1, <1>2, <1>3, <1>4, <1>5

-----------------------------------------------------------------------------
(* The rows and the calls of the store that is implemented *)

StoreRows  == [id \in Ids |-> Shown(table[id])]
StoreCalls == [c \in Callers |-> Promised(call[c])]

LEMMA SameVisible == \A r : Store!Visible(r) = Columns!Visible(r)
BY DEF Store!Visible, Columns!Visible

LEMMA StoreStored ==
  ASSUME PgInv, NEW id \in Ids
  PROVE  /\ StoreRows[id] = Shown(table[id])
         /\ Store!Stored(id) <=> Stored(id)
         /\ Stored(id) <=> StoreRows[id] # NoRow
<1>1. StoreRows[id] = Shown(table[id])
  BY DEF StoreRows
<1>2. table[id] \in TableRows \cup {NoRow}
  BY DEF PgInv
<1>3. Shown(table[id]) # NoRow <=> table[id] # NoRow
  BY <1>2, ShownIs DEF Shown
<1>4. Store!Stored(id) <=> StoreRows[id] # NoRow
  BY DEF Store!Stored, Store!NoRow, NoRow, StoreRows
<1> QED
  BY <1>1, <1>3, <1>4 DEF Stored

LEMMA StoreWrites ==
  ASSUME PgInv, NEW id \in Ids, NEW row, Write(id, row)
  PROVE  Store!Write(id, Shown(row))
<1>1. \A i \in Ids : table'[i] = IF i = id THEN row ELSE table[i]
  BY DEF PgInv, Write
<1>2. StoreRows' = [StoreRows EXCEPT ![id] = Shown(row)]
  BY <1>1 DEF StoreRows
<1> QED
  BY <1>2 DEF StoreRows, Store!Write

LEMMA StoreRests == ASSUME table' = table PROVE StoreRows' = StoreRows
BY DEF StoreRows

LEMMA StoreSets ==
  ASSUME PgInv, NEW c \in Callers, NEW d, call' = [call EXCEPT ![c] = d]
  PROVE  StoreCalls' = [StoreCalls EXCEPT ![c] = Promised(d)]
<1>1. \A e \in Callers : call'[e] = IF e = c THEN d ELSE call[e]
  BY DEF PgInv
<1>2. StoreCalls' = [e \in Callers |-> Promised(call'[e])]
  BY DEF StoreCalls
<1>3. [StoreCalls EXCEPT ![c] = Promised(d)] = [e \in Callers |-> IF e = c THEN Promised(d) ELSE Promised(call[e])]
  BY DEF StoreCalls
<1> QED
  BY <1>1, <1>2, <1>3

\* What a caller is told of an answer.
Said(k, answer) ==
  IF Fenced(k) /\ answer \in {<<"conflict">>, <<"notfound">>} THEN <<"refused">>
  ELSE IF answer[1] = "row" THEN <<"row", Columns!Visible(answer[2])>> ELSE answer

LEMMA PromisedOf ==
  ASSUME NEW k, NEW answer
  PROVE  /\ Promised([at |-> "called", k |-> k, answer |-> answer]) = [at |-> "called", k |-> k, answer |-> answer]
         /\ Promised([at |-> "merged", k |-> k, answer |-> answer]) = [at |-> "called", k |-> k, answer |-> << >>]
         /\ Promised([at |-> "checking", k |-> k, answer |-> answer])
              = [at |-> "answered", k |-> k, answer |-> <<"refused">>]
         /\ Promised([at |-> "answered", k |-> k, answer |-> answer])
              = [at |-> "answered", k |-> k, answer |-> Said(k, answer)]
<1>1. Promised([at |-> "called", k |-> k, answer |-> answer]) = [at |-> "called", k |-> k, answer |-> answer]
  BY DEF Promised
<1>2. Promised([at |-> "merged", k |-> k, answer |-> answer]) = [at |-> "called", k |-> k, answer |-> << >>]
  <2> DEFINE d == [at |-> "merged", k |-> k, answer |-> answer]
  <2>1. Promised(d) = [d EXCEPT !.at = "called", !.answer = << >>]
    BY DEF Promised
  <2> QED
    BY <2>1
<1>3. Promised([at |-> "checking", k |-> k, answer |-> answer])
        = [at |-> "answered", k |-> k, answer |-> <<"refused">>]
  <2> DEFINE d == [at |-> "checking", k |-> k, answer |-> answer]
  <2>1. Promised(d) = [d EXCEPT !.at = "answered", !.answer = <<"refused">>]
    BY DEF Promised
  <2> QED
    BY <2>1
<1>4. Promised([at |-> "answered", k |-> k, answer |-> answer])
        = [at |-> "answered", k |-> k, answer |-> Said(k, answer)]
  <2> DEFINE d == [at |-> "answered", k |-> k, answer |-> answer]
  <2>1. Promised(d) = [d EXCEPT !.answer = Said(k, answer)]
    BY DEF Promised, Said
  <2> QED
    BY <2>1
<1> QED
  BY <1>1, <1>2, <1>3, <1>4

LEMMA SaidOf ==
  ASSUME NEW k
  PROVE  /\ Said(k, <<"ok">>) = <<"ok">> /\ Said(k, <<"error">>) = <<"error">>
         /\ ~Fenced(k) => Said(k, <<"conflict">>) = <<"conflict">> /\ Said(k, <<"notfound">>) = <<"notfound">>
         /\ Fenced(k) => Said(k, <<"conflict">>) = <<"refused">> /\ Said(k, <<"notfound">>) = <<"refused">>
         /\ \A r : Said(k, <<"row", r>>) = <<"row", Columns!Visible(r)>>
         /\ \A ids : Said(k, <<"ids", ids>>) = <<"ids", ids>>
<1>1. Said(k, <<"ok">>) = <<"ok">> /\ Said(k, <<"error">>) = <<"error">>
  BY DEF Said
<1>2. ~Fenced(k) => Said(k, <<"conflict">>) = <<"conflict">> /\ Said(k, <<"notfound">>) = <<"notfound">>
  BY DEF Said
<1>3. Fenced(k) => Said(k, <<"conflict">>) = <<"refused">> /\ Said(k, <<"notfound">>) = <<"refused">>
  BY DEF Said
<1>4. ASSUME NEW r
      PROVE  Said(k, <<"row", r>>) = <<"row", Columns!Visible(r)>>
  BY DEF Said
<1>5. ASSUME NEW ids
      PROVE  Said(k, <<"ids", ids>>) = <<"ids", ids>>
  BY DEF Said
<1> QED
  BY <1>1, <1>2, <1>3, <1>4, <1>5

LEMMA StoreCalled ==
  ASSUME PgInv, NEW c \in Callers, call[c].at \in {"called", "merged"}
  PROVE  /\ StoreCalls[c] = [at |-> "called", k |-> call[c].k, answer |-> << >>]
         /\ call[c].k \in Calls /\ call[c].k.id \in Ids
<1>1. call[c] = [at |-> call[c].at, k |-> call[c].k, answer |-> call[c].answer]
  BY Holding
<1>2. CASE call[c].at = "called"
  <2>1. call[c] = [at |-> "called", k |-> call[c].k, answer |-> << >>]
    BY <1>1, <1>2, Holding
  <2>2. Promised(call[c]) = [at |-> "called", k |-> call[c].k, answer |-> << >>]
    BY <2>1, PromisedOf
  <2> QED
    BY <1>2, <2>2, Holding DEF StoreCalls
<1>3. CASE call[c].at = "merged"
  <2>1. call[c] = [at |-> "merged", k |-> call[c].k, answer |-> call[c].answer]
    BY <1>1, <1>3
  <2>2. Promised(call[c]) = [at |-> "called", k |-> call[c].k, answer |-> << >>]
    BY <2>1, PromisedOf
  <2> QED
    BY <1>3, <2>2, Holding DEF StoreCalls
<1> QED
  BY <1>2, <1>3

LEMMA StoreAnswers ==
  ASSUME PgInv, NEW c \in Callers, call[c].at \in {"called", "merged"}, NEW d, call' = [call EXCEPT ![c] = d],
         NEW answer, Promised(d) = [at |-> "answered", k |-> call[c].k, answer |-> answer]
  PROVE  Store!Answer(c, answer)
<1>1. IsAt(StoreCalls, c, "called", call[c].k, << >>)
  <2>1. StoreCalls = [e \in Callers |-> StoreCalls[e]]
    BY DEF StoreCalls
  <2> QED
    BY <2>1, StoreCalled DEF IsAt
<1>2. StoreCalls' = [StoreCalls EXCEPT ![c] = [at |-> "answered", k |-> call[c].k, answer |-> answer]]
  BY StoreSets
<1>3. SetBoth(StoreCalls, c, "answered", answer)
        = [StoreCalls EXCEPT ![c] = [at |-> "answered", k |-> call[c].k, answer |-> answer]]
  BY <1>1, Sets
<1>4. StoreCalls' = SetBoth(StoreCalls, c, "answered", answer)
  BY <1>2, <1>3
<1> QED
  BY <1>4 DEF Store!Answer, SetBoth, StoreCalls

LEMMA Told ==
  ASSUME PgInv, NEW c \in Callers, call[c].at \in {"called", "merged"}, NEW answer, Answer(c, answer)
  PROVE  Store!Answer(c, Said(call[c].k, answer))
<1> DEFINE d == [at |-> "answered", k |-> call[c].k, answer |-> answer]
<1>1. call' = [call EXCEPT ![c] = d]
  BY AnswerIs
<1>2. Promised(d) = [at |-> "answered", k |-> call[c].k, answer |-> Said(call[c].k, answer)]
  BY PromisedOf
<1> HIDE DEF d
<1> QED
  BY <1>1, <1>2, StoreAnswers

-----------------------------------------------------------------------------
(* The changes *)

LEMMA WhereIs ==
  ASSUME PgInv, NEW k \in Calls
  PROVE  /\ Fenced(k) <=> Store!Fenced(k)
         /\ Where(k) <=> Stored(k.id) /\ (Fenced(k) => Store!OfRun(StoreRows[k.id], k))
<1> DEFINE r == table[k.id]
           a == StoreRows[k.id]
<1>1. k.id \in Ids /\ k.start \in Nat /\ (Fenced(k) => k.start # 0)
  BY CallOf DEF Fenced
<1>2. Fenced(k) <=> Store!Fenced(k)
  BY DEF Fenced, Store!Fenced
<1>3. ASSUME Stored(k.id), Fenced(k)
      PROVE  r.status = "running" /\ r.started = timestamptz(k.start) <=> Store!OfRun(a, k)
  <2>1. r \in TableRows /\ Whole(r) /\ a = Shown(r) /\ a # NoRow /\ a.status = r.status
    BY <1>1, <1>3, StoredWhole, StoreStored, ShownIs
  <2>2. timestamptz(k.start) = k.start
    BY <1>1, <1>3 DEF timestamptz
  <2>3. r.status = "running" => a.started = r.started
    <3>1. r.status = "running" => r.started \in Nat
      BY <2>1 DEF Whole, TableRows
    <3>2. r.status = "running" => a.started = timeValue(r.started)
      BY <2>1, ShownKeeps
    <3> QED
      BY <3>1, <3>2, PgReadingsAssumption DEF timeValue
  <2> HIDE DEF r, a
  <2> QED
    BY <2>1, <2>2, <2>3 DEF Store!OfRun, Store!NoRow, NoRow
<1> QED
  BY <1>2, <1>3 DEF Where

\* Nothing is stored under the id of a save, nor for its page.
LEMMA TakenIs ==
  ASSUME PgInv, NEW k \in Calls
  PROVE  Taken(k) <=> Store!Stored(k.id) \/ \E id \in Ids : Store!Stored(id) /\ StoreRows[id].key = k.value
<1>1. \A id \in Ids : Stored(id) => StoreRows[id].key = table[id].key
  BY StoreStored, StoredWhole, ShownIs
<1> QED
  BY <1>1, CallOf, StoreStored DEF Taken

LEMMA SaveChanges ==
  ASSUME PgInv, NEW k \in Calls, k.op = "save", ~Taken(k), Write(k.id, CreateReading(k))
  PROVE  Store!Change(k)
<1>1. Store!Write(k.id, Store!NewReading(k))
  BY CallOf, Creates, StoreWrites
<1>2. ~Store!Stored(k.id) /\ \A id \in Ids : Store!Stored(id) => StoreRows[id].key # k.value
  BY TakenIs
<1> QED
  BY <1>1, <1>2 DEF Store!Change, StoreRows

LEMMA ExecChanges ==
  ASSUME PgInv, NEW k \in Calls, k.op \in {"content", "tags", "import", "reprocess", "delete"},
         Where(k), Write(k.id, Result(k))
  PROVE  Store!Change(k)
<1>1. k.id \in Ids /\ Store!Stored(k.id) /\ Whole(table[k.id]) /\ StoreRows[k.id] = Shown(table[k.id])
  BY CallOf, StoreStored, StoredWhole DEF Where
<1>2. Store!Fenced(k) => Store!OfRun(StoreRows[k.id], k)
  BY WhereIs
<1>3. Store!Write(k.id, Shown(Result(k)))
  BY <1>1, StoreWrites
<1>4. CASE k.op = "delete"
  <2>1. Shown(Result(k)) = NoRow
    BY <1>4 DEF Result, Shown
  <2> QED
    BY <1>1, <1>3, <1>4, <2>1 DEF Store!Change, Store!NoRow, NoRow
<1>5. CASE k.op # "delete"
  <2>1. Shown(Result(k)) = Store!Visible(Store!Result(k))
    <3>1. CASE k.op = "content"
      <4>1. Store!Result(k) = Store!UpdateContent(StoreRows[k.id], k)
        BY <3>1 DEF Store!Result, StoreRows
      <4> QED
        BY <1>1, <3>1, <4>1, WritesContent, SameVisible DEF Result
    <3>2. CASE k.op = "tags"
      <4>1. Store!Result(k) = Store!ReplaceTags(StoreRows[k.id], k)
        BY <3>2 DEF Store!Result, StoreRows
      <4> QED
        BY <1>1, <3>2, <4>1, WritesTags, SameVisible DEF Result
    <3>3. CASE k.op = "import"
      <4>1. Store!Result(k) = Store!UpdateImport(StoreRows[k.id], k)
        BY <3>3 DEF Store!Result, StoreRows
      <4> QED
        BY <1>1, <3>3, <4>1, Resets, SameVisible DEF Result
    <3>4. CASE k.op = "reprocess"
      <4>1. Store!Result(k) = Store!Reprocess(StoreRows[k.id], k)
        BY <3>4 DEF Store!Result, StoreRows
      <4> QED
        BY <1>1, <3>4, <4>1, Resets, SameVisible DEF Result
    <3> QED
      BY <1>5, <3>1, <3>2, <3>3, <3>4
  <2>2. Store!Write(k.id, Store!Visible(Store!Result(k)))
    BY <1>3, <2>1
  <2> QED
    BY <1>1, <1>2, <1>5, <2>2 DEF Store!Change, StoreRows
<1> QED
  BY <1>4, <1>5

LEMMA StatusChanges ==
  ASSUME PgInv, NEW c \in Callers, call[c].at = "merged", Stored(call[c].k.id),
         Write(call[c].k.id, UpdateReadingStatus(table[call[c].k.id], call[c].answer[2]))
  PROVE  Store!Change(call[c].k)
<1> DEFINE k == call[c].k
           r == table[k.id]
<1>1. k \in Calls /\ k.id \in Ids /\ k.op = "status" /\ Merges(k, call[c].answer[2])
  BY Holding
<1>2. Store!Stored(k.id) /\ Whole(r) /\ StoreRows[k.id] = Shown(r)
  BY <1>1, StoreStored, StoredWhole
<1>3. Shown(UpdateReadingStatus(r, call[c].answer[2])) = Store!Visible(Store!UpdateStatus(StoreRows[k.id], k))
  BY <1>1, <1>2, WritesStatus, SameVisible
<1>4. Store!Result(k) = Store!UpdateStatus(StoreRows[k.id], k)
  BY <1>1 DEF Store!Result, StoreRows
<1>5. Store!Write(k.id, Store!Visible(Store!Result(k)))
  BY <1>1, <1>3, <1>4, StoreWrites
<1>6. ~Store!Fenced(k)
  BY <1>1 DEF Store!Fenced
<1> QED
  BY <1>1, <1>2, <1>5, <1>6 DEF Store!Change

-----------------------------------------------------------------------------
(* Every step is one of the store, or none *)

\* A call has one effect: it is refused, it looks, or it changes a row.
LEMMA EffectOf ==
  ASSUME PgInv, NEW c \in Callers, call[c].at \in {"called", "merged"}, count' = count,
         \/ Store!Refuse(c, call[c].k)
         \/ Store!Look(c, call[c].k)
         \/ Store!Change(call[c].k) /\ Store!Answer(c, <<"ok">>)
  PROVE  Store!Effect(c)
<1>1. StoreCalls[c].at = "called" /\ StoreCalls[c].k = call[c].k
  <2>1. StoreCalls[c] = [at |-> "called", k |-> call[c].k, answer |-> << >>]
    BY StoreCalled
  <2> QED
    BY <2>1
<1> QED
  BY <1>1 DEF Store!Effect, StoreCalls

\* A call that changes its row is answered ok.
LEMMA ChangeOf ==
  ASSUME PgInv, NEW c \in Callers, call[c].at \in {"called", "merged"}, count' = count,
         Store!Change(call[c].k), Answer(c, <<"ok">>)
  PROVE  Store!Effect(c)
<1>1. Store!Answer(c, <<"ok">>)
  BY Told, SaidOf
<1> QED
  BY <1>1, EffectOf

LEMMA BeginStep ==
  ASSUME PgInv, NEW c \in Callers, Begin(c)
  PROVE  Store!Begin(c)
<1>1. StoreCalls[c] = Store!Idle
  BY DEF Begin, StoreCalls, Promised, Idle, Store!Idle
<1>2. PICK k \in Calls : call' = [call EXCEPT ![c] = [at |-> "called", k |-> k, answer |-> << >>]]
  BY DEF Begin
<1>3. StoreCalls' = [StoreCalls EXCEPT ![c] = [at |-> "called", k |-> k, answer |-> << >>]]
  <2>1. Promised([at |-> "called", k |-> k, answer |-> << >>]) = [at |-> "called", k |-> k, answer |-> << >>]
    BY PromisedOf
  <2>2. StoreCalls' = [StoreCalls EXCEPT ![c] = Promised([at |-> "called", k |-> k, answer |-> << >>])]
    BY <1>2, StoreSets
  <2> QED
    BY <2>1, <2>2
<1>4. StoreRows' = StoreRows
  BY StoreRests DEF Begin
<1> QED
  BY <1>1, <1>3, <1>4 DEF Begin, Store!Begin, StoreCalls, StoreRows

LEMMA ReturnStep ==
  ASSUME PgInv, NEW c \in Callers, Return(c)
  PROVE  Store!Return(c)
<1>1. call[c].at = "answered" /\ call' = [call EXCEPT ![c] = Idle]
  BY DEF Return
<1>2. StoreCalls[c].at = "answered"
  <2>1. PICK k, answer : call[c] = [at |-> "answered", k |-> k, answer |-> answer]
    BY <1>1, Holding
  <2>2. Promised([at |-> "answered", k |-> k, answer |-> answer])
          = [at |-> "answered", k |-> k, answer |-> Said(k, answer)]
    BY PromisedOf
  <2>3. Promised(call[c]).at = "answered"
    BY <2>1, <2>2
  <2> QED
    BY <2>3 DEF StoreCalls
<1>3. StoreCalls' = [StoreCalls EXCEPT ![c] = Store!Idle]
  <2>1. Promised(Idle) = Store!Idle
    BY DEF Promised, Idle, Store!Idle
  <2> QED
    BY <1>1, <2>1, StoreSets
<1>4. StoreRows' = StoreRows
  BY StoreRests DEF Return
<1> QED
  BY <1>2, <1>3, <1>4 DEF Return, Store!Return, StoreCalls, StoreRows

LEMMA SaveStep ==
  ASSUME PgInv, NEW c \in Callers, Save(c)
  PROVE  Store!Effect(c)
<1> DEFINE k == call[c].k
<1>1. call[c].at = "called" /\ k \in Calls /\ k.op = "save" /\ count' = count
  BY Holding DEF Save, At
<1>2. CASE Taken(k)
  <2>1. Answer(c, <<"conflict">>) /\ StoreRows' = StoreRows
    BY <1>2, StoreRests DEF Save
  <2>2. ~Fenced(k)
    BY <1>1 DEF Fenced
  <2>3. Store!Answer(c, <<"conflict">>)
    BY <1>1, <2>1, <2>2, Told, SaidOf
  <2>4. Store!Refuse(c, k)
    BY <1>1, <1>2, <2>1, <2>3, TakenIs DEF Store!Refuse, StoreRows
  <2> QED
    BY <1>1, <2>4, EffectOf
<1>3. CASE ~Taken(k)
  <2>1. Write(k.id, CreateReading(k)) /\ Answer(c, <<"ok">>)
    BY <1>3 DEF Save
  <2> QED
    BY <1>1, <1>3, <2>1, SaveChanges, ChangeOf
<1> QED
  BY <1>2, <1>3

\* A call that finds no row, and one whose run is gone.
LEMMA NotFound ==
  ASSUME PgInv, NEW c \in Callers, call[c].at \in {"called", "merged"}, count' = count, table' = table,
         call[c].k.op \notin {"save", "list"}, ~Fenced(call[c].k), ~Stored(call[c].k.id),
         Answer(c, <<"notfound">>)
  PROVE  Store!Effect(c)
<1>1. call[c].k \in Calls /\ call[c].k.id \in Ids
  BY Holding
<1>2. Store!Answer(c, <<"notfound">>)
  BY Told, SaidOf
<1>3. ~Store!Fenced(call[c].k) /\ ~Store!Stored(call[c].k.id) /\ StoreRows' = StoreRows
  BY <1>1, WhereIs, StoreStored, StoreRests
<1>4. Store!Refuse(c, call[c].k)
  BY <1>2, <1>3 DEF Store!Refuse, StoreRows
<1> QED
  BY <1>4, EffectOf

LEMMA ExecStep ==
  ASSUME PgInv, NEW c \in Callers, Exec(c)
  PROVE  Store!Effect(c)
<1> DEFINE k == call[c].k
<1>1. /\ call[c].at = "called" /\ k \in Calls /\ k.id \in Ids /\ count' = count
      /\ k.op \in {"content", "tags", "import", "reprocess", "delete"}
  BY Holding DEF Exec, At
<1>2. CASE Where(k)
  <2>1. Write(k.id, Result(k)) /\ Answer(c, <<"ok">>)
    BY <1>2 DEF Exec
  <2> QED
    BY <1>1, <1>2, <2>1, ExecChanges, ChangeOf
<1>3. CASE ~Where(k) /\ Fenced(k)
  <2> DEFINE d == [at |-> "checking", k |-> k, answer |-> << >>]
  <2>1. call' = SetAt(call, c, "checking") /\ StoreRows' = StoreRows
    BY <1>3, StoreRests DEF Exec, SetAt
  <2>2. call' = [call EXCEPT ![c] = [at |-> "checking", k |-> k, answer |-> call[c].answer]]
    BY <1>1, <2>1, CallSets
  <2>3. Store!Answer(c, <<"refused">>)
    <3>1. Promised([at |-> "checking", k |-> k, answer |-> call[c].answer])
            = [at |-> "answered", k |-> k, answer |-> <<"refused">>]
      BY PromisedOf
    <3> QED
      BY <1>1, <2>2, <3>1, StoreAnswers
  <2>4. Store!Fenced(k) /\ ~Store!OfRun(StoreRows[k.id], k)
    <3>1. Store!Fenced(k) /\ ~(Stored(k.id) /\ Store!OfRun(StoreRows[k.id], k))
      BY <1>1, <1>3, WhereIs
    <3>2. StoreRows[k.id] = NoRow => ~Store!OfRun(StoreRows[k.id], k)
      BY DEF Store!OfRun, Store!NoRow, NoRow
    <3> QED
      BY <1>1, <3>1, <3>2, StoreStored
  <2>5. Store!Refuse(c, k)
    BY <2>1, <2>3, <2>4 DEF Store!Refuse, StoreRows
  <2> QED
    BY <1>1, <2>5, EffectOf
<1>4. CASE ~Where(k) /\ ~Fenced(k)
  <2>1. table' = table /\ Answer(c, <<"notfound">>) /\ ~Stored(k.id)
    BY <1>4 DEF Exec, Where
  <2> QED
    BY <1>1, <1>4, <2>1, NotFound
<1> QED
  BY <1>2, <1>3, <1>4

LEMMA WriteStatusStep ==
  ASSUME PgInv, NEW c \in Callers, WriteStatus(c)
  PROVE  Store!Effect(c)
<1> DEFINE k == call[c].k
<1>1. call[c].at = "merged" /\ k.op = "status" /\ ~Fenced(k) /\ count' = count
  BY Holding DEF WriteStatus, Fenced
<1>2. CASE Stored(k.id)
  <2>1. Write(k.id, UpdateReadingStatus(table[k.id], call[c].answer[2])) /\ Answer(c, <<"ok">>)
    BY <1>2 DEF WriteStatus
  <2> QED
    BY <1>1, <1>2, <2>1, StatusChanges, ChangeOf
<1>3. CASE ~Stored(k.id)
  <2>1. table' = table /\ Answer(c, <<"notfound">>)
    BY <1>3 DEF WriteStatus
  <2> QED
    BY <1>1, <1>3, <2>1, NotFound
<1> QED
  BY <1>2, <1>3

\* The row is read, and no more: a status write has its effect at the end.
LEMMA ReadStatusStep ==
  ASSUME PgInv, NEW c \in Callers, ReadStatus(c)
  PROVE  Store!Effect(c) \/ UNCHANGED <<StoreRows, StoreCalls, count>>
<1> DEFINE k == call[c].k
<1>1. /\ call[c].at = "called" /\ k \in Calls /\ k.op = "status" /\ ~Fenced(k)
      /\ count' = count /\ table' = table
  BY Holding DEF ReadStatus, At, Fenced
<1>2. CASE ~Stored(k.id)
  <2>1. Answer(c, <<"notfound">>)
    BY <1>2 DEF ReadStatus
  <2> QED
    BY <1>1, <1>2, <2>1, NotFound
<1>3. CASE Stored(k.id)
  <2>1. PICK m : call' = SetBoth(call, c, "merged", m)
    BY <1>3 DEF ReadStatus, SetBoth
  <2>2. call' = [call EXCEPT ![c] = [at |-> "merged", k |-> k, answer |-> m]]
    BY <1>1, <2>1, CallSets
  <2>3. StoreCalls' = [StoreCalls EXCEPT ![c] = Promised([at |-> "merged", k |-> k, answer |-> m])]
    BY <2>2, StoreSets
  <2>4. Promised([at |-> "merged", k |-> k, answer |-> m]) = [at |-> "called", k |-> k, answer |-> << >>]
    BY PromisedOf
  <2>5. StoreCalls[c] = [at |-> "called", k |-> k, answer |-> << >>]
    BY <1>1, StoreCalled
  <2>6. StoreCalls' = StoreCalls
    BY <2>3, <2>4, <2>5 DEF StoreCalls
  <2> QED
    BY <1>1, <2>6, StoreRests
<1> QED
  BY <1>2, <1>3

\* The look after a fenced write tells the caller nothing it was not told.
LEMMA CheckStep ==
  ASSUME PgInv, NEW c \in Callers, Check(c)
  PROVE  UNCHANGED <<StoreRows, StoreCalls, count>>
<1> DEFINE k == call[c].k
<1>1. call[c].at = "checking" /\ Fenced(k) /\ count' = count /\ table' = table
  BY Holding DEF Check
<1>2. PICK said \in {<<"conflict">>, <<"notfound">>} : Answer(c, said)
  BY DEF Check
<1>3. Said(k, said) = <<"refused">>
  BY <1>1, <1>2 DEF Said
<1>4. call' = [call EXCEPT ![c] = [at |-> "answered", k |-> k, answer |-> said]]
  BY <1>1, <1>2, AnswerIs
<1>5. StoreCalls' = [StoreCalls EXCEPT ![c] = Promised([at |-> "answered", k |-> k, answer |-> said])]
  BY <1>4, StoreSets
<1>6. Promised([at |-> "answered", k |-> k, answer |-> said]) = [at |-> "answered", k |-> k, answer |-> <<"refused">>]
  <2>1. Promised([at |-> "answered", k |-> k, answer |-> said]) = [at |-> "answered", k |-> k, answer |-> Said(k, said)]
    BY PromisedOf
  <2> QED
    BY <1>3, <2>1
<1>7. StoreCalls[c] = [at |-> "answered", k |-> k, answer |-> <<"refused">>]
  <2>1. PICK o, a : call[c] = [at |-> "checking", k |-> o, answer |-> a]
    BY <1>1, Holding
  <2>2. Promised([at |-> "checking", k |-> o, answer |-> a]) = [at |-> "answered", k |-> o, answer |-> <<"refused">>]
    BY PromisedOf
  <2>3. k = o
    BY <2>1
  <2>4. StoreCalls[c] = Promised(call[c])
    BY DEF StoreCalls
  <2> HIDE DEF k
  <2> QED
    BY <2>1, <2>2, <2>3, <2>4
<1>8. StoreCalls' = StoreCalls
  BY <1>5, <1>6, <1>7 DEF StoreCalls
<1> QED
  BY <1>1, <1>8, StoreRests

\* The sweep is listed the readings it would be listed by Memory: of a row
\* that is pending, or runs, what it looks at is shown.
LEMMA ListIs ==
  ASSUME PgInv, NEW cutoff \in Nat
  PROVE  ListNonTerminalReadings(cutoff) = Store!ListNonTerminal(cutoff)
<1> DEFINE Old(i) == table[i].status = "pending" \/ (table[i].status = "running" /\ table[i].started < cutoff)
           New(i) == StoreRows[i].status = "pending" \/ (StoreRows[i].status = "running" /\ StoreRows[i].started < cutoff)
<1>1. ASSUME NEW i \in Ids, Stored(i)
      PROVE  Store!Stored(i) /\ (Old(i) <=> New(i)) /\ (Old(i) => table[i].attempts = StoreRows[i].attempts)
  <2> DEFINE r == table[i]
             a == StoreRows[i]
  <2>1. Store!Stored(i) /\ r \in TableRows /\ Whole(r) /\ a = Shown(r)
    BY <1>1, StoreStored, StoredWhole
  <2>2. a.status = r.status
    BY <2>1, ShownIs
  <2>3. r.status \in {"pending", "running"} => a.attempts = r.attempts
    BY <2>1, ShownKeeps
  <2>4. r.status = "running" => a.started = r.started
    <3>1. r.status = "running" => r.started \in Nat /\ r.started # Null
      BY <2>1, Literals DEF Whole, TableRows
    <3>2. r.status = "running" => a.started = timeValue(r.started)
      BY <2>1, ShownKeeps
    <3> QED
      BY <3>1, <3>2 DEF timeValue
  <2>5. Store!Stored(i)
    BY <2>1
  <2> HIDE DEF r, a
  <2>6. (r.status = "pending" \/ (r.status = "running" /\ r.started < cutoff))
          <=> (a.status = "pending" \/ (a.status = "running" /\ a.started < cutoff))
    BY <2>2, <2>4
  <2>7. (r.status = "pending" \/ (r.status = "running" /\ r.started < cutoff)) => r.attempts = a.attempts
    BY <2>3
  <2> QED
    BY <2>5, <2>6, <2>7 DEF r, a
<1>2. \A i \in Ids : Store!Stored(i) => Stored(i)
  BY StoreStored
<1>3. ListNonTerminalReadings(cutoff) = {<<i, table[i].attempts>> : i \in {j \in Ids : Stored(j) /\ Old(j)}}
  BY DEF ListNonTerminalReadings
<1>4. Store!ListNonTerminal(cutoff) = {<<i, StoreRows[i].attempts>> : i \in {j \in Ids : Store!Stored(j) /\ New(j)}}
  BY DEF Store!ListNonTerminal, StoreRows
<1> HIDE DEF Old, New
<1>5. {j \in Ids : Stored(j) /\ Old(j)} = {j \in Ids : Store!Stored(j) /\ New(j)}
  BY <1>1, <1>2
<1>6. \A i \in {j \in Ids : Stored(j) /\ Old(j)} : table[i].attempts = StoreRows[i].attempts
  BY <1>1
<1> QED
  BY <1>3, <1>4, <1>5, <1>6

LEMMA LookStep ==
  ASSUME PgInv, NEW c \in Callers, Look(c)
  PROVE  Store!Effect(c)
<1> DEFINE k == call[c].k
<1>1. /\ call[c].at = "called" /\ k \in Calls /\ k.id \in Ids /\ k.op \in {"get", "list"} /\ ~Fenced(k)
      /\ count' = count /\ table' = table
  BY Holding DEF Look, At, Fenced
<1>2. StoreRows' = StoreRows
  BY <1>1, StoreRests
<1>3. CASE k.op = "list"
  <2> DEFINE ids == ListNonTerminalReadings(k.start)
  <2>1. Answer(c, <<"ids", ids>>)
    BY <1>3 DEF Look
  <2> HIDE DEF ids
  <2>2. Store!Answer(c, Said(k, <<"ids", ids>>))
    BY <1>1, <2>1, Told
  <2>3. Store!Answer(c, <<"ids", ids>>)
    BY <2>2, SaidOf
  <2>4. ids = Store!ListNonTerminal(k.start)
    BY <1>1, CallOf, ListIs DEF ids
  <2>5. Store!Look(c, k)
    BY <1>2, <1>3, <2>3, <2>4 DEF Store!Look, StoreRows
  <2> QED
    BY <1>1, <2>5, EffectOf
<1>4. CASE k.op = "get" /\ Stored(k.id)
  <2> DEFINE r == readingFromFields(table[k.id])
  <2>1. Answer(c, <<"row", r>>)
    BY <1>4 DEF Look
  <2>2. Store!Stored(k.id) /\ StoreRows[k.id] = Columns!Visible(r)
    BY <1>1, <1>4, StoreStored, StoredWhole, ShownIs
  <2> HIDE DEF r
  <2>3. Store!Answer(c, Said(k, <<"row", r>>))
    BY <1>1, <2>1, Told
  <2>4. Store!Answer(c, <<"row", Columns!Visible(r)>>)
    BY <2>3, SaidOf
  <2>5. Store!Look(c, k)
    BY <1>2, <1>4, <2>2, <2>4 DEF Store!Look, StoreRows
  <2> QED
    BY <1>1, <2>5, EffectOf
<1>5. CASE k.op = "get" /\ ~Stored(k.id)
  <2>1. Answer(c, <<"notfound">>)
    BY <1>5 DEF Look
  <2> QED
    BY <1>1, <1>5, <2>1, NotFound
<1> QED
  BY <1>1, <1>3, <1>4, <1>5

LEMMA LoseStep ==
  ASSUME PgInv, NEW c \in Callers, Lose(c)
  PROVE  Store!Lose(c)
<1> DEFINE k == call[c].k
<1>1. /\ call[c].at \in {"called", "merged"} /\ k \in Calls /\ Answer(c, <<"error">>)
      /\ count.errors < MaxError /\ count' = [count EXCEPT !.errors = @ + 1]
  BY Holding DEF Lose, Failing
<1>2. Store!Answer(c, <<"error">>)
  BY <1>1, Told, SaidOf
<1>3. StoreRows' = StoreRows \/ Store!Change(k)
  <2>1. CASE table' = table
    BY <2>1, StoreRests
  <2>2. CASE At(c, "called", {"save"}) /\ ~Taken(k) /\ Write(k.id, CreateReading(k))
    BY <1>1, <2>2, SaveChanges DEF At
  <2>3. CASE /\ At(c, "called", {"content", "tags", "import", "reprocess", "delete"}) /\ Where(k)
             /\ Write(k.id, Result(k))
    BY <1>1, <2>3, ExecChanges DEF At
  <2>4. CASE /\ call[c].at = "merged" /\ Stored(k.id)
             /\ Write(k.id, UpdateReadingStatus(table[k.id], call[c].answer[2]))
    BY <1>1, <2>4, StatusChanges
  <2> QED
    BY <2>1, <2>2, <2>3, <2>4 DEF Lose
<1>4. StoreCalls[c].at = "called" /\ StoreCalls[c].k = k
  <2>1. StoreCalls[c] = [at |-> "called", k |-> k, answer |-> << >>]
    BY <1>1, StoreCalled
  <2> QED
    BY <2>1
<1> QED
  BY <1>1, <1>2, <1>3, <1>4 DEF Store!Lose, StoreCalls, StoreRows

LEMMA StoreStep ==
  ASSUME PgInv, PgNext
  PROVE  Store!StoreNext \/ UNCHANGED <<StoreRows, StoreCalls, count>>
<1>1. PICK c \in Callers :
        \/ Begin(c) \/ Save(c) \/ Exec(c) \/ Check(c) \/ ReadStatus(c) \/ WriteStatus(c)
        \/ Look(c) \/ Lose(c) \/ Return(c)
  BY DEF PgNext
<1>2. CASE Begin(c)
  BY <1>2, BeginStep DEF Store!StoreNext
<1>3. CASE Save(c) \/ Exec(c) \/ WriteStatus(c) \/ Look(c)
  <2>1. Store!Effect(c)
    BY <1>3, SaveStep, ExecStep, WriteStatusStep, LookStep
  <2> QED
    BY <2>1 DEF Store!StoreNext
<1>4. CASE Check(c)
  BY <1>4, CheckStep
<1>5. CASE ReadStatus(c)
  BY <1>5, ReadStatusStep DEF Store!StoreNext
<1>6. CASE Lose(c)
  BY <1>6, LoseStep DEF Store!StoreNext
<1>7. CASE Return(c)
  BY <1>7, ReturnStep DEF Store!StoreNext
<1> QED
  BY <1>1, <1>2, <1>3, <1>4, <1>5, <1>6, <1>7

-----------------------------------------------------------------------------
(* The first states *)

\* The rows of a table that is not empty at the start.
Fresh        == [CreateReading([value |-> "page"]) EXCEPT !.raw = "body"]
Running      == [Fresh EXCEPT !.status = "running", !.started = 1]
StoreFresh   == [Store!NewReading([value |-> "page"]) EXCEPT !.raw = "body"]
StoreRunning == [StoreFresh EXCEPT !.status = "running", !.started = 1]

LEMMA FirstRows ==
  /\ Whole(Fresh) /\ Shown(Fresh) = StoreFresh
  /\ Whole(Running) /\ Shown(Running) = StoreRunning
<1> DEFINE k == [value |-> "page"]
<1>1. k.value = "page" /\ k.value \in Texts /\ "body" \in Texts /\ 1 \in Nat
  BY Literals
<1>2. /\ CreateReading(k) \in TableRows
      /\ CreateReading(k).key = "page" /\ CreateReading(k).status = "pending" /\ CreateReading(k).tags = ""
      /\ CreateReading(k).attempts = 0 /\ CreateReading(k).content = Null /\ CreateReading(k).error = Null
      /\ CreateReading(k).finished = FALSE
  <2>1. CreateReading(k) \in TableRows
    BY <1>1, Creates DEF Whole
  <2>2. nullif("") = Null
    BY DEF nullif
  <2> QED
    BY <1>1, <2>1, <2>2 DEF CreateReading
<1>3. /\ Store!NewReading(k) \in ReadRows
      /\ Store!NewReading(k).key = "page" /\ Store!NewReading(k).status = "pending"
      /\ Store!NewReading(k).tags = "" /\ Store!NewReading(k).attempts = 0
      /\ Store!NewReading(k).content = "" /\ Store!NewReading(k).error = ""
      /\ Store!NewReading(k).started = 0 /\ Store!NewReading(k).finished = FALSE
  <2>1. Store!NewReading(k) \in ReadRows
    BY <1>1, Literals DEF Store!NewReading, ReadRows, Statuses
  <2> QED
    BY <1>1, <2>1 DEF Store!NewReading
<1> HIDE DEF k
<1>4. /\ Fresh \in TableRows
      /\ Fresh.key = "page" /\ Fresh.status = "pending" /\ Fresh.tags = "" /\ Fresh.attempts = 0
      /\ Fresh.content = Null /\ Fresh.error = Null /\ Fresh.raw = "body"
  BY <1>1, <1>2 DEF Fresh, TableRows, k
<1>5. /\ Running \in TableRows
      /\ Running.key = "page" /\ Running.status = "running" /\ Running.tags = "" /\ Running.attempts = 0
      /\ Running.content = Null /\ Running.error = Null /\ Running.raw = "body" /\ Running.started = 1
  BY <1>1, <1>4 DEF Running, TableRows, Statuses
<1>6. /\ StoreFresh \in ReadRows
      /\ StoreFresh.key = "page" /\ StoreFresh.status = "pending" /\ StoreFresh.tags = ""
      /\ StoreFresh.attempts = 0 /\ StoreFresh.content = "" /\ StoreFresh.error = ""
      /\ StoreFresh.raw = "body" /\ StoreFresh.started = 0 /\ StoreFresh.finished = FALSE
  BY <1>1, <1>3 DEF StoreFresh, ReadRows, k
<1>7. /\ StoreRunning \in ReadRows
      /\ StoreRunning.key = "page" /\ StoreRunning.status = "running" /\ StoreRunning.tags = ""
      /\ StoreRunning.attempts = 0 /\ StoreRunning.content = "" /\ StoreRunning.error = ""
      /\ StoreRunning.raw = "body" /\ StoreRunning.started = 1 /\ StoreRunning.finished = FALSE
  BY <1>1, <1>6 DEF StoreRunning, ReadRows, Statuses
<1>8. ASSUME NEW s \in ReadRows, s.finished = FALSE, s.error = "",
             (s.status = "pending" /\ s.started = 0) \/ s.status = "running"
      PROVE  Columns!Visible(s) = s
  <2> DEFINE v == Columns!Visible(s)
  <2>1. /\ v \in ReadRows
        /\ v.key = s.key /\ v.status = s.status /\ v.content = s.content /\ v.raw = s.raw /\ v.tags = s.tags
        /\ v.started = (IF s.status = "running" THEN s.started ELSE 0)
        /\ v.finished = (IF s.status \in {"ready", "failed"} THEN s.finished ELSE FALSE)
        /\ v.error = (IF s.status = "failed" THEN s.error ELSE "")
        /\ v.attempts = (IF s.status \in {"pending", "running"} THEN s.attempts ELSE 0)
    BY VisibleOf
  <2> HIDE DEF v
  <2>2. v.started = s.started /\ v.finished = s.finished /\ v.error = s.error /\ v.attempts = s.attempts
    BY <1>8, <2>1
  <2>3. v = s
    BY <2>1, <2>2, SameRow
  <2> QED
    BY <2>3 DEF v
<1>9. Null # "body" /\ Null # "" /\ Null # 1
  BY <1>1, Literals
<1>10. stringValue(Null) = "" /\ stringValue("body") = "body" /\ timeValue(1) = 1
  BY <1>9 DEF stringValue, timeValue
<1>11. Whole(Fresh) /\ Whole(Running)
  BY <1>4, <1>5, <1>9 DEF Whole
<1>12. Shown(Fresh) = StoreFresh
  <2>1. Shown(Fresh) = Columns!Visible(StoreFresh)
    BY <1>4, <1>6, <1>10, ShowsAs
  <2> QED
    BY <1>6, <1>8, <2>1
<1>13. Shown(Running) = StoreRunning
  <2>1. Shown(Running) = Columns!Visible(StoreRunning)
    BY <1>5, <1>7, <1>10, ShowsAs
  <2> QED
    BY <1>7, <1>8, <2>1
<1> QED
  BY <1>11, <1>12, <1>13

LEMMA FirstTable ==
  ASSUME PgInit
  PROVE  /\ table \in [Ids -> {NoRow, Fresh, Running}]
         /\ \A i, j \in Ids : i # j /\ table[i] # NoRow => table[j] = NoRow
BY DEF PgInit, InitRows, Fresh, Running

LEMMA InitInv == ASSUME PgInit PROVE PgInv
<1>1. \A id \in Ids : table[id] = NoRow \/ Whole(table[id])
  BY FirstTable, FirstRows
<1>2. table \in [Ids -> TableRows \cup {NoRow}]
  BY <1>1, FirstTable DEF Whole
<1>3. call = [c \in Callers |-> Idle]
  BY DEF PgInit
<1> QED
  BY <1>1, <1>2, <1>3 DEF PgInv, Stored, CallOK

LEMMA InitStore == ASSUME PgInit PROVE Store!StoreInit
<1>1. \A id \in Ids : StoreRows[id] = Shown(table[id])
  BY DEF StoreRows
<1>2. Shown(NoRow) = NoRow /\ Store!NoRow = NoRow
  BY DEF Shown, Store!NoRow, NoRow
<1>3. Store!InitReadings = {NoRow, StoreFresh, StoreRunning}
  BY <1>2 DEF Store!InitReadings, StoreFresh, StoreRunning
<1>4. StoreRows \in [Ids -> Store!InitReadings]
  <2>1. \A id \in Ids : StoreRows[id] \in {NoRow, StoreFresh, StoreRunning}
    BY <1>1, <1>2, FirstTable, FirstRows
  <2> QED
    BY <1>3, <2>1 DEF StoreRows
<1>5. \A i, j \in Ids : i # j /\ StoreRows[i] # Store!NoRow => StoreRows[j] = Store!NoRow
  BY <1>1, <1>2, FirstTable
<1>6. StoreCalls = [c \in Callers |-> Store!Idle]
  <2>1. Promised(Idle) = Store!Idle
    BY DEF Promised, Idle, Store!Idle
  <2>2. \A c \in Callers : Promised(call[c]) = Store!Idle
    BY <2>1 DEF PgInit
  <2> QED
    BY <2>2 DEF StoreCalls
<1>7. count = [calls |-> 0, errors |-> 0]
  BY DEF PgInit
<1> QED
  BY <1>4, <1>5, <1>6, <1>7 DEF Store!StoreInit, StoreRows, StoreCalls

-----------------------------------------------------------------------------

LEMMA PgInvariant == PgSpec => []PgInv
<1>1. PgInit => PgInv
  BY InitInv
<1>2. PgInv /\ [PgNext]_pgVars => PgInv'
  <2>1. CASE PgInv /\ PgNext
    BY <2>1, NextInv DEF PgNext
  <2>2. CASE PgInv /\ UNCHANGED pgVars
    BY <2>2 DEF PgInv, pgVars, Stored, CallOK, Idle, Fenced, Merges
  <2> QED
    BY <2>1, <2>2
<1> QED
  BY <1>1, <1>2, PTL DEF PgSpec

\* Whatever status writes of the dispatcher overlap with each other and with
\* the statements of other connections, for any number of goroutines, calls
\* and failures: a running row has the start the sweep looks for, a failed one
\* its reason, a settled one its time, and an empty text is NULL
\* (store/postgres.go, UpdateStatus and the statements of storedb).
THEOREM SettledCorrect == PgSpec => []SettledIsWhole
<1>1. PgInv => SettledIsWhole
  BY DEF PgInv, Whole, SettledIsWhole
<1> QED
  BY <1>1, PgInvariant, PTL

\* Every history of the PostgreSQL store is one of Memory, where a mutex makes
\* every call a single step: for any ids, goroutines and calls, although a
\* status write is a read, a merge in Go and a write (store/postgres.go,
\* UpdateStatus), and a fenced write that found no row asks again why.
THEOREM PgReadingsImplement == PgSpec => ImplementsStore
<1>1. PgInit => Store!StoreInit
  BY InitStore
<1>2. PgInv /\ [PgNext]_pgVars => [Store!StoreNext]_(Store!storeVars)
  <2>1. CASE PgInv /\ PgNext
    BY <2>1, StoreStep DEF Store!storeVars, StoreRows, StoreCalls
  <2>2. CASE UNCHANGED pgVars
    BY <2>2 DEF pgVars, Store!storeVars, Shown, Promised
  <2> QED
    BY <2>1, <2>2
<1> QED
  BY <1>1, <1>2, PgInvariant, PTL DEF PgSpec, ImplementsStore, Store!StoreSpec
=============================================================================
