----------------------------- MODULE SearchProofs -----------------------------
(***************************************************************************)
(* Theorems about Search, for any number of readings, any titles, times    *)
(* and scores, any listing and any changes.                                *)
(*                                                                         *)
(* Both stores list what matches in one order, which is total (Behind), so *)
(* the k-th row is the one of rank k - 1 and the rows after a cursor are   *)
(* the end of the list (Rest).  A page is therefore the same in both, the  *)
(* first rows of what is after its cursor (IsPage).  The walk has listed   *)
(* what did not move on one side of its cursor and has the other side      *)
(* still to come (Walk), whatever changes meanwhile.                       *)
(***************************************************************************)
EXTENDS Search, FiniteSetTheorems, FunctionTheorems, TLAPS

-----------------------------------------------------------------------------
(* Readings and queries *)

Typed ==
  /\ query \in Queries
  /\ readings \in [Ids -> Rows \cup {Unused, Gone}]

Found == {id \in Ids : Matches(id)}

-----------------------------------------------------------------------------
(* The order *)

\* What a listing asks for.
LEMMA QueryIs ==
  ASSUME Typed
  PROVE  /\ query.sort \in {"newest", "oldest", "title"} /\ query.text \in BOOLEAN
         /\ query.limit \in Nat \ {0}
BY SearchConstants DEF Typed

\* Behind is a total order of places with their ids; what is not behind (p, i)
\* comes before all that is.
LEMMA BehindIsOrder ==
  ASSUME NEW p \in Nat \X Nat, NEW q \in Nat \X Nat, NEW r \in Nat \X Nat,
         NEW i \in Nat, NEW j \in Nat, NEW k \in Nat
  PROVE  /\ ~Behind(p, i, p, i)
         /\ Behind(p, i, q, j) /\ Behind(q, j, r, k) => Behind(p, i, r, k)
         /\ i # j => Behind(p, i, q, j) \/ Behind(q, j, p, i)
         /\ ~Behind(p, i, q, j) /\ Behind(p, i, r, k) => Behind(q, j, r, k)
<1>1. /\ p[1] \in Nat /\ p[2] \in Nat /\ q[1] \in Nat /\ q[2] \in Nat /\ r[1] \in Nat /\ r[2] \in Nat
  OBVIOUS
<1>2. CASE query.sort = "newest"
  BY <1>1, <1>2 DEF Behind, PairLess
<1>3. CASE query.sort # "newest"
  BY <1>1, <1>3 DEF Behind, PairLess
<1> QED
  BY <1>2, <1>3

\* A stored reading has a row, a score and a place.
LEMMA RowIs ==
  ASSUME Typed, NEW id \in Ids, Stored(id)
  PROVE  /\ readings[id] \in Rows /\ readings[id].created \in Nat /\ readings[id].created \in Times
         /\ readings[id].title \in Titles /\ Lowered[readings[id].title] \in Nat
         /\ scoreReading(id) \in Nat
         /\ Place(id) \in Nat \X Nat
<1>1. readings[id] \in Rows
  BY DEF Typed, Stored
<1>2. /\ readings[id].created \in Times /\ readings[id].title \in Titles /\ readings[id].score \in Scores
  BY <1>1 DEF Rows
<1>3. Lowered[readings[id].title] \in Nat /\ readings[id].created \in Nat /\ readings[id].score \in Nat
  BY <1>2, SearchConstants DEF Titles
<1>4. scoreReading(id) \in Nat
  BY <1>3 DEF scoreReading
<1> QED
  BY <1>1, <1>2, <1>3, <1>4 DEF Place

\* sortMatches and the order by of storedb sort by places.
LEMMA PrecedesIs ==
  ASSUME Typed, NEW a \in Ids, NEW b \in Ids, Stored(a), Stored(b)
  PROVE  Precedes(a, b) <=> Behind(Place(a), a, Place(b), b)
<1>1. /\ readings[a].created \in Nat /\ Lowered[readings[a].title] \in Nat /\ scoreReading(a) \in Nat
      /\ readings[b].created \in Nat /\ Lowered[readings[b].title] \in Nat /\ scoreReading(b) \in Nat
  BY RowIs
<1>2. /\ Place(a)[1] = scoreReading(a) /\ Place(b)[1] = scoreReading(b)
      /\ Place(a)[2] = IF query.sort = "title" THEN Lowered[readings[a].title] ELSE readings[a].created
      /\ Place(b)[2] = IF query.sort = "title" THEN Lowered[readings[b].title] ELSE readings[b].created
  BY DEF Place
<1> HIDE DEF Place, scoreReading
<1>3. CASE query.sort = "oldest"
  BY <1>1, <1>2, <1>3 DEF Precedes, Behind
<1>4. CASE query.sort = "title"
  BY <1>1, <1>2, <1>4 DEF Precedes, Behind
<1>5. CASE query.sort = "newest"
  BY <1>1, <1>2, <1>5 DEF Precedes, Behind
<1> QED
  BY <1>3, <1>4, <1>5, QueryIs

\* Precedes orders the readings of S.
Ordered(S) ==
  /\ IsFiniteSet(S)
  /\ \A a \in S : ~Precedes(a, a)
  /\ \A a, b, c \in S : Precedes(a, b) /\ Precedes(b, c) => Precedes(a, c)
  /\ \A a, b \in S : a # b => Precedes(a, b) \/ Precedes(b, a)

\* Of the readings that match, one comes before the other.
LEMMA FoundOrdered ==
  ASSUME Typed, NEW S, S \subseteq Found
  PROVE  Ordered(S)
<1>1. S \subseteq Ids /\ IsFiniteSet(S) /\ \A a \in S : Stored(a)
  <2>1. S \in SUBSET Ids
    BY DEF Found
  <2> QED
    BY <2>1, FS_Subset, SearchConstants DEF Found, Matches
<1>2. \A a \in S : a \in Ids /\ a \in Nat /\ Place(a) \in Nat \X Nat
  BY <1>1, RowIs, SearchConstants
<1>3. \A a, b \in S : Precedes(a, b) <=> Behind(Place(a), a, Place(b), b)
  BY <1>1, PrecedesIs
<1>4. \A a \in S : ~Precedes(a, a)
  BY <1>2, <1>3, BehindIsOrder
<1>5. \A a, b \in S : a # b => Precedes(a, b) \/ Precedes(b, a)
  BY <1>2, <1>3, BehindIsOrder
<1>6. ASSUME NEW a \in S, NEW b \in S, NEW c \in S, Precedes(a, b), Precedes(b, c)
      PROVE  Precedes(a, c)
  <2>1. Behind(Place(a), a, Place(b), b) /\ Behind(Place(b), b, Place(c), c)
    BY <1>3, <1>6
  <2>2. Behind(Place(a), a, Place(c), c)
    BY <1>2, <2>1, BehindIsOrder
  <2> QED
    BY <1>3, <2>2
<1> QED
  BY <1>1, <1>4, <1>5, <1>6 DEF Ordered

-----------------------------------------------------------------------------
(* Rows in order *)

Ahead(S, id) == {b \in S : Precedes(b, id)}
Rank(S, id)  == Cardinality(Ahead(S, id))

\* s lists S in order.
Lists(s, S) ==
  /\ s \in Seq(S) /\ Len(s) = Cardinality(S)
  /\ \A i, j \in 1 .. Len(s) : i < j => Precedes(s[i], s[j])
  /\ \A i, j \in 1 .. Len(s) : s[i] = s[j] => i = j
  /\ \A id \in S : \E i \in 1 .. Len(s) : s[i] = id

\* The rank of a reading counts those ahead of it, and grows along the order.
LEMMA RankIs ==
  ASSUME NEW S, Ordered(S), NEW a \in S
  PROVE  /\ Rank(S, a) \in Nat /\ Rank(S, a) < Cardinality(S) /\ Cardinality(S) \in Nat
         /\ \A b \in S : Precedes(a, b) => Rank(S, a) < Rank(S, b)
<1>0. IsFiniteSet(S) /\ Cardinality(S) \in Nat
  BY FS_CardinalityType DEF Ordered
<1>1. \A T : T \subseteq S => IsFiniteSet(T) /\ Cardinality(T) \in Nat /\ Cardinality(T) <= Cardinality(S)
                              /\ (Cardinality(S) = Cardinality(T) => S = T)
  BY <1>0, FS_Subset, FS_CardinalityType
<1>2. Ahead(S, a) \subseteq S /\ a \notin Ahead(S, a)
  BY DEF Ahead, Ordered
<1>3. Rank(S, a) \in Nat /\ Rank(S, a) < Cardinality(S)
  BY <1>0, <1>1, <1>2 DEF Rank
<1>4. ASSUME NEW b \in S, Precedes(a, b)
      PROVE  Rank(S, a) < Rank(S, b)
  <2>1. Ahead(S, a) \in SUBSET Ahead(S, b) /\ a \in Ahead(S, b) /\ Ahead(S, b) \subseteq S
    BY <1>4 DEF Ahead, Ordered
  <2>2. IsFiniteSet(Ahead(S, b)) /\ Rank(S, b) \in Nat
    BY <1>1, <2>1 DEF Rank
  <2>3. Rank(S, a) <= Rank(S, b) /\ (Rank(S, b) = Rank(S, a) => Ahead(S, b) = Ahead(S, a))
    BY <2>1, <2>2, FS_Subset DEF Rank
  <2> QED
    BY <1>2, <1>3, <2>1, <2>2, <2>3
<1> QED
  BY <1>0, <1>3, <1>4

\* No two readings have one rank.
LEMMA OneRank ==
  ASSUME NEW S, Ordered(S), NEW a \in S, NEW b \in S, Rank(S, a) = Rank(S, b)
  PROVE  a = b
<1>1. Rank(S, a) \in Nat /\ (Precedes(a, b) => Rank(S, a) < Rank(S, b))
  BY RankIs
<1>2. Rank(S, b) \in Nat /\ (Precedes(b, a) => Rank(S, b) < Rank(S, a))
  BY RankIs
<1> QED
  BY <1>1, <1>2 DEF Ordered

\* Every rank is that of a row: there are as many.
LEMMA EveryRank ==
  ASSUME NEW S, Ordered(S), NEW k \in 1 .. Cardinality(S)
  PROVE  \E a \in S : Rank(S, a) = k - 1
<1> DEFINE n == Cardinality(S)
           T == 1 .. n
           f == [a \in S |-> Rank(S, a) + 1]
<1>1. n \in Nat /\ IsFiniteSet(S)
  BY FS_CardinalityType DEF Ordered
<1>2. \A a \in S : Rank(S, a) \in Nat /\ Rank(S, a) + 1 \in T
  BY RankIs
<1>3. IsFiniteSet(T) /\ Cardinality(T) = n
  BY <1>1, FS_Interval
<1>4. f \in Injection(S, T)
  <2>1. f \in [S -> T]
    BY <1>2
  <2>2. \A a, b \in S : f[a] = f[b] => a = b
    BY <1>2, OneRank
  <2> HIDE DEF f
  <2> QED
    BY <2>1, <2>2 DEF Injection, IsInjective
<1> HIDE DEF f, T
<1>5. f \in Surjection(S, T)
  BY <1>3, <1>4, FS_Injection
<1>6. PICK a \in S : f[a] = k
  BY <1>5 DEF Surjection, T
<1>7. Rank(S, a) + 1 = k /\ Rank(S, a) \in Nat
  BY <1>2, <1>6 DEF f
<1> QED
  BY <1>7

\* InOrder lists the readings in order, each at its rank.
LEMMA OrderIs ==
  ASSUME NEW S, Ordered(S)
  PROVE  /\ Lists(InOrder(S), S)
         /\ \A id \in S : Rank(S, id) + 1 \in 1 .. Len(InOrder(S)) /\ InOrder(S)[Rank(S, id) + 1] = id
<1> DEFINE n == Cardinality(S)
           s == InOrder(S)
<1>1. n \in Nat
  BY FS_CardinalityType DEF Ordered
<1>2. s = [k \in 1 .. n |-> CHOOSE id \in S : Rank(S, id) = k - 1]
  BY DEF InOrder, Rank, Ahead
<1> HIDE DEF s
<1>3. \A k \in 1 .. n : s[k] \in S /\ Rank(S, s[k]) = k - 1
  BY <1>2, EveryRank
<1>4. s \in Seq(S) /\ Len(s) = n /\ DOMAIN s = 1 .. n
  <2>1. \A k \in 1 .. n : (CHOOSE id \in S : Rank(S, id) = k - 1) \in S
    BY EveryRank
  <2> QED
    BY <1>1, <1>2, <2>1
<1>5. \A id \in S : Rank(S, id) \in Nat /\ Rank(S, id) + 1 \in 1 .. n
  BY RankIs
<1>6. \A id \in S : s[Rank(S, id) + 1] = id
  <2> SUFFICES ASSUME NEW id \in S PROVE s[Rank(S, id) + 1] = id
    OBVIOUS
  <2> DEFINE k == Rank(S, id) + 1
  <2>1. k \in 1 .. n /\ Rank(S, id) = k - 1
    BY <1>5
  <2> HIDE DEF k
  <2>2. s[k] \in S /\ Rank(S, s[k]) = Rank(S, id)
    BY <1>3, <2>1
  <2> QED
    BY <2>2, OneRank DEF k
<1>7. \A i, j \in 1 .. n : i < j => Precedes(s[i], s[j])
  <2> SUFFICES ASSUME NEW i \in 1 .. n, NEW j \in 1 .. n, i < j PROVE Precedes(s[i], s[j])
    OBVIOUS
  <2>1. s[i] \in S /\ s[j] \in S /\ Rank(S, s[i]) = i - 1 /\ Rank(S, s[j]) = j - 1
    BY <1>3
  <2>2. Precedes(s[j], s[i]) => Rank(S, s[j]) < Rank(S, s[i])
    BY <2>1, RankIs
  <2>3. s[i] # s[j]
    BY <2>1
  <2> QED
    BY <2>1, <2>2, <2>3 DEF Ordered
<1>8. \A i, j \in 1 .. n : s[i] = s[j] => i = j
  <2> SUFFICES ASSUME NEW i \in 1 .. n, NEW j \in 1 .. n, s[i] = s[j] PROVE i = j
    OBVIOUS
  <2>1. i - 1 = j - 1
    BY <1>3
  <2> QED
    BY <1>1, <2>1
<1> QED
  BY <1>4, <1>5, <1>6, <1>7, <1>8 DEF Lists, s

\* t is what s goes on with after its first k rows, which are not of A.
Rest(t, s, k, A) ==
  /\ k \in Nat /\ k <= Len(s)
  /\ \A i \in 1 .. Len(s) : s[i] \in A <=> i > k
  /\ t = SubSeq(s, k + 1, Len(s))

\* What comes after all others in S is the end of the list.
LEMMA RestIs ==
  ASSUME NEW S, Ordered(S), NEW A, A \subseteq S, \A a \in A, b \in S \ A : Precedes(b, a)
  PROVE  Rest(InOrder(A), InOrder(S), Cardinality(S \ A), A)
<1> DEFINE k == Cardinality(S \ A)
           n == Cardinality(S)
           m == Cardinality(A)
           s == InOrder(S)
           t == InOrder(A)
<1>1. IsFiniteSet(S) /\ IsFiniteSet(A) /\ IsFiniteSet(S \ A) /\ n \in Nat /\ m \in Nat /\ k \in Nat
  <2>1. A \in SUBSET S /\ (S \ A) \in SUBSET S
    OBVIOUS
  <2> QED
    BY <2>1, FS_Subset, FS_CardinalityType DEF Ordered
<1>2. n = k + m
  <2>1. S = A \cup (S \ A) /\ A \cap (S \ A) = {}
    OBVIOUS
  <2>2. Cardinality(A \cup (S \ A)) = Cardinality(A) + Cardinality(S \ A) - 0
    BY <1>1, <2>1, FS_Union, FS_EmptySet
  <2> HIDE DEF k, m, n
  <2>3. n = m + k - 0
    BY <2>1, <2>2 DEF k, m, n
  <2> QED
    BY <1>1, <2>3
<1>3. Ordered(A)
  BY <1>1 DEF Ordered
<1>4. \A a \in A : Rank(S, a) = k + Rank(A, a)
  <2> SUFFICES ASSUME NEW a \in A PROVE Rank(S, a) = k + Rank(A, a)
    OBVIOUS
  <2>1. Ahead(S, a) = (S \ A) \cup Ahead(A, a) /\ (S \ A) \cap Ahead(A, a) = {}
    BY DEF Ahead
  <2>2. Ahead(A, a) \in SUBSET A
    BY DEF Ahead
  <2>3. IsFiniteSet(Ahead(A, a)) /\ Cardinality(Ahead(A, a)) \in Nat
    BY <1>1, <2>2, FS_Subset, FS_CardinalityType
  <2>4. Cardinality((S \ A) \cup Ahead(A, a)) = Cardinality(S \ A) + Cardinality(Ahead(A, a)) - 0
    BY <1>1, <2>1, <2>3, FS_Union, FS_EmptySet, ZenonT(30)
  <2> QED
    BY <1>1, <2>1, <2>3, <2>4 DEF Rank
<1>5. /\ s \in Seq(S) /\ Len(s) = n /\ \A id \in S : Rank(S, id) + 1 \in 1 .. n /\ s[Rank(S, id) + 1] = id
      /\ \A i, j \in 1 .. n : s[i] = s[j] => i = j
  BY OrderIs DEF Lists
<1>6. /\ t \in Seq(A) /\ Len(t) = m /\ \A id \in A : Rank(A, id) + 1 \in 1 .. m /\ t[Rank(A, id) + 1] = id
      /\ \A i, j \in 1 .. m : t[i] = t[j] => i = j
  BY <1>3, OrderIs DEF Lists
<1>7. \A id \in A : Rank(A, id) \in Nat
  BY <1>3, RankIs
<1>8. \A id \in S : Rank(S, id) \in Nat
  BY RankIs
<1> HIDE DEF s, t, k, n, m
<1>9. ASSUME NEW j \in 1 .. m PROVE t[j] \in A /\ s[k + j] = t[j] /\ k + j \in 1 .. n
  <2>1. t[j] \in A
    BY <1>1, <1>6
  <2>2. Rank(A, t[j]) + 1 = j
    BY <1>6, <2>1
  <2>3. Rank(S, t[j]) + 1 = k + j
    BY <1>1, <1>4, <1>7, <2>1, <2>2
  <2> QED
    BY <1>5, <2>1, <2>3
<1>10. \A i \in 1 .. n : s[i] \in A <=> i > k
  <2> SUFFICES ASSUME NEW i \in 1 .. n PROVE s[i] \in A <=> i > k
    OBVIOUS
  <2>1. ASSUME i > k PROVE s[i] \in A
    <3> DEFINE j == i - k
    <3>1. j \in 1 .. m /\ i = k + j
      BY <1>1, <1>2, <2>1
    <3> HIDE DEF j
    <3> QED
      BY <1>9, <3>1
  <2>2. ASSUME s[i] \in A PROVE i > k
    <3>1. Rank(S, s[i]) + 1 = i
      BY <1>5, <2>2
    <3> QED
      BY <1>1, <1>4, <1>7, <2>2, <3>1
  <2> QED
    BY <2>1, <2>2
<1>11. t = SubSeq(s, k + 1, n)
  <2>1. SubSeq(s, k + 1, n) = [j \in 1 .. m |-> s[j + k]]
    <3>1. n - (k + 1) + 1 = m /\ \A j \in 1 .. m : (k + 1) + j - 1 = j + k
      BY <1>1, <1>2
    <3>2. SubSeq(s, k + 1, n) = [j \in 1 .. (n - (k + 1) + 1) |-> s[(k + 1) + j - 1]]
      BY <1>1, <1>5
    <3>3. [j \in 1 .. m |-> s[(k + 1) + j - 1]] = [j \in 1 .. m |-> s[j + k]]
      BY <3>1
    <3> QED
      BY <3>1, <3>2, <3>3
  <2>2. t = [j \in 1 .. m |-> t[j]]
    BY <1>6
  <2>3. \A j \in 1 .. m : s[j + k] = t[j]
    BY <1>1, <1>9
  <2> QED
    BY <2>1, <2>2, <2>3
<1>12. Rest(t, s, k, A)
  <2>1. k <= n
    BY <1>1, <1>2
  <2> QED
    BY <1>1, <1>5, <1>10, <1>11, <2>1 DEF Rest
<1> QED
  BY <1>12 DEF k, s, t

-----------------------------------------------------------------------------
(* Pages *)

CursorOK(c) ==
  /\ c.valid \in BOOLEAN
  /\ c.valid => /\ c.id \in Ids /\ c.created \in Nat /\ c.title \in Titles
                /\ c.rank \in Nat /\ (query.text <=> c.rank > 0)

\* The place where a page ended, and what is behind it.
CursorPlace(c) == <<c.rank, IF query.sort = "title" THEN Lowered[c.title] ELSE c.created>>
After(id, c)   == Behind(CursorPlace(c), c.id, Place(id), id)
Left(c)        == {id \in Found : c.valid => After(id, c)}

\* A reading that matches has a place, and a score if there is a text.
LEMMA FoundIs ==
  ASSUME Typed, NEW id \in Found
  PROVE  /\ id \in Ids /\ id \in Nat /\ Stored(id)
         /\ scoreReading(id) \in Nat /\ (query.text <=> scoreReading(id) > 0)
<1>1. id \in Ids /\ id \in Nat /\ Stored(id)
  BY SearchConstants DEF Found, Matches
<1>2. scoreReading(id) \in Nat
  BY <1>1, RowIs
<1>3. query.text <=> scoreReading(id) > 0
  <2>1. query.text \in BOOLEAN
    BY QueryIs
  <2>2. CASE query.text
    BY <2>2 DEF Found, Matches
  <2>3. CASE ~query.text
    BY <2>3 DEF scoreReading
  <2> QED
    BY <2>1, <2>2, <2>3
<1> QED
  BY <1>1, <1>2, <1>3

\* A cursor holds a place.
LEMMA CursorPlaceIs ==
  ASSUME Typed, NEW c, CursorOK(c), c.valid
  PROVE  /\ CursorPlace(c) \in Nat \X Nat /\ c.id \in Nat
         /\ Lowered[c.title] \in Nat /\ c.created \in Nat /\ c.rank \in Nat
BY SearchConstants DEF CursorOK, CursorPlace, Titles

\* isAfterCursor compares the places of the row and the cursor.
LEMMA AfterIs ==
  ASSUME Typed, NEW c, CursorOK(c), c.valid, NEW id \in Found
  PROVE  /\ isAfterCursor(id, c) <=> After(id, c)
         /\ query.sort = "oldest" =>
              (SQLAfter(id, c, PairLess(c.created, c.id, readings[id].created, id)) <=> After(id, c))
         /\ query.sort = "title" =>
              (SQLAfter(id, c, c.valid /\ PairLess(Lowered[c.title], c.id, Lowered[readings[id].title], id))
                 <=> After(id, c))
         /\ query.sort = "newest" =>
              (SQLAfter(id, c, PairLess(readings[id].created, id, c.created, c.id)) <=> After(id, c))
<1>1. /\ id \in Nat /\ readings[id].created \in Nat /\ Lowered[readings[id].title] \in Nat
      /\ scoreReading(id) \in Nat /\ (query.text <=> scoreReading(id) > 0)
  BY FoundIs, RowIs
<1>2. /\ c.id \in Nat /\ c.created \in Nat /\ Lowered[c.title] \in Nat
      /\ c.rank \in Nat /\ (query.text <=> c.rank > 0)
  BY CursorPlaceIs DEF CursorOK
<1>3. /\ Place(id)[1] = scoreReading(id)
      /\ Place(id)[2] = IF query.sort = "title" THEN Lowered[readings[id].title] ELSE readings[id].created
      /\ CursorPlace(c)[1] = c.rank
      /\ CursorPlace(c)[2] = IF query.sort = "title" THEN Lowered[c.title] ELSE c.created
  BY DEF Place, CursorPlace
<1>4. query.text \in BOOLEAN
  BY QueryIs
<1> HIDE DEF Place, CursorPlace, scoreReading
<1>5. CASE query.sort = "oldest"
  BY <1>1, <1>2, <1>3, <1>4, <1>5 DEF isAfterCursor, SQLAfter, After, Behind
<1>6. CASE query.sort = "title"
  BY <1>1, <1>2, <1>3, <1>4, <1>6 DEF isAfterCursor, SQLAfter, After, Behind
<1>7. CASE query.sort = "newest"
  BY <1>1, <1>2, <1>3, <1>4, <1>7 DEF isAfterCursor, SQLAfter, After, Behind
<1> QED
  BY <1>5, <1>6, <1>7, QueryIs

\* What is after a cursor comes after all others.
LEMMA LeftIs ==
  ASSUME Typed, NEW c, CursorOK(c)
  PROVE  /\ Ordered(Found) /\ Ordered(Left(c)) /\ Left(c) \subseteq Found
         /\ \A a \in Left(c), b \in Found \ Left(c) : Precedes(b, a)
<1>1. Ordered(Found) /\ Ordered(Left(c)) /\ Left(c) \subseteq Found
  BY FoundOrdered DEF Left
<1>2. ASSUME NEW a \in Left(c), NEW b \in Found \ Left(c)
      PROVE  Precedes(b, a)
  <2>1. c.valid /\ After(a, c) /\ ~After(b, c)
    BY <1>2 DEF Left, CursorOK
  <2>2. /\ a \in Ids /\ b \in Ids /\ a \in Nat /\ b \in Nat /\ Stored(a) /\ Stored(b)
        /\ Place(a) \in Nat \X Nat /\ Place(b) \in Nat \X Nat
    BY <1>1, FoundIs, RowIs
  <2>3. Precedes(a, b) => Behind(Place(a), a, Place(b), b)
    BY <2>2, PrecedesIs
  <2>4. CursorPlace(c) \in Nat \X Nat /\ c.id \in Nat
    BY <2>1, CursorPlaceIs
  <2>5. ~Precedes(a, b)
    BY <2>1, <2>2, <2>3, <2>4, BehindIsOrder DEF After
  <2>6. a # b /\ a \in Found
    BY <1>1, <2>1
  <2> QED
    BY <1>1, <2>5, <2>6 DEF Ordered
<1> QED
  BY <1>1, <1>2

\* applyCursor finds what is after the cursor.
LEMMA MemoryPageIs ==
  ASSUME Typed, NEW c, CursorOK(c)
  PROVE  MemoryPage(c) = PageOf(InOrder(Left(c)))
<1> DEFINE s == InOrder(Found)
           t == InOrder(Left(c))
           k == Cardinality(Found \ Left(c))
           n == Len(s)
           after == {i \in DOMAIN s : isAfterCursor(s[i], c)}
<1>1. sortMatches = s
  BY DEF sortMatches, Found
<1>2. CASE ~c.valid
  <2>1. Left(c) = Found
    BY <1>2 DEF Left
  <2> QED
    BY <1>1, <1>2, <2>1 DEF MemoryPage, applyCursor
<1>3. CASE c.valid
  <2>1. Rest(t, s, k, Left(c))
    BY LeftIs, RestIs
  <2>2. s \in Seq(Found) /\ n \in Nat /\ DOMAIN s = 1 .. n
    BY LeftIs, OrderIs DEF Lists
  <2>3. \A i \in 1 .. n : isAfterCursor(s[i], c) <=> s[i] \in Left(c)
    <3> SUFFICES ASSUME NEW i \in 1 .. n PROVE isAfterCursor(s[i], c) <=> s[i] \in Left(c)
      OBVIOUS
    <3>1. s[i] \in Found
      BY <2>2
    <3> QED
      BY <1>3, <3>1, AfterIs DEF Left
  <2>4. /\ k \in Nat /\ k <= n /\ \A i \in 1 .. n : i \in after <=> i > k
        /\ t = SubSeq(s, k + 1, n)
    BY <2>1, <2>2, <2>3 DEF Rest
  <2>5. applyCursor(s, c) = IF after = {} THEN << >>
                            ELSE SubSeq(s, CHOOSE i \in after : \A j \in after : i <= j, n)
    BY <1>3 DEF applyCursor
  <2>6. after \subseteq 1 .. n
    BY <2>2
  <2> HIDE DEF s, t, k, after
  <2>7. CASE after = {}
    <3>1. k = n
      <4>1. n > k => n \in after
        BY <2>2, <2>4
      <4>2. n \notin after
        BY <2>7
      <4>3. k \in Nat /\ k <= n /\ n \in Nat
        BY <2>2, <2>4
      <4>4. ~(n > k)
        BY <4>1, <4>2
      <4> HIDE DEF n
      <4> QED
        BY <4>3, <4>4
    <3>2. t = << >>
      BY <2>2, <2>4, <3>1
    <3> QED
      BY <1>1, <2>5, <2>7, <3>2 DEF MemoryPage, t
  <2>8. CASE after # {}
    <3>1. k + 1 \in after
      <4>1. PICK i : i \in after
        BY <2>8
      <4>2. i \in 1 .. n /\ i > k
        BY <2>4, <2>6, <4>1
      <4>3. k + 1 \in 1 .. n /\ k + 1 > k
        BY <2>2, <2>4, <4>2
      <4> QED
        BY <2>4, <4>3
    <3>2. \A i \in after : i \in Nat /\ (i <= k + 1 => i = k + 1) /\ k + 1 <= i
      BY <2>2, <2>4, <2>6
    <3>3. (CHOOSE i \in after : \A j \in after : i <= j) = k + 1
      BY <3>1, <3>2
    <3> QED
      BY <1>1, <2>4, <2>5, <2>8, <3>3 DEF MemoryPage, t
  <2> QED
    BY <2>7, <2>8
<1> QED
  BY <1>2, <1>3 DEF CursorOK

\* The where clauses select what is after the cursor, of which one row more than
\* the page is read.
LEMMA PostgresPageIs ==
  ASSUME Typed, NEW c, CursorOK(c)
  PROVE  PostgresPage(c) = PageOf(InOrder(Left(c)))
<1> DEFINE where == CASE query.sort = "oldest" -> SearchReadingsOldest(c)
                      [] query.sort = "title"  -> SearchReadingsTitle(c)
                      [] OTHER                 -> SearchReadingsNewest(c)
           s == InOrder(Left(c))
           n == Len(s)
           limit == query.limit
           r == SubSeq(s, 1, IF n > limit THEN limit + 1 ELSE n)
<1>1. where = Left(c)
  <2>1. CASE c.valid
    <3>1. CASE query.sort = "oldest"
      BY <2>1, <3>1, AfterIs DEF SearchReadingsOldest, Left, Found
    <3>2. CASE query.sort = "title"
      BY <2>1, <3>2, AfterIs DEF SearchReadingsTitle, Left, Found
    <3>3. CASE query.sort = "newest"
      BY <2>1, <3>3, AfterIs DEF SearchReadingsNewest, Left, Found
    <3> QED
      BY <3>1, <3>2, <3>3, QueryIs
  <2>2. CASE ~c.valid
    BY <2>2 DEF SearchReadingsOldest, SearchReadingsTitle, SearchReadingsNewest, SQLAfter, Left, Found
  <2> QED
    BY <2>1, <2>2 DEF CursorOK
<1>2. PostgresPage(c) = PageOf(r)
  BY <1>1 DEF PostgresPage, searchRows
<1>3. s \in Seq(Left(c)) /\ n \in Nat /\ limit \in Nat \ {0}
  BY LeftIs, OrderIs, QueryIs DEF Lists
<1> HIDE DEF s, limit
<1>4. PageOf(r) = PageOf(s)
  <2>1. CASE n > limit
    <3>1. r = [i \in 1 .. limit + 1 |-> s[i]] /\ Len(r) = limit + 1
      BY <1>3, <2>1
    <3>2. r \in Seq(Left(c)) /\ r[limit] = s[limit]
      BY <1>3, <2>1, <3>1
    <3>3. SubSeq(r, 1, limit) = SubSeq(s, 1, limit)
      <4>1. SubSeq(r, 1, limit) = [i \in 1 .. limit |-> r[i]]
        BY <1>3, <3>1, <3>2
      <4>2. SubSeq(s, 1, limit) = [i \in 1 .. limit |-> s[i]]
        BY <1>3, <2>1
      <4>3. \A i \in 1 .. limit : r[i] = s[i]
        BY <1>3, <3>1
      <4> QED
        BY <4>1, <4>2, <4>3
    <3> HIDE DEF r
    <3>4. PageOf(r) = [ids |-> SubSeq(r, 1, limit), next |-> CursorAt(r[limit])]
      <4>1. Len(r) > query.limit
        BY <1>3, <3>1 DEF limit
      <4> QED
        BY <4>1 DEF PageOf, limit
    <3>5. PageOf(s) = [ids |-> SubSeq(s, 1, limit), next |-> CursorAt(s[limit])]
      BY <2>1 DEF PageOf, limit
    <3> QED
      BY <3>2, <3>3, <3>4, <3>5
  <2>2. CASE ~(n > limit)
    <3>1. r = SubSeq(s, 1, n)
      BY <2>2
    <3>2. SubSeq(s, 1, n) = s
      BY <1>3
    <3> QED
      BY <3>1, <3>2
  <2> QED
    BY <2>1, <2>2
<1> QED
  BY <1>2, <1>4 DEF s

\* What a page has, and where it ends.
IsPage(page, c) ==
  /\ page.ids \in Seq(Left(c))
  /\ \A i, j \in 1 .. Len(page.ids) : i < j => Precedes(page.ids[i], page.ids[j])
  /\ \A i, j \in 1 .. Len(page.ids) : page.ids[i] = page.ids[j] => i = j
  /\ CursorOK(page.next)
  /\ \A id \in Left(c) :
       \/ \E i \in 1 .. Len(page.ids) : page.ids[i] = id
       \/ page.next.valid /\ After(id, page.next)
  /\ page.next.valid => \E x \in Left(c) : page.next = CursorAt(x)
  /\ page.next.valid => \A i \in 1 .. Len(page.ids) : ~After(page.ids[i], page.next)

\* The cursor of a row that matches holds its place.
LEMMA CursorAtIs ==
  ASSUME Typed, NEW x \in Found
  PROVE  /\ CursorOK(CursorAt(x)) /\ CursorAt(x).valid /\ CursorAt(x).id = x
         /\ CursorPlace(CursorAt(x)) = Place(x)
         /\ \A id \in Found : After(id, CursorAt(x)) <=> Precedes(x, id)
<1>1. /\ CursorAt(x).valid /\ CursorAt(x).id = x /\ CursorAt(x).created = readings[x].created
      /\ CursorAt(x).title = readings[x].title /\ CursorAt(x).rank = scoreReading(x)
  BY DEF CursorAt
<1>2. x \in Ids /\ Stored(x) /\ scoreReading(x) \in Nat /\ (query.text <=> scoreReading(x) > 0)
  BY FoundIs
<1>3. CursorPlace(CursorAt(x)) = Place(x)
  BY <1>1 DEF CursorPlace, Place
<1>4. CursorOK(CursorAt(x))
  <2>1. CursorAt(x).valid = TRUE
    BY DEF CursorAt
  <2> QED
    BY <1>1, <1>2, <2>1, RowIs DEF CursorOK
<1>5. \A id \in Found : After(id, CursorAt(x)) <=> Precedes(x, id)
  BY <1>1, <1>2, <1>3, FoundIs, PrecedesIs DEF After
<1> QED
  BY <1>1, <1>3, <1>4, <1>5

\* What a page of the rows after the cursor holds.
LEMMA PageIs ==
  ASSUME Typed, NEW c, CursorOK(c), NEW page, page = PageOf(InOrder(Left(c)))
  PROVE  IsPage(page, c)
<1> DEFINE s == InOrder(Left(c))
           n == Len(s)
           limit == query.limit
<1>1. Lists(s, Left(c)) /\ Left(c) \subseteq Found
  BY LeftIs, OrderIs
<1>2. s \in Seq(Left(c)) /\ n \in Nat /\ limit \in Nat \ {0}
  BY <1>1, QueryIs DEF Lists
<1>3. page = IF n > limit THEN [ids |-> SubSeq(s, 1, limit), next |-> CursorAt(s[limit])]
             ELSE [ids |-> s, next |-> NoCursor]
  BY DEF PageOf
<1>4. /\ \A i, j \in 1 .. n : i < j => Precedes(s[i], s[j])
      /\ \A i, j \in 1 .. n : s[i] = s[j] => i = j
      /\ \A id \in Left(c) : \E i \in 1 .. n : s[i] = id
  BY <1>1 DEF Lists
<1> HIDE DEF s, limit
<1>5. CASE n > limit
  <2> DEFINE x == s[limit]
             ids == SubSeq(s, 1, limit)
  <2>1. page.ids = ids /\ page.next = CursorAt(x)
    <3>1. page = [ids |-> ids, next |-> CursorAt(x)]
      BY <1>3, <1>5
    <3> HIDE DEF ids, x
    <3> QED
      BY <3>1
  <2>2. limit \in 1 .. n /\ x \in Left(c) /\ \A i \in 1 .. limit : i \in 1 .. n
    BY <1>2, <1>5
  <2>3. ids \in Seq(Left(c)) /\ Len(ids) = limit /\ \A i \in 1 .. limit : ids[i] = s[i]
    BY <1>2, <1>5
  <2>4. /\ CursorOK(CursorAt(x)) /\ CursorAt(x).valid
        /\ \A id \in Left(c) : After(id, CursorAt(x)) <=> Precedes(x, id)
    BY <1>1, <2>2, CursorAtIs
  <2> HIDE DEF ids
  <2>5. ASSUME NEW id \in Left(c)
        PROVE  (\E i \in 1 .. limit : ids[i] = id) \/ After(id, CursorAt(x))
    <3>1. PICK i \in 1 .. n : s[i] = id
      BY <1>4
    <3>2. CASE i <= limit
      BY <1>2, <2>3, <3>1, <3>2
    <3>3. CASE ~(i <= limit)
      <4>1. Precedes(x, id)
        <5>1. limit < i
          BY <1>2, <3>3
        <5>2. Precedes(s[limit], s[i])
          BY <1>4, <2>2, <5>1
        <5> QED
          BY <3>1, <5>2
      <4> QED
        BY <2>4, <4>1
    <3> QED
      BY <3>2, <3>3
  <2>6. ASSUME NEW i \in 1 .. limit
        PROVE  ~After(ids[i], CursorAt(x))
    <3>1. ids[i] = s[i] /\ s[i] \in Left(c)
      BY <1>2, <2>2, <2>3
    <3>2. CASE i = limit
      <4>1. ~Precedes(x, x)
        BY <2>2, LeftIs DEF Ordered
      <4> QED
        BY <2>2, <2>4, <3>1, <3>2, <4>1
    <3>3. CASE i # limit
      <4>1. Precedes(s[i], x)
        BY <1>2, <1>4, <2>2, <3>3
      <4>2. ~Precedes(x, s[i])
        BY <2>2, <3>1, <4>1, LeftIs DEF Ordered
      <4> QED
        BY <2>4, <3>1, <4>2
    <3> QED
      BY <3>2, <3>3
  <2>7. \A i, j \in 1 .. limit : i < j => Precedes(ids[i], ids[j])
    BY <1>4, <2>2, <2>3
  <2>8. \A i, j \in 1 .. limit : ids[i] = ids[j] => i = j
    BY <1>4, <2>2, <2>3
  <2> HIDE DEF x
  <2> QED
    BY <2>1, <2>2, <2>3, <2>4, <2>5, <2>6, <2>7, <2>8 DEF IsPage
<1>6. CASE ~(n > limit)
  <2>1. page.ids = s /\ page.next.valid = FALSE
    <3>1. page = [ids |-> s, next |-> NoCursor]
      BY <1>3, <1>6
    <3>2. NoCursor.valid = FALSE
      BY DEF NoCursor
    <3> QED
      BY <3>1, <3>2
  <2>2. CursorOK(page.next) /\ ~page.next.valid
    BY <2>1 DEF CursorOK
  <2>3. /\ page.ids \in Seq(Left(c))
        /\ \A i, j \in 1 .. Len(page.ids) : i < j => Precedes(page.ids[i], page.ids[j])
        /\ \A i, j \in 1 .. Len(page.ids) : page.ids[i] = page.ids[j] => i = j
        /\ \A id \in Left(c) : \E i \in 1 .. Len(page.ids) : page.ids[i] = id
    BY <1>2, <1>4, <2>1
  <2> QED
    BY <2>2, <2>3 DEF IsPage
<1> QED
  BY <1>5, <1>6

-----------------------------------------------------------------------------
(* The invariant *)

\* Every reading that does not match now has been seen not to.
Watched ==
  /\ past = [moved |-> past.moved, absent |-> past.absent]
  /\ \A id \in Ids : ~Matches(id) => id \in past.absent

\* What was listed and has not moved is where the walk has been.
Behindhand ==
  /\ out \in Seq(Ids)
  /\ \A i \in DOMAIN out :
       /\ readings[out[i]] # Unused
       /\ at # "done" /\ out[i] \notin past.moved /\ Stored(out[i]) => ~After(out[i], cursor)
  /\ at # "done" /\ ~cursor.valid => out = << >>

\* What matches all the time is listed or still to come.
Listed(id) == \E i \in DOMAIN out : out[i] = id
ToCome(id) == at # "done" /\ (cursor.valid => After(id, cursor))
NoneLeftOut == \A id \in Steady : Listed(id) \/ ToCome(id)

NoneTwice == \A i, j \in DOMAIN out : out[i] = out[j] /\ i # j => out[i] \in past.moved

Walk ==
  /\ Typed /\ at \in {"ask", "counted", "done"} /\ CursorOK(cursor)
  /\ Watched /\ Behindhand /\ NoneLeftOut /\ NoneTwice /\ OrderAcrossPages

\* The total is of all that matched when it was counted.
Counted ==
  /\ changes \in Nat
  /\ changes = 0 => Steady = Found
  /\ at = "counted" \/ out # << >> =>
       /\ total \in Nat /\ Cardinality(Steady) <= total
       /\ changes = 0 => total = Cardinality(Steady)

-----------------------------------------------------------------------------
(* A page is taken *)

\* Readings that stayed match now, and are no more than match.
LEMMA SteadyIs ==
  ASSUME Typed, Watched
  PROVE  /\ Steady \subseteq Found /\ \A id \in Steady : id \in Ids /\ id \notin past.moved /\ Stored(id)
         /\ IsFiniteSet(Found) /\ IsFiniteSet(Steady)
         /\ Cardinality(Found) \in Nat /\ Cardinality(Steady) \in Nat
         /\ Cardinality(Steady) <= Cardinality(Found)
<1>1. Steady \subseteq Found /\ \A id \in Steady : id \in Ids /\ id \notin past.moved /\ Stored(id)
  BY DEF Watched, Steady, Found, Matches
<1>2. IsFiniteSet(Found)
  <2>1. Found \in SUBSET Ids
    BY DEF Found
  <2> QED
    BY <2>1, FS_Subset, SearchConstants
<1>3. Steady \in SUBSET Found
  BY <1>1
<1> QED
  BY <1>1, <1>2, <1>3, FS_Subset, FS_CardinalityType

\* A page moves the cursor, and nothing is passed over or comes again.
LEMMA TakeWalks ==
  ASSUME Walk, at # "done", NEW page, Take(page), IsPage(page, cursor)
  PROVE  Walk'
<1> DEFINE ids == page.ids
           m   == Len(out)
           n   == Len(ids)
<1>1. /\ Typed /\ CursorOK(cursor) /\ Watched /\ Behindhand /\ NoneLeftOut /\ NoneTwice /\ OrderAcrossPages
  BY DEF Walk
<1>2. /\ out' = out \o ids /\ cursor' = page.next
      /\ at' = IF page.next.valid THEN "ask" ELSE "done"
      /\ UNCHANGED <<readings, query, past>>
  BY DEF Take
<1>3. /\ ids \in Seq(Left(cursor)) /\ Left(cursor) \subseteq Found /\ Found \subseteq Ids
      /\ CursorOK(page.next) /\ page.next.valid \in BOOLEAN
      /\ \A i, j \in 1 .. n : i < j => Precedes(ids[i], ids[j])
      /\ \A i, j \in 1 .. n : ids[i] = ids[j] => i = j
      /\ \A id \in Left(cursor) :
           (\E i \in 1 .. n : ids[i] = id) \/ (page.next.valid /\ After(id, page.next))
      /\ page.next.valid => \E x \in Left(cursor) : page.next = CursorAt(x)
      /\ page.next.valid => \A i \in 1 .. n : ~After(ids[i], page.next)
  BY DEF IsPage, CursorOK, Left, Found
<1>4. /\ m \in Nat /\ n \in Nat /\ out \in Seq(Ids) /\ out' \in Seq(Ids)
      /\ DOMAIN out = 1 .. m /\ DOMAIN out' = 1 .. (m + n)
      /\ \A i \in 1 .. m : out'[i] = out[i] /\ i \in 1 .. (m + n)
      /\ \A j \in 1 .. n : out'[m + j] = ids[j] /\ ids[j] \in Left(cursor) /\ m + j \in 1 .. (m + n)
  <2>1. ids \in Seq(Ids) /\ out \in Seq(Ids)
    BY <1>1, <1>3 DEF Behindhand
  <2> HIDE DEF ids
  <2> QED
    BY <1>2, <1>3, <2>1, SMTT(30)
<1> HIDE DEF ids, m, n
<1>5. ASSUME NEW i \in 1 .. (m + n), i \notin 1 .. m
      PROVE  \E j \in 1 .. n : i = m + j
  <2>1. i - m \in 1 .. n /\ i = m + (i - m)
    BY <1>4, <1>5
  <2> QED
    BY <2>1
<1>6. /\ Typed' /\ Watched' /\ CursorOK(cursor)' /\ Steady' = Steady /\ Found' = Found
      /\ \A id \in Ids : Place(id)' = Place(id) /\ (Stored(id)' <=> Stored(id))
      /\ \A id, c : After(id, c)' <=> After(id, c)
  <2>1. UNCHANGED <<readings, query, past>>
    BY <1>2
  <2>2. \A id \in Ids : /\ Place(id)' = Place(id) /\ (Stored(id)' <=> Stored(id))
                        /\ (Matches(id)' <=> Matches(id))
    BY <2>1 DEF Place, scoreReading, Stored, Matches
  <2>3. \A id, c : After(id, c)' <=> After(id, c)
    BY <2>1 DEF After, CursorPlace, Place, scoreReading, Behind
  <2>4. Typed' /\ Watched' /\ Steady' = Steady /\ Found' = Found
    BY <1>1, <2>1, <2>2 DEF Typed, Watched, Steady, Found
  <2>5. CursorOK(cursor)'
    BY <1>2, <1>3, <2>1 DEF CursorOK
  <2> QED
    BY <2>2, <2>3, <2>4, <2>5
\* What was listed before is not behind the cursor, what comes is.
<1>7. ASSUME NEW i \in 1 .. m, out[i] \notin past.moved, Stored(out[i])
      PROVE  cursor.valid /\ ~After(out[i], cursor) /\ out[i] \in Ids
  BY <1>1, <1>4, <1>7 DEF Behindhand, CursorOK
<1>8. ASSUME NEW j \in 1 .. n
      PROVE  /\ ids[j] \in Ids /\ Stored(ids[j]) /\ readings[ids[j]] # Unused
             /\ cursor.valid => After(ids[j], cursor)
  <2>1. ids[j] \in Left(cursor)
    BY <1>4
  <2> QED
    BY <1>3, <2>1 DEF Left, Found, Matches, Stored
<1>9. Behindhand'
  <2>1. ASSUME NEW i \in 1 .. (m + n)
        PROVE  /\ readings[out'[i]] # Unused
               /\ at' # "done" /\ out'[i] \notin past.moved /\ Stored(out'[i]) => ~After(out'[i], page.next)
    <3>1. CASE i \in 1 .. m
      <4>1. out'[i] = out[i] /\ readings[out[i]] # Unused
        BY <1>1, <1>4, <3>1 DEF Behindhand
      <4>2. ASSUME at' # "done", out[i] \notin past.moved, Stored(out[i])
            PROVE  ~After(out[i], page.next)
        <5>1. cursor.valid /\ ~After(out[i], cursor) /\ out[i] \in Ids
          BY <1>7, <3>1, <4>2
        <5>2. PICK x \in Left(cursor) : page.next = CursorAt(x)
          BY <1>2, <1>3, <4>2
        <5>3. /\ After(x, cursor) /\ x \in Nat /\ Place(x) \in Nat \X Nat
              /\ CursorPlace(page.next) = Place(x) /\ page.next.id = x
          BY <1>1, <1>3, <5>1, <5>2, FoundIs, RowIs, CursorAtIs DEF Left
        <5>4. /\ CursorPlace(cursor) \in Nat \X Nat /\ cursor.id \in Nat
              /\ out[i] \in Nat /\ Place(out[i]) \in Nat \X Nat
          BY <1>1, <4>2, <5>1, CursorPlaceIs, RowIs, SearchConstants
        <5> QED
          BY <5>1, <5>3, <5>4, BehindIsOrder, SMTT(30) DEF After
      <4> QED
        BY <4>1, <4>2
    <3>2. CASE i \notin 1 .. m
      <4>1. PICK j \in 1 .. n : i = m + j
        BY <1>5, <3>2
      <4>2. out'[i] = ids[j] /\ readings[ids[j]] # Unused
        BY <1>4, <1>8, <4>1
      <4>3. page.next.valid => ~After(ids[j], page.next)
        BY <1>3
      <4> QED
        BY <1>2, <4>2, <4>3
    <3> QED
      BY <3>1, <3>2
  <2>2. at' # "done" => cursor'.valid
    BY <1>2
  <2>3. \A i \in 1 .. (m + n) : /\ After(out[i], cursor)' <=> After(out'[i], page.next)
                                /\ Stored(out[i])' <=> Stored(out'[i])
    BY <1>2 DEF After, CursorPlace, Behind, Place, scoreReading, Stored
  <2>4. UNCHANGED <<readings, past>>
    BY <1>2
  <2> QED
    BY <1>4, <2>1, <2>2, <2>3, <2>4 DEF Behindhand
<1>10. NoneLeftOut'
  <2>1. ASSUME NEW id \in Steady
        PROVE  (\E i \in 1 .. (m + n) : out'[i] = id) \/ (page.next.valid /\ After(id, page.next))
    <3>1. CASE Listed(id)
      BY <1>4, <3>1 DEF Listed
    <3>2. CASE ToCome(id)
      <4>1. id \in Left(cursor)
        BY <1>1, <3>2, SteadyIs DEF ToCome, Left
      <4>2. CASE \E j \in 1 .. n : ids[j] = id
        BY <1>4, <4>2
      <4> QED
        BY <1>3, <4>1, <4>2
    <3> QED
      BY <1>1, <3>1, <3>2 DEF NoneLeftOut
  <2>2. page.next.valid => at' # "done"
    BY <1>2
  <2> QED
    BY <1>2, <1>4, <1>6, <2>1, <2>2 DEF NoneLeftOut, Listed, ToCome
\* One that is in the page and was listed before has moved.
<1>11. ASSUME NEW i \in 1 .. m, NEW j \in 1 .. n, out[i] = ids[j]
       PROVE  out[i] \in past.moved
  BY <1>7, <1>8, <1>11
<1>12. NoneTwice'
  <2> SUFFICES ASSUME NEW i \in 1 .. (m + n), NEW j \in 1 .. (m + n), out'[i] = out'[j], i # j
               PROVE  out'[i] \in past.moved
    BY <1>2, <1>4 DEF NoneTwice
  <2>1. CASE i \in 1 .. m /\ j \in 1 .. m
    BY <1>1, <1>4, <2>1 DEF NoneTwice
  <2>2. CASE i \in 1 .. m /\ j \notin 1 .. m
    <3>1. PICK l \in 1 .. n : j = m + l
      BY <1>5, <2>2
    <3> QED
      BY <1>4, <1>11, <2>2, <3>1
  <2>3. CASE i \notin 1 .. m /\ j \in 1 .. m
    <3>1. PICK k \in 1 .. n : i = m + k
      BY <1>5, <2>3
    <3> QED
      BY <1>4, <1>11, <2>3, <3>1
  <2>4. CASE i \notin 1 .. m /\ j \notin 1 .. m
    <3>1. PICK k \in 1 .. n : i = m + k
      BY <1>5, <2>4
    <3>2. PICK l \in 1 .. n : j = m + l
      BY <1>5, <2>4
    <3>3. ids[k] = ids[l]
      BY <1>4, <3>1, <3>2
    <3> QED
      BY <1>3, <3>1, <3>2, <3>3
  <2> QED
    BY <2>1, <2>2, <2>3, <2>4
<1>13. OrderAcrossPages'
  <2> SUFFICES ASSUME NEW i \in 1 .. (m + n), NEW j \in 1 .. (m + n), i < j,
                      out'[i] \in Steady, out'[j] \in Steady
               PROVE  Behind(Place(out'[i]), out'[i], Place(out'[j]), out'[j])
    <3>1. \A i, j \in 1 .. (m + n) : out'[i] \in Steady /\ out'[j] \in Steady =>
             (Behind(Place(out[i]), out[i], Place(out[j]), out[j])' <=>
              Behind(Place(out'[i]), out'[i], Place(out'[j]), out'[j]))
      BY <1>2 DEF Behind, Place, scoreReading
    <3> QED
      BY <1>4, <1>6, <3>1 DEF OrderAcrossPages
  <2>0. /\ out'[i] \in Ids /\ out'[j] \in Ids /\ out'[i] \in Nat /\ out'[j] \in Nat
        /\ Stored(out'[i]) /\ Stored(out'[j]) /\ out'[i] \notin past.moved
        /\ Place(out'[i]) \in Nat \X Nat /\ Place(out'[j]) \in Nat \X Nat
    BY <1>1, SteadyIs, RowIs, SearchConstants
  <2>1. CASE j \in 1 .. m
    <3>1. i \in 1 .. m
      BY <1>4, <2>1
    <3> QED
      BY <1>1, <1>4, <2>1, <3>1 DEF OrderAcrossPages
  <2>2. CASE i \in 1 .. m /\ j \notin 1 .. m
    <3>1. PICK l \in 1 .. n : j = m + l
      BY <1>5, <2>2
    <3>2. out'[i] = out[i] /\ out'[j] = ids[l]
      BY <1>4, <2>2, <3>1
    <3>3. cursor.valid /\ ~After(out[i], cursor) /\ After(ids[l], cursor)
      BY <1>7, <1>8, <2>0, <2>2, <3>2
    <3>4. CursorPlace(cursor) \in Nat \X Nat /\ cursor.id \in Nat
      BY <1>1, <3>3, CursorPlaceIs
    <3> QED
      BY <2>0, <3>2, <3>3, <3>4, BehindIsOrder, SMTT(30) DEF After
  <2>3. CASE i \notin 1 .. m /\ j \notin 1 .. m
    <3>1. PICK k \in 1 .. n : i = m + k
      BY <1>5, <2>3
    <3>2. PICK l \in 1 .. n : j = m + l
      BY <1>5, <2>3
    <3>3. out'[i] = ids[k] /\ out'[j] = ids[l] /\ k < l
      BY <1>4, <3>1, <3>2
    <3>4. Precedes(out'[i], out'[j])
      BY <1>3, <3>3
    <3> QED
      BY <1>1, <2>0, <3>4, PrecedesIs
  <2> QED
    BY <1>4, <2>1, <2>2, <2>3
<1> QED
  BY <1>2, <1>6, <1>9, <1>10, <1>12, <1>13 DEF Walk

-----------------------------------------------------------------------------
(* A reading changes *)

Changed(id, row) ==
  /\ row \in Rows \cup {Gone}
  /\ readings[id] = Unused \/ Stored(id)
  /\ row = Gone => readings[id] # Unused

\* What one change leaves alone.
LEMMA ChangeIs ==
  ASSUME Typed, Watched, NEW id \in Ids, NEW row, Changed(id, row), Becomes(id, row)
  PROVE  /\ Typed' /\ Watched' /\ past.moved \subseteq past'.moved
         /\ Steady' \subseteq Steady
         /\ \A b \in Ids : /\ readings[b] # Unused => readings'[b] # Unused
                           /\ readings[b] # Unused /\ Stored(b)' => Stored(b)
                           /\ Stored(b) /\ Stored(b)' /\ b \notin past'.moved => Place(b)' = Place(b)
<1>1. /\ readings' = [readings EXCEPT ![id] = row] /\ query' = query
      /\ past' = [moved  |-> past.moved  \cup {i \in {id} : Stored(i) /\ Stored(i)' /\ Place(i) # Place(i)'},
                  absent |-> past.absent \cup {i \in {id} : ~Matches(i)'}]
  BY DEF Becomes
<1>2. readings \in [Ids -> Rows \cup {Unused, Gone}] /\ readings' \in [Ids -> Rows \cup {Unused, Gone}]
  BY <1>1 DEF Typed, Changed
<1>3. /\ past'.moved = past.moved \cup {i \in {id} : Stored(i) /\ Stored(i)' /\ Place(i) # Place(i)'}
      /\ past'.absent = past.absent \cup {i \in {id} : ~Matches(i)'}
      /\ past' = [moved |-> past'.moved, absent |-> past'.absent]
  BY <1>1
<1>4. /\ readings'[id] = row
      /\ \A b \in Ids : b # id => readings'[b] = readings[b]
  BY <1>1, <1>2
<1>5. \A b \in Ids : b # id => /\ Stored(b)' <=> Stored(b)
                               /\ Matches(b)' <=> Matches(b)
                               /\ Place(b)' = Place(b)
  <2> SUFFICES ASSUME NEW b \in Ids, b # id
               PROVE  (Stored(b)' <=> Stored(b)) /\ (Matches(b)' <=> Matches(b)) /\ Place(b)' = Place(b)
    OBVIOUS
  <2>1. readings'[b] = readings[b] /\ query' = query
    BY <1>1, <1>4
  <2>2. scoreReading(b)' = scoreReading(b)
    BY <2>1 DEF scoreReading
  <2>3. Stored(b)' <=> Stored(b)
    BY <2>1 DEF Stored
  <2>4. Matches(b)' <=> Matches(b)
    BY <2>1, <2>2, <2>3 DEF Matches
  <2>5. Place(b)' = Place(b)
    BY <2>1, <2>2 DEF Place
  <2> QED
    BY <2>3, <2>4, <2>5
<1>6. Typed'
  BY <1>1, <1>2 DEF Typed
<1>7. Watched'
  <2>1. \A b \in Ids : ~Matches(b)' => b \in past'.absent
    BY <1>3, <1>5 DEF Watched
  <2> QED
    BY <1>3, <2>1 DEF Watched
<1>8. past.moved \subseteq past'.moved /\ Steady' \subseteq Steady
  BY <1>3 DEF Steady
<1>9. ASSUME NEW b \in Ids
      PROVE  /\ readings[b] # Unused => readings'[b] # Unused
             /\ readings[b] # Unused /\ Stored(b)' => Stored(b)
             /\ Stored(b) /\ Stored(b)' /\ b \notin past'.moved => Place(b)' = Place(b)
  <2>1. CASE b # id
    BY <1>4, <1>5, <2>1
  <2>2. CASE b = id
    <3>1. row # Unused
      <4>1. \A r \in Rows : r # Unused
        BY DEF Rows, Unused
      <4> QED
        BY <4>1 DEF Changed, Gone, Unused
    <3>2. readings[b] # Unused /\ Stored(b)' => Stored(b)
      BY <2>2 DEF Changed
    <3>3. Stored(b) /\ Stored(b)' /\ b \notin past'.moved => Place(b)' = Place(b)
      BY <1>3, <2>2
    <3> QED
      BY <1>4, <2>2, <3>1, <3>2, <3>3
  <2> QED
    BY <2>1, <2>2
<1> QED
  BY <1>6, <1>7, <1>8, <1>9

\* A change moves only readings that are then known to have moved, and a new
\* reading was not listed.
LEMMA ChangeWalks ==
  ASSUME Walk, NEW id \in Ids, NEW row, Changed(id, row), Becomes(id, row)
  PROVE  Walk'
<1>1. /\ Typed /\ CursorOK(cursor) /\ Watched /\ Behindhand /\ NoneLeftOut /\ NoneTwice /\ OrderAcrossPages
      /\ UNCHANGED <<query, store, at, cursor, total, out>>
  BY DEF Walk, Becomes
<1>2. /\ Typed' /\ Watched' /\ past.moved \subseteq past'.moved /\ Steady' \subseteq Steady
      /\ \A b \in Ids : /\ readings[b] # Unused => readings'[b] # Unused
                        /\ readings[b] # Unused /\ Stored(b)' => Stored(b)
                        /\ Stored(b) /\ Stored(b)' /\ b \notin past'.moved => Place(b)' = Place(b)
  BY <1>1, ChangeIs
<1>3. CursorOK(cursor)'
  BY <1>1 DEF CursorOK
<1>4. \A b \in Ids : Stored(b) /\ Stored(b)' /\ b \notin past'.moved => (After(b, cursor)' <=> After(b, cursor))
  BY <1>1, <1>2 DEF After, CursorPlace, Behind
<1>5. /\ out \in Seq(Ids) /\ Len(out) \in Nat /\ DOMAIN out = 1 .. Len(out)
      /\ \A i \in 1 .. Len(out) : out[i] \in Ids
  BY <1>1 DEF Behindhand
<1>6. Behindhand'
  <2>1. ASSUME NEW i \in 1 .. Len(out)
        PROVE  /\ readings'[out[i]] # Unused
               /\ at # "done" /\ out[i] \notin past'.moved /\ Stored(out[i])' => ~After(out[i], cursor)'
    <3>1. /\ out[i] \in Ids /\ readings[out[i]] # Unused
          /\ at # "done" /\ out[i] \notin past.moved /\ Stored(out[i]) => ~After(out[i], cursor)
      BY <1>1, <1>5 DEF Behindhand
    <3>2. ASSUME NEW b \in Ids, b = out[i]
          PROVE  /\ Stored(out[i])' <=> Stored(b)'
                 /\ After(out[i], cursor)' <=> After(b, cursor)'
      BY <1>1, <3>2
    <3> QED
      BY <1>1, <1>2, <1>4, <3>1, <3>2
  <2> QED
    BY <1>1, <1>5, <2>1 DEF Behindhand
<1>7. \A b \in Steady' : b \in Steady /\ b \in Ids /\ Stored(b) /\ Stored(b)' /\ b \notin past'.moved
  <2>1. \A b \in Steady' : Stored(b)' /\ b \notin past'.moved
    BY <1>2 DEF Watched, Steady, Matches
  <2> QED
    BY <1>1, <1>2, <2>1, SteadyIs
<1>8. NoneLeftOut'
  BY <1>1, <1>4, <1>7 DEF NoneLeftOut, Listed, ToCome
<1>9. NoneTwice'
  BY <1>1, <1>2 DEF NoneTwice
<1>10. OrderAcrossPages'
  <2> SUFFICES ASSUME NEW i \in DOMAIN out, NEW j \in DOMAIN out, i < j, out[i] \in Steady', out[j] \in Steady'
               PROVE  Behind(Place(out[i]), out[i], Place(out[j]), out[j])'
    BY <1>1 DEF OrderAcrossPages
  <2>1. Behind(Place(out[i]), out[i], Place(out[j]), out[j])
    BY <1>1, <1>7 DEF OrderAcrossPages
  <2>2. ASSUME NEW a \in Ids, NEW b \in Ids, a = out[i], b = out[j]
        PROVE  Behind(Place(out[i]), out[i], Place(out[j]), out[j])'
    <3>1. Place(a)' = Place(a) /\ Place(b)' = Place(b)
      BY <1>2, <1>7, <2>2
    <3>2. Place(out[i])' = Place(a)' /\ Place(out[j])' = Place(b)' /\ out' = out /\ query' = query
      BY <1>1, <2>2
    <3> QED
      BY <2>1, <2>2, <3>1, <3>2 DEF Behind
  <2> QED
    BY <1>5, <2>2
<1> QED
  BY <1>1, <1>2, <1>3, <1>6, <1>8, <1>9, <1>10 DEF Walk

-----------------------------------------------------------------------------
(* The theorems *)

\* Nothing is listed at first.
LEMMA InitWalks == SearchInit => Walk /\ Counted
<1> SUFFICES ASSUME SearchInit PROVE Walk /\ Counted
  OBVIOUS
<1>1. /\ query \in Queries /\ readings \in [Ids -> RowsSeen \cup {Unused}]
      /\ at = "ask" /\ cursor = NoCursor /\ out = << >> /\ changes = 0
      /\ past = [moved |-> {}, absent |-> {id \in Ids : ~Matches(id)}]
  BY DEF SearchInit
<1>2. RowsSeen \subseteq Rows
  BY DEF RowsSeen
<1>3. Typed
  BY <1>1, <1>2 DEF Typed
<1>4. cursor.valid = FALSE
  BY <1>1 DEF NoCursor
<1>5. CursorOK(cursor)
  BY <1>4 DEF CursorOK
<1>6. past.moved = {} /\ past.absent = {id \in Ids : ~Matches(id)}
  BY <1>1
<1>7. Watched
  BY <1>1, <1>6 DEF Watched
<1>8. out \in Seq(Ids) /\ DOMAIN out = {}
  BY <1>1
<1>9. Behindhand /\ NoneLeftOut /\ NoneTwice /\ OrderAcrossPages
  BY <1>1, <1>4, <1>8 DEF Behindhand, NoneLeftOut, ToCome, NoneTwice, OrderAcrossPages
<1>10. Steady = Found
  BY <1>6 DEF Steady, Found
<1> QED
  BY <1>1, <1>3, <1>5, <1>7, <1>9, <1>10 DEF Walk, Counted

\* Both stores give a page of the rows after the cursor.
LEMMA PageTaken ==
  ASSUME Walk, NEW page, page = MemoryPage(cursor) \/ page = PostgresPage(cursor)
  PROVE  IsPage(page, cursor)
BY MemoryPageIs, PostgresPageIs, PageIs DEF Walk

\* Fewer readings stayed than were counted.
LEMMA ChangeCounts ==
  ASSUME Walk, Counted, NEW id \in Ids, NEW row, Changed(id, row), Becomes(id, row)
  PROVE  Counted'
<1>1. Typed /\ Watched /\ Typed' /\ Watched' /\ Steady' \subseteq Steady
  BY ChangeIs DEF Walk
<1>2. changes' # 0 /\ changes' \in Nat /\ UNCHANGED <<at, out, total>>
  BY DEF Becomes, Counted
<1>3. /\ IsFiniteSet(Steady) /\ Cardinality(Steady) \in Nat /\ Steady' \in SUBSET Steady
  BY <1>1, SteadyIs
<1>4. Cardinality(Steady') <= Cardinality(Steady) /\ Cardinality(Steady') \in Nat
  BY <1>3, FS_Subset, FS_CardinalityType
<1> QED
  BY <1>2, <1>3, <1>4 DEF Counted

\* Every step keeps the invariant.
LEMMA NextWalks == Walk /\ Counted /\ [SearchNext]_searchVars => Walk' /\ Counted'
<1> SUFFICES ASSUME Walk, Counted, [SearchNext]_searchVars PROVE Walk' /\ Counted'
  OBVIOUS
<1>1. /\ Typed /\ Watched /\ CountReadings = Cardinality(Found)
  BY DEF Walk, CountReadings, Found
<1>2. Cardinality(Found) \in Nat /\ Cardinality(Steady) <= Cardinality(Found)
  BY <1>1, SteadyIs
<1>3. CASE MemorySearch
  <2>1. at # "done" /\ Take(MemoryPage(cursor)) /\ total' = Cardinality(Found)
    BY <1>1, <1>3 DEF MemorySearch
  <2>2. Walk'
    BY <2>1, PageTaken, TakeWalks
  <2>3. Steady' = Steady /\ Found' = Found /\ changes' = changes
    BY <2>1 DEF Take, Steady, Found, Matches, Stored, scoreReading
  <2> QED
    BY <1>2, <2>1, <2>2, <2>3 DEF Counted
<1>4. CASE PostgresSearch
  <2>1. at = "counted" /\ Take(PostgresPage(cursor)) /\ total' = total
    BY <1>4 DEF PostgresSearch
  <2>2. Walk'
    BY <2>1, PageTaken, TakeWalks
  <2>3. Steady' = Steady /\ Found' = Found /\ changes' = changes
    BY <2>1 DEF Take, Steady, Found, Matches, Stored, scoreReading
  <2> QED
    BY <2>1, <2>2, <2>3 DEF Counted
<1>5. ASSUME UNCHANGED <<readings, query, cursor, out, changes, past>>, at' = at \/ (at = "ask" /\ at' = "counted")
      PROVE  Walk' /\ Steady' = Steady /\ Found' = Found
  <2>1. Steady' = Steady /\ Found' = Found
    BY <1>5 DEF Steady, Found, Matches, Stored, scoreReading
  <2>2. at' \in {"ask", "counted", "done"} /\ (at' = "done" <=> at = "done")
    BY <1>5 DEF Walk
  <2>3. Typed' /\ Watched' /\ CursorOK(cursor)'
    BY <1>5 DEF Walk, Typed, Watched, Matches, Stored, scoreReading, CursorOK
  <2>4. \A id : (After(id, cursor)' <=> After(id, cursor)) /\ (Stored(id)' <=> Stored(id))
    BY <1>5 DEF After, CursorPlace, Place, scoreReading, Behind, Stored
  <2>5. Behindhand' /\ NoneLeftOut' /\ NoneTwice'
    BY <1>5, <2>1, <2>2, <2>4 DEF Walk, Behindhand, NoneLeftOut, Listed, ToCome, NoneTwice
  <2>6. OrderAcrossPages'
    BY <1>5, <2>1 DEF Walk, OrderAcrossPages, Behind, Place, scoreReading
  <2> QED
    BY <2>1, <2>2, <2>3, <2>5, <2>6 DEF Walk
<1>6. CASE PostgresCount
  <2>1. /\ UNCHANGED <<readings, query, cursor, out, changes, past>> /\ at = "ask" /\ at' = "counted"
        /\ total' = Cardinality(Found)
    BY <1>1, <1>6 DEF PostgresCount
  <2> QED
    BY <1>2, <1>5, <2>1 DEF Counted
<1>7. CASE UNCHANGED searchVars
  BY <1>5, <1>7 DEF searchVars, Counted
<1>8. ASSUME NEW id \in Ids, Save(id) \/ Update(id) \/ Delete(id)
      PROVE  Walk' /\ Counted'
  <2>1. PICK row : Changed(id, row) /\ Becomes(id, row)
    <3>1. Stored(id) => readings[id] # Unused
      BY DEF Stored
    <3>2. RowsSeen \subseteq Rows /\ Gone \notin Rows
      BY DEF RowsSeen, Rows, Gone
    <3> QED
      BY <1>8, <3>1, <3>2 DEF Save, Update, Delete, Changed
  <2> QED
    BY <2>1, ChangeWalks, ChangeCounts
<1> QED
  BY <1>3, <1>4, <1>6, <1>7, <1>8 DEF SearchNext

\* The invariant of the walk.
LEMMA WalkInvariant == SearchSpec => [](Walk /\ Counted)
BY InitWalks, NextWalks, PTL DEF SearchSpec

\* A reading that has not moved is listed once at most.
LEMMA ListingsAre ==
  ASSUME Walk, NEW id \in Ids, id \notin past.moved
  PROVE  Listings(id) = IF Listed(id) THEN 1 ELSE 0
<1> DEFINE P == {i \in DOMAIN out : out[i] = id}
<1>1. \A i, j \in P : i = j
  BY DEF Walk, NoneTwice
<1>2. CASE Listed(id)
  <2>1. PICK i : i \in P
    BY <1>2 DEF Listed
  <2>2. P = {i}
    BY <1>1, <2>1
  <2> QED
    BY <1>2, <2>2, FS_Singleton DEF Listings
<1>3. CASE ~Listed(id)
  <2>1. P = {}
    BY <1>3 DEF Listed
  <2> QED
    BY <1>3, <2>1, FS_EmptySet DEF Listings
<1> QED
  BY <1>2, <1>3

\* A reading that matches all through the walk and keeps its place is listed
\* once, and only one that moved comes twice, for any readings, any listing and
\* any changes between the pages and between the statements of one page
\* (Memory.Search, Postgres.Search, scanReadings).
THEOREM WalkComplete == SearchSpec => []SteadyListedOnce
<1>1. Walk => SteadyListedOnce
  <2> SUFFICES ASSUME Walk PROVE SteadyListedOnce
    OBVIOUS
  <2>1. \A id \in Steady : id \in Ids /\ id \notin past.moved
    BY DEF Steady
  <2>2. at = "done" => \A id \in Steady : Listed(id)
    BY DEF Walk, NoneLeftOut, ToCome
  <2>3. at = "done" => \A id \in Steady : Listings(id) = 1
    BY <2>1, <2>2, ListingsAre
  <2>4. \A id \in Ids : Listings(id) > 1 => id \in past.moved
    BY ListingsAre
  <2> QED
    BY <2>3, <2>4 DEF SteadyListedOnce
<1> QED
  BY <1>1, WalkInvariant, PTL

\* The readings that kept their place come in the order of the listing, across
\* all its pages (sortMatches, isAfterCursor, the order by of storedb).
THEOREM WalkOrdered == SearchSpec => []OrderAcrossPages
<1>1. Walk => OrderAcrossPages
  BY DEF Walk
<1> QED
  BY <1>1, WalkInvariant, PTL

\* The total of a page counts every reading that stayed, and no other when
\* nothing changed, on whatever page (Memory.Search, CountReadings).
THEOREM TotalCorrect == SearchSpec => []TotalWhole
<1>1. Counted => TotalWhole
  BY DEF Counted, TotalWhole
<1> QED
  BY <1>1, WalkInvariant, PTL

\* Both stores give the same page with the same cursor, for every listing and
\* wherever the page starts, also at the place of a reading that has changed or
\* gone (Memory.Search, Postgres.Search).
THEOREM StoresEqual == SearchSpec => []StoresAgree
<1>1. Walk => StoresAgree
  BY MemoryPageIs, PostgresPageIs DEF Walk, StoresAgree
<1> QED
  BY <1>1, WalkInvariant, PTL
=============================================================================
