---------------------------- MODULE KallocProofs ----------------------------
(***************************************************************************)
(* Proofs about Kalloc, for every size of a page, a header and the         *)
(* smallest block, every set of heap pages and all requests that do not    *)
(* wrap around the largest integer.                                        *)
(*                                                                         *)
(* There are four parts: the pages of addresses, the operations on the     *)
(* list, those on the blocks and their sizes, and the steps.               *)
(***************************************************************************)
EXTENDS Kalloc, SequenceTheorems, WellFoundedInduction, TLAPS

(* A set of numbers that is not empty has a least one.                     *)
LEMMA Least ==
  ASSUME NEW T \in SUBSET Nat, T # {}
  PROVE  \E x \in T : \A y \in T : x <= y
  <1>1. PICK x \in T : \A y \in T : ~ (<<y, x>> \in OpToRel(<, Nat))
    BY NatLessThanWellFounded, WFMin
  <1>2. \A y \in T : ~ (y < x)
    BY <1>1 DEF OpToRel
  <1>3. QED
    BY <1>2

LEMMA Consts ==
  /\ PageSize \in Nat /\ Hdr \in Nat /\ Min_ \in Nat /\ Word \in Nat
  /\ Hdr > 0 /\ Min_ > 0 /\ Hdr + Min_ <= PageSize
  /\ HeapPages \subseteq Nat \ {0}
  /\ WholePage = PageSize - Hdr /\ WholePage \in Nat
  BY KallocAssumption DEF WholePage

-----------------------------------------------------------------------------
(* Pages. *)
LEMMA Bases ==
  ASSUME NEW p \in Nat
  PROVE  /\ Base(p) \in Nat /\ Base(p + 1) = Base(p) + PageSize
         /\ \A q \in Nat : p < q => Base(p + 1) <= Base(q)
  <1>1. \A q \in Nat : Base(q) \in Nat /\ Base(q + 1) = Base(q) + PageSize
    BY Consts, SMTT(20) DEF Base
  <1>2. ASSUME NEW q \in Nat, p < q PROVE Base(p + 1) <= Base(q)
    <2>1. PICK d \in Nat : q = (p + 1) + d
      <3>1. q - (p + 1) \in Nat /\ q = (p + 1) + (q - (p + 1))
        BY <1>2
      <3>2. QED
        BY <3>1
    <2>2. d * PageSize \in Nat /\ Base(q) = Base(p + 1) + d * PageSize
      BY <2>1, Consts, SMTT(20) DEF Base
    <2>3. QED
      BY <1>1, <2>2
  <1>3. QED
    BY <1>1, <1>2

LEMMA Pages ==
  ASSUME NEW a \in Nat
  PROVE  /\ PageOf(a) \in Nat
         /\ \A p \in Nat : PageOf(a) = p <=> Base(p) <= a /\ a < Base(p + 1)
  <1>1. PageOf(a) \in Nat /\ Base(PageOf(a)) <= a /\ a < Base(PageOf(a) + 1)
    <2>1. a \div PageSize \in Nat /\ a = (PageSize * (a \div PageSize)) + (a % PageSize)
          /\ a % PageSize \in 0 .. PageSize - 1
      BY Consts, SMTT(20)
    <2>2. Base(a \div PageSize) = PageSize * (a \div PageSize)
      BY <2>1, Consts, SMTT(20) DEF Base
    <2>3. PageOf(a) = a \div PageSize
      BY DEF PageOf
    <2>4. Base(PageOf(a) + 1) = Base(PageOf(a)) + PageSize /\ Base(PageOf(a)) \in Nat
      BY <2>1, <2>3, Bases
    <2> DEFINE q == a \div PageSize  r == a % PageSize
    <2>5. q \in Nat /\ PageOf(a) = q /\ a = Base(q) + r /\ r \in 0 .. PageSize - 1
      BY <2>1, <2>2, <2>3
    <2> HIDE DEF q, r
    <2>6. QED
      BY <2>4, <2>5, Consts
  <1>2. ASSUME NEW p \in Nat, Base(p) <= a, a < Base(p + 1) PROVE PageOf(a) = p
    <2> DEFINE q == PageOf(a)
    <2>1. q \in Nat /\ Base(q) <= a /\ a < Base(q + 1)
      BY <1>1
    <2> HIDE DEF q
    <2>2. \A x \in Nat : Base(x) \in Nat
      BY Bases
    <2>3. /\ Base(p) \in Nat /\ Base(p + 1) \in Nat /\ Base(q) \in Nat /\ Base(q + 1) \in Nat
          /\ (p < q => Base(p + 1) <= Base(q)) /\ (q < p => Base(q + 1) <= Base(p))
      <3>1. p + 1 \in Nat /\ q + 1 \in Nat
        BY <2>1
      <3>2. p < q => Base(p + 1) <= Base(q)
        BY <2>1, Bases
      <3>3. q < p => Base(q + 1) <= Base(p)
        BY <2>1, Bases
      <3>4. QED
        BY <2>1, <2>2, <3>1, <3>2, <3>3
    <2>4. ~(p < q) /\ ~(q < p)
      BY <1>2, <2>1, <2>3
    <2>5. p = q
      BY <2>1, <2>4
    <2>6. QED
      BY <2>5 DEF q
  <1>3. QED
    BY <1>1, <1>2

-----------------------------------------------------------------------------
(* Sequences. *)
(* The two parts of a sequence before and from position k on.              *)
LEMMA Parts ==
  ASSUME NEW s \in Seq(Nat), NEW k \in 1 .. Len(s) + 1
  PROVE  /\ SubSeq(s, 1, k - 1) \in Seq(Nat) /\ Len(SubSeq(s, 1, k - 1)) = k - 1
         /\ \A i \in 1 .. k - 1 : SubSeq(s, 1, k - 1)[i] = s[i]
         /\ SubSeq(s, k, Len(s)) \in Seq(Nat) /\ Len(SubSeq(s, k, Len(s))) = Len(s) - k + 1
         /\ \A i \in 1 .. Len(s) - k + 1 : SubSeq(s, k, Len(s))[i] = s[k + i - 1]
  <1> DEFINE n == Len(s)  u == SubSeq(s, 1, k - 1)  v == SubSeq(s, k, n)
  <1>1. n \in Nat /\ k \in 1 .. n + 1 /\ \A i \in 1 .. n : s[i] \in Nat
    OBVIOUS
  <1> HIDE DEF n
  <1>2. /\ u \in Seq(Nat) /\ Len(u) = (IF 1 <= k - 1 THEN k - 1 - 1 + 1 ELSE 0)
        /\ \A i \in 1 .. k - 1 - 1 + 1 : u[i] = s[1 + i - 1]
    BY <1>1, SubSeqProperties
  <1>3. /\ v \in Seq(Nat) /\ Len(v) = (IF k <= n THEN n - k + 1 ELSE 0)
        /\ \A i \in 1 .. n - k + 1 : v[i] = s[k + i - 1]
    BY <1>1, SubSeqProperties
  <1> HIDE DEF u, v
  <1>4. Len(u) = k - 1 /\ Len(v) = n - k + 1 /\ \A i \in 1 .. k - 1 : u[i] = s[i]
    BY <1>1, <1>2, <1>3
  <1>5. QED
    BY <1>2, <1>3, <1>4 DEF u, v, n

(* t is s with e put in at position k.                                     *)
Inserted(s, k, e, t) ==
  /\ t \in Seq(Nat) /\ Len(t) = Len(s) + 1
  /\ \A i \in 1 .. Len(s) + 1 : t[i] = IF i < k THEN s[i] ELSE IF i = k THEN e ELSE s[i - 1]

LEMMA InsertedAt ==
  ASSUME NEW s \in Seq(Nat), NEW k \in 1 .. Len(s) + 1, NEW e \in Nat
  PROVE  Inserted(s, k, e, InsertAt(s, k, e))
  <1> DEFINE n == Len(s)  u == SubSeq(s, 1, k - 1)  v == SubSeq(s, k, Len(s))
             w == <<e>>  x == u \o w  t == x \o v
  <1>1. /\ n \in Nat /\ k \in 1 .. n + 1
        /\ u \in Seq(Nat) /\ Len(u) = k - 1 /\ \A i \in 1 .. k - 1 : u[i] = s[i]
        /\ v \in Seq(Nat) /\ Len(v) = n - k + 1 /\ \A i \in 1 .. n - k + 1 : v[i] = s[k + i - 1]
    BY Parts
  <1>2. w \in Seq(Nat) /\ Len(w) = 1 /\ w[1] = e
    OBVIOUS
  <1>3. InsertAt(s, k, e) = t
    BY DEF InsertAt
  <1> HIDE DEF u, v, w, n
  <1>4. /\ x \in Seq(Nat) /\ Len(x) = Len(u) + Len(w)
        /\ \A i \in 1 .. Len(u) + Len(w) : x[i] = IF i <= Len(u) THEN u[i] ELSE w[i - Len(u)]
    BY <1>1, <1>2, ConcatProperties
  <1> HIDE DEF x
  <1>5. /\ t \in Seq(Nat) /\ Len(t) = Len(x) + Len(v)
        /\ \A i \in 1 .. Len(x) + Len(v) : t[i] = IF i <= Len(x) THEN x[i] ELSE v[i - Len(x)]
    <2>1. x \in Seq(Nat) /\ v \in Seq(Nat)
      BY <1>1, <1>4
    <2>2. QED
      BY <2>1, ConcatProperties
  <1> HIDE DEF t
  <1>6. Len(x) = k /\ Len(t) = n + 1
    BY <1>1, <1>2, <1>4, <1>5
  <1>7. ASSUME NEW i \in 1 .. k PROVE x[i] = IF i < k THEN s[i] ELSE e
    <2>1. x[i] = IF i <= k - 1 THEN u[i] ELSE w[i - (k - 1)]
      BY <1>1, <1>2, <1>4
    <2>2. CASE i < k
      BY <1>1, <2>1, <2>2
    <2>3. CASE i = k
      <3>1. i - (k - 1) = 1 /\ ~(i <= k - 1)
        BY <1>1, <2>3
      <3>2. QED
        BY <1>2, <2>1, <2>3, <3>1
    <2>4. QED
      BY <1>1, <2>2, <2>3
  <1>8. ASSUME NEW i \in 1 .. n + 1
        PROVE  t[i] = IF i < k THEN s[i] ELSE IF i = k THEN e ELSE s[i - 1]
    <2>1. CASE i <= k
      <3>1. i \in 1 .. k /\ i \in 1 .. Len(x) + Len(v) /\ i <= Len(x)
        BY <1>1, <1>6, <2>1
      <3>2. t[i] = x[i]
        BY <1>5, <3>1
      <3>3. x[i] = IF i < k THEN s[i] ELSE e
        BY <1>7, <3>1
      <3>4. i < k \/ i = k
        BY <1>1, <2>1
      <3>5. QED
        BY <1>1, <3>2, <3>3, <3>4
    <2>2. CASE i > k
      <3>1. i - k \in 1 .. n - k + 1 /\ k + (i - k) - 1 = i - 1
        BY <1>1, <2>2
      <3>2. t[i] = v[i - k]
        <4>1. i \in 1 .. Len(x) + Len(v) /\ ~(i <= Len(x))
          BY <1>1, <1>6, <2>2
        <4>2. QED
          BY <1>5, <1>6, <4>1
      <3>3. QED
        BY <1>1, <2>2, <3>1, <3>2
    <2>3. QED
      BY <1>1, <2>1, <2>2
  <1>9. QED
    BY <1>3, <1>5, <1>6, <1>8 DEF Inserted, n

LEMMA RemovedAt ==
  ASSUME NEW s \in Seq(Nat), NEW k \in 1 .. Len(s)
  PROVE  /\ RemoveAt(s, k) \in Seq(Nat) /\ Len(RemoveAt(s, k)) = Len(s) - 1
         /\ \A i \in 1 .. Len(s) - 1 :
              RemoveAt(s, k)[i] = IF i < k THEN s[i] ELSE s[i + 1]
  <1> DEFINE n == Len(s)  u == SubSeq(s, 1, k - 1)  v == SubSeq(s, k + 1, Len(s))  t == u \o v
  <1>1. /\ n \in Nat /\ k \in 1 .. n
        /\ u \in Seq(Nat) /\ Len(u) = k - 1 /\ \A i \in 1 .. k - 1 : u[i] = s[i]
    BY Parts
  <1>2. /\ v \in Seq(Nat) /\ Len(v) = n - k
        /\ \A i \in 1 .. n - k : v[i] = s[k + i]
    <2>1. k + 1 \in 1 .. n + 1
      BY <1>1
    <2>2. /\ v \in Seq(Nat) /\ Len(v) = n - (k + 1) + 1
          /\ \A i \in 1 .. n - (k + 1) + 1 : v[i] = s[(k + 1) + i - 1]
      BY <2>1, Parts
    <2> HIDE DEF n, v
    <2>3. QED
      BY <1>1, <2>2
  <1>3. RemoveAt(s, k) = t
    BY DEF RemoveAt
  <1> HIDE DEF u, v, n
  <1>4. /\ t \in Seq(Nat) /\ Len(t) = Len(u) + Len(v)
        /\ \A i \in 1 .. Len(u) + Len(v) : t[i] = IF i <= Len(u) THEN u[i] ELSE v[i - Len(u)]
    BY <1>1, <1>2, ConcatProperties
  <1> HIDE DEF t
  <1>5. ASSUME NEW i \in 1 .. n - 1 PROVE t[i] = IF i < k THEN s[i] ELSE s[i + 1]
    <2>1. CASE i < k
      <3>1. i \in 1 .. k - 1 /\ i \in 1 .. Len(u) + Len(v) /\ i <= Len(u)
        BY <1>1, <1>2, <2>1
      <3>2. t[i] = u[i] /\ u[i] = s[i]
        BY <1>1, <1>4, <3>1
      <3>3. QED
        BY <2>1, <3>2
    <2>2. CASE i >= k
      <3> DEFINE j == i - (k - 1)
      <3>1. j \in 1 .. n - k /\ k + j = i + 1 /\ ~(i < k)
        BY <1>1, <2>2
      <3>2. t[i] = v[j]
        BY <1>1, <1>2, <1>4, <2>2
      <3> HIDE DEF j
      <3>3. v[j] = s[k + j]
        BY <1>2, <3>1
      <3>4. QED
        BY <3>1, <3>2, <3>3
    <2>3. QED
      BY <1>1, <2>1, <2>2
  <1>6. QED
    BY <1>1, <1>2, <1>3, <1>4, <1>5 DEF n

-----------------------------------------------------------------------------
(* The free list, which is F in the order of addresses.                    *)
Sorted(s, F) ==
  /\ s \in Seq(Nat) /\ F = {s[i] : i \in 1 .. Len(s)}
  /\ \A i, j \in 1 .. Len(s) : i < j => s[i] < s[j]

(* Where an address belongs.                                               *)
LEMMA Below ==
  ASSUME NEW s \in Seq(Nat), NEW F, Sorted(s, F), NEW h \in Nat
  PROVE  /\ NodesBelow(s, h) \in 0 .. Len(s)
         /\ \A i \in 1 .. NodesBelow(s, h) : s[i] < h
         /\ \A i \in NodesBelow(s, h) + 1 .. Len(s) : s[i] >= h
  <1> DEFINE I == {i \in 1 .. Len(s) : s[i] >= h}  k == NodesBelow(s, h)
  <1>1. SelectInSeq(s, LAMBDA x : x >= h) = IF I # {} THEN Min(I) ELSE 0
    BY DEF SelectInSeq
  <1>2. k = IF I # {} THEN (IF Min(I) = 0 THEN Len(s) ELSE Min(I) - 1) ELSE Len(s)
    BY <1>1 DEF NodesBelow
  <1>3. I # {} => Min(I) \in I /\ \A i \in I : Min(I) <= i
    <2>1. SUFFICES ASSUME I # {} PROVE Min(I) \in I /\ \A i \in I : Min(I) <= i
      OBVIOUS
    <2>2. I \in SUBSET Nat
      OBVIOUS
    <2> HIDE DEF I
    <2>3. \E x \in I : \A y \in I : x <= y
      BY <2>1, <2>2, Least
    <2>4. QED
      BY <2>3, Zenon DEF Min
  <1>4. Len(s) \in Nat /\ \A i \in 1 .. Len(s) : s[i] \in Nat
    OBVIOUS
  <1>5. CASE I = {}
    BY <1>2, <1>4, <1>5
  <1>6. CASE I # {}
    <2>1. k = Min(I) - 1 /\ Min(I) \in 1 .. Len(s) /\ s[Min(I)] >= h
      BY <1>2, <1>3, <1>6
    <2>2. ASSUME NEW i \in 1 .. k PROVE s[i] < h
      <3>1. i \in 1 .. Len(s) /\ i \notin I
        <4> HIDE DEF I
        <4>1. QED
          BY <1>3, <1>4, <1>6, <2>1
      <3>2. QED
        BY <1>4, <3>1
    <2>3. \A i \in k + 1 .. Len(s) : s[i] >= h
      BY <1>4, <2>1 DEF Sorted
    <2>4. QED
      BY <2>1, <2>2, <2>3
  <1>7. QED
    BY <1>5, <1>6

(* An element of the list is where NodesBelow says.                        *)
LEMMA Position ==
  ASSUME NEW s \in Seq(Nat), NEW F, Sorted(s, F), NEW h \in F
  PROVE  NodesBelow(s, h) + 1 \in 1 .. Len(s) /\ s[NodesBelow(s, h) + 1] = h
  <1> DEFINE k == NodesBelow(s, h)
  <1>1. PICK j \in 1 .. Len(s) : s[j] = h
    BY DEF Sorted
  <1>2. h \in Nat /\ Len(s) \in Nat /\ \A i \in 1 .. Len(s) : s[i] \in Nat
    BY <1>1
  <1>3. k \in 0 .. Len(s) /\ (\A i \in 1 .. k : s[i] < h) /\ \A i \in k + 1 .. Len(s) : s[i] >= h
    BY <1>2, Below
  <1> HIDE DEF k
  <1>4. j > k
    BY <1>1, <1>2, <1>3
  <1>5. ~(k + 1 < j)
    <2>1. SUFFICES ASSUME k + 1 < j PROVE FALSE
      OBVIOUS
    <2>2. k + 1 \in 1 .. Len(s) /\ k + 1 \in k + 1 .. Len(s)
      BY <1>1, <1>2, <1>3, <2>1
    <2>3. s[k + 1] < s[j]
      BY <1>1, <2>1, <2>2 DEF Sorted
    <2>4. s[k + 1] >= h
      BY <1>3, <2>2
    <2>5. QED
      BY <1>1, <1>2, <2>2, <2>3, <2>4
  <1>6. QED
    BY <1>1, <1>2, <1>3, <1>4, <1>5 DEF k

(* A block is put into the list at its place.                              *)
LEMMA InsertSorted ==
  ASSUME NEW s \in Seq(Nat), NEW F, Sorted(s, F), NEW h \in Nat, h \notin F
  PROVE  /\ InsertNode(s, h) \in Seq(Nat) /\ Sorted(InsertNode(s, h), F \cup {h})
         /\ Len(InsertNode(s, h)) = Len(s) + 1
         /\ NodesBelow(s, h) + 1 \in 1 .. Len(s) + 1
         /\ \A i \in 1 .. Len(s) + 1 : InsertNode(s, h)[i] =
              IF i <= NodesBelow(s, h) THEN s[i]
              ELSE IF i = NodesBelow(s, h) + 1 THEN h ELSE s[i - 1]
  <1> DEFINE k == NodesBelow(s, h)  t == InsertNode(s, h)  n == Len(s)
  <1>1. n \in Nat /\ \A i \in 1 .. n : s[i] \in Nat /\ s[i] # h
    BY DEF Sorted
  <1>2. k \in 0 .. n /\ (\A i \in 1 .. k : s[i] < h) /\ \A i \in k + 1 .. n : s[i] >= h
    BY Below
  <1>3. /\ t \in Seq(Nat) /\ Len(t) = n + 1
        /\ \A i \in 1 .. n + 1 : t[i] = IF i < k + 1 THEN s[i] ELSE IF i = k + 1 THEN h ELSE s[i - 1]
    <2> DEFINE m == k + 1
    <2>1. m \in 1 .. Len(s) + 1
      BY <1>1, <1>2
    <2>2. t = InsertAt(s, m, h)
      BY DEF InsertNode
    <2> HIDE DEF m, t
    <2>3. Inserted(s, m, h, t)
      BY <2>1, <2>2, InsertedAt
    <2>4. QED
      BY <2>3 DEF Inserted, m
  <1>4. F = {s[i] : i \in 1 .. n} /\ \A i, j \in 1 .. n : i < j => s[i] < s[j]
    BY DEF Sorted
  <1> HIDE DEF k, t, n
  <1>5. \A i \in 1 .. n + 1 : t[i] = IF i <= k THEN s[i] ELSE IF i = k + 1 THEN h ELSE s[i - 1]
    BY <1>1, <1>2, <1>3
  <1>6. ASSUME NEW i \in 1 .. n + 1, NEW j \in 1 .. n + 1, i < j PROVE t[i] < t[j]
    <2>1. CASE j <= k
      BY <1>1, <1>2, <1>4, <1>5, <1>6, <2>1
    <2>2. CASE i > k + 1
      <3>1. i - 1 \in 1 .. n /\ j - 1 \in 1 .. n /\ i - 1 < j - 1
        BY <1>1, <1>2, <1>6, <2>2
      <3>2. t[i] = s[i - 1] /\ t[j] = s[j - 1]
        BY <1>2, <1>5, <1>6, <2>2
      <3>3. QED
        BY <1>4, <3>1, <3>2
    <2>3. CASE i <= k + 1 /\ j > k
      <3>1. t[i] <= h /\ (i <= k => t[i] < h)
        BY <1>1, <1>2, <1>5, <2>3
      <3>2. j = k + 1 \/ (j - 1 \in k + 1 .. n /\ t[j] = s[j - 1])
        BY <1>1, <1>2, <1>5, <2>3
      <3>3. t[j] >= h /\ (j > k + 1 => t[j] > h)
        <4>1. CASE j = k + 1
          BY <1>2, <1>5, <4>1
        <4>2. CASE j # k + 1
          <5>1. t[j] = s[j - 1] /\ j - 1 \in k + 1 .. n /\ j - 1 \in 1 .. n
            BY <1>1, <1>2, <3>2, <4>2
          <5>2. s[j - 1] >= h /\ s[j - 1] # h /\ s[j - 1] \in Nat
            BY <1>1, <1>2, <5>1
          <5>3. QED
            BY <5>1, <5>2
        <4>3. QED
          BY <4>1, <4>2
      <3>4. t[i] \in Nat /\ t[j] \in Nat
        BY <1>3
      <3>5. QED
        BY <1>2, <1>6, <2>3, <3>1, <3>3, <3>4
    <2>4. QED
      BY <1>1, <1>2, <2>1, <2>2, <2>3
  <1>7. F \cup {h} = {t[i] : i \in 1 .. n + 1}
    <2>1. ASSUME NEW i \in 1 .. n PROVE \E j \in 1 .. n + 1 : s[i] = t[j]
      <3>1. s[i] = t[IF i <= k THEN i ELSE i + 1]
        BY <1>1, <1>2, <1>5
      <3>2. QED
        BY <1>1, <3>1
    <2>2. ASSUME NEW i \in 1 .. n + 1 PROVE t[i] \in F \cup {h}
      BY <1>1, <1>2, <1>4, <1>5
    <2>3. h = t[k + 1] /\ k + 1 \in 1 .. n + 1
      BY <1>1, <1>2, <1>5
    <2>4. QED
      BY <1>4, <2>1, <2>2, <2>3
  <1>8. Sorted(t, F \cup {h})
    BY <1>3, <1>6, <1>7 DEF Sorted
  <1>9. QED
    BY <1>1, <1>2, <1>3, <1>5, <1>8 DEF k, t, n

(* A block is taken off the list.                                          *)
LEMMA RemoveSorted ==
  ASSUME NEW s \in Seq(Nat), NEW F, Sorted(s, F), NEW h \in F
  PROVE  RemoveNode(s, h) \in Seq(Nat) /\ Sorted(RemoveNode(s, h), F \ {h})
  <1> DEFINE k == NodesBelow(s, h) + 1  t == RemoveNode(s, h)  n == Len(s)
  <1>1. n \in Nat /\ \A i \in 1 .. n : s[i] \in Nat
    OBVIOUS
  <1>2. k \in 1 .. n /\ s[k] = h
    BY Position
  <1>3. /\ t \in Seq(Nat) /\ Len(t) = n - 1
        /\ \A i \in 1 .. n - 1 : t[i] = IF i < k THEN s[i] ELSE s[i + 1]
    BY <1>2, RemovedAt DEF RemoveNode
  <1>4. F = {s[i] : i \in 1 .. n} /\ \A i, j \in 1 .. n : i < j => s[i] < s[j]
    BY DEF Sorted
  <1> HIDE DEF k, t, n
  <1>5. ASSUME NEW i \in 1 .. n - 1, NEW j \in 1 .. n - 1, i < j PROVE t[i] < t[j]
    <2> DEFINE at(x) == IF x < k THEN x ELSE x + 1
    <2>1. at(i) \in 1 .. n /\ at(j) \in 1 .. n /\ at(i) < at(j)
      BY <1>1, <1>2, <1>5
    <2>2. t[i] = s[at(i)] /\ t[j] = s[at(j)]
      BY <1>3
    <2> HIDE DEF at
    <2>3. QED
      BY <1>4, <2>1, <2>2
  <1>6. F \ {h} = {t[i] : i \in 1 .. n - 1}
    <2>1. ASSUME NEW i \in 1 .. n, s[i] # h PROVE \E j \in 1 .. n - 1 : s[i] = t[j]
      <3>1. i # k
        BY <1>2, <2>1
      <3>2. s[i] = t[IF i < k THEN i ELSE i - 1]
        BY <1>1, <1>2, <1>3, <3>1
      <3>3. QED
        BY <1>1, <1>2, <3>1, <3>2
    <2>2. ASSUME NEW i \in 1 .. n - 1 PROVE t[i] \in F /\ t[i] # h
      <3> DEFINE j == IF i < k THEN i ELSE i + 1
      <3>1. j \in 1 .. n /\ (j < k \/ k < j)
        BY <1>1, <1>2
      <3>2. t[i] = s[j]
        BY <1>3
      <3> HIDE DEF j
      <3>3. s[j] < s[k] \/ s[k] < s[j]
        BY <1>2, <1>4, <3>1
      <3>4. QED
        BY <1>1, <1>2, <1>4, <3>1, <3>2, <3>3
    <2>3. QED
      BY <1>4, <2>1, <2>2
  <1>7. QED
    BY <1>1, <1>3, <1>5, <1>6 DEF Sorted, t

(* The rest of a block takes its place in the list.                        *)
LEMMA ReplaceSorted ==
  ASSUME NEW s \in Seq(Nat), NEW F, Sorted(s, F), NEW h \in F, NEW c \in Nat, h < c,
         \A g \in F : g > h => g > c
  PROVE  ReplaceAll(s, h, c) \in Seq(Nat) /\ Sorted(ReplaceAll(s, h, c), (F \ {h}) \cup {c})
  <1> DEFINE t == ReplaceAll(s, h, c)  n == Len(s)
  <1>1. n \in Nat /\ \A i \in 1 .. n : s[i] \in Nat
    OBVIOUS
  <1>2. t = [i \in 1 .. n |-> IF s[i] = h THEN c ELSE s[i]]
    BY DEF ReplaceAll
  <1>3. t \in Seq(Nat) /\ Len(t) = n /\ \A i \in 1 .. n : t[i] = IF s[i] = h THEN c ELSE s[i]
    BY <1>1, <1>2
  <1>4. F = {s[i] : i \in 1 .. n} /\ \A i, j \in 1 .. n : i < j => s[i] < s[j]
    BY DEF Sorted
  <1> HIDE DEF t, n
  <1>5. ASSUME NEW i \in 1 .. n, NEW j \in 1 .. n, i < j PROVE t[i] < t[j]
    <2>1. s[i] < s[j] /\ s[i] \in F /\ s[j] \in F /\ s[i] \in Nat /\ s[j] \in Nat
      BY <1>1, <1>4, <1>5
    <2>2. s[i] = h => s[j] > c
      BY <2>1
    <2>3. t[i] = (IF s[i] = h THEN c ELSE s[i]) /\ t[j] = (IF s[j] = h THEN c ELSE s[j])
      BY <1>3
    <2>4. QED
      BY <2>1, <2>2, <2>3
  <1>6. (F \ {h}) \cup {c} = {t[i] : i \in 1 .. n}
    BY <1>3, <1>4
  <1>7. QED
    BY <1>3, <1>5, <1>6 DEF Sorted, t

(* The search finds a block of the list that is large enough, unless there *)
(* is none.                                                                *)
LEMMA Fits ==
  ASSUME NEW hp, hp.flist \in Seq(Nat), NEW F, Sorted(hp.flist, F), NEW n
  PROVE  /\ FirstFit(hp, n) # 0 =>
              hp.flist[FirstFit(hp, n)] \in F /\ hp.size[hp.flist[FirstFit(hp, n)]] >= WithHeader(n)
         /\ FirstFit(hp, n) = 0 => \A h \in F : ~(hp.size[h] >= WithHeader(n))
  <1> DEFINE I == {i \in 1 .. Len(hp.flist) : hp.size[hp.flist[i]] >= WithHeader(n)}
  <1>1. FirstFit(hp, n) = IF I # {} THEN Min(I) ELSE 0
    BY DEF FirstFit, SelectInSeq
  <1>2. I # {} => Min(I) \in I
    <2>1. SUFFICES ASSUME I # {} PROVE Min(I) \in I
      OBVIOUS
    <2>2. I \in SUBSET Nat
      OBVIOUS
    <2> HIDE DEF I
    <2>3. \E x \in I : \A y \in I : x <= y
      BY <2>1, <2>2, Least
    <2>4. QED
      BY <2>3, Zenon DEF Min
  <1>3. F = {hp.flist[i] : i \in 1 .. Len(hp.flist)}
    BY DEF Sorted
  <1>4. CASE I # {}
    <2>1. FirstFit(hp, n) = Min(I) /\ Min(I) \in I
      BY <1>1, <1>2, <1>4
    <2>2. Min(I) \in 1 .. Len(hp.flist) /\ hp.size[hp.flist[Min(I)]] >= WithHeader(n)
      BY <2>1
    <2> HIDE DEF I
    <2>3. QED
      BY <1>3, <2>1, <2>2
  <1>5. CASE I = {}
    <2>1. FirstFit(hp, n) = 0 /\ \A i \in 1 .. Len(hp.flist) : ~(hp.size[hp.flist[i]] >= WithHeader(n))
      BY <1>1, <1>5
    <2>2. QED
      BY <1>3, <2>1
  <1>6. QED
    BY <1>4, <1>5

-----------------------------------------------------------------------------
(* The blocks of the pages.  Beside what BlocksTilePages says of them, none *)
(* is empty, and none ends behind its page.                                *)
Tiled(sz) ==
  /\ sz \in [DOMAIN sz -> Nat]
  /\ \A h \in DOMAIN sz :
       /\ h \in Nat /\ PageOf(h) \in HeapPages /\ Base(PageOf(h)) \in DOMAIN sz
       /\ sz[h] \in Nat /\ sz[h] >= Min_
       /\ \/ End(sz, h) = Base(PageOf(h) + 1)
          \/ End(sz, h) \in DOMAIN sz /\ PageOf(End(sz, h)) = PageOf(h)
       /\ \A g \in DOMAIN sz : g > h => g >= End(sz, h)

LEMMA Block ==
  ASSUME NEW sz, Tiled(sz), NEW h \in DOMAIN sz
  PROVE  /\ h \in Nat /\ sz[h] \in Nat /\ sz[h] >= Min_
         /\ PageOf(h) \in HeapPages /\ PageOf(h) \in Nat /\ PageOf(h) # 0
         /\ Base(PageOf(h)) \in Nat /\ Base(PageOf(h)) <= h /\ Base(PageOf(h)) \in DOMAIN sz
         /\ Base(PageOf(h) + 1) = Base(PageOf(h)) + PageSize
         /\ End(sz, h) = h + Hdr + sz[h] /\ End(sz, h) \in Nat /\ h < End(sz, h)
         /\ End(sz, h) <= Base(PageOf(h) + 1)
         /\ \/ End(sz, h) = Base(PageOf(h) + 1)
            \/ End(sz, h) \in DOMAIN sz /\ PageOf(End(sz, h)) = PageOf(h)
         /\ \A g \in DOMAIN sz : g > h => g >= End(sz, h)
  <1> DEFINE p == PageOf(h)  e == End(sz, h)
  <1>1. /\ h \in Nat /\ sz[h] \in Nat /\ sz[h] >= Min_ /\ p \in HeapPages /\ Base(p) \in DOMAIN sz
        /\ e = Base(p + 1) \/ (e \in DOMAIN sz /\ PageOf(e) = p)
        /\ \A g \in DOMAIN sz : g > h => g >= e
    BY DEF Tiled
  <1>2. e = h + Hdr + sz[h]
    BY DEF End
  <1> HIDE DEF p, e
  <1>3. p \in Nat /\ p # 0 /\ e \in Nat /\ h < e
    <2>1. p \in Nat /\ p # 0
      BY <1>1, Consts
    <2>2. Hdr \in Nat /\ Hdr > 0
      BY Consts
    <2>3. QED
      BY <1>1, <1>2, <2>1, <2>2
  <1>4. Base(p) \in Nat /\ Base(p + 1) = Base(p) + PageSize /\ Base(p) <= h
    BY <1>1, <1>3, Bases, Pages DEF p
  <1>5. e <= Base(p + 1)
    <2>1. CASE e = Base(p + 1)
      BY <1>3, <2>1
    <2>2. CASE PageOf(e) = p
      <3>1. e < Base(p + 1)
        BY <1>3, <2>2, Pages
      <3>2. QED
        BY <1>3, <1>4, <3>1, Consts
    <2>3. QED
      BY <1>1, <2>1, <2>2
  <1>6. QED
    BY <1>1, <1>2, <1>3, <1>4, <1>5 DEF p, e

(* The base of a page is on it.                                            *)
LEMMA BaseOn ==
  ASSUME NEW p \in Nat
  PROVE  PageOf(Base(p)) = p
  <1>1. Base(p) \in Nat /\ Base(p + 1) = Base(p) + PageSize /\ PageSize \in Nat /\ PageSize > 0
    BY Bases, Consts
  <1>2. Base(p) <= Base(p) /\ Base(p) < Base(p + 1)
    BY <1>1
  <1>3. QED
    BY <1>1, <1>2, Pages

(* No two blocks end at the same place.                                    *)
LEMMA EndsDiffer ==
  ASSUME NEW sz, Tiled(sz), NEW g \in DOMAIN sz, NEW h \in DOMAIN sz, End(sz, g) = End(sz, h)
  PROVE  g = h
  <1>1. /\ g \in Nat /\ h \in Nat /\ End(sz, h) \in Nat /\ End(sz, g) > g /\ End(sz, h) > h
        /\ g > h => g >= End(sz, h)
        /\ h > g => h >= End(sz, g)
    BY Block
  <1>2. QED
    BY <1>1

(* Two neighbours in a page become one.                                    *)
Merged(sz, a, b) == [Without(sz, b) EXCEPT ![a] = @ + sz[b] + Hdr]

IsMerged(sz, a, b, t) ==
  /\ DOMAIN t = DOMAIN sz \ {b} /\ End(t, a) = End(sz, b) /\ a < b
  /\ \A g \in DOMAIN sz \ {a, b} : t[g] = sz[g] /\ End(t, g) = End(sz, g)

LEMMA MergeTiled ==
  ASSUME NEW sz, Tiled(sz), NEW a \in DOMAIN sz, NEW b \in DOMAIN sz,
         End(sz, a) = b, PageOf(a) = PageOf(b), NEW t, t = Merged(sz, a, b)
  PROVE  Tiled(t) /\ IsMerged(sz, a, b, t)
  <1> DEFINE D == DOMAIN sz  p == PageOf(a)
  <1>1. /\ a \in Nat /\ b \in Nat /\ a < b /\ sz[a] \in Nat /\ sz[b] \in Nat
        /\ sz[a] >= Min_ /\ b = a + Hdr + sz[a] /\ End(sz, b) = b + Hdr + sz[b]
        /\ End(sz, b) > b /\ End(sz, b) \in Nat
        /\ p \in Nat /\ Base(p) <= a /\ Base(p) \in Nat
    BY Block
  <1>2. /\ DOMAIN t = D \ {b} /\ t \in [D \ {b} -> Nat] /\ t[a] = sz[a] + sz[b] + Hdr
        /\ \A g \in D \ {a, b} : t[g] = sz[g]
    <2> DEFINE w == Without(sz, b)
    <2>1. w = [x \in D \ {b} |-> sz[x]] /\ a \in D \ {b}
      BY <1>1 DEF Without
    <2>2. \A x \in D : sz[x] \in Nat
      BY DEF Tiled
    <2>3. DOMAIN w = D \ {b} /\ w \in [D \ {b} -> Nat] /\ \A x \in D \ {b} : w[x] = sz[x]
      BY <2>1, <2>2
    <2>4. sz[a] + sz[b] + Hdr \in Nat
      BY <2>2, Consts
    <2> HIDE DEF w, D
    <2>5. t = [w EXCEPT ![a] = w[a] + sz[b] + Hdr]
      BY DEF Merged, w
    <2>6. w[a] = sz[a]
      BY <2>1, <2>3
    <2>7. QED
      BY <2>1, <2>3, <2>4, <2>5, <2>6
  <1>3. End(t, a) = End(sz, b)
    BY <1>1, <1>2, Consts DEF End
  <1>4. \A g \in D \ {a, b} : End(t, g) = End(sz, g)
    BY <1>2 DEF End
  <1>5. ASSUME NEW h \in D \ {b}
        PROVE  /\ h \in Nat /\ PageOf(h) \in HeapPages /\ Base(PageOf(h)) \in D \ {b}
               /\ t[h] \in Nat /\ t[h] >= Min_
               /\ \/ End(t, h) = Base(PageOf(h) + 1)
                  \/ End(t, h) \in D \ {b} /\ PageOf(End(t, h)) = PageOf(h)
               /\ \A g \in D \ {b} : g > h => g >= End(t, h)
    <2>1. /\ h \in Nat /\ PageOf(h) \in HeapPages /\ PageOf(h) \in Nat /\ Base(PageOf(h)) \in D
          /\ sz[h] \in Nat /\ sz[h] >= Min_
          /\ End(sz, h) = Base(PageOf(h) + 1) \/ (End(sz, h) \in D /\ PageOf(End(sz, h)) = PageOf(h))
          /\ \A g \in D : g > h => g >= End(sz, h)
      BY Block
    <2>2. Base(PageOf(h)) # b
      <3>1. SUFFICES ASSUME Base(PageOf(h)) = b PROVE FALSE
        OBVIOUS
      <3>2. PageOf(h) = p
        BY <2>1, <3>1, BaseOn
      <3>3. QED
        BY <1>1, <3>1, <3>2
    <2>3. CASE h = a
      <3>1. t[h] \in Nat /\ t[h] >= Min_ /\ End(t, h) = End(sz, b)
        BY <1>1, <1>2, <1>3, <2>3, Consts
      <3>2. \/ End(sz, b) = Base(PageOf(b) + 1)
            \/ End(sz, b) \in D /\ PageOf(End(sz, b)) = PageOf(b)
        BY Block
      <3>3. \A g \in D : g > b => g >= End(sz, b)
        BY Block
      <3>4. ASSUME NEW g \in D \ {b}, g > h PROVE g >= End(t, h)
        <4>1. g \in Nat
          BY Block
        <4>2. g >= b /\ g # b
          BY <2>1, <2>3, <3>4
        <4>3. QED
          BY <1>1, <3>1, <3>3, <4>1, <4>2
      <3>5. QED
        BY <1>1, <2>1, <2>2, <2>3, <3>1, <3>2, <3>4
    <2>4. CASE h # a
      <3>1. t[h] = sz[h] /\ End(t, h) = End(sz, h)
        BY <1>2, <1>4, <2>4
      <3>2. End(sz, h) # b
        BY <2>4, EndsDiffer
      <3>3. QED
        BY <2>1, <2>2, <3>1, <3>2
    <2>5. QED
      BY <2>3, <2>4
  <1>6. Tiled(t)
    BY <1>2, <1>5 DEF Tiled
  <1>7. QED
    BY <1>1, <1>2, <1>3, <1>4, <1>6 DEF IsMerged

(* A block as large as a page is the only one of its page.                 *)
LEMMA WholeAlone ==
  ASSUME NEW sz, Tiled(sz), NEW h \in DOMAIN sz, sz[h] = WholePage
  PROVE  /\ h = Base(PageOf(h)) /\ End(sz, h) = Base(PageOf(h) + 1)
         /\ \A g \in DOMAIN sz : PageOf(g) = PageOf(h) => g = h
  <1> DEFINE p == PageOf(h)
  <1>1. /\ h \in Nat /\ p \in Nat /\ Base(p) \in Nat /\ Base(p) <= h
        /\ Base(p + 1) = Base(p) + PageSize
        /\ End(sz, h) = h + Hdr + sz[h] /\ End(sz, h) <= Base(p + 1)
        /\ \A g \in DOMAIN sz : g > h => g >= End(sz, h)
    BY Block
  <1>2. h = Base(p) /\ End(sz, h) = Base(p + 1)
    BY <1>1, Consts
  <1>3. ASSUME NEW g \in DOMAIN sz, PageOf(g) = p PROVE g = h
    <2>1. g \in Nat /\ Base(p) <= g
      BY <1>3, Block
    <2>2. g < Base(p + 1)
      BY <1>1, <1>3, <2>1, Pages
    <2>3. h \in Nat /\ ~(g > h)
      <3>1. h \in Nat /\ Base(p + 1) \in Nat
        BY <1>1, Consts
      <3>2. g > h => g >= Base(p + 1)
        BY <1>1, <1>2
      <3>3. QED
        BY <2>1, <2>2, <3>1, <3>2
    <2>4. h <= g
      BY <1>2, <2>1
    <2>5. QED
      BY <2>1, <2>3, <2>4
  <1>4. QED
    BY <1>2, <1>3

(* Its page is given back.                                                 *)
LEMMA DropTiled ==
  ASSUME NEW sz, Tiled(sz), NEW h \in DOMAIN sz, sz[h] = WholePage
  PROVE  Tiled(Without(sz, h))
  <1> DEFINE t == Without(sz, h)  D == DOMAIN sz
  <1>1. t = [x \in D \ {h} |-> sz[x]]
    BY DEF Without
  <1>2. \A x \in D : sz[x] \in Nat
    BY DEF Tiled
  <1>3. DOMAIN t = D \ {h} /\ t \in [D \ {h} -> Nat] /\ \A g \in D \ {h} : t[g] = sz[g]
    BY <1>1, <1>2
  <1> HIDE DEF t
  <1>4. \A g \in D \ {h} : End(t, g) = End(sz, g)
    BY <1>3 DEF End
  <1>5. ASSUME NEW g \in D \ {h}
        PROVE  /\ Base(PageOf(g)) \in D \ {h}
               /\ \/ End(sz, g) = Base(PageOf(g) + 1)
                  \/ End(sz, g) \in D \ {h} /\ PageOf(End(sz, g)) = PageOf(g)
    <2>1. PageOf(g) # PageOf(h) /\ PageOf(g) \in Nat
      BY WholeAlone, Block
    <2>2. PageOf(Base(PageOf(g))) = PageOf(g)
      BY <2>1, BaseOn
    <2>3. QED
      BY <2>1, <2>2, Block
  <1>6. Tiled(t)
    BY <1>3, <1>4, <1>5 DEF Tiled
  <1>7. QED
    BY <1>6 DEF t

(* A page is added as one block.                                           *)
PageAdded(sz, p) ==
  [x \in DOMAIN sz \cup {Base(p)} |-> IF x = Base(p) THEN WholePage ELSE sz[x]]

LEMMA PageTiled ==
  ASSUME NEW sz, Tiled(sz), NEW p \in HeapPages, \A h \in DOMAIN sz : PageOf(h) # p
  PROVE  /\ Tiled(PageAdded(sz, p)) /\ Base(p) \notin DOMAIN sz
         /\ DOMAIN PageAdded(sz, p) = DOMAIN sz \cup {Base(p)}
         /\ PageAdded(sz, p)[Base(p)] = WholePage
         /\ \A h \in DOMAIN sz :
              PageAdded(sz, p)[h] = sz[h] /\ End(PageAdded(sz, p), h) = End(sz, h)
  <1> DEFINE t == PageAdded(sz, p)  D == DOMAIN sz  b == Base(p)
  <1>1. /\ p \in Nat /\ b \in Nat /\ PageOf(b) = p /\ b \notin D
        /\ Base(p + 1) = b + PageSize
    BY Consts, Bases, BaseOn
  <1>2. \A x \in D : sz[x] \in Nat
    BY DEF Tiled
  <1>3. t = [x \in D \cup {b} |-> IF x = b THEN WholePage ELSE sz[x]]
    BY DEF PageAdded
  <1> HIDE DEF t, b
  <1>4. /\ DOMAIN t = D \cup {b} /\ t \in [D \cup {b} -> Nat] /\ t[b] = WholePage
        /\ \A h \in D : t[h] = sz[h]
    BY <1>1, <1>2, <1>3, Consts
  <1>5. End(t, b) = Base(p + 1) /\ \A h \in D : End(t, h) = End(sz, h)
    BY <1>1, <1>4, Consts DEF End
  <1>6. ASSUME NEW g \in D, g > b PROVE g >= Base(p + 1)
    <2>1. g \in Nat /\ PageOf(g) # p
      BY Block
    <2>2. ~(b <= g /\ g < Base(p + 1))
      BY <1>1, <2>1, Pages DEF b
    <2>3. Base(p + 1) \in Nat
      BY <1>1, Consts
    <2>4. QED
      BY <1>1, <1>6, <2>1, <2>2, <2>3
  <1>7. ASSUME NEW g \in D, b > g PROVE b >= End(sz, g)
    <2>1. g \in Nat /\ PageOf(g) \in Nat /\ PageOf(g) # p /\ End(sz, g) <= Base(PageOf(g) + 1)
          /\ End(sz, g) \in Nat /\ Base(PageOf(g)) <= g /\ Base(PageOf(g)) \in Nat
          /\ Base(PageOf(g) + 1) = Base(PageOf(g)) + PageSize
      BY Block
    <2>2. PageOf(g) < p
      <3>1. SUFFICES ASSUME p < PageOf(g) PROVE FALSE
        BY <1>1, <2>1
      <3>2. Base(p + 1) <= Base(PageOf(g))
        BY <1>1, <2>1, <3>1, Bases
      <3>3. QED
        BY <1>1, <1>7, <2>1, <3>2, Consts
    <2>3. Base(PageOf(g) + 1) <= b
      BY <1>1, <2>1, <2>2, Bases DEF b
    <2>4. QED
      BY <1>1, <2>1, <2>3, Consts
  <1>8. ASSUME NEW h \in D \cup {b}
        PROVE  /\ h \in Nat /\ PageOf(h) \in HeapPages /\ Base(PageOf(h)) \in D \cup {b}
               /\ t[h] \in Nat /\ t[h] >= Min_
               /\ \/ End(t, h) = Base(PageOf(h) + 1)
                  \/ End(t, h) \in D \cup {b} /\ PageOf(End(t, h)) = PageOf(h)
               /\ \A g \in D \cup {b} : g > h => g >= End(t, h)
    <2>1. CASE h = b
      <3>1. h \in Nat /\ PageOf(h) = p /\ Base(PageOf(h)) = b /\ t[h] \in Nat /\ t[h] >= Min_
            /\ End(t, h) = Base(PageOf(h) + 1)
        BY <1>1, <1>4, <1>5, <2>1, Consts DEF b
      <3>2. QED
        BY <1>1, <1>6, <2>1, <3>1
    <2>2. CASE h \in D
      <3>1. t[h] = sz[h] /\ End(t, h) = End(sz, h)
        BY <1>4, <1>5, <2>2
      <3>2. QED
        BY <1>7, <2>2, <3>1, Block
    <2>3. QED
      BY <2>1, <2>2
  <1>9. Tiled(t)
    BY <1>4, <1>8 DEF Tiled
  <1>10. QED
    BY <1>1, <1>4, <1>5, <1>9 DEF t, b

(* A block is cut in two.                                                  *)
Cut(sz, h, n, c) ==
  [x \in DOMAIN sz \cup {c} |-> CASE x = h   -> n
                               [] x = c   -> sz[h] - (n + Hdr)
                               [] OTHER   -> sz[x]]

Cuttable(sz, h, n, c) ==
  h \in DOMAIN sz /\ n \in Nat /\ n >= Min_ /\ n + Hdr + Min_ <= sz[h] /\ c = h + (n + Hdr)

IsCut(sz, h, n, c, t) ==
  /\ c \in Nat /\ c \notin DOMAIN sz /\ DOMAIN t = DOMAIN sz \cup {c}
  /\ h < c /\ c < End(sz, h) /\ PageOf(c) = PageOf(h)
  /\ t[h] = n /\ t[c] = sz[h] - (n + Hdr)
  /\ End(t, h) = c /\ End(t, c) = End(sz, h)
  /\ \A g \in DOMAIN sz \ {h} : t[g] = sz[g] /\ End(t, g) = End(sz, g)

LEMMA CutTiled ==
  ASSUME NEW sz, NEW h, NEW n, NEW c, Tiled(sz), Cuttable(sz, h, n, c), NEW t, t = Cut(sz, h, n, c)
  PROVE  Tiled(t) /\ IsCut(sz, h, n, c, t)
  <1> DEFINE D == DOMAIN sz  p == PageOf(h)  r == sz[h] - (n + Hdr)
  <1>0. h \in D /\ n \in Nat /\ n >= Min_ /\ n + Hdr + Min_ <= sz[h] /\ c = h + (n + Hdr)
    BY DEF Cuttable
  <1>1. /\ h \in Nat /\ sz[h] \in Nat /\ p \in Nat /\ p \in HeapPages
        /\ Base(p) \in D /\ Base(p) \in Nat /\ Base(p) <= h
        /\ End(sz, h) = h + Hdr + sz[h] /\ End(sz, h) \in Nat /\ End(sz, h) <= Base(p + 1)
        /\ End(sz, h) = Base(p + 1) \/ (End(sz, h) \in D /\ PageOf(End(sz, h)) = p)
        /\ \A g \in D : g > h => g >= End(sz, h)
        /\ Base(p + 1) = Base(p) + PageSize
    BY <1>0, Block
  <1>2. c \in Nat /\ h < c /\ c < End(sz, h) /\ c # h /\ r \in Nat /\ r >= Min_ /\ c + Hdr + r = End(sz, h)
    BY <1>0, <1>1, Consts
  <1>3. c \notin D
    BY <1>1, <1>2
  <1>4. PageOf(c) = p
    BY <1>1, <1>2, Pages, Consts
  <1>5. \A x \in D : sz[x] \in Nat
    BY DEF Tiled
  <1>6. t = [x \in D \cup {c} |-> CASE x = h -> n [] x = c -> r [] OTHER -> sz[x]]
    BY DEF Cut
  <1> HIDE DEF r
  <1>7. /\ DOMAIN t = D \cup {c} /\ t[h] = n /\ t[c] = r /\ \A g \in D \ {h} : t[g] = sz[g]
    BY <1>0, <1>2, <1>3, <1>6
  <1>8. t \in [D \cup {c} -> Nat]
    BY <1>0, <1>2, <1>5, <1>6
  <1>9. End(t, h) = c /\ End(t, c) = End(sz, h) /\ \A g \in D \ {h} : End(t, g) = End(sz, g)
    BY <1>0, <1>1, <1>2, <1>7, Consts DEF End
  <1>10. ASSUME NEW g \in D \cup {c}
         PROVE  /\ g \in Nat /\ PageOf(g) \in HeapPages /\ Base(PageOf(g)) \in D \cup {c}
                /\ t[g] \in Nat /\ t[g] >= Min_
                /\ \/ End(t, g) = Base(PageOf(g) + 1)
                   \/ End(t, g) \in D \cup {c} /\ PageOf(End(t, g)) = PageOf(g)
                /\ \A k \in D \cup {c} : k > g => k >= End(t, g)
    <2>1. CASE g = h
      <3>1. /\ g \in Nat /\ PageOf(g) = p /\ Base(PageOf(g)) \in D \cup {c}
            /\ t[g] = n /\ End(t, g) = c /\ PageOf(c) = PageOf(g)
        BY <1>0, <1>1, <1>4, <1>7, <1>9, <2>1
      <3>2. ASSUME NEW k \in D \cup {c}, k > g PROVE k >= c
        <4>1. CASE k \in D
          <5>1. k \in Nat /\ k >= End(sz, h)
            BY <1>1, <2>1, <3>2, <4>1, Block
          <5>2. QED
            BY <1>1, <1>2, <5>1
        <4>2. QED
          BY <1>2, <4>1
      <3>3. QED
        BY <1>0, <1>1, <3>1, <3>2
    <2>2. CASE g = c
      <3>1. ASSUME NEW k \in D, k > c PROVE k >= End(sz, h)
        <4>1. k \in Nat
          BY Block
        <4>2. QED
          BY <1>1, <1>2, <3>1, <4>1
      <3>2. QED
        BY <1>1, <1>2, <1>4, <1>7, <1>9, <2>2, <3>1
    <2>3. CASE g \in D \ {h}
      <3>1. t[g] = sz[g] /\ End(t, g) = End(sz, g)
        BY <1>7, <1>9, <2>3
      <3>2. /\ g \in Nat /\ End(sz, g) \in Nat /\ End(sz, g) > g
            /\ \A k \in D : k > g => k >= End(sz, g)
        BY <2>3, Block
      <3>3. c > g => c >= End(sz, g)
        <4>1. g > h => g >= End(sz, h)
          BY <1>1, <2>3
        <4>2. h > g => h >= End(sz, g)
          BY <1>0, <3>2
        <4>3. QED
          BY <1>1, <1>2, <2>3, <3>2, <4>1, <4>2
      <3>4. QED
        BY <2>3, <3>1, <3>2, <3>3, Block
    <2>4. QED
      BY <2>1, <2>2, <2>3
  <1>11. Tiled(t)
    BY <1>7, <1>8, <1>10 DEF Tiled
  <1>12. QED
    BY <1>2, <1>3, <1>4, <1>7, <1>9, <1>11 DEF r, IsCut

-----------------------------------------------------------------------------
(* Sizes that do not wrap.                                                 *)
LEMMA ModSmall ==
  ASSUME NEW a \in Nat, NEW w \in Nat, a < w
  PROVE  a % w = a
  BY SMTT(20)

(* What a request becomes: it grows, to no more than fits a page with its  *)
(* header, and the sums of kalloc stay below Word.                         *)
LEMMA Sizes ==
  ASSUME NEW p \in HeapPages, NEW n \in Requests, n + 1 + Hdr < Word, ~TooLarge(Rounded(n))
  PROVE  /\ n \in Nat /\ Rounded(n) \in Nat /\ Rounded(n) >= n /\ Rounded(n) >= Min_
         /\ WithHeader(Rounded(n)) = Rounded(n) + Hdr /\ Rounded(n) <= WholePage
         /\ (Rounded(n) + Hdr + Min_) % Word = Rounded(n) + Hdr + Min_
  <1>1. p \in Nat /\ p # 0 /\ Base(p + 1) < Word /\ n \in Nat
    BY KallocAssumption DEF Base
  <1>2. Base(1) = PageSize /\ Base(1 + 1) = Base(1) + PageSize /\ Base(p) \in Nat
        /\ Base(p + 1) = Base(p) + PageSize
    <2>1. Base(1) = PageSize
      BY Consts DEF Base
    <2>2. QED
      BY <1>1, <2>1, Bases
  <1>3. PageSize + PageSize < Word
    <2>1. p = 1 \/ Base(1 + 1) <= Base(p)
      <3>1. p = 1 \/ 1 < p
        BY <1>1
      <3>2. QED
        BY <1>1, <3>1, Bases
    <2>2. QED
      BY <1>1, <1>2, <2>1, Consts
  <1> DEFINE m == IF n < Min_ THEN Min_ ELSE n  r == Rounded(n)
  <1>4. m \in Nat /\ m >= n /\ m >= Min_ /\ m + 1 + Hdr < Word
    BY <1>1, <1>3, Consts
  <1>5. r = IF m % 2 = 0 THEN m ELSE (m + 1) % Word
    BY DEF Rounded
  <1> HIDE DEF m, r
  <1>6. (m + 1) % Word = m + 1
    BY <1>4, ModSmall, Consts
  <1>7. r \in Nat /\ r >= n /\ r >= Min_ /\ r + Hdr < Word /\ r + Hdr \in Nat
    BY <1>1, <1>4, <1>5, <1>6, Consts
  <1>8. WithHeader(r) = r + Hdr
    BY <1>7, ModSmall, Consts DEF WithHeader
  <1>9. r <= WholePage /\ r + Hdr + Min_ \in Nat /\ r + Hdr + Min_ < Word
    BY <1>3, <1>7, <1>8, Consts DEF TooLarge, r
  <1>10. (r + Hdr + Min_) % Word = r + Hdr + Min_
    BY <1>9, ModSmall, Consts
  <1>11. QED
    BY <1>1, <1>7, <1>8, <1>9, <1>10 DEF r

-----------------------------------------------------------------------------
(* The heap as a value: blocks that tile their pages, and the list, which  *)
(* holds the blocks of F.                                                  *)
Okay(hp, F) ==
  /\ hp = [size |-> hp.size, flist |-> hp.flist]
  /\ Tiled(hp.size) /\ F \subseteq DOMAIN hp.size
  /\ hp.flist \in Seq(Nat) /\ Sorted(hp.flist, F)

(* No two blocks of F are neighbours in a page, none but one are a page.   *)
Lone(sz, F) == \A a, b \in F : End(sz, a) = b => PageOf(a) # PageOf(b)
OneWhole(sz, F) == \A a, b \in F : sz[a] = WholePage /\ sz[b] = WholePage => a = b

LEMMA AddGood ==
  ASSUME NEW hp, NEW F, Okay(hp, F), Lone(hp.size, F), NEW p \in FreshPages(hp)
  PROVE  LET q == AddPage(hp, p)  b == Base(p)
         IN  /\ Okay(q, F \cup {b}) /\ Lone(q.size, F \cup {b})
             /\ b \in Nat /\ b \notin DOMAIN hp.size /\ DOMAIN q.size = DOMAIN hp.size \cup {b}
             /\ q.size[b] = WholePage /\ \A h \in DOMAIN hp.size : q.size[h] = hp.size[h]
  <1> DEFINE q == AddPage(hp, p)  b == Base(p)  D == DOMAIN hp.size
  <1>1. p \in HeapPages /\ p \in Nat /\ \A h \in D : PageOf(h) # p
    BY Consts DEF FreshPages
  <1>2. q.size = PageAdded(hp.size, p) /\ q.flist = InsertNode(hp.flist, b)
        /\ q = [size |-> q.size, flist |-> q.flist]
    BY DEF AddPage, PageAdded
  <1>3. Tiled(hp.size) /\ F \subseteq D /\ hp.flist \in Seq(Nat) /\ Sorted(hp.flist, F)
    BY DEF Okay
  <1>4. /\ Tiled(PageAdded(hp.size, p)) /\ b \notin D
        /\ DOMAIN PageAdded(hp.size, p) = D \cup {b} /\ PageAdded(hp.size, p)[b] = WholePage
        /\ \A h \in D : /\ PageAdded(hp.size, p)[h] = hp.size[h]
                        /\ End(PageAdded(hp.size, p), h) = End(hp.size, h)
    BY <1>1, <1>3, PageTiled
  <1>5. b \in Nat /\ PageOf(b) = p
    BY <1>1, Bases, BaseOn
  <1> HIDE DEF q, b
  <1>6. q.flist \in Seq(Nat) /\ Sorted(q.flist, F \cup {b})
    <2> DEFINE s == hp.flist
    <2>1. s \in Seq(Nat) /\ Sorted(s, F) /\ b \notin F
      BY <1>3, <1>4
    <2> HIDE DEF s
    <2>2. InsertNode(s, b) \in Seq(Nat) /\ Sorted(InsertNode(s, b), F \cup {b})
      BY <1>5, <2>1, InsertSorted
    <2>3. QED
      BY <1>2, <2>2 DEF s
  <1>7. Okay(q, F \cup {b})
    BY <1>2, <1>3, <1>4, <1>6 DEF Okay
  <1>8. Lone(q.size, F \cup {b})
    <2>1. SUFFICES ASSUME NEW x \in F \cup {b}, NEW y \in F \cup {b}, End(q.size, x) = y,
                          PageOf(x) = PageOf(y)
                   PROVE  FALSE
      BY DEF Lone
    <2>2. x \in F => y \in F
      BY <1>1, <1>3, <1>5, <2>1
    <2>3. y \in F => x \in F
      BY <1>1, <1>3, <1>5, <2>1
    <2>4. x = b => x # y
      <3>1. End(q.size, b) > b
        BY <1>2, <1>4, Block
      <3>2. QED
        BY <1>5, <2>1, <3>1
    <2>5. x \in F /\ y \in F /\ End(hp.size, x) = y
      BY <1>2, <1>3, <1>4, <2>1, <2>2, <2>3, <2>4
    <2>6. QED
      BY <2>1, <2>5 DEF Lone
  <1>9. QED
    BY <1>2, <1>4, <1>5, <1>7, <1>8 DEF q, b

(* Block h is taken: what remains of it, if anything, is free.             *)
Carved(hp, F, h, n, q) ==
  LET E == DOMAIN q.size \ DOMAIN hp.size
  IN  /\ Okay(q, (F \ {h}) \cup E) /\ Lone(q.size, (F \ {h}) \cup E)
      /\ DOMAIN hp.size \subseteq DOMAIN q.size
      /\ q.size[h] \in Nat /\ q.size[h] >= n
      /\ \A g \in DOMAIN hp.size \ {h} : q.size[g] = hp.size[g]
      /\ \A c \in E : q.size[c] # WholePage

LEMMA CarveGood ==
  ASSUME NEW hp, NEW F, Okay(hp, F), Lone(hp.size, F), NEW h \in F,
         NEW n \in Nat, n >= Min_, n <= hp.size[h],
         WithHeader(n) = n + Hdr, (n + Hdr + Min_) % Word = n + Hdr + Min_
  PROVE  Carved(hp, F, h, n, Carve(hp, h, n))
  <1> DEFINE q == Carve(hp, h, n)  D == DOMAIN hp.size  E == DOMAIN q.size \ D
             sz == hp.size  c == h + (n + Hdr)  t == Cut(sz, h, n, c)
  <1>1. /\ hp = [size |-> sz, flist |-> hp.flist] /\ Tiled(sz) /\ F \subseteq D
        /\ hp.flist \in Seq(Nat) /\ Sorted(hp.flist, F) /\ h \in D
    BY DEF Okay
  <1>2. CASE sz[h] < n + Hdr + Min_
    <2>1. q = [hp EXCEPT !.flist = RemoveNode(hp.flist, h)]
      BY <1>2 DEF Carve
    <2>2. q.size = sz /\ q.flist = RemoveNode(hp.flist, h) /\ q = [size |-> q.size, flist |-> q.flist]
      BY <1>1, <2>1
    <2> HIDE DEF q
    <2>3. E = {} /\ (F \ {h}) \cup E = F \ {h}
      BY <2>2
    <2>4. q.flist \in Seq(Nat) /\ Sorted(q.flist, F \ {h})
      BY <1>1, <2>2, RemoveSorted
    <2>5. Okay(q, F \ {h})
      BY <1>1, <2>2, <2>4 DEF Okay
    <2>6. Lone(q.size, F \ {h})
      BY <2>2 DEF Lone
    <2>7. sz[h] \in Nat
      BY <1>1, Block
    <2> HIDE DEF E
    <2>8. QED
      BY <2>2, <2>3, <2>5, <2>6, <2>7 DEF Carved, E, q
  <1>3. CASE ~(sz[h] < n + Hdr + Min_)
    <2>1. /\ h \in Nat /\ sz[h] \in Nat /\ PageOf(h) \in HeapPages /\ End(sz, h) \in Nat
          /\ End(sz, h) <= Base(PageOf(h) + 1) /\ End(sz, h) = h + Hdr + sz[h] /\ PageOf(h) \in Nat
          /\ Base(PageOf(h)) <= h /\ Base(PageOf(h)) \in Nat
          /\ Base(PageOf(h) + 1) = Base(PageOf(h)) + PageSize
          /\ \A g \in D : g > h => g >= End(sz, h)
      BY <1>1, Block
    <2>2. n + Hdr + Min_ <= sz[h] /\ c \in Nat
      BY <1>3, <2>1, Consts
    <2>3. /\ Tiled(t) /\ c \notin D
          /\ DOMAIN t = D \cup {c}
          /\ h < c /\ c < End(sz, h) /\ PageOf(c) = PageOf(h)
          /\ t[h] = n /\ t[c] = sz[h] - (n + Hdr)
          /\ End(t, h) = c /\ End(t, c) = End(sz, h)
          /\ \A g \in D \ {h} : t[g] = sz[g] /\ End(t, g) = End(sz, g)
      <3>1. Tiled(sz) /\ Cuttable(sz, h, n, c) /\ D = DOMAIN sz /\ t = Cut(sz, h, n, c)
        BY <1>1, <2>2 DEF Cuttable
      <3> HIDE DEF sz, c, D, t
      <3>2. Tiled(t) /\ IsCut(sz, h, n, c, t)
        BY <3>1, CutTiled
      <3>3. QED
        BY <3>1, <3>2 DEF IsCut
    <2>4. c % Word = c
      <3>1. (PageOf(h) + 1) * PageSize < Word
        BY <2>1, KallocAssumption
      <3>2. Base(PageOf(h) + 1) < Word
        BY <3>1 DEF Base
      <3>3. c < Word
        BY <2>1, <2>2, <2>3, <3>2, Consts
      <3>4. QED
        BY <2>2, <3>3, ModSmall, Consts
    <2>5. q = [size |-> t, flist |-> ReplaceAll(hp.flist, h, c)]
      BY <1>3, <2>4 DEF Carve, Cut
    <2>6. q.size = t /\ q.flist = ReplaceAll(hp.flist, h, c)
          /\ q = [size |-> q.size, flist |-> q.flist]
      BY <2>5
    <2> HIDE DEF q, c, t
    <2>7. E = {c} /\ (F \ {h}) \cup E = (F \ {h}) \cup {c}
      BY <2>3, <2>6
    <2> HIDE DEF E
    <2>8. q.flist \in Seq(Nat) /\ Sorted(q.flist, (F \ {h}) \cup {c})
      <3>1. ASSUME NEW g \in F, g > h PROVE g > c
        <4>1. g \in Nat /\ g >= End(sz, h)
          BY <1>1, <2>1, <3>1, Block
        <4>2. QED
          BY <2>1, <2>2, <2>3, <4>1
      <3> DEFINE s == hp.flist
      <3>2. s \in Seq(Nat) /\ Sorted(s, F) /\ h \in Nat /\ c \in Nat /\ h < c
        BY <1>1, <2>1, <2>2, <2>3
      <3> HIDE DEF s
      <3>3. ReplaceAll(s, h, c) \in Seq(Nat) /\ Sorted(ReplaceAll(s, h, c), (F \ {h}) \cup {c})
        BY <3>1, <3>2, ReplaceSorted
      <3>4. QED
        BY <2>6, <3>3 DEF s
    <2>9. Okay(q, (F \ {h}) \cup {c})
      BY <1>1, <2>3, <2>6, <2>8 DEF Okay
    <2>10. Lone(q.size, (F \ {h}) \cup {c})
      <3>1. SUFFICES ASSUME NEW x \in (F \ {h}) \cup {c}, NEW y \in (F \ {h}) \cup {c},
                            End(q.size, x) = y, PageOf(x) = PageOf(y)
                     PROVE  FALSE
        BY DEF Lone
      <3>2. CASE x = c
        <4>1. End(sz, h) = y /\ PageOf(h) = PageOf(y) /\ y # c
          BY <2>1, <2>2, <2>3, <2>6, <3>1, <3>2
        <4>2. QED
          BY <3>1, <4>1 DEF Lone
      <3>3. CASE x # c /\ y = c
        <4>1. x \in D \ {h} /\ End(sz, x) = c
          BY <1>1, <2>3, <2>6, <3>1, <3>3
        <4>2. /\ x \in Nat /\ x < End(sz, x)
              /\ h > x => h >= End(sz, x)
          BY <1>1, <4>1, Block
        <4>3. x > h => x >= End(sz, h)
          BY <2>1, <4>1
        <4>4. QED
          BY <2>1, <2>2, <2>3, <4>1, <4>2, <4>3
      <3>4. CASE x # c /\ y # c
        <4>1. End(sz, x) = y
          BY <1>1, <2>3, <2>6, <3>1, <3>4
        <4>2. QED
          BY <3>1, <3>4, <4>1 DEF Lone
      <3>5. QED
        BY <3>2, <3>3, <3>4
    <2>11. q.size[c] # WholePage
      <3>1. sz[h] + Hdr <= PageSize
        BY <2>1, Consts
      <3>2. QED
        BY <2>1, <2>2, <2>3, <2>6, <3>1, Consts
    <2>12. D \subseteq DOMAIN q.size /\ q.size[h] = n /\ \A g \in D \ {h} : q.size[g] = sz[g]
      BY <2>3, <2>6
    <2>13. q.size[h] \in Nat /\ q.size[h] >= n /\ \A x \in E : q.size[x] # WholePage
      BY <2>7, <2>11, <2>12
    <2>14. Okay(q, (F \ {h}) \cup E) /\ Lone(q.size, (F \ {h}) \cup E)
      BY <2>7, <2>9, <2>10
    <2>15. QED
      BY <2>12, <2>13, <2>14 DEF Carved, E, q
  <1>4. QED
    BY <1>2, <1>3

(* Two free blocks are joined, or they are not neighbours in a page.       *)
Joined(hp, F, a, b, q) ==
  /\ End(hp.size, a) = b /\ PageOf(a) = PageOf(b)
  /\ Okay(q, F \ {b}) /\ IsMerged(hp.size, a, b, q.size)

LEMMA JoinGood ==
  ASSUME NEW hp, NEW F, NEW a, NEW b, Okay(hp, F), a \in F, b \in F,
         NEW q, q = TryCollide(hp, a, b)
  PROVE  \/ Joined(hp, F, a, b, q)
         \/ q = hp /\ (End(hp.size, a) = b => PageOf(a) # PageOf(b))
  <1>1. SUFFICES ASSUME End(hp.size, a) = b, PageOf(a) = PageOf(b)
                 PROVE  Joined(hp, F, a, b, q)
    BY DEF TryCollide
  <1> DEFINE sz == hp.size  s == hp.flist  t == Merged(sz, a, b)
  <1>2. Tiled(sz) /\ a \in DOMAIN sz /\ b \in DOMAIN sz /\ s \in Seq(Nat) /\ Sorted(s, F)
    BY DEF Okay
  <1>3. q = [size |-> t, flist |-> RemoveNode(s, b)]
    BY <1>1 DEF TryCollide, Merged
  <1>4. q.size = t /\ q.flist = RemoveNode(s, b) /\ q = [size |-> q.size, flist |-> q.flist]
    BY <1>3
  <1>5. Tiled(t) /\ IsMerged(sz, a, b, t)
    <2>1. End(sz, a) = b
      BY <1>1
    <2> HIDE DEF sz, t
    <2>2. t = Merged(sz, a, b)
      BY DEF t
    <2>3. QED
      BY <1>1, <1>2, <2>1, <2>2, MergeTiled
  <1>6. RemoveNode(s, b) \in Seq(Nat) /\ Sorted(RemoveNode(s, b), F \ {b})
    <2> HIDE DEF s
    <2>1. QED
      BY <1>2, RemoveSorted
  <1>7. F \ {b} \subseteq DOMAIN t
    <2> HIDE DEF t
    <2>1. QED
      BY <1>5 DEF Okay, IsMerged
  <1> HIDE DEF t
  <1>8. QED
    BY <1>1, <1>4, <1>5, <1>6, <1>7 DEF Joined, Okay

(* A block as large as a page goes, and with it its page.                  *)
Dropped(hp, h, t) ==
  /\ Tiled(t) /\ DOMAIN t = DOMAIN hp.size \ {h} /\ PageOf(h) \in HeapPages
  /\ \A g \in DOMAIN hp.size \ {h} :
       t[g] = hp.size[g] /\ End(t, g) = End(hp.size, g) /\ PageOf(g) # PageOf(h)

LEMMA DropGood ==
  ASSUME NEW hp, NEW F, NEW h, Okay(hp, F), h \in F, hp.size[h] = WholePage, NEW t,
         t = Without(hp.size, h)
  PROVE  /\ Dropped(hp, h, t)
         /\ GiveBack(hp, h).size = t /\ GiveBack(hp, h).flist = hp.flist
         /\ \E s : GiveBack(Unlink(hp, h), h) = [size |-> t, flist |-> s]
                   /\ Okay([size |-> t, flist |-> s], F \ {h})
  <1> DEFINE sz == hp.size  s == hp.flist  u == RemoveNode(s, h)
  <1>1. /\ Tiled(sz) /\ h \in DOMAIN sz /\ s \in Seq(Nat) /\ Sorted(s, F) /\ sz[h] = WholePage
        /\ hp = [size |-> sz, flist |-> s] /\ F \subseteq DOMAIN sz /\ t = Without(sz, h)
    BY DEF Okay
  <1>2. GiveBack(hp, h) = [size |-> t, flist |-> s]
    BY <1>1 DEF GiveBack
  <1>3. Unlink(hp, h) = [size |-> sz, flist |-> u]
    BY <1>1 DEF Unlink
  <1>4. GiveBack(Unlink(hp, h), h) = [size |-> t, flist |-> u]
    BY <1>1, <1>3 DEF GiveBack
  <1> HIDE DEF sz, s
  <1>5. /\ Tiled(t) /\ DOMAIN t = DOMAIN sz \ {h}
        /\ \A g \in DOMAIN sz \ {h} : t[g] = sz[g] /\ End(t, g) = End(sz, g)
    <2>1. Tiled(t)
      BY <1>1, DropTiled
    <2>2. t = [x \in DOMAIN sz \ {h} |-> sz[x]]
      BY <1>1 DEF Without
    <2>3. QED
      BY <2>1, <2>2 DEF End
  <1>6. \A g \in DOMAIN sz \ {h} : PageOf(g) # PageOf(h)
    BY <1>1, WholeAlone
  <1>7. PageOf(h) \in HeapPages
    BY <1>1, Block
  <1>8. u \in Seq(Nat) /\ Sorted(u, F \ {h})
    BY <1>1, RemoveSorted
  <1> HIDE DEF u
  <1>9. Okay([size |-> t, flist |-> u], F \ {h})
    BY <1>1, <1>5, <1>8 DEF Okay
  <1>10. QED
    BY <1>2, <1>4, <1>5, <1>6, <1>7, <1>9 DEF Dropped, sz, s

-----------------------------------------------------------------------------
(* A block is freed. *)
(* The nodes around the place of h in the list of F.                       *)
Around(s, F, h, k) ==
  /\ k \in 0 .. Len(s) /\ Len(InsertNode(s, h)) = Len(s) + 1
  /\ k = 0 => \A x \in F : ~(x < h)
  /\ k # 0 => s[k] \in F /\ s[k] < h /\ \A x \in F : x < h => x <= s[k]
  /\ k = Len(s) => \A x \in F : ~(x > h)
  /\ k # Len(s) => /\ InsertNode(s, h)[k + 2] \in F /\ InsertNode(s, h)[k + 2] > h
                   /\ \A x \in F : x > h => x >= InsertNode(s, h)[k + 2]

LEMMA Surroundings ==
  ASSUME NEW s \in Seq(Nat), NEW F, Sorted(s, F), NEW h \in Nat, h \notin F
  PROVE  Around(s, F, h, NodesBelow(s, h))
  <1> DEFINE k == NodesBelow(s, h)  n == Len(s)  t == InsertNode(s, h)
  <1>1. n \in Nat /\ \A i \in 1 .. n : s[i] \in Nat
    OBVIOUS
  <1>2. F = {s[i] : i \in 1 .. n} /\ \A i, j \in 1 .. n : i < j => s[i] < s[j]
    BY DEF Sorted
  <1>3. k \in 0 .. n /\ (\A i \in 1 .. k : s[i] < h) /\ \A i \in k + 1 .. n : s[i] >= h
    BY Below
  <1>4. /\ Len(t) = n + 1
        /\ \A i \in 1 .. n + 1 : t[i] = IF i <= k THEN s[i] ELSE IF i = k + 1 THEN h ELSE s[i - 1]
    BY InsertSorted
  <1> HIDE DEF k, n, t
  <1>5. \A i, j \in 1 .. n : i <= j => s[i] <= s[j]
    BY <1>1, <1>2
  <1>6. \A i \in 1 .. n : (s[i] < h => i <= k) /\ (s[i] > h => i > k)
    BY <1>1, <1>3
  <1>7. k = 0 => \A x \in F : ~(x < h)
    BY <1>1, <1>2, <1>6
  <1>8. ASSUME k # 0 PROVE s[k] \in F /\ s[k] < h /\ \A x \in F : x < h => x <= s[k]
    <2>1. k \in 1 .. n
      BY <1>1, <1>3, <1>8
    <2>2. ASSUME NEW i \in 1 .. n, s[i] < h PROVE s[i] <= s[k]
      BY <1>5, <1>6, <2>1, <2>2
    <2>3. QED
      BY <1>1, <1>2, <1>3, <2>1, <2>2
  <1>9. k = n => \A x \in F : ~(x > h)
    <2>1. SUFFICES ASSUME k = n, NEW i \in 1 .. n, s[i] > h PROVE FALSE
      BY <1>2
    <2>2. QED
      BY <1>1, <1>6, <2>1
  <1>10. ASSUME k # n PROVE t[k + 2] \in F /\ t[k + 2] > h /\ \A x \in F : x > h => x >= t[k + 2]
    <2>1. k + 1 \in 1 .. n /\ k + 2 \in 1 .. n + 1 /\ ~(k + 2 <= k) /\ k + 2 # k + 1 /\ (k + 2) - 1 = k + 1
      BY <1>1, <1>3, <1>10
    <2>2. t[k + 2] = s[k + 1]
      BY <1>4, <2>1
    <2>3. s[k + 1] \in F /\ s[k + 1] \in Nat
      BY <1>1, <1>2, <2>1
    <2>4. s[k + 1] >= h /\ s[k + 1] # h
      BY <1>1, <1>3, <2>1, <2>3
    <2>5. ASSUME NEW i \in 1 .. n, s[i] > h PROVE s[i] >= s[k + 1]
      <3>1. k + 1 <= i
        BY <1>1, <1>3, <1>6, <2>5
      <3>2. s[k + 1] <= s[i] /\ s[i] \in Nat
        BY <1>1, <1>5, <2>1, <3>1
      <3>3. QED
        BY <2>3, <3>2
    <2>6. \A x \in F : x > h => x >= s[k + 1]
      BY <1>2, <2>5
    <2>7. QED
      BY <2>2, <2>3, <2>4, <2>6
  <1>11. QED
    BY <1>3, <1>4, <1>7, <1>8, <1>9, <1>10 DEF Around, k, n, t

(* The heap once h is in the list and the block behind it is joined.       *)
NextJoined(hp, F, h, q) ==
  LET F1 == F \cap DOMAIN q.size
  IN  /\ Okay(q, F1 \cup {h}) /\ Lone(q.size, F1)
      /\ \A y \in F1 : End(q.size, h) = y => PageOf(h) # PageOf(y)
      /\ DOMAIN q.size \subseteq DOMAIN hp.size
      /\ \A g \in DOMAIN hp.size : g \notin F \/ g < h => g \in DOMAIN q.size
      /\ \A g \in DOMAIN q.size \ {h} : q.size[g] = hp.size[g] /\ End(q.size, g) = End(hp.size, g)

LEMMA NextGood ==
  ASSUME NEW hp, NEW F, NEW h, Okay(hp, F), Lone(hp.size, F), h \in DOMAIN hp.size, h \notin F,
         NEW q, q = JoinNext([hp EXCEPT !.flist = InsertNode(hp.flist, h)], h,
                             NodesBelow(hp.flist, h) + 1)
  PROVE  NextJoined(hp, F, h, q)
  <1> DEFINE sz == hp.size  s == hp.flist  k == NodesBelow(s, h)  u == InsertNode(s, h)
             hp0 == [size |-> sz, flist |-> u]
  <1>1. /\ hp = [size |-> sz, flist |-> s] /\ Tiled(sz) /\ F \subseteq DOMAIN sz
        /\ s \in Seq(Nat) /\ Sorted(s, F) /\ h \in DOMAIN sz /\ Lone(sz, F)
    BY DEF Okay
  <1>2. [hp EXCEPT !.flist = InsertNode(hp.flist, h)] = hp0
    BY <1>1
  <1>3. q = JoinNext(hp0, h, k + 1)
    BY <1>2
  <1> HIDE DEF sz, s
  <1>4. h \in Nat
    BY <1>1, Block
  <1>5. Around(s, F, h, k) /\ u \in Seq(Nat) /\ Sorted(u, F \cup {h})
    BY <1>1, <1>4, Surroundings, InsertSorted
  <1> HIDE DEF k, u
  <1>6. hp0.size = sz /\ hp0.flist = u /\ Okay(hp0, F \cup {h})
    BY <1>1, <1>5 DEF Okay
  <1> HIDE DEF hp0
  <1>7. Len(u) = Len(s) + 1 /\ Len(s) \in Nat /\ k \in 0 .. Len(s)
    BY <1>1, <1>5 DEF Around, u
  <1>8. \A x \in F : x \in Nat /\ x # h
    BY <1>1, Block
  <1>9. CASE k = Len(s)
    <2>1. q = hp0
      BY <1>3, <1>6, <1>7, <1>9 DEF JoinNext
    <2>2. ASSUME NEW y \in F PROVE End(sz, h) # y
      BY <1>1, <1>4, <1>5, <1>8, <1>9, Block DEF Around
    <2>3. F \cap DOMAIN q.size = F
      BY <1>1, <1>6, <2>1
    <2>4. QED
      BY <1>1, <1>6, <2>1, <2>2, <2>3 DEF NextJoined, sz
  <1>10. CASE k # Len(s)
    <2> DEFINE b == u[k + 2]
    <2>1. /\ b \in F /\ b > h /\ (\A x \in F : x > h => x >= b) /\ b \in Nat
          /\ k + 1 < Len(u) /\ (k + 1) + 1 = k + 2
      BY <1>5, <1>7, <1>8, <1>10 DEF Around, u
    <2>2. q = TryCollide(hp0, h, b)
      BY <1>3, <1>6, <2>1 DEF JoinNext
    <2> HIDE DEF b
    <2>3. CASE q = hp0 /\ (End(sz, h) = b => PageOf(h) # PageOf(b))
      <3>1. ASSUME NEW y \in F, End(sz, h) = y PROVE PageOf(h) # PageOf(y)
        <4>1. y > h /\ y \in Nat
          BY <1>1, <1>8, <3>1, Block
        <4>2. b >= y
          BY <1>1, <2>1, <3>1, Block
        <4>3. y = b
          BY <2>1, <4>1, <4>2
        <4>4. QED
          BY <2>3, <3>1, <4>3
      <3>2. F \cap DOMAIN q.size = F
        BY <1>1, <1>6, <2>3
      <3>3. QED
        BY <1>1, <1>6, <2>3, <3>1, <3>2 DEF NextJoined, sz
    <2>4. CASE Joined(hp0, F \cup {h}, h, b, q)
      <3>1. /\ End(sz, h) = b /\ PageOf(h) = PageOf(b) /\ Okay(q, (F \cup {h}) \ {b})
            /\ DOMAIN q.size = DOMAIN sz \ {b} /\ End(q.size, h) = End(sz, b)
            /\ \A g \in DOMAIN sz \ {h, b} : q.size[g] = sz[g] /\ End(q.size, g) = End(sz, g)
        BY <1>6, <2>4 DEF Joined, IsMerged
      <3>2. F \cap DOMAIN q.size = F \ {b} /\ (F \cup {h}) \ {b} = (F \ {b}) \cup {h}
        BY <1>1, <1>8, <2>1, <3>1
      <3>3. Okay(q, (F \ {b}) \cup {h})
        BY <3>1, <3>2
      <3>4. ASSUME NEW x \in F \ {b}, NEW y \in F \ {b}, End(q.size, x) = y
            PROVE  PageOf(x) # PageOf(y)
        BY <1>1, <1>8, <3>1, <3>4 DEF Lone
      <3>5. ASSUME NEW y \in F \ {b}, End(q.size, h) = y PROVE PageOf(h) # PageOf(y)
        BY <1>1, <2>1, <3>1, <3>5 DEF Lone
      <3>6. ASSUME NEW g \in DOMAIN sz, g \notin F \/ g < h PROVE g \in DOMAIN q.size
        <4>1. g # b
          BY <1>4, <2>1, <3>6
        <4>2. QED
          BY <3>1, <4>1
      <3>7. Lone(q.size, F \ {b})
        BY <3>4 DEF Lone
      <3>8. QED
        BY <3>1, <3>2, <3>3, <3>5, <3>6, <3>7 DEF NextJoined, sz
    <2>5. QED
      <3>1. h \in F \cup {h} /\ b \in F \cup {h}
        BY <2>1
      <3>2. \/ Joined(hp0, F \cup {h}, h, b, q)
            \/ q = hp0 /\ (End(hp0.size, h) = b => PageOf(h) # PageOf(b))
        BY <1>6, <2>2, <3>1, JoinGood
      <3>3. QED
        BY <1>6, <2>3, <2>4, <3>2
  <1>11. QED
    BY <1>9, <1>10

(* What freeing leaves of a heap whose free blocks were G: these are still *)
(* free, as far as they are headers, and the list holds them, but for its  *)
(* first node if that is in a page that is gone.                           *)
Given(hp, G, q) ==
  LET H == G \cap DOMAIN q.size
  IN  /\ Tiled(q.size) /\ DOMAIN q.size \subseteq DOMAIN hp.size
      /\ \A g \in DOMAIN hp.size : g \notin G => g \in DOMAIN q.size /\ q.size[g] = hp.size[g]
      /\ Lone(q.size, H) /\ OneWhole(q.size, H) /\ q.flist \in Seq(Addrs)
      /\ \/ Sorted(q.flist, H)
         \/ /\ q.flist # <<>> /\ Sorted(q.flist, H \cup {Head(q.flist)})
            /\ \A g \in DOMAIN q.size : PageOf(g) # PageOf(Head(q.flist))

LEMMA OnPages ==
  ASSUME NEW a \in Nat, PageOf(a) \in HeapPages
  PROVE  a \in Addrs
  <1> DEFINE p == PageOf(a)
  <1>1. p \in HeapPages /\ p \in Nat /\ Base(p) \in Nat /\ Base(p) <= a /\ a < Base(p + 1)
        /\ Base(p + 1) = Base(p) + PageSize
    BY Pages, Bases
  <1> HIDE DEF p
  <1>2. a \in Base(p) .. Base(p) + PageSize - 1
    BY <1>1, Consts
  <1>3. QED
    BY <1>1, <1>2 DEF Addrs

LEMMA ListOnPages ==
  ASSUME NEW hp, NEW F, Okay(hp, F)
  PROVE  hp.flist \in Seq(Addrs)
  <1> DEFINE s == hp.flist
  <1>1. s \in Seq(Nat) /\ F = {s[i] : i \in 1 .. Len(s)} /\ F \subseteq DOMAIN hp.size
        /\ Tiled(hp.size)
    BY DEF Okay, Sorted
  <1>2. \A x \in F : x \in Addrs
    BY <1>1, Block, OnPages
  <1> HIDE DEF s
  <1>3. s \in Seq(Addrs)
    BY <1>1, <1>2
  <1>4. QED
    BY <1>3 DEF s

(* The last lines of kfree: a page that is wholly free is given back.      *)
LEMMA PageGood ==
  ASSUME NEW hp, NEW G, NEW v, Okay(hp, G), Lone(hp.size, G), v \in G,
         OneWhole(hp.size, G \ {v}),
         NEW q, q = IF hp.size[v] # WholePage THEN hp
                    ELSE IF Head(hp.flist) = v THEN GiveBack(hp, v)
                    ELSE GiveBack(Unlink(hp, v), v)
  PROVE  Given(hp, G, q) /\ (Sorted(q.flist, G \cap DOMAIN q.size) \/ Head(q.flist) = v)
  <1> DEFINE sz == hp.size  s == hp.flist  H == G \cap DOMAIN q.size  t == Without(sz, v)
  <1>1. /\ hp = [size |-> sz, flist |-> s] /\ Tiled(sz) /\ G \subseteq DOMAIN sz
        /\ s \in Seq(Nat) /\ Sorted(s, G) /\ s \in Seq(Addrs)
    BY ListOnPages DEF Okay
  <1>2. CASE sz[v] # WholePage
    <2>1. q = hp /\ H = G
      BY <1>1, <1>2
    <2>2. OneWhole(sz, G)
      BY <1>2 DEF OneWhole
    <2>3. QED
      BY <1>1, <2>1, <2>2 DEF Given
  <1>3. CASE sz[v] = WholePage
    <2>1. /\ Dropped(hp, v, t) /\ GiveBack(hp, v).size = t /\ GiveBack(hp, v).flist = s
          /\ \E r : GiveBack(Unlink(hp, v), v) = [size |-> t, flist |-> r]
                    /\ Okay([size |-> t, flist |-> r], G \ {v})
      <3>1. hp.size[v] = WholePage /\ t = Without(hp.size, v)
        BY <1>3
      <3> HIDE DEF t
      <3>2. Dropped(hp, v, t)
        BY <3>1, DropGood
      <3>3. GiveBack(hp, v).size = t /\ GiveBack(hp, v).flist = hp.flist
        BY <3>1, DropGood
      <3>4. \E r : GiveBack(Unlink(hp, v), v) = [size |-> t, flist |-> r]
                  /\ Okay([size |-> t, flist |-> r], G \ {v})
        BY <3>1, DropGood, Zenon
      <3>5. QED
        BY <3>2, <3>3, <3>4
    <2>2. PICK r : GiveBack(Unlink(hp, v), v) = [size |-> t, flist |-> r]
                   /\ Okay([size |-> t, flist |-> r], G \ {v})
      BY <2>1
    <2>3. q.size = t /\ q.flist = IF Head(s) = v THEN s ELSE r
      BY <1>3, <2>1, <2>2
    <2> HIDE DEF t
    <2>4. /\ Tiled(t) /\ DOMAIN t = DOMAIN sz \ {v}
          /\ \A g \in DOMAIN sz \ {v} :
               t[g] = sz[g] /\ End(t, g) = End(sz, g) /\ PageOf(g) # PageOf(v)
      BY <2>1 DEF Dropped
    <2>5. H = G \ {v}
      BY <1>1, <2>3, <2>4
    <2>6. \A g \in G \ {v} : t[g] = sz[g] /\ End(t, g) = End(sz, g)
      BY <1>1, <2>4
    <2>7. Lone(t, G \ {v}) /\ OneWhole(t, G \ {v})
      BY <2>6 DEF Lone, OneWhole
    <2>8. \A g \in DOMAIN sz : g \notin G => g \in DOMAIN t /\ t[g] = sz[g]
      BY <2>4
    <2>9. r \in Seq(Addrs) /\ Sorted(r, G \ {v})
      <3>1. [size |-> t, flist |-> r].flist \in Seq(Addrs)
        BY <2>2, ListOnPages
      <3>2. QED
        BY <2>2, <3>1 DEF Okay
    <2>10. CASE Head(s) = v
      <3>1. s # <<>>
        <4>1. PICK i \in 1 .. Len(s) : s[i] = v
          BY <1>1 DEF Sorted
        <4>2. Len(s) \in Nat /\ Len(s) # 0
          BY <1>1, <4>1
        <4>3. QED
          BY <1>1, <4>2
      <3>2. q.flist = s /\ \A g \in DOMAIN t : PageOf(g) # PageOf(Head(s))
        BY <2>3, <2>4, <2>10
      <3>3. Sorted(s, H \cup {Head(s)})
        <4>1. H \cup {Head(s)} = G
          BY <2>5, <2>10
        <4>2. QED
          BY <1>1, <4>1
      <3> HIDE DEF H
      <3>4. Given(hp, G, q)
        BY <1>1, <2>3, <2>4, <2>5, <2>7, <2>8, <3>1, <3>2, <3>3 DEF Given, H
      <3>5. QED
        BY <2>10, <3>2, <3>4
    <2>11. CASE Head(s) # v
      <3>1. q.flist = r
        BY <2>3, <2>11
      <3> HIDE DEF H
      <3>2. QED
        BY <1>1, <2>3, <2>4, <2>5, <2>7, <2>8, <2>9, <3>1 DEF Given, H
    <2>12. QED
      BY <2>10, <2>11
  <1>4. QED
    BY <1>2, <1>3

(* The list starts with the free block before h when h is freed.           *)
FirstNodeLost(s, h, t) == NodesBelow(s, h) # 0 /\ Head(t) = s[NodesBelow(s, h)]

LEMMA ReleasedGood ==
  ASSUME NEW hp, NEW F, NEW h, Okay(hp, F), Lone(hp.size, F), OneWhole(hp.size, F),
         h \in DOMAIN hp.size, h \notin F, NEW q, q = Released(hp, h)
  PROVE  /\ Given(hp, F \cup {h}, q)
         /\ \/ Sorted(q.flist, (F \cup {h}) \cap DOMAIN q.size)
            \/ FirstNodeLost(hp.flist, h, q.flist)
  <1> DEFINE sz == hp.size  k == NodesBelow(hp.flist, h)
             h1 == JoinNext([hp EXCEPT !.flist = InsertNode(hp.flist, h)], h, k + 1)
             F1 == F \cap DOMAIN h1.size  G == F1 \cup {h}  prev == hp.flist[k]
             j == TryCollide(h1, prev, h)
  <1>1. /\ Tiled(sz) /\ F \subseteq DOMAIN sz /\ hp.flist \in Seq(Nat) /\ Sorted(hp.flist, F)
        /\ h \in DOMAIN sz /\ h \notin F
    BY DEF Okay
  <1>2. NextJoined(hp, F, h, h1)
    BY NextGood
  <1>3. h \in Nat /\ \A x \in DOMAIN sz : x \in Nat
    BY <1>1, Block
  <1>4. /\ k \in 0 .. Len(hp.flist)
        /\ k = 0 => \A x \in F : ~(x < h)
        /\ k # 0 => prev \in F /\ prev < h /\ \A x \in F : x < h => x <= prev
    <2> DEFINE s == hp.flist
    <2>1. s \in Seq(Nat) /\ Sorted(s, F)
      BY <1>1
    <2> HIDE DEF s
    <2>2. Around(s, F, h, NodesBelow(s, h))
      BY <1>1, <1>3, <2>1, Surroundings
    <2>3. QED
      BY <2>2 DEF Around, s
  <1>5. q = IF h1.size[h] = WholePage THEN GiveBack(Unlink(h1, h), h)
            ELSE IF k + 1 > 1 THEN JoinPrev(h1, h, prev) ELSE h1
    <2>1. k \in Nat /\ (k + 1) - 1 = k
      BY <1>4
    <2>2. hp.flist[(k + 1) - 1] = prev
      BY <2>1
    <2> HIDE DEF k
    <2>3. QED
      BY <2>2 DEF Released, k
  <1> HIDE DEF h1, prev, k, sz
  <1>6. /\ Okay(h1, G) /\ Lone(h1.size, F1) /\ Tiled(h1.size) /\ G \subseteq DOMAIN h1.size
        /\ \A y \in F1 : End(h1.size, h) = y => PageOf(h) # PageOf(y)
        /\ DOMAIN h1.size \subseteq DOMAIN sz
        /\ \A g \in DOMAIN sz : g \notin F \/ g < h => g \in DOMAIN h1.size
        /\ \A g \in DOMAIN h1.size \ {h} : h1.size[g] = sz[g] /\ End(h1.size, g) = End(sz, g)
    BY <1>2 DEF NextJoined, Okay, sz
  <1>7. G = (F \cup {h}) \cap DOMAIN h1.size
    BY <1>6
  <1>8. OneWhole(h1.size, F1)
    BY <1>1, <1>6 DEF OneWhole, sz
  <1>9. \A g \in DOMAIN sz : g \notin F \cup {h} => g \in DOMAIN h1.size /\ h1.size[g] = sz[g]
    BY <1>6
  <1>10. ASSUME NEW x, NEW X, Given(x, X, q), X = (F \cup {h}) \cap DOMAIN x.size,
                DOMAIN x.size \subseteq DOMAIN sz,
                \A g \in DOMAIN sz : g \notin F \cup {h} => g \in DOMAIN x.size /\ x.size[g] = sz[g],
                Sorted(q.flist, X \cap DOMAIN q.size) \/ (k # 0 /\ Head(q.flist) = prev)
         PROVE  /\ Given(hp, F \cup {h}, q)
                /\ \/ Sorted(q.flist, (F \cup {h}) \cap DOMAIN q.size)
                   \/ FirstNodeLost(hp.flist, h, q.flist)
    <2>1. /\ Tiled(q.size) /\ DOMAIN q.size \subseteq DOMAIN x.size
          /\ \A g \in DOMAIN x.size : g \notin X => g \in DOMAIN q.size /\ q.size[g] = x.size[g]
          /\ Lone(q.size, X \cap DOMAIN q.size) /\ OneWhole(q.size, X \cap DOMAIN q.size)
          /\ q.flist \in Seq(Addrs)
          /\ \/ Sorted(q.flist, X \cap DOMAIN q.size)
             \/ /\ q.flist # <<>> /\ Sorted(q.flist, (X \cap DOMAIN q.size) \cup {Head(q.flist)})
                /\ \A g \in DOMAIN q.size : PageOf(g) # PageOf(Head(q.flist))
      BY <1>10 DEF Given
    <2>2. X \cap DOMAIN q.size = (F \cup {h}) \cap DOMAIN q.size
      BY <1>10, <2>1
    <2>3. \A g \in DOMAIN sz : g \notin F \cup {h} => g \in DOMAIN q.size /\ q.size[g] = sz[g]
      BY <1>10, <2>1
    <2>4. DOMAIN q.size \subseteq DOMAIN sz
      BY <1>10, <2>1
    <2>5. Given(hp, F \cup {h}, q)
      BY <2>1, <2>2, <2>3, <2>4 DEF Given, sz
    <2>6. k # 0 /\ Head(q.flist) = prev => FirstNodeLost(hp.flist, h, q.flist)
      BY DEF FirstNodeLost, k, prev
    <2>7. QED
      BY <1>10, <2>2, <2>5, <2>6
  <1>11. CASE h1.size[h] = WholePage
    <2> DEFINE t == Without(h1.size, h)
    <2>1. Dropped(h1, h, t) /\ \E r : GiveBack(Unlink(h1, h), h) = [size |-> t, flist |-> r]
                                      /\ Okay([size |-> t, flist |-> r], G \ {h})
      <3>1. h \in G /\ Okay(h1, G) /\ h1.size[h] = WholePage /\ t = Without(h1.size, h)
        BY <1>6, <1>11
      <3> HIDE DEF t, G
      <3>2. Dropped(h1, h, t)
        BY <3>1, DropGood
      <3>3. \E r : GiveBack(Unlink(h1, h), h) = [size |-> t, flist |-> r]
                  /\ Okay([size |-> t, flist |-> r], G \ {h})
        BY <3>1, DropGood, Zenon
      <3>4. QED
        BY <3>2, <3>3
    <2>2. PICK r : q = [size |-> t, flist |-> r] /\ Okay([size |-> t, flist |-> r], G \ {h})
      BY <1>5, <1>11, <2>1
    <2> HIDE DEF t
    <2>3. q.size = t /\ q.flist = r /\ Okay(q, G \ {h})
      BY <2>2
    <2>4. /\ Tiled(t) /\ DOMAIN t = DOMAIN h1.size \ {h}
          /\ \A g \in DOMAIN h1.size \ {h} : t[g] = h1.size[g] /\ End(t, g) = End(h1.size, g)
      BY <2>1 DEF Dropped
    <2>5. G \ {h} = F1 /\ G \cap DOMAIN q.size = F1
      BY <1>1, <1>6, <2>3, <2>4
    <2>6. \A g \in F1 : t[g] = h1.size[g] /\ End(t, g) = End(h1.size, g)
      BY <1>1, <2>4
    <2>7. Lone(t, F1) /\ OneWhole(t, F1)
      BY <1>6, <1>8, <2>6 DEF Lone, OneWhole
    <2>8. q.flist \in Seq(Addrs) /\ Sorted(q.flist, F1)
      BY <2>3, <2>5, ListOnPages DEF Okay
    <2>9. \A g \in DOMAIN h1.size : g \notin G => g \in DOMAIN t /\ t[g] = h1.size[g]
      BY <2>4
    <2> HIDE DEF G, F1
    <2>10. Given(h1, G, q)
      BY <2>3, <2>4, <2>5, <2>7, <2>8, <2>9 DEF Given
    <2>11. Sorted(q.flist, G \cap DOMAIN q.size)
      BY <2>5, <2>8
    <2>12. QED
      BY <1>6, <1>7, <1>9, <1>10, <2>10, <2>11
  <1>12. CASE h1.size[h] # WholePage /\ k = 0
    <2>1. q = h1
      BY <1>5, <1>12
    <2>2. Lone(h1.size, G)
      <3>1. SUFFICES ASSUME NEW x \in F1, End(h1.size, x) = h PROVE FALSE
        <4>1. End(h1.size, h) # h
          BY <1>3, <1>6, Block
        <4>2. QED
          BY <1>6, <3>1, <4>1 DEF Lone
      <3>2. x < h
        BY <1>1, <1>3, <1>6, <3>1, Block
      <3>3. QED
        BY <1>4, <1>12, <3>2
    <2>3. OneWhole(h1.size, G)
      BY <1>8, <1>12 DEF OneWhole
    <2>4. q.flist \in Seq(Addrs) /\ Sorted(q.flist, G) /\ G \cap DOMAIN q.size = G
      BY <1>6, <2>1, ListOnPages DEF Okay
    <2> HIDE DEF G, F1
    <2>5. Given(h1, G, q)
      BY <1>6, <2>1, <2>2, <2>3, <2>4 DEF Given
    <2>6. QED
      BY <1>6, <1>7, <1>9, <1>10, <2>4, <2>5
  <1>13. CASE h1.size[h] # WholePage /\ k # 0
    <2>1. q = IF j.size[prev] # WholePage THEN j
              ELSE IF Head(j.flist) = prev THEN GiveBack(j, prev)
              ELSE GiveBack(Unlink(j, prev), prev)
      <3>1. q = JoinPrev(h1, h, prev)
        BY <1>4, <1>5, <1>13
      <3>2. QED
        BY <3>1 DEF JoinPrev
    <2>2. prev \in F /\ prev < h /\ (\A x \in F : x < h => x <= prev) /\ prev \in Nat
      BY <1>1, <1>3, <1>4, <1>13
    <2>3. prev \in F1 /\ prev \in G /\ h \in G
      BY <1>1, <1>6, <2>2
    <2> HIDE DEF j
    <2>4. \/ Joined(h1, G, prev, h, j)
          \/ j = h1 /\ (End(h1.size, prev) = h => PageOf(prev) # PageOf(h))
      <3> HIDE DEF G
      <3>1. QED
        BY <1>6, <2>3, JoinGood DEF j
    <2>5. CASE Joined(h1, G, prev, h, j)
      <3>1. /\ PageOf(prev) = PageOf(h) /\ Okay(j, G \ {h})
            /\ DOMAIN j.size = DOMAIN h1.size \ {h} /\ End(j.size, prev) = End(h1.size, h)
            /\ \A g \in DOMAIN h1.size \ {prev, h} :
                 j.size[g] = h1.size[g] /\ End(j.size, g) = End(h1.size, g)
        BY <2>5 DEF Joined, IsMerged
      <3>2. G \ {h} = F1 /\ F1 = (F \cup {h}) \cap DOMAIN j.size
        BY <1>1, <1>6, <3>1
      <3>3. \A g \in F1 \ {prev} : j.size[g] = h1.size[g] /\ End(j.size, g) = End(h1.size, g)
        BY <1>1, <1>6, <3>1
      <3>4. Lone(j.size, F1)
        BY <1>6, <3>1, <3>3 DEF Lone
      <3>5. OneWhole(j.size, F1 \ {prev})
        BY <1>8, <3>3 DEF OneWhole
      <3>6. Okay(j, F1)
        BY <3>1, <3>2
      <3>7. \A g \in DOMAIN sz : g \notin F \cup {h} => g \in DOMAIN j.size /\ j.size[g] = sz[g]
        BY <1>9, <2>2, <3>1
      <3>8. DOMAIN j.size \subseteq DOMAIN sz
        BY <1>6, <3>1
      <3> HIDE DEF F1
      <3>9. Given(j, F1, q) /\ (Sorted(q.flist, F1 \cap DOMAIN q.size) \/ Head(q.flist) = prev)
        BY <2>1, <2>3, <3>4, <3>5, <3>6, PageGood
      <3>10. QED
        BY <1>10, <1>13, <3>2, <3>7, <3>8, <3>9
    <2>6. CASE j = h1 /\ (End(h1.size, prev) = h => PageOf(prev) # PageOf(h))
      <3>1. Lone(h1.size, G)
        <4>1. SUFFICES ASSUME NEW x \in F1, End(h1.size, x) = h, PageOf(x) = PageOf(h) PROVE FALSE
          <5>1. End(h1.size, h) # h
            BY <1>3, <1>6, Block
          <5>2. QED
            BY <1>6, <4>1, <5>1 DEF Lone
        <4>2. x < h /\ x \in Nat /\ x \in DOMAIN h1.size
          BY <1>1, <1>3, <1>6, <4>1, Block
        <4>3. x <= prev /\ prev \in DOMAIN h1.size
          BY <1>6, <2>2, <2>3, <4>2
        <4>4. prev > x => prev >= h
          BY <1>6, <4>1, <4>2, <4>3, Block
        <4>5. x = prev
          BY <1>3, <2>2, <4>2, <4>3, <4>4
        <4>6. QED
          BY <2>6, <4>1, <4>5
      <3>2. OneWhole(h1.size, G \ {prev})
        BY <1>8, <1>13 DEF OneWhole
      <3> HIDE DEF G
      <3>3. q = IF h1.size[prev] # WholePage THEN h1
                ELSE IF Head(h1.flist) = prev THEN GiveBack(h1, prev)
                ELSE GiveBack(Unlink(h1, prev), prev)
        BY <2>1, <2>6
      <3>4. Given(h1, G, q) /\ (Sorted(q.flist, G \cap DOMAIN q.size) \/ Head(q.flist) = prev)
        <4>1. Okay(h1, G) /\ prev \in G
          BY <1>6, <2>3
        <4>2. QED
          BY <3>1, <3>2, <3>3, <4>1, PageGood, Zenon
      <3>5. QED
        BY <1>6, <1>7, <1>9, <1>10, <1>13, <3>4
    <2>7. QED
      BY <2>4, <2>5, <2>6
  <1>14. QED
    BY <1>11, <1>12, <1>13

-----------------------------------------------------------------------------
(* The steps. *)
(* No request wraps when it is rounded or gets its header: kalloc does not *)
(* check that, 24-34.                                                      *)
NoWrap == \A n \in Requests : n + 1 + Hdr < Word

FreeOf(sz, lv) == {h \in DOMAIN sz : h + Hdr \notin DOMAIN lv}

(* The pointers clients hold are blocks of at least the size they asked    *)
(* for.                                                                    *)
Held(sz, lv) ==
  /\ lv \in [DOMAIN lv -> Requests]
  /\ \A p \in DOMAIN lv : p \in Nat /\ p - Hdr \in DOMAIN sz /\ lv[p] <= sz[p - Hdr]

(* The list is the sequence of the free blocks in the order of addresses,  *)
(* but for its first node if it dangles.                                   *)
Listed(sz, lv, s, dangling) ==
  Sorted(s, IF dangling THEN FreeOf(sz, lv) \cup {Head(s)} ELSE FreeOf(sz, lv))

(* The inductive invariant.  The list holds the free blocks; these are     *)
(* never neighbours, and at most one is a whole page.                      *)
KInv ==
  /\ Tiled(size) /\ Held(size, live)
  /\ flist \in Seq(Addrs) /\ Listed(size, live, flist, Dangling)
  /\ Lone(size, FreeOf(size, live)) /\ OneWhole(size, FreeOf(size, live))
  /\ halted \in BOOLEAN

(* A list of headers starts with one of them, so that it does not dangle.  *)
LEMMA HeadListed ==
  ASSUME NEW F, NEW s, Sorted(s, F), s # <<>>
  PROVE  Head(s) \in F
  <1>1. s \in Seq(Nat) /\ F = {s[i] : i \in 1 .. Len(s)}
    BY DEF Sorted
  <1>2. 1 \in 1 .. Len(s) /\ Head(s) = s[1]
    BY <1>1
  <1>3. QED
    BY <1>1, <1>2

LEMMA InitKInv == Init => KInv
  <1>1. SUFFICES ASSUME Init PROVE KInv
    OBVIOUS
  <1>2. DOMAIN size = {} /\ flist = <<>> /\ DOMAIN live = {} /\ halted = FALSE
        /\ size = [h \in {} |-> 0] /\ live = [p \in {} |-> 0]
    BY <1>1 DEF Init
  <1>3. Tiled(size)
    BY <1>2 DEF Tiled
  <1>4. Held(size, live)
    BY <1>2 DEF Held
  <1>5. FreeOf(size, live) = {}
    BY <1>2 DEF FreeOf
  <1>6. flist \in Seq(Addrs) /\ Sorted(flist, {})
    BY <1>2 DEF Sorted
  <1>7. QED
    BY <1>2, <1>3, <1>4, <1>5, <1>6 DEF KInv, Listed, Dangling, Lone, OneWhole

(* The block of a pointer, and that another block is not freed with it.    *)
LEMMA Pointers ==
  ASSUME NEW sz, NEW lv, Tiled(sz), Held(sz, lv)
  PROVE  /\ \A p \in DOMAIN lv : /\ p \in Nat /\ p - Hdr \in DOMAIN sz /\ p - Hdr \in Nat
                                 /\ (p - Hdr) + Hdr = p /\ p - Hdr \notin FreeOf(sz, lv)
         /\ \A h \in DOMAIN sz : h \in Nat /\ (h + Hdr) - Hdr = h /\ h + Hdr \in Nat
         /\ \A g, h \in DOMAIN sz : g + Hdr = h + Hdr => g = h
  <1>1. \A h \in DOMAIN sz : h \in Nat
    BY Block
  <1>2. \A h \in DOMAIN sz : (h + Hdr) - Hdr = h /\ h + Hdr \in Nat
    BY <1>1, Consts
  <1>3. \A p \in DOMAIN lv : p \in Nat /\ p - Hdr \in DOMAIN sz
    BY DEF Held
  <1>4. \A p \in DOMAIN lv : (p - Hdr) + Hdr = p
    BY <1>3, Consts
  <1>5. \A p \in DOMAIN lv : p - Hdr \notin FreeOf(sz, lv)
    BY <1>3, <1>4 DEF FreeOf
  <1>6. QED
    BY <1>1, <1>2, <1>3, <1>4, <1>5

(* What kalloc can take a block from: the heap, with pages added that are  *)
(* free.                                                                   *)
Ready(hp) ==
  /\ Okay(hp, FreeOf(hp.size, live)) /\ Lone(hp.size, FreeOf(hp.size, live))
  /\ Blocks \subseteq DOMAIN hp.size /\ \A g \in Blocks : hp.size[g] = size[g]

LEMMA HeapReady ==
  ASSUME KInv, ~Dangling
  PROVE  Ready(Heap) /\ OneWhole(Heap.size, FreeOf(Heap.size, live))
  <1>1. Heap.size = size /\ Heap.flist = flist /\ Heap = [size |-> Heap.size, flist |-> Heap.flist]
    BY DEF Heap
  <1>2. Sorted(flist, FreeOf(size, live)) /\ flist \in Seq(Nat)
    BY DEF KInv, Listed, Sorted
  <1>3. FreeOf(size, live) \subseteq DOMAIN size
    BY DEF FreeOf
  <1>4. QED
    BY <1>1, <1>2, <1>3 DEF KInv, Ready, Okay, Blocks

LEMMA PageReady ==
  ASSUME KInv, NEW hp, Ready(hp), NEW p \in FreshPages(hp)
  PROVE  LET q == AddPage(hp, p)
         IN  /\ Ready(q) /\ Base(p) \in FreeOf(q.size, live) /\ q.size[Base(p)] = WholePage
             /\ FreeOf(q.size, live) = FreeOf(hp.size, live) \cup {Base(p)}
             /\ Base(p) \notin FreeOf(hp.size, live)
             /\ \A h \in DOMAIN hp.size : q.size[h] = hp.size[h]
  <1> DEFINE q == AddPage(hp, p)  b == Base(p)  F == FreeOf(hp.size, live)
  <1>1. /\ Okay(q, F \cup {b}) /\ Lone(q.size, F \cup {b})
        /\ b \in Nat /\ b \notin DOMAIN hp.size /\ DOMAIN q.size = DOMAIN hp.size \cup {b}
        /\ q.size[b] = WholePage /\ \A h \in DOMAIN hp.size : q.size[h] = hp.size[h]
    <2>1. Okay(hp, F) /\ Lone(hp.size, F)
      BY DEF Ready
    <2> HIDE DEF F
    <2>2. QED
      BY <2>1, AddGood, Zenon
  <1>2. b + Hdr \notin DOMAIN live
    <2>1. SUFFICES ASSUME b + Hdr \in DOMAIN live PROVE FALSE
      OBVIOUS
    <2>2. (b + Hdr) - Hdr \in Blocks
      BY <2>1 DEF KInv, Held, Blocks
    <2>3. (b + Hdr) - Hdr = b
      BY <1>1, Consts
    <2>4. QED
      BY <1>1, <2>2, <2>3 DEF Ready
  <1> HIDE DEF q, b
  <1>3. FreeOf(q.size, live) = F \cup {b} /\ b \notin F
    BY <1>1, <1>2 DEF FreeOf
  <1>4. Ready(q)
    BY <1>1, <1>3 DEF Ready
  <1>5. QED
    BY <1>1, <1>3, <1>4 DEF q, b

(* A request that is met from block h. *)
Meets(hp, h, n) ==
  /\ Ready(hp) /\ h \in FreeOf(hp.size, live)
  /\ OneWhole(hp.size, FreeOf(hp.size, live) \ {h})
  /\ n \in Nat /\ Rounded(n) \in Nat /\ Rounded(n) >= n /\ Rounded(n) >= Min_
  /\ WithHeader(Rounded(n)) = Rounded(n) + Hdr /\ Rounded(n) <= hp.size[h]
  /\ (Rounded(n) + Hdr + Min_) % Word = Rounded(n) + Hdr + Min_

LEMMA TakeFacts ==
  ASSUME KInv, NEW hp, NEW h, NEW n \in Requests, Meets(hp, h, n), Take(hp, h, n)
  PROVE  /\ KInv' /\ ~Dangling' /\ h \in DOMAIN size' /\ h + Hdr \notin DOMAIN live
         /\ DOMAIN live' = DOMAIN live \cup {h + Hdr} /\ size'[h] \in Nat /\ size'[h] >= n
         /\ \A p \in DOMAIN live : p - Hdr # h /\ size'[p - Hdr] = size[p - Hdr]
  <1> DEFINE sz == hp.size  F == FreeOf(sz, live)  r == Rounded(n)  q == Carve(hp, h, r)
             E == DOMAIN q.size \ DOMAIN sz  G == (F \ {h}) \cup E
  <1>1. /\ Okay(hp, F) /\ Lone(sz, F) /\ h \in F /\ OneWhole(sz, F \ {h})
        /\ Blocks \subseteq DOMAIN sz /\ \A g \in Blocks : sz[g] = size[g]
    BY DEF Meets, Ready
  <1>2. /\ n \in Nat /\ r \in Nat /\ r >= n /\ r >= Min_ /\ WithHeader(r) = r + Hdr
        /\ r <= sz[h] /\ (r + Hdr + Min_) % Word = r + Hdr + Min_
    BY DEF Meets
  <1>3. /\ Okay(q, G) /\ Lone(q.size, G) /\ DOMAIN sz \subseteq DOMAIN q.size
        /\ q.size[h] \in Nat /\ q.size[h] >= r
        /\ \A g \in DOMAIN sz \ {h} : q.size[g] = sz[g]
        /\ \A c \in E : q.size[c] # WholePage
    <2> HIDE DEF F, r
    <2>1. Carved(hp, F, h, r, Carve(hp, h, r))
      BY <1>1, <1>2, CarveGood
    <2>2. QED
      BY <2>1 DEF Carved
  <1>4. /\ size' = q.size /\ flist' = q.flist /\ halted' = halted
        /\ live' = [p \in DOMAIN live \cup {h + Hdr} |-> IF p = h + Hdr THEN n ELSE live[p]]
    BY DEF Take
  <1>5. h \in DOMAIN sz /\ h + Hdr \notin DOMAIN live /\ Tiled(sz) /\ Tiled(q.size)
    BY <1>1, <1>3 DEF FreeOf, Okay
  <1> HIDE DEF q, r
  <1>6. h \in Nat /\ (h + Hdr) - Hdr = h /\ h + Hdr \in Nat /\ \A x \in DOMAIN q.size : x \in Nat
    <2>1. h \in Nat /\ \A x \in DOMAIN q.size : x \in Nat
      BY <1>5, Block
    <2>2. QED
      BY <2>1, Consts
  <1>7. \A p \in DOMAIN live : /\ p \in Nat /\ p - Hdr \in Blocks /\ (p - Hdr) + Hdr = p
                               /\ live[p] \in Requests /\ live[p] <= size[p - Hdr]
    <2>1. Tiled(size) /\ Held(size, live)
      BY DEF KInv
    <2>2. \A p \in DOMAIN live : (p - Hdr) + Hdr = p
      BY <2>1, Pointers
    <2>3. QED
      BY <2>1, <2>2 DEF Held, Blocks
  <1>8. ASSUME NEW p \in DOMAIN live
        PROVE  p - Hdr # h /\ p - Hdr \in DOMAIN q.size /\ q.size[p - Hdr] = size[p - Hdr]
    <2>1. p - Hdr # h
      BY <1>5, <1>7
    <2>2. p - Hdr \in Blocks /\ p - Hdr \in DOMAIN sz \ {h}
      BY <1>1, <1>7, <2>1
    <2>3. QED
      BY <1>1, <1>3, <2>1, <2>2
  <1>9. DOMAIN live' = DOMAIN live \cup {h + Hdr} /\ live'[h + Hdr] = n
        /\ \A p \in DOMAIN live : live'[p] = live[p]
    BY <1>4, <1>5
  <1>10. FreeOf(q.size, live') = G
    <2>1. ASSUME NEW x \in E PROVE x + Hdr \notin DOMAIN live /\ x # h
      <3>1. x \in Nat /\ (x + Hdr) - Hdr = x
        BY <1>6, Consts
      <3>2. QED
        BY <1>1, <1>5, <1>7, <3>1
    <2>2. \A x \in DOMAIN q.size : x + Hdr = h + Hdr => x = h
      BY <1>6, Consts
    <2>3. ASSUME NEW x \in G PROVE x \in DOMAIN q.size /\ x + Hdr \notin DOMAIN live'
      <3>1. x \in DOMAIN q.size /\ x # h /\ x + Hdr \notin DOMAIN live
        BY <1>3, <1>5, <2>1 DEF FreeOf
      <3>2. QED
        BY <1>9, <2>2, <3>1
    <2>4. ASSUME NEW x \in DOMAIN q.size, x + Hdr \notin DOMAIN live' PROVE x \in G
      BY <1>9, <2>4 DEF FreeOf
    <2> HIDE DEF G
    <2>5. QED
      BY <2>3, <2>4 DEF FreeOf
  <1>11. Held(size', live')
    <2>1. live' \in [DOMAIN live' -> Requests]
      BY <1>4, <1>7
    <2>2. ASSUME NEW p \in DOMAIN live'
          PROVE  p \in Nat /\ p - Hdr \in DOMAIN q.size /\ live'[p] <= q.size[p - Hdr]
      <3>1. CASE p = h + Hdr
        BY <1>2, <1>3, <1>5, <1>6, <1>9, <3>1
      <3>2. CASE p \in DOMAIN live
        BY <1>7, <1>8, <1>9, <3>2
      <3>3. QED
        BY <1>9, <3>1, <3>2
    <2>3. QED
      BY <1>4, <2>1, <2>2 DEF Held
  <1>12. Lone(size', FreeOf(size', live')) /\ OneWhole(size', FreeOf(size', live'))
    <2>1. OneWhole(q.size, G)
      <3>1. \A g \in F \ {h} : q.size[g] = sz[g]
        BY <1>3 DEF FreeOf
      <3>2. QED
        BY <1>1, <1>3, <3>1 DEF OneWhole
    <2> HIDE DEF G
    <2>2. QED
      BY <1>3, <1>4, <1>10, <2>1
  <1>13. flist' \in Seq(Addrs) /\ Sorted(flist', FreeOf(size', live')) /\ Tiled(size')
    <2> HIDE DEF G
    <2>1. q.flist \in Seq(Addrs) /\ Sorted(q.flist, G)
      BY <1>3, ListOnPages DEF Okay
    <2>2. QED
      BY <1>4, <1>5, <1>10, <2>1
  <1>14. ~Dangling'
    <2>1. flist' # <<>> => Head(flist') \in DOMAIN size'
      BY <1>13, HeadListed DEF FreeOf
    <2>2. QED
      BY <2>1 DEF Dangling, UsedPages, Blocks
  <1>15. KInv'
    <2>1. halted' \in BOOLEAN
      BY <1>4 DEF KInv
    <2>2. Listed(size', live', flist', Dangling')
      BY <1>13, <1>14 DEF Listed
    <2>3. QED
      BY <1>11, <1>12, <1>13, <2>1, <2>2 DEF KInv
  <1>16. QED
    BY <1>2, <1>3, <1>4, <1>5, <1>8, <1>9, <1>15, <1>14

LEMMA StockedReady ==
  ASSUME KInv, ~Dangling, NEW hp \in Stocked
  PROVE  Ready(hp) /\ OneWhole(hp.size, FreeOf(hp.size, live))
  <1>1. CASE flist # <<>>
    <2>1. hp = Heap
      BY <1>1 DEF Stocked
    <2>2. QED
      BY <2>1, HeapReady
  <1>2. CASE flist = <<>>
    <2>1. PICK p \in FreshPages(Heap) : hp = AddPage(Heap, p)
      BY <1>2 DEF Stocked
    <2>2. Ready(hp) /\ FreeOf(hp.size, live) = FreeOf(Heap.size, live) \cup {Base(p)}
      BY <2>1, HeapReady, PageReady
    <2>3. FreeOf(Heap.size, live) = {}
      <3>1. Sorted(<<>>, FreeOf(Heap.size, live))
        BY <1>2 DEF KInv, Listed, Heap
      <3>2. Len(<<>>) = 0 /\ {<<>>[i] : i \in 1 .. 0} = {}
        OBVIOUS
      <3>3. QED
        BY <3>1, <3>2 DEF Sorted
    <2>4. QED
      BY <2>2, <2>3 DEF OneWhole
  <1>3. QED
    BY <1>1, <1>2

(* kalloc takes a block that meets the request, or writes to page 0.       *)
LEMMA KallocTakes ==
  ASSUME KInv, NoWrap, NEW n \in Requests, Kalloc(n)
  PROVE  NoPage \/ \E hp, h : Meets(hp, h, n) /\ Take(hp, h, n)
  <1> DEFINE r == Rounded(n)
  <1>1. ~Dangling /\ ~TooLarge(r) /\ n + 1 + Hdr < Word
    BY DEF Kalloc, NoWrap
  <1>2. ASSUME NEW p \in HeapPages
        PROVE  /\ n \in Nat /\ r \in Nat /\ r >= n /\ r >= Min_
               /\ WithHeader(r) = r + Hdr /\ r <= WholePage
               /\ (r + Hdr + Min_) % Word = r + Hdr + Min_
    BY <1>1, Sizes
  <1>3. ASSUME NEW hp \in Stocked, FirstFit(hp, r) # 0, Take(hp, hp.flist[FirstFit(hp, r)], n)
        PROVE  \E x, h : Meets(x, h, n) /\ Take(x, h, n)
    <2> DEFINE h == hp.flist[FirstFit(hp, r)]  F == FreeOf(hp.size, live)
    <2>1. Ready(hp) /\ OneWhole(hp.size, F)
      BY <1>1, StockedReady
    <2>2. Okay(hp, F) /\ hp.flist \in Seq(Nat) /\ Sorted(hp.flist, F) /\ Tiled(hp.size)
          /\ F \subseteq DOMAIN hp.size
      BY <2>1 DEF Ready, Okay
    <2>3. h \in F /\ hp.size[h] >= WithHeader(r)
      <3> HIDE DEF F, r
      <3>1. QED
        BY <1>3, <2>2, Fits
    <2> HIDE DEF h, F, r
    <2>4. hp.size[h] \in Nat /\ PageOf(h) \in HeapPages
      BY <2>2, <2>3, Block
    <2>5. /\ n \in Nat /\ r \in Nat /\ r >= n /\ r >= Min_
          /\ WithHeader(r) = r + Hdr /\ (r + Hdr + Min_) % Word = r + Hdr + Min_
      BY <1>2, <2>4
    <2>6. r <= hp.size[h]
      BY <2>3, <2>4, <2>5, Consts
    <2>7. OneWhole(hp.size, F \ {h})
      BY <2>1 DEF OneWhole
    <2>8. Meets(hp, h, n)
      BY <2>1, <2>3, <2>5, <2>6, <2>7 DEF Meets, F, r
    <2>9. QED
      BY <1>3, <2>8 DEF h
  <1>4. ASSUME NEW hp \in Stocked, NEW p \in FreshPages(hp), Take(AddPage(hp, p), Base(p), n)
        PROVE  \E x, h : Meets(x, h, n) /\ Take(x, h, n)
    <2> DEFINE q == AddPage(hp, p)  b == Base(p)  F == FreeOf(hp.size, live)
    <2>1. Ready(hp) /\ OneWhole(hp.size, F) /\ F \subseteq DOMAIN hp.size
      BY <1>1, StockedReady DEF Ready, Okay
    <2>2. /\ Ready(q) /\ b \in FreeOf(q.size, live) /\ q.size[b] = WholePage
          /\ FreeOf(q.size, live) = F \cup {b} /\ b \notin F
          /\ \A h \in DOMAIN hp.size : q.size[h] = hp.size[h]
      BY <2>1, PageReady
    <2> HIDE DEF q, b, F, r
    <2>3. OneWhole(q.size, FreeOf(q.size, live) \ {b})
      BY <2>1, <2>2 DEF OneWhole
    <2>4. p \in HeapPages
      BY DEF FreshPages
    <2>5. /\ n \in Nat /\ r \in Nat /\ r >= n /\ r >= Min_ /\ r <= WholePage
          /\ WithHeader(r) = r + Hdr /\ (r + Hdr + Min_) % Word = r + Hdr + Min_
      BY <1>2, <2>4
    <2>6. Meets(q, b, n)
      BY <2>2, <2>3, <2>5 DEF Meets, r
    <2>7. QED
      BY <1>4, <2>6 DEF q, b
  <1>5. QED
    BY <1>3, <1>4 DEF Kalloc

-----------------------------------------------------------------------------
(* The promise of a heap. *)
Blocked == [p \in DOMAIN live |-> size[p - Hdr]]

(* What follows the header of a block is on its page.                      *)
LEMMA Payload ==
  ASSUME NEW sz, Tiled(sz), NEW h \in DOMAIN sz
  PROVE  h + Hdr \in Addrs /\ PageOf(h + Hdr) = PageOf(h) /\ PageOf(h + Hdr + sz[h] - 1) = PageOf(h)
  <1> DEFINE p == PageOf(h)  a == h + Hdr  e == h + Hdr + sz[h] - 1
  <1>1. /\ h \in Nat /\ sz[h] \in Nat /\ sz[h] >= Min_ /\ p \in Nat /\ p \in HeapPages
        /\ Base(p) \in Nat /\ Base(p) <= h /\ Base(p + 1) = Base(p) + PageSize
        /\ h + Hdr + sz[h] <= Base(p + 1)
    BY Block
  <1> HIDE DEF p
  <1>2. /\ a \in Nat /\ Base(p) <= a /\ a < Base(p + 1)
        /\ e \in Nat /\ Base(p) <= e /\ e < Base(p + 1)
    BY <1>1, Consts
  <1> HIDE DEF a, e
  <1>3. PageOf(a) = p /\ PageOf(e) = p
    BY <1>1, <1>2, Pages
  <1>4. a \in Addrs
    BY <1>1, <1>2, <1>3, OnPages
  <1>5. QED
    BY <1>3, <1>4 DEF a, e, p

LEMMA TakePromise ==
  ASSUME KInv, NEW hp, NEW h, NEW n \in Requests, Meets(hp, h, n), Take(hp, h, n)
  PROVE  Promise!Alloc(n)
  <1> DEFINE p == h + Hdr
  <1>1. /\ KInv' /\ h \in DOMAIN size' /\ p \notin DOMAIN live
        /\ DOMAIN live' = DOMAIN live \cup {p} /\ size'[h] \in Nat /\ size'[h] >= n
        /\ \A q \in DOMAIN live : q - Hdr # h /\ size'[q - Hdr] = size[q - Hdr]
    BY TakeFacts
  <1>2. Tiled(size') /\ Held(size', live')
    BY <1>1 DEF KInv
  <1>3. h \in Nat /\ p - Hdr = h
    <2>1. h \in Nat
      BY <1>1, <1>2, Block
    <2>2. QED
      BY <2>1, Consts
  <1>4. p \in Addrs /\ PageOf(p) = PageOf(h) /\ PageOf(p + size'[h] - 1) = PageOf(p)
    BY <1>1, <1>2, Payload
  <1>5. ASSUME NEW q \in DOMAIN live
        PROVE  p + size'[h] <= q \/ q + size[q - Hdr] <= p
    <2> DEFINE g == q - Hdr
    <2>1. q \in Nat /\ g \in DOMAIN size' /\ g \in Nat /\ g # h /\ size'[g] = size[g]
      BY <1>1, <1>2, Pointers
    <2>2. g + Hdr = q
      BY <2>1, Consts
    <2> HIDE DEF g
    <2>3. /\ g > h => g >= End(size', h)
          /\ h > g => h >= End(size', g)
          /\ End(size', h) = h + Hdr + size'[h] /\ End(size', g) = g + Hdr + size'[g]
          /\ size'[g] \in Nat
      BY <1>1, <1>2, <2>1, Block
    <2>4. size[q - Hdr] = size'[g]
      BY <2>1 DEF g
    <2>5. QED
      BY <1>1, <1>3, <2>1, <2>2, <2>3, <2>4, Consts
  <1> HIDE DEF p
  <1>6. /\ DOMAIN Blocked = DOMAIN live /\ DOMAIN Blocked' = DOMAIN live \cup {p}
        /\ Blocked'[p] = size'[h]
        /\ \A q \in DOMAIN live : Blocked[q] = size[q - Hdr] /\ Blocked'[q] = size[q - Hdr]
    BY <1>1, <1>3 DEF Blocked
  <1>7. /\ p \in DOMAIN Blocked' \ DOMAIN Blocked
        /\ p \in Addrs
        /\ DOMAIN Blocked' = DOMAIN Blocked \cup {p}
        /\ \A q \in DOMAIN Blocked : Blocked'[q] = Blocked[q]
        /\ Blocked'[p] >= n
        /\ PageOf(p + Blocked'[p] - 1) = PageOf(p)
        /\ \A q \in DOMAIN Blocked : Promise!Apart(p, Blocked'[p], q, Blocked[q])
    BY <1>1, <1>4, <1>5, <1>6 DEF Promise!Apart
  <1>8. QED
    BY <1>7 DEF Promise!Alloc, Blocked

LEMMA KfreeFacts ==
  ASSUME KInv, NEW p \in DOMAIN live, Kfree(p)
  PROVE  /\ KInv' /\ DOMAIN live' = DOMAIN live \ {p}
         /\ \A q \in DOMAIN live \ {p} : size'[q - Hdr] = size[q - Hdr]
         /\ Dangling' => FirstNodeLost(flist, p - Hdr, flist')
  <1> DEFINE h == p - Hdr  F == FreeOf(size, live)  r == Released(Heap, h)  G == F \cup {h}
  <1>1. ~Dangling /\ size' = r.size /\ flist' = r.flist /\ live' = Without(live, p)
        /\ halted' = halted
    BY DEF Kfree
  <1>2. Tiled(size) /\ Held(size, live)
    BY DEF KInv
  <1>3. /\ Okay(Heap, F) /\ Lone(Heap.size, F) /\ OneWhole(Heap.size, F)
        /\ Heap.size = size /\ Heap.flist = flist
    <2>1. Heap.size = size /\ Heap.flist = flist
      BY DEF Heap
    <2>2. QED
      BY <1>1, <2>1, HeapReady DEF Ready
  <1>4. /\ h \in DOMAIN size /\ h \notin F /\ h \in Nat /\ h + Hdr = p
        /\ \A x \in DOMAIN live : x - Hdr \in DOMAIN size /\ x - Hdr \notin F /\ (x - Hdr) + Hdr = x
        /\ \A x, y \in DOMAIN size : x + Hdr = y + Hdr => x = y
    BY <1>2, Pointers
  <1>5. /\ Given(Heap, G, r)
        /\ \/ Sorted(r.flist, G \cap DOMAIN r.size)
           \/ FirstNodeLost(Heap.flist, h, r.flist)
    <2> HIDE DEF F, h
    <2>1. QED
      BY <1>3, <1>4, ReleasedGood
  <1> HIDE DEF r, h
  <1>6. /\ Tiled(size') /\ DOMAIN size' \subseteq DOMAIN size
        /\ \A g \in DOMAIN size : g \notin G => g \in DOMAIN size' /\ size'[g] = size[g]
        /\ Lone(size', G \cap DOMAIN size') /\ OneWhole(size', G \cap DOMAIN size')
        /\ flist' \in Seq(Addrs)
        /\ \/ Sorted(flist', G \cap DOMAIN size')
           \/ /\ flist' # <<>> /\ Sorted(flist', (G \cap DOMAIN size') \cup {Head(flist')})
              /\ \A g \in DOMAIN size' : PageOf(g) # PageOf(Head(flist'))
    BY <1>1, <1>3, <1>5 DEF Given
  <1>7. live' = [x \in DOMAIN live \ {p} |-> live[x]]
    BY <1>1 DEF Without
  <1>8. DOMAIN live' = DOMAIN live \ {p} /\ \A x \in DOMAIN live \ {p} : live'[x] = live[x]
    BY <1>7
  <1>9. ASSUME NEW x \in DOMAIN live \ {p}
        PROVE  x - Hdr \in DOMAIN size' /\ size'[x - Hdr] = size[x - Hdr]
    <2>1. x - Hdr \in DOMAIN size /\ x - Hdr \notin F /\ x - Hdr # h
      BY <1>4
    <2>2. QED
      BY <1>6, <2>1
  <1>10. FreeOf(size', live') = G \cap DOMAIN size'
    <2>1. ASSUME NEW x \in DOMAIN size' PROVE x + Hdr \notin DOMAIN live' <=> x \in G
      <3>1. x \in DOMAIN size
        BY <1>6
      <3>2. x + Hdr = p <=> x = h
        BY <1>4, <3>1
      <3>3. x \in F <=> x + Hdr \notin DOMAIN live
        BY <3>1 DEF FreeOf
      <3>4. QED
        BY <1>8, <3>2, <3>3
    <2> HIDE DEF G
    <2>2. QED
      BY <2>1 DEF FreeOf
  <1>11. Held(size', live')
    <2>1. live' \in [DOMAIN live' -> Requests]
      BY <1>2, <1>7 DEF Held
    <2>2. \A x \in DOMAIN live' : x \in Nat /\ x - Hdr \in DOMAIN size' /\ live'[x] <= size'[x - Hdr]
      BY <1>2, <1>8, <1>9 DEF Held
    <2>3. QED
      BY <2>1, <2>2 DEF Held
  <1>12. /\ Listed(size', live', flist', Dangling')
         /\ Dangling' => FirstNodeLost(flist, h, flist')
    <2>1. ASSUME flist' # <<>>, \A g \in DOMAIN size' : PageOf(g) # PageOf(Head(flist'))
          PROVE  Dangling'
      BY <2>1 DEF Dangling, UsedPages, Blocks
    <2>2. ASSUME Sorted(flist', FreeOf(size', live')) PROVE ~Dangling'
      <3>1. flist' # <<>> => Head(flist') \in DOMAIN size'
        BY <2>2, HeadListed DEF FreeOf
      <3>2. QED
        BY <3>1 DEF Dangling, UsedPages, Blocks
    <2>3. Listed(size', live', flist', Dangling')
      BY <1>6, <1>10, <2>1, <2>2 DEF Listed
    <2>4. Dangling' => FirstNodeLost(flist, h, flist')
      BY <1>1, <1>3, <1>5, <1>10, <2>2
    <2>5. QED
      BY <2>3, <2>4
  <1>13. KInv'
    <2>1. halted' \in BOOLEAN
      BY <1>1 DEF KInv
    <2>2. Lone(size', FreeOf(size', live')) /\ OneWhole(size', FreeOf(size', live'))
      BY <1>6, <1>10
    <2>3. QED
      BY <1>6, <1>11, <1>12, <2>1, <2>2 DEF KInv
  <1>14. QED
    BY <1>8, <1>9, <1>12, <1>13 DEF h

LEMMA KfreePromise ==
  ASSUME KInv, NEW p \in DOMAIN live, Kfree(p)
  PROVE  Promise!Free(p)
  <1>1. DOMAIN live' = DOMAIN live \ {p}
        /\ \A q \in DOMAIN live \ {p} : size'[q - Hdr] = size[q - Hdr]
    BY KfreeFacts
  <1>2. DOMAIN Blocked = DOMAIN live /\ \A q \in DOMAIN live : Blocked[q] = size[q - Hdr]
    BY DEF Blocked
  <1>3. Blocked' = [q \in DOMAIN Blocked \ {p} |-> Blocked[q]]
    BY <1>1, <1>2 DEF Blocked
  <1>4. QED
    BY <1>2, <1>3 DEF Promise!Free, Blocked

(* What makes the list dangle: a block is freed, and the page of the free  *)
(* block before it, with which the list starts, is given back.             *)
LostByKfree ==
  ~Dangling /\ Dangling' =>
    \E p \in DOMAIN live : Kfree(p) /\ FirstNodeLost(flist, p - Hdr, flist')

LEMMA NextKInv ==
  ASSUME NoWrap
  PROVE  KInv /\ [Next]_vars => KInv' /\ [Promise!Next]_Blocked /\ LostByKfree
  <1>1. SUFFICES ASSUME KInv, [Next]_vars
                 PROVE  KInv' /\ (Promise!Next \/ Blocked' = Blocked) /\ LostByKfree
    OBVIOUS
  <1>2. ASSUME NEW n \in Requests, Kalloc(n)
        PROVE  KInv' /\ (Promise!Next \/ Blocked' = Blocked) /\ LostByKfree
    <2>1. CASE NoPage
      <3>1. size' = size /\ flist' = flist /\ live' = live /\ halted' = TRUE
        BY <2>1 DEF NoPage
      <3>2. QED
        BY <1>1, <3>1 DEF KInv, Dangling, UsedPages, Blocks, Blocked, LostByKfree
    <2>2. ASSUME NEW hp, NEW h, Meets(hp, h, n), Take(hp, h, n)
          PROVE  KInv' /\ Promise!Next /\ LostByKfree
      <3>1. KInv' /\ ~Dangling'
        BY <1>1, <2>2, TakeFacts
      <3>2. Promise!Alloc(n)
        BY <1>1, <2>2, TakePromise
      <3>3. QED
        BY <3>1, <3>2 DEF Promise!Next, LostByKfree
    <2>3. QED
      BY <1>1, <1>2, <2>1, <2>2, KallocTakes
  <1>3. ASSUME NEW p \in DOMAIN live, Kfree(p)
        PROVE  KInv' /\ Promise!Next /\ LostByKfree
    <2>1. KInv' /\ (Dangling' => FirstNodeLost(flist, p - Hdr, flist'))
      BY <1>1, <1>3, KfreeFacts
    <2>2. Promise!Free(p) /\ p \in DOMAIN Blocked
      BY <1>1, <1>3, KfreePromise DEF Blocked
    <2>3. QED
      BY <1>3, <2>1, <2>2 DEF Promise!Next, Blocked, LostByKfree
  <1>4. CASE UNCHANGED vars
    <2>1. size' = size /\ flist' = flist /\ live' = live /\ halted' = halted
      BY <1>4 DEF vars
    <2>2. QED
      BY <1>1, <2>1 DEF KInv, Dangling, UsedPages, Blocks, Blocked, LostByKfree
  <1>5. QED
    BY <1>1, <1>2, <1>3, <1>4 DEF Next

(* The inductive invariant: blocks tile the heap's pages, the clients'      *)
(* blocks are among them, and the list holds the others by address, but for *)
(* its first node if that is in a page given back (kernel/kalloc/kalloc.c). *)
THEOREM KallocInvariance == ASSUME NoWrap PROVE Spec => []KInv
  <1>1. KInv /\ [Next]_vars => KInv'
    BY NextKInv
  <1>2. QED
    BY <1>1, InitKInv, PTL DEF Spec

(* Every variable of the kernel heap has its type, for requests that do    *)
(* not wrap (kernel/kalloc/kalloc.c).                                      *)
THEOREM KallocTyped == ASSUME NoWrap PROVE Spec => []TypeOK
  <1>1. KInv => TypeOK
    <2>1. SUFFICES ASSUME KInv PROVE TypeOK
      OBVIOUS
    <2>2. Tiled(size) /\ Held(size, live) /\ flist \in Seq(Addrs) /\ halted \in BOOLEAN
      BY <2>1 DEF KInv
    <2>3. ASSUME NEW h \in Blocks PROVE h \in Addrs /\ size[h] \in 0 .. PageSize
      <3>1. /\ h \in Nat /\ size[h] \in Nat /\ PageOf(h) \in HeapPages /\ PageOf(h) \in Nat
            /\ Base(PageOf(h)) \in Nat /\ Base(PageOf(h)) <= h
            /\ Base(PageOf(h) + 1) = Base(PageOf(h)) + PageSize
            /\ End(size, h) = h + Hdr + size[h] /\ End(size, h) <= Base(PageOf(h) + 1)
        BY <2>2, Block DEF Blocks
      <3>2. size[h] <= PageSize
        BY <3>1, Consts
      <3>3. QED
        BY <3>1, <3>2, OnPages, Consts
    <2>4. size \in [Blocks -> 0 .. PageSize]
      <3>1. size \in [DOMAIN size -> Nat]
        BY <2>2 DEF Tiled
      <3>2. QED
        BY <2>3, <3>1 DEF Blocks
    <2>5. ASSUME NEW p \in DOMAIN live PROVE p \in Addrs
      <3>1. p - Hdr \in DOMAIN size /\ (p - Hdr) + Hdr = p
        BY <2>2, Pointers
      <3>2. QED
        BY <2>2, <3>1, Payload
    <2>6. QED
      BY <2>2, <2>3, <2>4, <2>5 DEF TypeOK, Held
  <1>2. QED
    BY <1>1, KallocInvariance, PTL

(* The blocks of a page always tile it, whatever is cut, joined or given   *)
(* back (kalloc 79-99, k_try_collide, kfree 157-179).                      *)
THEOREM KallocTiles == ASSUME NoWrap PROVE Spec => []BlocksTilePages
  <1>1. KInv => BlocksTilePages
    <2>1. SUFFICES ASSUME KInv, NEW h \in Blocks
                   PROVE  /\ Base(PageOf(h)) \in Blocks
                          /\ End(size, h) \in Blocks \/ End(size, h) = Base(PageOf(h) + 1)
                          /\ \A g \in Blocks : g > h => g >= End(size, h)
      BY DEF BlocksTilePages
    <2>2. QED
      BY <2>1, Block DEF KInv, Blocks
  <1>2. QED
    BY <1>1, KallocInvariance, PTL

(* Unless the list starts in a page that was given back, it holds exactly  *)
(* the blocks no client has, in the order of addresses.                    *)
THEOREM KallocListExact == ASSUME NoWrap PROVE Spec => []FreeListExact
  <1>1. KInv => FreeListExact
    <2>1. SUFFICES ASSUME KInv, ~Dangling PROVE FreeListExact
      BY DEF FreeListExact
    <2>2. Sorted(flist, FreeOf(size, live)) /\ Held(size, live)
      BY <2>1 DEF KInv, Listed
    <2>3. flist \in Seq(Nat) /\ FreeOf(size, live) = {flist[i] : i \in 1 .. Len(flist)}
          /\ \A i, j \in 1 .. Len(flist) : i < j => flist[i] < flist[j]
      BY <2>2 DEF Sorted
    <2>4. ToSet(flist) = {h \in Blocks : h + Hdr \notin DOMAIN live}
      BY <2>3 DEF ToSet, FreeOf, Blocks
    <2>5. ASSUME NEW i \in 1 .. Len(flist) - 1 PROVE flist[i] < flist[i + 1]
      <3>1. i \in 1 .. Len(flist) /\ i + 1 \in 1 .. Len(flist) /\ i < i + 1
        BY <2>3
      <3>2. QED
        BY <2>3, <3>1
    <2>6. \A p \in DOMAIN live : p - Hdr \in Blocks
      BY <2>2 DEF Held, Blocks
    <2>7. QED
      BY <2>4, <2>5, <2>6 DEF FreeListExact
  <1>2. QED
    BY <1>1, KallocInvariance, PTL

(* While the list does not dangle the nodes that kfree would hand to       *)
(* k_try_collide are free blocks, as kalloc.c 107 demands; if it does, it  *)
(* still holds every free block, and only its first node is wrong.  It     *)
(* starts to dangle when kfree gives back the page of the free block       *)
(* before the one it frees, and the list starts with that.                 *)
THEOREM KallocDangles ==
  ASSUME NoWrap
  PROVE  Spec => /\ [](Dangling \/ ColliderArgumentsValid)
                 /\ [](Dangling => ToSet(flist) = FreeOf(size, live) \cup {Head(flist)})
                 /\ [][LostByKfree]_vars
  <1>1. KInv => Dangling \/ ColliderArgumentsValid
    <2>1. SUFFICES ASSUME KInv, ~Dangling, NEW i \in 1 .. Len(flist)
                   PROVE  flist[i] \in Blocks /\ flist[i] + Hdr \notin DOMAIN live
      BY DEF ColliderArgumentsValid
    <2>2. flist[i] \in FreeOf(size, live)
      BY <2>1 DEF KInv, Listed, Sorted
    <2>3. QED
      BY <2>2 DEF FreeOf, Blocks
  <1>2. KInv => (Dangling => ToSet(flist) = FreeOf(size, live) \cup {Head(flist)})
    BY DEF KInv, Listed, Sorted, ToSet
  <1>3. KInv /\ [Next]_vars => [LostByKfree]_vars
    BY NextKInv
  <1>4. QED
    BY <1>1, <1>2, <1>3, KallocInvariance, PTL DEF Spec

(* Two free blocks of a page never touch: kfree joins what it frees with   *)
(* both of its neighbours, although it looks at the list only.             *)
THEOREM KallocJoins == ASSUME NoWrap PROVE Spec => []NoFreeNeighbours
  <1>1. KInv => NoFreeNeighbours
    BY DEF KInv, NoFreeNeighbours, Lone, FreeOf, Blocks
  <1>2. QED
    BY <1>1, KallocInvariance, PTL

(* No more than one page is wholly free at any time.                       *)
THEOREM KallocGivesBack == ASSUME NoWrap PROVE Spec => []FreePagesGivenBack
  <1>1. KInv => FreePagesGivenBack
    BY DEF KInv, FreePagesGivenBack, OneWhole, FreeOf, Blocks
  <1>2. QED
    BY <1>1, KallocInvariance, PTL

(* kalloc and kfree implement a heap: every block is large enough, is on   *)
(* one page, overlaps no other, and stays as it is until it is freed, in   *)
(* spite of first fit, cutting and joining.                                *)
THEOREM KallocRefines == ASSUME NoWrap PROVE Spec => BlocksArePrivate
  <1>1. Init => Promise!Init
    BY DEF Init, Promise!Init
  <1>2. KInv /\ [Next]_vars => [Promise!Next]_Blocked
    BY NextKInv
  <1>3. QED
    BY <1>1, <1>2, KallocInvariance, PTL DEF Spec, BlocksArePrivate, Promise!Spec, Blocked
=============================================================================
