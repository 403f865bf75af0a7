----------------------------- MODULE BootProofs -----------------------------
(***************************************************************************)
(* Proofs about Boot, for every size of a page, a byte and a table, every  *)
(* place of the boot loader, the kernel and the screen, every memory map   *)
(* and every content of the memory the tables are put in.                  *)
(*                                                                         *)
(* There are three parts: arithmetic of quotients and remainders, by which *)
(* addresses are pages and offsets and pages are bytes and bits; the       *)
(* operators of Boot that are built from it; and one lemma per step.       *)
(***************************************************************************)
EXTENDS Boot, WellFoundedInduction, TLAPS

(* A set of numbers that is not empty has a least one.                     *)
LEMMA Least ==
  ASSUME NEW T \in SUBSET Nat, T # {}
  PROVE  \E x \in T : \A y \in T : x <= y
  <1>1. PICK x \in T : \A y \in T : ~ (<<y, x>> \in OpToRel(<, Nat))
    BY NatLessThanWellFounded, WFMin
  <1>2. \A y \in T : ~ (y < x)
    BY <1>1 DEF OpToRel
  <1>3. QED
    BY <1>2

(* Quotient and remainder of a number that is put together from them.      *)
LEMMA DivMod ==
  ASSUME NEW q \in Nat, NEW d \in Nat \ {0}, NEW r \in Nat, r < d
  PROVE  ((q * d) + r) \div d = q /\ ((q * d) + r) % d = r
  BY SMTT(30)

(* A number is put together again from its quotient and remainder.         *)
LEMMA Words ==
  ASSUME NEW n \in Nat, NEW d \in Nat \ {0}
  PROVE  /\ n = ((n \div d) * d) + (n % d)
         /\ n \div d \in Nat /\ n % d \in Nat /\ n % d < d
  OBVIOUS

(* Multiplication keeps order.                                             *)
LEMMA Monotone ==
  ASSUME NEW p \in Nat, NEW q \in Nat, p <= q, NEW h \in Nat
  PROVE  p * h \in Nat /\ q * h \in Nat /\ p * h <= q * h
  <1>1. PICK d \in Nat : q = p + d
    <2>1. q - p \in Nat /\ q = p + (q - p)
      OBVIOUS
    <2>2. QED
      BY <2>1
  <1>2. q * h = (p * h) + (d * h) /\ d * h \in Nat /\ p * h \in Nat
    BY <1>1, SMTT(20)
  <1>3. QED
    BY <1>2

(* A number lies before another if its quotient is smaller, or as large    *)
(* with a smaller remainder.                                               *)
LEMMA Lexical ==
  ASSUME NEW a \in Nat, NEW b \in Nat, NEW d \in Nat \ {0}
  PROVE  a < b <=> \/ a \div d < b \div d
                   \/ a \div d = b \div d /\ a % d < b % d
  <1>1. /\ a = ((a \div d) * d) + (a % d) /\ a \div d \in Nat /\ a % d \in Nat /\ a % d < d
        /\ b = ((b \div d) * d) + (b % d) /\ b \div d \in Nat /\ b % d \in Nat /\ b % d < d
    BY Words
  <1>2. ASSUME NEW m \in Nat, NEW n \in Nat, m \div d < n \div d PROVE m < n
    BY <1>2, SMTT(20)
  <1>3. CASE a \div d = b \div d
    BY <1>1, <1>3, SMTT(20)
  <1>4. CASE a \div d < b \div d
    BY <1>1, <1>2, <1>4
  <1>5. CASE b \div d < a \div d
    BY <1>1, <1>2, <1>5
  <1>6. QED
    BY <1>1, <1>3, <1>4, <1>5

(* The highest address of a usable entry exists, as a memory map is        *)
(* finite: the shortest part of a map whose entries had no bound would     *)
(* have a last one.                                                        *)
LEMMA Bounded ==
  ASSUME NEW n \in Nat, NEW f \in [1 .. n -> Nat]
  PROVE  \E b \in Nat : \A k \in 1 .. n : f[k] <= b
  <1> DEFINE Short(l) == \E b \in Nat : \A k \in 1 .. l : f[k] <= b
             Bad      == {l \in Nat : l <= n /\ ~Short(l)}
  <1>1. SUFFICES ASSUME Bad # {} PROVE FALSE
    <2>1. n \notin Bad => Short(n)
      OBVIOUS
    <2>2. QED
      BY <2>1
  <1>2. PICK l \in Bad : \A g \in Bad : l <= g
    <2>1. Bad \in SUBSET Nat
      OBVIOUS
    <2> HIDE DEF Bad
    <2>2. QED
      BY <1>1, <2>1, Least
  <1>3. l \in Nat /\ l <= n /\ ~Short(l)
    BY <1>2
  <1>4. l # 0
    <2>1. \A k \in 1 .. 0 : f[k] <= 0
      OBVIOUS
    <2>2. Short(0)
      BY <2>1
    <2>3. QED
      BY <1>3, <2>2
  <1>5. Short(l - 1)
    <2>1. l - 1 \in Nat /\ l - 1 <= n /\ ~ (l <= l - 1)
      BY <1>3, <1>4
    <2>2. l - 1 \notin Bad
      BY <1>2, <2>1
    <2> HIDE DEF Short
    <2>3. QED
      BY <2>1, <2>2
  <1>6. PICK b \in Nat : \A k \in 1 .. l - 1 : f[k] <= b
    BY <1>5
  <1>7. f[l] \in Nat
    BY <1>3, <1>4
  <1>8. PICK c \in Nat : b <= c /\ f[l] <= c
    <2>1. b <= b + f[l] /\ f[l] <= b + f[l] /\ b + f[l] \in Nat
      BY <1>7
    <2>2. QED
      BY <2>1
  <1>9. ASSUME NEW k \in 1 .. l PROVE f[k] <= c
    <2>1. k = l \/ k \in 1 .. l - 1
      BY <1>3
    <2>2. f[k] \in Nat
      BY <1>3
    <2>3. QED
      BY <1>6, <1>7, <1>8, <2>1, <2>2
  <1>10. Short(l)
    BY <1>9
  <1>11. QED
    BY <1>3, <1>10

(* An entry of the memory map.                                             *)
LEMMA Entry ==
  ASSUME map \in Maps
  PROVE  /\ Len(map) \in Nat /\ DOMAIN map = 1 .. Len(map)
         /\ \A k \in DOMAIN map :
              /\ map[k] \in [base : Nat, len : Nat, usable : BOOLEAN]
              /\ map[k].base \in Nat /\ map[k].len \in Nat /\ map[k].usable \in BOOLEAN
  <1>1. map \in Seq([base : Nat, len : Nat, usable : BOOLEAN])
    BY BootAssumption
  <1> DEFINE E == [base : Nat, len : Nat, usable : BOOLEAN]
  <1>2. Len(map) \in Nat /\ DOMAIN map = 1 .. Len(map) /\ \A k \in DOMAIN map : map[k] \in E
    <2> HIDE DEF E
    <2>1. map \in Seq(E)
      BY <1>1 DEF E
    <2>2. QED
      BY <2>1
  <1>3. QED
    BY <1>2

(* get_maximum_usable_mem_address_from_e820 finds a number.                *)
LEMMA HighestExists ==
  ASSUME map \in Maps
  PROVE  Highest \in Nat
  <1> DEFINE ends == {e.base + e.len : e \in Usable} \cup {0}
             Above == {b \in Nat : \A h \in ends : h <= b}
             f == [k \in 1 .. Len(map) |-> map[k].base + map[k].len]
  <1>1. f \in [1 .. Len(map) -> Nat] /\ Len(map) \in Nat
    BY Entry
  <1>2. \A h \in ends : h = 0 \/ \E k \in 1 .. Len(map) : h = f[k]
    BY Entry DEF Usable
  <1>3. ends \subseteq Nat
    <2> HIDE DEF f, ends
    <2>1. QED
      BY <1>1, <1>2
  <1>4. Above # {}
    <2> HIDE DEF f
    <2>1. PICK b \in Nat : \A k \in 1 .. Len(map) : f[k] <= b
      BY <1>1, Bounded
    <2>2. \A h \in ends : h <= b
      <3> HIDE DEF ends
      <3>1. QED
        BY <1>2, <2>1
    <2>3. QED
      BY <2>2
  <1> HIDE DEF f
  <1>5. PICK c \in Above : \A d \in Above : c <= d
    <2>1. Above \in SUBSET Nat
      OBVIOUS
    <2> HIDE DEF Above
    <2>2. QED
      BY <1>4, <2>1, Least
  <1>6. c \in Nat /\ \A h \in ends : h <= c
    BY <1>5
  <1> HIDE DEF ends
  <1>7. c \in ends
    <2>1. SUFFICES ASSUME c \notin ends PROVE FALSE
      OBVIOUS
    <2>2. 0 \in ends
      BY DEF ends
    <2>3. c # 0 /\ c - 1 \in Nat
      BY <1>6, <2>1, <2>2
    <2>4. \A h \in ends : h <= c - 1
      BY <1>3, <1>6, <2>1
    <2>5. c - 1 \in Above
      BY <2>3, <2>4
    <2>6. c <= c - 1
      BY <1>5, <2>5
    <2>7. QED
      BY <1>6, <2>6
  <1>8. \E h \in ends : \A g \in ends : g <= h
    BY <1>6, <1>7
  <1>9. Highest \in ends
    BY <1>8, Zenon DEF Highest, ends
  <1>10. QED
    BY <1>3, <1>9

-----------------------------------------------------------------------------
(* What the constants are.                                                 *)
LEMMA Sizes ==
  /\ PageSize \in Nat \ {0} /\ Bits \in Nat \ {0} /\ Entries \in Nat \ {0} /\ Word \in Nat \ {0}
  /\ EntrySize \in Nat \ {0} /\ KernelPages \in Nat \ {0}
  /\ BootStart \in Nat /\ BootEnd \in Nat /\ KernelPhys \in Nat /\ Video \in Nat /\ VideoLen \in Nat
  /\ KernelEnd \in Nat /\ TablesEnd \in Nat
  <1>1. /\ PageSize \in Nat \ {0} /\ Bits \in Nat \ {0} /\ Entries \in Nat \ {0}
        /\ EntrySize \in Nat \ {0} /\ KernelPages \in Nat \ {0}
        /\ BootStart \in Nat /\ BootEnd \in Nat /\ KernelPhys \in Nat
        /\ Video \in Nat /\ VideoLen \in Nat
    BY BootAssumption
  <1>2. ASSUME NEW p \in Nat \ {0}, NEW q \in Nat \ {0} PROVE p * q \in Nat \ {0}
    BY <1>2, SMTT(20)
  <1>3. Word \in Nat \ {0}
    BY <1>1, <1>2 DEF Word
  <1>4. KernelEnd \in Nat /\ TablesEnd \in Nat
    <2>1. KernelPages * PageSize \in Nat
      BY <1>1, <1>2
    <2>2. QED
      BY <1>1, <2>1 DEF KernelEnd, TablesEnd
  <1>5. QED
    BY <1>1, <1>3, <1>4

(* A directory's entry spans the pages of a table.                         *)
LEMMA Spans ==
  /\ Entries * PageSize \in Nat \ {0} /\ PageSize <= Entries * PageSize
  /\ Word = (Self * (Entries * PageSize)) + (Entries * PageSize) /\ Self \in Nat
  <1> DEFINE w == Entries * PageSize
  <1>1. Entries \in Nat \ {0} /\ PageSize \in Nat \ {0} /\ Self \in Nat /\ Entries = Self + 1
    BY Sizes DEF Self
  <1>2. w \in Nat /\ PageSize <= w
    <2>1. 1 * PageSize <= Entries * PageSize /\ Entries * PageSize \in Nat
      BY <1>1, Monotone
    <2>2. QED
      BY <1>1, <2>1
  <1>3. Word = Entries * w
    BY <1>1, SMTT(20) DEF Word
  <1> HIDE DEF w
  <1>4. (Self + 1) * w = (Self * w) + w
    BY <1>1, <1>2, SMTT(20)
  <1>5. QED
    BY <1>1, <1>2, <1>3, <1>4 DEF w

(* The entries of the directory in use are different ones.                 *)
LEMMA Indices ==
  /\ 0 \in Index /\ IoIdx \in Index /\ KernelIdx \in Index /\ SwapIdx \in Index /\ Self \in Index
  /\ 0 # IoIdx /\ 0 # KernelIdx /\ 0 # Self
  /\ IoIdx # KernelIdx /\ IoIdx # Self /\ KernelIdx # Self
  /\ SwapIdx \notin {0, IoIdx, KernelIdx, Self}
  <1>1. IoIdx \in Int /\ KernelIdx \in Int /\ SwapIdx \in Int
    BY BootAssumption
  <1>2. QED
    BY <1>1, Sizes, BootAssumption DEF Index, Self

(* The bits that the masks of the first and the last byte and the bytes    *)
(* between them choose are those from the first to before the end.         *)
LEMMA Chosen ==
  ASSUME NEW first \in Nat, NEW end \in Nat, first <= end
  PROVE  BitsOf(first, end) = first .. end - 1
  <1> DEFINE bi == first \div Bits
             ei == end \div Bits
             Of(byte, offsets) == {byte * Bits + o : o \in offsets}
  <1>1. /\ Bits \in Nat \ {0}
        /\ bi \in Nat /\ first % Bits \in Nat /\ first % Bits < Bits
        /\ ei \in Nat /\ end % Bits \in Nat /\ end % Bits < Bits
    BY Sizes, Words
  <1>2. ASSUME NEW byte \in Nat, NEW offsets \in SUBSET (0 .. Bits - 1), NEW f
        PROVE  f \in Of(byte, offsets) <=> f \in Nat /\ f \div Bits = byte /\ f % Bits \in offsets
    <2>1. ASSUME NEW o \in offsets
          PROVE  /\ byte * Bits + o \in Nat
                 /\ (byte * Bits + o) \div Bits = byte /\ (byte * Bits + o) % Bits = o
      <3>1. o \in Nat /\ o < Bits /\ byte * Bits \in Nat
        <4>1. o \in 0 .. Bits - 1
          BY <2>1
        <4>2. QED
          BY <1>1, <4>1
      <3>2. byte * Bits + o \in Nat
        BY <3>1
      <3>3. (byte * Bits + o) \div Bits = byte /\ (byte * Bits + o) % Bits = o
        BY <1>1, <3>1, DivMod
      <3>4. QED
        BY <3>2, <3>3
    <2>2. ASSUME f \in Nat, f \div Bits = byte, f % Bits \in offsets
          PROVE  f = byte * Bits + (f % Bits)
      BY <1>1, <2>2, Words
    <2>3. QED
      BY <2>1, <2>2
  <1> HIDE DEF Of
  <1>3. ASSUME NEW f \in Nat
        PROVE  /\ f \div Bits \in Nat /\ f % Bits \in Nat /\ f % Bits < Bits
               /\ (f < first) <=> (f \div Bits < bi \/ (f \div Bits = bi /\ f % Bits < first % Bits))
               /\ (f < end) <=> (f \div Bits < ei \/ (f \div Bits = ei /\ f % Bits < end % Bits))
    <2>1. f \div Bits \in Nat /\ f % Bits \in Nat /\ f % Bits < Bits
      BY <1>1, Words
    <2>2. (f < first) <=> (f \div Bits < bi \/ (f \div Bits = bi /\ f % Bits < first % Bits))
      BY <1>1, Lexical
    <2>3. (f < end) <=> (f \div Bits < ei \/ (f \div Bits = ei /\ f % Bits < end % Bits))
      BY <1>1, Lexical
    <2>4. QED
      BY <2>1, <2>2, <2>3
  <1>4. ~ (end < first)
    OBVIOUS
  <1>5. bi < ei \/ (bi = ei /\ first % Bits <= end % Bits)
    <2>1. ~ (ei < bi \/ (ei = bi /\ end % Bits < first % Bits))
      BY <1>1, <1>4, Lexical
    <2> HIDE DEF bi, ei
    <2>2. QED
      BY <1>1, <2>1
  <1> HIDE DEF bi, ei
  <1>6. ASSUME NEW f PROVE f \in BitsOf(first, end) <=> f \in first .. end - 1
    <2> DEFINE fb == f \div Bits
               fo == f % Bits
    <2>1. CASE bi = ei
      <3>1. BitsOf(first, end) = Of(bi, (first % Bits) .. (end % Bits) - 1)
        BY <2>1 DEF BitsOf, bi, ei, Of
      <3>2. (first % Bits) .. (end % Bits) - 1 \subseteq 0 .. Bits - 1
        BY <1>1
      <3>3. f \in BitsOf(first, end) <=> f \in Nat /\ fb = bi /\ fo \in (first % Bits) .. (end % Bits) - 1
        BY <1>1, <1>2, <3>1, <3>2
      <3>4. CASE f \in Nat
        <4>1. /\ fb \in Nat /\ fo \in Nat /\ fo < Bits
              /\ f \in first .. end - 1 <=>
                /\ ~ (fb < bi \/ (fb = bi /\ fo < first % Bits))
                /\ fb < ei \/ (fb = ei /\ fo < end % Bits)
          BY <1>3, <3>4
        <4> HIDE DEF fb, fo
        <4>2. QED
          BY <1>1, <2>1, <3>3, <3>4, <4>1
      <3>5. QED
        BY <3>3, <3>4
    <2>2. CASE bi # ei
      <3>1. /\ (first % Bits) .. Bits - 1 \subseteq 0 .. Bits - 1
            /\ 0 .. (end % Bits) - 1 \subseteq 0 .. Bits - 1
        BY <1>1
      <3>2. BitsOf(first, end) =
              Of(bi, (first % Bits) .. Bits - 1) \cup Of(ei, 0 .. (end % Bits) - 1)
              \cup (IF ei - bi >= 2 THEN UNION {Of(b, 0 .. Bits - 1) : b \in bi + 1 .. ei - 1}
                    ELSE {})
        BY <2>2 DEF BitsOf, bi, ei, Of
      <3>3. f \in Of(bi, (first % Bits) .. Bits - 1)
            <=> f \in Nat /\ fb = bi /\ fo \in (first % Bits) .. Bits - 1
        BY <1>1, <1>2, <3>1
      <3>4. f \in Of(ei, 0 .. (end % Bits) - 1)
            <=> f \in Nat /\ fb = ei /\ fo \in 0 .. (end % Bits) - 1
        BY <1>1, <1>2, <3>1
      <3>5. ASSUME NEW b \in bi + 1 .. ei - 1
            PROVE  f \in Of(b, 0 .. Bits - 1) <=> f \in Nat /\ fb = b /\ fo \in 0 .. Bits - 1
        <4>1. b \in Nat /\ 0 .. Bits - 1 \in SUBSET (0 .. Bits - 1)
          BY <1>1, <3>5
        <4> HIDE DEF fb, fo
        <4>2. QED
          BY <4>1, <1>2 DEF fb, fo
      <3>6. f \in UNION {Of(b, 0 .. Bits - 1) : b \in bi + 1 .. ei - 1}
            <=> f \in Nat /\ fb \in bi + 1 .. ei - 1 /\ fo \in 0 .. Bits - 1
        BY <3>5
      <3>7. CASE f \in Nat
        <4>1. fb \in Nat /\ fo \in Nat /\ fo < Bits
          BY <1>3, <3>7
        <4>2. f \in first .. end - 1 <=>
                /\ ~ (fb < bi \/ (fb = bi /\ fo < first % Bits))
                /\ fb < ei \/ (fb = ei /\ fo < end % Bits)
          BY <1>3, <3>7
        <4>3. f \in BitsOf(first, end) <=>
                \/ fb = bi /\ fo \in (first % Bits) .. Bits - 1
                \/ fb = ei /\ fo \in 0 .. (end % Bits) - 1
                \/ ei - bi >= 2 /\ fb \in bi + 1 .. ei - 1 /\ fo \in 0 .. Bits - 1
          <5>1. CASE ei - bi >= 2
            BY <3>2, <3>3, <3>4, <3>6, <3>7, <5>1, Zenon
          <5>2. CASE ~ (ei - bi >= 2)
            BY <3>2, <3>3, <3>4, <3>7, <5>2, Zenon
          <5>3. QED
            BY <5>1, <5>2
        <4> HIDE DEF fb, fo
        <4> DEFINE lo == first % Bits
                   hi == end % Bits
        <4>4. lo \in Nat /\ lo < Bits /\ hi \in Nat /\ hi < Bits
          BY <1>1
        <4> HIDE DEF lo, hi
        <4>5. bi < ei
          BY <1>5, <2>2
        <4>6. f \in BitsOf(first, end) <=>
                \/ fb = bi /\ lo <= fo
                \/ fb = ei /\ fo < hi
                \/ bi < fb /\ fb < ei
          BY <1>1, <4>1, <4>3, <4>4, <4>5 DEF lo, hi
        <4>7. f \in first .. end - 1 <=>
                /\ ~ (fb < bi \/ (fb = bi /\ fo < lo))
                /\ fb < ei \/ (fb = ei /\ fo < hi)
          BY <4>2 DEF lo, hi
        <4>8. (\/ fb = bi /\ lo <= fo
               \/ fb = ei /\ fo < hi
               \/ bi < fb /\ fb < ei)
              <=> (/\ ~ (fb < bi \/ (fb = bi /\ fo < lo))
                   /\ fb < ei \/ (fb = ei /\ fo < hi))
          BY <1>1, <4>1, <4>4, <4>5
        <4>9. QED
          BY <4>6, <4>7, <4>8
      <3>8. CASE f \notin Nat
        BY <3>2, <3>3, <3>4, <3>6, <3>8
      <3>9. QED
        BY <3>7, <3>8
    <2>3. QED
      BY <2>1, <2>2
  <1>7. QED
    BY <1>6

(* Page f ends at or before z if f is below z rounded down.               *)
LEMMA Below ==
  ASSUME NEW f \in Nat, NEW z \in Nat
  PROVE  /\ z \div PageSize \in Nat
         /\ f * PageSize \in Nat /\ (f + 1) * PageSize = (f * PageSize) + PageSize
         /\ (f < z \div PageSize) <=> ((f * PageSize) + PageSize <= z)
  <1> DEFINE d == PageSize
  <1>1. d \in Nat \ {0} /\ f + 1 \in Nat
    BY Sizes
  <1> HIDE DEF d
  <1>2. /\ f * d \in Nat /\ (f + 1) * d = (f * d) + d
    BY <1>1, SMTT(20)
  <1>3. /\ z = ((z \div d) * d) + (z % d) /\ z \div d \in Nat /\ z % d \in Nat /\ z % d < d
    BY <1>1, Words
  <1>4. CASE f < z \div d
    <2>1. (f + 1) * d <= (z \div d) * d /\ (z \div d) * d \in Nat
      BY <1>1, <1>3, <1>4, Monotone
    <2>2. QED
      BY <1>1, <1>2, <1>3, <1>4, <2>1 DEF d
  <1>5. CASE z \div d <= f
    <2>1. (z \div d) * d <= f * d /\ (z \div d) * d \in Nat
      BY <1>1, <1>3, <1>5, Monotone
    <2>2. QED
      BY <1>1, <1>2, <1>3, <1>5, <2>1 DEF d
  <1>6. QED
    BY <1>3, <1>4, <1>5

(* Below 4 GB page f ends at or before x if f is below x rounded down, and *)
(* starts at or behind x if it is not below x rounded up.                  *)
LEMMA Rounding ==
  ASSUME NEW f \in Nat, NEW x \in Nat
  PROVE  /\ Down(x) \in Nat /\ Up(x) \in Nat
         /\ x < Word => ((f < Down(x)) <=> ((f * PageSize) + PageSize <= x))
         /\ x + PageSize <= Word => ((Up(x) <= f) <=> (x <= f * PageSize))
  <1> DEFINE y == x + PageSize - 1
  <1>1. PageSize \in Nat \ {0} /\ y \in Nat /\ Word \in Nat \ {0} /\ f * PageSize \in Nat
    BY Sizes
  <1>2. x % Word \in Nat /\ y % Word \in Nat
    BY <1>1, Words
  <1>3. Down(x) \in Nat /\ Up(x) \in Nat
    BY <1>2, Below DEF Down, Up
  <1>4. ASSUME x < Word PROVE (f < Down(x)) <=> ((f * PageSize) + PageSize <= x)
    <2>1. x % Word = x
      BY <1>1, <1>4
    <2>2. QED
      BY <2>1, Below DEF Down
  <1>5. ASSUME x + PageSize <= Word PROVE (Up(x) <= f) <=> (x <= f * PageSize)
    <2>1. y < Word
      BY <1>1, <1>5
    <2>2. y % Word = y
      BY <1>1, <2>1
    <2>3. Up(x) = y \div PageSize
      BY <2>2 DEF Up
    <2>4. (f < Up(x)) <=> ((f * PageSize) + PageSize <= y)
      BY <1>1, <2>3, Below
    <2>5. ((f * PageSize) + PageSize <= y) <=> ~ (x <= f * PageSize)
      BY <1>1
    <2>6. QED
      BY <1>3, <2>4, <2>5
  <1>6. QED
    BY <1>3, <1>4, <1>5

(* A range that ends below 4 GB is rounded inwards to one whose end is not *)
(* before its start.                                                       *)
LEMMA Inwards ==
  ASSUME NEW base \in Nat, NEW len \in Nat, base + len < Word, PageSize <= len
  PROVE  Up(base) <= Down(base + len)
  <1> DEFINE e == Down(base + len)
  <1>1. /\ PageSize \in Nat \ {0} /\ Word \in Nat /\ base + len \in Nat /\ base + PageSize <= Word
    BY Sizes
  <1>2. e \in Nat /\ e * PageSize \in Nat
    BY <1>1, Rounding, Below
  <1>3. ~ ((e * PageSize) + PageSize <= base + len)
    <2>1. (e < Down(base + len)) <=> ((e * PageSize) + PageSize <= base + len)
      BY <1>1, <1>2, Rounding
    <2>2. QED
      BY <1>2, <2>1
  <1>4. (Up(base) <= e) <=> (base <= e * PageSize)
    BY <1>1, <1>2, Rounding
  <1> HIDE DEF e
  <1>5. base <= e * PageSize
    BY <1>1, <1>2, <1>3
  <1>6. QED
    BY <1>4, <1>5 DEF e

(* mark_range_as_usable frees the pages that lie in the range, if it ends  *)
(* below 4 GB, and the memset between its first and its last byte is then  *)
(* of no negative length.                                                  *)
LEMMA UsableWithin ==
  ASSUME NEW f \in Nat, NEW base \in Nat, NEW len \in Nat, base + len < Word
  PROVE  /\ f \in UsablePages(base, len)
             <=> Within(f * PageSize, (f * PageSize) + PageSize, base, base + len)
         /\ ~RunsAway(base, len)
  <1>1. /\ PageSize \in Nat \ {0} /\ Word \in Nat /\ f * PageSize \in Nat /\ base + len \in Nat
        /\ Up(base) \in Nat /\ Down(base + len) \in Nat
    BY Sizes, Rounding, Below
  <1>2. CASE len < PageSize
    BY <1>1, <1>2 DEF UsablePages, Within, RunsAway
  <1>3. CASE PageSize <= len
    <2>1. (f < Down(base + len)) <=> ((f * PageSize) + PageSize <= base + len)
      BY <1>1, Rounding
    <2>2. (Up(base) <= f) <=> (base <= f * PageSize)
      <3>1. base + PageSize <= Word
        BY <1>1, <1>3
      <3>2. QED
        BY <3>1, Rounding
    <2>3. Up(base) <= Down(base + len)
      BY <1>3, Inwards
    <2>4. UsablePages(base, len) = Up(base) .. Down(base + len) - 1
      BY <1>1, <1>3, <2>3, Chosen DEF UsablePages
    <2>5. ~ (Down(base + len) \div Bits < Up(base) \div Bits)
      <3>1. ~ (Down(base + len) < Up(base))
        BY <1>1, <2>3
      <3>2. QED
        BY <1>1, <3>1, Sizes, Lexical
    <2>6. QED
      BY <1>1, <2>1, <2>2, <2>4, <2>5 DEF Within, RunsAway
  <1>4. QED
    BY <1>1, <1>2, <1>3

(* mark_range_as_used marks the pages the range touches, if it ends a page *)
(* before 4 GB.                                                            *)
LEMMA UsedTouched ==
  ASSUME NEW f \in Nat, NEW base \in Nat, NEW len \in Nat, base + len + PageSize <= Word
  PROVE  /\ UsedPages(base, len) \subseteq Nat
         /\ (f \in UsedPages(base, len))
            <=> ~Disjoint(f * PageSize, (f * PageSize) + PageSize, base, base + len)
  <1>1. /\ PageSize \in Nat \ {0} /\ Word \in Nat /\ f * PageSize \in Nat
        /\ base < Word /\ base + len \in Nat
        /\ Down(base) \in Nat /\ Up(base + len) \in Nat
    BY Sizes, Rounding, Below
  <1>2. /\ (f < Down(base)) <=> ((f * PageSize) + PageSize <= base)
        /\ (Up(base + len) <= f) <=> (base + len <= f * PageSize)
    BY <1>1, Rounding
  <1> DEFINE e == Up(base + len)
  <1>3. /\ e \in Nat /\ e * PageSize \in Nat
        /\ (e < Down(base)) <=> ((e * PageSize) + PageSize <= base)
        /\ base + len <= e * PageSize
    <2>1. (Up(base + len) <= e) <=> (base + len <= e * PageSize)
      BY <1>1, Rounding
    <2>2. QED
      BY <1>1, <2>1, Rounding, Below
  <1> HIDE DEF e
  <1>4. Down(base) <= e
    BY <1>1, <1>3
  <1>5. UsedPages(base, len) = Down(base) .. e - 1
    BY <1>1, <1>3, <1>4, Chosen DEF UsedPages, e
  <1>6. QED
    BY <1>1, <1>2, <1>3, <1>5 DEF Disjoint, e

(* What an address is translated to, by its entry in the directory, its    *)
(* entry in the table and its offset.                                      *)
LEMMA Translated ==
  ASSUME NEW t \in Nat, NEW x \in Index, NEW o \in 0 .. PageSize - 1
  PROVE  Translate((((t * Entries) + x) * PageSize) + o)
         = IF pd[t] \notin DOMAIN pt \/ pt[pd[t]][x] = None THEN None
           ELSE ((pt[pd[t]][x] \div PageSize) * PageSize) + o
  <1> DEFINE n == (t * Entries) + x
             a == (n * PageSize) + o
  <1>1. /\ Entries \in Nat \ {0} /\ PageSize \in Nat \ {0} /\ x \in Nat /\ x < Entries
        /\ o \in Nat /\ o < PageSize
    BY Sizes DEF Index
  <1>2. n \in Nat /\ n \div Entries = t /\ n % Entries = x
    <2>1. n \in Nat
      BY <1>1
    <2>2. QED
      BY <1>1, <2>1, DivMod
  <1>3. n * PageSize \in Nat /\ a \in Nat /\ a \div PageSize = n /\ a % PageSize = o
    <2>1. n * PageSize \in Nat /\ a \in Nat
      BY <1>1, <1>2
    <2>2. QED
      BY <1>1, <1>2, <2>1, DivMod
  <1>4. a \div (Entries * PageSize) = t
    <2> DEFINE r == (x * PageSize) + o
    <2>1. r \in Nat /\ Entries * PageSize \in Nat \ {0} /\ r < Entries * PageSize
      <3>1. x + 1 \in Nat /\ x + 1 <= Entries
        BY <1>1
      <3>2. (x + 1) * PageSize <= Entries * PageSize /\ Entries * PageSize \in Nat
        BY <1>1, <3>1, Monotone
      <3>3. (x + 1) * PageSize = (x * PageSize) + PageSize /\ x * PageSize \in Nat
        BY <1>1, SMTT(20)
      <3>4. QED
        BY <1>1, <3>2, <3>3
    <2>2. a = (t * (Entries * PageSize)) + r
      BY <1>1, SMTT(20)
    <2> HIDE DEF r, a, n
    <2>3. QED
      BY <2>1, <2>2, DivMod
  <1>5. Translate(a) = IF pd[t] \notin DOMAIN pt \/ pt[pd[t]][x] = None THEN None
                       ELSE ((pt[pd[t]][x] \div PageSize) * PageSize) + o
    <2> HIDE DEF a, n
    <2>1. QED
      BY <1>2, <1>3, <1>4 DEF Translate
  <1>6. QED
    BY <1>5

-----------------------------------------------------------------------------
(* Keeping to the entry that is being searched.                            *)
Searching ==
  /\ pc \in {"search", "usable"} => 1 <= i
  /\ pc = "search" /\ at # None => i <= Len(map) /\ map[i].usable /\ map[i].base <= at

(* A bitmap that begins at a touches a region that is kept.                *)
Blocked(a) == \E k \in DOMAIN Kept : Collide(a, a + Needed, Kept[k].from, Kept[k].to)

(* Entry e has no place for the bitmap.                                    *)
Full(e) ==
  e.usable /\ e.base < Word - 1 => \A a \in e.base .. e.base + e.len - Needed - 1 : Blocked(a)

(* The entries that have been left have no place, nor has the present one  *)
(* below at.                                                               *)
Tried ==
  /\ pc \in {"search", "fill", "usable"} => bm.len = Needed
  /\ pc = "search" =>
       /\ \A k \in 1 .. i - 1 : Full(map[k])
       /\ at # None => \A a \in map[i].base .. at - 1 : Blocked(a)

(* What the entry k of the memory map frees.                               *)
Freed(k) == IF map[k].usable THEN UsablePages(map[k].base % Word, map[k].len % Word) ELSE {}

(* The entries before i have been marked.                                  *)
Marked ==
  pc = "usable" => \A f \in AllBits : f \in used <=> \A k \in 1 .. i - 1 : f \notin Freed(k)

(* A bitmap that has been filled lies below the directory's last entry,    *)
(* which leads to no memory.                                               *)
Filled == pc = "usable" => bm.addr + bm.len + PageSize <= Word

(* The directory has its three entries, and else only the identity mapping *)
(* that becomes the swap table.                                            *)
Directory ==
  pc # "kstart" =>
    /\ pd[IoIdx] = "io" /\ pd[KernelIdx] = "kernel" /\ pd[Self] = "pd"
    /\ \A x \in Index \ {IoIdx, KernelIdx, Self} : pd[x] \in {"none", "low"}

(* The kernel's table maps the kernel, and from arch_vmm_init on nothing   *)
(* else; the swap table is then empty.                                     *)
Tables ==
  /\ pc # "kstart" => \A x \in 0 .. KernelPages - 1 : pt.kernel[x] = KernelPhys + x * PageSize
  /\ pc \in {"remap", "video", "done"} =>
       \A x \in Index : pt.low[x] = None /\ (KernelPages <= x => pt.kernel[x] = None)

(* What map_core mapped stays in its place.                                *)
Mapped(base, len, virt) ==
  virt # 0 => \E first \in Nat :
    /\ virt = (IoIdx * Entries + first) * PageSize
    /\ \A y \in 0 .. (len + PageSize) \div PageSize - 1 :
         first + y \in Index /\ pt.io[first + y] = base + y * PageSize

(* The bitmap and, at the end, the screen are mapped.                      *)
Core ==
  /\ pc \in {"video", "done"} => Mapped(bm.addr, bm.len, bmVirt)
  /\ pc = "done" => Mapped(Video, VideoLen, videoVirt)

(* The inductive invariant: Boot's own invariants, what the search has     *)
(* tried, what has been marked, and the tables entry by entry.             *)
IInv ==
  /\ map \in Maps /\ TypeOK
  /\ Searching /\ Tried /\ BitmapInFreeMemory /\ PlaceFound /\ Filled /\ Marked /\ BitmapExact
  /\ Directory /\ Tables /\ Core

-----------------------------------------------------------------------------
(* The first region that is hit, if one is.                                *)
LEMMA FirstHit ==
  /\ Hits = 0 => \A j \in 1 .. 3 : ~Collide(at, at + bm.len, Kept[j].from, Kept[j].to)
  /\ Hits # 0 => Hits \in 1 .. 3 /\ Collide(at, at + bm.len, Kept[Hits].from, Kept[Hits].to)
  <1> DEFINE I == {j \in 1 .. Len(Kept) : Collide(at, at + bm.len, Kept[j].from, Kept[j].to)}
  <1>1. Len(Kept) = 3
    BY DEF Kept
  <1>2. Hits = IF I # {} THEN Min(I) ELSE 0
    BY DEF Hits, SelectInSeq
  <1>3. I # {} => Min(I) \in I
    <2>1. SUFFICES ASSUME I # {} PROVE Min(I) \in I
      OBVIOUS
    <2>2. I \in SUBSET Nat
      BY <1>1
    <2> HIDE DEF I
    <2>3. \E x \in I : \A y \in I : x <= y
      BY <2>1, <2>2, Least
    <2>4. QED
      BY <2>3, Zenon DEF Min
  <1>4. QED
    BY <1>1, <1>2, <1>3

(* Nothing has been built when the kernel is entered.                      *)
LEMMA InitB == Init => IInv
  <1>1. SUFFICES ASSUME Init PROVE IInv
    OBVIOUS
  <1>2. map \in Maps /\ Len(map) \in Nat
    BY <1>1, Entry DEF Init
  <1>3. pt \in [{"low", "io", "kernel"} -> [Index -> Nat \cup {None}]]
    <2>1. PICK t \in IoTables : pt = [low |-> t, io |-> t, kernel |-> t]
      BY <1>1 DEF Init
    <2>2. t \in [Index -> Nat \cup {None}]
      BY BootAssumption DEF Index
    <2>3. QED
      BY <2>1, <2>2
  <1>4. TypeOK
    BY <1>1, <1>2, <1>3 DEF Init, TypeOK
  <1>5. QED
    BY <1>1, <1>2, <1>4
    DEF Init, IInv, Searching, Tried, BitmapInFreeMemory, PlaceFound, Filled, Marked, BitmapExact,
        Directory, Tables, Core

(* The tables of kstart.asm, whatever was in memory before.                *)
LEMMA BuildTablesB == IInv /\ BuildTables => IInv'
  <1>1. SUFFICES ASSUME IInv, BuildTables PROVE IInv'
    OBVIOUS
  <1>2. /\ pc = "kstart" /\ pc' = "highest"
        /\ UNCHANGED <<map, bm, i, at, used, bmVirt, videoVirt>>
    BY <1>1 DEF BuildTables, pmmVars
  <1>3. /\ pd' \in [Index -> {"none", "low", "io", "kernel", "pd"}]
        /\ Directory'
    <2>1. pd' = [x \in Index |-> CASE x = 0         -> "low"
                              [] x = IoIdx     -> "io"
                              [] x = KernelIdx -> "kernel"
                              [] x = Self      -> "pd"
                              [] OTHER         -> "none"]
      BY <1>1 DEF BuildTables
    <2>2. pd' \in [Index -> {"none", "low", "io", "kernel", "pd"}]
      BY <2>1
    <2>3. /\ IoIdx \in Index /\ KernelIdx \in Index /\ Self \in Index /\ SwapIdx \in Index
          /\ 0 # IoIdx /\ 0 # KernelIdx /\ 0 # Self
          /\ IoIdx # KernelIdx /\ IoIdx # Self /\ KernelIdx # Self
      BY Indices
    <2>4. pd'[IoIdx] = "io" /\ pd'[KernelIdx] = "kernel" /\ pd'[Self] = "pd"
      BY <2>1, <2>3
    <2>5. \A x \in Index \ {IoIdx, KernelIdx, Self} : pd'[x] \in {"none", "low"}
      BY <2>1
    <2>6. QED
      BY <2>2, <2>4, <2>5 DEF Directory
  <1>4. /\ pt' \in [{"low", "io", "kernel"} -> [Index -> Nat \cup {None}]]
        /\ \A x \in Index : pt'.kernel[x] = KernelPhys + x * PageSize
    <2>1. pt' = [pt EXCEPT !.low    = [x \in Index |-> x * PageSize],
                           !.kernel = [x \in Index |-> KernelPhys + x * PageSize]]
      BY <1>1 DEF BuildTables
    <2>2. /\ [x \in Index |-> x * PageSize] \in [Index -> Nat \cup {None}]
          /\ [x \in Index |-> KernelPhys + x * PageSize] \in [Index -> Nat \cup {None}]
      BY Sizes DEF Index
    <2>3. QED
      BY <1>1, <2>1, <2>2 DEF IInv, TypeOK
  <1>5. TypeOK'
    BY <1>1, <1>2, <1>3, <1>4 DEF IInv, TypeOK
  <1>6. 0 .. KernelPages - 1 \subseteq Index
    BY Sizes, BootAssumption DEF Index
  <1>7. QED
    BY <1>1, <1>2, <1>3, <1>4, <1>5, <1>6
    DEF IInv, Searching, Tried, BitmapInFreeMemory, PlaceFound, Filled, Marked, BitmapExact, Tables, Core

(* While the bitmap is built the tables stay as they are.                  *)
LEMMA PagesKept ==
  ASSUME IInv, UNCHANGED <<map, pageVars>>, pc # "kstart",
         pc \notin {"remap", "video", "done"}, pc' \notin {"remap", "video", "done"}
  PROVE  map' \in Maps /\ Directory' /\ Tables' /\ Core'
  BY DEF IInv, Directory, Tables, Core, pageVars

(* A bitmap has at least a byte.                                           *)
LEMMA NeededNat ==
  ASSUME map \in Maps
  PROVE  Needed \in Nat \ {0}
  <1>1. Highest \in Nat /\ PageSize * Bits \in Nat \ {0}
    BY HighestExists, Sizes
  <1>2. Highest \div (PageSize * Bits) \in Nat
    BY <1>1, Words
  <1>3. QED
    BY <1>2 DEF Needed

(* What has been tried stays so as long as the map does.                   *)
LEMMA TriedKept ==
  ASSUME UNCHANGED map
  PROVE  /\ Needed' = Needed /\ Kept' = Kept /\ Usable' = Usable
         /\ \A a : Blocked(a)' <=> Blocked(a)
         /\ \A e : Full(e)' <=> Full(e)
  BY DEF Needed, Highest, Usable, Kept, MapEnd, Blocked, Full

(* The search begins before the first entry.                               *)
LEMMA SizeBitmapB == IInv /\ SizeBitmap => IInv'
  <1>1. SUFFICES ASSUME IInv, SizeBitmap PROVE IInv'
    OBVIOUS
  <1>2. map' \in Maps /\ Directory' /\ Tables' /\ Core'
    BY <1>1, PagesKept DEF SizeBitmap
  <1>3. Needed \in Nat /\ Needed' = Needed
    BY <1>1, NeededNat DEF SizeBitmap, IInv, Needed, Highest, Usable
  <1>4. TypeOK'
    <2>1. Len(map) \in Nat
      BY <1>1, Entry DEF IInv
    <2>2. QED
      BY <1>1, <1>3, <2>1 DEF SizeBitmap, pageVars, IInv, TypeOK
  <1>5. Tried'
    BY <1>1, <1>3 DEF SizeBitmap, Tried
  <1>6. QED
    BY <1>1, <1>2, <1>4, <1>5
    DEF SizeBitmap, IInv, Searching, BitmapInFreeMemory, PlaceFound, Filled, Marked, BitmapExact

(* An entry that is passed over has no place; one that is entered is       *)
(* tried from its beginning.                                               *)
LEMMA SearchEnterB == IInv /\ SearchEnter => IInv'
  <1>1. SUFFICES ASSUME IInv, SearchEnter PROVE IInv'
    OBVIOUS
  <1>2. /\ pc = "search" /\ pc' = "search" /\ i <= Len(map) /\ 1 <= i /\ i \in Nat
        /\ UNCHANGED <<map, bm, used, pageVars>>
    BY <1>1 DEF SearchEnter, Search, IInv, Searching, TypeOK
  <1>3. map' \in Maps /\ Directory' /\ Tables' /\ Core'
    BY <1>1, <1>2, PagesKept
  <1>4. map[i].base \in Nat /\ Len(map) \in Nat
    BY <1>1, <1>2, Entry DEF IInv
  <1>5. \/ i' = i + 1 /\ at' = at /\ at = None
           /\ (~map[i].usable \/ map[i].len < bm.len \/ map[i].base >= Word - 1)
        \/ i' = i /\ at' = map[i].base /\ map[i].usable
    BY <1>1 DEF SearchEnter
  <1>6. TypeOK'
    BY <1>1, <1>2, <1>4, <1>5 DEF IInv, TypeOK, pageVars
  <1>7. Searching'
    BY <1>2, <1>4, <1>5 DEF Searching
  <1>8. Tried'
    <2>1. /\ bm.len = Needed /\ Needed \in Nat /\ \A k \in 1 .. i - 1 : Full(map[k])
          /\ map[i].len \in Nat /\ Word \in Nat
      BY <1>1, <1>2, Entry, NeededNat, Sizes DEF IInv, Tried
    <2>2. CASE i' = i + 1 /\ at' = None
      <3>1. Full(map[i])
        BY <1>4, <1>5, <2>1, <2>2 DEF Full, None
      <3>2. \A k \in 1 .. i' - 1 : k = i \/ k \in 1 .. i - 1
        BY <1>2, <2>2
      <3>3. QED
        BY <1>2, <2>1, <2>2, <3>1, <3>2, TriedKept DEF Tried
    <2>3. CASE i' = i /\ at' = map[i].base
      BY <1>2, <1>4, <2>1, <2>3, TriedKept DEF Tried
    <2>4. QED
      BY <1>5, <2>2, <2>3
  <1>9. QED
    BY <1>1, <1>2, <1>3, <1>6, <1>7, <1>8
    DEF IInv, BitmapInFreeMemory, PlaceFound, Filled, Marked, BitmapExact

(* Behind a region that is hit the search goes on upwards.                 *)
LEMMA SearchMoveB == IInv /\ SearchMove => IInv'
  <1>1. SUFFICES ASSUME IInv, SearchMove PROVE IInv'
    OBVIOUS
  <1>2. /\ pc = "search" /\ pc' = "search" /\ at # None /\ at \in Nat /\ bm.len \in Nat
        /\ UNCHANGED <<i, map, bm, used, pageVars>>
    BY <1>1 DEF SearchMove, Search, IInv, TypeOK
  <1>3. map' \in Maps /\ Directory' /\ Tables' /\ Core'
    BY <1>1, <1>2, PagesKept
  <1>4. ASSUME NEW j \in 1 .. 3
        PROVE  Kept[j].from \in Nat /\ Kept[j].to \in Nat /\ Kept[j].from <= Kept[j].to
    <2>1. Len(map) * EntrySize \in Nat /\ KernelPages * PageSize \in Nat
      BY <1>1, Entry, Sizes DEF IInv
    <2>2. /\ MapEnd \in Nat /\ BootEnd <= MapEnd
          /\ TablesEnd \in Nat /\ KernelPhys <= TablesEnd
      BY <2>1, Sizes DEF MapEnd, TablesEnd, KernelEnd
    <2>3. BootStart <= BootEnd
      BY BootAssumption
    <2>4. QED
      BY <2>2, <2>3, Sizes DEF Kept
  <1>5. Hits \in 1 .. 3 /\ Collide(at, at + bm.len, Kept[Hits].from, Kept[Hits].to)
    BY <1>1, FirstHit DEF SearchMove
  <1>6. at' = Kept[Hits].to /\ at' \in Nat /\ at <= at'
    BY <1>1, <1>2, <1>4, <1>5 DEF SearchMove, Collide
  <1>7. TypeOK'
    BY <1>1, <1>2, <1>6 DEF IInv, TypeOK, pageVars
  <1>8. Searching'
    <2>1. 1 <= i /\ i <= Len(map) /\ map[i].usable /\ map[i].base <= at /\ i \in Nat
      BY <1>1, <1>2 DEF IInv, Searching, TypeOK
    <2>2. map[i].base \in Nat
      BY <1>1, <2>1, Entry DEF IInv
    <2>3. QED
      BY <1>2, <1>6, <2>1, <2>2 DEF Searching
  <1>9. Tried'
    <2>1. /\ bm.len = Needed /\ Needed \in Nat /\ \A k \in 1 .. i - 1 : Full(map[k])
          /\ \A a \in map[i].base .. at - 1 : Blocked(a)
      BY <1>1, <1>2, NeededNat DEF IInv, Tried
    <2>2. map[i].base \in Nat
      BY <1>1, <1>2, Entry DEF IInv, Searching, TypeOK
    <2>3. ASSUME NEW a \in map[i].base .. at' - 1 PROVE Blocked(a)
      <3>1. CASE a < at
        BY <1>2, <2>1, <2>2, <3>1
      <3>2. CASE at <= a
        <4>1. a \in Nat /\ a < Kept[Hits].to
          BY <1>6, <2>2, <2>3
        <4>2. Collide(a, a + Needed, Kept[Hits].from, Kept[Hits].to)
          BY <1>2, <1>4, <1>5, <2>1, <3>2, <4>1 DEF Collide
        <4>3. Hits \in DOMAIN Kept
          BY <1>5 DEF Kept
        <4>4. QED
          BY <4>2, <4>3 DEF Blocked
      <3>3. QED
        BY <1>2, <2>2, <3>1, <3>2
    <2>4. QED
      BY <1>2, <2>1, <2>3, TriedKept DEF Tried
  <1>10. QED
    BY <1>1, <1>2, <1>3, <1>7, <1>8, <1>9
    DEF IInv, BitmapInFreeMemory, PlaceFound, Filled, Marked, BitmapExact

(* A place that no region hits and that ends within the entry is free.     *)
LEMMA SearchPlaceB == IInv /\ SearchPlace => IInv'
  <1>1. SUFFICES ASSUME IInv, SearchPlace PROVE IInv'
    OBVIOUS
  <1>2. /\ pc = "search" /\ at # None /\ at \in Nat /\ bm.len \in Nat
        /\ bm \in [addr : Nat, len : Nat] /\ i \in Nat
        /\ UNCHANGED <<map, used, pageVars>>
        /\ 1 <= i /\ i <= Len(map) /\ map[i].usable /\ map[i].base <= at
    BY <1>1 DEF SearchPlace, Search, IInv, TypeOK, Searching
  <1>3. map[i].base \in Nat /\ map[i].len \in Nat /\ Len(map) \in Nat /\ i \in DOMAIN map
    BY <1>1, <1>2, Entry DEF IInv
  <1>4. CASE at + bm.len < map[i].base + map[i].len
    <2>1. /\ bm' = [bm EXCEPT !.addr = at] /\ pc' = "fill" /\ UNCHANGED <<i, at>>
      BY <1>1, <1>4 DEF SearchPlace
    <2>2. map' \in Maps /\ Directory' /\ Tables' /\ Core'
      BY <1>1, <1>2, <2>1, PagesKept
    <2>3. bm' \in [addr : Nat, len : Nat] /\ bm'.addr = at /\ bm'.len = bm.len
      BY <1>2, <2>1
    <2>4. TypeOK'
      BY <1>1, <1>2, <2>1, <2>3 DEF IInv, TypeOK, pageVars
    <2>5. BitmapInFreeMemory'
      <3>1. \A j \in 1 .. 3 : ~Collide(at, at + bm.len, Kept[j].from, Kept[j].to)
        BY <1>1, FirstHit DEF SearchPlace
      <3>2. /\ ~Collide(at, at + bm.len, BootStart, BootEnd)
            /\ ~Collide(at, at + bm.len, BootEnd, MapEnd)
            /\ ~Collide(at, at + bm.len, KernelPhys, TablesEnd)
        BY <3>1 DEF Kept
      <3>3. /\ BootStart \in Nat /\ BootEnd \in Nat /\ KernelPhys \in Nat
            /\ MapEnd \in Nat /\ TablesEnd \in Nat
        BY <1>3, Sizes DEF MapEnd, TablesEnd, KernelEnd
      <3>4. /\ Disjoint(at, at + bm.len, BootStart, BootEnd)
            /\ Disjoint(at, at + bm.len, BootEnd, MapEnd)
            /\ Disjoint(at, at + bm.len, KernelPhys, TablesEnd)
        BY <1>2, <3>2, <3>3 DEF Collide, Disjoint
      <3>5. map[i] \in Usable /\ Within(at, at + bm.len, map[i].base, map[i].base + map[i].len)
        BY <1>2, <1>3, <1>4 DEF Usable, Within
      <3>6. Usable' = Usable /\ MapEnd' = MapEnd
        BY <1>2 DEF Usable, MapEnd
      <3>7. QED
        BY <2>1, <2>3, <3>4, <3>5, <3>6 DEF BitmapInFreeMemory, KernelEnd, TablesEnd
    <2>6. Tried'
      BY <1>1, <1>2, <2>1, <2>3, TriedKept DEF IInv, Tried
    <2>7. QED
      BY <2>1, <2>2, <2>4, <2>5, <2>6 DEF IInv, Searching, PlaceFound, Filled, Marked, BitmapExact
  <1>5. CASE ~(at + bm.len < map[i].base + map[i].len)
    <2>1. i' = i + 1 /\ at' = None /\ UNCHANGED <<pc, bm>>
      BY <1>1, <1>5 DEF SearchPlace
    <2>2. map' \in Maps /\ Directory' /\ Tables' /\ Core'
      BY <1>1, <1>2, <2>1, PagesKept
    <2>3. TypeOK'
      BY <1>1, <1>2, <1>3, <2>1 DEF IInv, TypeOK, pageVars
    <2>4. Tried'
      <3>1. /\ bm.len = Needed /\ Needed \in Nat /\ \A k \in 1 .. i - 1 : Full(map[k])
            /\ \A a \in map[i].base .. at - 1 : Blocked(a)
        BY <1>1, <1>2, NeededNat DEF IInv, Tried
      <3>2. Full(map[i])
        BY <1>2, <1>3, <1>5, <3>1 DEF Full
      <3>3. \A k \in 1 .. i' - 1 : k = i \/ k \in 1 .. i - 1
        BY <1>2, <2>1
      <3>4. QED
        BY <1>2, <2>1, <3>1, <3>2, <3>3, TriedKept DEF Tried
    <2>5. QED
      BY <1>1, <1>2, <2>1, <2>2, <2>3, <2>4
      DEF IInv, Searching, BitmapInFreeMemory, PlaceFound, Filled, Marked, BitmapExact
  <1>6. QED
    BY <1>4, <1>5

(* When all entries have been tried there is no place.                     *)
LEMMA SearchFailB == IInv /\ SearchFail => IInv'
  <1>1. SUFFICES ASSUME IInv, SearchFail PROVE IInv'
    OBVIOUS
  <1>2. map' \in Maps /\ Directory' /\ Tables' /\ Core'
    BY <1>1, PagesKept DEF SearchFail, Search
  <1>3. TypeOK'
    BY <1>1 DEF SearchFail, Search, pageVars, IInv, TypeOK
  <1>4. AllBits' = {}
    BY <1>1, Sizes DEF SearchFail, AllBits
  <1>5. PlaceFound'
    <2>1. /\ i > Len(map) /\ i \in Nat /\ Len(map) \in Nat /\ DOMAIN map = 1 .. Len(map)
          /\ UNCHANGED map /\ \A k \in 1 .. i - 1 : Full(map[k])
      BY <1>1, Entry DEF SearchFail, Search, IInv, TypeOK, Tried
    <2>2. \A k \in DOMAIN map : Full(map[k])
      BY <2>1
    <2>3. \A e \in Usable : e.usable /\ Full(e)
      BY <2>2 DEF Usable
    <2>4. QED
      BY <2>1, <2>3, TriedKept DEF PlaceFound, Full, Blocked
  <1>6. QED
    BY <1>1, <1>2, <1>3, <1>4, <1>5
    DEF SearchFail, Search, IInv, Searching, Tried, BitmapInFreeMemory, Filled, Marked, BitmapExact

(* A bitmap whose bytes are reached ends below the directory's entry for   *)
(* itself.                                                                 *)
LEMMA ReachedBelow ==
  ASSUME IInv, pc # "kstart", BitmapReached, bm.len # 0
  PROVE  bm.addr + bm.len + PageSize <= Word
  <1> DEFINE a == bm.addr + bm.len - 1
             w == Entries * PageSize
  <1>1. bm.addr \in Nat /\ bm.len \in Nat \ {0} /\ a \in Nat
    BY DEF IInv, TypeOK
  <1>2. a < Word /\ Translate(a) = a
    <2>1. a \in bm.addr .. bm.addr + bm.len - 1
      BY <1>1
    <2> HIDE DEF a
    <2>2. QED
      BY <2>1 DEF BitmapReached
  <1>3. w \in Nat \ {0} /\ PageSize <= w /\ Word = (Self * w) + w /\ Self \in Nat /\ PageSize \in Nat
    BY Spans, Sizes
  <1> HIDE DEF a, w
  <1>4. a \div w \in Nat /\ a % w \in Nat /\ a = ((a \div w) * w) + (a % w) /\ a % w < w
    BY <1>1, <1>3, Words
  <1>5. a \div w # Self
    <2>1. SUFFICES ASSUME a \div w = Self PROVE FALSE
      OBVIOUS
    <2>2. pd[a \div (Entries * PageSize)] \notin DOMAIN pt
      BY <2>1 DEF IInv, Directory, TypeOK, w
    <2>3. Translate(a) = None
      BY <2>2 DEF Translate
    <2>4. QED
      BY <1>1, <1>2, <2>3 DEF None
  <1>6. a \div w < Self
    <2>1. SUFFICES ASSUME Self + 1 <= a \div w PROVE FALSE
      BY <1>3, <1>4, <1>5
    <2>2. (Self + 1) * w <= (a \div w) * w /\ (a \div w) * w \in Nat
      BY <1>3, <1>4, <2>1, Monotone
    <2>3. (Self + 1) * w = (Self * w) + w
      BY <1>3, SMTT(20)
    <2>4. QED
      BY <1>1, <1>2, <1>3, <1>4, <2>2, <2>3
  <1>7. a < Self * w
    <2>1. ((a \div w) + 1) * w <= Self * w /\ Self * w \in Nat
      BY <1>3, <1>4, <1>6, Monotone
    <2>2. ((a \div w) + 1) * w = ((a \div w) * w) + w
      BY <1>3, <1>4, SMTT(20)
    <2>3. QED
      BY <1>1, <1>3, <1>4, <2>1, <2>2
  <1>8. Self * w \in Nat
    BY <1>3
  <1>9. QED
    BY <1>1, <1>3, <1>7, <1>8 DEF a

(* At first every frame is marked.                                         *)
LEMMA FillBitmapB == IInv /\ FillBitmap => IInv'
  <1>1. SUFFICES ASSUME IInv, FillBitmap PROVE IInv'
    OBVIOUS
  <1>2. /\ pc = "fill" /\ pc' \in {"usable", "fault"} /\ i' = 1
        /\ UNCHANGED <<map, bm, at, pageVars>>
        /\ pc' = "usable" => BitmapReached /\ used' = AllBits
        /\ pc' = "fault" => ~BitmapReached /\ used' = used
    BY <1>1 DEF FillBitmap
  <1>3. map' \in Maps /\ Directory' /\ Tables' /\ Core'
    BY <1>1, <1>2, PagesKept
  <1>4. AllBits' = AllBits /\ AllBits \subseteq Nat
    BY <1>2 DEF AllBits
  <1>5. TypeOK'
    <2>1. Len(map) \in Nat /\ i' \in 0 .. Len(map) + 1
      BY <1>1, <1>2, Entry DEF IInv
    <2>2. used' \subseteq Nat
      <3>1. used \subseteq Nat
        BY <1>1 DEF IInv, TypeOK
      <3>2. QED
        BY <1>2, <1>4, <3>1, Zenon
    <2>3. QED
      BY <1>1, <1>2, <2>1, <2>2 DEF IInv, TypeOK, pageVars
  <1>6. BitmapInFreeMemory'
    BY <1>1, <1>2 DEF IInv, BitmapInFreeMemory, Usable, MapEnd
  <1>7. Filled'
    <2>1. bm.len # 0
      BY <1>1, <1>2, NeededNat DEF IInv, Tried
    <2>2. QED
      BY <1>1, <1>2, <2>1, ReachedBelow DEF Filled
  <1>8. BitmapExact'
    BY <1>2 DEF BitmapExact, BitmapReached, Translate, pageVars
  <1>9. QED
    BY <1>1, <1>2, <1>3, <1>4, <1>5, <1>6, <1>7, <1>8, TriedKept
    DEF IInv, Searching, Tried, PlaceFound, Marked

(* An entry of a memory map that ends below 4 GB does not run away.        *)
LEMMA EntryFits ==
  ASSUME map \in Maps, MapFits, NEW k \in DOMAIN map, map[k].usable
  PROVE  /\ map[k].base \in Nat /\ map[k].len \in Nat /\ map[k].base + map[k].len < Word
         /\ map[k].base % Word = map[k].base /\ map[k].len % Word = map[k].len
         /\ ~RunsAway(map[k].base % Word, map[k].len % Word)
  <1>1. map[k].base \in Nat /\ map[k].len \in Nat
    BY Entry
  <1>2. map[k].base + map[k].len < Word
    BY DEF MapFits, Usable
  <1>3. map[k].base % Word = map[k].base /\ map[k].len % Word = map[k].len
    BY <1>1, <1>2, Sizes
  <1>4. ~RunsAway(map[k].base, map[k].len)
    <2>1. 0 \in Nat
      OBVIOUS
    <2>2. QED
      BY <1>1, <1>2, <2>1, UsableWithin
  <1>5. QED
    BY <1>1, <1>2, <1>3, <1>4

(* An entry of the memory map frees what lies in it, or runs away.         *)
LEMMA MarkUsableB == IInv /\ MarkUsable => IInv'
  <1>1. SUFFICES ASSUME IInv, MarkUsable PROVE IInv'
    OBVIOUS
  <1>2. /\ pc = "usable" /\ i <= Len(map) /\ i' = i + 1 /\ i \in Nat /\ 1 <= i
        /\ UNCHANGED <<map, bm, at, pageVars>>
        /\ \/ pc' = "usable" /\ used' = used \ Freed(i)
           \/ /\ pc' = "fault" /\ used' = used /\ map[i].usable
              /\ RunsAway(map[i].base % Word, map[i].len % Word)
    BY <1>1 DEF MarkUsable, IInv, Searching, TypeOK, Freed
  <1>3. map' \in Maps /\ Directory' /\ Tables' /\ Core'
    BY <1>1, <1>2, PagesKept
  <1>4. TypeOK'
    <2>1. Len(map) \in Nat
      BY <1>1, Entry DEF IInv
    <2>2. used' \subseteq Nat
      <3>1. used \subseteq Nat
        BY <1>1 DEF IInv, TypeOK
      <3>2. QED
        BY <1>2, <3>1, Zenon
    <2>3. i' \in 0 .. Len(map) + 1
      BY <1>2, <2>1
    <2>4. QED
      BY <1>1, <1>2, <2>2, <2>3 DEF IInv, TypeOK, pageVars
  <1>5. Marked'
    <2>1. SUFFICES ASSUME pc' = "usable" PROVE Marked'
      BY DEF Marked
    <2>2. AllBits' = AllBits /\ \A k : Freed(k)' = Freed(k)
      BY <1>2 DEF AllBits, Freed
    <2>3. \A f \in AllBits : f \in used <=> \A k \in 1 .. i - 1 : f \notin Freed(k)
      BY <1>1, <1>2 DEF IInv, Marked
    <2>4. 1 .. i' - 1 = (1 .. i - 1) \cup {i}
      BY <1>2
    <2>5. QED
      BY <1>2, <2>1, <2>2, <2>3, <2>4 DEF Marked
  <1>6. BitmapInFreeMemory' /\ Filled'
    BY <1>1, <1>2 DEF IInv, BitmapInFreeMemory, Usable, MapEnd, Filled
  <1>7. BitmapExact'
    <2>1. CASE pc' = "usable"
      BY <2>1 DEF BitmapExact
    <2>2. CASE pc' = "fault"
      <3>1. i \in DOMAIN map /\ map \in Maps /\ MapFits' = MapFits
        BY <1>1, <1>2, Entry DEF IInv, MapFits, Usable
      <3>2. ~MapFits
        BY <1>2, <2>2, <3>1, EntryFits
      <3>3. QED
        BY <3>1, <3>2 DEF BitmapExact
    <2>3. QED
      BY <1>2, <2>1, <2>2
  <1>8. QED
    BY <1>1, <1>2, <1>3, <1>4, <1>5, <1>6, <1>7, TriedKept
    DEF IInv, Searching, Tried, PlaceFound

(* What is left unmarked at the end is free.                               *)
LEMMA MarkUsedB == IInv /\ MarkUsed => IInv'
  <1>1. SUFFICES ASSUME IInv, MarkUsed PROVE IInv'
    OBVIOUS
  <1>2. /\ pc = "usable" /\ pc' = "vmm" /\ i > Len(map) /\ i \in Nat /\ 1 <= i /\ i <= Len(map) + 1
        /\ Len(map) \in Nat /\ bm.addr \in Nat /\ bm.len \in Nat
        /\ UNCHANGED <<map, bm, i, at, pageVars>>
        /\ used' = used \cup UsedPages(BootStart, BootEnd - BootStart)
                  \cup UsedPages(KernelPhys, TablesEnd - KernelPhys)
                  \cup UsedPages(bm.addr, bm.len)
                  \cup {0}
    BY <1>1, Entry DEF MarkUsed, IInv, Searching, TypeOK
  <1>3. map' \in Maps /\ Directory' /\ Tables' /\ Core'
    BY <1>1, <1>2, PagesKept
  <1>4. /\ BootStart \in Nat /\ BootEnd \in Nat /\ KernelPhys \in Nat /\ TablesEnd \in Nat
        /\ BootEnd - BootStart \in Nat /\ TablesEnd - KernelPhys \in Nat
        /\ BootStart + (BootEnd - BootStart) = BootEnd
        /\ KernelPhys + (TablesEnd - KernelPhys) = TablesEnd
        /\ BootEnd + PageSize <= Word /\ TablesEnd + PageSize <= Word
        /\ bm.addr + bm.len + PageSize <= Word
    <2>1. KernelPages * PageSize \in Nat
      BY Sizes
    <2>2. KernelPhys <= TablesEnd
      BY <2>1, Sizes DEF TablesEnd, KernelEnd
    <2>3. bm.addr + bm.len + PageSize <= Word
      BY <1>1, <1>2 DEF IInv, Filled
    <2>4. QED
      BY <2>2, <2>3, Sizes, BootAssumption
  <1>5. ASSUME NEW f \in Nat
        PROVE  f \in used' <=>
                 \/ f \in used \/ f = 0
                 \/ ~Disjoint(f * PageSize, (f * PageSize) + PageSize, BootStart, BootEnd)
                 \/ ~Disjoint(f * PageSize, (f * PageSize) + PageSize, KernelPhys, TablesEnd)
                 \/ ~Disjoint(f * PageSize, (f * PageSize) + PageSize, bm.addr, bm.addr + bm.len)
    <2>1. f \in UsedPages(BootStart, BootEnd - BootStart) <=>
            ~Disjoint(f * PageSize, (f * PageSize) + PageSize, BootStart, BootEnd)
      BY <1>4, UsedTouched
    <2>2. f \in UsedPages(KernelPhys, TablesEnd - KernelPhys) <=>
            ~Disjoint(f * PageSize, (f * PageSize) + PageSize, KernelPhys, TablesEnd)
      BY <1>4, UsedTouched
    <2>3. f \in UsedPages(bm.addr, bm.len) <=>
            ~Disjoint(f * PageSize, (f * PageSize) + PageSize, bm.addr, bm.addr + bm.len)
      BY <1>2, <1>4, UsedTouched
    <2>4. QED
      BY <1>2, <2>1, <2>2, <2>3, Zenon
  <1>6. BitmapExact'
    <2>1. SUFFICES ASSUME MapFits, NEW f \in AllBits
                   PROVE  f \notin used' <=> FreePage(f)'
      BY <1>2 DEF BitmapExact, AllBits, MapFits, Usable
    <2>2. f \in Nat
      BY DEF AllBits
    <2>3. f \notin used <=> \E k \in DOMAIN map : f \in Freed(k)
      <3>1. DOMAIN map = 1 .. i - 1
        BY <1>1, <1>2, Entry DEF IInv
      <3>2. QED
        BY <1>1, <1>2, <3>1 DEF IInv, Marked
    <2>4. ASSUME NEW k \in DOMAIN map
          PROVE  f \in Freed(k) <=>
                   /\ map[k].usable
                   /\ Within(f * PageSize, (f * PageSize) + PageSize,
                             map[k].base, map[k].base + map[k].len)
      <3>1. map[k].base \in Nat /\ map[k].len \in Nat
        BY <1>1, Entry DEF IInv
      <3>2. CASE map[k].usable
        <4>1. /\ map[k].base + map[k].len < Word
              /\ map[k].base % Word = map[k].base /\ map[k].len % Word = map[k].len
          BY <1>1, <2>1, <3>2, EntryFits DEF IInv
        <4>2. QED
          BY <2>2, <3>1, <3>2, <4>1, UsableWithin DEF Freed
      <3>3. CASE ~map[k].usable
        BY <3>3 DEF Freed
      <3>4. QED
        BY <3>2, <3>3
    <2>5. (\E k \in DOMAIN map : f \in Freed(k)) <=>
            \E e \in Usable : Within(f * PageSize, (f * PageSize) + PageSize, e.base, e.base + e.len)
      BY <2>4, Zenon DEF Usable
    <2>6. FreePage(f)' <=> FreePage(f)
      BY <1>2 DEF FreePage, Usable
    <2>7. QED
      BY <1>5, <2>2, <2>3, <2>5, <2>6, Zenon DEF FreePage
  <1>7. TypeOK'
    <2>1. used' \subseteq Nat
      <3>1. ASSUME NEW base \in Nat, NEW len \in Nat, base + len + PageSize <= Word
            PROVE  UsedPages(base, len) \subseteq Nat
        <4>1. 0 \in Nat
          OBVIOUS
        <4>2. QED
          BY <3>1, <4>1, UsedTouched
      <3>2. used \subseteq Nat
        BY <1>1 DEF IInv, TypeOK
      <3>3. /\ UsedPages(BootStart, BootEnd - BootStart) \subseteq Nat
            /\ UsedPages(KernelPhys, TablesEnd - KernelPhys) \subseteq Nat
            /\ UsedPages(bm.addr, bm.len) \subseteq Nat
        BY <1>2, <1>4, <3>1
      <3>4. {0} \subseteq Nat
        OBVIOUS
      <3>5. QED
        BY <1>2, <3>2, <3>3, <3>4, Zenon
    <2>2. QED
      BY <1>1, <1>2, <2>1 DEF IInv, TypeOK, pageVars
  <1>8. QED
    <2>1. bm.len # 0
      BY <1>1, <1>2, NeededNat DEF IInv, Tried
    <2>2. PlaceFound' /\ Tried'
      BY <1>2, <2>1 DEF PlaceFound, Tried
    <2>3. QED
      BY <1>2, <1>3, <1>6, <1>7, <2>2 DEF IInv, Searching, BitmapInFreeMemory, Filled, Marked

(* The identity mapping goes and the kernel's table shrinks to the kernel. *)
LEMMA VmmInitB == IInv /\ VmmInit => IInv'
  <1>1. SUFFICES ASSUME IInv, VmmInit PROVE IInv'
    OBVIOUS
  <1>2. /\ pc = "vmm" /\ pc' = "remap"
        /\ UNCHANGED <<map, bm, i, at, used, bmVirt, videoVirt>>
    BY <1>1 DEF VmmInit, pmmVars
  <1>3. /\ pd' \in [Index -> {"none", "low", "io", "kernel", "pd"}]
        /\ Directory'
    <2>1. /\ pd' = [pd EXCEPT ![0] = "none", ![SwapIdx] = "low"]
          /\ pd \in [Index -> {"none", "low", "io", "kernel", "pd"}]
      BY <1>1 DEF VmmInit, IInv, TypeOK
    <2>2. pd' \in [Index -> {"none", "low", "io", "kernel", "pd"}]
      BY <2>1
    <2>3. \A x \in Index : pd'[x] = IF x = SwapIdx THEN "low" ELSE IF x = 0 THEN "none" ELSE pd[x]
      BY <2>1
    <2>4. QED
      BY <1>1, <1>2, <2>2, <2>3, Indices DEF IInv, Directory
  <1>4. /\ pt' \in [{"low", "io", "kernel"} -> [Index -> Nat \cup {None}]]
        /\ Tables'
    <2>1. /\ pt' = [pt EXCEPT !.low    = [x \in Index |-> None],
                             !.kernel = [x \in Index |-> IF x < KernelPages THEN @[x] ELSE None]]
          /\ pt \in [{"low", "io", "kernel"} -> [Index -> Nat \cup {None}]]
      BY <1>1 DEF VmmInit, IInv, TypeOK, KernelTable
    <2>2. [x \in Index |-> None] \in [Index -> Nat \cup {None}]
      OBVIOUS
    <2>3. [x \in Index |-> IF x < KernelPages THEN pt.kernel[x] ELSE None]
            \in [Index -> Nat \cup {None}]
      BY <2>1
    <2>4. /\ pt'.low = [x \in Index |-> None] /\ pt'.io = pt.io
          /\ pt'.kernel = [x \in Index |-> IF x < KernelPages THEN pt.kernel[x] ELSE None]
          /\ pt' \in [{"low", "io", "kernel"} -> [Index -> Nat \cup {None}]]
      BY <2>1, <2>2, <2>3
    <2>5. \A x \in 0 .. KernelPages - 1 : pt.kernel[x] = KernelPhys + x * PageSize
      BY <1>1, <1>2 DEF IInv, Tables
    <2>6. \A x \in 0 .. KernelPages - 1 : x \in Index /\ x < KernelPages
      BY Sizes, BootAssumption DEF Index
    <2>7. \A x \in Index : KernelPages <= x => ~ (x < KernelPages)
      BY Sizes DEF Index
    <2>8. QED
      BY <1>2, <2>4, <2>5, <2>6, <2>7 DEF Tables
  <1>5. TypeOK'
    BY <1>1, <1>2, <1>3, <1>4 DEF IInv, TypeOK
  <1>6. BitmapExact'
    BY <1>1, <1>2 DEF IInv, MapFits, BitmapExact, AllBits, FreePage, Usable
  <1>7. PlaceFound'
    BY <1>1, <1>2, TriedKept DEF IInv, PlaceFound
  <1>8. QED
    BY <1>1, <1>2, <1>3, <1>4, <1>5, <1>6, <1>7
    DEF IInv, Searching, Tried, BitmapInFreeMemory, Filled, Marked, Core

-----------------------------------------------------------------------------
(* arch_vmm_map_core keeps every entry that is in use, and the address it  *)
(* returns is that of the entries it has set.                              *)
LEMMA MapCoreMaps ==
  ASSUME pt \in [{"low", "io", "kernel"} -> [Index -> Nat \cup {None}]],
         NEW base \in Nat, NEW len \in Nat, NEW m, m = MapCore(base, len)
  PROVE  /\ m.io \in [Index -> Nat \cup {None}]
         /\ IoAddress(m) \in Nat
         /\ \A y \in Index : pt.io[y] # None => m.io[y] = pt.io[y]
         /\ IoAddress(m) # 0 => \E first \in Nat :
              /\ IoAddress(m) = (IoIdx * Entries + first) * PageSize
              /\ \A y \in 0 .. (len + PageSize) \div PageSize - 1 :
                   first + y \in Index /\ m.io[first + y] = base + y * PageSize
  <1> DEFINE n      == (len + PageSize) \div PageSize
             Run(x) == x + n <= Entries /\ \A y \in x .. x + n - 1 : pt.io[y] = None
             runs   == {x \in Index : Run(x)}
             first  == CHOOSE x \in runs : \A y \in runs : x <= y
  <1>1. /\ n \in Nat /\ Entries \in Nat \ {0} /\ PageSize \in Nat \ {0} /\ IoIdx \in Nat \ {0}
        /\ pt.io \in [Index -> Nat \cup {None}]
    <2>1. IoIdx \in Nat \ {0}
      BY BootAssumption
    <2>2. len + PageSize \in Nat
      BY Sizes
    <2>3. n \in Nat
      BY <2>2, Sizes, Words
    <2> HIDE DEF n
    <2>4. QED
      BY <2>1, <2>3, Sizes
  <1>2. m = IF runs = {} THEN [at |-> None, io |-> pt.io]
            ELSE [at |-> first,
                  io |-> [y \in Index |-> IF y \in first .. first + n - 1
                                          THEN base + (y - first) * PageSize ELSE pt.io[y]]]
    BY DEF MapCore
  <1>3. CASE runs = {}
    BY <1>1, <1>2, <1>3 DEF IoAddress
  <1>4. CASE runs # {}
    <2>1. first \in runs
      <3>1. runs \in SUBSET Nat
        BY DEF Index
      <3> HIDE DEF runs
      <3>2. \E x \in runs : \A y \in runs : x <= y
        BY <1>4, <3>1, Least
      <3>3. QED
        BY <3>2
    <2>2. first \in Nat /\ first + n <= Entries /\ \A y \in first .. first + n - 1 : pt.io[y] = None
      <3> HIDE DEF first, n
      <3>1. QED
        BY <2>1 DEF Index
    <2>3. /\ m.at = first
          /\ m.io = [y \in Index |-> IF y \in first .. first + n - 1
                                     THEN base + (y - first) * PageSize ELSE pt.io[y]]
      <3> HIDE DEF first, n, runs
      <3>1. m = [at |-> first,
                  io |-> [y \in Index |-> IF y \in first .. first + n - 1
                                          THEN base + (y - first) * PageSize ELSE pt.io[y]]]
        BY <1>2, <1>4
      <3>2. QED
        BY <3>1
    <2> HIDE DEF first, n
    <2>4. m.io \in [Index -> Nat \cup {None}]
      <3>1. ASSUME NEW y \in Index
            PROVE  (IF y \in first .. first + n - 1 THEN base + (y - first) * PageSize ELSE pt.io[y])
                     \in Nat \cup {None}
        <4>1. CASE y \in first .. first + n - 1
          <5>1. y - first \in Nat
            BY <1>1, <2>2, <4>1
          <5>2. (y - first) * PageSize \in Nat
            BY <1>1, <5>1
          <5>3. QED
            BY <4>1, <5>2
        <4>2. CASE y \notin first .. first + n - 1
          BY <1>1, <4>2
        <4>3. QED
          BY <4>1, <4>2
      <3>2. QED
        BY <2>3, <3>1
    <2>5. /\ IoAddress(m) = (IoIdx * Entries + first) * PageSize
          /\ IoAddress(m) \in Nat
      BY <1>1, <2>2, <2>3 DEF IoAddress, None
    <2>6. \A y \in Index : pt.io[y] # None => m.io[y] = pt.io[y]
      BY <2>2, <2>3
    <2>7. ASSUME NEW y \in 0 .. n - 1
          PROVE  first + y \in Index /\ m.io[first + y] = base + y * PageSize
      <3>1. first + y \in Index /\ first + y \in first .. first + n - 1 /\ (first + y) - first = y
        BY <1>1, <2>2 DEF Index
      <3>2. QED
        BY <2>3, <3>1
    <2>8. QED
      BY <2>2, <2>4, <2>5, <2>6, <2>7 DEF n
  <1>5. QED
    BY <1>3, <1>4

(* A step that maps into the table for core structures.                    *)
LEMMA CoreStep ==
  ASSUME IInv, pc \in {"remap", "video"}, pc' \in {"video", "done"},
         UNCHANGED <<map, pmmVars, pd>>,
         NEW io \in [Index -> Nat \cup {None}], pt' = [pt EXCEPT !.io = io],
         bmVirt' \in Nat, videoVirt' \in Nat \cup {None}, Core'
  PROVE  IInv'
  <1>1. pt \in [{"low", "io", "kernel"} -> [Index -> Nat \cup {None}]]
    BY DEF IInv, TypeOK
  <1>2. /\ pt' \in [{"low", "io", "kernel"} -> [Index -> Nat \cup {None}]]
        /\ pt'.low = pt.low /\ pt'.kernel = pt.kernel
    BY <1>1
  <1>3. TypeOK'
    BY <1>2 DEF IInv, TypeOK, pmmVars
  <1>4. Directory' /\ Tables'
    BY <1>2 DEF IInv, Directory, Tables
  <1>5. BitmapExact'
    BY DEF IInv, MapFits, BitmapExact, AllBits, FreePage, Usable, pmmVars
  <1>6. PlaceFound'
    BY TriedKept DEF IInv, PlaceFound, pmmVars
  <1>7. QED
    BY <1>3, <1>4, <1>5, <1>6 DEF IInv, Searching, Tried, BitmapInFreeMemory, Filled, Marked, pmmVars

(* The bitmap is mapped.                                                   *)
LEMMA RemapBitmapB == IInv /\ RemapBitmap => IInv'
  <1>1. SUFFICES ASSUME IInv, RemapBitmap PROVE IInv'
    OBVIOUS
  <1> DEFINE m == MapCore(bm.addr, bm.len)
  <1>2. /\ pc = "remap" /\ pc' = "video" /\ UNCHANGED <<map, pmmVars, pd, videoVirt>>
        /\ pt' = [pt EXCEPT !.io = m.io] /\ bmVirt' = IoAddress(m)
    BY <1>1 DEF RemapBitmap
  <1>3. /\ pt \in [{"low", "io", "kernel"} -> [Index -> Nat \cup {None}]]
        /\ bm.addr \in Nat /\ bm.len \in Nat /\ videoVirt \in Nat \cup {None}
    BY <1>1 DEF IInv, TypeOK
  <1> HIDE DEF m
  <1>4. /\ m.io \in [Index -> Nat \cup {None}]
        /\ IoAddress(m) \in Nat
        /\ IoAddress(m) # 0 => \E first \in Nat :
             /\ IoAddress(m) = (IoIdx * Entries + first) * PageSize
             /\ \A y \in 0 .. (bm.len + PageSize) \div PageSize - 1 :
                  first + y \in Index /\ m.io[first + y] = bm.addr + y * PageSize
    BY <1>3, MapCoreMaps DEF m
  <1>5. pt'.io = m.io
    BY <1>2, <1>3
  <1>6. Core'
    BY <1>2, <1>4, <1>5 DEF Core, Mapped, pmmVars
  <1>7. QED
    BY <1>1, <1>2, <1>3, <1>4, <1>6, CoreStep

(* The bitmap stays mapped when the screen is.                             *)
LEMMA MapVideoB == IInv /\ MapVideo => IInv'
  <1>1. SUFFICES ASSUME IInv, MapVideo PROVE IInv'
    OBVIOUS
  <1> DEFINE m == MapCore(Video, VideoLen)
  <1>2. /\ pc = "video" /\ pc' = "done" /\ UNCHANGED <<map, pmmVars, pd, bmVirt>>
        /\ pt' = [pt EXCEPT !.io = m.io] /\ videoVirt' = IoAddress(m)
    BY <1>1 DEF MapVideo
  <1>3. /\ pt \in [{"low", "io", "kernel"} -> [Index -> Nat \cup {None}]]
        /\ bm.addr \in Nat /\ bm.len \in Nat /\ bmVirt \in Nat
    BY <1>1 DEF IInv, TypeOK
  <1> HIDE DEF m
  <1>4. /\ m.io \in [Index -> Nat \cup {None}]
        /\ IoAddress(m) \in Nat
        /\ \A y \in Index : pt.io[y] # None => m.io[y] = pt.io[y]
        /\ IoAddress(m) # 0 => \E first \in Nat :
             /\ IoAddress(m) = (IoIdx * Entries + first) * PageSize
             /\ \A y \in 0 .. (VideoLen + PageSize) \div PageSize - 1 :
                  first + y \in Index /\ m.io[first + y] = Video + y * PageSize
    BY <1>3, Sizes, MapCoreMaps DEF m
  <1>5. pt'.io = m.io
    BY <1>2, <1>3
  <1>6. Mapped(Video, VideoLen, videoVirt)'
    BY <1>2, <1>4, <1>5 DEF Mapped
  <1>7. Mapped(bm.addr, bm.len, bmVirt)'
    <2>1. SUFFICES ASSUME bmVirt # 0
                   PROVE  Mapped(bm.addr, bm.len, bmVirt)'
      BY <1>2 DEF Mapped
    <2>2. PICK first \in Nat :
            /\ bmVirt = (IoIdx * Entries + first) * PageSize
            /\ \A y \in 0 .. (bm.len + PageSize) \div PageSize - 1 :
                 first + y \in Index /\ pt.io[first + y] = bm.addr + y * PageSize
      BY <1>1, <1>2, <2>1 DEF IInv, Core, Mapped
    <2>3. ASSUME NEW y \in 0 .. (bm.len + PageSize) \div PageSize - 1
          PROVE  first + y \in Index /\ m.io[first + y] = bm.addr + y * PageSize
      <3>1. y * PageSize \in Nat
        BY Sizes
      <3>2. pt.io[first + y] # None
        BY <1>3, <2>2, <3>1 DEF None
      <3>3. QED
        BY <1>4, <2>2, <3>2
    <2>4. QED
      BY <1>2, <1>5, <2>2, <2>3 DEF Mapped, pmmVars
  <1>8. Core'
    BY <1>2, <1>6, <1>7 DEF Core
  <1>9. QED
    BY <1>1, <1>2, <1>3, <1>4, <1>8, CoreStep

(* Nothing changes.                                                        *)
LEMMA StutterB == IInv /\ UNCHANGED vars => IInv'
  <1>1. SUFFICES ASSUME IInv, UNCHANGED vars PROVE IInv'
    OBVIOUS
  <1>2. PlaceFound' /\ Tried'
    BY <1>1, TriedKept DEF IInv, PlaceFound, Tried, vars
  <1>3. QED
    BY <1>1, <1>2
    DEF IInv, TypeOK, Searching, BitmapInFreeMemory, Filled, Marked, MapFits, BitmapExact,
        Directory, Tables, Core, Mapped, vars, Usable, MapEnd, AllBits, Freed, FreePage,
        BitmapReached, Translate

-----------------------------------------------------------------------------
(* The invariant holds in every reachable state.                           *)
THEOREM BootInvariance == Spec => []IInv
  <1>1. IInv /\ [Next]_vars => IInv'
    BY BuildTablesB, SizeBitmapB, SearchEnterB, SearchMoveB, SearchPlaceB, SearchFailB,
       FillBitmapB, MarkUsableB, MarkUsedB, VmmInitB, RemapBitmapB, MapVideoB, StutterB
    DEF Next
  <1>2. QED
    BY InitB, <1>1, PTL DEF Spec

(* Every variable of Boot keeps its type.                                  *)
THEOREM BootTypeCorrect == Spec => []TypeOK
  <1>1. IInv => TypeOK
    BY DEF IInv
  <1>2. QED
    BY <1>1, BootInvariance, PTL

(* The bitmap never lies on the boot loader, the memory map, the kernel    *)
(* or its tables, and always in usable memory                              *)
(* (get_free_mem_range_for_bitmap), for every memory map and every layout  *)
(* of those regions.                                                       *)
THEOREM BitmapPlaced == Spec => []BitmapInFreeMemory
  <1>1. IInv => BitmapInFreeMemory
    BY DEF IInv
  <1>2. QED
    BY <1>1, BootInvariance, PTL

(* The search of get_free_mem_range_for_bitmap gives up only if there is   *)
(* no place, whatever lies in the way.                                     *)
THEOREM SearchComplete == Spec => []PlaceFound
  <1>1. IInv => PlaceFound
    BY DEF IInv
  <1>2. QED
    BY <1>1, BootInvariance, PTL

(* If all usable memory ends below 4 GB, arch_pmm_init gives out exactly   *)
(* the free frames, and fails to get that far only when its bitmap is not  *)
(* mapped, for every size of a page and every memory map, however its      *)
(* entries begin and end and overlap.                                      *)
THEOREM BitmapRight == Spec => []BitmapExact
  <1>1. IInv => BitmapExact
    BY DEF IInv
  <1>2. QED
    BY <1>1, BootInvariance, PTL

(* A multiple of the size of a page loses nothing to the mask of an entry. *)
LEMMA Aligned ==
  ASSUME NEW base \in Nat, base % PageSize = 0, NEW y \in Nat
  PROVE  ((base + y * PageSize) \div PageSize) * PageSize = base + y * PageSize
  <1> DEFINE b == base \div PageSize
  <1>1. PageSize \in Nat \ {0} /\ b \in Nat /\ base = b * PageSize
    <2>1. base = (b * PageSize) + (base % PageSize) /\ b \in Nat
      BY Sizes, Words
    <2>2. QED
      BY <2>1, Sizes
  <1> HIDE DEF b
  <1>2. base + y * PageSize = ((b + y) * PageSize) + 0 /\ b + y \in Nat
    BY <1>1, SMTT(20)
  <1>3. (((b + y) * PageSize) + 0) \div PageSize = b + y
    BY <1>1, <1>2, DivMod
  <1>4. QED
    BY <1>1, <1>2, <1>3

(* Address x of a range is in its page x \div PageSize.                    *)
LEMMA Offset ==
  ASSUME NEW x \in Nat
  PROVE  /\ x \div PageSize \in Nat /\ x % PageSize \in 0 .. PageSize - 1
         /\ x = ((x \div PageSize) * PageSize) + (x % PageSize)
         /\ (x \div PageSize) * PageSize \in Nat
  <1>1. /\ x \div PageSize \in Nat /\ x % PageSize \in Nat /\ x % PageSize < PageSize
        /\ x = ((x \div PageSize) * PageSize) + (x % PageSize)
    BY Sizes, Words
  <1>2. QED
    BY <1>1, Sizes

(* The pages of a range that ends with its last page.                      *)
LEMMA PagesOf ==
  ASSUME NEW n \in Nat, NEW x \in Nat, x < n * PageSize
  PROVE  x \div PageSize < n
  <1>1. CASE n <= x \div PageSize
    <2>1. n * PageSize <= (x \div PageSize) * PageSize /\ n * PageSize \in Nat
      BY <1>1, Offset, Sizes, Monotone
    <2>2. QED
      BY <2>1, Offset
  <1>2. QED
    BY <1>1, Offset

(* The address x behind that of an entry of the kernel's directory.        *)
LEMMA Place ==
  ASSUME NEW t \in Nat, NEW k \in Nat, NEW x \in Nat
  PROVE  (((t * Entries) + k) * PageSize) + x
         = (((t * Entries) + (k + (x \div PageSize))) * PageSize) + (x % PageSize)
  <1> DEFINE q == x \div PageSize
             r == x % PageSize
             n == (t * Entries) + k
  <1>1. q \in Nat /\ r \in Nat /\ x = (q * PageSize) + r /\ n \in Nat /\ PageSize \in Nat
    BY Offset, Sizes
  <1>2. (t * Entries) + (k + q) = n + q
    <2>1. t * Entries \in Nat
      BY Sizes
    <2> HIDE DEF q
    <2>2. QED
      BY <1>1, <2>1
  <1> HIDE DEF q, r, n
  <1>3. (n * PageSize) + x = ((n + q) * PageSize) + r
    BY <1>1, SMTT(20)
  <1>4. QED
    BY <1>2, <1>3 DEF q, r, n

(* The kernel stays mapped through kernel_entry and arch_vmm_init, and at  *)
(* the end nothing else is but the table for core structures, for every    *)
(* size of a table and of the kernel.                                      *)
THEOREM KernelStays == Spec => []KernelMapped
  <1>1. IInv => KernelMapped
    <2>1. SUFFICES ASSUME IInv, pc # "kstart" PROVE KernelMapped
      BY DEF KernelMapped
    <2>2. ASSUME NEW x \in 0 .. KernelPages * PageSize - 1
          PROVE  Translate(KernelIdx * Entries * PageSize + x) = KernelPhys + x
      <3> DEFINE q == x \div PageSize
      <3>1. /\ x \in Nat /\ KernelIdx \in Nat /\ q \in Nat /\ x % PageSize \in 0 .. PageSize - 1
            /\ x = (q * PageSize) + (x % PageSize) /\ q * PageSize \in Nat
        <4>1. x \in Nat /\ KernelIdx \in Nat
          <5>1. KernelPages * PageSize \in Nat
            BY Sizes
          <5>2. QED
            BY <5>1, BootAssumption
        <4>2. QED
          BY <4>1, Offset
      <3>2. q < KernelPages /\ q \in Index
        <4>1. q < KernelPages
          BY <3>1, PagesOf, Sizes
        <4>2. QED
          BY <3>1, <4>1, Sizes, BootAssumption DEF Index
      <3>3. KernelIdx * Entries * PageSize + x
            = (((KernelIdx * Entries) + q) * PageSize) + (x % PageSize)
        <4>1. /\ ((KernelIdx * Entries) + 0) = KernelIdx * Entries /\ 0 + q = q
          BY <3>1, Sizes
        <4>2. QED
          BY <3>1, <4>1, Place
      <3>4. pd[KernelIdx] = "kernel" /\ "kernel" \in DOMAIN pt
            /\ pt.kernel[q] = KernelPhys + q * PageSize
        <4>1. pd[KernelIdx] = "kernel" /\ "kernel" \in DOMAIN pt
          BY <2>1 DEF IInv, Directory, TypeOK
        <4>2. q \in 0 .. KernelPages - 1
          BY <3>1, <3>2, Sizes
        <4>3. pt.kernel[q] = KernelPhys + q * PageSize
          BY <2>1, <4>2 DEF IInv, Tables
        <4>4. QED
          BY <4>1, <4>3
      <3> HIDE DEF q
      <3>5. pt.kernel[q] # None
            /\ (pt.kernel[q] \div PageSize) * PageSize = KernelPhys + q * PageSize
        <4>1. KernelPhys \in Nat /\ KernelPhys % PageSize = 0
          BY BootAssumption
        <4>2. KernelPhys + q * PageSize # None
          BY <3>1, <4>1 DEF None
        <4>3. ((KernelPhys + q * PageSize) \div PageSize) * PageSize = KernelPhys + q * PageSize
          BY <3>1, <4>1, Aligned
        <4>4. QED
          BY <3>4, <4>2, <4>3
      <3>6. Translate((((KernelIdx * Entries) + q) * PageSize) + (x % PageSize))
            = (KernelPhys + q * PageSize) + (x % PageSize)
        <4>1. Translate((((KernelIdx * Entries) + q) * PageSize) + (x % PageSize))
              = IF pd[KernelIdx] \notin DOMAIN pt \/ pt[pd[KernelIdx]][q] = None THEN None
                ELSE ((pt[pd[KernelIdx]][q] \div PageSize) * PageSize) + (x % PageSize)
          BY <3>1, <3>2, Translated
        <4>2. QED
          BY <3>4, <3>5, <4>1
      <3>7. (KernelPhys + q * PageSize) + (x % PageSize) = KernelPhys + x
        <4> DEFINE w == q * PageSize
                   r == x % PageSize
        <4>1. w \in Nat /\ r \in Int /\ x = w + r /\ KernelPhys \in Nat
          BY <3>1, Sizes
        <4> HIDE DEF w, r
        <4>2. (KernelPhys + w) + r = KernelPhys + x
          BY <4>1
        <4>3. QED
          BY <4>2 DEF w, r
      <3>8. QED
        BY <3>3, <3>6, <3>7
    <2>3. ASSUME pc \in {"remap", "video", "done"}, NEW a \in 0 .. Entries - 2, NEW x \in Index,
                 Translate((a * Entries + x) * PageSize) # None
          PROVE  a = IoIdx \/ (a = KernelIdx /\ x < KernelPages)
      <3>1. a \in Nat /\ a \in Index /\ a # Self /\ 0 \in 0 .. PageSize - 1 /\ x \in Nat
        BY Sizes DEF Index, Self
      <3>2. (a * Entries + x) * PageSize = (((a * Entries) + x) * PageSize) + 0
        BY <3>1, Sizes
      <3>3. pd[a] \in DOMAIN pt /\ pt[pd[a]][x] # None
        BY <2>3, <3>1, <3>2, Translated
      <3>4. CASE a = KernelIdx
        BY <2>1, <2>3, <3>1, <3>3, <3>4, Sizes DEF IInv, Directory, Tables
      <3>5. CASE a \notin {KernelIdx, IoIdx}
        <4>1. pd[a] \in {"none", "low"} /\ DOMAIN pt = {"low", "io", "kernel"}
          BY <2>1, <3>1, <3>5 DEF IInv, Directory, TypeOK
        <4>2. QED
          BY <2>1, <2>3, <3>3, <4>1 DEF IInv, Tables
      <3>6. QED
        BY <3>4, <3>5
    <2>4. QED
      BY <2>1, <2>2, <2>3 DEF KernelMapped, IInv, Directory
  <1>2. QED
    BY <1>1, BootInvariance, PTL

(* A range that map_core has mapped is reached at the address it           *)
(* returned.                                                               *)
LEMMA Reached ==
  ASSUME IInv, pc # "kstart", NEW base \in Nat, base % PageSize = 0, NEW len \in Nat,
         NEW virt, virt # 0, Mapped(base, len, virt), NEW x \in 0 .. len - 1
  PROVE  Translate(virt + x) = base + x
  <1> DEFINE q == x \div PageSize
  <1>1. /\ x \in Nat /\ IoIdx \in Nat /\ q \in Nat /\ x % PageSize \in 0 .. PageSize - 1
        /\ x = (q * PageSize) + (x % PageSize) /\ q * PageSize \in Nat
    <2>1. x \in Nat /\ IoIdx \in Nat
      BY BootAssumption
    <2>2. QED
      BY <2>1, Offset
  <1>2. PICK first \in Nat :
          /\ virt = (IoIdx * Entries + first) * PageSize
          /\ \A y \in 0 .. (len + PageSize) \div PageSize - 1 :
               first + y \in Index /\ pt.io[first + y] = base + y * PageSize
    BY DEF Mapped
  <1>3. q \in 0 .. (len + PageSize) \div PageSize - 1
    <2>1. len + PageSize \in Nat /\ (len + PageSize) \div PageSize \in Nat
      BY Sizes, Words
    <2>2. (q < (len + PageSize) \div PageSize) <=> ((q * PageSize) + PageSize <= len + PageSize)
      BY <1>1, <2>1, Below
    <2>3. q < (len + PageSize) \div PageSize
      BY <1>1, <2>1, <2>2, Sizes
    <2>4. QED
      BY <1>1, <2>1, <2>3
  <1>4. first + q \in Index /\ pt.io[first + q] = base + q * PageSize
    BY <1>2, <1>3
  <1>5. virt + x = (((IoIdx * Entries) + (first + q)) * PageSize) + (x % PageSize)
    BY <1>1, <1>2, Place
  <1>6. pd[IoIdx] = "io" /\ "io" \in DOMAIN pt
    BY DEF IInv, Directory, TypeOK
  <1> HIDE DEF q
  <1>7. pt.io[first + q] # None /\ (pt.io[first + q] \div PageSize) * PageSize = base + q * PageSize
    BY <1>1, <1>4, Aligned DEF None
  <1>8. QED
    BY <1>1, <1>4, <1>5, <1>6, <1>7, Translated

(* The bitmap and the screen are reached where arch_vmm_map_core has put   *)
(* them, whatever the table held before.                                   *)
THEOREM CoreStays == Spec => []CoreReached
  <1>1. IInv => CoreReached
    <2>1. SUFFICES ASSUME IInv PROVE CoreReached
      OBVIOUS
    <2>2. bm.addr \in Nat /\ bm.len \in Nat /\ bmVirt \in Nat /\ videoVirt \in Nat \cup {None}
      BY <2>1 DEF IInv, TypeOK
    <2>3. pc \in {"video", "done"} /\ bmVirt # 0 /\ bm.addr % PageSize = 0 =>
            \A x \in 0 .. bm.len - 1 : Translate(bmVirt + x) = bm.addr + x
      BY <2>1, <2>2, Reached DEF IInv, Core
    <2>4. pc = "done" /\ videoVirt # 0 =>
            \A x \in 0 .. VideoLen - 1 : Translate(videoVirt + x) = Video + x
      <3>1. Video \in Nat /\ VideoLen \in Nat /\ Video % PageSize = 0
        BY BootAssumption
      <3>2. QED
        BY <2>1, <3>1, Reached DEF IInv, Core
    <2>5. QED
      BY <2>3, <2>4 DEF CoreReached
  <1>2. QED
    BY <1>1, BootInvariance, PTL
=============================================================================
