---------------------------- MODULE LoaderProofs ----------------------------
(***************************************************************************)
(* Proofs about Loader, for every geometry of the disk, every size of an   *)
(* extended read and of the images.                                        *)
(***************************************************************************)
EXTENDS Loader, TLAPS

(* What the assumption says of the machine that is booted.                 *)
Sane ==
  /\ m.drive \in {0, 128} /\ m.lba \in BOOLEAN
  /\ m.cyls \in Nat \ {0} /\ m.heads \in 1 .. Byte /\ m.spt \in Nat \ {0, 1, 2}
  /\ m.stage2 \in Nat \ {0} /\ m.stage2 < 63 /\ m.kernel \in Nat \ {0}
  /\ 1 + m.stage2 + m.kernel <= Capacity

Loading == {"geometry", "convert", "lba", "chs"}
For(who) == pc \in Loading /\ caller = who
Later   == {"mmap", "first", "header", "rest", "kernel"}

(* Where load_sectors reads from, how much at once, and what is next.      *)
Source == IF m.lba THEN m.drive ELSE 0
Chunk  == IF m.lba THEN Batch ELSE 1
Done   == asked.n - remaining
Unread == asked.first + asked.n - remaining

Types ==
  /\ m \in Machines
  /\ pc \in Loading \cup Later \cup {"stage1", "entry", "halt", "divide"}
  /\ caller \in {"rest", "header", "kernel"}
  /\ asked \in [first : Nat, n : Nat] /\ remaining \in 0 .. asked.n
  /\ seg \in Nat /\ off \in {0, 1} /\ lba \in Nat
  /\ chs \in [c : 0 .. m.cyls, h : 0 .. m.heads - 1, s : 1 .. m.spt]
  /\ knows \in BOOLEAN /\ failed \in BOOLEAN

(* Every slot holds a sector of a disk.                                    *)
Stored ==
  \A s \in DOMAIN mem : mem[s].drive \in {0, 128} /\ mem[s].sector \in 0 .. Capacity - 1

(* What is loaded for whom, and to where; the kernel's rest starts at an   *)
(* offset, which the first read drops.                                     *)
Asked ==
  /\ pc = "rest" => m.kernel > 1
  /\ For("rest") => /\ m.stage2 > 2 /\ asked.first = 3 /\ asked.n = m.stage2 - 2
                    /\ seg = RestAt + Done /\ off = 0
  /\ For("header") => /\ asked.first = m.stage2 + 1 /\ asked.n = 1
                      /\ seg = KernelAt + Done /\ off = 0
  /\ For("kernel") => /\ m.kernel > 1 /\ asked.first = m.stage2 + 2 /\ asked.n = m.kernel - 1
                      /\ seg = KernelAt + Done /\ off = IF Done = 0 THEN 1 ELSE 0

(* How the next sector is addressed.                                       *)
Addressed ==
  /\ pc = "lba" => m.lba /\ lba = Unread
  /\ pc \in {"geometry", "convert"} => ~m.lba /\ lba = asked.first /\ remaining = asked.n
  /\ pc = "chs" => ~m.lba /\ m.heads < Byte /\ chs.c < m.cyls /\ LbaOf(chs) = Unread
  /\ pc = "divide" => ~m.lba /\ m.heads = Byte

(* The first n sectors of stage 2, or of the kernel, are in their places.  *)
Stage2Has(n) ==
  \A k \in 0 .. n - 1 :
    /\ Stage2At + k \in DOMAIN mem
    /\ mem[Stage2At + k] = [drive |-> IF k < 2 THEN m.drive ELSE Source, sector |-> 1 + k]

KernelHas(n) ==
  \A k \in 0 .. n - 1 :
    KernelAt + k \in DOMAIN mem /\ mem[KernelAt + k] = [drive |-> Source, sector |-> m.stage2 + 1 + k]

Stage2Loaded ==
  /\ pc = "entry" => Stage2Has(2)
  /\ For("rest") => Stage2Has(2 + Done)
  /\ pc \in Later \/ For("header") \/ For("kernel") => Stage2Has(m.stage2)

(* Behind the first read of the kernel's rest one sector is in the place   *)
(* of the sector before it.                                                *)
Shifted ==
  KernelAt + Chunk \in DOMAIN mem /\ mem[KernelAt + Chunk].sector = m.stage2 + 2 + Chunk

KernelLoaded ==
  /\ For("header") => KernelHas(Done)
  /\ pc \in {"header", "rest"} \/ For("kernel") => KernelHas(1)
  /\ pc \in {"rest", "kernel"} \/ For("kernel") => Source = m.drive
  /\ For("kernel") =>
       \/ Done <= Chunk /\ KernelHas(1 + Done) /\ (Done \in {0, Chunk} \/ remaining = 0)
       \/ Done > Chunk /\ Shifted
  /\ pc = "kernel" => IF m.kernel - 1 <= Chunk THEN KernelHas(m.kernel) ELSE Shifted

(* Why the loader has stopped.                                             *)
Halted == pc = "halt" => ~Bootable \/ ProperReason

LInv == Types /\ Stored /\ Asked /\ Addressed /\ Stage2Loaded /\ KernelLoaded /\ Halted

(* What was checked, or has shown itself, before the loader came this far. *)
Passed ==
  /\ pc # "halt" => ~failed
  /\ pc \notin {"stage1", "halt"} => m.magic2
  /\ pc \in {"header", "rest", "kernel"} \/ For("kernel") => m.lba \/ m.heads < Byte
  /\ pc \in {"rest", "kernel"} \/ For("kernel") => m.magicK /\ m.kernel - 1 < MaxKernel
  /\ pc = "header" => m.lba \/ m.stage2 + 2 < Capacity
  /\ pc = "kernel" => m.lba \/ 1 + m.stage2 + m.kernel < Capacity

-----------------------------------------------------------------------------
(* Arithmetic of cylinders, heads and sectors. *)

(* A number is put together again from quotient and remainder.             *)
LEMMA Quotient ==
  ASSUME NEW a \in Nat, NEW b \in Nat \ {0}
  PROVE  /\ a = ((a \div b) * b) + (a % b)
         /\ a \div b \in Nat /\ a % b \in 0 .. b - 1
  OBVIOUS

(* One more of something.                                                  *)
LEMMA OneMore ==
  ASSUME NEW a \in Int, NEW b \in Int
  PROVE  (a + 1) * b = (a * b) + b /\ a * b \in Int
  OBVIOUS

(* At least as many cylinders are at least as many sectors.                *)
LEMMA AtLeast ==
  ASSUME NEW a \in Nat, NEW b \in Nat, NEW k \in Nat, a <= b
  PROVE  a * k <= b * k /\ a * k \in Nat /\ b * k \in Nat
  OBVIOUS

(* The smaller of two numbers.                                             *)
LEMMA Smaller ==
  ASSUME NEW a \in Nat \ {0}, NEW b \in Nat \ {0}
  PROVE  Min({a, b}) = IF a <= b THEN a ELSE b
  <1>1. CASE a <= b
    <2>1. \A x \in {a, b} : (\A y \in {a, b} : x <= y) <=> x = a
      BY <1>1
    <2>2. QED
      BY <1>1, <2>1 DEF Min
  <1>2. CASE ~(a <= b)
    <2>1. \A x \in {a, b} : (\A y \in {a, b} : x <= y) <=> x = b
      BY <1>2
    <2>2. QED
      BY <1>2, <2>1 DEF Min
  <1>3. QED
    BY <1>1, <1>2

(* Machines are sane.                                                      *)
LEMMA Machine == m \in Machines => Sane /\ Capacity \in Nat /\ Batch \in Nat \ {0}
  <1>1. SUFFICES ASSUME m \in Machines PROVE Sane /\ Capacity \in Nat /\ Batch \in Nat \ {0}
    OBVIOUS
  <1>2. Sane /\ Batch \in Nat \ {0} /\ Byte \in Nat
    BY <1>1, LoaderAssumption DEF Sane, Capacity
  <1>3. Capacity \in Nat
    <2>1. m.cyls * m.heads \in Nat
      BY <1>2, AtLeast DEF Sane
    <2>2. QED
      BY <1>2, <2>1, AtLeast DEF Sane, Capacity
  <1>4. QED
    BY <1>2, <1>3

(* chs_get_geometry keeps the number of heads unless there are 256.        *)
LEMMA HeadsKept == m \in Machines => Heads = IF m.heads = Byte THEN 0 ELSE m.heads
  <1>1. SUFFICES ASSUME m \in Machines PROVE Heads = IF m.heads = Byte THEN 0 ELSE m.heads
    OBVIOUS
  <1> DEFINE h == m.heads
  <1>2. Byte \in Nat \ {0} /\ h \in 1 .. Byte
    BY <1>1, LoaderAssumption
  <1> HIDE DEF h
  <1>3. h % Byte = IF h = Byte THEN 0 ELSE h
    BY <1>2
  <1>4. QED
    BY <1>3 DEF Heads, h

(* load_sectors_chs_lba_to_chs gives the place of the sector.              *)
LEMMA Converted ==
  ASSUME m \in Machines, m.heads < Byte, NEW a \in Nat, a < Capacity
  PROVE  /\ ToChs(a) \in [c : 0 .. m.cyls, h : 0 .. m.heads - 1, s : 1 .. m.spt]
         /\ ToChs(a).c < m.cyls /\ LbaOf(ToChs(a)) = a
  <1> DEFINE q == a \div m.spt  c == q \div m.heads  h == q % m.heads  s == a % m.spt
  <1>1. Sane /\ Heads = m.heads
    BY Machine, HeadsKept, LoaderAssumption DEF Sane
  <1>2. a = (q * m.spt) + s /\ q \in Nat /\ s \in 0 .. m.spt - 1
    BY <1>1, Quotient DEF Sane
  <1>3. q = (c * m.heads) + h /\ c \in Nat /\ h \in 0 .. m.heads - 1
    <2> HIDE DEF q
    <2>1. m.heads \in Nat \ {0}
      BY <1>1 DEF Sane
    <2>2. QED
      BY <1>2, <2>1, Quotient
  <1>4. ToChs(a) = [c |-> c, h |-> h, s |-> s + 1]
    BY <1>1 DEF ToChs
  <1> HIDE DEF q, c, h, s
  <1>5. c < m.cyls
    <2>1. SUFFICES ASSUME m.cyls <= c PROVE FALSE
      BY <1>1, <1>3 DEF Sane
    <2>2. m.cyls * m.heads <= c * m.heads /\ m.cyls * m.heads \in Nat /\ c * m.heads \in Nat
      BY <1>1, <1>3, <2>1, AtLeast DEF Sane
    <2>3. m.cyls * m.heads <= q
      BY <1>3, <2>2
    <2>4. Capacity <= q * m.spt /\ Capacity \in Nat /\ q * m.spt \in Nat
      BY <1>1, <1>2, <2>2, <2>3, AtLeast DEF Sane, Capacity
    <2>5. QED
      BY <1>2, <2>4
  <1>6. LbaOf(ToChs(a)) = a
    <2>1. LbaOf(ToChs(a)) = (q * m.spt) + (s + 1) - 1
      BY <1>3, <1>4 DEF LbaOf
    <2>2. q * m.spt \in Int
      BY <1>1, <1>2, OneMore DEF Sane
    <2>3. QED
      BY <1>2, <2>1, <2>2
  <1>7. QED
    BY <1>1, <1>2, <1>3, <1>4, <1>5, <1>6 DEF Sane

(* The carry of sector, head and cylinder: the next sector is one further, *)
(* and the cylinders end where the disk does.                              *)
LEMMA Carried ==
  ASSUME m \in Machines, m.heads < Byte, chs.c < m.cyls,
         chs \in [c : 0 .. m.cyls, h : 0 .. m.heads - 1, s : 1 .. m.spt]
  PROVE  /\ ChsNext(chs) \in [c : 0 .. m.cyls, h : 0 .. m.heads - 1, s : 1 .. m.spt]
         /\ LbaOf(chs) \in Nat /\ LbaOf(ChsNext(chs)) = LbaOf(chs) + 1
         /\ ~(ChsNext(chs).c < m.cyls) => LbaOf(ChsNext(chs)) = Capacity
  <1> DEFINE c == chs.c  h == chs.h  s == chs.s  t == c * m.heads
  <1>1. Sane /\ Heads = m.heads
    BY Machine, HeadsKept, LoaderAssumption DEF Sane
  <1>2. /\ c \in 0 .. m.cyls /\ h \in 0 .. m.heads - 1 /\ s \in 1 .. m.spt
        /\ m.heads \in Nat \ {0} /\ m.spt \in Nat \ {0} /\ m.cyls \in Nat
    BY <1>1 DEF Sane
  <1>3. t \in Nat /\ (t + h) * m.spt \in Nat /\ (t + h + 1) * m.spt = ((t + h) * m.spt) + m.spt
        /\ (c + 1) * m.heads = t + m.heads
    <2> HIDE DEF c, h
    <2>1. t \in Nat /\ (c + 1) * m.heads = t + m.heads
      BY <1>2, AtLeast, OneMore
    <2> HIDE DEF t
    <2>2. (t + h) * m.spt \in Nat
      BY <1>2, <2>1, AtLeast
    <2>3. QED
      BY <1>2, <2>1, <2>2, OneMore
  <1>4. LbaOf(chs) = ((t + h) * m.spt) + s - 1
    BY DEF LbaOf
  <1>5. CASE s < m.spt
    <2>1. ChsNext(chs) = [c |-> c, h |-> h, s |-> s + 1]
      BY <1>5 DEF ChsNext
    <2>2. LbaOf(ChsNext(chs)) = ((t + h) * m.spt) + (s + 1) - 1
      BY <2>1 DEF LbaOf
    <2> HIDE DEF t
    <2>3. LbaOf(ChsNext(chs)) = LbaOf(chs) + 1 /\ LbaOf(chs) \in Nat
      BY <1>2, <1>3, <1>4, <2>2
    <2>4. QED
      BY <1>2, <1>5, <2>1, <2>3
  <1>6. CASE ~(s < m.spt) /\ h + 1 < m.heads
    <2>1. ChsNext(chs) = [c |-> c, h |-> h + 1, s |-> 1]
      BY <1>1, <1>6 DEF ChsNext
    <2>2. LbaOf(ChsNext(chs)) = ((t + (h + 1)) * m.spt) + 1 - 1
      BY <2>1 DEF LbaOf
    <2> HIDE DEF t
    <2>3. t + (h + 1) = t + h + 1
      BY <1>2, <1>3
    <2>4. LbaOf(ChsNext(chs)) = LbaOf(chs) + 1 /\ LbaOf(chs) \in Nat
      BY <1>2, <1>3, <1>4, <1>6, <2>2, <2>3
    <2>5. QED
      BY <1>2, <1>6, <2>1, <2>4
  <1>7. CASE ~(s < m.spt) /\ ~(h + 1 < m.heads)
    <2>1. ChsNext(chs) = [c |-> c + 1, h |-> 0, s |-> 1]
      BY <1>1, <1>7 DEF ChsNext
    <2>2. LbaOf(ChsNext(chs)) = (((c + 1) * m.heads + 0) * m.spt) + 1 - 1
      BY <2>1 DEF LbaOf
    <2>3. s = m.spt /\ h + 1 = m.heads
      BY <1>2, <1>7
    <2>4. (c + 1) * m.heads + 0 = t + h + 1
      <3> HIDE DEF t
      <3>1. QED
        BY <1>2, <1>3, <2>3
    <2>5. ~(c + 1 < m.cyls) => Capacity = ((t + h + 1) * m.spt)
      <3>1. SUFFICES ASSUME ~(c + 1 < m.cyls) PROVE Capacity = ((c + 1) * m.heads) * m.spt
        BY <1>2, <1>3, <2>4
      <3>2. m.cyls = c + 1
        BY <1>2, <3>1
      <3>3. QED
        BY <3>2 DEF Capacity
    <2> HIDE DEF t
    <2>6. LbaOf(ChsNext(chs)) = LbaOf(chs) + 1 /\ LbaOf(chs) \in Nat
          /\ LbaOf(ChsNext(chs)) = (t + h + 1) * m.spt
      BY <1>2, <1>3, <1>4, <2>2, <2>3, <2>4
    <2>7. QED
      BY <1>2, <2>1, <2>5, <2>6
  <1>8. QED
    BY <1>5, <1>6, <1>7

(* What lies on a cylinder of the disk lies on the disk.                   *)
LEMMA Within ==
  ASSUME m \in Machines, NEW a \in [c : 0 .. m.cyls, h : 0 .. m.heads - 1, s : 1 .. m.spt],
         a.c < m.cyls
  PROVE  LbaOf(a) < Capacity
  <1> DEFINE t == a.c * m.heads  u == t + a.h
  <1>1. /\ a.c \in Nat /\ a.h \in 0 .. m.heads - 1 /\ a.s \in 1 .. m.spt
        /\ m.heads \in Nat \ {0} /\ m.spt \in Nat \ {0} /\ m.cyls \in Nat
    BY Machine DEF Sane
  <1>2. /\ a.c + 1 \in Nat /\ a.c + 1 <= m.cyls /\ t \in Nat
        /\ (a.c + 1) * m.heads = t + m.heads /\ (a.c + 1) * m.heads <= m.cyls * m.heads
        /\ m.cyls * m.heads \in Nat
    <2>1. a.c + 1 \in Nat /\ a.c + 1 <= m.cyls
      BY <1>1
    <2>2. (a.c + 1) * m.heads <= m.cyls * m.heads /\ m.cyls * m.heads \in Nat
      BY <1>1, <2>1, AtLeast
    <2>3. t \in Nat /\ (a.c + 1) * m.heads = t + m.heads
      BY <1>1, AtLeast, OneMore
    <2>4. QED
      BY <2>1, <2>2, <2>3
  <1> HIDE DEF t
  <1>3. u \in Nat /\ u + 1 \in Nat /\ u + 1 <= m.cyls * m.heads
    BY <1>1, <1>2
  <1>4. LbaOf(a) = (u * m.spt) + a.s - 1
    BY DEF LbaOf, t
  <1> HIDE DEF u
  <1>5. (u + 1) * m.spt <= Capacity /\ Capacity \in Nat
    BY <1>1, <1>2, <1>3, AtLeast DEF Capacity
  <1>6. (u + 1) * m.spt = (u * m.spt) + m.spt /\ u * m.spt \in Nat
    BY <1>1, <1>3, OneMore, AtLeast
  <1>7. QED
    BY <1>1, <1>4, <1>5, <1>6

-----------------------------------------------------------------------------
(* What a read does, of whichever kind. *)

(* n sectors arrive where the next ones belong, or are put.                *)
Arrive(n) ==
  /\ n = IF Chunk <= remaining THEN Chunk ELSE remaining
  /\ Unread + n <= Capacity
  /\ Transfer(Source, Unread, n, seg + off)
  /\ remaining' = remaining - n /\ seg' = seg + n /\ off' = 0
  /\ UNCHANGED <<m, caller, asked>>

(* Slots hold sectors of a disk, whatever arrives.                         *)
LEMMA StoredStill ==
  ASSUME Stored, NEW drive \in {0, 128}, NEW first \in Nat, NEW n \in Nat, NEW slot \in Nat,
         Transfer(drive, first, n, slot), first + n <= Capacity, m' = m, Capacity \in Nat
  PROVE  Stored'
  <1>1. /\ DOMAIN mem' = DOMAIN mem \cup slot .. slot + n - 1
        /\ \A s \in slot .. slot + n - 1 : mem'[s] = [drive |-> drive, sector |-> first + s - slot]
        /\ \A s \in DOMAIN mem : s \notin slot .. slot + n - 1 => mem'[s] = mem[s]
    BY DEF Transfer
  <1>2. Capacity' = Capacity
    BY DEF Capacity
  <1>3. ASSUME NEW s \in slot .. slot + n - 1
        PROVE  mem'[s].drive \in {0, 128} /\ mem'[s].sector \in 0 .. Capacity - 1
    <2>1. mem'[s].drive = drive /\ mem'[s].sector = first + s - slot
      <3>1. mem'[s] = [drive |-> drive, sector |-> first + s - slot]
        BY <1>1, <1>3
      <3>2. QED
        BY <3>1
    <2>2. first + s - slot \in 0 .. Capacity - 1
      BY <1>3
    <2>3. QED
      BY <2>1, <2>2
  <1>4. QED
    BY <1>1, <1>2, <1>3 DEF Stored

(* A load while one is going on: where it is, in numbers.                  *)
LEMMA UnderWay ==
  ASSUME LInv, pc \in Loading, remaining > 0
  PROVE  /\ Sane /\ Capacity \in Nat /\ Source \in {0, 128} /\ Chunk \in Nat \ {0}
         /\ Done \in Nat /\ remaining \in Nat \ {0} /\ Unread \in Nat /\ Unread = asked.first + Done
         /\ asked.first \in Nat /\ asked.n \in Nat /\ seg + off \in Nat
         /\ caller = "rest" => Unread = 3 + Done /\ seg + off = RestAt + Done
                               /\ Done + remaining = m.stage2 - 2
         /\ caller = "header" => /\ Unread = m.stage2 + 1 /\ seg + off = KernelAt /\ Done = 0
                                 /\ remaining = 1
         /\ caller = "kernel" => /\ Unread = m.stage2 + 2 + Done /\ Done + remaining = m.kernel - 1
                                 /\ seg + off = KernelAt + IF Done = 0 THEN 1 ELSE Done
  <1>1. Sane /\ Capacity \in Nat /\ Batch \in Nat \ {0}
    BY Machine DEF LInv, Types
  <1>2. Source \in {0, 128} /\ Chunk \in Nat \ {0}
    BY <1>1 DEF Source, Chunk, Sane
  <1>3. /\ asked.first \in Nat /\ asked.n \in Nat /\ remaining \in 1 .. asked.n
        /\ seg \in Nat /\ off \in {0, 1} /\ caller \in {"rest", "header", "kernel"}
    BY DEF LInv, Types
  <1>4. Done = asked.n - remaining /\ Unread = asked.first + asked.n - remaining
    BY DEF Done, Unread
  <1>5. m.stage2 \in Nat /\ m.kernel \in Nat
    BY <1>1 DEF Sane
  <1>6. QED
    BY <1>1, <1>2, <1>3, <1>4, <1>5 DEF LInv, Asked, For, RestAt, KernelAt

(* What arrives is in its place, except for what follows the first read of *)
(* the kernel's rest; and nothing else is overwritten.                     *)
LEMMA Arrived ==
  ASSUME LInv, pc \in {"lba", "chs"}, remaining > 0, NEW n, Arrive(n), pc' \in {pc, "halt"}
  PROVE  /\ m' \in Machines /\ remaining' \in 0 .. asked.n /\ seg' \in Nat /\ off' = 0
         /\ n \in 1 .. remaining
         /\ Stored' /\ Asked' /\ Stage2Loaded' /\ KernelLoaded'
  <1> DEFINE slot == seg + off  u == Unread  d == Done
  <1>1. pc \in Loading
    BY DEF Loading
  <1>2. /\ Sane /\ Capacity \in Nat /\ Source \in {0, 128} /\ Chunk \in Nat \ {0}
        /\ d \in Nat /\ remaining \in Nat \ {0} /\ u \in Nat /\ u = asked.first + d
        /\ asked.first \in Nat /\ asked.n \in Nat /\ slot \in Nat
        /\ caller = "rest" => u = 3 + d /\ slot = RestAt + d /\ d + remaining = m.stage2 - 2
        /\ caller = "header" => u = m.stage2 + 1 /\ slot = KernelAt /\ d = 0 /\ remaining = 1
        /\ caller = "kernel" => /\ u = m.stage2 + 2 + d /\ d + remaining = m.kernel - 1
                                /\ slot = KernelAt + IF d = 0 THEN 1 ELSE d
    BY <1>1, UnderWay
  <1>3. n \in 1 .. remaining /\ n \in Nat /\ (n = Chunk \/ n = remaining) /\ n <= Chunk
    BY <1>2 DEF Arrive
  <1>4. /\ DOMAIN mem' = DOMAIN mem \cup slot .. slot + n - 1
        /\ \A s \in slot .. slot + n - 1 : mem'[s] = [drive |-> Source, sector |-> u + s - slot]
        /\ \A s \in DOMAIN mem : s \notin slot .. slot + n - 1 => mem'[s] = mem[s]
    BY <1>2, <1>3 DEF Arrive, Transfer
  <1>5. /\ m' = m /\ caller' = caller /\ asked' = asked /\ remaining' = remaining - n
        /\ seg' = seg + n /\ off' = 0
        /\ Source' = Source /\ Chunk' = Chunk /\ Done' = d + n /\ pc' \notin Later /\ pc' # "entry"
    BY <1>2, <1>3 DEF Arrive, Source, Chunk, Done, Later
  <1>6. /\ m' \in Machines /\ remaining' \in 0 .. asked.n /\ seg' \in Nat
    BY <1>2, <1>3, <1>5 DEF LInv, Types
  <1>7. Stored'
    BY <1>2, <1>3, <1>5, StoredStill DEF Arrive, LInv
  <1>8. /\ m.stage2 \in 1 .. 62 /\ m.kernel \in Nat
    BY <1>2 DEF Sane
  <1>9. /\ seg \in Nat /\ off \in {0, 1} /\ caller \in {"rest", "header", "kernel"}
    BY DEF LInv, Types
  <1>10. Asked'
    <2>1. /\ caller = "rest" => seg = RestAt + d /\ off = 0
          /\ caller # "rest" => seg = KernelAt + d
      BY <1>1, <1>9 DEF LInv, Asked, For
    <2>2. d + n # 0
      BY <1>2, <1>3
    <2> HIDE DEF d
    <2>3. /\ caller' = "rest" => seg' = RestAt + Done' /\ off' = 0
          /\ caller' # "rest" => seg' = KernelAt + Done' /\ off' = 0
          /\ Done' # 0
      BY <1>2, <1>3, <1>5, <1>9, <2>1, <2>2 DEF RestAt, KernelAt
    <2>4. QED
      BY <1>1, <1>5, <2>3 DEF LInv, Asked, For, Later
  <1> HIDE DEF slot, u, d
  <1>11. Stage2Loaded'
    <2>1. CASE caller = "rest"
      <3>1. Stage2Has(2 + d)
        BY <1>1, <2>1 DEF LInv, Stage2Loaded, For, d
      <3>2. \A i \in 0 .. (2 + d) - 1 :
              /\ Stage2At + i \in DOMAIN mem
              /\ mem[Stage2At + i] = [drive |-> IF i < 2 THEN m.drive ELSE Source, sector |-> 1 + i]
        BY <3>1 DEF Stage2Has
      <3>3. ASSUME NEW k \in 0 .. 2 + (d + n) - 1
            PROVE  /\ Stage2At + k \in DOMAIN mem'
                   /\ mem'[Stage2At + k] = [drive |-> IF k < 2 THEN m.drive ELSE Source, sector |-> 1 + k]
        <4>1. CASE k \in 0 .. (2 + d) - 1
          <5>1. Stage2At + k \notin slot .. slot + n - 1
            BY <1>2, <1>3, <2>1, <4>1 DEF Stage2At, RestAt
          <5>2. /\ Stage2At + k \in DOMAIN mem
                /\ mem[Stage2At + k] = [drive |-> IF k < 2 THEN m.drive ELSE Source, sector |-> 1 + k]
            BY <3>2, <4>1
          <5>3. QED
            BY <1>4, <5>1, <5>2
        <4>2. CASE k \notin 0 .. (2 + d) - 1
          <5>1. /\ Stage2At + k \in slot .. slot + n - 1 /\ ~(k < 2)
                /\ u + (Stage2At + k) - slot = 1 + k
            BY <1>2, <1>3, <2>1, <3>3, <4>2 DEF Stage2At, RestAt
          <5>2. mem'[Stage2At + k] = [drive |-> Source, sector |-> u + (Stage2At + k) - slot]
                /\ Stage2At + k \in DOMAIN mem'
            BY <1>4, <5>1
          <5>3. QED
            BY <5>1, <5>2
        <4>3. QED
          BY <4>1, <4>2
      <3>4. Stage2Has(2 + Done)'
        BY <1>5, <3>3 DEF Stage2Has
      <3>5. QED
        BY <1>5, <2>1, <3>4 DEF Stage2Loaded, For
    <2>2. CASE caller # "rest"
      <3>1. Stage2Has(m.stage2)
        BY <1>1, <1>9, <2>2 DEF LInv, Stage2Loaded, For
      <3>2. ASSUME NEW k \in 0 .. m.stage2 - 1
            PROVE  Stage2At + k \notin slot .. slot + n - 1
        BY <1>2, <1>3, <1>8, <1>9, <2>2 DEF Stage2At, KernelAt
      <3>3. Stage2Has(m.stage2)'
        BY <1>4, <1>5, <3>1, <3>2 DEF Stage2Has
      <3>4. QED
        BY <1>5, <2>2, <3>3 DEF Stage2Loaded, For
    <2>3. QED
      BY <2>1, <2>2
  <1>12. ASSUME slot > KernelAt, KernelHas(1) PROVE KernelHas(1)'
    BY <1>2, <1>3, <1>4, <1>5, <1>12 DEF KernelHas, KernelAt
  <1>13. ASSUME caller = "rest" PROVE KernelLoaded'
    BY <1>5, <1>13 DEF KernelLoaded, For, Later
  <1>14. ASSUME caller = "header" PROVE KernelLoaded'
    <2>1. KernelAt \in slot .. slot + n - 1 /\ u + KernelAt - slot = m.stage2 + 1 /\ Done' = 1
      BY <1>2, <1>3, <1>5, <1>14 DEF KernelAt
    <2>2. mem'[KernelAt] = [drive |-> Source, sector |-> u + KernelAt - slot] /\ KernelAt \in DOMAIN mem'
      BY <1>4, <2>1
    <2>3. mem'[KernelAt] = [drive |-> Source, sector |-> m.stage2 + 1 + 0]
      BY <1>8, <2>1, <2>2
    <2>4. \A k \in 0 .. 1 - 1 : k = 0 /\ KernelAt + k = KernelAt
      BY DEF KernelAt
    <2>5. KernelHas(1)'
      BY <1>5, <2>2, <2>3, <2>4 DEF KernelHas
    <2>6. QED
      BY <1>5, <1>14, <2>1, <2>5 DEF KernelLoaded, For, Later
  <1>15. ASSUME caller = "kernel" PROVE KernelLoaded'
    <2>1. /\ KernelHas(1) /\ Source = m.drive
          /\ \/ d <= Chunk /\ KernelHas(1 + d) /\ (d \in {0, Chunk} \/ remaining = 0)
             \/ d > Chunk /\ Shifted
      BY <1>1, <1>15 DEF LInv, KernelLoaded, For, d
    <2>2. slot > KernelAt
      BY <1>2, <1>15 DEF KernelAt
    <2>3. KernelHas(1)' /\ (Source = m.drive)'
      BY <1>5, <1>12, <2>1, <2>2
    <2>4. SUFFICES \/ Done' <= Chunk /\ KernelHas(1 + Done)' /\ (Done' = Chunk \/ remaining' = 0)
                   \/ Done' > Chunk /\ Shifted'
      BY <1>5, <1>15, <2>3 DEF KernelLoaded, For, Later
    <2>5. CASE d = 0
      <3>1. slot = KernelAt + 1 /\ u = m.stage2 + 2 /\ Done' = n
        BY <1>2, <1>3, <1>5, <1>8, <1>15, <2>5
      <3>2. ASSUME NEW k \in 1 .. n
            PROVE  /\ KernelAt + k \in DOMAIN mem'
                   /\ mem'[KernelAt + k] = [drive |-> Source, sector |-> m.stage2 + 1 + k]
        <4>1. KernelAt + k \in slot .. slot + n - 1 /\ u + (KernelAt + k) - slot = m.stage2 + 1 + k
          BY <1>3, <1>8, <3>1, <3>2 DEF KernelAt
        <4>2. mem'[KernelAt + k] = [drive |-> Source, sector |-> u + (KernelAt + k) - slot]
              /\ KernelAt + k \in DOMAIN mem'
          BY <1>4, <4>1
        <4>3. QED
          BY <4>1, <4>2
      <3>3. \A k \in 0 .. (1 + n) - 1 : k \in 0 .. 1 - 1 \/ k \in 1 .. n
        BY <1>3
      <3>4. KernelHas(1 + Done)'
        BY <1>5, <2>3, <3>1, <3>2, <3>3 DEF KernelHas
      <3>5. QED
        BY <1>2, <1>3, <1>5, <3>1, <3>4
    <2>6. CASE d = Chunk
      <3>1. slot = KernelAt + Chunk /\ u = m.stage2 + 2 + Chunk /\ Done' = Chunk + n
        BY <1>2, <1>3, <1>5, <1>8, <1>15, <2>6
      <3>2. KernelAt + Chunk \in slot .. slot + n - 1 /\ u + (KernelAt + Chunk) - slot = m.stage2 + 2 + Chunk
        BY <1>2, <1>3, <1>8, <3>1 DEF KernelAt
      <3>3. mem'[KernelAt + Chunk] = [drive |-> Source, sector |-> u + (KernelAt + Chunk) - slot]
            /\ KernelAt + Chunk \in DOMAIN mem'
        BY <1>4, <3>2
      <3>4. Shifted'
        BY <1>5, <3>2, <3>3 DEF Shifted
      <3>5. QED
        BY <1>2, <1>3, <3>1, <3>4
    <2>7. CASE d > Chunk
      <3>1. Shifted
        BY <1>2, <2>1, <2>7
      <3>2. KernelAt + Chunk \notin slot .. slot + n - 1 /\ d + n > Chunk
        BY <1>2, <1>3, <1>15, <2>7 DEF KernelAt
      <3>3. Shifted'
        BY <1>4, <1>5, <3>1, <3>2 DEF Shifted
      <3>4. QED
        BY <1>5, <3>2, <3>3
    <2>8. QED
      BY <1>2, <2>1, <2>5, <2>6, <2>7
  <1>16. QED
    BY <1>3, <1>5, <1>6, <1>7, <1>9, <1>10, <1>11, <1>13, <1>14, <1>15

-----------------------------------------------------------------------------
(* The steps. *)

(* Whoever stops the loader has to say why only.                           *)
LEMMA Stops ==
  ASSUME pc' = "halt"
  PROVE  Asked' /\ Addressed' /\ Stage2Loaded' /\ KernelLoaded'
  BY DEF Asked, Addressed, Stage2Loaded, KernelLoaded, For, Loading, Later

(* As long as nothing is loaded what has been stays there.                 *)
LEMMA Same ==
  ASSUME UNCHANGED <<m, mem>>
  PROVE  /\ Stored => Stored'
         /\ \A n : (Stage2Has(n) => Stage2Has(n)') /\ (KernelHas(n) => KernelHas(n)')
         /\ Source' = Source /\ Chunk' = Chunk /\ Capacity' = Capacity /\ (Shifted => Shifted')
  BY DEF Stored, Capacity, Stage2Has, KernelHas, Source, Chunk, Shifted

(* The loader starts with nothing in memory.                               *)
LEMMA InitL == Init => LInv
  <1>1. SUFFICES ASSUME Init PROVE LInv
    OBVIOUS
  <1>2. Sane
    BY <1>1, Machine DEF Init
  <1>3. Types
    <2>1. 0 \in 0 .. m.cyls /\ 0 \in 0 .. m.heads - 1 /\ 1 \in 1 .. m.spt
      BY <1>2 DEF Sane
    <2>2. [c |-> 0, h |-> 0, s |-> 1] \in [c : 0 .. m.cyls, h : 0 .. m.heads - 1, s : 1 .. m.spt]
      BY <2>1
    <2>3. asked \in [first : Nat, n : Nat] /\ remaining \in 0 .. asked.n
      BY <1>1 DEF Init
    <2>4. QED
      BY <1>1, <2>2, <2>3 DEF Init, Types
  <1>4. DOMAIN mem = {}
    BY <1>1 DEF Init
  <1>5. Stored
    BY <1>4 DEF Stored
  <1>6. QED
    BY <1>1, <1>3, <1>5
    DEF Init, LInv, Asked, Addressed, Stage2Loaded, KernelLoaded, Halted, ProperReason, For, Loading, Later

(* load_sectors is called.                                                 *)
LEMMA Begun ==
  ASSUME LInv, NEW who \in {"rest", "header", "kernel"}, NEW n \in Nat \ {0},
         NEW first \in Nat, NEW segment \in Nat, NEW offset \in {0, 1},
         Load(who, n, first, segment, offset)
  PROVE  /\ Types' /\ Stored' /\ Addressed' /\ Halted' /\ UNCHANGED <<m, mem>>
         /\ pc' \in Loading /\ caller' = who /\ asked'.first = first /\ asked'.n = n
         /\ Done' = 0 /\ seg' = segment /\ off' = offset
  <1>1. /\ UNCHANGED <<m, mem, chs, knows, failed>> /\ caller' = who /\ remaining' = n
        /\ asked' = [first |-> first, n |-> n] /\ seg' = segment /\ off' = offset /\ lba' = first
        /\ pc' = IF m.lba THEN "lba" ELSE IF knows THEN "convert" ELSE "geometry"
    BY DEF Load
  <1>2. Done' = 0 /\ Unread' = first /\ n \in 0 .. n
    BY <1>1 DEF Done, Unread
  <1>3. pc' \in Loading
    BY <1>1 DEF Loading
  <1>4. Types'
    BY <1>1, <1>2, <1>3 DEF LInv, Types
  <1>5. Stored'
    BY <1>1, Same DEF LInv
  <1>6. Addressed'
    BY <1>1, <1>2 DEF Addressed
  <1>7. Halted'
    BY <1>1 DEF Halted, ProperReason
  <1>8. QED
    BY <1>1, <1>2, <1>3, <1>4, <1>5, <1>6, <1>7

(* stage2_entry: the rest of stage 2.                                      *)
LEMMA EntryStep == LInv /\ (EntryRest \/ EntryWhole) => LInv'
  <1>1. SUFFICES ASSUME LInv, EntryRest \/ EntryWhole PROVE LInv'
    OBVIOUS
  <1>2. Sane /\ m.stage2 \in Nat /\ Stage2Has(2)
    BY <1>1, Machine DEF LInv, Types, Stage2Loaded, EntryRest, EntryWhole, Sane
  <1>3. CASE EntryRest
    <2>1. m.stage2 - 2 \in Nat \ {0} /\ RestAt \in Nat
      BY <1>2, <1>3 DEF EntryRest, RestAt
    <2>2. /\ Types' /\ Stored' /\ Addressed' /\ Halted' /\ UNCHANGED <<m, mem>>
          /\ pc' \in Loading /\ caller' = "rest" /\ asked'.first = 3 /\ asked'.n = m.stage2 - 2
          /\ Done' = 0 /\ seg' = RestAt /\ off' = 0
      BY <1>1, <1>3, <2>1, Begun DEF EntryRest
    <2>3. Asked'
      BY <1>3, <2>2 DEF EntryRest, Asked, For, Loading, RestAt
    <2>4. Stage2Has(2)' /\ 2 + Done' = 2
      BY <1>2, <2>2, Same
    <2>5. Stage2Loaded' /\ KernelLoaded'
      BY <2>2, <2>4 DEF Stage2Loaded, KernelLoaded, For, Loading, Later
    <2>6. QED
      BY <2>2, <2>3, <2>5 DEF LInv
  <1>4. CASE EntryWhole
    <2>1. UNCHANGED <<m, mem, loadVars, failed>> /\ pc' = "mmap" /\ m.stage2 <= 2
      BY <1>4 DEF EntryWhole
    <2>2. Types'
      BY <1>1, <2>1 DEF LInv, Types, loadVars, Later
    <2>3. Stage2Has(m.stage2)
      BY <1>2, <2>1 DEF Stage2Has
    <2>4. Stored' /\ Stage2Has(m.stage2)'
      BY <1>1, <2>1, <2>3, Same DEF LInv
    <2>5. QED
      BY <2>1, <2>2, <2>4
      DEF LInv, Asked, Addressed, Stage2Loaded, KernelLoaded, Halted, ProperReason, For, Loading
  <1>5. QED
    BY <1>1, <1>3, <1>4

(* load_mmap                                                               *)
LEMMA MmapStep == LInv /\ LoadMmap => LInv'
  <1>1. SUFFICES ASSUME LInv, LoadMmap PROVE LInv'
    OBVIOUS
  <1>2. /\ UNCHANGED <<m, mem, loadVars>> /\ pc = "mmap"
        /\ \/ pc' = "first" /\ failed' = failed
           \/ pc' = "halt" /\ failed' = TRUE
    BY <1>1 DEF LoadMmap, Stop
  <1>3. Types'
    BY <1>1, <1>2 DEF LInv, Types, loadVars, Later
  <1>4. Stored' /\ Halted'
    BY <1>1, <1>2, Same DEF LInv, Halted, ProperReason
  <1>5. Stage2Has(m.stage2)'
    BY <1>1, <1>2, Same DEF LInv, Stage2Loaded, Later
  <1>6. Asked' /\ Addressed' /\ Stage2Loaded' /\ KernelLoaded'
    BY <1>2, <1>5 DEF Asked, Addressed, Stage2Loaded, KernelLoaded, For, Loading
  <1>7. QED
    BY <1>3, <1>4, <1>6 DEF LInv

(* load_sectors is called for the kernel's first sector.                   *)
LEMMA HeaderStep == LInv /\ LoadHeader => LInv'
  <1>1. SUFFICES ASSUME LInv, LoadHeader PROVE LInv'
    OBVIOUS
  <1>2. m.stage2 + 1 \in Nat /\ 1 \in Nat \ {0} /\ KernelAt \in Nat
    BY <1>1, Machine DEF LInv, Types, Sane, KernelAt
  <1>3. /\ Types' /\ Stored' /\ Addressed' /\ Halted' /\ UNCHANGED <<m, mem>>
        /\ pc' \in Loading /\ caller' = "header" /\ asked'.first = m.stage2 + 1 /\ asked'.n = 1
        /\ Done' = 0 /\ seg' = KernelAt /\ off' = 0
    BY <1>1, <1>2, Begun DEF LoadHeader
  <1>4. Asked'
    BY <1>3 DEF Asked, For, Loading, KernelAt
  <1>5. Stage2Has(m.stage2)'
    BY <1>1, <1>3, Same DEF LInv, Stage2Loaded, Later, LoadHeader
  <1>6. KernelHas(Done)'
    BY <1>3 DEF KernelHas
  <1>7. Stage2Loaded' /\ KernelLoaded'
    BY <1>3, <1>5, <1>6 DEF Stage2Loaded, KernelLoaded, For, Loading, Later
  <1>8. QED
    BY <1>3, <1>4, <1>7 DEF LInv

(* The header is checked: only a right one leads on.                       *)
LEMMA CheckStep == LInv /\ CheckHeader => LInv'
  <1>1. SUFFICES ASSUME LInv, CheckHeader PROVE LInv'
    OBVIOUS
  <1>2. /\ UNCHANGED <<m, mem, loadVars, failed>> /\ pc = "header" /\ Sane
        /\ IF HeaderRight /\ m.kernel - 1 < MaxKernel
           THEN pc' = IF m.kernel = 1 THEN "kernel" ELSE "rest"
           ELSE pc' = "halt"
    BY <1>1, Machine DEF CheckHeader, Stop, LInv, Types
  <1>3. Stage2Has(m.stage2) /\ KernelHas(1)
    BY <1>1, <1>2 DEF LInv, Stage2Loaded, KernelLoaded, Later
  <1>4. mem[KernelAt] = [drive |-> Source, sector |-> m.stage2 + 1 + 0]
    <2>1. 0 \in 0 .. 1 - 1 /\ KernelAt + 0 = KernelAt
      BY DEF KernelAt
    <2>2. mem[KernelAt + 0] = [drive |-> Source, sector |-> m.stage2 + 1 + 0]
      BY <1>3, <2>1 DEF KernelHas
    <2>3. QED
      BY <2>1, <2>2
  <1>5. HeaderRight <=> m.magicK = TRUE /\ Source = m.drive
    BY <1>4 DEF HeaderRight, KernelSector
  <1>6. Types'
    BY <1>1, <1>2 DEF LInv, Types, loadVars, Later
  <1>7. Stored' /\ Stage2Has(m.stage2)' /\ KernelHas(1)' /\ Source' = Source /\ Chunk' = Chunk
    BY <1>1, <1>2, <1>3, Same DEF LInv
  <1>8. CASE pc' = "halt"
    <2>1. ~HeaderRight \/ ~(m.kernel - 1 < MaxKernel)
      BY <1>2, <1>8
    <2>2. Halted'
      BY <1>2, <1>5, <2>1, LoaderAssumption DEF Halted, ProperReason, Bootable, Source, Sane
    <2>3. QED
      BY <1>6, <1>7, <1>8, <2>2, Stops DEF LInv
  <1>9. CASE pc' # "halt"
    <2>1. Source = m.drive /\ pc' = IF m.kernel = 1 THEN "kernel" ELSE "rest"
      BY <1>2, <1>5, <1>9
    <2>2. m.kernel = 1 => m.kernel - 1 <= Chunk
      BY <1>1, Machine DEF LInv, Types, Chunk
    <2>3. Asked' /\ Addressed' /\ Halted'
      BY <1>2, <2>1 DEF Asked, Addressed, Halted, ProperReason, For, Loading, Sane
    <2>4. Stage2Loaded'
      BY <1>7, <2>1 DEF Stage2Loaded, For, Loading
    <2>5. KernelLoaded'
      BY <1>2, <1>7, <2>1, <2>2 DEF KernelLoaded, For, Loading
    <2>6. QED
      BY <1>6, <1>7, <2>3, <2>4, <2>5 DEF LInv
  <1>10. QED
    BY <1>8, <1>9

(* load_sectors is called for the rest of the kernel.                      *)
LEMMA KernelStep == LInv /\ LoadKernel => LInv'
  <1>1. SUFFICES ASSUME LInv, LoadKernel PROVE LInv'
    OBVIOUS
  <1>2. /\ pc = "rest" /\ m.kernel > 1 /\ Source = m.drive /\ KernelHas(1) /\ Stage2Has(m.stage2)
        /\ Chunk \in Nat \ {0} /\ Sane
    BY <1>1, Machine DEF LoadKernel, LInv, Types, Asked, Stage2Loaded, KernelLoaded, Later, Chunk
  <1>3. m.stage2 + 2 \in Nat /\ m.kernel - 1 \in Nat \ {0} /\ KernelAt \in Nat
    BY <1>2 DEF Sane, KernelAt
  <1>4. /\ Types' /\ Stored' /\ Addressed' /\ Halted' /\ UNCHANGED <<m, mem>>
        /\ pc' \in Loading /\ caller' = "kernel" /\ asked'.first = m.stage2 + 2
        /\ asked'.n = m.kernel - 1 /\ Done' = 0 /\ seg' = KernelAt /\ off' = 1
    BY <1>1, <1>3, Begun DEF LoadKernel
  <1>5. Asked'
    BY <1>2, <1>4 DEF Asked, For, Loading, KernelAt
  <1>6. /\ Stage2Has(m.stage2)' /\ KernelHas(1)' /\ Source' = Source /\ Chunk' = Chunk
        /\ 1 + Done' = 1
    BY <1>2, <1>4, Same
  <1>7. Stage2Loaded' /\ KernelLoaded'
    BY <1>2, <1>4, <1>6 DEF Stage2Loaded, KernelLoaded, For, Loading, Later
  <1>8. QED
    BY <1>4, <1>5, <1>7 DEF LInv

(* chs_get_geometry                                                        *)
LEMMA GeometryStep == LInv /\ Geometry => LInv'
  <1>1. SUFFICES ASSUME LInv, Geometry PROVE LInv'
    OBVIOUS
  <1>2. /\ UNCHANGED <<m, mem, caller, remaining, seg, off, lba, chs, asked>> /\ pc = "geometry"
        /\ \/ pc' = "convert" /\ knows' = TRUE /\ failed' = failed
           \/ pc' = "halt" /\ failed' = TRUE /\ knows' = knows
    BY <1>1 DEF Geometry, Return
  <1>3. Types' /\ Stored' /\ Halted'
    BY <1>1, <1>2, Same DEF LInv, Types, Halted, ProperReason, Loading
  <1>4. CASE pc' = "halt"
    BY <1>3, <1>4, Stops DEF LInv
  <1>5. CASE pc' = "convert"
    <2>1. Done' = Done /\ For("rest") = For("rest")' /\ For("header") = For("header")'
          /\ For("kernel") = For("kernel")'
      BY <1>2, <1>5 DEF Done, For, Loading
    <2>2. Asked'
      BY <1>1, <1>2, <1>5, <2>1 DEF LInv, Asked
    <2>3. Addressed'
      BY <1>1, <1>2, <1>5 DEF LInv, Addressed
    <2>4. Stage2Loaded'
      BY <1>1, <1>2, <1>5, <2>1, Same DEF LInv, Stage2Loaded, Later
    <2>5. KernelLoaded'
      BY <1>1, <1>2, <1>5, <2>1, Same DEF LInv, KernelLoaded
    <2>6. QED
      BY <1>3, <2>2, <2>3, <2>4, <2>5 DEF LInv
  <1>6. QED
    BY <1>2, <1>4, <1>5

(* What a load asks for lies in the image, and so on the disk.             *)
LEMMA OnDisk ==
  ASSUME LInv, pc \in Loading
  PROVE  /\ asked.first \in Nat /\ asked.n \in Nat /\ asked.first + asked.n <= Capacity
         /\ asked.first + asked.n <= 1 + m.stage2 + m.kernel
  <1>1. Sane /\ Capacity \in Nat /\ asked.first \in Nat /\ asked.n \in Nat
    BY Machine DEF LInv, Types
  <1>2. m.stage2 \in Nat \ {0} /\ m.kernel \in Nat \ {0} /\ 1 + m.stage2 + m.kernel <= Capacity
    BY <1>1 DEF Sane
  <1>3. \/ asked.first = 3 /\ asked.n = m.stage2 - 2
        \/ asked.first = m.stage2 + 1 /\ asked.n = 1
        \/ asked.first = m.stage2 + 2 /\ asked.n = m.kernel - 1
    BY DEF LInv, Types, Asked, For
  <1>4. QED
    BY <1>1, <1>2, <1>3

(* load_sectors_chs_lba_to_chs, or the division by zero.                   *)
LEMMA ConvertStep == LInv /\ Convert => LInv'
  <1>1. SUFFICES ASSUME LInv, Convert PROVE LInv'
    OBVIOUS
  <1>2. /\ UNCHANGED <<m, mem, caller, remaining, seg, off, lba, knows, asked, failed>>
        /\ pc = "convert" /\ m \in Machines /\ Sane
        /\ IF Heads = 0 THEN pc' = "divide" /\ chs' = chs ELSE pc' = "chs" /\ chs' = ToChs(lba)
    BY <1>1, Machine DEF Convert, LInv, Types
  <1>3. ~m.lba /\ lba = asked.first /\ remaining = asked.n
    BY <1>1, <1>2 DEF LInv, Addressed
  <1>4. Byte \in Nat /\ m.heads \in 1 .. Byte
    BY <1>2, LoaderAssumption DEF Sane
  <1>5. CASE Heads = 0
    <2>1. m.heads = Byte
      BY <1>2, <1>4, <1>5, HeadsKept
    <2>2. Types' /\ Stored' /\ Halted'
      BY <1>1, <1>2, <1>5, Same DEF LInv, Types, Halted, ProperReason
    <2>3. Asked' /\ Addressed' /\ Stage2Loaded' /\ KernelLoaded'
      BY <1>2, <1>3, <1>5, <2>1
      DEF Asked, Addressed, Stage2Loaded, KernelLoaded, For, Loading, Later
    <2>4. QED
      BY <2>2, <2>3 DEF LInv
  <1>6. CASE Heads # 0
    <2>1. m.heads < Byte
      BY <1>2, <1>4, <1>6, HeadsKept
    <2>2. lba \in Nat /\ lba < Capacity
      <3>1. asked.n \in Nat \ {0} /\ asked.first + asked.n <= Capacity /\ asked.first \in Nat
            /\ Capacity \in Nat
        BY <1>1, <1>2, OnDisk, Machine DEF LInv, Types, Asked, For, Loading, Sane
      <3>2. QED
        BY <1>3, <3>1
    <2>3. /\ chs' \in [c : 0 .. m.cyls, h : 0 .. m.heads - 1, s : 1 .. m.spt]
          /\ chs'.c < m.cyls /\ LbaOf(chs') = lba
      BY <1>2, <1>6, <2>1, <2>2, Converted
    <2>4. Types' /\ Stored' /\ Halted'
      BY <1>1, <1>2, <1>6, <2>3, Same DEF LInv, Types, Halted, ProperReason, Loading
    <2>5. Done' = Done /\ For("rest") = For("rest")' /\ For("header") = For("header")'
          /\ For("kernel") = For("kernel")'
      BY <1>2, <1>6 DEF Done, For, Loading
    <2>6. Asked'
      BY <1>1, <1>2, <1>6, <2>5 DEF LInv, Asked
    <2>7. Addressed'
      <3>1. Unread' = lba /\ LbaOf(chs)' = LbaOf(chs')
        BY <1>1, <1>2, <1>3 DEF Unread, LbaOf, LInv, Types
      <3>2. QED
        BY <1>2, <1>3, <1>6, <2>1, <2>3, <3>1 DEF Addressed
    <2>8. Stage2Loaded'
      BY <1>1, <1>2, <1>6, <2>5, Same DEF LInv, Stage2Loaded, Later
    <2>9. KernelLoaded'
      BY <1>1, <1>2, <1>6, <2>5, Same DEF LInv, KernelLoaded
    <2>10. QED
      BY <2>4, <2>6, <2>7, <2>8, <2>9 DEF LInv
  <1>7. QED
    BY <1>5, <1>6

(* load_sectors_lba, one extended read.                                    *)
LEMMA LbaStep == LInv /\ LbaRead => LInv'
  <1>1. SUFFICES ASSUME LInv, LbaRead PROVE LInv'
    OBVIOUS
  <1> DEFINE n == Min({Batch, remaining})
  <1>2. /\ pc = "lba" /\ remaining > 0 /\ UNCHANGED <<m, caller, chs, knows, asked>>
        /\ \/ /\ Read(m.drive, lba, n, seg + off)
              /\ remaining' = remaining - n /\ lba' = lba + n /\ seg' = seg + n /\ off' = 0
              /\ pc' = pc
           \/ /\ failed' = TRUE /\ mem' = mem /\ pc' = "halt"
              /\ UNCHANGED <<remaining, seg, off, lba>>
    BY <1>1 DEF LbaRead, ReadError, Return
  <1>3. /\ m.lba /\ lba = Unread /\ Source = m.drive /\ Chunk = Batch /\ pc \in Loading
        /\ remaining \in Nat \ {0} /\ Batch \in Nat \ {0} /\ Unread \in Nat
    BY <1>1, <1>2, UnderWay, Machine DEF LInv, Types, Addressed, Source, Chunk, Loading
  <1>4. n = IF Batch <= remaining THEN Batch ELSE remaining
    BY <1>3, Smaller
  <1> HIDE DEF n
  <1>5. CASE Read(m.drive, lba, n, seg + off) /\ pc' = pc
    <2>1. /\ remaining' = remaining - n /\ lba' = lba + n /\ seg' = seg + n /\ off' = 0
          /\ failed' = failed
      BY <1>2, <1>5 DEF Read
    <2>2. Arrive(n)
      BY <1>2, <1>3, <1>4, <1>5, <2>1 DEF Arrive, Read, Capacity
    <2>3. /\ m' \in Machines /\ remaining' \in 0 .. asked.n /\ seg' \in Nat /\ off' = 0
          /\ n \in 1 .. remaining
          /\ Stored' /\ Asked' /\ Stage2Loaded' /\ KernelLoaded'
      BY <1>1, <1>2, <1>5, <2>2, Arrived
    <2>4. Types'
      BY <1>1, <1>2, <1>3, <1>5, <2>1, <2>3 DEF LInv, Types
    <2>5. Unread' = Unread + n
      <3>1. asked.first \in Nat /\ asked.n \in Nat
        BY <1>1 DEF LInv, Types
      <3>2. QED
        BY <1>2, <1>3, <2>1, <2>3, <3>1 DEF Unread
    <2>6. Addressed' /\ Halted'
      BY <1>2, <1>3, <1>5, <2>1, <2>5 DEF Addressed, Halted, ProperReason
    <2>7. QED
      BY <2>3, <2>4, <2>6 DEF LInv
  <1>6. CASE failed' = TRUE /\ mem' = mem /\ pc' = "halt" /\ UNCHANGED <<remaining, seg, off, lba>>
    <2>1. Types' /\ Stored' /\ Halted'
      BY <1>1, <1>2, <1>6, Same DEF LInv, Types, Halted, ProperReason
    <2>2. QED
      BY <1>6, <2>1, Stops DEF LInv
  <1>7. QED
    BY <1>2, <1>5, <1>6

(* load_sectors_chs, one sector; behind the last one of the disk the load  *)
(* fails, which it does only if the disk ends with what was asked for.     *)
LEMMA ChsStep == LInv /\ ChsRead => LInv'
  <1>1. SUFFICES ASSUME LInv, ChsRead PROVE LInv'
    OBVIOUS
  <1>2. /\ pc = "chs" /\ remaining > 0 /\ UNCHANGED <<m, caller, lba, knows, asked>>
        /\ \/ /\ Read(0, LbaOf(chs), 1, seg + off)
              /\ remaining' = remaining - 1 /\ seg' = seg + 1 /\ off' = 0 /\ chs' = ChsNext(chs)
              /\ pc' = IF ChsNext(chs).c < m.cyls THEN "chs" ELSE "halt"
           \/ /\ failed' = TRUE /\ mem' = mem /\ pc' = "halt"
              /\ UNCHANGED <<remaining, seg, off, chs>>
    BY <1>1 DEF ChsRead, ReadError, Return
  <1>3. /\ ~m.lba /\ LbaOf(chs) = Unread /\ m.heads < Byte /\ chs.c < m.cyls
        /\ Source = 0 /\ Chunk = 1 /\ pc \in Loading
        /\ remaining \in Nat \ {0} /\ Unread \in Nat /\ m \in Machines
        /\ chs \in [c : 0 .. m.cyls, h : 0 .. m.heads - 1, s : 1 .. m.spt]
    BY <1>1, <1>2, UnderWay DEF LInv, Types, Addressed, Source, Chunk, Loading
  <1>4. /\ ChsNext(chs) \in [c : 0 .. m.cyls, h : 0 .. m.heads - 1, s : 1 .. m.spt]
        /\ LbaOf(ChsNext(chs)) = Unread + 1
        /\ ~(ChsNext(chs).c < m.cyls) => LbaOf(ChsNext(chs)) = Capacity
    BY <1>3, Carried
  <1>5. CASE Read(0, LbaOf(chs), 1, seg + off) /\ chs' = ChsNext(chs)
    <2>1. /\ remaining' = remaining - 1 /\ seg' = seg + 1 /\ off' = 0 /\ failed' = failed
          /\ pc' = IF ChsNext(chs).c < m.cyls THEN "chs" ELSE "halt"
      <3>1. chs' # chs
        BY <1>3, <1>4, <1>5
      <3>2. QED
        BY <1>2, <1>5, <3>1 DEF Read
    <2>2. Arrive(1)
      BY <1>2, <1>3, <1>5, <2>1 DEF Arrive, Read, Capacity
    <2>3. /\ m' \in Machines /\ remaining' \in 0 .. asked.n /\ seg' \in Nat /\ off' = 0
          /\ Stored' /\ Asked' /\ Stage2Loaded' /\ KernelLoaded'
      BY <1>1, <1>2, <2>1, <2>2, Arrived
    <2>4. Types'
      BY <1>1, <1>2, <1>3, <1>4, <1>5, <2>1, <2>3 DEF LInv, Types, Loading
    <2>5. Unread' = Unread + 1 /\ LbaOf(chs)' = LbaOf(chs')
      <3>1. asked.first \in Nat /\ asked.n \in Nat
        BY <1>1 DEF LInv, Types
      <3>2. QED
        BY <1>2, <1>3, <2>1, <3>1 DEF Unread, LbaOf
    <2>6. Addressed'
      BY <1>2, <1>3, <1>4, <1>5, <2>1, <2>5 DEF Addressed
    <2>7. Halted'
      <3>1. SUFFICES ASSUME ~(ChsNext(chs).c < m.cyls) PROVE ~Bootable
        BY <1>2, <2>1 DEF Halted, Bootable, Capacity
      <3>2. Unread + 1 = Capacity
        BY <1>4, <3>1
      <3>3. /\ asked.first \in Nat /\ asked.n \in Nat /\ asked.first + asked.n <= Capacity
            /\ asked.first + asked.n <= 1 + m.stage2 + m.kernel
        BY <1>1, <1>3, OnDisk
      <3>4. Capacity \in Nat /\ m.stage2 \in Nat /\ m.kernel \in Nat
        BY <1>3, Machine DEF Sane
      <3>5. Capacity <= 1 + m.stage2 + m.kernel
        BY <1>3, <3>2, <3>3, <3>4 DEF Unread
      <3>6. QED
        BY <1>3, <3>4, <3>5 DEF Bootable
    <2>8. QED
      BY <2>3, <2>4, <2>6, <2>7 DEF LInv
  <1>6. CASE failed' = TRUE /\ mem' = mem /\ pc' = "halt" /\ UNCHANGED <<remaining, seg, off, chs>>
    <2>1. Types' /\ Stored' /\ Halted'
      BY <1>1, <1>2, <1>6, Same DEF LInv, Types, Halted, ProperReason
    <2>2. QED
      BY <1>6, <2>1, Stops DEF LInv
  <1>7. QED
    BY <1>2, <1>5, <1>6

(* load_sectors returns.                                                   *)
LEMMA DoneStep == LInv /\ LoadDone => LInv'
  <1>1. SUFFICES ASSUME LInv, LoadDone PROVE LInv'
    OBVIOUS
  <1>2. /\ UNCHANGED <<m, mem, loadVars, failed>> /\ pc \in Loading /\ remaining = 0
        /\ caller \in {"rest", "header", "kernel"}
        /\ pc' = IF caller = "rest" THEN "mmap" ELSE caller
    BY <1>1 DEF LoadDone, Return, Loading, LInv, Types
  <1>3. Sane /\ Chunk \in Nat \ {0} /\ m.kernel \in Nat /\ m.stage2 \in Nat
        /\ asked.n \in Nat /\ Done = asked.n
    BY <1>1, <1>2, Machine DEF LInv, Types, Sane, Chunk, Done
  <1>4. Types'
    BY <1>1, <1>2 DEF LInv, Types, loadVars, Later
  <1>5. /\ Stored' /\ Source' = Source /\ Chunk' = Chunk /\ (Shifted => Shifted')
        /\ \A n : (Stage2Has(n) => Stage2Has(n)') /\ (KernelHas(n) => KernelHas(n)')
    BY <1>1, <1>2, Same DEF LInv
  <1>6. Asked' /\ Addressed' /\ Halted'
    BY <1>2 DEF Asked, Addressed, Halted, ProperReason, For, Loading
  <1>7. Stage2Has(m.stage2)
    <2>1. CASE caller = "rest"
      <3>1. Stage2Has(2 + Done) /\ 2 + Done = m.stage2
        BY <1>1, <1>2, <1>3, <2>1 DEF LInv, Stage2Loaded, Asked, For
      <3>2. QED
        BY <3>1
    <2>2. CASE caller # "rest"
      BY <1>1, <1>2, <2>2 DEF LInv, Stage2Loaded, For
    <2>3. QED
      BY <2>1, <2>2
  <1>8. Stage2Loaded'
    BY <1>2, <1>5, <1>7 DEF Stage2Loaded, For, Loading
  <1>9. KernelLoaded'
    <2>1. CASE caller = "rest"
      BY <1>2, <2>1 DEF KernelLoaded, For, Loading
    <2>2. CASE caller = "header"
      <3>1. KernelHas(Done) /\ Done = 1
        BY <1>1, <1>2, <1>3, <2>2 DEF LInv, KernelLoaded, Asked, For
      <3>2. KernelHas(1)'
        BY <1>5, <3>1
      <3>3. QED
        BY <1>2, <2>2, <3>2 DEF KernelLoaded, For, Loading
    <2>3. CASE caller = "kernel"
      <3>1. /\ Source = m.drive /\ Done = m.kernel - 1
            /\ \/ Done <= Chunk /\ KernelHas(1 + Done)
               \/ Done > Chunk /\ Shifted
        BY <1>1, <1>2, <1>3, <2>3 DEF LInv, KernelLoaded, Asked, For
      <3>2. 1 + Done = m.kernel
        BY <1>3, <3>1
      <3>3. IF m.kernel - 1 <= Chunk THEN KernelHas(m.kernel) ELSE Shifted
        BY <1>3, <3>1, <3>2
      <3>4. QED
        BY <1>2, <1>5, <2>3, <3>1, <3>3 DEF KernelLoaded, For, Loading
    <2>4. QED
      BY <1>2, <2>1, <2>2, <2>3
  <1>10. QED
    BY <1>4, <1>5, <1>6, <1>8, <1>9 DEF LInv

(* stage 1                                                                 *)
LEMMA Stage1Step == LInv /\ Stage1 => LInv'
  <1>1. SUFFICES ASSUME LInv, Stage1 PROVE LInv'
    OBVIOUS
  <1> DEFINE first == IF m.lba THEN 1 ELSE LbaOf([c |-> 0, h |-> 0, s |-> 2])
  <1>2. /\ pc = "stage1" /\ UNCHANGED <<m, loadVars>> /\ Sane /\ Capacity \in Nat
        /\ \/ Read(m.drive, first, 2, Stage2At) /\ pc' = IF m.magic2 THEN "entry" ELSE "halt"
           \/ failed' = TRUE /\ mem' = mem /\ pc' = "halt"
    BY <1>1, Machine DEF Stage1, Stop, ReadError, LInv, Types
  <1>3. first = 1
    BY <1>2 DEF LbaOf, Sane
  <1> HIDE DEF first
  <1>4. Types'
    BY <1>1, <1>2 DEF LInv, Types, loadVars, Read
  <1>5. CASE Read(m.drive, first, 2, Stage2At) /\ pc' = IF m.magic2 THEN "entry" ELSE "halt"
    <2>1. Transfer(m.drive, 1, 2, Stage2At) /\ 1 + 2 <= Capacity
      BY <1>3, <1>5 DEF Read, Capacity
    <2>2. Stored'
      BY <1>1, <1>2, <2>1, StoredStill DEF LInv, Sane, Stage2At
    <2>3. /\ 63 \in DOMAIN mem' /\ mem'[63] = [drive |-> m.drive, sector |-> 1 + 63 - 63]
          /\ 64 \in DOMAIN mem' /\ mem'[64] = [drive |-> m.drive, sector |-> 1 + 64 - 63]
      BY <2>1 DEF Transfer, Stage2At
    <2>4. Stage2Has(2)'
      <3>1. \A k \in 0 .. 2 - 1 : (k = 0 \/ k = 1) /\ k < 2
        OBVIOUS
      <3>2. Stage2At + 0 = 63 /\ Stage2At + 1 = 64
        BY DEF Stage2At
      <3>3. mem'[63] = [drive |-> m.drive, sector |-> 1 + 0]
            /\ mem'[64] = [drive |-> m.drive, sector |-> 1 + 1]
        BY <2>3
      <3>4. QED
        BY <1>2, <2>3, <3>1, <3>2, <3>3 DEF Stage2Has
    <2>5. CASE m.magic2
      <3>1. pc' = "entry"
        BY <1>5, <2>5
      <3>2. Asked' /\ Addressed' /\ Stage2Loaded' /\ KernelLoaded' /\ Halted'
        BY <2>4, <3>1
        DEF Asked, Addressed, Stage2Loaded, KernelLoaded, Halted, ProperReason, For, Loading, Later
      <3>3. QED
        BY <1>4, <2>2, <3>2 DEF LInv
    <2>6. CASE ~m.magic2
      <3>1. pc' = "halt"
        BY <1>5, <2>6
      <3>2. Halted'
        BY <1>2, <2>6 DEF Halted, ProperReason
      <3>3. QED
        BY <1>4, <2>2, <3>1, <3>2, Stops DEF LInv
    <2>7. QED
      BY <2>5, <2>6
  <1>6. CASE failed' = TRUE /\ mem' = mem /\ pc' = "halt"
    <2>1. Stored' /\ Halted'
      BY <1>1, <1>2, <1>6, Same DEF LInv, Halted, ProperReason
    <2>2. QED
      BY <1>4, <1>6, <2>1, Stops DEF LInv
  <1>7. QED
    BY <1>2, <1>5, <1>6

(* Nothing changes.                                                        *)
LEMMA StutterL == LInv /\ UNCHANGED vars => LInv'
  BY DEF LInv, Types, Stored, Asked, Addressed, Stage2Loaded, KernelLoaded, Halted, ProperReason,
         Bootable, For, Done, Unread, Source, Chunk, Stage2Has, KernelHas, Shifted, LbaOf, Capacity, vars

(* Every step of both stages preserves the invariant.                      *)
LEMMA StepL == LInv /\ [Next]_vars => LInv'
  BY Stage1Step, EntryStep, MmapStep, HeaderStep, CheckStep, KernelStep, GeometryStep,
     ConvertStep, LbaStep, ChsStep, DoneStep, StutterL
  DEF Next

(* What was checked stays checked; the step that enters the kernel has     *)
(* passed every check, and stopped before the end of the disk.             *)
LEMMA PassedStep == LInv /\ Passed /\ [Next]_vars => Passed'
  <1>1. SUFFICES ASSUME LInv, Passed, [Next]_vars PROVE Passed'
    OBVIOUS
  <1>2. Sane /\ Capacity \in Nat /\ m \in Machines
    BY <1>1, Machine DEF LInv, Types
  <1>3. CASE Stage1
    BY <1>1, <1>3 DEF Stage1, Stop, Read, ReadError, Passed, For, Loading
  <1>4. CASE EntryRest \/ LoadHeader \/ LoadKernel
    <2>1. /\ UNCHANGED <<m, failed>> /\ pc \in {"entry", "first", "rest"}
          /\ pc' \in {"lba", "convert", "geometry"} /\ (caller' = "kernel" => pc = "rest")
      BY <1>4 DEF EntryRest, LoadHeader, LoadKernel, Load
    <2>2. QED
      BY <1>1, <2>1 DEF Passed, For, Loading
  <1>5. CASE EntryWhole
    BY <1>1, <1>5 DEF EntryWhole, Passed, For, Loading
  <1>6. CASE LoadMmap
    BY <1>1, <1>6 DEF LoadMmap, Stop, Passed, For, Loading
  <1>7. CASE CheckHeader
    <2>1. /\ UNCHANGED <<m, failed>> /\ pc = "header"
          /\ \/ /\ m.magicK /\ m.kernel - 1 < MaxKernel
                /\ pc' = IF m.kernel = 1 THEN "kernel" ELSE "rest"
             \/ pc' = "halt"
      BY <1>7 DEF CheckHeader, HeaderRight, Stop
    <2>2. Capacity' = Capacity /\ (m.lba \/ m.stage2 + 2 < Capacity) /\ m.stage2 \in Nat
      BY <1>1, <1>2, <2>1 DEF Passed, Capacity, Sane
    <2>3. m.kernel = 1 => m.lba \/ 1 + m.stage2 + m.kernel < Capacity
      BY <1>2, <2>2
    <2>4. QED
      BY <1>1, <2>1, <2>2, <2>3 DEF Passed, For, Loading
  <1>8. CASE Geometry
    BY <1>1, <1>8 DEF Geometry, Return, Passed, For, Loading
  <1>9. CASE Convert
    BY <1>1, <1>9 DEF Convert, Passed, For, Loading
  <1>10. CASE LbaRead
    BY <1>1, <1>10 DEF LbaRead, Read, ReadError, Return, Passed, For, Loading
  <1>11. CASE ChsRead
    BY <1>1, <1>11 DEF ChsRead, Read, ReadError, Return, Passed, For, Loading
  <1>12. CASE LoadDone
    <2>1. /\ UNCHANGED <<m, caller, failed>> /\ pc \in {"lba", "chs"} /\ remaining = 0
          /\ caller \in {"rest", "header", "kernel"} /\ pc \in Loading
          /\ pc' = IF caller = "rest" THEN "mmap" ELSE caller
      BY <1>1, <1>12 DEF LoadDone, loadVars, Return, LInv, Types, Loading
    <2>2. m.lba \/ (m.heads < Byte /\ asked.first + asked.n < Capacity)
      <3>1. SUFFICES ASSUME ~m.lba PROVE m.heads < Byte /\ asked.first + asked.n < Capacity
        OBVIOUS
      <3>2. /\ m.heads < Byte /\ chs.c < m.cyls /\ LbaOf(chs) = Unread
            /\ chs \in [c : 0 .. m.cyls, h : 0 .. m.heads - 1, s : 1 .. m.spt]
            /\ asked.first \in Nat /\ asked.n \in Nat
        BY <1>1, <2>1, <3>1 DEF LInv, Types, Addressed
      <3>3. Unread = asked.first + asked.n
        BY <2>1, <3>2 DEF Unread
      <3>4. QED
        BY <1>2, <3>2, <3>3, Within
    <2>3. m.stage2 \in Nat /\ m.kernel \in Nat /\ Capacity' = Capacity
      BY <1>2, <2>1 DEF Sane, Capacity
    <2>4. CASE caller = "rest"
      BY <1>1, <2>1, <2>4 DEF Passed, For, Loading
    <2>5. CASE caller = "header"
      <3>1. m.lba \/ (m.heads < Byte /\ m.stage2 + 2 < Capacity)
        BY <1>1, <2>1, <2>2, <2>3, <2>5 DEF LInv, Asked, For
      <3>2. QED
        BY <1>1, <2>1, <2>3, <2>5, <3>1 DEF Passed, For, Loading
    <2>6. CASE caller = "kernel"
      <3>1. m.lba \/ 1 + m.stage2 + m.kernel < Capacity
        BY <1>1, <2>1, <2>2, <2>3, <2>6 DEF LInv, Asked, For
      <3>2. QED
        BY <1>1, <2>1, <2>3, <2>6, <3>1 DEF Passed, For, Loading
    <2>7. QED
      BY <2>1, <2>4, <2>5, <2>6
  <1>13. CASE UNCHANGED vars
    BY <1>1, <1>13 DEF vars, Passed, For, Capacity
  <1>14. QED
    BY <1>1, <1>3, <1>4, <1>5, <1>6, <1>7, <1>8, <1>9, <1>10, <1>11, <1>12, <1>13 DEF Next

-----------------------------------------------------------------------------
(* The inductive invariant: what is in memory at each step of the loader,  *)
(* and where it will read next.                                            *)
THEOREM LoaderInvariance == Spec => []LInv
  BY InitL, StepL, PTL DEF Spec

(* Every variable of the loader keeps its type: the cylinder, head and     *)
(* sector it asks for exist, and a slot of memory holds a disk's sector.   *)
THEOREM LoaderTypeCorrect == Spec => []TypeOK
  <1>1. LInv => TypeOK
    BY DEF LInv, Types, Stored, TypeOK, Loading, Later
  <1>2. QED
    BY <1>1, LoaderInvariance, PTL

(* Both ways of reading go through the disk sector by sector, over the     *)
(* ends of tracks and cylinders, for every geometry (load_sectors).        *)
THEOREM ReadsFollow == Spec => []ReadsInOrder
  <1>1. LInv => ReadsInOrder
    BY DEF LInv, Addressed, ReadsInOrder, Unread
  <1>2. QED
    BY <1>1, LoaderInvariance, PTL

(* stage2_entry goes on only with all of stage 2 in memory.                *)
THEOREM Stage2Whole == Spec => []Stage2Complete
  <1>1. LInv => Stage2Complete
    <2>1. SUFFICES ASSUME LInv, pc \in Later, m.lba \/ m.drive = 0
                   PROVE  \A k \in 0 .. m.stage2 - 1 :
                            /\ Stage2At + k \in DOMAIN mem
                            /\ mem[Stage2At + k] = [drive |-> m.drive, sector |-> 1 + k]
      BY DEF Stage2Complete, Later
    <2>2. Stage2Has(m.stage2) /\ Source = m.drive
      BY <2>1 DEF LInv, Stage2Loaded, Source
    <2>3. QED
      BY <2>2 DEF Stage2Has
  <1>2. QED
    BY <1>1, LoaderInvariance, PTL

(* The kernel that is entered is whole if one read brought in all that     *)
(* follows its header, and only then: the second read of a larger one goes *)
(* a sector too low (load_sectors_lba, load_sectors_chs).                  *)
THEOREM OneReadOnly == Spec => []KernelWholeIfOneRead
  <1>1. LInv => KernelWholeIfOneRead
    <2>1. SUFFICES ASSUME LInv, pc = "kernel"
                   PROVE  KernelWhole <=> m.kernel - 1 <= Chunk
      BY DEF KernelWholeIfOneRead, Chunk
    <2>2. /\ Source = m.drive /\ Chunk \in Nat /\ m.kernel \in Nat /\ m.stage2 \in Nat
          /\ IF m.kernel - 1 <= Chunk THEN KernelHas(m.kernel) ELSE Shifted
      BY <2>1, Machine DEF LInv, Types, KernelLoaded, Sane, Chunk
    <2>3. ASSUME m.kernel - 1 <= Chunk PROVE KernelWhole
      BY <2>2, <2>3 DEF KernelHas, KernelWhole, KernelSector
    <2>4. ASSUME ~(m.kernel - 1 <= Chunk), KernelWhole PROVE FALSE
      <3>1. Chunk \in 0 .. m.kernel - 1
        BY <2>2, <2>4
      <3>2. mem[KernelAt + Chunk] = [drive |-> m.drive, sector |-> m.stage2 + 1 + Chunk]
        BY <2>4, <3>1 DEF KernelWhole, KernelSector
      <3>3. m.stage2 + 2 + Chunk = m.stage2 + 1 + Chunk
        BY <2>2, <2>4, <3>2 DEF Shifted
      <3>4. QED
        BY <2>2, <3>3
    <2>5. QED
      BY <2>3, <2>4
  <1>2. QED
    BY <1>1, LoaderInvariance, PTL

(* Where the loader can get through it stops only for a proper reason, and *)
(* it enters the kernel only there and past every check; it divides by     *)
(* zero only on a disk with 256 heads (load_sectors_chs).                  *)
THEOREM BootsOrTells == Spec => []BootsWhereItCan
  <1>1. Init => Passed
    BY DEF Init, Passed, For, Loading
  <1>2. LInv /\ Passed => BootsWhereItCan
    <2>1. SUFFICES ASSUME LInv, Passed PROVE BootsWhereItCan
      OBVIOUS
    <2>2. ASSUME pc = "kernel" PROVE Bootable /\ ~ProperReason
      <3>1. /\ Source = m.drive /\ ~failed /\ m.magic2 /\ m.magicK /\ m.kernel - 1 < MaxKernel
            /\ m.lba \/ (m.heads < Byte /\ 1 + m.stage2 + m.kernel < Capacity)
        BY <2>1, <2>2 DEF LInv, KernelLoaded, Passed
      <3>2. m.kernel \in Nat /\ MaxKernel \in Nat
        BY <2>1, Machine, LoaderAssumption DEF LInv, Types, Sane
      <3>3. QED
        BY <3>1, <3>2 DEF Bootable, ProperReason, Source
    <2>3. QED
      BY <2>1, <2>2 DEF LInv, Halted, Addressed, BootsWhereItCan
  <1>3. QED
    BY <1>1, <1>2, PassedStep, LoaderInvariance, PTL DEF Spec
=============================================================================
