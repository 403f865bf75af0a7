-------------------------- MODULE SchedulerProofs --------------------------
(***************************************************************************)
(* Proofs about Scheduler, for every number of processes, every set of     *)
(* them that returns, and every quantum.                                   *)
(***************************************************************************)
EXTENDS Scheduler, SequenceTheorems, TLAPS

-----------------------------------------------------------------------------
(* Sequences without repetition, and what the list's functions do to them. *)
Distinct(S, s) == s \in Seq(S) /\ \A a, b \in 1 .. Len(s) : s[a] = s[b] => a = b

(* What ToSet says of a sequence. *)
LEMMA Elements ==
  ASSUME NEW S, NEW s \in Seq(S)
  PROVE  /\ ToSet(s) = {s[i] : i \in 1 .. Len(s)} /\ ToSet(s) \subseteq S
         /\ DOMAIN s = 1 .. Len(s) /\ Len(s) \in Nat
  BY DEF ToSet

(* An element put in at position k.                                        *)
LEMMA Inserted ==
  ASSUME NEW S, NEW s, Distinct(S, s), NEW e \in S, e \notin ToSet(s),
         NEW k \in 1 .. Len(s) + 1
  PROVE  /\ Distinct(S, InsertAt(s, k, e)) /\ Len(InsertAt(s, k, e)) = Len(s) + 1
         /\ ToSet(InsertAt(s, k, e)) = ToSet(s) \cup {e}
  <1> DEFINE n == Len(s)  u == SubSeq(s, 1, k - 1)  v == SubSeq(s, k, n)
             w == <<e>>  t == (u \o w) \o v
  <1>1. s \in Seq(S) /\ n \in Nat /\ k \in 1 .. n + 1 /\ \A i \in 1 .. n : s[i] \in S
    BY DEF Distinct
  <1>2. u \in Seq(S) /\ Len(u) = k - 1 /\ \A i \in 1 .. k - 1 : u[i] = s[i]
    <2> HIDE DEF n
    <2>1. \A i \in 1 .. k - 1 : s[i] \in S
      BY <1>1
    <2>2. /\ u \in Seq(S) /\ Len(u) = (IF 1 <= k - 1 THEN k - 1 - 1 + 1 ELSE 0)
          /\ \A i \in 1 .. k - 1 - 1 + 1 : u[i] = s[1 + i - 1]
      BY <1>1, <2>1, SubSeqProperties
    <2> HIDE DEF u
    <2>3. QED
      BY <1>1, <2>2
  <1>3. v \in Seq(S) /\ Len(v) = n - k + 1 /\ \A i \in 1 .. n - k + 1 : v[i] = s[k + i - 1]
    <2> HIDE DEF n
    <2>1. \A i \in k .. n : s[i] \in S
      BY <1>1
    <2>2. /\ v \in Seq(S) /\ Len(v) = (IF k <= n THEN n - k + 1 ELSE 0)
          /\ \A i \in 1 .. n - k + 1 : v[i] = s[k + i - 1]
      BY <1>1, <2>1, SubSeqProperties
    <2> HIDE DEF v
    <2>3. QED
      BY <1>1, <2>2
  <1>4. w \in Seq(S) /\ Len(w) = 1 /\ w[1] = e
    OBVIOUS
  <1>5. InsertAt(s, k, e) = t
    BY DEF InsertAt
  <1> HIDE DEF u, v, w, n
  <1>6. /\ u \o w \in Seq(S) /\ Len(u \o w) = k
        /\ \A i \in 1 .. k : (u \o w)[i] = IF i <= k - 1 THEN s[i] ELSE e
    <2>1. /\ u \o w \in Seq(S) /\ Len(u \o w) = Len(u) + Len(w)
          /\ \A i \in 1 .. Len(u) + Len(w) : (u \o w)[i] = IF i <= Len(u) THEN u[i] ELSE w[i - Len(u)]
      BY <1>2, <1>4, ConcatProperties
    <2>2. QED
      BY <1>1, <1>2, <1>4, <2>1
  <1>7. /\ t \in Seq(S) /\ Len(t) = n + 1
        /\ \A i \in 1 .. n + 1 : t[i] = IF i < k THEN s[i] ELSE IF i = k THEN e ELSE s[i - 1]
    <2>1. /\ t \in Seq(S) /\ Len(t) = Len(u \o w) + Len(v)
          /\ \A i \in 1 .. Len(u \o w) + Len(v) :
               t[i] = IF i <= Len(u \o w) THEN (u \o w)[i] ELSE v[i - Len(u \o w)]
      BY <1>3, <1>6, ConcatProperties
    <2> HIDE DEF t
    <2>2. Len(t) = n + 1
      BY <1>1, <1>3, <1>6, <2>1
    <2> DEFINE x == u \o w
    <2>5. /\ x = u \o w /\ Len(x) + Len(v) = n + 1 /\ Len(x) = k
          /\ \A i \in 1 .. k : x[i] = IF i <= k - 1 THEN s[i] ELSE e
          /\ \A i \in 1 .. n + 1 : t[i] = IF i <= k THEN x[i] ELSE v[i - k]
      BY <1>1, <1>3, <1>6, <2>1
    <2> HIDE DEF x
    <2>3. ASSUME NEW i \in 1 .. n + 1
          PROVE  t[i] = IF i < k THEN s[i] ELSE IF i = k THEN e ELSE s[i - 1]
      <3>1. CASE i <= k
        <4>1. i \in 1 .. k /\ t[i] = x[i]
          BY <1>1, <2>5, <3>1
        <4>2. x[i] = IF i <= k - 1 THEN s[i] ELSE e
          BY <2>5, <4>1
        <4>3. QED
          BY <1>1, <4>1, <4>2
      <3>2. CASE i > k
        <4>1. i - k \in 1 .. n - k + 1 /\ k + (i - k) - 1 = i - 1
          BY <1>1, <3>2
        <4>2. t[i] = v[i - k]
          BY <1>1, <2>5, <3>2
        <4>3. v[i - k] = s[k + (i - k) - 1]
          BY <1>3, <4>1
        <4>4. QED
          BY <1>1, <3>2, <4>1, <4>2, <4>3
      <3>3. QED
        BY <1>1, <3>1, <3>2
    <2>4. QED
      BY <2>1, <2>2, <2>3
  <1> HIDE DEF t
  <1>8. \A i \in 1 .. n : s[i] # e
    BY <1>1, Elements DEF n
  <1>9. \A a, b \in 1 .. n : s[a] = s[b] => a = b
    BY DEF Distinct, n
  <1>10. Distinct(S, t)
    <2>1. ASSUME NEW a \in 1 .. n + 1, NEW b \in 1 .. n + 1, t[a] = t[b] PROVE a = b
      <3>1. CASE a = k \/ b = k
        BY <1>1, <1>7, <1>8, <2>1, <3>1
      <3>2. CASE a # k /\ b # k
        BY <1>1, <1>7, <1>9, <2>1, <3>2
      <3>3. QED
        BY <3>1, <3>2
    <2>2. QED
      BY <1>7, <2>1 DEF Distinct
  <1>11. ToSet(t) = ToSet(s) \cup {e}
    <2>1. ToSet(t) = {t[i] : i \in 1 .. n + 1} /\ ToSet(s) = {s[i] : i \in 1 .. n}
      BY <1>1, <1>7, Elements DEF n
    <2>2. ASSUME NEW i \in 1 .. n + 1 PROVE t[i] \in {s[j] : j \in 1 .. n} \cup {e}
      <3>1. \/ t[i] = s[i] /\ i \in 1 .. n
            \/ t[i] = e
            \/ t[i] = s[i - 1] /\ i - 1 \in 1 .. n
        BY <1>1, <1>7
      <3>2. QED
        BY <3>1
    <2>3. ASSUME NEW j \in 1 .. n PROVE \E i \in 1 .. n + 1 : t[i] = s[j]
      <3>1. CASE j < k
        <4>1. t[j] = s[j] /\ j \in 1 .. n + 1
          BY <1>1, <1>7, <3>1
        <4>2. QED
          BY <4>1
      <3>2. CASE j >= k
        <4>1. t[j + 1] = s[j] /\ j + 1 \in 1 .. n + 1
          BY <1>1, <1>7, <3>2
        <4>2. QED
          BY <4>1
      <3>3. QED
        BY <1>1, <3>1, <3>2
    <2>4. \E i \in 1 .. n + 1 : t[i] = e
      BY <1>1, <1>7
    <2>5. QED
      BY <2>1, <2>2, <2>3, <2>4
  <1>12. QED
    BY <1>5, <1>7, <1>10, <1>11 DEF n

(* The element at position k taken out.                                    *)
LEMMA Removed ==
  ASSUME NEW S, NEW s, Distinct(S, s), NEW k \in 1 .. Len(s)
  PROVE  /\ Distinct(S, RemoveAt(s, k))
         /\ ToSet(RemoveAt(s, k)) = ToSet(s) \ {s[k]}
         /\ Len(RemoveAt(s, k)) = Len(s) - 1
         /\ \A i \in 1 .. Len(s) - 1 : RemoveAt(s, k)[i] = IF i < k THEN s[i] ELSE s[i + 1]
  <1> DEFINE n == Len(s)  u == SubSeq(s, 1, k - 1)  v == SubSeq(s, k + 1, n)  t == u \o v
  <1>1. s \in Seq(S) /\ n \in Nat /\ k \in 1 .. n /\ \A i \in 1 .. n : s[i] \in S
    BY DEF Distinct
  <1>2. u \in Seq(S) /\ Len(u) = k - 1 /\ \A i \in 1 .. k - 1 : u[i] = s[i]
    <2> HIDE DEF n
    <2>1. \A i \in 1 .. k - 1 : s[i] \in S
      BY <1>1
    <2>2. /\ u \in Seq(S) /\ Len(u) = (IF 1 <= k - 1 THEN k - 1 - 1 + 1 ELSE 0)
          /\ \A i \in 1 .. k - 1 - 1 + 1 : u[i] = s[1 + i - 1]
      BY <1>1, <2>1, SubSeqProperties
    <2> HIDE DEF u
    <2>3. QED
      BY <1>1, <2>2
  <1>3. v \in Seq(S) /\ Len(v) = n - k /\ \A i \in 1 .. n - k : v[i] = s[k + i]
    <2> HIDE DEF n
    <2>1. \A i \in k + 1 .. n : s[i] \in S
      BY <1>1
    <2>2. /\ v \in Seq(S) /\ Len(v) = (IF k + 1 <= n THEN n - (k + 1) + 1 ELSE 0)
          /\ \A i \in 1 .. n - (k + 1) + 1 : v[i] = s[(k + 1) + i - 1]
      BY <1>1, <2>1, SubSeqProperties
    <2> HIDE DEF v
    <2>3. QED
      BY <1>1, <2>2
  <1>4. RemoveAt(s, k) = t
    BY DEF RemoveAt
  <1> HIDE DEF u, v, n
  <1>5. /\ t \in Seq(S) /\ Len(t) = n - 1
        /\ \A i \in 1 .. n - 1 : t[i] = IF i < k THEN s[i] ELSE s[i + 1]
    <2>1. /\ t \in Seq(S) /\ Len(t) = Len(u) + Len(v)
          /\ \A i \in 1 .. Len(u) + Len(v) : t[i] = IF i <= Len(u) THEN u[i] ELSE v[i - Len(u)]
      BY <1>2, <1>3, ConcatProperties
    <2> HIDE DEF t
    <2>2. QED
      BY <1>1, <1>2, <1>3, <2>1
  <1> HIDE DEF t
  <1>6. \A a, b \in 1 .. n : s[a] = s[b] => a = b
    BY DEF Distinct, n
  <1>7. Distinct(S, t)
    <2>1. ASSUME NEW a \in 1 .. n - 1, NEW b \in 1 .. n - 1, t[a] = t[b] PROVE a = b
      BY <1>1, <1>5, <1>6, <2>1
    <2>2. QED
      BY <1>5, <2>1 DEF Distinct
  <1>8. ToSet(t) = ToSet(s) \ {s[k]}
    <2>1. ToSet(t) = {t[i] : i \in 1 .. n - 1} /\ ToSet(s) = {s[i] : i \in 1 .. n}
      BY <1>1, <1>5, Elements DEF n
    <2>2. ASSUME NEW i \in 1 .. n - 1 PROVE t[i] \in {s[j] : j \in 1 .. n} /\ t[i] # s[k]
      <3>1. PICK j \in 1 .. n : t[i] = s[j] /\ j # k
        <4>1. CASE i < k
          <5>1. i \in 1 .. n /\ t[i] = s[i] /\ i # k
            BY <1>1, <1>5, <4>1
          <5>2. QED
            BY <5>1
        <4>2. CASE i >= k
          <5>1. i + 1 \in 1 .. n /\ t[i] = s[i + 1] /\ i + 1 # k
            BY <1>1, <1>5, <4>2
          <5>2. QED
            BY <5>1
        <4>3. QED
          BY <1>1, <4>1, <4>2
      <3>2. s[j] # s[k]
        BY <1>1, <1>6, <3>1
      <3>3. QED
        BY <3>1, <3>2
    <2>3. ASSUME NEW j \in 1 .. n, s[j] # s[k] PROVE \E i \in 1 .. n - 1 : t[i] = s[j]
      <3>1. CASE j < k
        <4>1. t[j] = s[j] /\ j \in 1 .. n - 1
          BY <1>1, <1>5, <3>1
        <4>2. QED
          BY <4>1
      <3>2. CASE j > k
        <4>1. t[j - 1] = s[j] /\ j - 1 \in 1 .. n - 1
          BY <1>1, <1>5, <3>2
        <4>2. QED
          BY <4>1
      <3>3. QED
        BY <1>1, <2>3, <3>1, <3>2
    <2>4. QED
      BY <2>1, <2>2, <2>3
  <1>9. QED
    BY <1>4, <1>5, <1>7, <1>8 DEF n

(* get_by_pid finds the process.                                           *)
LEMMA Found ==
  ASSUME Distinct(Procs, list), NEW p \in ToSet(list)
  PROVE  Node(p) \in 1 .. Len(list) /\ list[Node(p)] = p
  <1>1. \E i \in DOMAIN list : list[i] = p
    BY DEF ToSet
  <1>2. DOMAIN list = 1 .. Len(list)
    BY Elements DEF Distinct
  <1>3. QED
    BY <1>1, <1>2 DEF Node

(* sched_fifo_next: a process of the list, another one if there is one.    *)
LEMMA NextInList ==
  ASSUME Distinct(Procs, list), NEW p \in ToSet(list)
  PROVE  /\ FifoNext(p) \in ToSet(list)
         /\ \A q \in ToSet(list) : q # p => FifoNext(p) # p
  <1> DEFINE k == Node(p)  n == Len(list)
  <1>1. k \in 1 .. n /\ list[k] = p /\ n \in Nat
    BY Found, Elements DEF Distinct
  <1>2. ToSet(list) = {list[i] : i \in 1 .. n} /\ \A a, b \in 1 .. n : list[a] = list[b] => a = b
    BY Elements DEF Distinct
  <1>3. FifoNext(p) = IF k = n THEN list[1] ELSE list[k + 1]
    <2>1. list # <<>> /\ Head(list) = list[1]
      BY <1>1 DEF Distinct
    <2>2. QED
      BY <2>1, Zenon DEF FifoNext
  <1> HIDE DEF k, n
  <1>4. FifoNext(p) \in ToSet(list)
    BY <1>1, <1>2, <1>3
  <1>5. ASSUME NEW q \in ToSet(list), q # p, FifoNext(p) = p PROVE FALSE
    <2>1. PICK j \in 1 .. n : list[j] = q
      BY <1>2
    <2>2. k = n /\ k = 1
      BY <1>1, <1>2, <1>3, <1>5
    <2>3. QED
      BY <1>1, <1>5, <2>1, <2>2
  <1>6. QED
    BY <1>4, <1>5

(* sched_fifo_dequeue takes out the process and no other.                  *)
LEMMA Dequeued ==
  ASSUME Distinct(Procs, list), NEW p \in ToSet(list)
  PROVE  Distinct(Procs, FifoDequeue(p)) /\ ToSet(FifoDequeue(p)) = ToSet(list) \ {p}
  BY Found, Removed DEF FifoDequeue

(* sched_fifo_enqueue adds it.                                             *)
LEMMA Enqueued ==
  ASSUME Distinct(Procs, list), NEW p \in Procs, p \notin ToSet(list)
  PROVE  /\ Distinct(Procs, FifoEnqueue(p)) /\ ToSet(FifoEnqueue(p)) = ToSet(list) \cup {p}
         /\ Len(FifoEnqueue(p)) = Len(list) + 1
  <1>1. list \in Seq(Procs) /\ Len(list) \in Nat
    BY DEF Distinct
  <1>2. CASE list = <<>>
    <2>1. FifoEnqueue(p) = <<p>>
      BY <1>2 DEF FifoEnqueue
    <2>2. Distinct(Procs, <<p>>) /\ Len(<<p>>) = 1 /\ Len(list) = 0
      BY <1>2 DEF Distinct
    <2>3. ToSet(<<p>>) = {p} /\ ToSet(list) = {}
      <3> DEFINE x == <<p>>
      <3>1. x \in Seq(Procs) /\ Len(x) = 1 /\ x[1] = p
        BY <2>2
      <3> HIDE DEF x
      <3>2. ToSet(x) = {x[i] : i \in 1 .. 1}
        BY <3>1, Elements
      <3>3. ToSet(x) = {p}
        BY <3>1, <3>2
      <3>4. ToSet(list) = {}
        BY <1>2 DEF ToSet
      <3>5. QED
        BY <3>3, <3>4 DEF x
    <2>4. QED
      BY <2>1, <2>2, <2>3
  <1>3. CASE list # <<>>
    <2>1. 2 \in 1 .. Len(list) + 1
      BY <1>1, <1>3
    <2>2. FifoEnqueue(p) = InsertAt(list, 2, p)
      BY <1>3 DEF FifoEnqueue
    <2>3. QED
      BY <2>1, <2>2, Inserted
  <1>4. QED
    BY <1>2, <1>3

-----------------------------------------------------------------------------
(* The inductive invariant.  Where a context is in its own code, or is     *)
(* handing over the processor, current being another process already.      *)
Own     == {"user", "heap", "exit", "read", "next"}
Handing == {"free", "dequeue", "save", "load"}
Quiet   == {"none", "eoi", "post", "iret"}

base(c) == loc[c]["base"]
irq(c)  == loc[c]["irq"]

Types ==
  /\ Distinct(Procs, list)
  /\ current \in Procs \cup {Null} /\ exiting \subseteq Exiters
  /\ runtime \in [Pcbs -> 0 .. Quantum] /\ saved \in [Pcbs -> Contexts]
  /\ stacks \subseteq Procs /\ cpu \in Contexts
  /\ loc \in [Contexts -> [Levels -> Locations]]
  /\ from \in [Contexts -> [Levels -> Pcbs]]
  /\ savedIf \in [Contexts -> BOOLEAN] /\ ifl \in BOOLEAN
  /\ wticks \in 0 .. WindowTicks

Flags == masked \in BOOLEAN /\ inService \in BOOLEAN /\ handler \in BOOLEAN /\ post \in BOOLEAN

(* An interrupt's code runs with interrupts off.                           *)
IrqOff == irq(cpu) # "none" => ifl = FALSE

(* What is true of every process, whether it is on the list or not.        *)
Always ==
  \A p \in Procs :
    /\ base(p) \in {"exit", "read", "next"} \cup Handing => p \in Exiters
    /\ base(p) = "heap" => p \in HeapUsers
    /\ p \in exiting => base(p) \notin {"user", "heap", "exit"}
    /\ p # cpu => base(p) \notin Handing /\ irq(p) \notin Handing

(* Of every process on the list.                                           *)
Listed ==
  \A p \in ToSet(list) :
    /\ saved[p] = p
    /\ base(p) \in {"read", "next"} \cup Handing => p \in exiting
    /\ base(p) = "next" => from[p]["base"] = p
    /\ p \in stacks \/ base(p) = "dequeue" \/ irq(p) = "dequeue"

(* Of those that wait for their turn.                                      *)
Parked ==
  \A p \in ToSet(list) : p # cpu =>
    /\ base(p) \in Own /\ irq(p) \in {"none", "iret"}
    /\ irq(p) = "iret" => savedIf[p] = FALSE
    /\ p # current => runtime[p] = 0

(* Of a process inside scheduler_schedule at level l.                      *)
Scheduling(l) ==
  /\ loc[cpu][l] = "next" => from[cpu][l] = cpu
  /\ loc[cpu][l] \in {"free", "dequeue"} =>
       from[cpu][l] = cpu /\ cpu \in exiting /\ cpu \in ToSet(list) /\ current # cpu
  /\ loc[cpu][l] = "free" => cpu \in stacks
  /\ loc[cpu][l] \in {"save", "load"} =>
       /\ current # cpu
       /\ \/ from[cpu][l] = cpu /\ cpu \in ToSet(list) /\ cpu \notin exiting
          \/ from[cpu][l] = Helper /\ cpu \notin ToSet(list)
  /\ loc[cpu][l] = "load" /\ cpu \in ToSet(list) => runtime[cpu] = 0

(* While a process runs.                                                   *)
Running ==
  cpu \in Procs =>
    /\ Procs \ Exiters \subseteq ToSet(list) /\ current \in ToSet(list)
    /\ base(cpu) \in Own \cup Handing /\ irq(cpu) \in Quiet \cup {"read", "next"} \cup Handing
    /\ base(cpu) \in Handing => irq(cpu) \in Quiet
    /\ base(cpu) \in Own /\ irq(cpu) \notin Handing => current = cpu
    /\ Scheduling("base") /\ Scheduling("irq")
    /\ irq(cpu) = "load" => savedIf[cpu] = FALSE

(* While kernel_main sets up the processes and hands over to the first.    *)
Starting ==
  cpu = Boot =>
    /\ base(Boot) \in {"drivers", "unmask", "add", "register", "save", "load"}
    /\ irq(Boot) \in Quiet
    /\ exiting = {} /\ stacks = ToSet(list)
    /\ base(Boot) \in {"drivers", "unmask", "add"} =>
         current = Null /\ ToSet(list) = 0 .. Len(list) - 1 /\ Len(list) <= NProcs
    /\ base(Boot) \in {"register", "save", "load"} =>
         ToSet(list) = Procs /\ current \in Procs
    /\ base(Boot) \in {"save", "load"} => from[Boot]["base"] = Helper
    /\ \A p \in Procs : base(p) = "user" /\ irq(p) = "none" /\ (p # current => runtime[p] = 0)

(* The post routine is registered when the first process is about to run.  *)
Posted == post = FALSE <=> cpu = Boot /\ base(Boot) \notin {"save", "load"}

(* Ticks while the processor is handed over count for the next process,    *)
(* and are fewer than its quantum.                                         *)
Ticks ==
  current # cpu /\ current # Null =>
    /\ runtime[current] <= wticks
    /\ irq(cpu) \in {"eoi", "post"} => runtime[current] < wticks

PInv == /\ Types /\ Flags /\ IrqOff /\ Always /\ Listed /\ Parked /\ Running
        /\ Starting /\ Posted /\ Ticks

(* What the assumption says of the constants, and the names outside of the *)
(* pids.                                                                   *)
LEMMA Consts ==
  /\ NProcs \in Nat /\ Exiters \subseteq Procs /\ Exiters # Procs /\ HeapUsers \subseteq Procs
  /\ Quantum \in Nat \ {0} /\ WindowTicks \in Nat /\ WindowTicks < Quantum
  /\ Boot \notin Procs /\ Helper \notin Procs /\ Null \notin Procs
  /\ Boot # Helper /\ Null # Boot /\ Null # Helper
  /\ Contexts = Procs \cup {Boot} /\ Pcbs = Procs \cup {Helper}
  /\ Levels = {"base", "irq"}
  BY SchedulerAssumption DEF Procs, Boot, Helper, Null, Contexts, Pcbs, Levels

(* Pids in the list are processes and have contexts. *)
LEMMA ListedAre ==
  ASSUME Types
  PROVE  ToSet(list) \subseteq Procs /\ ToSet(list) \subseteq Contexts
  BY Elements, Consts DEF Types, Distinct

(* A step of the running context, at the level it is at.                   *)
LEMMA Moved ==
  ASSUME Types, NEW l \in Locations, Goto(l)
  PROVE  /\ loc' \in [Contexts -> [Levels -> Locations]]
         /\ \A c \in Contexts :
              /\ loc'[c]["base"] = IF c = cpu /\ irq(cpu) = "none" THEN l ELSE base(c)
              /\ loc'[c]["irq"] = IF c = cpu /\ irq(cpu) # "none" THEN l ELSE irq(c)
  <1>1. loc \in [Contexts -> [Levels -> Locations]] /\ cpu \in Contexts
    BY DEF Types
  <1>2. Level \in Levels /\ Level = IF irq(cpu) = "none" THEN "base" ELSE "irq"
    BY DEF Level, Levels, irq
  <1>3. loc' = [loc EXCEPT ![cpu][Level] = l]
    BY DEF Goto
  <1>4. loc' \in [Contexts -> [Levels -> Locations]]
    BY <1>1, <1>2, <1>3
  <1>5. ASSUME NEW c \in Contexts, NEW v \in Levels
        PROVE  loc'[c][v] = IF c = cpu /\ v = Level THEN l ELSE loc[c][v]
    BY <1>1, <1>2, <1>3
  <1>6. "base" \in Levels /\ "irq" \in Levels
    BY DEF Levels
  <1>7. QED
    BY <1>2, <1>4, <1>5, <1>6 DEF base, irq

(* A process's code: the heap, its own, and the return from its function.  *)
LEMMA UserStep == PInv /\ User => PInv'
  <1>1. SUFFICES ASSUME PInv, User PROVE PInv'
    OBVIOUS
  <1> DEFINE Goes(l) ==
        /\ base(cpu) \in {"user", "heap"} /\ irq(cpu) = "none"
        /\ l \in {"user", "heap", "exit"}
        /\ l = "heap" => cpu \in HeapUsers
        /\ l = "exit" => cpu \in Exiters
        /\ Goto(l)
  <1>2. /\ \E l : Goes(l)
        /\ UNCHANGED <<bootVars, procVars, cpuVars, wticks, current, runtime, saved, from, inService>>
    <2>1. At("user") \/ At("heap") => base(cpu) \in {"user", "heap"} /\ irq(cpu) = "none"
      <3>1. irq(cpu) \notin {"user", "heap"}
        BY <1>1, Consts DEF PInv, Types, Running, Starting, Quiet, Handing
      <3>2. QED
        BY <3>1 DEF At, Level, base, irq
    <2>2. CASE EnterHeap
      BY <2>1, <2>2 DEF EnterHeap
    <2>3. CASE LeaveHeap
      BY <2>1, <2>3 DEF LeaveHeap
    <2>4. CASE ReturnFromProcess
      BY <2>1, <2>4 DEF ReturnFromProcess
    <2>5. QED
      BY <1>1, <2>2, <2>3, <2>4 DEF User
  <1>3. PICK l : Goes(l)
    BY <1>2
  <1>4. cpu \in Procs
    BY <1>1, <1>3, Consts DEF PInv, Types, Starting
  <1>5. /\ loc' \in [Contexts -> [Levels -> Locations]]
        /\ \A c \in Contexts :
             /\ loc'[c]["base"] = IF c = cpu THEN l ELSE base(c)
             /\ loc'[c]["irq"] = irq(c)
    <2>1. l \in Locations
      BY <1>3 DEF Locations
    <2>2. QED
      BY <1>1, <1>3, <2>1, Moved DEF PInv
  <1>6. /\ list' = list /\ current' = current /\ exiting' = exiting /\ runtime' = runtime
        /\ saved' = saved /\ stacks' = stacks /\ cpu' = cpu /\ from' = from /\ ifl' = ifl
        /\ savedIf' = savedIf /\ wticks' = wticks
        /\ UNCHANGED <<masked, inService, handler, post>>
    BY <1>2 DEF bootVars, procVars, cpuVars
  <1> HIDE DEF Goes
  <1>7. Types' /\ Flags'
    BY <1>1, <1>5, <1>6 DEF PInv, Types, Flags, Distinct
  <1>8. IrqOff'
    BY <1>1, <1>4, <1>5, <1>6, Consts DEF PInv, IrqOff, irq
  <1>9. Always'
    BY <1>1, <1>3, <1>4, <1>5, <1>6, Consts DEF PInv, Always, Goes, base, irq, Handing
  <1>10. Listed'
    BY <1>1, <1>3, <1>4, <1>5, <1>6, Consts, ListedAre DEF PInv, Listed, Goes, base, irq, Handing
  <1>11. Parked'
    BY <1>1, <1>3, <1>4, <1>5, <1>6, Consts, ListedAre DEF PInv, Parked, Goes, base, irq, Own
  <1>12. Running'
    BY <1>1, <1>3, <1>4, <1>5, <1>6, Consts DEF PInv, Running, Scheduling, Goes, base, irq, Own, Handing, Quiet
  <1>13. Starting'
    BY <1>4, <1>6, Consts DEF Starting
  <1>14. Posted'
    BY <1>1, <1>4, <1>6, Consts DEF PInv, Posted
  <1>15. Ticks'
    BY <1>1, <1>4, <1>5, <1>6, Consts DEF PInv, Ticks, irq
  <1>16. QED
    BY <1>7, <1>8, <1>9, <1>10, <1>11, <1>12, <1>13, <1>14, <1>15 DEF PInv

(* At which level a location is.                                           *)
LEMMA Where ==
  ASSUME PInv, NEW l, At(l)
  PROVE  /\ l \in {"drivers", "unmask", "add", "register", "user", "heap", "exit"} =>
              base(cpu) = l /\ irq(cpu) = "none"
         /\ l \in {"eoi", "post", "iret"} => irq(cpu) = l
         /\ l \in {"read", "next", "free", "dequeue"} => cpu \in Procs
         /\ l # "none"
         /\ \/ Level = "base" /\ base(cpu) = l /\ irq(cpu) = "none"
            \/ Level = "irq" /\ irq(cpu) = l
  <1>1. /\ \/ cpu \in Procs \/ cpu = Boot
        /\ base(cpu) \notin {"eoi", "post", "iret", "none"}
        /\ irq(cpu) \in Quiet \cup {"read", "next"} \cup Handing
        /\ cpu = Boot => /\ irq(cpu) \in Quiet
                        /\ base(cpu) \in {"drivers", "unmask", "add", "register", "save", "load"}
    BY Consts DEF PInv, Types, Running, Starting, Own, Handing, Quiet
  <1>2. \/ Level = "base" /\ base(cpu) = l /\ irq(cpu) = "none"
        \/ Level = "irq" /\ irq(cpu) = l /\ irq(cpu) # "none"
    BY DEF At, Level, base, irq
  <1>3. QED
    BY <1>1, <1>2 DEF Quiet, Handing

(* scheduler_exit_current                                                  *)
LEMMA ExitStep == PInv /\ ExitCurrent => PInv'
  <1>1. SUFFICES ASSUME PInv, ExitCurrent PROVE PInv'
    OBVIOUS
  <1>2. base(cpu) = "exit" /\ irq(cpu) = "none"
    BY <1>1, Where DEF ExitCurrent
  <1>3. cpu \in Procs
    BY <1>1, <1>2, Consts DEF PInv, Types, Starting
  <1>4. current = cpu /\ cpu \in Exiters
    BY <1>1, <1>2, <1>3 DEF PInv, Running, Always, Own, Handing
  <1>5. /\ loc' \in [Contexts -> [Levels -> Locations]]
        /\ \A c \in Contexts :
             /\ loc'[c]["base"] = IF c = cpu THEN "read" ELSE base(c)
             /\ loc'[c]["irq"] = irq(c)
    <2>1. "read" \in Locations
      BY DEF Locations
    <2>2. QED
      BY <1>1, <1>2, <2>1, Moved DEF PInv, ExitCurrent
  <1>6. /\ list' = list /\ current' = current /\ exiting' = exiting \cup {cpu} /\ runtime' = runtime
        /\ saved' = saved /\ stacks' = stacks /\ cpu' = cpu /\ from' = from /\ ifl' = ifl
        /\ savedIf' = savedIf /\ wticks' = wticks
        /\ UNCHANGED <<masked, inService, handler, post>>
    BY <1>1, <1>4 DEF ExitCurrent, bootVars, cpuVars
  <1>7. Types' /\ Flags'
    BY <1>1, <1>4, <1>5, <1>6 DEF PInv, Types, Flags, Distinct
  <1>8. IrqOff'
    BY <1>1, <1>3, <1>5, <1>6, Consts DEF PInv, IrqOff, irq
  <1>9. Always'
    BY <1>1, <1>2, <1>3, <1>4, <1>5, <1>6, Consts DEF PInv, Always, base, irq, Handing
  <1>10. Listed'
    BY <1>1, <1>2, <1>3, <1>5, <1>6, Consts, ListedAre DEF PInv, Listed, base, irq, Handing
  <1>11. Parked'
    BY <1>1, <1>2, <1>3, <1>5, <1>6, Consts, ListedAre DEF PInv, Parked, base, irq, Own
  <1>12. Running'
    BY <1>1, <1>2, <1>3, <1>4, <1>5, <1>6, Consts DEF PInv, Running, Scheduling, base, irq, Own, Handing, Quiet
  <1>13. Starting'
    BY <1>3, <1>6, Consts DEF Starting
  <1>14. Posted'
    BY <1>1, <1>3, <1>6, Consts DEF PInv, Posted
  <1>15. Ticks'
    BY <1>1, <1>3, <1>5, <1>6, Consts DEF PInv, Ticks, irq
  <1>16. QED
    BY <1>7, <1>8, <1>9, <1>10, <1>11, <1>12, <1>13, <1>14, <1>15 DEF PInv

(* The timer's interrupt is taken, possibly while the context hands over.  *)
LEMMA TimerStep == PInv /\ TimerInterrupt => PInv'
  <1>1. SUFFICES ASSUME PInv, TimerInterrupt PROVE PInv'
    OBVIOUS
  <1>2. ifl # FALSE
    BY <1>1, Zenon DEF TimerInterrupt
  <1>3. irq(cpu) = "none"
    BY <1>1, <1>2 DEF PInv, IrqOff
  <1>4. /\ loc' \in [Contexts -> [Levels -> Locations]]
        /\ \A c \in Contexts :
             /\ loc'[c]["base"] = base(c)
             /\ loc'[c]["irq"] = IF c = cpu THEN "eoi" ELSE irq(c)
    <2>1. loc' = [loc EXCEPT ![cpu]["irq"] = "eoi"]
      BY <1>1 DEF TimerInterrupt
    <2>2. "eoi" \in Locations
      BY DEF Locations
    <2>3. QED
      BY <1>1, <2>1, <2>2, Consts DEF PInv, Types, base, irq
  <1>5. /\ list' = list /\ current' = current /\ exiting' = exiting /\ runtime' = runtime
        /\ saved' = saved /\ stacks' = stacks /\ cpu' = cpu /\ from' = from
        /\ savedIf' = savedIf /\ masked' = masked /\ handler' = handler /\ post' = post
        /\ ifl' = FALSE /\ inService' = TRUE
        /\ wticks' = (IF Leaving THEN wticks + 1 ELSE wticks) /\ (Leaving => wticks < WindowTicks)
    BY <1>1 DEF TimerInterrupt, bootVars, procVars
  <1>6. cpu \in Contexts /\ (cpu \in Procs \/ cpu = Boot)
    BY <1>1, Consts DEF PInv, Types
  <1>7. wticks' \in 0 .. WindowTicks
    BY <1>1, <1>5, Consts DEF PInv, Types
  <1>8. Types' /\ Flags'
    BY <1>1, <1>4, <1>5, <1>7 DEF PInv, Types, Flags, Distinct
  <1>9. IrqOff'
    BY <1>5 DEF IrqOff
  <1>10. Always'
    BY <1>1, <1>4, <1>5, <1>6, Consts DEF PInv, Always, base, irq, Handing
  <1>11. Listed'
    BY <1>1, <1>3, <1>4, <1>5, Consts, ListedAre DEF PInv, Listed, base, irq, Handing
  <1>12. Parked'
    BY <1>1, <1>4, <1>5, Consts, ListedAre DEF PInv, Parked, base, irq, Own
  <1>13. Running'
    BY <1>1, <1>3, <1>4, <1>5, <1>6, Consts DEF PInv, Running, Scheduling, base, irq, Own, Handing, Quiet
  <1>14. Starting'
    BY <1>1, <1>4, <1>5, <1>6, Consts DEF PInv, Starting, base, irq, Quiet
  <1>15. Posted'
    BY <1>1, <1>4, <1>5, <1>6, Consts DEF PInv, Posted, base
  <1>16. Ticks'
    <2>1. SUFFICES ASSUME current # cpu, current # Null PROVE runtime[current] < wticks'
      BY <1>1, <1>5, <1>7, Consts DEF PInv, Types, Ticks
    <2>2. Leaving
      <3>1. CASE cpu \in Procs
        <4>1. base(cpu) \in Handing
          BY <1>1, <1>3, <2>1, <3>1 DEF PInv, Running, Handing
        <4>2. QED
          BY <4>1 DEF Leaving, Handing, base
      <3>2. CASE cpu = Boot
        <4>1. base(cpu) \in {"register", "save", "load"}
          BY <1>1, <2>1, <3>2 DEF PInv, Starting
        <4>2. QED
          BY <4>1 DEF Leaving, base
      <3>3. QED
        BY <1>6, <3>1, <3>2
    <2>3. runtime[current] <= wticks /\ runtime[current] \in 0 .. Quantum
      BY <1>1, <2>1, Consts DEF PInv, Ticks, Types
    <2>4. QED
      BY <1>1, <1>5, <2>2, <2>3, Consts DEF PInv, Types
  <1>17. QED
    BY <1>8, <1>9, <1>10, <1>11, <1>12, <1>13, <1>14, <1>15, <1>16 DEF PInv

(* The interrupt's code before and after the post routine.                 *)
LEMMA IrqMoves ==
  ASSUME PInv, NEW l \in {"post", "iret", "none"}, irq(cpu) \in {"eoi", "post", "iret"}, Goto(l),
         l = "post" => irq(cpu) = "eoi",
         ifl' = IF l = "none" THEN TRUE ELSE ifl,
         inService' \in BOOLEAN,
         UNCHANGED <<bootVars, procVars, wticks, current, runtime, saved, cpu, savedIf, from>>
  PROVE  PInv'
  <1>1. irq(cpu) # "none" /\ ifl = FALSE
    BY DEF PInv, IrqOff
  <1>2. /\ loc' \in [Contexts -> [Levels -> Locations]]
        /\ \A c \in Contexts :
             /\ loc'[c]["base"] = base(c)
             /\ loc'[c]["irq"] = IF c = cpu THEN l ELSE irq(c)
    <2>1. l \in Locations
      BY DEF Locations
    <2>2. QED
      BY <1>1, <2>1, Moved DEF PInv
  <1>3. /\ list' = list /\ current' = current /\ exiting' = exiting /\ runtime' = runtime
        /\ saved' = saved /\ stacks' = stacks /\ cpu' = cpu /\ from' = from
        /\ savedIf' = savedIf /\ wticks' = wticks
        /\ masked' = masked /\ handler' = handler /\ post' = post
    BY DEF bootVars, procVars
  <1>4. cpu \in Contexts /\ (cpu \in Procs \/ cpu = Boot)
    BY Consts DEF PInv, Types
  <1>5. Types' /\ Flags'
    <2>1. ifl' \in BOOLEAN
      BY <1>1
    <2>2. QED
      BY <1>2, <1>3, <2>1 DEF PInv, Types, Flags, Distinct
  <1>6. IrqOff'
    BY <1>1, <1>2, <1>3, <1>4 DEF IrqOff, irq
  <1>7. Always'
    BY <1>2, <1>3, <1>4, Consts DEF PInv, Always, base, irq, Handing
  <1>8. Listed'
    BY <1>2, <1>3, Consts, ListedAre DEF PInv, Listed, base, irq, Handing
  <1>9. Parked'
    BY <1>2, <1>3, Consts, ListedAre DEF PInv, Parked, base, irq, Own
  <1>10. Running'
    BY <1>2, <1>3, <1>4, Consts DEF PInv, Running, Scheduling, base, irq, Own, Handing, Quiet
  <1>11. Starting'
    BY <1>2, <1>3, <1>4, Consts DEF PInv, Starting, base, irq, Quiet
  <1>12. Posted'
    BY <1>2, <1>3, <1>4, Consts DEF PInv, Posted, base
  <1>13. Ticks'
    BY <1>2, <1>3, <1>4, Consts DEF PInv, Ticks, irq
  <1>14. QED
    BY <1>5, <1>6, <1>7, <1>8, <1>9, <1>10, <1>11, <1>12, <1>13 DEF PInv

(* irq_dispatch sends the end of interrupt. *)
LEMMA EndStep == PInv /\ EndIrq => PInv'
  <1>1. SUFFICES ASSUME PInv, EndIrq PROVE PInv'
    OBVIOUS
  <1>2. irq(cpu) = "eoi"
    BY <1>1, Where DEF EndIrq
  <1>3. Goto("post") /\ ifl' = ifl /\ inService' = FALSE
        /\ UNCHANGED <<bootVars, procVars, wticks, current, runtime, saved, cpu, savedIf, from>>
    BY <1>1 DEF EndIrq, cpuVars
  <1>4. QED
    BY <1>1, <1>2, <1>3, IrqMoves

(* The stub returns to the interrupted code. *)
LEMMA IretStep == PInv /\ Iret => PInv'
  <1>1. SUFFICES ASSUME PInv, Iret PROVE PInv'
    OBVIOUS
  <1>2. irq(cpu) = "iret"
    BY <1>1, Where DEF Iret
  <1>3. Goto("none") /\ ifl' = TRUE /\ inService' \in BOOLEAN
        /\ UNCHANGED <<bootVars, procVars, wticks, current, runtime, saved, cpu, savedIf, from>>
    BY <1>1 DEF Iret, PInv, Flags
  <1>4. QED
    BY <1>1, <1>2, <1>3, IrqMoves

(* scheduler_tick: a tick that arrives while the processor is handed over  *)
(* counts for the next process and does not use up its quantum.            *)
LEMMA TickStep == PInv /\ Tick => PInv'
  <1>1. SUFFICES ASSUME PInv, Tick PROVE PInv'
    OBVIOUS
  <1>2. irq(cpu) = "post"
    BY <1>1, Where DEF Tick
  <1>3. /\ UNCHANGED <<bootVars, procVars, wticks, current, saved, cpu, savedIf, from>>
        /\ ifl' = ifl /\ inService' = inService /\ inService' \in BOOLEAN
    BY <1>1 DEF Tick, cpuVars, PInv, Flags
  <1>4. CASE ~post
    <2>1. Goto("iret") /\ runtime' = runtime
      BY <1>1, <1>4, Zenon DEF Tick
    <2>2. QED
      BY <1>1, <1>2, <1>3, <2>1, IrqMoves
  <1>5. CASE post
    <2> DEFINE ran == IF runtime[current] < Quantum THEN runtime[current] + 1 ELSE Quantum
               l   == IF FifoTick(current, ran) THEN "read" ELSE "iret"
    <2>1. runtime' = [runtime EXCEPT ![current] = ran] /\ Goto(l)
      BY <1>1, <1>5, Zenon DEF Tick
    <2>2. post # FALSE
      BY <1>5, Zenon
    <2>3. /\ current \in ToSet(list) /\ current \in Procs /\ current # Null
          /\ cpu \in Procs \/ (cpu = Boot /\ base(cpu) \in {"save", "load"})
      <3>1. \/ cpu \in Procs
            \/ cpu = Boot /\ base(cpu) \in {"save", "load"}
        BY <1>1, <2>2, Consts DEF PInv, Types, Posted
      <3>2. CASE cpu \in Procs
        BY <1>1, <3>2, ListedAre, Consts DEF PInv, Running
      <3>3. CASE cpu = Boot /\ base(cpu) \in {"save", "load"}
        BY <1>1, <3>3, Consts DEF PInv, Starting
      <3>4. QED
        BY <3>1, <3>2, <3>3
    <2>4. ran \in 0 .. Quantum /\ runtime[current] \in 0 .. Quantum /\ wticks \in 0 .. WindowTicks
      BY <1>1, <2>3, Consts DEF PInv, Types
    <2>5. current # cpu => ran <= wticks /\ l = "iret"
      <3>1. SUFFICES ASSUME current # cpu PROVE ran <= wticks /\ l = "iret"
        OBVIOUS
      <3>2. runtime[current] < wticks
        BY <1>1, <1>2, <2>3, <3>1 DEF PInv, Ticks
      <3>3. ran <= wticks /\ ran < Quantum
        BY <2>4, <3>2, Consts
      <3>4. ~FifoTick(current, ran)
        <4> HIDE DEF ran
        <4>1. QED
          BY <2>4, <3>3, Consts DEF FifoTick
      <3>5. QED
        BY <3>3, <3>4
    <2>6. l \in {"read", "iret"}
      OBVIOUS
    <2> HIDE DEF ran, l
    <2>7. /\ loc' \in [Contexts -> [Levels -> Locations]]
          /\ \A c \in Contexts :
               /\ loc'[c]["base"] = base(c)
               /\ loc'[c]["irq"] = IF c = cpu THEN l ELSE irq(c)
      <3>1. l \in Locations
        BY <2>6 DEF Locations
      <3>2. QED
        BY <1>1, <1>2, <2>1, <3>1, Moved DEF PInv
    <2>8. /\ list' = list /\ current' = current /\ exiting' = exiting
          /\ saved' = saved /\ stacks' = stacks /\ cpu' = cpu /\ from' = from
          /\ savedIf' = savedIf /\ wticks' = wticks /\ ifl' = ifl /\ inService' = inService
          /\ masked' = masked /\ handler' = handler /\ post' = post
      BY <1>3 DEF bootVars, procVars
    <2>9. cpu \in Contexts /\ (cpu \in Procs => base(cpu) \in Own \/ l = "iret")
      <3>1. cpu \in Procs /\ base(cpu) \in Handing => current # cpu
        BY <1>1 DEF PInv, Running, Scheduling, Handing, base
      <3>2. QED
        BY <1>1, <2>5, <3>1 DEF PInv, Types, Running
    <2>10. \A p \in Pcbs : runtime'[p] = IF p = current THEN ran ELSE runtime[p]
      BY <1>1, <2>1, Consts DEF PInv, Types
    <2>11. runtime' \in [Pcbs -> 0 .. Quantum]
      BY <1>1, <2>1, <2>4 DEF PInv, Types
    <2>12. Types' /\ Flags'
      BY <1>1, <2>7, <2>8, <2>11 DEF PInv, Types, Flags, Distinct
    <2>13. IrqOff'
      BY <1>1, <1>2, <2>8 DEF PInv, IrqOff
    <2>14. Always'
      BY <1>1, <2>6, <2>7, <2>8, Consts DEF PInv, Always, base, irq, Handing
    <2>15. Listed'
      BY <1>1, <1>2, <2>7, <2>8, Consts, ListedAre DEF PInv, Listed, base, irq, Handing
    <2>16. Parked'
      BY <1>1, <2>7, <2>8, <2>10, Consts, ListedAre DEF PInv, Parked, base, irq, Own
    <2>17. Running'
      <3>1. cpu \in Procs => Scheduling("base")'
        <4>1. SUFFICES ASSUME cpu \in Procs PROVE Scheduling("base")'
          OBVIOUS
        <4>2. Scheduling("base") /\ loc'[cpu]["base"] = loc[cpu]["base"]
          BY <1>1, <2>7, <2>9, <4>1 DEF PInv, Running, base
        <4>3. loc[cpu]["base"] = "load" => runtime'[cpu] = runtime[cpu]
          BY <2>10, <4>1, <4>2, Consts DEF Scheduling
        <4>4. QED
          BY <2>8, <4>2, <4>3 DEF Scheduling
      <3>2. cpu \in Procs => Scheduling("irq")'
        BY <1>1, <2>6, <2>7, <2>8, <2>9, Consts DEF Scheduling
      <3>3. QED
        BY <1>1, <1>2, <2>5, <2>6, <2>7, <2>8, <2>9, <3>1, <3>2
           DEF PInv, Running, base, irq, Own, Handing, Quiet
    <2>18. Starting'
      BY <1>1, <2>5, <2>6, <2>7, <2>8, <2>10, Consts DEF PInv, Starting, base, irq, Quiet
    <2>19. Posted'
      BY <1>1, <2>7, <2>8, <2>9, Consts DEF PInv, Posted, base
    <2>20. Ticks'
      BY <2>3, <2>5, <2>6, <2>7, <2>8, <2>9, <2>10, Consts DEF Ticks, irq
    <2>21. QED
      BY <2>12, <2>13, <2>14, <2>15, <2>16, <2>17, <2>18, <2>19, <2>20 DEF PInv
  <1>6. QED
    BY <1>4, <1>5

(* A process at the lines of scheduler_schedule before the switch.         *)
LEMMA Inside ==
  ASSUME PInv, NEW l \in {"read", "next", "free", "dequeue"}, At(l)
  PROVE  /\ cpu \in Procs /\ cpu \in Contexts /\ cpu \in ToSet(list)
         /\ \/ Level = "base" /\ base(cpu) = l /\ irq(cpu) = "none" /\ cpu \in exiting
            \/ Level = "irq" /\ irq(cpu) = l /\ base(cpu) \in Own
         /\ l \in {"read", "next"} => current = cpu
         /\ l # "read" => From = cpu
         /\ l \in {"free", "dequeue"} => cpu \in exiting /\ current # cpu
  <1>1. /\ cpu \in Procs /\ cpu \in Contexts
        /\ \/ Level = "base" /\ base(cpu) = l /\ irq(cpu) = "none"
           \/ Level = "irq" /\ irq(cpu) = l
    BY Where, Consts
  <1>2. Level = "irq" => base(cpu) \in Own
    BY <1>1 DEF PInv, Running, Quiet
  <1>3. l \in {"read", "next"} => current = cpu
    BY <1>1, <1>2 DEF PInv, Running, Own, Handing
  <1>4. l \in {"free", "dequeue"} =>
          from[cpu][Level] = cpu /\ cpu \in exiting /\ cpu \in ToSet(list) /\ current # cpu
    BY <1>1 DEF PInv, Running, Scheduling, base, irq
  <1>5. l = "next" => from[cpu][Level] = cpu
    BY <1>1 DEF PInv, Running, Scheduling, base, irq
  <1>6. cpu \in ToSet(list)
    BY <1>1, <1>3, <1>4 DEF PInv, Running
  <1>7. Level = "base" => cpu \in exiting
    BY <1>1, <1>6 DEF PInv, Listed, Handing
  <1>8. cpu \in exiting => cpu \in Exiters
    BY DEF PInv, Types
  <1>9. QED
    BY <1>1, <1>2, <1>3, <1>4, <1>5, <1>6, <1>7, <1>8 DEF From

(* scheduler_schedule reads current into from. *)
LEMMA ReadStep == PInv /\ ScheduleRead => PInv'
  <1>1. SUFFICES ASSUME PInv, ScheduleRead PROVE PInv'
    OBVIOUS
  <1>2. /\ cpu \in Procs /\ cpu \in Contexts /\ cpu \in ToSet(list) /\ current = cpu
        /\ \/ Level = "base" /\ base(cpu) = "read" /\ irq(cpu) = "none" /\ cpu \in exiting
           \/ Level = "irq" /\ irq(cpu) = "read" /\ base(cpu) \in Own
    BY <1>1, Inside DEF ScheduleRead
  <1>3. /\ loc' \in [Contexts -> [Levels -> Locations]]
        /\ \A c \in Contexts :
             /\ loc'[c]["base"] = IF c = cpu /\ irq(cpu) = "none" THEN "next" ELSE base(c)
             /\ loc'[c]["irq"] = IF c = cpu /\ irq(cpu) # "none" THEN "next" ELSE irq(c)
    <2>1. "next" \in Locations
      BY DEF Locations
    <2>2. QED
      BY <1>1, <2>1, Moved DEF PInv, ScheduleRead
  <1>4. /\ list' = list /\ current' = current /\ exiting' = exiting /\ runtime' = runtime
        /\ saved' = saved /\ stacks' = stacks /\ cpu' = cpu /\ ifl' = ifl
        /\ savedIf' = savedIf /\ wticks' = wticks
        /\ UNCHANGED <<masked, inService, handler, post>>
        /\ from' = [from EXCEPT ![cpu][Level] = cpu]
    BY <1>1, <1>2 DEF ScheduleRead, bootVars, procVars, cpuVars
  <1>5. from' \in [Contexts -> [Levels -> Pcbs]] /\ from'[cpu][Level] = cpu
        /\ \A c \in Contexts, w \in Levels : c # cpu \/ w # Level => from'[c][w] = from[c][w]
    BY <1>1, <1>2, <1>4, Consts DEF PInv, Types, Level
  <1>6. Types' /\ Flags'
    BY <1>1, <1>3, <1>4, <1>5 DEF PInv, Types, Flags, Distinct
  <1>7. IrqOff'
    BY <1>1, <1>2, <1>3, <1>4, Consts DEF PInv, IrqOff, irq
  <1>8. Always'
    BY <1>1, <1>2, <1>3, <1>4, Consts DEF PInv, Always, base, irq, Handing
  <1>9. Listed'
    BY <1>1, <1>2, <1>3, <1>4, <1>5, Consts, ListedAre DEF PInv, Listed, base, irq, Handing
  <1>10. Parked'
    BY <1>1, <1>2, <1>3, <1>4, Consts, ListedAre DEF PInv, Parked, base, irq, Own
  <1>11. Running'
    BY <1>1, <1>2, <1>3, <1>4, <1>5, Consts DEF PInv, Running, Scheduling, base, irq, Own, Handing, Quiet
  <1>12. Starting' /\ Posted'
    BY <1>1, <1>2, <1>4, Consts DEF PInv, Starting, Posted
  <1>13. Ticks'
    BY <1>2, <1>4 DEF Ticks
  <1>14. QED
    BY <1>6, <1>7, <1>8, <1>9, <1>10, <1>11, <1>12, <1>13 DEF PInv

(* The next process is another one if the running one has returned: one    *)
(* that never does is on the list.                                         *)
LEMMA NextStep == PInv /\ ScheduleNext => PInv'
  <1>1. SUFFICES ASSUME PInv, ScheduleNext PROVE PInv'
    OBVIOUS
  <1>2. /\ cpu \in Procs /\ cpu \in Contexts /\ cpu \in ToSet(list) /\ current = cpu /\ From = cpu
        /\ \/ Level = "base" /\ base(cpu) = "next" /\ irq(cpu) = "none" /\ cpu \in exiting
           \/ Level = "irq" /\ irq(cpu) = "next" /\ base(cpu) \in Own
    BY <1>1, Inside DEF ScheduleNext
  <1> DEFINE n == FifoNext(cpu)
             l == IF cpu \in exiting THEN "free" ELSE IF cpu # n THEN "save" ELSE AfterSwitch
  <1>3. current' = n /\ Goto(l)
        /\ UNCHANGED <<bootVars, procVars, cpuVars, wticks, runtime, saved, from, inService>>
    BY <1>1, <1>2 DEF ScheduleNext
  <1>4. n \in ToSet(list) /\ n \in Procs /\ n # Null /\ (cpu \in exiting => n # cpu)
    <2>1. n \in ToSet(list) /\ \A q \in ToSet(list) : q # cpu => n # cpu
      BY <1>1, <1>2, NextInList DEF PInv, Types
    <2>2. PICK q \in Procs : q \notin Exiters
      BY Consts
    <2>3. q \in ToSet(list) /\ (cpu \in exiting => q # cpu)
      BY <1>1, <1>2, <2>2 DEF PInv, Running, Types
    <2>4. QED
      BY <1>1, <2>1, <2>3, ListedAre, Consts DEF PInv
  <1>5. \/ l = "free" /\ cpu \in exiting /\ n # cpu
        \/ l = "save" /\ cpu \notin exiting /\ n # cpu /\ Level = "irq"
        \/ l = "iret" /\ cpu \notin exiting /\ n = cpu /\ Level = "irq"
    BY <1>2, <1>4 DEF AfterSwitch
  <1>6. l \in Locations
    BY <1>5 DEF Locations
  <1> HIDE DEF n, l
  <1>7. /\ loc' \in [Contexts -> [Levels -> Locations]]
        /\ \A c \in Contexts :
             /\ loc'[c]["base"] = IF c = cpu /\ irq(cpu) = "none" THEN l ELSE base(c)
             /\ loc'[c]["irq"] = IF c = cpu /\ irq(cpu) # "none" THEN l ELSE irq(c)
    BY <1>1, <1>3, <1>6, Moved DEF PInv
  <1>8. /\ list' = list /\ exiting' = exiting /\ runtime' = runtime
        /\ saved' = saved /\ stacks' = stacks /\ cpu' = cpu /\ ifl' = ifl /\ from' = from
        /\ savedIf' = savedIf /\ wticks' = wticks
        /\ UNCHANGED <<masked, inService, handler, post>>
    BY <1>3 DEF bootVars, procVars, cpuVars
  <1>9. Types' /\ Flags'
    BY <1>1, <1>3, <1>4, <1>7, <1>8 DEF PInv, Types, Flags, Distinct
  <1>10. IrqOff'
    BY <1>1, <1>2, <1>7, <1>8, Consts DEF PInv, IrqOff, irq
  <1>11. cpu \in exiting => cpu \in Exiters /\ cpu \in stacks
    <2>1. base(cpu) # "dequeue" /\ irq(cpu) # "dequeue"
      BY <1>2 DEF Own
    <2>2. QED
      BY <1>1, <1>2, <2>1 DEF PInv, Types, Listed
  <1>12. Always'
    BY <1>1, <1>2, <1>5, <1>7, <1>8, <1>11, Consts DEF PInv, Always, base, irq, Handing
  <1>13. Listed'
    BY <1>1, <1>2, <1>5, <1>7, <1>8, Consts, ListedAre DEF PInv, Listed, base, irq, Handing
  <1>14. Parked'
    BY <1>1, <1>2, <1>3, <1>7, <1>8, Consts, ListedAre DEF PInv, Parked, base, irq, Own
  <1>15. Running'
    BY <1>1, <1>2, <1>3, <1>4, <1>5, <1>7, <1>8, <1>11, Consts
       DEF PInv, Running, Scheduling, From, base, irq, Own, Handing, Quiet
  <1>16. Starting' /\ Posted'
    BY <1>1, <1>2, <1>8, Consts DEF PInv, Starting, Posted
  <1>17. Ticks'
    <2>1. SUFFICES ASSUME n # cpu PROVE runtime[n] <= wticks /\ loc'[cpu]["irq"] \notin {"eoi", "post"}
      BY <1>3, <1>8 DEF Ticks, irq
    <2>2. runtime[n] = 0
      BY <1>1, <1>2, <1>4, <2>1 DEF PInv, Parked
    <2>3. QED
      BY <1>1, <1>2, <1>5, <1>7, <2>1, <2>2, Consts DEF PInv, Types
  <1>18. QED
    BY <1>9, <1>10, <1>12, <1>13, <1>14, <1>15, <1>16, <1>17 DEF PInv

(* vmm_free_page gets the running process's own stack, which is mapped.    *)
LEMMA FreeStep == PInv /\ ScheduleFree => PInv'
  <1>1. SUFFICES ASSUME PInv, ScheduleFree PROVE PInv'
    OBVIOUS
  <1>2. /\ cpu \in Procs /\ cpu \in Contexts /\ cpu \in ToSet(list) /\ From = cpu
        /\ cpu \in exiting /\ current # cpu
        /\ \/ Level = "base" /\ base(cpu) = "free" /\ irq(cpu) = "none"
           \/ Level = "irq" /\ irq(cpu) = "free" /\ base(cpu) \in Own
    BY <1>1, Inside DEF ScheduleFree
  <1>3. /\ loc' \in [Contexts -> [Levels -> Locations]]
        /\ \A c \in Contexts :
             /\ loc'[c]["base"] = IF c = cpu /\ irq(cpu) = "none" THEN "dequeue" ELSE base(c)
             /\ loc'[c]["irq"] = IF c = cpu /\ irq(cpu) # "none" THEN "dequeue" ELSE irq(c)
    <2>1. "dequeue" \in Locations
      BY DEF Locations
    <2>2. QED
      BY <1>1, <2>1, Moved DEF PInv, ScheduleFree
  <1>4. /\ list' = list /\ current' = current /\ exiting' = exiting /\ runtime' = runtime
        /\ saved' = saved /\ cpu' = cpu /\ ifl' = ifl /\ from' = from
        /\ savedIf' = savedIf /\ wticks' = wticks
        /\ UNCHANGED <<masked, inService, handler, post>>
        /\ stacks' = stacks \ {cpu}
    <2>1. saved[cpu] = cpu
      BY <1>1, <1>2 DEF PInv, Listed
    <2>2. QED
      BY <1>1, <1>2, <2>1 DEF ScheduleFree, bootVars, cpuVars
  <1>5. Types' /\ Flags'
    BY <1>1, <1>3, <1>4 DEF PInv, Types, Flags, Distinct
  <1>6. IrqOff'
    BY <1>1, <1>2, <1>3, <1>4, Consts DEF PInv, IrqOff, irq
  <1>7. Always'
    BY <1>1, <1>2, <1>3, <1>4, Consts DEF PInv, Always, base, irq, Handing
  <1>8. Listed'
    BY <1>1, <1>2, <1>3, <1>4, Consts, ListedAre DEF PInv, Listed, base, irq, Handing
  <1>9. Parked'
    BY <1>1, <1>2, <1>3, <1>4, Consts, ListedAre DEF PInv, Parked, base, irq, Own
  <1>10. Running'
    BY <1>1, <1>2, <1>3, <1>4, Consts DEF PInv, Running, Scheduling, From, base, irq, Own, Handing, Quiet
  <1>11. Starting' /\ Posted'
    BY <1>1, <1>2, <1>4, Consts DEF PInv, Starting, Posted
  <1>12. Ticks'
    BY <1>1, <1>2, <1>3, <1>4, Consts DEF PInv, Ticks, irq
  <1>13. QED
    BY <1>5, <1>6, <1>7, <1>8, <1>9, <1>10, <1>11, <1>12 DEF PInv

(* sched_fifo_dequeue takes the running process off the list.              *)
LEMMA DequeueStep == PInv /\ ScheduleDequeue => PInv'
  <1>1. SUFFICES ASSUME PInv, ScheduleDequeue PROVE PInv'
    OBVIOUS
  <1>2. /\ cpu \in Procs /\ cpu \in Contexts /\ cpu \in ToSet(list) /\ From = cpu
        /\ cpu \in exiting /\ current # cpu
        /\ \/ Level = "base" /\ base(cpu) = "dequeue" /\ irq(cpu) = "none"
           \/ Level = "irq" /\ irq(cpu) = "dequeue" /\ base(cpu) \in Own
    BY <1>1, Inside DEF ScheduleDequeue
  <1>3. /\ loc' \in [Contexts -> [Levels -> Locations]]
        /\ \A c \in Contexts :
             /\ loc'[c]["base"] = IF c = cpu /\ irq(cpu) = "none" THEN "save" ELSE base(c)
             /\ loc'[c]["irq"] = IF c = cpu /\ irq(cpu) # "none" THEN "save" ELSE irq(c)
    <2>1. "save" \in Locations
      BY DEF Locations
    <2>2. QED
      BY <1>1, <2>1, Moved DEF PInv, ScheduleDequeue
  <1>4. /\ current' = current /\ exiting' = exiting /\ runtime' = runtime
        /\ saved' = saved /\ stacks' = stacks /\ cpu' = cpu /\ ifl' = ifl
        /\ savedIf' = savedIf /\ wticks' = wticks
        /\ UNCHANGED <<masked, inService, handler, post>>
        /\ from' = [from EXCEPT ![cpu][Level] = Helper]
    BY <1>1, <1>2 DEF ScheduleDequeue, bootVars, cpuVars
  <1>5. Distinct(Procs, list') /\ ToSet(list') = ToSet(list) \ {cpu}
    <2>1. list' = FifoDequeue(cpu)
      BY <1>1, <1>2 DEF ScheduleDequeue
    <2>2. QED
      BY <1>1, <1>2, <2>1, Dequeued DEF PInv, Types
  <1>6. from' \in [Contexts -> [Levels -> Pcbs]] /\ from'[cpu][Level] = Helper
        /\ \A c \in Contexts, w \in Levels : c # cpu \/ w # Level => from'[c][w] = from[c][w]
    BY <1>1, <1>2, <1>4, Consts DEF PInv, Types, Level
  <1>7. Types' /\ Flags'
    BY <1>1, <1>3, <1>4, <1>5, <1>6 DEF PInv, Types, Flags
  <1>8. IrqOff'
    BY <1>1, <1>2, <1>3, <1>4, Consts DEF PInv, IrqOff, irq
  <1>9. Always'
    BY <1>1, <1>2, <1>3, <1>4, Consts DEF PInv, Always, base, irq, Handing
  <1>10. Listed'
    BY <1>1, <1>2, <1>3, <1>4, <1>5, <1>6, Consts, ListedAre DEF PInv, Listed, base, irq, Handing
  <1>11. Parked'
    BY <1>1, <1>2, <1>3, <1>4, <1>5, Consts, ListedAre DEF PInv, Parked, base, irq, Own
  <1>12. Running'
    <2>1. cpu \in Exiters
      BY <1>1, <1>2 DEF PInv, Types
    <2>2. QED
      BY <1>1, <1>2, <1>3, <1>4, <1>5, <1>6, <2>1, Consts
         DEF PInv, Running, Scheduling, base, irq, Own, Handing, Quiet
  <1>13. Starting' /\ Posted'
    BY <1>1, <1>2, <1>4, Consts DEF PInv, Starting, Posted
  <1>14. Ticks'
    BY <1>1, <1>2, <1>3, <1>4, Consts DEF PInv, Ticks, irq
  <1>15. QED
    BY <1>7, <1>8, <1>9, <1>10, <1>11, <1>12, <1>13, <1>14 DEF PInv

(* A context at the switch: kernel_main's, or a process's.                 *)
LEMMA AtSwitch ==
  ASSUME PInv, NEW l \in {"save", "load"}, At(l)
  PROVE  /\ cpu \in Contexts /\ current \in ToSet(list) /\ current # cpu
         /\ \/ cpu = Boot /\ From = Helper
            \/ cpu \in Procs /\ From = Helper /\ cpu \notin ToSet(list)
            \/ /\ cpu \in Procs /\ From = cpu /\ cpu \in ToSet(list) /\ cpu \notin exiting
               /\ Level = "irq"
         /\ \/ Level = "base" /\ base(cpu) = l /\ irq(cpu) = "none"
            \/ Level = "irq" /\ irq(cpu) = l /\ base(cpu) \in Own /\ cpu \in Procs
  <1>1. /\ cpu \in Contexts /\ (cpu \in Procs \/ cpu = Boot)
        /\ \/ Level = "base" /\ base(cpu) = l /\ irq(cpu) = "none"
           \/ Level = "irq" /\ irq(cpu) = l
    BY Where, Consts DEF PInv, Types
  <1>2. CASE cpu = Boot
    <2>1. Level = "base" /\ base(cpu) = l /\ irq(cpu) = "none"
      BY <1>1, <1>2 DEF PInv, Starting, Quiet
    <2>2. QED
      BY <1>1, <1>2, <2>1, Consts DEF PInv, Starting, From
  <1>3. CASE cpu \in Procs
    <2>1. Level = "irq" => base(cpu) \in Own
      BY <1>1, <1>3 DEF PInv, Running, Quiet
    <2>2. /\ current \in ToSet(list) /\ current # cpu
          /\ \/ From = cpu /\ cpu \in ToSet(list) /\ cpu \notin exiting
             \/ From = Helper /\ cpu \notin ToSet(list)
      BY <1>1, <1>3 DEF PInv, Running, Scheduling, From, base, irq
    <2>3. Level = "base" /\ cpu \in ToSet(list) => cpu \in exiting
      BY <1>1 DEF PInv, Listed, Handing
    <2>4. QED
      BY <1>1, <1>3, <2>1, <2>2, <2>3, Consts DEF Level
  <1>4. QED
    BY <1>1, <1>2, <1>3

(* arch_switch_context, first half. *)
LEMMA SaveStep == PInv /\ SwitchSave => PInv'
  <1>1. SUFFICES ASSUME PInv, SwitchSave PROVE PInv'
    OBVIOUS
  <1>2. /\ cpu \in Contexts /\ current \in ToSet(list) /\ current # cpu
        /\ \/ cpu = Boot /\ From = Helper
           \/ cpu \in Procs /\ From = Helper /\ cpu \notin ToSet(list)
           \/ /\ cpu \in Procs /\ From = cpu /\ cpu \in ToSet(list) /\ cpu \notin exiting
              /\ Level = "irq"
        /\ \/ Level = "base" /\ base(cpu) = "save" /\ irq(cpu) = "none"
           \/ Level = "irq" /\ irq(cpu) = "save" /\ base(cpu) \in Own /\ cpu \in Procs
    BY <1>1, AtSwitch DEF SwitchSave
  <1>3. /\ loc' \in [Contexts -> [Levels -> Locations]]
        /\ \A c \in Contexts :
             /\ loc'[c]["base"] = IF c = cpu /\ irq(cpu) = "none" THEN "load" ELSE base(c)
             /\ loc'[c]["irq"] = IF c = cpu /\ irq(cpu) # "none" THEN "load" ELSE irq(c)
    <2>1. "load" \in Locations
      BY DEF Locations
    <2>2. QED
      BY <1>1, <2>1, Moved DEF PInv, SwitchSave
  <1>4. /\ list' = list /\ current' = current /\ exiting' = exiting
        /\ stacks' = stacks /\ cpu' = cpu /\ ifl' = ifl /\ from' = from /\ wticks' = wticks
        /\ UNCHANGED <<masked, inService, handler, post>>
        /\ runtime' = [runtime EXCEPT ![From] = 0]
        /\ saved' = [saved EXCEPT ![From] = cpu]
        /\ savedIf' = [savedIf EXCEPT ![cpu] = ifl]
    BY <1>1 DEF SwitchSave, bootVars, procVars
  <1>5. From \in Pcbs /\ From # current /\ current \in Procs /\ ifl \in BOOLEAN
    BY <1>1, <1>2, Consts, ListedAre DEF PInv, Types
  <1>6. /\ runtime' \in [Pcbs -> 0 .. Quantum] /\ saved' \in [Pcbs -> Contexts]
        /\ savedIf' \in [Contexts -> BOOLEAN]
    BY <1>1, <1>2, <1>4, <1>5, Consts DEF PInv, Types
  <1>7. /\ \A p \in Procs : runtime'[p] = (IF p = From THEN 0 ELSE runtime[p])
        /\ \A p \in Procs : saved'[p] = (IF p = From THEN cpu ELSE saved[p])
        /\ \A c \in Contexts : savedIf'[c] = (IF c = cpu THEN ifl ELSE savedIf[c])
    BY <1>1, <1>4, Consts DEF PInv, Types
  <1>8. Types' /\ Flags'
    BY <1>1, <1>3, <1>4, <1>6 DEF PInv, Types, Flags, Distinct
  <1>9. IrqOff'
    BY <1>1, <1>2, <1>3, <1>4, Consts DEF PInv, IrqOff, irq
  <1>10. Always'
    BY <1>1, <1>2, <1>3, <1>4, Consts DEF PInv, Always, base, irq, Handing
  <1>11. Listed'
    BY <1>1, <1>2, <1>3, <1>4, <1>7, Consts, ListedAre DEF PInv, Listed, base, irq, Handing
  <1>12. Parked'
    BY <1>1, <1>2, <1>3, <1>4, <1>7, Consts, ListedAre DEF PInv, Parked, base, irq, Own
  <1>13. Running'
    <2>1. irq(cpu) # "none" => ifl = FALSE
      BY <1>1 DEF PInv, IrqOff
    <2>2. QED
      BY <1>1, <1>2, <1>3, <1>4, <1>7, <2>1, Consts
         DEF PInv, Running, Scheduling, From, base, irq, Own, Handing, Quiet
  <1>14. Starting'
    BY <1>1, <1>2, <1>3, <1>4, <1>7, Consts DEF PInv, Starting, base, irq, Quiet
  <1>15. Posted'
    BY <1>1, <1>2, <1>3, <1>4, Consts DEF PInv, Posted, base
  <1>16. Ticks'
    <2>1. runtime'[current] = runtime[current] /\ loc'[cpu]["irq"] \notin {"eoi", "post"}
      BY <1>2, <1>3, <1>5, <1>7
    <2>2. QED
      BY <1>1, <1>4, <2>1 DEF PInv, Ticks, irq
  <1>17. QED
    BY <1>8, <1>9, <1>10, <1>11, <1>12, <1>13, <1>14, <1>15, <1>16 DEF PInv

(* The next process goes on where it was interrupted, on its own stack.    *)
LEMMA LoadStep == PInv /\ SwitchLoad => PInv'
  <1>1. SUFFICES ASSUME PInv, SwitchLoad PROVE PInv'
    OBVIOUS
  <1>2. /\ cpu \in Contexts /\ current \in ToSet(list) /\ current # cpu
        /\ \/ cpu = Boot /\ From = Helper
           \/ cpu \in Procs /\ From = Helper /\ cpu \notin ToSet(list)
           \/ /\ cpu \in Procs /\ From = cpu /\ cpu \in ToSet(list) /\ cpu \notin exiting
              /\ Level = "irq"
        /\ \/ Level = "base" /\ base(cpu) = "load" /\ irq(cpu) = "none"
           \/ Level = "irq" /\ irq(cpu) = "load" /\ base(cpu) \in Own /\ cpu \in Procs
    BY <1>1, AtSwitch DEF SwitchLoad
  <1> DEFINE l == AfterSwitch  p == current
  <1>3. l \in {"iret", "panic", "dead"} /\ (l = "iret" <=> Level = "irq") /\ Goto(l)
    BY <1>1, <1>2 DEF AfterSwitch, SwitchLoad
  <1> HIDE DEF l
  <1>4. /\ loc' \in [Contexts -> [Levels -> Locations]]
        /\ \A c \in Contexts :
             /\ loc'[c]["base"] = IF c = cpu /\ irq(cpu) = "none" THEN l ELSE base(c)
             /\ loc'[c]["irq"] = IF c = cpu /\ irq(cpu) # "none" THEN l ELSE irq(c)
    <2>1. l \in Locations
      BY <1>3 DEF Locations
    <2>2. QED
      BY <1>1, <1>3, <2>1, Moved DEF PInv
  <1>5. /\ p \in Procs /\ p \in ToSet(list) /\ saved[p] = p
        /\ base(p) \in Own /\ irq(p) \in {"none", "iret"}
        /\ irq(p) = "iret" => savedIf[p] = FALSE
    BY <1>1, <1>2, ListedAre DEF PInv, Listed, Parked
  <1>6. /\ list' = list /\ current' = p /\ exiting' = exiting /\ runtime' = runtime
        /\ saved' = saved /\ stacks' = stacks /\ from' = from /\ savedIf' = savedIf
        /\ UNCHANGED <<masked, inService, handler, post>>
        /\ cpu' = p /\ ifl' = savedIf[p] /\ wticks' = 0
    BY <1>1, <1>5 DEF SwitchLoad, bootVars, procVars
  <1>7. savedIf[p] \in BOOLEAN /\ 0 \in 0 .. WindowTicks
    BY <1>1, <1>5, Consts DEF PInv, Types
  <1>8. Types' /\ Flags'
    BY <1>1, <1>4, <1>5, <1>6, <1>7, Consts DEF PInv, Types, Flags, Distinct
  <1>9. IrqOff'
    BY <1>2, <1>4, <1>5, <1>6, Consts DEF IrqOff, irq
  <1>10. cpu \in Procs => base(cpu) \in Own \cup {"load"} /\ (Level = "base" => cpu \notin ToSet(list))
    BY <1>2, Consts
  <1>11. Always'
    BY <1>1, <1>2, <1>3, <1>4, <1>5, <1>6, Consts DEF PInv, Always, base, irq, Own, Handing
  <1>12. Listed'
    BY <1>1, <1>2, <1>3, <1>4, <1>6, <1>10, Consts, ListedAre DEF PInv, Listed, base, irq, Handing
  <1>13. Parked'
    <2>1. cpu \in ToSet(list) =>
            /\ Level = "irq" /\ irq(cpu) = "load" /\ base(cpu) \in Own
            /\ savedIf[cpu] = FALSE /\ runtime[cpu] = 0
      BY <1>1, <1>2, ListedAre, Consts DEF PInv, Running, Scheduling, irq
    <2>2. QED
      BY <1>1, <1>2, <1>3, <1>4, <1>6, <2>1, Consts, ListedAre DEF PInv, Parked, base, irq, Own
  <1>14. Running'
    <2>1. Procs \ Exiters \subseteq ToSet(list)
      BY <1>1, <1>2, Consts DEF PInv, Running, Starting
    <2>2. base(p) = "next" => from[p]["base"] = p
      BY <1>1, <1>5 DEF PInv, Listed
    <2>3. loc'[p]["base"] = base(p) /\ loc'[p]["irq"] = irq(p)
      BY <1>2, <1>4, <1>5, Consts
    <2>4. QED
      BY <1>2, <1>5, <1>6, <2>1, <2>2, <2>3
         DEF Running, Scheduling, base, irq, Own, Handing, Quiet
  <1>15. Starting'
    BY <1>5, <1>6, Consts DEF Starting
  <1>16. Posted'
    BY <1>1, <1>2, <1>5, <1>6, Consts DEF PInv, Posted
  <1>17. Ticks'
    BY <1>6 DEF Ticks
  <1>18. QED
    BY <1>8, <1>9, <1>11, <1>12, <1>13, <1>14, <1>15, <1>16, <1>17 DEF PInv

(* kernel_main at work.                                                    *)
LEMMA InMain ==
  ASSUME PInv, NEW l \in {"drivers", "unmask", "add", "register"}, At(l)
  PROVE  /\ cpu = Boot /\ base(Boot) = l /\ irq(Boot) = "none" /\ Boot \in Contexts
         /\ exiting = {} /\ stacks = ToSet(list) /\ post = FALSE
         /\ \A p \in Procs : base(p) = "user" /\ irq(p) = "none" /\ (p # current => runtime[p] = 0)
  <1>1. base(cpu) = l /\ irq(cpu) = "none"
    BY Where
  <1>2. cpu = Boot
    BY <1>1, Consts DEF PInv, Types, Running, Own, Handing
  <1>3. QED
    BY <1>1, <1>2, Consts DEF PInv, Starting, Posted

(* pit_init and enable_interrupts. *)
LEMMA SetUpStep == PInv /\ (InitDrivers \/ EnableInterrupts) => PInv'
  <1>1. SUFFICES ASSUME PInv, InitDrivers \/ EnableInterrupts PROVE PInv'
    OBVIOUS
  <1>2. \E l \in {"unmask", "add"} :
          /\ Goto(l) /\ (At("drivers") \/ At("unmask"))
          /\ UNCHANGED <<procVars, cpuVars, wticks, current, runtime, saved, from, inService, post>>
          /\ masked' \in BOOLEAN /\ handler' \in BOOLEAN
    BY <1>1 DEF InitDrivers, EnableInterrupts, PInv, Flags
  <1>3. PICK l \in {"unmask", "add"} : Goto(l)
    BY <1>2
  <1>4. /\ cpu = Boot /\ base(Boot) \in {"drivers", "unmask"} /\ irq(Boot) = "none" /\ Boot \in Contexts
        /\ exiting = {} /\ stacks = ToSet(list) /\ post = FALSE
        /\ \A p \in Procs : base(p) = "user" /\ irq(p) = "none" /\ (p # current => runtime[p] = 0)
    BY <1>1, <1>2, InMain
  <1>5. /\ loc' \in [Contexts -> [Levels -> Locations]]
        /\ \A c \in Contexts :
             /\ loc'[c]["base"] = IF c = Boot THEN l ELSE base(c)
             /\ loc'[c]["irq"] = irq(c)
    <2>1. l \in Locations
      BY DEF Locations
    <2>2. QED
      BY <1>1, <1>3, <1>4, <2>1, Moved DEF PInv
  <1>6. /\ list' = list /\ current' = current /\ exiting' = exiting /\ runtime' = runtime
        /\ saved' = saved /\ stacks' = stacks /\ cpu' = cpu /\ from' = from /\ ifl' = ifl
        /\ savedIf' = savedIf /\ wticks' = wticks /\ post' = post /\ inService' = inService
        /\ masked' \in BOOLEAN /\ handler' \in BOOLEAN
    BY <1>2 DEF procVars, cpuVars
  <1>7. Types' /\ Flags'
    BY <1>1, <1>5, <1>6 DEF PInv, Types, Flags, Distinct
  <1>8. IrqOff'
    BY <1>4, <1>5, <1>6 DEF IrqOff, irq
  <1>9. Always' /\ Listed' /\ Parked'
    BY <1>1, <1>4, <1>5, <1>6, Consts, ListedAre DEF PInv, Always, Listed, Parked, base, irq, Handing
  <1>10. Running'
    BY <1>4, <1>6, Consts DEF Running
  <1>11. Starting' /\ Posted'
    BY <1>1, <1>4, <1>5, <1>6, Consts DEF PInv, Starting, Posted, base, irq, Quiet
  <1>12. Ticks'
    BY <1>1, <1>4, <1>5, <1>6 DEF PInv, Ticks, irq
  <1>13. QED
    BY <1>7, <1>8, <1>9, <1>10, <1>11, <1>12 DEF PInv

(* proc_create_process and scheduler_add_process. *)
LEMMA AddStep == PInv /\ AddProcess => PInv'
  <1>1. SUFFICES ASSUME PInv, AddProcess PROVE PInv'
    OBVIOUS
  <1> DEFINE n == Len(list)
  <1>2. /\ cpu = Boot /\ base(Boot) = "add" /\ irq(Boot) = "none" /\ Boot \in Contexts
        /\ exiting = {} /\ stacks = ToSet(list) /\ post = FALSE
        /\ \A p \in Procs : base(p) = "user" /\ irq(p) = "none" /\ (p # current => runtime[p] = 0)
    BY <1>1, InMain DEF AddProcess
  <1>3. n \in Procs /\ n \notin ToSet(list) /\ current = Null /\ ToSet(list) = 0 .. n - 1
        /\ n \in Nat /\ n < NProcs
    <2>1. n \in Nat /\ n < NProcs /\ ToSet(list) = 0 .. n - 1 /\ current = Null
      BY <1>1, <1>2 DEF AddProcess, PInv, Types, Distinct, Starting
    <2> HIDE DEF n
    <2>2. QED
      BY <2>1, Consts DEF Procs
  <1>4. /\ list' = FifoEnqueue(n) /\ stacks' = stacks \cup {n}
        /\ saved' = [saved EXCEPT ![n] = n] /\ savedIf' = [savedIf EXCEPT ![n] = TRUE]
        /\ current' = current /\ exiting' = exiting /\ runtime' = runtime /\ cpu' = cpu
        /\ loc' = loc /\ from' = from /\ ifl' = ifl /\ wticks' = wticks
        /\ UNCHANGED <<masked, inService, handler, post>>
    BY <1>1 DEF AddProcess, bootVars
  <1>5. Distinct(Procs, list') /\ ToSet(list') = ToSet(list) \cup {n} /\ Len(list') = n + 1
    BY <1>1, <1>3, <1>4, Enqueued DEF PInv, Types
  <1> HIDE DEF n
  <1>6. /\ saved' \in [Pcbs -> Contexts] /\ savedIf' \in [Contexts -> BOOLEAN]
        /\ \A p \in Procs : saved'[p] = IF p = n THEN n ELSE saved[p]
    BY <1>1, <1>3, <1>4, Consts DEF PInv, Types
  <1>7. Types' /\ Flags'
    BY <1>1, <1>3, <1>4, <1>5, <1>6 DEF PInv, Types, Flags
  <1>8. IrqOff'
    BY <1>1, <1>4 DEF PInv, IrqOff, irq
  <1>9. Always'
    BY <1>1, <1>4 DEF PInv, Always, base, irq
  <1>10. Listed'
    BY <1>1, <1>2, <1>3, <1>4, <1>5, <1>6, ListedAre DEF PInv, Listed, base, irq, Handing
  <1>11. Parked'
    BY <1>1, <1>2, <1>3, <1>4, <1>5, Consts, ListedAre DEF PInv, Parked, base, irq, Own
  <1>12. Running'
    BY <1>2, <1>4, Consts DEF Running
  <1>13. ToSet(list') = 0 .. Len(list') - 1 /\ Len(list') <= NProcs
    BY <1>3, <1>5, Consts
  <1>14. Starting'
    BY <1>2, <1>3, <1>4, <1>5, <1>13, Consts DEF Starting, base, irq, Quiet
  <1>15. Posted'
    BY <1>1, <1>4 DEF PInv, Posted, base
  <1>16. Ticks'
    BY <1>3, <1>4 DEF Ticks
  <1>17. QED
    BY <1>7, <1>8, <1>9, <1>10, <1>11, <1>12, <1>14, <1>15, <1>16 DEF PInv

(* scheduler_start; all processes are on the list.                         *)
LEMMA FirstStep == PInv /\ StartFirst => PInv'
  <1>1. SUFFICES ASSUME PInv, StartFirst PROVE PInv'
    OBVIOUS
  <1>2. /\ cpu = Boot /\ base(Boot) = "add" /\ irq(Boot) = "none" /\ Boot \in Contexts
        /\ exiting = {} /\ stacks = ToSet(list) /\ post = FALSE
        /\ \A p \in Procs : base(p) = "user" /\ irq(p) = "none" /\ (p # current => runtime[p] = 0)
    BY <1>1, InMain DEF StartFirst
  <1>3. /\ list' = list /\ current' = Head(list) /\ exiting' = exiting /\ runtime' = runtime
        /\ saved' = saved /\ stacks' = stacks /\ cpu' = cpu /\ from' = from /\ ifl' = ifl
        /\ savedIf' = savedIf /\ wticks' = wticks
        /\ UNCHANGED <<masked, inService, handler, post>>
        /\ Goto("register")
    BY <1>1 DEF StartFirst, bootVars, procVars, cpuVars
  <1>4. /\ loc' \in [Contexts -> [Levels -> Locations]]
        /\ \A c \in Contexts :
             /\ loc'[c]["base"] = IF c = Boot THEN "register" ELSE base(c)
             /\ loc'[c]["irq"] = irq(c)
    <2>1. "register" \in Locations
      BY DEF Locations
    <2>2. QED
      BY <1>1, <1>2, <1>3, <2>1, Moved DEF PInv
  <1>5. ToSet(list) = Procs /\ current = Null
    BY <1>1, <1>2 DEF PInv, Starting, StartFirst, Procs
  <1>6. current' \in Procs
    <2>1. list \in Seq(Procs) /\ Len(list) = NProcs
      BY <1>1 DEF PInv, Types, Distinct, StartFirst
    <2>2. list # <<>>
      <3>1. NProcs # 0
        <4>1. PICK q \in Procs : q \notin Exiters
          BY Consts
        <4>2. QED
          BY <4>1, Consts DEF Procs
      <3>2. QED
        BY <2>1, <3>1
    <2>3. QED
      BY <1>3, <2>1, <2>2
  <1>7. runtime[current'] = 0
    BY <1>2, <1>5, <1>6, Consts
  <1>8. Types' /\ Flags'
    BY <1>1, <1>3, <1>4, <1>6 DEF PInv, Types, Flags, Distinct
  <1>9. IrqOff'
    BY <1>2, <1>3, <1>4 DEF IrqOff, irq
  <1>10. Always' /\ Listed'
    BY <1>1, <1>2, <1>3, <1>4, Consts, ListedAre DEF PInv, Always, Listed, base, irq, Handing
  <1>11. Parked'
    BY <1>1, <1>2, <1>3, <1>4, <1>5, Consts, ListedAre DEF PInv, Parked, base, irq, Own
  <1>12. Running'
    BY <1>2, <1>3, Consts DEF Running
  <1>13. Starting' /\ Posted'
    BY <1>1, <1>2, <1>3, <1>4, <1>5, <1>6, Consts DEF PInv, Starting, Posted, base, irq, Quiet
  <1>14. Ticks'
    BY <1>1, <1>2, <1>3, <1>4, <1>7, Consts DEF PInv, Types, Ticks, irq
  <1>15. QED
    BY <1>8, <1>9, <1>10, <1>11, <1>12, <1>13, <1>14 DEF PInv

(* scheduler_start registers the post routine. *)
LEMMA RegisterStep == PInv /\ StartRegister => PInv'
  <1>1. SUFFICES ASSUME PInv, StartRegister PROVE PInv'
    OBVIOUS
  <1>2. /\ cpu = Boot /\ base(Boot) = "register" /\ irq(Boot) = "none" /\ Boot \in Contexts
        /\ exiting = {} /\ stacks = ToSet(list)
        /\ \A p \in Procs : base(p) = "user" /\ irq(p) = "none" /\ (p # current => runtime[p] = 0)
    BY <1>1, InMain DEF StartRegister
  <1>3. /\ list' = list /\ current' = current /\ exiting' = exiting /\ runtime' = runtime
        /\ saved' = saved /\ stacks' = stacks /\ cpu' = cpu /\ ifl' = ifl
        /\ savedIf' = savedIf /\ wticks' = wticks
        /\ UNCHANGED <<masked, inService, handler>> /\ post' = TRUE
        /\ from' = [from EXCEPT ![Boot]["base"] = Helper] /\ Goto("save")
    BY <1>1 DEF StartRegister, procVars, cpuVars
  <1>4. /\ loc' \in [Contexts -> [Levels -> Locations]]
        /\ \A c \in Contexts :
             /\ loc'[c]["base"] = IF c = Boot THEN "save" ELSE base(c)
             /\ loc'[c]["irq"] = irq(c)
    <2>1. "save" \in Locations
      BY DEF Locations
    <2>2. QED
      BY <1>1, <1>2, <1>3, <2>1, Moved DEF PInv
  <1>5. /\ from' \in [Contexts -> [Levels -> Pcbs]] /\ from'[Boot]["base"] = Helper
        /\ \A p \in Procs : from'[p] = from[p]
    BY <1>1, <1>2, <1>3, Consts DEF PInv, Types
  <1>6. Types' /\ Flags'
    BY <1>1, <1>3, <1>4, <1>5 DEF PInv, Types, Flags, Distinct
  <1>7. IrqOff'
    BY <1>2, <1>3, <1>4 DEF IrqOff, irq
  <1>8. Always'
    BY <1>1, <1>2, <1>3, <1>4, Consts DEF PInv, Always, base, irq, Handing
  <1>9. Listed'
    BY <1>1, <1>2, <1>3, <1>4, <1>5, Consts, ListedAre DEF PInv, Listed, base, irq, Handing
  <1>10. Parked'
    BY <1>1, <1>2, <1>3, <1>4, Consts, ListedAre DEF PInv, Parked, base, irq, Own
  <1>11. Running'
    BY <1>2, <1>3, Consts DEF Running
  <1>12. Starting' /\ Posted'
    BY <1>1, <1>2, <1>3, <1>4, <1>5, Consts DEF PInv, Starting, Posted, base, irq, Quiet
  <1>13. Ticks'
    BY <1>1, <1>2, <1>3, <1>4 DEF PInv, Ticks, irq
  <1>14. QED
    BY <1>6, <1>7, <1>8, <1>9, <1>10, <1>11, <1>12, <1>13 DEF PInv

(* The invariant holds when kernel_main has turned interrupts on. *)
LEMMA InitP == Init => PInv
  <1>1. SUFFICES ASSUME Init PROVE PInv
    OBVIOUS
  <1>2. /\ list = <<>> /\ current = Null /\ exiting = {} /\ stacks = {} /\ cpu = Boot
        /\ runtime = [p \in Pcbs |-> 0] /\ saved = [p \in Pcbs |-> IF p = Helper THEN Boot ELSE p]
        /\ loc = [c \in Contexts |->
                     [base |-> IF c = Boot THEN "drivers" ELSE "user", irq |-> "none"]]
        /\ from = [c \in Contexts |-> [base |-> Helper, irq |-> Helper]]
        /\ savedIf = [c \in Contexts |-> TRUE] /\ wticks = 0
    BY <1>1 DEF Init
  <1>3. Flags /\ ifl \in BOOLEAN /\ post = FALSE
    BY <1>1 DEF Init, Flags
  <1>4. \A c \in Contexts : base(c) = (IF c = Boot THEN "drivers" ELSE "user") /\ irq(c) = "none"
    BY <1>2 DEF base, irq
  <1>5. /\ loc \in [Contexts -> [Levels -> Locations]]
        /\ from \in [Contexts -> [Levels -> Pcbs]]
    <2>1. "drivers" \in Locations /\ "user" \in Locations /\ "none" \in Locations
      BY DEF Locations
    <2>2. QED
      BY <1>2, <2>1, Consts
  <1>6. Distinct(Procs, list) /\ ToSet(list) = {} /\ Len(list) = 0
    BY <1>2 DEF Distinct, ToSet
  <1>7. Types
    BY <1>2, <1>3, <1>5, <1>6, Consts DEF Types
  <1>8. IrqOff
    BY <1>2, <1>4, Consts DEF IrqOff
  <1>9. Always
    BY <1>2, <1>4, Consts DEF Always, Handing
  <1>10. Listed /\ Parked /\ Running /\ Ticks
    BY <1>2, <1>6, Consts DEF Listed, Parked, Running, Ticks
  <1>11. Starting
    BY <1>2, <1>4, <1>6, Consts DEF Starting, Quiet
  <1>12. Posted
    BY <1>2, <1>3, <1>4, Consts DEF Posted
  <1>13. QED
    BY <1>3, <1>7, <1>8, <1>9, <1>10, <1>11, <1>12 DEF PInv

(* No step.                                                                *)
LEMMA StutterP == PInv /\ UNCHANGED vars => PInv'
  BY DEF vars, PInv, Types, Flags, IrqOff, Always, Listed, Parked, Running, Scheduling,
         Starting, Posted, Ticks, base, irq, Distinct

(* Every step of code, interrupts and scheduler preserves the invariant. *)
LEMMA StepP == PInv /\ [Next]_vars => PInv'
  BY SetUpStep, AddStep, FirstStep, RegisterStep, UserStep, ExitStep, TimerStep, EndStep,
     TickStep, IretStep, ReadStep, NextStep, FreeStep, DequeueStep, SaveStep, LoadStep,
     StutterP DEF Next, Kernel

(* The inductive invariant: what each context may be doing while another   *)
(* runs, and whose process current and from point to meanwhile.            *)
THEOREM SchedulerInvariance == Spec => []PInv
  <1>1. QED
    BY InitP, StepP, PTL DEF Spec

(* Every variable of the scheduler keeps its type; a process is on the     *)
(* list once.                                                              *)
THEOREM SchedulerTypeCorrect == Spec => []TypeOK
  <1>1. PInv => TypeOK
    <2>1. SUFFICES ASSUME PInv PROVE TypeOK
      OBVIOUS
    <2>2. list \in Seq(Procs) /\ IsInjective(list)
      BY <2>1, Elements DEF PInv, Types, Distinct, IsInjective
    <2>3. QED
      BY <2>1, <2>2, Consts DEF PInv, Types, Flags, TypeOK
  <1>2. QED
    BY <1>1, SchedulerInvariance, PTL

(* arch_switch_context never saves one context's stack into another's      *)
(* control block, whatever ticks fall between the statements of            *)
(* scheduler_schedule.                                                     *)
THEOREM ContextsKept == Spec => []ContextsNotCrossed
  <1>1. PInv => ContextsNotCrossed
    BY DEF PInv, Listed, ContextsNotCrossed
  <1>2. QED
    BY <1>1, SchedulerInvariance, PTL

(* vmm_free_page is called for a stack that is still mapped, and only      *)
(* after its process has returned.                                         *)
THEOREM StacksFreedOnce == Spec => []StackFreedOnce
  <1>1. PInv => StackFreedOnce
    <2>1. SUFFICES ASSUME PInv, At("free") PROVE From \in exiting /\ saved[From] \in stacks
      BY DEF StackFreedOnce
    <2>2. From = cpu /\ cpu \in exiting /\ cpu \in ToSet(list) /\ cpu \in Procs
          /\ \/ Level = "base" /\ base(cpu) = "free"
             \/ Level = "irq" /\ irq(cpu) = "free"
      BY <2>1, Inside
    <2>3. saved[cpu] = cpu /\ cpu \in stacks
      BY <2>1, <2>2 DEF PInv, Listed, Running, Scheduling, base, irq
    <2>4. QED
      BY <2>2, <2>3
  <1>2. QED
    BY <1>1, SchedulerInvariance, PTL

(* The scheduler follows no pointer to a control block that has been       *)
(* freed (sched_fifo_dequeue).                                             *)
THEOREM NoPcbAfterFree == Spec => []PcbsAlive
  <1>1. PInv => PcbsAlive
    <2>1. SUFFICES ASSUME PInv PROVE PcbsAlive
      OBVIOUS
    <2>2. post => current \in ToSet(list)
      <3>1. SUFFICES ASSUME post PROVE current \in ToSet(list)
        OBVIOUS
      <3>2. post # FALSE
        BY <3>1, Zenon
      <3>3. cpu \in Procs \/ (cpu = Boot /\ base(cpu) \in {"save", "load"})
        BY <2>1, <3>2, Consts DEF PInv, Types, Posted
      <3>4. QED
        BY <2>1, <3>3 DEF PInv, Running, Starting
    <2>3. At("next") \/ At("free") \/ At("dequeue") => From \in ToSet(list)
      BY <2>1, Inside
    <2>4. At("save") => From \in ToSet(list) \cup {Helper}
      BY <2>1, AtSwitch
    <2>5. QED
      BY <2>2, <2>3, <2>4 DEF PcbsAlive
  <1>2. QED
    BY <1>1, SchedulerInvariance, PTL

(* While a process runs on the stack page it has freed nobody else runs    *)
(* who could be given the page.                                            *)
THEOREM FreedStackKept == Spec => []FreedStackPrivate
  <1>1. PInv => FreedStackPrivate
    <2>1. SUFFICES ASSUME PInv, NEW p \in Procs, NEW l \in Levels,
                          loc[p][l] \in {"dequeue", "save", "load"}
                   PROVE  cpu = p
      BY DEF FreedStackPrivate
    <2>2. base(p) \in Handing \/ irq(p) \in Handing
      BY <2>1, Consts DEF base, irq, Handing
    <2>3. QED
      BY <2>1, <2>2 DEF PInv, Always
  <1>2. QED
    BY <1>1, SchedulerInvariance, PTL

(* kalloc and kfree, and the page allocator under them, take no lock and   *)
(* need none as long as one process alone calls them, kalloc_test, and     *)
(* only it returns: what the scheduler frees for it, its stack and its     *)
(* control block, comes when it is out of them.                            *)
THEOREM HeapNeedsNoLock ==
  ASSUME NEW h, HeapUsers \subseteq {h}
  PROVE  Spec => []HeapExclusive
  <1>1. PInv => HeapExclusive
    <2>1. SUFFICES ASSUME PInv, exiting \subseteq HeapUsers,
                          NEW c \in Procs, NEW d \in Procs, Allocating(c), Allocating(d)
                   PROVE  c = d /\ ~(loc[c]["base"] = "heap" /\ Reaping(c, "irq"))
      BY DEF HeapExclusive
    <2>2. ASSUME NEW e \in Procs,
                 base(e) \in {"free", "dequeue"} \/ irq(e) \in {"free", "dequeue"}
          PROVE  e \in exiting
      <3>1. e = cpu
        BY <2>1, <2>2 DEF PInv, Always, Handing
      <3>2. Scheduling("base") /\ Scheduling("irq")
        BY <2>1, <3>1 DEF PInv, Running
      <3>3. QED
        BY <2>2, <3>1, <3>2 DEF Scheduling, base, irq
    <2>3. ASSUME NEW e \in Procs, Allocating(e) PROVE e = h
      <3>1. \/ base(e) = "heap"
            \/ base(e) \in {"free", "dequeue"} \/ irq(e) \in {"free", "dequeue"}
        BY <2>3, Consts DEF Allocating, Reaping, base, irq
      <3>2. e \in HeapUsers
        BY <2>1, <2>2, <3>1 DEF PInv, Always
      <3>3. QED
        BY <3>2
    <2>4. irq(c) \in {"free", "dequeue"} => base(c) # "heap"
      BY <2>1, <2>2 DEF PInv, Always
    <2>5. QED
      BY <2>1, <2>3, <2>4 DEF Reaping, base, irq
  <1>2. QED
    BY <1>1, SchedulerInvariance, PTL

-----------------------------------------------------------------------------
(* Refinement: the list and current are the ring and the turn.             *)

(* Creating a process lets it join the ring.                               *)
LEMMA Joins == PInv /\ AddProcess => Ring!Next
  <1>1. SUFFICES ASSUME PInv, AddProcess PROVE Ring!Next
    OBVIOUS
  <1> DEFINE n == Len(list)
  <1>2. cpu = Boot /\ base(Boot) = "add"
    BY <1>1, InMain DEF AddProcess
  <1>3. n \in Procs /\ n \notin ToSet(list) /\ current = Null /\ n \in Nat
    <2>1. n \in Nat /\ n < NProcs /\ ToSet(list) = 0 .. n - 1 /\ current = Null
      BY <1>1, <1>2 DEF AddProcess, PInv, Types, Distinct, Starting
    <2> HIDE DEF n
    <2>2. QED
      BY <2>1, Consts DEF Procs
  <1>4. list' = FifoEnqueue(n) /\ UNCHANGED <<current, exiting>>
    BY <1>1 DEF AddProcess
  <1>5. PICK i \in 1 .. n + 1 : FifoEnqueue(n) = InsertAt(list, i, n)
    <2>1. CASE list = <<>>
      <3> DEFINE t == InsertAt(list, 1, n)
      <3>1. Distinct(Procs, t) /\ Len(t) = 1 /\ ToSet(t) = {n}
        <4>1. n = 0 /\ 1 \in 1 .. Len(list) + 1 /\ Distinct(Procs, list)
          BY <1>1, <2>1 DEF PInv, Types
        <4> HIDE DEF n
        <4>2. Distinct(Procs, t) /\ Len(t) = Len(list) + 1 /\ ToSet(t) = ToSet(list) \cup {n}
          BY <1>3, <4>1, Inserted
        <4>3. Len(list) = 0 /\ ToSet(list) = {}
          BY <2>1 DEF ToSet
        <4>4. QED
          BY <4>2, <4>3
      <3> HIDE DEF t, n
      <3>2. t \in Seq(Procs) /\ ToSet(t) = {t[j] : j \in 1 .. 1}
        BY <3>1, Elements DEF Distinct
      <3>3. t[1] = n
        BY <3>1, <3>2
      <3>4. t = <<n>>
        BY <1>3, <3>1, <3>2, <3>3
      <3>5. QED
        BY <1>3, <2>1, <3>4 DEF FifoEnqueue, t
    <2>2. CASE list # <<>>
      <3>1. 2 \in 1 .. n + 1
        BY <1>1, <2>2 DEF PInv, Types, Distinct
      <3>2. QED
        BY <2>2, <3>1 DEF FifoEnqueue
    <2>3. QED
      BY <2>1, <2>2
  <1> HIDE DEF n
  <1>6. Ring!Join(n)
    <2>1. Ring!ToSet(list) = ToSet(list) /\ InsertAt(list, i, n) = Ring!InsertAt(list, i, n)
      BY DEF ToSet, Ring!ToSet, InsertAt, Ring!InsertAt
    <2>2. i \in 1 .. Len(list) + 1
      BY <1>5 DEF n
    <2>3. QED
      BY <1>3, <1>4, <1>5, <2>1, <2>2 DEF Ring!Join
  <1>7. QED
    BY <1>3, <1>6 DEF Ring!Next

(* scheduler_start gives the first process its turn.                       *)
LEMMA Starts == PInv /\ StartFirst => Ring!Next
  <1>1. SUFFICES ASSUME PInv, StartFirst PROVE Ring!Start
    BY DEF Ring!Next
  <1>2. cpu = Boot /\ base(Boot) = "add"
    BY <1>1, InMain DEF StartFirst
  <1>3. current = Null /\ current' = Head(list) /\ UNCHANGED <<list, exiting>>
    BY <1>1, <1>2 DEF StartFirst, PInv, Starting, procVars
  <1>4. list # <<>>
    <2>1. PICK p \in Procs : TRUE
      BY Consts
    <2>2. NProcs # 0
      BY <2>1, Consts DEF Procs
    <2>3. QED
      BY <1>1, <2>2 DEF StartFirst
  <1>5. QED
    BY <1>3, <1>4 DEF Ring!Start

(* get_next_proc passes the turn on.                                       *)
LEMMA Passes == PInv /\ ScheduleNext => Ring!Next
  <1>1. SUFFICES ASSUME PInv, ScheduleNext PROVE Ring!Pass
    BY DEF Ring!Next
  <1> DEFINE k == Node(current)  n == Len(list)
  <1>2. current \in ToSet(list) /\ current' = FifoNext(current) /\ UNCHANGED <<list, exiting>>
    BY <1>1, Inside DEF ScheduleNext, procVars
  <1>3. k \in 1 .. n /\ list[k] = current /\ n \in Nat /\ DOMAIN list = 1 .. n
    BY <1>1, <1>2, Found, Elements DEF PInv, Types, Distinct
  <1>4. FifoNext(current) = IF k = n THEN list[1] ELSE list[k + 1]
    <2>1. list # <<>> /\ Head(list) = list[1]
      BY <1>1, <1>3 DEF PInv, Types, Distinct
    <2>2. QED
      BY <1>2, <2>1, Zenon DEF FifoNext
  <1> HIDE DEF k
  <1>5. (k % n) + 1 = IF k = n THEN 1 ELSE k + 1
    <2> HIDE DEF n
    <2>1. QED
      BY <1>3
  <1>6. FifoNext(current) = list[(k % n) + 1]
    BY <1>4, <1>5
  <1>7. QED
    BY <1>2, <1>3, <1>6 DEF Ring!Pass

(* scheduler_exit_current, and the process leaves the ring when the turn   *)
(* is another's.                                                           *)
LEMMA Leaves == PInv /\ (ExitCurrent \/ ScheduleDequeue) => Ring!Next
  <1>1. ASSUME PInv, ExitCurrent PROVE Ring!Return
    <2>1. base(cpu) = "exit" /\ irq(cpu) = "none"
      BY <1>1, Where DEF ExitCurrent
    <2>2. cpu \in Procs
      BY <1>1, <2>1, Consts DEF PInv, Types, Starting
    <2>3. current = cpu
      BY <1>1, <2>1, <2>2 DEF PInv, Running, Own, Handing
    <2>4. QED
      BY <1>1, <2>2, <2>3 DEF ExitCurrent, Ring!Return
  <1>2. ASSUME PInv, ScheduleDequeue PROVE Ring!Leave(cpu) /\ cpu \in Procs
    <2>1. cpu \in Procs /\ cpu \in ToSet(list) /\ From = cpu /\ cpu \in exiting /\ current # cpu
      BY <1>2, Inside DEF ScheduleDequeue
    <2>2. list' = RemoveAt(list, Node(cpu)) /\ UNCHANGED <<current, exiting>>
      BY <1>2, <2>1, Zenon DEF ScheduleDequeue, FifoDequeue
    <2>3. Node(cpu) \in DOMAIN list /\ list[Node(cpu)] = cpu
      BY <1>2, <2>1, Found, Elements DEF PInv, Types, Distinct
    <2>4. RemoveAt(list, Node(cpu)) = Ring!RemoveAt(list, Node(cpu))
      BY DEF RemoveAt, Ring!RemoveAt
    <2>5. QED
      BY <2>1, <2>2, <2>3, <2>4 DEF Ring!Leave
  <1>3. QED
    BY <1>1, <1>2 DEF Ring!Next

(* The scheduler implements RoundRobin: turns go round in the order of the *)
(* list, and a process leaves it only after it has returned and when it is *)
(* another's turn.  That turns do go round is left to the run (fairness).  *)
THEOREM RoundRobinKept == Spec => Ring!Spec
  <1>1. Init => Ring!Init
    BY DEF Init, Ring!Init
  <1>2. PInv /\ [Next]_vars => [Ring!Next]_(Ring!vars)
    <2>1. SUFFICES ASSUME PInv, [Next]_vars PROVE Ring!Next \/ UNCHANGED Ring!vars
      OBVIOUS
    <2>2. CASE AddProcess \/ StartFirst \/ ScheduleNext \/ ExitCurrent \/ ScheduleDequeue
      BY <2>1, <2>2, Joins, Starts, Passes, Leaves
    <2>3. CASE UNCHANGED <<list, current, exiting>>
      BY <2>3 DEF Ring!vars
    <2>4. QED
      BY <2>1, <2>2, <2>3
      DEF Next, Kernel, User, vars, InitDrivers, EnableInterrupts, StartRegister, EndIrq,
          Tick, Iret, ScheduleRead, ScheduleFree, SwitchSave, SwitchLoad, EnterHeap,
          LeaveHeap, ReturnFromProcess, TimerInterrupt, procVars
  <1>3. QED
    BY <1>1, <1>2, SchedulerInvariance, PTL DEF Spec, Ring!Spec

-----------------------------------------------------------------------------
(* What is left behind: nothing. *)

(* scheduler_start does not come back ("if we get here something very very *)
(* bad was going on"), nor does the last switch of a process that has      *)
(* returned; and a process that is off the list runs only on its way out.  *)
NoneComesBack ==
  /\ loc[cpu]["base"] \notin {"panic", "dead"}
  /\ cpu \in Procs \ ToSet(list) => \E l \in Levels : loc[cpu][l] \in {"save", "load"}

(* A process that is off the list has returned, and its stack is free:     *)
(* nothing is lost on the exit path, however often it is interrupted.      *)
NothingLeftBehind ==
  post => \A p \in Procs \ ToSet(list) : p \in exiting /\ p \notin stacks

(* The invariant this needs: the stack is freed by the time the process is *)
(* taken off the list.                                                     *)
StacksListed ==
  /\ stacks \subseteq ToSet(list)
  /\ \A l \in Levels : loc[cpu][l] = "dequeue" => cpu \notin stacks
  /\ post # FALSE => \A p \in Procs \ ToSet(list) : p \in exiting

(* Most steps leave stacks and list alone.                                 *)
LEMMA LeavesStacks ==
  ASSUME PInv, StacksListed, NEW l, l # "dequeue", Goto(l),
         UNCHANGED <<list, stacks, exiting, post, cpu>>
  PROVE  StacksListed'
  <1>1. \A v \in Levels : loc'[cpu][v] = IF v = Level THEN l ELSE loc[cpu][v]
    BY DEF Goto, PInv, Types, Level
  <1>2. QED
    BY <1>1 DEF StacksListed

(* Every step keeps them together. *)
LEMMA StacksStep == PInv /\ StacksListed /\ [Next]_vars => StacksListed'
  <1>1. SUFFICES ASSUME PInv, StacksListed, Next PROVE StacksListed'
    BY DEF StacksListed, vars
  <1>2. CASE AddProcess
    <2>1. post = FALSE /\ cpu = Boot /\ irq(cpu) \in Quiet /\ base(cpu) = "add"
      BY <1>1, <1>2, InMain DEF AddProcess, PInv, Posted, Starting
    <2>2. Len(list) \in Procs /\ Len(list) \notin ToSet(list)
      <3>1. Len(list) \in Nat /\ Len(list) < NProcs /\ ToSet(list) = 0 .. Len(list) - 1
        BY <1>1, <1>2, <2>1 DEF AddProcess, PInv, Types, Distinct, Starting
      <3>2. QED
        BY <3>1, Consts DEF Procs
    <2>3. ToSet(list') = ToSet(list) \cup {Len(list)} /\ stacks' = stacks \cup {Len(list)}
      BY <1>1, <1>2, <2>2, Enqueued DEF AddProcess, PInv, Types
    <2>4. UNCHANGED <<post, cpu, loc>>
      BY <1>2 DEF AddProcess, bootVars
    <2>5. \A l \in Levels : loc[cpu][l] # "dequeue"
      BY <2>1, Consts DEF base, irq, Quiet
    <2>6. QED
      BY <1>1, <2>1, <2>3, <2>4, <2>5 DEF StacksListed
  <1>3. CASE StartRegister
    <2>1. ToSet(list) = Procs
      BY <1>1, <1>3, InMain DEF StartRegister, PInv, Starting
    <2>2. /\ Goto("save") /\ UNCHANGED <<list, stacks, exiting, cpu>>
      BY <1>3 DEF StartRegister, procVars, cpuVars
    <2>3. \A v \in Levels : loc'[cpu][v] = IF v = Level THEN "save" ELSE loc[cpu][v]
      BY <1>1, <2>2 DEF Goto, PInv, Types, Level
    <2>4. QED
      BY <1>1, <2>1, <2>2, <2>3 DEF StacksListed
  <1>4. CASE ExitCurrent
    <2>1. Goto("read") /\ exiting \subseteq exiting' /\ UNCHANGED <<list, stacks, post, cpu>>
      BY <1>4 DEF ExitCurrent, bootVars, cpuVars
    <2>2. \A v \in Levels : loc'[cpu][v] = IF v = Level THEN "read" ELSE loc[cpu][v]
      BY <1>1, <2>1 DEF Goto, PInv, Types, Level
    <2>3. QED
      BY <1>1, <2>1, <2>2 DEF StacksListed
  <1>5. CASE ScheduleFree
    <2>1. From = cpu /\ cpu \in ToSet(list) /\ saved[cpu] = cpu
      BY <1>1, <1>5, Inside DEF ScheduleFree, PInv, Listed
    <2>2. stacks' = stacks \ {cpu} /\ UNCHANGED <<list, exiting, post, cpu>>
      BY <1>5, <2>1 DEF ScheduleFree, bootVars, cpuVars
    <2>3. QED
      BY <1>1, <2>2 DEF StacksListed
  <1>6. CASE ScheduleDequeue
    <2>1. From = cpu /\ cpu \in ToSet(list) /\ cpu \in exiting
      BY <1>1, <1>6, Inside DEF ScheduleDequeue
    <2>2. ToSet(list') = ToSet(list) \ {cpu}
      BY <1>1, <1>6, <2>1, Dequeued DEF ScheduleDequeue, PInv, Types
    <2>3. loc[cpu][Level] = "dequeue" /\ Level \in Levels
      BY <1>6 DEF ScheduleDequeue, At, Level, Levels
    <2>4. cpu \notin stacks
      BY <1>1, <2>3 DEF StacksListed
    <2>5. Goto("save") /\ UNCHANGED <<stacks, exiting, post, cpu>>
      BY <1>6 DEF ScheduleDequeue, bootVars, cpuVars
    <2>6. \A v \in Levels : loc'[cpu][v] = IF v = Level THEN "save" ELSE loc[cpu][v]
      BY <1>1, <2>5 DEF Goto, PInv, Types, Level
    <2>7. QED
      BY <1>1, <2>1, <2>2, <2>4, <2>5, <2>6 DEF StacksListed
  <1>7. CASE SwitchLoad
    <2>1. current # cpu /\ current \in ToSet(list) /\ saved[current] = current /\ current \in Procs
      BY <1>1, <1>7, AtSwitch, ListedAre DEF SwitchLoad, PInv, Listed
    <2>2. cpu' = current /\ UNCHANGED <<list, stacks, exiting, post>>
      BY <1>7, <2>1 DEF SwitchLoad, bootVars, procVars
    <2>3. \A v \in Levels : loc'[current][v] = loc[current][v]
      BY <1>1, <1>7, <2>1, Consts DEF SwitchLoad, Goto, PInv, Types
    <2>4. base(current) # "dequeue" /\ irq(current) # "dequeue"
      BY <1>1, <2>1 DEF PInv, Always, Handing
    <2>5. QED
      BY <1>1, <2>2, <2>3, <2>4, Consts DEF StacksListed, base, irq
  <1>8. CASE TimerInterrupt
    <2>1. \A v \in Levels : loc'[cpu][v] = IF v = "irq" THEN "eoi" ELSE loc[cpu][v]
      BY <1>1, <1>8 DEF TimerInterrupt, PInv, Types, Levels
    <2>2. UNCHANGED <<list, stacks, exiting, post, cpu>>
      BY <1>8 DEF TimerInterrupt, bootVars, procVars
    <2>3. QED
      BY <1>1, <2>1, <2>2 DEF StacksListed
  <1>9. CASE Tick \/ ScheduleNext
    <2>1. UNCHANGED <<list, stacks, exiting, post, cpu>>
      BY <1>9 DEF Tick, ScheduleNext, bootVars, procVars, cpuVars
    <2>2. \E l : l # "dequeue" /\ Goto(l)
      BY <1>9, Zenon DEF Tick, ScheduleNext, AfterSwitch
    <2>3. QED
      BY <1>1, <2>1, <2>2, LeavesStacks
  <1>10. CASE User \/ InitDrivers \/ EnableInterrupts \/ StartFirst \/ EndIrq \/ Iret
              \/ ScheduleRead \/ SwitchSave
    <2>1. UNCHANGED <<list, stacks, exiting, post, cpu>>
      BY <1>10
      DEF User, EnterHeap, LeaveHeap, ReturnFromProcess, InitDrivers, EnableInterrupts,
          StartFirst, EndIrq, Iret, ScheduleRead, SwitchSave, bootVars, procVars, cpuVars
    <2>2. \E l : l # "dequeue" /\ Goto(l)
      BY <1>10
      DEF User, EnterHeap, LeaveHeap, ReturnFromProcess, InitDrivers, EnableInterrupts,
          StartFirst, EndIrq, Iret, ScheduleRead, SwitchSave
    <2>3. QED
      BY <1>1, <2>1, <2>2, LeavesStacks
  <1>11. QED
    BY <1>1, <1>2, <1>3, <1>4, <1>5, <1>6, <1>7, <1>8, <1>9, <1>10 DEF Next, Kernel

(* The processor never comes back to where it was left for good.           *)
THEOREM SwitchedAwayForGood == Spec => []NoneComesBack
  <1>1. PInv => NoneComesBack
    <2>1. SUFFICES ASSUME PInv PROVE NoneComesBack
      OBVIOUS
    <2>2. loc[cpu]["base"] \notin {"panic", "dead"}
      BY <2>1, Consts DEF PInv, Types, Running, Starting, base, Own, Handing
    <2>3. ASSUME cpu \in Procs \ ToSet(list) PROVE base(cpu) \in {"save", "load"} \/ irq(cpu) \in {"save", "load"}
      BY <2>1, <2>3 DEF PInv, Running, Scheduling, base, irq, Own, Handing
    <2>4. QED
      BY <2>2, <2>3, Consts DEF NoneComesBack, base, irq
  <1>2. QED
    BY <1>1, SchedulerInvariance, PTL

(* A process is off the list only with its stack freed, and only after it  *)
(* has returned.                                                           *)
THEOREM ReapedWhole == Spec => []NothingLeftBehind
  <1>1. Init => StacksListed
    <2>1. SUFFICES ASSUME Init PROVE StacksListed
      OBVIOUS
    <2>2. stacks = {} /\ post = FALSE
      BY <2>1 DEF Init
    <2>3. QED
      BY <2>2 DEF StacksListed
  <1>2. StacksListed => NothingLeftBehind
    <2>1. SUFFICES ASSUME StacksListed, post PROVE \A p \in Procs \ ToSet(list) : p \in exiting /\ p \notin stacks
      BY DEF NothingLeftBehind
    <2>2. post # FALSE
      BY <2>1, Zenon
    <2>3. QED
      BY <2>1, <2>2 DEF StacksListed
  <1>3. QED
    BY <1>1, <1>2, StacksStep, SchedulerInvariance, PTL DEF Spec

-----------------------------------------------------------------------------
(* How long a process waits. *)

(* The turns that come before that of p. *)
TurnsAhead(p) ==
  LET d == Node(p) - Node(current) IN IF d >= 0 THEN d ELSE d + Len(list)

(* Each turn that passes, and each process that leaves, brings the turn of *)
(* every other process nearer, or leaves it where it is: between two turns *)
(* of a process no other has more than one, and sched_fifo_dequeue, which  *)
(* changes the list while turns go round, makes nobody lose a place.       *)
Nearer(p) ==
  p \in ToSet(list) /\ p \in ToSet(list') /\ current \notin {Null, p} =>
    /\ TurnsAhead(p) \in 1 .. Len(list) - 1
    /\ TurnsAhead(p)' <= TurnsAhead(p)
    /\ current' # current => TurnsAhead(p)' < TurnsAhead(p)

TurnsComeNearer == [][\A p \in Procs : Nearer(p)]_vars

(* Where a process stands in a list. *)
Place(s, p) == CHOOSE i \in DOMAIN s : s[i] = p

(* In a list without repetition that is one place. *)
LEMMA PlaceIs ==
  ASSUME NEW s, Distinct(Procs, s)
  PROVE  /\ Len(s) \in Nat
         /\ \A i \in 1 .. Len(s) : s[i] \in ToSet(s) /\ Place(s, s[i]) = i
         /\ \A p \in ToSet(s) : Place(s, p) \in 1 .. Len(s) /\ s[Place(s, p)] = p
  <1>1. /\ Len(s) \in Nat /\ ToSet(s) = {s[i] : i \in 1 .. Len(s)} /\ DOMAIN s = 1 .. Len(s)
    BY Elements DEF Distinct
  <1>2. ASSUME NEW p \in ToSet(s) PROVE Place(s, p) \in 1 .. Len(s) /\ s[Place(s, p)] = p
    <2>1. \E i \in DOMAIN s : s[i] = p
      BY <1>1
    <2>2. QED
      BY <1>1, <2>1 DEF Place
  <1>3. ASSUME NEW i \in 1 .. Len(s) PROVE s[i] \in ToSet(s) /\ Place(s, s[i]) = i
    <2>1. s[i] \in ToSet(s)
      BY <1>1
    <2>2. Place(s, s[i]) \in 1 .. Len(s) /\ s[Place(s, s[i])] = s[i]
      BY <1>2, <2>1
    <2>3. QED
      BY <2>1, <2>2 DEF Distinct
  <1>4. QED
    BY <1>1, <1>2, <1>3

(* It is what get_by_pid looks for, *)
LEMMA NodePlace ==
  ASSUME NEW p
  PROVE  Node(p) = Place(list, p) /\ Node(p)' = Place(list', p)
  BY DEF Node, Place

(* and finds. *)
LEMMA NodeAt ==
  ASSUME Distinct(Procs, list)
  PROVE  /\ Len(list) \in Nat
         /\ \A i \in 1 .. Len(list) : list[i] \in ToSet(list) /\ Node(list[i]) = i
         /\ \A p \in ToSet(list) : Node(p) \in 1 .. Len(list) /\ list[Node(p)] = p
  BY PlaceIs, NodePlace

(* As long as current is on the list, a process waits for less than a      *)
(* round.                                                                  *)
LEMMA TurnsAheadIs ==
  ASSUME PInv, NEW p \in ToSet(list), current \in ToSet(list), p # current
  PROVE  TurnsAhead(p) \in 1 .. Len(list) - 1
  <1> DEFINE k == Node(current)  n == Len(list)  j == Node(p)
  <1>1. /\ n \in Nat /\ k \in 1 .. n /\ list[k] = current /\ j \in 1 .. n /\ list[j] = p
    BY NodeAt DEF PInv, Types
  <1>2. TurnsAhead(p) = LET d == j - k IN IF d >= 0 THEN d ELSE d + n
    BY DEF TurnsAhead
  <1> HIDE DEF k, n, j
  <1>3. j # k
    BY <1>1
  <1>4. QED
    BY <1>1, <1>2, <1>3 DEF n

(* get_next_proc brings every process but the one whose turn it was nearer *)
(* by one place.                                                           *)
LEMMA PassNearer ==
  ASSUME PInv, ScheduleNext, NEW p \in ToSet(list), p # current
  PROVE  TurnsAhead(p)' = TurnsAhead(p) - 1
  <1> DEFINE k == Node(current)  n == Len(list)  j == Node(p)
  <1>1. current \in ToSet(list) /\ current' = FifoNext(current) /\ list' = list
    BY Inside DEF ScheduleNext, procVars
  <1>2. Distinct(Procs, list)
    BY DEF PInv, Types
  <1>3. /\ n \in Nat /\ k \in 1 .. n /\ list[k] = current /\ j \in 1 .. n /\ list[j] = p
        /\ j # k
    BY <1>1, <1>2, NodeAt
  <1>4. current' = IF k = n THEN list[1] ELSE list[k + 1]
    <2>1. list # <<>> /\ Head(list) = list[1]
      BY <1>2, <1>3 DEF Distinct
    <2>2. QED
      BY <1>1, <2>1, Zenon DEF FifoNext
  <1>5. Node(current') = IF k = n THEN 1 ELSE k + 1
    <2> HIDE DEF k, n
    <2>1. 1 \in 1 .. n /\ (k # n => k + 1 \in 1 .. n)
      BY <1>3
    <2>2. \A i \in 1 .. n : Node(list[i]) = i
      BY <1>2, NodeAt DEF n
    <2>3. QED
      BY <1>4, <2>1, <2>2
  <1>6. TurnsAhead(p)' = LET d == j - Node(current') IN IF d >= 0 THEN d ELSE d + n
    BY <1>1 DEF TurnsAhead, Node
  <1>7. TurnsAhead(p) = LET d == j - k IN IF d >= 0 THEN d ELSE d + n
    BY DEF TurnsAhead
  <1> HIDE DEF k, n, j
  <1>8. QED
    BY <1>3, <1>5, <1>6, <1>7 DEF n

(* sched_fifo_dequeue takes out a process whose turn it is not.            *)
LEMMA LeaveNearer ==
  ASSUME PInv, ScheduleDequeue, NEW p \in ToSet(list), p \in ToSet(list'), p # current
  PROVE  TurnsAhead(p)' <= TurnsAhead(p) /\ current' = current
  <1> DEFINE k == Node(current)  n == Len(list)  j == Node(p)  m == Node(cpu)
  <1>1. /\ cpu \in ToSet(list) /\ From = cpu /\ cpu \in exiting /\ current # cpu
        /\ list' = FifoDequeue(cpu) /\ current' = current /\ cpu \in Procs
    BY Inside DEF ScheduleDequeue
  <1>2. Distinct(Procs, list)
    BY DEF PInv, Types
  <1>3. current \in ToSet(list)
    BY <1>1 DEF PInv, Running
  <1>4. /\ n \in Nat /\ k \in 1 .. n /\ list[k] = current /\ j \in 1 .. n /\ list[j] = p
        /\ m \in 1 .. n /\ list[m] = cpu /\ j # k /\ m # k
    BY <1>1, <1>2, <1>3, NodeAt
  <1>5. list' = RemoveAt(list, m)
    BY <1>1, Zenon DEF FifoDequeue
  <1> HIDE DEF k, n, j, m
  <1>6. /\ Distinct(Procs, list') /\ ToSet(list') = ToSet(list) \ {cpu} /\ Len(list') = n - 1
        /\ \A i \in 1 .. n - 1 : list'[i] = IF i < m THEN list[i] ELSE list[i + 1]
    <2>1. m \in 1 .. Len(list)
      BY <1>4 DEF n
    <2> DEFINE t == RemoveAt(list, m)
    <2>2. /\ Distinct(Procs, t) /\ ToSet(t) = ToSet(list) \ {list[m]} /\ Len(t) = n - 1
          /\ \A i \in 1 .. n - 1 : t[i] = IF i < m THEN list[i] ELSE list[i + 1]
      BY <1>2, <2>1, Removed DEF n
    <2> HIDE DEF t
    <2>3. list' = t
      BY <1>5 DEF t
    <2>4. QED
      BY <1>4, <2>2, <2>3
  <1>7. j # m
    BY <1>4, <1>6
  <1>8. ASSUME NEW i \in 1 .. n, i # m
        PROVE  Place(list', list[i]) = IF i < m THEN i ELSE i - 1
    <2> DEFINE h == IF i < m THEN i ELSE i - 1
    <2>1. h \in 1 .. n - 1 /\ list'[h] = list[i]
      BY <1>4, <1>6, <1>8
    <2> HIDE DEF h
    <2>2. \A e \in 1 .. Len(list') : Place(list', list'[e]) = e
      BY <1>6, PlaceIs
    <2>3. Place(list', list'[h]) = h
      BY <1>6, <2>1, <2>2
    <2>4. QED
      BY <2>1, <2>3 DEF h
  <1>9. /\ Node(p)' = IF j < m THEN j ELSE j - 1
        /\ Node(current)' = IF k < m THEN k ELSE k - 1
    <2>1. Place(list', p) = IF j < m THEN j ELSE j - 1
      BY <1>4, <1>7, <1>8
    <2>2. Place(list', current) = IF k < m THEN k ELSE k - 1
      BY <1>4, <1>8
    <2>3. QED
      BY <1>1, <2>1, <2>2 DEF Node, Place
  <1>10. TurnsAhead(p)' = LET d == Node(p)' - Node(current)' IN IF d >= 0 THEN d ELSE d + (n - 1)
    BY <1>6 DEF TurnsAhead
  <1>11. TurnsAhead(p) = LET d == j - k IN IF d >= 0 THEN d ELSE d + n
    BY DEF TurnsAhead, j, k, n
  <1>12. j \in Nat /\ k \in Nat /\ m \in Nat /\ n \in Nat /\ j <= n /\ k <= n /\ m <= n
         /\ j >= 1 /\ k >= 1 /\ m >= 1 /\ j # k /\ j # m /\ k # m
    BY <1>4, <1>7
  <1>13. CASE j > k
    BY <1>1, <1>9, <1>10, <1>11, <1>12, <1>13
  <1>14. CASE j < k
    BY <1>1, <1>9, <1>10, <1>11, <1>12, <1>14
  <1>15. QED
    BY <1>12, <1>13, <1>14

(* The turns go round so that nobody is overtaken twice.                   *)
THEOREM NobodyOvertaken == Spec => TurnsComeNearer
  <1>0. ASSUME PInv, current # Null PROVE current \in ToSet(list)
    BY <1>0, Consts DEF PInv, Types, Running, Starting
  <1>1. PInv /\ [Next]_vars => [\A p \in Procs : Nearer(p)]_vars
    <2>1. SUFFICES ASSUME PInv, Next, NEW p \in Procs PROVE Nearer(p)
      OBVIOUS
    <2>0. ASSUME p \in ToSet(list), current \notin {Null, p}
          PROVE  TurnsAhead(p) \in 1 .. Len(list) - 1
      BY <1>0, <2>0, <2>1, TurnsAheadIs
    <2>2. CASE ScheduleNext
      <3>1. SUFFICES ASSUME p \in ToSet(list), current \notin {Null, p}
                     PROVE  /\ TurnsAhead(p) \in 1 .. Len(list) - 1
                            /\ TurnsAhead(p)' < TurnsAhead(p) /\ TurnsAhead(p)' <= TurnsAhead(p)
        BY DEF Nearer
      <3>2. TurnsAhead(p)' = TurnsAhead(p) - 1
        BY <2>1, <2>2, <3>1, PassNearer
      <3>3. QED
        BY <2>0, <3>1, <3>2
    <2>3. CASE ScheduleDequeue
      BY <2>0, <2>1, <2>3, LeaveNearer DEF Nearer
    <2>4. CASE AddProcess \/ StartFirst
      <3>1. current = Null
        BY <2>1, <2>4, InMain DEF AddProcess, StartFirst, PInv, Starting
      <3>2. QED
        BY <3>1 DEF Nearer
    <2>5. CASE UNCHANGED <<list, current>>
      <3>1. TurnsAhead(p)' = TurnsAhead(p)
        BY <2>5 DEF TurnsAhead, Node
      <3>2. TurnsAhead(p) \in 1 .. Len(list) - 1 => TurnsAhead(p) <= TurnsAhead(p)
        OBVIOUS
      <3>3. QED
        BY <2>0, <2>5, <3>1, <3>2 DEF Nearer
    <2>6. QED
      BY <2>1, <2>2, <2>3, <2>4, <2>5
      DEF Next, Kernel, User, InitDrivers, EnableInterrupts, StartRegister, EndIrq,
          Tick, Iret, ScheduleRead, ScheduleFree, SwitchSave, SwitchLoad, EnterHeap,
          LeaveHeap, ReturnFromProcess, TimerInterrupt, procVars, ExitCurrent
  <1>2. QED
    BY <1>1, SchedulerInvariance, PTL DEF Spec, TurnsComeNearer
=============================================================================
