-------------------------- MODULE InputQueueProofs --------------------------
(***************************************************************************)
(* Proofs about InputQueue, for every size of the ring, every width of its *)
(* counters that the size divides, and every set of keys.                  *)
(***************************************************************************)
EXTENDS InputQueue, SequenceTheorems, TLAPS

(* Remainders, as far as the ring needs them. *)
LEMMA Remainder ==
  ASSUME NEW n \in Nat \ {0}, NEW v \in 0 .. 2 * n - 1
  PROVE  v % n = IF v < n THEN v ELSE v - n
  <1>1. PICK q \in Int : v = (n * q) + (v % n) /\ v % n \in 0 .. n - 1
    <2>1. v = (n * (v \div n)) + (v % n) /\ v % n \in 0 .. n - 1 /\ v \div n \in Int
      OBVIOUS
    <2>2. QED
      BY <2>1
  <1>2. q = 0 \/ q = 1
    <2>1. CASE q < 0
      <3>1. n * q <= -n
        BY <2>1
      <3>2. QED
        BY <1>1, <3>1
    <2>2. CASE q > 1
      <3>1. n * q >= 2 * n
        BY <2>2
      <3>2. QED
        BY <1>1, <3>1
    <2>3. QED
      BY <2>1, <2>2
  <1>3. QED
    BY <1>1, <1>2

(* The ring's size and the counters' range, as the assumption gives them. *)
LEMMA Sizes ==
  /\ N \in Nat \ {0} /\ N > 2 /\ Word \in Nat \ {0} /\ Word >= 2 * N
  /\ Word % N = 0
  <1>1. N \in Nat \ {0} /\ N > 2 /\ Word \in Nat \ {0} /\ Word > N /\ Word % N = 0
    BY InputAssumption
  <1>2. Word \in 0 .. 2 * N - 1 => Word % N = Word - N
    BY <1>1, Remainder
  <1>3. QED
    BY <1>1, <1>2

(* head is a slot, or -1 before the first pop; between head++ and the      *)
(* modulus it may be the size of the ring.                                 *)
HeadInv ==
  /\ head \in 0 .. Word - 1 /\ tail \in Slots
  /\ pc # "wrap" => head \in Slots \/ head = Word - 1
  /\ pc = "wrap" => head \in 0 .. N

(* The slot behind h, whether h is a slot, their number, or -1.             *)
LEMMA Behind ==
  ASSUME NEW h \in 0 .. N \cup {Word - 1}
  PROVE  /\ (h + 1) % N = IF h < N - 1 THEN h + 1 ELSE IF h = N THEN 1 ELSE 0
         /\ (h + 1) % N \in Slots
  <1>1. CASE h \in 0 .. N
    <2> DEFINE v == h + 1
    <2>1. v \in 0 .. 2 * N - 1
      BY <1>1, Sizes
    <2>2. v % N = IF v < N THEN v ELSE v - N
      <3> HIDE DEF v
      <3>1. QED
        BY <2>1, Sizes, Remainder
    <2>3. QED
      BY <1>1, <2>2, Sizes DEF Slots
  <1>2. CASE h = Word - 1
    <2>1. h + 1 = Word /\ h > N
      BY <1>2, Sizes
    <2>2. (h + 1) % N = 0
      BY <2>1, Sizes, Zenon
    <2>3. 0 \in Slots /\ ~(h < N - 1) /\ h # N
      BY <2>1, Sizes DEF Slots
    <2>4. QED
      BY <2>2, <2>3
  <1>3. QED
    BY <1>1, <1>2

(* head is a slot, one past the last between two statements of a pop, or   *)
(* 255 at the start.                                                       *)
LEMMA HeadRange == HeadInv => head \in 0 .. N \cup {Word - 1}
  BY Sizes DEF HeadInv, Slots

(* The slot of the oldest unread event.                                    *)
LEMMA NextSlot ==
  ASSUME HeadInv
  PROVE  /\ NextOut = IF head < N - 1 THEN head + 1
                      ELSE IF head = N THEN 1 ELSE 0
         /\ NextOut \in Slots
  BY HeadRange, Behind DEF NextOut

(* The parser: the bytes on the wire are those of the event being typed,   *)
(* and the prefix is remembered while the second of two is to come.        *)
Wire ==
  \/ wire = <<>>
  \/ wire = <<Byte(FALSE, typed)>>
  \/ typed.extended /\ wire = <<Byte(TRUE, typed), Byte(FALSE, typed)>>

Parser ==
  /\ typed \in Events /\ extended \in BOOLEAN
  /\ Wire
  /\ extended <=> typed.extended /\ wire = <<Byte(FALSE, typed)>>

(* The ring, and what the reader has taken from it.                        *)
Ring ==
  ~overrun =>
    /\ Len(unread) <= N
    /\ tail = (NextOut + Len(unread)) % N
    /\ \A i \in 1 .. Len(unread) : data[(NextOut + i - 1) % N] = unread[i]

Taken ==
  ~overrun =>
    /\ pc \in {"type", "value", "increment"} => unread # <<>>
    /\ pc = "value" => out.release = Head(unread).release
    /\ pc = "increment" => out = Head(unread)

Rest ==
  /\ data \in [Slots -> Events] /\ out \in Events /\ unread \in Seq(Events)
  /\ pc \in {"idle", "type", "value", "increment", "wrap"}
  /\ overrun \in BOOLEAN
  /\ overrun => Len(unread) = N

QInv == HeadInv /\ Parser /\ Ring /\ Taken /\ Rest

(* The contents of the ring at boot are events, if of no key in            *)
(* particular.                                                             *)
LEMMA AnyEventIn == AnyEvent \in Events
  <1>1. PICK key \in Keys : TRUE
    BY InputAssumption
  <1>2. [extended |-> FALSE, key |-> key, release |-> FALSE] \in Events
    BY DEF Events
  <1>3. \E e \in Events : ~e.extended /\ ~e.release
    BY <1>2
  <1>4. QED
    BY <1>3 DEF AnyEvent

(* The invariant holds when input_queue_init has run. *)
LEMMA InitQ == Init => QInv
  <1>1. SUFFICES ASSUME Init PROVE QInv
    OBVIOUS
  <1>2. HeadInv
    BY <1>1, Sizes DEF Init, HeadInv, Slots
  <1>3. Parser
    BY <1>1, AnyEventIn DEF Init, Parser, Wire
  <1>4. Rest
    <2>1. overrun = FALSE /\ data \in [Slots -> Events] /\ out \in Events
      BY <1>1, AnyEventIn DEF Init
    <2>2. unread = <<>> /\ unread \in Seq(Events) /\ pc = "idle"
      BY <1>1 DEF Init
    <2>3. QED
      BY <2>1, <2>2 DEF Rest
  <1>5. Ring
    <2>1. NextOut = 0 /\ tail = 0 /\ unread = <<>>
      BY <1>1, <1>2, NextSlot, Sizes DEF Init
    <2>2. (NextOut + Len(unread)) % N = 0
      BY <2>1, Sizes
    <2>3. QED
      BY <1>1, <2>1, <2>2, Sizes DEF Ring
  <1>6. Taken
    BY <1>1 DEF Init, Taken
  <1>7. QED
    BY <1>2, <1>3, <1>4, <1>5, <1>6 DEF QInv

(* The slot i behind o.                                                    *)
LEMMA Offset ==
  ASSUME NEW o \in Slots, NEW i \in 0 .. N
  PROVE  /\ (o + i) % N = IF o + i < N THEN o + i ELSE o + i - N
         /\ (o + i) % N \in Slots
  <1> DEFINE v == o + i
  <1>1. v \in 0 .. 2 * N - 1
    BY Sizes DEF Slots
  <1>2. v % N = IF v < N THEN v ELSE v - N
    <2> HIDE DEF v
    <2>1. QED
      BY <1>1, Sizes, Remainder
  <1>3. QED
    BY <1>1, <1>2, Sizes DEF Slots

(* One slot on, and one place less: the same slot.                         *)
LEMMA Advance ==
  ASSUME NEW o \in Slots, NEW i \in 1 .. N, NEW p, p = IF o < N - 1 THEN o + 1 ELSE 0
  PROVE  (p + (i - 1)) % N = (o + i) % N
  <1>1. p \in Slots /\ i - 1 \in 0 .. N /\ i \in 0 .. N
    BY Sizes DEF Slots
  <1>2. (o + i) % N = IF o + i < N THEN o + i ELSE o + i - N
    BY <1>1, Offset
  <1>3. (p + (i - 1)) % N = IF p + (i - 1) < N THEN p + (i - 1) ELSE p + (i - 1) - N
    BY <1>1, Offset
  <1> DEFINE a == (o + i) % N  b == (p + (i - 1)) % N
  <1>4. a = b
    <2>1. a = (IF o + i < N THEN o + i ELSE o + i - N)
          /\ b = (IF p + (i - 1) < N THEN p + (i - 1) ELSE p + (i - 1) - N)
      BY <1>2, <1>3
    <2>2. N \in Nat /\ N > 2 /\ o \in 0 .. N - 1
      BY Sizes DEF Slots
    <2> HIDE DEF a, b
    <2>3. QED
      BY <2>1, <2>2
  <1>5. QED
    BY <1>4

(* The place of the i-th unread event, the tail being that behind the last.*)
LEMMA Place ==
  ASSUME HeadInv, NEW i \in 0 .. N
  PROVE  /\ (NextOut + i) % N = IF NextOut + i < N THEN NextOut + i ELSE NextOut + i - N
         /\ (NextOut + i) % N \in Slots
  BY NextSlot, Offset

(* The slot behind the tail.                                               *)
LEMMA TailNext ==
  ASSUME HeadInv
  PROVE  /\ (tail + 1) % N = IF tail < N - 1 THEN tail + 1 ELSE 0
         /\ (tail + 1) % N \in Slots
  <1> DEFINE v == tail + 1
  <1>1. tail \in 0 .. N - 1
    BY DEF HeadInv, Slots
  <1>2. v \in 0 .. 2 * N - 1
    BY <1>1, Sizes
  <1>3. v % N = IF v < N THEN v ELSE v - N
    <2> HIDE DEF v
    <2>1. QED
      BY <1>2, Sizes, Remainder
  <1>4. QED
    BY <1>1, <1>3, Sizes DEF Slots

(* The test for a full queue: N - 2 events, if head is a slot.             *)
LEMMA FullTest ==
  ASSUME HeadInv, Ring, ~overrun, unread \in Seq(Events)
  PROVE  IsFull <=> head \in Slots /\ Len(unread) = N - 2
  <1>1. Len(unread) \in 0 .. N /\ tail = (NextOut + Len(unread)) % N
    BY Sizes DEF Ring
  <1>2. tail = IF NextOut + Len(unread) < N THEN NextOut + Len(unread)
               ELSE NextOut + Len(unread) - N
    BY <1>1, Place
  <1>3. IsFull <=> head = IF tail < N - 1 THEN tail + 1 ELSE 0
    BY TailNext DEF IsFull
  <1>4. head \in 0 .. N \/ head = Word - 1
    BY Sizes DEF HeadInv, Slots
  <1> DEFINE k == Len(unread)  o == NextOut
  <1>5. k \in 0 .. N /\ tail = IF o + k < N THEN o + k ELSE o + k - N
    BY <1>1, <1>2
  <1>6. o = IF head < N - 1 THEN head + 1 ELSE IF head = N THEN 1 ELSE 0
    BY NextSlot
  <1>7. N > 2 /\ N \in Nat /\ Word \in Nat /\ Word >= 2 * N
    BY Sizes
  <1>8. (head = IF tail < N - 1 THEN tail + 1 ELSE 0) <=> head \in 0 .. N - 1 /\ k = N - 2
    <2> HIDE DEF k, o
    <2>1. CASE head \in 0 .. N - 2
      BY <1>5, <1>6, <1>7, <2>1
    <2>2. CASE head = N - 1
      BY <1>5, <1>6, <1>7, <2>2
    <2>3. CASE head = N
      BY <1>5, <1>6, <1>7, <2>3
    <2>4. CASE head = Word - 1
      BY <1>5, <1>6, <1>7, <2>4
    <2>5. QED
      BY <1>4, <1>7, <2>1, <2>2, <2>3, <2>4
  <1>9. QED
    BY <1>3, <1>8 DEF Slots

(* A push keeps the ring: the event goes into a free slot or is refused,   *)
(* or the full test has failed and overrun says so.                        *)
LEMMA EnqueueRing ==
  ASSUME QInv, NEW e \in Events, Enqueue(e), UNCHANGED <<pc, out>>
  PROVE  HeadInv' /\ Ring' /\ Taken' /\ Rest'
  <1> USE DEF QInv
  <1>1. CASE IsFull
    <2>1. UNCHANGED <<head, tail, data, unread, overrun, NextOut>>
      BY <1>1 DEF Enqueue, qvars, hvars, NextOut
    <2>2. QED
      BY <2>1 DEF HeadInv, Ring, Taken, Rest
  <1>2. CASE ~IsFull
    <2>1. /\ data' = [data EXCEPT ![tail] = e]
          /\ tail' = (tail + 1) % N
          /\ head' = head /\ NextOut' = NextOut
          /\ unread' = IF Len(unread) < N THEN Append(unread, e) ELSE unread
          /\ overrun' = (overrun \/ Len(unread) = N)
      BY <1>2 DEF Enqueue, NextOut
    <2>2. HeadInv'
      BY <2>1, TailNext DEF HeadInv
    <2>3. unread' \in Seq(Events) /\ data' \in [Slots -> Events] /\ overrun' \in BOOLEAN
      BY <2>1 DEF Rest, HeadInv
    <2>4. CASE overrun'
      <3>1. Len(unread) = N
        BY <2>1, <2>4 DEF Rest
      <3>2. unread' = unread
        BY <2>1, <3>1, Sizes
      <3>3. QED
        BY <2>2, <2>3, <2>4, <3>1, <3>2 DEF Ring, Taken, Rest
    <2>5. CASE ~overrun'
      <3>0. ~overrun /\ Len(unread) # N
        BY <2>1, <2>5
      <3>1. ~overrun /\ Len(unread) \in 0 .. N - 1
        <4>1. Len(unread) <= N
          BY <3>0 DEF Ring
        <4>2. Len(unread) \in Nat
          BY DEF Rest
        <4>3. Len(unread) \in 0 .. N - 1
          BY <3>0, <4>1, <4>2, Sizes
        <4>4. QED
          BY <3>0, <4>3
      <3>2. unread' = Append(unread, e) /\ Len(unread') = Len(unread) + 1
            /\ \A i \in 1 .. Len(unread) : unread'[i] = unread[i]
            /\ unread'[Len(unread) + 1] = e
        BY <2>1, <3>1, Sizes DEF Rest
      <3>3. tail' = (NextOut + Len(unread')) % N
        <4>1. tail = IF NextOut + Len(unread) < N THEN NextOut + Len(unread)
                     ELSE NextOut + Len(unread) - N
          BY <3>1, Place DEF Ring
        <4>2. (NextOut + Len(unread')) % N = IF NextOut + Len(unread') < N THEN NextOut + Len(unread')
                     ELSE NextOut + Len(unread') - N
          BY <3>1, <3>2, Place, Sizes
        <4>3. tail' = IF tail < N - 1 THEN tail + 1 ELSE 0
          BY <2>1, TailNext
        <4>4. QED
          BY <3>1, <3>2, <4>1, <4>2, <4>3, NextSlot, Sizes DEF Slots
      <3>4. ASSUME NEW i \in 1 .. Len(unread) PROVE data'[(NextOut + i - 1) % N] = unread'[i]
        <4>1. (NextOut + (i - 1)) % N # tail /\ (NextOut + (i - 1)) % N \in Slots
          <5>1. (NextOut + (i - 1)) % N = IF NextOut + (i - 1) < N THEN NextOut + (i - 1)
                                          ELSE NextOut + (i - 1) - N
            BY <3>1, Place, Sizes
          <5>2. tail = IF NextOut + Len(unread) < N THEN NextOut + Len(unread)
                       ELSE NextOut + Len(unread) - N
            BY <3>1, Place DEF Ring
          <5> DEFINE p == (NextOut + (i - 1)) % N  o == NextOut  k == Len(unread)
          <5>3. /\ p = IF o + (i - 1) < N THEN o + (i - 1) ELSE o + (i - 1) - N
                /\ tail = IF o + k < N THEN o + k ELSE o + k - N
                /\ o \in 0 .. N - 1 /\ k \in 0 .. N - 1 /\ i \in 1 .. k
            BY <3>1, <5>1, <5>2, NextSlot DEF Slots
          <5>4. N \in Nat /\ N > 2
            BY Sizes
          <5>5. p # tail /\ p \in 0 .. N - 1
            <6> HIDE DEF p, o, k
            <6>1. QED
              BY <5>3, <5>4
          <5>6. QED
            BY <5>5 DEF Slots
        <4>2. NextOut + i - 1 = NextOut + (i - 1)
          BY <3>1, NextSlot DEF Slots
        <4>3. QED
          BY <2>1, <3>1, <3>2, <4>1, <4>2 DEF Ring, Rest
      <3>5. data'[(NextOut + (Len(unread) + 1) - 1) % N] = e
        <4>1. NextOut + (Len(unread) + 1) - 1 = NextOut + Len(unread)
          BY <3>1, NextSlot DEF Slots
        <4>2. QED
          BY <2>1, <3>1, <4>1 DEF Ring, Rest, HeadInv
      <3>6. Ring'
        BY <2>1, <3>1, <3>2, <3>3, <3>4, <3>5, Sizes DEF Ring
      <3>7. Taken'
        <4>1. unread # <<>> => Head(unread') = Head(unread)
          BY <3>2 DEF Rest
        <4>2. unread' # <<>>
          BY <3>2
        <4>3. QED
          BY <3>1, <4>1, <4>2 DEF Taken
      <3>8. QED
        BY <2>2, <2>3, <2>5, <3>6, <3>7 DEF Rest
    <2>6. QED
      BY <2>4, <2>5
  <1>3. QED
    BY <1>1, <1>2

(* What is left of two bytes after the first.                              *)
LEMMA OfTwo ==
  ASSUME NEW S, NEW x \in S, NEW y \in S
  PROVE  Head(<<x, y>>) = x /\ Tail(<<x, y>>) = <<y>>
  <1> DEFINE s == <<x, y>>  t == Tail(s)
  <1>1. Head(s) = x
    OBVIOUS
  <1>2. s \in Seq(S) /\ Len(s) = 2 /\ s # <<>> /\ s[2] = y
    OBVIOUS
  <1>3. t \in Seq(S) /\ Len(t) = 1 /\ t[1] = y
    <2> HIDE DEF s
    <2>1. t \in Seq(S) /\ Len(t) = Len(s) - 1 /\ \A i \in 1 .. Len(t) : t[i] = s[i + 1]
      BY <1>2, HeadTailProperties
    <2> HIDE DEF t
    <2>2. QED
      BY <1>2, <2>1
  <1>4. t = <<y>>
    <2> HIDE DEF t
    <2>1. QED
      BY <1>3
  <1>5. QED
    BY <1>1, <1>4

(* An interrupt: a byte of the event being typed, decoded with the prefix. *)
LEMMA IrqStep == QInv /\ KeyboardIrq => QInv'
  <1>1. SUFFICES ASSUME QInv, KeyboardIrq PROVE QInv'
    OBVIOUS
  <1>2. wire # <<>> /\ wire' = Tail(wire) /\ UNCHANGED <<pc, out, typed>>
    BY <1>1 DEF KeyboardIrq, rvars
  <1>3. typed \in Events /\ typed.extended \in BOOLEAN /\ typed.key \in Keys /\ typed.release \in BOOLEAN
    BY <1>1 DEF QInv, Parser, Events
  <1>4. CASE wire = <<Byte(FALSE, typed)>>
    <2>1. Head(wire) = Byte(FALSE, typed) /\ Tail(wire) = <<>>
      BY <1>4
    <2>2. extended = typed.extended
      <3>1. extended <=> typed.extended
        BY <1>1, <1>4, Zenon DEF QInv, Parser
      <3>2. extended \in BOOLEAN
        BY <1>1 DEF QInv, Parser
      <3>3. QED
        BY <1>3, <3>1, <3>2
    <2> DEFINE e == [extended |-> extended, key |-> typed.key, release |-> typed.release]
    <2>3. e \in Events
      BY <1>3, <2>2 DEF Events
    <2>4. extended' = FALSE /\ Enqueue(e)
      BY <1>1, <2>1 DEF KeyboardIrq, Byte
    <2>5. HeadInv' /\ Ring' /\ Taken' /\ Rest'
      <3> HIDE DEF e
      <3>1. QED
        BY <1>1, <1>2, <2>3, <2>4, EnqueueRing
    <2>6. wire' = <<>>
      BY <1>2, <2>1
    <2>7. Parser'
      <3>1. wire' # <<Byte(FALSE, typed')>> /\ Wire'
        BY <2>6 DEF Wire
      <3>2. typed' \in Events /\ extended' = FALSE
        BY <1>2, <1>3, <2>4
      <3>3. QED
        BY <3>1, <3>2 DEF Parser
    <2>8. QED
      BY <2>5, <2>7 DEF QInv
  <1>5. CASE typed.extended /\ wire = <<Byte(TRUE, typed), Byte(FALSE, typed)>>
    <2>1. Head(wire).prefix /\ Tail(wire) = <<Byte(FALSE, typed)>>
      <3>1. Head(wire) = Byte(TRUE, typed) /\ Tail(wire) = <<Byte(FALSE, typed)>>
        <4> DEFINE x == Byte(TRUE, typed)  y == Byte(FALSE, typed)  S == {x, y}
        <4>1. x \in S /\ y \in S
          OBVIOUS
        <4> HIDE DEF x, y, S
        <4>2. Head(<<x, y>>) = x /\ Tail(<<x, y>>) = <<y>>
          BY <4>1, OfTwo
        <4>3. QED
          BY <1>5, <4>2 DEF x, y
      <3>2. QED
        BY <3>1 DEF Byte
    <2>2. extended' = TRUE /\ UNCHANGED <<qvars, hvars>>
      BY <1>1, <2>1 DEF KeyboardIrq
    <2>3. wire' = <<Byte(FALSE, typed')>>
      BY <1>2, <2>1
    <2>4. Parser'
      BY <1>2, <1>3, <1>5, <2>2, <2>3 DEF Parser, Wire
    <2>5. UNCHANGED <<head, tail, data, unread, overrun, NextOut>>
      BY <2>2 DEF qvars, hvars, NextOut
    <2>6. HeadInv' /\ Ring' /\ Taken' /\ Rest'
      BY <1>1, <1>2, <2>5 DEF QInv, HeadInv, Ring, Taken, Rest
    <2>7. QED
      BY <2>4, <2>6 DEF QInv
  <1>6. QED
    BY <1>1, <1>2, <1>4, <1>5 DEF QInv, Parser, Wire

(* A key is pressed or released.                                           *)
LEMMA TypeStep ==
  ASSUME QInv, NEW e \in Events, Type(e)
  PROVE  QInv'
  <1>1. /\ wire = <<>> /\ typed' = e
        /\ wire' = IF e.extended THEN <<Byte(TRUE, e), Byte(FALSE, e)>> ELSE <<Byte(FALSE, e)>>
        /\ UNCHANGED <<head, tail, data, pc, out, unread, overrun, extended, NextOut>>
    BY DEF Type, qvars, rvars, hvars, NextOut
  <1>2. HeadInv' /\ Ring' /\ Taken' /\ Rest'
    BY <1>1 DEF QInv, HeadInv, Ring, Taken, Rest
  <1>3. ~extended
    <2>1. wire # <<Byte(FALSE, typed)>>
      BY <1>1
    <2>2. QED
      BY <2>1 DEF QInv, Parser
  <1>4. Wire'
    BY <1>1 DEF Wire
  <1>5. ~(typed'.extended /\ wire' = <<Byte(FALSE, typed')>>)
    <2>1. CASE e.extended
      <3>1. wire' = <<Byte(TRUE, e), Byte(FALSE, e)>>
        BY <1>1, <2>1
      <3>2. wire' # <<Byte(FALSE, typed')>>
        BY <3>1
      <3>3. QED
        BY <3>2
    <2>2. CASE ~e.extended
      BY <1>1, <2>2
    <2>3. QED
      BY <2>1, <2>2
  <1>6. typed' \in Events /\ extended' \in BOOLEAN /\ ~extended'
    BY <1>1, <1>3 DEF QInv, Parser
  <1>7. Parser'
    BY <1>4, <1>5, <1>6 DEF Parser
  <1>8. QED
    BY <1>2, <1>7 DEF QInv

(* The event at the front of the ring.                                     *)
LEMMA Front ==
  ASSUME QInv, ~overrun, unread # <<>>
  PROVE  /\ data[NextOut] = Head(unread) /\ Head(unread) \in Events
         /\ Len(unread) \in 1 .. N
  <1>1. Len(unread) \in 1 .. N
    <2>1. Len(unread) <= N
      BY DEF QInv, Ring
    <2>2. unread \in Seq(Events)
      BY DEF QInv, Rest
    <2>3. QED
      BY <2>1, <2>2
  <1>2. data[(NextOut + 1 - 1) % N] = unread[1]
    BY <1>1 DEF QInv, Ring
  <1>3. NextOut \in Slots /\ NextOut + 1 - 1 = NextOut /\ NextOut + 0 = NextOut
    BY NextSlot DEF QInv, Slots
  <1>4. NextOut % N = NextOut
    <2>1. NextOut \in 0 .. 2 * N - 1 /\ NextOut < N
      BY <1>3, Sizes DEF Slots
    <2> DEFINE v == NextOut
    <2>2. v \in 0 .. 2 * N - 1 /\ v < N
      BY <2>1
    <2> HIDE DEF v
    <2>3. v % N = v
      BY <2>2, Sizes, Remainder
    <2>4. QED
      BY <2>3 DEF v
  <1>5. Head(unread) = unread[1] /\ Head(unread) \in Events
    BY <1>1 DEF QInv, Rest
  <1>6. data[NextOut] = unread[1]
    BY <1>2, <1>3, <1>4
  <1>7. QED
    BY <1>1, <1>5, <1>6

(* The reader leaves the parser alone.                                     *)
LEMMA ReaderKeepsParser ==
  ASSUME QInv, UNCHANGED kvars
  PROVE  Parser'
  <1>1. UNCHANGED <<extended, wire, typed>>
    BY DEF kvars
  <1>2. QED
    BY <1>1 DEF QInv, Parser, Wire

(* The queue is not empty when the reader goes on.                         *)
LEMMA CheckStep == QInv /\ PopCheck => QInv'
  <1>1. SUFFICES ASSUME QInv, PopCheck PROVE QInv'
    OBVIOUS
  <1>2. /\ ~overrun /\ pc' = "type" /\ pc = "idle" /\ NextOut # tail
        /\ UNCHANGED <<head, tail, data, out, unread, overrun, NextOut>>
    BY <1>1 DEF PopCheck, Reader, qvars, IsEmpty, NextOut
  <1>3. unread # <<>>
    <2>1. SUFFICES ASSUME unread = <<>> PROVE FALSE
      OBVIOUS
    <2>2. tail = (NextOut + 0) % N
      BY <1>1, <1>2, <2>1 DEF QInv, Ring
    <2>3. (NextOut + 0) % N = IF NextOut + 0 < N THEN NextOut + 0 ELSE NextOut + 0 - N
      BY <1>1, Place, Sizes DEF QInv
    <2>4. NextOut \in Slots
      BY <1>1, NextSlot DEF QInv
    <2>5. QED
      BY <1>2, <2>2, <2>3, <2>4, Sizes DEF Slots
  <1>4. HeadInv' /\ Ring' /\ Rest'
    BY <1>1, <1>2 DEF QInv, HeadInv, Ring, Rest
  <1>5. Taken'
    BY <1>2, <1>3 DEF Taken
  <1>6. Parser'
    BY <1>1, ReaderKeepsParser DEF PopCheck, Reader
  <1>7. QED
    BY <1>4, <1>5, <1>6 DEF QInv

(* The two halves of the event are copied from the front of the ring.      *)
LEMMA TypeCopied == QInv /\ PopType => QInv'
  <1>1. SUFFICES ASSUME QInv, PopType PROVE QInv'
    OBVIOUS
  <1>2. /\ ~overrun /\ pc = "type" /\ pc' = "value"
        /\ out' = [out EXCEPT !.release = data[NextOut].release]
        /\ UNCHANGED <<head, tail, data, unread, overrun, NextOut>>
    BY <1>1 DEF PopType, Reader, qvars, NextOut
  <1>3. unread # <<>>
    BY <1>1, <1>2 DEF QInv, Taken
  <1>4. data[NextOut] = Head(unread) /\ Head(unread) \in Events
    BY <1>1, <1>2, <1>3, Front
  <1>5. out \in Events
    BY <1>1 DEF QInv, Rest
  <1>6. out' \in Events /\ out'.release = Head(unread).release
    BY <1>2, <1>4, <1>5 DEF Events
  <1>7. HeadInv' /\ Ring' /\ Rest'
    BY <1>1, <1>2, <1>6 DEF QInv, HeadInv, Ring, Rest
  <1>8. Taken'
    BY <1>2, <1>3, <1>6 DEF Taken
  <1>9. Parser'
    BY <1>1, ReaderKeepsParser DEF PopType, Reader
  <1>10. QED
    BY <1>7, <1>8, <1>9 DEF QInv

(* The reader copies the value of the slot at its head. *)
LEMMA ValueCopied == QInv /\ PopValue => QInv'
  <1>1. SUFFICES ASSUME QInv, PopValue PROVE QInv'
    OBVIOUS
  <1>2. /\ ~overrun /\ pc = "value" /\ pc' = "increment"
        /\ out' = [data[NextOut] EXCEPT !.release = out.release]
        /\ UNCHANGED <<head, tail, data, unread, overrun, NextOut>>
    BY <1>1 DEF PopValue, Reader, qvars, NextOut
  <1>3. unread # <<>> /\ out.release = Head(unread).release
    BY <1>1, <1>2 DEF QInv, Taken
  <1>4. data[NextOut] = Head(unread) /\ Head(unread) \in Events
    BY <1>1, <1>2, <1>3, Front
  <1>5. out' = Head(unread)
    BY <1>2, <1>3, <1>4 DEF Events
  <1>6. HeadInv' /\ Ring' /\ Rest'
    BY <1>1, <1>2, <1>4, <1>5 DEF QInv, HeadInv, Ring, Rest
  <1>7. Taken'
    BY <1>2, <1>3, <1>5 DEF Taken
  <1>8. Parser'
    BY <1>1, ReaderKeepsParser DEF PopValue, Reader
  <1>9. QED
    BY <1>6, <1>7, <1>8 DEF QInv

(* The front is taken: head goes on by one, through -1 and 2^8 to 0.       *)
LEMMA IncrementStep == QInv /\ PopIncrement => QInv'
  <1>1. SUFFICES ASSUME QInv, PopIncrement PROVE QInv'
    OBVIOUS
  <1>2. /\ ~overrun /\ pc = "increment" /\ pc' = "wrap"
        /\ head' = (head + 1) % Word /\ unread' = Tail(unread)
        /\ UNCHANGED <<tail, data, out, overrun>>
    BY <1>1 DEF PopIncrement, Reader
  <1>3. unread # <<>> /\ unread \in Seq(Events)
    BY <1>1, <1>2 DEF QInv, Taken, Rest
  <1>4. Len(unread) \in 1 .. N
    BY <1>1, <1>2, <1>3, Front
  <1>5. head \in 0 .. N - 1 \/ head = Word - 1
    BY <1>1, <1>2 DEF QInv, HeadInv, Slots
  <1>6. head' = IF head = Word - 1 THEN 0 ELSE head + 1
    <2> DEFINE v == head + 1
    <2>1. v \in 0 .. 2 * Word - 1
      BY <1>5, Sizes
    <2>2. v % Word = IF v < Word THEN v ELSE v - Word
      <3> HIDE DEF v
      <3>1. QED
        BY <2>1, Sizes, Remainder
    <2>3. QED
      BY <1>2, <1>5, <2>2, Sizes
  <1>7. head' \in 0 .. N
    BY <1>5, <1>6, Sizes
  <1>8. HeadInv'
    BY <1>1, <1>2, <1>7, Sizes DEF QInv, HeadInv
  <1>9. NextOut \in Slots /\ NextOut' \in Slots
        /\ NextOut' = IF NextOut < N - 1 THEN NextOut + 1 ELSE 0
    <2>1. NextOut = (IF head < N - 1 THEN head + 1 ELSE IF head = N THEN 1 ELSE 0) /\ NextOut \in Slots
      BY <1>1, NextSlot DEF QInv
    <2>2. (head' + 1) % N = (IF head' < N - 1 THEN head' + 1 ELSE IF head' = N THEN 1 ELSE 0)
          /\ (head' + 1) % N \in Slots
      BY <1>7, Behind
    <2>3. NextOut' = (head' + 1) % N
      BY DEF NextOut
    <2> DEFINE h == head  g == head'  o == NextOut  p == NextOut'
    <2>4. /\ h \in 0 .. N - 1 \/ h = Word - 1
          /\ g = (IF h = Word - 1 THEN 0 ELSE h + 1)
          /\ o = (IF h < N - 1 THEN h + 1 ELSE IF h = N THEN 1 ELSE 0)
          /\ p = (IF g < N - 1 THEN g + 1 ELSE IF g = N THEN 1 ELSE 0)
          /\ N \in Nat /\ N > 2 /\ Word \in Nat /\ Word >= 2 * N
      BY <1>5, <1>6, <2>1, <2>2, <2>3, Sizes
    <2>5. p = IF o < N - 1 THEN o + 1 ELSE 0
      <3> HIDE DEF h, g, o, p
      <3>1. CASE h = Word - 1
        BY <2>4, <3>1
      <3>2. CASE h \in 0 .. N - 1
        BY <2>4, <3>2
      <3>3. QED
        BY <2>4, <3>1, <3>2
    <2>6. QED
      BY <2>1, <2>2, <2>3, <2>5
  <1>10. unread' \in Seq(Events) /\ Len(unread') = Len(unread) - 1
         /\ \A i \in 1 .. Len(unread') : unread'[i] = unread[i + 1]
    BY <1>2, <1>3, HeadTailProperties
  <1>11. ASSUME NEW i \in 1 .. N PROVE (NextOut' + (i - 1)) % N = (NextOut + i) % N
    <2> DEFINE o == NextOut  p == NextOut'
    <2>1. o \in Slots /\ p = IF o < N - 1 THEN o + 1 ELSE 0
      BY <1>9
    <2> HIDE DEF o, p
    <2>2. (p + (i - 1)) % N = (o + i) % N
      BY <2>1, Advance
    <2>3. QED
      BY <2>2 DEF o, p
  <1>12. Ring'
    <2>1. Len(unread') <= N
      BY <1>4, <1>10, Sizes
    <2>2. tail' = (NextOut' + Len(unread')) % N
      BY <1>1, <1>2, <1>4, <1>10, <1>11 DEF QInv, Ring
    <2>3. ASSUME NEW i \in 1 .. Len(unread')
          PROVE  data'[(NextOut' + i - 1) % N] = unread'[i]
      <3>1. i \in 1 .. N /\ i + 1 \in 1 .. Len(unread) /\ i \in Int
        <4> DEFINE k == Len(unread)  k2 == Len(unread')
        <4>1. k \in 1 .. N /\ k2 = k - 1 /\ i \in 1 .. k2 /\ N \in Nat
          BY <1>4, <1>10, Sizes
        <4>2. i \in 1 .. N /\ i + 1 \in 1 .. k /\ i \in Int
          <5> HIDE DEF k, k2
          <5>1. QED
            BY <4>1
        <4>3. QED
          BY <4>2
      <3>2. data[(NextOut + (i + 1) - 1) % N] = unread[i + 1]
        BY <1>1, <1>2, <3>1 DEF QInv, Ring
      <3>3. NextOut + (i + 1) - 1 = NextOut + i /\ NextOut' + i - 1 = NextOut' + (i - 1)
        BY <1>9, <3>1 DEF Slots
      <3>4. QED
        BY <1>2, <1>10, <1>11, <3>1, <3>2, <3>3
    <2>4. QED
      BY <2>1, <2>2, <2>3 DEF Ring
  <1>13. Taken' /\ Rest'
    BY <1>1, <1>2, <1>10 DEF QInv, Taken, Rest
  <1>14. Parser'
    BY <1>1, ReaderKeepsParser DEF PopIncrement, Reader
  <1>15. QED
    BY <1>8, <1>12, <1>13, <1>14 DEF QInv

(* The modulus changes head and not the slot behind it.                    *)
LEMMA WrapStep == QInv /\ PopWrap => QInv'
  <1>1. SUFFICES ASSUME QInv, PopWrap PROVE QInv'
    OBVIOUS
  <1>2. /\ pc = "wrap" /\ pc' = "idle" /\ head' = head % N
        /\ UNCHANGED <<tail, data, out, unread, overrun>>
    BY <1>1 DEF PopWrap, Reader
  <1>3. head \in 0 .. N
    BY <1>1, <1>2 DEF QInv, HeadInv
  <1>4. head' = IF head < N THEN head ELSE 0
    <2> DEFINE v == head
    <2>1. v \in 0 .. 2 * N - 1 /\ v \in 0 .. N
      BY <1>3, Sizes
    <2>2. v % N = IF v < N THEN v ELSE 0
      <3> HIDE DEF v
      <3>1. v % N = IF v < N THEN v ELSE v - N
        BY <2>1, Sizes, Remainder
      <3>2. QED
        BY <2>1, <3>1, Sizes
    <2>3. QED
      BY <1>2, <2>2
  <1>5. head' \in Slots
    BY <1>3, <1>4, Sizes DEF Slots
  <1>6. HeadInv'
    BY <1>1, <1>2, <1>5, Sizes DEF QInv, HeadInv, Slots
  <1>7. NextOut' = NextOut
    <2>1. NextOut = IF head < N - 1 THEN head + 1 ELSE IF head = N THEN 1 ELSE 0
      BY <1>1, NextSlot DEF QInv
    <2>2. (head' + 1) % N = IF head' < N - 1 THEN head' + 1 ELSE IF head' = N THEN 1 ELSE 0
      BY <1>5, Behind, Sizes DEF Slots
    <2>3. NextOut' = (head' + 1) % N
      BY DEF NextOut
    <2>4. QED
      BY <1>3, <1>4, <2>1, <2>2, <2>3, Sizes
  <1>8. Ring' /\ Taken' /\ Rest'
    BY <1>1, <1>2, <1>7 DEF QInv, Ring, Taken, Rest
  <1>9. Parser'
    BY <1>1, ReaderKeepsParser DEF PopWrap, Reader
  <1>10. QED
    BY <1>6, <1>8, <1>9 DEF QInv

(* A pop from an empty queue changes nothing. *)
LEMMA EmptyStep == QInv /\ PopEmpty => QInv'
  <1>1. SUFFICES ASSUME QInv, PopEmpty PROVE QInv'
    OBVIOUS
  <1>2. UNCHANGED <<head, tail, data, pc, out, unread, overrun, NextOut>>
    BY <1>1 DEF PopEmpty, Reader, qvars, NextOut
  <1>3. HeadInv' /\ Ring' /\ Taken' /\ Rest'
    BY <1>1, <1>2 DEF QInv, HeadInv, Ring, Taken, Rest
  <1>4. Parser'
    BY <1>1, ReaderKeepsParser DEF PopEmpty, Reader
  <1>5. QED
    BY <1>3, <1>4 DEF QInv

(* Nothing changes. *)
LEMMA StutterQ == QInv /\ UNCHANGED vars => QInv'
  <1>1. SUFFICES ASSUME QInv, UNCHANGED vars PROVE QInv'
    OBVIOUS
  <1>2. UNCHANGED <<head, tail, data, pc, out, unread, overrun, NextOut>> /\ UNCHANGED kvars
    BY <1>1 DEF vars, qvars, kvars, rvars, hvars, NextOut
  <1>3. HeadInv' /\ Ring' /\ Taken' /\ Rest'
    BY <1>1, <1>2 DEF QInv, HeadInv, Ring, Taken, Rest
  <1>4. Parser'
    BY <1>1, <1>2, ReaderKeepsParser
  <1>5. QED
    BY <1>3, <1>4 DEF QInv

(* Every step of keyboard and reader preserves the invariant. *)
LEMMA StepQ == QInv /\ [Next]_vars => QInv'
  <1>1. QInv /\ (\E e \in Events : Type(e)) => QInv'
    BY TypeStep
  <1>2. QED
    BY <1>1, IrqStep, EmptyStep, CheckStep, TypeCopied, ValueCopied, IncrementStep,
       WrapStep, StutterQ DEF Next

(* The inductive invariant: where head may be at each statement of a pop,  *)
(* what the parser remembers of the bytes on the wire, and what of the     *)
(* front event the reader has copied.                                      *)
THEOREM QueueInvariance == Spec => []QInv
  <1>1. QED
    BY InitQ, StepQ, PTL DEF Spec

(* Every variable keeps its type; overrun and the parser's flag are        *)
(* Booleans, the wire holds bytes of keys (input_enqueue_event, input.c).  *)
THEOREM QueueTypeCorrect == Spec => []TypeOK
  <1>1. QInv => TypeOK
    <2>1. SUFFICES ASSUME QInv PROVE TypeOK
      OBVIOUS
    <2> DEFINE B == [prefix : BOOLEAN, key : Keys, release : BOOLEAN]
    <2>2. typed.key \in Keys /\ typed.release \in BOOLEAN
      BY <2>1 DEF QInv, Parser, Events
    <2>3. Byte(TRUE, typed) \in B /\ Byte(FALSE, typed) \in B
      BY <2>2 DEF Byte
    <2>4. wire \in Seq(B)
      <3>1. wire = <<>> \/ wire = <<Byte(FALSE, typed)>> \/ wire = <<Byte(TRUE, typed), Byte(FALSE, typed)>>
        BY <2>1 DEF QInv, Parser, Wire
      <3> DEFINE x == Byte(TRUE, typed)  y == Byte(FALSE, typed)
      <3>2. x \in B /\ y \in B
        BY <2>3
      <3> HIDE DEF B, x, y
      <3>3. <<>> \in Seq(B) /\ <<y>> \in Seq(B) /\ <<x, y>> \in Seq(B)
        BY <3>2
      <3>4. QED
        BY <3>1, <3>3 DEF x, y
    <2>5. QED
      BY <2>1, <2>4 DEF QInv, HeadInv, Parser, Rest, TypeOK
  <1>2. QED
    BY <1>1, QueueInvariance, PTL

(* Until an overrun the ring is the sequence of the accepted events        *)
(* (input_enqueue_event and input_event_pop), for every size of it.        *)
THEOREM RingIsQueue == Spec => []RingHoldsUnread
  <1>1. QInv => RingHoldsUnread
    BY DEF QInv, Ring, RingHoldsUnread
  <1>2. QED
    BY <1>1, QueueInvariance, PTL

(* ps2_keyboard_parse remembers the prefix exactly while the second byte   *)
(* of an extended key is to come.                                          *)
THEOREM PrefixKept == Spec => []PrefixInStep
  <1>1. QInv => PrefixInStep
    <2>1. SUFFICES ASSUME QInv PROVE PrefixInStep
      OBVIOUS
    <2>2. extended <=> typed.extended /\ wire = <<Byte(FALSE, typed)>>
      BY <2>1 DEF QInv, Parser
    <2>3. CASE wire = <<>>
      <3>1. wire # <<Byte(FALSE, typed)>>
        BY <2>3
      <3>2. QED
        BY <2>2, <2>3, <3>1 DEF PrefixInStep
    <2>4. CASE wire = <<Byte(FALSE, typed)>>
      <3>1. Head(wire) = Byte(FALSE, typed) /\ wire # <<>>
        BY <2>4
      <3>2. ~Head(wire).prefix
        BY <3>1 DEF Byte
      <3>3. QED
        BY <2>2, <2>4, <3>1, <3>2 DEF PrefixInStep
    <2>5. CASE wire = <<Byte(TRUE, typed), Byte(FALSE, typed)>>
      <3>1. Head(wire) = Byte(TRUE, typed)
        BY <2>5
      <3>2. Head(wire).prefix
        BY <3>1 DEF Byte
      <3>3. wire # <<Byte(FALSE, typed)>>
        BY <2>5
      <3>4. QED
        BY <2>2, <3>2, <3>3 DEF PrefixInStep
    <2>6. QED
      BY <2>1, <2>3, <2>4, <2>5 DEF QInv, Parser, Wire
  <1>2. QED
    BY <1>1, QueueInvariance, PTL

(* What input_event_pop has copied when it advances head is the oldest     *)
(* event, both halves of it, whatever interrupts came between.             *)
THEOREM PopIsWhole == Spec => []PoppedIsOldest
  <1>1. QInv => PoppedIsOldest
    BY DEF QInv, Taken, PoppedIsOldest
  <1>2. QED
    BY <1>1, QueueInvariance, PTL

(* The test for a full queue refuses no event while fewer than N - 2 wait. *)
THEOREM RefusalJustified == Spec => []RefusedOnlyWhenFull
  <1>1. QInv => RefusedOnlyWhenFull
    <2>1. SUFFICES ASSUME QInv, IsFull PROVE Len(unread) >= N - 2
      BY DEF RefusedOnlyWhenFull
    <2>2. CASE overrun
      BY <2>1, <2>2, Sizes DEF QInv, Rest
    <2>3. CASE ~overrun
      <3>1. Len(unread) = N - 2
        BY <2>1, <2>3, FullTest DEF QInv, Rest
      <3>2. QED
        BY <3>1, Sizes
    <2>4. QED
      BY <2>2, <2>3
  <1>2. QED
    BY <1>1, QueueInvariance, PTL

(* An interrupt puts in one event more than the ring is good for only      *)
(* before the first pop or between head++ and head %= N.                   *)
THEOREM ExcessInWindow == Spec => ExcessOnlyUnwrapped
  <1>1. QInv /\ [Next]_vars => [Len(unread) = N - 2 /\ Len(unread') = N - 1 => head >= N]_vars
    <2>1. SUFFICES ASSUME QInv, [Next]_vars, Len(unread) = N - 2, Len(unread') = N - 1
                   PROVE  head >= N
      OBVIOUS
    <2>2. unread' # unread
      BY <2>1, Sizes
    <2>3. ~PopIncrement
      <3>1. SUFFICES ASSUME PopIncrement PROVE FALSE
        OBVIOUS
      <3>2. unread # <<>> /\ unread \in Seq(Events) /\ unread' = Tail(unread)
        BY <2>1, <3>1, Sizes DEF PopIncrement, Reader, QInv, Taken, Rest
      <3>3. Len(unread') = Len(unread) - 1
        BY <3>2, HeadTailProperties
      <3>4. QED
        BY <2>1, <3>3, Sizes
    <2>4. KeyboardIrq
      BY <2>1, <2>2, <2>3 DEF Next, vars, hvars, Type, PopEmpty, PopCheck, PopType, PopValue, PopWrap
    <2>5. \E e : Enqueue(e)
      BY <2>2, <2>4 DEF KeyboardIrq, hvars
    <2>6. ~IsFull
      BY <2>2, <2>5 DEF Enqueue, hvars
    <2>7. ~overrun
      BY <2>1, Sizes DEF QInv, Rest
    <2>8. head \notin Slots
      BY <2>1, <2>6, <2>7, FullTest DEF QInv, Rest
    <2>9. QED
      BY <2>1, <2>8, Sizes DEF QInv, HeadInv, Slots
  <1>2. QED
    BY <1>1, QueueInvariance, PTL DEF Spec, ExcessOnlyUnwrapped
=============================================================================
