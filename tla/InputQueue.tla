----------------------------- MODULE InputQueue -----------------------------
(***************************************************************************)
(* From the keyboard to a process that reads events: the scancode parser   *)
(* (drivers/keyboard.c) and the ring buffer of kernel/input/input.c.       *)
(*                                                                         *)
(* The keyboard sends the bytes of a key event one by one, each with an    *)
(* interrupt; the handler decodes it and puts a complete event into the    *)
(* ring, with interrupts off: one step.  The reader calls input_event_pop, *)
(* whose statements are steps of their own, between which the handler may  *)
(* run.  There is one reader.  The program has none yet: the module is     *)
(* about what the queue promises to the first one.                         *)
(***************************************************************************)
EXTENDS Integers, Sequences, FiniteSets

CONSTANTS N,     \* MAX_EVENTS_IN_QUEUE
          Word,  \* 2^8: head and tail are uint8_t
          Keys   \* the low seven bits of a scancode

ASSUME InputAssumption ==
  /\ N \in Nat /\ N > 2
  /\ Word \in Nat /\ Word % N = 0 /\ Word > N
  /\ Keys # {}

Slots == 0 .. N - 1

(* What a key did: which key, from which table, press or release. *)
Events == [extended : BOOLEAN, key : Keys, release : BOOLEAN]

VARIABLES head, tail,  \* input_event_queue
          data,        \* its slots: [Slots -> Events]
          extended,    \* the parser has seen the prefix 0xe0
          wire,        \* bytes of the current key event still to be sent
          typed,       \* the current key event
          pc,          \* the next statement of the reader
          out,         \* what the reader has copied to *ev_out
          unread,      \* history: the events accepted and not yet popped
          overrun      \* history: an unread event was overwritten

qvars == <<head, tail, data>>
kvars == <<extended, wire, typed>>
rvars == <<pc, out>>
hvars == <<unread, overrun>>
vars  == <<qvars, kvars, rvars, hvars>>

AnyEvent == CHOOSE e \in Events : ~e.extended /\ ~e.release

(* input_queue_init: -1 in a uint8_t. *)
Init ==
  /\ head = Word - 1 /\ tail = 0
  /\ data = [i \in Slots |-> AnyEvent]
  /\ extended = FALSE /\ wire = <<>> /\ typed = AnyEvent
  /\ pc = "idle" /\ out = AnyEvent
  /\ unread = <<>> /\ overrun = FALSE

-----------------------------------------------------------------------------
(* The ring. *)
IsFullEarly == head = (tail + 2) % N   \* mutant
IsFullLate  == head = tail             \* mutant
IsFull  == head = (tail + 1) % N
IsEmpty == (head + 1) % N = tail
NextOut == (head + 1) % N

(* input_enqueue_event.  The full test leaves room for N - 2 events; with   *)
(* N of them unread the ring looks empty, and one more overwrites the oldest.*)
Enqueue(e) ==
  IF IsFull
  THEN UNCHANGED <<qvars, hvars>>
  ELSE /\ data' = [data EXCEPT ![tail] = e]
       /\ tail' = (tail + 1) % N
       /\ UNCHANGED head
       /\ unread' = IF Len(unread) < N THEN Append(unread, e) ELSE unread
       /\ overrun' = (overrun \/ Len(unread) = N)

-----------------------------------------------------------------------------
(* The keyboard: the bytes of an event, an extended one with its prefix. *)
Byte(prefix, e) == [prefix |-> prefix, key |-> e.key, release |-> e.release]

Type(e) ==
  /\ ~overrun   \* nothing is said of the ring after an overrun
  /\ wire = <<>>
  /\ wire' = IF e.extended THEN <<Byte(TRUE, e), Byte(FALSE, e)>> ELSE <<Byte(FALSE, e)>>
  /\ typed' = e
  /\ UNCHANGED <<qvars, rvars, hvars, extended>>

KeyboardIrqSticky ==   \* mutant: extended is not cleared
  /\ wire # <<>>
  /\ LET b == Head(wire)
     IN  IF b.prefix
         THEN extended' = TRUE /\ UNCHANGED <<qvars, hvars>>
         ELSE /\ UNCHANGED extended
              /\ Enqueue([extended |-> extended, key |-> b.key, release |-> b.release])
  /\ wire' = Tail(wire)
  /\ UNCHANGED <<rvars, typed>>

(* ps2_keyboard_irq_handler, ps2_keyboard_parse, input_event_key_publish. *)
KeyboardIrq ==
  /\ wire # <<>>
  /\ LET b == Head(wire)
     IN  IF b.prefix
         THEN extended' = TRUE /\ UNCHANGED <<qvars, hvars>>
         ELSE /\ extended' = FALSE
              /\ Enqueue([extended |-> extended, key |-> b.key, release |-> b.release])
  /\ wire' = Tail(wire)
  /\ UNCHANGED <<rvars, typed>>

-----------------------------------------------------------------------------
(* input_event_pop, statement by statement. *)
Reader(here, there) ==
  /\ ~overrun
  /\ pc = here /\ pc' = there
  /\ UNCHANGED <<kvars, overrun>>

PopEmpty ==
  /\ Reader("idle", "idle") /\ IsEmpty
  /\ UNCHANGED <<qvars, out, unread>>

PopCheck ==
  /\ Reader("idle", "type") /\ ~IsEmpty
  /\ UNCHANGED <<qvars, out, unread>>

PopType ==
  /\ Reader("type", "value")
  /\ out' = [out EXCEPT !.release = data[NextOut].release]
  /\ UNCHANGED <<qvars, unread>>

PopValueOfFreeSlot ==   \* mutant: the value is read behind the unread events
  /\ Reader("value", "increment")
  /\ out' = [data[tail] EXCEPT !.release = out.release]
  /\ UNCHANGED <<qvars, unread>>

PopValue ==
  /\ Reader("value", "increment")
  /\ out' = [data[NextOut] EXCEPT !.release = out.release]
  /\ UNCHANGED <<qvars, unread>>

PopIncrementNarrow ==   \* mutant: head %= MAX is done with the wrong bound
  /\ Reader("increment", "wrap")
  /\ head' = (head + 1) % (N - 1)
  /\ unread' = Tail(unread)
  /\ UNCHANGED <<tail, data, out>>

PopIncrement ==
  /\ Reader("increment", "wrap")
  /\ head' = (head + 1) % Word
  /\ unread' = Tail(unread)
  /\ UNCHANGED <<tail, data, out>>

PopWrap ==
  /\ Reader("wrap", "idle")
  /\ head' = head % N
  /\ UNCHANGED <<tail, data, out, unread>>

Next ==
  \/ \E e \in Events : Type(e)
  \/ KeyboardIrq
  \/ PopEmpty \/ PopCheck \/ PopType \/ PopValue \/ PopIncrement \/ PopWrap

Spec == Init /\ [][Next]_vars

-----------------------------------------------------------------------------
(* Every variable has its type. *)
TypeOK ==
  /\ head \in 0 .. Word - 1 /\ tail \in Slots
  /\ data \in [Slots -> Events]
  /\ extended \in BOOLEAN /\ typed \in Events
  /\ wire \in Seq([prefix : BOOLEAN, key : Keys, release : BOOLEAN])
  /\ pc \in {"idle", "type", "value", "increment", "wrap"}
  /\ out \in Events
  /\ unread \in Seq(Events)
  /\ overrun \in BOOLEAN

(* Until an overrun the ring holds exactly the events accepted and not yet *)
(* popped, decoded as they were typed, in order.                           *)
RingHoldsUnread ==
  ~overrun =>
    /\ tail = (NextOut + Len(unread)) % N
    /\ \A i \in 1 .. Len(unread) : data[(NextOut + i - 1) % N] = unread[i]

(* The parser's memory of the prefix agrees with what the keyboard is      *)
(* about to send: no key is ever looked up in the wrong table.             *)
PrefixInStep ==
  extended <=> wire # <<>> /\ typed.extended /\ ~Head(wire).prefix

(* The event the reader returns is the oldest one, whole: neither its type *)
(* nor its value belongs to another.                                       *)
PoppedIsOldest == pc = "increment" /\ ~overrun => out = Head(unread)

(* The N - 2 events the ring is good for are exceeded only while head is   *)
(* not a slot number: before the first pop, or between head++ and          *)
(* head %= N.                                                              *)
ExcessOnlyUnwrapped ==
  [][Len(unread) = N - 2 /\ Len(unread') = N - 1 => head >= N]_vars

(* An event is never refused while fewer than N - 2 are unread.            *)
RefusedOnlyWhenFull == IsFull => Len(unread) >= N - 2
=============================================================================
