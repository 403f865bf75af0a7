----------------------------- MODULE KernelHeap -----------------------------
(***************************************************************************)
(* What kalloc and kfree promise: blocks of at least the requested size    *)
(* that overlap no other block in use, and that stay where and as they are *)
(* until they are freed.                                                   *)
(***************************************************************************)
EXTENDS Integers

CONSTANTS Addrs,     \* addresses of the kernel's heap pages
          PageOf(_), \* the page of an address
          Requests   \* sizes a client asks for

VARIABLE held  \* [start of a block in use -> its length]

Apart(p, m, q, n) == p + m <= q \/ q + n <= p

Init == held = [p \in {} |-> 0]

(* One new block; the others keep their place and their length. *)
Alloc(n) ==
  \E p \in DOMAIN held' \ DOMAIN held :
    /\ p \in Addrs
    /\ DOMAIN held' = DOMAIN held \cup {p}
    /\ \A q \in DOMAIN held : held'[q] = held[q]
    /\ held'[p] >= n
    /\ PageOf(p + held'[p] - 1) = PageOf(p)
    /\ \A q \in DOMAIN held : Apart(p, held'[p], q, held[q])

Free(p) ==
  /\ p \in DOMAIN held
  /\ held' = [q \in DOMAIN held \ {p} |-> held[q]]

Next ==
  \/ \E n \in Requests : Alloc(n)
  \/ \E p \in DOMAIN held : Free(p)

Spec == Init /\ [][Next]_held
=============================================================================
