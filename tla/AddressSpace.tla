---------------------------- MODULE AddressSpace ----------------------------
(***************************************************************************)
(* What the page allocator of Abel-OS promises to its clients (kalloc for  *)
(* heap pages, proc_create_process for stacks): a set of pages, each of    *)
(* them private memory.  A page that is allocated keeps what is written to *)
(* it until it is freed, whatever happens to the other pages, and a page   *)
(* is handed out only while nobody owns it.                                *)
(*                                                                         *)
(* The promise ends when physical memory runs out: intact becomes FALSE    *)
(* and nothing is said of the contents any more (see Vmm).                 *)
(***************************************************************************)
CONSTANTS Pages,     \* the virtual pages of the kernel's page table
          Vals,      \* contents of a page
          BootPages  \* the pages of the kernel image, mapped for ever

VARIABLES store,     \* contents of the pages in use: [subset of Pages -> Vals]
          intact     \* physical memory has not run out yet

vars == <<store, intact>>

InUse == DOMAIN store

Init ==
  /\ store \in [BootPages -> Vals]
  /\ intact = TRUE

(* A page nobody uses is handed out, with arbitrary contents. *)
Alloc(v) ==
  /\ intact /\ intact' = TRUE
  /\ v \notin InUse
  /\ DOMAIN store' = InUse \cup {v}
  /\ \A w \in InUse : store'[w] = store[w]

Write(v, x) ==
  /\ intact /\ intact' = TRUE
  /\ v \in InUse
  /\ store' = [store EXCEPT ![v] = x]

Free(v) ==
  /\ intact /\ intact' = TRUE
  /\ v \in InUse \ BootPages
  /\ store' = [w \in InUse \ {v} |-> store[w]]

(* Physical memory ran out: from here on nothing is promised. *)
Overcommit == intact' = FALSE

Next ==
  \/ \E v \in Pages : Alloc(v)
  \/ \E v \in Pages, x \in Vals : Write(v, x)
  \/ \E v \in Pages : Free(v)
  \/ Overcommit

Spec == Init /\ [][Next]_vars
=============================================================================
