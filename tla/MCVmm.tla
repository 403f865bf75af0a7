------------------------------- MODULE MCVmm -------------------------------
(***************************************************************************)
(* Vmm for TLC: five frames and five pages, of which the kernel image has  *)
(* frame 1 and page 0, and frame 0 is reserved.  Three free frames and     *)
(* four free pages let physical memory run out before the page table does. *)
(***************************************************************************)
EXTENDS Vmm

MCReserved == {0, KernelFrame}
=============================================================================
