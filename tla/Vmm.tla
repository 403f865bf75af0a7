-------------------------------- MODULE Vmm --------------------------------
(***************************************************************************)
(* Page allocation at run time: the bitmap of physical frames              *)
(* (kernel/pmm/pmm.c), the kernel's page table (arch/x86/vmm/vmm.c), the   *)
(* functions that tie them together (kernel/vmm/vmm.c), and the processor's*)
(* TLB and memory, through which a page is read and written.               *)
(*                                                                         *)
(* Each call is one step: the only callers at run time are kalloc and the  *)
(* scheduler's reaping of an exited process, and there is one heap user.   *)
(***************************************************************************)
EXTENDS Integers

CONSTANTS NFrames,      \* physical frames the bitmap describes
          NPages,       \* entries of the kernel page table (1024 in the code)
          KernelFrame,  \* frame where the kernel image is loaded
          KernelPages,  \* pages of the kernel image
          Reserved,     \* frames arch_pmm_init leaves marked as used
          Vals          \* contents of a page

Frames == 0 .. NFrames - 1
Pages  == 0 .. NPages - 1

None == -1   \* an empty page table entry, an empty TLB entry

BootPages == 0 .. KernelPages - 1

ASSUME VmmAssumption ==
  /\ NFrames \in Nat /\ NPages \in Nat
  /\ KernelFrame \in Nat \ {0} /\ KernelPages \in Nat
  /\ KernelPages <= NPages
  /\ Reserved \subseteq Frames
  /\ 0 \in Reserved
  /\ \A v \in BootPages : KernelFrame + v \in Reserved

VARIABLES used,      \* frames whose bit is set in pmm_mmap.bitmap
          pte,       \* kernel_pt->ptes: [Pages -> frame or None]
          tlb,       \* translations the processor has cached
          mem,       \* contents of the frames
          halted,    \* a client dereferenced the NULL of a failed allocation
          overcommitted  \* history: a page was mapped to frame 0

vars == <<used, pte, tlb, mem, halted, overcommitted>>

Mapped == {v \in Pages : pte[v] # None}

(* Where the processor goes for page v: a cached translation wins. *)
Translation(v) == IF tlb[v] # None THEN tlb[v] ELSE pte[v]

-----------------------------------------------------------------------------
(* The state after arch_pmm_init and arch_vmm_init: the kernel image is    *)
(* mapped page by page, everything else in the kernel page table is empty. *)
Init ==
  /\ used = Reserved
  /\ pte = [v \in Pages |-> IF v \in BootPages THEN KernelFrame + v ELSE None]
  /\ tlb = [v \in Pages |-> None]
  /\ mem \in [Frames -> Vals]
  /\ halted = FALSE
  /\ overcommitted = FALSE

(* pmm_alloc_page: the first zero bit, or 0 when the bitmap is full. *)
FirstZeroBit(f) ==
  /\ f \in Frames \ used
  /\ \A g \in Frames \ used : f <= g

PmmAllocPageUnmarked(f) ==   \* mutant: the mask is never or-ed in
  \/ FirstZeroBit(f) /\ UNCHANGED used
  \/ used = Frames /\ f = 0 /\ UNCHANGED used

PmmAllocPage(f) ==
  \/ /\ FirstZeroBit(f)
     /\ used' = used \cup {f}
  \/ /\ used = Frames
     /\ f = 0
     /\ UNCHANGED used

PmmFreePageZero(f) == used' = used \ {0}   \* mutant: virt_to_phys after dealloc

(* pmm_free_page: the bit is cleared whatever it was. *)
PmmFreePage(f) == used' = used \ {f}

(* arch_vmm_find_unused_page_kernel: the first empty entry. *)
FindUnusedPage(v) ==
  /\ v \in Pages \ Mapped
  /\ \A w \in Pages \ Mapped : v <= w

MapInvlpg(v, f) ==   \* mutant: only the new page leaves the TLB
  /\ pte' = [pte EXCEPT ![v] = f]
  /\ tlb' = [tlb EXCEPT ![v] = None]

(* arch_vmm_map of an empty entry; reloading cr3 empties the TLB. *)
Map(v, f) ==
  /\ pte' = [pte EXCEPT ![v] = f]
  /\ tlb' = [w \in Pages |-> None]

(* arch_vmm_dealloc_page: the entry is cleared, cr3 is not reloaded. *)
Dealloc(v) ==
  /\ pte' = [pte EXCEPT ![v] = None]
  /\ UNCHANGED tlb

-----------------------------------------------------------------------------
(* vmm_alloc_page: a frame and a page are found and mapped.  Nobody looks  *)
(* whether the frame is the 0 of a full bitmap.                            *)
AllocPage ==
  /\ ~halted
  /\ \E f \in Frames, v \in Pages :
       /\ PmmAllocPage(f)
       /\ FindUnusedPage(v)
       /\ Map(v, f)
       /\ overcommitted' = (overcommitted \/ f = 0)
  /\ UNCHANGED <<mem, halted>>

(* vmm_alloc_page with a full page table: arch_vmm_map returns early since *)
(* page directory entry 0 is absent, the frame stays marked, NULL goes to  *)
(* the caller, whose first access to it faults and ends in the exception   *)
(* dispatcher's infinite loop.                                             *)
AllocPageNoVirtual ==
  /\ ~halted
  /\ Mapped = Pages
  /\ \E f \in Frames : PmmAllocPage(f)
  /\ halted' = TRUE
  /\ UNCHANGED <<pte, tlb, mem, overcommitted>>

(* vmm_free_page of a page a client owns. *)
FreePage(v) ==
  /\ ~halted
  /\ v \in Mapped \ BootPages
  /\ Dealloc(v)
  /\ PmmFreePage(pte[v])
  /\ UNCHANGED <<mem, halted, overcommitted>>

(* The owner of page v writes to it; the processor caches the translation. *)
Write(v, x) ==
  /\ ~halted
  /\ v \in Mapped
  /\ mem' = [mem EXCEPT ![Translation(v)] = x]
  /\ tlb' = [tlb EXCEPT ![v] = Translation(v)]
  /\ UNCHANGED <<used, pte, halted, overcommitted>>

(* The processor drops a cached translation. *)
Evict(v) ==
  /\ tlb[v] # None
  /\ tlb' = [tlb EXCEPT ![v] = None]
  /\ UNCHANGED <<used, pte, mem, halted, overcommitted>>

Next ==
  \/ AllocPage
  \/ AllocPageNoVirtual
  \/ \E v \in Pages : FreePage(v)
  \/ \E v \in Pages, x \in Vals : Write(v, x)
  \/ \E v \in Pages : Evict(v)

Spec == Init /\ [][Next]_vars

-----------------------------------------------------------------------------
(* Every variable has its type. *)
TypeOK ==
  /\ used \subseteq Frames
  /\ pte \in [Pages -> Frames \cup {None}]
  /\ tlb \in [Pages -> Frames \cup {None}]
  /\ mem \in [Frames -> Vals]
  /\ halted \in BOOLEAN
  /\ overcommitted \in BOOLEAN

(* However pages are allocated and freed, two pages never share a frame,   *)
(* except frame 0, the answer of a full bitmap (pmm.c 42-44).              *)
NoFrameShared ==
  \A v, w \in Mapped : pte[v] = pte[w] => v = w \/ pte[v] = 0

(* A frame that backs a page is marked as used, frame 0 excepted, so that  *)
(* pmm_alloc_page cannot hand it out again.                                *)
MappedFrameIsUsed ==
  \A v \in Mapped : pte[v] \in used \cup {0}

(* No frame is lost: a marked frame is reserved or backs a page, until the *)
(* page table is full and vmm_alloc_page drops the frame it has just taken.*)
NoFrameLost ==
  \/ halted
  \/ \A f \in used \ Reserved : \E v \in Mapped : pte[v] = f

(* vmm_free_page does not flush the TLB.  A translation that survives its  *)
(* page never leads to a frame that backs another page, and a mapped page  *)
(* is never reached through a translation it no longer has.                *)
StaleTranslationHarmless ==
  \A v \in Pages :
    tlb[v] # None =>
      IF v \in Mapped THEN tlb[v] = pte[v]
      ELSE tlb[v] = 0 \/ \A w \in Mapped : pte[w] # tlb[v]

(* Refinement: pages are private memory as long as frames last. *)
Promise ==
  INSTANCE AddressSpace WITH
    store  <- [v \in Mapped |-> mem[Translation(v)]],
    intact <- ~overcommitted

PagesArePrivate == Promise!Spec
=============================================================================
