----------------------------- MODULE VmmProofs -----------------------------
(***************************************************************************)
(* The safety properties of Vmm, and that Vmm implements AddressSpace,     *)
(* for any number of frames and pages.                                     *)
(***************************************************************************)
EXTENDS Vmm, TLAPS

(* The inductive invariant.  No part is inductive alone: a new mapping     *)
(* shares no frame because mapped frames are marked, a freed frame backs   *)
(* no other page because frames are not shared.                            *)
IInv ==
  /\ TypeOK
  /\ NoFrameShared
  /\ MappedFrameIsUsed
  /\ NoFrameLost
  /\ StaleTranslationHarmless

(* The invariant holds when arch_vmm_init has mapped the kernel. *)
LEMMA InitIInv == Init => IInv
  <1> SUFFICES ASSUME Init PROVE IInv
    OBVIOUS
  <1> USE VmmAssumption
  <1>1. \A v \in Pages : pte[v] # None => v \in BootPages /\ pte[v] = KernelFrame + v
    BY DEF Init
  <1>2. TypeOK
    BY DEF Init, TypeOK, Frames, Pages, None, BootPages
  <1>3. NoFrameShared
    BY <1>1 DEF NoFrameShared, Mapped, Pages, BootPages
  <1>5. MappedFrameIsUsed
    BY <1>1 DEF Init, MappedFrameIsUsed, Mapped
  <1>4. NoFrameLost /\ StaleTranslationHarmless
    BY DEF Init, NoFrameLost, StaleTranslationHarmless
  <1> QED
    BY <1>2, <1>3, <1>4, <1>5 DEF IInv

(* A frame that pmm_alloc_page returns backs no page, unless it is 0. *)
LEMMA AllocatedFrameIsFresh ==
  ASSUME IInv, NEW f \in Frames, PmmAllocPage(f)
  PROVE  /\ f = 0 \/ \A v \in Mapped : pte[v] # f
         /\ used' \subseteq Frames
         /\ used \subseteq used'
         /\ f \in used'
         /\ used' \subseteq used \cup {f}
  BY DEF IInv, TypeOK, MappedFrameIsUsed, PmmAllocPage, FirstZeroBit

(* vmm_alloc_page preserves the invariant. *)
LEMMA AllocPageIInv == IInv /\ AllocPage => IInv'
  <1> SUFFICES ASSUME IInv, AllocPage PROVE IInv'
    OBVIOUS
  <1> USE VmmAssumption
  <1>1. PICK f \in Frames, v \in Pages :
          PmmAllocPage(f) /\ FindUnusedPage(v) /\ Map(v, f)
    BY DEF AllocPage
  <1>2. pte[v] = None /\ pte' = [pte EXCEPT ![v] = f]
    BY <1>1 DEF FindUnusedPage, Mapped, Map
  <1>3. f # None /\ Mapped' = Mapped \cup {v} /\ v \notin Mapped
    BY <1>2 DEF IInv, TypeOK, Mapped, Frames, None
  <1>4. TypeOK'
    BY <1>1, <1>2, AllocatedFrameIsFresh DEF IInv, TypeOK, AllocPage, Map
  <1>5. NoFrameShared'
    BY <1>1, <1>2, <1>3, AllocatedFrameIsFresh
    DEF IInv, TypeOK, NoFrameShared, Mapped
  <1>6. MappedFrameIsUsed'
    BY <1>1, <1>2, <1>3, AllocatedFrameIsFresh
    DEF IInv, TypeOK, MappedFrameIsUsed, Mapped
  <1>7. NoFrameLost'
    <2>1. ~halted /\ halted' = halted
      BY DEF AllocPage
    <2>2. SUFFICES ASSUME NEW g \in used' \ Reserved
                   PROVE  \E w \in Mapped' : pte'[w] = g
      BY DEF NoFrameLost
    <2>3. CASE g = f
      BY <1>2, <1>3, <2>3 DEF IInv, TypeOK
    <2>4. CASE g # f
      <3>1. PICK w \in Mapped : pte[w] = g
        BY <1>1, <2>1, <2>4, AllocatedFrameIsFresh DEF IInv, NoFrameLost
      <3> QED
        BY <3>1, <1>2, <1>3 DEF IInv, TypeOK, Mapped
    <2> QED
      BY <2>3, <2>4
  <1>8. StaleTranslationHarmless'
    BY <1>1 DEF Map, StaleTranslationHarmless, Pages
  <1> QED
    BY <1>4, <1>5, <1>6, <1>7, <1>8 DEF IInv

(* vmm_free_page preserves the invariant, although it flushes nothing. *)
LEMMA FreePageIInv == ASSUME IInv, NEW v \in Pages, FreePage(v) PROVE IInv'
  <1> USE VmmAssumption
  <1>1. /\ v \in Mapped
        /\ pte' = [pte EXCEPT ![v] = None]
        /\ tlb' = tlb
        /\ used' = used \ {pte[v]}
        /\ ~halted /\ halted' = halted
    BY DEF FreePage, Dealloc, PmmFreePage
  <1>2. Mapped' = Mapped \ {v} /\ \A w \in Mapped' : pte'[w] = pte[w]
    BY <1>1 DEF IInv, TypeOK, Mapped
  <1>3. TypeOK'
    BY <1>1 DEF IInv, TypeOK, FreePage, Dealloc, PmmFreePage
  <1>4. NoFrameShared' /\ MappedFrameIsUsed'
    BY <1>1, <1>2 DEF IInv, NoFrameShared, MappedFrameIsUsed
  <1>5. NoFrameLost'
    <2>1. SUFFICES ASSUME NEW g \in used' \ Reserved
                   PROVE  \E w \in Mapped' : pte'[w] = g
      BY DEF NoFrameLost
    <2>2. PICK w \in Mapped : pte[w] = g
      BY <1>1, <2>1 DEF IInv, NoFrameLost
    <2>3. w # v
      BY <1>1, <2>1, <2>2
    <2> QED
      BY <1>2, <2>2, <2>3
  <1>6. StaleTranslationHarmless'
    <2>1. SUFFICES ASSUME NEW w \in Pages, tlb[w] # None
                   PROVE  IF w \in Mapped' THEN tlb[w] = pte'[w]
                          ELSE tlb[w] = 0 \/ \A u \in Mapped' : pte'[u] # tlb[w]
      BY <1>1 DEF StaleTranslationHarmless
    <2>2. IF w \in Mapped THEN tlb[w] = pte[w]
          ELSE tlb[w] = 0 \/ \A u \in Mapped : pte[u] # tlb[w]
      BY <2>1 DEF IInv, StaleTranslationHarmless
    <2>3. CASE w = v
      BY <1>1, <1>2, <2>2, <2>3 DEF IInv, NoFrameShared
    <2>4. CASE w # v
      BY <1>2, <2>2, <2>4
    <2> QED
      BY <2>3, <2>4
  <1> QED
    BY <1>3, <1>4, <1>5, <1>6 DEF IInv

(* What a write goes through is the page table's own translation. *)
LEMMA TranslationIsPte ==
  ASSUME IInv, NEW v \in Mapped PROVE Translation(v) = pte[v]
  BY DEF IInv, StaleTranslationHarmless, Translation, Mapped

(* Every step preserves the invariant. *)
LEMMA NextIInv == IInv /\ [Next]_vars => IInv'
  <1> SUFFICES ASSUME IInv, [Next]_vars PROVE IInv'
    OBVIOUS
  <1> USE VmmAssumption
  <1>1. CASE AllocPage
    BY <1>1, AllocPageIInv
  <1>2. CASE AllocPageNoVirtual
    <2>1. PICK f \in Frames : PmmAllocPage(f)
      BY <1>2 DEF AllocPageNoVirtual
    <2>2. used \subseteq used' /\ used' \subseteq Frames
      BY <2>1, AllocatedFrameIsFresh
    <2> QED
      BY <1>2, <2>2
      DEF AllocPageNoVirtual, IInv, TypeOK, NoFrameShared, MappedFrameIsUsed,
          NoFrameLost, StaleTranslationHarmless, Mapped
  <1>3. ASSUME NEW v \in Pages, FreePage(v) PROVE IInv'
    BY <1>3, FreePageIInv
  <1>4. ASSUME NEW v \in Pages, NEW x \in Vals, Write(v, x) PROVE IInv'
    <2>1. v \in Mapped /\ Translation(v) = pte[v]
      BY <1>4, TranslationIsPte DEF Write
    <2>2. pte[v] \in Frames
      BY <2>1 DEF IInv, TypeOK, Mapped
    <2>3. TypeOK'
      BY <1>4, <2>1, <2>2 DEF Write, IInv, TypeOK
    <2>4. StaleTranslationHarmless'
      BY <1>4, <2>1 DEF Write, IInv, TypeOK, StaleTranslationHarmless, Mapped
    <2> QED
      BY <1>4, <2>3, <2>4
      DEF Write, IInv, NoFrameShared, MappedFrameIsUsed, NoFrameLost, Mapped
  <1>5. ASSUME NEW v \in Pages, Evict(v) PROVE IInv'
    BY <1>5
    DEF Evict, IInv, TypeOK, NoFrameShared, MappedFrameIsUsed, NoFrameLost,
        StaleTranslationHarmless, Mapped
  <1>6. CASE UNCHANGED vars
    BY <1>6
    DEF vars, IInv, TypeOK, NoFrameShared, MappedFrameIsUsed, NoFrameLost,
        StaleTranslationHarmless, Mapped
  <1> QED
    BY <1>1, <1>2, <1>3, <1>4, <1>5, <1>6 DEF Next

-----------------------------------------------------------------------------
(* Refinement.  Store is what the clients see, in the words of AddressSpace. *)
Store == [v \in Mapped |-> mem[Translation(v)]]

(* By the invariant clients see through the TLB what the page table maps, *)
LEMMA StoreIsMem == IInv => Store = [v \in Mapped |-> mem[pte[v]]]
  BY TranslationIsPte DEF Store

(* and so they do after a step. *)
LEMMA StoreIsMemAfter == IInv' => Store' = [v \in Mapped' |-> mem'[pte'[v]]]
  <1> SUFFICES ASSUME IInv' PROVE Store' = [v \in Mapped' |-> mem'[pte'[v]]]
    OBVIOUS
  <1>1. \A v \in Mapped' : Translation(v)' = pte'[v]
    BY DEF IInv, StaleTranslationHarmless, Translation, Mapped
  <1> QED
    BY <1>1 DEF Store

(* While frames last, a step keeps overcommitted FALSE, so frame 0 backs no *)
(* page and every page has a frame of its own.                              *)
NoFrameZero == overcommitted \/ \A v \in Mapped : pte[v] # 0

(* Initial states map to initial states. *)
LEMMA InitPromise == Init => Promise!Init
  <1> SUFFICES ASSUME Init PROVE Promise!Init
    OBVIOUS
  <1> USE VmmAssumption
  <1>1. IInv
    BY InitIInv
  <1>2. Mapped = BootPages
    BY DEF Init, Mapped, BootPages, Pages, None
  <1>3. \A v \in BootPages : pte[v] \in Frames
    BY <1>1, <1>2 DEF IInv, TypeOK, Mapped
  <1>4. [v \in Mapped |-> mem[pte[v]]] \in [BootPages -> Vals]
    BY <1>1, <1>2, <1>3 DEF IInv, TypeOK
  <1>5. Store \in [BootPages -> Vals]
    BY <1>1, <1>4, StoreIsMem
  <1> QED
    BY <1>5 DEF Init, Promise!Init, Store

(* No step maps frame 0 without marking the memory as overcommitted. *)
LEMMA NextNoFrameZero == IInv /\ NoFrameZero /\ [Next]_vars => NoFrameZero'
  <1> SUFFICES ASSUME IInv, NoFrameZero, [Next]_vars PROVE NoFrameZero'
    OBVIOUS
  <1>1. CASE AllocPage
    BY <1>1 DEF AllocPage, Map, NoFrameZero, Mapped, IInv, TypeOK
  <1>2. ASSUME NEW v \in Pages, FreePage(v) PROVE NoFrameZero'
    BY <1>2 DEF FreePage, Dealloc, NoFrameZero, Mapped, IInv, TypeOK
  <1>3. CASE UNCHANGED <<pte, overcommitted>>
    BY <1>3 DEF NoFrameZero, Mapped
  <1> QED
    BY <1>1, <1>2, <1>3 DEF Next, AllocPageNoVirtual, Write, Evict, vars

(* An allocation, while frames last, is an allocation of AddressSpace. *)
LEMMA AllocPagePromise ==
  ASSUME IInv, IInv', AllocPage, ~overcommitted'
  PROVE  \E v \in Pages : Promise!Alloc(v)
  <1>1. PICK f \in Frames, v \in Pages :
          /\ PmmAllocPage(f) /\ FindUnusedPage(v) /\ Map(v, f)
          /\ overcommitted' = (overcommitted \/ f = 0)
    BY DEF AllocPage
  <1>2. ~overcommitted
    BY <1>1 DEF IInv, TypeOK
  <1>3. v \notin Mapped /\ Mapped' = Mapped \cup {v}
    BY <1>1 DEF FindUnusedPage, Map, Mapped, IInv, TypeOK, Frames, None
  <1>4. mem' = mem /\ \A w \in Mapped : pte'[w] = pte[w]
    BY <1>1, <1>3 DEF AllocPage, Map, IInv, TypeOK, Mapped
  <1>5. DOMAIN Store = Mapped /\ DOMAIN Store' = Mapped \cup {v}
    BY <1>3 DEF Store
  <1>6. \A w \in Mapped : Store'[w] = Store[w]
    <2>1. Store' = [w \in Mapped' |-> mem'[pte'[w]]]
      BY StoreIsMemAfter
    <2>2. Store = [w \in Mapped |-> mem[pte[w]]]
      BY StoreIsMem
    <2> QED
      BY <1>3, <1>4, <2>1, <2>2
  <1> QED
    BY <1>2, <1>3, <1>5, <1>6 DEF Promise!Alloc, Promise!InUse, Store

(* A store of a client is a write of AddressSpace. *)
LEMMA WritePromise ==
  ASSUME IInv, IInv', NoFrameZero, ~overcommitted,
         NEW v \in Pages, NEW x \in Vals, Write(v, x)
  PROVE  Promise!Write(v, x)
  <1>1. /\ v \in Mapped /\ Mapped' = Mapped /\ pte' = pte
        /\ mem' = [mem EXCEPT ![pte[v]] = x]
        /\ overcommitted' = overcommitted
    BY TranslationIsPte DEF Write, Mapped
  <1>2. \A w \in Mapped : pte[w] = pte[v] => w = v
    BY <1>1 DEF IInv, NoFrameShared, NoFrameZero
  <1>3. \A w \in Mapped : pte[w] \in Frames
    BY DEF IInv, TypeOK, Mapped
  <1>4. [w \in Mapped |-> mem'[pte[w]]]
          = [[w \in Mapped |-> mem[pte[w]]] EXCEPT ![v] = x]
    BY <1>1, <1>2, <1>3 DEF IInv, TypeOK
  <1>5. Store' = [Store EXCEPT ![v] = x]
    BY <1>1, <1>4, StoreIsMem, StoreIsMemAfter
  <1>6. v \in DOMAIN Store
    BY <1>1 DEF Store
  <1> QED
    BY <1>1, <1>5, <1>6 DEF Promise!Write, Promise!InUse, Store

(* A free, while frames last, is a free of AddressSpace. *)
LEMMA FreePagePromise ==
  ASSUME IInv, IInv', ~overcommitted, NEW v \in Pages, FreePage(v)
  PROVE  Promise!Free(v)
  <1>1. /\ v \in Mapped \ BootPages
        /\ pte' = [pte EXCEPT ![v] = None]
        /\ mem' = mem /\ overcommitted' = overcommitted
    BY DEF FreePage, Dealloc
  <1>2. Mapped' = Mapped \ {v} /\ \A w \in Mapped' : pte'[w] = pte[w]
    BY <1>1 DEF IInv, TypeOK, Mapped
  <1>3. Store' = [w \in Mapped \ {v} |-> mem[pte[w]]]
    BY <1>1, <1>2, StoreIsMemAfter
  <1>4. Store = [w \in Mapped |-> mem[pte[w]]]
    BY StoreIsMem
  <1>5. Store' = [w \in Mapped \ {v} |-> Store[w]]
    BY <1>3, <1>4
  <1>6. DOMAIN Store = Mapped
    BY DEF Store
  <1> QED
    BY <1>1, <1>5, <1>6 DEF Promise!Free, Promise!InUse, Store

(* Every step is a step of AddressSpace or a stutter. *)
LEMMA NextPromise ==
  IInv /\ IInv' /\ NoFrameZero /\ [Next]_vars => [Promise!Next]_(Promise!vars)
  <1> SUFFICES ASSUME IInv, IInv', NoFrameZero, [Next]_vars
               PROVE  Promise!Next \/ UNCHANGED Promise!vars
    OBVIOUS
  <1>1. CASE overcommitted'
    BY <1>1 DEF Promise!Next, Promise!Overcommit
  <1>2. CASE ~overcommitted'
    <2>1. ~overcommitted
      BY <1>2
      DEF Next, AllocPage, AllocPageNoVirtual, FreePage, Write, Evict, vars,
          IInv, TypeOK
    <2>2. CASE AllocPage
      BY <1>2, <2>2, AllocPagePromise DEF Promise!Next
    <2>3. ASSUME NEW v \in Pages, FreePage(v) PROVE Promise!Next
      BY <2>1, <2>3, FreePagePromise DEF Promise!Next
    <2>4. ASSUME NEW v \in Pages, NEW x \in Vals, Write(v, x)
          PROVE  Promise!Next
      BY <2>1, <2>4, WritePromise DEF Promise!Next
    <2>5. CASE UNCHANGED <<pte, mem, overcommitted>>
      <3>1. Store' = Store
        BY <2>5, StoreIsMem, StoreIsMemAfter DEF Mapped
      <3> QED
        BY <2>5, <3>1 DEF Promise!vars, Store
    <2> QED
      BY <2>2, <2>3, <2>4, <2>5
      DEF Next, AllocPageNoVirtual, Evict, vars
  <1> QED
    BY <1>1, <1>2

-----------------------------------------------------------------------------
(* Every reachable state satisfies the inductive invariant. *)
THEOREM Invariance == Spec => []IInv
  BY InitIInv, NextIInv, PTL DEF Spec

(* Vmm is type correct. *)
THEOREM TypeCorrect == Spec => []TypeOK
  <1>1. IInv => TypeOK
    BY DEF IInv
  <1> QED
    BY <1>1, Invariance, PTL

(* Two pages never share a frame other than frame 0, and the frame behind  *)
(* a page is never on offer (vmm_alloc_page, vmm_free_page).               *)
THEOREM FramesExclusive == Spec => [](NoFrameShared /\ MappedFrameIsUsed)
  <1>1. IInv => NoFrameShared /\ MappedFrameIsUsed
    BY DEF IInv
  <1> QED
    BY <1>1, Invariance, PTL

(* No frame is lost before the page table is full. *)
THEOREM FramesKept == Spec => []NoFrameLost
  <1>1. IInv => NoFrameLost
    BY DEF IInv
  <1> QED
    BY <1>1, Invariance, PTL

(* The missing TLB flush of arch_vmm_dealloc_page does no harm. *)
THEOREM StaleTranslations == Spec => []StaleTranslationHarmless
  <1>1. IInv => StaleTranslationHarmless
    BY DEF IInv
  <1> QED
    BY <1>1, Invariance, PTL

(* Vmm implements AddressSpace: pages are private memory until physical    *)
(* memory runs out, in spite of the frames, the page table and the TLB.    *)
THEOREM Refinement == Spec => PagesArePrivate
  <1>1. Init => NoFrameZero
    BY VmmAssumption DEF Init, NoFrameZero, Mapped, BootPages
  <1>2. Spec => []NoFrameZero
    BY <1>1, NextNoFrameZero, Invariance, PTL DEF Spec
  <1> QED
    BY <1>2, Invariance, InitPromise, NextPromise, PTL
    DEF Spec, PagesArePrivate, Promise!Spec
=============================================================================
