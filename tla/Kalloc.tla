------------------------------- MODULE Kalloc -------------------------------
(***************************************************************************)
(* The kernel heap, kernel/kalloc/kalloc.c: a first-fit allocator over     *)
(* pages of the page allocator, with one list of free blocks in address    *)
(* order.  Every block starts with a header of Hdr bytes: its size, and a  *)
(* word that is the next free block or the mark KOBJECT_HEADER_USED.       *)
(*                                                                         *)
(* The chain of next words is the sequence flist; size is defined at the   *)
(* addresses that hold a header.  kalloc and kfree are single steps: they  *)
(* take no lock, and the code that ships has one process that calls them.  *)
(***************************************************************************)
EXTENDS Integers, Sequences, SequencesExt

CONSTANTS PageSize,  \* 4096
          Hdr,       \* sizeof(struct kobject_header)
          Min_,      \* MIN_ALLOCATION_SIZE
          Word,      \* 2^32: sizes are computed modulo Word
          HeapPages, \* page numbers the page allocator may hand out
          Requests   \* the arguments of kalloc

ASSUME KallocAssumption ==
  /\ PageSize \in Nat /\ Hdr \in Nat \ {0} /\ Min_ \in Nat \ {0} /\ Word \in Nat
  /\ Hdr % 2 = 0 /\ Min_ % 2 = 0 /\ PageSize % 2 = 0
  /\ Hdr + Min_ <= PageSize
  /\ HeapPages \subseteq Nat \ {0}
  /\ \A p \in HeapPages : (p + 1) * PageSize < Word
  /\ Requests \subseteq 0 .. Word - 1

VARIABLES size,    \* [addresses of headers -> size field]
          flist,   \* the free list, from f_list along next
          live,    \* [pointers the clients hold -> the size they asked for]
          halted   \* a NULL page was written to: the exception loop

vars == <<size, flist, live, halted>>

Base(page)  == page * PageSize
PageOf(a)   == a \div PageSize
Addrs       == UNION {Base(p) .. Base(p) + PageSize - 1 : p \in HeapPages}
Blocks      == DOMAIN size
UsedPages   == {PageOf(h) : h \in Blocks}
WholePage   == PageSize - Hdr
End(sz, h)  == h + Hdr + sz[h]

(* The first node of the list is not in a mapped page: whoever follows     *)
(* f_list now reads memory that was given back.                            *)
Dangling == flist # <<>> /\ PageOf(Head(flist)) \notin UsedPages

(* The part of the state both functions work on, as a value. *)
Heap == [size |-> size, flist |-> flist]

Without(f, h) == [x \in DOMAIN f \ {h} |-> f[x]]

Init ==
  /\ size = [h \in {} |-> 0]
  /\ flist = <<>>
  /\ live = [p \in {} |-> 0]
  /\ halted = FALSE

-----------------------------------------------------------------------------
(* kalloc 24-34: the size that is searched for. *)
Rounded(n) ==
  LET m == IF n < Min_ THEN Min_ ELSE n
  IN  IF m % 2 = 0 THEN m ELSE (m + 1) % Word

WithHeader(n) == (n + Hdr) % Word

TooLarge(n) == WithHeader(n) > PageSize

NodesBelowNone(list, h) == 0   \* mutant: the list is not kept in order

(* The length of the part of the list that lies below address h. *)
NodesBelow(list, h) ==
  LET i == SelectInSeq(list, LAMBDA x : x >= h)
  IN  IF i = 0 THEN Len(list) ELSE i - 1

InsertNode(list, h) == InsertAt(list, NodesBelow(list, h) + 1, h)
RemoveNode(list, h) == RemoveAt(list, NodesBelow(list, h) + 1)

(* A page as one free block: 38-41 and 53-72. *)
AddPage(hp, page) ==
  [size  |-> [x \in DOMAIN hp.size \cup {Base(page)} |->
                IF x = Base(page) THEN WholePage ELSE hp.size[x]],
   flist |-> InsertNode(hp.flist, Base(page))]

(* The first block of the list that is large enough, 46-52. *)
FirstFit(hp, n) == SelectInSeq(hp.flist, LAMBDA h : hp.size[h] >= WithHeader(n))

CarveForgetsHeader(hp, h, n) ==   \* mutant: the rest is a header too long
  IF hp.size[h] < (n + Hdr + Min_) % Word
  THEN [hp EXCEPT !.flist = RemoveNode(hp.flist, h)]
  ELSE LET cpy == (h + WithHeader(n)) % Word
       IN  [size  |-> [x \in DOMAIN hp.size \cup {cpy} |->
                         CASE x = h   -> n
                           [] x = cpy -> hp.size[h] - n
                           [] OTHER   -> hp.size[x]],
            flist |-> ReplaceAll(hp.flist, h, cpy)]

(* Block h for n bytes, 79-99: whole when the rest would be smaller than a *)
(* header and the minimum, cut in two otherwise.                           *)
Carve(hp, h, n) ==
  IF hp.size[h] < (n + Hdr + Min_) % Word
  THEN [hp EXCEPT !.flist = RemoveNode(hp.flist, h)]
  ELSE LET cpy == (h + WithHeader(n)) % Word
       IN  [size  |-> [x \in DOMAIN hp.size \cup {cpy} |->
                         CASE x = h   -> n
                           [] x = cpy -> hp.size[h] - WithHeader(n)
                           [] OTHER   -> hp.size[x]],
            flist |-> ReplaceAll(hp.flist, h, cpy)]

(* What vmm_alloc_page may return; without a page the processor writes a   *)
(* header at address 0.                                                    *)
FreshPages(hp) == HeapPages \ {PageOf(h) : h \in DOMAIN hp.size}

NoPage == halted' = TRUE /\ UNCHANGED <<size, flist, live>>

(* Block h goes to a client that asked for n bytes. *)
Take(hp, h, n) ==
  LET after == Carve(hp, h, Rounded(n))
  IN  /\ size' = after.size
      /\ flist' = after.flist
      /\ live' = [p \in DOMAIN live \cup {h + Hdr} |-> IF p = h + Hdr THEN n ELSE live[p]]
      /\ UNCHANGED halted

(* An empty list gets a page. *)
Stocked ==
  IF flist # <<>> THEN {Heap} ELSE {AddPage(Heap, p) : p \in FreshPages(Heap)}

(* kalloc(n).  When no block fits, another page is added, even if the      *)
(* first has just been added too small.                                    *)
Kalloc(n) ==
  /\ ~halted /\ ~Dangling
  /\ ~TooLarge(Rounded(n))
  /\ \/ Stocked = {} /\ NoPage
     \/ \E hp \in Stocked :
          LET i == FirstFit(hp, Rounded(n))
          IN  \/ i # 0 /\ Take(hp, hp.flist[i], n)
              \/ i = 0 /\ FreshPages(hp) = {} /\ NoPage
              \/ i = 0 /\ \E p \in FreshPages(hp) : Take(AddPage(hp, p), Base(p), n)

-----------------------------------------------------------------------------
(* k_try_collide: the two blocks become one if the second starts where the *)
(* first ends, in the same page.                                           *)
TryCollideAnyPage(hp, h1, h2) ==   \* mutant: the page is not compared
  IF End(hp.size, h1) = h2
  THEN [size  |-> [Without(hp.size, h2) EXCEPT ![h1] = @ + hp.size[h2] + Hdr],
        flist |-> RemoveNode(hp.flist, h2)]
  ELSE hp

TryCollide(hp, h1, h2) ==
  IF End(hp.size, h1) = h2 /\ PageOf(h1) = PageOf(h2)
  THEN [size  |-> [Without(hp.size, h2) EXCEPT ![h1] = @ + hp.size[h2] + Hdr],
        flist |-> RemoveNode(hp.flist, h2)]
  ELSE hp

(* The header goes with its page when the page is given back. *)
GiveBack(hp, h) == [hp EXCEPT !.size = Without(hp.size, h)]
Unlink(hp, h)   == [hp EXCEPT !.flist = RemoveNode(hp.flist, h)]

(* The block behind h is joined to it, 157. *)
JoinNext(hp, h, i) ==
  IF i < Len(hp.flist) THEN TryCollide(hp, h, hp.flist[i + 1]) ELSE hp

JoinPrevNever(hp, h, prev) == hp   \* mutant: only the next block is joined

JoinPrevOnly(hp, h, prev) == TryCollide(hp, prev, h)   \* mutant: the page is kept

(* h is joined to the free block before it, prev, 166-179.  A page that is *)
(* wholly free again is given back; its node leaves the list only if some  *)
(* node points to it, so that f_list itself is not moved on.               *)
JoinPrev(hp, h, prev) ==
  LET joined == TryCollide(hp, prev, h)
  IN  IF joined.size[prev] # WholePage THEN joined
      ELSE IF Head(joined.flist) = prev THEN GiveBack(joined, prev)
      ELSE GiveBack(Unlink(joined, prev), prev)

(* The heap after the block with header h is freed. *)
Released(hp, h) ==
  LET i  == NodesBelow(hp.flist, h) + 1
      h1 == JoinNext([hp EXCEPT !.flist = InsertNode(hp.flist, h)], h, i)
  IN  IF h1.size[h] = WholePage THEN GiveBack(Unlink(h1, h), h)
      ELSE IF i > 1 THEN JoinPrev(h1, h, hp.flist[i - 1])
      ELSE h1

(* kfree of a block that kalloc returned, which is all the kernel does: of *)
(* the tests for NULL and for the mark of a used block neither is taken.   *)
Kfree(p) ==
  /\ ~halted /\ ~Dangling
  /\ p \in DOMAIN live
  /\ LET after == Released(Heap, p - Hdr)
     IN  /\ size' = after.size
         /\ flist' = after.flist
  /\ live' = Without(live, p)
  /\ UNCHANGED halted

Next ==
  \/ \E n \in Requests : Kalloc(n)
  \/ \E p \in DOMAIN live : Kfree(p)

Spec == Init /\ [][Next]_vars

-----------------------------------------------------------------------------
(* Every variable has its type. *)
TypeOK ==
  /\ Blocks \subseteq Addrs
  /\ size \in [Blocks -> 0 .. PageSize]
  /\ flist \in Seq(Addrs)
  /\ DOMAIN live \subseteq Addrs
  /\ live \in [DOMAIN live -> Requests]
  /\ halted \in BOOLEAN

(* The blocks of a page tile it: the first starts with the page, each of   *)
(* the others where one ends, the last ends with the page, none starts     *)
(* within another.                                                         *)
BlocksTilePages ==
  \A h \in Blocks :
    LET page == PageOf(h)
    IN  /\ Base(page) \in Blocks
        /\ End(size, h) \in Blocks \/ End(size, h) = Base(page + 1)
        /\ \A g \in Blocks : g > h => g >= End(size, h)

(* Every block is in exactly one hand: held by a client or in the free     *)
(* list, and the list is in address order.                                 *)
FreeListExact ==
  Dangling \/
    /\ ToSet(flist) = {h \in Blocks : h + Hdr \notin DOMAIN live}
    /\ \A i \in 1 .. Len(flist) - 1 : flist[i] < flist[i + 1]
    /\ \A p \in DOMAIN live : p - Hdr \in Blocks

(* Free neighbours in a page are always joined, so that freeing everything *)
(* gives every page back.                                                  *)
NoFreeNeighbours ==
  \A h \in Blocks :
    End(size, h) \in Blocks /\ PageOf(End(size, h)) = PageOf(h) =>
      h + Hdr \in DOMAIN live \/ End(size, h) + Hdr \in DOMAIN live

(* A page that is wholly free is given back; kalloc itself leaves at most  *)
(* one behind, when it takes a page into an empty list and needs another.  *)
FreePagesGivenBack ==
  \A g, h \in Blocks :
    /\ size[g] = WholePage /\ g + Hdr \notin DOMAIN live
    /\ size[h] = WholePage /\ h + Hdr \notin DOMAIN live
    => g = h

(* "precondition, h1 and h2 are valid free headers" (kalloc.c 107): the    *)
(* nodes that kfree of any pointer would hand to k_try_collide are free    *)
(* blocks of mapped pages.                                                 *)
ColliderArgumentsValid ==
  \A p \in DOMAIN live :
    LET i == NodesBelow(flist, p - Hdr)
    IN  \A j \in {i, i + 1} \cap 1 .. Len(flist) :
          flist[j] \in Blocks /\ flist[j] + Hdr \notin DOMAIN live

(* Refinement: kalloc and kfree keep the promise of a heap. *)
Promise ==
  INSTANCE KernelHeap WITH held <- [p \in DOMAIN live |-> size[p - Hdr]]

BlocksArePrivate == Promise!Spec
=============================================================================
