-------------------------------- MODULE Boot --------------------------------
(***************************************************************************)
(* The kernel's memory from its entry point to the first message:          *)
(* kstart.asm builds page tables and turns paging on, arch_pmm_init builds *)
(* the bitmap of page frames from the BIOS's memory map, arch_vmm_init     *)
(* gives the address space its final layout, and the bitmap and the screen *)
(* are mapped into the table for core structures.                          *)
(*                                                                         *)
(* Nothing runs beside it: the steps only follow one another.  Addresses   *)
(* are 64-bit integers in the memory map and in the search; where the code *)
(* goes on with 32 bits they are cut, and its sums wrap, at Word.          *)
(***************************************************************************)
EXTENDS Integers, Sequences, SequencesExt

CONSTANTS PageSize, Bits,      \* bytes of a page, bits of a byte
          Entries,             \* entries of a page table
          IoIdx, KernelIdx, SwapIdx,  \* X86_..._PAGE_IDX
          BootStart, BootEnd,  \* the boot loader, behind it the memory map
          EntrySize,           \* sizeof(struct e820_frame_info)
          KernelPhys,          \* kernel_phys_start
          KernelPages,         \* pages from kernel_start to kernel_end
          Video, VideoLen,     \* the screen's memory
          Maps,                \* memory maps: sequences of [base, len, usable]
          IoTables             \* what RAM holds where the IO page table is put

None == -1

Word      == Entries * Entries * PageSize   \* 2^32: what a page directory spans
KernelEnd == KernelPhys + KernelPages * PageSize
TablesEnd == KernelEnd + 4 * PageSize   \* directory, identity, IO and kernel table

ASSUME BootAssumption ==
  /\ {PageSize, Bits, Entries, EntrySize, KernelPages} \subseteq Nat \ {0}
  /\ {BootStart, BootEnd, KernelPhys, Video, VideoLen} \subseteq Nat
  /\ {IoIdx, KernelIdx, SwapIdx} \subseteq Nat
  /\ 0 < IoIdx /\ IoIdx < KernelIdx /\ KernelIdx < SwapIdx /\ SwapIdx < Entries - 1
  /\ BootStart <= BootEnd
  /\ KernelPhys % PageSize = 0 /\ KernelPages <= Entries
  /\ BootEnd + PageSize <= Word /\ TablesEnd + PageSize <= Word
  /\ Video % PageSize = 0
  /\ \A m \in Maps : m \in Seq([base : Nat, len : Nat, usable : BOOLEAN])
  /\ \A t \in IoTables : t \in [0 .. Entries - 1 -> Nat \cup {None}]

VARIABLES pc,       \* the next step
          map,      \* the memory map
          bm,       \* pmm_mmap: [addr |-> bitmap_phy_addr, len |-> bitmap_len]
          i, at,    \* the search for the bitmap's place: entry and address
          used,     \* frames whose bit is set
          pd, pt,   \* the page directory, the page tables
          bmVirt, videoVirt  \* pmm_mmap.bitmap and video, virtual addresses

vars == <<pc, map, bm, i, at, used, pd, pt, bmVirt, videoVirt>>
pmmVars  == <<bm, i, at, used>>
pageVars == <<pd, pt, bmVirt, videoVirt>>

Index     == 0 .. Entries - 1
Self      == Entries - 1   \* the directory's entry for itself
MapEnd    == BootEnd + Len(map) * EntrySize

Init ==
  /\ pc = "kstart"
  /\ map \in Maps
  /\ bm = [addr |-> 0, len |-> 0] /\ i = 0 /\ at = None
  /\ used = {}
  /\ pd = [x \in Index |-> "none"]
  /\ pt \in {[low |-> t, io |-> t, kernel |-> t] : t \in IoTables}
  /\ bmVirt = 0 /\ videoVirt = None

-----------------------------------------------------------------------------
(* The virtual page that holds address a, as the processor sees it. *)
Translate(a) ==
  LET t == pd[a \div (Entries * PageSize)]
      x == (a \div PageSize) % Entries
  IN  IF t \notin DOMAIN pt \/ pt[t][x] = None THEN None
      ELSE (pt[t][x] \div PageSize) * PageSize + (a % PageSize)

(* kernel_entry up to the jump to kernel_main.  The loop that should clear *)
(* the IO table stores through edi, which is past the identity mapping.    *)
BuildTables ==
  /\ pc = "kstart" /\ pc' = "highest"
  /\ pd' = [x \in Index |-> CASE x = 0         -> "low"
                              [] x = IoIdx     -> "io"
                              [] x = KernelIdx -> "kernel"
                              [] x = Self      -> "pd"
                              [] OTHER         -> "none"]
  /\ pt' = [pt EXCEPT !.low    = [x \in Index |-> x * PageSize],
                      !.kernel = [x \in Index |-> KernelPhys + x * PageSize]]
  /\ UNCHANGED <<map, pmmVars, bmVirt, videoVirt>>

-----------------------------------------------------------------------------
(* arch_pmm_init *)
Usable == {map[k] : k \in {k \in DOMAIN map : map[k].usable}}

Highest == LET ends == {e.base + e.len : e \in Usable} \cup {0}
           IN  CHOOSE h \in ends : \A g \in ends : g <= h

(* The bytes of a bitmap for the memory below the highest address. *)
Needed == Highest \div (PageSize * Bits) + 1

SizeBitmap ==
  /\ pc = "highest" /\ pc' = "search"
  /\ bm' = [addr |-> 0, len |-> Needed]
  /\ i' = 1 /\ at' = None
  /\ UNCHANGED <<map, used, pageVars>>

(* frames_collide *)
Collide(x, xend, y, yend) == (x >= y /\ x < yend) \/ (y >= x /\ y < xend)

KeptNoTables ==   \* mutant: the four page tables behind the kernel are forgotten
  <<[from |-> BootStart, to |-> BootEnd], [from |-> BootEnd, to |-> MapEnd],
    [from |-> KernelPhys, to |-> KernelEnd]>>

(* The regions the bitmap must not touch, in the order they are tried. *)
Kept == <<[from |-> BootStart, to |-> BootEnd], [from |-> BootEnd, to |-> MapEnd],
          [from |-> KernelPhys, to |-> TablesEnd]>>

Hits == SelectInSeq(Kept, LAMBDA r : Collide(at, at + bm.len, r.from, r.to))

Search == pc = "search" /\ UNCHANGED <<map, used, pageVars>>

SearchEnter ==
  /\ Search /\ i <= Len(map) /\ at = None
  /\ IF ~map[i].usable \/ map[i].len < bm.len \/ map[i].base >= Word - 1
     THEN i' = i + 1 /\ UNCHANGED at
     ELSE at' = map[i].base /\ UNCHANGED i
  /\ UNCHANGED <<pc, bm>>

SearchMoveOn ==   \* mutant: a region in the way is the end of its entry
  /\ Search /\ at # None /\ Hits # 0
  /\ i' = i + 1 /\ at' = None
  /\ UNCHANGED <<pc, bm>>

SearchMove ==
  /\ Search /\ at # None /\ Hits # 0
  /\ at' = Kept[Hits].to
  /\ UNCHANGED <<pc, bm, i>>

SearchPlace ==
  /\ Search /\ at # None /\ Hits = 0
  /\ IF at + bm.len < map[i].base + map[i].len
     THEN /\ bm' = [bm EXCEPT !.addr = at]
          /\ pc' = "fill"
          /\ UNCHANGED <<i, at>>
     ELSE i' = i + 1 /\ at' = None /\ UNCHANGED <<pc, bm>>

(* No place: arch_pmm_init returns without a word to pmm_mmap, a bitmap of *)
(* no bytes at 0 as long as memory that no one has written holds zeros.    *)
SearchFail ==
  /\ Search /\ i > Len(map)
  /\ bm' = [addr |-> 0, len |-> 0]
  /\ pc' = "vmm"
  /\ UNCHANGED <<i, at>>

AllBits == 0 .. bm.len * Bits - 1

(* Every byte of the bitmap is reached at its physical address. *)
BitmapReached == \A a \in bm.addr .. bm.addr + bm.len - 1 : a < Word /\ Translate(a) = a

(* memset of the whole bitmap, at its physical address; outside of the     *)
(* identity mapping the processor faults, and there is no handler yet.     *)
FillBitmap ==
  /\ pc = "fill"
  /\ IF BitmapReached
     THEN pc' = "usable" /\ used' = AllBits
     ELSE pc' = "fault" /\ UNCHANGED used
  /\ i' = 1
  /\ UNCHANGED <<map, bm, at, pageVars>>

(* The bits of pages first .. end - 1, as the masks of the first and the   *)
(* last byte and the memset between them choose them.                      *)
BitsOf(first, end) ==
  LET bi == first \div Bits
      ei == end \div Bits
      Of(byte, offsets) == {byte * Bits + o : o \in offsets}
  IN  IF bi = ei THEN Of(bi, (first % Bits) .. (end % Bits) - 1)
      ELSE Of(bi, (first % Bits) .. Bits - 1) \cup Of(ei, 0 .. (end % Bits) - 1)
           \cup (IF ei - bi >= 2 THEN UNION {Of(b, 0 .. Bits - 1) : b \in bi + 1 .. ei - 1}
                 ELSE {})

(* The page of an address and the first page from an address on: the sums  *)
(* are of 32 bits.                                                         *)
Down(a) == (a % Word) \div PageSize
Up(a)   == ((a + PageSize - 1) % Word) \div PageSize

UsablePagesRoundedOut(base, len) ==   \* mutant: a page is freed for a part of it
  IF len < PageSize THEN {} ELSE BitsOf(Down(base), Up(base + len))

(* mark_range_as_usable: whole pages only. *)
UsablePages(base, len) ==
  IF len < PageSize THEN {} ELSE BitsOf(Up(base), Down(base + len))

(* Its last sum has wrapped: the byte of the range's end is before that of *)
(* its start, and the number of bytes between them is negative.            *)
RunsAway(base, len) == PageSize <= len /\ Down(base + len) \div Bits < Up(base) \div Bits

(* mark_range_as_used: every page the range touches. *)
UsedPages(base, len) == BitsOf(Down(base), Up(base + len))

(* mark_bitmap_usable_from_e820, an entry at a time; addresses and lengths *)
(* are cut to 32 bits.  A memset whose length is negative clears nearly    *)
(* 2^32 bytes from the bitmap upwards, and so comes to the end of what is  *)
(* mapped: the kernel never gets further.                                  *)
MarkUsable ==
  /\ pc = "usable" /\ i <= Len(map)
  /\ LET base == map[i].base % Word
         len  == map[i].len % Word
     IN  IF map[i].usable /\ RunsAway(base, len)
         THEN pc' = "fault" /\ UNCHANGED used
         ELSE /\ used' = IF map[i].usable THEN used \ UsablePages(base, len) ELSE used
              /\ UNCHANGED pc
  /\ i' = i + 1
  /\ UNCHANGED <<map, bm, at, pageVars>>

(* The boot loader, the kernel with its page tables, the bitmap, page 0. *)
MarkUsed ==
  /\ pc = "usable" /\ i > Len(map) /\ pc' = "vmm"
  /\ used' = used \cup UsedPages(BootStart, BootEnd - BootStart)
                  \cup UsedPages(KernelPhys, TablesEnd - KernelPhys)
                  \cup UsedPages(bm.addr, bm.len)
                  \cup {0}
  /\ UNCHANGED <<map, bm, i, at, pageVars>>

-----------------------------------------------------------------------------
KernelTableShort(x) == x < KernelPages - 1   \* mutant: kernel_pages rounded down

(* The entries that stay in the kernel's table. *)
KernelTable(x) == x < KernelPages

(* arch_vmm_init: the identity mapping goes, its table becomes the empty   *)
(* swap table, the kernel's table shrinks to the kernel.                   *)
VmmInit ==
  /\ pc = "vmm" /\ pc' = "remap"
  /\ pd' = [pd EXCEPT ![0] = "none", ![SwapIdx] = "low"]
  /\ pt' = [pt EXCEPT !.low    = [x \in Index |-> None],
                      !.kernel = [x \in Index |-> IF KernelTable(x) THEN @[x] ELSE None]]
  /\ UNCHANGED <<map, pmmVars, bmVirt, videoVirt>>

MapCoreRoundedDown(base, len) ==   \* mutant: n_pages = len / PAGE_SIZE
  LET n     == len \div PageSize
      Run(x) == x + n <= Entries /\ \A y \in x .. x + n - 1 : pt.io[y] = None
      runs  == {x \in Index : Run(x)}
      first == CHOOSE x \in runs : \A y \in runs : x <= y
  IN  IF runs = {} THEN [at |-> None, io |-> pt.io]
      ELSE [at |-> first,
            io |-> [y \in Index |-> IF y \in first .. first + n - 1
                                    THEN base + (y - first) * PageSize ELSE pt.io[y]]]

(* arch_vmm_map_core: the first run of empty entries that is long enough;  *)
(* None when there is none.                                                *)
MapCore(base, len) ==
  LET n     == (len + PageSize) \div PageSize
      Run(x) == x + n <= Entries /\ \A y \in x .. x + n - 1 : pt.io[y] = None
      runs  == {x \in Index : Run(x)}
      first == CHOOSE x \in runs : \A y \in runs : x <= y
  IN  IF runs = {} THEN [at |-> None, io |-> pt.io]
      ELSE [at |-> first,
            io |-> [y \in Index |-> IF y \in first .. first + n - 1
                                    THEN base + (y - first) * PageSize ELSE pt.io[y]]]

IoAddress(m) == IF m.at = None THEN 0 ELSE (IoIdx * Entries + m.at) * PageSize

(* pmm_remap_self_data *)
RemapBitmap ==
  /\ pc = "remap" /\ pc' = "video"
  /\ LET m == MapCore(bm.addr, bm.len)
     IN  /\ pt' = [pt EXCEPT !.io = m.io]
         /\ bmVirt' = IoAddress(m)
  /\ UNCHANGED <<map, pmmVars, pd, videoVirt>>

(* printk_setup *)
MapVideo ==
  /\ pc = "video" /\ pc' = "done"
  /\ LET m == MapCore(Video, VideoLen)
     IN  /\ pt' = [pt EXCEPT !.io = m.io]
         /\ videoVirt' = IoAddress(m)
  /\ UNCHANGED <<map, pmmVars, pd, bmVirt>>

Next ==
  \/ BuildTables
  \/ SizeBitmap \/ SearchEnter \/ SearchMove \/ SearchPlace \/ SearchFail
  \/ FillBitmap \/ MarkUsable \/ MarkUsed
  \/ VmmInit \/ RemapBitmap \/ MapVideo

Spec == Init /\ [][Next]_vars

-----------------------------------------------------------------------------
(* Every variable has its type. *)
TypeOK ==
  /\ pc \in {"kstart", "highest", "search", "fill", "usable", "vmm", "remap",
             "video", "done", "fault"}
  /\ bm \in [addr : Nat, len : Nat]
  /\ i \in 0 .. Len(map) + 1 /\ at \in Nat \cup {None}
  /\ used \subseteq Nat
  /\ pd \in [Index -> {"none", "low", "io", "kernel", "pd"}]
  /\ pt \in [{"low", "io", "kernel"} -> [Index -> Nat \cup {None}]]
  /\ bmVirt \in Nat /\ videoVirt \in Nat \cup {None}

Within(a, b, from, to)   == from <= a /\ b <= to
Disjoint(a, b, from, to) == b <= from \/ to <= a

(* The bitmap lies in usable memory and touches neither the boot loader    *)
(* nor the memory map nor the kernel nor the page tables in use.           *)
BitmapInFreeMemory ==
  pc \in {"fill", "usable", "fault"} =>
    LET end == bm.addr + bm.len
    IN  /\ \E e \in Usable : Within(bm.addr, end, e.base, e.base + e.len)
        /\ Disjoint(bm.addr, end, BootStart, BootEnd)
        /\ Disjoint(bm.addr, end, BootEnd, MapEnd)
        /\ Disjoint(bm.addr, end, KernelPhys, TablesEnd)

(* The kernel goes without a bitmap, and so without memory, only if there  *)
(* is no place for one in any usable entry, each but for its last byte:    *)
(* wherever it began it would touch a region that is kept.                 *)
PlaceFound ==
  pc \in {"vmm", "remap", "video", "done"} /\ bm.len = 0 =>
    \A e \in Usable : e.base < Word - 1 =>
      \A a \in e.base .. e.base + e.len - Needed - 1 :
        \E k \in DOMAIN Kept : Collide(a, a + Needed, Kept[k].from, Kept[k].to)

(* Page f may be given out: all of it is usable, none of it in use. *)
FreePage(f) ==
  LET a == f * PageSize
      b == a + PageSize
  IN  /\ f # 0
      /\ \E e \in Usable : Within(a, b, e.base, e.base + e.len)
      /\ Disjoint(a, b, BootStart, BootEnd)
      /\ Disjoint(a, b, KernelPhys, TablesEnd)
      /\ Disjoint(a, b, bm.addr, bm.addr + bm.len)

(* All usable memory ends below 4 GB. *)
MapFits == \A e \in Usable : e.base + e.len < Word

(* If it does, the frames left unmarked are exactly the whole pages of     *)
(* usable memory that nothing occupies, and the kernel only fails to get   *)
(* that far if its bitmap is not in the memory that kstart has mapped.     *)
BitmapExact ==
  MapFits =>
    /\ pc \in {"vmm", "remap", "video", "done"} =>
         \A f \in AllBits : f \notin used <=> FreePage(f)
    /\ pc = "fault" => ~BitmapReached

(* "now we free all available/usable frames from e820" (arch pmm.c 278):   *)
(* no other frame is given out.                                            *)
OnlyUsableFreed ==
  pc \in {"vmm", "remap", "video", "done"} => \A f \in AllBits \ used : FreePage(f)

(* The kernel's own pages stay where they are through every change of the  *)
(* tables, and once the address space is final they are all it maps but    *)
(* what map_core added: no identity mapping, an empty swap table.          *)
KernelMapped ==
  pc # "kstart" =>
    /\ \A x \in 0 .. KernelPages * PageSize - 1 :
         Translate(KernelIdx * Entries * PageSize + x) = KernelPhys + x
    /\ pd[Self] = "pd"
    /\ pc \in {"remap", "video", "done"} =>
         \A a \in 0 .. Entries - 2 : \A x \in Index :
           LET v == (a * Entries + x) * PageSize
           IN  Translate(v) # None => a = IoIdx \/ (a = KernelIdx /\ x < KernelPages)

(* What map_core maps is reached at the address it returns, however full   *)
(* the table was: the bitmap if its place is the start of a page, and the  *)
(* screen.                                                                 *)
CoreReached ==
  /\ pc \in {"video", "done"} /\ bmVirt # 0 /\ bm.addr % PageSize = 0 =>
       \A x \in 0 .. bm.len - 1 : Translate(bmVirt + x) = bm.addr + x
  /\ pc = "done" /\ videoVirt # 0 =>
       \A x \in 0 .. VideoLen - 1 : Translate(videoVirt + x) = Video + x
=============================================================================
