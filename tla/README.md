# A verification project for Abel-OS

Abel-OS is a small 32-bit x86 kernel with its own boot loader. This directory
holds TLA+ modules that model it from its source, TLC configurations that check
them on small instances, and proofs for TLAPS.

## 1. The system

| component | source (under `src/`) | state | operations |
|---|---|---|---|
| boot loader | `bootloader/stage1.asm`, `stage2.asm` | memory, the disk packet, the current cylinder/head/sector, sectors left | stage 1, `load_sectors` in two variants, `load_mmap`, header check, jump |
| boot memory | `os/src/arch/x86/kstart.asm`, `pmm/pmm.c`, `vmm/vmm.c`, `setup.c` | page directory and tables, the bitmap under construction | page tables before paging, `arch_pmm_init`, `arch_vmm_init`, `arch_vmm_map_core` |
| page allocator | `os/src/kernel/pmm/pmm.c`, `kernel/vmm/vmm.c`, `arch/x86/vmm/vmm.c` | frame bitmap, kernel page table, TLB | `vmm_alloc_page`, `vmm_free_page` |
| kernel heap | `os/src/kernel/kalloc/kalloc.c` | headers in heap pages, `f_list` | `kalloc`, `kfree` |
| scheduler | `os/src/kernel/scheduler/*`, `arch/x86/scheduler/*` | `current`, `proc_list`, control blocks, saved stacks | create, start, tick, schedule, exit, switch |
| interrupt tables and controller | `os/src/arch/x86/interrupts/*` | descriptor table, vectors, masks, requests, lines in service | `idt_init`, `pic_remap`, mask, unmask, end of interrupt |
| interrupt dispatch | `os/src/kernel/interrupt/*`, `arch/x86/interrupts/*` | handler and post-routine tables | stub, dispatch, handler, end of interrupt, post routine |
| interval timer | `os/src/arch/x86/timer/pit.c`, `kernel/kernel.c` | 64-bit count of ticks | handler, `pit_ticks`, the tasks that wait |
| keyboard, its controller, input queue | `os/src/drivers/keyboard.c`, `kernel/input/input.c`, `ps2_controller.c` | output buffer, `extended`, ring of 16 events, `head`, `tail` | scancode interrupt, push, pop |
| console | `os/src/kernel/printk/printk.c` | video memory, cursor | `put_char`, scrolling |
| key names, memory helpers, legacy loaders | `input/types.c`, `lib/`, `*_legacy.asm` | tables | see section 8 |

**How they interact.** Stage 1 loads two sectors of stage 2, stage 2 the rest of
itself and the kernel, and passes the BIOS's memory map to `kstart.asm`. `kernel_main`
builds the bitmap and the address space, maps the screen, then sets up interrupts
(descriptor table, vectors, masks, `sti`, handlers, unmasking, in this order) and
starts the scheduler. The heap takes pages from `vmm_alloc_page` and returns
them by `vmm_free_page`; so does the scheduler for stacks. The scheduler keeps its
list and control blocks in the heap. A request goes through a controller, the stub,
`interrupt_dispatch` and `irq_dispatch`: handler, end of interrupt, then the post
routine, which for the timer may switch to another stack from inside the interrupt. The
keyboard's interrupt pushes into a queue that a process may pop by `input_event_pop`; none does yet, so the
model of the queue is about that interface. The processes print
on one screen and read the count of ticks the timer's interrupt writes.

**What is hard.** There are no locks. Interrupts are off in handlers only, so a
process can lose the processor inside `kalloc`, inside a pop, inside `put_char`, between the
two words of a count, or inside the exit path while it runs on a stack it has
freed. Interrupts are enabled before handlers are there; ends of interrupts name no line.
Memory is found at its limits (no frame, no page, frame 0), translations outlive their pages,
and the heap's list must stay exact over long sequences of calls. At boot, ranges
cross the ends of pages, bytes, tracks and 32 bits. The list with lines is in
`PROJECT.json`, "hazards".

**What makes each part correct.**
Page allocator: pages are private memory until frames run out. Heap: blocks are
private, and the free list describes the pages. Scheduler: contexts stay apart, freed
things are not used, everyone gets a turn. Interrupts: each request reaches its own handler,
and no line stays blocked. Timer: no tick is lost, and no task waits for a time that does not come.
Queue: events come out whole, in order. Boot memory: exactly the free memory is given out,
the kernel stays mapped. Loader: what is entered is what is on the disk. Console: the screen
shows the end of the text.

## 2. Modules

| module | models | state and actions |
|---|---|---|
| `AddressSpace` | what the page allocator promises | `store`: mapped pages and their contents; allocate, free, write |
| `Vmm` | page allocator with the TLB | `used` is the bitmap, `pte` the kernel's page table, `tlb` the processor's cache, `mem` one value per frame; `AllocPage`, `AllocPageNoVirtual`, `FreePage`, `Write`, `Evict` |
| `KernelHeap` | what the heap promises | blocks in use; disjoint, kept until freed |
| `Kalloc` | the heap | headers by address, `f_list` and `next`; one step per call, as a call is not interleaved with another (`HeapExclusive` of `Scheduler` is the reason) |
| `RoundRobin` | what the scheduler promises | a ring and whose turn it is |
| `Scheduler` | scheduler, switch, timer interrupt | a program counter per context and interrupt level, `saved` stacks, flags; one action per statement that matters on the exit path |
| `Interrupts` | controllers, descriptor table, dispatch, keyboard controller | `irr`, `isr`, `imr` are the controllers' registers, `base` their vectors, `full` the keyboard's output buffer; `kernel_main`'s set-up steps, a request's way from `Interrupt` over `Dispatch`, `Handle`, `EndIrq` to `Iret`, `Spurious`, `Exception`, the devices |
| `Timer` | the count of ticks and a task that reads it | extends `Interrupts`: the handler counts, the task reads the low and the high word in two steps and compares |
| `InputQueue` | queue and scancode parser | ring, `head`, `tail`, `extended`; the reader's pop is five steps, the interrupt one |
| `Boot` | boot memory | `pd`, `pt`, the memory map, the bitmap's place and bits; sequential |
| `Loader` | boot loader | sector-sized memory slots with the sector they hold; every BIOS call may fail |
| `Console` | text screen and several printers | `video`, `x` and `y`; one step per access to the shared cursor, each printer with its own arguments and registers |

Beside them, `VmmProofs`, `SchedulerProofs`, `TimerProofs` (of `Interrupts`, too),
`InputQueueProofs`, `BootProofs`, `LoaderProofs`, `ConsoleProofs` and `KallocProofs` hold the theorems
(section 5), and `MC*.tla` give the constants for TLC. `PROJECT.json`, "map", names the
lines each definition stands for. Definitions marked `mutant` are not used by the
specifications: each is a plausible slip in the code that violates a property, which shows
that the property depends on that code.

Detailed specifications implement abstract ones: `Vmm` implements `AddressSpace`
(`PagesArePrivate`), `Kalloc` implements `KernelHeap` (`BlocksArePrivate`), `Scheduler`
implements `RoundRobin` with its fairness (`TurnsKeepGoingRound`), and every step of `Timer`
is one of `Interrupts`.

## 3. Runs

| run | instance | what it shows |
|---|---|---|
| `vmm` | 3 free frames, 4 free pages, so that frames end before pages and after a free the reverse | no frame is shared or lost, stale translations are harmless, pages are private |
| `kalloc` | 3 pages, requests that leave a whole rest, a split rest, an unusable rest | the list is exact, neighbours are joined, pages given back, blocks private |
| `kalloc_collide` | 2 pages, same requests | violation: `f_list` points into a page given back |
| `scheduler` | 4 processes as in `kernel_main`, 2 return; quantum 3, 2 ticks while a context leaves | exit path under ticks, heap exclusion, freed stacks, round robin, progress |
| `timer` | from `kernel_main`'s first instruction: timer, keyboard, devices without a handler on lines 4 and 12, spurious requests, exceptions 0 and 14; a word of 3 values, 8 ticks | no line stays in service, no request is mistaken, no tick is lost, a task is ahead of the count by less than a word, keys are read |
| `input_queue` | ring of 4, counters of 8 | order, wholeness, prefix pairing, the limit and the two moments at which it fails |
| `boot` | pages of 8 bytes, bytes of 8 bits, tables of 16 entries, so 2048 addresses; 432 memory maps, some ending at the last address; 5 leftovers of the IO table | the bitmap is placed if there is a place, and rightly; its contents; the final address space |
| `boot_high` | usable memory behind 32 bits, or across their end | violation: its frames are freed at the address cut to 32 bits |
| `loader` | 7380 machines: both addressing modes, 12 geometries, stage 2 and kernel of 1 to 6 sectors | reads in order, completeness; the loader gets through exactly where it can |
| `loader_halt` | same | violation: it halts though no call failed and the image is right |
| `loader_all` | same | violation: a kernel of several reads is entered shifted by a sector |
| `console` | 3 x 2 screen, 7 mapped cells, 2 printers, texts up to 6 | the screen shows the end of the text; the cursor comes back when printers overlap |

**Why the bounds are enough.** Each size is the smallest at which all branches and their
boundaries occur. `vmm`: both exhaustions, and reallocation of a freed frame to another page
while its old translation survives, need two frames; the third lets a bystander notice.
`kalloc`: a page has up to four blocks, so that a free joins with none, the previous, the next,
or both, and the list has pages before and behind. `scheduler`: two returning processes can be
adjacent in the list or overlap in the exit path. The real quantum is 300 ticks and the exit
path takes microseconds, so fewer ticks than a quantum can arrive in it: `WindowTicks <
Quantum`. `timer`: one device without a handler at each controller, so that a request of either
can be nested behind any other; eight ticks carry a word of three values twice, so that two
torn readings can follow one another. Each device raises its line at most once between two
steps of the program: its requests are milliseconds apart and a handler takes microseconds.
`input_queue`: with four slots head and tail wrap at different times and the 8-bit counter
wraps, too. `boot`: the ranges' ends lie on and off pages and bytes of the bitmap, in one byte
and in several, and at the last address and one below it, where the sums of 32 bits wrap; the
bitmap's length makes it fit in front of, between or behind the kept regions, or nowhere,
within the identity mapping of 128 bytes or across its end. `loader`: loads of five sectors
need two reads of three sectors, cross tracks of four and cylinders of one or two heads, and a
disk with three heads, one more than the byte that counts them holds, is the real one of 256.
`console`: six characters fill the screen and scroll more than all of it, a tab crosses the end
of a row and of the screen, and one cell of the page lies behind the screen.

`CHECK_DEADLOCK FALSE` is set where the system does stop: boot and loader end,
an exception stops the kernel (`timer`), the console's text is bounded, the page allocator's client
dereferences NULL when the page table is full, the heap follows a dangling list or a NULL page, and the
queue's model ends with an overrun, behind which nothing is promised. The scheduler never stops and is
checked for deadlock.

**Fairness.** `Scheduler!Fairness`: weak fairness of the timer, which keeps ticking. Weak
fairness of handlers: interrupts are off in them and they have no loops. Strong
fairness of the code of each context when it is outside of handlers: a tick
disables its step for a moment, again and again, but handlers last microseconds and
ticks are milliseconds apart, so the interrupted code advances. The code of processes
owes nothing: a process may stay in user code for ever, and returning is its choice.
`TimerFairSpec`: weak fairness of `ProcessorStep`, the processor executing the next
instruction, be it the program's or an interrupt's. Devices and exceptions owe nothing.

## 4. Findings

* `kfree`, when joining to the predecessor completes a page that is first in the list, does not
  advance `f_list` (`kalloc.c` 168-177; run `kalloc_collide`).
* Usable memory above 4 GB is freed at its address modulo 4 GB (arch `pmm.c` 217-218;
  `boot_high`). The sums that round a range to pages wrap as well (134, 137), so that a range
  that crosses 4 GB from the last page frees frames from 0 on.
* `load_sectors` drops the offset after its first read (`stage2.asm` 184-185, 359-360;
  `loader_all`), so that a kernel of more than 128 sectors with extended reads, or of more than
  two sectors without, is not entered whole.
* `load_sectors_chs` does not do what its comments say (`stage2.asm` 322, 400, 406;
  `loader_halt`): `dl` is recovered and at once overwritten (329), so that drive 0 is read
  whatever was booted from, as in the run's trace; and a load that ends with the disk's last
  sector fails though it is complete (380-386). `Bootable` says where neither happens, and
  `BootsWhereItCan` that the loader gets through exactly there.

## 5. Proofs

Each module named `*Proofs` follows one plan: an inductive invariant, one lemma per action that
it is kept, and theorems that read the runs' properties off it. All parameters are arbitrary
but for the assumption each model states (`VmmAssumption`, `KallocAssumption`,
`SchedulerAssumption`, `InterruptsAssumption`, `TimerAssumption`, `InputAssumption`,
`BootAssumption`, `LoaderAssumption`, `ConsoleAssumption`), which TLC evaluates in every run.

**`VmmProofs`**, for every number of frames and pages, every reserved set and kernel image:
`TypeCorrect`, `Invariance`, `FramesExclusive` (no two pages share a frame other than 0),
`FramesKept` (no frame is lost before the page table is full), `StaleTranslations` (a
translation that outlives its page never reaches another page's frame), `Refinement` (`Vmm`
implements `AddressSpace`). `NoFrameShared` alone is not inductive: `pmm_alloc_page` returns a
frame whose bit is clear, so one must know that a mapped frame's bit is set
(`MappedFrameIsUsed`). `StaleTranslationHarmless` needs to know what cached translations of
unmapped pages may point to: frames that are free, or 0; since `Map` flushes by a reload of the
page directory and `Dealloc` does not, the crucial step is that a frame returns to use only
together with such a flush. Frame 0, which the allocator returns when nothing is left, is the
exception throughout; `overcommitted` marks when it has been mapped, and the refinement
promises private pages until then.

**`SchedulerProofs`**, for every number of processes, every set of them that returns and every
quantum: `SchedulerTypeCorrect`, `ContextsKept`, `StacksFreedOnce`, `NoPcbAfterFree`,
`FreedStackKept`, `HeapNeedsNoLock`, `RoundRobinKept`. The invariant `PInv` relates `current`,
the list, the flags and each context's place: interrupts are off in handlers (`IrqOff`), a
process that is not running is parked at its switch with its own stack saved (`Parked`),
`current` differs from the running context only while that hands over (`Running`), and the
ticks that fall into this time stay below the quantum (`Ticks`), so that no second switch
begins in it: without that bound on ticks a context would be saved into another's control
block. `HeapNeedsNoLock` has a hypothesis of its own, that one process alone uses the heap, as
in `kernel_main`; with two it is false. `RoundRobinKept` is the refinement's safety half: `Spec
=> Ring!Spec`. Three theorems are the safety below the liveness properties. `NobodyOvertaken`:
the number of turns before a process's own (`TurnsAhead`) is less than the length of the list,
never grows, and gets smaller with every turn that is passed on, whoever leaves meanwhile;
`EveryoneRuns` adds to it only that turns are passed on. `ReapedWhole`: what has left the list
has returned and its stack is free, for which every mapped stack must be a listed process's or
that of the process that is leaving (`StacksListed`). `SwitchedAwayForGood`: the last switch of
a returned process, and the one `scheduler_start` makes, never come back. They rest on the
position of a process in the list before and after another is removed (`Removed`, `NodePlace`).

**`TimerProofs`**, of `Interrupts` for all devices and exceptions: `TypeCorrect`, `Invariance`,
`LinesFreed` (`NothingLeftInService`), `RequestsTold` (`IrqNotMistaken`), `KeysNotForgotten`
(`KeyReadFirst`). The invariant says what the set-up has done by each step of `kernel_main`
(`SetUp`), how the interrupt frame's number follows from the line (`Frame`), and that the lines
in service are the one that is handled and, for the second controller, the cascade
(`InService`): the end of interrupt names no line, so it is right only because nothing else is
in service. `KeysNotForgotten` is what `KeysAreRead` needs beside the processor's progress: the
controller remembers the keyboard's request until it is taken for its own, and once the lines
are open the program makes no step before that; it needs the handler to be registered, the mask
to be open and the flag to be on (`KeyboardServed`). Of `Timer`, for every word, waiting time
and bound on ticks: `Simulation` (a behaviour of `TimerSpec` is one of `Interrupts`),
`TimerInvariance`, `TimerTypeCorrect`, `TicksCounted`, `TaskInTime`, `TimerInterrupts`. The
invariant adds what the low word that a task holds says of the count when it was read
(`Reading`): the time put together from two halves lies between that count and the present one
plus less than a word.

**`InputQueueProofs`**, for every size of the ring and width of its counters that the size
divides: `QueueInvariance`, `QueueTypeCorrect`, `RingIsQueue`, `PrefixKept`, `PopIsWhole`,
`RefusalJustified`, `ExcessInWindow`. The invariant places `head` at each statement of a pop
(`HeadInv`), ties the parser's flag to the bytes still on the wire (`Parser`), the slots
between head and tail to the accepted events (`Ring`), and the half-copied event to the oldest
of them (`Taken`): it stays the oldest because interrupts only append.

**`BootProofs`**, for all sizes, places and memory maps: `BootInvariance`, `BootTypeCorrect`,
`BitmapPlaced` (`BitmapInFreeMemory`), `SearchComplete` (`PlaceFound`), `BitmapRight`
(`BitmapExact`), `KernelStays` (`KernelMapped`), `CoreStays` (`CoreReached`). `BitmapRight` is
for maps whose usable entries all end below 4 GB (`MapFits`): only there do the sums of
`mark_range_as_usable` and `mark_range_as_used` not wrap (`Rounding`, `Spans`; the bitmap, too,
ends below 4 GB, as the fill has reached every byte of it: `Filled`). An entry that ends at 4
GB, and begins behind the first eight pages, stops the kernel (`RunsAway`), and one that goes beyond frees other frames (`boot_high`).
The invariant records what the search has ruled out: every address before the present one, in
this entry and in those before, is blocked (`Tried`), by which giving up means that there is no
place; and which entries have been marked (`Marked`). The masks of `BitsOf` are shown to choose
the pages of a range by arithmetic of quotients and remainders (`DivMod`, `Lexical`, `Chosen`).

**`LoaderProofs`**, for every geometry, size of a read and of the images: `LoaderInvariance`,
`LoaderTypeCorrect`, `ReadsFollow`, `Stage2Whole`, `OneReadOnly`, `BootsOrTells`
(`BootsWhereItCan`). The invariant says that the cylinder, head and sector are those of the
next sector to read (`Addressed`), whose carry is a lemma, and which slots of memory hold which
sectors (`Stage2Loaded`, `KernelLoaded`); `Passed` adds what has been checked by each step: a
load that has returned without extended reads has stopped before the end of the disk
(`Within`), on one whose heads fit in a byte.

**`ConsoleProofs`**, for any number of printers, any text and any size of screen, page and tab:
`CursorReturns` (`CursorComesBack`). The invariant is a relation between the shared cursor and
the statements that are still to come: a column outside the row means that somebody is before
his test of it (`ColumnPending`), and a row below the screen the same, unless a newline
overlapped (`RowInv`). `ScreenShown` (`ScreenShowsEnd`): while printers do not overlap the
screen shows the end of the text and blanks behind it. `SInv` says at each statement of a
character what part of it is already on the screen, and `InStep` which row of the page the
screen's first one is. The recursive function `Place` is justified by induction over the text,
done from the least number that is not in a set (`Least`, `Induction`); places grow
(`PlacesGrow`), so that no two letters share one, and copying the rows up keeps each letter at
its place (`ScrollShows`).

**`KallocProofs`**, for every size of a page, a header and a smallest rest, every set of pages
and every set of requests that do not wrap when the header is added (`NoWrap`, a hypothesis of
each theorem): `KallocInvariance`, `KallocTyped`, `KallocTiles` (`BlocksTilePages`),
`KallocListExact` (`FreeListExact`), `KallocJoins` (`NoFreeNeighbours`), `KallocGivesBack`
(`FreePagesGivenBack`), `KallocRefines` (`Kalloc` implements `KernelHeap`). None of the
properties is inductive alone. `kfree` finds neighbours in the list only, so that nothing free
is left beside the block it returns just because the list is exact and sorted (`Surroundings`);
a page can be given back because a block as large as a page is alone on it (`WholeAlone`); and
at most one page is wholly free because `kfree` returns each page it completes, and `kalloc`
leaves one behind only when the list was empty (`OneWhole`). `KInv` puts them together. When
the page that is given back is first in the list, `f_list` dangles, and the heap takes no
further step in the model. `KallocDangles` says how far the finding goes: the list still holds
every free block and only its first node is wrong, this begins only when `kfree` gives back the
page of the free block before the one it frees, and until then the precondition of
`k_try_collide` (`ColliderArgumentsValid`) holds. Induction over the list is not needed, as a
walk is the choice of the first node that satisfies a condition, and the lemmas on sorted
sequences (`InsertSorted`, `RemoveSorted`, `ReplaceSorted`) say what a step does to it.

## 6. Only model-checked

Liveness under fairness (`EveryoneRuns`, `ExitReaped`, `KeysAreRead`, the fairness in
`TurnsKeepGoingRound`) and statements with ENABLED are out of the prover's reach; of the first
three the safety they rest on is proved (`NobodyOvertaken`, `ReapedWhole`, `KeysNotForgotten`).
No module declares a RECURSIVE operator. The type invariants of `Vmm`, `Interrupts`, `Timer`,
`InputQueue`, `Boot` and `Loader` are proved and not repeated in runs.

## 7. Plan

1. *(done)* `Vmm` with its abstract specification; `Kalloc`, `Scheduler`, `Interrupts`, `Timer`, `InputQueue`,
   `Boot`, `Loader`, `Console` with runs; proofs of the safety of all of them.
2. *Compose.* `Scheduler` with `Vmm`, with processes that allocate concurrently, which nothing in the kernel does now but
   a second `kalloc_test` would; `Kalloc` over a page allocator that fails.
3. `scheduler_kill_process`, once something calls it.

## 8. Not modelled

* Straight-line code: the divisor of the timer (`pit_set_frequency` has no caller), the
  keyboard controller's status and command ports, the entries of the BIOS's memory map, the
  segment descriptors and the switch to protected mode.
* Data: key names and scancode tables. Formatting of numbers, which has no state. `memcpy` and
  `memset`, used as what they do.
* Code that nothing calls: `pmm_alloc_pages`, `vmm_alloc_pages` (stubs),
  `arch_vmm_alloc_page_table`, `remove_char`, `scheduler_kill_process`,
  `unregister_irq_handler`. The legacy boot loaders are not built.

All models assume that memory nobody has written holds zeros. The kernel is a flat binary, and
nothing clears the memory behind it: `proc_list`, which no one initialises, is empty
(`Scheduler`), and `pmm_mmap` holds no bitmap when the search for one fails (`Boot`), only as
long as this is so. The table for core structures is the exception: `boot` starts from several
leftovers in it.

`HeapExclusive` is checked and proved for one process that uses the heap, as `kalloc_test` is
the only one that does. It shows that nobody else gets in while that process is preempted
there, and nothing about two users, who would meet inside.

Behaviour the models have, but no run reports as a finding. Some of it contradicts a comment:
the loop of `kstart.asm` 114-120 ("we clear the page, nothing is mapped yet") stores elsewhere,
so that the table for core structures keeps what it held, which `CoreReached` allows for; an
entry that ends at 4 GB makes `end_page` smaller than `base_page`, which the comment at arch
`pmm.c` 125-127 holds to be avoided, and `memset` clears upwards without end (`RunsAway`); and
`input.c` 37 says that a full queue takes no more, which does not work before the first pop and
during one. About the rest no text says otherwise:

* Allocation from a full bitmap maps frame 0 (`vmm`: the exception in `NoFrameShared`). A
  returning process depends on the translation of the stack it has freed, which stays until the
  next flush (`scheduler`: `FreedStackPrivate`).
* `kalloc` of 2^32 - 1 bytes rounds to 0 and returns a block without a byte; the seven sizes
  below it overlap a header. Heap and lists do not survive a page allocation that fails.
* A key pressed before the controllers are reset leaves its line high, and no further key comes
  (`timer`: `unseen` in `KeysAreRead`). A count read across a carry is ahead by up to a word
  (`ClockNotAhead`).
* A pop leaves `head` at 16 for one statement, and before the first pop it is 255: an interrupt
  then sees a queue that is never full and overwrites (`input_queue`: `ExcessOnlyUnwrapped`).
* Printers that overlap, one of them with a newline, can leave the row outside of the screen,
  and a write can miss the screen's page (`console`: `lines` in `CursorComesBack`, `fault`).
* A bitmap beyond the identity mapping faults (`boot`: `FillBitmap`). The search for its place
  never uses an entry's last byte, and when it fails the kernel goes on without memory
  (`SearchFail`). `map_core` drops the offset of a base inside a page (the premise of
  `CoreReached`).
* Loading by cylinder, head and sector divides by zero on a disk with 256 heads (`loader`:
  `BootsWhereItCan`).
