------------------------------- MODULE Loader -------------------------------
(***************************************************************************)
(* The boot loader: stage 1 (bootloader/stage1.asm) brings in two sectors  *)
(* of stage 2 (bootloader/stage2.asm), which loads the rest of itself, the *)
(* memory map, and the kernel, and enters it in protected mode.            *)
(*                                                                         *)
(* The unit of memory and disk is the sector.  Segments count in sectors,  *)
(* too: 32 paragraphs.  Every BIOS call may fail.  A disk image is stage 1,*)
(* stage 2 and the kernel, one behind the other.                           *)
(***************************************************************************)
EXTENDS Integers, FiniteSetsExt

CONSTANTS Batch,      \* 127: sectors of one extended read
          Byte,       \* 256: values of the byte that counts the heads
          Machines,   \* what the loader may find, see below
          MaxKernel   \* 2^16: sectors the kernel may have behind its header

(* A machine: the drive it boots from, whether drive 0 answers, whether the*)
(* BIOS has extended reads, the geometry, sectors of stage 2 and of the    *)
(* kernel, and whether their magic numbers are right.                      *)
ASSUME LoaderAssumption ==
  /\ Batch \in Nat \ {0} /\ Byte \in Nat \ {0} /\ MaxKernel \in Nat
  /\ \A m \in Machines :
       /\ m.drive \in {0, 128} /\ m.lba \in BOOLEAN /\ (m.drive = 0 => m.floppy)
       /\ m.cyls \in Nat \ {0} /\ m.heads \in 1 .. Byte /\ m.spt \in Nat \ {0, 1, 2}
       /\ m.stage2 \in Nat \ {0} /\ m.stage2 < 63
       /\ m.kernel \in Nat \ {0}
       /\ 1 + m.stage2 + m.kernel <= m.cyls * m.heads * m.spt

Stage2At == 63    \* 0x7e00
RestAt   == 65    \* 0x8200
KernelAt == 128   \* 0x10000

VARIABLES m,          \* the machine
          pc,         \* the next step, or "halt", "divide" (by zero), or "kernel"
          mem,        \* [slots that were loaded -> [drive, sector]]
          caller,     \* where load_sectors returns to
          remaining,  \* remaining_sectors
          seg, off,   \* P_SEGMENT, P_OFFSET
          lba,        \* P_LBADDR, or the argument before it becomes a CHS
          chs,        \* chs_current
          knows,      \* chs_geometry_check
          asked,      \* history: the sectors of the current load_sectors
          failed      \* history: a BIOS call has failed

vars == <<m, pc, mem, caller, remaining, seg, off, lba, chs, knows, asked, failed>>
loadVars == <<caller, remaining, seg, off, lba, chs, knows, asked>>

Init ==
  /\ m \in Machines
  /\ pc = "stage1" /\ mem = [s \in {} |-> 0]
  /\ caller = "rest" /\ remaining = 0 /\ seg = 0 /\ off = 0 /\ lba = 0
  /\ chs = [c |-> 0, h |-> 0, s |-> 1] /\ knows = FALSE
  /\ asked = [first |-> 0, n |-> 0] /\ failed = FALSE

-----------------------------------------------------------------------------
(* The BIOS. *)
Capacity == m.cyls * m.heads * m.spt

Transfer(drive, first, n, slot) ==
  mem' = [s \in DOMAIN mem \cup slot .. slot + n - 1 |->
            IF s \in slot .. slot + n - 1
            THEN [drive |-> drive, sector |-> first + s - slot] ELSE mem[s]]

Read(drive, first, n, slot) ==
  /\ drive = 0 => m.floppy
  /\ first + n <= Capacity
  /\ Transfer(drive, first, n, slot)
  /\ UNCHANGED failed

ReadError == failed' = TRUE /\ UNCHANGED mem

LbaOf(a) == (a.c * m.heads + a.h) * m.spt + a.s - 1

Stop == pc' = "halt"

-----------------------------------------------------------------------------
(* stage 1: sectors 1 and 2, by an extended read or as cylinder 0, head 0, *)
(* sector 2; its magic number; the jump.                                   *)
Stage1 ==
  /\ pc = "stage1"
  /\ \/ /\ Read(m.drive, IF m.lba THEN 1 ELSE LbaOf([c |-> 0, h |-> 0, s |-> 2]), 2,
                Stage2At)
        /\ IF m.magic2 THEN pc' = "entry" ELSE Stop
     \/ ReadError /\ Stop
  /\ UNCHANGED <<m, loadVars>>

-----------------------------------------------------------------------------
(* What chs_get_geometry keeps of the number of heads: the BIOS gives the  *)
(* last one's number, and one more is 0 in a byte if there are 256.        *)
Heads == m.heads % Byte

ToChsZeroBased(a) ==   \* mutant: sectors counted from 0
  [c |-> (a \div m.spt) \div Heads,
   h |-> (a \div m.spt) % Heads,
   s |-> a % m.spt]

(* load_sectors_chs_lba_to_chs: the sector as cylinder, head and sector. *)
ToChs(a) == [c |-> (a \div m.spt) \div Heads,
             h |-> (a \div m.spt) % Heads,
             s |-> (a % m.spt) + 1]

(* load_sectors of n sectors from first on, to segment:offset.  Without    *)
(* extended reads the geometry is asked for, once, and first converted.    *)
Load(who, n, first, segment, offset) ==
  /\ caller' = who /\ remaining' = n /\ asked' = [first |-> first, n |-> n]
  /\ seg' = segment /\ off' = offset /\ lba' = first
  /\ pc' = IF m.lba THEN "lba" ELSE IF knows THEN "convert" ELSE "geometry"
  /\ UNCHANGED <<m, mem, chs, knows, failed>>

Return(ok) ==
  pc' = IF ~ok THEN "halt"
        ELSE CASE caller = "rest"   -> "mmap"
               [] caller = "header" -> "header"
               [] caller = "kernel" -> "kernel"

(* chs_get_geometry *)
Geometry ==
  /\ pc = "geometry"
  /\ \/ pc' = "convert" /\ knows' = TRUE /\ UNCHANGED failed
     \/ Return(FALSE) /\ failed' = TRUE /\ UNCHANGED knows
  /\ UNCHANGED <<m, mem, caller, remaining, seg, off, lba, chs, asked>>

(* The conversion divides by the number of heads. *)
Convert ==
  /\ pc = "convert"
  /\ IF Heads = 0 THEN pc' = "divide" /\ UNCHANGED chs
                  ELSE pc' = "chs" /\ chs' = ToChs(lba)
  /\ UNCHANGED <<m, mem, caller, remaining, seg, off, lba, knows, asked, failed>>

LbaReadKeepsOffset ==   \* mutant: P_OFFSET is not reset
  /\ pc = "lba" /\ remaining > 0
  /\ LET n == Min({Batch, remaining})
     IN  \/ /\ Read(m.drive, lba, n, seg + off)
            /\ remaining' = remaining - n
            /\ lba' = lba + n /\ seg' = seg + n /\ UNCHANGED off
            /\ UNCHANGED pc
         \/ ReadError /\ Return(FALSE) /\ UNCHANGED <<remaining, seg, off, lba>>
  /\ UNCHANGED <<m, caller, chs, knows, asked>>

(* load_sectors_lba, one extended read. *)
LbaRead ==
  /\ pc = "lba" /\ remaining > 0
  /\ LET n == Min({Batch, remaining})
     IN  \/ /\ Read(m.drive, lba, n, seg + off)
            /\ remaining' = remaining - n
            /\ lba' = lba + n /\ seg' = seg + n /\ off' = 0
            /\ UNCHANGED pc
         \/ ReadError /\ Return(FALSE) /\ UNCHANGED <<remaining, seg, off, lba>>
  /\ UNCHANGED <<m, caller, chs, knows, asked>>

ChsNextTrack(a) ==   \* mutant: the sector is not set back to 1
  IF a.s < m.spt THEN [a EXCEPT !.s = @ + 1]
  ELSE IF a.h + 1 < Heads THEN [a EXCEPT !.h = @ + 1]
  ELSE [c |-> a.c + 1, h |-> 0, s |-> 1]

(* The sector behind a. *)
ChsNext(a) ==
  IF a.s < m.spt THEN [a EXCEPT !.s = @ + 1]
  ELSE IF a.h + 1 < Heads THEN [c |-> a.c, h |-> a.h + 1, s |-> 1]
  ELSE [c |-> a.c + 1, h |-> 0, s |-> 1]

(* load_sectors_chs, one sector.  dl is the low byte of dx, which has just *)
(* been loaded with the high word of the remaining sectors: drive 0.       *)
(* Behind the disk's last sector the load fails, even if it is complete.   *)
ChsRead ==
  /\ pc = "chs" /\ remaining > 0
  /\ \/ /\ Read(0, LbaOf(chs), 1, seg + off)
        /\ remaining' = remaining - 1
        /\ seg' = seg + 1 /\ off' = 0
        /\ chs' = ChsNext(chs)
        /\ IF ChsNext(chs).c < m.cyls THEN UNCHANGED pc ELSE Return(FALSE)
     \/ ReadError /\ Return(FALSE) /\ UNCHANGED <<remaining, seg, off, chs>>
  /\ UNCHANGED <<m, caller, lba, knows, asked>>

LoadDone ==
  /\ pc \in {"lba", "chs"} /\ remaining = 0
  /\ Return(TRUE)
  /\ UNCHANGED <<m, mem, loadVars, failed>>

-----------------------------------------------------------------------------
(* stage2_entry: the sectors of stage 2 that stage 1 did not load. *)
EntryRest ==
  /\ pc = "entry" /\ m.stage2 > 2
  /\ Load("rest", m.stage2 - 2, 3, RestAt, 0)

EntryWhole ==
  /\ pc = "entry" /\ m.stage2 <= 2
  /\ pc' = "mmap"
  /\ UNCHANGED <<m, mem, loadVars, failed>>

(* load_mmap *)
LoadMmap ==
  /\ pc = "mmap"
  /\ \/ pc' = "first" /\ UNCHANGED failed
     \/ Stop /\ failed' = TRUE
  /\ UNCHANGED <<m, mem, loadVars>>

(* The kernel's first sector, which has its header. *)
LoadHeader ==
  /\ pc = "first"
  /\ Load("header", 1, m.stage2 + 1, KernelAt, 0)

KernelSector(k) == [drive |-> m.drive, sector |-> m.stage2 + 1 + k]
HeaderRight     == m.magicK /\ mem[KernelAt] = KernelSector(0)

CheckHeaderEarly ==   \* mutant: the size is compared with its header sector
  /\ pc = "header"
  /\ IF HeaderRight /\ m.kernel < MaxKernel
     THEN pc' = IF m.kernel = 1 THEN "kernel" ELSE "rest"
     ELSE Stop
  /\ UNCHANGED <<m, mem, loadVars, failed>>

(* The header is read: the rest of the kernel, if it is not too large. *)
CheckHeader ==
  /\ pc = "header"
  /\ IF HeaderRight /\ m.kernel - 1 < MaxKernel
     THEN pc' = IF m.kernel = 1 THEN "kernel" ELSE "rest"
     ELSE Stop
  /\ UNCHANGED <<m, mem, loadVars, failed>>

LoadKernel ==
  /\ pc = "rest"
  /\ Load("kernel", m.kernel - 1, m.stage2 + 2, KernelAt, 1)

Next ==
  \/ Stage1 \/ EntryRest \/ EntryWhole \/ LoadMmap \/ LoadHeader \/ CheckHeader
  \/ LoadKernel \/ Geometry \/ Convert \/ LbaRead \/ ChsRead \/ LoadDone

Spec == Init /\ [][Next]_vars

-----------------------------------------------------------------------------
(* Every variable has its type. *)
TypeOK ==
  /\ m \in Machines
  /\ pc \in {"stage1", "entry", "mmap", "first", "header", "rest", "geometry", "convert", "lba",
             "chs", "kernel", "halt", "divide"}
  /\ \A s \in DOMAIN mem : mem[s].drive \in {0, 128} /\ mem[s].sector \in 0 .. Capacity - 1
  /\ caller \in {"rest", "header", "kernel"}
  /\ remaining \in 0 .. asked.n
  /\ seg \in Nat /\ off \in {0, 1} /\ lba \in Nat
  /\ chs.c \in 0 .. m.cyls /\ chs.h \in 0 .. m.heads - 1 /\ chs.s \in 1 .. m.spt
  /\ knows \in BOOLEAN /\ failed \in BOOLEAN

(* Whichever way the disk is addressed, and over the ends of tracks and    *)
(* cylinders, the next read starts with the first sector not yet read.     *)
ReadsInOrder ==
  remaining > 0 =>
    LET next == asked.first + asked.n - remaining
    IN  /\ pc = "lba" => lba = next
        /\ pc = "chs" => LbaOf(chs) = next

(* Stage 2 runs past its bootstrap only when all of it is in memory.  The  *)
(* loads without extended reads go to drive 0, whatever was booted from.   *)
Stage2Complete ==
  pc \in {"mmap", "first", "header", "rest", "kernel"} /\ (m.lba \/ m.drive = 0) =>
    \A k \in 0 .. m.stage2 - 1 :
      Stage2At + k \in DOMAIN mem
      /\ mem[Stage2At + k] = [drive |-> m.drive, sector |-> 1 + k]

KernelWhole ==
  \A k \in 0 .. m.kernel - 1 :
    KernelAt + k \in DOMAIN mem /\ mem[KernelAt + k] = KernelSector(k)

(* The kernel is entered whole exactly if one read brought in all that     *)
(* follows its first sector: the second goes a sector too low, since the   *)
(* offset 0x200 is dropped and not carried into the segment.               *)
KernelWholeIfOneRead ==
  pc = "kernel" => (KernelWhole <=> m.kernel - 1 <= IF m.lba THEN Batch ELSE 1)

(* Without extended reads the loader can get through only from drive 0, on *)
(* a disk whose heads fit in a byte and that goes on behind the kernel.    *)
Bootable ==
  m.lba \/ (m.drive = 0 /\ m.heads < Byte /\ 1 + m.stage2 + m.kernel < Capacity)

(* What it should give up for: a BIOS call failed, or a magic number or    *)
(* the kernel's size is wrong.                                             *)
ProperReason == failed \/ ~m.magic2 \/ ~m.magicK \/ m.kernel > MaxKernel

(* Where it can get through, the loader stops only for a proper reason; it *)
(* enters the kernel only there, and never past such a reason.  It divides *)
(* by zero only on a disk with 256 heads.                                  *)
BootsWhereItCan ==
  /\ pc = "halt" => ~Bootable \/ ProperReason
  /\ pc = "kernel" => Bootable /\ ~ProperReason
  /\ pc = "divide" => ~m.lba /\ m.heads = Byte

(* load_sectors is given the disk in dl ("dl, diskid", stage2.asm 400,     *)
(* "recover dx ( has dl, disk )", 322) and answers "0x01 on success, 0x00  *)
(* on error" (406): the loader gives up only for a proper reason.          *)
HaltsForReason == pc = "halt" => ProperReason

(* "LOAD ALL THE KERNEL" (stage2.asm 829): the kernel that is entered is   *)
(* whole.                                                                  *)
AllTheKernel == pc = "kernel" => KernelWhole
=============================================================================
