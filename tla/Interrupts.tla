----------------------------- MODULE Interrupts -----------------------------
(***************************************************************************)
(* How an interrupt request reaches its handler: the two cascaded          *)
(* interrupt controllers, the descriptor table, the stubs, the dispatch    *)
(* and the end of interrupt (arch/x86/interrupts, kernel/interrupt), from  *)
(* kernel_main's first instruction with the interrupt flag off.            *)
(*                                                                         *)
(* A request is named by its number, 0 to 7 at the first controller, 8 to  *)
(* 15 at the second, whose output is line 2 of the first.  The program is  *)
(* interrupted between two of its steps; the code of an interrupt runs     *)
(* with the flag off, while devices go on raising their lines.             *)
(***************************************************************************)
EXTENDS Integers, Sequences, FiniteSets

CONSTANTS Devices,  \* lines, besides those the kernel drives, with a device
          Faults    \* exceptions the program may cause

Irqs     == 0 .. 15
Master   == 0 .. 7
Slave    == 8 .. 15
Cascade  == 2    \* PIC_CASCADE_IRQ
Pit      == 0    \* IRQ_PIT
Keyboard == 1    \* IRQ_KEYBOARD
None     == -1

ASSUME InterruptsAssumption ==
  /\ Devices \subseteq Irqs \ {Cascade, Pit, Keyboard}
  /\ Faults \subseteq 0 .. 31

VARIABLES
  booted,    \* steps of KernelMain done
  idt,       \* the descriptor table is filled and loaded
  base,      \* the vector of line 0 and that of line 8
  imr,       \* masked lines
  irr,       \* requests the controllers have latched
  isr,       \* lines in service
  ifl,       \* the interrupt flag
  at,        \* where the processor is: in the program or in an interrupt
  number,    \* int_number in the interrupt frame
  irq,       \* the line the controller announced; None for an exception
  handlers,  \* irq_handlers
  full,      \* the keyboard's output buffer holds a code: its line is high
  raised,    \* devices that raised their line since the program's last step
  unseen     \* history: the buffer was full when the controllers were reset

tableVars  == <<idt, base, handlers>>
deviceVars == <<full, raised, unseen>>
frameVars  == <<number, irq>>
vars == <<booted, tableVars, imr, irr, isr, ifl, at, frameVars, deviceVars>>

(* What the BIOS leaves: its own vectors, requests that nobody took. *)
Init ==
  /\ booted = 0
  /\ idt = FALSE
  /\ base = [master |-> 8, slave |-> 112]
  /\ imr = {} /\ isr = {}
  /\ irr \in SUBSET (Devices \cup {Pit, Keyboard})
  /\ full \in BOOLEAN /\ (Keyboard \in irr => full)
  /\ ifl = FALSE /\ at = "code"
  /\ number = None /\ irq = None
  /\ handlers = [n \in Irqs |-> "none"]
  /\ raised = {} /\ unseen = FALSE

-----------------------------------------------------------------------------
(* The controllers: of several requests the lowest number goes first, and  *)
(* nothing interrupts a line in service but a lower number.                *)
Highest(S) == {m \in S : \A n \in S : m <= n}

Servable(requests, service) ==
  {n \in requests \ imr : \A s \in service : n < s}

SlaveRequests == Servable(irr \cap Slave, isr \cap Slave)

MasterRequests ==
  Servable((irr \cap Master) \cup (IF SlaveRequests = {} THEN {} ELSE {Cascade}),
           isr \cap Master)

Vector(n) == IF n < 8 THEN base.master + n ELSE base.slave + n - 8

(* The number pushed by the stub that idt_init sets for a vector: its own  *)
(* for exceptions and requests, 100 by default_isr.  Vector 255 has none.  *)
StubNumber(v) ==
  CASE ~idt \/ v = 255 -> None
    [] v < 48 -> v
    [] OTHER  -> 100

IsExceptionWide(n) == n >= 0 /\ n <= 32   \* mutant: EXCEPTION_END is 32

IsException(n) == n >= 0 /\ n <= 31   \* arch_vector_is_exception
IsIrq(n)       == n >= 32 /\ n <= 48  \* arch_vector_is_irq
Irqn           == number - 32         \* arch_vector_to_irqn

-----------------------------------------------------------------------------
(* kernel_main, as far as interrupts are concerned, in its order.          *)
KernelMainUnmasked ==   \* mutant: the lines are not masked before sti
  <<"idt", "remap", "sti", "pit", "keyboard", "unmask1", "unmask2">>

KernelMainEarly ==   \* mutant: interrupts are enabled before pit_init
  <<"idt", "remap", "mask", "sti", "unmask1", "unmask2", "pit", "keyboard">>

KernelMain ==
  <<"idt", "remap", "mask", "sti", "pit", "keyboard", "unmask1", "unmask2">>

Booted == booted = Len(KernelMain)

(* The program's next step: an interrupt that can be taken comes first.    *)
ProgramRuns == at = "code" /\ (ifl => MasterRequests = {})

Boot(step) ==
  /\ ProgramRuns /\ ~Booted /\ KernelMain[booted + 1] = step
  /\ booted' = booted + 1
  /\ raised' = {}
  /\ UNCHANGED <<isr, at, frameVars, full>>

(* idt_init *)
IdtInit ==
  /\ Boot("idt")
  /\ idt' = TRUE
  /\ UNCHANGED <<base, handlers, imr, irr, ifl, unseen>>

(* pic_remap: the first word to a controller opens its mask and forgets    *)
(* the edges it has seen, the following set vectors and cascade.           *)
PicRemap ==
  /\ Boot("remap")
  /\ base' = [master |-> 32, slave |-> 40]
  /\ imr' = {} /\ irr' = {}
  /\ unseen' = full
  /\ UNCHANGED <<idt, handlers, ifl>>

(* pic_mask_all *)
MaskAll ==
  /\ Boot("mask")
  /\ imr' = Irqs
  /\ UNCHANGED <<tableVars, irr, ifl, unseen>>

Sti ==
  /\ Boot("sti")
  /\ ifl' = TRUE
  /\ UNCHANGED <<tableVars, imr, irr, unseen>>

(* pit_init and ps2_keyboard_init: register_irq_handler *)
Register(step, n) ==
  /\ Boot(step)
  /\ handlers' = [handlers EXCEPT ![n] = step]
  /\ UNCHANGED <<idt, base, imr, irr, ifl, unseen>>

(* pic_unmask_all: one controller after the other. *)
Unmask(step, lines) ==
  /\ Boot(step)
  /\ imr' = imr \ lines
  /\ UNCHANGED <<tableVars, irr, ifl, unseen>>

BootStep ==
  \/ IdtInit \/ PicRemap \/ MaskAll \/ Sti
  \/ Register("pit", Pit) \/ Register("keyboard", Keyboard)
  \/ Unmask("unmask1", Master) \/ Unmask("unmask2", Slave)

(* A step of the processes, after the boot. *)
ProgramStep ==
  /\ ProgramRuns /\ Booted
  /\ raised' = {}
  /\ UNCHANGED <<booted, tableVars, imr, irr, isr, ifl, at, frameVars, full, unseen>>

-----------------------------------------------------------------------------
(* The gates are interrupt gates: the flag goes off. *)
Enter(v, n) ==
  /\ at' = "dispatch" /\ ifl' = FALSE
  /\ number' = StubNumber(v) /\ irq' = n
  /\ UNCHANGED <<booted, tableVars, imr, deviceVars>>

Interrupt ==
  /\ at = "code" /\ ifl
  /\ \E m \in Highest(MasterRequests) :
     \E n \in IF m = Cascade THEN Highest(SlaveRequests) ELSE {m} :
       /\ irr' = irr \ {n}
       /\ isr' = isr \cup {m, n}
       /\ Enter(Vector(n), n)

(* A line that drops before the processor asks for its vector is announced *)
(* as the last line of its controller, and is not in service there.        *)
Spurious ==
  /\ at = "code" /\ ifl /\ MasterRequests = {}
  /\ \/ /\ ~(Master \subseteq imr)
        /\ UNCHANGED isr
        /\ Enter(Vector(7), 7)
     \/ /\ ~(Slave \subseteq imr) /\ Cascade \notin imr
        /\ isr' = isr \cup {Cascade}
        /\ Enter(Vector(15), 15)
  /\ UNCHANGED irr

Exception ==
  /\ ProgramRuns /\ idt
  /\ \E v \in Faults : Enter(v, None)
  /\ UNCHANGED <<irr, isr>>

(* interrupt_dispatch: an exception's handler does not come back. *)
Dispatch ==
  /\ at = "dispatch"
  /\ at' = IF IsException(number) THEN "halted"
           ELSE IF IsIrq(number) THEN "handler" ELSE "iret"
  /\ UNCHANGED <<booted, tableVars, imr, irr, isr, ifl, frameVars, deviceVars>>

Handled(h) == at = "handler" /\ handlers[Irqn] = h

(* irq_dispatch: the handler, if there is one; the keyboard's reads the    *)
(* code, whereupon its line drops.                                         *)
Handle ==
  /\ at = "handler" /\ at' = "eoi"
  /\ full' = (full /\ ~Handled("keyboard"))
  /\ unseen' = (unseen /\ ~Handled("keyboard"))
  /\ UNCHANGED <<booted, tableVars, imr, irr, isr, ifl, frameVars, raised>>

EndIrqOne ==   \* mutant: the end of interrupt goes to one controller
  /\ at = "eoi" /\ at' = "iret"
  /\ isr' = isr \ Highest(IF Irqn >= 8 THEN isr \cap Slave ELSE isr \cap Master)
  /\ UNCHANGED <<booted, tableVars, imr, irr, ifl, frameVars, deviceVars>>

(* pic_send_eoi names no line: each controller it is sent to ends the      *)
(* service of its highest one.  The post routine is in Scheduler.          *)
EndIrq ==
  /\ at = "eoi" /\ at' = "iret"
  /\ isr' = isr \ (Highest(isr \cap Master) \cup
                   (IF Irqn >= 8 THEN Highest(isr \cap Slave) ELSE {}))
  /\ UNCHANGED <<booted, tableVars, imr, irr, ifl, frameVars, deviceVars>>

Iret ==
  /\ at = "iret" /\ at' = "code"
  /\ ifl' = TRUE
  /\ number' = None /\ irq' = None
  /\ UNCHANGED <<booted, tableVars, imr, irr, isr, deviceVars>>

InterruptStep == Interrupt \/ Spurious \/ Dispatch \/ Handle \/ EndIrq \/ Iret

-----------------------------------------------------------------------------
(* Devices.  Each raises its line at most once between two steps of the    *)
(* program: milliseconds pass between two requests of a device, and its    *)
(* handler takes microseconds.                                             *)
Raise(n) ==
  /\ n \notin raised
  /\ raised' = raised \cup {n}
  /\ irr' = irr \cup {n}
  /\ UNCHANGED <<booted, tableVars, imr, isr, ifl, at, frameVars, unseen>>

RaiseDevice == \E n \in Devices \cup {Pit} : Raise(n) /\ UNCHANGED full

(* The keyboard holds back a code until the one before has been read. *)
Press == ~full /\ Raise(Keyboard) /\ full' = TRUE

Next ==
  \/ BootStep \/ ProgramStep \/ Exception \/ InterruptStep
  \/ RaiseDevice \/ Press

Spec == Init /\ [][Next]_vars

-----------------------------------------------------------------------------
Places == {"code", "dispatch", "handler", "eoi", "iret", "halted"}

(* Every variable has its type. *)
TypeOK ==
  /\ booted \in 0 .. Len(KernelMain)
  /\ idt \in BOOLEAN /\ ifl \in BOOLEAN
  /\ base \in [master : Nat, slave : Nat]
  /\ imr \subseteq Irqs /\ irr \subseteq Irqs /\ isr \subseteq Irqs
  /\ at \in Places
  /\ number \in Int /\ irq \in Irqs \cup {None}
  /\ handlers \in [Irqs -> {"none", "pit", "keyboard"}]
  /\ full \in BOOLEAN /\ unseen \in BOOLEAN
  /\ raised \subseteq Irqs

(* While the program runs no line is in service, at either controller:     *)
(* every request's end is told to all that wait for it, a spurious one's   *)
(* to none that does not, so that no line is ever blocked for good.        *)
NothingLeftInService == at = "code" => isr = {}

(* A request is never taken for an exception, which would stop the kernel, *)
(* and is dispatched under its own number: the vectors are moved away from *)
(* the exceptions before the first interrupt can be taken.                 *)
IrqNotMistaken ==
  irq # None =>
    /\ at # "halted"
    /\ at \in {"handler", "eoi"} => Irqn = irq

(* A key pressed while the kernel runs is read, whatever else interrupts,  *)
(* unless an exception stops the kernel.  A key pressed before the         *)
(* controllers were reset is the exception (unseen): its line stays high,  *)
(* and nothing reads the buffer without a new edge.                        *)
KeysAreRead ==
  full /\ ~unseen /\ base.master = 32 ~> ~full \/ at = "halted"

=============================================================================
