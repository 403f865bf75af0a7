----------------------------- MODULE TimerProofs -----------------------------
(***************************************************************************)
(* Proofs about Interrupts, for every set of devices and of faults, and    *)
(* about Timer, for every size of a word, every interval between two lines *)
(* and every bound on the ticks as well.  The interrupts' invariant serves *)
(* both: every step of Timer is one of Interrupts.                         *)
(***************************************************************************)
EXTENDS Timer, TLAPS

-----------------------------------------------------------------------------
(* The interrupts. *)

Flags == idt \in BOOLEAN /\ ifl \in BOOLEAN /\ full \in BOOLEAN /\ unseen \in BOOLEAN

(* What kernel_main has set up depends only on how far it has come.        *)
SetUp ==
  /\ idt <=> booted >= 1
  /\ base = IF booted < 2 THEN [master |-> 8, slave |-> 112]
                          ELSE [master |-> 32, slave |-> 40]
  /\ booted \in 3 .. 6 => imr = Irqs
  /\ booted = 7 => imr = Slave
  /\ ifl => booted >= 4
  /\ booted >= 5 => handlers[Pit] = "pit"
  /\ \A n \in Irqs : handlers[n] = "pit" => n = Pit

(* While a request is in the processor's hands its number is in the frame, *)
(* and nothing but itself, and the cascade behind which it came, is in     *)
(* service; an exception only has the way to its handler.                  *)
Frame ==
  /\ at = "code" => irq = None
  /\ at = "halted" => irq = None
  /\ at \in {"handler", "eoi", "iret"} => irq # None
  /\ irq # None => booted >= 7 /\ number = irq + 32
  /\ at = "dispatch" /\ irq = None => number \in 0 .. 31

InService ==
  /\ at \in {"code", "iret", "halted"} \/ irq = None => isr = {}
  /\ irq < 8 => isr \subseteq {irq}
  /\ irq >= 8 => isr \subseteq {irq, Cascade}

IInv == TypeOK /\ SetUp /\ Frame /\ InService

(* The order of kernel_main's steps. *)
LEMMA Steps ==
  /\ Len(KernelMain) = 8
  /\ KernelMain[1] = "idt" /\ KernelMain[2] = "remap" /\ KernelMain[3] = "mask"
  /\ KernelMain[4] = "sti" /\ KernelMain[5] = "pit" /\ KernelMain[6] = "keyboard"
  /\ KernelMain[7] = "unmask1" /\ KernelMain[8] = "unmask2"
  BY DEF KernelMain

(* The place in KernelMain from which a step is taken. *)
LEMMA StepTaken ==
  ASSUME NEW step, Boot(step), booted \in 0 .. 8
  PROVE  /\ booted' = booted + 1 /\ booted' \in 1 .. 8
         /\ step = "idt" => booted = 0
         /\ step = "remap" => booted = 1
         /\ step = "mask" => booted = 2
         /\ step = "sti" => booted = 3
         /\ step = "pit" => booted = 4
         /\ step = "keyboard" => booted = 5
         /\ step = "unmask1" => booted = 6
         /\ step = "unmask2" => booted = 7
  <1>1. booted \in 0 .. 7
    BY Steps DEF Boot, Booted
  <1>2. CASE booted \in 0 .. 3
    BY <1>2, Steps DEF Boot
  <1>3. CASE booted \in 4 .. 7
    BY <1>3, Steps DEF Boot
  <1>4. QED
    BY <1>1, <1>2, <1>3

(* The invariant holds when kernel_main is entered. *)
LEMMA InitInv == Init => IInv
  <1>1. SUFFICES ASSUME Init PROVE IInv
    OBVIOUS
  <1>2. TypeOK
    <2>1. irr \subseteq Irqs
      BY <1>1, InterruptsAssumption DEF Init, Irqs, Pit, Keyboard
    <2>2. handlers \in [Irqs -> {"none", "pit", "keyboard"}]
      BY <1>1 DEF Init
    <2>3. Flags
      BY <1>1 DEF Init, Flags
    <2>4. booted \in 0 .. Len(KernelMain)
      BY <1>1, Steps DEF Init
    <2>5. QED
      BY <1>1, <2>1, <2>2, <2>3, <2>4 DEF Init, TypeOK, Flags, Irqs, None, Places
  <1>3. SetUp
    BY <1>1 DEF Init, SetUp
  <1>4. Frame /\ InService
    BY <1>1 DEF Init, Frame, InService, None
  <1>5. QED
    BY <1>2, <1>3, <1>4 DEF IInv

(* A step of kernel_main. *)
LEMMA BootInv == IInv /\ BootStep => IInv'
  <1>1. SUFFICES ASSUME IInv, BootStep PROVE IInv'
    OBVIOUS
  <1> USE DEF IInv
  <1>2. booted \in 0 .. 8
    BY <1>1, Steps DEF TypeOK
  <1>3. PICK step : Boot(step)
    BY <1>1 DEF BootStep, IdtInit, PicRemap, MaskAll, Sti, Register, Unmask
  <1>4. /\ at = "code" /\ UNCHANGED <<isr, at, frameVars, full>> /\ raised' = {}
        /\ booted' = booted + 1 /\ booted' \in 1 .. 8
    BY <1>2, <1>3, StepTaken DEF Boot, ProgramRuns
  <1>5. Frame' /\ InService'
    BY <1>1, <1>4 DEF Frame, InService, frameVars, None
  <1>6. TypeOK'
    <2>1. Flags'
      BY <1>1, <1>4
      DEF TypeOK, Flags, BootStep, IdtInit, PicRemap, MaskAll, Sti, Register, Unmask, tableVars
    <2>2. imr' \subseteq Irqs /\ irr' \subseteq Irqs
      BY <1>1
      DEF TypeOK, BootStep, IdtInit, PicRemap, MaskAll, Sti, Register, Unmask
    <2>3. base' \in [master : Nat, slave : Nat]
      BY <1>1
      DEF TypeOK, BootStep, IdtInit, PicRemap, MaskAll, Sti, Register, Unmask, tableVars
    <2>4. handlers' \in [Irqs -> {"none", "pit", "keyboard"}]
      BY <1>1
      DEF TypeOK, BootStep, IdtInit, PicRemap, MaskAll, Sti, Register, Unmask, tableVars
    <2>5. QED
      BY <1>1, <1>4, <2>1, <2>2, <2>3, <2>4, Steps DEF TypeOK, Flags, frameVars
  <1>7. SetUp'
    <2>1. CASE IdtInit
      BY <1>1, <1>2, <2>1, StepTaken DEF IdtInit, SetUp, TypeOK
    <2>2. CASE PicRemap
      BY <1>1, <1>2, <2>2, StepTaken DEF PicRemap, SetUp, TypeOK
    <2>3. CASE MaskAll
      BY <1>1, <1>2, <2>3, StepTaken DEF MaskAll, SetUp, TypeOK, tableVars
    <2>4. CASE Sti
      BY <1>1, <1>2, <2>4, StepTaken DEF Sti, SetUp, TypeOK, tableVars
    <2>5. CASE Register("pit", Pit)
      BY <1>1, <1>2, <2>5, StepTaken
      DEF Register, SetUp, TypeOK, Pit, Keyboard, Irqs
    <2>6. CASE Register("keyboard", Keyboard)
      BY <1>1, <1>2, <2>6, StepTaken
      DEF Register, SetUp, TypeOK, Pit, Keyboard, Irqs
    <2>7. CASE Unmask("unmask1", Master)
      BY <1>1, <1>2, <2>7, StepTaken
      DEF Unmask, SetUp, TypeOK, tableVars, Irqs, Master, Slave
    <2>8. CASE Unmask("unmask2", Slave)
      BY <1>1, <1>2, <2>8, StepTaken
      DEF Unmask, SetUp, TypeOK, tableVars
    <2>9. QED
      BY <1>1, <2>1, <2>2, <2>3, <2>4, <2>5, <2>6, <2>7, <2>8 DEF BootStep
  <1>8. QED
    BY <1>5, <1>6, <1>7

(* A step of a device, of the program after the boot, or a fault: nothing  *)
(* that the interrupts rest on changes.                                    *)
LEMMA OutsideInv ==
  IInv /\ (ProgramStep \/ RaiseDevice \/ Press \/ UNCHANGED vars) => IInv'
  <1>1. SUFFICES ASSUME IInv, ProgramStep \/ RaiseDevice \/ Press \/ UNCHANGED vars
                 PROVE  IInv'
    OBVIOUS
  <1> USE DEF IInv
  <1>2. UNCHANGED <<booted, tableVars, imr, isr, ifl, at, frameVars>>
    BY <1>1 DEF ProgramStep, RaiseDevice, Press, Raise, vars
  <1>3. irr' \subseteq Irqs /\ raised' \subseteq Irqs /\ full' \in BOOLEAN
        /\ unseen' \in BOOLEAN
    <2>1. ASSUME NEW n \in Devices \cup {Pit, Keyboard} PROVE n \in Irqs
      BY InterruptsAssumption DEF Irqs, Pit, Keyboard
    <2>2. QED
      BY <1>1, <2>1 DEF TypeOK, ProgramStep, RaiseDevice, Press, Raise, vars, deviceVars
  <1>4. QED
    BY <1>1, <1>2, <1>3
    DEF TypeOK, SetUp, Frame, InService, tableVars, frameVars

(* An exception of the running code. *)
LEMMA ExceptionInv == IInv /\ Exception => IInv'
  <1>1. SUFFICES ASSUME IInv, Exception PROVE IInv'
    OBVIOUS
  <1> USE DEF IInv
  <1>2. PICK v \in Faults : Enter(v, None)
    BY <1>1 DEF Exception
  <1>3. v \in 0 .. 31 /\ idt
    BY <1>1, InterruptsAssumption DEF Exception
  <1>4. StubNumber(v) = v
    BY <1>3 DEF StubNumber
  <1>5. at = "code" /\ at' = "dispatch" /\ number' = v /\ irq' = None
        /\ ifl' = FALSE /\ UNCHANGED <<booted, tableVars, imr, irr, isr, deviceVars>>
    BY <1>1, <1>2, <1>4 DEF Exception, Enter, ProgramRuns
  <1>6. Flags'
    BY <1>1, <1>5 DEF TypeOK, Flags, tableVars, deviceVars
  <1>7. TypeOK' /\ SetUp'
    BY <1>1, <1>3, <1>5, <1>6
    DEF TypeOK, Flags, SetUp, tableVars, deviceVars, Places
  <1>8. Frame' /\ InService'
    BY <1>1, <1>3, <1>5 DEF Frame, InService, None
  <1>9. QED
    BY <1>7, <1>8

(* What the controllers announce is unmasked, so that the boot is over.    *)
LEMMA Announced ==
  ASSUME IInv, ifl, NEW n \in Irqs \ imr
  PROVE  /\ booted >= 7 /\ (n >= 8 => booted = 8)
         /\ idt /\ base = [master |-> 32, slave |-> 40]
         /\ StubNumber(Vector(n)) = n + 32
  <1>1. booted \in 7 .. 8 /\ (n >= 8 => booted = 8)
    BY Steps DEF IInv, TypeOK, SetUp, Irqs, Slave
  <1>2. idt /\ base = [master |-> 32, slave |-> 40]
    BY <1>1 DEF IInv, SetUp
  <1>3. Vector(n) = n + 32
    BY <1>2 DEF Vector, Irqs
  <1>4. QED
    BY <1>1, <1>2, <1>3 DEF StubNumber, Irqs

(* A request that the controllers announce is taken. *)
LEMMA InterruptInv == IInv /\ Interrupt => IInv'
  <1>1. SUFFICES ASSUME IInv, Interrupt PROVE IInv'
    OBVIOUS
  <1> USE DEF IInv
  <1>2. PICK m \in Highest(MasterRequests) :
          \E n \in IF m = Cascade THEN Highest(SlaveRequests) ELSE {m} :
            /\ irr' = irr \ {n}
            /\ isr' = isr \cup {m, n}
            /\ Enter(Vector(n), n)
    BY <1>1 DEF Interrupt
  <1>3. PICK n \in IF m = Cascade THEN Highest(SlaveRequests) ELSE {m} :
            /\ irr' = irr \ {n}
            /\ isr' = isr \cup {m, n}
            /\ Enter(Vector(n), n)
    BY <1>2
  <1>4. m \in Master \ imr
    BY <1>2 DEF Highest, MasterRequests, Servable, Cascade, Master
  <1>5. n \in Irqs \ imr /\ (n < 8 => m = n) /\ (n >= 8 => m = Cascade)
    <2>1. CASE m = Cascade
      BY <1>3, <2>1 DEF Highest, SlaveRequests, Servable, Slave, Irqs
    <2>2. CASE m # Cascade
      BY <1>3, <1>4, <2>2 DEF Master, Irqs
    <2>3. QED
      BY <2>1, <2>2
  <1>6. /\ booted >= 7
        /\ StubNumber(Vector(n)) = n + 32
    BY <1>1, <1>5, Announced DEF Interrupt
  <1>7. at = "code" /\ isr = {} /\ isr' = {m, n}
    BY <1>1, <1>3 DEF Interrupt, InService
  <1>8. at' = "dispatch" /\ number' = n + 32 /\ irq' = n /\ ifl' = FALSE
        /\ irr' \subseteq irr /\ UNCHANGED <<booted, tableVars, imr, deviceVars>>
    BY <1>3, <1>6 DEF Enter
  <1>9. TypeOK' /\ SetUp'
    <2>1. Flags'
      BY <1>1, <1>8 DEF TypeOK, Flags, tableVars, deviceVars
    <2>2. QED
      BY <1>1, <1>4, <1>5, <1>7, <1>8, <2>1
      DEF TypeOK, Flags, SetUp, tableVars, deviceVars, Irqs, Master, Places
  <1>10. Frame' /\ InService'
    BY <1>5, <1>6, <1>7, <1>8 DEF Frame, InService, None, Irqs
  <1>11. QED
    BY <1>9, <1>10

(* A spurious request: its line is not in service. *)
LEMMA SpuriousInv == IInv /\ Spurious => IInv'
  <1>1. SUFFICES ASSUME IInv, Spurious PROVE IInv'
    OBVIOUS
  <1> USE DEF IInv
  <1>2. PICK n \in {7, 15} :
          /\ Enter(Vector(n), n)
          /\ isr' = isr \cup (IF n = 15 THEN {Cascade} ELSE {})
          /\ ~((IF n = 15 THEN Slave ELSE Master) \subseteq imr)
    BY <1>1 DEF Spurious
  <1>3. booted >= 7 /\ StubNumber(Vector(n)) = n + 32
    <2>1. PICK line \in Irqs \ imr : n = 15 => line >= 8
      BY <1>2 DEF Irqs, Master, Slave
    <2>2. booted \in 7 .. 8 /\ idt /\ base = [master |-> 32, slave |-> 40]
      BY <1>1, <2>1, Announced, Steps DEF Spurious, TypeOK
    <2>3. Vector(n) = n + 32
      BY <2>2 DEF Vector
    <2>4. QED
      BY <2>2, <2>3 DEF StubNumber
  <1>4. at = "code" /\ isr = {} /\ isr' = IF n = 15 THEN {Cascade} ELSE {}
    BY <1>1, <1>2 DEF Spurious, InService
  <1>5. at' = "dispatch" /\ number' = n + 32 /\ irq' = n /\ ifl' = FALSE
        /\ UNCHANGED <<booted, tableVars, imr, irr, deviceVars>>
    BY <1>1, <1>2, <1>3 DEF Enter, Spurious
  <1>6. TypeOK' /\ SetUp'
    <2>1. Flags'
      BY <1>1, <1>5 DEF TypeOK, Flags, tableVars, deviceVars
    <2>2. TypeOK'
      <3>1. isr' \subseteq Irqs /\ at' \in Places /\ number' \in Int /\ irq' \in Irqs
        BY <1>4, <1>5 DEF Irqs, Cascade, Places
      <3>2. QED
        BY <1>1, <1>5, <2>1, <3>1 DEF TypeOK, Flags, tableVars, deviceVars
    <2>3. SetUp'
      BY <1>1, <1>5 DEF SetUp, tableVars
    <2>4. QED
      BY <2>2, <2>3
  <1>7. Frame' /\ InService'
    BY <1>3, <1>4, <1>5 DEF Frame, InService, None
  <1>8. QED
    BY <1>6, <1>7

(* interrupt_dispatch tells requests from exceptions. *)
LEMMA DispatchInv == IInv /\ Dispatch => IInv'
  <1>1. SUFFICES ASSUME IInv, Dispatch PROVE IInv'
    OBVIOUS
  <1> USE DEF IInv
  <1>2. UNCHANGED <<booted, tableVars, imr, irr, isr, ifl, frameVars, deviceVars>>
    BY <1>1 DEF Dispatch
  <1>3. at' = IF irq = None THEN "halted" ELSE "handler"
    <2>1. CASE irq = None
      BY <1>1, <2>1 DEF Dispatch, IsException, Frame
    <2>2. CASE irq # None
      BY <1>1, <2>2 DEF Dispatch, IsException, IsIrq, Frame, TypeOK, Irqs
    <2>3. QED
      BY <2>1, <2>2
  <1>4. TypeOK' /\ SetUp'
    BY <1>1, <1>2, <1>3 DEF TypeOK, SetUp, tableVars, frameVars, deviceVars, Places
  <1>5. Frame' /\ InService'
    BY <1>1, <1>2, <1>3 DEF Dispatch, Frame, InService, frameVars, tableVars
  <1>6. QED
    BY <1>4, <1>5

(* The handler runs. *)
LEMMA HandleInv == IInv /\ Handle => IInv'
  <1>1. SUFFICES ASSUME IInv, Handle PROVE IInv'
    OBVIOUS
  <1> USE DEF IInv
  <1>2. at = "handler" /\ at' = "eoi"
        /\ UNCHANGED <<booted, tableVars, imr, irr, isr, ifl, frameVars, raised>>
    BY <1>1 DEF Handle
  <1>3. full' \in BOOLEAN /\ unseen' \in BOOLEAN
    BY <1>1 DEF Handle, TypeOK
  <1>4. QED
    BY <1>1, <1>2, <1>3
    DEF TypeOK, SetUp, Frame, InService, tableVars, frameVars, Places

(* The end of interrupt leaves nothing in service: the highest line is the *)
(* only one, at each controller it is sent to.                             *)
LEMMA EndIrqInv == IInv /\ EndIrq => IInv'
  <1>1. SUFFICES ASSUME IInv, EndIrq PROVE IInv'
    OBVIOUS
  <1> USE DEF IInv
  <1>2. at = "eoi" /\ at' = "iret"
        /\ UNCHANGED <<booted, tableVars, imr, irr, ifl, frameVars, deviceVars>>
    BY <1>1 DEF EndIrq
  <1>3. irq \in Irqs /\ Irqn = irq
    BY <1>1, <1>2 DEF Frame, TypeOK, Irqn, Irqs, None
  <1>4. isr' = {}
    <2>1. CASE irq < 8
      <3>1. isr \subseteq {irq} /\ irq \in Master
        BY <1>1, <1>3, <2>1 DEF InService, Master, Irqs
      <3>2. Highest(isr \cap Master) = isr
        <4>1. isr \cap Master = isr
          BY <3>1
        <4>2. \A x, y \in isr : x <= y
          BY <3>1 DEF Master
        <4>3. QED
          BY <4>1, <4>2 DEF Highest
      <3>3. QED
        BY <1>1, <1>3, <2>1, <3>2 DEF EndIrq
    <2>2. CASE irq >= 8
      <3>1. isr \subseteq {irq, Cascade} /\ irq \in Slave /\ Cascade \in Master
            /\ irq \notin Master /\ Cascade \notin Slave
        BY <1>1, <1>3, <2>2 DEF InService, Master, Slave, Irqs, Cascade
      <3>2. Highest(isr \cap Master) = isr \cap {Cascade}
        BY <3>1 DEF Highest, Cascade
      <3>3. Highest(isr \cap Slave) = isr \cap {irq}
        BY <3>1 DEF Highest, Slave
      <3>4. QED
        BY <1>1, <1>3, <2>2, <3>1, <3>2, <3>3 DEF EndIrq
    <2>3. QED
      BY <1>3, <2>1, <2>2 DEF Irqs
  <1>5. TypeOK' /\ SetUp'
    BY <1>1, <1>2, <1>4 DEF TypeOK, SetUp, tableVars, frameVars, deviceVars, Places
  <1>6. Frame' /\ InService'
    BY <1>1, <1>2, <1>4 DEF Frame, InService, frameVars, tableVars
  <1>7. QED
    BY <1>5, <1>6

(* The stub returns. *)
LEMMA IretInv == IInv /\ Iret => IInv'
  <1>1. SUFFICES ASSUME IInv, Iret PROVE IInv'
    OBVIOUS
  <1> USE DEF IInv
  <1>2. /\ at = "iret" /\ at' = "code" /\ ifl' = TRUE
        /\ number' = None /\ irq' = None
        /\ UNCHANGED <<booted, tableVars, imr, irr, isr, deviceVars>>
    BY <1>1 DEF Iret
  <1>3. booted >= 7 /\ isr = {}
    BY <1>1, <1>2 DEF Frame, InService
  <1>4. TypeOK' /\ SetUp'
    BY <1>1, <1>2, <1>3
    DEF TypeOK, SetUp, tableVars, deviceVars, None, Places
  <1>5. Frame' /\ InService'
    BY <1>2, <1>3 DEF Frame, InService, None
  <1>6. QED
    BY <1>4, <1>5

(* Every step preserves the invariant. *)
LEMMA StepInv == IInv /\ [Next]_vars => IInv'
  BY BootInv, OutsideInv, ExceptionInv, InterruptInv, SpuriousInv, DispatchInv,
     HandleInv, EndIrqInv, IretInv
  DEF Next, InterruptStep

(* What the theorems take from the invariant. *)
LEMMA Consequences ==
  IInv => TypeOK /\ NothingLeftInService /\ IrqNotMistaken
  BY DEF IInv, TypeOK, Frame, InService, NothingLeftInService, IrqNotMistaken, Irqn,
         Irqs, None

(* The invariant the other theorems rest on holds in every reachable state.*)
THEOREM Invariance == Spec => []IInv
  BY InitInv, StepInv, PTL DEF Spec

(* Every variable of Interrupts keeps its type.                            *)
THEOREM TypeCorrect == Spec => []TypeOK
  BY Invariance, Consequences, PTL

(* Whatever devices there are, no line is left in service when the program *)
(* runs (pic_send_eoi).                                                    *)
THEOREM LinesFreed == Spec => []NothingLeftInService
  BY Invariance, Consequences, PTL

(* Whatever devices there are, no request is taken for an exception or for *)
(* another request (interrupt_dispatch, pic_remap).                        *)
THEOREM RequestsTold == Spec => []IrqNotMistaken
  BY Invariance, Consequences, PTL

-----------------------------------------------------------------------------
(* No key is forgotten. *)

(* The keyboard's code waits for its handler: the controller remembers the *)
(* request until the processor takes it, and from then on the processor is *)
(* on the way to the handler that reads the code.  Once the lines are      *)
(* unmasked the program does not go on before that.                        *)
KeyReadFirst ==
  full /\ ~unseen /\ base.master = 32 =>
    /\ Keyboard \in irr \/ (irq = Keyboard /\ at \in {"dispatch", "handler"})
    /\ booted >= 7 => ~ProgramRuns

(* The keyboard's request is announced, let through and handled.           *)
KeyboardServed ==
  /\ booted >= 6 => handlers[Keyboard] = "keyboard"
  /\ booted = 8 => imr = {}
  /\ at = "code" /\ booted >= 4 => ifl

(* The first part of KeyReadFirst, on which the second rests.              *)
KeyRemembered ==
  full /\ ~unseen /\ base.master = 32 =>
    Keyboard \in irr \/ (irq = Keyboard /\ at \in {"dispatch", "handler"})

KInv == IInv /\ KeyboardServed /\ KeyRemembered

(* kernel_main registers the keyboard's handler, opens every line and has  *)
(* the flag on ever after; an interrupt's code turns it on again.          *)
LEMMA ServedStep == IInv /\ KeyboardServed /\ [Next]_vars => KeyboardServed'
  <1>1. SUFFICES ASSUME IInv, KeyboardServed, [Next]_vars PROVE KeyboardServed'
    OBVIOUS
  <1>2. booted \in 0 .. 8 /\ handlers \in [Irqs -> {"none", "pit", "keyboard"}]
        /\ imr \subseteq Irqs
    BY <1>1, Steps DEF IInv, TypeOK
  <1>3. CASE BootStep
    <2>1. CASE IdtInit \/ PicRemap \/ MaskAll
      BY <1>1, <1>2, <2>1, StepTaken
      DEF IdtInit, PicRemap, MaskAll, KeyboardServed
    <2>2. CASE Sti
      BY <1>1, <1>2, <2>2, StepTaken DEF Sti, KeyboardServed
    <2>3. CASE Register("pit", Pit)
      BY <1>1, <1>2, <2>3, StepTaken
      DEF Register, KeyboardServed, Boot, ProgramRuns
    <2>4. CASE Register("keyboard", Keyboard)
      BY <1>1, <1>2, <2>4, StepTaken
      DEF Register, KeyboardServed, Boot, ProgramRuns, Irqs, Keyboard
    <2>5. CASE Unmask("unmask1", Master)
      BY <1>1, <1>2, <2>5, StepTaken
      DEF Unmask, KeyboardServed, Boot, ProgramRuns, tableVars
    <2>6. CASE Unmask("unmask2", Slave)
      <3>1. booted = 7 /\ booted' = 8 /\ imr' = {}
        BY <1>1, <1>2, <2>6, StepTaken DEF Unmask, IInv, SetUp
      <3>2. QED
        BY <1>1, <2>6, <3>1
        DEF Unmask, KeyboardServed, Boot, ProgramRuns, tableVars
    <2>7. QED
      BY <1>3, <2>1, <2>2, <2>3, <2>4, <2>5, <2>6 DEF BootStep
  <1>4. CASE ProgramStep \/ RaiseDevice \/ Press \/ UNCHANGED vars
    BY <1>1, <1>4
    DEF KeyboardServed, ProgramStep, RaiseDevice, Press, Raise, vars, tableVars
  <1>5. CASE Interrupt \/ Spurious \/ Exception
    BY <1>1, <1>5
    DEF KeyboardServed, Interrupt, Spurious, Exception, Enter, tableVars
  <1>6. CASE Dispatch
    BY <1>1, <1>6 DEF KeyboardServed, Dispatch, tableVars
  <1>7. CASE Handle \/ EndIrq
    BY <1>1, <1>7 DEF KeyboardServed, Handle, EndIrq, tableVars
  <1>8. CASE Iret
    BY <1>1, <1>8 DEF KeyboardServed, Iret, tableVars
  <1>9. QED
    BY <1>1, <1>3, <1>4, <1>5, <1>6, <1>7, <1>8 DEF Next, InterruptStep

(* The request stays latched until it is taken for its own, and then only  *)
(* the handler ends it, by reading the code.                               *)
LEMMA RememberedStep == KInv /\ [Next]_vars => KeyRemembered'
  <1>1. SUFFICES ASSUME KInv, [Next]_vars, (full /\ ~unseen /\ base.master = 32)'
                 PROVE  \/ (Keyboard \in irr)'
                        \/ (irq = Keyboard /\ at \in {"dispatch", "handler"})'
    BY DEF KeyRemembered
  <1> USE DEF KInv
  <1>2. CASE BootStep
    <2>1. ~PicRemap
      <3>1. ASSUME PicRemap PROVE unseen' = full'
        BY <3>1 DEF PicRemap, Boot
      <3>2. unseen' # full'
        BY <1>1
      <3>3. QED
        BY <3>1, <3>2
    <2>2. UNCHANGED <<base, irr, full, unseen, frameVars>> /\ at = "code"
      BY <1>1, <1>2, <2>1
      DEF BootStep, IdtInit, MaskAll, Sti, Register, Unmask, Boot, ProgramRuns, tableVars
    <2>3. QED
      BY <1>1, <2>2 DEF KeyRemembered
  <1>3. CASE ProgramStep \/ UNCHANGED vars
    BY <1>1, <1>3
    DEF KeyRemembered, ProgramStep, vars, tableVars, frameVars, deviceVars
  <1>4. CASE RaiseDevice
    BY <1>1, <1>4 DEF KeyRemembered, RaiseDevice, Raise, tableVars, frameVars
  <1>5. CASE Press
    BY <1>5 DEF Press, Raise
  <1>6. CASE Interrupt
    <2>1. full /\ ~unseen /\ base.master = 32 /\ Keyboard \in irr
      BY <1>1, <1>6
      DEF KeyRemembered, Interrupt, Enter, tableVars, deviceVars
    <2>2. PICK m \in Highest(MasterRequests) :
            \E n \in IF m = Cascade THEN Highest(SlaveRequests) ELSE {m} :
              irr' = irr \ {n} /\ Enter(Vector(n), n)
      BY <1>6 DEF Interrupt
    <2>3. PICK n : irr' = irr \ {n} /\ Enter(Vector(n), n)
      BY <2>2
    <2>4. QED
      BY <2>1, <2>3 DEF Enter
  <1>7. CASE Spurious \/ Exception
    BY <1>1, <1>7
    DEF KeyRemembered, Spurious, Exception, ProgramRuns, Enter, tableVars, deviceVars
  <1>8. CASE Dispatch
    <2>1. irq = Keyboard => at' = "handler"
      BY <1>1, <1>8
      DEF Dispatch, IInv, Frame, IsException, IsIrq, Keyboard, None
    <2>2. QED
      BY <1>1, <1>8, <2>1
      DEF KeyRemembered, Dispatch, tableVars, frameVars, deviceVars
  <1>9. CASE Handle
    <2>1. full /\ ~unseen /\ base.master = 32
      BY <1>1, <1>9 DEF Handle, tableVars, IInv, TypeOK
    <2>2. irq # Keyboard
      <3>1. ~Handled("keyboard")
        BY <1>1, <1>9 DEF Handle
      <3>2. ASSUME irq = Keyboard PROVE Irqn = Keyboard /\ booted >= 6
        BY <1>1, <3>2, Steps DEF Irqn, IInv, TypeOK, Frame, Keyboard, None
      <3>3. irq = Keyboard => handlers[Irqn] = "keyboard"
        BY <1>1, <3>2 DEF KeyboardServed
      <3>4. QED
        BY <1>9, <3>1, <3>3 DEF Handled, Handle
    <2>3. QED
      BY <1>1, <1>9, <2>1, <2>2 DEF KeyRemembered, Handle
  <1>10. CASE EndIrq \/ Iret
    BY <1>1, <1>10
    DEF KeyRemembered, EndIrq, Iret, tableVars, frameVars, deviceVars
  <1>11. QED
    BY <1>1, <1>2, <1>3, <1>4, <1>5, <1>6, <1>7, <1>8, <1>9, <1>10
    DEF Next, InterruptStep

(* A latched and unmasked request is one that the processor takes before   *)
(* the program's next step: nothing in service keeps it back.              *)
LEMMA ReadFirst == KInv => KeyReadFirst
  <1>1. SUFFICES ASSUME KInv, full, ~unseen, base.master = 32, booted >= 7, at = "code"
                 PROVE  ifl /\ MasterRequests # {}
    BY DEF KInv, KeyRemembered, KeyReadFirst, ProgramRuns
  <1> USE DEF KInv
  <1>2. Keyboard \in irr \cap Master
    BY <1>1 DEF KeyRemembered, Keyboard, Master
  <1>3. booted \in 7 .. 8 /\ Keyboard \notin imr
    BY <1>1, Steps DEF IInv, TypeOK, SetUp, KeyboardServed, Keyboard, Slave
  <1>4. isr = {}
    BY <1>1 DEF IInv, InService
  <1>5. Keyboard \in MasterRequests
    BY <1>2, <1>3, <1>4 DEF MasterRequests, Servable
  <1>6. QED
    BY <1>1, <1>3, <1>5 DEF KeyboardServed

(* Whatever devices there are, a key pressed while the kernel runs is not  *)
(* forgotten, and the program waits until it has been read                 *)
(* (ps2_keyboard_init, pic_send_eoi).  That it is read then is             *)
(* KeysAreRead, which needs the processor's progress.                      *)
THEOREM KeysNotForgotten == Spec => []KeyReadFirst
  <1>1. Init => KInv
    <2>1. Init => KeyboardServed /\ KeyRemembered
      BY DEF Init, KeyboardServed, KeyRemembered
    <2>2. QED
      BY <2>1, InitInv DEF KInv
  <1>2. KInv /\ [Next]_vars => KInv'
    BY StepInv, ServedStep, RememberedStep DEF KInv
  <1>3. QED
    BY <1>1, <1>2, ReadFirst, PTL DEF Spec

-----------------------------------------------------------------------------
(* The timer and a task. *)

TypeT ==
  /\ ticks \in Nat /\ requests \in Nat /\ low \in Nat /\ start \in Nat
  /\ time \in Nat /\ last_tick \in Nat
  /\ task \in {"print", "low", "high", "compare"}
  /\ torn \in BOOLEAN

(* A time that is being read has the low word of start and, unless it gets *)
(* torn, the high one.                                                     *)
Reading ==
  /\ ClockNotAhead
  /\ task = "high" => start <= ticks /\ low = start % Half

(* Requests are counted as of the reset, before which nothing ticks.       *)
Counting ==
  /\ booted < 2 => ticks = 0
  /\ EveryTickCounted

TInv == IInv /\ TypeT /\ Reading /\ Counting

(* A number is put together again from its two words.                      *)
LEMMA Words ==
  ASSUME NEW n \in Nat, NEW h \in Nat \ {0}
  PROVE  /\ n = ((n \div h) * h) + (n % h)
         /\ n \div h \in Nat /\ n % h \in Nat /\ n % h < h
  OBVIOUS

(* The words as such are in order if their places are.                     *)
LEMMA Monotone ==
  ASSUME NEW p \in Nat, NEW q \in Nat, p <= q, NEW h \in Nat
  PROVE  p * h <= q * h
  <1>1. PICK d \in Nat : q = p + d
    <2>1. q - p \in Nat /\ q = p + (q - p)
      OBVIOUS
    <2>2. QED
      BY <2>1
  <1>2. q * h = (p * h) + (d * h) /\ d * h \in Nat /\ p * h \in Nat
    BY <1>1, SMTT(20)
  <1>3. QED
    BY <1>2

(* A later number has a high word that is no smaller, to go with a low     *)
(* word.                                                                   *)
LEMMA HighWords ==
  ASSUME NEW m \in Nat, NEW n \in Nat, m <= n, NEW h \in Nat \ {0}
  PROVE  (m \div h) * h <= (n \div h) * h
  <1>1. m \div h \in Nat /\ n \div h \in Nat
    BY Words
  <1>2. m \div h <= n \div h
    BY SMTT(20)
  <1>3. QED
    BY <1>1, <1>2, Monotone

(* A step of the timer's model is a step of Interrupts. *)
LEMMA TimerStep ==
  ASSUME TimerNext
  PROVE  Next
  BY DEF TimerNext, HandleStep, OtherStep, EnvironmentStep, Task, TaskStep, PrintLine,
         ReadLow, ReadHigh, Compare, Next, InterruptStep

(* The program with its timer and its task is one of the programs          *)
(* Interrupts describes, so that what is proved of Interrupts holds of it  *)
(* (TimerInterrupts).                                                      *)
THEOREM Simulation == TimerSpec => Spec
  <1>1. [TimerNext]_timerVars => [Next]_vars
    BY TimerStep DEF timerVars
  <1>2. TimerInit => Init
    BY DEF TimerInit
  <1>3. QED
    BY <1>1, <1>2, PTL DEF TimerSpec, Spec

(* Only the timer's own interrupt is handled by pit_irq_handler, and all   *)
(* of its interrupts are.                                                  *)
LEMMA PitHandled ==
  ASSUME IInv, at = "handler"
  PROVE  Handled("pit") <=> irq = Pit
  <1>1. irq \in Irqs /\ Irqn = irq /\ booted >= 7
    BY DEF IInv, TypeOK, Frame, Irqn, Irqs, None
  <1>2. QED
    BY <1>1, Steps DEF Handled, IInv, TypeOK, SetUp

(* Before the boot nothing has ticked and nothing is being read.           *)
LEMMA InitT == TimerInit => TInv
  <1>1. SUFFICES ASSUME TimerInit PROVE TInv
    OBVIOUS
  <1>2. IInv
    BY <1>1, InitInv DEF TimerInit
  <1>3. TypeT
    <2>1. torn \in BOOLEAN
      BY <1>1 DEF TimerInit
    <2>2. QED
      BY <1>1, <2>1 DEF TimerInit, TypeT
  <1>4. Reading
    BY <1>1, TimerAssumption DEF TimerInit, Reading, ClockNotAhead
  <1>5. Counting
    BY <1>1 DEF TimerInit, Init, Counting, EveryTickCounted
  <1>6. QED
    BY <1>2, <1>3, <1>4, <1>5 DEF TInv

(* The count of requests.                                                  *)
LEMMA Requested ==
  ASSUME Request, requests \in Nat
  PROVE  /\ requests' \in Nat
         /\ base' # base => requests' = 0
         /\ base' = base => requests' = IF Pit \in irr' \ irr THEN requests + 1 ELSE requests
  BY DEF Request

(* pit_irq_handler counts the tick that was requested; other handlers      *)
(* count nothing.                                                          *)
LEMMA HandleStepT == TInv /\ HandleStep => TInv'
  <1>1. SUFFICES ASSUME TInv, HandleStep PROVE TInv'
    OBVIOUS
  <1>2. IInv /\ IInv'
    BY <1>1, HandleInv DEF TInv, HandleStep
  <1>3. /\ at = "handler" /\ at' = "eoi"
        /\ UNCHANGED <<booted, base, irr, irq, taskVars>>
    BY <1>1 DEF HandleStep, Handle, tableVars, frameVars
  <1>4. requests \in Nat /\ requests' = requests
    BY <1>1, <1>3, Requested DEF TInv, TypeT, HandleStep
  <1>5. ticks \in Nat /\ ticks' = IF irq = Pit THEN ticks + 1 ELSE ticks
    BY <1>1, <1>2, <1>3, PitHandled DEF TInv, TypeT, HandleStep, Count, Tick
  <1>6. TypeT'
    BY <1>1, <1>3, <1>4, <1>5 DEF TInv, TypeT, taskVars
  <1>7. Reading'
    BY <1>1, <1>3, <1>5, TimerAssumption DEF TInv, TypeT, Reading, ClockNotAhead, taskVars
  <1>8. Counting'
    <2>1. irq = Pit => booted >= 7
      BY <1>2 DEF IInv, Frame, Pit, None
    <2>2. QED
      BY <1>1, <1>2, <1>3, <1>4, <1>5, <2>1, Steps
      DEF TInv, Counting, EveryTickCounted, IInv, TypeOK
  <1>9. QED
    BY <1>2, <1>6, <1>7, <1>8 DEF TInv

(* A step of kernel_main: the reset of the controllers starts the count.   *)
LEMMA BootCounting ==
  ASSUME TInv, IInv', BootStep, Request, UNCHANGED ticks
  PROVE  Counting'
  <1>1. requests \in Nat /\ booted \in 0 .. 8 /\ booted' \in 0 .. 8
    BY Steps DEF TInv, TypeT, IInv, TypeOK
  <1>2. PICK step : Boot(step)
    BY DEF BootStep, IdtInit, PicRemap, MaskAll, Sti, Register, Unmask
  <1>3. at = "code" /\ UNCHANGED <<at, irq>> /\ booted' = booted + 1 /\ irq = None
    BY <1>2 DEF Boot, ProgramRuns, frameVars, TInv, IInv, Frame
  <1>4. CASE PicRemap
    <2>1. booted = 1 /\ base.master = 8 /\ base'.master = 32 /\ irr' = {}
      BY <1>1, <1>4, StepTaken DEF PicRemap, TInv, IInv, SetUp
    <2>2. requests' = 0 /\ ticks = 0
      BY <1>1, <2>1, Requested DEF TInv, Counting
    <2>3. QED
      BY <1>3, <2>1, <2>2 DEF Counting, EveryTickCounted
  <1>5. CASE ~PicRemap
    <2>1. UNCHANGED <<base, irr>>
      BY <1>5 DEF BootStep, IdtInit, MaskAll, Sti, Register, Unmask, tableVars
    <2>2. requests' = requests
      BY <1>1, <2>1, Requested
    <2>3. QED
      BY <1>1, <1>3, <2>1, <2>2 DEF TInv, Counting, EveryTickCounted
  <1>6. QED
    BY <1>4, <1>5

(* Taking the timer's request moves it from the controller on its way to   *)
(* the handler; no other interrupt has its number.                         *)
LEMMA InterruptCounting ==
  ASSUME TInv, Request, UNCHANGED ticks,
         Interrupt \/ Spurious \/ Dispatch \/ EndIrq \/ Iret \/ Exception
  PROVE  Counting'
  <1>1. requests \in Nat /\ UNCHANGED <<booted, base>>
    BY DEF TInv, TypeT, Interrupt, Spurious, Dispatch, EndIrq, Iret, Exception, Enter, tableVars
  <1>2. irr' \subseteq irr /\ requests' = requests
    <2>1. irr' \subseteq irr
      BY DEF Interrupt, Spurious, Dispatch, EndIrq, Iret, Exception, Enter
    <2>2. QED
      BY <1>1, <2>1, Requested
  <1> DEFINE Coming == irq = Pit /\ at \in {"dispatch", "handler"}
  <1>3. \/ (Pit \in irr <=> Pit \in irr') /\ (Coming <=> Coming')
        \/ Pit \in irr /\ Pit \notin irr' /\ ~Coming /\ Coming'
    <2>1. CASE Interrupt
      <3>1. PICK m \in Highest(MasterRequests), n \in Irqs :
              /\ n \in IF m = Cascade THEN Highest(SlaveRequests) ELSE {m}
              /\ irr' = irr \ {n} /\ Enter(Vector(n), n)
        <4>1. MasterRequests \subseteq Irqs /\ SlaveRequests \subseteq Irqs
          BY DEF MasterRequests, SlaveRequests, Servable, Master, Slave, Cascade, Irqs
        <4>2. QED
          BY <2>1, <4>1 DEF Interrupt, Highest
      <3>2. n \in irr \/ n = Cascade
        BY <3>1 DEF Highest, MasterRequests, SlaveRequests, Servable
      <3>3. at = "code" /\ at' = "dispatch" /\ irq' = n
        BY <2>1, <3>1 DEF Interrupt, Enter
      <3>4. CASE n = Pit
        BY <3>1, <3>2, <3>3, <3>4 DEF Cascade, Pit
      <3>5. CASE n # Pit
        BY <3>1, <3>2, <3>3, <3>5
      <3>6. QED
        BY <3>4, <3>5
    <2>2. CASE Spurious \/ Exception
      BY <2>2 DEF Spurious, Exception, Enter, ProgramRuns, Pit, None
    <2>3. CASE Dispatch
      BY <2>3 DEF TInv, IInv, Frame, Dispatch, IsException, IsIrq, Pit, None, frameVars
    <2>4. CASE EndIrq \/ Iret
      BY <2>4 DEF EndIrq, Iret, Pit, None, frameVars
    <2>5. QED
      BY <2>1, <2>2, <2>3, <2>4
  <1>4. QED
    BY <1>1, <1>2, <1>3 DEF TInv, TypeT, Counting, EveryTickCounted

(* A device's request is latched, at most once.                            *)
LEMMA DeviceCounting ==
  ASSUME TInv, Request, UNCHANGED ticks, RaiseDevice \/ Press
  PROVE  Counting'
  <1>1. PICK n \in Irqs : Raise(n)
    <2>1. Devices \cup {Pit, Keyboard} \subseteq Irqs
      BY InterruptsAssumption DEF Irqs, Pit, Keyboard
    <2>2. QED
      BY <2>1 DEF RaiseDevice, Press
  <1>2. irr' = irr \cup {n} /\ UNCHANGED <<booted, base, at, irq>>
    BY <1>1 DEF Raise, tableVars, frameVars
  <1>3. /\ requests \in Nat /\ ticks \in Nat
        /\ requests' = IF n = Pit /\ Pit \notin irr THEN requests + 1 ELSE requests
    BY <1>2, Requested DEF TInv, TypeT
  <1>4. QED
    BY <1>2, <1>3 DEF TInv, Counting, EveryTickCounted

(* The other steps of program and devices count neither a tick nor its     *)
(* request twice.                                                          *)
LEMMA OtherStepT == TInv /\ (OtherStep \/ EnvironmentStep) => TInv'
  <1>1. SUFFICES ASSUME TInv, OtherStep \/ EnvironmentStep PROVE TInv'
    OBVIOUS
  <1>2. IInv'
    BY <1>1, BootInv, OutsideInv, ExceptionInv, InterruptInv, SpuriousInv, DispatchInv,
       EndIrqInv, IretInv
    DEF TInv, OtherStep, EnvironmentStep
  <1>3. Request /\ UNCHANGED <<ticks, taskVars>>
    BY <1>1 DEF OtherStep, EnvironmentStep
  <1>4. Counting'
    BY <1>1, <1>2, <1>3, BootCounting, InterruptCounting, DeviceCounting
    DEF OtherStep, EnvironmentStep
  <1>5. requests' \in Nat
    BY <1>1, <1>3, Requested DEF TInv, TypeT
  <1>6. TypeT' /\ Reading'
    BY <1>1, <1>3, <1>5 DEF TInv, TypeT, Reading, ClockNotAhead, taskVars
  <1>7. QED
    BY <1>2, <1>4, <1>6 DEF TInv

(* The task's steps.  An untorn time is the count when its reading began:  *)
(* the high word has not changed since.                                    *)
LEMMA TaskStepT == TInv /\ Task => TInv'
  <1>1. SUFFICES ASSUME TInv, Task PROVE TInv'
    OBVIOUS
  <1>2. ProgramStep /\ UNCHANGED <<ticks, requests>>
    BY <1>1 DEF Task, PrintLine, ReadLow, ReadHigh, Compare, TaskStep
  <1>3. IInv'
    BY <1>1, <1>2, OutsideInv DEF TInv
  <1>4. Counting'
    BY <1>1, <1>2 DEF TInv, Counting, EveryTickCounted, ProgramStep, tableVars, frameVars
  <1>5. /\ ticks \in Nat /\ Half \in Nat \ {0}
        /\ ticks % Half \in Nat /\ ticks \div Half \in Nat
        /\ ((ticks \div Half) * Half) \in Nat
    BY <1>1, TimerAssumption, Words DEF TInv, TypeT
  <1>6. torn' \in BOOLEAN
    BY <1>1 DEF TInv, TypeT, Task, PrintLine, ReadLow, ReadHigh, Compare
  <1>7. TypeT' /\ Reading'
    <2>1. CASE PrintLine
      BY <1>1, <1>2, <1>6, <2>1 DEF TInv, TypeT, Reading, ClockNotAhead, PrintLine, TaskStep
    <2>2. CASE ReadLow
      BY <1>1, <1>2, <1>5, <1>6, <2>2 DEF TInv, TypeT, Reading, ClockNotAhead, ReadLow, TaskStep
    <2>3. CASE ReadHigh
      <3>1. /\ task = "high" /\ task' = "compare"
            /\ time' = ((ticks \div Half) * Half) + low
            /\ UNCHANGED <<low, start, last_tick>>
            /\ ~torn' => ~torn /\ ticks \div Half = start \div Half
        BY <2>3 DEF ReadHigh, TaskStep
      <3>2. ~torn' => time' = start
        <4>1. SUFFICES ASSUME ~torn' PROVE time' = start
          OBVIOUS
        <4>2. low = start % Half /\ ticks \div Half = start \div Half
          BY <1>1, <3>1, <4>1 DEF TInv, Reading
        <4>3. start = ((start \div Half) * Half) + (start % Half)
          BY <1>1, TimerAssumption, Words DEF TInv, TypeT
        <4>4. QED
          BY <3>1, <4>2, <4>3
      <3>7. start <= time' /\ time' < ticks + Half
        <4>1. /\ start \in Nat /\ start <= ticks /\ low = start % Half
              /\ start = ((start \div Half) * Half) + (start % Half)
              /\ start % Half \in Nat /\ start % Half < Half
              /\ start \div Half \in Nat
          BY <1>1, <3>1, TimerAssumption, Words DEF TInv, TypeT, Reading
        <4>2. (start \div Half) * Half <= (ticks \div Half) * Half
          BY <1>5, <4>1, HighWords
        <4>3. ((start \div Half) * Half) \in Nat
          BY <1>5, <4>1
        <4>4. ticks = ((ticks \div Half) * Half) + (ticks % Half)
          BY <1>5, Words
        <4>5. QED
          BY <1>5, <3>1, <4>1, <4>2, <4>3, <4>4
      <3>3. time' \in Nat
        BY <1>1, <1>5, <3>1 DEF TInv, TypeT
      <3>4. TypeT'
        BY <1>1, <1>2, <1>6, <3>1, <3>3 DEF TInv, TypeT
      <3>5. Reading'
        BY <1>1, <1>2, <1>5, <3>1, <3>2, <3>7 DEF TInv, TypeT, Reading, ClockNotAhead
      <3>6. QED
        BY <3>4, <3>5
    <2>4. CASE Compare
      BY <1>1, <1>2, <1>6, <2>4 DEF TInv, TypeT, Reading, ClockNotAhead, Compare
    <2>5. QED
      BY <1>1, <2>1, <2>2, <2>3, <2>4 DEF Task
  <1>8. QED
    BY <1>3, <1>4, <1>7 DEF TInv

(* Nothing changes. *)
LEMMA StutterT == TInv /\ UNCHANGED timerVars => TInv'
  <1>1. SUFFICES ASSUME TInv, UNCHANGED timerVars PROVE TInv'
    OBVIOUS
  <1>2. IInv'
    BY <1>1, OutsideInv DEF TInv, timerVars
  <1>3. TypeT' /\ Reading' /\ Counting'
    BY <1>1
    DEF TInv, TypeT, Reading, ClockNotAhead, Counting, EveryTickCounted, timerVars, taskVars, vars,
        tableVars, frameVars
  <1>4. QED
    BY <1>2, <1>3 DEF TInv

(* The invariant holds in every reachable state. *)
THEOREM TimerInvariance == TimerSpec => []TInv
  <1>1. TInv /\ [TimerNext]_timerVars => TInv'
    BY HandleStepT, OtherStepT, TaskStepT, StutterT DEF TimerNext
  <1>2. QED
    BY InitT, <1>1, PTL DEF TimerSpec

(* Every variable of Timer keeps its type.                                 *)
THEOREM TimerTypeCorrect == TimerSpec => []TimerTypeOK
  <1>1. TInv => TimerTypeOK
    BY DEF TInv, IInv, TypeT, TimerTypeOK
  <1>2. QED
    BY <1>1, TimerInvariance, PTL

(* No tick is lost and none counted twice (pit_irq_handler), however large *)
(* a word is, whatever else interrupts.                                    *)
THEOREM TicksCounted == TimerSpec => []EveryTickCounted
  <1>1. TInv => EveryTickCounted
    BY DEF TInv, Counting
  <1>2. QED
    BY <1>1, TimerInvariance, PTL

(* A task is ahead of the count only after a torn reading (pit_ticks), and *)
(* by less than a word.                                                    *)
THEOREM TaskInTime == TimerSpec => []ClockNotAhead
  <1>1. TInv => ClockNotAhead
    BY DEF TInv, Reading
  <1>2. QED
    BY <1>1, TimerInvariance, PTL

(* What is proved of the interrupts holds with the timer and its tasks.    *)
THEOREM TimerInterrupts ==
  TimerSpec => [](NothingLeftInService /\ IrqNotMistaken /\ KeyReadFirst)
  <1>1. TInv => NothingLeftInService /\ IrqNotMistaken
    BY Consequences DEF TInv
  <1>2. QED
    BY <1>1, TimerInvariance, Simulation, KeysNotForgotten, PTL
=============================================================================
