----------------------------- MODULE Scheduler -----------------------------
(***************************************************************************)
(* Processes, the timer interrupt and the context switch of Abel-OS        *)
(* (kernel/scheduler, kernel/interrupt, arch/x86), from the start of the   *)
(* interrupt subsystem in kernel_main on.                                  *)
(*                                                                         *)
(* One processor runs one stack at a time: cpu names the context it is on, *)
(* kernel_main's (Boot) or a process's.  A context executes at level       *)
(* "base", its own code, or "irq", the interrupt stub that was pushed on   *)
(* its stack; loc says where it is at each level.  scheduler_schedule is   *)
(* reached at both levels, from the tick with interrupts off and from      *)
(* scheduler_exit_current with interrupts on, so that the timer may arrive *)
(* between any two of its steps.                                           *)
(***************************************************************************)
EXTENDS Integers, Sequences, SequencesExt, FiniteSets

CONSTANTS NProcs,       \* processes kernel_main creates; pids are 0 .. NProcs - 1
          Exiters,      \* those whose function returns
          HeapUsers,    \* those that call kalloc and kfree
          Quantum,      \* MAX_PROC_QUANTUM
          WindowTicks   \* bound: ticks while a context leaves the processor

Procs == 0 .. NProcs - 1

Boot   == -1   \* the context of kernel_main
Helper == -2   \* the pcb exit_helper
Null   == -3   \* the null pcb pointer

Contexts == Procs \cup {Boot}
Pcbs     == Procs \cup {Helper}
Levels   == {"base", "irq"}

(* A quantum lasts seconds, leaving the processor microseconds: fewer than *)
(* Quantum ticks fall into it.  Some process never returns (main, idle).   *)
ASSUME SchedulerAssumption ==
  /\ NProcs \in Nat /\ Exiters \subseteq Procs /\ Exiters # Procs
  /\ HeapUsers \subseteq Procs
  /\ Quantum \in Nat \ {0}
  /\ WindowTicks \in Nat /\ WindowTicks < Quantum

VARIABLES
  list,        \* the process list: pids in order
  current,     \* the pcb the scheduler takes for the running one
  exiting,     \* processes with PROC_EXIT in flags
  runtime,     \* [Pcbs -> ticks since the process was given the processor]
  saved,       \* [Pcbs -> context whose stack stack_ptr points to]
  stacks,      \* processes whose stack page is mapped
  cpu,         \* the context on whose stack the processor runs
  loc,         \* [Contexts -> [Levels -> where the context is]]
  from,        \* [Contexts -> [Levels -> local variable of scheduler_schedule]]
  ifl,         \* the interrupt flag of the processor
  savedIf,     \* [Contexts -> interrupt flag in the frame of its last switch]
  masked,      \* the PIC masks the timer
  inService,   \* the PIC waits for the end of the timer's interrupt
  handler,     \* pit_irq_handler is registered
  post,        \* the scheduler's post routine is registered
  wticks       \* ticks since the running context began to leave the processor

bootVars  == <<masked, handler, post>>
procVars  == <<list, exiting, stacks>>
cpuVars   == <<cpu, ifl, savedIf>>
vars == <<list, current, exiting, runtime, saved, stacks, cpu, loc, from, ifl,
          savedIf, masked, inService, handler, post, wticks>>

Level  == IF loc[cpu]["irq"] = "none" THEN "base" ELSE "irq"
At(l)  == loc[cpu][Level] = l
Goto(l) == loc' = [loc EXCEPT ![cpu][Level] = l]
From   == from[cpu][Level]

-----------------------------------------------------------------------------
(* The process list, fifo.c. *)

(* sched_fifo_enqueue puts a node behind the head. *)
FifoEnqueue(p) == IF list = <<>> THEN <<p>> ELSE InsertAt(list, 2, p)

(* get_by_pid: where p's node is in the list. *)
Node(p) == CHOOSE i \in DOMAIN list : list[i] = p

FifoNextSkipsHead(p) ==   \* mutant: the end of the list wraps to the second node
  IF p \notin ToSet(list) THEN Null
  ELSE IF Node(p) = Len(list) THEN list[IF Len(list) = 1 THEN 1 ELSE 2]
  ELSE list[Node(p) + 1]

(* sched_fifo_next: the node behind p's, the head behind the last. *)
FifoNext(p) ==
  IF p \notin ToSet(list) THEN Null
  ELSE IF Node(p) = Len(list) THEN Head(list)
  ELSE list[Node(p) + 1]

(* sched_fifo_dequeue *)
FifoDequeue(p) == IF p \in ToSet(list) THEN RemoveAt(list, Node(p)) ELSE list

FifoTickAlways(p, ran) == p \in ToSet(list)   \* mutant: the quantum is not compared

(* sched_fifo_tick, with the runtime the tick has just counted. *)
FifoTick(p, ran) == p \in ToSet(list) /\ ran >= Quantum

-----------------------------------------------------------------------------
(* After init_int_subsystem: interrupts on, every line masked.  Nothing    *)
(* initialises the list: it is empty as long as memory that no one has     *)
(* written holds zeros.                                                    *)
Init ==
  /\ list = <<>> /\ current = Null /\ exiting = {}
  /\ runtime = [p \in Pcbs |-> 0]
  /\ saved = [p \in Pcbs |-> IF p = Helper THEN Boot ELSE p]
  /\ stacks = {}
  /\ cpu = Boot
  /\ loc = [c \in Contexts |->
              [base |-> IF c = Boot THEN "drivers" ELSE "user", irq |-> "none"]]
  /\ from = [c \in Contexts |-> [base |-> Helper, irq |-> Helper]]
  /\ ifl = TRUE /\ savedIf = [c \in Contexts |-> TRUE]
  /\ masked = TRUE /\ inService = FALSE /\ handler = FALSE /\ post = FALSE
  /\ wticks = 0

(* pit_init *)
InitDrivers ==
  /\ At("drivers") /\ Goto("unmask")
  /\ handler' = TRUE
  /\ UNCHANGED <<procVars, cpuVars, wticks, current, runtime, saved, from,
                 masked, inService, post>>

(* enable_interrupts *)
EnableInterrupts ==
  /\ At("unmask") /\ Goto("add")
  /\ masked' = FALSE
  /\ UNCHANGED <<procVars, cpuVars, wticks, current, runtime, saved, from,
                 inService, handler, post>>

AddProcessSamePid ==   \* mutant: last_pid is not incremented
  /\ At("add") /\ Len(list) < NProcs
  /\ stacks' = stacks \cup {0}
  /\ list' = FifoEnqueue(0)
  /\ UNCHANGED <<bootVars, wticks, current, exiting, runtime, saved, cpuVars,
                 loc, from, inService>>

(* proc_create_process and scheduler_add_process: a stack page with a frame *)
(* that starts the process with interrupts on, and a copy of the pcb.       *)
AddProcess ==
  /\ At("add") /\ Len(list) < NProcs
  /\ LET p == Len(list)   \* last_pid++
     IN  /\ stacks' = stacks \cup {p}
         /\ saved' = [saved EXCEPT ![p] = p]
         /\ savedIf' = [savedIf EXCEPT ![p] = TRUE]
         /\ list' = FifoEnqueue(p)
  /\ UNCHANGED <<bootVars, wticks, current, exiting, runtime, cpu, loc, from,
                 ifl, inService>>

(* scheduler_start: the first process, the post routine, the switch. *)
StartFirst ==
  /\ At("add") /\ Len(list) = NProcs /\ Goto("register")
  /\ current' = Head(list)
  /\ UNCHANGED <<bootVars, procVars, cpuVars, wticks, runtime, saved, from,
                 inService>>

StartRegister ==
  /\ At("register") /\ Goto("save")
  /\ post' = TRUE
  /\ from' = [from EXCEPT ![Boot]["base"] = Helper]
  /\ UNCHANGED <<procVars, cpuVars, wticks, current, runtime, saved, masked,
                 inService, handler>>

-----------------------------------------------------------------------------
(* The code of a process: it is in the heap's functions or outside, and a  *)
(* return from its function leads to scheduler_exit_current.               *)
EnterHeap ==
  /\ At("user") /\ cpu \in HeapUsers /\ Goto("heap")
  /\ UNCHANGED <<bootVars, procVars, cpuVars, wticks, current, runtime,
                 saved, from, inService>>

LeaveHeap ==
  /\ At("heap") /\ Goto("user")
  /\ UNCHANGED <<bootVars, procVars, cpuVars, wticks, current, runtime,
                 saved, from, inService>>

ReturnFromProcess ==
  /\ At("user") /\ cpu \in Exiters /\ Goto("exit")
  /\ UNCHANGED <<bootVars, procVars, cpuVars, wticks, current, runtime,
                 saved, from, inService>>

(* scheduler_exit_current *)
ExitCurrent ==
  /\ At("exit") /\ Goto("read")
  /\ exiting' = exiting \cup {current}
  /\ UNCHANGED <<bootVars, cpuVars, wticks, list, stacks, current, runtime,
                 saved, from, inService>>

-----------------------------------------------------------------------------
(* A context that has begun to hand over: current is already the next one. *)
Leaving ==
  loc[cpu]["base"] \in {"register", "save", "free", "dequeue", "load"}

(* The timer's interrupt is taken: the gate clears the interrupt flag, and *)
(* the stub runs on the stack of the interrupted context.                  *)
TimerInterrupt ==
  /\ ifl /\ ~masked /\ ~inService
  /\ Leaving => wticks < WindowTicks
  /\ wticks' = IF Leaving THEN wticks + 1 ELSE wticks
  /\ ifl' = FALSE /\ inService' = TRUE
  /\ loc' = [loc EXCEPT ![cpu]["irq"] = "eoi"]
  /\ UNCHANGED <<bootVars, procVars, current, runtime, saved, cpu, savedIf,
                 from>>

EndIrqNever ==   \* mutant: the end of interrupt is left to the post routine's return
  /\ At("eoi") /\ Goto("post")
  /\ UNCHANGED <<bootVars, procVars, cpuVars, wticks, current, runtime,
                 saved, from, inService>>

(* irq_dispatch sends the end of interrupt before it runs the post routine, *)
(* which may not come back for a while.                                     *)
EndIrq ==
  /\ At("eoi") /\ Goto("post")
  /\ inService' = FALSE
  /\ UNCHANGED <<bootVars, procVars, cpuVars, wticks, current, runtime,
                 saved, from>>

(* scheduler_tick, the post routine.  runtime stops counting at Quantum. *)
Tick ==
  /\ At("post")
  /\ IF post
     THEN LET ran == IF runtime[current] < Quantum THEN runtime[current] + 1
                                                   ELSE Quantum
          IN  /\ runtime' = [runtime EXCEPT ![current] = ran]
              /\ Goto(IF FifoTick(current, ran) THEN "read" ELSE "iret")
     ELSE Goto("iret") /\ UNCHANGED runtime
  /\ UNCHANGED <<bootVars, procVars, cpuVars, wticks, current, saved, from,
                 inService>>

(* The stub returns: the flags of the interrupted code come back. *)
Iret ==
  /\ At("iret") /\ Goto("none")
  /\ ifl' = TRUE
  /\ UNCHANGED <<bootVars, procVars, wticks, current, runtime, saved, cpu,
                 savedIf, from, inService>>

-----------------------------------------------------------------------------
(* scheduler_schedule, line by line.  Where a context goes on when         *)
(* arch_switch_context brings it back:                                     *)
AfterSwitch ==
  IF Level = "irq" THEN "iret" ELSE IF cpu = Boot THEN "panic" ELSE "dead"

ScheduleRead ==
  /\ At("read") /\ Goto("next")
  /\ from' = [from EXCEPT ![cpu][Level] = current]
  /\ UNCHANGED <<bootVars, procVars, cpuVars, wticks, current, runtime,
                 saved, inService>>

ScheduleNextInverted ==   \* mutant: from->flags is compared with PROC_OK
  /\ At("next")
  /\ current' = FifoNext(From)
  /\ Goto(IF From \notin exiting THEN "free"
          ELSE IF From # FifoNext(From) THEN "save" ELSE AfterSwitch)
  /\ UNCHANGED <<bootVars, procVars, cpuVars, wticks, runtime, saved, from,
                 inService>>

ScheduleNext ==
  /\ At("next")
  /\ current' = FifoNext(From)
  /\ Goto(IF From \in exiting THEN "free"
          ELSE IF From # FifoNext(From) THEN "save" ELSE AfterSwitch)
  /\ UNCHANGED <<bootVars, procVars, cpuVars, wticks, runtime, saved, from,
                 inService>>

(* vmm_free_page of the stack, on which the processor still runs. *)
ScheduleFree ==
  /\ At("free") /\ Goto("dequeue")
  /\ stacks' = stacks \ {saved[From]}
  /\ UNCHANGED <<bootVars, cpuVars, wticks, list, exiting, current, runtime,
                 saved, from, inService>>

ScheduleDequeueKeepsFrom ==   \* mutant: from still points to the freed pcb
  /\ At("dequeue") /\ Goto("save")
  /\ list' = FifoDequeue(From)
  /\ UNCHANGED <<bootVars, cpuVars, wticks, exiting, stacks, current, runtime,
                 saved, from, inService>>

ScheduleDequeueNothing ==   \* mutant: the node stays in the list
  /\ At("dequeue") /\ Goto("save")
  /\ from' = [from EXCEPT ![cpu][Level] = Helper]
  /\ UNCHANGED <<bootVars, procVars, cpuVars, wticks, current, runtime, saved,
                 inService>>

(* sched_fifo_dequeue frees the pcb and its node; from becomes exit_helper. *)
ScheduleDequeue ==
  /\ At("dequeue") /\ Goto("save")
  /\ list' = FifoDequeue(From)
  /\ from' = [from EXCEPT ![cpu][Level] = Helper]
  /\ UNCHANGED <<bootVars, cpuVars, wticks, exiting, stacks, current, runtime,
                 saved, inService>>

SwitchSaveNoReset ==   \* mutant: the quantum of the next turn starts used up
  /\ At("save") /\ Goto("load")
  /\ saved' = [saved EXCEPT ![From] = cpu]
  /\ savedIf' = [savedIf EXCEPT ![cpu] = ifl]
  /\ UNCHANGED <<bootVars, procVars, wticks, current, runtime, cpu, ifl, from,
                 inService>>

(* arch_switch_context, first half: flags and registers pushed, stack_ptr  *)
(* of the old pcb set.                                                     *)
SwitchSave ==
  /\ At("save") /\ Goto("load")
  /\ runtime' = [runtime EXCEPT ![From] = 0]
  /\ saved' = [saved EXCEPT ![From] = cpu]
  /\ savedIf' = [savedIf EXCEPT ![cpu] = ifl]
  /\ UNCHANGED <<bootVars, procVars, wticks, current, cpu, ifl, from,
                 inService>>

(* arch_switch_context, second half: the stack of the new pcb, its flags.  *)
SwitchLoad ==
  /\ At("load") /\ Goto(AfterSwitch)
  /\ cpu' = saved[current]
  /\ ifl' = savedIf[saved[current]]
  /\ wticks' = 0
  /\ UNCHANGED <<bootVars, procVars, current, runtime, saved, savedIf, from,
                 inService>>

-----------------------------------------------------------------------------
Kernel ==
  \/ InitDrivers \/ EnableInterrupts \/ AddProcess \/ StartFirst \/ StartRegister
  \/ EndIrq \/ Tick \/ Iret
  \/ ExitCurrent
  \/ ScheduleRead \/ ScheduleNext \/ ScheduleFree \/ ScheduleDequeue
  \/ SwitchSave \/ SwitchLoad

User == EnterHeap \/ LeaveHeap \/ ReturnFromProcess

Next == Kernel \/ User \/ TimerInterrupt

Spec == Init /\ [][Next]_vars

(* The timer keeps ticking, the handlers finish (interrupts are off), and  *)
(* the interrupted code makes progress between two ticks: a tick takes     *)
(* microseconds, the time between two of them milliseconds.  This is       *)
(* strong fairness, since the interrupt disables the step of that code.    *)
HandlerStep     == Level = "irq" /\ Kernel
CodeStepOf(c)   == Level = "base" /\ cpu = c /\ Kernel

Fairness ==
  /\ WF_vars(TimerInterrupt)
  /\ WF_vars(HandlerStep)
  /\ \A c \in Contexts : SF_vars(CodeStepOf(c))

FairSpec == Spec /\ Fairness

-----------------------------------------------------------------------------
Locations ==
  {"drivers", "unmask", "add", "register", "user", "heap", "exit", "none",
   "eoi", "post", "iret", "read", "next", "free", "dequeue", "save", "load",
   "dead", "panic"}

(* Every variable has its type. *)
TypeOK ==
  /\ list \in Seq(Procs) /\ IsInjective(list)
  /\ current \in Procs \cup {Null}
  /\ exiting \subseteq Procs
  /\ runtime \in [Pcbs -> 0 .. Quantum]
  /\ saved \in [Pcbs -> Contexts]
  /\ stacks \subseteq Procs
  /\ cpu \in Contexts
  /\ loc \in [Contexts -> [Levels -> Locations]]
  /\ from \in [Contexts -> [Levels -> Pcbs]]
  /\ savedIf \in [Contexts -> BOOLEAN]
  /\ ifl \in BOOLEAN /\ masked \in BOOLEAN /\ inService \in BOOLEAN
  /\ handler \in BOOLEAN /\ post \in BOOLEAN
  /\ wticks \in 0 .. WindowTicks

InUserCode == Level = "base" /\ cpu \in Procs /\ loc[cpu]["base"] \in {"user", "heap"}

(* Ticks that arrive while a context hands over, when current is already   *)
(* another process, never save the wrong stack into a pcb: the stack_ptr   *)
(* of a process always leads to its own stack.                             *)
ContextsNotCrossed == \A p \in ToSet(list) : saved[p] = p

(* vmm_free_page gets a mapped stack: a second free of the same page would *)
(* release frame 0 (see Vmm).                                              *)
StackFreedOnce ==
  At("free") => From \in exiting /\ saved[From] \in stacks

(* No freed pcb is read or written: current and from are in the list when  *)
(* the scheduler follows them.                                             *)
PcbsAlive ==
  /\ post => current \in ToSet(list)
  /\ At("next") \/ At("free") \/ At("dequeue") => From \in ToSet(list)
  /\ At("save") => From \in ToSet(list) \cup {Helper}

(* Two contexts are never in the code of the heap or of the page allocator *)
(* at once, neither of which takes a lock: kalloc and kfree, the freeing   *)
(* of a stack and that of a control block.  It takes that only processes   *)
(* that use the heap have returned: kalloc_test is the one that allocates  *)
(* and the one that is reaped.                                             *)
Reaping(c, l) == loc[c][l] \in {"free", "dequeue"}
Allocating(c) == loc[c]["base"] = "heap" \/ \E l \in Levels : Reaping(c, l)
HeapExclusive ==
  exiting \subseteq HeapUsers =>
    \A c, d \in Procs : Allocating(c) /\ Allocating(d) =>
      c = d /\ ~(loc[c]["base"] = "heap" /\ Reaping(c, "irq"))

(* A process that returns goes on running on the stack page it has freed.  *)
(* Until it has left that page nobody else runs who could be given it.     *)
FreedStackPrivate ==
  \A p \in Procs \ stacks :
    (\E l \in Levels : loc[p][l] \in {"dequeue", "save", "load"}) => cpu = p

(* Every process that does not return runs again and again. *)
EveryoneRuns == \A p \in Procs \ Exiters : []<>(cpu = p /\ InUserCode)

(* A process that has returned is reaped: its pcb and its stack are freed. *)
ExitReaped ==
  \A p \in Exiters :
    loc[p]["base"] = "exit" ~> p \notin ToSet(list) /\ p \notin stacks

(* Refinement: the turn is the scheduler's current, the ring its list.     *)
Ring ==
  INSTANCE RoundRobin WITH
    ring <- list, turn <- current, returned <- exiting

TurnsKeepGoingRound == Ring!FairSpec
=============================================================================
