------------------------------- MODULE Timer -------------------------------
(***************************************************************************)
(* The interval timer's count of ticks (arch/x86/timer/pit.c) and a task   *)
(* of kernel.c, main or task2, that prints when enough of them have gone   *)
(* by, on the interrupts of module Interrupts.                             *)
(*                                                                         *)
(* The count has 64 bits and the machine 32: the handler counts with the   *)
(* interrupt flag off, but a task reads the two words one after the other. *)
(***************************************************************************)
EXTENDS Interrupts

CONSTANTS Half,     \* values of a word of the count, 2^32
          Wait,     \* ticks between two lines: 100 in main, pit_freq in task2
          MaxTicks  \* bound: requests of the timer after the reset of the PICs

ASSUME TimerAssumption ==
  /\ Half \in Nat \ {0} /\ Wait \in Nat /\ MaxTicks \in Nat
  /\ MaxTicks < Half * Half

VARIABLES
  ticks,      \* pit_ticks_from_system_start
  requests,   \* history: the timer's requests latched since the reset
  task,       \* the task's next statement
  low,        \* the low word it has read
  start,      \* history: ticks when it read that
  time,       \* its variables
  last_tick,
  torn        \* history: the low word wrapped between two reads

taskVars  == <<task, low, start, time, last_tick, torn>>
timerVars == <<vars, ticks, requests, taskVars>>

TimerInit ==
  /\ Init
  /\ ticks = 0 /\ requests = 0
  /\ task = "print" /\ low = 0 /\ start = 0 /\ time = 0 /\ last_tick = 0
  /\ torn = FALSE

TickLowWord ==   \* mutant: the carry into the high word is forgotten
  (ticks \div Half) * Half + ((ticks + 1) % Half)

(* pit_irq_handler *)
Tick == ticks + 1

(* Only the handler writes the count. *)
Count == ticks' = IF Handled("pit") THEN Tick ELSE ticks

(* A latched request is counted once, however often the line rises before  *)
(* it is taken; the reset of the controllers forgets it.                   *)
Request ==
  LET latched == Pit \in irr' \ irr
  IN  /\ latched => requests < MaxTicks
      /\ requests' = IF base' # base THEN 0
                     ELSE IF latched THEN requests + 1 ELSE requests

HandleStep == Handle /\ Count /\ Request /\ UNCHANGED taskVars

OtherStep ==
  /\ BootStep \/ Interrupt \/ Spurious \/ Dispatch \/ EndIrq \/ Iret
  /\ Request
  /\ UNCHANGED <<ticks, taskVars>>

EnvironmentStep ==
  /\ Exception \/ RaiseDevice \/ Press
  /\ Request
  /\ UNCHANGED <<ticks, taskVars>>

-----------------------------------------------------------------------------
(* main and task2: print, then read until enough ticks have gone by. *)
TaskStep(here, next) ==
  /\ ProgramStep
  /\ task = here /\ task' = next
  /\ UNCHANGED <<ticks, requests>>

PrintLine ==
  /\ TaskStep("print", "low")
  /\ UNCHANGED <<low, start, time, last_tick, torn>>

(* pit_ticks: a return of 64 bits loads the low word and then the high one. *)
ReadLow ==
  /\ TaskStep("low", "high")
  /\ low' = ticks % Half /\ start' = ticks
  /\ UNCHANGED <<time, last_tick, torn>>

ReadHigh ==
  /\ TaskStep("high", "compare")
  /\ time' = (ticks \div Half) * Half + low
  /\ torn' = (torn \/ ticks \div Half # start \div Half)
  /\ UNCHANGED <<low, start, last_tick>>

Compare ==
  /\ ProgramStep /\ task = "compare"
  /\ IF time > last_tick + Wait
     THEN task' = "print" /\ last_tick' = time
     ELSE task' = "low" /\ UNCHANGED last_tick
  /\ UNCHANGED <<ticks, requests, low, start, time, torn>>

Task == PrintLine \/ ReadLow \/ ReadHigh \/ Compare

TimerNext == HandleStep \/ OtherStep \/ EnvironmentStep \/ Task

TimerSpec == TimerInit /\ [][TimerNext]_timerVars

(* The processor goes on, in the program and in interrupts; nothing makes  *)
(* a device raise its line.                                                *)
ProcessorStep == HandleStep \/ OtherStep \/ Task

TimerFairSpec == TimerSpec /\ WF_timerVars(ProcessorStep)

-----------------------------------------------------------------------------
(* Every variable has its type. *)
TimerTypeOK ==
  /\ TypeOK
  /\ ticks \in Nat /\ requests \in Nat /\ low \in Nat /\ start \in Nat
  /\ time \in Nat /\ last_tick \in Nat
  /\ task \in {"print", "low", "high", "compare"}
  /\ torn \in BOOLEAN

(* No tick is lost and none counted twice: what the timer has requested    *)
(* since the controllers were reset is counted, in the controller, or on   *)
(* its way to the handler.  It takes the handler to be in place before the *)
(* line is unmasked and each request to be ended.                          *)
EveryTickCounted ==
  base.master = 32 =>
    requests = ticks + (IF Pit \in irr THEN 1 ELSE 0)
                     + (IF irq = Pit /\ at \in {"dispatch", "handler"} THEN 1 ELSE 0)

(* A task's time is never earlier than the count when it was asked for and *)
(* ahead of it by less than a word, and ahead at all only if the low word  *)
(* wrapped between the two reads of pit_ticks.  Two readings that were put *)
(* together from different ticks do not add up to a time still further on, *)
(* for which the task would wait.                                          *)
ClockNotAhead ==
  /\ last_tick < ticks + Half
  /\ task = "compare" => start <= time /\ time < ticks + Half
  /\ ~torn => last_tick <= ticks /\ (task = "compare" => time <= ticks)
=============================================================================
