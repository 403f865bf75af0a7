SPECIFICATION TimerFairSpec
CONSTANTS
  Devices = {4, 12}
  Faults = {0, 14}
  Half = 3
  Wait = 1
  MaxTicks = 8
INVARIANTS NothingLeftInService IrqNotMistaken EveryTickCounted ClockNotAhead
PROPERTIES KeysAreRead
\* An exception ends in a loop of its handler.
CHECK_DEADLOCK FALSE
