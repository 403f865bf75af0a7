SPECIFICATION FairSpec
CONSTANTS
  NProcs = 4
  Exiters <- TwoReturn
  HeapUsers <- Shipped
  Quantum = 3
  WindowTicks = 2
INVARIANTS TypeOK ContextsNotCrossed StackFreedOnce PcbsAlive HeapExclusive FreedStackPrivate
PROPERTIES EveryoneRuns ExitReaped TurnsKeepGoingRound
