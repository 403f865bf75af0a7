SPECIFICATION Spec
CONSTANTS
  N = 4
  Word = 8
  Keys = {k}
INVARIANTS RingHoldsUnread PrefixInStep PoppedIsOldest RefusedOnlyWhenFull
PROPERTY ExcessOnlyUnwrapped
\* Nothing happens after an overrun.
CHECK_DEADLOCK FALSE
