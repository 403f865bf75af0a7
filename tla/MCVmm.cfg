SPECIFICATION Spec
CONSTANTS
  NFrames = 5
  NPages = 5
  KernelFrame = 1
  KernelPages = 1
  Reserved <- MCReserved
  Vals = {0, 1}
INVARIANTS NoFrameShared NoFrameLost StaleTranslationHarmless
PROPERTY PagesArePrivate
\* The machine halts when the page table is full.
CHECK_DEADLOCK FALSE
