SPECIFICATION Spec
CONSTANTS
  Batch = 3
  Byte = 3
  MaxKernel = 5
  Machines <- MCMachines
INVARIANTS ReadsInOrder Stage2Complete KernelWholeIfOneRead BootsWhereItCan
\* The loader ends in the kernel or halts.
CHECK_DEADLOCK FALSE
