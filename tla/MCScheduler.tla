---------------------------- MODULE MCScheduler ----------------------------
(***************************************************************************)
(* Scheduler for TLC.  kernel_main creates main, task2, kalloc_test and    *)
(* idle, of which kalloc_test (pid 2) uses the heap and returns.  Where    *)
(* the properties do not depend on it, a second process returns too.       *)
(***************************************************************************)
EXTENDS Scheduler

KallocTest == 2
Shipped    == {KallocTest}
TwoReturn  == {1, KallocTest}
=============================================================================
