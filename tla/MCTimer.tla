------------------------------ MODULE MCTimer ------------------------------
(***************************************************************************)
(* Timer for TLC: the timer, the keyboard and a device without a handler   *)
(* at each controller, on lines 4 and 12; division by zero and page        *)
(* faults.  A word of the count has three values and wraps twice in eight  *)
(* ticks.                                                                  *)
(***************************************************************************)
EXTENDS Timer
=============================================================================
