---------------------------- MODULE MCInputQueue ----------------------------
(***************************************************************************)
(* InputQueue for TLC: a ring of four slots with counters modulo eight, so *)
(* that -1 is a multiple of the ring's size minus one, as 255 is of 16.    *)
(* One key code in two tables, pressed and released: four events.          *)
(***************************************************************************)
EXTENDS InputQueue
=============================================================================
