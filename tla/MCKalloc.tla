------------------------------ MODULE MCKalloc ------------------------------
(***************************************************************************)
(* Kalloc for TLC.  The header and the minimum have their real size, the   *)
(* page is 96 bytes instead of 4096: up to four blocks of the smallest     *)
(* size, the last of which is cut from a rest of every kind (whole, split, *)
(* an unusable fragment).                                                  *)
(***************************************************************************)
EXTENDS Kalloc

Sizes     == {1, 17, 40, 88}
=============================================================================
