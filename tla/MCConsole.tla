----------------------------- MODULE MCConsole -----------------------------
(***************************************************************************)
(* Console for TLC: two rows of three columns, a tab of two columns, two   *)
(* printers, and six characters: enough to scroll more than the whole      *)
(* screen and to wrap a row with a letter and with a tab, one printer      *)
(* alone or two at once.  One cell of the page is behind the screen.       *)
(***************************************************************************)
EXTENDS Console, TLC

Interchangeable == Permutations(Printers)
=============================================================================
