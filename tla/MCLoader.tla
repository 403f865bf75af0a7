------------------------------ MODULE MCLoader ------------------------------
(***************************************************************************)
(* Loader for TLC: extended reads of three sectors, tracks of four sectors *)
(* and two heads, so that loads of up to five sectors need several reads   *)
(* and cross a track and a cylinder, and a disk of twelve sectors or more, *)
(* which the largest images fill.  Three heads are one more than the byte  *)
(* that counts them holds.                                                 *)
(***************************************************************************)
EXTENDS Loader

Disks ==
  [drive : {0, 128}, floppy : BOOLEAN, lba : BOOLEAN, cyls : {2, 3}, heads : {1, 2, 3},
   spt : {4, 5}, stage2 : 1 .. 6, kernel : 1 .. 6, magic2 : BOOLEAN, magicK : BOOLEAN]

MCMachines ==
  {d \in Disks : /\ d.drive = 0 => d.floppy
                 /\ d.magic2 \/ d.magicK
                 /\ 1 + d.stage2 + d.kernel <= d.cyls * d.heads * d.spt}
=============================================================================
