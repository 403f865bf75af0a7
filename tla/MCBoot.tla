------------------------------- MODULE MCBoot -------------------------------
(***************************************************************************)
(* Boot for TLC, in small units: pages of eight bytes, tables of 16        *)
(* entries, so that an address has eleven bits and the identity mapping is *)
(* of 128 bytes.  The kernel is the page at 24 with its four tables behind *)
(* it, the boot loader lies at 5 and 6 with the memory map behind it.  By  *)
(* its length the bitmap fits below the boot loader, between the memory    *)
(* map and the kernel, behind the tables, where the end of low memory may  *)
(* cut it off, behind the screen, where the end of the identity mapping    *)
(* may, or nowhere.  The last usable byte may be the last of all.          *)
(***************************************************************************)
EXTENDS Boot

Region(from, to, u) == [base |-> from, len |-> to - from, usable |-> u]

Low  == {Region(0, a, TRUE) : a \in {69, 78, 79, 97, 98, 104}}
Hole == Region(104, 112, FALSE)   \* the screen
High == {Region(b, c, TRUE) :
           b \in {112, 115},
           c \in {135, 319, 320, 703, 704, 831, 832, 1087, 2040, Word - 1, Word}}
        \cup {Region(150, 152, TRUE), Region(2030, Word - 1, TRUE)}   \* too short for the bitmap

LowMaps == {<<l, Hole, t>> : l \in Low, t \in High}
           \cup {<<Hole, l, t>> : l \in Low, t \in High}
           \cup {<<t, l>> : t \in High, l \in Low}

(* Usable memory behind the first Word bytes, or across their end.         *)
HighMaps == {<<l, Hole, Region(b, Word + 112, TRUE)>> : l \in Low, b \in {Word - 7, Word}}

(* Entries 0 .. k - 1 of the table for core structures hold something. *)
Junk(k) == [x \in 0 .. Entries - 1 |-> IF x < k \/ x = k + 1 THEN PageSize * x ELSE None]
Leftovers == {[x \in 0 .. Entries - 1 |-> None]} \cup {Junk(k) : k \in {0, 1, 12, 16}}
=============================================================================
