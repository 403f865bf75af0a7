----------------------------- MODULE RoundRobin -----------------------------
(***************************************************************************)
(* What the scheduler promises: the processes stand in a ring, the turn    *)
(* goes from each to the next, and one leaves the ring only after it has   *)
(* returned and when it is not its turn.                                   *)
(***************************************************************************)
EXTENDS Integers, Sequences, SequencesExt

CONSTANTS Procs, Null

VARIABLES ring,      \* the processes in the order of their turns
          turn,      \* whose turn it is; Null before the scheduler starts
          returned   \* processes whose function has returned

vars == <<ring, turn, returned>>

Init == ring = <<>> /\ turn = Null /\ returned = {}

(* Before the start processes join the ring, anywhere. *)
Join(p) ==
  /\ turn = Null
  /\ p \notin ToSet(ring)
  /\ \E i \in 1 .. Len(ring) + 1 : ring' = InsertAt(ring, i, p)
  /\ UNCHANGED <<turn, returned>>

Start ==
  /\ turn = Null /\ ring # <<>>
  /\ turn' = Head(ring)
  /\ UNCHANGED <<ring, returned>>

Pass ==
  /\ \E i \in DOMAIN ring :
       /\ ring[i] = turn
       /\ turn' = ring[(i % Len(ring)) + 1]
  /\ UNCHANGED <<ring, returned>>

Return ==
  /\ turn \in Procs
  /\ returned' = returned \cup {turn}
  /\ UNCHANGED <<ring, turn>>

Leave(p) ==
  /\ p \in returned /\ p # turn
  /\ \E i \in DOMAIN ring : ring[i] = p /\ ring' = RemoveAt(ring, i)
  /\ UNCHANGED <<turn, returned>>

Next ==
  \/ \E p \in Procs : Join(p) \/ Leave(p)
  \/ Start \/ Pass \/ Return

Spec == Init /\ [][Next]_vars

(* The turn keeps going round. *)
FairSpec == Spec /\ WF_vars(Start) /\ WF_vars(Pass)
=============================================================================
