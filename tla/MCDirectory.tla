---------------------------- MODULE MCDirectory ----------------------------
(***************************************************************************)
(* Instances of Directory for TLC.                                         *)
(***************************************************************************)
EXTENDS Directory, TLC

NoAccounts == [u \in UserIds |-> None]

Symmetry == Permutations(Slots) \cup Permutations(RoomIds)

\* A bound on the rows of rooms: one at a time, beside those that requests remember.
FewRooms == \A r, q \in RoomIds: rooms[r] # None /\ rooms[q] # None => r = q
=============================================================================
