---------------------------- MODULE MCRecordings ----------------------------
(***************************************************************************)
(* Instances of Recordings for TLC.                                        *)
(***************************************************************************)
EXTENDS Recordings, TLC

CONSTANT roomKey

DefaultKeys == [r \in Rooms |-> roomKey]

Symmetry == Permutations(Takes) \cup Permutations(Ids) \cup Permutations(Stops)
=============================================================================
