------------------------------ MODULE MCSeeder ------------------------------
(***************************************************************************)
(* Instances of Seeder for TLC.                                            *)
(***************************************************************************)
EXTENDS Seeder, TLC

CONSTANTS amy, bob, team, daily

NoAccounts == [u \in UserIds |-> None]

TwoUsers == <<[name |-> amy, role |-> "user"], [name |-> bob, role |-> "user"]>>
Both == <<amy, bob>>
OneGroup == <<team>>
OneRoom == <<[code |-> daily, name |-> team, linked |-> TRUE]>>

Symmetry == Permutations(RoomIds)

\* A bound on the roles that are given: the program never looks at them.
FewRoles ==
  /\ \A u \in UserIds: users[u] # None => users[u].role # "admin"
  /\ \A s \in Slots: task[s].op = "role" => task[s].row.role # "admin"

\* A bound on the rows of rooms: one at a time, beside one that a request remembers.
FewRooms == \A r, q \in RoomIds: rooms[r] # None /\ rooms[q] # None => r = q
=============================================================================
