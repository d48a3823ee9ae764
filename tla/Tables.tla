------------------------------- MODULE Tables -------------------------------
(***************************************************************************)
(* What the rest of the system may rely on when administrators edit the    *)
(* tables that decide who enters a room: one statement changes one row of  *)
(* rooms, or memberships, and never both.  Admission reads a room and the  *)
(* memberships at two instants; that is only sound against edits like      *)
(* these.  Rows are taken as they come.                                    *)
(***************************************************************************)
CONSTANTS RoomIds, GroupIds, UserIds

VARIABLES
  rooms,      \* a row, or the absence of one, for each id
  members     \* pairs of a group and a user

tableVars == <<rooms, members>>

TablesInit ==
  /\ rooms = [r \in RoomIds |-> rooms[r]]
  /\ members \subseteq GroupIds \X UserIds

\* A room is created, changed or removed.
EditOneRoom(r) ==
  /\ rooms' = [rooms EXCEPT ![r] = rooms'[r]]
  /\ UNCHANGED members

\* A member is added or removed, a user loses every membership, or the members
\* that were loaded with a group are written back.
EditMembers ==
  /\ members' \subseteq GroupIds \X UserIds
  /\ UNCHANGED rooms

TablesNext == (\E r \in RoomIds: EditOneRoom(r)) \/ EditMembers

TablesSpec == TablesInit /\ [][TablesNext]_tableVars
=============================================================================
