---------------------------- MODULE AccessPolicy ----------------------------
(***************************************************************************)
(* Who may enter a scheduled room, and who sees it in the room list.       *)
(*                                                                         *)
(* The two decisions are taken in different places: POST /api/livekit/token*)
(* evaluates its rule in Go on a row it loaded (livekit_handler.go), GET   *)
(* /api/rooms evaluates another one in SQL (room_service.go).  Both are    *)
(* operators of a room row, a user and the group_members table.            *)
(***************************************************************************)
EXTENDS Naturals

CONSTANTS
  Users,      \* accounts; the username of an account is the identity in its JWT
  Names,      \* the strings an assigned_to list may hold: free text
  Groups,     \* group ids (never 0)
  NoGroup,    \* group_id NULL
  Times       \* what the clock may read, and start_date and end_date be

ASSUME TimesAssumption == Times \subseteq Nat
ASSUME NamesAssumption == Users \subseteq Names
ASSUME NoGroupAssumption == NoGroup \notin Groups

\* What a decision reads of a row of the table rooms.
Row ==
  [start: Times, end: Times, assigned: SUBSET Names, group: Groups \cup {NoGroup}]

\* The table group_members: pairs of a group and a member.
Membership == SUBSET (Groups \X Users)

\* The window check of GenerateToken: neither before the start nor after the end.
WindowOpen(row, time) == row.start <= time /\ time <= row.end

\* A non-empty assigned_to list decides by itself; without a list a room that
\* belongs to no group is open to every account.
AllowedByList(row, u) ==
  \/ u \in row.assigned
  \/ row.assigned = {} /\ row.group = NoGroup

\* Members of the room's group are let in whatever the list says.
IsAllowed(row, u, members) ==
  AllowedByList(row, u) \/ (row.group # NoGroup /\ <<row.group, u>> \in members)

\* A slip in the SQL: the assigned users are forgotten.
ListedWithoutAssigned(row, u, members) ==
  row.group = NoGroup \/ <<row.group, u>> \in members

\* The WHERE clause of ListRooms for a user who is not an administrator.
Listed(row, u, members) ==
  \/ row.group = NoGroup
  \/ <<row.group, u>> \in members
  \/ u \in row.assigned

=============================================================================
