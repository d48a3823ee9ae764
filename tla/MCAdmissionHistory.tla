------------------------- MODULE MCAdmissionHistory -------------------------
(***************************************************************************)
(* The instance of AdmissionHistory for TLC.                               *)
(***************************************************************************)
EXTENDS AdmissionHistory

CONSTANTS alice, guest, g1, g2

\* Every kind of row that can turn a user away or let one in: a list that names
\* the user, another name or nobody, a group or none, and one of two windows.
AllRows ==
  {row \in [start: {1, 2}, end: {1, 2}, assigned: {{}, {alice}, {guest}}, group: {NoGroup, g1, g2}]:
     row.start = row.end}

NoEvents == {}

Creators == [r \in Rooms |-> alice]
=============================================================================
