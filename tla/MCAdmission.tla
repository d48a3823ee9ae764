---------------------------- MODULE MCAdmission ----------------------------
(***************************************************************************)
(* Instances of Admission for TLC.                                         *)
(***************************************************************************)
EXTENDS Admission, TLC

CONSTANTS alice, g1, r2

\* Rooms without a group or a list, within their window: nobody is turned away,
\* and the runs are about tokens, presence and webhooks.
PublicRows == {[start |-> 0, end |-> 0, assigned |-> {}, group |-> NoGroup]}

\* Rooms of a group, whose meeting has not begun when the clock starts: the window
\* opens once, and the members come and go.
MemberRows == {[start |-> 1, end |-> 1, assigned |-> {}, group |-> g1]}

Creators == [r \in Rooms |-> alice]

\* What somebody else than LiveKit posts: both kinds of event about one room, so
\* that the other room is left to LiveKit's own.  Nothing, in a run about those.
OneRoomEvents == {h \in Hook: h.room = r2}
NoEvents == {}

SlotSymmetry == Permutations(Requests)

\* A participant who reloads the page: tokens are asked for and used and webhooks
\* arrive, but nobody hangs up, leaves, is removed or is kicked.
ReloadNext ==
  \/ \E q \in Requests: GenerateToken(q)
  \/ \E u \in Users, r \in Rooms: Join(u, r)
  \/ \E h \in hooks: Webhook(h)
  \/ Tick

ReloadSpec == Init /\ [][ReloadNext]_vars
=============================================================================
