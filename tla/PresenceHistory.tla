--------------------------- MODULE PresenceHistory ---------------------------
(***************************************************************************)
(* Admission with a history variable: how long ago there was a reason to   *)
(* show a user in a room.                                                  *)
(*                                                                         *)
(* A presence key is only as good as its time to live: left webhooks may   *)
(* be late or lost, and the calls that delete a key may fail.  The history *)
(* counts time from the causes of a key and not from the writes to Redis.  *)
(***************************************************************************)
EXTENDS Admission

VARIABLE due    \* the ticks for which a key of u may still name r

pvars == <<vars, due>>

Joining(u, r) == [kind |-> "joined", user |-> u, room |-> r] \in hooks
Marking(u, r) ==
  \E q \in Requests: req[q].pc = "online" /\ req[q].user = u /\ req[q].room = r

\* A webhook that says u has joined r is good for a day, a token request that has
\* passed the access check for two minutes; each counts from when it was last there.
Renewed(u, r) ==
  LET left == IF Tick /\ due[u][r] > 0 THEN due[u][r] - 1 ELSE due[u][r]
  IN IF Joining(u, r)' THEN JoinedTTL
     ELSE IF Marking(u, r)' /\ left < PendingTTL THEN PendingTTL
     ELSE left

PInit == Init /\ due = [u \in Users |-> [r \in Rooms |-> 0]]
PNext == Next /\ due' = [u \in Users |-> [r \in Rooms |-> Renewed(u, r)]]
PSpec == PInit /\ [][PNext]_pvars

PTypeOK == due \in [Users -> [Rooms -> 0..JoinedTTL]]

\* A presence key, and with it the answer 409 to every other room, is gone at most
\* a day after the last webhook that said the user had joined was in flight, and at
\* most two minutes after the last token request for the room if there was no such
\* webhook: whatever webhooks are lost or overtake each other, whatever calls to
\* Redis fail, and however often the user asks for tokens of other rooms.
PresenceDue ==
  \A u \in Users: presence[u] # Offline => presence[u].ttl <= due[u][presence[u].room]

\* What makes it inductive: what may still write a key is accounted for.
CausesDue ==
  \A u \in Users, r \in Rooms:
    /\ Joining(u, r) => due[u][r] = JoinedTTL
    /\ Marking(u, r) => due[u][r] >= PendingTTL
=============================================================================
