------------------------------ MODULE Admission ------------------------------
(***************************************************************************)
(* Admission to meetings: POST /api/livekit/token and what surrounds it.   *)
(*                                                                         *)
(* A token request is answered by one goroutine that talks to Postgres,    *)
(* Redis and Postgres again before it signs a LiveKit token and writes the *)
(* presence key user_presence:<identity>.  Each call is a step of its own, *)
(* so requests of several users, edits of the rooms, the webhooks LiveKit  *)
(* sends and the expiry of Redis keys interleave with it.                  *)
(*                                                                         *)
(* LiveKit is external: of its rooms the model keeps who is connected, and *)
(* the webhooks on their way to POST /livekit/webhook.  That route is      *)
(* public and its handler does not look at who sends an event, so events   *)
(* of other senders arrive there as well.                                  *)
(***************************************************************************)
EXTENDS AccessPolicy

CONSTANTS
  Rooms,        \* room codes: random and never reused, one per room row
  Rows,         \* what CreateRoom and UpdateRoom may store (a subset of Row)
  NoRow,        \* no row has this code (not created yet, or deleted)
  CreatorOf,    \* created_by_id of each room: set by CreateRoom, never changed
  Admins,       \* accounts whose JWT says role admin
  Requests,     \* slots for token requests in progress
  Kicks,        \* slots for kick requests in progress
  PendingTTL,   \* ticks the presence key of a token lives (2 minutes)
  JoinedTTL,    \* ticks the presence key of a joined webhook lives (24 hours)
  Faults,       \* may calls to Redis, Postgres or LiveKit fail, the server crash?
  LossyHooks,   \* may webhooks be lost or delivered twice?
  Posted        \* the events that somebody else than LiveKit may post

ASSUME RowsAssumption == Rows \subseteq Row /\ NoRow \notin Row
ASSUME CreatorAssumption == CreatorOf \in [Rooms -> Users] /\ Admins \subseteq Users
ASSUME TTLAssumption ==
  PendingTTL \in Nat \ {0} /\ JoinedTTL \in Nat \ {0} /\ PendingTTL < JoinedTTL
ASSUME SwitchAssumption == Faults \in BOOLEAN /\ LossyHooks \in BOOLEAN

VARIABLES
  rooms,      \* table rooms, by room code
  members,    \* table group_members
  presence,   \* Redis: the room and time to live under each user's key
  grants,     \* LiveKit tokens that clients hold and that have not expired
  inRoom,     \* LiveKit: who is connected to which room
  hooks,      \* webhooks in flight, in no order
  req,        \* GenerateToken: the requests in progress
  kick,       \* KickParticipant: the requests in progress
  now,        \* the clock of the server
  admitted,   \* history: the users the access check has let into each room
  reported    \* history: who is in which room by the word of another sender

vars ==
  <<rooms, members, presence, grants, inRoom, hooks, req, kick, now, admitted, reported>>

Idle == [pc |-> "idle"]

\* No key: Redis has nothing for the identity, or it has expired.
Offline == [room |-> NoRow, ttl |-> 0]

Presence == [room: Rooms, ttl: 1..JoinedTTL]
Hook == [kind: {"joined", "left"}, user: Users, room: Rooms]
Request ==
  [pc: {"window", "presence", "authorise"}, user: Users, room: Rooms, row: Row]
    \cup [pc: {"online", "respond"}, user: Users, room: Rooms]
Kick == [pc: {"remove", "offline"}, user: Users, room: Rooms]

ASSUME PostedAssumption == Posted \subseteq Hook

TypeOK ==
  /\ rooms \in [Rooms -> Row \cup {NoRow}]
  /\ members \in Membership
  /\ presence \in [Users -> Presence \cup {Offline}]
  /\ grants \subseteq Users \X Rooms
  /\ inRoom \subseteq Users \X Rooms
  /\ hooks \subseteq Hook
  /\ req \in [Requests -> Request \cup {Idle}]
  /\ kick \in [Kicks -> Kick \cup {Idle}]
  /\ now \in Times
  /\ admitted \subseteq Users \X Rooms
  /\ reported \subseteq Users \X Rooms

Init ==
  /\ rooms \in [Rooms -> Rows \cup {NoRow}]
  /\ members \in Membership
  /\ presence = [u \in Users |-> Offline]
  /\ now \in Times
  /\ grants = {} /\ inRoom = {} /\ hooks = {} /\ admitted = {} /\ reported = {}
  /\ req = [q \in Requests |-> Idle]
  /\ kick = [k \in Kicks |-> Idle]

\* SET user_presence:<identity> with a time to live; DEL of the same key.
SetUserOnline(u, r, ttl) ==
  presence' = [presence EXCEPT ![u] = [room |-> r, ttl |-> ttl]]
SetUserOffline(u) == presence' = [presence EXCEPT ![u] = Offline]

-----------------------------------------------------------------------------
(* GenerateToken *)

\* The row is loaded by its code; a missing room ends the request at once.
LoadRoom(q, u, r) ==
  /\ req[q] = Idle
  /\ rooms[r] # NoRow
  /\ req' = [req EXCEPT ![q] =
       [pc |-> "window", user |-> u, room |-> r, row |-> rooms[r]]]
  /\ UNCHANGED <<rooms, members, presence, grants, inRoom, hooks, kick, now, admitted, reported>>

\* A slip: a meeting that is over is not turned away.
CheckWindowStart(q) ==
  /\ req[q].pc = "window"
  /\ \/ req[q].row.start <= now /\ req' = [req EXCEPT ![q].pc = "presence"]
     \/ req[q].row.start > now  /\ req' = [req EXCEPT ![q] = Idle]
  /\ UNCHANGED <<rooms, members, presence, grants, inRoom, hooks, kick, now, admitted, reported>>

\* time.Now() is compared with the window of the row that was loaded; outside of it
\* the request ends with 403.
CheckWindow(q) ==
  /\ req[q].pc = "window"
  /\ \/ WindowOpen(req[q].row, now)  /\ req' = [req EXCEPT ![q].pc = "presence"]
     \/ ~WindowOpen(req[q].row, now) /\ req' = [req EXCEPT ![q] = Idle]
  /\ UNCHANGED <<rooms, members, presence, grants, inRoom, hooks, kick, now, admitted, reported>>

\* A slip: the key is set as soon as the presence check has passed.
CheckPresenceMarks(q) ==
  /\ req[q].pc = "presence"
  /\ \/ /\ presence[req[q].user] = Offline
        /\ SetUserOnline(req[q].user, req[q].room, PendingTTL)
        /\ req' = [req EXCEPT ![q].pc = "authorise"]
     \/ /\ presence[req[q].user] # Offline
        /\ req' = [req EXCEPT ![q] = Idle]
        /\ UNCHANGED presence
  /\ UNCHANGED <<rooms, members, grants, inRoom, hooks, kick, now, admitted, reported>>

\* A slip: being asked about keeps a presence key alive.
CheckPresenceRefreshes(q) ==
  /\ req[q].pc = "presence"
  /\ LET p == presence[req[q].user]
     IN \/ /\ p # Offline /\ p.room # req[q].room
           /\ SetUserOnline(req[q].user, p.room, JoinedTTL)
           /\ req' = [req EXCEPT ![q] = Idle]
        \/ /\ p = Offline \/ p.room = req[q].room
           /\ req' = [req EXCEPT ![q].pc = "authorise"]
           /\ UNCHANGED presence
  /\ UNCHANGED <<rooms, members, grants, inRoom, hooks, kick, now, admitted, reported>>

\* IsUserOnline names another room: the request ends with 409.  Redis failed:
\* it ends with 500.
CheckPresence(q) ==
  /\ req[q].pc = "presence"
  /\ LET u == req[q].user
         elsewhere == presence[u] # Offline /\ presence[u].room # req[q].room
     IN \/ ~elsewhere /\ req' = [req EXCEPT ![q].pc = "authorise"]
        \/ elsewhere  /\ req' = [req EXCEPT ![q] = Idle]
        \/ Faults     /\ req' = [req EXCEPT ![q] = Idle]
  /\ UNCHANGED <<rooms, members, presence, grants, inRoom, hooks, kick, now, admitted, reported>>

\* The access rule on the row read at the start and the members of now; a user
\* who passes gets a signed token, anyone else 403 (500 when a call fails).  A user
\* whose id the middleware failed to look up is nobody's member: one more failure.
Authorise(q) ==
  /\ req[q].pc = "authorise"
  /\ LET u == req[q].user
         r == req[q].room
     IN \/ /\ IsAllowed(req[q].row, u, members)
           /\ req' = [req EXCEPT ![q] = [pc |-> "online", user |-> u, room |-> r]]
           /\ admitted' = admitted \cup {<<u, r>>}
        \/ /\ ~IsAllowed(req[q].row, u, members) \/ Faults
           /\ req' = [req EXCEPT ![q] = Idle]
           /\ UNCHANGED admitted
  /\ UNCHANGED <<rooms, members, presence, grants, inRoom, hooks, kick, now, reported>>

\* A slip: the key of a token lives as long as that of a participant.
MarkOnlineForADay(q) ==
  /\ req[q].pc = "online"
  /\ req' = [req EXCEPT ![q].pc = "respond"]
  /\ \/ SetUserOnline(req[q].user, req[q].room, JoinedTTL)
     \/ Faults /\ UNCHANGED presence
  /\ UNCHANGED <<rooms, members, grants, inRoom, hooks, kick, now, admitted, reported>>

\* The presence key is set for two minutes; a failure of Redis is ignored.
MarkOnline(q) ==
  /\ req[q].pc = "online"
  /\ req' = [req EXCEPT ![q].pc = "respond"]
  /\ \/ SetUserOnline(req[q].user, req[q].room, PendingTTL)
     \/ Faults /\ UNCHANGED presence
  /\ UNCHANGED <<rooms, members, grants, inRoom, hooks, kick, now, admitted, reported>>

\* The token reaches the client, unless the connection is gone.
Respond(q) ==
  /\ req[q].pc = "respond"
  /\ req' = [req EXCEPT ![q] = Idle]
  /\ \/ grants' = grants \cup {<<req[q].user, req[q].room>>}
     \/ Faults /\ UNCHANGED grants
  /\ UNCHANGED <<rooms, members, presence, inRoom, hooks, kick, now, admitted, reported>>

GenerateToken(q) ==
  \/ \E u \in Users, r \in Rooms: LoadRoom(q, u, r)
  \/ CheckWindow(q)
  \/ CheckPresence(q)
  \/ Authorise(q)
  \/ MarkOnline(q)
  \/ Respond(q)

-----------------------------------------------------------------------------
(* LiveKit, its webhooks, and the other handlers of the presence key *)

Hooked(kind, users, r) == {[kind |-> kind, user |-> u, room |-> r]: u \in users}

\* A client connects with a token; a token serves until it expires (2 hours).
Join(u, r) ==
  /\ <<u, r>> \in grants \ inRoom
  /\ inRoom' = inRoom \cup {<<u, r>>}
  /\ hooks' = hooks \cup Hooked("joined", {u}, r)
  /\ UNCHANGED <<rooms, members, presence, grants, req, kick, now, admitted, reported>>

GrantExpires(u, r) ==
  /\ <<u, r>> \in grants
  /\ grants' = grants \ {<<u, r>>}
  /\ UNCHANGED <<rooms, members, presence, inRoom, hooks, req, kick, now, admitted, reported>>

\* The end of a set of connections to r, and the webhooks that report it.
Disconnect(users, r) ==
  /\ inRoom' = inRoom \ (users \X {r})
  /\ hooks' = hooks \cup Hooked("left", users, r)

Present(r) == {u \in Users: <<u, r>> \in inRoom}

\* One participant leaves: hangs up, or an administrator removes them.
RemoveParticipant(u, r) ==
  /\ u \in Present(r)
  /\ Disconnect({u}, r)
  /\ UNCHANGED <<rooms, members, presence, grants, req, kick, now, admitted, reported>>

\* An administrator closes the LiveKit room: everyone in it is disconnected.
DeleteActiveRoom(r) ==
  /\ Present(r) # {}
  /\ Disconnect(Present(r), r)
  /\ UNCHANGED <<rooms, members, presence, grants, req, kick, now, admitted, reported>>

\* A webhook arrives.  A failure of Redis is printed and answered 200, so
\* LiveKit does not send it again; a 200 that is lost makes it send it again.
Webhook(h) ==
  /\ \/ h.kind = "joined" /\ SetUserOnline(h.user, h.room, JoinedTTL)
     \/ h.kind = "left" /\ SetUserOffline(h.user)
     \/ Faults /\ UNCHANGED presence
  /\ \/ hooks' = hooks \ {h}
     \/ LossyHooks /\ UNCHANGED hooks
  /\ UNCHANGED <<rooms, members, grants, inRoom, req, kick, now, admitted, reported>>

\* Somebody else posts an event; the handler takes it like one of LiveKit's.
Post(h) ==
  /\ h \notin hooks
  /\ hooks' = hooks \cup {h}
  /\ reported' = reported \cup {p \in {<<h.user, h.room>>}: h.kind = "joined"}
  /\ UNCHANGED <<rooms, members, presence, grants, inRoom, req, kick, now, admitted>>

LoseHook(h) ==
  /\ LossyHooks
  /\ hooks' = hooks \ {h}
  /\ UNCHANGED <<rooms, members, presence, grants, inRoom, req, kick, now, admitted, reported>>

\* POST /api/livekit/leave: the client says it is gone.
LeaveRoom(u) ==
  /\ SetUserOffline(u)
  /\ UNCHANGED <<rooms, members, grants, inRoom, hooks, req, kick, now, admitted, reported>>

\* A slip: a key lives on at zero.
TickLate ==
  /\ \E u \in Users: presence[u] # Offline
  /\ presence' = [u \in Users |->
       IF presence[u].ttl >= 1 THEN [presence[u] EXCEPT !.ttl = @ - 1] ELSE Offline]
  /\ UNCHANGED <<rooms, members, grants, inRoom, hooks, req, kick, now, admitted, reported>>

\* Redis lets the time to live of every key run down and drops those at zero.
Tick ==
  /\ \E u \in Users: presence[u] # Offline
  /\ presence' = [u \in Users |->
       IF presence[u].ttl > 1 THEN [presence[u] EXCEPT !.ttl = @ - 1] ELSE Offline]
  /\ UNCHANGED <<rooms, members, grants, inRoom, hooks, req, kick, now, admitted, reported>>

Meeting ==
  \/ \E u \in Users, r \in Rooms: Join(u, r) \/ GrantExpires(u, r) \/ RemoveParticipant(u, r)
  \/ \E r \in Rooms: DeleteActiveRoom(r)
  \/ \E h \in hooks: Webhook(h) \/ LoseHook(h)
  \/ \E h \in Posted: Post(h)
  \/ \E u \in Users: LeaveRoom(u)
  \/ Tick

-----------------------------------------------------------------------------
(* KickParticipant *)

\* The room must exist, and the caller must have created it or be an admin.
BeginKick(k, by, u, r) ==
  /\ kick[k] = Idle
  /\ rooms[r] # NoRow
  /\ by = CreatorOf[r] \/ by \in Admins
  /\ kick' = [kick EXCEPT ![k] = [pc |-> "remove", user |-> u, room |-> r]]
  /\ UNCHANGED <<rooms, members, presence, grants, inRoom, hooks, req, now, admitted, reported>>

\* LiveKit refuses to remove someone who is not in the room: 500, and the
\* request ends without touching the presence key.
KickRemove(k) ==
  /\ kick[k].pc = "remove"
  /\ LET u == kick[k].user
         r == kick[k].room
     IN \/ /\ u \in Present(r)
           /\ Disconnect({u}, r)
           /\ kick' = [kick EXCEPT ![k].pc = "offline"]
        \/ /\ u \notin Present(r) \/ Faults
           /\ kick' = [kick EXCEPT ![k] = Idle]
           /\ UNCHANGED <<inRoom, hooks>>
  /\ UNCHANGED <<rooms, members, presence, grants, req, now, admitted, reported>>

\* The presence key is deleted; a failure of Redis is ignored.
KickOffline(k) ==
  /\ kick[k].pc = "offline"
  /\ kick' = [kick EXCEPT ![k] = Idle]
  /\ \/ SetUserOffline(kick[k].user)
     \/ Faults /\ UNCHANGED presence
  /\ UNCHANGED <<rooms, members, grants, inRoom, hooks, req, now, admitted, reported>>

KickParticipant(k) ==
  \/ \E by, u \in Users, r \in Rooms: BeginKick(k, by, u, r)
  \/ KickRemove(k)
  \/ KickOffline(k)

-----------------------------------------------------------------------------
(* What administrators and the clock do to the tables meanwhile *)

\* CreateRoom, UpdateRoom and DeleteRoom, each one statement on the row; the
\* upsert of gorm's Save may also bring back a row that was just deleted.
EditRoom(r, row) ==
  /\ row # rooms[r]
  /\ rooms' = [rooms EXCEPT ![r] = row]
  /\ UNCHANGED <<members, presence, grants, inRoom, hooks, req, kick, now, admitted, reported>>

\* Time passes, up to any moment.
ClockPasses ==
  /\ now' \in {t \in Times: t > now}
  /\ UNCHANGED <<rooms, members, presence, grants, inRoom, hooks, req, kick, admitted, reported>>

\* AddMember and RemoveMember, DeleteUser (every row of a user) and UpdateGroup
\* (writes back the members it loaded): one statement on group_members.
ChangeMembers ==
  /\ members' \in Membership \ {members}
  /\ UNCHANGED <<rooms, presence, grants, inRoom, hooks, req, kick, now, admitted, reported>>

Policy ==
  \/ \E r \in Rooms, row \in Rows \cup {NoRow}: EditRoom(r, row)
  \/ ChangeMembers
  \/ ClockPasses

\* The server dies with the requests in progress; Postgres, Redis, LiveKit and
\* the webhooks in flight are other processes and stay.
Crash ==
  /\ Faults
  /\ req' = [q \in Requests |-> Idle]
  /\ kick' = [k \in Kicks |-> Idle]
  /\ UNCHANGED <<rooms, members, presence, grants, inRoom, hooks, now, admitted, reported>>

Next ==
  \/ \E q \in Requests: GenerateToken(q)
  \/ Meeting
  \/ \E k \in Kicks: KickParticipant(k)
  \/ Policy
  \/ Crash

Spec == Init /\ [][Next]_vars

\* Redis expires keys by itself: time goes on whatever the clients do.
LiveSpec == Spec /\ WF_vars(Tick)

-----------------------------------------------------------------------------
(* Properties *)

\* Whoever the token handler would let into a room sees that room in GET
\* /api/rooms: the Go rule and the SQL rule agree on every state of the tables.
EnterableIsListed ==
  \A u \in Users, r \in Rooms:
    rooms[r] # NoRow /\ IsAllowed(rooms[r], u, members) => Listed(rooms[r], u, members)

\* The presence key of a user only ever names a room whose access check the
\* user has passed, or that a sender other than LiveKit has reported the user in,
\* whichever of the two writers set it, in whatever order tokens, connections,
\* webhooks and crashes come.
PresenceTraced ==
  \A u \in Users:
    presence[u] # Offline => <<u, presence[u].room>> \in admitted \cup reported

\* Tokens and connections go back to an access check alone: whatever is posted to
\* the webhook, nobody comes into a room by it.
GrantsTraced == grants \cup inRoom \subseteq admitted

\* Everything else that a presence key can be written from is traced as well.
HooksTraced ==
  \A h \in hooks: h.kind = "joined" => <<h.user, h.room>> \in admitted \cup reported
RequestsTraced ==
  \A q \in Requests:
    req[q].pc \in {"online", "respond"} => <<req[q].user, req[q].room>> \in admitted

\* The inductive invariant of the proofs.
Traced == PresenceTraced /\ GrantsTraced /\ HooksTraced /\ RequestsTraced

\* A step that may write the name of room r under the key of user u is due.
MayShow(u, r) ==
  \/ \E q \in Requests: req[q].pc = "online" /\ req[q].user = u /\ req[q].room = r
  \/ [kind |-> "joined", user |-> u, room |-> r] \in hooks

\* A presence key does not outlive its cause: once no token request of the user
\* for the room is about to mark it and no joined webhook is in flight, the key
\* stops naming that room, even if every left webhook is lost and the user keeps
\* asking for tokens of other rooms.  Otherwise the 409 would last for ever.
StalePresenceClears ==
  \A u \in Users, r \in Rooms:
    <>[]~MayShow(u, r) => <>[](presence[u] = Offline \/ presence[u].room # r)

\* The ledger this design keeps: presence names the shown room, and LiveKit's
\* participants are the connected ones.
Ledger == INSTANCE EntryLedger WITH
  Nowhere <- NoRow,
  shown <- [u \in Users |-> presence[u].room],
  connected <- inRoom

\* Tokens, webhooks in any order and of any sender, expiry, kicks and crashes
\* implement the ledger: nobody is ever connected to a room without having passed its
\* access check before, nobody is shown in one that neither the check nor a report
\* has put into the ledger, and nobody moves from one to another by any other step.
KeepsLedger == Ledger!LedgerSpec

\* The tables as Directory leaves them: one row of rooms, or memberships, changes at
\* a time.
Edits == INSTANCE Tables WITH RoomIds <- Rooms, GroupIds <- Groups, UserIds <- Users

\* The answer "user is currently in another room": a request that gets past the
\* presence check is not from a user who is connected to another room, once the
\* webhooks about the user have been delivered.
ElsewhereDetected ==
  [][\A q \in Requests:
      req[q].pc = "presence" /\ req'[q].pc = "authorise" =>
        \A r \in Rooms:
          /\ <<req[q].user, r>> \in inRoom
          /\ \A h \in hooks: h.user # req[q].user
          => r = req[q].room]_vars
=============================================================================
