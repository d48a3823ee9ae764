------------------------------- MODULE Sessions -------------------------------
(***************************************************************************)
(* Who an administrative request or a kick is made by.                     *)
(*                                                                         *)
(* A JWT says a username and the role its account had at login, and is     *)
(* good for 24 hours whatever becomes of the account.  Usernames are not   *)
(* unique and accounts come and go, yet the middleware takes the user id   *)
(* of a request from the first account of that name, or 0; CreateRoom      *)
(* stores that id and KickParticipant compares it.  The tables are edited  *)
(* by Directory, each request under the JWT it was let in with.            *)
(***************************************************************************)
EXTENDS Directory

CONSTANT TTL      \* the lifetime of a JWT (24 hours)

ASSUME TTLAssumption == TTL \in Nat \ {0}

VARIABLES
  sessions,   \* the JWTs that have not expired
  call,       \* the request in each slot: who makes it
  creator,    \* column created_by_id of rooms
  author,     \* history: the username of the JWT a room was created under
  recent      \* history: how long ago, counted down from TTL, a name was an admin's

sessionVars == <<vars, sessions, call, creator, author, recent>>

Logins == Usernames \cup {Blank}
JWT == [name: Logins, role: Roles, left: 1..TTL]

NoCall == [by |-> "nobody"]

\* jwt: let in by the middleware.  login: Login has read the account.
Call ==
  [by: {"jwt"}, id: UserIds \cup {0}, name: Logins, role: Roles]
    \cup [by: {"login"}, name: Logins, role: Roles]

SessionsTypeOK ==
  /\ sessions \subseteq JWT
  /\ call \in [Slots -> Call \cup {NoCall}]
  /\ creator \in [RoomIds -> UserIds \cup {0}]
  /\ author \in [RoomIds -> Logins]
  /\ recent \in [Logins -> 0..TTL]

\* An account of that name is an admin's, or a login has just read that it is.
Vouched(name) ==
  \/ \E u \in UserIds: Named(u, name) /\ users[u].role = "admin"
  \/ \E s \in Slots: call[s].by = "login" /\ call[s].name = name /\ call[s].role = "admin"

\* A name keeps what is left of its time, less what has passed.
Remember(passed) ==
  recent' = [n \in Logins |->
    IF Vouched(n)' THEN TTL ELSE IF recent[n] > passed THEN recent[n] - passed ELSE 0]

SessionsInit ==
  /\ Init
  /\ sessions = {}
  /\ call = [s \in Slots |-> NoCall]
  /\ creator = [r \in RoomIds |-> 0]
  /\ author = [r \in RoomIds |-> Blank]
  /\ recent = [n \in Logins |->
       IF \E u \in UserIds: Named(u, n) /\ users[u].role = "admin" THEN TTL ELSE 0]

Answer(s) == call' = [call EXCEPT ![s] = NoCall]

-----------------------------------------------------------------------------
(* JWTs *)

\* Login looks up the account and compares the password, which takes a while; an
\* account inserted by its id alone has no password that could match.
LoginRead(s, name) ==
  /\ call[s] = NoCall
  /\ \E u \in UserIds:
       /\ FirstNamed(u, name)
       /\ users[u].password
       /\ call' = [call EXCEPT ![s] = [by |-> "login", name |-> name, role |-> users[u].role]]
  /\ UNCHANGED <<vars, sessions, creator, author>>

\* It signs the role it has read.
LoginSign(s) ==
  /\ call[s].by = "login"
  /\ sessions' = sessions \cup {[name |-> call[s].name, role |-> call[s].role, left |-> TTL]}
  /\ Answer(s)
  /\ UNCHANGED <<vars, creator, author>>

\* A slip: a JWT is good for the hour in which it expires.
TickLate ==
  /\ sessions' = {[j EXCEPT !.left = j.left - 1]: j \in {k \in sessions: k.left > 0}}
  /\ UNCHANGED <<vars, call, creator, author>>

\* A slip: the expiry of a JWT is not looked at.
TickUnexpired ==
  UNCHANGED <<vars, sessions, call, creator, author>>

\* An hour passes; ParseJWT refuses what has expired.
Tick ==
  /\ sessions' = {[j EXCEPT !.left = j.left - 1]: j \in {k \in sessions: k.left > 1}}
  /\ UNCHANGED <<vars, call, creator, author>>

\* JWTAuthMiddleware: username and role from the JWT, the user id from the table.
\* Any error of the look-up, an account that is not found or a database that does
\* not answer, makes it 0, and the request goes on.
Authenticate(s, jwt, id) ==
  /\ call[s] = NoCall
  /\ jwt \in sessions
  /\ \/ id \in UserIds /\ FirstNamed(id, jwt.name)
     \/ id = 0 /\ (Faults \/ \A u \in UserIds: ~Named(u, jwt.name))
  /\ call' = [call EXCEPT ![s] = [by |-> "jwt", id |-> id, name |-> jwt.name, role |-> jwt.role]]
  /\ UNCHANGED <<vars, sessions, creator, author>>

-----------------------------------------------------------------------------
(* Requests *)

\* AdminOnly, then the first statement of the request.  Only CreateRoom puts a row
\* where there was none; it stores the id of the caller.
Edit(s) ==
  /\ call[s].by = "jwt"
  /\ call[s].role = "admin"
  /\ task[s] = Idle
  /\ Administer(s)
  /\ LET created == {r \in RoomIds: rooms[r] = None /\ rooms'[r] # None}
     IN /\ creator' = [r \in RoomIds |-> IF r \in created THEN call[s].id ELSE creator[r]]
        /\ author' = [r \in RoomIds |-> IF r \in created THEN call[s].name ELSE author[r]]
  /\ call' = [call EXCEPT ![s] = IF task'[s] = Idle THEN NoCall ELSE call[s]]
  /\ UNCHANGED sessions

\* A slip: the room that is saved becomes the caller's.
FinishOwns(s) ==
  /\ Continue(s) \/ Abandon(s)
  /\ creator' = [r \in RoomIds |-> IF rooms'[r] # rooms[r] THEN call[s].id ELSE creator[r]]
  /\ Answer(s)
  /\ UNCHANGED <<sessions, author>>

\* Its second statement, or what is in its place.  SaveRoom writes created_by_id as
\* it was read.
Finish(s) ==
  /\ Continue(s) \/ Abandon(s)
  /\ Answer(s)
  /\ UNCHANGED <<sessions, creator, author>>

\* "Only Creator or Admin can kick".
MayKick(c, r) == creator[r] = c.id \/ c.role = "admin"

\* What a kick does is in Admission.
Kick(s, r) ==
  /\ call[s].by = "jwt"
  /\ task[s] = Idle
  /\ rooms[r] # None
  /\ MayKick(call[s], r)
  /\ Answer(s)
  /\ UNCHANGED <<vars, sessions, creator, author>>

\* A password does not match, a request is refused, does nothing here, or is cut off.
EndCall(s) ==
  /\ call[s] # NoCall
  /\ task[s] = Idle
  /\ Answer(s)
  /\ UNCHANGED <<vars, sessions, creator, author>>

\* Anybody may register.
Join(u, name) ==
  /\ Register(u, name)
  /\ UNCHANGED <<sessions, call, creator, author>>

Serve(s) ==
  \/ \E name \in Logins: LoginRead(s, name)
  \/ LoginSign(s)
  \/ \E jwt \in sessions, id \in UserIds \cup {0}: Authenticate(s, jwt, id)
  \/ Edit(s)
  \/ Finish(s)
  \/ \E r \in RoomIds: Kick(s, r)
  \/ EndCall(s)

SessionsNext ==
  \/ Tick /\ Remember(1)
  \/ /\ \/ \E s \in Slots: Serve(s)
        \/ \E u \in UserIds, name \in Logins: Join(u, name)
     /\ Remember(0)

SessionsSpec == SessionsInit /\ [][SessionsNext]_sessionVars

-----------------------------------------------------------------------------
(* Properties *)

\* Taking the admin role away, or deleting the account, works within the lifetime
\* of a JWT: one that says "admin" runs out no later than TTL after its name was
\* last an admin's, even if a login had read the role just before.
AdminRecently ==
  \A j \in sessions: j.role = "admin" => j.left <= recent[j.name]

\* Whoever may kick as the creator of a room that was created with an account holds
\* a JWT for the name the room was created under, although only ids are compared,
\* names are handed on from account to account, and a caller may come without an
\* account or after a look-up that failed; an account may also come back without a
\* name, and then says nothing about one.  A room that was created by such a caller
\* has creator 0: it is left out, for every other such caller passes as its creator.
CreatorKicks ==
  \A s \in Slots, r \in RoomIds:
    /\ call[s].by = "jwt" /\ call[s].role # "admin"
    /\ rooms[r] # None /\ creator[r] # 0
    /\ MayKick(call[s], r)
    => call[s].name = author[r] \/ Blank \in {call[s].name, author[r]}
=============================================================================
