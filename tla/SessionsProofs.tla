---------------------------- MODULE SessionsProofs ----------------------------
(***************************************************************************)
(* Proofs about Sessions, for any number of accounts, JWTs, rooms and      *)
(* requests at a time.                                                     *)
(***************************************************************************)
EXTENDS Sessions, DirectoryProofs

USE TTLAssumption

\* What a slot may be answered or given.
LEMMA CallTyped ==
  ASSUME call \in [Slots -> Call \cup {NoCall}], NEW s \in Slots, NEW c \in Call \cup {NoCall},
         call' = [call EXCEPT ![s] = c]
  PROVE  call' \in [Slots -> Call \cup {NoCall}]
  OBVIOUS

LEMMA CallFields ==
  ASSUME SessionsTypeOK, NEW s \in Slots
  PROVE  /\ call[s].by = "jwt" =>
              call[s].id \in UserIds \cup {0} /\ call[s].name \in Logins /\ call[s].role \in Roles
         /\ call[s].by = "login" => call[s].name \in Logins /\ call[s].role \in Roles
<1>1. call[s] \in Call \cup {NoCall}
  BY DEF SessionsTypeOK
<1> QED
  BY <1>1 DEF Call, NoCall

LEMMA RememberTyped ==
  ASSUME SessionsTypeOK, NEW passed \in {0, 1}, Remember(passed)
  PROVE  recent' \in [Logins -> 0..TTL]
<1> SUFFICES ASSUME NEW n \in Logins PROVE recent'[n] \in 0..TTL
  BY DEF Remember
<1>1. recent[n] \in 0..TTL
  BY DEF SessionsTypeOK
<1>2. \/ recent'[n] = TTL
      \/ recent[n] > passed /\ recent'[n] = recent[n] - passed
      \/ recent'[n] = 0
  BY DEF Remember
<1> QED
  BY <1>1, <1>2

-----------------------------------------------------------------------------
(* Each step is one of Directory's, or leaves the tables alone *)

LEMMA DirectoryStep == [SessionsNext]_sessionVars => [Next]_vars
<1> SUFFICES ASSUME [SessionsNext]_sessionVars PROVE [Next]_vars
  OBVIOUS
<1>1. CASE UNCHANGED sessionVars
  BY <1>1 DEF sessionVars
<1>2. CASE Tick
  BY <1>2 DEF Tick
<1>3. ASSUME NEW s \in Slots, Serve(s) PROVE [Next]_vars
  <2>1. CASE Edit(s)
    BY <2>1 DEF Edit, Next
  <2>2. CASE Finish(s)
    BY <2>2 DEF Finish, Next
  <2>3. CASE \/ \E name \in Logins: LoginRead(s, name)
             \/ LoginSign(s)
             \/ \E jwt \in sessions, id \in UserIds \cup {0}: Authenticate(s, jwt, id)
             \/ \E r \in RoomIds: Kick(s, r)
             \/ EndCall(s)
    BY <2>3 DEF LoginRead, LoginSign, Authenticate, Kick, EndCall
  <2> QED
    BY <1>3, <2>1, <2>2, <2>3 DEF Serve
<1>4. ASSUME NEW u \in UserIds, NEW name \in Logins, Join(u, name) PROVE [Next]_vars
  BY <1>4 DEF Join, Next, Logins
<1> QED
  BY <1>1, <1>2, <1>3, <1>4 DEF SessionsNext

\* Requests made under JWTs are requests Directory knows: all that is proved about it
\* holds of them, whoever is let in.
THEOREM SessionsKeepDirectory == SessionsSpec => Spec
<1>1. SessionsInit => Init
  BY DEF SessionsInit
<1> QED
  BY <1>1, DirectoryStep, PTL DEF SessionsSpec, Spec

\* Among it: whoever is let in, an account that nobody remembers stays deleted, nothing
\* refers to a row that is not there, and admission may rely on the tables.
THEOREM SessionsInherit ==
  SessionsSpec => DeletedStaysGone /\ KeepsTables /\ [](NamesKept /\ WindowsOrdered /\ ReferencesHold)
BY SessionsKeepDirectory, DeletedAlwaysGone, DirectoryKeepsTables, AlwaysNamesKept, AlwaysOrdered,
   AlwaysReferences, PTL

-----------------------------------------------------------------------------
(* Type correctness *)

LEMMA ServeTyped ==
  ASSUME TypeOK, SessionsTypeOK, NEW s \in Slots, Serve(s)
  PROVE  /\ sessions' \subseteq JWT
         /\ call' \in [Slots -> Call \cup {NoCall}]
         /\ creator' \in [RoomIds -> UserIds \cup {0}]
         /\ author' \in [RoomIds -> Logins]
<1>1. CASE \E name \in Logins: LoginRead(s, name)
  <2>1. PICK name \in Logins, u \in UserIds:
          /\ Named(u, name)
          /\ call' = [call EXCEPT ![s] = [by |-> "login", name |-> name, role |-> users[u].role]]
          /\ UNCHANGED <<sessions, creator, author>>
    BY <1>1 DEF LoginRead, FirstNamed
  <2>2. users[u].role \in Roles
    BY <2>1 DEF Named, TypeOK, Account
  <2>3. [by |-> "login", name |-> name, role |-> users[u].role] \in Call
    BY <2>2 DEF Call
  <2> QED
    BY <2>1, <2>3, CallTyped DEF SessionsTypeOK
<1>2. CASE LoginSign(s)
  <2>1. [name |-> call[s].name, role |-> call[s].role, left |-> TTL] \in JWT
    BY <1>2, CallFields DEF LoginSign, JWT
  <2> QED
    BY <1>2, <2>1, CallTyped DEF LoginSign, Answer, SessionsTypeOK
<1>3. ASSUME NEW jwt \in sessions, NEW id \in UserIds \cup {0}, Authenticate(s, jwt, id)
      PROVE  /\ UNCHANGED <<sessions, creator, author>>
             /\ call' \in [Slots -> Call \cup {NoCall}]
  <2>1. jwt.name \in Logins /\ jwt.role \in Roles
    BY DEF SessionsTypeOK, JWT
  <2>2. [by |-> "jwt", id |-> id, name |-> jwt.name, role |-> jwt.role] \in Call
    BY <2>1 DEF Call
  <2> QED
    BY <1>3, <2>2, CallTyped DEF Authenticate, SessionsTypeOK
<1>4. CASE Edit(s)
  <2>1. call[s].id \in UserIds \cup {0} /\ call[s].name \in Logins
    BY <1>4, CallFields DEF Edit
  <2>2. creator' \in [RoomIds -> UserIds \cup {0}] /\ author' \in [RoomIds -> Logins]
    BY <1>4, <2>1 DEF Edit, SessionsTypeOK
  <2>3. call' = [call EXCEPT ![s] = NoCall] \/ call' = call
    BY <1>4 DEF Edit, SessionsTypeOK
  <2> QED
    BY <1>4, <2>2, <2>3, CallTyped DEF Edit, SessionsTypeOK
<1>5. CASE Finish(s) \/ EndCall(s) \/ \E r \in RoomIds: Kick(s, r)
  BY <1>5, CallTyped DEF Finish, EndCall, Kick, Answer, SessionsTypeOK
<1> QED
  BY <1>1, <1>2, <1>3, <1>4, <1>5 DEF Serve, SessionsTypeOK

LEMMA SessionsTypeStep ==
  TypeOK /\ SessionsTypeOK /\ [SessionsNext]_sessionVars => SessionsTypeOK'
<1> SUFFICES ASSUME TypeOK, SessionsTypeOK, [SessionsNext]_sessionVars
             PROVE  SessionsTypeOK'
  OBVIOUS
<1>1. CASE UNCHANGED sessionVars
  BY <1>1 DEF sessionVars, SessionsTypeOK
<1>2. CASE Tick /\ Remember(1)
  <2>1. sessions' \subseteq JWT
    <3> SUFFICES ASSUME NEW j \in sessions, j.left > 1
                 PROVE  [j EXCEPT !.left = j.left - 1] \in JWT
      BY <1>2 DEF Tick
    <3>1. j \in JWT
      BY DEF SessionsTypeOK
    <3> QED
      BY <3>1 DEF JWT
  <2> QED
    BY <1>2, <2>1, RememberTyped DEF Tick, SessionsTypeOK
<1>3. ASSUME NEW s \in Slots, Serve(s), Remember(0) PROVE SessionsTypeOK'
  BY <1>3, ServeTyped, RememberTyped DEF SessionsTypeOK
<1>4. ASSUME NEW u \in UserIds, NEW name \in Logins, Join(u, name), Remember(0) PROVE SessionsTypeOK'
  BY <1>4, RememberTyped DEF Join, SessionsTypeOK
<1> QED
  BY <1>1, <1>2, <1>3, <1>4 DEF SessionsNext

LEMMA SessionsInitTyped == SessionsInit => SessionsTypeOK
BY DEF SessionsInit, SessionsTypeOK, Logins

\* JWTs, requests and the creators of rooms are what their types say.
THEOREM SessionsTypeCorrect == SessionsSpec => []SessionsTypeOK
<1>1. SessionsSpec => []TypeOK
  BY SessionsKeepDirectory, DirectoryTypeCorrect
<1> QED
  BY <1>1, SessionsInitTyped, SessionsTypeStep, PTL DEF SessionsSpec

-----------------------------------------------------------------------------
(* How long a JWT may say "admin" *)

\* While a name is an admin's, or a login is about to say so, all its time is left.
VouchedNow == \A n \in Logins: Vouched(n) => recent[n] = TTL

LEMMA VouchedStep ==
  ASSUME NEW passed \in {0, 1}, Remember(passed)
  PROVE  VouchedNow'
<1> SUFFICES ASSUME NEW n \in Logins, Vouched(n)' PROVE recent'[n] = TTL
  BY DEF VouchedNow
<1> QED
  BY DEF Remember

\* No time passes for a name but at a tick.
LEMMA RecentKept ==
  ASSUME SessionsTypeOK, Remember(0), NEW n \in Logins
  PROVE  recent'[n] \in Nat /\ recent'[n] >= recent[n]
<1>1. recent[n] \in 0..TTL
  BY DEF SessionsTypeOK
<1>2. recent'[n] = TTL \/ (recent[n] > 0 /\ recent'[n] = recent[n] - 0) \/ (~(recent[n] > 0) /\ recent'[n] = 0)
  BY DEF Remember
<1> QED
  BY <1>1, <1>2

LEMMA RecentlyStep ==
  SessionsTypeOK /\ VouchedNow /\ AdminRecently /\ [SessionsNext]_sessionVars
    => VouchedNow' /\ AdminRecently'
<1> SUFFICES ASSUME SessionsTypeOK, VouchedNow, AdminRecently, [SessionsNext]_sessionVars
             PROVE  VouchedNow' /\ AdminRecently'
  OBVIOUS
<1>1. CASE UNCHANGED sessionVars
  BY <1>1 DEF sessionVars, vars, VouchedNow, Vouched, Named, AdminRecently
<1>2. CASE Tick /\ Remember(1)
  <2>1. AdminRecently'
    <3> SUFFICES ASSUME NEW j \in sessions, j.left > 1, j.role = "admin"
                 PROVE  j.left - 1 <= recent'[j.name]
      BY <1>2 DEF Tick, AdminRecently, SessionsTypeOK, JWT
    <3>1. j.left \in 1..TTL /\ j.name \in Logins /\ j.left <= recent[j.name]
      BY DEF AdminRecently, SessionsTypeOK, JWT
    <3>2. recent[j.name] \in 0..TTL
      BY <3>1 DEF SessionsTypeOK
    <3>3. recent'[j.name] = TTL \/ (recent[j.name] > 1 /\ recent'[j.name] = recent[j.name] - 1)
      BY <1>2, <3>1, <3>2 DEF Remember
    <3> QED
      BY <3>1, <3>2, <3>3
  <2> QED
    BY <1>2, <2>1, VouchedStep
<1>3. CASE Remember(0) /\ \/ \E s \in Slots: Serve(s)
                          \/ \E u \in UserIds, name \in Logins: Join(u, name)
  <2>1. ASSUME NEW j \in sessions', j.role = "admin" PROVE j.left <= recent'[j.name]
    <3>1. CASE j \in sessions
      <4>1. j.left \in 1..TTL /\ j.name \in Logins /\ j.left <= recent[j.name]
        BY <2>1, <3>1 DEF AdminRecently, SessionsTypeOK, JWT
      <4>2. recent[j.name] \in 0..TTL
        BY <4>1 DEF SessionsTypeOK
      <4> QED
        BY <1>3, <4>1, <4>2, RecentKept
    <3>2. CASE j \notin sessions
      <4>1. PICK s \in Slots: LoginSign(s)
        BY <1>3, <3>2 DEF Serve, LoginRead, Authenticate, Edit, Finish, Kick, EndCall, Join
      <4>2. /\ j = [name |-> call[s].name, role |-> call[s].role, left |-> TTL]
            /\ call[s].by = "login"
        BY <3>2, <4>1 DEF LoginSign
      <4>3. j.name \in Logins
        BY <4>2, CallFields
      <4>4. recent[j.name] = TTL
        BY <2>1, <4>2, <4>3 DEF VouchedNow, Vouched
      <4>5. recent'[j.name] \in 0..TTL
        BY <1>3, <4>3, RememberTyped
      <4> QED
        BY <1>3, <4>2, <4>3, <4>4, <4>5, RecentKept
    <3> QED
      BY <3>1, <3>2
  <2> QED
    BY <1>3, <2>1, VouchedStep DEF AdminRecently
<1> QED
  BY <1>1, <1>2, <1>3 DEF SessionsNext

\* A JWT that says "admin" never outlives by more than its lifetime the last moment
\* at which its name was an admin's, or was read as one by a login.
THEOREM AlwaysAdminRecently == SessionsSpec => []AdminRecently
<1>1. SessionsInit => VouchedNow /\ AdminRecently
  BY DEF SessionsInit, VouchedNow, Vouched, AdminRecently, NoCall
<1> QED
  BY <1>1, SessionsTypeCorrect, RecentlyStep, PTL DEF SessionsSpec

-----------------------------------------------------------------------------
(* Who may kick as the creator *)

\* Behind an id that is not 0 is an account that was given out with the name, or one
\* that has lost its name.
Behind(id, name) == id # 0 => owner[id] # None /\ name \in {owner[id], Blank}

CallsBehind == \A s \in Slots: call[s].by = "jwt" => Behind(call[s].id, call[s].name)

RoomsBehind == \A r \in RoomIds: Behind(creator[r], author[r])

LEMMA BehindKept ==
  ASSUME TypeOK, [Next]_vars, NEW id \in UserIds \cup {0}, NEW name, Behind(id, name)
  PROVE  id # 0 => owner'[id] # None /\ name \in {owner'[id], Blank}
BY OwnerKept DEF Behind

LEMMA BehindStep ==
  TypeOK /\ SessionsTypeOK /\ NamesKept /\ CallsBehind /\ RoomsBehind /\ [SessionsNext]_sessionVars
    => CallsBehind' /\ RoomsBehind'
<1> SUFFICES ASSUME TypeOK, SessionsTypeOK, NamesKept, CallsBehind, RoomsBehind,
                    [SessionsNext]_sessionVars
             PROVE  CallsBehind' /\ RoomsBehind'
  OBVIOUS
<1>1. [Next]_vars
  BY DirectoryStep
<1>2. ASSUME NEW s \in Slots, call'[s].by = "jwt"
      PROVE  Behind(call[s].id, call[s].name)'
  <2>1. CASE call'[s] = call[s]
    BY <1>1, <1>2, <2>1, BehindKept, CallFields DEF CallsBehind, Behind
  <2>2. CASE call'[s] # call[s]
    <3>1. PICK jwt \in sessions, id \in UserIds \cup {0}: Authenticate(s, jwt, id)
      <4>1. PICK z \in Slots: Serve(z)
        BY <2>2 DEF SessionsNext, sessionVars, Tick, Join
      <4>2. z = s
        BY <2>2, <4>1 DEF Serve, LoginRead, LoginSign, Authenticate, Edit, Finish, Kick, EndCall,
          Answer, SessionsTypeOK
      <4>3. CASE \E name \in Logins: LoginRead(s, name)
        BY <1>2, <4>3 DEF LoginRead, SessionsTypeOK
      <4>4. CASE Edit(s)
        BY <1>2, <2>2, <4>4 DEF Edit, SessionsTypeOK, NoCall
      <4>5. CASE LoginSign(s) \/ Finish(s) \/ EndCall(s) \/ \E r \in RoomIds: Kick(s, r)
        BY <1>2, <4>5 DEF LoginSign, Finish, EndCall, Kick, Answer, SessionsTypeOK, NoCall
      <4> QED
        BY <4>1, <4>2, <4>3, <4>4, <4>5 DEF Serve
    <3>2. call'[s].id = id /\ call'[s].name = jwt.name /\ owner' = owner
      BY <3>1 DEF Authenticate, SessionsTypeOK, vars
    <3>3. id # 0 => users[id] # None /\ users[id].name = jwt.name
      BY <3>1 DEF Authenticate, FirstNamed, Named
    <3> QED
      BY <3>2, <3>3 DEF Behind, NamesKept, Owned
  <2> QED
    BY <2>1, <2>2
<1>3. ASSUME NEW r \in RoomIds
      PROVE  Behind(creator[r], author[r])'
  <2>1. creator[r] \in UserIds \cup {0}
    BY DEF SessionsTypeOK
  <2>2. CASE creator'[r] = creator[r] /\ author'[r] = author[r]
    BY <1>1, <2>1, <2>2, BehindKept DEF RoomsBehind, Behind
  <2>3. ASSUME NEW s \in Slots, Edit(s) PROVE Behind(creator[r], author[r])'
    <3>1. CASE creator'[r] = call[s].id /\ author'[r] = call[s].name
      BY <1>1, <2>3, <3>1, BehindKept, CallFields DEF Edit, CallsBehind, Behind
    <3> QED
      BY <2>2, <2>3, <3>1 DEF Edit
  <2> QED
    BY <2>2, <2>3 DEF SessionsNext, sessionVars, Tick, Join, Serve, LoginRead, LoginSign,
      Authenticate, Finish, Kick, EndCall
<1> QED
  BY <1>2, <1>3 DEF CallsBehind, RoomsBehind

\* However names are given up, registered again and given out by administrators, and
\* whatever look-ups fail, nobody passes for the creator of a room under another name
\* than its creator's, where an account is behind the room and has not lost its name.
THEOREM AlwaysCreatorKicks == SessionsSpec => []CreatorKicks
<1>1. SessionsInit => CallsBehind /\ RoomsBehind
  BY DEF SessionsInit, CallsBehind, RoomsBehind, Behind, NoCall
<1>2. SessionsSpec => []TypeOK /\ []NamesKept
  BY SessionsKeepDirectory, DirectoryTypeCorrect, AlwaysNamesKept
<1>3. CallsBehind /\ RoomsBehind => CreatorKicks
  BY DEF CallsBehind, RoomsBehind, Behind, CreatorKicks, MayKick
<1> QED
  BY <1>1, <1>2, <1>3, SessionsTypeCorrect, BehindStep, PTL DEF SessionsSpec
=============================================================================
