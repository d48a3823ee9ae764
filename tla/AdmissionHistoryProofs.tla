----------------------- MODULE AdmissionHistoryProofs -----------------------
(***************************************************************************)
(* GrantEntitled and PresenceDue, which are about the histories of         *)
(* requests and of keys, for any number of users, rooms, groups and        *)
(* requests and any times to live.                                         *)
(***************************************************************************)
EXTENDS AdmissionHistory, PresenceHistory, AdmissionProofs

USE NoGroupAssumption, RowsAssumption, TimesAssumption, PostedAssumption

\* What a step does to the world the decision is about: nothing, or one of three
\* things.
LEMMA OneCause ==
  [Next]_vars => \/ UNCHANGED <<members, now>>
                 \/ UNCHANGED <<rooms, now>>
                 \/ UNCHANGED <<rooms, members>>
BY Zenon DEF Next, vars, GenerateToken, LoadRoom, CheckWindow, CheckPresence, Authorise, MarkOnline,
   Respond, Meeting, Join, GrantExpires, RemoveParticipant, DeleteActiveRoom, Webhook, Post, LoseHook,
   LeaveRoom, Tick, KickParticipant, BeginKick, KickRemove, KickOffline, Policy,
   ClockPasses, EditRoom, ChangeMembers, Crash

\* The request slot q begins, and loads the room as it is.
Begins(q) ==
  /\ \E u \in Users, r \in Rooms:
       /\ req'[q] = [pc |-> "window", user |-> u, room |-> r, row |-> rooms[r]]
       /\ rooms[r] # NoRow
  /\ UNCHANGED <<rooms, members, now>>

\* The request slot q finds its window open.
Opens(q) ==
  /\ req[q].pc = "window"
  /\ WindowOpen(req[q].row, now)
  /\ req'[q] = [req[q] EXCEPT !.pc = "presence"]
  /\ UNCHANGED <<rooms, members, now>>

\* The request slot q passes the presence check.
Passes(q) ==
  /\ req[q].pc = "presence"
  /\ req'[q] = [req[q] EXCEPT !.pc = "authorise"]
  /\ UNCHANGED <<rooms, members, now>>

\* The request slot q passes the access check.
Signs(q) ==
  /\ req[q].pc = "authorise"
  /\ IsAllowed(req[q].row, req[q].user, members)
  /\ req'[q].pc \in {"online", "respond"}

Marks(q) ==
  /\ req[q].pc \in {"online", "respond"}
  /\ req'[q].pc \in {"online", "respond"}

\* All that a step can do to one slot.
LEMMA SlotStep ==
  ASSUME TypeOK, [Next]_vars, NEW q \in Requests
  PROVE  \/ req'[q] = Idle
         \/ req[q] = Idle /\ Begins(q)
         \/ Opens(q)
         \/ Passes(q)
         \/ Signs(q)
         \/ Marks(q)
         \/ req'[q] = req[q]
<1>0. ASSUME NEW p \in Requests, CheckWindow(p)
      PROVE  req'[q] = Idle \/ Opens(q) \/ req'[q] = req[q]
  BY <1>0 DEF CheckWindow, Opens, TypeOK
<1>1. ASSUME NEW p \in Requests, NEW u \in Users, NEW r \in Rooms, LoadRoom(p, u, r)
      PROVE  (req[q] = Idle /\ Begins(q)) \/ req'[q] = req[q]
  BY <1>1, SMT DEF LoadRoom, Begins, TypeOK
<1>2. ASSUME NEW p \in Requests, CheckPresence(p)
      PROVE  req'[q] = Idle \/ Passes(q) \/ req'[q] = req[q]
  BY <1>2 DEF CheckPresence, Passes, TypeOK
<1>3. ASSUME NEW p \in Requests, Authorise(p)
      PROVE  req'[q] = Idle \/ Signs(q) \/ req'[q] = req[q]
  BY <1>3, SMT DEF Authorise, Signs, TypeOK
<1>4. ASSUME NEW p \in Requests, MarkOnline(p)
      PROVE  Marks(q) \/ req'[q] = req[q]
  <2>1. CASE p # q
    BY <1>4, <2>1 DEF MarkOnline, TypeOK
  <2>2. CASE p = q
    <3>1. req[q] \in [pc: {"online", "respond"}, user: Users, room: Rooms]
      BY <1>4, <2>2, SMT DEF MarkOnline, TypeOK, Request, Idle
    <3> QED
      BY <1>4, <2>2, <3>1, SMT DEF MarkOnline, Marks, TypeOK
  <2> QED
    BY <2>1, <2>2
<1>5. ASSUME NEW p \in Requests, Respond(p)
      PROVE  req'[q] = Idle \/ req'[q] = req[q]
  BY <1>5 DEF Respond, TypeOK
<1>6. CASE Meeting
  BY <1>6, Zenon DEF Meeting, Join, GrantExpires, RemoveParticipant, DeleteActiveRoom,
     Webhook, Post, LoseHook, LeaveRoom, Tick
<1>7. ASSUME NEW k \in Kicks, KickParticipant(k) PROVE req' = req
  BY <1>7, Zenon DEF KickParticipant, BeginKick, KickRemove, KickOffline
<1>8. CASE Policy
  BY <1>8, Zenon DEF Policy, ClockPasses, EditRoom, ChangeMembers
<1>9. CASE Crash
  BY <1>9 DEF Crash
<1>10. CASE UNCHANGED vars
  BY <1>10 DEF vars
<1> QED
  BY <1>0, <1>1, <1>2, <1>3, <1>4, <1>5, <1>6, <1>7, <1>8, <1>9, <1>10 DEF Next, GenerateToken

\* Steps at which the memberships are as they were decide as they did.
LEMMA SameGroupsSameDecision ==
  ASSUME NEW row \in Row, NEW u \in Users,
         \A g \in Groups: <<g, u>> \in members' <=> <<g, u>> \in members
  PROVE  IsAllowed(row, u, members') <=> IsAllowed(row, u, members)
BY SMT DEF IsAllowed, Row

\* What the history does with a slot that stays busy.
LEMMA TrailStep ==
  ASSUME HTypeOK, HNext, NEW q \in Requests, req'[q] # Idle
  PROVE  /\ trail[q].changes \in 0..2 /\ trail[q].entitled \in BOOLEAN
         /\ trail'[q].changes = IF Disturbed(q) /\ trail[q].changes < 2
                                  THEN trail[q].changes + 1 ELSE trail[q].changes
         /\ trail'[q].entitled = (trail[q].entitled \/ Entitled(req[q].user, req[q].room)')
<1>1. trail'[q] = Follow(q)
  BY DEF HNext
<1> QED
  BY <1>1 DEF HTypeOK, Follow

\* A slot that carries a row through a step: what of the standing the step leaves.
LEMMA CarriedStep ==
  ASSUME TypeOK, HTypeOK, HNext, NEW q \in Requests,
         Deciding(q), Deciding(q)', NEW u \in Users, NEW r \in Rooms, NEW row \in Row,
         req[q].user = u, req[q].room = r, req[q].row = row,
         req'[q].user = u, req'[q].room = r, req'[q].row = row
  PROVE  /\ trail'[q].changes \in 0..2 /\ trail[q].changes <= trail'[q].changes
         /\ trail[q].entitled => trail'[q].entitled
         /\ rooms'[r] = row /\ WindowOpen(row, now') /\ IsAllowed(row, u, members')
              => trail'[q].entitled
         /\ trail'[q].changes <= 1 /\ trail'[q].changes = trail[q].changes =>
              /\ rooms'[r] = rooms[r]
              /\ WindowOpen(row, now') <=> WindowOpen(row, now)
              /\ IsAllowed(row, u, members') <=> IsAllowed(row, u, members)
<1>1. req'[q] # Idle
  BY DEF Deciding, Idle
<1>2. row # NoRow
  OBVIOUS
<1>3. rooms'[r] = row /\ WindowOpen(row, now') /\ IsAllowed(row, u, members')
        => Entitled(req[q].user, req[q].room)'
  BY <1>2 DEF Entitled
<1>4. Standing(q) = <<rooms[r], {g \in Groups: <<g, u>> \in members}, WindowOpen(row, now)>>
  BY DEF Standing
<1>5. Standing(q)' = <<rooms'[r], {g \in Groups: <<g, u>> \in members'}, WindowOpen(row, now')>>
  BY DEF Standing
<1>6. ASSUME ~Disturbed(q)
      PROVE  /\ rooms'[r] = rooms[r]
             /\ WindowOpen(row, now') = WindowOpen(row, now)
             /\ \A g \in Groups: <<g, u>> \in members' <=> <<g, u>> \in members
  BY <1>4, <1>5, <1>6 DEF Disturbed
<1>7. ASSUME ~Disturbed(q)
      PROVE  IsAllowed(row, u, members') <=> IsAllowed(row, u, members)
  BY <1>6, <1>7, SameGroupsSameDecision
<1>8. trail'[q].changes <= 1 /\ trail'[q].changes = trail[q].changes => ~Disturbed(q)
  BY <1>1, TrailStep
<1>9. /\ trail'[q].changes \in 0..2 /\ trail[q].changes <= trail'[q].changes
      /\ trail[q].entitled => trail'[q].entitled
  BY <1>1, TrailStep
<1>10. trail'[q].entitled = (trail[q].entitled \/ Entitled(req[q].user, req[q].room)')
  BY <1>1, TrailStep
<1> QED
  BY <1>3, <1>6, <1>7, <1>8, <1>9, <1>10

\* One slot over one step, by what the step does to the slot.
LEMMA SlotJustified ==
  ASSUME TypeOK, TypeOK', HTypeOK, DecisionJustified, HNext, NEW q \in Requests
  PROVE  /\ CarriesUnchecked(q)' /\ CarriesChecked(q)'
         /\ (req[q].pc \in {"online", "respond"} /\ trail[q].changes <= 1 => trail[q].entitled)'
<1>1. CASE req'[q] = Idle
  BY <1>1 DEF Idle, CarriesUnchecked, CarriesChecked
<1>2. CASE req[q] = Idle /\ Begins(q)
  <2>1. PICK u \in Users, r \in Rooms:
          /\ req'[q] = [pc |-> "window", user |-> u, room |-> r, row |-> rooms[r]]
          /\ rooms[r] # NoRow
    BY <1>2 DEF Begins
  <2>2. req'[q] # Idle
    BY <2>1 DEF Idle
  <2>3. UNCHANGED <<rooms, members, now>>
    BY <1>2 DEF Begins
  <2>4. WindowOpen(rooms[r], now) /\ IsAllowed(rooms[r], u, members)
          => trail'[q].entitled
    <3>1. WindowOpen(rooms[r], now) /\ IsAllowed(rooms[r], u, members)
            => Entitled(req[q].user, req[q].room)'
      BY <2>1, <2>3 DEF Entitled
    <3>2. trail'[q].entitled = (trail[q].entitled \/ Entitled(req[q].user, req[q].room)')
      BY <2>2, TrailStep
    <3> QED
      BY <3>1, <3>2
  <2>5. /\ req'[q].pc = "window" /\ req'[q].user = u
        /\ req'[q].room = r /\ req'[q].row = rooms[r]
    BY <2>1
  <2> QED
    BY <2>3, <2>4, <2>5 DEF CarriesUnchecked, CarriesChecked
<1>3. CASE Opens(q)
  <2>1. /\ req[q].pc = "window" /\ req'[q].pc = "presence"
        /\ req[q].user \in Users /\ req[q].room \in Rooms /\ req[q].row \in Row
        /\ req'[q].user = req[q].user /\ req'[q].room = req[q].room /\ req'[q].row = req[q].row
    BY <1>3, SMT DEF Opens, TypeOK, Request, Idle
  <2>2. UNCHANGED <<rooms, members, now>> /\ WindowOpen(req[q].row, now)
    BY <1>3 DEF Opens
  <2>3. /\ trail[q].changes <= trail'[q].changes /\ trail[q].changes \in 0..2
        /\ trail'[q].changes \in 0..2
        /\ trail[q].entitled => trail'[q].entitled
    BY <2>1, CarriedStep DEF Deciding, HTypeOK
  <2>4. CarriesUnchecked(q)
    BY DEF DecisionJustified
  <2> QED
    BY <2>1, <2>2, <2>3, <2>4 DEF CarriesUnchecked, CarriesChecked
<1>4. CASE req'[q] = req[q] /\ req[q].pc = "window"
  <2> DEFINE u == req[q].user
             r == req[q].room
             row == req[q].row
  <2>1. u \in Users /\ r \in Rooms /\ row \in Row
    BY <1>4, SMT DEF TypeOK, Request, Idle
  <2>2. CarriesUnchecked(q)
    BY DEF DecisionJustified
  <2>3. /\ trail'[q].changes \in 0..2 /\ trail[q].changes <= trail'[q].changes
        /\ trail[q].entitled => trail'[q].entitled
        /\ rooms'[r] = row /\ WindowOpen(row, now') /\ IsAllowed(row, u, members')
             => trail'[q].entitled
        /\ trail'[q].changes <= 1 /\ trail'[q].changes = trail[q].changes =>
             /\ rooms'[r] = rooms[r]
             /\ WindowOpen(row, now') <=> WindowOpen(row, now)
             /\ IsAllowed(row, u, members') <=> IsAllowed(row, u, members)
    BY <1>4, <2>1, CarriedStep DEF Deciding
  <2>4. trail[q].changes \in 0..2
    BY DEF HTypeOK
  <2>5. trail'[q].changes = 0 => rooms'[r] = row
    BY <1>4, <2>2, <2>3, <2>4 DEF CarriesUnchecked
  <2>6. ASSUME trail'[q].changes <= 1, WindowOpen(row, now'), IsAllowed(row, u, members')
        PROVE  trail'[q].entitled
    <3>1. CASE trail'[q].changes = trail[q].changes
      BY <1>4, <2>2, <2>3, <2>6, <3>1 DEF CarriesUnchecked
    <3>2. CASE trail'[q].changes # trail[q].changes
      <4>1. trail[q].changes = 0
        BY <2>3, <2>4, <2>6, <3>2
      <4>2. rooms[r] = row
        BY <1>4, <2>2, <4>1 DEF CarriesUnchecked
      <4>3. CASE UNCHANGED rooms
        BY <2>3, <2>6, <4>2, <4>3
      <4>4. CASE UNCHANGED <<members, now>>
        BY <1>4, <2>2, <2>3, <2>6, <4>1, <4>4 DEF CarriesUnchecked
      <4> QED
        BY <4>3, <4>4, OneCause DEF HNext
    <3> QED
      BY <3>1, <3>2
  <2> QED
    BY <1>4, <2>5, <2>6 DEF CarriesUnchecked, CarriesChecked
<1>5. CASE Passes(q) \/ (req'[q] = req[q] /\ req[q].pc \in {"presence", "authorise"})
  <2>1. /\ req[q].pc \in {"presence", "authorise"}
        /\ req'[q].pc \in {"presence", "authorise"}
        /\ req'[q].user = req[q].user /\ req'[q].room = req[q].room /\ req'[q].row = req[q].row
        /\ req[q].user \in Users /\ req[q].room \in Rooms /\ req[q].row \in Row
    BY <1>5, SMT DEF Passes, TypeOK, Request, Idle
  <2> DEFINE u == req[q].user
             r == req[q].room
             row == req[q].row
  <2>2. CarriesChecked(q)
    BY DEF DecisionJustified
  <2>3. /\ trail'[q].changes \in 0..2 /\ trail[q].changes <= trail'[q].changes
        /\ trail[q].entitled => trail'[q].entitled
        /\ rooms'[r] = row /\ WindowOpen(row, now') /\ IsAllowed(row, u, members')
             => trail'[q].entitled
        /\ trail'[q].changes <= 1 /\ trail'[q].changes = trail[q].changes =>
             /\ rooms'[r] = rooms[r]
             /\ WindowOpen(row, now') <=> WindowOpen(row, now)
             /\ IsAllowed(row, u, members') <=> IsAllowed(row, u, members)
    BY <2>1, CarriedStep DEF Deciding
  <2>4. trail[q].changes \in 0..2
    BY DEF HTypeOK
  <2>5. trail'[q].changes = 0 => rooms'[r] = row /\ WindowOpen(row, now')
    BY <2>1, <2>2, <2>3, <2>4 DEF CarriesChecked
  <2>6. ASSUME trail'[q].changes <= 1, IsAllowed(row, u, members')
        PROVE  trail'[q].entitled
    <3>1. CASE trail'[q].changes = trail[q].changes
      BY <2>1, <2>2, <2>3, <2>6, <3>1 DEF CarriesChecked
    <3>2. CASE trail'[q].changes # trail[q].changes
      <4>1. trail[q].changes = 0
        BY <2>3, <2>4, <2>6, <3>2
      <4>2. rooms[r] = row /\ WindowOpen(row, now)
        BY <2>1, <2>2, <4>1 DEF CarriesChecked
      <4>3. CASE UNCHANGED <<rooms, now>>
        BY <2>3, <2>6, <4>2, <4>3
      <4>4. CASE UNCHANGED members
        BY <2>1, <2>2, <2>3, <2>6, <4>1, <4>4 DEF CarriesChecked
      <4> QED
        BY <4>3, <4>4, OneCause DEF HNext
    <3> QED
      BY <3>1, <3>2
  <2> QED
    BY <2>1, <2>5, <2>6 DEF CarriesUnchecked, CarriesChecked
<1>6. CASE Signs(q) \/ Marks(q) \/ (req'[q] = req[q] /\ req[q].pc \in {"online", "respond"})
  <2>1. req'[q].pc \in {"online", "respond"} /\ req'[q] # Idle
    BY <1>6 DEF Signs, Marks, Idle
  <2>2. trail[q].changes <= 1 => trail[q].entitled
    BY <1>6 DEF Signs, Marks, DecisionJustified, GrantEntitled, CarriesChecked
  <2>3. trail[q].changes <= trail'[q].changes /\ (trail[q].entitled => trail'[q].entitled)
        /\ trail[q].changes \in 0..2 /\ trail'[q].changes \in 0..2
    BY <2>1, TrailStep
  <2> QED
    BY <2>1, <2>2, <2>3 DEF CarriesUnchecked, CarriesChecked
<1>7. \/ req'[q] # req[q]
      \/ req'[q] = Idle
      \/ req[q].pc \in {"window", "presence", "authorise", "online", "respond"}
  BY SMT DEF TypeOK, Request, Idle
<1> QED
  BY <1>1, <1>2, <1>3, <1>4, <1>5, <1>6, <1>7, SlotStep DEF HNext

LEMMA HTypeStep == HTypeOK /\ [HNext]_hvars => HTypeOK'
<1> SUFFICES ASSUME HTypeOK, [HNext]_hvars PROVE HTypeOK'
  OBVIOUS
<1>1. CASE HNext
  <2>1. ASSUME NEW q \in Requests PROVE Follow(q) \in [changes: 0..2, entitled: BOOLEAN]
    BY SMT DEF HTypeOK, Follow, Blank
  <2> QED
    BY <1>1, <2>1 DEF HNext, HTypeOK
<1>2. CASE UNCHANGED hvars
  BY <1>2 DEF hvars, HTypeOK
<1> QED
  BY <1>1, <1>2

\* In every behaviour a token is only signed for a user entitled to it at some
\* instant of the request, as long as the standing of the request changed at most once.
THEOREM AlwaysGrantEntitled == HSpec => []GrantEntitled
<1>1. HInit => TypeOK /\ HTypeOK /\ DecisionJustified
  <2>1. HInit => TypeOK
    BY SMT DEF HInit, Init, TypeOK
  <2>2. HInit => HTypeOK
    BY SMT DEF HInit, HTypeOK, Blank
  <2>3. HInit => \A q \in Requests: req[q].pc = "idle"
    BY DEF HInit, Init, Idle
  <2> QED
    BY <2>1, <2>2, <2>3 DEF DecisionJustified, GrantEntitled, CarriesUnchecked, CarriesChecked
<1>2. TypeOK /\ HTypeOK /\ DecisionJustified /\ [HNext]_hvars => (TypeOK /\ HTypeOK /\ DecisionJustified)'
  <2> SUFFICES ASSUME TypeOK, HTypeOK, DecisionJustified, [HNext]_hvars
               PROVE  (TypeOK /\ HTypeOK /\ DecisionJustified)'
    OBVIOUS
  <2>1. TypeOK'
    BY TypeStep DEF HNext, hvars
  <2>2. HTypeOK'
    BY HTypeStep
  <2>3. CASE HNext
    BY <2>1, <2>2, <2>3, SlotJustified DEF DecisionJustified, GrantEntitled
  <2>4. CASE UNCHANGED hvars
    BY <2>1, <2>2, <2>4 DEF hvars, vars, DecisionJustified, GrantEntitled, CarriesUnchecked, CarriesChecked
  <2> QED
    BY <2>1, <2>2, <2>3, <2>4
<1>3. DecisionJustified => GrantEntitled
  BY DEF DecisionJustified
<1> QED
  BY <1>1, <1>2, <1>3, PTL DEF HSpec

-----------------------------------------------------------------------------
(* A key does not outlive its cause *)

\* What the key of a user can become in a step that is not the clock's.
LEMMA KeyStep ==
  ASSUME TypeOK, [Next]_vars, ~Tick, NEW u \in Users
  PROVE  \/ presence'[u] \in {presence[u], Offline}
         \/ \E r \in Rooms: Marking(u, r) /\ presence'[u] = [room |-> r, ttl |-> PendingTTL]
         \/ \E r \in Rooms: Joining(u, r) /\ presence'[u] = [room |-> r, ttl |-> JoinedTTL]
<1>1. ASSUME NEW v \in Users, SetUserOffline(v) PROVE presence'[u] \in {presence[u], Offline}
  BY <1>1 DEF SetUserOffline, TypeOK
<1>2. ASSUME NEW v, NEW r, NEW ttl, SetUserOnline(v, r, ttl)
      PROVE  presence'[u] = IF v = u THEN [room |-> r, ttl |-> ttl] ELSE presence[u]
  BY <1>2 DEF SetUserOnline, TypeOK
<1>3. ASSUME NEW q \in Requests, MarkOnline(q)
      PROVE  \/ presence'[u] = presence[u]
             \/ \E r \in Rooms: Marking(u, r) /\ presence'[u] = [room |-> r, ttl |-> PendingTTL]
  <2>1. req[q].pc = "online" /\ req[q].room \in Rooms
    BY <1>3, RequestShape DEF MarkOnline, TypeOK
  <2> QED
    BY <1>2, <1>3, <2>1 DEF MarkOnline, Marking
<1>4. ASSUME NEW h \in hooks, Webhook(h)
      PROVE  \/ presence'[u] \in {presence[u], Offline}
             \/ \E r \in Rooms: Joining(u, r) /\ presence'[u] = [room |-> r, ttl |-> JoinedTTL]
  <2>1. h \in Hook
    BY DEF TypeOK
  <2>2. CASE h.kind = "joined" /\ SetUserOnline(h.user, h.room, JoinedTTL)
    <3>1. h = [kind |-> "joined", user |-> h.user, room |-> h.room] /\ h.room \in Rooms
      BY <2>1, <2>2 DEF Hook
    <3> QED
      BY <1>2, <2>2, <3>1 DEF Joining
  <2>3. CASE SetUserOffline(h.user)
    BY <1>1, <2>1, <2>3 DEF Hook
  <2> QED
    BY <1>4, <2>2, <2>3 DEF Webhook
<1>5. ASSUME NEW v \in Users, LeaveRoom(v) PROVE presence'[u] \in {presence[u], Offline}
  BY <1>1, <1>5 DEF LeaveRoom
<1>6. ASSUME NEW k \in Kicks, KickOffline(k) PROVE presence'[u] \in {presence[u], Offline}
  <2>1. kick[k].user \in Users
    BY <1>6, KickShape DEF KickOffline, TypeOK
  <2> QED
    BY <1>1, <1>6, <2>1 DEF KickOffline
<1>7. CASE UNCHANGED presence
  BY <1>7
<1> QED
  BY <1>3, <1>4, <1>5, <1>6, <1>7
     DEF Next, vars, GenerateToken, LoadRoom, CheckWindow, CheckPresence, Authorise, Respond, Meeting, Join,
         GrantExpires, RemoveParticipant, DeleteActiveRoom, Post, LoseHook, KickParticipant, BeginKick,
         KickRemove, Policy, ClockPasses, EditRoom, ChangeMembers, Crash

\* The account of a pair only goes down by the clock, by one.
LEMMA RenewedBounds ==
  ASSUME PTypeOK, NEW u \in Users, NEW r \in Rooms
  PROVE  /\ Renewed(u, r) \in 0..JoinedTTL
         /\ Joining(u, r)' => Renewed(u, r) = JoinedTTL
         /\ Marking(u, r)' => Renewed(u, r) >= PendingTTL
         /\ Renewed(u, r) >= IF Tick THEN due[u][r] - 1 ELSE due[u][r]
<1> DEFINE left == IF Tick /\ due[u][r] > 0 THEN due[u][r] - 1 ELSE due[u][r]
<1>1. due[u][r] \in 0..JoinedTTL
  BY DEF PTypeOK
<1>2. left \in 0..JoinedTTL /\ left >= IF Tick THEN due[u][r] - 1 ELSE due[u][r]
  BY <1>1, TTLAssumption
<1>3. Renewed(u, r) = IF Joining(u, r)' THEN JoinedTTL
                      ELSE IF Marking(u, r)' /\ left < PendingTTL THEN PendingTTL ELSE left
  BY DEF Renewed
<1> HIDE DEF left
<1>4. JoinedTTL >= IF Tick THEN due[u][r] - 1 ELSE due[u][r]
  BY <1>1, TTLAssumption
<1>5. CASE Joining(u, r)'
  BY <1>3, <1>4, <1>5, TTLAssumption
<1>6. CASE ~Joining(u, r)'
  BY <1>1, <1>2, <1>3, <1>6, TTLAssumption
<1> QED
  BY <1>5, <1>6

\* One step of the history.
LEMMA DueStep ==
  ASSUME TypeOK, PTypeOK, CausesDue, PresenceDue, PNext
  PROVE  PTypeOK' /\ CausesDue' /\ PresenceDue'
<1>1. \A u \in Users, r \in Rooms: due'[u][r] = Renewed(u, r)
  BY DEF PNext
<1>2. PTypeOK'
  BY <1>1, RenewedBounds DEF PNext, PTypeOK
<1>3. CausesDue'
  BY <1>1, RenewedBounds DEF CausesDue
<1>4. ASSUME NEW u \in Users, presence'[u] # Offline
      PROVE  presence'[u].ttl <= due'[u][presence'[u].room]
  <2>1. presence[u] # Offline => presence[u] \in Presence
    BY DEF TypeOK
  <2>2. presence[u] \in Presence =>
          /\ presence[u].room \in Rooms /\ presence[u].ttl \in Nat
          /\ due[u][presence[u].room] \in Nat
    BY TTLAssumption DEF Presence, PTypeOK
  <2>3. \A r \in Rooms: due'[u][r] \in Nat /\ due[u][r] \in Nat
    BY <1>2, TTLAssumption DEF PTypeOK
  <2>4. CASE Tick
    <3>1. presence'[u] = IF presence[u].ttl > 1 THEN [presence[u] EXCEPT !.ttl = presence[u].ttl - 1]
                                               ELSE Offline
      BY <2>4 DEF Tick
    <3>2. presence[u] \in Presence /\ presence'[u] = [presence[u] EXCEPT !.ttl = presence[u].ttl - 1]
      BY <1>4, <2>1, <3>1 DEF Offline
    <3>3. presence'[u].room = presence[u].room /\ presence'[u].ttl = presence[u].ttl - 1
      BY <3>2 DEF Presence
    <3>4. presence[u].ttl <= due[u][presence[u].room]
      BY <3>2, Distinct DEF PresenceDue
    <3>5. due'[u][presence[u].room] >= due[u][presence[u].room] - 1
      BY <1>1, <2>2, <2>4, <3>2, RenewedBounds
    <3> QED
      BY <2>2, <2>3, <3>2, <3>3, <3>4, <3>5
  <2>5. CASE ~Tick
    <3>1. \A r \in Rooms: due'[u][r] >= due[u][r]
      BY <1>1, <2>5, RenewedBounds
    <3>2. CASE presence'[u] = presence[u]
      <4>1. presence[u].ttl <= due[u][presence[u].room]
        BY <1>4, <3>2 DEF PresenceDue
      <4> QED
        BY <1>4, <2>1, <2>2, <2>3, <3>1, <3>2, <4>1
    <3>3. ASSUME NEW r \in Rooms, NEW ttl \in Nat, due[u][r] >= ttl,
                 presence'[u] = [room |-> r, ttl |-> ttl]
          PROVE  presence'[u].ttl <= due'[u][presence'[u].room]
      <4>1. due'[u][r] >= ttl
        BY <2>3, <3>1, <3>3
      <4> QED
        BY <2>3, <3>3, <4>1
    <3>4. \A r \in Rooms: /\ Marking(u, r) => due[u][r] >= PendingTTL
                          /\ Joining(u, r) => due[u][r] >= JoinedTTL
      BY <2>3, TTLAssumption DEF CausesDue
    <3> QED
      BY <1>4, <2>5, <3>2, <3>3, <3>4, KeyStep, TTLAssumption DEF PNext
  <2> QED
    BY <2>4, <2>5
<1> QED
  BY <1>2, <1>3, <1>4 DEF PresenceDue

\* In every behaviour a presence key is gone a time to live after its last cause.
THEOREM AlwaysPresenceDue == PSpec => []PresenceDue
<1>1. PInit => TypeOK /\ PTypeOK /\ CausesDue /\ PresenceDue
  <2> SUFFICES ASSUME PInit PROVE TypeOK /\ PTypeOK /\ CausesDue /\ PresenceDue
    OBVIOUS
  <2>1. TypeOK
    BY SMT DEF PInit, Init, TypeOK
  <2>2. PTypeOK
    BY TTLAssumption DEF PInit, PTypeOK
  <2>3. CausesDue
    BY DEF PInit, Init, CausesDue, Joining, Marking, Idle
  <2>4. PresenceDue
    BY DEF PInit, Init, PresenceDue
  <2> QED
    BY <2>1, <2>2, <2>3, <2>4
<1>2. ASSUME TypeOK, PTypeOK, CausesDue, PresenceDue, [PNext]_pvars
      PROVE  (TypeOK /\ PTypeOK /\ CausesDue /\ PresenceDue)'
  <2>1. TypeOK'
    BY <1>2, TypeStep DEF PNext, pvars
  <2>2. CASE PNext
    BY <1>2, <2>1, <2>2, DueStep
  <2>3. CASE UNCHANGED pvars
    BY <1>2, <2>1, <2>3 DEF pvars, vars, PTypeOK, CausesDue, PresenceDue, Joining, Marking
  <2> QED
    BY <1>2, <2>2, <2>3, <2>1
<1> QED
  BY <1>1, <1>2, PTL DEF PSpec
=============================================================================
