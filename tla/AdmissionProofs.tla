--------------------------- MODULE AdmissionProofs ---------------------------
(***************************************************************************)
(* Theorems about Admission, for any number of users, rooms, groups and    *)
(* concurrent requests, any times to live, with and without failures.      *)
(***************************************************************************)
EXTENDS Admission, TLAPS

USE NamesAssumption, NoGroupAssumption, RowsAssumption, CreatorAssumption,
    TTLAssumption, SwitchAssumption, TimesAssumption, PostedAssumption

\* Idle slots and absent keys are none of the records a busy slot or a key holds.
LEMMA Distinct ==
  /\ Idle \notin Request /\ Idle \notin Kick
  /\ Offline \notin Presence
BY SMT DEF Idle, Request, Kick, Offline, Presence

\* What a slot of GenerateToken holds, by its program counter.
LEMMA RequestShape ==
  ASSUME NEW x \in Request \cup {Idle}, x.pc # "idle"
  PROVE  /\ x \in Request
         /\ x # Idle
         /\ x.user \in Users /\ x.room \in Rooms
         /\ x.pc \in {"window", "presence", "authorise"} => x.row \in Row
BY SMT DEF Idle, Request

LEMMA KickShape ==
  ASSUME NEW x \in Kick \cup {Idle}, x.pc # "idle"
  PROVE  x \in Kick /\ x.user \in Users /\ x.room \in Rooms
BY SMT DEF Idle, Kick

LEMMA HookedType ==
  ASSUME NEW kind \in {"joined", "left"}, NEW users \in SUBSET Users, NEW r \in Rooms
  PROVE  Hooked(kind, users, r) \subseteq Hook
BY SMT DEF Hooked, Hook

\* Type correctness of one step, one case per action.
LEMMA TypeStep == TypeOK /\ [Next]_vars => TypeOK'
<1> SUFFICES ASSUME TypeOK, [Next]_vars PROVE TypeOK'
  OBVIOUS
<1> USE DEF TypeOK
<1>1. ASSUME NEW q \in Requests, NEW u \in Users, NEW r \in Rooms, LoadRoom(q, u, r)
      PROVE  TypeOK'
  BY <1>1, SMT DEF LoadRoom, Request
<1>2. ASSUME NEW q \in Requests, CheckWindow(q) PROVE TypeOK'
  BY <1>2, RequestShape, SMT DEF CheckWindow, Request
<1>3. ASSUME NEW q \in Requests, CheckPresence(q) PROVE TypeOK'
  BY <1>3, RequestShape, SMT DEF CheckPresence, Request
<1>4. ASSUME NEW q \in Requests, Authorise(q) PROVE TypeOK'
  BY <1>4, RequestShape, SMT DEF Authorise, Request
<1>5. ASSUME NEW q \in Requests, MarkOnline(q) PROVE TypeOK'
  BY <1>5, RequestShape, SMT DEF MarkOnline, Request, SetUserOnline, Presence
<1>6. ASSUME NEW q \in Requests, Respond(q) PROVE TypeOK'
  BY <1>6, RequestShape, SMT DEF Respond
<1>7. ASSUME NEW u \in Users, NEW r \in Rooms,
             Join(u, r) \/ GrantExpires(u, r) \/ RemoveParticipant(u, r)
      PROVE  TypeOK'
  BY <1>7, SMT DEF Join, GrantExpires, RemoveParticipant, Disconnect, Hooked, Hook
<1>8. ASSUME NEW r \in Rooms, DeleteActiveRoom(r) PROVE TypeOK'
  <2>1. Present(r) \in SUBSET Users
    BY DEF Present
  <2>2. Hooked("left", Present(r), r) \subseteq Hook
    BY <2>1, HookedType
  <2>3. inRoom' \subseteq Users \X Rooms
    BY <1>8 DEF DeleteActiveRoom, Disconnect
  <2>4. hooks' \subseteq Hook
    BY <1>8, <2>2 DEF DeleteActiveRoom, Disconnect
  <2> QED
    BY <1>8, <2>3, <2>4 DEF DeleteActiveRoom
<1>9. ASSUME NEW h \in hooks, Webhook(h) \/ LoseHook(h) PROVE TypeOK'
  BY <1>9, SMT DEF Webhook, LoseHook, SetUserOnline, SetUserOffline, Hook, Presence
<1>10. ASSUME NEW h \in Posted, Post(h) PROVE TypeOK'
  <2>1. h \in Hook /\ h.user \in Users /\ h.room \in Rooms
    BY DEF Hook
  <2> QED
    BY <1>10, <2>1 DEF Post
<1>11. ASSUME NEW u \in Users, LeaveRoom(u) PROVE TypeOK'
  BY <1>11, SMT DEF LeaveRoom, SetUserOffline
<1>12. CASE Tick
  BY <1>12, SMT DEF Tick, Presence, Offline
<1>13. ASSUME NEW k \in Kicks, KickParticipant(k) PROVE TypeOK'
  <2>1. ASSUME NEW by \in Users, NEW u \in Users, NEW r \in Rooms, BeginKick(k, by, u, r)
        PROVE  TypeOK'
    BY <2>1, SMT DEF BeginKick, Kick
  <2>2. CASE KickRemove(k)
    BY <2>2, KickShape, SMT DEF KickRemove, Disconnect, Hooked, Hook, Kick
  <2>3. CASE KickOffline(k)
    BY <2>3, KickShape, SMT DEF KickOffline, SetUserOffline
  <2> QED
    BY <1>13, <2>1, <2>2, <2>3 DEF KickParticipant
<1>14. CASE Policy
  <2>1. CASE ClockPasses
    BY <2>1 DEF ClockPasses
  <2>2. ASSUME NEW r \in Rooms, NEW row \in Rows \cup {NoRow}, EditRoom(r, row)
        PROVE  TypeOK'
    BY <2>2, SMT DEF EditRoom
  <2>3. CASE ChangeMembers
    BY <2>3, SMT DEF ChangeMembers, Membership
  <2> QED
    BY <1>14, <2>1, <2>2, <2>3 DEF Policy
<1>15. CASE Crash
  BY <1>15, SMT DEF Crash
<1>16. CASE UNCHANGED vars
  BY <1>16 DEF vars
<1> QED
  BY <1>1, <1>2, <1>3, <1>4, <1>5, <1>6, <1>7, <1>8, <1>9, <1>10, <1>11, <1>12, <1>13, <1>14,
     <1>15, <1>16
     DEF Next, GenerateToken, Meeting

\* Every variable keeps its type, for every value of the constants.
THEOREM TypeCorrect == Spec => []TypeOK
<1>1. Init => TypeOK
  BY SMT DEF Init, TypeOK
<1> QED
  BY <1>1, TypeStep, PTL DEF Spec

-----------------------------------------------------------------------------
(* Presence is traced *)

\* The histories only grow: what is in them stays in them.
LEMMA HistoriesGrow ==
  [Next]_vars => admitted \subseteq admitted' /\ reported \subseteq reported'
BY Zenon DEF Next, vars, GenerateToken, LoadRoom, CheckWindow, CheckPresence, Authorise, MarkOnline, Respond,
   Meeting, Join, GrantExpires, RemoveParticipant, DeleteActiveRoom, Webhook, Post, LoseHook,
   LeaveRoom, Tick, KickParticipant, BeginKick, KickRemove, KickOffline, Policy,
   ClockPasses, EditRoom, ChangeMembers, Crash

\* A part of Traced is disturbed by few actions; the others leave the variables
\* it mentions alone and let the history grow.
LEMMA TracedStep == TypeOK /\ Traced /\ [Next]_vars => Traced'
<1> SUFFICES ASSUME TypeOK, Traced, [Next]_vars PROVE Traced'
  OBVIOUS
<1> USE DEF Traced, PresenceTraced, GrantsTraced, HooksTraced, RequestsTraced
<1>0. admitted \subseteq admitted' /\ reported \subseteq reported'
  BY HistoriesGrow
<1>1. ASSUME NEW q \in Requests, NEW u \in Users, NEW r \in Rooms, LoadRoom(q, u, r)
      PROVE  Traced'
  BY <1>1, SMT DEF LoadRoom, TypeOK
<1>2. ASSUME NEW q \in Requests, CheckWindow(q) PROVE Traced'
  <2>1. ASSUME NEW p \in Requests, req'[p].pc \in {"online", "respond"}
        PROVE  req'[p] = req[p]
    <3>1. CASE req' = [req EXCEPT ![q] = Idle]
      BY <2>1, <3>1 DEF TypeOK, Idle
    <3>2. CASE req' = [req EXCEPT ![q].pc = "presence"]
      BY <2>1, <3>2 DEF TypeOK
    <3> QED
      BY <1>2, <3>1, <3>2 DEF CheckWindow
  <2> QED
    BY <1>2, <2>1 DEF CheckWindow
<1>3. ASSUME NEW q \in Requests, CheckPresence(q) PROVE Traced'
  <2>1. ASSUME NEW p \in Requests, req'[p].pc \in {"online", "respond"}
        PROVE  req'[p] = req[p]
    <3>1. CASE req' = [req EXCEPT ![q] = Idle]
      BY <2>1, <3>1 DEF TypeOK, Idle
    <3>2. CASE req' = [req EXCEPT ![q].pc = "authorise"]
      BY <2>1, <3>2 DEF TypeOK
    <3> QED
      BY <1>3, <3>1, <3>2 DEF CheckPresence
  <2> QED
    BY <1>3, <2>1 DEF CheckPresence
<1>4. ASSUME NEW q \in Requests, Authorise(q) PROVE Traced'
  <2>1. RequestsTraced'
    BY <1>4, <1>0, SMT DEF Authorise, TypeOK, Idle
  <2>2. PresenceTraced' /\ GrantsTraced' /\ HooksTraced'
    BY <1>4, <1>0 DEF Authorise
  <2> QED
    BY <2>1, <2>2
<1>5. ASSUME NEW q \in Requests, MarkOnline(q) PROVE Traced'
  BY <1>5, RequestShape, SMT DEF MarkOnline, SetUserOnline, TypeOK
<1>6. ASSUME NEW q \in Requests, Respond(q) PROVE Traced'
  BY <1>6, SMT DEF Respond, TypeOK, Idle
<1>7. ASSUME NEW u \in Users, NEW r \in Rooms,
             Join(u, r) \/ GrantExpires(u, r) \/ RemoveParticipant(u, r)
      PROVE  Traced'
  <2>1. CASE Join(u, r)
    BY <2>1, SMT DEF Join, Hooked
  <2>2. CASE GrantExpires(u, r)
    BY <2>2 DEF GrantExpires
  <2>3. CASE RemoveParticipant(u, r)
    BY <2>3, SMT DEF RemoveParticipant, Disconnect, Hooked, Present
  <2> QED
    BY <1>7, <2>1, <2>2, <2>3
<1>8. ASSUME NEW r \in Rooms, DeleteActiveRoom(r) PROVE Traced'
  <2>1. \A u \in Present(r): <<u, r>> \in admitted
    BY DEF Present
  <2> QED
    BY <1>8, <2>1, SMT DEF DeleteActiveRoom, Disconnect, Hooked
<1>9. ASSUME NEW h \in hooks, Webhook(h) \/ LoseHook(h) PROVE Traced'
  BY <1>9, SMT DEF Webhook, LoseHook, SetUserOnline, SetUserOffline, TypeOK, Hook
<1>10. ASSUME NEW h \in Posted, Post(h) PROVE Traced'
  <2>1. HooksTraced'
    BY <1>10, <1>0, SMT DEF Post
  <2> QED
    BY <1>10, <1>0, <2>1 DEF Post
<1>11. ASSUME NEW u \in Users, LeaveRoom(u) PROVE Traced'
  BY <1>11, SMT DEF LeaveRoom, SetUserOffline, TypeOK
<1>12. CASE Tick
  <2>1. ASSUME NEW u \in Users, presence'[u] # Offline
        PROVE  presence[u] # Offline /\ presence'[u].room = presence[u].room
    BY <1>12, <2>1, SMT DEF Tick, TypeOK, Offline, Presence
  <2> QED
    BY <1>12, <2>1 DEF Tick
<1>13. ASSUME NEW k \in Kicks, KickParticipant(k) PROVE Traced'
  <2>1. ASSUME NEW by \in Users, NEW u \in Users, NEW r \in Rooms, BeginKick(k, by, u, r)
        PROVE  Traced'
    BY <2>1 DEF BeginKick
  <2>2. CASE KickRemove(k)
    BY <2>2, SMT DEF KickRemove, Disconnect, Hooked, Present
  <2>3. CASE KickOffline(k)
    BY <2>3, SMT DEF KickOffline, SetUserOffline, TypeOK
  <2> QED
    BY <1>13, <2>1, <2>2, <2>3 DEF KickParticipant
<1>14. CASE Policy
  BY <1>14 DEF Policy, ClockPasses, EditRoom, ChangeMembers
<1>15. CASE Crash
  BY <1>15, SMT DEF Crash, Idle
<1>16. CASE UNCHANGED vars
  BY <1>16 DEF vars
<1> QED
  BY <1>1, <1>2, <1>3, <1>4, <1>5, <1>6, <1>7, <1>8, <1>9, <1>10, <1>11, <1>12, <1>13, <1>14,
     <1>15, <1>16
     DEF Next, GenerateToken, Meeting

\* In every behaviour tokens and connections lead back to an access check the user
\* passed, and webhooks in flight and presence keys to such a check or to a report.
THEOREM AlwaysTraced == Spec => []Traced
<1>1. Init => Traced
  BY SMT DEF Init, Traced, PresenceTraced, GrantsTraced, HooksTraced, RequestsTraced, Idle
<1> QED
  BY <1>1, TypeCorrect, TypeStep, TracedStep, PTL DEF Spec

-----------------------------------------------------------------------------
(* Admission implements the ledger *)

\* Writing a traced room under a key shows it; dropping keys hides them.
LEMMA ShowStep ==
  ASSUME TypeOK, NEW u \in Users, NEW r \in Rooms, NEW ttl,
         <<u, r>> \in admitted \cup reported,
         SetUserOnline(u, r, ttl), UNCHANGED <<admitted, reported, inRoom>>
  PROVE  Ledger!Show(u, r)
<1>1. \A v \in Users: presence'[v].room = IF v = u THEN r ELSE presence[v].room
  BY SMT DEF SetUserOnline, TypeOK
<1>2. [v \in Users |-> presence'[v].room] = [[v \in Users |-> presence[v].room] EXCEPT ![u] = r]
  BY <1>1
<1> QED
  BY <1>2 DEF Ledger!Show

LEMMA HideStep ==
  ASSUME TypeOK, TypeOK', UNCHANGED <<admitted, reported, inRoom>>,
         \A v \in Users: presence'[v].room \in {presence[v].room, NoRow}
  PROVE  Ledger!Hide
<1>1. \A v \in Users: presence'[v].room \in Rooms \cup {NoRow}
  BY SMT DEF TypeOK, Presence, Offline
<1>2. [v \in Users |-> presence'[v].room] \in [Users -> Rooms \cup {NoRow}]
  BY <1>1
<1> QED
  BY <1>2 DEF Ledger!Hide

LEMMA OfflineHides ==
  ASSUME TypeOK, TypeOK', UNCHANGED <<admitted, reported, inRoom>>, NEW u \in Users, SetUserOffline(u)
  PROVE  Ledger!Hide
<1>1. \A v \in Users: presence'[v].room \in {presence[v].room, NoRow}
  BY SMT DEF SetUserOffline, TypeOK, Offline
<1> QED
  BY <1>1, HideStep

LEMMA LedgerStep ==
  TypeOK /\ TypeOK' /\ Traced /\ [Next]_vars => [Ledger!LedgerNext]_(Ledger!ledgerVars)
<1> SUFFICES ASSUME TypeOK, TypeOK', Traced, [Next]_vars,
                    ~UNCHANGED <<admitted, reported, presence, inRoom>>
             PROVE  Ledger!LedgerNext
  BY DEF Ledger!ledgerVars
<1> USE DEF Ledger!LedgerNext
<1>1. ASSUME NEW q \in Requests, GenerateToken(q) PROVE Ledger!LedgerNext
  <2>1. CASE Authorise(q)
    <3>1. req[q].user \in Users /\ req[q].room \in Rooms
      BY <2>1, RequestShape DEF Authorise, TypeOK
    <3> QED
      BY <2>1, <3>1 DEF Authorise, Ledger!Admit
  <2>2. CASE MarkOnline(q)
    <3>1. req[q].user \in Users /\ req[q].room \in Rooms
      BY <2>2, RequestShape DEF MarkOnline, TypeOK
    <3>2. <<req[q].user, req[q].room>> \in admitted
      BY <2>2 DEF MarkOnline, Traced, RequestsTraced
    <3> QED
      BY <2>2, <3>1, <3>2, ShowStep DEF MarkOnline
  <2> QED
    BY <1>1, <2>1, <2>2 DEF GenerateToken, LoadRoom, CheckWindow, CheckPresence, Respond
<1>2. ASSUME NEW u \in Users, NEW r \in Rooms,
             Join(u, r) \/ GrantExpires(u, r) \/ RemoveParticipant(u, r)
      PROVE  Ledger!LedgerNext
  <2>1. CASE Join(u, r)
    BY <2>1 DEF Join, Ledger!Connect, Traced, GrantsTraced
  <2>2. CASE RemoveParticipant(u, r)
    BY <2>2 DEF RemoveParticipant, Disconnect, Ledger!Disconnect
  <2> QED
    BY <1>2, <2>1, <2>2 DEF GrantExpires
<1>3. ASSUME NEW r \in Rooms, DeleteActiveRoom(r) PROVE Ledger!LedgerNext
  BY <1>3 DEF DeleteActiveRoom, Disconnect, Ledger!Disconnect
<1>4. ASSUME NEW h \in hooks, Webhook(h) \/ LoseHook(h) PROVE Ledger!LedgerNext
  <2>1. h.user \in Users /\ h.room \in Rooms
    BY DEF TypeOK, Hook
  <2>3. CASE h.kind = "joined" /\ SetUserOnline(h.user, h.room, JoinedTTL)
    <3>1. <<h.user, h.room>> \in admitted \cup reported
      BY <2>3 DEF Traced, HooksTraced
    <3> QED
      BY <1>4, <2>1, <2>3, <3>1, ShowStep DEF Webhook, LoseHook
  <2>4. CASE SetUserOffline(h.user)
    BY <1>4, <2>1, <2>4, OfflineHides DEF Webhook, LoseHook
  <2> QED
    BY <1>4, <2>3, <2>4 DEF Webhook, LoseHook
<1>5. ASSUME NEW h \in Posted, Post(h) PROVE Ledger!LedgerNext
  <2>1. h.user \in Users /\ h.room \in Rooms
    BY DEF Hook
  <2>2. reported' = reported \cup {<<h.user, h.room>>}
    BY <1>5 DEF Post
  <2> QED
    BY <1>5, <2>1, <2>2 DEF Post, Ledger!Report
<1>6. ASSUME NEW u \in Users, LeaveRoom(u) PROVE Ledger!LedgerNext
  BY <1>6, OfflineHides DEF LeaveRoom
<1>7. CASE Tick
  <2>1. \A v \in Users: presence'[v].room \in {presence[v].room, NoRow}
    BY <1>7, SMT DEF Tick, TypeOK, Offline, Presence
  <2> QED
    BY <1>7, <2>1, HideStep DEF Tick
<1>8. ASSUME NEW k \in Kicks, KickParticipant(k) PROVE Ledger!LedgerNext
  <2>1. CASE KickRemove(k)
    BY <2>1 DEF KickRemove, Disconnect, Ledger!Disconnect
  <2>2. CASE KickOffline(k)
    <3>1. kick[k].user \in Users
      BY <2>2, KickShape DEF KickOffline, TypeOK
    <3> QED
      BY <2>2, <3>1, OfflineHides DEF KickOffline
  <2> QED
    BY <1>8, <2>1, <2>2 DEF KickParticipant, BeginKick
<1>9. CASE Policy \/ Crash \/ UNCHANGED vars
  BY <1>9 DEF Policy, ClockPasses, EditRoom, ChangeMembers, Crash, vars
<1> QED
  BY <1>1, <1>2, <1>3, <1>4, <1>5, <1>6, <1>7, <1>8, <1>9 DEF Next, Meeting

\* The refinement: every behaviour of the handlers, of LiveKit and of Redis is a
\* behaviour of the ledger.
THEOREM AdmissionKeepsLedger == Spec => KeepsLedger
<1>1. Init => Ledger!LedgerInit
  BY SMT DEF Init, Ledger!LedgerInit, Offline
<1> QED
  BY <1>1, TypeCorrect, AlwaysTraced, LedgerStep, PTL DEF Spec, KeepsLedger, Ledger!LedgerSpec

-----------------------------------------------------------------------------
(* The two access rules *)

\* What the token handler lets in, the room list shows: for every row, user and
\* membership table.
THEOREM AlwaysListed == Spec => []EnterableIsListed
<1>1. TypeOK => EnterableIsListed
  BY SMT DEF TypeOK, EnterableIsListed, IsAllowed, AllowedByList, Listed
<1> QED
  BY <1>1, TypeCorrect, PTL

-----------------------------------------------------------------------------
(* The tables as an interface *)

\* Admission has been looked at under every edit of the tables that stores a row it
\* knows: what it proves holds beside anything that keeps the tables.
THEOREM PolicyCoversTables ==
  ASSUME TypeOK, Edits!TablesNext, \A r \in Rooms: rooms'[r] \in Rows \cup {NoRow},
         UNCHANGED <<presence, grants, inRoom, hooks, req, kick, now, admitted, reported>>
  PROVE  [Policy]_vars
<1> SUFFICES ASSUME ~UNCHANGED <<rooms, members>> PROVE Policy
  BY DEF vars
<1>1. ASSUME NEW r \in Rooms, Edits!EditOneRoom(r) PROVE EditRoom(r, rooms'[r])
  <2>1. rooms'[r] # rooms[r]
    BY <1>1 DEF Edits!EditOneRoom, TypeOK
  <2> QED
    BY <1>1, <2>1 DEF Edits!EditOneRoom, EditRoom
<1>2. CASE Edits!EditMembers
  <2>1. members' # members
    BY <1>2 DEF Edits!EditMembers
  <2> QED
    BY <1>2, <2>1 DEF Edits!EditMembers, Policy, ChangeMembers, Membership
<1> QED
  BY <1>1, <1>2 DEF Edits!TablesNext, Policy
=============================================================================
