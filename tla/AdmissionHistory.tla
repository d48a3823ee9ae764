-------------------------- MODULE AdmissionHistory --------------------------
(***************************************************************************)
(* Admission with a history variable: what happened to the tables and to   *)
(* the clock while a token request carried a row of the table rooms.       *)
(*                                                                         *)
(* GenerateToken loads the row, looks at the clock, asks Redis, and reads  *)
(* group_members last; nothing keeps any of it from changing in between.   *)
(* The history says how far the decision may be from one taken at a single *)
(* instant.                                                                *)
(***************************************************************************)
EXTENDS Admission

VARIABLE trail    \* for each request in progress: [changes, entitled]

hvars == <<vars, trail>>

\* The request is on its way to a decision, and decides on the row it carries.
Deciding(q) == req[q].pc \in {"window", "presence", "authorise"}

\* All that the decision of q depends on: the room and the memberships of the user
\* as they are, and whether the clock is inside the window of the row it carries.
Standing(q) ==
  <<rooms[req[q].room],
    {g \in Groups: <<g, req[q].user>> \in members},
    WindowOpen(req[q].row, now)>>

\* A decision taken now, at one instant, would let u into r.
Entitled(u, r) ==
  rooms[r] # NoRow /\ WindowOpen(rooms[r], now) /\ IsAllowed(rooms[r], u, members)

Blank == [changes |-> 0, entitled |-> FALSE]

\* The standing of a request that has been deciding and still is has changed.
Disturbed(q) == Deciding(q) /\ Deciding(q)' /\ Standing(q)' # Standing(q)

\* changes: how often the standing changed since the row was loaded (2: twice or
\* more).  entitled: some instant of the request would have let the user in.
Follow(q) ==
  LET t == trail[q]
  IN IF req'[q] = Idle
       THEN Blank
       ELSE [changes |-> IF Disturbed(q) /\ t.changes < 2 THEN t.changes + 1 ELSE t.changes,
             entitled |-> t.entitled \/ Entitled(req[q].user, req[q].room)']

HInit == Init /\ trail = [q \in Requests |-> Blank]
HNext == Next /\ trail' = [q \in Requests |-> Follow(q)]
HSpec == HInit /\ [][HNext]_hvars

HTypeOK == trail \in [Requests -> [changes: 0..2, entitled: BOOLEAN]]

\* A token is only signed for a user who was entitled to it at some instant
\* between the load of the row and the access check, although the handler never
\* sees the room, the clock and the memberships at one instant - as long as at most
\* one thing happened in between: an edit of the room, one of the user's
\* memberships, or the clock passing an end of the window that was loaded.
GrantEntitled ==
  \A q \in Requests:
    req[q].pc \in {"online", "respond"} /\ trail[q].changes <= 1 => trail[q].entitled

\* Why it holds before the clock has been looked at: up to one change, a request
\* that finds its window open and its user allowed is one that some instant has
\* justified.
CarriesUnchecked(q) ==
  req[q].pc = "window" =>
    /\ trail[q].changes = 0 => rooms[req[q].room] = req[q].row
    /\ /\ trail[q].changes <= 1
       /\ WindowOpen(req[q].row, now)
       /\ IsAllowed(req[q].row, req[q].user, members)
       => trail[q].entitled

\* And after: the window no longer matters.
CarriesChecked(q) ==
  req[q].pc \in {"presence", "authorise"} =>
    /\ trail[q].changes = 0 => rooms[req[q].room] = req[q].row /\ WindowOpen(req[q].row, now)
    /\ trail[q].changes <= 1 /\ IsAllowed(req[q].row, req[q].user, members) => trail[q].entitled

\* The inductive invariant of the proof.
DecisionJustified ==
  GrantEntitled /\ \A q \in Requests: CarriesUnchecked(q) /\ CarriesChecked(q)
=============================================================================
