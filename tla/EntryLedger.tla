---------------------------- MODULE EntryLedger ----------------------------
(***************************************************************************)
(* What admission to meetings promises, without tokens, webhooks, times to *)
(* live, failures or steps: a ledger of who was let into which room, one   *)
(* of who was reported to be in which, and two facts the rest of the       *)
(* system sees.  A connection is backed by the first ledger alone; the     *)
(* room a user is shown in is backed by either.                            *)
(***************************************************************************)
CONSTANTS Users, Rooms, Nowhere

VARIABLES
  admitted,    \* pairs of a user and a room: only ever grows
  reported,    \* pairs of a user and a room: only ever grows
  shown,       \* the room the user's presence names, or Nowhere
  connected    \* pairs of a user and a room

ledgerVars == <<admitted, reported, shown, connected>>

LedgerInit ==
  /\ admitted = {} /\ reported = {}
  /\ shown = [u \in Users |-> Nowhere]
  /\ connected = {}

Admit(u, r) ==
  /\ admitted' = admitted \cup {<<u, r>>}
  /\ UNCHANGED <<reported, shown, connected>>

\* Somebody says that u is in r.
Report(u, r) ==
  /\ reported' = reported \cup {<<u, r>>}
  /\ UNCHANGED <<admitted, shown, connected>>

\* A user is shown in a room that a ledger lists.
Show(u, r) ==
  /\ <<u, r>> \in admitted \cup reported
  /\ shown' = [shown EXCEPT ![u] = r]
  /\ UNCHANGED <<admitted, reported, connected>>

\* Any number of users vanish from where they are shown.
Hide ==
  /\ shown' \in [Users -> Rooms \cup {Nowhere}]
  /\ \A u \in Users: shown'[u] \in {shown[u], Nowhere}
  /\ UNCHANGED <<admitted, reported, connected>>

\* A report connects nobody.
Connect(u, r) ==
  /\ <<u, r>> \in admitted
  /\ connected' = connected \cup {<<u, r>>}
  /\ UNCHANGED <<admitted, reported, shown>>

Disconnect ==
  /\ connected' \subseteq connected
  /\ UNCHANGED <<admitted, reported, shown>>

LedgerNext ==
  \/ \E u \in Users, r \in Rooms: Admit(u, r) \/ Report(u, r) \/ Show(u, r) \/ Connect(u, r)
  \/ Hide
  \/ Disconnect

LedgerSpec == LedgerInit /\ [][LedgerNext]_ledgerVars
=============================================================================
