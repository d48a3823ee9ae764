----------------------------- MODULE SyncHistory -----------------------------
(***************************************************************************)
(* Recordings with a history variable: the playlists that lost their last  *)
(* row of the table while a sync was running.                              *)
(*                                                                         *)
(* SyncFromMinio looks at each object once, at a time of its own, and the  *)
(* table changes all the while.  The history says for which playlists the  *)
(* answer of a sync cannot hold it to account.                             *)
(***************************************************************************)
EXTENDS Recordings

VARIABLE lost    \* for each sync in progress, a set of keys

hvars == <<vars, lost>>

Lost(y) ==
  IF sync[y] = Idle \/ sync'[y] = Idle
    THEN {} ELSE lost[y] \cup {k \in Keys: Exists(k) /\ ~Exists(k)'}

HInit == Init /\ lost = [y \in Syncs |-> {}]
HNext == Next /\ lost' = [y \in Syncs |-> Lost(y)]
HSpec == HInit /\ [][HNext]_hvars

HLiveSpec == HSpec /\ \A y \in Syncs: WF_vars(SyncStep(y))

HTypeOK == lost \in [Syncs -> SUBSET Keys]

\* What a sync reports as done is done: when it ends, every playlist that was below
\* recordings/ when it began is listed in the table, unless its row was deleted
\* meanwhile - although the objects are met in any order, the answer to "does a
\* record exist" is out of date when it is used, and other syncs, stop requests and
\* renames write the table between any two calls.  (Calls that fail are logged and
\* skipped, so with failures a sync promises nothing.)
SyncCovers ==
  [][~Faults => \A y \in Syncs: sync[y] # Idle /\ sync'[y] = Idle =>
      \A k \in sync[y].due: Exists(k) \/ k \in lost[y]]_hvars

\* Why it holds, state by state: what a sync has seen is listed, or is about to be,
\* or its row was deleted.
SeenCovered(y) ==
  sync[y] # Idle => \A k \in sync[y].seen:
    Exists(k) \/ k \in lost[y] \/ (sync[y].pc = "create" /\ sync[y].key = k)
=============================================================================
