------------------------------ MODULE Catalogue ------------------------------
(***************************************************************************)
(* What the table of recordings promises to those who list it, without     *)
(* egresses, requests, failures or steps: a catalogue of the playlists in  *)
(* a bucket.  Entries come and go one at a time.  An entry is only made    *)
(* for a playlist that is stored, and leads to it for as long as it is     *)
(* there.                                                                  *)
(***************************************************************************)
CONSTANTS Entries, Playlists, NoEntry

VARIABLES
  stored,     \* the playlists in the bucket
  entry       \* the playlist that each entry leads to, or NoEntry

catalogueVars == <<stored, entry>>

CatalogueInit ==
  /\ stored = {}
  /\ entry = [e \in Entries |-> NoEntry]

\* Nothing that is stored is ever lost.
Store(k) ==
  /\ stored' = stored \cup {k}
  /\ UNCHANGED entry

List(e, k) ==
  /\ entry[e] = NoEntry
  /\ k \in stored
  /\ entry' = [entry EXCEPT ![e] = k]
  /\ UNCHANGED stored

Unlist(e) ==
  /\ entry' = [entry EXCEPT ![e] = NoEntry]
  /\ UNCHANGED stored

CatalogueNext ==
  \/ \E k \in Playlists: Store(k)
  \/ \E e \in Entries: Unlist(e) \/ \E k \in Playlists: List(e, k)

CatalogueSpec == CatalogueInit /\ [][CatalogueNext]_catalogueVars
=============================================================================
