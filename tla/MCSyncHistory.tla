---------------------------- MODULE MCSyncHistory ----------------------------
(***************************************************************************)
(* The instance of SyncHistory for TLC.                                    *)
(***************************************************************************)
EXTENDS SyncHistory, MCRecordings
=============================================================================
