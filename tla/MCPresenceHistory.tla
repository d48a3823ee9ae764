-------------------------- MODULE MCPresenceHistory --------------------------
(***************************************************************************)
(* The instance of PresenceHistory for TLC.                                *)
(***************************************************************************)
EXTENDS PresenceHistory, MCAdmission
=============================================================================
