---------------------------- MODULE MCTaskHandshake ----------------------------
(***************************************************************************)
(* Instances of TaskHandshake for TLC.                                     *)
(***************************************************************************)
EXTENDS TaskHandshake
=============================================================================
