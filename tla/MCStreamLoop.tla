----------------------------- MODULE MCStreamLoop -----------------------------
(***************************************************************************)
(* Instances of StreamLoop for TLC.                                        *)
(***************************************************************************)
EXTENDS StreamLoop
=============================================================================
