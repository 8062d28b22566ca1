------------------------------- MODULE MCSession -------------------------------
(***************************************************************************)
(* Instances of CodingSession for TLC: a session that may be saved, and    *)
(* one with a memory.                                                      *)
(***************************************************************************)
EXTENDS CodingSession

AllKinds == {"store", "memory"}
TheLeft  == [store |-> 3, memory |-> 2]
TheTurns == 1..MaxOps
=============================================================================
