----------------------------- MODULE MCNodeBridge -----------------------------
(***************************************************************************)
(* Instances of NodeBridge for TLC.                                        *)
(***************************************************************************)
EXTENDS NodeBridge

CONSTANTS c1, c2, c3

Three == {"t1", "t2", "t3"}

\* The turns' kinds, the calls, and a bound on the parts.  With an approver, and
\* a policy that asks, unless said otherwise.
Cast(k1, k2, k3, calls, n) ==
    [kind |-> [t \in Three |-> CASE t = "t1" -> k1 [] t = "t2" -> k2 [] t = "t3" -> k3],
     calls |-> calls, overlap |-> TRUE, parts |-> n,
     approver |-> {TRUE}, verdicts |-> {"ask"}]

InTurn(c) == [c EXCEPT !.overlap = FALSE]

Any(c) == [c EXCEPT !.approver = BOOLEAN, !.verdicts = Verdicts]

TheCasts == {InTurn(Any(Cast("none", "none", "none", Calls, 0))),
             Cast("promise", "promise", "none", {c1, c2}, 0),
             InTurn(Cast("promise", "promise", "none", {c1, c2}, 0)),
             InTurn(Any(Cast("promise", "none", "none", {c1, c2}, 0))),
             Cast("stream", "none", "batch", {c1}, 1),
             Cast("none", "session", "none", {c1}, 2),
             Cast("session", "session", "session", {}, 0)}
=============================================================================
