--------------------------- MODULE MCContextEviction ---------------------------
(***************************************************************************)
(* Instances of ContextEviction for TLC: every well-formed history up to a *)
(* length, under every window.                                             *)
(***************************************************************************)
EXTENDS ContextEviction, FiniteSets

CONSTANTS c1, c2, MaxLen

MCIds == {c1, c2}

\* One id, or both, in a call or a result; systems and users have none.
MCMessages == [role : {"system", "user", "assistant"}, ids : {{}}]
              \cup [role : {"assistant"}, ids : {{c1}, {c1, c2}}]
              \cup [role : {"tool"}, ids : {{c1}, {c2}, {c1, c2}}]

\* A session only ever puts system messages before all others.
SystemsLead(h) == \A i \in 2..Len(h) : h[i].role = "system" => h[i - 1].role = "system"

MCHistories == {h \in UNION {[1..n -> MCMessages] : n \in 0..MaxLen} :
                    WellPaired(h) /\ SystemsLead(h)}

\* A message costs one unit, a call one more.
MCTokens(h) == Len(h) + Cardinality({i \in 1..Len(h) : h[i].role = "assistant" /\ h[i].ids # {}})

\* From a window smaller than the reserved output to room enough for every history to be below the threshold.
MCWindows == -1..(2 * MaxLen)
=============================================================================
