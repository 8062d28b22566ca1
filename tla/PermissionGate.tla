---------------------------- MODULE PermissionGate ----------------------------
(***************************************************************************)
(* with_permissions: every executable tool is wrapped in a gate that first *)
(* looks at a session-local allowlist, then asks a synchronous policy, and *)
(* for "ask" awaits an interactive approver.  The calls of one model turn  *)
(* run concurrently and share the allowlist: between the moment a call     *)
(* reads it and the moment its approver answers, other calls go through.   *)
(***************************************************************************)
EXTENDS Integers

CONSTANTS Calls,        \* the tool calls of the session
          Tools,        \* tool names
          Answers       \* decisions the approver gives

ASSUME GateAssumption == Answers \subseteq {"allow", "deny", "ask"}

VARIABLES approver, \* whether an approver is wired
          tool,     \* the tool each call names
          policy,   \* the policy's verdict on each call's tool and input
          pc,       \* where each wrapped execute coroutine is
          always,   \* state->always_allowed
          grants    \* history: who let each call run

vars == <<approver, tool, policy, pc, always, grants>>

Verdicts == {"allow", "deny", "ask"}
PCs      == {"new", "asking", "running", "ran", "denied", "threw"}
Grants   == {"nobody", "allowlist", "policy"} \cup Answers

Init == /\ approver \in BOOLEAN
        /\ tool \in [Calls -> Tools]
        /\ policy \in [Calls -> Verdicts]
        /\ pc = [c \in Calls |-> "new"]
        /\ always = {}
        /\ grants = [c \in Calls |-> "nobody"]

Goes(c, to) == pc' = [pc EXCEPT ![c] = to]

GrantedBy(c, who) == grants' = [grants EXCEPT ![c] = who]

\* A mistake: with nobody to ask, the call goes through.
JudgedFailsOpen(c) ==
    /\ pc[c] = "new"
    /\ IF policy[c] = "allow" \/ (policy[c] = "ask" /\ ~approver)
       THEN Goes(c, "running") /\ GrantedBy(c, "policy")
       ELSE /\ Goes(c, IF policy[c] = "ask" THEN "asking" ELSE "denied")
            /\ UNCHANGED grants
    /\ UNCHANGED <<approver, tool, policy, always>>

\* The policy has judged a call whose tool is not on the allowlist.
Judged(c) ==
    /\ pc[c] = "new"
    /\ \/ /\ policy[c] = "allow"
          /\ Goes(c, "running")
          /\ GrantedBy(c, "policy")
       \/ /\ \/ policy[c] = "deny"
             \/ policy[c] = "ask" /\ ~approver
          /\ Goes(c, "denied")
          /\ UNCHANGED grants
       \/ /\ policy[c] = "ask"
          /\ approver
          /\ Goes(c, "asking")
          /\ UNCHANGED grants
    /\ UNCHANGED <<approver, tool, policy, always>>

Allowlisted(c) ==
    /\ pc[c] = "new"
    /\ tool[c] \in always
    /\ Goes(c, "running")
    /\ GrantedBy(c, "allowlist")
    /\ UNCHANGED <<approver, tool, policy, always>>

\* A mistake: the allowlist is not looked at.
EnterUnlisted(c) == Judged(c)

\* A call enters its gate and runs to its first suspension: past the
\* allowlist, the policy and the missing approver without a pause.
Enter(c) == \/ Allowlisted(c)
            \/ tool[c] \notin always /\ Judged(c)

\* A mistake: "always" is remembered whatever the decision.
AnswerAlways(c, d, alwaysAllow) ==
    /\ pc[c] = "asking"
    /\ IF d = "deny"
       THEN Goes(c, "denied") /\ UNCHANGED grants
       ELSE Goes(c, "running") /\ GrantedBy(c, d)
    /\ always' = IF alwaysAllow THEN always \cup {tool[c]} ELSE always
    /\ UNCHANGED <<approver, tool, policy>>

\* A mistake: a denial only applies to the allowlist.
AnswerIgnoresDenial(c, d, alwaysAllow) ==
    /\ pc[c] = "asking"
    /\ Goes(c, "running")
    /\ GrantedBy(c, d)
    /\ always' = IF d = "allow" /\ alwaysAllow THEN always \cup {tool[c]} ELSE always
    /\ UNCHANGED <<approver, tool, policy>>

\* The approver answers: the call goes on from where it was suspended.  Only
\* "deny" stops it.
Answer(c, d, alwaysAllow) ==
    /\ pc[c] = "asking"
    /\ IF d = "deny"
       THEN Goes(c, "denied") /\ UNCHANGED grants
       ELSE Goes(c, "running") /\ GrantedBy(c, d)
    /\ always' = IF d = "allow" /\ alwaysAllow THEN always \cup {tool[c]} ELSE always
    /\ UNCHANGED <<approver, tool, policy>>

\* The approver throws: the call fails, the tool does not run.
ApproverThrows(c) == /\ pc[c] = "asking"
                     /\ Goes(c, "threw")
                     /\ UNCHANGED <<approver, tool, policy, always, grants>>

\* The policy throws: so does the call.
PolicyThrows(c) == /\ pc[c] = "new"
                   /\ tool[c] \notin always
                   /\ Goes(c, "threw")
                   /\ UNCHANGED <<approver, tool, policy, always, grants>>

\* The wrapped tool returns or throws.
ToolEnds(c) == /\ pc[c] = "running"
               /\ Goes(c, "ran")
               /\ UNCHANGED <<approver, tool, policy, always, grants>>

AnyAnswer(c) == \E d \in Answers, a \in BOOLEAN : Answer(c, d, a)

Settled(c) == pc[c] \in {"ran", "denied", "threw"}

AllSettled == (\A c \in Calls : Settled(c)) /\ UNCHANGED vars

Next == \/ \E c \in Calls : \/ Enter(c) \/ AnyAnswer(c) \/ ApproverThrows(c)
                            \/ PolicyThrows(c) \/ ToolEnds(c)
        \/ AllSettled

Spec == Init /\ [][Next]_vars

-----------------------------------------------------------------------------
TypeOK == /\ approver \in BOOLEAN
          /\ tool \in [Calls -> Tools]
          /\ policy \in [Calls -> Verdicts]
          /\ pc \in [Calls -> PCs]
          /\ always \subseteq Tools
          /\ grants \in [Calls -> Grants]

Started(c) == pc[c] \in {"running", "ran"}

\* A tool runs only if somebody allowed it: the policy this very call, the
\* approver this very call, or the approver an earlier call of the same tool
\* with "always".
RunsOnlyWhenAllowed == \A c \in Calls : Started(c) =>
    \/ grants[c] = "policy" /\ policy[c] = "allow"
    \/ grants[c] = "allow" /\ policy[c] = "ask"
    \/ /\ grants[c] = "allowlist"
       /\ \E e \in Calls : tool[e] = tool[c] /\ e # c /\ grants[e] = "allow"

\* Only a tool the approver allowed is ever on the allowlist.
AllowlistEarned == \A t \in always :
    \E c \in Calls : tool[c] = t /\ policy[c] = "ask" /\ grants[c] = "allow"

\* Without an approver the gate fails closed: nothing the policy did not
\* allow ever runs, and the allowlist stays empty.
FailsClosed == ~approver => /\ always = {}
                               /\ \A c \in Calls : Started(c) => policy[c] = "allow"

\* A call holds a grant exactly when it got past its gate, and was asking
\* before its approver's grant.
GrantsSound == \A c \in Calls :
    /\ pc[c] \in {"new", "asking", "denied", "threw"} => grants[c] = "nobody"
    /\ Started(c) => grants[c] # "nobody"
    /\ pc[c] = "asking" \/ grants[c] \in Answers => policy[c] = "ask" /\ approver

GateInv == TypeOK /\ GrantsSound /\ AllowlistEarned /\ RunsOnlyWhenAllowed /\ FailsClosed

\* Once a tool is on the allowlist nobody is newly asked about it: "later
\* calls skip the approver", however many calls were waiting when it got there.
AsksUnlisted ==
    \A c \in Calls : pc[c] # "asking" /\ pc'[c] = "asking" => tool[c] \notin always
=============================================================================
