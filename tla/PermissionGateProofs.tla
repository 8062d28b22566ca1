------------------------- MODULE PermissionGateProofs -------------------------
(***************************************************************************)
(* The permission gate for any number of calls and tools, used from C++    *)
(* and behind the Node addon, with an approver that answers allow or deny  *)
(* (an "ask" from the approver itself runs the tool, see                   *)
(* PermissionGate!Answer).                                                 *)
(***************************************************************************)
EXTENDS NodeBridge, SequenceTheorems, TLAPS

LEMMA InitInv == Init => GateInv
  BY GateAssumption
  DEF Init, GateInv, TypeOK, GrantsSound, AllowlistEarned,
         RunsOnlyWhenAllowed, FailsClosed, Started, PCs, Grants, Verdicts

\* A grant, once given, stays: a call is granted only while it has none.
LEMMA OpensInv ==
    ASSUME GateInv, NEW c \in Calls, Allowlisted(c) \/ Judged(c)
    PROVE  GateInv'
<1>1. pc[c] = "new" /\ grants[c] = "nobody" /\ UNCHANGED <<approver, tool, policy, always>>
  BY DEF Allowlisted, Judged, GateInv, GrantsSound
<1>2. PICK to \in {"running", "denied", "asking"}, who \in {"allowlist", "policy", "nobody"} :
         /\ pc' = [pc EXCEPT ![c] = to]
         /\ grants' = [grants EXCEPT ![c] = who]
         /\ \/ to = "running" /\ who = "allowlist" /\ tool[c] \in always
            \/ to = "running" /\ who = "policy" /\ policy[c] = "allow"
            \/ to = "denied" /\ who = "nobody"
            \/ to = "asking" /\ who = "nobody" /\ policy[c] = "ask" /\ approver
  <2>1. grants = [grants EXCEPT ![c] = "nobody"]
    BY <1>1 DEF GateInv, TypeOK
  <2>2. CASE Allowlisted(c)
    BY <2>2 DEF Allowlisted, Goes, GrantedBy
  <2>3. CASE Judged(c) /\ policy[c] = "allow"
    BY <2>3 DEF Judged, Goes, GrantedBy
  <2>4. CASE Judged(c) /\ policy[c] # "allow"
    BY <2>1, <2>4 DEF Judged, Goes, GrantedBy
  <2> QED BY <2>2, <2>3, <2>4
<1>3. TypeOK'
  BY <1>1, <1>2 DEF GateInv, TypeOK, PCs, Grants
<1>4. /\ pc'[c] = to /\ grants'[c] = who
      /\ \A e \in Calls \ {c} : pc'[e] = pc[e] /\ grants'[e] = grants[e]
  BY <1>2 DEF GateInv, TypeOK
<1>5. GrantsSound'
  <2> SUFFICES ASSUME NEW e \in Calls
               PROVE /\ pc'[e] \in {"new", "asking", "denied", "threw"} => grants'[e] = "nobody"
                     /\ pc'[e] \in {"running", "ran"} => grants'[e] # "nobody"
                     /\ pc'[e] = "asking" \/ grants'[e] \in Answers =>
                            policy[e] = "ask" /\ approver
    BY <1>1 DEF GrantsSound, Started
  <2>1. CASE e # c
    BY <2>1, <1>4 DEF GateInv, GrantsSound, Started
  <2>2. CASE e = c
    BY <2>2, <1>2, <1>4, GateAssumption
  <2> QED BY <2>1, <2>2
<1>6. AllowlistEarned'
  <2> SUFFICES ASSUME NEW t \in always
               PROVE \E e \in Calls : tool[e] = t /\ policy[e] = "ask" /\ grants'[e] = "allow"
    BY <1>1 DEF AllowlistEarned
  <2>1. PICK e \in Calls : tool[e] = t /\ policy[e] = "ask" /\ grants[e] = "allow"
    BY DEF GateInv, AllowlistEarned
  <2>2. e # c
    BY <2>1, <1>1
  <2> QED BY <2>1, <2>2, <1>4
<1>7. RunsOnlyWhenAllowed'
  <2> SUFFICES ASSUME NEW e \in Calls, pc'[e] \in {"running", "ran"}
               PROVE \/ grants'[e] = "policy" /\ policy[e] = "allow"
                     \/ grants'[e] = "allow" /\ policy[e] = "ask"
                     \/ /\ grants'[e] = "allowlist"
                        /\ \E d \in Calls : tool[d] = tool[e] /\ d # e /\ grants'[d] = "allow"
    BY <1>1 DEF RunsOnlyWhenAllowed, Started
  <2>1. CASE e # c
    <3>1. pc[e] \in {"running", "ran"} /\ grants'[e] = grants[e]
      BY <2>1, <1>4
    <3>2. CASE grants[e] = "allowlist"
      <4>1. PICK d \in Calls : tool[d] = tool[e] /\ d # e /\ grants[d] = "allow"
        BY <3>1, <3>2 DEF GateInv, RunsOnlyWhenAllowed, Started
      <4>2. d # c
        BY <4>1, <1>1
      <4> QED BY <3>1, <3>2, <4>1, <4>2, <1>4
    <3> QED BY <3>1, <3>2 DEF GateInv, RunsOnlyWhenAllowed, Started
  <2>2. CASE e = c /\ who = "allowlist"
    <3>1. PICK d \in Calls : tool[d] = tool[c] /\ grants[d] = "allow"
      BY <2>2, <1>2 DEF GateInv, AllowlistEarned
    <3>2. d # c
      BY <3>1, <1>1
    <3> QED BY <2>2, <3>1, <3>2, <1>4
  <2>3. CASE e = c /\ who # "allowlist"
    BY <2>3, <1>2, <1>4
  <2> QED BY <2>1, <2>2, <2>3
<1>8. FailsClosed'
  BY <1>1, <1>2, <1>4 DEF GateInv, FailsClosed, Started
<1> QED BY <1>3, <1>5, <1>6, <1>7, <1>8 DEF GateInv

LEMMA AnswerInv ==
    ASSUME "ask" \notin Answers, GateInv, NEW c \in Calls, NEW d \in Answers,
           NEW a \in BOOLEAN, Answer(c, d, a)
    PROVE  GateInv'
<1>1. /\ pc[c] = "asking" /\ grants[c] = "nobody" /\ policy[c] = "ask" /\ approver
      /\ UNCHANGED <<approver, tool, policy>>
      /\ d \in {"allow", "deny"}
  BY GateAssumption DEF Answer, GateInv, GrantsSound
<1>2. always \subseteq always' /\ always' \subseteq Tools
  BY DEF Answer, GateInv, TypeOK
<1>3. /\ pc'[c] = IF d = "deny" THEN "denied" ELSE "running"
      /\ grants'[c] = IF d = "deny" THEN "nobody" ELSE "allow"
      /\ \A e \in Calls \ {c} : pc'[e] = pc[e] /\ grants'[e] = grants[e]
  BY <1>1 DEF Answer, Goes, GrantedBy, GateInv, TypeOK
<1>4. TypeOK'
  BY <1>1, <1>2 DEF Answer, Goes, GrantedBy, GateInv, TypeOK, PCs, Grants
<1>5. \A e \in Calls : grants[e] = "allow" => grants'[e] = "allow"
  BY <1>1, <1>3
<1>6. GrantsSound'
  BY <1>1, <1>3 DEF GateInv, GrantsSound, Started
<1>7. AllowlistEarned'
  BY <1>1, <1>3, <1>5 DEF Answer, GateInv, AllowlistEarned
<1>8. RunsOnlyWhenAllowed'
  BY <1>1, <1>3, <1>5 DEF GateInv, RunsOnlyWhenAllowed, Started
<1>9. FailsClosed'
  BY <1>1 DEF FailsClosed
<1> QED BY <1>4, <1>6, <1>7, <1>8, <1>9 DEF GateInv

\* The rest only moves a call on; none of it lets a call start.
LEMMA OtherInv ==
    ASSUME GateInv, NEW c \in Calls, ApproverThrows(c) \/ PolicyThrows(c) \/ ToolEnds(c)
    PROVE  GateInv'
<1>1. /\ UNCHANGED <<approver, tool, policy, always, grants>>
      /\ \A e \in Calls : \/ pc'[e] = pc[e]
                          \/ pc[e] \in {"new", "asking"} /\ pc'[e] = "threw"
                          \/ pc[e] = "running" /\ pc'[e] = "ran"
      /\ pc' \in [Calls -> PCs]
  <2>1. CASE ApproverThrows(c)
    BY <2>1 DEF ApproverThrows, Goes, GateInv, TypeOK, PCs
  <2>2. CASE PolicyThrows(c)
    BY <2>2 DEF PolicyThrows, Goes, GateInv, TypeOK, PCs
  <2>3. CASE ToolEnds(c)
    BY <2>3 DEF ToolEnds, Goes, GateInv, TypeOK, PCs
  <2> QED BY <2>1, <2>2, <2>3
<1> QED BY <1>1 DEF GateInv, TypeOK, GrantsSound, AllowlistEarned,
                    RunsOnlyWhenAllowed, FailsClosed, Started

LEMMA NextInv == "ask" \notin Answers /\ GateInv /\ [Next]_vars => GateInv'
<1> SUFFICES ASSUME "ask" \notin Answers, GateInv, [Next]_vars PROVE GateInv'
  OBVIOUS
<1>1. CASE UNCHANGED vars
  BY <1>1 DEF vars, GateInv, TypeOK, GrantsSound, AllowlistEarned,
              RunsOnlyWhenAllowed, FailsClosed, Started
<1> QED BY <1>1, OpensInv, AnswerInv, OtherInv DEF Next, Enter, AnyAnswer, AllSettled

\* No tool runs that nobody allowed, nothing is on the allowlist that no
\* approver put there, and without an approver the gate fails closed.
THEOREM GateHolds == ASSUME "ask" \notin Answers PROVE Spec => []GateInv
  BY InitInv, NextInv, PTL DEF Spec

\* A tool runs only when the policy or an approver allowed it.
THEOREM AllowedOnly == ASSUME "ask" \notin Answers PROVE Spec => []RunsOnlyWhenAllowed
<1>1. GateInv => RunsOnlyWhenAllowed
  BY DEF GateInv
<1> QED BY <1>1, GateHolds, PTL

-----------------------------------------------------------------------------
(* Behind the Node addon *)

Requests == [id : Nat, call : Calls, of : Asked]

Events == {"part", "pause", "finish", "error", "resolve", "reject"}

BridgeTypeOK ==
    /\ cast \in Casts
    /\ at \in [Turns -> {"idle", "queued", "running", "gone"}]
    /\ of \in [Calls -> Turns \cup {NoTurn}]
    /\ id \in [Calls -> Nat]
    /\ call_id \in Nat
    /\ said \in [Calls -> Says]
    /\ DOMAIN posted = Channels
    /\ \A ch \in Asked : posted[ch] \in Seq(Requests)
    /\ \A t \in Turns : posted[t] \in Seq(Events)
    /\ promised \subseteq Requests
    /\ heard \in [Turns -> Seq(Events)]
    /\ active \in Turns \cup {NoTurn}
    /\ waits \in [Turns -> Turns \cup {NoTurn}]
    /\ resolved \subseteq Turns
    /\ js \in Turns \cup {NoTurn}

\* Whom a call asks, where it is.
AskedBy(c) == IF pc[c] = "new" THEN "policy" ELSE IF pc[c] = "asking" THEN "approver" ELSE tool[c]

\* A request somebody has yet to answer: the open one of its call.
Live(p) == /\ id[p.call] # 0 /\ p.id = id[p.call] /\ p.of = AskedBy(p.call)
           /\ pending[p.id] = NoAnswer

\* Every request under way is live and in one place; every open one is under
\* way or answered, and an approver's answer is the one it gave last.
RequestInv ==
    /\ DOMAIN pending = {id[c] : c \in {d \in Calls : id[d] # 0}}
    /\ \A c \in Calls : id[c] <= call_id
    /\ \A c, d \in Calls : id[c] = id[d] /\ id[c] # 0 => c = d
    /\ \A p \in promised : Live(p)
    /\ \A ch \in Asked : \A i \in DOMAIN posted[ch] :
          /\ Live(posted[ch][i]) /\ posted[ch][i].of = ch /\ posted[ch][i] \notin promised
          /\ \A j \in DOMAIN posted[ch] : posted[ch][i].id = posted[ch][j].id => i = j
    /\ \A c \in Calls : id[c] # 0 =>
          IF pending[id[c]] = NoAnswer THEN Posted(c) \/ Promised(c)
          ELSE /\ pending[id[c]].call = c
               /\ pc[c] = "asking" => pending[id[c]].says = said[c]

\* What the addon has not begun has not moved; only what asks has a request.
BegunInv ==
    /\ \A c \in Calls : of[c] = NoTurn => id[c] = 0 /\ (~Direct => pc[c] = "new")
    /\ \A c \in Calls : pc[c] = "running" /\ tool[c] \notin JsTools => id[c] = 0
    /\ \A t \in Turns : kind[t] = "none" => at[t] = "idle"
    /\ Direct => \A c \in Calls : of[c] = NoTurn
    /\ js # NoTurn => kind[js] = "batch" /\ at[js] = "running"

ApprovedInv == ~Direct =>
    /\ \A c \in Calls : grants[c] = "allow" => Allows(said[c])
    /\ \A n \in always : \E c \in Calls : tool[c] = n /\ said[c] = "always" /\ grants[c] = "allow"

\* No two turns waited for the same one.
Apart == \A v, w \in Turns : waits[v] = waits[w] /\ waits[v] # NoTurn => v = w

\* The turn that may be busy is the one the next would wait for.
TurnInv ==
    /\ \A t \in Turns : at[t] = "idle" => waits[t] = NoTurn
    /\ \A t \in Turns : at[t] = "queued" => waits[t] # NoTurn /\ kind[t] = "session"
    /\ \A t \in resolved : Ended(Sent(t))
    /\ Apart => /\ \A t \in Turns : Busy(t) => t = active
                /\ \A t \in Turns : at[t] = "queued" => waits[t] = active

BridgeIInv == GateInv /\ BridgeTypeOK /\ RequestInv /\ BegunInv /\ ApprovedInv /\ EndsAreTold /\ TurnInv

-----------------------------------------------------------------------------
(* Frames *)

LEMMA ChannelFacts == /\ Asked \cap Turns = {}
                      /\ Asked \subseteq Channels /\ Turns \subseteq Channels
                      /\ \A ch \in Tools : ch # "policy" /\ ch # "approver"
  BY BridgeAssumption DEF Asked, Channels

\* Requests stay as they are when nothing they stand in changes.
LEMMA RequestFrame ==
    ASSUME RequestInv, UNCHANGED <<pc, tool, id, call_id, pending, promised, said>>,
           \A ch \in Asked : posted'[ch] = posted[ch]
    PROVE  RequestInv'
<1>1. \A p : Live(p)' <=> Live(p)
  BY DEF Live, AskedBy
<1>2. \A c \in Calls : (Posted(c) \/ Promised(c))' <=> Posted(c) \/ Promised(c)
  BY DEF Posted, Promised
<1> QED BY <1>1, <1>2 DEF RequestInv

\* So do the turns.
LEMMA TurnFrame ==
    ASSUME TurnInv, EndsAreTold, resolved \subseteq Turns,
           UNCHANGED <<cast, at, heard, active, waits, resolved>>,
           \A t \in Turns : posted'[t] = posted[t]
    PROVE  TurnInv' /\ EndsAreTold'
<1>1. \A t \in Turns : Sent(t)' = Sent(t)
  BY DEF Sent
<1>2. \A t \in Turns : /\ Busy(t)' <=> Busy(t)
                       /\ Ended(Sent(t))' <=> Ended(Sent(t))
                       /\ Streams(t)' <=> Streams(t)
  BY <1>1 DEF Busy, Streams, kind, Ended, Terminal
<1>3. EndsAreTold'
  BY <1>1, <1>2 DEF EndsAreTold, kind, Terminal
<1>4. Apart' <=> Apart
  BY DEF Apart
<1> QED BY <1>2, <1>3, <1>4 DEF TurnInv, kind

-----------------------------------------------------------------------------
(* What a turn says *)

LEMMA ConcatAppend == ASSUME NEW S, NEW s \in Seq(S), NEW u \in Seq(S), NEW e \in S
                      PROVE  s \o Append(u, e) = Append(s \o u, e)
<1>1. Append(u, e) = u \o <<e>> /\ Append(s \o u, e) = (s \o u) \o <<e>>
  BY AppendIsConcat, ConcatProperties
<1>2. <<e>> \in Seq(S)
  OBVIOUS
<1> QED BY <1>1, <1>2, ConcatAssociative

LEMMA ConcatTail == ASSUME NEW S, NEW s \in Seq(S), NEW u \in Seq(S), u # <<>>
                    PROVE  Append(s, Head(u)) \o Tail(u) = s \o u
<1>1. Head(u) \in S /\ Tail(u) \in Seq(S) /\ <<Head(u)>> \in Seq(S)
  BY HeadTailProperties
<1>2. Append(s, Head(u)) = s \o <<Head(u)>>
  BY <1>1, AppendIsConcat
<1>3. u = <<Head(u)>> \o Tail(u)
  <2>1. Len(u) = Len(<<Head(u)>> \o Tail(u))
    BY <1>1, HeadTailProperties, ConcatProperties
  <2>2. \A i \in 1..Len(u) : u[i] = (<<Head(u)>> \o Tail(u))[i]
    BY <1>1, HeadTailProperties, ConcatProperties
  <2> QED BY <1>1, <2>1, <2>2, SeqEqual, ConcatProperties
<1> QED BY <1>1, <1>2, <1>3, ConcatAssociative

LEMMA SentType == ASSUME BridgeTypeOK, NEW t \in Turns
                  PROVE  /\ heard[t] \in Seq(Events) /\ posted[t] \in Seq(Events)
                         /\ Sent(t) \in Seq(Events)
<1>1. heard[t] \in Seq(Events) /\ posted[t] \in Seq(Events)
  BY DEF BridgeTypeOK
<1> QED BY <1>1 DEF Sent

LEMMA EndedAppend == ASSUME NEW s \in Seq(Events), NEW e \in Events
                     PROVE  Ended(Append(s, e)) <=> Ended(s) \/ Terminal(e)
<1>1. /\ DOMAIN Append(s, e) = 1..(Len(s) + 1) /\ DOMAIN s = 1..Len(s)
      /\ Append(s, e)[Len(s) + 1] = e
      /\ \A i \in 1..Len(s) : Append(s, e)[i] = s[i]
      /\ Len(s) \in Nat
  OBVIOUS
<1> QED BY <1>1 DEF Ended

\* What is posted comes after what was said before.
LEMMA PostSays ==
    ASSUME BridgeTypeOK, NEW t \in Turns, NEW e \in Events, Post(t, e), UNCHANGED heard
    PROVE  /\ Sent(t)' = Append(Sent(t), e)
           /\ \A u \in Turns \ {t} : posted'[u] = posted[u] /\ Sent(u)' = Sent(u)
           /\ \A ch \in Asked : posted'[ch] = posted[ch]
           /\ posted'[t] \in Seq(Events) /\ DOMAIN posted' = Channels
<1>1. t \in DOMAIN posted /\ \A ch \in Asked : ch # t
  BY ChannelFacts DEF BridgeTypeOK
<1>2. heard[t] \in Seq(Events) /\ posted[t] \in Seq(Events)
  BY SentType
<1>3. posted'[t] = Append(posted[t], e) /\ DOMAIN posted' = Channels
  BY <1>1 DEF Post, BridgeTypeOK
<1>4. \A ch \in Channels \ {t} : posted'[ch] = posted[ch]
  BY <1>1 DEF Post, BridgeTypeOK
<1>5. heard[t] \o Append(posted[t], e) = Append(heard[t] \o posted[t], e)
  <2> DEFINE h == heard[t]
             p == posted[t]
  <2>1. h \in Seq(Events) /\ p \in Seq(Events) /\ e \in Events
    BY <1>2
  <2> HIDE DEF h, p
  <2>2. h \o Append(p, e) = Append(h \o p, e)
    BY ONLY <2>1, ConcatAppend
  <2> QED BY <2>2 DEF h, p
<1>6. posted'[t] \in Seq(Events)
  BY <1>2, <1>3
<1> QED BY <1>1, <1>3, <1>4, <1>5, <1>6, ChannelFacts DEF Sent

\* What arrives stays said.
LEMMA ArriveSays ==
    ASSUME BridgeTypeOK, NEW t \in Turns, Arrive(t)
    PROVE  /\ \A u \in Turns : Sent(u)' = Sent(u)
           /\ \A ch \in Asked : posted'[ch] = posted[ch]
           /\ \A u \in Turns : posted'[u] \in Seq(Events)
           /\ heard' \in [Turns -> Seq(Events)] /\ DOMAIN posted' = Channels
<1>1. t \in DOMAIN posted /\ \A ch \in Asked : ch # t
  BY ChannelFacts DEF BridgeTypeOK
<1>2. heard[t] \in Seq(Events) /\ posted[t] \in Seq(Events) /\ posted[t] # <<>>
  BY SentType DEF Arrive
<1>3. /\ posted'[t] = Tail(posted[t]) /\ DOMAIN posted' = Channels
      /\ \A ch \in Channels \ {t} : posted'[ch] = posted[ch]
  BY <1>1 DEF Arrive, BridgeTypeOK
<1>4. /\ heard'[t] = Append(heard[t], Head(posted[t]))
      /\ \A u \in Turns \ {t} : heard'[u] = heard[u]
  BY DEF Arrive, BridgeTypeOK
<1>5. Append(heard[t], Head(posted[t])) \o Tail(posted[t]) = heard[t] \o posted[t]
  BY <1>2, ConcatTail
<1>6. Append(heard[t], Head(posted[t])) \in Seq(Events) /\ Tail(posted[t]) \in Seq(Events)
  BY <1>2
<1>7. heard' \in [Turns -> Seq(Events)]
  BY <1>6 DEF Arrive, BridgeTypeOK
<1>8. \A u \in Turns : posted'[u] \in Seq(Events)
  BY <1>3, <1>6, ChannelFacts DEF BridgeTypeOK
<1> QED BY <1>1, <1>3, <1>4, <1>5, <1>7, <1>8, ChannelFacts DEF Sent

-----------------------------------------------------------------------------
(* Steps of turns *)

\* A step that leaves requests and the gate alone is judged by what it does to
\* the turns.
LEMMA QuietStep ==
    ASSUME BridgeIInv, "ask" \notin Answers, UNCHANGED <<cast, gateVars, askVars>>,
           \A ch \in Asked : posted'[ch] = posted[ch],
           BridgeTypeOK', BegunInv', EndsAreTold', TurnInv'
    PROVE  BridgeIInv'
<1>1. GateInv'
  BY NextInv DEF vars, gateVars, BridgeIInv
<1>2. RequestInv'
  BY RequestFrame DEF gateVars, askVars, BridgeIInv
<1>3. ApprovedInv'
  BY DEF gateVars, askVars, BridgeIInv, ApprovedInv, Direct, kind
<1> QED BY <1>1, <1>2, <1>3 DEF BridgeIInv

\* Turns that say more, or go, do not disturb each other.
LEMMA TurnGrows ==
    ASSUME BridgeTypeOK, TurnInv, UNCHANGED <<cast, active, waits, resolved>>,
           \A u \in Turns : Ended(Sent(u)) => Ended(Sent(u))',
           \A u \in Turns : at'[u] = at[u] \/ (at[u] = "running" /\ at'[u] = "gone")
    PROVE  TurnInv'
<1>1. \A u \in Turns : Busy(u)' => Busy(u)
  BY DEF Busy, kind
<1>2. Apart' <=> Apart
  BY DEF Apart
<1>3. \A u \in resolved : Ended(Sent(u))'
  BY DEF TurnInv, BridgeTypeOK
<1> QED BY <1>1, <1>2, <1>3 DEF TurnInv, kind

LEMMA EmitInv ==
    ASSUME BridgeIInv, "ask" \notin Answers, NEW t \in Turns,
           NEW e \in {"part", "pause", "finish", "error"}, Emit(t, e)
    PROVE  BridgeIInv'
<1> USE DEF BridgeIInv
<1>1. e \in Events
  BY DEF Events
<1>2. /\ Post(t, e) /\ UNCHANGED <<at, cast, gateVars, askVars, endVars, js>>
      /\ at[t] = "running" /\ UNCHANGED heard
  BY DEF Emit, EndStep, Free, endVars
<1>3. /\ Sent(t)' = Append(Sent(t), e)
      /\ \A u \in Turns \ {t} : posted'[u] = posted[u] /\ Sent(u)' = Sent(u)
      /\ \A ch \in Asked : posted'[ch] = posted[ch]
      /\ posted'[t] \in Seq(Events) /\ DOMAIN posted' = Channels
  BY <1>1, <1>2, PostSays
<1>4. Sent(t) \in Seq(Events)
  BY SentType
<1>5. BridgeTypeOK'
  BY <1>2, <1>3 DEF BridgeTypeOK, askVars, endVars
<1>6. /\ Ended(Sent(t)) => Ended(Sent(t))'
      /\ \A u \in Turns \ {t} : Ended(Sent(u))' <=> Ended(Sent(u))
  <2>1. Ended(Sent(t)) => Ended(Append(Sent(t), e))
    BY <1>1, <1>4, EndedAppend
  <2> QED BY <2>1, <1>3 DEF Ended, Terminal
<1>7. TurnInv'
  BY <1>2, <1>6, TurnGrows DEF endVars
<1>8. EndsAreTold'
  <2> SUFFICES ASSUME NEW u \in Turns, Streams(u)'
               PROVE  /\ at'[u] = "gone" => Ended(Sent(u))'
                      /\ kind'[u] = "session" => \A i \in DOMAIN Sent(u)' :
                              Terminal(Sent(u)'[i]) => i = Len(Sent(u)')
    BY DEF EndsAreTold, Terminal
  <2>1. UNCHANGED kind /\ Streams(u)
    BY <1>2 DEF Streams, kind
  <2>2. CASE u # t
    BY <2>1, <2>2, <1>2, <1>3, <1>6 DEF EndsAreTold, Terminal
  <2>3. CASE u = t
    <3>1. at'[t] # "gone"
      BY <1>2
    <3>2. ASSUME kind[t] = "session" PROVE \A i \in 1..Len(Sent(t)) : ~Terminal(Sent(t)[i])
      BY <3>2, <1>4 DEF Emit, Ended
    <3> QED BY <3>1, <3>2, <2>1, <2>3, <1>1, <1>3, <1>4
  <2> QED BY <2>2, <2>3
<1>9. BegunInv'
  BY <1>2 DEF BegunInv, gateVars, askVars, kind, Direct
<1> QED BY <1>2, <1>3, <1>5, <1>7, <1>8, <1>9, QuietStep

LEMMA ReturnInv ==
    ASSUME BridgeIInv, "ask" \notin Answers, NEW t \in Turns, NEW ok \in BOOLEAN, Return(t, ok)
    PROVE  BridgeIInv'
<1> USE DEF BridgeIInv
<1>1. /\ UNCHANGED <<cast, gateVars, askVars, endVars, js>>
      /\ at[t] = "running" /\ at' = [at EXCEPT ![t] = "gone"] /\ UNCHANGED heard
  BY DEF Return, EndStep, Free, endVars
<1>2. Sent(t) \in Seq(Events)
  BY SentType
<1>3. Told(Sent(t)) <=> Ended(Sent(t))
  BY DEF Told, Ended, Tells, Terminal
<1>4. /\ \A u \in Turns \ {t} : posted'[u] = posted[u] /\ Sent(u)' = Sent(u)
      /\ \A ch \in Asked : posted'[ch] = posted[ch]
      /\ posted'[t] \in Seq(Events) /\ DOMAIN posted' = Channels
      /\ \/ Ended(Sent(t)) /\ Sent(t)' = Sent(t)
         \/ ~Ended(Sent(t)) /\ \E e \in {"finish", "error"} : Sent(t)' = Append(Sent(t), e)
  <2>1. CASE Told(Sent(t))
    <3>1. UNCHANGED posted
      BY <2>1 DEF Return
    <3> QED BY <2>1, <3>1, <1>1, <1>3, SentType DEF Sent, BridgeTypeOK
  <2>2. CASE ~Told(Sent(t))
    <3>1. PICK e \in {"finish", "error"} : Post(t, e)
      BY <2>2 DEF Return
    <3>2. e \in Events
      BY DEF Events
    <3> QED BY <2>2, <3>1, <3>2, <1>1, <1>3, PostSays
  <2> QED BY <2>1, <2>2
<1>5. BridgeTypeOK'
  BY <1>1, <1>4 DEF BridgeTypeOK, askVars, endVars
<1>6. /\ Ended(Sent(t))'
      /\ \A u \in Turns \ {t} : Ended(Sent(u))' <=> Ended(Sent(u))
  <2>1. \A e \in {"finish", "error"} : Ended(Append(Sent(t), e))
    BY <1>2, EndedAppend DEF Terminal, Events
  <2> QED BY <2>1, <1>4 DEF Ended, Terminal
<1>7. TurnInv'
  <2>1. \A u \in Turns : at'[u] = at[u] \/ (at[u] = "running" /\ at'[u] = "gone")
    BY <1>1 DEF BridgeTypeOK
  <2> QED BY <1>1, <1>6, <2>1, TurnGrows DEF endVars
<1>8. EndsAreTold'
  <2> SUFFICES ASSUME NEW u \in Turns, Streams(u)'
               PROVE  /\ at'[u] = "gone" => Ended(Sent(u))'
                      /\ kind'[u] = "session" => \A i \in DOMAIN Sent(u)' :
                              Terminal(Sent(u)'[i]) => i = Len(Sent(u)')
    BY DEF EndsAreTold, Terminal
  <2>1. UNCHANGED kind /\ Streams(u)
    BY <1>1 DEF Streams, kind
  <2>2. CASE u # t
    BY <2>1, <2>2, <1>1, <1>4, <1>6 DEF EndsAreTold, Terminal, BridgeTypeOK
  <2>3. CASE u = t
    <3>1. CASE Ended(Sent(t))
      <4>1. Sent(t)' = Sent(t)
        BY <3>1, <1>4
      <4> QED BY <2>1, <2>3, <4>1, <1>6 DEF EndsAreTold
    <3>2. CASE ~Ended(Sent(t))
      <4>1. PICK e : Sent(t)' = Append(Sent(t), e) /\ e \in {"finish", "error"}
        BY <3>2, <1>4
      <4>2. \A i \in 1..Len(Sent(t)) : ~Terminal(Sent(t)[i])
        BY <3>2, <1>2 DEF Ended
      <4> QED BY <2>3, <4>1, <4>2, <1>2, <1>6
    <3> QED BY <3>1, <3>2
  <2> QED BY <2>2, <2>3
<1>9. kind[t] \in {"stream", "session"}
  BY DEF Return, Streams
<1>10. BegunInv'
  BY <1>1, <1>9 DEF BegunInv, gateVars, askVars, kind, Direct, BridgeTypeOK
<1> QED BY <1>1, <1>4, <1>5, <1>7, <1>8, <1>10, QuietStep

\* How a promise is settled, or a batch ends, is no matter of streams.
LEMMA SettleInv ==
    ASSUME BridgeIInv, "ask" \notin Answers, NEW t \in Turns,
           NEW e \in {"resolve", "reject"}, Settle(t, e)
    PROVE  BridgeIInv'
<1> USE DEF BridgeIInv
<1>1. /\ UNCHANGED <<cast, gateVars, askVars, endVars, js>> /\ UNCHANGED heard
      /\ at[t] = "running" /\ at' = [at EXCEPT ![t] = "gone"]
      /\ kind[t] = "promise" /\ Post(t, e)
  BY DEF Settle, EndStep, Free, endVars
<1>2. e \in Events
  BY DEF Events
<1>3. /\ Sent(t)' = Append(Sent(t), e)
      /\ \A u \in Turns \ {t} : posted'[u] = posted[u] /\ Sent(u)' = Sent(u)
      /\ \A ch \in Asked : posted'[ch] = posted[ch]
      /\ posted'[t] \in Seq(Events) /\ DOMAIN posted' = Channels
  BY <1>1, <1>2, PostSays
<1>4. BridgeTypeOK'
  BY <1>1, <1>3 DEF BridgeTypeOK, askVars, endVars
<1>5. \A u \in Turns : Ended(Sent(u)) => Ended(Sent(u))'
  <2>1. Ended(Sent(t)) => Ended(Append(Sent(t), e))
    BY <1>2, SentType, EndedAppend
  <2> QED BY <2>1, <1>3 DEF Ended, Terminal
<1>6. TurnInv'
  <2>1. \A u \in Turns : at'[u] = at[u] \/ (at[u] = "running" /\ at'[u] = "gone")
    BY <1>1 DEF BridgeTypeOK
  <2> QED BY <1>1, <1>5, <2>1, TurnGrows DEF endVars
<1>7. EndsAreTold'
  BY <1>1, <1>3, <1>5 DEF EndsAreTold, Streams, kind, BridgeTypeOK, Ended, Terminal
<1>8. BegunInv'
  BY <1>1 DEF BegunInv, gateVars, askVars, kind, Direct, BridgeTypeOK
<1> QED BY <1>1, <1>3, <1>4, <1>6, <1>7, <1>8, QuietStep

LEMMA BatchInv ==
    ASSUME BridgeIInv, "ask" \notin Answers, NEW t \in Turns, BatchOver(t)
    PROVE  BridgeIInv'
<1> USE DEF BridgeIInv
<1>1. /\ UNCHANGED <<cast, gateVars, askVars, endVars, posted>> /\ UNCHANGED heard
      /\ js = t /\ js' = NoTurn /\ at' = [at EXCEPT ![t] = "gone"]
  BY DEF BatchOver, endVars
<1>2. at[t] = "running" /\ kind[t] = "batch"
  BY <1>1, BridgeAssumption DEF BegunInv
<1>3. \A u \in Turns : Sent(u)' = Sent(u) /\ (Ended(Sent(u))' <=> Ended(Sent(u)))
  BY <1>1 DEF Sent, Ended, Terminal
<1>4. BridgeTypeOK'
  BY <1>1 DEF BridgeTypeOK, askVars, endVars
<1>5. TurnInv'
  <2>1. \A u \in Turns : at'[u] = at[u] \/ (at[u] = "running" /\ at'[u] = "gone")
    BY <1>1, <1>2 DEF BridgeTypeOK
  <2> QED BY <1>1, <1>3, <2>1, TurnGrows DEF endVars
<1>6. EndsAreTold'
  BY <1>1, <1>2, <1>3 DEF EndsAreTold, Streams, kind, BridgeTypeOK, Terminal
<1>7. BegunInv'
  BY <1>1, <1>2 DEF BegunInv, gateVars, askVars, kind, Direct, BridgeTypeOK
<1> QED BY <1>1, <1>4, <1>5, <1>6, <1>7, QuietStep

LEMMA ArriveInv ==
    ASSUME BridgeIInv, "ask" \notin Answers, NEW t \in Turns, Arrive(t)
    PROVE  BridgeIInv'
<1> USE DEF BridgeIInv
<1>1. UNCHANGED <<cast, gateVars, askVars, at, active, waits, resolved, js>>
  BY DEF Arrive, JsStep, askVars
<1>2. /\ \A u \in Turns : Sent(u)' = Sent(u)
      /\ \A ch \in Asked : posted'[ch] = posted[ch]
      /\ \A u \in Turns : posted'[u] \in Seq(Events)
      /\ heard' \in [Turns -> Seq(Events)] /\ DOMAIN posted' = Channels
  BY ArriveSays
<1>3. \A u \in Turns : Ended(Sent(u))' <=> Ended(Sent(u))
  BY <1>2 DEF Ended, Terminal
<1>4. BridgeTypeOK'
  BY <1>1, <1>2 DEF BridgeTypeOK, askVars
<1>5. TurnInv'
  BY <1>1, <1>3, TurnGrows
<1>6. EndsAreTold'
  BY <1>1, <1>2, <1>3 DEF EndsAreTold, Streams, kind, Terminal
<1>7. BegunInv'
  BY <1>1 DEF BegunInv, gateVars, askVars, kind, Direct
<1> QED BY <1>1, <1>2, <1>4, <1>5, <1>6, <1>7, QuietStep

\* A stream's end resolves the turn's promise: it has ended.
LEMMA ConsumeInv ==
    ASSUME BridgeIInv, "ask" \notin Answers, NEW t \in Turns, Consume(t) \/ Timer(t)
    PROVE  BridgeIInv'
<1> USE DEF BridgeIInv
<1>1. /\ UNCHANGED <<cast, gateVars, askVars, at, posted, heard, active, waits, js>>
      /\ resolved' = resolved \/ (Finished(t) /\ resolved' = resolved \cup {t})
  BY DEF Consume, Timer, TellsEnd, JsStep, askVars
<1>2. \A u \in Turns : Sent(u)' = Sent(u) /\ (Ended(Sent(u))' <=> Ended(Sent(u)))
  BY <1>1 DEF Sent, Ended, Terminal
<1>3. Finished(t) => Ended(Sent(t))
  <2>1. heard[t] \in Seq(Events) /\ posted[t] \in Seq(Events)
    BY SentType
  <2>2. \A i \in DOMAIN heard[t] : i \in DOMAIN Sent(t) /\ Sent(t)[i] = heard[t][i]
    <3> DEFINE h == heard[t]
               p == posted[t]
    <3>1. h \in Seq(Events) /\ p \in Seq(Events)
      BY <2>1
    <3> HIDE DEF h, p
    <3>2. \A i \in DOMAIN h : i \in DOMAIN (h \o p) /\ (h \o p)[i] = h[i]
      BY ONLY <3>1, ConcatProperties
    <3> QED BY <3>2 DEF Sent, h, p
  <2> QED BY <2>2 DEF Finished, Ended
<1>4. BridgeTypeOK'
  BY <1>1 DEF BridgeTypeOK, askVars
<1>5. TurnInv'
  <2>1. Apart' <=> Apart
    BY <1>1 DEF Apart
  <2>2. \A u \in Turns : Busy(u)' <=> Busy(u)
    BY <1>1, <1>2 DEF Busy, kind
  <2>3. \A u \in resolved' : Ended(Sent(u))'
    BY <1>1, <1>2, <1>3 DEF TurnInv, BridgeTypeOK
  <2> QED BY <1>1, <2>1, <2>2, <2>3 DEF TurnInv, kind
<1>6. EndsAreTold'
  BY <1>1, <1>2 DEF EndsAreTold, Streams, kind, Terminal
<1>7. BegunInv'
  BY <1>1 DEF BegunInv, gateVars, askVars, kind, Direct
<1> QED BY <1>1, <1>4, <1>5, <1>6, <1>7, QuietStep

\* A turn that starts to wait, or begins because none was before it.
LEMMA StartInv ==
    ASSUME BridgeIInv, "ask" \notin Answers, NEW t \in Turns, Start(t)
    PROVE  BridgeIInv'
<1> USE DEF BridgeIInv
<1>1. /\ UNCHANGED <<cast, gateVars, askVars, posted, heard, resolved>>
      /\ at[t] = "idle" /\ kind[t] # "none"
      /\ js = NoTurn /\ js' = IF kind[t] = "batch" THEN t ELSE NoTurn
  BY DEF Start
<1>2. \A u \in Turns : Sent(u)' = Sent(u) /\ (Ended(Sent(u))' <=> Ended(Sent(u)))
  BY <1>1 DEF Sent, Ended, Terminal
<1>3. waits[t] = NoTurn
  BY <1>1 DEF TurnInv
<1>4. CASE kind[t] = "session" /\ active # NoTurn
  <2>1. /\ at' = [at EXCEPT ![t] = "queued"] /\ waits' = [waits EXCEPT ![t] = active]
        /\ UNCHANGED active /\ UNCHANGED js
    BY <1>1, <1>4 DEF Start
  <2>2. BridgeTypeOK'
    BY <1>1, <2>1 DEF BridgeTypeOK, askVars
  <2>3. Apart' => Apart
    BY <1>3, <2>1 DEF Apart, BridgeTypeOK
  <2>4. \A u \in Turns : Busy(u)' => Busy(u)
    BY <1>1, <1>2, <2>1 DEF Busy, kind, BridgeTypeOK
  <2>5. TurnInv'
    <3>1. Apart' => /\ \A u \in Turns : Busy(u)' => u = active'
                    /\ \A u \in Turns : at'[u] = "queued" => waits'[u] = active'
      BY <2>1, <2>3, <2>4 DEF TurnInv, BridgeTypeOK
    <3>2. \A u \in Turns : /\ at'[u] = "idle" => waits'[u] = NoTurn
                           /\ at'[u] = "queued" => waits'[u] # NoTurn /\ kind'[u] = "session"
      BY <1>1, <1>4, <2>1 DEF TurnInv, BridgeTypeOK, kind
    <3>3. \A u \in resolved' : Ended(Sent(u))'
      BY <1>1, <1>2 DEF TurnInv, BridgeTypeOK
    <3> QED BY <3>1, <3>2, <3>3 DEF TurnInv, kind
  <2>6. EndsAreTold'
    BY <1>1, <1>2, <2>1 DEF EndsAreTold, Streams, kind, Terminal, BridgeTypeOK
  <2>7. BegunInv'
    BY <1>1, <2>1 DEF BegunInv, gateVars, askVars, kind, Direct, BridgeTypeOK
  <2> QED BY <1>1, <2>2, <2>5, <2>6, <2>7, QuietStep
<1>5. CASE ~(kind[t] = "session" /\ active # NoTurn)
  <2>1. /\ at' = [at EXCEPT ![t] = "running"] /\ UNCHANGED waits
        /\ active' = IF kind[t] = "session" THEN t ELSE active
    BY <1>1, <1>5 DEF Start
  <2>2. BridgeTypeOK'
    BY <1>1, <2>1 DEF BridgeTypeOK, askVars
  <2>3. Apart' <=> Apart
    BY <2>1 DEF Apart
  <2>4. \A u \in Turns : Busy(u)' => Busy(u) \/ (u = t /\ kind[t] = "session")
    BY <1>1, <1>2, <2>1 DEF Busy, kind, BridgeTypeOK
  <2>5. TurnInv'
    <3>1. ASSUME Apart PROVE /\ \A u \in Turns : Busy(u)' => u = active'
                             /\ \A u \in Turns : at'[u] = "queued" => waits'[u] = active'
      <4>1. CASE kind[t] = "session"
        <5>1. active = NoTurn /\ active' = t
          BY <1>5, <2>1, <4>1
        <5>2. \A u \in Turns : ~Busy(u) /\ at[u] # "queued"
          BY <3>1, <5>1, BridgeAssumption DEF TurnInv
        <5> QED BY <2>1, <2>4, <5>1, <5>2 DEF BridgeTypeOK
      <4>2. CASE kind[t] # "session"
        BY <2>1, <2>4, <3>1, <4>2 DEF TurnInv, BridgeTypeOK
      <4> QED BY <4>1, <4>2
    <3>2. \A u \in Turns : /\ at'[u] = "idle" => waits'[u] = NoTurn
                           /\ at'[u] = "queued" => waits'[u] # NoTurn /\ kind'[u] = "session"
      BY <1>1, <2>1 DEF TurnInv, BridgeTypeOK, kind
    <3>3. \A u \in resolved' : Ended(Sent(u))'
      BY <1>1, <1>2 DEF TurnInv, BridgeTypeOK
    <3> QED BY <2>3, <3>1, <3>2, <3>3 DEF TurnInv, kind
  <2>6. EndsAreTold'
    BY <1>1, <1>2, <2>1 DEF EndsAreTold, Streams, kind, Terminal, BridgeTypeOK
  <2>7. BegunInv'
    BY <1>1, <2>1, BridgeAssumption DEF BegunInv, gateVars, askVars, kind, Direct, BridgeTypeOK
  <2> QED BY <1>1, <2>2, <2>5, <2>6, <2>7, QuietStep
<1> QED BY <1>4, <1>5

\* The one that waited goes on: the turn it waited for was the only busy one.
LEMMA ResumeInv ==
    ASSUME BridgeIInv, "ask" \notin Answers, NEW t \in Turns, Resume(t)
    PROVE  BridgeIInv'
<1> USE DEF BridgeIInv
<1>1. /\ UNCHANGED <<cast, gateVars, askVars, posted, heard, waits, resolved, js>>
      /\ at[t] = "queued" /\ at' = [at EXCEPT ![t] = "running"]
      /\ waits[t] \in resolved /\ active' = t
  BY DEF Resume, JsStep, askVars
<1>2. \A u \in Turns : Sent(u)' = Sent(u) /\ (Ended(Sent(u))' <=> Ended(Sent(u)))
  BY <1>1 DEF Sent, Ended, Terminal
<1>3. kind[t] = "session" /\ waits[t] # NoTurn
  BY <1>1 DEF TurnInv
<1>4. BridgeTypeOK'
  BY <1>1 DEF BridgeTypeOK, askVars
<1>5. TurnInv'
  <2>1. Apart' <=> Apart
    BY <1>1 DEF Apart
  <2>2. \A u \in Turns \ {t} : Busy(u)' <=> Busy(u)
    BY <1>1, <1>2 DEF Busy, kind, BridgeTypeOK
  <2>3. ASSUME Apart PROVE /\ \A u \in Turns : Busy(u)' => u = active'
                           /\ \A u \in Turns : at'[u] = "queued" => waits'[u] = active'
    <3>1. waits[t] = active /\ Ended(Sent(active)) /\ active \in Turns
      BY <1>1, <1>3, <2>3 DEF TurnInv, BridgeTypeOK
    <3>2. \A u \in Turns : ~Busy(u)
      BY <2>3, <3>1 DEF TurnInv, Busy
    <3>3. \A u \in Turns \ {t} : at[u] # "queued"
      BY <1>3, <2>3, <3>1 DEF TurnInv, Apart
    <3> QED BY <1>1, <2>2, <3>2, <3>3 DEF BridgeTypeOK
  <2>4. \A u \in Turns : /\ at'[u] = "idle" => waits'[u] = NoTurn
                         /\ at'[u] = "queued" => waits'[u] # NoTurn /\ kind'[u] = "session"
    BY <1>1 DEF TurnInv, BridgeTypeOK, kind
  <2>5. \A u \in resolved' : Ended(Sent(u))'
    BY <1>1, <1>2 DEF TurnInv, BridgeTypeOK
  <2> QED BY <2>1, <2>3, <2>4, <2>5 DEF TurnInv, kind
<1>6. EndsAreTold'
  BY <1>1, <1>2 DEF EndsAreTold, Streams, kind, Terminal, BridgeTypeOK
<1>7. BegunInv'
  BY <1>1, <1>3 DEF BegunInv, gateVars, askVars, kind, Direct, BridgeTypeOK
<1> QED BY <1>1, <1>4, <1>5, <1>6, <1>7, QuietStep

-----------------------------------------------------------------------------
(* Steps of calls *)

\* One id, one request.
LEMMA SameRequest ==
    ASSUME BridgeTypeOK, RequestInv, NEW p \in Requests, NEW q \in Requests,
           Live(p), Live(q), p.id = q.id
    PROVE  p = q
<1>1. p.call = q.call
  <2>1. \A c, d \in Calls : id[c] = id[d] /\ id[c] # 0 => c = d
    BY DEF RequestInv
  <2> QED BY <2>1 DEF Live, Requests
<1>2. p.of = q.of
  BY <1>1 DEF Live
<1> QED BY <1>1, <1>2 DEF Requests

\* A call that waits for nothing asks anew: its request is the only one of its.
LEMMA AskRequests ==
    ASSUME BridgeTypeOK, RequestInv, NEW c \in Calls, NEW ch \in Asked, Ask(c, ch),
           UNCHANGED <<tool, promised, said>>,
           \A e \in Calls \ {c} : pc'[e] = pc[e],
           id[c] # 0 => pending[id[c]] # NoAnswer, ch = AskedBy(c)'
    PROVE  /\ RequestInv'
           /\ id' \in [Calls -> Nat] /\ call_id' \in Nat /\ DOMAIN posted' = Channels
           /\ \A x \in Asked : posted'[x] \in Seq(Requests)
           /\ \A t \in Turns : posted'[t] = posted[t]
<1> DEFINE r == [id |-> FreshId, call |-> c, of |-> ch]
           Asks(e) == IF pc'[e] = "new" THEN "policy"
                      ELSE IF pc'[e] = "asking" THEN "approver" ELSE tool'[e]
           Lives(p) == /\ id'[p.call] # 0 /\ p.id = id'[p.call] /\ p.of = Asks(p.call)
                       /\ pending'[p.id] = NoAnswer
<1>1. /\ FreshId = call_id + 1 /\ FreshId \in Nat /\ FreshId > call_id /\ FreshId # 0
      /\ call_id' = FreshId /\ call_id \in Nat
  BY DEF Ask, FreshId, BridgeTypeOK
<1>2. /\ id' \in [Calls -> Nat] /\ id'[c] = FreshId
      /\ \A e \in Calls \ {c} : id'[e] = id[e]
  BY <1>1 DEF Ask, BridgeTypeOK
<1>3. /\ DOMAIN pending' = (DOMAIN pending \ {id[c]}) \cup {FreshId}
      /\ pending'[FreshId] = NoAnswer
      /\ \A n \in DOMAIN pending \ {id[c], FreshId} : pending'[n] = pending[n]
  BY DEF Ask
<1>4. r \in Requests
  BY <1>1 DEF Requests
<1> DEFINE s == posted[ch]
<1>5. s \in Seq(Requests) /\ ch \in DOMAIN posted
  BY ChannelFacts DEF BridgeTypeOK
<1>6. posted' = [posted EXCEPT ![ch] = Append(posted[ch], r)]
  BY DEF Ask, Post
<1> HIDE DEF r
<1>7. /\ posted'[ch] = Append(s, r) /\ DOMAIN posted' = Channels
      /\ \A x \in Channels \ {ch} : posted'[x] = posted[x]
  BY <1>5, <1>6 DEF BridgeTypeOK
<1> HIDE DEF s
<1>8. /\ Append(s, r) \in Seq(Requests)
      /\ DOMAIN Append(s, r) = 1..(Len(s) + 1) /\ DOMAIN s = 1..Len(s) /\ Len(s) \in Nat
      /\ Append(s, r)[Len(s) + 1] = r
      /\ \A i \in 1..Len(s) : Append(s, r)[i] = s[i]
  BY <1>4, <1>5
<1>9. /\ \A x \in Asked : posted'[x] \in Seq(Requests)
      /\ \A t \in Turns : posted'[t] = posted[t]
  BY <1>7, <1>8, ChannelFacts DEF BridgeTypeOK
<1>10. \A e \in Calls \ {c} : id[e] # 0 =>
          id[e] \in DOMAIN pending \ {id[c], FreshId} /\ pending'[id[e]] = pending[id[e]]
  <2> SUFFICES ASSUME NEW e \in Calls \ {c}, id[e] # 0
               PROVE  id[e] \in DOMAIN pending \ {id[c], FreshId}
    BY <1>3
  <2>1. id[e] \in DOMAIN pending /\ id[e] <= call_id /\ id[e] \in Nat
    BY DEF RequestInv, BridgeTypeOK
  <2>2. id[e] # id[c]
    BY DEF RequestInv
  <2> QED BY <1>1, <2>1, <2>2
<1>11. \A p \in Requests : Live(p) => Lives(p) /\ p.id # FreshId /\ p.call # c
  <2> SUFFICES ASSUME NEW p \in Requests, Live(p)
               PROVE  Lives(p) /\ p.id # FreshId /\ p.call # c
    OBVIOUS
  <2>1. p.call \in Calls /\ p.call # c
    BY DEF Live, Requests
  <2>2. id'[p.call] = id[p.call] /\ pending'[p.id] = NoAnswer /\ p.id # FreshId
    BY <1>2, <1>10, <2>1 DEF Live
  <2>3. Asks(p.call) = AskedBy(p.call)
    BY <2>1 DEF AskedBy
  <2> QED BY <2>1, <2>2, <2>3 DEF Live
<1>12. Lives(r) /\ r.id = FreshId /\ r.of = ch /\ r.call = c
  <2>1. r.id = FreshId /\ r.of = ch /\ r.call = c
    BY DEF r
  <2>2. ch = Asks(c)
    BY DEF AskedBy
  <2> QED BY <1>1, <1>2, <1>3, <2>1, <2>2
<1> HIDE DEF Asks, Lives
<1>13. \A x \in Asked : \A i \in DOMAIN posted[x] : posted[x][i] \in Requests
  BY DEF BridgeTypeOK
<1>14. DOMAIN pending' = {id'[e] : e \in {d \in Calls : id'[d] # 0}}
  <2>1. \A n \in DOMAIN pending' : \E e \in Calls : id'[e] # 0 /\ id'[e] = n
    <3> SUFFICES ASSUME NEW n \in DOMAIN pending' PROVE \E e \in Calls : id'[e] # 0 /\ id'[e] = n
      OBVIOUS
    <3>1. CASE n = FreshId
      BY <1>1, <1>2, <3>1
    <3>2. CASE n # FreshId
      <4>1. n \in DOMAIN pending /\ n # id[c]
        BY <1>3, <3>2
      <4>2. PICK e \in Calls : id[e] # 0 /\ id[e] = n
        BY <4>1 DEF RequestInv
      <4> QED BY <1>2, <4>1, <4>2
    <3> QED BY <3>1, <3>2
  <2>2. \A e \in Calls : id'[e] # 0 => id'[e] \in DOMAIN pending'
    BY <1>2, <1>3, <1>10
  <2> QED BY <2>1, <2>2
<1>15. \A e \in Calls : id'[e] <= call_id'
  <2>1. \A e \in Calls : id[e] <= call_id /\ id[e] \in Nat
    BY DEF RequestInv, BridgeTypeOK
  <2> QED BY <1>1, <1>2, <2>1
<1>16. \A d, e \in Calls : id'[d] = id'[e] /\ id'[d] # 0 => d = e
  <2>1. \A e \in Calls \ {c} : id'[e] # FreshId
    BY <1>1, <1>2 DEF RequestInv, BridgeTypeOK
  <2> QED BY <1>1, <1>2, <2>1 DEF RequestInv
<1>17. \A p \in promised' : Lives(p) /\ p # r
  BY <1>11, <1>12 DEF RequestInv, BridgeTypeOK
<1>18. \A x \in Asked : \A i \in DOMAIN posted'[x] :
          /\ Lives(posted'[x][i]) /\ posted'[x][i].of = x /\ posted'[x][i] \notin promised'
          /\ \A j \in DOMAIN posted'[x] : posted'[x][i].id = posted'[x][j].id => i = j
  <2> TAKE x \in Asked
  <2>1. CASE x # ch
    BY <2>1, <1>7, <1>11, <1>13, ChannelFacts DEF RequestInv
  <2>2. CASE x = ch
    <3>1. \A i \in 1..Len(s) : /\ s[i] \in Requests /\ Live(s[i]) /\ s[i].of = ch /\ s[i] \notin promised
                               /\ \A j \in 1..Len(s) : s[i].id = s[j].id => i = j
      BY <1>8, <1>13 DEF RequestInv, s
    <3>2. \A i \in 1..Len(s) : Lives(s[i]) /\ s[i].id # r.id
      BY <3>1, <1>11, <1>12
    <3> QED BY <2>2, <3>1, <3>2, <1>7, <1>8, <1>12, <1>17
  <2> QED BY <2>1, <2>2
<1>19. \A e \in Calls : id'[e] # 0 =>
          IF pending'[id'[e]] = NoAnswer THEN Posted(e)' \/ Promised(e)'
          ELSE /\ pending'[id'[e]].call = e
               /\ pc'[e] = "asking" => pending'[id'[e]].says = said'[e]
  <2> TAKE e \in Calls
  <2>1. CASE e = c
    <3>1. Len(s) + 1 \in DOMAIN posted'[ch] /\ posted'[ch][Len(s) + 1] = r
      BY <1>7, <1>8
    <3>2. Posted(c)'
      BY <3>1, <1>2, <1>12 DEF Posted
    <3> QED BY <2>1, <3>2, <1>2, <1>3
  <2>2. CASE e # c
    <3>1. id'[e] = id[e] /\ pc'[e] = pc[e] /\ (id[e] # 0 => pending'[id'[e]] = pending[id[e]])
      BY <2>2, <1>2, <1>10
    <3>2. Promised(e) => Promised(e)'
      BY <3>1 DEF Promised
    <3>3. Posted(e) => Posted(e)'
      <4> SUFFICES ASSUME NEW x \in Asked, NEW i \in DOMAIN posted[x],
                          posted[x][i].id = id[e], posted[x][i].call = e
                   PROVE  i \in DOMAIN posted'[x] /\ posted'[x][i] = posted[x][i]
        BY <3>1 DEF Posted
      <4> QED BY SMTT(30), <1>7, <1>8, ChannelFacts DEF s
    <3> QED BY <3>1, <3>2, <3>3 DEF RequestInv
  <2> QED BY <2>1, <2>2
<1>20. RequestInv'
  BY <1>14, <1>15, <1>16, <1>17, <1>18, <1>19 DEF RequestInv, Live, AskedBy, Lives, Asks
<1> QED BY <1>1, <1>2, <1>7, <1>9, <1>20

\* A call that asks for nothing more leaves the others' requests alone.
LEMMA ForgetRequests ==
    ASSUME BridgeTypeOK, RequestInv, NEW c \in Calls, Forget(c),
           UNCHANGED <<tool, promised, said>>,
           \A e \in Calls \ {c} : pc'[e] = pc[e],
           id[c] # 0 => pending[id[c]] # NoAnswer
    PROVE  RequestInv' /\ id' \in [Calls -> Nat] /\ UNCHANGED <<call_id, posted>> /\ id'[c] = 0
<1> DEFINE Asks(e) == IF pc'[e] = "new" THEN "policy"
                      ELSE IF pc'[e] = "asking" THEN "approver" ELSE tool'[e]
           Lives(p) == /\ id'[p.call] # 0 /\ p.id = id'[p.call] /\ p.of = Asks(p.call)
                       /\ pending'[p.id] = NoAnswer
<1>1. /\ id' \in [Calls -> Nat] /\ id'[c] = 0
      /\ \A e \in Calls \ {c} : id'[e] = id[e]
      /\ UNCHANGED <<call_id, posted>>
  BY DEF Forget, BridgeTypeOK
<1>2. /\ DOMAIN pending' = DOMAIN pending \ {id[c]}
      /\ \A n \in DOMAIN pending \ {id[c]} : pending'[n] = pending[n]
  BY DEF Forget
<1>3. \A d, e \in Calls : id[d] = id[e] /\ id[d] # 0 => d = e
  BY DEF RequestInv
<1>4. \A e \in Calls \ {c} : id[e] # 0 =>
          id[e] \in DOMAIN pending \ {id[c]} /\ pending'[id[e]] = pending[id[e]]
  <2>1. \A e \in Calls : id[e] # 0 => id[e] \in DOMAIN pending
    BY DEF RequestInv
  <2> QED BY <1>2, <1>3, <2>1
<1>5. \A p \in Requests : Live(p) => Lives(p)
  <2> SUFFICES ASSUME NEW p \in Requests, Live(p) PROVE Lives(p)
    OBVIOUS
  <2>1. p.call \in Calls /\ p.call # c
    BY DEF Live, Requests
  <2>2. Asks(p.call) = AskedBy(p.call)
    BY <2>1 DEF AskedBy
  <2> QED BY <1>1, <1>4, <2>1, <2>2 DEF Live
<1> HIDE DEF Asks, Lives
<1>6. DOMAIN pending' = {id'[e] : e \in {d \in Calls : id'[d] # 0}}
  <2>1. \A n \in DOMAIN pending' : \E e \in Calls : id'[e] # 0 /\ id'[e] = n
    <3> SUFFICES ASSUME NEW n \in DOMAIN pending' PROVE \E e \in Calls : id'[e] # 0 /\ id'[e] = n
      OBVIOUS
    <3>1. n \in DOMAIN pending /\ n # id[c]
      BY <1>2
    <3>2. PICK e \in Calls : id[e] # 0 /\ id[e] = n
      BY <3>1 DEF RequestInv
    <3> QED BY <1>1, <3>1, <3>2
  <2>2. \A e \in Calls : id'[e] # 0 => id'[e] \in DOMAIN pending'
    BY <1>1, <1>2, <1>4
  <2> QED BY <2>1, <2>2
<1>7. \A e \in Calls : id'[e] <= call_id'
  <2>1. \A e \in Calls : id[e] <= call_id /\ id[e] \in Nat
    BY DEF RequestInv, BridgeTypeOK
  <2>2. call_id \in Nat
    BY DEF BridgeTypeOK
  <2> QED BY <1>1, <2>1, <2>2
<1>8. \A d, e \in Calls : id'[d] = id'[e] /\ id'[d] # 0 => d = e
  BY <1>1, <1>3
<1>9. \A p \in promised' : Lives(p)
  BY <1>5 DEF RequestInv, BridgeTypeOK
<1>10. \A x \in Asked : \A i \in DOMAIN posted'[x] :
          /\ Lives(posted'[x][i]) /\ posted'[x][i].of = x /\ posted'[x][i] \notin promised'
          /\ \A j \in DOMAIN posted'[x] : posted'[x][i].id = posted'[x][j].id => i = j
  <2> TAKE x \in Asked
  <2> TAKE i \in DOMAIN posted'[x]
  <2>1. posted'[x] = posted[x] /\ posted[x][i] \in Requests
    BY <1>1 DEF BridgeTypeOK
  <2> QED BY <1>5, <2>1 DEF RequestInv
<1>11. \A e \in Calls : id'[e] # 0 =>
          IF pending'[id'[e]] = NoAnswer THEN Posted(e)' \/ Promised(e)'
          ELSE /\ pending'[id'[e]].call = e
               /\ pc'[e] = "asking" => pending'[id'[e]].says = said'[e]
  <2> SUFFICES ASSUME NEW e \in Calls \ {c}, id[e] # 0
               PROVE  IF pending'[id'[e]] = NoAnswer THEN Posted(e)' \/ Promised(e)'
                      ELSE /\ pending'[id'[e]].call = e
                           /\ pc'[e] = "asking" => pending'[id'[e]].says = said'[e]
    BY <1>1
  <2>1. id'[e] = id[e] /\ pc'[e] = pc[e] /\ pending'[id'[e]] = pending[id[e]]
    BY <1>1, <1>4
  <2>2. (Promised(e) => Promised(e)') /\ (Posted(e) => Posted(e)')
    BY <1>1, <2>1 DEF Promised, Posted
  <2> QED BY <2>1, <2>2 DEF RequestInv
<1> QED BY <1>1, <1>6, <1>7, <1>8, <1>9, <1>10, <1>11 DEF RequestInv, Live, AskedBy, Lives, Asks

\* What the worker of a call does to it beyond the gate.
LEMMA CallStep ==
    ASSUME BridgeIInv, "ask" \notin Answers, NEW c \in Calls,
           UNCHANGED <<cast, tool, at, promised, said, endVars, js>>, UNCHANGED heard,
           \A e \in Calls \ {c} : pc'[e] = pc[e],
           ~Direct, of' \in [Calls -> Turns \cup {NoTurn}], of'[c] # NoTurn,
           \A e \in Calls \ {c} : of'[e] = of[e],
           id[c] # 0 => pending[id[c]] # NoAnswer,
           \/ Forget(c)
           \/ /\ \E ch \in Asked : Ask(c, ch) /\ ch = AskedBy(c)'
              /\ pc'[c] = "running" => tool[c] \in JsTools,
           GateInv', ApprovedInv'
    PROVE  BridgeIInv'
<1> USE DEF BridgeIInv
<1>1. /\ RequestInv'
      /\ id' \in [Calls -> Nat] /\ call_id' \in Nat /\ DOMAIN posted' = Channels
      /\ \A x \in Asked : posted'[x] \in Seq(Requests)
      /\ \A t \in Turns : posted'[t] = posted[t]
      /\ pc'[c] = "running" /\ tool[c] \notin JsTools => id'[c] = 0
      /\ \A e \in Calls \ {c} : id'[e] = id[e]
  <2>1. CASE Forget(c)
    <3>1. RequestInv' /\ id' \in [Calls -> Nat] /\ UNCHANGED <<call_id, posted>> /\ id'[c] = 0
      BY <2>1, ForgetRequests
    <3>2. \A e \in Calls \ {c} : id'[e] = id[e]
      BY <2>1 DEF Forget, BridgeTypeOK
    <3> QED BY <3>1, <3>2 DEF BridgeTypeOK
  <2>2. ASSUME NEW ch \in Asked, Ask(c, ch), ch = AskedBy(c)',
               pc'[c] = "running" => tool[c] \in JsTools
        PROVE  /\ RequestInv'
               /\ id' \in [Calls -> Nat] /\ call_id' \in Nat /\ DOMAIN posted' = Channels
               /\ \A x \in Asked : posted'[x] \in Seq(Requests)
               /\ \A t \in Turns : posted'[t] = posted[t]
               /\ pc'[c] = "running" /\ tool[c] \notin JsTools => id'[c] = 0
               /\ \A e \in Calls \ {c} : id'[e] = id[e]
    <3>1. \A e \in Calls \ {c} : id'[e] = id[e]
      BY <2>2 DEF Ask, BridgeTypeOK
    <3>2. /\ RequestInv'
          /\ id' \in [Calls -> Nat] /\ call_id' \in Nat /\ DOMAIN posted' = Channels
          /\ \A x \in Asked : posted'[x] \in Seq(Requests)
          /\ \A t \in Turns : posted'[t] = posted[t]
      BY <2>2, AskRequests
    <3> QED BY <2>2, <3>1, <3>2
  <2> QED BY <2>1, <2>2
<1>2. BridgeTypeOK'
  <2>1. \A t \in Turns : posted'[t] \in Seq(Events)
    BY <1>1 DEF BridgeTypeOK
  <2> QED BY <1>1, <2>1 DEF BridgeTypeOK, endVars
<1>3. TurnInv' /\ EndsAreTold'
  <2>1. resolved \subseteq Turns
    BY DEF BridgeTypeOK
  <2> QED BY <1>1, <2>1, TurnFrame DEF endVars
<1>4. BegunInv'
  <2>1. UNCHANGED kind /\ ~Direct'
    BY DEF Direct, kind
  <2>2. \A e \in Calls : of'[e] = NoTurn => id'[e] = 0 /\ pc'[e] = "new"
    BY <1>1 DEF BegunInv
  <2>3. \A e \in Calls : pc'[e] = "running" /\ tool'[e] \notin JsTools => id'[e] = 0
    BY <1>1 DEF BegunInv
  <2> QED BY <2>1, <2>2, <2>3 DEF BegunInv, Direct
<1> QED BY <1>1, <1>2, <1>3, <1>4

LEMMA GoesOn ==
    ASSUME NEW c \in Calls, GoOn(c), UNCHANGED tool, tool \in [Calls -> Tools], pc'[c] # "new"
    PROVE  \/ Forget(c)
           \/ /\ \E ch \in Asked : Ask(c, ch) /\ ch = AskedBy(c)'
              /\ pc'[c] = "running" => tool[c] \in JsTools
<1>1. CASE pc'[c] = "asking"
  BY <1>1 DEF GoOn, AskedBy, Asked
<1>2. CASE pc'[c] = "running" /\ tool[c] \in JsTools
  BY <1>2 DEF GoOn, AskedBy, Asked
<1>3. CASE pc'[c] # "asking" /\ ~(pc'[c] = "running" /\ tool[c] \in JsTools)
  BY <1>3 DEF GoOn
<1> QED BY <1>1, <1>2, <1>3

\* Approval is not touched where neither the list nor the words of approvers
\* change and no call is granted by one.
LEMMA ApprovedFrame ==
    ASSUME BridgeIInv, UNCHANGED <<cast, tool, always, said>>, NEW c \in Calls,
           grants[c] = "nobody" \/ grants'[c] = grants[c], grants'[c] # "allow" \/ grants'[c] = grants[c],
           \A e \in Calls \ {c} : grants'[e] = grants[e]
    PROVE  ApprovedInv'
<1>1. \A e \in Calls : grants'[e] = "allow" <=> grants[e] = "allow"
  OBVIOUS
<1> QED BY <1>1 DEF BridgeIInv, ApprovedInv, Direct, kind, Allows

LEMMA BeginInv ==
    ASSUME BridgeIInv, "ask" \notin Answers, NEW t \in Turns, NEW c \in Calls, Begin(t, c)
    PROVE  BridgeIInv'
<1> USE DEF BridgeIInv
<1>1. /\ UNCHANGED <<cast, at, promised, said, endVars, js>> /\ UNCHANGED heard
      /\ at[t] = "running" /\ of[c] = NoTurn /\ of' = [of EXCEPT ![c] = t]
  BY DEF Begin, WorkStep, Free, endVars
<1>2. ~Direct
  BY <1>1 DEF BegunInv, Direct
<1>3. id[c] = 0 /\ pc[c] = "new"
  BY <1>1, <1>2 DEF BegunInv
<1>4. /\ of' \in [Calls -> Turns \cup {NoTurn}] /\ of'[c] # NoTurn
      /\ \A e \in Calls \ {c} : of'[e] = of[e]
  BY <1>1, BridgeAssumption DEF BridgeTypeOK
<1>5. CASE Allowlisted(c) /\ GoOn(c)
  <2>1. GateInv'
    BY <1>5, OpensInv
  <2>2. /\ pc' = [pc EXCEPT ![c] = "running"] /\ grants' = [grants EXCEPT ![c] = "allowlist"]
        /\ UNCHANGED <<tool, always>> /\ grants[c] = "nobody"
    BY <1>5 DEF Allowlisted, Goes, GrantedBy, GateInv, GrantsSound
  <2>3. /\ \A e \in Calls \ {c} : pc'[e] = pc[e] /\ grants'[e] = grants[e]
        /\ pc'[c] = "running" /\ grants'[c] = "allowlist" /\ tool \in [Calls -> Tools]
    BY <2>2 DEF GateInv, TypeOK
  <2>4. ApprovedInv'
    BY <1>1, <2>2, <2>3, ApprovedFrame
  <2> QED BY <1>1, <1>2, <1>3, <1>4, <1>5, <2>1, <2>2, <2>3, <2>4, GoesOn, CallStep
<1>6. CASE UNCHANGED gateVars /\ Ask(c, "policy")
  <2>1. GateInv'
    BY <1>6, NextInv DEF vars, gateVars
  <2>2. UNCHANGED <<pc, tool, always, grants>>
    BY <1>6 DEF gateVars
  <2>3. ApprovedInv'
    BY <1>1, <2>2, ApprovedFrame
  <2>4. "policy" \in Asked /\ AskedBy(c)' = "policy"
    BY <1>3, <2>2 DEF Asked, AskedBy
  <2> QED BY <1>1, <1>2, <1>3, <1>4, <1>6, <2>1, <2>2, <2>3, <2>4, CallStep
<1> QED BY <1>5, <1>6 DEF Begin

\* A call that is under way belongs to a turn of the addon.
LEMMA UnderWay ==
    ASSUME BridgeIInv, NEW c \in Calls, of[c] # NoTurn, UNCHANGED of, WorkStep
    PROVE  /\ UNCHANGED <<cast, at, promised, said, endVars, js>> /\ UNCHANGED heard
           /\ ~Direct /\ of' \in [Calls -> Turns \cup {NoTurn}] /\ of'[c] # NoTurn
           /\ \A e \in Calls \ {c} : of'[e] = of[e]
<1>1. UNCHANGED <<cast, at, promised, said, endVars, js>> /\ UNCHANGED heard
  BY DEF WorkStep, endVars
<1>2. ~Direct
  BY DEF BegunInv, BridgeIInv
<1> QED BY <1>1, <1>2 DEF BridgeIInv, BridgeTypeOK

LEMMA PolicyHeardInv ==
    ASSUME BridgeIInv, "ask" \notin Answers, NEW c \in Calls, PolicyHeard(c)
    PROVE  BridgeIInv'
<1> USE DEF BridgeIInv
<1>1. of[c] # NoTurn /\ UNCHANGED of /\ WorkStep /\ Judged(c) /\ GoOn(c)
      /\ pending[id[c]] # NoAnswer
  BY DEF PolicyHeard, Answered
<1>2. GateInv'
  BY <1>1, OpensInv
<1>3. /\ UNCHANGED <<tool, always>> /\ grants[c] = "nobody"
      /\ \E to \in {"running", "denied", "asking"} : pc' = [pc EXCEPT ![c] = to]
      /\ grants' = grants \/ grants' = [grants EXCEPT ![c] = "policy"]
  BY <1>1 DEF Judged, Goes, GrantedBy, GateInv, GrantsSound
<1>4. /\ \A e \in Calls \ {c} : pc'[e] = pc[e] /\ grants'[e] = grants[e]
      /\ pc'[c] # "new" /\ grants'[c] # "allow" /\ tool \in [Calls -> Tools]
  BY <1>3 DEF GateInv, TypeOK
<1>5. UNCHANGED <<cast, said>>
  BY <1>1 DEF WorkStep
<1>6. ApprovedInv'
  BY <1>3, <1>4, <1>5, ApprovedFrame
<1> QED BY <1>1, <1>2, <1>3, <1>4, <1>6, UnderWay, GoesOn, CallStep

LEMMA ToolDoneInv ==
    ASSUME BridgeIInv, "ask" \notin Answers, NEW c \in Calls, ToolDone(c)
    PROVE  BridgeIInv'
<1> USE DEF BridgeIInv
<1>1. of[c] # NoTurn /\ UNCHANGED of /\ WorkStep /\ ToolEnds(c) /\ Forget(c)
  BY DEF ToolDone
<1>2. GateInv'
  BY <1>1, OtherInv
<1>3. /\ UNCHANGED <<tool, always, grants>> /\ pc[c] = "running"
      /\ pc' = [pc EXCEPT ![c] = "ran"]
  BY <1>1 DEF ToolEnds, Goes
<1>4. id[c] # 0 => pending[id[c]] # NoAnswer
  BY <1>3 DEF ToolDone, Answered, BegunInv
<1>5. \A e \in Calls \ {c} : pc'[e] = pc[e]
  BY <1>3 DEF GateInv, TypeOK
<1>6. UNCHANGED <<cast, said>>
  BY <1>1 DEF WorkStep
<1>7. ApprovedInv'
  BY <1>3, <1>6, ApprovedFrame
<1> QED BY <1>1, <1>2, <1>3, <1>4, <1>5, <1>7, UnderWay, CallStep

\* The word the worker takes from the promise is the approver's own.
LEMMA ApproverHeardInv ==
    ASSUME BridgeIInv, "ask" \notin Answers, NEW c \in Calls, ApproverHeard(c)
    PROVE  BridgeIInv'
<1> USE DEF BridgeIInv
<1> DEFINE v == pending[id[c]].says
           d == IF Allows(v) THEN "allow" ELSE "deny"
<1>1. /\ of[c] # NoTurn /\ UNCHANGED of /\ WorkStep /\ GoOn(c)
      /\ pending[id[c]] # NoAnswer /\ id[c] \in DOMAIN pending
      /\ Answer(c, d, v = "always")
  BY DEF ApproverHeard, Answered
<1>2. d \in Answers /\ (v = "always") \in BOOLEAN
  BY BridgeAssumption
<1>3. pc[c] = "asking" /\ UNCHANGED tool
  BY <1>1 DEF Answer
<1>4. v = said[c]
  <2>1. id[c] # 0
    BY <1>1 DEF RequestInv
  <2> QED BY <1>1, <1>3, <2>1 DEF RequestInv
<1> HIDE DEF v
<1>5. GateInv'
  BY <1>1, <1>2, AnswerInv
<1>6. /\ pc' = [pc EXCEPT ![c] = IF Allows(v) THEN "running" ELSE "denied"]
      /\ grants' = IF Allows(v) THEN [grants EXCEPT ![c] = "allow"] ELSE grants
      /\ always' = IF v = "always" THEN always \cup {tool[c]} ELSE always
  BY <1>1 DEF Answer, Goes, GrantedBy, Allows
<1>7. /\ \A e \in Calls \ {c} : pc'[e] = pc[e] /\ grants'[e] = grants[e]
      /\ pc'[c] # "new" /\ tool \in [Calls -> Tools]
      /\ grants'[c] = IF Allows(v) THEN "allow" ELSE grants[c]
  BY <1>6 DEF GateInv, TypeOK
<1>8. UNCHANGED <<cast, said>>
  BY <1>1 DEF WorkStep
<1>9. ApprovedInv'
  <2>1. \A e \in Calls : grants[e] = "allow" => grants'[e] = "allow"
    BY <1>7
  <2>2. ~Direct
    BY <1>1 DEF BegunInv
  <2>3. \A e \in Calls : grants'[e] = "allow" => Allows(said[e])
    BY <1>4, <1>7, <2>2 DEF ApprovedInv
  <2>4. \A n \in always' : \E e \in Calls : tool[e] = n /\ said[e] = "always" /\ grants'[e] = "allow"
    BY <1>4, <1>6, <1>7, <2>1, <2>2 DEF ApprovedInv, Allows
  <2> QED BY <1>3, <1>8, <2>3, <2>4 DEF ApprovedInv, Allows
<1> QED BY <1>1, <1>3, <1>5, <1>7, <1>9, UnderWay, GoesOn, CallStep

-----------------------------------------------------------------------------
(* What JavaScript answers *)

\* A promise gets its value: the request it was asked by is out of the way, the
\* others are where they were.
LEMMA ResolveRequests ==
    ASSUME BridgeIInv, NEW p \in Requests, Live(p), NEW v \in Values(p), Resolve(p, v),
           UNCHANGED <<cast, gateVars, of, id, call_id>>, promised' = promised \ {p},
           \A x \in Asked : \A i \in DOMAIN posted'[x] :
              /\ posted'[x][i] # p
              /\ \E k \in DOMAIN posted[x] : posted'[x][i] = posted[x][k]
              /\ \A j \in DOMAIN posted'[x] : posted'[x][i].id = posted'[x][j].id => i = j,
           \A c \in Calls : id[c] # p.id /\ Posted(c) => Posted(c)'
    PROVE  RequestInv' /\ ApprovedInv' /\ said' \in [Calls -> Says]
<1> USE DEF BridgeIInv
<1> DEFINE Lives(q) == /\ id[q.call] # 0 /\ q.id = id[q.call] /\ q.of = AskedBy(q.call)
                       /\ pending'[q.id] = NoAnswer
           a == [call |-> p.call, says |-> v]
<1>1. /\ UNCHANGED <<pc, tool, policy, always, grants>>
      /\ p.call \in Calls /\ p.id = id[p.call] /\ id[p.call] # 0 /\ p.of = AskedBy(p.call)
      /\ v \in Says
  BY DEF gateVars, Live, Requests, Values, Says
<1>2. a # NoAnswer /\ a.call = p.call /\ a.says = v
  BY <1>1, BridgeAssumption
<1> HIDE DEF a
<1>3. /\ p.id \in DOMAIN pending /\ DOMAIN pending' = DOMAIN pending /\ pending'[p.id] = a
      /\ \A n \in DOMAIN pending \ {p.id} : pending'[n] = pending[n]
  <2>1. p.id \in DOMAIN pending
    BY <1>1 DEF RequestInv
  <2> QED BY <2>1 DEF Resolve, a
<1>4. \A c, d \in Calls : id[c] = id[d] /\ id[c] # 0 => c = d
  BY DEF RequestInv
<1>5. \A q \in Requests : Live(q) /\ q # p => Lives(q)
  <2> SUFFICES ASSUME NEW q \in Requests, Live(q), q # p PROVE Lives(q)
    OBVIOUS
  <2>1. q.id # p.id
    BY SameRequest
  <2>2. q.id \in DOMAIN pending
    BY DEF Live, RequestInv, Requests
  <2> QED BY <1>3, <2>1, <2>2 DEF Live
<1> HIDE DEF Lives
<1>7. \A q \in promised' : Lives(q)
  BY <1>5 DEF RequestInv, BridgeTypeOK
<1>8. \A x \in Asked : \A i \in DOMAIN posted'[x] :
          Lives(posted'[x][i]) /\ posted'[x][i].of = x /\ posted'[x][i] \notin promised'
  <2> SUFFICES ASSUME NEW x \in Asked, NEW i \in DOMAIN posted'[x], NEW k \in DOMAIN posted[x],
                      posted'[x][i] = posted[x][k], posted[x][k] # p
               PROVE  Lives(posted[x][k]) /\ posted[x][k].of = x /\ posted[x][k] \notin promised'
    OBVIOUS
  <2>1. posted[x][k] \in Requests
    BY DEF BridgeTypeOK
  <2> QED BY <1>5, <2>1 DEF RequestInv
<1>9. said' \in [Calls -> Says]
  BY <1>1 DEF Resolve, BridgeTypeOK
<1>10. \A c \in Calls : id[c] # 0 =>
          IF pending'[id[c]] = NoAnswer THEN Posted(c)' \/ Promised(c)'
          ELSE /\ pending'[id[c]].call = c
               /\ pc[c] = "asking" => pending'[id[c]].says = said'[c]
  <2> SUFFICES ASSUME NEW c \in Calls, id[c] # 0
               PROVE  IF pending'[id[c]] = NoAnswer THEN Posted(c)' \/ Promised(c)'
                      ELSE /\ pending'[id[c]].call = c
                           /\ pc[c] = "asking" => pending'[id[c]].says = said'[c]
    OBVIOUS
  <2>1. CASE c = p.call
    <3>1. pc[c] = "asking" => p.of = "approver"
      BY <1>1, <2>1 DEF AskedBy
    <3>2. p.of = "approver" => said'[c] = v
      BY <1>1, <2>1 DEF Resolve, BridgeTypeOK
    <3> QED BY <1>1, <1>2, <1>3, <2>1, <3>1, <3>2
  <2>2. CASE c # p.call
    <3>1. id[c] # p.id /\ id[c] \in DOMAIN pending
      BY <1>1, <1>4, <2>2 DEF RequestInv
    <3>2. pending'[id[c]] = pending[id[c]] /\ said'[c] = said[c]
      BY <1>3, <2>2, <3>1 DEF Resolve, BridgeTypeOK
    <3>3. Promised(c) => Promised(c)'
      BY <3>1 DEF Promised
    <3> QED BY <3>1, <3>2, <3>3 DEF RequestInv
  <2> QED BY <2>1, <2>2
<1>11. RequestInv'
  <2>1. DOMAIN pending' = {id'[c] : c \in {d \in Calls : id'[d] # 0}}
    BY <1>3 DEF RequestInv
  <2>2. \A c \in Calls : id'[c] <= call_id'
    BY DEF RequestInv
  <2>3. \A x \in Asked : \A i, j \in DOMAIN posted'[x] :
            posted'[x][i].id = posted'[x][j].id => i = j
    OBVIOUS
  <2>4. \A q : Lives(q) => Live(q)'
    BY <1>1 DEF Live, AskedBy, Lives
  <2>5. \A q \in promised' : Live(q)'
    BY <1>7, <2>4
  <2>6. (\A x \in Asked : \A i \in DOMAIN posted[x] :
             Live(posted[x][i]) /\ posted[x][i].of = x /\ posted[x][i] \notin promised)'
    BY <1>1, <1>8 DEF Live, AskedBy, Lives
  <2>7. \A c, d \in Calls : id'[c] = id'[d] /\ id'[c] # 0 => c = d
    BY <1>4
  <2>8. \A c \in Calls : id'[c] # 0 =>
            IF pending'[id'[c]] = NoAnswer THEN Posted(c)' \/ Promised(c)'
            ELSE /\ pending'[id'[c]].call = c
                 /\ pc'[c] = "asking" => pending'[id'[c]].says = said'[c]
    BY <1>1, <1>10
  <2> QED BY <2>1, <2>2, <2>3, <2>5, <2>6, <2>7, <2>8 DEF RequestInv
<1>12. ApprovedInv'
  <2>1. p.of = "approver" => pc[p.call] = "asking"
    BY <1>1, ChannelFacts DEF AskedBy, GateInv, TypeOK
  <2>2. p.of = "approver" => grants[p.call] = "nobody"
    BY <1>1, <2>1 DEF GateInv, GrantsSound
  <2>3. \A c \in Calls : grants[c] = "allow" => said'[c] = said[c]
    BY <1>1, <2>2 DEF Resolve, BridgeTypeOK
  <2> QED BY <1>1, <2>3 DEF ApprovedInv, Direct, kind, Allows
<1> QED BY <1>9, <1>11, <1>12

\* A request that is taken from the queue is the one at its head.
LEMMA ReceiveFacts ==
    ASSUME BridgeIInv, NEW ch \in Asked, Receive(ch)
    PROVE  \E p \in Requests :
           /\ p = Head(posted[ch]) /\ Live(p) /\ p.of = ch /\ p \notin promised
           /\ DOMAIN posted' = Channels /\ \A x \in Asked : posted'[x] \in Seq(Requests)
           /\ \A t \in Turns : posted'[t] = posted[t]
           /\ \A x \in Asked : \A i \in DOMAIN posted'[x] :
                /\ posted'[x][i].id # p.id
                /\ \E k \in DOMAIN posted[x] : posted'[x][i] = posted[x][k]
                /\ \A j \in DOMAIN posted'[x] : posted'[x][i].id = posted'[x][j].id => i = j
           /\ \A c \in Calls : id[c] # p.id /\ Posted(c) => Posted(c)'
<1> USE DEF BridgeIInv
<1> DEFINE s == posted[ch]
           p == Head(posted[ch])
<1>1. s \in Seq(Requests) /\ s # <<>> /\ ch \in DOMAIN posted /\ UNCHANGED id
  BY ChannelFacts DEF Receive, BridgeTypeOK, JsStep
<1>2. \A i \in DOMAIN s : /\ Live(s[i]) /\ s[i].of = ch /\ s[i] \notin promised
                          /\ \A j \in DOMAIN s : s[i].id = s[j].id => i = j
  BY DEF RequestInv
<1>3. /\ posted'[ch] = Tail(s) /\ DOMAIN posted' = Channels
      /\ \A x \in Channels \ {ch} : posted'[x] = posted[x]
  BY <1>1 DEF Receive, BridgeTypeOK
<1>4. p = s[1] /\ p \in Requests
  BY <1>1
<1> HIDE DEF s, p
<1>5. /\ Tail(s) \in Seq(Requests) /\ 1 \in DOMAIN s /\ DOMAIN s = 1..Len(s) /\ Len(s) \in Nat
      /\ DOMAIN Tail(s) = 1..(Len(s) - 1)
      /\ \A i \in 1..(Len(s) - 1) : Tail(s)[i] = s[i + 1]
  BY <1>1
<1>6. Live(p) /\ p.of = ch /\ p \notin promised
  BY <1>2, <1>4, <1>5
<1>7. \A i \in DOMAIN Tail(s) : i + 1 \in DOMAIN s /\ Tail(s)[i] = s[i + 1] /\ i + 1 # 1
  BY <1>5
<1>8. \A i \in DOMAIN s : i # 1 => i - 1 \in DOMAIN Tail(s) /\ Tail(s)[i - 1] = s[i]
  BY <1>5
<1>9. /\ \A x \in Asked : posted'[x] \in Seq(Requests)
      /\ \A t \in Turns : posted'[t] = posted[t]
  BY <1>3, <1>5, ChannelFacts DEF BridgeTypeOK
<1>10. ASSUME NEW x \in Asked, NEW i \in DOMAIN posted'[x]
       PROVE  /\ posted'[x][i].id # p.id
              /\ \E k \in DOMAIN posted[x] : posted'[x][i] = posted[x][k]
              /\ \A j \in DOMAIN posted'[x] : posted'[x][i].id = posted'[x][j].id => i = j
  <2>1. CASE x = ch
    <3>1. \A j \in DOMAIN Tail(s) : j \in Nat
      BY <1>5
    <3>2. Tail(s)[i].id # p.id
      BY <2>1, <1>2, <1>3, <1>4, <1>5, <1>7
    <3>3. \A j \in DOMAIN Tail(s) : Tail(s)[i].id = Tail(s)[j].id => i + 1 = j + 1
      BY <2>1, <1>2, <1>3, <1>7
    <3> QED BY <2>1, <3>1, <3>2, <3>3, <1>3, <1>7 DEF s
  <2>2. CASE x # ch
    <3>1. posted'[x] = posted[x]
      BY <2>2, <1>3, ChannelFacts
    <3>2. posted[x][i] \in Requests /\ Live(posted[x][i]) /\ posted[x][i].of = x
      BY <3>1 DEF RequestInv, BridgeTypeOK
    <3>3. posted[x][i].id # p.id
      BY <1>4, <1>6, <2>2, <3>2, SameRequest
    <3> QED BY <3>1, <3>3 DEF RequestInv
  <2> QED BY <2>1, <2>2
<1>11. ASSUME NEW c \in Calls, id[c] # p.id, NEW x \in Asked, NEW i \in DOMAIN posted[x],
              posted[x][i].id = id[c], posted[x][i].call = c
       PROVE  \E y \in Asked : \E j \in DOMAIN posted'[y] :
                   posted'[y][j].id = id[c] /\ posted'[y][j].call = c
  <2>1. CASE x = ch
    <3>1. i # 1 /\ i \in DOMAIN s /\ s[i] = posted[x][i]
      BY <1>4, <1>11, <2>1 DEF s
    <3>2. i - 1 \in DOMAIN posted'[ch] /\ posted'[ch][i - 1] = posted[x][i]
      BY <1>3, <1>8, <3>1
    <3> QED BY <1>11, <3>2
  <2>2. CASE x # ch
    BY <2>2, <1>3, <1>11, ChannelFacts
  <2> QED BY <2>1, <2>2
<1>12. \A c \in Calls : id[c] # p.id /\ Posted(c) => Posted(c)'
  BY <1>1, <1>11 DEF Posted
<1> HIDE DEF p
<1>13. p = Head(posted[ch])
  BY DEF p
<1> QED BY <1>3, <1>4, <1>6, <1>9, <1>10, <1>12, <1>13

\* A request that is answered with a promise waits there instead.
LEMMA PromiseRequests ==
    ASSUME BridgeIInv, NEW p \in Requests, Live(p),
           UNCHANGED <<cast, gateVars, of, id, call_id, pending, said>>,
           promised' = promised \cup {p},
           \A x \in Asked : \A i \in DOMAIN posted'[x] :
              /\ posted'[x][i].id # p.id
              /\ \E k \in DOMAIN posted[x] : posted'[x][i] = posted[x][k]
              /\ \A j \in DOMAIN posted'[x] : posted'[x][i].id = posted'[x][j].id => i = j,
           \A c \in Calls : id[c] # p.id /\ Posted(c) => Posted(c)'
    PROVE  RequestInv'
<1> USE DEF BridgeIInv
<1> DEFINE Lives(q) == /\ id[q.call] # 0 /\ q.id = id[q.call] /\ q.of = AskedBy(q.call)
                       /\ pending[q.id] = NoAnswer
<1>1. UNCHANGED <<pc, tool>> /\ \A q : Live(q) => Lives(q)
  BY DEF gateVars, Live
<1> HIDE DEF Lives
<1>2. \A q \in promised' : Lives(q)
  BY <1>1 DEF RequestInv
<1>3. \A x \in Asked : \A i \in DOMAIN posted'[x] :
          Lives(posted'[x][i]) /\ posted'[x][i].of = x /\ posted'[x][i] \notin promised'
  <2> SUFFICES ASSUME NEW x \in Asked, NEW i \in DOMAIN posted'[x], NEW k \in DOMAIN posted[x],
                      posted'[x][i] = posted[x][k], posted[x][k].id # p.id
               PROVE  Lives(posted[x][k]) /\ posted[x][k].of = x /\ posted[x][k] \notin promised'
    OBVIOUS
  <2> QED BY <1>1 DEF RequestInv
<1>4. \A c \in Calls : id[c] # 0 =>
          IF pending[id[c]] = NoAnswer THEN Posted(c)' \/ Promised(c)'
          ELSE /\ pending[id[c]].call = c
               /\ pc[c] = "asking" => pending[id[c]].says = said[c]
  <2> SUFFICES ASSUME NEW c \in Calls, id[c] # 0, pending[id[c]] = NoAnswer
               PROVE  Posted(c)' \/ Promised(c)'
    BY DEF RequestInv
  <2>1. Posted(c) \/ Promised(c)
    BY DEF RequestInv
  <2>2. id[c] = p.id => p.call = c
    BY DEF RequestInv, Live, Requests
  <2>3. (id[c] = p.id \/ Promised(c)) => Promised(c)'
    BY <2>2 DEF Promised
  <2> QED BY <2>1, <2>3
<1>5. \A x \in Asked : \A i, j \in DOMAIN posted'[x] :
          posted'[x][i].id = posted'[x][j].id => i = j
  OBVIOUS
<1>6. /\ DOMAIN pending' = {id'[c] : c \in {d \in Calls : id'[d] # 0}}
      /\ \A c \in Calls : id'[c] <= call_id'
      /\ \A c, d \in Calls : id'[c] = id'[d] /\ id'[c] # 0 => c = d
  BY DEF RequestInv
<1>7. \A q : Lives(q) => Live(q)'
  BY <1>1 DEF Live, AskedBy, Lives
<1>8. \A q \in promised' : Live(q)'
  BY <1>2, <1>7
<1>9. (\A x \in Asked : \A i \in DOMAIN posted[x] :
           Live(posted[x][i]) /\ posted[x][i].of = x /\ posted[x][i] \notin promised)'
  BY <1>1, <1>3 DEF Live, AskedBy, Lives
<1>10. \A c \in Calls : id'[c] # 0 =>
          IF pending'[id'[c]] = NoAnswer THEN Posted(c)' \/ Promised(c)'
          ELSE /\ pending'[id'[c]].call = c
               /\ pc'[c] = "asking" => pending'[id'[c]].says = said'[c]
  BY <1>1, <1>4
<1> QED BY <1>5, <1>6, <1>8, <1>9, <1>10 DEF RequestInv

\* What JavaScript answers leaves turns as they are.
LEMMA JsAnswers ==
    ASSUME BridgeIInv, "ask" \notin Answers,
           UNCHANGED <<cast, gateVars, of, id, call_id, at, endVars, js>>,
           DOMAIN posted' = Channels, \A x \in Asked : posted'[x] \in Seq(Requests),
           \A t \in Turns : posted'[t] = posted[t],
           promised' \subseteq Requests, said' \in [Calls -> Says], RequestInv', ApprovedInv'
    PROVE  BridgeIInv'
<1> USE DEF BridgeIInv
<1>1. GateInv'
  BY NextInv DEF vars, gateVars
<1>2. BridgeTypeOK'
  <2>1. \A t \in Turns : posted'[t] \in Seq(Events)
    BY DEF BridgeTypeOK
  <2> QED BY <2>1 DEF BridgeTypeOK, endVars
<1>3. TurnInv' /\ EndsAreTold'
  <2>1. resolved \subseteq Turns
    BY DEF BridgeTypeOK
  <2> QED BY <2>1, TurnFrame DEF endVars
<1>4. BegunInv'
  BY DEF BegunInv, gateVars, kind, Direct
<1> QED BY <1>1, <1>2, <1>3, <1>4

LEMMA ReceiveInv ==
    ASSUME BridgeIInv, "ask" \notin Answers, NEW ch \in Asked, Receive(ch)
    PROVE  BridgeIInv'
<1> USE DEF BridgeIInv
<1>1. PICK p \in Requests :
           /\ p = Head(posted[ch]) /\ Live(p) /\ p.of = ch /\ p \notin promised
           /\ DOMAIN posted' = Channels /\ \A x \in Asked : posted'[x] \in Seq(Requests)
           /\ \A t \in Turns : posted'[t] = posted[t]
           /\ \A x \in Asked : \A i \in DOMAIN posted'[x] :
                /\ posted'[x][i].id # p.id
                /\ \E k \in DOMAIN posted[x] : posted'[x][i] = posted[x][k]
                /\ \A j \in DOMAIN posted'[x] : posted'[x][i].id = posted'[x][j].id => i = j
           /\ \A c \in Calls : id[c] # p.id /\ Posted(c) => Posted(c)'
  BY ReceiveFacts
<1>2. UNCHANGED <<cast, gateVars, of, id, call_id, at, endVars, js>>
  BY DEF Receive, JsStep
<1>3. /\ promised' \subseteq Requests /\ said' \in [Calls -> Says]
      /\ RequestInv' /\ ApprovedInv'
  <2>1. ASSUME NEW v \in Values(p), Resolve(p, v), UNCHANGED promised
        PROVE  /\ promised' \subseteq Requests /\ said' \in [Calls -> Says]
               /\ RequestInv' /\ ApprovedInv'
    <3>1. promised' = promised \ {p} /\ promised \subseteq Requests
      BY <1>1, <2>1 DEF BridgeTypeOK
    <3>2. \A x \in Asked : \A i \in DOMAIN posted'[x] :
              /\ posted'[x][i] # p
              /\ \E k \in DOMAIN posted[x] : posted'[x][i] = posted[x][k]
              /\ \A j \in DOMAIN posted'[x] : posted'[x][i].id = posted'[x][j].id => i = j
      BY <1>1
    <3>3. Live(p) /\ \A c \in Calls : id[c] # p.id /\ Posted(c) => Posted(c)'
      BY <1>1
    <3> QED BY <1>2, <2>1, <3>1, <3>2, <3>3, ResolveRequests
  <2>2. ASSUME promised' = promised \cup {p}, UNCHANGED <<pending, said>>
        PROVE  /\ promised' \subseteq Requests /\ said' \in [Calls -> Says]
               /\ RequestInv' /\ ApprovedInv'
    <3>1. RequestInv'
      BY <1>1, <1>2, <2>2, PromiseRequests
    <3>2. ApprovedInv'
      BY <1>2, <2>2 DEF ApprovedInv, gateVars, Direct, kind
    <3> QED BY <1>2, <2>2, <3>1, <3>2 DEF BridgeTypeOK
  <2> QED BY <1>1, <2>1, <2>2 DEF Receive
<1> QED BY <1>1, <1>2, <1>3, JsAnswers

LEMMA PromiseSettlesInv ==
    ASSUME BridgeIInv, "ask" \notin Answers, NEW p \in promised, PromiseSettles(p)
    PROVE  BridgeIInv'
<1> USE DEF BridgeIInv
<1>1. PICK v \in Values(p) : Resolve(p, v)
  BY DEF PromiseSettles
<1>2. /\ UNCHANGED <<cast, gateVars, of, id, call_id, at, endVars, js, posted>>
      /\ promised' = promised \ {p}
  BY DEF PromiseSettles, JsStep
<1>3. p \in Requests /\ Live(p) /\ promised' \subseteq Requests
  BY <1>2 DEF BridgeTypeOK, RequestInv
<1>4. /\ DOMAIN posted' = Channels /\ \A x \in Asked : posted'[x] \in Seq(Requests)
      /\ \A t \in Turns : posted'[t] = posted[t]
  BY <1>2 DEF BridgeTypeOK
<1>5. /\ \A x \in Asked : \A i \in DOMAIN posted'[x] :
            /\ posted'[x][i] # p
            /\ \E k \in DOMAIN posted[x] : posted'[x][i] = posted[x][k]
            /\ \A j \in DOMAIN posted'[x] : posted'[x][i].id = posted'[x][j].id => i = j
      /\ \A c \in Calls : id[c] # p.id /\ Posted(c) => Posted(c)'
  BY <1>2 DEF RequestInv, Posted
<1>6. RequestInv' /\ ApprovedInv' /\ said' \in [Calls -> Says]
  BY <1>1, <1>2, <1>3, <1>5, ResolveRequests
<1> QED BY <1>2, <1>3, <1>4, <1>6, JsAnswers

-----------------------------------------------------------------------------
(* The whole *)

\* Used from C++ the gate moves alone; no call of it is the addon's.
LEMMA NativeInv ==
    ASSUME BridgeIInv, "ask" \notin Answers, Native
    PROVE  BridgeIInv'
<1> USE DEF BridgeIInv
<1>1. Direct /\ Next /\ UNCHANGED <<cast, askVars, posted, endVars, at, js>>
  BY DEF Native, bridgeVars
<1>2. UNCHANGED tool
  BY <1>1 DEF Next, Enter, Allowlisted, Judged, AnyAnswer, Answer, ApproverThrows, PolicyThrows,
              ToolEnds, AllSettled, vars
<1>3. GateInv'
  BY <1>1, NextInv
<1>4. \A c \in Calls : id[c] = 0
  BY <1>1 DEF BegunInv
<1>5. /\ promised = {} /\ \A ch \in Asked : DOMAIN posted[ch] = {}
      /\ DOMAIN pending = {} /\ \A c \in Calls : id[c] <= call_id
  <2>1. \A q \in Requests : ~Live(q)
    BY <1>4 DEF Live, Requests
  <2>2. /\ promised \subseteq Requests /\ \A p \in promised : Live(p)
        /\ \A c \in Calls : id[c] <= call_id
        /\ DOMAIN pending = {id[c] : c \in {d \in Calls : id[d] # 0}}
    BY DEF RequestInv, BridgeTypeOK
  <2>3. \A ch \in Asked : \A i \in DOMAIN posted[ch] :
            Live(posted[ch][i]) /\ posted[ch][i] \in Requests
    <3>1. \A ch \in Asked : posted[ch] \in Seq(Requests)
      BY DEF BridgeTypeOK
    <3>2. \A ch \in Asked : \A i \in DOMAIN posted[ch] : Live(posted[ch][i])
      BY DEF RequestInv
    <3> QED BY <3>1, <3>2
  <2> QED BY <1>4, <2>1, <2>2, <2>3
<1>6. RequestInv'
  <2>1. UNCHANGED <<id, call_id, pending, promised, posted, said>>
    BY <1>1 DEF askVars
  <2>2. \A c \in Calls : id'[c] = 0
    BY <1>4, <2>1
  <2> QED BY <1>5, <2>1, <2>2 DEF RequestInv
<1>7. BridgeTypeOK'
  BY <1>1 DEF BridgeTypeOK, askVars, endVars
<1>8. TurnInv' /\ EndsAreTold'
  <2>1. resolved \subseteq Turns
    BY DEF BridgeTypeOK
  <2> QED BY <1>1, <2>1, TurnFrame DEF endVars
<1>9. Direct'
  BY <1>1 DEF Direct, kind
<1>10. BegunInv'
  BY <1>1, <1>2, <1>4, <1>9 DEF BegunInv, askVars, Direct, kind
<1>11. ApprovedInv'
  BY <1>9 DEF ApprovedInv
<1> QED BY <1>3, <1>6, <1>7, <1>8, <1>10, <1>11

LEMMA BridgeInitInv == BridgeInit => BridgeIInv
<1> SUFFICES ASSUME BridgeInit PROVE BridgeIInv
  OBVIOUS
<1>1. GateInv
  BY InitInv DEF BridgeInit
<1>2. /\ at = [t \in Turns |-> "idle"] /\ of = [c \in Calls |-> NoTurn]
      /\ id = [c \in Calls |-> 0] /\ call_id = 0 /\ pending = <<>>
      /\ posted = [ch \in Channels |-> <<>>] /\ promised = {}
      /\ said = [c \in Calls |-> "nothing"] /\ heard = [t \in Turns |-> <<>>]
      /\ active = NoTurn /\ waits = [t \in Turns |-> NoTurn] /\ resolved = {} /\ js = NoTurn
      /\ cast \in Casts
  BY DEF BridgeInit
<1>3. /\ pc = [c \in Calls |-> "new"] /\ always = {} /\ grants = [c \in Calls |-> "nobody"]
  BY DEF BridgeInit, Init
<1>4. \A ch \in Channels : posted[ch] = <<>>
  BY <1>2
<1>5. BridgeTypeOK
  BY <1>2, <1>4, ChannelFacts DEF BridgeTypeOK, Says
<1>6. RequestInv
  BY <1>2, <1>4, ChannelFacts DEF RequestInv
<1>7. BegunInv
  BY <1>2, <1>3 DEF BegunInv
<1>8. ApprovedInv
  BY <1>3 DEF ApprovedInv
<1>9. \A t \in Turns : Sent(t) = <<>>
  <2>1. \A t \in Turns : heard[t] = <<>> /\ posted[t] = <<>>
    BY <1>2, <1>4, ChannelFacts
  <2>2. <<>> \o <<>> = <<>>
    OBVIOUS
  <2> QED BY <2>1, <2>2 DEF Sent
<1>10. EndsAreTold
  BY <1>2, <1>9 DEF EndsAreTold
<1>11. TurnInv
  BY <1>2 DEF TurnInv, Busy
<1> QED BY <1>1, <1>5, <1>6, <1>7, <1>8, <1>10, <1>11 DEF BridgeIInv

LEMMA BridgeNextInv == "ask" \notin Answers /\ BridgeIInv /\ [NodeNext]_nodeVars => BridgeIInv'
<1> SUFFICES ASSUME "ask" \notin Answers, BridgeIInv, [NodeNext]_nodeVars PROVE BridgeIInv'
  OBVIOUS
<1>1. CASE UNCHANGED nodeVars
  <2>1. /\ UNCHANGED <<cast, gateVars, of, id, call_id, at, endVars, js, posted, promised, said>>
        /\ UNCHANGED pending
    BY <1>1 DEF nodeVars, bridgeVars, askVars
  <2>2. RequestInv'
    BY <2>1, RequestFrame DEF gateVars, BridgeIInv
  <2>3. ApprovedInv'
    BY <2>1 DEF ApprovedInv, gateVars, Direct, kind, BridgeIInv
  <2> QED BY <2>1, <2>2, <2>3, JsAnswers DEF BridgeTypeOK, BridgeIInv
<1>2. ASSUME NEW t \in Turns, Work(t) PROVE BridgeIInv'
  <2>1. ASSUME NEW c \in Calls, Begin(t, c) PROVE BridgeIInv'
    BY <2>1, BeginInv
  <2>2. ASSUME NEW c \in Calls, PolicyHeard(c) \/ ApproverHeard(c) \/ ToolDone(c) PROVE BridgeIInv'
    BY <2>2, PolicyHeardInv, ApproverHeardInv, ToolDoneInv
  <2>3. ASSUME NEW e \in {"part", "pause", "finish", "error"}, Emit(t, e) PROVE BridgeIInv'
    BY <2>3, EmitInv
  <2>4. ASSUME NEW ok \in BOOLEAN, Return(t, ok) PROVE BridgeIInv'
    BY <2>4, ReturnInv
  <2>5. ASSUME NEW e \in {"resolve", "reject"}, Settle(t, e) PROVE BridgeIInv'
    BY <2>5, SettleInv
  <2>6. CASE BatchOver(t)
    BY <2>6, BatchInv
  <2> QED BY <1>2, <2>1, <2>2, <2>3, <2>4, <2>5, <2>6 DEF Work
<1>3. ASSUME NEW t \in Turns, Start(t) \/ Resume(t) \/ Arrive(t) \/ Consume(t) \/ Timer(t)
      PROVE  BridgeIInv'
  BY <1>3, StartInv, ResumeInv, ArriveInv, ConsumeInv
<1>4. CASE Rest
  BY <1>1, <1>4 DEF Rest
<1> QED BY <1>1, <1>2, <1>3, <1>4, NativeInv, ReceiveInv, PromiseSettlesInv DEF NodeNext

\* What the invariant is for.
LEMMA BridgeImplies == BridgeIInv => BridgeInv
<1> SUFFICES ASSUME BridgeIInv PROVE BridgeInv
  OBVIOUS
<1> USE DEF BridgeIInv
<1>1. RequestsHeld
  <2>0. /\ \A p \in promised : p \in Requests /\ Live(p)
        /\ \A ch \in Asked : \A i \in DOMAIN posted[ch] :
              /\ posted[ch][i] \in Requests /\ Live(posted[ch][i])
              /\ posted[ch][i] \notin promised
    <3>1. promised \subseteq Requests /\ \A ch \in Asked : posted[ch] \in Seq(Requests)
      BY DEF BridgeTypeOK
    <3>2. /\ \A p \in promised : Live(p)
          /\ \A ch \in Asked : \A i \in DOMAIN posted[ch] :
                Live(posted[ch][i]) /\ posted[ch][i] \notin promised
      BY DEF RequestInv
    <3> QED BY <3>1, <3>2
  <2> SUFFICES ASSUME NEW c \in Calls, id[c] # 0
               PROVE  /\ id[c] \in DOMAIN pending
                      /\ IF Answered(c) THEN pending[id[c]].call = c /\ ~Posted(c) /\ ~Promised(c)
                         ELSE Posted(c) # Promised(c)
    BY DEF RequestsHeld, Open
  <2>1. id[c] \in DOMAIN pending
    BY ZenonT(40) DEF RequestInv
  <2>2. Posted(c) \/ Promised(c) => pending[id[c]] = NoAnswer
    BY <2>0 DEF Posted, Promised, Live
  <2>3. ~(Posted(c) /\ Promised(c))
    <3> SUFFICES ASSUME NEW ch \in Asked, NEW i \in DOMAIN posted[ch], posted[ch][i].id = id[c],
                        NEW p \in promised, p.id = id[c]
                 PROVE  FALSE
      BY DEF Posted, Promised
    <3>1. posted[ch][i] = p
      BY <2>0, SameRequest
    <3> QED BY <2>0, <3>1
  <2>4. IF pending[id[c]] = NoAnswer THEN Posted(c) \/ Promised(c) ELSE pending[id[c]].call = c
    BY DEF RequestInv
  <2>5. Answered(c) <=> pending[id[c]] # NoAnswer
    BY <2>1 DEF Answered
  <2>6. CASE Answered(c)
    BY <2>1, <2>2, <2>4, <2>5, <2>6
  <2>7. CASE ~Answered(c)
    <3>1. Posted(c) \in BOOLEAN /\ Promised(c) \in BOOLEAN
      BY DEF Posted, Promised
    <3> QED BY <2>1, <2>3, <2>4, <2>5, <2>7, <3>1
  <2> QED BY <2>6, <2>7
<1>2. AnswersOwn
  BY DEF ApprovedInv, AnswersOwn
<1>3. SerialTurns
  <2> SUFFICES ASSUME NEW t \in Turns, NEW u \in Turns, t # u, Busy(t), Busy(u), Apart
               PROVE  FALSE
    BY DEF SerialTurns, Apart
  <2> QED BY DEF TurnInv
<1> QED BY <1>1, <1>2, <1>3 DEF BridgeInv

\* With its questions put to the JS thread the gate holds what it promises: one
\* place for every request, every answer its own call's; every stream tells how
\* it ended, and turns of a session overlap only if two waited for the same one.
THEOREM BridgeHolds == ASSUME "ask" \notin Answers PROVE NodeSpec => []BridgeInv
  BY BridgeInitInv, BridgeNextInv, BridgeImplies, PTL DEF NodeSpec

-----------------------------------------------------------------------------
(* Turns in turn *)

\* Under way for a turn of the addon.
Owned(c) == of[c] # NoTurn /\ ~Settled(c)

Current(t) == at[t] \in {"queued", "running"}

\* A turn has at most one call under way; of turns that do not overlap one is
\* current, so that the list does not change while its policy is asked.
InTurnInv ==
    /\ \A c \in Calls : Owned(c) => at[of[c]] = "running" /\ kind[of[c]] # "batch"
    /\ \A c, d \in Calls : Owned(c) /\ Owned(d) /\ of[c] = of[d] => c = d
    /\ ~cast.overlap =>
          /\ \A t, u \in Turns : Current(t) /\ Current(u) => t = u
          /\ \A c \in Calls : of[c] # NoTurn /\ pc[c] = "new" => tool[c] \notin always

\* Where calls stay as they are: turns come one by one, and go when none of
\* their calls is under way.
LEMMA TurnsInTurn ==
    ASSUME BridgeTypeOK, InTurnInv, UNCHANGED <<cast, pc, tool, of, always>>,
           \/ UNCHANGED at
           \/ \E t \in Turns :
                 /\ \A u \in Turns \ {t} : at'[u] = at[u]
                 /\ \/ at'[t] = "gone" /\ \A c \in Calls : of[c] = t => ~Owned(c)
                    \/ at[t] = "idle" /\ (cast.overlap \/ \A u \in Turns : ~Current(u))
                    \/ at[t] = "queued" /\ at'[t] = "running"
    PROVE  InTurnInv'
<1>1. \A c \in Calls : Owned(c)' <=> Owned(c)
  BY DEF Owned, Settled
<1>2. \A c \in Calls : Owned(c) => of[c] \in Turns
  BY DEF Owned, BridgeTypeOK
<1>3. \A c \in Calls : Owned(c) => at'[of[c]] = "running"
  BY <1>2 DEF InTurnInv
<1>4. ~cast.overlap => \A t, u \in Turns : Current(t)' /\ Current(u)' => t = u
  BY DEF InTurnInv, Current
<1> QED BY <1>1, <1>3, <1>4 DEF InTurnInv, kind

\* A call that is under way goes on: it is the only one that could look at the
\* list meanwhile.
LEMMA CallInTurn ==
    ASSUME BridgeTypeOK, InTurnInv, UNCHANGED <<cast, at, of, tool>>,
           NEW c \in Calls, Owned(c), pc'[c] # "new",
           \A d \in Calls \ {c} : pc'[d] = pc[d],
           always' \subseteq always \cup {tool[c]}
    PROVE  InTurnInv'
<1>1. \A d \in Calls : Owned(d)' => Owned(d)
  BY DEF Owned, Settled
<1>2. \A d \in Calls : Owned(d) => of[d] \in Turns /\ Current(of[d])
  BY DEF InTurnInv, Owned, BridgeTypeOK, Current
<1>3. ASSUME ~cast.overlap, NEW d \in Calls, of[d] # NoTurn, pc'[d] = "new"
      PROVE  tool[d] \notin always'
  <2>1. d # c /\ pc[d] = "new"
    BY <1>3
  <2>2. Owned(d)
    BY <1>3, <2>1 DEF Owned, Settled
  <2>3. of[d] = of[c]
    BY <1>2, <1>3, <2>2 DEF InTurnInv
  <2> QED BY <2>1, <2>2, <2>3 DEF InTurnInv
<1> QED BY <1>1, <1>3 DEF InTurnInv, kind, Current

LEMMA BeginInTurn ==
    ASSUME BridgeIInv, InTurnInv, NEW t \in Turns, NEW c \in Calls, Begin(t, c)
    PROVE  InTurnInv'
<1>1. /\ at[t] = "running" /\ kind[t] # "batch" /\ \A d \in Calls : of[d] = t => Settled(d)
      /\ of' = [of EXCEPT ![c] = t] /\ UNCHANGED <<cast, at>>
  BY DEF Begin, Free, WorkStep
<1>2. UNCHANGED <<tool, always>> /\ \A d \in Calls \ {c} : pc'[d] = pc[d]
  BY DEF Begin, Allowlisted, Goes, gateVars, BridgeIInv, GateInv, TypeOK
<1>3. pc'[c] = "running" \/ tool[c] \notin always
  BY DEF Begin, Allowlisted, Goes, gateVars, BridgeIInv, GateInv, TypeOK
<1>4. of'[c] = t /\ \A d \in Calls \ {c} : of'[d] = of[d]
  BY <1>1 DEF BridgeIInv, BridgeTypeOK
<1>5. \A d \in Calls \ {c} : /\ Owned(d)' <=> Owned(d)
                             /\ of[d] = t => ~Owned(d)
  BY <1>1, <1>2, <1>4 DEF Owned, Settled
<1>6. UNCHANGED kind
  BY <1>1 DEF kind
<1>7. \A d \in Calls : Owned(d)' => at'[of'[d]] = "running" /\ kind'[of'[d]] # "batch"
  BY <1>1, <1>4, <1>5, <1>6 DEF InTurnInv
<1>8. \A d, e \in Calls : Owned(d)' /\ Owned(e)' /\ of'[d] = of'[e] => d = e
  BY <1>4, <1>5 DEF InTurnInv
<1>9. ~cast'.overlap => /\ \A u, v \in Turns : Current(u)' /\ Current(v)' => u = v
                        /\ \A d \in Calls : of'[d] # NoTurn /\ pc'[d] = "new" => tool'[d] \notin always'
  BY <1>1, <1>2, <1>3, <1>4 DEF InTurnInv, Current
<1> QED BY <1>7, <1>8, <1>9 DEF InTurnInv

LEMMA NextInTurn ==
    ASSUME BridgeIInv, InTurnInv, [NodeNext]_nodeVars
    PROVE  InTurnInv'
<1> USE DEF BridgeIInv
<1>1. CASE UNCHANGED nodeVars
  BY <1>1, TurnsInTurn DEF nodeVars, bridgeVars, gateVars, askVars
<1>2. CASE Native
  <2>1. \A c \in Calls : of[c] = NoTurn
    BY <1>2 DEF Native, BegunInv
  <2>2. UNCHANGED <<cast, at, of>>
    BY <1>2 DEF Native, bridgeVars, askVars
  <2> QED BY <2>1, <2>2 DEF InTurnInv, Owned, Current
<1>3. ASSUME NEW t \in Turns, NEW c \in Calls, Begin(t, c) PROVE InTurnInv'
  BY <1>3, BeginInTurn
<1>4. ASSUME NEW c \in Calls, PolicyHeard(c) \/ ApproverHeard(c) \/ ToolDone(c) PROVE InTurnInv'
  <2>1. UNCHANGED <<cast, at, of, tool>> /\ of[c] # NoTurn
    BY <1>4 DEF PolicyHeard, ApproverHeard, ToolDone, WorkStep, Judged, Answer, ToolEnds
  <2>2. /\ pc[c] \in {"new", "asking", "running"}
        /\ \E to \in {"running", "denied", "asking", "ran"} : pc' = [pc EXCEPT ![c] = to]
        /\ always' \subseteq always \cup {tool[c]}
    <3>1. CASE PolicyHeard(c)
      BY <3>1 DEF PolicyHeard, Judged, Goes
    <3>2. CASE ApproverHeard(c)
      <4>1. PICK d, a : Answer(c, d, a)
        BY <3>2 DEF ApproverHeard
      <4> QED BY <4>1 DEF Answer, Goes
    <3>3. CASE ToolDone(c)
      BY <3>3 DEF ToolDone, ToolEnds, Goes
    <3> QED BY <1>4, <3>1, <3>2, <3>3
  <2>3. Owned(c)
    BY <2>1, <2>2 DEF Owned, Settled
  <2>4. pc'[c] # "new" /\ \A d \in Calls \ {c} : pc'[d] = pc[d]
    BY <2>2 DEF GateInv, TypeOK
  <2> QED BY <2>1, <2>2, <2>3, <2>4, CallInTurn
<1>5. ASSUME NEW t \in Turns,
             \/ \E e \in {"part", "pause", "finish", "error"} : Emit(t, e)
             \/ Arrive(t) \/ Consume(t) \/ Timer(t)
      PROVE  InTurnInv'
  BY <1>5, TurnsInTurn DEF Emit, Arrive, Consume, Timer, EndStep, JsStep, gateVars, askVars
<1>6. ASSUME NEW t \in Turns,
             \/ \E ok \in BOOLEAN : Return(t, ok)
             \/ \E e \in {"resolve", "reject"} : Settle(t, e)
             \/ BatchOver(t)
      PROVE  InTurnInv'
  <2>1. UNCHANGED <<cast, pc, tool, of, always>> /\ at' = [at EXCEPT ![t] = "gone"]
    BY <1>6 DEF Return, Settle, BatchOver, EndStep, gateVars, askVars
  <2>2. \A c \in Calls : of[c] = t => ~Owned(c)
    <3>1. CASE BatchOver(t)
      <4>1. kind[t] = "batch"
        BY <3>1, BridgeAssumption DEF BatchOver, BegunInv
      <4> QED BY <4>1 DEF InTurnInv
    <3>2. CASE ~BatchOver(t)
      <4>1. Free(t)
        BY <1>6, <3>2 DEF Return, Settle
      <4> QED BY <4>1 DEF Free, Owned
    <3> QED BY <3>1, <3>2
  <2>3. at'[t] = "gone" /\ \A u \in Turns \ {t} : at'[u] = at[u]
    BY <2>1 DEF BridgeTypeOK
  <2> QED BY <2>1, <2>2, <2>3, TurnsInTurn
<1>7. ASSUME NEW t \in Turns, Start(t) PROVE InTurnInv'
  <2>1. /\ UNCHANGED <<cast, pc, tool, of, always>> /\ at[t] = "idle"
        /\ cast.overlap \/ \A u \in Turns : ~Current(u)
    BY <1>7 DEF Start, gateVars, askVars, Current
  <2>2. \A u \in Turns \ {t} : at'[u] = at[u]
    BY <1>7 DEF Start, BridgeTypeOK
  <2> QED BY <2>1, <2>2, TurnsInTurn
<1>8. ASSUME NEW t \in Turns, Resume(t) PROVE InTurnInv'
  <2>1. UNCHANGED <<cast, pc, tool, of, always>> /\ at[t] = "queued" /\ at'[t] = "running"
    BY <1>8 DEF Resume, JsStep, gateVars, BridgeTypeOK
  <2>2. \A u \in Turns \ {t} : at'[u] = at[u]
    BY <1>8 DEF Resume, BridgeTypeOK
  <2> QED BY <2>1, <2>2, TurnsInTurn
<1>9. ASSUME NEW ch \in Asked, Receive(ch) PROVE InTurnInv'
  BY <1>9, TurnsInTurn DEF Receive, JsStep, gateVars
<1>10. ASSUME NEW p \in promised, PromiseSettles(p) PROVE InTurnInv'
  BY <1>10, TurnsInTurn DEF PromiseSettles, JsStep, gateVars
<1>11. CASE Rest
  BY <1>1, <1>11 DEF Rest
<1> QED BY <1>1, <1>2, <1>3, <1>4, <1>5, <1>6, <1>7, <1>8, <1>9, <1>10, <1>11 DEF NodeNext, Work

\* A call comes to ask its approver from the policy's verdict only, and the
\* policy was asked because its tool was not on the list.
LEMMA AsksStep ==
    ASSUME BridgeIInv, InTurnInv, [NodeNext]_nodeVars
    PROVE  cast.overlap \/ AsksUnlisted
<1> SUFFICES ASSUME NEW c \in Calls, pc[c] # "asking", pc'[c] = "asking", ~cast.overlap
             PROVE  tool[c] \notin always
  BY DEF AsksUnlisted
<1>1. pc \in [Calls -> PCs]
  BY DEF BridgeIInv, GateInv, TypeOK
<1>2. CASE Native
  <2>1. PICK d \in Calls : Enter(d) \/ AnyAnswer(d) \/ ApproverThrows(d) \/ PolicyThrows(d) \/ ToolEnds(d)
    BY <1>2 DEF Native, Next, AllSettled, vars
  <2>2. d = c /\ Enter(c)
    BY <1>1, <2>1 DEF Enter, Allowlisted, Judged, AnyAnswer, Answer, ApproverThrows, PolicyThrows,
                      ToolEnds, Goes
  <2> QED BY <1>1, <2>2 DEF Enter, Allowlisted, Goes
<1>3. ASSUME NEW t \in Turns, NEW d \in Calls, Begin(t, d) PROVE FALSE
  BY <1>1, <1>3 DEF Begin, Allowlisted, Goes, gateVars
<1>4. ASSUME NEW d \in Calls, PolicyHeard(d) PROVE tool[c] \notin always
  <2>1. d = c /\ of[c] # NoTurn /\ pc[c] = "new"
    BY <1>1, <1>4 DEF PolicyHeard, Judged, Goes
  <2> QED BY <2>1 DEF InTurnInv
<1>5. ASSUME NEW d \in Calls, ApproverHeard(d) \/ ToolDone(d) PROVE FALSE
  <2>1. \E to \in {"running", "denied", "ran"} : pc' = [pc EXCEPT ![d] = to]
    <3>1. CASE ApproverHeard(d)
      <4>1. PICK e, a : Answer(d, e, a)
        BY <3>1 DEF ApproverHeard
      <4> QED BY <4>1 DEF Answer, Goes
    <3>2. CASE ToolDone(d)
      BY <3>2 DEF ToolDone, ToolEnds, Goes
    <3> QED BY <1>5, <3>1, <3>2
  <2> QED BY <1>1, <2>1
<1>6. UNCHANGED pc \/ Native \/ \E d \in Calls : \/ \E t \in Turns : Begin(t, d)
                                                 \/ PolicyHeard(d) \/ ApproverHeard(d) \/ ToolDone(d)
  BY DEF NodeNext, Work, Start, Resume, Emit, Return, Settle, BatchOver, Arrive, Consume, Timer,
         Receive, PromiseSettles, Rest, EndStep, JsStep, gateVars, nodeVars
<1> QED BY <1>2, <1>3, <1>4, <1>5, <1>6

LEMMA InitInTurn == BridgeInit => InTurnInv
<1> SUFFICES ASSUME BridgeInit PROVE InTurnInv
  OBVIOUS
<1>1. (\A t \in Turns : at[t] = "idle") /\ \A c \in Calls : of[c] = NoTurn
  BY DEF BridgeInit
<1> QED BY <1>1 DEF InTurnInv, Owned, Current

\* While no two turns overlap nobody is asked about a tool that is always
\* allowed, although the list is read before the policy is asked and the answer
\* comes from another thread.
THEOREM AsksOnce == ASSUME "ask" \notin Answers PROVE NodeSpec => AskedOnce
<1>1. BridgeInit => BridgeIInv /\ InTurnInv
  BY BridgeInitInv, InitInTurn
<1>2. BridgeIInv /\ InTurnInv /\ [NodeNext]_nodeVars => BridgeIInv' /\ InTurnInv'
  BY BridgeNextInv, NextInTurn
<1>3. BridgeIInv /\ InTurnInv /\ [NodeNext]_nodeVars => [cast.overlap \/ AsksUnlisted]_nodeVars
  BY AsksStep
<1> QED BY <1>1, <1>2, <1>3, PTL DEF NodeSpec, AskedOnce
=============================================================================
