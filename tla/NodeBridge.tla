------------------------------- MODULE NodeBridge -------------------------------
(***************************************************************************)
(* NodeBridge: the Node addon around the permission gate.  An entry point  *)
(* runs its turn on a thread of its own; policies, approvers and tools are *)
(* JavaScript and run on the one JS thread, to which a turn posts what it  *)
(* asks and where it waits for the answer.  What a turn has to say comes   *)
(* back the same way: events of a stream, or the end of a promise.  An     *)
(* application may also use the gate from C++, without any of this.        *)
(***************************************************************************)
EXTENDS PermissionGate, Sequences, FiniteSets

CONSTANTS
    Turns, NoTurn,  \* calls of the addon's entry points
    Casts,          \* what the turns are, which calls their models may make,
                    \* whether one starts before the last is over, whether
                    \* there is an approver, what policies may say; and, a
                    \* bound, the events of each stream before its last
    JsTools,        \* the tools that are written in JavaScript
    NoAnswer        \* what a promise holds that is not settled

Kinds == {"promise", "stream", "session", "batch", "none"}

\* What may be said about a request: a policy's verdict, an approver's word, or
\* nothing of the kind, and that a tool is done.
Says == {"verdict", "allow", "always", "deny", "nothing", "done"}

ASSUME BridgeAssumption ==
    /\ NoTurn \notin Turns
    /\ Casts \subseteq [kind : [Turns -> Kinds], calls : SUBSET Calls, overlap : BOOLEAN,
                        approver : SUBSET BOOLEAN, verdicts : SUBSET Verdicts, parts : Nat]
    /\ JsTools \subseteq Tools
    /\ {"policy", "approver"} \cap (Tools \cup Turns) = {} /\ Tools \cap Turns = {}
    /\ \A c \in Calls, v \in Says : NoAnswer # [call |-> c, says |-> v]
    /\ {"allow", "deny"} \subseteq Answers

VARIABLES
    cast,      \* the cast, from Casts
    at,        \* where each turn is
    of,        \* the turn that makes each call
    id,        \* the id of each call's open request, 0 for none
    call_id,   \* g_call_id
    pending,   \* the promises of open requests, by id
    posted,    \* what has been posted to the JS thread, by thread-safe function
    promised,  \* requests to which JavaScript has answered with a promise
    said,      \* history: what the approver answered about each call
    heard,     \* what JavaScript has heard of each turn: the events its
               \* generator yields, or how its promise was settled
    gen,       \* the state of its generator
    active,    \* the turn whose end _activePromise stands for
    waits,     \* the turn each turn of the session has waited for
    resolved,  \* the turns whose such promise is resolved
    js         \* the turn that occupies the JS thread

gateVars == <<approver, tool, policy, pc, always, grants>>
askVars  == <<of, id, call_id, pending, promised, said>>
endVars  == <<heard, gen, active, waits, resolved>>
bridgeVars == <<cast, at, askVars, posted, endVars, js>>
nodeVars == <<gateVars, bridgeVars>>

kind == cast.kind
Direct == \A t \in Turns : kind[t] = "none"
Streams(t) == kind[t] \in {"stream", "session"}

\* Thread-safe functions: of those who are asked, and of each turn.
Asked == {"policy", "approver"} \cup JsTools
Channels == Asked \cup Turns

BridgeInit ==
    /\ Init
    /\ cast \in Casts
    /\ approver \in cast.approver
    /\ \A c \in cast.calls : policy[c] \in cast.verdicts
    /\ \A c, d \in Calls \ cast.calls : policy[c] = "deny" /\ tool[c] = tool[d]
    /\ at = [t \in Turns |-> "idle"]
    /\ of = [c \in Calls |-> NoTurn]
    /\ id = [c \in Calls |-> 0]
    /\ call_id = 0
    /\ pending = <<>>
    /\ posted = [ch \in Channels |-> <<>>]
    /\ promised = {}
    /\ said = [c \in Calls |-> "nothing"]
    /\ heard = [t \in Turns |-> <<>>]
    /\ gen = [t \in Turns |-> "open"]
    /\ active = NoTurn
    /\ waits = [t \in Turns |-> NoTurn]
    /\ resolved = {}
    /\ js = NoTurn

Post(ch, x) == posted' = [posted EXCEPT ![ch] = Append(@, x)]

-----------------------------------------------------------------------------
(* What a turn asks of JavaScript *)

\* A mistake: an id is free again when its request is answered.
ReusedId == Cardinality(DOMAIN pending) + 1

\* The next id: one counter for tools, policies and approvers.
FreshId == call_id + 1

\* The promise of the new request is there before the request is posted; that
\* of the call's last one is gone.
Ask(c, ch) ==
    /\ id' = [id EXCEPT ![c] = FreshId]
    /\ call_id' = call_id + 1
    /\ pending' = [n \in (DOMAIN pending \ {id[c]}) \cup {FreshId} |->
                     IF n = FreshId THEN NoAnswer ELSE pending[n]]
    /\ Post(ch, [id |-> FreshId, call |-> c, of |-> ch])

\* The worker has its answer and asks for nothing more.
Forget(c) ==
    /\ id' = [id EXCEPT ![c] = 0]
    /\ pending' = [n \in DOMAIN pending \ {id[c]} |-> pending[n]]
    /\ UNCHANGED <<call_id, posted>>

\* The call goes on as far as it can without JavaScript.
GoOn(c) == IF pc'[c] = "asking"
           THEN Ask(c, "approver")
           ELSE IF pc'[c] = "running" /\ tool[c] \in JsTools
                THEN Ask(c, tool[c])
                ELSE Forget(c)

Answered(c) == id[c] \in DOMAIN pending /\ pending[id[c]] # NoAnswer

\* The thread of a turn that waits for nothing.
Free(t) == at[t] = "running" /\ \A c \in Calls : of[c] = t => Settled(c)

WorkStep == UNCHANGED <<cast, at, promised, said, endVars, js>>

\* The model asks for a call, but no model of a batch.  The gate looks at the
\* allowlist, then asks the policy.
Begin(t, c) ==
    /\ Free(t) /\ kind[t] # "batch"
    /\ c \in cast.calls /\ of[c] = NoTurn
    /\ of' = [of EXCEPT ![c] = t]
    /\ \/ Allowlisted(c) /\ GoOn(c)
       \/ tool[c] \notin always /\ UNCHANGED gateVars /\ Ask(c, "policy")
    /\ WorkStep

PolicyHeard(c) ==
    /\ of[c] # NoTurn /\ pc[c] = "new" /\ Answered(c)
    /\ Judged(c)
    /\ GoOn(c)
    /\ UNCHANGED of /\ WorkStep

\* What the C side makes of an approver's value: anything but the two ways to
\* allow is a denial.
Allows(v) == v \in {"allow", "always"}

ApproverHeard(c) ==
    /\ of[c] # NoTurn /\ Answered(c)
    /\ LET v == pending[id[c]].says
       IN Answer(c, IF Allows(v) THEN "allow" ELSE "deny", v = "always")
    /\ GoOn(c)
    /\ UNCHANGED of /\ WorkStep

\* A tool in JavaScript has answered, or one in C++ is done.
ToolDone(c) ==
    /\ of[c] # NoTurn /\ (tool[c] \in JsTools => Answered(c))
    /\ ToolEnds(c)
    /\ Forget(c)
    /\ UNCHANGED of /\ WorkStep

-----------------------------------------------------------------------------
(* How a turn ends *)

Sent(t) == heard[t] \o posted[t]

\* A mistake: that the model stopped for its tools is taken for an end.
PauseTells(e) == e \in {"pause", "finish", "error"}

\* The events that tell, as the thread sees it, how a stream ended.  A "pause"
\* is a finish whose reason is tool calls, and may be the last.
Tells(e) == e \in {"finish", "error"}

Told(s) == \E i \in DOMAIN s : Tells(s[i])

\* The events after which the generator expects no more.
Terminal(e) == e \in {"finish", "error"}

Ended(s) == \E i \in DOMAIN s : Terminal(s[i])

Failed(t) == \E i \in DOMAIN Sent(t) : Sent(t)[i] = "error"

EndStep == UNCHANGED <<cast, gateVars, askVars, endVars, js>>

\* The C call passes on a part of the stream, or the error that ends it.  Only
\* a session keeps its finish for the end of the turn.
Emit(t, e) ==
    /\ Free(t) /\ Streams(t)
    /\ ~Failed(t)
    /\ kind[t] = "session" => ~Ended(Sent(t))
    /\ Len(Sent(t)) < (IF e \in {"part", "pause"} THEN 0 ELSE 1) + cast.parts
    /\ Post(t, e)
    /\ UNCHANGED at /\ EndStep

\* The C call has returned.  A stream that has not told how it ended is told
\* so now: one that failed, or never began, must not look like one that did
\* well.
Return(t, ok) ==
    /\ Free(t) /\ Streams(t)
    /\ IF ok THEN /\ ~Failed(t)
                  /\ kind[t] = "session" =>
                        Sent(t) # <<>> /\ Sent(t)[Len(Sent(t))] \in {"pause", "finish"}
             ELSE Failed(t) \/ Sent(t) = <<>>
    /\ IF Told(Sent(t)) THEN UNCHANGED posted
       ELSE Post(t, IF ok THEN "finish" ELSE "error")
    /\ at' = [at EXCEPT ![t] = "gone"]
    /\ EndStep

\* The same for a call that returns a promise.
Settle(t, e) ==
    /\ Free(t) /\ kind[t] = "promise"
    /\ Post(t, e)
    /\ at' = [at EXCEPT ![t] = "gone"]
    /\ EndStep

BatchOver(t) ==
    /\ js = t
    /\ js' = NoTurn
    /\ at' = [at EXCEPT ![t] = "gone"]
    /\ UNCHANGED <<cast, gateVars, askVars, posted, endVars>>

Work(t) == \/ \E c \in Calls : Begin(t, c)
           \/ \E c \in Calls : of[c] = t /\ (PolicyHeard(c) \/ ApproverHeard(c) \/ ToolDone(c))
           \/ \E e \in {"part", "pause", "finish", "error"} : Emit(t, e)
           \/ \E ok \in BOOLEAN : Return(t, ok)
           \/ \E e \in {"resolve", "reject"} : Settle(t, e)
           \/ BatchOver(t)

-----------------------------------------------------------------------------
(* The JS thread *)

JsStep == js = NoTurn /\ UNCHANGED <<cast, gateVars, of, id, call_id>>

\* A turn of a session waits for the one before; a batch keeps the JS thread.
Start(t) ==
    /\ at[t] = "idle" /\ kind[t] # "none"
    /\ cast.overlap \/ \A u \in Turns : at[u] \in {"idle", "gone"}
    /\ IF kind[t] = "session" /\ active # NoTurn
       THEN /\ at' = [at EXCEPT ![t] = "queued"]
            /\ waits' = [waits EXCEPT ![t] = active]
            /\ UNCHANGED active
       ELSE /\ at' = [at EXCEPT ![t] = "running"]
            /\ active' = IF kind[t] = "session" THEN t ELSE active
            /\ UNCHANGED waits
    /\ js = NoTurn /\ js' = IF kind[t] = "batch" THEN t ELSE NoTurn
    /\ UNCHANGED <<cast, gateVars, askVars, posted, heard, gen, resolved>>

\* It starts when the promise it awaited is resolved, and looks at nothing else.
Resume(t) ==
    /\ at[t] = "queued" /\ waits[t] \in resolved
    /\ at' = [at EXCEPT ![t] = "running"]
    /\ active' = t
    /\ JsStep /\ UNCHANGED <<pending, posted, promised, said, heard, gen, waits, resolved, js>>

\* A policy answers with a verdict, at once; an approver says what it likes or
\* nothing, and what it throws or rejects is nothing; a tool is done.
Values(p) == IF p.of = "policy" THEN {"verdict"}
             ELSE IF p.of = "approver" THEN {"allow", "always", "deny", "nothing"}
                  ELSE {"done"}

\* The promise with this id, if there is one, gets its value.
Resolve(p, v) ==
    /\ pending' = [n \in DOMAIN pending |->
                     IF n = p.id THEN [call |-> p.call, says |-> v] ELSE pending[n]]
    /\ said' = IF p.of = "approver" THEN [said EXCEPT ![p.call] = v] ELSE said

\* The receiver of a request calls the function.
Receive(ch) ==
    /\ posted[ch] # <<>>
    /\ posted' = [posted EXCEPT ![ch] = Tail(@)]
    /\ LET p == Head(posted[ch])
       IN \/ \E v \in Values(p) : Resolve(p, v) /\ UNCHANGED promised
          \/ ch # "policy" /\ promised' = promised \cup {p} /\ UNCHANGED <<pending, said>>
    /\ JsStep /\ UNCHANGED <<at, endVars, js>>

PromiseSettles(p) ==
    /\ promised' = promised \ {p}
    /\ \E v \in Values(p) : Resolve(p, v)
    /\ JsStep /\ UNCHANGED <<at, posted, endVars, js>>

\* An event joins the queue of its stream's generator; a promise is settled.
Arrive(t) ==
    /\ posted[t] # <<>>
    /\ posted' = [posted EXCEPT ![t] = Tail(@)]
    /\ heard' = [heard EXCEPT ![t] = Append(@, Head(posted[t]))]
    /\ JsStep /\ UNCHANGED <<at, pending, promised, said, gen, active, waits, resolved, js>>

\* The generator has seen the end.
Finished(t) == Ended(heard[t])

\* onTerminal, when there is one.
TellsEnd(t) == resolved' = IF kind[t] = "session" /\ Finished(t) THEN resolved \cup {t} ELSE resolved

\* The consumer has come to the end, or leaves the loop after some event.
Consume(t) ==
    /\ Streams(t) /\ gen[t] = "open"
    /\ heard[t] # <<>>
    /\ gen' = [gen EXCEPT ![t] = "closed"]
    /\ TellsEnd(t)
    /\ JsStep
    /\ UNCHANGED <<at, posted, pending, promised, said, heard, active, waits, js>>

\* The timer that the end of a stream has set.
Timer(t) == /\ kind[t] = "session" /\ Finished(t) /\ t \notin resolved
            /\ TellsEnd(t)
            /\ JsStep /\ UNCHANGED <<at, posted, pending, promised, said, heard, gen, active, waits, js>>

-----------------------------------------------------------------------------

JsSettled(t) == CASE kind[t] = "none" -> TRUE
                  [] kind[t] = "batch" -> at[t] = "gone"
                  [] kind[t] = "promise" -> heard[t] # <<>>
                  [] kind[t] \in {"stream", "session"} -> gen[t] # "open"

\* The gate is used from C++.
Native == Direct /\ Next /\ UNCHANGED bridgeVars

Rest == /\ ~Direct
        /\ \A t \in Turns : kind[t] # "none" => at[t] = "gone" /\ JsSettled(t) /\ posted[t] = <<>>
        /\ UNCHANGED nodeVars

NodeNext ==
    \/ Native
    \/ \E t \in Turns : \/ Start(t) \/ Resume(t) \/ Work(t)
                        \/ Arrive(t) \/ Consume(t) \/ Timer(t)
    \/ \E ch \in Asked : Receive(ch)
    \/ \E p \in promised : PromiseSettles(p)
    \/ Rest

NodeSpec == BridgeInit /\ [][NodeNext]_nodeVars

\* Threads run, the JS thread comes round to everything, consumers pull what
\* there is; none has to leave.  That a promise of JavaScript is ever settled is not assumed.
NodeFair ==
    /\ NodeSpec
    /\ \A t \in Turns : /\ WF_nodeVars(Work(t)) /\ WF_nodeVars(Resume(t))
                        /\ WF_nodeVars(Arrive(t)) /\ WF_nodeVars(Timer(t))
                        /\ WF_nodeVars(Finished(t) /\ Consume(t))
    /\ \A ch \in Asked : WF_nodeVars(Receive(ch))

-----------------------------------------------------------------------------

\* A request of an open call is in one place: posted, promised or answered;
\* and its answer is about this call.
Open(c) == id[c] # 0

Posted(c) == \E ch \in Asked : \E i \in DOMAIN posted[ch] :
                posted[ch][i].id = id[c] /\ posted[ch][i].call = c

Promised(c) == \E p \in promised : p.id = id[c] /\ p.call = c

RequestsHeld == \A c \in Calls : Open(c) =>
    /\ id[c] \in DOMAIN pending
    /\ IF Answered(c) THEN pending[id[c]].call = c /\ ~Posted(c) /\ ~Promised(c)
       ELSE Posted(c) # Promised(c)

\* What runs because an approver allowed it is what that approver allowed: the
\* answers of several turns, given in any order, do not get mixed up.
AnswersOwn == ~Direct =>
    /\ \A c \in Calls : grants[c] = "allow" => Allows(said[c])
    /\ \A n \in always : \E c \in Calls : tool[c] = n /\ said[c] = "always"

\* The last event tells how a stream ended; of a session it is the only one
\* that does; a turn that failed or never began tells so.
EndsAreTold == \A t \in Turns : Streams(t) =>
    /\ at[t] = "gone" => Ended(Sent(t))
    /\ kind[t] = "session" =>
          \A i \in DOMAIN Sent(t) : Terminal(Sent(t)[i]) => i = Len(Sent(t))

\* Turns of a session that are under way and have not ended.
Busy(t) == kind[t] = "session" /\ at[t] = "running" /\ ~Ended(Sent(t))

\* Turns of a session run one after the other as long as no two of them waited
\* for the same one.
SerialTurns == \A t, u \in Turns : t # u /\ Busy(t) /\ Busy(u) =>
    \E v, w \in Turns : v # w /\ waits[v] = waits[w] /\ waits[v] # NoTurn

\* The gate holds what it promises with its questions put to another thread,
\* and turns are told apart, told ended and kept apart.
BridgeInv == GateInv /\ RequestsHeld /\ AnswersOwn /\ EndsAreTold /\ SerialTurns

\* While no two turns overlap, nobody is asked about a tool that is always
\* allowed, although the list is read before the policy is asked.
AskedOnce == [][cast.overlap \/ AsksUnlisted]_nodeVars

\* Whoever started a turn hears that it is over, unless somebody who was asked
\* never answers.
TurnsSettle == <>[](promised = {}) => \A t \in Turns : at[t] # "idle" ~> JsSettled(t)
=============================================================================
