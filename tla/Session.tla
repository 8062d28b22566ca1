-------------------------------- MODULE Session --------------------------------
(***************************************************************************)
(* A session owns the history of a conversation.  Each turn appends the    *)
(* user's message, has the context strategy cut the history to the window, *)
(* runs the agent on the cut copy, and makes the copy and the agent's new  *)
(* messages the history.  Strategy and agent are awaited, and nothing      *)
(* stops a caller from starting another turn or setting the system prompt  *)
(* meanwhile.                                                              *)
(*                                                                         *)
(* What a strategy returns is the contract ContextEviction is shown to     *)
(* keep; what an agent returns is what a run of ToolLoop or StreamLoop     *)
(* reports.                                                                *)
(***************************************************************************)
EXTENDS Integers, Sequences

CONSTANTS MaxOps,     \* bound: turns, messages by hand and system prompts, together
          MaxRounds   \* bound: rounds of tool calls in one turn

ASSUME SessionAssumption == MaxOps \in Nat /\ MaxRounds \in Nat

VARIABLES overlap,   \* whether the caller starts turns before others are over
          history,   \* history_
          pc,        \* where each turn's coroutine is
          mode,      \* send() or send_stream()
          managed,   \* its copy of the history: manage()'s argument, then its result
          turns,     \* metadata_.turns
          ops        \* how many operations the caller has started

vars == <<overlap, history, pc, mode, managed, turns, ops>>

Turns == 1..MaxOps

\* "calls" is an assistant message with tool calls and "results" the tool
\* message that answers it; "cutoff" one whose calls were not executed, since
\* the model stopped for another reason (out of tokens, say).
Roles   == {"system", "summary", "memory", "user", "calls", "results", "cutoff", "assistant"}
Message == [role : Roles, turn : {0} \cup Turns]

Msg(role, t) == [role |-> role, turn |-> t]

IsSystem(m) == m.role \in {"system", "summary", "memory"}

\* n is count_leading_system(h).
Leading(h, n) == /\ n \in 0..Len(h)
                 /\ \A i \in 1..n : IsSystem(h[i])
                 /\ n < Len(h) => ~IsSystem(h[n + 1])

\* What is left of h behind its first n messages when those up to c go: the
\* rest begins with a turn unit and keeps the last message.
MayCut(h, n, c) == /\ Leading(h, n)
                   /\ n <= c
                   /\ n < Len(h) => c < Len(h)
                   /\ n < c => h[c + 1].role # "results"

\* What may stand for the messages that go.
Stands(n, c) == IF n = c THEN {<<>>} ELSE {<<>>, <<Msg("summary", 0)>>}

\* extract_turn_messages: a pair for each round, and how the turn ended. A
\* turn out of steps has a last round whose text, if any, is the result's too.
Endings == {<<>>, <<"assistant">>, <<"cutoff">>}

TurnMessages(t, rounds, ending) ==
    [i \in 1..(2 * rounds) |-> Msg(IF i % 2 = 1 THEN "calls" ELSE "results", t)]
    \o [i \in 1..Len(ending) |-> Msg(ending[i], t)]

\* A session some of whose operations are not counted.
InitWith(n) ==
        /\ overlap \in BOOLEAN
        /\ history = <<>>
        /\ pc = [t \in Turns |-> "idle"]
        /\ mode = [t \in Turns |-> "send"]
        /\ managed = [t \in Turns |-> <<>>]
        /\ turns = 0
        /\ ops = n

Init == InitWith(0)

Goes(t, to) == pc' = [pc EXCEPT ![t] = to]

\* A turn is lost with its process when no saved session knows of it.
Over(t) == pc[t] \in {"done", "failed", "lost"}

-----------------------------------------------------------------------------
(* A turn *)

\* Turns are numbered as they begin.
MayBegin(t) == /\ ops < MaxOps
               /\ pc[t] = "idle"
               /\ \A s \in Turns : s < t => pc[s] # "idle" /\ (overlap \/ Over(s))

\* A mistake: a user message nobody answered makes room for the next one.
BeginReplaces(t, m) ==
    /\ MayBegin(t)
    /\ mode' = [mode EXCEPT ![t] = m]
    /\ history' = IF history # <<>> /\ history[Len(history)].role = "user"
                  THEN [history EXCEPT ![Len(history)] = Msg("user", t)]
                  ELSE Append(history, Msg("user", t))
    /\ managed' = [managed EXCEPT ![t] = history']
    /\ Goes(t, "managing")
    /\ ops' = ops + 1
    /\ UNCHANGED <<overlap, turns>>

\* A mistake: the strategy is given the history before the message is added.
BeginStale(t, m) ==
    /\ MayBegin(t)
    /\ mode' = [mode EXCEPT ![t] = m]
    /\ history' = Append(history, Msg("user", t))
    /\ managed' = [managed EXCEPT ![t] = history]
    /\ Goes(t, "managing")
    /\ ops' = ops + 1
    /\ UNCHANGED <<overlap, turns>>

\* add_user, and the copy of history_ that manage() takes.
Begin(t, m) ==
    /\ MayBegin(t)
    /\ mode' = [mode EXCEPT ![t] = m]
    /\ history' = Append(history, Msg("user", t))
    /\ managed' = [managed EXCEPT ![t] = history']
    /\ Goes(t, "managing")
    /\ ops' = ops + 1
    /\ UNCHANGED <<overlap, turns>>

\* manage() returns.  send_stream() makes the result the history at once.
ManageReturns(t) ==
    /\ pc[t] = "managing"
    /\ \E n, c \in 0..Len(managed[t]) :
          /\ MayCut(managed[t], n, c)
          /\ \E s \in Stands(n, c) :
                LET r == SubSeq(managed[t], 1, n) \o s
                         \o SubSeq(managed[t], c + 1, Len(managed[t]))
                IN  /\ managed' = [managed EXCEPT ![t] = r]
                    /\ history' = IF mode[t] = "stream" THEN r ELSE history
    /\ Goes(t, "calling")
    /\ UNCHANGED <<overlap, mode, turns, ops>>

\* manage() throws (its summarizer did), the agent does, or its stream: the
\* turn is over, and the user's message stays where it is.
Throws(t) == /\ pc[t] \in {"managing", "calling", "draining"}
             /\ managed' = [managed EXCEPT ![t] = <<>>]
             /\ Goes(t, "failed")
             /\ UNCHANGED <<overlap, history, mode, turns, ops>>

\* The agent returns: the copy and the turn's messages become the history.
AgentReturns(t) ==
    /\ pc[t] = "calling"
    /\ mode[t] = "send"
    /\ \E rounds \in 0..MaxRounds, ending \in Endings :
          history' = managed[t] \o TurnMessages(t, rounds, ending)
    /\ managed' = [managed EXCEPT ![t] = <<>>]
    /\ turns' = turns + 1
    /\ Goes(t, "hook")
    /\ UNCHANGED <<overlap, mode, ops>>

\* The agent hands out its stream; send_stream() is over, its caller drains.
StreamOpens(t) == /\ pc[t] = "calling"
                  /\ mode[t] = "stream"
                  /\ managed' = [managed EXCEPT ![t] = <<>>]
                  /\ Goes(t, "draining")
                  /\ UNCHANGED <<overlap, history, mode, turns, ops>>

\* The drained stream's messages are appended by the caller (the C binding).
StreamEnds(t) ==
    /\ pc[t] = "draining"
    /\ \E rounds \in 0..MaxRounds, ending \in Endings :
          history' = history \o TurnMessages(t, rounds, ending)
    /\ turns' = turns + 1
    /\ Goes(t, "hook")
    /\ UNCHANGED <<overlap, mode, managed, ops>>

\* The post-turn hook returns or throws, which is swallowed.
HookEnds(t) == /\ pc[t] = "hook"
               /\ Goes(t, "done")
               /\ UNCHANGED <<overlap, history, mode, managed, turns, ops>>

-----------------------------------------------------------------------------
(* What the caller does by hand *)

\* A mistake: whatever leads the history is replaced.
SetSystemBlindly ==
    /\ ops < MaxOps
    /\ ops' = ops + 1
    /\ history' = IF history = <<>> THEN <<Msg("system", 0)>>
                  ELSE [history EXCEPT ![1] = Msg("system", 0)]
    /\ UNCHANGED <<overlap, pc, mode, managed, turns>>

\* set_system: replace the leading system message (or summary), or prepend.
SetSystem ==
    /\ ops < MaxOps
    /\ ops' = ops + 1
    /\ history' = IF history # <<>> /\ IsSystem(history[1])
                  THEN [history EXCEPT ![1] = Msg("system", 0)]
                  ELSE <<Msg("system", 0)>> \o history
    /\ UNCHANGED <<overlap, pc, mode, managed, turns>>

\* add_user and add_assistant, called directly.
AddMessage == /\ ops < MaxOps
              /\ ops' = ops + 1
              /\ \E role \in {"user", "assistant"} :
                    history' = Append(history, Msg(role, 0))
              /\ UNCHANGED <<overlap, pc, mode, managed, turns>>

\* The caller may stop when no turn is in flight.
AllOver == (\A t \in Turns : pc[t] = "idle" \/ Over(t)) /\ UNCHANGED vars

Next == \/ \E t \in Turns : \/ \E m \in {"send", "stream"} : Begin(t, m)
                            \/ ManageReturns(t)
                            \/ Throws(t)
                            \/ AgentReturns(t)
                            \/ StreamOpens(t)
                            \/ StreamEnds(t)
                            \/ HookEnds(t)
        \/ SetSystem
        \/ AddMessage
        \/ AllOver

Spec == Init /\ [][Next]_vars

-----------------------------------------------------------------------------
(* Properties *)

TypeOK == /\ overlap \in BOOLEAN
          /\ history \in Seq(Message)
          /\ pc \in [Turns -> {"idle", "managing", "calling", "draining", "hook",
                               "done", "failed", "lost"}]
          /\ mode \in [Turns -> {"send", "stream"}]
          /\ managed \in [Turns -> Seq(Message)]
          /\ turns \in Nat
          /\ ops \in 0..MaxOps

\* Executed calls are directly followed by their results, and results directly
\* follow their calls.
Paired(h) ==
    /\ \A i \in 1..Len(h) : h[i].role = "calls" =>
          i < Len(h) /\ h[i + 1] = Msg("results", h[i].turn)
    /\ \A i \in 1..Len(h) : h[i].role = "results" =>
          1 < i /\ h[i - 1] = Msg("calls", h[i].turn)

\* "Built so tool-call/tool-result pairs stay together": in the history and in
\* every copy an agent is given, however turns overlap, are cut, fail or have
\* the system prompt set under them.
PairsTogether == Paired(history) /\ \A t \in Turns : Paired(managed[t])

\* What an agent is given ends with the message it is to answer.
EndsWithRequest == \A t \in Turns : pc[t] \in {"managing", "calling"} =>
    /\ managed[t] # <<>>
    /\ managed[t][Len(managed[t])] = Msg("user", t)

SessionInv == TypeOK /\ PairsTogether /\ EndsWithRequest

\* Some message of turn t is in h.
Mentions(h, t) == \E i \in 1..Len(h) : h[i].turn = t

\* Turns one after the other leave the history from its front only: a turn
\* that has begun is there when one before it is, failed turns included. Not so
\* when turns overlap: the one that ends last rebuilds the history from a copy
\* without the other.
NothingLostBetween == ~overlap =>
    \A s, t \in Turns : s < t /\ pc[t] \notin {"idle", "lost"} /\ Mentions(history, s) => Mentions(history, t)

\* "If this step produced tool calls, the assistant tool-call message and its
\* tool results belong to history as a matched pair": no assistant message
\* with calls stands without a tool message after it.
MatchedPairs == \A i \in 1..Len(history) : history[i].role \in {"calls", "cutoff"} =>
    i < Len(history) /\ history[i + 1].role = "results"
=============================================================================
