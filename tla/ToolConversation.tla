--------------------------- MODULE ToolConversation ---------------------------
(***************************************************************************)
(* What the agent loops of the SDK promise about the conversation they     *)
(* hold with a model, whatever tools do and in whatever order they finish: *)
(* the model is asked again only when every tool call of its last message  *)
(* has been answered, in order, by one tool message.  A whole round of     *)
(* tool execution is one step here.                                        *)
(*                                                                         *)
(* ToolLoop (generate_text) and StreamLoop (stream_text) implement it.     *)
(***************************************************************************)
EXTENDS Integers, Sequences

CONSTANTS MaxSteps,    \* options.max_steps: how often the model may be asked
          Call,        \* the tool calls a model can make: records with an "id"
          CallLists,   \* the lists of tool calls one reply can carry
          Result       \* the results a call can get: records with an "id"

VARIABLES conv,    \* the prompt sent to the model: a sequence of messages
          phase,   \* what the conversation waits for
          asks     \* how often the model has been asked

vars == <<conv, phase, asks>>

Phases == {"idle", "asked", "owing", "settled", "done", "aborted"}

Message == [role    : {"user", "assistant", "tool"},
            calls   : Seq(Call),
            results : Seq(Result)]

UserTurn          == [role |-> "user",      calls |-> <<>>,  results |-> <<>>]
AssistantTurn(cs) == [role |-> "assistant", calls |-> cs,    results |-> <<>>]
ToolTurn(rs)      == [role |-> "tool",      calls |-> <<>>,  results |-> rs]

\* The results answer the calls one for one and in the same order.
Answers(rs, cs) == /\ Len(rs) = Len(cs)
                   /\ \A i \in 1..Len(cs) : rs[i].id = cs[i].id

Init == /\ conv = <<UserTurn>>
        /\ phase = "idle"
        /\ asks = 0

Ask == /\ phase = "idle"
       /\ asks < MaxSteps
       /\ asks' = asks + 1
       /\ phase' = "asked"
       /\ UNCHANGED conv

ReplyWithCalls == /\ phase = "asked"
                  /\ \E cs \in CallLists : conv' = Append(conv, AssistantTurn(cs))
                  /\ phase' = "owing"
                  /\ UNCHANGED asks

ReplyPlain == /\ phase = "asked"
              /\ phase' = "settled"
              /\ UNCHANGED <<conv, asks>>

AnswerAll == /\ phase = "owing"
             /\ LET owed == conv[Len(conv)].calls
                IN  \E rs \in [1..Len(owed) -> Result] :
                        /\ Answers(rs, owed)
                        /\ conv' = Append(conv, ToolTurn(rs))
             /\ phase' = "settled"
             /\ UNCHANGED asks

Continue == /\ phase = "settled"
            /\ phase' = "idle"
            /\ UNCHANGED <<conv, asks>>

Finish == /\ phase \in {"idle", "settled"}
          /\ phase' = "done"
          /\ UNCHANGED <<conv, asks>>

Abort == /\ phase \notin {"done", "aborted"}
         /\ phase' = "aborted"
         /\ UNCHANGED <<conv, asks>>

Next == \/ Ask \/ ReplyWithCalls \/ ReplyPlain \/ AnswerAll
        \/ Continue \/ Finish \/ Abort

Spec == Init /\ [][Next]_vars

-----------------------------------------------------------------------------
TypeOK == /\ conv \in Seq(Message)
          /\ phase \in Phases
          /\ asks \in 0..MaxSteps

\* Message i, when it is an assistant's, is followed by the tool message that
\* answers it.
AnsweredAt(i) == conv[i].role = "assistant" =>
                    /\ i + 1 \in DOMAIN conv
                    /\ conv[i + 1].role = "tool"
                    /\ Answers(conv[i + 1].results, conv[i].calls)

\* Message i, when it is a tool message, comes right after the assistant
\* message it answers.
AskedAt(i) == conv[i].role = "tool" =>
                    /\ i - 1 \in DOMAIN conv
                    /\ conv[i - 1].role = "assistant"
                    /\ Answers(conv[i].results, conv[i - 1].calls)

\* No tool call without its result and no result without its call, except
\* for the calls of the last message while they are being executed (or were
\* when the run was aborted).
NoOrphans == /\ \A i \in DOMAIN conv : AskedAt(i)
             /\ \A i \in DOMAIN conv :
                    \/ AnsweredAt(i)
                    \/ i = Len(conv) /\ phase \in {"owing", "aborted"}
=============================================================================
