------------------------ MODULE ToolConversationProofs ------------------------
(***************************************************************************)
(* The abstract conversation keeps its promise for every number of steps,  *)
(* every set of calls and results.                                         *)
(***************************************************************************)
EXTENDS ToolConversation, TLAPS

\* What Append does to a sequence, in the form the proofs below use.
LEMMA AppendFacts ==
    ASSUME NEW S, NEW s \in Seq(S), NEW e \in S
    PROVE  /\ Append(s, e) \in Seq(S)
           /\ Len(Append(s, e)) = Len(s) + 1
           /\ DOMAIN Append(s, e) = 1..(Len(s) + 1)
           /\ \A i \in 1..Len(s) : Append(s, e)[i] = s[i]
           /\ Append(s, e)[Len(s) + 1] = e
  OBVIOUS

\* What the loops that implement the conversation give for its parameters.
Parameters == MaxSteps \in Nat /\ CallLists \subseteq Seq(Call)

\* The messages a step can append are messages.
LEMMA TurnTypes ==
    ASSUME Parameters
    PROVE  /\ UserTurn \in Message
           /\ \A cs \in CallLists : AssistantTurn(cs) \in Message
           /\ \A rs \in Seq(Result) : ToolTurn(rs) \in Message
  BY DEF Parameters, UserTurn, AssistantTurn, ToolTurn, Message

\* The inductive invariant: the promise, its typing, and that an owing
\* conversation ends in the assistant message whose calls are owed (without
\* which an answer could follow anything).
Inv == /\ TypeOK
       /\ conv # <<>>
       /\ phase = "owing" => conv[Len(conv)].role = "assistant"
       /\ NoOrphans

LEMMA InitInv == Parameters /\ Init => Inv
  BY TurnTypes
  DEF Parameters, Init, Inv, TypeOK, Phases, NoOrphans, AskedAt, AnsweredAt, UserTurn

\* Appending an assistant message to a conversation that owes nothing.
LEMMA ReplyInv == Parameters /\ Inv /\ ReplyWithCalls => Inv'
<1> SUFFICES ASSUME Parameters, Inv, ReplyWithCalls PROVE Inv'
  OBVIOUS
<1>1. PICK cs \in CallLists : conv' = Append(conv, AssistantTurn(cs))
  BY DEF ReplyWithCalls
<1>0. PICK n \in Nat : n = Len(conv) /\ DOMAIN conv = 1..n
  BY DEF Inv, TypeOK
<1>2. /\ conv' \in Seq(Message)
      /\ DOMAIN conv' = 1..(n + 1)
      /\ Len(conv') = n + 1
      /\ \A i \in 1..n : conv'[i] = conv[i]
      /\ conv'[n + 1] = AssistantTurn(cs)
  BY <1>0, <1>1, TurnTypes, AppendFacts DEF Inv, TypeOK
<1>3. phase = "asked" /\ phase' = "owing" /\ asks' = asks
  BY DEF ReplyWithCalls
<1>4. \A i \in DOMAIN conv' : AskedAt(i)'
  <2> SUFFICES ASSUME NEW i \in 1..(n + 1), conv'[i].role = "tool"
               PROVE  /\ i - 1 \in 1..(n + 1)
                      /\ conv'[i - 1].role = "assistant"
                      /\ Answers(conv'[i].results, conv'[i - 1].calls)
    BY <1>2 DEF AskedAt
  <2>1. i \in 1..n
    BY <1>2 DEF AssistantTurn
  <2> QED BY <2>1, <1>0, <1>2 DEF Inv, NoOrphans, AskedAt
<1>5. \A i \in 1..n : AnsweredAt(i)'
  BY <1>0, <1>2, <1>3 DEF Inv, NoOrphans, AnsweredAt
<1> QED BY <1>2, <1>3, <1>4, <1>5
        DEF Inv, TypeOK, Phases, NoOrphans, AssistantTurn

\* Appending the answers to the owed calls.
LEMMA AnswerInv == Parameters /\ Inv /\ AnswerAll => Inv'
<1> SUFFICES ASSUME Parameters, Inv, AnswerAll PROVE Inv'
  OBVIOUS
<1>1. conv \in Seq(Message) /\ conv # <<>>
  BY DEF Inv, TypeOK
<1>2. PICK n \in Nat \ {0} : n = Len(conv) /\ DOMAIN conv = 1..n
  BY <1>1
<1> DEFINE owed == conv[n].calls
<1>3. PICK rs \in [1..Len(owed) -> Result] :
          Answers(rs, owed) /\ conv' = Append(conv, ToolTurn(rs))
  BY <1>2 DEF AnswerAll
<1>4. owed \in Seq(Call)
  <2>1. conv[n] \in Message
    BY <1>1, <1>2
  <2> QED BY <2>1 DEF Message
<1>5. rs \in Seq(Result)
  BY <1>3, <1>4
<1>6. /\ conv' \in Seq(Message)
      /\ DOMAIN conv' = 1..(n + 1)
      /\ Len(conv') = n + 1
      /\ \A i \in 1..n : conv'[i] = conv[i]
      /\ conv'[n + 1] = ToolTurn(rs)
  BY <1>1, <1>2, <1>3, <1>5, TurnTypes, AppendFacts
<1>7. /\ phase = "owing" /\ phase' = "settled" /\ asks' = asks
      /\ conv[n].role = "assistant"
  BY <1>2 DEF AnswerAll, Inv
<1>8. \A i \in 1..(n + 1) : AskedAt(i)'
  <2>1. AskedAt(n + 1)'
    BY <1>2, <1>3, <1>6, <1>7 DEF AskedAt, ToolTurn
  <2>2. \A i \in 1..n : AskedAt(i)'
    BY <1>2, <1>6 DEF AskedAt, Inv, NoOrphans
  <2> QED BY <2>1, <2>2
<1>9. \A i \in 1..(n + 1) : AnsweredAt(i)'
  <2>1. AnsweredAt(n + 1)'
    BY <1>6 DEF AnsweredAt, ToolTurn
  <2>2. AnsweredAt(n)'
    BY <1>2, <1>3, <1>6 DEF AnsweredAt, ToolTurn
  <2>3. \A i \in 1..(n - 1) : AnsweredAt(i)'
    BY <1>2, <1>6 DEF AnsweredAt, Inv, NoOrphans
  <2> QED BY <2>1, <2>2, <2>3
<1> QED BY <1>6, <1>7, <1>8, <1>9 DEF Inv, TypeOK, Phases, NoOrphans

\* The other steps leave the messages alone; none of them leaves calls owed
\* except by giving the conversation up.
LEMMA QuietInv ==
    Parameters /\ Inv /\ (Ask \/ ReplyPlain \/ Continue \/ Finish \/ Abort \/ UNCHANGED vars) => Inv'
<1> SUFFICES ASSUME Parameters, Inv,
                    Ask \/ ReplyPlain \/ Continue \/ Finish \/ Abort \/ UNCHANGED vars
             PROVE  Inv'
  OBVIOUS
<1>1. conv' = conv
  BY DEF Ask, ReplyPlain, Continue, Finish, Abort, vars
<1>2. phase' \in Phases /\ asks' \in 0..MaxSteps
  BY DEF Parameters, Inv, TypeOK, Phases, Ask, ReplyPlain, Continue, Finish, Abort, vars
<1>3. /\ phase' = "owing" => phase = "owing"
      /\ phase \in {"owing", "aborted"} => phase' \in {"owing", "aborted"}
  BY DEF Ask, ReplyPlain, Continue, Finish, Abort, vars
<1>4. NoOrphans'
  BY <1>1, <1>3 DEF Inv, NoOrphans, AskedAt, AnsweredAt
<1> QED BY <1>1, <1>2, <1>3, <1>4 DEF Inv, TypeOK

LEMMA NextInv == Parameters /\ Inv /\ [Next]_vars => Inv'
  BY ReplyInv, AnswerInv, QuietInv DEF Next

\* The inductive invariant of the abstract conversation.
THEOREM ConversationInv == ASSUME Parameters PROVE Spec => []Inv
<1>1. Init => Inv
  BY InitInv
<1>2. Inv /\ [Next]_vars => Inv'
  BY NextInv
<1> QED BY <1>1, <1>2, PTL DEF Spec

\* In every conversation the calls and the results of the messages are paired:
\* the model never sees a call without its result, nor a result without its
\* call, nor results out of order.
THEOREM ConversationNoOrphans == ASSUME Parameters PROVE Spec => []NoOrphans
<1>1. Inv => NoOrphans
  BY DEF Inv
<1> QED BY <1>1, ConversationInv, PTL
=============================================================================
