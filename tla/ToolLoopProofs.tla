---------------------------- MODULE ToolLoopProofs ----------------------------
(***************************************************************************)
(* generate_text, for every max_steps, every set of ids and every number   *)
(* of calls per reply: its inductive invariant, the bound on the work done *)
(* after a cancellation, that it implements ToolConversation, and that     *)
(* what it returns is what it did.                                         *)
(***************************************************************************)
EXTENDS ToolLoop, WellFoundedInduction, TLAPS

\* A non-empty list of calls is a sequence of calls, and non-empty.
LEMMA CallListFacts == \A cs \in CallLists : cs \in Seq(Call) /\ cs # <<>>
<1> SUFFICES ASSUME NEW cs \in CallLists PROVE cs \in Seq(Call) /\ cs # <<>>
  OBVIOUS
<1>1. PICK n \in 1..MaxCalls : cs \in [1..n -> Call]
  BY DEF CallLists
<1>2. n \in Nat /\ n >= 1
  BY LoopAssumption
<1>3. cs \in Seq(Call) /\ Len(cs) = n
  BY <1>1, <1>2
<1> QED BY <1>2, <1>3

LEMMA EmptySequence == \A S : <<>> \in Seq(S) /\ Len(<<>>) = 0
  OBVIOUS

\* What the model sends back.
LEMMA ReplyFacts ==
    ASSUME NEW r \in Replies
    PROVE  /\ r \in [reason : {"tool-calls", "other"}, calls : Seq(Call)]
           /\ HasCalls(r) => r.calls \in CallLists /\ r.calls # <<>>
<1>1. /\ r = [reason |-> r.reason, calls |-> r.calls]
      /\ r.reason \in {"tool-calls", "other"}
      /\ r.calls \in CallLists \cup {<<>>}
  BY DEF Replies
<1>2. r.calls \in Seq(Call) /\ (r.calls # <<>> => r.calls \in CallLists)
  BY <1>1, CallListFacts, EmptySequence
<1> QED BY <1>1, <1>2 DEF HasCalls

LEMMA TurnTypes ==
    /\ UserTurn \in Message
    /\ \A cs \in Seq(Call) : AssistantTurn(cs) \in Message
    /\ \A rs \in Seq(Result) : ToolTurn(rs) \in Message
  BY DEF UserTurn, AssistantTurn, ToolTurn, Message

\* What Append does to a sequence, in the form the proofs below use.
LEMMA AppendFacts ==
    ASSUME NEW S, NEW s \in Seq(S), NEW e \in S
    PROVE  /\ Append(s, e) \in Seq(S)
           /\ Append(s, e) # <<>>
           /\ Len(Append(s, e)) = Len(s) + 1
           /\ DOMAIN Append(s, e) = 1..(Len(s) + 1)
           /\ \A i \in 1..Len(s) : Append(s, e)[i] = s[i]
           /\ Append(s, e)[Len(s) + 1] = e
  OBVIOUS

LEMMA InitInv == Init => LoopInv
<1> SUFFICES ASSUME Init PROVE LoopInv
  OBVIOUS
<1>1. /\ prompt \in Seq(Message)
      /\ step \in 0..MaxSteps
      /\ reply \in [reason : {"tool-calls", "other"}, calls : Seq(Call)]
  BY LoopAssumption, TurnTypes DEF Init, NoReply
<1>2. TypeOK
  BY <1>1, EmptySequence DEF Init, TypeOK, PCs
<1> QED BY <1>2 DEF Init, LoopInv, RoundShape, ResultsLineUp, AsksCounted,
                    LateWork, CancelBoundsWork

-----------------------------------------------------------------------------
(* The steps that only move the coroutine, count or cancel *)

\* Steps that touch neither messages nor tasks nor results.
MoveStep == StepHead \/ AskModel \/ ModelThrows \/ CallbackThrows \/ Cancel

LEMMA MoveInv == LoopInv /\ MoveStep => LoopInv'
<1> SUFFICES ASSUME LoopInv, MoveStep PROVE LoopInv'
  OBVIOUS
<1> USE LoopAssumption
<1>1. /\ UNCHANGED <<step, prompt, reply, task, results, steps, allCalls>>
      /\ pc' \in PCs \ {"launch", "collect"} \/ pc' = pc
      /\ cancelled' \in BOOLEAN
  BY DEF LoopInv, TypeOK, PCs, MoveStep, StepHead, AskModel, ModelThrows,
         CallbackThrows, Cancel
<1>2. /\ count.asks \in Nat /\ count.lateAsks \in Nat /\ count.lateRounds \in Nat
      /\ Late \in {0, 1} /\ (~cancelled => Late = 0)
  BY DEF LoopInv, TypeOK, Late
<1>3. \/ /\ count' = count
         /\ ~AskModel
      \/ /\ AskModel
         /\ count' \in [asks : Nat, lateAsks : Nat, lateRounds : Nat]
         /\ count'.asks = count.asks + 1
         /\ count'.lateAsks = count.lateAsks + Late
         /\ count'.lateRounds = count.lateRounds
  <2>1. CASE AskModel
    BY <2>1, <1>2 DEF AskModel
  <2>2. CASE ~AskModel
    BY <2>2 DEF MoveStep, StepHead, ModelThrows, CallbackThrows, Cancel
  <2> QED BY <2>1, <2>2
<1>4. TypeOK'
  BY <1>1, <1>3 DEF LoopInv, TypeOK, PCs
<1>5. RoundShape' /\ ResultsLineUp'
  BY <1>1 DEF LoopInv, RoundShape, ResultsLineUp, ResultOf
<1>6. AsksCounted' /\ LateWork' /\ CancelBoundsWork'
  <2>1. CASE AskModel
    BY <2>1, <1>1, <1>2, <1>3
    DEF LoopInv, AsksCounted, LateWork, CancelBoundsWork, AskModel
  <2>2. CASE ~AskModel
    BY <2>2, <1>1, <1>2, <1>3
    DEF LoopInv, TypeOK, AsksCounted, LateWork, CancelBoundsWork, MoveStep,
        StepHead, ModelThrows, CallbackThrows, Cancel
  <2> QED BY <2>1, <2>2
<1> QED BY <1>4, <1>5, <1>6 DEF LoopInv

-----------------------------------------------------------------------------
(* The model's reply *)

LEMMA ReplyInv == ASSUME LoopInv, NEW r \in Replies, ModelReplies(r) PROVE LoopInv'
<1>1. CASE HasCalls(r)
  <2>1. /\ pc = "model" /\ pc' = "launch" /\ reply' = r /\ results' = <<>>
        /\ prompt' = Append(prompt, AssistantTurn(r.calls))
        /\ task' = [i \in 1..Len(r.calls) |-> "new"]
        /\ count' = [asks |-> count.asks, lateAsks |-> count.lateAsks,
                     lateRounds |-> count.lateRounds + Late]
        /\ UNCHANGED <<step, steps, allCalls, cancelled>>
    BY <1>1 DEF ModelReplies
  <2>2. r.calls \in Seq(Call) /\ r.calls \in CallLists
    BY <1>1, ReplyFacts
  <2>3. /\ prompt' \in Seq(Message) /\ prompt' # <<>>
        /\ prompt'[Len(prompt')] = AssistantTurn(r.calls)
    <3>1. prompt \in Seq(Message) /\ AssistantTurn(r.calls) \in Message
      BY <2>2, TurnTypes DEF LoopInv, TypeOK
    <3> QED BY <2>1, <3>1, AppendFacts
  <2>4. task' \in Seq({"new"} \cup Running \cup Finished) /\ Len(task') = Len(r.calls)
    BY <2>1, <2>2
  <2>0. /\ count' \in [asks : Nat, lateAsks : Nat, lateRounds : Nat]
        /\ count'.asks = count.asks /\ count'.lateAsks = count.lateAsks
        /\ count'.lateRounds = count.lateRounds + Late
        /\ Late \in {0, 1} /\ (~cancelled => Late = 0)
    BY <2>1 DEF LoopInv, TypeOK, Late
  <2>5. TypeOK'
    BY <2>0, <2>1, <2>3, <2>4, ReplyFacts DEF LoopInv, TypeOK, PCs
  <2>6. RoundShape' /\ ResultsLineUp'
    BY <1>1, <2>1, <2>2, <2>3, <2>4 DEF RoundShape, ResultsLineUp, HasCalls
  <2>7. AsksCounted' /\ LateWork' /\ CancelBoundsWork'
    BY <2>0, <2>1 DEF LoopInv, TypeOK, AsksCounted, LateWork, CancelBoundsWork
  <2> QED BY <2>5, <2>6, <2>7 DEF LoopInv
<1>2. CASE ~HasCalls(r)
  <2>1. /\ pc = "model" /\ pc' = "finish" /\ reply' = r /\ results' = <<>>
        /\ task' = <<>>
        /\ UNCHANGED <<step, steps, prompt, allCalls, cancelled, count>>
    BY <1>2 DEF ModelReplies
  <2>2. TypeOK'
    BY <2>1, ReplyFacts DEF LoopInv, TypeOK, PCs
  <2> QED BY <2>1, <2>2
          DEF LoopInv, TypeOK, RoundShape, ResultsLineUp, AsksCounted, LateWork,
              CancelBoundsWork
<1> QED BY <1>1, <1>2

-----------------------------------------------------------------------------
(* The tasks *)

LEMMA LaunchInv == LoopInv /\ Launch => LoopInv'
<1> SUFFICES ASSUME LoopInv, Launch PROVE LoopInv'
  OBVIOUS
<1>1. PICK i \in DOMAIN task :
          /\ task[i] = "new"
          /\ task' = [task EXCEPT ![i] = AfterStart(reply.calls[i])]
          /\ pc' = IF i = Len(task) THEN "collect" ELSE "launch"
  BY DEF Launch
<1>2. /\ pc = "launch" /\ pc' \in {"launch", "collect"}
      /\ UNCHANGED <<step, prompt, reply, results, steps, allCalls, cancelled, count>>
  BY <1>1 DEF Launch
<1>3. AfterStart(reply.calls[i]) \in {"error", "repair", "tool"}
  BY DEF AfterStart
<1>4. /\ task' \in Seq({"new"} \cup Running \cup Finished)
      /\ Len(task') = Len(task)
      /\ \A k \in DOMAIN task : task[k] # "new" => task'[k] = task[k]
  BY <1>1, <1>3 DEF LoopInv, TypeOK, Running, Finished
<1>5. TypeOK'
  BY <1>2, <1>4 DEF LoopInv, TypeOK, PCs
<1>6. RoundShape'
  BY <1>2, <1>4 DEF LoopInv, RoundShape
<1>7. ResultsLineUp'
  BY <1>2, <1>4 DEF LoopInv, TypeOK, RoundShape, ResultsLineUp, ResultOf
<1> QED BY <1>2, <1>5, <1>6, <1>7
        DEF LoopInv, AsksCounted, LateWork, CancelBoundsWork

\* A resumed task was running, so no result has been taken from it.
LEMMA TaskInv ==
    ASSUME LoopInv, NEW i, NEW from \in Running, NEW to \in Running \cup Finished,
           TaskMoves(i, from, to)
    PROVE  LoopInv'
<1>1. /\ i \in DOMAIN task /\ task[i] = from
      /\ task' = [task EXCEPT ![i] = to]
      /\ UNCHANGED <<pc, step, prompt, reply, results, steps, allCalls, cancelled, count>>
  BY DEF TaskMoves
<1>2. /\ task' \in Seq({"new"} \cup Running \cup Finished)
      /\ DOMAIN task' = DOMAIN task
      /\ Len(task') = Len(task)
      /\ \A k \in DOMAIN task : task[k] \in Finished => task'[k] = task[k]
  BY <1>1 DEF LoopInv, TypeOK, Running, Finished
<1>3. TypeOK'
  BY <1>1, <1>2 DEF LoopInv, TypeOK
<1>4. RoundShape'
  BY <1>1, <1>2 DEF LoopInv, RoundShape
<1>5. ResultsLineUp'
  BY <1>1, <1>2 DEF LoopInv, TypeOK, RoundShape, ResultsLineUp, ResultOf
<1> QED BY <1>1, <1>3, <1>4, <1>5 DEF LoopInv, AsksCounted, LateWork, CancelBoundsWork

LEMMA TaskStepInv == LoopInv /\ TaskStep => LoopInv'
  BY TaskInv DEF TaskStep, RepairEnds, ToolEnds, ThrowsForeign, Running, Finished

LEMMA CollectInv == LoopInv /\ Collect => LoopInv'
<1> SUFFICES ASSUME LoopInv, Collect PROVE LoopInv'
  OBVIOUS
<1>0. PICK n \in Nat : n = Len(results) /\ DOMAIN results = 1..n
  BY DEF LoopInv, TypeOK
<1>1. /\ pc = "collect" /\ n + 1 \in DOMAIN task /\ task[n + 1] \in Finished
      /\ UNCHANGED <<step, prompt, reply, task, steps, allCalls, cancelled, count>>
  BY <1>0 DEF Collect
<1>2. CASE task[n + 1] = "foreign"
  <2>1. pc' = "failed" /\ results' = results
    BY <1>0, <1>2 DEF Collect
  <2> QED BY <1>1, <2>1 DEF LoopInv, TypeOK, PCs, RoundShape, ResultsLineUp,
                            AsksCounted, LateWork, CancelBoundsWork
<1>3. CASE task[n + 1] # "foreign"
  <2>1. pc' = pc /\ results' = Append(results, ResultOf(n + 1))
    BY <1>0, <1>3 DEF Collect
  <2>2. n + 1 \in 1..Len(task) /\ Len(task) = Len(reply.calls) /\ reply.calls \in Seq(Call)
    BY <1>1 DEF LoopInv, TypeOK, RoundShape
  <2>3. ResultOf(n + 1) \in Result
    <3>1. reply.calls[n + 1] \in Call
      BY <2>2
    <3> QED BY <3>1 DEF ResultOf, Result, Call
  <2>4. /\ results' \in Seq(Result) /\ DOMAIN results' = 1..(n + 1)
        /\ Len(results') = n + 1
        /\ \A k \in 1..n : results'[k] = results[k]
        /\ results'[n + 1] = ResultOf(n + 1)
    BY <1>0, <2>1, <2>3, AppendFacts DEF LoopInv, TypeOK
  <2>5. TypeOK'
    BY <1>1, <2>1, <2>4 DEF LoopInv, TypeOK
  <2>6. RoundShape'
    BY <1>1, <2>1, <2>2, <2>4 DEF LoopInv, RoundShape
  <2>7. ResultsLineUp'
    <3> SUFFICES ASSUME NEW k \in 1..(n + 1)
                 PROVE  task[k] \in Finished \ {"foreign"} /\ results'[k] = ResultOf(k)
      BY <1>1, <2>1, <2>4 DEF ResultsLineUp, ResultOf
    <3>1. CASE k = n + 1
      BY <3>1, <1>1, <1>3, <2>4
    <3>2. CASE k \in 1..n
      BY <3>2, <1>0, <1>1, <2>4 DEF LoopInv, ResultsLineUp
    <3> QED BY <3>1, <3>2
  <2> QED BY <1>1, <2>1, <2>5, <2>6, <2>7
          DEF LoopInv, AsksCounted, LateWork, CancelBoundsWork
<1> QED BY <1>2, <1>3

-----------------------------------------------------------------------------
(* The end of a round and of a step *)

LEMMA AppendInv == LoopInv /\ AppendToolResults => LoopInv'
<1> SUFFICES ASSUME LoopInv, AppendToolResults PROVE LoopInv'
  OBVIOUS
<1>1. /\ pc = "collect" /\ pc' = "finish"
      /\ prompt' = Append(prompt, ToolTurn(results))
      /\ allCalls' = allCalls \o results
      /\ UNCHANGED <<step, reply, task, results, steps, cancelled, count>>
  BY DEF AppendToolResults
<1>2. prompt' \in Seq(Message) /\ allCalls' \in Seq(Result)
  BY <1>1, TurnTypes, AppendFacts DEF LoopInv, TypeOK
<1> QED BY <1>1, <1>2 DEF LoopInv, TypeOK, PCs, RoundShape, ResultsLineUp,
                         AsksCounted, LateWork, CancelBoundsWork

LEMMA FinishInv == LoopInv /\ FinishStep => LoopInv'
<1> SUFFICES ASSUME LoopInv, FinishStep PROVE LoopInv'
  OBVIOUS
<1>1. /\ pc = "finish"
      /\ steps' = Append(steps, [reply |-> reply, results |-> results])
      /\ \/ pc' = "loop" /\ step' = step + 1
         \/ pc' = "done" /\ step' = step
      /\ UNCHANGED <<prompt, reply, task, results, allCalls, cancelled, count>>
  BY DEF FinishStep
<1>2. steps' \in Seq([reply : [reason : {"tool-calls", "other"}, calls : Seq(Call)],
                      results : Seq(Result)])
  BY <1>1 DEF LoopInv, TypeOK
<1>3. TypeOK'
  BY <1>1, <1>2, LoopAssumption DEF LoopInv, TypeOK, PCs, AsksCounted
<1> QED BY <1>1, <1>3 DEF LoopInv, TypeOK, RoundShape, ResultsLineUp, AsksCounted,
                         LateWork, CancelBoundsWork

LEMMA NextInv == LoopInv /\ [Next]_vars => LoopInv'
<1> SUFFICES ASSUME LoopInv, [Next]_vars PROVE LoopInv'
  OBVIOUS
<1>1. CASE MoveStep
  BY <1>1, MoveInv
<1>2. CASE \E r \in Replies : ModelReplies(r)
  BY <1>2, ReplyInv
<1>3. CASE Launch
  BY <1>3, LaunchInv
<1>4. CASE TaskStep
  BY <1>4, TaskStepInv
<1>5. CASE Collect
  BY <1>5, CollectInv
<1>6. CASE AppendToolResults
  BY <1>6, AppendInv
<1>7. CASE FinishStep
  BY <1>7, FinishInv
<1>8. CASE UNCHANGED vars
  BY <1>8 DEF vars, LoopInv, TypeOK, RoundShape, ResultsLineUp, ResultOf,
              AsksCounted, LateWork, CancelBoundsWork
<1> QED BY <1>1, <1>2, <1>3, <1>4, <1>5, <1>6, <1>7, <1>8
        DEF Next, LoopStep, ModelStep, MoveStep, Terminated

-----------------------------------------------------------------------------

\* The inductive invariant of generate_text: types, the round in progress, the
\* results taken so far, and where late work can still come from.
THEOREM LoopInvariant == Spec => []LoopInv
  BY InitInv, NextInv, PTL DEF Spec

\* At most one model call and one round of tools begin after a cancellation.
THEOREM CancelBounded == Spec => []CancelBoundsWork
<1>1. LoopInv => CancelBoundsWork
  BY DEF LoopInv
<1> QED BY <1>1, LoopInvariant, PTL

\* Results are taken in launch order, each from its own task.
THEOREM LinedUp == Spec => []ResultsLineUp
<1>1. LoopInv => ResultsLineUp
  BY DEF LoopInv
<1> QED BY <1>1, LoopInvariant, PTL

-----------------------------------------------------------------------------
(* The conversation *)

\* The abstract phase of each place in the coroutine.
LEMMA PhaseFacts ==
    /\ pc \in {"loop", "send"} => phase = "idle"
    /\ pc = "model" => phase = "asked"
    /\ pc \in {"launch", "collect"} => phase = "owing"
    /\ pc = "finish" => phase = "settled"
    /\ pc = "done" => phase = "done"
    /\ pc = "failed" => phase = "aborted"
  BY DEF phase

LEMMA SameMessages ==
    /\ Conv!UserTurn = UserTurn
    /\ \A cs : Conv!AssistantTurn(cs) = AssistantTurn(cs)
    /\ \A rs : Conv!ToolTurn(rs) = ToolTurn(rs)
  BY DEF Conv!UserTurn, UserTurn, Conv!AssistantTurn, AssistantTurn,
         Conv!ToolTurn, ToolTurn

\* A complete round answers the calls of the assistant message before it.
LEMMA RoundAnswers ==
    ASSUME LoopInv, AppendToolResults
    PROVE  Conv!AnswerAll
<1>1. /\ pc = "collect" /\ pc' = "finish" /\ count' = count
      /\ prompt' = Append(prompt, ToolTurn(results))
      /\ Len(results) = Len(task)
  BY DEF AppendToolResults
<1> DEFINE owed == prompt[Len(prompt)].calls
<1>2. owed = reply.calls /\ Len(results) = Len(owed)
  BY <1>1 DEF LoopInv, RoundShape, AssistantTurn
<1>3. results \in [1..Len(owed) -> Result]
  BY <1>2 DEF LoopInv, TypeOK
<1>4. Conv!Answers(results, owed)
  <2> SUFFICES ASSUME NEW i \in 1..Len(owed) PROVE results[i].id = owed[i].id
    BY <1>2 DEF Conv!Answers
  <2>1. results[i] = ResultOf(i)
    BY <1>1, <1>3 DEF LoopInv, ResultsLineUp
  <2> QED BY <2>1, <1>2 DEF ResultOf
<1>5. phase = "owing" /\ phase' = "settled"
  BY <1>1, PhaseFacts DEF phase
<1> QED BY <1>1, <1>3, <1>4, <1>5, SameMessages DEF Conv!AnswerAll

\* Every step of generate_text is a step of the conversation or leaves it be.
LEMMA StepRefines == LoopInv /\ [Next]_vars => [Conv!Next]_(Conv!vars)
<1> SUFFICES ASSUME LoopInv, [Next]_vars PROVE [Conv!Next]_(Conv!vars)
  OBVIOUS
<1>1. CASE StepHead
  BY <1>1 DEF StepHead, phase, Conv!Next, Conv!Finish, Conv!Abort, Conv!vars
<1>2. CASE AskModel
  BY <1>2 DEF AskModel, LoopInv, AsksCounted, phase, Conv!Next, Conv!Ask
<1>3. CASE ModelThrows \/ CallbackThrows
  BY <1>3 DEF ModelThrows, CallbackThrows, phase, Conv!Next, Conv!Abort
<1>4. ASSUME NEW r \in Replies, ModelReplies(r) PROVE Conv!Next
  <2>1. CASE HasCalls(r)
    <3>1. /\ pc = "model" /\ pc' = "launch" /\ count'.asks = count.asks
          /\ prompt' = Append(prompt, AssistantTurn(r.calls))
      BY <1>4, <2>1 DEF ModelReplies
    <3>2. r.calls \in CallLists
      BY <2>1, ReplyFacts
    <3> QED BY <3>1, <3>2, SameMessages DEF phase, Conv!Next, Conv!ReplyWithCalls
  <2>2. CASE ~HasCalls(r)
    BY <1>4, <2>2 DEF ModelReplies, phase, Conv!Next, Conv!ReplyPlain
  <2> QED BY <2>1, <2>2
<1>5. CASE Launch
  BY <1>5 DEF Launch, phase, Conv!vars
<1>6. CASE TaskStep
  BY <1>6 DEF TaskStep, RepairEnds, ToolEnds, ThrowsForeign, TaskMoves, phase, Conv!vars
<1>7. CASE Collect
  BY <1>7 DEF Collect, phase, Conv!vars, Conv!Next, Conv!Abort
<1>8. CASE AppendToolResults
  BY <1>8, RoundAnswers DEF Conv!Next
<1>9. CASE FinishStep
  BY <1>9 DEF FinishStep, phase, Conv!Next, Conv!Continue, Conv!Finish
<1>10. CASE Cancel \/ Terminated \/ UNCHANGED vars
  BY <1>10 DEF Cancel, Terminated, vars, phase, Conv!vars
<1> QED BY <1>1, <1>2, <1>3, <1>4, <1>5, <1>6, <1>7, <1>8, <1>9, <1>10
        DEF Next, LoopStep, ModelStep

LEMMA InitRefines == Init => Conv!Init
  BY SameMessages DEF Init, phase, Conv!Init

\* generate_text implements the abstract conversation.
THEOREM ImplementsConversation == Spec => ConversationSpec
<1>1. Init => Conv!Init
  BY InitRefines
<1>2. LoopInv /\ [Next]_vars => [Conv!Next]_(Conv!vars)
  BY StepRefines
<1> QED BY <1>1, <1>2, LoopInvariant, PTL DEF Spec, ConversationSpec, Conv!Spec

ConvProofs == INSTANCE ToolConversationProofs WITH conv <- prompt, asks <- count.asks

\* The two instances of the conversation are one.
LEMMA SameConversation ==
    /\ ConvProofs!Init <=> Conv!Init
    /\ ConvProofs!Next <=> Conv!Next
    /\ ConvProofs!vars = Conv!vars
    /\ ConvProofs!NoOrphans <=> Conv!NoOrphans
<1> USE DEF ConvProofs!UserTurn, Conv!UserTurn, ConvProofs!AssistantTurn,
            Conv!AssistantTurn, ConvProofs!ToolTurn, Conv!ToolTurn,
            ConvProofs!Answers, Conv!Answers
<1>1. ConvProofs!Init <=> Conv!Init
  BY DEF ConvProofs!Init, Conv!Init
<1>2. ConvProofs!Next <=> Conv!Next
  BY DEF ConvProofs!Next, Conv!Next, ConvProofs!Ask, Conv!Ask,
         ConvProofs!ReplyWithCalls, Conv!ReplyWithCalls, ConvProofs!ReplyPlain,
         Conv!ReplyPlain, ConvProofs!AnswerAll, Conv!AnswerAll,
         ConvProofs!Continue, Conv!Continue, ConvProofs!Finish, Conv!Finish,
         ConvProofs!Abort, Conv!Abort
<1>3. ConvProofs!vars = Conv!vars
  BY DEF ConvProofs!vars, Conv!vars
<1>4. ConvProofs!NoOrphans <=> Conv!NoOrphans
  BY DEF ConvProofs!NoOrphans, Conv!NoOrphans, ConvProofs!AskedAt, Conv!AskedAt,
         ConvProofs!AnsweredAt, Conv!AnsweredAt
<1> QED BY <1>1, <1>2, <1>3, <1>4

\* In every prompt generate_text sends, calls and results are paired in order.
THEOREM LoopNoOrphans == Spec => []NoOrphans
<1>0. ConvProofs!Parameters
  BY LoopAssumption, CallListFacts DEF ConvProofs!Parameters
<1>1. Init => ConvProofs!Inv
  BY <1>0, ConvProofs!InitInv, InitRefines, SameConversation
<1>2. LoopInv /\ ConvProofs!Inv /\ [Next]_vars => ConvProofs!Inv'
  <2>1. ConvProofs!Inv /\ [ConvProofs!Next]_(ConvProofs!vars) => ConvProofs!Inv'
    BY <1>0, ConvProofs!NextInv
  <2>2. LoopInv /\ [Next]_vars => [ConvProofs!Next]_(ConvProofs!vars)
    BY StepRefines, SameConversation DEF ConvProofs!vars, Conv!vars
  <2> QED BY <2>1, <2>2
<1>3. ConvProofs!Inv => NoOrphans
  BY SameConversation DEF ConvProofs!Inv, NoOrphans
<1> QED BY <1>1, <1>2, <1>3, LoopInvariant, PTL DEF Spec

-----------------------------------------------------------------------------
(* What generate_text reports *)

\* A set of numbers has a least.
LEMMA Least == \A T \in SUBSET Nat : T # {} => \E m \in T : \A n \in T : m <= n
<1> SUFFICES ASSUME NEW T \in SUBSET Nat, T # {}
             PROVE  \E m \in T : \A n \in T : m <= n
  OBVIOUS
<1> DEFINE R == OpToRel(<, Nat)
<1>1. \A n, m \in Nat : n < m => <<n, m>> \in R
  BY DEF OpToRel
<1> HIDE DEF R
<1>2. IsWellFoundedOn(R, Nat)
  BY NatLessThanWellFounded DEF R
<1>3. PICK m \in T : \A n \in T : ~(<<n, m>> \in R)
  BY <1>2, WFMin
<1>4. \A n \in T : ~(n < m)
  BY <1>1, <1>3
<1> QED BY <1>4

\* f has what the first i sequences of ss are when they are joined.
Joins(f, ss) == f = [i \in 1..Len(ss) |-> IF i = 1 THEN ss[i] ELSE f[i - 1] \o ss[i]]

\* FlattenSeq joins them all.
LEMMA FlattenIs ==
    ASSUME NEW ss
    PROVE  FlattenSeq(ss) = IF Len(ss) = 0 THEN ss ELSE (CHOOSE f : Joins(f, ss))[Len(ss)]
  BY DEF FlattenSeq, Joins

\* There is one way to.
LEMMA JoinsUnique ==
    ASSUME NEW ss, Len(ss) \in Nat, NEW f, NEW g, Joins(f, ss), Joins(g, ss) PROVE f = g
<1> PICK n \in Nat : n = Len(ss)
  OBVIOUS
<1>1. /\ f = [i \in 1..n |-> f[i]] /\ g = [i \in 1..n |-> g[i]]
      /\ \A i \in 1..n : f[i] = IF i = 1 THEN ss[i] ELSE f[i - 1] \o ss[i]
      /\ \A i \in 1..n : g[i] = IF i = 1 THEN ss[i] ELSE g[i - 1] \o ss[i]
  BY DEF Joins
<1>2. \A i \in 1..n : f[i] = g[i]
  <2> SUFFICES ASSUME NEW k \in 1..n, f[k] # g[k] PROVE FALSE
    OBVIOUS
  <2> DEFINE T == {i \in 1..n : f[i] # g[i]}
  <2>1. PICK m \in T : \A i \in T : m <= i
    <3>1. T \in SUBSET Nat /\ k \in T
      OBVIOUS
    <3> QED BY <3>1, Least
  <2>2. m # 1
    BY <1>1, <2>1
  <2>3. m - 1 \in 1..n /\ m - 1 \notin T
    BY <2>1, <2>2
  <2>4. f[m - 1] = g[m - 1] /\ m \in 1..n /\ f[m] # g[m]
    BY <2>1, <2>3
  <2>5. f[m] = f[m - 1] \o ss[m] /\ g[m] = g[m - 1] \o ss[m]
    BY <1>1, <2>2, <2>4
  <2> QED BY <2>4, <2>5
<1> QED BY <1>1, <1>2

\* What there is to join f with one sequence more.
LEMMA JoinsMore ==
    ASSUME NEW S, NEW ss \in Seq(Seq(S)), NEW s \in Seq(S), NEW f, Joins(f, ss),
           NEW n, n = Len(ss) + 1
    PROVE  Joins([i \in 1..n |-> IF i = n THEN (IF n = 1 THEN s ELSE f[n - 1] \o s) ELSE f[i]],
                 Append(ss, s))
<1> DEFINE g == [i \in 1..n |-> IF i = n THEN (IF n = 1 THEN s ELSE f[n - 1] \o s) ELSE f[i]]
           q == Append(ss, s)
<1>1. n \in Nat /\ n >= 1 /\ Len(q) = n /\ q[n] = s /\ \A i \in 1..(n - 1) : q[i] = ss[i]
  OBVIOUS
<1>2. \A i \in 1..(n - 1) : f[i] = IF i = 1 THEN ss[i] ELSE f[i - 1] \o ss[i]
  <2>1. 1..Len(ss) = 1..(n - 1)
    OBVIOUS
  <2> QED BY <2>1 DEF Joins
<1> HIDE DEF q
<1>3. ASSUME NEW i \in 1..n PROVE g[i] = IF i = 1 THEN q[i] ELSE g[i - 1] \o q[i]
  <2>1. CASE i = n
    <3>1. CASE n = 1
      BY <1>1, <2>1, <3>1
    <3>2. CASE n # 1
      <4>1. n - 1 \in 1..n /\ n - 1 # n
        BY <1>1, <3>2
      <4>2. g[n - 1] = f[n - 1] /\ g[n] = f[n - 1] \o s
        BY <1>1, <3>2, <4>1
      <4> QED BY <1>1, <2>1, <3>2, <4>2
    <3> QED BY <3>1, <3>2
  <2>2. CASE i # n
    <3>1. i \in 1..(n - 1) /\ g[i] = f[i] /\ q[i] = ss[i]
      BY <1>1, <2>2
    <3>2. i # 1 => i - 1 \in 1..n /\ i - 1 # n /\ g[i - 1] = f[i - 1]
      BY <1>1, <2>2
    <3> QED BY <1>2, <3>1, <3>2
  <2> QED BY <2>1, <2>2
<1>4. g = [i \in 1..Len(q) |-> IF i = 1 THEN q[i] ELSE g[i - 1] \o q[i]]
  <2>1. g = [i \in 1..n |-> g[i]]
    OBVIOUS
  <2> HIDE DEF g
  <2> QED BY <1>1, <1>3, <2>1
<1> QED BY <1>4 DEF Joins, q

\* Any sequences can be joined.
LEMMA JoinsExists == ASSUME NEW S, NEW ss \in Seq(Seq(S)) PROVE \E f : Joins(f, ss)
<1> DEFINE T == {n \in Nat : \E x \in Seq(Seq(S)) : Len(x) = n /\ ~\E f : Joins(f, x)}
<1> SUFFICES ASSUME T # {} PROVE FALSE
  <2>1. Len(ss) \in Nat
    OBVIOUS
  <2> QED BY <2>1
<1>1. PICK m \in T : \A n \in T : m <= n
  <2>1. T \in SUBSET Nat
    OBVIOUS
  <2> QED BY <2>1, Least
<1>2. PICK x \in Seq(Seq(S)) : Len(x) = m /\ ~\E f : Joins(f, x)
  BY <1>1
<1>3. m # 0
  <2> SUFFICES ASSUME m = 0 PROVE FALSE
    OBVIOUS
  <2> DEFINE f == [i \in 1..0 |-> x[i]]
  <2>1. 1..0 = {} /\ 1..Len(x) = {}
    BY <1>2
  <2>2. f = [i \in 1..Len(x) |-> IF i = 1 THEN x[i] ELSE f[i - 1] \o x[i]]
    BY <2>1
  <2> QED BY <1>2, <2>2 DEF Joins
<1> DEFINE y == SubSeq(x, 1, m - 1)
<1>4. y \in Seq(Seq(S)) /\ Len(y) = m - 1 /\ m - 1 \in Nat /\ x[m] \in Seq(S)
  BY <1>1, <1>2, <1>3
<1>5. x = Append(y, x[m])
  BY <1>1, <1>2, <1>3, <1>4
<1>6. m - 1 \notin T
  BY <1>1, <1>4
<1>7. PICK f : Joins(f, y)
  BY <1>4, <1>6
<1>8. \E g : Joins(g, Append(y, x[m]))
  <2>1. PICK n : n = Len(y) + 1
    OBVIOUS
  <2> HIDE DEF y
  <2> QED BY <1>4, <1>7, <2>1, JoinsMore
<1> QED BY <1>2, <1>5, <1>8
\* Joining one sequence more.
LEMMA FlattenAppend ==
    ASSUME NEW S, NEW ss \in Seq(Seq(S)), NEW s \in Seq(S)
    PROVE  FlattenSeq(Append(ss, s)) = FlattenSeq(ss) \o s
<1> PICK n : n = Len(ss) + 1
  OBVIOUS
<1> PICK q : q = Append(ss, s)
  OBVIOUS
<1>1. PICK f : Joins(f, ss)
  BY JoinsExists
<1>2. PICK g : g = [i \in 1..n |-> IF i = n THEN (IF n = 1 THEN s ELSE f[n - 1] \o s) ELSE f[i]]
  OBVIOUS
<1>3. Joins(g, q)
  BY ZenonT(40), <1>1, <1>2, JoinsMore
<1>4. n \in Nat /\ n >= 1 /\ Len(q) = n /\ Len(ss) = n - 1 /\ Len(q) \in Nat
  OBVIOUS
<1>5. (CHOOSE h : Joins(h, q)) = g
  <2>1. Joins(CHOOSE h : Joins(h, q), q)
    BY <1>3
  <2> QED BY <1>3, <1>4, <2>1, JoinsUnique
<1>6. FlattenSeq(q) = g[n]
  <2>1. FlattenSeq(q) = IF Len(q) = 0 THEN q ELSE (CHOOSE h : Joins(h, q))[Len(q)]
    BY FlattenIs
  <2>2. FlattenSeq(q) = IF Len(q) = 0 THEN q ELSE g[Len(q)]
    BY <1>5, <2>1
  <2> QED BY <1>4, <2>2
<1>7. CASE n = 1
  <2>1. ss = <<>> /\ FlattenSeq(ss) = ss
    BY <1>4, <1>7, FlattenIs
  <2>2. g[n] = s
    BY <1>2, <1>7
  <2> QED BY <1>6, <2>1, <2>2
<1>8. CASE n # 1
  <2>1. (CHOOSE h : Joins(h, ss)) = f
    <3>1. Joins(CHOOSE h : Joins(h, ss), ss)
      BY <1>1
    <3> QED BY <1>1, <1>4, <3>1, JoinsUnique
  <2>2. FlattenSeq(ss) = f[n - 1]
    BY <1>4, <1>8, <2>1, FlattenIs
  <2>3. g[n] = f[n - 1] \o s
    BY <1>2, <1>4, <1>8
  <2> QED BY <1>6, <2>2, <2>3
<1> QED BY <1>7, <1>8

\* The results of the steps, or of the messages, in s.
ResultsIn(s) == [i \in DOMAIN s |-> s[i].results]

\* What generate_text has to report at each place of its loop: in "finish" the
\* round is in allCalls already and not yet in steps.
ReportInv ==
    /\ pc \in {"loop", "send", "done"} => count.asks = Len(steps)
    /\ pc \in {"model", "launch", "collect", "finish"} => count.asks = Len(steps) + 1
    /\ pc \notin {"finish", "failed"} => allCalls = FlattenSeq(ResultsIn(steps))
    /\ pc = "finish" => allCalls = FlattenSeq(ResultsIn(steps)) \o results
    /\ allCalls = FlattenSeq(ResultsIn(prompt))

\* One step or message more.
LEMMA OneMore ==
    ASSUME NEW S, \A e \in S : e.results \in Seq(Result), NEW s \in Seq(S), NEW e \in S
    PROVE  FlattenSeq(ResultsIn(Append(s, e))) = FlattenSeq(ResultsIn(s)) \o e.results
<1> PICK n \in Nat : n = Len(s)
  OBVIOUS
<1> PICK q : q = Append(s, e)
  OBVIOUS
<1> PICK r : r = ResultsIn(s)
  OBVIOUS
<1>1. /\ DOMAIN s = 1..n /\ \A i \in 1..n : s[i] \in S
      /\ DOMAIN q = 1..(n + 1) /\ q[n + 1] = e /\ \A i \in 1..n : q[i] = s[i]
  OBVIOUS
<1>2. r = [i \in 1..n |-> s[i].results] /\ ResultsIn(q) = [i \in 1..(n + 1) |-> q[i].results]
  BY <1>1 DEF ResultsIn
<1>3. r \in Seq(Seq(Result)) /\ Len(r) = n
  BY <1>1, <1>2
<1>4. e.results \in Seq(Result)
  OBVIOUS
<1>5. Append(r, e.results) = [i \in 1..(n + 1) |-> q[i].results]
  <2>1. /\ Append(r, e.results) = [i \in 1..(n + 1) |-> Append(r, e.results)[i]]
        /\ Append(r, e.results)[n + 1] = e.results
        /\ \A i \in 1..n : Append(r, e.results)[i] = r[i]
    BY <1>3, <1>4
  <2>2. \A i \in 1..n : r[i] = q[i].results
    BY <1>1, <1>2
  <2>3. \A i \in 1..(n + 1) : i \in 1..n \/ i = n + 1
    OBVIOUS
  <2>4. \A i \in 1..(n + 1) : Append(r, e.results)[i] = q[i].results
    BY <1>1, <2>1, <2>2, <2>3
  <2> QED BY <2>1, <2>4
<1>6. FlattenSeq(Append(r, e.results)) = FlattenSeq(r) \o e.results
  BY <1>3, <1>4, FlattenAppend
<1> QED BY <1>2, <1>5, <1>6

\* One that holds no results changes nothing.
LEMMA NothingMore == \A s \in Seq(Result) : s \o <<>> = s
  OBVIOUS

\* The prompt given has no results.
LEMMA ReportInit == Init => ReportInv
<1> SUFFICES ASSUME Init PROVE ReportInv
  OBVIOUS
<1>1. \A ss : Len(ss) = 0 => FlattenSeq(ss) = ss
  BY FlattenIs
<1>2. ResultsIn(<<>>) = <<>>
  BY DEF ResultsIn
<1>3. FlattenSeq(<<>>) = <<>>
  BY <1>1
<1>4. FlattenSeq(ResultsIn(<<UserTurn>>)) = <<>>
  <2>1. <<UserTurn>> = Append(<<>>, UserTurn) /\ UserTurn.results = <<>> /\ <<>> \in Seq(Message)
    BY DEF UserTurn
  <2>2. UserTurn \in Message /\ \A m \in Message : m.results \in Seq(Result)
    BY TurnTypes DEF Message
  <2>3. FlattenSeq(ResultsIn(Append(<<>>, UserTurn))) = FlattenSeq(ResultsIn(<<>>)) \o UserTurn.results
    BY <2>1, <2>2, OneMore
  <2> QED BY <1>2, <1>3, <2>1, <2>3
<1> QED BY <1>2, <1>3, <1>4 DEF Init, ReportInv

\* Each message has results, and each step has.
LEMMA HaveResults ==
    /\ \A m \in Message : m.results \in Seq(Result)
    /\ \A s \in [reply : [reason : {"tool-calls", "other"}, calls : Seq(Call)],
                 results : Seq(Result)] : s.results \in Seq(Result)
  BY DEF Message

\* A step that says nothing and runs no tools.
LEMMA ReportQuiet ==
    ASSUME LoopInv, ReportInv, UNCHANGED <<steps, prompt, allCalls, results>>,
           \/ pc' = pc /\ count' = count
           \/ pc = "loop" /\ pc' \in {"send", "done"} /\ count' = count
           \/ pc = "send" /\ pc' = "model" /\ count'.asks = count.asks + 1
           \/ pc = "launch" /\ pc' = "collect" /\ count' = count
           \/ pc' = "failed"
    PROVE  ReportInv'
<1>1. ResultsIn(steps)' = ResultsIn(steps) /\ ResultsIn(prompt)' = ResultsIn(prompt)
  BY DEF ResultsIn
<1>2. Len(steps) \in Nat /\ count.asks \in Nat
  BY DEF LoopInv, TypeOK
<1> QED BY <1>1, <1>2 DEF ReportInv

\* The reply: without calls the step has no results.
LEMMA ReportReply ==
    ASSUME LoopInv, ReportInv, NEW r \in Replies, ModelReplies(r) PROVE ReportInv'
<1>1. /\ pc = "model" /\ results' = <<>> /\ UNCHANGED <<steps, allCalls>>
      /\ prompt \in Seq(Message) /\ allCalls \in Seq(Result)
  BY DEF ModelReplies, LoopInv, TypeOK
<1>2. ResultsIn(steps)' = ResultsIn(steps)
  BY <1>1 DEF ResultsIn
<1>3. allCalls = FlattenSeq(ResultsIn(steps)) /\ allCalls = FlattenSeq(ResultsIn(prompt))
  BY <1>1 DEF ReportInv
<1>4. FlattenSeq(ResultsIn(steps)) \o <<>> = FlattenSeq(ResultsIn(steps))
  BY <1>1, <1>3, NothingMore
<1>5. CASE HasCalls(r)
  <2>1. /\ pc' = "launch" /\ prompt' = Append(prompt, AssistantTurn(r.calls))
        /\ count'.asks = count.asks
    BY <1>5 DEF ModelReplies
  <2>2. AssistantTurn(r.calls) \in Message /\ AssistantTurn(r.calls).results = <<>>
    BY TurnTypes, ReplyFacts DEF AssistantTurn
  <2>3. FlattenSeq(ResultsIn(prompt')) = FlattenSeq(ResultsIn(prompt)) \o <<>>
    BY <1>1, <2>1, <2>2, HaveResults, OneMore
  <2>4. FlattenSeq(ResultsIn(prompt)') = allCalls
    <3>1. ResultsIn(prompt)' = ResultsIn(prompt')
      BY DEF ResultsIn
    <3> QED BY <1>1, <1>3, <2>3, <3>1, NothingMore
  <2> QED BY <1>1, <1>2, <1>3, <2>1, <2>4 DEF ReportInv
<1>6. CASE ~HasCalls(r)
  <2>1. pc' = "finish" /\ UNCHANGED <<prompt, count>>
    BY <1>6 DEF ModelReplies
  <2>2. ResultsIn(prompt)' = ResultsIn(prompt)
    BY <2>1 DEF ResultsIn
  <2> QED BY <1>1, <1>2, <1>3, <1>4, <2>1, <2>2 DEF ReportInv
<1> QED BY <1>5, <1>6

\* The round is sent back, and in allCalls.
LEMMA ReportRound == ASSUME LoopInv, ReportInv, AppendToolResults PROVE ReportInv'
<1>1. /\ pc = "collect" /\ pc' = "finish" /\ prompt' = Append(prompt, ToolTurn(results))
      /\ allCalls' = allCalls \o results /\ UNCHANGED <<steps, results, count>>
      /\ prompt \in Seq(Message) /\ results \in Seq(Result)
  BY DEF AppendToolResults, LoopInv, TypeOK
<1>2. ResultsIn(steps)' = ResultsIn(steps) /\ ResultsIn(prompt)' = ResultsIn(prompt')
  BY <1>1 DEF ResultsIn
<1>3. ToolTurn(results) \in Message /\ ToolTurn(results).results = results
  BY <1>1, TurnTypes DEF ToolTurn
<1>4. FlattenSeq(ResultsIn(prompt')) = FlattenSeq(ResultsIn(prompt)) \o results
  BY <1>1, <1>3, HaveResults, OneMore
<1> QED BY <1>1, <1>2, <1>4 DEF ReportInv

\* The step is recorded.
LEMMA ReportFinish == ASSUME LoopInv, ReportInv, FinishStep PROVE ReportInv'
<1> DEFINE StepResult == [reply : [reason : {"tool-calls", "other"}, calls : Seq(Call)],
                          results : Seq(Result)]
<1> PICK s : s = [reply |-> reply, results |-> results]
  OBVIOUS
<1>1. /\ pc = "finish" /\ pc' \in {"loop", "done"} /\ steps' = Append(steps, s)
      /\ UNCHANGED <<prompt, results, allCalls, count>>
      /\ steps \in Seq(StepResult) /\ s \in StepResult /\ s.results = results
      /\ Len(steps) \in Nat /\ count.asks \in Nat
  BY DEF FinishStep, LoopInv, TypeOK
<1>2. ResultsIn(steps)' = ResultsIn(steps') /\ ResultsIn(prompt)' = ResultsIn(prompt)
  BY <1>1 DEF ResultsIn
<1>a. \A e \in StepResult : e.results \in Seq(Result)
  BY HaveResults
<1> HIDE DEF StepResult
<1>3. FlattenSeq(ResultsIn(steps')) = FlattenSeq(ResultsIn(steps)) \o results
  BY <1>1, <1>a, OneMore
<1>4. Len(steps') = Len(steps) + 1
  BY <1>1
<1> QED BY <1>1, <1>2, <1>3, <1>4 DEF ReportInv

\* Each step of the loop.
LEMMA ReportNext == ASSUME LoopInv, ReportInv, [Next]_vars PROVE ReportInv'
<1>1. ASSUME NEW r \in Replies, ModelReplies(r) PROVE ReportInv'
  BY <1>1, ReportReply
<1>2. CASE AppendToolResults
  BY <1>2, ReportRound
<1>3. CASE FinishStep
  BY <1>3, ReportFinish
<1>4. CASE Collect /\ pc' = pc
  <2>1. /\ pc = "collect" /\ UNCHANGED <<pc, steps, prompt, allCalls, count>>
    BY <1>4 DEF Collect
  <2>2. ResultsIn(steps)' = ResultsIn(steps) /\ ResultsIn(prompt)' = ResultsIn(prompt)
    BY <2>1 DEF ResultsIn
  <2> QED BY <2>1, <2>2 DEF ReportInv
<1>5. CASE Collect /\ pc' # pc
  <2>1. pc' = "failed" /\ UNCHANGED <<steps, prompt, allCalls, results>>
    BY <1>5 DEF Collect
  <2> QED BY <2>1, ReportQuiet
<1>6. CASE StepHead \/ AskModel \/ Launch \/ ModelThrows \/ CallbackThrows
  <2>1. /\ UNCHANGED <<steps, prompt, allCalls, results>>
        /\ \/ pc' = pc /\ count' = count
           \/ pc = "loop" /\ pc' \in {"send", "done"} /\ count' = count
           \/ pc = "send" /\ pc' = "model" /\ count'.asks = count.asks + 1
           \/ pc = "launch" /\ pc' = "collect" /\ count' = count
           \/ pc' = "failed"
    BY <1>6 DEF StepHead, AskModel, Launch, ModelThrows, CallbackThrows
  <2> QED BY <2>1, ReportQuiet
<1>7. CASE TaskStep \/ Cancel \/ Terminated \/ UNCHANGED vars
  <2>1. UNCHANGED <<pc, steps, prompt, allCalls, results, count>>
    BY <1>7 DEF TaskStep, RepairEnds, ToolEnds, ThrowsForeign, TaskMoves, Cancel, Terminated, vars
  <2> QED BY <2>1, ReportQuiet
<1> QED BY <1>1, <1>2, <1>3, <1>4, <1>5, <1>6, <1>7 DEF Next, LoopStep, ModelStep

\* What generate_text returns agrees with what it did: a step for each model
\* call, and in all_tool_calls the results of all rounds as the messages have
\* them, for any number of rounds and calls.
THEOREM Reported == Spec => []ReportAgrees
<1>1. LoopInv /\ ReportInv /\ [Next]_vars => ReportInv'
  BY ReportNext
<1>2. ReportInv => ReportAgrees
  BY DEF ReportInv, ReportAgrees, ResultsIn
<1> QED BY <1>1, <1>2, ReportInit, LoopInvariant, PTL DEF Spec
=============================================================================
