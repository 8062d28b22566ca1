--------------------------- MODULE StreamLoopProofs ---------------------------
(***************************************************************************)
(* stream_text, for every max_steps, every set of ids and every length of  *)
(* the model's streams: its inductive invariant, that full_result follows  *)
(* the stream, the bound on the work done after a cancellation, and that   *)
(* it implements ToolConversation, and that the calls it executes are      *)
(* those the parts of the stream started and ended.                        *)
(***************************************************************************)
EXTENDS StreamLoop, FiniteSetTheorems, TLAPS

Message == [role    : {"user", "assistant", "tool"},
            calls   : Seq(Call),
            results : Seq(Result)]

LEMMA EmptySequence == \A S : <<>> \in Seq(S) /\ Len(<<>>) = 0
  OBVIOUS

\* What Append does to a sequence, in the form the proofs below use.
LEMMA AppendFacts ==
    ASSUME NEW S, NEW s \in Seq(S), NEW e \in S
    PROVE  /\ Append(s, e) \in Seq(S)
           /\ Append(s, e) # <<>>
           /\ Len(Append(s, e)) = Len(s) + 1
           /\ Append(s, e)[Len(Append(s, e))] = e
  OBVIOUS

LEMMA TurnTypes ==
    /\ UserTurn \in Message
    /\ \A cs \in Seq(Call) : AssistantTurn(cs) \in Message
    /\ \A rs \in Seq(Result) : ToolTurn(rs) \in Message
  BY DEF UserTurn, AssistantTurn, ToolTurn, Message

LEMMA InitInv == Init => StreamInv
<1> SUFFICES ASSUME Init PROVE StreamInv
  OBVIOUS
<1>1. prompt \in Seq(Message) /\ step \in 0..MaxSteps
  BY StreamAssumption, TurnTypes DEF Init
<1>2. TypeOK
  BY <1>1, EmptySequence DEF Init, TypeOK, Reasons, Message
<1>3. StepShape
  BY EmptySequence, StreamAssumption DEF Init, StepShape
<1> QED BY <1>2, <1>3 DEF Init, StreamInv, AsksCounted, LateWork,
                          CancelBoundsWork, SinkFollowsStream, Returned

\* Which of the two paths is taken is settled when stream_text is called.
LEMMA SinglePathFixed ==
    ASSUME [Next]_vars PROVE hasTools' = hasTools /\ Single' = Single
<1>1. hasTools' = hasTools
  BY DEF Next, vars, Produce, Enter, StepHead, AskModel, StreamOpens, OpenThrows,
         PartArrives, Pull, Drop, StreamThrows, StreamCloses, ToolsAnswer,
         ToolsThrow, FinishStep, CallbackThrows, Cancel, AwaitFullResult, Terminated
<1> QED BY <1>1 DEF Single

-----------------------------------------------------------------------------
(* What a step does to the counters *)

\* count as three numbers.
LEMMA CountSteps ==
    ASSUME StreamInv, [Next]_vars
    PROVE  /\ count \in [asks : Nat, lateAsks : Nat, lateRounds : Nat]
           /\ count' \in [asks : Nat, lateAsks : Nat, lateRounds : Nat]
           /\ Late \in {0, 1} /\ (~cancelled => Late = 0)
           /\ \/ /\ count'.asks = count.asks + 1
                 /\ count'.lateAsks = count.lateAsks + Late
                 /\ count'.lateRounds = count.lateRounds
                 /\ cancelled' = cancelled
                 /\ AskModel \/ (Enter /\ Single)
              \/ /\ count'.asks = count.asks
                 /\ count'.lateAsks = count.lateAsks
                 /\ count'.lateRounds = count.lateRounds + Late
                 /\ cancelled' = cancelled
                 /\ StreamCloses /\ RunsTools
              \/ /\ count' = count
                 /\ ~AskModel /\ ~(Enter /\ Single) /\ ~(StreamCloses /\ RunsTools)
<1>1. /\ count \in [asks : Nat, lateAsks : Nat, lateRounds : Nat]
      /\ Late \in {0, 1} /\ (~cancelled => Late = 0)
  BY DEF StreamInv, TypeOK, Late
<1>2. CASE AskModel \/ (Enter /\ Single)
  <2>1. /\ count' = [asks |-> count.asks + 1, lateAsks |-> count.lateAsks + Late,
                     lateRounds |-> count.lateRounds]
        /\ cancelled' = cancelled
    BY <1>2 DEF AskModel, Enter, Asks
  <2> QED BY <1>1, <1>2, <2>1
<1>3. CASE StreamCloses /\ RunsTools
  <2>1. /\ count' = [asks |-> count.asks, lateAsks |-> count.lateAsks,
                     lateRounds |-> count.lateRounds + Late]
        /\ cancelled' = cancelled
    BY <1>3 DEF StreamCloses
  <2> QED BY <1>1, <1>3, <2>1
<1>4. CASE ~AskModel /\ ~(Enter /\ Single) /\ ~(StreamCloses /\ RunsTools)
  <2>1. count' = count
    BY <1>4, SinglePathFixed DEF Next, vars, Produce, Enter, StepHead, StreamOpens, OpenThrows,
                PartArrives, Pull, Drop, StreamThrows, StreamCloses, ToolsAnswer,
                ToolsThrow, FinishStep, CallbackThrows, Cancel, AwaitFullResult,
                Terminated
  <2> QED BY <1>1, <1>4, <2>1
<1> QED BY <1>2, <1>3, <1>4

-----------------------------------------------------------------------------
(* Types and the shape of a step *)

\* Where each step goes, and what it does to sink and waiter.
LEMMA MovesTyped ==
    ASSUME StreamInv, [Next]_vars
    PROVE  /\ pc' \in {"entry", "opening", "created", "loop", "send", "reading",
                       "yielded", "tools", "finish", "ended", "failed", "dropped"}
           /\ sink' \in {"empty", "value", "error"}
           /\ waiter' \in {"none", "waiting", "value", "error"}
           /\ cancelled' \in BOOLEAN
<1> USE DEF StreamInv, TypeOK
<1>1. CASE Enter \/ AskModel \/ StreamOpens \/ Pull \/ Drop \/ StreamCloses \/ ToolsAnswer
  BY <1>1 DEF Enter, AskModel, StreamOpens, Pull, Drop, StreamCloses, ToolsAnswer, GoesTo
<1>2. CASE StepHead \/ FinishStep
  BY <1>2 DEF StepHead, FinishStep, GoesTo, Ends, Fails, Settle
<1>3. CASE OpenThrows \/ StreamThrows \/ ToolsThrow \/ CallbackThrows
  BY <1>3 DEF OpenThrows, StreamThrows, ToolsThrow, CallbackThrows, GoesTo, Fails, Settle
<1>4. ASSUME NEW part \in Parts, PartArrives(part)
      PROVE  pc' = "yielded" /\ UNCHANGED <<sink, waiter, cancelled>>
  BY <1>4 DEF PartArrives, GoesTo
<1>5. CASE Cancel \/ AwaitFullResult \/ Terminated \/ UNCHANGED vars
  BY <1>5 DEF Cancel, AwaitFullResult, Terminated, vars
<1> QED BY <1>1, <1>2, <1>3, <1>4, <1>5 DEF Next, Produce

\* Steps that leave the messages and the parts of the step alone.
QuietStep == \/ Enter \/ StepHead \/ AskModel \/ OpenThrows \/ Pull \/ Drop
             \/ StreamThrows \/ ToolsThrow \/ CallbackThrows \/ Cancel
             \/ AwaitFullResult \/ Terminated \/ UNCHANGED vars

LEMMA QuietTyped ==
    ASSUME StreamInv, [Next]_vars, QuietStep PROVE TypeOK' /\ StepShape'
<1>1. UNCHANGED <<hasTools, step, prompt, parts, pending, calls, reason>>
  BY DEF QuietStep, vars, Enter, StepHead, AskModel, OpenThrows, Pull, Drop,
         StreamThrows, ToolsThrow, CallbackThrows, Cancel, AwaitFullResult,
         Terminated
<1>2. pc' = "tools" => pc = "tools"
  BY DEF QuietStep, vars, Enter, StepHead, AskModel, OpenThrows, Pull, Drop,
         StreamThrows, ToolsThrow, CallbackThrows, Cancel, AwaitFullResult,
         Terminated, GoesTo, Ends, Fails
<1>3. Single => pc' \notin {"loop", "send", "tools"}
  BY DEF QuietStep, vars, Enter, StepHead, AskModel, OpenThrows, Pull, Drop,
         StreamThrows, ToolsThrow, CallbackThrows, Cancel, AwaitFullResult,
         Terminated, GoesTo, Ends, Fails, StreamInv, StepShape
<1> QED BY <1>1, <1>2, <1>3, CountSteps, MovesTyped, SinglePathFixed DEF StreamInv, TypeOK, StepShape

LEMMA OpensTyped ==
    ASSUME StreamInv, [Next]_vars, StreamOpens PROVE TypeOK' /\ StepShape'
<1>1. /\ pc' \in {"created", "reading"}
      /\ parts' = <<>> /\ pending' = {} /\ calls' = <<>> /\ reason' = "other"
      /\ UNCHANGED <<hasTools, step, prompt>>
  BY DEF StreamOpens, GoesTo
<1> QED BY <1>1, EmptySequence, StreamAssumption, CountSteps, MovesTyped, SinglePathFixed
        DEF StreamInv, TypeOK, StepShape, Reasons

LEMMA PartTyped ==
    ASSUME StreamInv, [Next]_vars, NEW part \in Parts, PartArrives(part)
    PROVE  TypeOK' /\ StepShape'
<1>1. /\ Len(parts) < MaxParts /\ pc' = "yielded"
      /\ parts' = Append(parts, part)
      /\ UNCHANGED <<hasTools, step, prompt>>
  BY StreamAssumption DEF PartArrives, Room, GoesTo, StreamInv, TypeOK
<1>2. reason' \in Reasons
  <2>1. CASE part.kind = "finish"
    <3>1. part.reason \in Reasons
      BY <2>1 DEF Parts
    <3> QED BY <2>1, <3>1 DEF PartArrives
  <2>2. CASE part.kind # "finish"
    BY <2>2 DEF PartArrives, StreamInv, TypeOK
  <2> QED BY <2>1, <2>2
<1>3. part.kind \in {"start", "end"} => part.id \in Ids
  BY DEF Parts
<1>4. /\ pending' \subseteq Ids
      /\ \/ calls' = calls
         \/ ~Single /\ part.id \in Ids /\ calls' = Append(calls, [id |-> part.id])
  BY <1>3 DEF PartArrives, Account, StreamInv, TypeOK
<1>5. /\ parts' \in Seq(Parts) /\ Len(parts') = Len(parts) + 1
      /\ calls' \in Seq(Call) /\ Len(calls') \in {Len(calls), Len(calls) + 1}
  <2>1. parts \in Seq(Parts) /\ calls \in Seq(Call)
    BY DEF StreamInv, TypeOK
  <2>2. part.id \in Ids => [id |-> part.id] \in Call
    BY DEF Call
  <2>3. parts' \in Seq(Parts) /\ Len(parts') = Len(parts) + 1
    BY <1>1, <2>1, AppendFacts
  <2>4. CASE calls' = calls
    BY <2>1, <2>3, <2>4
  <2>5. CASE part.id \in Ids /\ calls' = Append(calls, [id |-> part.id])
    BY <2>1, <2>2, <2>3, <2>5, AppendFacts
  <2> QED BY <1>4, <2>4, <2>5
<1>6. Len(parts) \in Nat /\ Len(calls) \in Nat /\ MaxParts \in Nat
  BY StreamAssumption DEF StreamInv, TypeOK
<1>7. StepShape'
  BY SinglePathFixed, <1>1, <1>4, <1>5, <1>6 DEF StreamInv, StepShape
<1> QED BY <1>1, <1>2, <1>4, <1>5, <1>7, CountSteps, MovesTyped, SinglePathFixed DEF StreamInv, TypeOK

LEMMA ClosesTyped ==
    ASSUME StreamInv, [Next]_vars, StreamCloses PROVE TypeOK' /\ StepShape'
<1>1. UNCHANGED <<hasTools, step, parts, pending, calls, reason>>
  BY DEF StreamCloses
<1>2. CASE RunsTools
  <2>1. pc' = "tools" /\ prompt' = Append(prompt, AssistantTurn(calls)) /\ calls # <<>>
    BY <1>2 DEF StreamCloses, RunsTools, GoesTo
  <2>2. prompt \in Seq(Message) /\ AssistantTurn(calls) \in Message
    BY TurnTypes DEF StreamInv, TypeOK, Message
  <2>3. /\ prompt' \in Seq(Message) /\ prompt' # <<>>
        /\ prompt'[Len(prompt')] = AssistantTurn(calls)
    BY <2>1, <2>2, AppendFacts
  <2>4. TypeOK'
    BY <1>1, <2>1, <2>3, CountSteps, MovesTyped, SinglePathFixed
    DEF StreamInv, TypeOK, Message
  <2>5. ~Single
    BY <2>1 DEF StreamInv, StepShape
  <2> QED BY <1>1, <2>1, <2>3, <2>4, <2>5, SinglePathFixed DEF StreamInv, StepShape
<1>3. CASE ~RunsTools
  <2>1. pc' = "finish" /\ prompt' = prompt
    BY <1>3 DEF StreamCloses, GoesTo
  <2> QED BY <1>1, <2>1, CountSteps, MovesTyped, SinglePathFixed DEF StreamInv, TypeOK, StepShape
<1> QED BY <1>2, <1>3

\* The tool message a round of tools appends.
LEMMA ToolsFacts ==
    ASSUME StreamInv, ToolsAnswer
    PROVE  \E rs \in [1..Len(calls) -> Result] :
              /\ rs \in Seq(Result)
              /\ \A i \in 1..Len(calls) : rs[i].id = calls[i].id
              /\ prompt' = Append(prompt, ToolTurn(rs))
<1>1. PICK err \in [1..Len(calls) -> BOOLEAN] :
          prompt' = Append(prompt, ToolTurn(
              [i \in 1..Len(calls) |-> [id |-> calls[i].id, err |-> err[i]]]))
  BY DEF ToolsAnswer
<1> DEFINE rs == [i \in 1..Len(calls) |-> [id |-> calls[i].id, err |-> err[i]]]
<1>2. PICK n \in Nat : n = Len(calls) /\ DOMAIN calls = 1..n /\ calls \in Seq(Call)
  BY DEF StreamInv, TypeOK
<1>3. \A i \in 1..n : calls[i] \in Call
  BY <1>2
<1>4. \A i \in 1..n : calls[i].id \in Ids
  BY <1>3 DEF Call
<1>5. rs \in [1..n -> Result]
  BY <1>2, <1>4 DEF Result
<1>6. rs \in Seq(Result)
  BY <1>2, <1>5
<1>7. \A i \in 1..n : rs[i].id = calls[i].id
  BY <1>2
<1> QED BY <1>1, <1>2, <1>5, <1>6, <1>7

LEMMA AnswerTyped ==
    ASSUME StreamInv, [Next]_vars, ToolsAnswer PROVE TypeOK' /\ StepShape'
<1>1. pc' = "finish" /\ UNCHANGED <<hasTools, step, parts, pending, calls, reason>>
  BY DEF ToolsAnswer, GoesTo
<1>2. prompt' \in Seq(Message)
  <2>1. PICK rs \in Seq(Result) : prompt' = Append(prompt, ToolTurn(rs))
    BY ToolsFacts
  <2>2. prompt \in Seq(Message) /\ ToolTurn(rs) \in Message
    BY TurnTypes DEF StreamInv, TypeOK, Message
  <2> QED BY <2>1, <2>2, AppendFacts
<1>3. TypeOK'
  BY <1>1, <1>2, CountSteps, MovesTyped, SinglePathFixed DEF StreamInv, TypeOK, Message
<1> QED BY <1>1, <1>3, SinglePathFixed DEF StreamInv, StepShape

LEMMA FinishTyped ==
    ASSUME StreamInv, [Next]_vars, FinishStep PROVE TypeOK' /\ StepShape'
<1>1. /\ pc = "finish"
      /\ UNCHANGED <<hasTools, prompt, parts, pending, calls, reason>>
      /\ \/ ~Single /\ pc' = "loop" /\ step' = step + 1
         \/ pc' = "ended" /\ step' = step
  BY DEF FinishStep, GoesTo, Ends
<1>2. step' \in 0..MaxSteps
  BY <1>1, StreamAssumption DEF StreamInv, TypeOK, AsksCounted
<1> QED BY <1>1, <1>2, CountSteps, MovesTyped, SinglePathFixed DEF StreamInv, TypeOK, StepShape

LEMMA TypesKept == ASSUME StreamInv, [Next]_vars PROVE TypeOK' /\ StepShape'
  BY QuietTyped, OpensTyped, PartTyped, ClosesTyped, AnswerTyped, FinishTyped
  DEF Next, Produce, QuietStep

-----------------------------------------------------------------------------
(* The counters and the sink *)

\* How each step moves the loop counter along.
LEMMA AsksKept == ASSUME StreamInv, [Next]_vars PROVE AsksCounted'
<1>1. step \in Nat /\ count.asks \in Nat /\ MaxSteps \in Nat
  BY StreamAssumption DEF StreamInv, TypeOK
<1>2. CASE AskModel \/ (Enter /\ Single)
  <2>1. count'.asks = count.asks + 1 /\ step' = step
    BY <1>1, <1>2, CountSteps DEF AskModel, Enter, StreamCloses, GoesTo
  <2> QED BY SinglePathFixed, <1>1, <1>2, <2>1 DEF StreamInv, AsksCounted, StepShape, AskModel, Enter, GoesTo
<1>3. CASE ~AskModel /\ ~(Enter /\ Single)
  <2>1. count'.asks = count.asks
    BY <1>3, CountSteps
  <2>2. Single' <=> Single
    BY SinglePathFixed
  <2> USE DEF StreamInv, StepShape, AsksCounted
  <2>3. CASE Enter \/ StepHead \/ FinishStep
    BY <1>1, <1>3, <2>1, <2>2, <2>3 DEF Enter, StepHead, FinishStep, GoesTo, Ends, Fails
  <2>4. CASE StreamOpens \/ StreamCloses \/ ToolsAnswer \/ Pull \/ Drop
    BY <1>1, <2>1, <2>2, <2>4 DEF StreamOpens, StreamCloses, ToolsAnswer, Pull, Drop, GoesTo
  <2>5. ASSUME NEW part \in Parts, PartArrives(part) PROVE AsksCounted'
    BY <1>1, <2>1, <2>2, <2>5 DEF PartArrives, GoesTo
  <2>6. CASE OpenThrows \/ StreamThrows \/ ToolsThrow \/ CallbackThrows
    BY <1>1, <2>1, <2>2, <2>6 DEF OpenThrows, StreamThrows, ToolsThrow, CallbackThrows,
                                  GoesTo, Fails
  <2>7. CASE AwaitFullResult \/ Cancel \/ Terminated \/ UNCHANGED vars
    BY <1>1, <2>1, <2>2, <2>7 DEF AwaitFullResult, Cancel, Terminated, vars
  <2> QED BY <1>3, <2>3, <2>4, <2>5, <2>6, <2>7 DEF Next, Produce
<1> QED BY <1>2, <1>3

LEMMA LateKept == ASSUME StreamInv, [Next]_vars PROVE LateWork' /\ CancelBoundsWork'
<1>0. count.lateAsks \in Nat /\ count.lateRounds \in Nat
  BY CountSteps
<1>1. CASE AskModel \/ (Enter /\ Single)
  <2>1. /\ count'.lateAsks = count.lateAsks + Late
        /\ count'.lateRounds = count.lateRounds
        /\ Late \in {0, 1} /\ (~cancelled => Late = 0) /\ cancelled' = cancelled
        /\ pc \in {"entry", "send"} /\ pc' = "opening"
    BY <1>1, CountSteps DEF AskModel, Enter, GoesTo, StreamCloses
  <2> QED BY <1>0, <2>1 DEF StreamInv, LateWork, CancelBoundsWork
<1>2. CASE StreamCloses /\ RunsTools
  <2>1. /\ count'.lateAsks = count.lateAsks
        /\ count'.lateRounds = count.lateRounds + Late
        /\ Late \in {0, 1} /\ (~cancelled => Late = 0) /\ cancelled' = cancelled
        /\ pc = "reading" /\ pc' = "tools"
    BY <1>2, CountSteps DEF AskModel, Enter, GoesTo, StreamCloses
  <2> QED BY <1>0, <2>1 DEF StreamInv, LateWork, CancelBoundsWork
<1>3. CASE ~AskModel /\ ~(Enter /\ Single) /\ ~(StreamCloses /\ RunsTools)
  <2>1. count' = count
    BY <1>3, CountSteps
  <2> QED BY <1>0, <1>3, <2>1
          DEF StreamInv, LateWork, CancelBoundsWork, Next, vars, Produce, Enter,
              StepHead, StreamOpens, OpenThrows, PartArrives, Pull, Drop,
              StreamThrows, StreamCloses, ToolsAnswer, ToolsThrow, FinishStep,
              CallbackThrows, Cancel, AwaitFullResult, Terminated, GoesTo, Ends, Fails
<1> QED BY <1>1, <1>2, <1>3

LEMMA SinkKept == ASSUME StreamInv, [Next]_vars PROVE SinkFollowsStream'
<1>0. Single' <=> Single
  BY SinglePathFixed
<1> USE DEF StreamInv, StepShape, SinkFollowsStream, Returned, TypeOK
<1>1. CASE Enter \/ AskModel \/ StreamOpens \/ Pull \/ Drop \/ StreamCloses \/ ToolsAnswer
  BY <1>0, <1>1 DEF Enter, AskModel, StreamOpens, Pull, Drop, StreamCloses,
                    ToolsAnswer, GoesTo
<1>2. CASE StepHead \/ OpenThrows \/ StreamThrows \/ ToolsThrow \/ FinishStep
           \/ CallbackThrows
  BY <1>0, <1>2 DEF StepHead, OpenThrows, StreamThrows, ToolsThrow, FinishStep,
                    CallbackThrows, GoesTo, Ends, Fails, Settle
<1>3. ASSUME NEW part \in Parts, PartArrives(part) PROVE SinkFollowsStream'
  BY <1>0, <1>3 DEF PartArrives, GoesTo
<1>4. CASE AwaitFullResult \/ Cancel \/ Terminated \/ UNCHANGED vars
  BY <1>0, <1>4 DEF AwaitFullResult, Cancel, Terminated, vars
<1> QED BY <1>1, <1>2, <1>3, <1>4 DEF Next, Produce

LEMMA NextInv == StreamInv /\ [Next]_vars => StreamInv'
  BY TypesKept, AsksKept, LateKept, SinkKept DEF StreamInv

-----------------------------------------------------------------------------

\* The inductive invariant of stream_text's generator: types, the calls
\* gathered so far, the counters and the sink.
THEOREM StreamInvariant == Spec => []StreamInv
  BY InitInv, NextInv, PTL DEF Spec

\* full_result always has the outcome of the stream, and nobody waits for a
\* sink that is already set.
THEOREM SinkFollows == Spec => []SinkFollowsStream
<1>1. StreamInv => SinkFollowsStream
  BY DEF StreamInv
<1> QED BY <1>1, StreamInvariant, PTL

\* At most one model call and one round of tools begin after a cancellation.
THEOREM StreamCancelBounded == Spec => []CancelBoundsWork
<1>1. StreamInv => CancelBoundsWork
  BY DEF StreamInv
<1> QED BY <1>1, StreamInvariant, PTL

-----------------------------------------------------------------------------
(* The conversation *)

\* The abstract phase of each place in the generator.
LEMMA PhaseFacts ==
    /\ pc \in {"entry", "loop", "send"} => phase = "idle"
    /\ pc = "created" => phase = IF Single THEN "asked" ELSE "idle"
    /\ pc \in {"opening", "reading", "yielded"} => phase = "asked"
    /\ pc = "tools" => phase = "owing"
    /\ pc = "finish" => phase = "settled"
    /\ pc = "ended" => phase = "done"
    /\ pc \in {"failed", "dropped"} => phase = "aborted"
  BY DEF phase

LEMMA SameMessages ==
    /\ Conv!UserTurn = UserTurn
    /\ \A cs : Conv!AssistantTurn(cs) = AssistantTurn(cs)
    /\ \A rs : Conv!ToolTurn(rs) = ToolTurn(rs)
  BY DEF Conv!UserTurn, UserTurn, Conv!AssistantTurn, AssistantTurn,
         Conv!ToolTurn, ToolTurn

LEMMA AsksRefine ==
    ASSUME StreamInv, AskModel \/ (Enter /\ Single) PROVE Conv!Ask
<1>1. /\ count'.asks = count.asks + 1 /\ prompt' = prompt /\ pc' = "opening"
      /\ pc \in {"entry", "send"}
      /\ AskModel => ~Single
  BY DEF AskModel, Enter, Asks, GoesTo, StreamInv, StepShape
<1>2. count.asks < MaxAsks
  BY <1>1, StreamAssumption
  DEF StreamInv, AsksCounted, AskModel, Enter, MaxAsks, Single
<1> QED BY <1>1, <1>2 DEF phase, Conv!Ask

LEMMA CallsRefine == ASSUME StreamInv, StreamCloses, RunsTools PROVE Conv!ReplyWithCalls
<1>1. /\ pc = "reading" /\ pc' = "tools" /\ count'.asks = count.asks
      /\ prompt' = Append(prompt, AssistantTurn(calls)) /\ calls # <<>>
  BY DEF StreamCloses, RunsTools, GoesTo
<1>2. calls \in CallLists
  <2>1. /\ calls \in Seq(Call) /\ Len(calls) \in Nat /\ Len(calls) # 0
        /\ Len(calls) <= MaxParts
    BY <1>1, StreamAssumption DEF StreamInv, TypeOK, StepShape
  <2>2. Len(calls) \in 1..MaxParts /\ calls \in [1..Len(calls) -> Call]
    BY <2>1, StreamAssumption
  <2> QED BY <2>2 DEF CallLists
<1> QED BY <1>1, <1>2, SameMessages DEF phase, Conv!ReplyWithCalls

LEMMA AnswerRefines == ASSUME StreamInv, ToolsAnswer PROVE Conv!AnswerAll
<1>1. pc = "tools" /\ pc' = "finish" /\ count' = count
  BY DEF ToolsAnswer, GoesTo
<1> DEFINE owed == prompt[Len(prompt)].calls
<1>2. owed = calls
  BY <1>1 DEF StreamInv, StepShape, AssistantTurn
<1>3. PICK rs \in [1..Len(calls) -> Result] :
          /\ rs \in Seq(Result)
          /\ \A i \in 1..Len(calls) : rs[i].id = calls[i].id
          /\ prompt' = Append(prompt, ToolTurn(rs))
  BY ToolsFacts
<1>4. Len(calls) \in Nat
  BY DEF StreamInv, TypeOK
<1>5. Conv!Answers(rs, owed) /\ rs \in [1..Len(owed) -> Result]
  BY <1>2, <1>3, <1>4 DEF Conv!Answers
<1> QED BY <1>1, <1>3, <1>5, SameMessages DEF phase, Conv!AnswerAll

\* Every step of stream_text is a step of the conversation or leaves it be.
LEMMA StepRefines == StreamInv /\ [Next]_vars => [Conv!Next]_(Conv!vars)
<1> SUFFICES ASSUME StreamInv, [Next]_vars PROVE [Conv!Next]_(Conv!vars)
  OBVIOUS
<1>1. CASE AskModel \/ (Enter /\ Single)
  BY <1>1, AsksRefine DEF Conv!Next
<1>2. CASE Enter /\ ~Single
  BY <1>2, SinglePathFixed DEF Enter, GoesTo, phase, Conv!vars
<1>3. CASE StepHead
  BY <1>3 DEF StepHead, GoesTo, Ends, Fails, phase, Conv!Next, Conv!Finish,
              Conv!Abort, Conv!vars
<1>4. CASE StreamOpens \/ Pull
  BY <1>4, SinglePathFixed DEF StreamOpens, Pull, GoesTo, phase, Conv!vars
<1>5. CASE OpenThrows \/ StreamThrows \/ ToolsThrow \/ CallbackThrows
  BY <1>5 DEF OpenThrows, StreamThrows, ToolsThrow, CallbackThrows, GoesTo,
              Fails, phase, Conv!Next, Conv!Abort
<1>6. ASSUME NEW part \in Parts, PartArrives(part) PROVE UNCHANGED Conv!vars
  BY <1>6 DEF PartArrives, GoesTo, phase, Conv!vars
<1>7. CASE Drop
  BY <1>7 DEF Drop, GoesTo, phase, Conv!Next, Conv!Abort
<1>8. CASE StreamCloses /\ RunsTools
  BY <1>8, CallsRefine DEF Conv!Next
<1>9. CASE StreamCloses /\ ~RunsTools
  BY <1>9 DEF StreamCloses, GoesTo, phase, Conv!Next, Conv!ReplyPlain
<1>10. CASE ToolsAnswer
  BY <1>10, AnswerRefines DEF Conv!Next
<1>11. CASE FinishStep
  BY <1>11 DEF FinishStep, GoesTo, Ends, phase, Conv!Next, Conv!Continue, Conv!Finish
<1>12. CASE Cancel \/ AwaitFullResult \/ Terminated \/ UNCHANGED vars
  <2>1. UNCHANGED <<hasTools, pc, prompt, count>>
    BY <1>12 DEF Cancel, AwaitFullResult, Terminated, vars
  <2>2. phase' = phase
    BY <2>1 DEF phase, Single
  <2> QED BY <2>1, <2>2 DEF Conv!vars
<1> QED BY <1>1, <1>2, <1>3, <1>4, <1>5, <1>6, <1>7, <1>8, <1>9, <1>10, <1>11,
           <1>12 DEF Next, Produce

\* stream_text implements the abstract conversation.
THEOREM StreamImplementsConversation == Spec => ConversationSpec
<1>1. Init => Conv!Init
  BY SameMessages DEF Init, phase, Conv!Init
<1>2. StreamInv /\ [Next]_vars => [Conv!Next]_(Conv!vars)
  BY StepRefines
<1> QED BY <1>1, <1>2, StreamInvariant, PTL DEF Spec, ConversationSpec, Conv!Spec

-----------------------------------------------------------------------------
(* The calls a step gathers *)

\* What part n of p starts or ends.
StartsCall(p, n, i) == p[n] = [kind |-> "start", id |-> i]
EndsCall(p, n, i)   == p[n] = [kind |-> "end", id |-> i]

\* In p a start of call i has no end behind it.
Open(p, i) == \E s \in 1..Len(p) : /\ StartsCall(p, s, i)
                                   /\ \A m \in (s + 1)..Len(p) : ~EndsCall(p, m, i)

\* The parts that complete a call, and how many have up to the j-th.
Completing == {j \in DOMAIN parts : Completes(j)}
Rank(j)    == Cardinality({i \in Completing : i <= j})

\* Whoever accounts for the parts knows which calls are open, and has gathered
\* one call for each part that completed one, in their order.
GatherInv == ~Single =>
    /\ \A i \in Ids : i \in pending <=> Open(parts, i)
    /\ Len(calls) = Cardinality(Completing)
    /\ \A n \in 1..Len(calls) : \E j \in Completing : Rank(j) = n /\ calls[n].id = parts[j].id

\* There are no more of them than parts.
LEMMA CompletingFinite ==
    ASSUME StreamInv
    PROVE  /\ IsFiniteSet(Completing) /\ Completing \subseteq 1..Len(parts) /\ Len(parts) \in Nat
           /\ Cardinality(Completing) \in Nat
<1>1. Completing \subseteq 1..Len(parts) /\ Len(parts) \in Nat
  BY DEF StreamInv, TypeOK, Completing
<1>2. IsFiniteSet(1..Len(parts))
  BY <1>1, FS_Interval
<1>3. IsFiniteSet(Completing)
  BY <1>1, <1>2, FS_Subset
<1> QED BY <1>1, <1>3, FS_CardinalityType

\* No two of these parts have the same rank.
LEMMA RankUnique ==
    ASSUME StreamInv, NEW i \in Completing, NEW j \in Completing, Rank(i) = Rank(j)
    PROVE  i = j
<1> DEFINE Upto(k) == {x \in Completing : x <= k}
<1>1. i \in Int /\ j \in Int /\ Completing \subseteq Int
  BY CompletingFinite
<1>2. IsFiniteSet(Upto(i)) /\ IsFiniteSet(Upto(j))
  BY CompletingFinite, FS_Subset
<1>3. Cardinality(Upto(i)) = Cardinality(Upto(j))
  BY DEF Rank
<1>4. i \in Upto(i) /\ j \in Upto(j)
  BY <1>1
<1>5. CASE i <= j
  <2>0. \A x \in Completing : x \in Int
    BY <1>1
  <2>a. \A x \in Completing : x <= i => x <= j
    BY <1>1, <1>5, <2>0
  <2>1. Upto(i) \subseteq Upto(j)
    BY <2>a, Zenon
  <2>2. Upto(i) = Upto(j)
    BY <1>2, <1>3, <2>1, FS_Subset
  <2>3. j <= i
    BY <1>4, <2>2
  <2> QED BY <1>1, <1>5, <2>3
<1>6. CASE j <= i
  <2>0. \A x \in Completing : x \in Int
    BY <1>1
  <2>a. \A x \in Completing : x <= j => x <= i
    BY <1>1, <1>6, <2>0
  <2>1. Upto(j) \subseteq Upto(i)
    BY <2>a, Zenon
  <2>2. Upto(i) = Upto(j)
    BY <1>2, <1>3, <2>1, FS_Subset
  <2>3. i <= j
    BY <1>4, <2>2
  <2> QED BY <1>1, <1>6, <2>3
<1> QED BY <1>1, <1>5, <1>6

\* The n-th call gathered is that of the n-th part to complete one.
LEMMA GatheredIsEnough == ASSUME StreamInv, GatherInv PROVE CallsFromParts
<1> SUFFICES ASSUME ~Single
             PROVE  /\ Len(calls) = Cardinality(Completing)
                    /\ \A n \in DOMAIN calls :
                          calls[n].id = parts[CHOOSE j \in Completing : Rank(j) = n].id
  BY DEF CallsFromParts, Completing, Rank
<1>1. ASSUME NEW n \in DOMAIN calls
      PROVE  calls[n].id = parts[CHOOSE j \in Completing : Rank(j) = n].id
  <2>1. n \in 1..Len(calls)
    BY DEF StreamInv, TypeOK
  <2>2. PICK j \in Completing : Rank(j) = n /\ calls[n].id = parts[j].id
    BY <2>1 DEF GatherInv
  <2> DEFINE k == CHOOSE x \in Completing : Rank(x) = n
  <2>3. k \in Completing /\ Rank(k) = n
    BY <2>2
  <2>4. k = j
    BY <2>2, <2>3, RankUnique
  <2> QED BY <2>2, <2>4
<1> QED BY <1>1 DEF GatherInv

\* A part is a start or an end of one call, or of none.
LEMMA PartIs ==
    ASSUME NEW part \in Parts
    PROVE  /\ part.kind \in {"start", "end", "finish"}
           /\ part.kind # "finish" => part.id \in Ids
           /\ \A i \in Ids : part = [kind |-> "start", id |-> i] <=> part.kind = "start" /\ part.id = i
           /\ \A i \in Ids : part = [kind |-> "end", id |-> i] <=> part.kind = "end" /\ part.id = i
  BY DEF Parts

\* What one more part leaves open.
LEMMA OpenAfter ==
    ASSUME NEW p \in Seq(Parts), NEW part \in Parts, NEW i \in Ids
    PROVE  Open(Append(p, part), i) <=> \/ part.kind = "start" /\ part.id = i
                                        \/ Open(p, i) /\ ~(part.kind = "end" /\ part.id = i)
<1> DEFINE q == Append(p, part)
           k == Len(p)
<1>1. k \in Nat /\ Len(q) = k + 1 /\ q[k + 1] = part /\ \A n \in 1..k : q[n] = p[n]
  OBVIOUS
<1>2. /\ StartsCall(q, k + 1, i) <=> part.kind = "start" /\ part.id = i
      /\ EndsCall(q, k + 1, i) <=> part.kind = "end" /\ part.id = i
      /\ \A n \in 1..k : StartsCall(q, n, i) <=> StartsCall(p, n, i)
      /\ \A n \in 1..k : EndsCall(q, n, i) <=> EndsCall(p, n, i)
  BY <1>1, PartIs DEF StartsCall, EndsCall
<1> HIDE DEF q
<1>3. ASSUME part.kind = "start", part.id = i PROVE Open(q, i)
  BY <1>1, <1>2, <1>3 DEF Open
<1>4. ASSUME Open(p, i), ~(part.kind = "end" /\ part.id = i) PROVE Open(q, i)
  <2>1. PICK s \in 1..k : StartsCall(p, s, i) /\ \A m \in (s + 1)..k : ~EndsCall(p, m, i)
    BY <1>4 DEF Open
  <2>2. \A m \in (s + 1)..(k + 1) : ~EndsCall(q, m, i)
    BY <1>1, <1>2, <1>4, <2>1
  <2> QED BY <1>1, <1>2, <2>1, <2>2 DEF Open
<1>5. ASSUME Open(q, i), ~(part.kind = "start" /\ part.id = i)
      PROVE  Open(p, i) /\ ~(part.kind = "end" /\ part.id = i)
  <2>1. PICK s \in 1..(k + 1) : StartsCall(q, s, i) /\ \A m \in (s + 1)..(k + 1) : ~EndsCall(q, m, i)
    BY <1>1, <1>5 DEF Open
  <2>2. s \in 1..k
    BY <1>1, <1>2, <1>5, <2>1
  <2>3. ~EndsCall(q, k + 1, i) /\ \A m \in (s + 1)..k : ~EndsCall(q, m, i)
    BY <1>1, <2>1, <2>2
  <2>4. \A m \in (s + 1)..k : ~EndsCall(p, m, i)
    BY <1>1, <1>2, <2>2, <2>3
  <2> QED BY <1>2, <2>1, <2>2, <2>3, <2>4 DEF Open
<1> QED BY <1>3, <1>4, <1>5 DEF q

\* Nothing is open or gathered when a stream opens.
LEMMA GatherFresh == parts = <<>> /\ pending = {} /\ calls = <<>> => GatherInv
<1> SUFFICES ASSUME parts = <<>>, pending = {}, calls = <<>> PROVE GatherInv
  OBVIOUS
<1>1. Completing = {} /\ \A i \in Ids : ~Open(parts, i)
  BY DEF Completing, Open
<1>2. Cardinality(Completing) = 0
  BY <1>1, FS_EmptySet
<1> QED BY <1>1, <1>2 DEF GatherInv

\* Which parts completed a call does not change, and one more does if its call
\* was open.
LEMMA CompletingAfter ==
    ASSUME StreamInv, NEW part \in Parts, parts' = Append(parts, part)
    PROVE  Completing' = Completing \cup (IF part.kind = "end" /\ Open(parts, part.id)
                                          THEN {Len(parts) + 1} ELSE {})
<1> PICK k : k = Len(parts)
  OBVIOUS
<1>1. /\ k \in Nat /\ parts \in Seq(Parts) /\ DOMAIN parts = 1..k /\ DOMAIN parts' = 1..(k + 1)
      /\ parts'[k + 1] = part /\ \A n \in 1..k : parts'[n] = parts[n]
  BY DEF StreamInv, TypeOK
<1>2. ASSUME NEW j \in 1..k PROVE Completes(j)' <=> Completes(j)
  <2>1. \A n \in 1..(j - 1) : n \in 1..k
    BY <1>1
  <2>2. \A n \in 1..(j - 1) : \A m \in (n + 1)..(j - 1) : m \in 1..k
    BY <1>1
  <2> QED BY SMTT(30), <1>1, <2>1, <2>2 DEF Completes
<1>3. Completes(k + 1)' <=> part.kind = "end" /\ Open(parts, part.id)
  <2>1. (k + 1) - 1 = k
    BY <1>1
  <2>2. \A n \in 1..k : \A m \in (n + 1)..k : m \in 1..k
    BY <1>1
  <2>3. Completes(k + 1)' <=> /\ part.kind = "end"
                              /\ \E n \in 1..k : /\ StartsCall(parts, n, part.id)
                                                 /\ \A m \in (n + 1)..k : ~EndsCall(parts, m, part.id)
    <3>1. Completes(k + 1)' <=>
            /\ parts'[k + 1].kind = "end"
            /\ \E n \in 1..((k + 1) - 1) :
                  /\ parts'[n] = [kind |-> "start", id |-> parts'[k + 1].id]
                  /\ \A m \in (n + 1)..((k + 1) - 1) :
                        parts'[m] # [kind |-> "end", id |-> parts'[k + 1].id]
      BY DEF Completes
    <3>2. \A n \in 1..k : parts'[n] = parts[n]
      BY <1>1
    <3> QED BY <1>1, <2>1, <2>2, <3>1, <3>2 DEF StartsCall, EndsCall
  <2> QED BY <2>3 DEF Open
<1>4. \A j : j \in Completing' <=> j \in 1..(k + 1) /\ Completes(j)'
  BY <1>1 DEF Completing
<1>5. \A j : j \in Completing <=> j \in 1..k /\ Completes(j)
  BY <1>1 DEF Completing
<1>6. \A j : j \in 1..(k + 1) <=> j \in 1..k \/ j = k + 1
  BY <1>1
<1>7. k + 1 \notin 1..k
  BY <1>1
<1>8. \A j : j \in Completing'
               <=> j \in Completing \/ (j = k + 1 /\ part.kind = "end" /\ Open(parts, part.id))
  BY <1>2, <1>3, <1>4, <1>5, <1>6, <1>7
<1>9. Completing' = Completing \cup (IF part.kind = "end" /\ Open(parts, part.id) THEN {k + 1} ELSE {})
  <2>1. CASE part.kind = "end" /\ Open(parts, part.id)
    BY <1>8, <2>1
  <2>2. CASE ~(part.kind = "end" /\ Open(parts, part.id))
    BY <1>8, <2>2
  <2> QED BY <2>1, <2>2
<1> QED BY <1>9

\* A part that the loop accounts for.
LEMMA GatherPart ==
    ASSUME StreamInv, GatherInv, NEW part \in Parts, PartArrives(part), ~Single
    PROVE  GatherInv'
<1> PICK k : k = Len(parts)
  OBVIOUS
<1>1. /\ parts' = Append(parts, part) /\ Account(part)
      /\ k \in Nat /\ parts \in Seq(Parts) /\ calls \in Seq(Call) /\ pending \subseteq Ids
  BY DEF PartArrives, StreamInv, TypeOK
<1>2. parts'[k + 1] = part /\ \A n \in 1..k : parts'[n] = parts[n]
  BY <1>1
<1>3. part.kind # "finish" => part.id \in Ids
  BY PartIs
<1>4. \A i \in Ids : i \in pending <=> Open(parts, i)
  BY DEF GatherInv
<1>5. ASSUME NEW i \in Ids PROVE i \in pending' <=> Open(parts', i)
  <2>1. Open(parts', i) <=> \/ part.kind = "start" /\ part.id = i
                            \/ Open(parts, i) /\ ~(part.kind = "end" /\ part.id = i)
    BY <1>1, OpenAfter
  <2> QED BY <1>1, <1>4, <2>1 DEF Account
<1>6. CASE part.kind = "end" /\ part.id \in pending
  <2>1. Completing' = Completing \cup {k + 1}
    BY <1>1, <1>3, <1>4, <1>6, CompletingAfter
  <2>2. /\ IsFiniteSet(Completing) /\ Completing \subseteq 1..k /\ k + 1 \notin Completing
        /\ Cardinality(Completing) \in Nat
    BY <1>1, CompletingFinite
  <2>3. Cardinality(Completing') = Cardinality(Completing) + 1
    BY <2>1, <2>2, FS_AddElement
  <2>4. [id |-> part.id] \in Call /\ calls' = Append(calls, [id |-> part.id])
    BY <1>1, <1>3, <1>6 DEF Account, Call
  <2>5. /\ Len(calls') = Len(calls) + 1 /\ Len(calls) \in Nat
        /\ calls'[Len(calls) + 1] = [id |-> part.id]
        /\ \A n \in 1..Len(calls) : calls'[n] = calls[n]
    BY <1>1, <2>4
  <2>6. ASSUME NEW j \in Completing PROVE Rank(j)' = Rank(j)
    <3>1. j \in 1..k
      BY <2>2
    <3>2. {i \in Completing : i <= j}' = {i \in Completing : i <= j}
      BY <1>1, <2>1, <3>1
    <3> QED BY <3>2 DEF Rank
  <2>7. Rank(k + 1)' = Len(calls) + 1
    <3>1. \A i \in Completing' : i <= k + 1
      BY <1>1, <2>1, <2>2
    <3>2. {i \in Completing : i <= k + 1}' = Completing'
      BY <3>1
    <3> QED BY <2>3, <3>2 DEF Rank, GatherInv
  <2>8. ASSUME NEW n \in 1..Len(calls')
        PROVE  \E j \in Completing' : Rank(j)' = n /\ calls'[n].id = parts'[j].id
    <3>1. CASE n \in 1..Len(calls)
      <4>1. PICK j \in Completing : Rank(j) = n /\ calls[n].id = parts[j].id
        BY <3>1 DEF GatherInv
      <4>2. j \in Completing' /\ Rank(j)' = n /\ calls'[n] = calls[n] /\ parts'[j] = parts[j]
        BY <1>2, <2>1, <2>2, <2>5, <2>6, <3>1, <4>1
      <4> QED BY <4>1, <4>2
    <3>2. CASE n = Len(calls) + 1
      BY <1>2, <2>1, <2>5, <2>7, <3>2
    <3> QED BY <2>5, <3>1, <3>2
  <2> QED BY <1>5, <2>3, <2>5, <2>8 DEF GatherInv
<1>7. CASE ~(part.kind = "end" /\ part.id \in pending)
  <2>1. Completing' = Completing
    BY <1>1, <1>3, <1>4, <1>7, CompletingAfter
  <2>2. calls' = calls
    BY <1>1, <1>7 DEF Account
  <2>3. \A j : Rank(j)' = Rank(j)
    BY <2>1 DEF Rank
  <2>4. \A j \in Completing : j \in 1..k
    BY CompletingFinite
  <2>5. ASSUME NEW n \in 1..Len(calls')
        PROVE  \E j \in Completing' : Rank(j)' = n /\ calls'[n].id = parts'[j].id
    <3>1. PICK j \in Completing : Rank(j) = n /\ calls[n].id = parts[j].id
      BY <2>2 DEF GatherInv
    <3> QED BY <1>2, <2>1, <2>2, <2>3, <2>4, <3>1
  <2> QED BY <1>5, <2>1, <2>2, <2>5 DEF GatherInv
<1> QED BY <1>6, <1>7

\* A step that leaves the parts and what is gathered of them alone.
LEMMA GatherQuiet ==
    ASSUME [Next]_vars, GatherInv, UNCHANGED <<parts, pending, calls>> PROVE GatherInv'
<1>1. Single' <=> Single
  BY SinglePathFixed
<1>2. Completing' = Completing
  BY DEF Completing, Completes
<1>3. \A j : Rank(j)' = Rank(j)
  BY <1>2 DEF Rank
<1> QED BY <1>1, <1>2, <1>3 DEF GatherInv

\* Each step of the generator.
LEMMA GatherNext == ASSUME StreamInv, GatherInv, [Next]_vars PROVE GatherInv'
<1>0. Single' <=> Single
  BY SinglePathFixed
<1>1. CASE StreamOpens
  <2>1. (parts = <<>> /\ pending = {} /\ calls = <<>>)'
    BY <1>1 DEF StreamOpens
  <2> QED BY <2>1, GatherFresh, PTL
<1>2. ASSUME NEW part \in Parts, PartArrives(part) PROVE GatherInv'
  <2>1. CASE Single
    BY <1>0, <2>1 DEF GatherInv
  <2>2. CASE ~Single
    BY <1>2, <2>2, GatherPart
  <2> QED BY <2>1, <2>2
<1>3. CASE ~StreamOpens /\ ~(\E part \in Parts : PartArrives(part))
  <2>1. UNCHANGED <<parts, pending, calls>>
    BY <1>3 DEF Next, vars, Produce, Enter, StepHead, AskModel, OpenThrows, Pull, Drop,
         StreamThrows, StreamCloses, ToolsAnswer, ToolsThrow, FinishStep, CallbackThrows,
         Cancel, AwaitFullResult, Terminated
  <2> QED BY <2>1, GatherQuiet
<1> QED BY <1>1, <1>2, <1>3

\* The calls executed after a stream are those its parts started and ended,
\* each once and in the order they ended: for streams of any length, with the
\* parts of any number of calls in any order.
THEOREM CallsGathered == Spec => []CallsFromParts
<1>1. Init => GatherInv
  BY GatherFresh DEF Init
<1>2. StreamInv /\ GatherInv /\ [Next]_vars => GatherInv'
  BY GatherNext
<1>3. StreamInv /\ GatherInv => CallsFromParts
  BY GatheredIsEnough
<1> QED BY <1>1, <1>2, <1>3, StreamInvariant, PTL DEF Spec
=============================================================================
