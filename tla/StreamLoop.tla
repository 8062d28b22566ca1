------------------------------ MODULE StreamLoop ------------------------------
(***************************************************************************)
(* stream_text: the tool loop as a generator.  A part of the model's       *)
(* stream is accounted for and then yielded; the generator goes on only    *)
(* when the consumer pulls again, and the consumer may drop it instead.    *)
(* full_result is a task of its own that waits for the one-shot sink the   *)
(* generator settles when it ends.                                         *)
(*                                                                         *)
(* Running the tools of a step is one step here: ToolLoop has its detail.  *)
(***************************************************************************)
EXTENDS Integers, Sequences, FiniteSets

CONSTANTS MaxSteps,    \* options.max_steps
          Ids,         \* tool call ids a provider can send
          MaxParts     \* bound: parts of the first model stream, see Room

ASSUME StreamAssumption ==
    /\ MaxSteps \in Nat
    /\ MaxParts \in Nat

VARIABLES hasTools,    \* whether options.tools is not empty
          pc,          \* where stream_text, then its generator, is
          step,        \* the loop's counter
          prompt,      \* the messages of the next model call
          parts,       \* history: the parts of this model stream so far
          pending,     \* the ids in pending_tool_calls
          calls,       \* accumulated_tool_calls
          reason,      \* finish_reason
          sink,        \* FullResultSink: whether value or error is set
          waiter,      \* the coroutine that awaits full_result
          cancelled,   \* the CancellationToken's flag
          count        \* history, as in ToolLoop

vars == <<hasTools, pc, step, prompt, parts, pending, calls, reason, sink, waiter,
          cancelled, count>>

\* One step and nothing to execute: the model's stream is only wrapped.
Single == MaxSteps <= 1 \/ ~hasTools

Reasons == {"tool-calls", "other"}
Call    == [id : Ids]
Result  == [id : Ids, err : BOOLEAN]

\* ToolInputStart, ToolInputEnd and FinishPart.  An end of a call that is not
\* pending stands for all the parts that change nothing here (text, deltas).
Parts == [kind : {"start", "end"}, id : Ids] \cup [kind : {"finish"}, reason : Reasons]

UserTurn          == [role |-> "user",      calls |-> <<>>, results |-> <<>>]
AssistantTurn(cs) == [role |-> "assistant", calls |-> cs,   results |-> <<>>]
ToolTurn(rs)      == [role |-> "tool",      calls |-> <<>>, results |-> rs]

Stopped == pc \in {"ended", "failed", "dropped"}

Init == /\ hasTools \in BOOLEAN
        /\ pc = "entry"
        /\ step = 0
        /\ prompt = <<UserTurn>>
        /\ parts = <<>>
        /\ pending = {}
        /\ calls = <<>>
        /\ reason = "other"
        /\ sink = "empty"
        /\ waiter = "none"
        /\ cancelled = FALSE
        /\ count = [asks |-> 0, lateAsks |-> 0, lateRounds |-> 0]

-----------------------------------------------------------------------------
(* The sink *)

\* A mistake: whoever waits already is not resumed.
SettleSilently(outcome) == sink' = outcome /\ UNCHANGED waiter

\* fulfill and fail: the waiter is resumed on the spot.
Settle(outcome) == /\ sink' = outcome
                   /\ waiter' = IF waiter = "waiting" THEN outcome ELSE waiter

\* The generator ends, by its last statement or by an exception.
Ends  == pc' = "ended" /\ Settle("value")
Fails == pc' = "failed" /\ Settle("error")

GoesTo(p) == pc' = p /\ UNCHANGED <<sink, waiter>>

\* stream_text has handed out its stream and its full_result.
Returned == IF Single THEN pc \notin {"entry", "opening"} /\ ~(pc = "failed" /\ sink = "empty")
                      ELSE pc # "entry"

\* full_result is started or awaited.
AwaitFullResult == /\ Returned
                   /\ waiter = "none"
                   /\ waiter' = IF sink = "empty" THEN "waiting" ELSE sink
                   /\ UNCHANGED <<hasTools, pc, step, prompt, parts, pending, calls, reason,
                                  sink, cancelled, count>>

-----------------------------------------------------------------------------
(* The model call *)

\* What begins now begins this late.
Late == IF cancelled THEN 1 ELSE 0

Asks == count' = [asks |-> count.asks + 1, lateAsks |-> count.lateAsks + Late,
                  lateRounds |-> count.lateRounds]

\* stream_text itself opens the only stream there is, or returns a generator
\* that has not run yet.
Enter == /\ pc = "entry"
         /\ IF Single THEN GoesTo("opening") /\ Asks
                      ELSE GoesTo("created") /\ UNCHANGED count
         /\ UNCHANGED <<hasTools, step, prompt, parts, pending, calls, reason, cancelled>>

\* A mistake: no throw_if_cancelled.
StepHeadUnchecked ==
    /\ pc = "loop"
    /\ IF step >= MaxSteps THEN Ends ELSE GoesTo("send")
    /\ UNCHANGED <<hasTools, step, prompt, parts, pending, calls, reason, cancelled, count>>

\* A mistake: a cancelled loop waits instead of throwing.
StepHeadSpins ==
    /\ pc = "loop"
    /\ \/ step >= MaxSteps /\ Ends
       \/ step < MaxSteps /\ GoesTo(IF cancelled THEN "loop" ELSE "send")
    /\ UNCHANGED <<hasTools, step, prompt, parts, pending, calls, reason, cancelled, count>>

\* The head of the for loop, and throw_if_cancelled.
StepHead == /\ pc = "loop"
            /\ \/ step >= MaxSteps /\ Ends
               \/ step < MaxSteps /\ cancelled /\ Fails
               \/ step < MaxSteps /\ ~cancelled /\ GoesTo("send")
            /\ UNCHANGED <<hasTools, step, prompt, parts, pending, calls, reason, cancelled,
                           count>>

AskModel == /\ pc = "send"
            /\ GoesTo("opening")
            /\ Asks
            /\ UNCHANGED <<hasTools, step, prompt, parts, pending, calls, reason, cancelled>>

\* A mistake: the calls of the step before are kept.
StreamOpensUncleared ==
    /\ pc = "opening"
    /\ GoesTo(IF Single THEN "created" ELSE "reading")
    /\ parts' = <<>>
    /\ pending' = {}
    /\ reason' = "other"
    /\ UNCHANGED <<hasTools, step, prompt, calls, cancelled, count>>

\* do_stream returns a stream; the variables of the step start afresh.
StreamOpens == /\ pc = "opening"
               /\ GoesTo(IF Single THEN "created" ELSE "reading")
               /\ parts' = <<>>
               /\ pending' = {}
               /\ calls' = <<>>
               /\ reason' = "other"
               /\ UNCHANGED <<hasTools, step, prompt, cancelled, count>>

\* do_stream throws: out of stream_text itself, which has no sink to hand out
\* yet, or out of the generator.
OpenThrows == /\ pc = "opening"
              /\ IF Single THEN GoesTo("failed") ELSE Fails
              /\ UNCHANGED <<hasTools, step, prompt, parts, pending, calls, reason,
                             cancelled, count>>

-----------------------------------------------------------------------------
(* Its parts *)

\* A mistake: an ended call stays pending.
AccountKeepsPending(part) ==
    /\ pending' = IF part.kind = "start" THEN pending \cup {part.id} ELSE pending
    /\ calls' = IF part.kind = "end" /\ part.id \in pending
                THEN Append(calls, [id |-> part.id]) ELSE calls

\* What a part does to the pending and the accumulated calls.
Account(part) ==
    \/ /\ part.kind = "start"
       /\ pending' = pending \cup {part.id}
       /\ UNCHANGED calls
    \/ /\ part.kind = "end"
       /\ part.id \in pending
       /\ pending' = pending \ {part.id}
       /\ calls' = Append(calls, [id |-> part.id])
    \/ /\ part.kind # "start"
       /\ ~(part.kind = "end" /\ part.id \in pending)
       /\ UNCHANGED <<pending, calls>>

\* The bound: each later stream of the same run has two parts less.
Room == Len(parts) < MaxParts - 2 * step

\* A part arrives, is accounted for (the wrapper only looks at FinishPart)
\* and yielded.
PartArrives(part) ==
    /\ pc = "reading"
    /\ Room
    /\ parts' = Append(parts, part)
    /\ reason' = IF part.kind = "finish" THEN part.reason ELSE reason
    /\ IF Single THEN UNCHANGED <<pending, calls>> ELSE Account(part)
    /\ GoesTo("yielded")
    /\ UNCHANGED <<hasTools, step, prompt, cancelled, count>>

\* The consumer calls next() again, for the first time or after a part.
Pull == /\ \/ pc = "created" /\ GoesTo(IF Single THEN "reading" ELSE "loop")
           \/ pc = "yielded" /\ GoesTo("reading")
        /\ UNCHANGED <<hasTools, step, prompt, parts, pending, calls, reason, cancelled, count>>

\* The consumer destroys the generator while it is suspended between parts.
Drop == /\ pc \in {"created", "yielded"}
        /\ GoesTo("dropped")
        /\ UNCHANGED <<hasTools, step, prompt, parts, pending, calls, reason, cancelled, count>>

\* A mistake: the wrapper has no catch block.
StreamThrowsUncaught ==
    /\ pc = "reading"
    /\ GoesTo("failed")
    /\ UNCHANGED <<hasTools, step, prompt, parts, pending, calls, reason, cancelled, count>>

\* The model's stream throws.
StreamThrows == /\ pc = "reading"
                /\ Fails
                /\ UNCHANGED <<hasTools, step, prompt, parts, pending, calls, reason,
                               cancelled, count>>

RunsTools == reason = "tool-calls" /\ calls # <<>> /\ hasTools

\* The model's stream is over.
StreamCloses ==
    /\ pc = "reading"
    /\ IF RunsTools
       THEN /\ GoesTo("tools")
            /\ prompt' = Append(prompt, AssistantTurn(calls))
            /\ count' = [asks |-> count.asks, lateAsks |-> count.lateAsks,
                         lateRounds |-> count.lateRounds + Late]
       ELSE /\ GoesTo("finish")
            /\ UNCHANGED <<prompt, count>>
    /\ UNCHANGED <<hasTools, step, parts, pending, calls, reason, cancelled>>

-----------------------------------------------------------------------------
(* Tools, and the end of a step *)

\* A mistake: the results of failed tools are left out.
ToolsAnswerPartly ==
    /\ pc = "tools"
    /\ \E n \in 0..Len(calls) :
          prompt' = Append(prompt, ToolTurn(
              [i \in 1..n |-> [id |-> calls[i].id, err |-> FALSE]]))
    /\ GoesTo("finish")
    /\ UNCHANGED <<hasTools, step, parts, pending, calls, reason, cancelled, count>>

\* execute_tools returns one result per call, in the calls' order.
ToolsAnswer == /\ pc = "tools"
               /\ \E err \in [1..Len(calls) -> BOOLEAN] :
                     prompt' = Append(prompt, ToolTurn(
                         [i \in 1..Len(calls) |-> [id |-> calls[i].id, err |-> err[i]]]))
               /\ GoesTo("finish")
               /\ UNCHANGED <<hasTools, step, parts, pending, calls, reason, cancelled, count>>

\* A tool throws what is not a std::exception.
ToolsThrow == /\ pc = "tools"
              /\ Fails
              /\ UNCHANGED <<hasTools, step, prompt, parts, pending, calls, reason,
                             cancelled, count>>

FinishStep == /\ pc = "finish"
              /\ IF ~Single /\ reason = "tool-calls" /\ hasTools
                 THEN GoesTo("loop") /\ step' = step + 1
                 ELSE Ends /\ UNCHANGED step
              /\ UNCHANGED <<hasTools, prompt, parts, pending, calls, reason, cancelled, count>>

\* on_step_finish, which the single-step path never calls, throws.
CallbackThrows == /\ pc = "finish"
                  /\ ~Single
                  /\ Fails
                  /\ UNCHANGED <<hasTools, step, prompt, parts, pending, calls, reason,
                                 cancelled, count>>

Cancel == /\ ~cancelled
          /\ ~Stopped
          /\ cancelled' = TRUE
          /\ UNCHANGED <<hasTools, pc, step, prompt, parts, pending, calls, reason, sink,
                         waiter, count>>

Terminated == Stopped /\ UNCHANGED vars

\* What the SDK, the provider and the tools do, once control is with them.
Produce == \/ Enter \/ StepHead \/ AskModel \/ StreamOpens \/ OpenThrows
           \/ (\E part \in Parts : PartArrives(part))
           \/ StreamThrows \/ StreamCloses \/ ToolsAnswer \/ ToolsThrow
           \/ FinishStep \/ CallbackThrows

Next == Produce \/ Pull \/ Drop \/ AwaitFullResult \/ Cancel \/ Terminated

Spec == Init /\ [][Next]_vars

\* Models and tools come back, and the consumer pulls on or drops the stream.
FairSpec == Spec /\ WF_vars(Produce) /\ WF_vars(Pull \/ Drop)

-----------------------------------------------------------------------------
(* Properties *)

\* The shape of the state.
TypeOK == /\ hasTools \in BOOLEAN
          /\ pc \in {"entry", "opening", "created", "loop", "send", "reading",
                     "yielded", "tools", "finish", "ended", "failed", "dropped"}
          /\ step \in 0..MaxSteps
          /\ prompt \in Seq([role    : {"user", "assistant", "tool"},
                             calls   : Seq(Call),
                             results : Seq(Result)])
          /\ parts \in Seq(Parts)
          /\ pending \subseteq Ids
          /\ calls \in Seq(Call)
          /\ reason \in Reasons
          /\ sink \in {"empty", "value", "error"}
          /\ waiter \in {"none", "waiting", "value", "error"}
          /\ cancelled \in BOOLEAN
          /\ count \in [asks : Nat, lateAsks : Nat, lateRounds : Nat]

CallLists == UNION {[1..n -> Call] : n \in 1..MaxParts}

phase == CASE pc \in {"entry", "loop", "send"} -> "idle"
           [] pc = "created"                   -> IF Single THEN "asked" ELSE "idle"
           [] pc \in {"opening", "reading", "yielded"} -> "asked"
           [] pc = "tools"                     -> "owing"
           [] pc = "finish"                    -> "settled"
           [] pc = "ended"                     -> "done"
           [] pc \in {"failed", "dropped"}     -> "aborted"

\* The simplified path asks once even if max_steps is 0.
MaxAsks == IF MaxSteps = 0 THEN 1 ELSE MaxSteps

Conv == INSTANCE ToolConversation
            WITH conv <- prompt, asks <- count.asks, MaxSteps <- MaxAsks

\* stream_text holds a conversation as ToolConversation promises it, however
\* the model interleaves its parts and wherever the consumer stops pulling.
ConversationSpec == Conv!Spec

\* "Fulfills `sink` on completion (or fails it on error)": the outcome of
\* full_result is that of the stream, and nobody waits for a sink that is set.
SinkFollowsStream ==
    /\ pc = "ended" => sink = "value"
    /\ sink = "value" => pc = "ended"
    /\ sink = "error" => pc = "failed"
    /\ pc = "failed" /\ Returned => sink = "error"
    /\ ~Returned => sink = "empty" /\ waiter = "none"
    /\ waiter = "waiting" => sink = "empty"
    /\ waiter \in {"value", "error"} => waiter = sink

\* The j-th part ends a call that an earlier part started and none ended since.
Completes(j) == /\ parts[j].kind = "end"
                /\ \E i \in 1..(j - 1) :
                      /\ parts[i] = [kind |-> "start", id |-> parts[j].id]
                      /\ \A m \in (i + 1)..(j - 1) :
                            parts[m] # [kind |-> "end", id |-> parts[j].id]

\* The calls to be executed are exactly those the consumer has seen started
\* and ended, each once and in the order they ended, however the model
\* interleaves, repeats or forgets the starts and ends of several calls.
CallsFromParts == ~Single /\ pc \in {"yielded", "reading", "tools"} =>
    LET ends == {j \in DOMAIN parts : Completes(j)}
        nth(n) == CHOOSE j \in ends : Cardinality({i \in ends : i <= j}) = n
    IN  /\ Len(calls) = Cardinality(ends)
        /\ \A n \in DOMAIN calls : calls[n].id = parts[nth(n)].id

\* Cancelling stops the stream within one round, whatever the consumer pulls.
CancelBoundsWork == count.lateAsks <= 1 /\ count.lateRounds <= 1

\* The step in progress: no more calls than parts, none on the simplified path,
\* and while tools run the prompt ends with the message that calls them.
StepShape == /\ Len(parts) <= MaxParts
             /\ Len(calls) <= Len(parts)
             /\ Single => calls = <<>> /\ pc \notin {"loop", "send", "tools"}
             /\ pc = "tools" => /\ calls # <<>>
                               /\ prompt # <<>>
                               /\ prompt[Len(prompt)] = AssistantTurn(calls)

\* How many model calls the loop counter stands for.
AsksCounted ==
    /\ pc = "entry" => count.asks = 0 /\ step = 0
    /\ Single /\ pc # "entry" => count.asks = 1
    /\ ~Single /\ pc \in {"created", "loop", "send"} => count.asks = step
    /\ ~Single /\ pc \in {"opening", "reading", "yielded", "tools", "finish"} =>
           count.asks = step + 1 /\ step < MaxSteps
    /\ pc = "send" => step < MaxSteps

\* Where late work can still come from.
LateWork ==
    /\ ~cancelled \/ pc \in {"entry", "send"} => count.lateAsks = 0 /\ count.lateRounds = 0
    /\ pc \in {"created", "opening", "reading", "yielded"} => count.lateRounds = 0

StreamInv == /\ TypeOK
             /\ StepShape
             /\ AsksCounted
             /\ LateWork
             /\ CancelBoundsWork
             /\ SinkFollowsStream

\* Whoever waits for full_result gets it, or its error, unless the consumer
\* drops the stream before its end.
FullResultArrives == (waiter = "waiting") ~> (waiter # "waiting" \/ pc = "dropped")

\* "full_result resolves after draining": a consumer that never drops the
\* stream sees its end.
StreamTerminates == <>Stopped
=============================================================================
