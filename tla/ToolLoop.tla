------------------------------- MODULE ToolLoop -------------------------------
(***************************************************************************)
(* generate_text: ask the model, execute the tool calls of its reply, send *)
(* the results back, until it answers without tools or max_steps is spent. *)
(*                                                                         *)
(* The tool calls of a reply are coroutines: all are started, each runs to *)
(* its first suspension, and they finish in any order (the HTTP client and *)
(* the timers resume them from threads of their own) while the loop awaits *)
(* them one by one in launch order.  Any thread may cancel at any time.    *)
(***************************************************************************)
EXTENDS Integers, SequencesExt

CONSTANTS MaxSteps,    \* options.max_steps
          Ids,         \* tool call ids a provider can send
          MaxCalls,    \* bound: tool calls in one reply
          HasTools,    \* whether options.tools is not empty
          HasRepair    \* whether options.repair_tool_call is set

ASSUME LoopAssumption ==
    /\ MaxSteps \in Nat
    /\ MaxCalls \in Nat
    /\ HasTools \in BOOLEAN
    /\ HasRepair \in BOOLEAN

VARIABLES pc,          \* where the generate_text coroutine is
          step,        \* the loop's counter
          prompt,      \* the messages of the next model call
          reply,       \* the model's last result
          task,        \* task[i]: the execute_one_tool task of the i-th call
          results,     \* execute_tools' results, filled in launch order
          steps,       \* StepResults so far
          allCalls,    \* all_tool_calls
          cancelled,   \* the CancellationToken's flag
          count        \* history: model calls made, and the model calls and
                       \* tool rounds begun after the cancellation

vars == <<pc, step, prompt, reply, task, results, steps, allCalls, cancelled, count>>

\* "unknown" stands for a call whose tool is not registered or not
\* executable, "badjson" for one whose input does not parse.
Kinds  == {"unknown", "badjson", "good"}
Call   == [id : Ids, kind : Kinds]
Result == [id : Ids, err : BOOLEAN]

CallLists == UNION {[1..n -> Call] : n \in 1..MaxCalls}
Replies   == [reason : {"tool-calls", "other"}, calls : CallLists \cup {<<>>}]
NoReply   == [reason |-> "other", calls |-> <<>>]

Running  == {"repair", "tool"}
Finished == {"ok", "error", "foreign"}

UserTurn          == [role |-> "user",      calls |-> <<>>, results |-> <<>>]
AssistantTurn(cs) == [role |-> "assistant", calls |-> cs,   results |-> <<>>]
ToolTurn(rs)      == [role |-> "tool",      calls |-> <<>>, results |-> rs]

Stopped == pc \in {"done", "failed"}

Init == /\ pc = "loop"
        /\ step = 0
        /\ prompt = <<UserTurn>>
        /\ reply = NoReply
        /\ task = <<>>
        /\ results = <<>>
        /\ steps = <<>>
        /\ allCalls = <<>>
        /\ cancelled = FALSE
        /\ count = [asks |-> 0, lateAsks |-> 0, lateRounds |-> 0]

-----------------------------------------------------------------------------
(* The loop *)

\* A mistake: the loop runs once too often.
StepHeadOffByOne ==
    /\ pc = "loop"
    /\ \/ step > MaxSteps /\ pc' = "done"
       \/ step <= MaxSteps /\ cancelled /\ pc' = "failed"
       \/ step <= MaxSteps /\ ~cancelled /\ pc' = "send"
    /\ UNCHANGED <<step, prompt, reply, task, results, steps, allCalls,
                   cancelled, count>>

\* A mistake: no throw_if_cancelled.
StepHeadUnchecked ==
    /\ pc = "loop"
    /\ pc' = IF step >= MaxSteps THEN "done" ELSE "send"
    /\ UNCHANGED <<step, prompt, reply, task, results, steps, allCalls,
                   cancelled, count>>

\* The head of the for loop, and throw_if_cancelled.
StepHead == /\ pc = "loop"
            /\ \/ step >= MaxSteps /\ pc' = "done"
               \/ step < MaxSteps /\ cancelled /\ pc' = "failed"
               \/ step < MaxSteps /\ ~cancelled /\ pc' = "send"
            /\ UNCHANGED <<step, prompt, reply, task, results, steps, allCalls,
                           cancelled, count>>

\* What begins now begins this late.
Late == IF cancelled THEN 1 ELSE 0

\* do_generate is called with the prompt built so far.
AskModel == /\ pc = "send"
            /\ pc' = "model"
            /\ count' = [asks |-> count.asks + 1, lateAsks |-> count.lateAsks + Late,
                        lateRounds |-> count.lateRounds]
            /\ UNCHANGED <<step, prompt, reply, task, results, steps, allCalls,
                           cancelled>>

\* do_generate throws: the exception leaves generate_text.
ModelThrows == /\ pc = "model"
               /\ pc' = "failed"
               /\ UNCHANGED <<step, prompt, reply, task, results, steps,
                              allCalls, cancelled, count>>

HasCalls(r) == r.reason = "tool-calls" /\ r.calls # <<>>

\* A reply with calls appends the assistant message and creates one task per
\* call; nothing is started yet.
ModelReplies(r) ==
    /\ pc = "model"
    /\ reply' = r
    /\ results' = <<>>
    /\ IF HasCalls(r)
       THEN /\ pc' = "launch"
            /\ prompt' = Append(prompt, AssistantTurn(r.calls))
            /\ task' = [i \in 1..Len(r.calls) |-> "new"]
            /\ count' = [asks |-> count.asks, lateAsks |-> count.lateAsks,
                          lateRounds |-> count.lateRounds + Late]
       ELSE /\ pc' = "finish"
            /\ task' = <<>>
            /\ UNCHANGED <<prompt, count>>
    /\ UNCHANGED <<step, steps, allCalls, cancelled>>

-----------------------------------------------------------------------------
(* execute_tools and execute_one_tool *)

\* How far a started task runs before it first suspends.
AfterStart(c) ==
    IF ~HasTools \/ c.kind = "unknown" THEN "error"
    ELSE IF HasRepair /\ c.kind = "badjson" THEN "repair" ELSE "tool"

\* A mistake: each task is awaited before the next is started.
LaunchSerially ==
    /\ pc = "launch"
    /\ \E i \in DOMAIN task :
          /\ task[i] = "new"
          /\ \A j \in 1..(i - 1) : task[j] \in Finished
          /\ task' = [task EXCEPT ![i] = AfterStart(reply.calls[i])]
          /\ pc' = IF i = Len(task) THEN "collect" ELSE "launch"
    /\ UNCHANGED <<step, prompt, reply, results, steps, allCalls, cancelled, count>>

\* The launch loop: tasks are started in order, none is awaited.
Launch == /\ pc = "launch"
          /\ \E i \in DOMAIN task :
                /\ task[i] = "new"
                /\ \A j \in 1..(i - 1) : task[j] # "new"
                /\ task' = [task EXCEPT ![i] = AfterStart(reply.calls[i])]
                /\ pc' = IF i = Len(task) THEN "collect" ELSE "launch"
          /\ UNCHANGED <<step, prompt, reply, results, steps, allCalls,
                         cancelled, count>>

\* A task is resumed, by whoever its tool (or the repair callback) waits for.
TaskMoves(i, from, to) ==
    /\ ~Stopped
    /\ i \in DOMAIN task
    /\ task[i] = from
    /\ task' = [task EXCEPT ![i] = to]
    /\ UNCHANGED <<pc, step, prompt, reply, results, steps, allCalls,
                   cancelled, count>>

\* A mistake: a failed repair is tried again.
RepairAgain(i) == TaskMoves(i, "repair", "repair")

\* The repair callback answers or throws a std::exception: either way the
\* tool runs, with the repaired or the original input.
RepairEnds(i) == TaskMoves(i, "repair", "tool")

\* The tool answers, or throws a std::exception that becomes an error result.
ToolEnds(i) == TaskMoves(i, "tool", "ok") \/ TaskMoves(i, "tool", "error")

\* Anything else thrown is kept in the task for its awaiter.
ThrowsForeign(i) == \E s \in Running : TaskMoves(i, s, "foreign")

ResultOf(i) == [id |-> reply.calls[i].id, err |-> task[i] = "error"]

\* A mistake: results are taken in the order the tasks finish.
CollectAsFinished ==
    /\ pc = "collect"
    /\ Len(results) < Len(task)
    /\ \E k \in DOMAIN task :
          /\ task[k] \in Finished \ {"foreign"}
          /\ ~\E j \in DOMAIN results : results[j].id = reply.calls[k].id
          /\ results' = Append(results, ResultOf(k))
    /\ UNCHANGED <<pc, step, prompt, reply, task, steps, allCalls, cancelled, count>>

\* co_await of the next task in launch order; it rethrows what escaped.
Collect == /\ pc = "collect"
           /\ LET k == Len(results) + 1
              IN  /\ k \in DOMAIN task
                  /\ task[k] \in Finished
                  /\ IF task[k] = "foreign"
                     THEN pc' = "failed" /\ UNCHANGED results
                     ELSE results' = Append(results, ResultOf(k)) /\ UNCHANGED pc
           /\ UNCHANGED <<step, prompt, reply, task, steps, allCalls, cancelled,
                          count>>

\* A mistake: a cancelled round sends back the results it has.
AppendPartialResults ==
    /\ pc = "collect"
    /\ Len(results) = Len(task) \/ cancelled
    /\ prompt' = Append(prompt, ToolTurn(results))
    /\ allCalls' = allCalls \o results
    /\ pc' = "finish"
    /\ UNCHANGED <<step, reply, task, results, steps, cancelled, count>>

\* A mistake: the round is not reported in all_tool_calls.
AppendUnreported ==
    /\ pc = "collect"
    /\ Len(results) = Len(task)
    /\ prompt' = Append(prompt, ToolTurn(results))
    /\ pc' = "finish"
    /\ UNCHANGED <<step, reply, task, results, steps, allCalls, cancelled, count>>

AppendToolResults == /\ pc = "collect"
                     /\ Len(results) = Len(task)
                     /\ prompt' = Append(prompt, ToolTurn(results))
                     /\ allCalls' = allCalls \o results
                     /\ pc' = "finish"
                     /\ UNCHANGED <<step, reply, task, results, steps, cancelled,
                                    count>>

-----------------------------------------------------------------------------
(* The end of a step *)

\* on_step_finish returns; the step is recorded and the loop goes on or not.
FinishStep == /\ pc = "finish"
              /\ steps' = Append(steps, [reply |-> reply, results |-> results])
              /\ IF reply.reason = "tool-calls" /\ HasTools
                 THEN pc' = "loop" /\ step' = step + 1
                 ELSE pc' = "done" /\ UNCHANGED step
              /\ UNCHANGED <<prompt, reply, task, results, allCalls, cancelled,
                             count>>

\* on_step_finish throws.
CallbackThrows == /\ pc = "finish"
                  /\ pc' = "failed"
                  /\ UNCHANGED <<step, prompt, reply, task, results, steps,
                                 allCalls, cancelled, count>>

\* Another thread cancels the token.
Cancel == /\ ~cancelled
          /\ ~Stopped
          /\ cancelled' = TRUE
          /\ UNCHANGED <<pc, step, prompt, reply, task, results, steps,
                         allCalls, count>>

\* The coroutine has returned or thrown: nothing is left to do.
Terminated == Stopped /\ UNCHANGED vars

TaskStep == \E i \in 1..MaxCalls : RepairEnds(i) \/ ToolEnds(i) \/ ThrowsForeign(i)

ModelStep == ModelThrows \/ \E r \in Replies : ModelReplies(r)

LoopStep == \/ StepHead \/ AskModel \/ Launch \/ Collect
            \/ AppendToolResults \/ FinishStep

Next == LoopStep \/ ModelStep \/ TaskStep \/ CallbackThrows \/ Cancel \/ Terminated

Spec == Init /\ [][Next]_vars

\* The coroutine itself runs on: its own statements are never held back.
\* Nothing is assumed of models or tools.
LoopFairSpec == Spec /\ WF_vars(LoopStep)

\* Every model call and every tool call comes back some day.
OthersComeBack ==
    /\ WF_vars(ModelStep)
    /\ \A i \in 1..MaxCalls : WF_vars(RepairEnds(i)) /\ WF_vars(ToolEnds(i))

-----------------------------------------------------------------------------
(* Properties *)

PCs == {"loop", "send", "model", "launch", "collect", "finish", "done", "failed"}

Message == [role    : {"user", "assistant", "tool"},
            calls   : Seq(Call),
            results : Seq(Result)]

\* The shape of the state: what each variable of generate_text can hold.
TypeOK == /\ pc \in PCs
          /\ step \in 0..MaxSteps
          /\ prompt \in Seq(Message)
          /\ reply \in [reason : {"tool-calls", "other"}, calls : Seq(Call)]
          /\ task \in Seq({"new"} \cup Running \cup Finished)
          /\ results \in Seq(Result)
          /\ steps \in Seq([reply : [reason : {"tool-calls", "other"}, calls : Seq(Call)],
                            results : Seq(Result)])
          /\ allCalls \in Seq(Result)
          /\ cancelled \in BOOLEAN
          /\ count \in [asks : Nat, lateAsks : Nat, lateRounds : Nat]

\* The conversation generate_text holds, at the level of whole rounds.
phase == CASE pc \in {"loop", "send"}      -> "idle"
           [] pc = "model"                 -> "asked"
           [] pc \in {"launch", "collect"} -> "owing"
           [] pc = "finish"                -> "settled"
           [] pc = "done"                  -> "done"
           [] pc = "failed"                -> "aborted"

Conv == INSTANCE ToolConversation WITH conv <- prompt, asks <- count.asks

\* generate_text holds a conversation as ToolConversation promises it: its
\* interleaved launches, completions and awaits are one AnswerAll step there.
ConversationSpec == Conv!Spec

\* The prompt of a model call never has a tool call without its result nor a
\* result without its call, and answers stand in the order of the calls
\* (append_assistant_message, append_tool_results).
NoOrphans == Conv!NoOrphans

\* execute_tools awaits "in launch order so results line up with the model's
\* tool_calls": the k-th result is that of the k-th task, however the tasks
\* finished, and no task it came from is still running.
ResultsLineUp == pc = "collect" =>
    \A k \in DOMAIN results : /\ task[k] \in Finished \ {"foreign"}
                              /\ results[k] = ResultOf(k)

\* Cancelling stops the loop within one round: the call already past the check
\* may go out and its reply's tools may run, but nothing after that.
CancelBoundsWork == count.lateAsks <= 1 /\ count.lateRounds <= 1

\* The round in progress: one task per call of the reply, whose assistant
\* message is the last of the prompt, never more results than tasks, and none
\* before every task has been started.
RoundShape == pc \in {"launch", "collect"} =>
    /\ HasCalls(reply)
    /\ reply.calls \in CallLists
    /\ Len(task) = Len(reply.calls)
    /\ Len(results) <= Len(task)
    /\ pc = "launch" => results = <<>>
    /\ prompt # <<>>
    /\ prompt[Len(prompt)] = AssistantTurn(reply.calls)

\* How many model calls the loop counter stands for.
AsksCounted == /\ pc = "loop" => count.asks = step
               /\ pc = "send" => count.asks = step /\ step < MaxSteps
               /\ pc \in {"model", "launch", "collect", "finish"} =>
                      count.asks = step + 1 /\ step < MaxSteps

\* Where late work can still come from: nothing is late before the
\* cancellation, and a late call can only be sent past an earlier check.
LateWork == /\ ~cancelled \/ pc = "send" => count.lateAsks = 0 /\ count.lateRounds = 0
            /\ pc = "model" => count.lateRounds = 0

\* What generate_text reports agrees with what it did: one step per model call,
\* all_tool_calls holds the results of the steps, and the messages returned
\* hold the same results, each once and in order.
ReportAgrees == pc \in {"loop", "done"} =>
    /\ count.asks = Len(steps)
    /\ allCalls = FlattenSeq([i \in DOMAIN steps |-> steps[i].results])
    /\ allCalls = FlattenSeq([i \in DOMAIN prompt |-> prompt[i].results])

LoopInv == /\ TypeOK
           /\ RoundShape
           /\ ResultsLineUp
           /\ AsksCounted
           /\ LateWork
           /\ CancelBoundsWork

\* A tool that never comes back does not keep the calls after it from being
\* started: "launch every tool call before awaiting any of them".
LaunchNeverWaits == (pc = "launch") ~> (pc # "launch")

\* When models and tools come back, generate_text does too.
Termination == OthersComeBack => <>Stopped
=============================================================================
