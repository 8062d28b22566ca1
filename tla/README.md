# TLA+ models of AI SDK for C++

Specifications of the concurrent and stateful core of the SDK, the TLC
configurations that check them on small instances, and proofs, checked by TLAPS,
of their main safety properties for every value of the constants. Paths below
are relative to the repository (`src/core/generate_text.cpp` and so on). Every
definition was translated from the code; `PROJECT.json` maps it to its lines.

- [The system](#the-system): its components, state, interactions, hard behaviours
- [Modules](#modules): which models what, and how states and actions correspond
- [Runs](#runs): what TLC checks, bounds, fairness
- [Proofs](#proofs): what TLAPS proves, from what, and along which argument
- [Where code and comments disagree](#where-code-and-comments-disagree)
- [Not modelled](#not-modelled) and [plan](#plan)

## The system

The SDK sits between an application and language-model providers. An entry point
is a coroutine (`Task<T>`) that calls a model, runs the tools the model asks for,
and calls it again. Everything else is around that loop.

| component (code) | state it keeps | operations | correct when |
|---|---|---|---|
| tool loop (`core/generate_text.cpp`, `agent/tool_loop_agent.cpp`) | prompt, step counter, tool tasks, results, `all_tool_calls`, steps | one loop iteration: cancel check, `do_generate`, launch, await, append, callback | every call is answered once and in order; a cancellation takes effect within a round; report = what happened; it ends |
| streaming loop (`core/stream_text.cpp`) | the same, plus pending calls and the `FullResultSink` | yield a part, execute calls, settle the sink | calls executed = calls the consumer saw; `full_result` has the outcome of the stream |
| coroutines (`stream/async_generator.hpp`, `http/client.cpp` `FutureAwaitable`, `util/retry.hpp` `AsyncSleep`) | frame, `continuation`, `started_` | `start`, `co_await`, `final_suspend`, destroy | nothing resumed twice, no wake-up lost, no frame freed in use |
| permission gate (`permission/permission.cpp`) | `always_allowed` shared by all gates | gate, policy, approver | nothing runs that nobody allowed; fails closed |
| Node addon (`bindings/node/src/addon.cpp`, `bindings/node/index.ts`) over the C binding (`bindings/c/ai_sdk.cpp`) | promises of open requests by id, queues to the JS thread, generators, `_activePromise` | start a turn, ask the JS thread, answer, post events, consume | an answer reaches the call that asked; an end is told as what it was; turns of a session do not mix |
| context strategies (`session/context_strategy.cpp/.hpp`) | the history being cut | sliding window, summarization, eviction | pairs stay together; the ends are kept; fits or cannot |
| cancellation (`util/cancellation.hpp`) | flag, callbacks, mutex | cancel, on_cancel, throw_if_cancelled | a callback runs exactly once; once seen, work stops |
| session and store (`session/session.cpp`, `session/store.cpp`) | history, managed slice, file | send, send_stream, set_system, save, load | history = the conversation that happened; a saved session is loaded as it was |
| memory (`memory/memory.cpp`) | record files, embedding cache | save, add note, checkpoint, log, retrieve, inject | one checkpoint; embeddings belong to their records; logs are complete |
| language models (`providers/*`) | a decoder's state between events | request, reply, stream | a stream and a whole reply mean the same; blocks are well formed; a conversation comes back to the server as it was |
| MCP client and transports (`mcp/*.cpp`) | request ids, queues, `io_mutex` | request, notification, server request | an answer reaches its request; every server request is answered once; calls return |
| HTTP client, channel, pool (`http/*.cpp`) | stream channel, idle connections | push, pop, acquire, release, evict | a connection has one holder; a stream that ends was delivered whole |
| SSE parser, resilient stream (`stream/sse_parser.cpp`, `stream/resilient_stream.hpp`) | line buffer, event under way, attempts | feed, next event, reconnect | the events do not depend on how the bytes are cut |
| model wrappers (`model/caching_middleware.hpp`, `util/rate_limiter.cpp`, `util/retry.hpp`) | LRU list and map, window counters, attempts | look up, store, evict, acquire, record, retry | the map leads to live entries of its key; budgets kept; bounded attempts |
| batch runner (`core/batch.cpp` and the providers' processors) | status, polls, items | submit, poll, cancel, collect | it returns what became of a batch that is over |
| WebSocket, object generation, data stream, validators, toolkit, other bindings, CLI | see [Not modelled](#not-modelled) | | |

How they interact: `Session::send` hands a managed slice of its history
(context strategy, with an awaited summarizer, memory blocks put in front) to an
agent, which runs the tool loop. The loop co_awaits the (cached, limited, retried)
model, which translates the prompt to its provider's request; its HTTP call runs
on a worker thread and resumes the coroutine from a detached one, or hands its
body chunk by chunk to the SSE parser and its events to the provider's decoder.
The tools are coroutines of their own, wrapped by the permission gate, sharing its
allowlist; some of them are calls to an MCP server. A consumer of `stream_text`
drives the generator by pulling; `full_result` is a second task that meets it in
the sink. Synchronous callers (C binding, CLI) drive the root with an event loop
and poll `done()`; the Node addon does so on threads of its own and asks the one
JS thread whenever a policy, an approver or a tool is JavaScript.

Hard behaviours: tasks are resumed from any thread with no lock around the
continuation; the tool calls of a reply finish in any order while results must
line up; state is read before an await and used after it (allowlist, history,
cancellation, cache, checkpoint, embeddings); a consumer may stop half-way; a
summarizer, a tool, a model, a connection or a callback may fail at any await; a
stream is opened again from its beginning after part of it was delivered; a server
asks back while a call waits for its answer; a process may die between cutting and
writing a file; loops with several boundaries cut histories whose messages belong
together. `PROJECT.json` lists each under "hazards", at the line where it bites,
with the property that watches it.

## Modules

| module | models | implements, composes |
|---|---|---|
| `ToolConversation` | what the loops promise about the prompt: ask, reply, answer all calls at once, go on | abstract |
| `ToolLoop` | `generate_text`, `execute_tools`, `execute_one_tool` | implements `ToolConversation` |
| `StreamLoop` | `stream_text`, both paths, `wrap_with_full_result`, the sink, the consumer | implements `ToolConversation` |
| `TaskHandshake` | `Task<T>`: `start`, `await_ready/suspend/resume`, `FinalAwaitable`, `~Task`; the threads or event loop that resume tasks; `drive_to_completion` | |
| `PermissionGate` | the gate of `with_permissions` around each call | |
| `NodeBridge` | the Node addon: entry points, requests to the JS thread and their answers, streams, promises, session turns | the gate |
| `ContextEviction` | `SlidingWindowStrategy::manage`, `SummarizationStrategy::manage`, `evict_turns_from_front` | |
| `Session` | `send`, `send_stream`, `set_system`, `add_user`, `add_assistant`; `ai_session_send_stream` and `append_turn_messages` of the C binding | |
| `SessionStore`, `Memory`, `CodingSession` | the file a session is saved in; memory records, retriever, checkpoint writer; a session with both around it, and a process that may die | `CodingSession` is `Session` with the other two |
| `HttpClient` | plain and streaming calls, worker threads, channel, connection pool, token | |
| `SseParser`, `ResilientStream` | the parser; `make_resilient_stream` over parser and client | implements `HttpClient`, which it composes with `SseParser` |
| `McpClient` | the client's calls, server requests, notifications, both transports, disconnect | |
| `LanguageModel`, `AnthropicModel`, `OpenAIModel`, `OpenAIResponses`, `GoogleModel`, `BedrockModel` | prompts, results and parts; each provider's request, reply and stream decoder | |
| `SessionMessages`, `ProviderCalls` | what a saved message keeps; conversations of several calls with any of the providers | `ProviderCalls` composes the providers and the store's messages |
| `Cancellation`, `RateLimiter`, `ResponseCache`, `BatchRun`, `ModelStack` | the token's callbacks; the window; the cache; the batch runner; threads that use all of them | `ModelStack` composes the other four |

### ToolConversation

`conv` is the prompt, `phase` what the conversation waits for, `asks` how often
the model was asked. A whole round of tool execution is the one step `AnswerAll`.
`NoOrphans`: each assistant message is directly followed by the tool message that
answers its calls one for one and in order, and each tool message follows such a
message; except for the calls of the last message while they are executed, or
when the run was aborted in between.

### ToolLoop

`pc` is the suspension point or statement the coroutine is at: `loop` (head of
the for loop and `throw_if_cancelled`), `send` and `model` (`do_generate`),
`launch` and `collect` (the two loops of `execute_tools`), `finish`
(`on_step_finish` and the loop condition). `task[i]` is the coroutine of the i-th
call: `new`, in the `repair` callback, in its `tool`, or finished with a result,
an error result, or a `foreign` exception (anything that is not a
`std::exception`, which `execute_one_tool` lets through). `Launch` starts one task,
`TaskMoves` resumes one, from any thread at any time, `Collect` awaits the next in
launch order, `Cancel` sets the token's flag from any thread at any time.
`prompt`, `steps`, `allCalls` are the three records the code keeps of a round.
`count` is history: model calls made, and calls and rounds begun after the
cancellation. Texts, usage and tool inputs are left out: only whether an input
parses (`kind`) changes the control.

The map to the abstract conversation is `phase == CASE pc ...` with `prompt` as
`conv`: launches, completions and awaits stutter, `AppendToolResults` is
`AnswerAll`.

### StreamLoop

Both paths of `stream_text`: `Single` is the code's `max_steps <= 1 ||
tools.empty()`, for which `stream_text` itself opens the stream and the consumer
gets only the wrapper. `reading` is the generator awaiting the inner stream,
`yielded` its suspension between parts: only `Pull` leads on, `Drop` destroys it.
`Account` is what a part does to `pending_tool_calls` and
`accumulated_tool_calls`. `sink` and `waiter` are the one-shot sink and the task
that awaits it; `Settle` is `fulfill`/`fail`. Running the tools of a step is one
action (the code of `execute_tools` is that of `generate_text` but for the repair
callback, and `ToolLoop` has its interleavings). `parts` records the parts of the
current stream, for `CallsFromParts`.

### TaskHandshake

A root coroutine awaits N children in order, as `execute_tools` does with the
tools or an entry point with what it calls. `frame[i]` is where a child is;
`final` is the window in which `done()` answers true and the final awaiter has not
yet read `promise().continuation`. The actions are the separate steps of
`co_await`: `AwaitReady` reads `done()`, `AwaitStarted`/`AwaitFresh` are
`await_suspend` for a task that was `start()`ed or was not. Between them nothing
holds a child back, because the code holds no lock. `use` fixes how the SDK uses
its tasks: `threads` (children are resumed from detached threads as by
`FutureAwaitable` and `AsyncSleep`, or by one event loop), `eager` (children are
`start()`ed before the first await: `execute_tools`; other code co_awaits
directly), `throws` (a child's exception may reach the root, which destroys the
other tasks). `dangling` marks a frame destroyed under a thread that still
executes or will resume it.

### PermissionGate and NodeBridge

`pc[c]` is where the gate of call `c` is. `Allowlisted` and `Judged` are the run
from the entry to the first suspension: allowlist, policy, missing approver;
`Answer` is the resumption after the approver. `always` is
`state->always_allowed`, `grants` is history: who let a call run. The policy's
verdict is chosen per call, since it sees the input.

`NodeBridge` puts the gate's questions to another thread. A turn (a call of one of
the addon's entry points) has a kind: `promise` (`Agent.call`, `Session.send`),
`stream` (`streamText`, `Agent.callStream`), `session` (`Session.sendStream`) or
`batch` (`Batch.run`), which keeps the JS thread.
`Begin`, `PolicyHeard`, `ApproverHeard` and `ToolDone` are what the worker does
between two waits: each is a gate step and what `GoOn` asks next. `id`, `call_id`
and `pending` are the addon's request ids and promises, `posted` the queues of its
thread-safe functions. On the JS thread, which `js` occupies during a batch,
`Receive` calls the function: it answers at once or with a promise (`promised`)
that `PromiseSettles` settles at any time, or never. `Emit`, `Return`, `Settle`
are what a turn says: the C side's stream events, what the addon adds when the
stream has not told how it ended, or the end of its promise. `Arrive`, `Consume`
and `Timer` are the generator of `index.ts` and its `onTerminal`, `Start` and
`Resume` the chain of `_activePromise`. `kind = "none"` for all turns leaves the
gate to C++ (`Native`).

### ContextEviction

One action per loop iteration: `WalkBack` (the walk over `kept_turns` units),
`DropExtra` (further units to meet the target), `EvictUnit`
(`evict_turns_from_front`), with the awaited summarizer in between. A message is
its role and the ids of its calls or results; the first `cut` messages are not
kept (`kept_start`). Tokens are a parameter: `TokenCounter` is an interface.
Percentages of the window truncate towards zero as `static_cast<int>` does.

### Session, SessionStore, Memory, CodingSession

Each turn is a coroutine (`pc[t]`): it appends the user's message and copies the
history (`Begin`), awaits the strategy (`ManageReturns`), awaits the agent
(`AgentReturns`, or `StreamOpens` and, in the C binding that drains it,
`StreamEnds`), runs the hook. `managed[t]` is its own copy, from which `send`
rebuilds `history_`. The strategy may cut at any turn unit and may put a summary
there, which is what `SessionProofs!EvictionInvariant` says of `manage`; the agent returns
any number of rounds and any of the endings that `extract_turn_messages` tells
apart, since how many rounds there are is `ToolLoop`'s and `StreamLoop`'s matter.
`overlap` says whether the caller starts a turn before the last is over. A caller
may set the system prompt or add messages at any time, also during a turn.

`SessionStore` is `JsonFileSessionStore::save`: `Truncate` opens and cuts the file,
`WriteFile` writes what it can. `CodingSession!Restart` is the death of the
process at any step, in `save` too, and another that loads the session or begins
anew. `Memory` has the records as a set, the tools that write them
(`SaveMemory`, `UpdateCheckpoint`, `LogProgress`), the checkpoint writer, and
`EmbeddingRetriever::retrieve` with the awaits at which another query may change
its cache. In `CodingSession` the strategy is `MemoryContextStrategy`, whose block
is put in front of what is sent, and becomes part of the history.

### HttpClient, SseParser, ResilientStream

`work[c]` is where the thread of a call is (`acquire`, `connect`, `write`,
`response`, `header`, `body`, `reading`, `error`, `release`), `caller[c]` where the
coroutine that made it is. `answer` is the promise of headers or response, `chunks`
and `closed` the `StreamChannel`. A read may bring any number of pieces, the end,
or an error; the pool's mutex makes `acquire`, `release` and `evict_expired` one
step each. A connection is named after the call it was opened for, so that sharing
one would show. `clean` records which connections have had their response read to
its end.

`SseParser` is `feed`, `next_event` and `parse` on sequences of tokens, with the
meaning of a text read as a whole (`EventsOf`) as the reference: the text is cut at
its line feeds, each empty line that has data in front of it makes an event of the
block it ends, with the last type named in the block and the last id named at all.
As in the code, data lines without a value add nothing as long as the block has no
data, and an end of line after that.
`ResilientStream` is the generator of `make_resilient_stream`: `Open` calls the
factory, `Receive` feeds a chunk, `Parse` takes a line, `Yield` gives an event out
and resets the attempts, `Break` is a failure, `Wake` the end of the pause.

### McpClient

Threads call one server. `pc[c]` is where a call is, `io_mutex` who reads,
`inbox` the pipe (stdio) or the queue of the last HTTP reply. While one call reads
it serves the server's requests, runs the sampling or progress handler, and drops
answers to calls that gave up. A handler returns, throws out of the call, or calls
the client: then its thread waits for its own mutex (`stuck`), or, if the client was
disconnected, throws. What is sent over HTTP (`Posts`: a request, the answer to a
request of the server, `connect`'s notification) brings messages back or throws.
The server answers in any order or not at all, writes malformed lines, and may end.

### Language models

`LanguageModel` has what all share: messages, results, parts of a stream, and
`Gathered`, which puts the parts of a stream together as `stream_text` does. Each
provider's module has the request made of a prompt, the result made of a reply, the
wire a reply comes as when streamed, and the decoder's step on each cell of it. JSON
is modelled by which fields are there. The input of a call is told apart where the
code's conversions do: a missing one is `{}` in a plain reply (`Serialized`) and
empty in a stream, and an empty one is a JSON string for the tool and the next
request (`SafeParsed`), which Google makes `{}` again (`GoogleArgs`). Hosts of
OpenAI's API that fill in an empty text beside reasoning and calls are among its
replies (`filler`). `ProviderCalls` runs a conversation: ask, a whole reply or
a stream read in pieces of up to `MaxRead` cells that may be cut off, go on with
the results, perhaps in a process that loaded the conversation
(`SessionMessages`).

### ModelStack

Threads have roles. A `call` runs `retry_async` around limiter and cache around
the model, as an application composes them; `register`, `reenter` and `cancel`
use the token; a `batch` runs `run_batch` against a server. `ResponseCache` names
list nodes by numbers, as iterators name them by address, so that a map entry to a
node that is gone would show. `RateLimiter` counts a request when it is let in and
its tokens when it is over, as the code does.

## Runs

| run | instance | properties | shows |
|---|---|---|---|
| `tool_loop` | two rounds, replies of up to two calls over two ids, each unknown, unparsable or good, repair set | `NoOrphans`, `ReportAgrees`, `LoopInv`, `ConversationSpec`, `LaunchNeverWaits`, `Termination` | every interleaving of launches, completions, awaits and cancellation keeps prompt, results and report in step; the loop implements the abstract conversation; every call is started even if an earlier one never comes back; the loop ends when models and tools come back |
| `stream_loop` | both paths, two steps, streams of up to five parts | `StreamInv`, `CallsFromParts`, `ConversationSpec`, `FullResultArrives`, `StreamTerminates` | what is executed is what was streamed, however parts interleave and wherever the consumer stops; `full_result` settles |
| `task_handshake` | four children, every use | `HandshakeInv`, `ResumesOnlySuspended`, `ResumedInOrder`, `Delivered` | no result taken early, no root resumed twice; where no thread can slip between two reads, nothing lost or destroyed in use and the driver gets the result |
| `task_handshake_lost` | two children | `ResumedWhenChildEnds` | violated, see below |
| `permission_gate` | three calls in C++ under any policy, with and without approver; on the addon two turns with a call each, overlapping and in turn, one turn with two calls under any policy, a stream beside a batch, a session turn with a call, three session turns | `BridgeInv`, `AskedOnce`, `TurnsSettle` | nothing runs that nobody allowed, the gate fails closed; every request is in one place and its answer is its own call's; streams tell how they ended; session turns keep apart; nobody is asked again about a tool that is always allowed, unless turns overlap; turns settle |
| `context_eviction` | all strategies, every well-formed history of up to six messages, windows from -1 to 12 | `EvictionInv`, `KeepsEnds`, `FitsOrCannot`, `ManageEnds` | pairs stay together, both ends are kept, what does not fit cannot shrink |
| `session` | three operations on a session that is saved and may lose its process; two on one with a memory | `CodingInv`, `NothingLostBetween`, `MemoryInv` | pairs survive overlap, failure, cuts, restarts and prompts set meanwhile; the agent is given the message it is to answer; turns one after the other are lost from the front only; embeddings stay with their records, there is one checkpoint, logs are complete |
| `session_pairs` | one turn | `MatchedPairs` | violated, see below |
| `http_stream` | two streaming calls and a plain one, one worker, a pool of one, bodies of two pieces cut anywhere, one reconnect | `HttpInv`, `EventsAsWritten`, `DoneHasAll`, `StreamReturns` | no connection is shared; what ends without an exception was delivered whole; events do not depend on cuts, and none is lost or doubled within a call; the stream ends |
| `mcp` | three callers, each transport, sampling and progress handlers that return, throw or call the client | `McpInv`, `ServedOnce`, `CallsReturn` | a call returns its own answer and none is lost to another reader; every server request is answered at most once; calls return unless one is inside a handler, of either kind, that calls the client |
| `providers` | five providers, two beginnings, a dozen replies each, with calls without input and empty texts, reads of up to three cells, two turns | `PartsWellFormed`, `StreamAgrees`, `ConversationKept` | a reply means the same whole and streamed but for the named cases; blocks are well formed; calls, results and thinking come back to the server in the next turn, saved and loaded or not |
| `model_stack` | six casts of three threads: calls, callbacks, cancellers, a batch | `StackInv`, `CallbacksOnce`, `BatchFinal`, `ThreadsReturn` | the cache's map leads to a live entry of its key; budgets hold as far as they can; a callback runs exactly once; a batch is reported when it is over; threads end |

Some of these invariants are conjunctions of parts that the modules name and
comment one by one: `LoopInv` (`CancelBoundsWork`, `ResultsLineUp`), `StreamInv`
(`SinkFollowsStream`, `CancelBoundsWork`), `HandshakeInv` (`TakeHasResult`,
`ChildrenOutliveThreads`, `NoticedMeansFinished`), `BridgeInv` (`GateInv` with
`RunsOnlyWhenAllowed` and `FailsClosed`, `RequestsHeld`, `AnswersOwn`,
`EndsAreTold`, `SerialTurns`), `EvictionInv` (which implies `PairsKept`), `CodingInv`
(`PairsTogether`, `EndsWithRequest`, the file), `HttpInv` (`OneHolder`,
`PoolBounded`, `PooledOpen`, `ChannelInOrder`, `Course`, `CompleteIsWhole`),
`McpInv` (`OneReader`, `IdsApart`, `AnswerKept`, `AnsweredByOwn`, `OneConnection`,
`AnswersSent`, `RequestsUnread`), `StackInv` (`Course`, `CacheInv`, `LimiterInv`,
`RetryInv`, `AnswerInv`, `TokenInv`, `BatchInv`), `MemoryInv`
(`EmbeddingsMatch`, `OneCheckpoint`, `LogsKept`).

**Bounds.** *Loops.* `MaxSteps = 2` gives a first round, a continued one and the
exhausted loop; a third only repeats the second (the counters and the prompt's
tail are all that carries over). `MaxCalls = 2` and two ids give every order of
two completions, an exception with a sibling in flight, and equal ids in one
reply. `StreamLoop`'s `MaxParts = 5` lets a first stream hold two overlapping
calls and its finish part; `Room` takes two parts off for each later step: a
second stream of three still executes a call and goes on. Four children show
first, middle and last.

*Gate and addon.* Three calls show two waiting while a third gets "always". On the
addon the casts of `MCNodeBridge` keep apart what multiplies: requests of two
turns, whose answers could be mixed up, need no stream; ends of streams need one
call at most; two turns of a session that waited for the same one need a third.
Streams have up to `parts` events before their last, zero to two.

*Histories.* Six messages hold a system prompt, an assistant with two calls and
two results, a user and a last turn, more than `KeptTurns = 3` units; the windows
run from a negative one (reserved output larger than the window) to one that holds
every history below the threshold. Three operations on a session give two
overlapping turns with a prompt set under them and three turns of which the middle
one fails, before and after a restart; two with a memory give two queries whose
awaits overlap with two writes.

*HTTP.* Two streaming calls are a first attempt and a reconnect; one plain call is
enough to find the pool's only place taken, or the connection that a failed
stream left. Each text of `MCResilientStream` is cut at every place where the
parser changes its state (behind a field, a mark, a CR, an LF); while the plain call goes
on there is one body of one piece (`WiresBeside`), as the pool does not look at
bodies. `mcp`: one reads, one waits for the mutex, one comes when the first has
given up; one request of the server, and one notification or malformed message.

*Models.* The replies of `MCProviderCalls` have each kind of block alone, in front
of another kind, and twice; reads of up to three cells cut a block anywhere. Blocks
overlap on OpenAI's wires only, where an empty text comes beside reasoning and
calls; Anthropic's server ends one before the next.
`MCModelStack` has two prompts with one cache key, a budget of one request and one
token, a cache of one entry, one retry and two calls: an entry evicted while its
key is asked again, a window that ends with a call in flight, attempts used up.
`max_polls = 0` is no limit, the default: that a batch is given up when its polls are
used up is in `BatchRun` and its proofs, not in the run. Callbacks of the token return:
one that threw would keep those after it from running (`cancellation.hpp:73-75`).

No symmetry is used.

**Fairness.** All fairness is weak: no action competes for a lock for ever.
`LoopFairSpec` is fair to the loop's own statements only: `LaunchNeverWaits` must
hold when tools never answer. `Termination` takes it as a hypothesis
(`OthersComeBack`) that models, repairs and tools come back; without it the loop
rightly waits. `StreamLoop!FairSpec`: what runs goes on, providers and tools come
back, and the consumer pulls or drops rather than holding the stream for ever: the
code has no timeout of its own. `FullResultArrives` excludes a dropped stream, for
which the code never settles the sink. `TaskHandshake!TaskFairSpec`: no thread stops
for good between two statements, what a child waits for arrives, and the driver
polls on, as its loop does. `ContextEviction!ManageFairSpec`: the summarizer comes back.
`NodeFair`: worker threads go on, the JS thread comes round to everything that is
posted to it, as libuv's queue does, timers fire, and a consumer comes to the end
of a stream that has ended; that a promise of the application's JavaScript is ever
settled is not assumed but is the hypothesis of `TurnsSettle`. `StreamSpec` is
fair to the stream's own coroutines; that the network answers or fails in the end
(`NetworkAnswers`) and that the server answers (`McpClient!ServerAnswers`) are
hypotheses of `StreamReturns` and `CallsReturn`. `ModelStack!FairSpec`: threads,
servers and minutes go on.

**Deadlock** is checked everywhere but in the two `task_handshake` runs: there a
root may be left suspended for good, which is what the second of them shows. All
other modules say with an action of its own (`Terminated`, `AllSettled`, `Rest`,
`Resting`, `Ends`) where stopping is right; in `McpClient` and `ModelStack` that
includes waiting for a mutex that a re-entered thread holds for good, which the
code permits and the liveness properties name.

## Proofs

TLAPS proves the theorems below for every value of the constants that satisfies
the modules' named assumptions (`LoopAssumption`, `StreamAssumption`,
`HandshakeAssumption`, `GateAssumption`, `BridgeAssumption`, `EvictionAssumption`,
`HttpAssumption`, `SessionAssumption`, `CodingSessionAssumption`,
`MemoryAssumption`, `McpAssumption`, `ModelStackAssumption`,
`RateLimiterAssumption`, `ResponseCacheAssumption`, `ProviderCallsAssumption`,
`ReplyAssumption`; TLC evaluates each on the instances). `GateHolds`,
`AllowedOnly`, `BridgeHolds`, `AsksOnce`, `FitsOrNothingCanGo`, `BothEndsKept`,
`EventsAreAsWritten` and `DoneIsComplete` have a hypothesis of their own, named in
the table. The bounds of the instances are constants too, so that what is proved
holds for any number of calls, children, turns, threads, pieces and restarts. A
component's theorems are in a module of its own, except that those of
`TaskHandshake` stand with the client's whose answers resume tasks, and those of
`ContextEviction` with the session's that calls `manage`, and those of
`ProviderCalls` with the stack of layers over a call.

| theorem | says | argument |
|---|---|---|
| `ToolConversationProofs!ConversationInv`, `ConversationNoOrphans` | the abstract conversation has no orphans | `NoOrphans` is not inductive: the last message must be the assistant's while the phase is `owing`, and no unanswered one may be there otherwise; `Inv` says so |
| `ToolLoopProofs!LoopInvariant` | `LoopInv` | inductive: the shape of the round in progress (one task per call of the last message), results taken from finished tasks, `asks` against `step`, and where late work may come from |
| `CancelBounded`, `LinedUp` | `CancelBoundsWork`, `ResultsLineUp` | conjuncts of `LoopInv`; `CancelBoundsWork` alone is not inductive, `LateWork` says at which statements the budget is still unspent |
| `ImplementsConversation` | `Spec => ConversationSpec` | step by step under `LoopInv`; `AppendToolResults` needs the round's shape to be an `AnswerAll` |
| `LoopNoOrphans` | the prompt of `generate_text` has no orphans | the refinement and `ConversationNoOrphans` |
| `Reported` | `ReportAgrees` | below |
| `StreamLoopProofs!StreamInvariant`, `SinkFollows`, `StreamCancelBounded`, `StreamImplementsConversation` | the same for `stream_text`, and that `full_result` has the stream's outcome | as above, on both paths |
| `CallsGathered` | `CallsFromParts`, for streams of any length and calls in any order | below |
| `HttpClientProofs!HandshakeInvariant` | `HandshakeInv`, for any number of children and every use | who runs the root, which continuation is still to be resumed (`OneContinuation`), children taken in order, a lazily awaited child runs for its awaiter only, the event loop runs one handler at a time |
| `NeverRunsTwice`, `NoLostWakeUp` | `ResumesOnlySuspended`, `ResumedInOrder` | from `HandshakeInv` |
| `PermissionGateProofs!GateHolds`, `AllowedOnly` | `GateInv`, `RunsOnlyWhenAllowed` | a grant is held exactly past the gate, and every allowlist entry was earned by a call that the approver allowed; assumes that the approver does not itself answer "ask" |
| `PermissionGateProofs!BridgeHolds` | `BridgeInv`: the gate behind the addon, any turns overlapping; with the same assumption | below |
| `AsksOnce` | `AskedOnce`, with the same assumption | of turns that do not overlap one is current and has at most one call under way (`InTurnInv`), so nobody adds to the list while the policy is asked |
| `HttpClientProofs!HttpInvariant` | `HttpInv`, for any number of calls, workers, connections and pieces | below |
| `StreamImplementsClient`, `StreamKeepsClient` | `StreamSpec` implements `HttpClient!Spec`; hence `HttpInv` for the stream that reconnects | each step of the generator is a caller's step, a step of the channel or a stutter; that it pops only its current call's channel is `StreamShape` |
| `EventsAreAsWritten`, `DoneIsComplete` | `EventsAsWritten`, `DoneHasAll`, for bodies of any length, cut anywhere into any number of pieces, and any number of reconnects; if the bytes of a mark come in one piece (`MarkWhole`) | below |
| `SessionProofs!EvictionInvariant`, `NeverOrphans` | for any history whose calls and results are paired, any token counter and any window, what `manage` returns is paired | all three loops keep the cut at the start of a turn unit (`Clean`): no tool message after it answers a call before it |
| `FitsOrNothingCanGo` | `FitsOrCannot`, if the threshold is at most the whole window (`Sensible`) | below |
| `BothEndsKept` | `KeepsEnds`, if system messages only lead a history and at least one turn is kept (`Ordinary`) | below |
| `SessionProofs!SessionInvariant` | `SessionInv`: pairs and the request at the end, any turns overlapping and failing | every history is a concatenation of paired pieces; a cut leaves a suffix that starts at a turn unit; `JoinPaired` says a concatenation of paired histories is paired |
| `SessionProofs!CodingInvariant` | `CodingInv`: the same through saving, losing the process anywhere, loading, and blocks of memory | what is in the file or about to be written is paired; a block is a message that belongs to no round |
| `NothingIsLostBetween` | `NothingLostBetween` | below |
| `MemoryHolds` | `MemoryInv`, whatever the turns do meanwhile | below |
| `McpClientProofs!McpHolds`, `RequestsServedOnce` | `McpInv`, `ServedOnce`, for any number of threads, requests and other messages | below |
| `ModelStackProofs!StackHolds`, `CallbacksRunOnce`, `BatchesFinal` | `StackInv`, `CallbacksOnce`, `BatchFinal`, for any number of threads, prompts, keys and batch requests | below |
| `PartsAreWellFormed` | `PartsWellFormed`: each provider's decoder but Bedrock's, for replies of any number of blocks, calls and pieces, whatever is asked for and wherever the server gives up | below |

**The client.** Ownership alone (`OneHolder`) is not inductive. It needs that a
call holds a connection exactly while its thread is at work (`HoldsAtWork`), that
a connection named after a call does not exist before that call has acquired
(`NamedOnce`), and that what is idle is open. That a stream which ends was
delivered whole needs the order of the queue (`ChannelInOrder`: what is queued is
what was read and not taken, oldest first) and the course of a call (`Course`: the
channel is finished only by a body read to its end, and its caller ends only with
an empty finished channel).

**What a stream yields.** The reference reads the body backwards from each empty
line, the parser goes forward over pieces that end anywhere. `InStep` relates the
two at a place `c` where a line of the body starts: the parser's buffer is the body
from `c` to where the wire is (`Holds`), its type, data and id are what an empty line
at this place would make an event of (`Gathers`), and what was yielded, with the
events still held, is what the lines in front of `c` say. Feeding a piece moves the
end of what is held; taking a line moves `c` to the next line feed; yielding moves
the first event held behind those yielded; the end of the wire adds the line feed the
last line lacks. `OnWire` says where on the wire the stream is: pieces received are
those the channel gave, so that the end of the parser's part is known (`Known`), and
`DoneHasAll` follows when the channel is finished and no line is left. A reconnect
begins anew with both. The lemmas below it are about sets of positions: the n-th
position, what the first lines up to a number give, what one more data line adds to
the joined ones. The parser strips a mark only from its first piece: a mark that
arrives in two is taken for text, which is what `MarkWhole` excludes; `StreamAssumption`
says nothing of wires but that they are sequences of sequences of tokens.

**The addon.** `BridgeInv` speaks of requests, grants and turns at once, and its
strengthening `BridgeIInv` has one part for each. `RequestInv`: whatever is posted
or promised is `Live`, that is, the open request of its call, asked where the call
now is, with its promise unsettled; ids of open requests differ and are not above
the counter. So a request that is posted twice, posted and promised, or answered
already cannot be (`SameRequest`), and the answer that arrives is about the call
that asked. `ApprovedInv`: `said` may only change at a call that is being asked,
which holds no grant yet. `TurnInv`: while no two turns have waited for the same
one, only the turn that `active` names can be busy, and whoever is queued waits
for it; `SerialTurns` follows. Of each action that moves a call, `CallStep` shows
what it does to the bridge and the gate's own lemmas what it does to the gate.

**What the loops report and gather.** `ReportAgrees` joins sequences of any number
of rounds. The module takes `FlattenSeq` from the community modules, a recursive
function; that there is one such function, and that one sequence more is one more
joined (`FlattenAppend`), is an induction. The library's induction theorems take an
operator, so it is done on a set: the lengths for which it fails have no least
element (`Least`, which well-foundedness of `<` gives). `ReportInv` then says what
`steps` and `all_tool_calls` have at each place of the loop; in `finish` the round
is in one and not yet in the other. `GatherInv` says of the generator that
`pending` is what is open in the parts so far, and that the n-th call gathered is
that of the n-th part to complete one. `CallsFromParts` finds that part by its rank,
and no two parts have the same (`RankUnique`).

**The strategies.** `FitsInv` says with which prompts each of the three loops of
`manage` can be left. With a threshold above the window a history could pass the
first test and not fit, hence `Sensible`. `EndsInv` says that what is being cut is
the given history's system messages, perhaps a summary, and a suffix of the rest
that has its last message; of a strategy that keeps no turn that is not so, hence
`Ordinary`. `count_leading_system` and the ends of turn units are the least numbers
with a property, which `Least` provides.

**The session's order.** `NothingLostBetween` alone says nothing of the copies a
turn under way has, of the file, or of turns' order. `OrderInv` says `InOrder` of
history, copies and file while no turns overlap: messages stand in the order of
their turns, and from the first turn mentioned on none that has begun is missing.
A cut leaves a suffix behind messages of no turn (`CutInOrder`); a message of the
last turn goes behind all others (`AddedInOrder`); and of turns one after the other
only the last is under way (`InTurn`), so that nobody's older copy comes back. A
session that was loaded has the order of its file, and the turns after it were lost
with their process. Memory: of one checkpoint each writer takes the one it lists;
a task's record has what was logged (`RecordsInv`); the cache's embeddings are of
the records it was asked for, although awaits stand between (`EmbeddingsMatch`).

**The MCP client.** A call holds the mutex from its request to its answer
(`OneReader`), but the answers to calls that gave up come into the same queue, and
the server's requests too. `AnswerKept` needs that an answer in the queue is to a
request the server has answered, and that the id of a call that has not sent its
request is not among those it was asked or has answered (`AnswersSent`), all of one
connection (`OneConnection`); then what a reader drops is not the answer of anyone
who waits. `ServedOnce` needs that a request in the queue has not been answered,
thrown or begun, and is there once (`RequestsUnread`). What a step leaves of the
inbox, whether it sends nothing or a POST brings a batch back, is said once
(`Carries`), and that this keeps numbers and answers (`Keeping`) serves every
action that sends.

**The model stack.** List and map of the cache agree by `CacheInv` and three lemmas
about moving an entry to the front, putting one in front and cutting the end; two
misses of one key leave an entry the map does not lead to, which `CacheInv` allows.
The limiter's bound counts what is in flight: a call adds its tokens as it leaves
`InFlight`. `TokenInv` says that a callback is registered in one place: in the
token's list before the cancellation, then with the thread that runs it.
`BatchInv` says that only a batch that is over, of a status its processor reads as
completed, is fetched, and that nothing was collected before.

**The decoders.** That parts are well formed is not inductive: it depends on what
the decoder believes is open and on what the server has still to send. `BlockInv`
says of an open stream that it `Flows`: the parts are `Fine`, which is well formed,
not finished, and with just those blocks open that the decoder's flags and ids stand
for; the rest of the wire is `Linked`, each event one that may follow the one before
it; and its first event may come in the state the decoder is in. For each provider
three lemmas are needed: what a server sends of a reply is such a wire
(`AnthropicOpensStream` and its like), a step of the decoder keeps `Flows`
(`AnthropicReads`), and the parts are whole with any end of the stream
(`OpenAIWhole`: the calls end in any order, as `unordered_map` has them). That the
wire of a reply is linked is an induction over its blocks, done on a set as above
(`BuiltUp`). Empty texts that a host fills in are texts like others. OpenAI's
decoder keeps the ids by index: a chunk begins the call after the last or goes on
with the last (`OpenAIAt`), so that those begun are the reply's first (`Begun`), and
as calls of a reply have different ids no block begins twice. `ReplyAssumption` is
what the APIs promise of replies: redacted thinking has nothing else, calls have
names and different ids. Of texts, names and ids, and of how often the server is cut
off, nothing is assumed. Bedrock is left out: its ends are all those of texts.

**Only model-checked.** Liveness and ENABLED are outside TLAPS's reach here:
`LaunchNeverWaits`, `Termination`, `FullResultArrives`, `StreamTerminates`,
`Delivered`, `ManageEnds`, `StreamReturns`, `CallsReturn`, `ThreadsReturn`,
`TurnsSettle`. Not proved: `StreamAgrees` and `ConversationKept` of `providers`,
which compare two translations of data: folds over replies and parts, each of which
would need an induction of its own, and selections of a sequence (`SelectSeq`),
which the provers have no definition of.

## Where code and comments disagree

Two runs end in a violation, each of a sentence of the repository.

- **`task_handshake_lost`.** `async_generator.hpp:196-197`: "Task is already in
  flight (start() then co_await); it resumes us via final_suspend when it
  completes". `await_ready` reads `done()`, `await_suspend` stores the
  continuation, and a child resumed by a detached thread (`client.cpp:137-140`,
  `retry.hpp:59-62`) may end in between: it finds no continuation, and its awaiter
  stays suspended. It takes a started task and a second thread, which is what
  `execute_tools` with a tool that uses HTTP or a timer has.
- **`session_pairs`.** `session.cpp:30-31`: "If this step produced tool calls, the
  assistant tool-call message and its tool results belong to history as a matched
  pair". A step that carries calls but whose finish reason is not tool-calls (out
  of tokens, say) has no results (`generate_text.cpp:214`); its calls are recorded
  all the same and stay unanswered (`cutoff`). `PairsTogether` speaks of the calls
  that were executed.

Noted while modelling, without a run of their own (the models do what the code
does in each of these cases, unless the component is not modelled):

*Loops, tasks and sessions*

- Of two overlapping `send`s the one that ends last rebuilds the history from the
  copy it started from (`session.cpp:183`): the other's turn is gone, and so is
  what was added by hand or set as system prompt meanwhile. `NothingLostBetween`
  is about turns that do not overlap.
- A turn that throws leaves the user's message in the history, unanswered
  (`session.cpp:165`); the next `send` adds its own after it.
- `set_system` overwrites whatever system message leads the history, a compaction
  summary too (`session.cpp:152`).
- When the steps run out after a round whose reply had text, `result.text` is that
  text and is recorded a second time, after the round's results
  (`session.cpp:76-93`).
- `done()` is true from the final suspend point on, before the final awaiter has
  read the continuation; with worker threads `drive_to_completion`
  (`ai_sdk.cpp:67`) may destroy a root that a worker still executes.
  `NoticedMeansFinished`, a conjunct of `HandshakeInv`, promises otherwise on the
  event loop only.
- An exception of one tool destroys the other started tasks, which threads may
  still resume; `ChildrenOutliveThreads` excludes that use.
- `context_strategy.cpp:187-207` evicts turns the walk has just reserved (which
  174-176 call "the floor", and `context_strategy.hpp:136` "kept verbatim") as
  long as the rest is under the target, down to the last unit.
- `max_steps = 0` asks `stream_text`'s model once, `generate_text`'s never
  (`MaxAsks`).


*Saving and memory*

- The block that `MemoryContextStrategy` puts in front stays in the history with
  each turn and accumulates (`send` and `send_stream` keep `managed`);
  `set_system` may replace one.
- `memory.hpp` says the embedding cache is refreshed when records change; the code
  compares ids only (`memory.cpp:285-291`). No tool changes a record an embedding
  retriever reads (`EmbeddingsMatch` holds for that reason): an application that
  does gets the old embedding.
- `update_checkpoint` and the writer update the first checkpoint listed, the
  strategy injects the last. `log_task_progress` with an id that a record of another
  scope has resets its log or shadows it.
- `save` cuts the file before it writes and does not look at whether it could:
  a process that dies in between has lost the session, and `load` answers as if
  there had been none. Files that are not links and outputs that are content are
  not saved.

*Permission and the Node addon*

- `permission.hpp:67-71` says "The gate applies `policy` first: ... Deny ->
  return ... without running"; the code looks at the allowlist first
  (`permission.cpp:58-61`): once a call of a tool was allowed "always", a later
  call of it runs whatever the policy says of its input.
- An approver that answers `Ask` lets the call run: only `Deny` stops it
  (`PermissionGate!Answer`). The addon cannot answer so; the proofs assume it away.
- `sendStream` awaits `_activePromise` once (`index.ts:558-570`): two turns that
  waited for the same one run at the same time on one session, which is why
  `SerialTurns` has its condition. `send` is not serialised at all.
- `index.ts:290` says that a session's tool-result events come after the final
  finish; the C binding sends them before (`ai_sdk.cpp:1073-1125`).
- An approver whose answer is not a decision refuses, as `index.ts:464` says; a
  number that is not one (`NaN`, 0.5) reads as 0, which is Allow.
- `Session` does not keep its agent or tool set from being collected although
  callbacks point into them, and worker threads use raw handles. The branches for
  being called on the main thread are not reachable, and the comments about them
  (`addon.cpp:170-176`, `:325`) outdated.
- The list of tools that are always allowed is read before the policy is asked, so
  that of overlapping turns one may still ask after the other was told "always"
  (`AskedOnce`).

*HTTP, SSE, MCP*

- `client.cpp:319` says a connection that is likely broken is not returned to the
  pool; after a read error it is (`client.cpp:361`). `HttpClient!PooledClean`
  states the comment and does not hold. The next request on it fails or reads the
  rest of the old response.
- A NUL in an `id:` field is not looked at, an empty `data:` line at the beginning
  of an event is dropped, and a byte order mark that the first read cuts is not
  stripped.
- A sampling or progress handler that calls the client again waits for the mutex
  its own thread holds (`mcp_client.cpp:106`; the handlers run at 66 and 90). One
  that throws ends the call it interrupts, and so does an answer to the server that
  cannot be posted. `initialize` that fails leaves `connected`
  true. The HTTP transport serves the server's requests only after it has the
  whole reply. `mcp__server__tool` names may collide.

*Language models*

- Anthropic, Google and the Responses API keep only the last system message.
- The Responses API is sent neither tool results nor the assistant's calls, and a
  reply with calls that is `completed` says Stop, so that the loop never runs them.
- OpenAI's stream drops a refusal, of which `openai_model.cpp:477` says "so it
  isn't silently lost". The order of its calls in a stream is that of a hash map.
- In Google's stream a later chunk's STOP overwrites ToolCalls, and MAX_TOKENS
  with calls becomes ToolCalls; its call ids repeat from turn to turn.
- Bedrock's streamed calls never end, and its second finish says Stop.
- Anthropic's thinking budget "must be < max_tokens", which the code breaks for
  `max_tokens` of 1024 and less; thinking with an empty text loses its signature in
  a stream; a denied output is sent as an empty success.
- A call without input is `{}` in a plain reply (`anthropic_model.cpp:422-423`, and
  OpenAI's parsers alike) and empty in a stream, of which `safe_parse` makes the JSON
  string `""`: the tool runs with a string instead of an object, and the next
  request says so (`stream_text.cpp:75-79`, `:120`). Google makes `{}` of it.
- OpenAI's stream opens a text for an empty `content` (`openai_model.cpp:639-654`): of
  a host that sends one with every chunk the text begins before the reasoning, both
  stay open together, and a reply without text streams an empty one.
- `StreamAgrees` names these cases (`TextMayDiffer`, `ReasonMayDiffer`,
  `InputMayDiffer`, `OneThinking`), and in the bounds of its run holds in all others.

*Caching, limits, batches*

- A middleware's changes to the options never reach the model
  (`middleware.cpp:25`), and calling it twice passes options that were moved from.
- `caching_middleware.hpp:13` says "identical prompts"; the key leaves out tool
  outputs, files, stop sequences, format, reasoning and provider options.
  `AnswerInv` speaks of equal keys. Two misses of one key make two entries of
  which the map knows one.
- The limiter counts a call's tokens after it: calls pass together on the same
  rest of a budget (`LimiterInv` has the bound). It blocks the thread it runs on.
- `batch.hpp:89-91` says `run_batch` throws if the batch fails, is cancelled or
  expires; it returns the final status. One failed poll throws and the id of the
  batch is lost. A status OpenAI's processor does not know is taken for a failure.
  The results of cancelled and expired batches and OpenAI's error file are dropped.

## Not modelled

What a component is, and why it is left out, stands in `PROJECT.json`. In short:

- WebSocket client and realtime session: no part of the library consumes them in an
  order of its own, their threads are an application's and the network's. To note:
  an error overtakes the messages queued before it, the destructor joins a reader
  that blocks in `read` unless it was closed first, a second `connect` assigns to a
  thread that may be joinable, and `connected` stays true when the server closes.
- Object generation is one call and a JSON parse, the data stream a line-by-line
  encoding, the schema validator a pure function on documents: unit tests reach
  them. Token counting is a parameter (`Tokens`). `ContextWindow` is not used by
  the library.
- The coding agent is wiring, the standard toolkit file-system I/O; embeddings,
  reranking, images, speech and transcription are single calls.
- The Python, Go and Rust bindings and the CLI stay on the caller's thread and drive
  the C binding, whose blocking entry points `TaskHandshake` has.
- HTTP's bytes, TLS, URL parsing, process spawning, `BoundedChannel`,
  `SseTransport` (neither is used by the library) and telemetry are outside.

In the modelled parts, texts, usage, warnings and logging are left out where no
control depends on them; of `Session` the token totals and the copy of the summary
in the metadata; of retrieval the scores; of the addon its wrapper objects, whose
lifetimes are the collector's. `AsyncGenerator` appears as `StreamLoop`'s `Pull`,
`Drop` and yield.

## Plan

What was planned is done: the loops with their refinement and proofs; the tasks
they run on; the gate, the addon around it and the context strategies; sessions,
their store and memory; the HTTP client under the reconnecting stream; MCP; the
language models; the model's wrappers. What could come next, most useful first:

1. A proof of the half of `ConversationKept` that is about one message: that a request
   keeps calls and results, message by message, without the joining of all of them.
2. The WebSocket client with OpenAI's realtime session, once something in the
   library depends on the order of its events.
3. The tool loop over `McpClient`: tools of one reply that wait for one mutex.
