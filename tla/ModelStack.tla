-------------------------------- MODULE ModelStack --------------------------------
(***************************************************************************)
(* ModelStack: what stands between an application and a model.  Threads of *)
(* the application call it with retries, a rate limit and a cache, run     *)
(* batches, register for the cancellation or cancel; a thread has one such *)
(* role.  The limiter, the cache and the token are theirs together.        *)
(***************************************************************************)
EXTENDS Cancellation, RateLimiter, ResponseCache, BatchRun

CONSTANTS
    Roles,        \* the assignments of roles to threads
    Prompts,      \* what calls ask
    Options,      \* the call options of each
    KeyOf,        \* the key of each, by a name
    MaxUse,       \* bound: tokens a call uses
    MaxCalls,     \* bound: calls of a thread, one after the other
    max_retries   \* of RetryOptions

ASSUME ModelStackAssumption ==
    /\ IsFiniteSet(Threads) /\ NoThread \notin Threads
    /\ BatchThreads \subseteq Threads
    /\ Roles \subseteq [Threads -> {"call", "batch", "register", "reenter", "cancel", "none"}]
    /\ \A p, q \in Prompts : KeyOf[p] = KeyOf[q]
                             <=> ComputeCacheKey(Options[p]) = ComputeCacheKey(Options[q])
    /\ MaxUse \in Nat /\ max_retries \in Nat /\ MaxCalls \in Nat
    /\ IsFiniteSet(CustomIds) /\ max_polls \in Nat

VARIABLES
    role,     \* of each thread
    pc,       \* where it is
    want,     \* the prompt of its call
    got,      \* the prompt whose answer it has
    attempt,  \* of retry_async
    error,    \* the last error of the model
    calls     \* how many calls it has made

callVars == <<want, got, attempt, error, calls>>
vars == <<role, pc, want, got, attempt, error, calls, cancelVars, limiterVars, cacheVars, batchVars>>

Errors == {"none", "retryable", "fatal", "cancelled"}

Begins == [call |-> "limit", batch |-> "submit", register |-> "locking", reenter |-> "locking",
           cancel |-> "locking", none |-> "done"]

Init ==
    /\ role \in Roles
    /\ pc = [t \in Threads |-> Begins[role[t]]]
    /\ want \in [Threads -> Prompts]
    /\ \A t, u \in Threads : role[t] # "call" /\ role[u] # "call" => want[t] = want[u]
    /\ got = want
    /\ attempt = [t \in Threads |-> 0]
    /\ error = [t \in Threads |-> "none"]
    /\ calls = [t \in Threads |-> 0]
    /\ CancelInit /\ LimiterInit /\ CacheInit /\ BatchInit
    /\ \A t \in BatchThreads : role[t] # "batch" => processor[t] = "openai"

Goes(t, from, to) == pc[t] = from /\ pc' = [pc EXCEPT ![t] = to]

-----------------------------------------------------------------------------
(* Calls *)

CallStep == UNCHANGED <<role, cancelVars, batchVars>>

Acquire(t) == /\ Goes(t, "limit", "look")
              /\ LimiterAcquire
              /\ CallStep /\ UNCHANGED <<callVars, cacheVars>>

\* wrap_generate finds the key, or goes to the model.
Find(t) == /\ Goes(t, "look", "record")
           /\ Hit(KeyOf[want[t]])
           /\ got' = [got EXCEPT ![t] = Cached(KeyOf[want[t]])]
           /\ CallStep /\ UNCHANGED <<want, attempt, error, calls, limiterVars>>

Miss(t) == /\ Goes(t, "look", "asking")
           /\ KeyOf[want[t]] \notin DOMAIN cache_map
           /\ CallStep /\ UNCHANGED <<callVars, limiterVars, cacheVars>>

Answer(t) == /\ Goes(t, "asking", "store")
             /\ got' = [got EXCEPT ![t] = want[t]]
             /\ CallStep /\ UNCHANGED <<want, attempt, error, calls, limiterVars, cacheVars>>

\* The model throws; that it was cancelled only when it was.
Fail(t) == /\ Goes(t, "asking", "caught")
           /\ \E e \in Errors \ {"none"} :
                 /\ e = "cancelled" => cancelled
                 /\ error' = [error EXCEPT ![t] = e]
           /\ CallStep /\ UNCHANGED <<want, got, attempt, calls, limiterVars, cacheVars>>

Store(t) == /\ Goes(t, "store", "record")
            /\ Insert(KeyOf[want[t]], got[t])
            /\ CallStep /\ UNCHANGED <<callVars, limiterVars>>

\* retry_async: the last attempt and an error of the wrong kind are rethrown,
\* after any other it tries again when it has slept.
Rethrow(t) ==
    /\ pc[t] = "caught"
    /\ IF attempt[t] >= max_retries \/ error[t] # "retryable"
       THEN /\ pc' = [pc EXCEPT ![t] = "failed"]
            /\ UNCHANGED attempt
       ELSE /\ pc' = [pc EXCEPT ![t] = "limit"]
            /\ attempt' = [attempt EXCEPT ![t] = @ + 1]
    /\ CallStep /\ UNCHANGED <<want, got, error, calls, limiterVars, cacheVars>>

\* The application records what the call used and makes another.
Record(t) ==
    /\ pc[t] = "record"
    /\ \E n \in 0..MaxUse : RecordUsage(n)
    /\ calls' = [calls EXCEPT ![t] = @ + 1]
    /\ attempt' = [attempt EXCEPT ![t] = 0]
    /\ error' = [error EXCEPT ![t] = "none"]
    /\ IF calls'[t] = MaxCalls
       THEN /\ pc' = [pc EXCEPT ![t] = "done"]
            /\ UNCHANGED want
       ELSE /\ pc' = [pc EXCEPT ![t] = "limit"]
            /\ \E p \in Prompts : want' = [want EXCEPT ![t] = p]
    /\ got' = [got EXCEPT ![t] = want'[t]]
    /\ CallStep /\ UNCHANGED cacheVars

\* Anyone may clear the cache while calls are under way.
ClearCache == /\ \E t \in Threads : pc[t] \in {"limit", "look", "asking", "store", "record"}
              /\ Clear
              /\ CallStep /\ UNCHANGED <<pc, callVars, limiterVars>>

Minute == /\ \E t \in Threads : pc[t] \in {"limit", "look", "asking", "store", "record"}
          /\ MinutePasses
          /\ CallStep /\ UNCHANGED <<pc, callVars, cacheVars>>

Call(t) == \/ Acquire(t) \/ Find(t) \/ Miss(t) \/ Answer(t) \/ Fail(t) \/ Store(t)
           \/ Rethrow(t) \/ Record(t)

-----------------------------------------------------------------------------
(* The token *)

TokenStep == UNCHANGED <<role, callVars, limiterVars, cacheVars, batchVars>>

Lock(t) == /\ Goes(t, "locking", IF role[t] = "cancel" THEN "cancelling" ELSE "registering")
           /\ LockToken(t)
           /\ TokenStep

Register(t) == /\ Goes(t, "registering", "done")
               /\ role[t] = "reenter" => ~cancelled
               /\ OnCancel(t)
               /\ TokenStep

Reenter(t) == /\ Goes(t, "registering", "stuck")
              /\ role[t] = "reenter"
              /\ ReentersToken(t)
              /\ TokenStep

CancelAll(t) == /\ Goes(t, "cancelling", "running")
                /\ TakeCallbacks(t)
                /\ TokenStep

RunNext(t) == /\ pc[t] = "running"
              /\ RunCallback(t)
              /\ UNCHANGED pc
              /\ TokenStep

CancelReturns(t) == /\ Goes(t, "running", "done")
                    /\ cbs[t] = <<>>
                    /\ TokenStep /\ UNCHANGED cancelVars

Token(t) == Lock(t) \/ Register(t) \/ Reenter(t) \/ CancelAll(t) \/ RunNext(t) \/ CancelReturns(t)

-----------------------------------------------------------------------------
(* Batches *)

BatchStep == UNCHANGED <<role, callVars, cancelVars, limiterVars, cacheVars>>

SubmitBatch(t) == /\ Goes(t, "submit", "polling")
                  /\ Submit(t)
                  /\ BatchStep

\* Before each poll the token is looked at.
PollBatch(t) ==
    /\ pc[t] = "polling"
    /\ ~cancelled
    /\ Poll(t)
    /\ pc' = [pc EXCEPT ![t] = CASE Over(info'[t]) /\ info'[t] = "completed" -> "fetch"
                                 [] Over(info'[t]) /\ info'[t] # "completed" -> "done"
                                 [] ~Over(info'[t]) /\ (max_polls = 0 \/ polls'[t] < max_polls) -> "polling"
                                 [] ~Over(info'[t]) /\ max_polls # 0 /\ polls'[t] >= max_polls -> "failed"]
    /\ BatchStep

FetchBatch(t) == /\ Goes(t, "fetch", "done")
                 /\ HasFile(t)
                 /\ Fetch(t)
                 /\ BatchStep

\* The token is cancelled, or the batch has no file of results.
BatchStops(t) == /\ \/ cancelled /\ Goes(t, "polling", "failed")
                    \/ ~HasFile(t) /\ Goes(t, "fetch", "failed")
                 /\ BatchStep /\ UNCHANGED batchVars

\* Any request may fail.
BatchThrows(t) == /\ \E s \in {"submit", "polling", "fetch"} : Goes(t, s, "failed")
                  /\ BatchStep /\ UNCHANGED batchVars

\* The server; a batch whose thread has given up goes on.
Server(t) == /\ BatchGoesOn(t) \/ BatchCancels(t) \/ BatchEnds(t)
             /\ UNCHANGED pc
             /\ BatchStep

Batch(t) == SubmitBatch(t) \/ PollBatch(t) \/ FetchBatch(t) \/ BatchStops(t)

-----------------------------------------------------------------------------

Returned(t) == pc[t] \in {"done", "failed"}

\* Who waits for a mutex that is never let go waits for good.
Rest == /\ \A t \in Threads : Returned(t) \/ pc[t] \in {"stuck", "locking"}
        /\ \A t \in BatchThreads : batch[t].status = "none" \/ Settled(batch[t].status)
        /\ token_mutex # NoThread \/ \A t \in Threads : Returned(t)
        /\ UNCHANGED vars

Next == \/ \E t \in Threads : Call(t) \/ Token(t)
        \/ \E t \in BatchThreads : Batch(t) \/ BatchThrows(t) \/ Server(t)
        \/ ClearCache
        \/ Minute
        \/ Rest

Spec == Init /\ [][Next]_vars

\* Threads run, models and servers come to an end, minutes pass.
FairSpec == /\ Spec
            /\ \A t \in Threads : WF_vars(Call(t)) /\ WF_vars(Token(t))
            /\ \A t \in BatchThreads : WF_vars(Batch(t)) /\ WF_vars(Server(t))
            /\ WF_vars(Minute)

-----------------------------------------------------------------------------

PCs == {"limit", "look", "asking", "store", "record", "caught", "submit", "polling", "fetch",
        "locking", "registering", "cancelling", "running", "stuck", "done", "failed"}
Entries == [node : Nat, key : {KeyOf[p] : p \in Prompts}, answer : Prompts]

CallTypeOK ==
    /\ want \in [Threads -> Prompts] /\ got \in [Threads -> Prompts]
    /\ attempt \in [Threads -> Nat] /\ calls \in [Threads -> Nat]
    /\ error \in [Threads -> Errors]

CacheTypeOK ==
    /\ cache_list \in Seq(Entries)
    /\ cache_map \in [DOMAIN cache_map -> Nat] /\ IsFiniteSet(DOMAIN cache_map)

TypeOK ==
    /\ role \in [Threads -> DOMAIN Begins]
    /\ pc \in [Threads -> PCs]
    /\ CallTypeOK /\ CancelTypeOK /\ LimiterTypeOK /\ CacheTypeOK /\ BatchTypeOK

\* Where a thread of each role can be.
Stations == [call     |-> {"limit", "look", "asking", "store", "record", "caught", "done", "failed"},
             batch    |-> {"submit", "polling", "fetch", "done", "failed"},
             register |-> {"locking", "registering", "done"},
             reenter  |-> {"locking", "registering", "stuck", "done"},
             cancel   |-> {"locking", "cancelling", "running", "done"},
             none     |-> {"done"}]

Course == \A t \in Threads : pc[t] \in Stations[role[t]]

\* Calls that were let in and have not recorded what they used.
InFlight == {t \in Threads : pc[t] \in {"look", "asking", "store", "record"}}

\* The window never has more requests than its budget; of tokens it may have
\* what the calls use that were let in before their budget was gone, also those
\* of an earlier window: no more than one call of each thread.
LimiterInv ==
    /\ request_count \in 0..max_requests_per_minute
    /\ token_count + MaxUse * Cardinality(InFlight)
       <= max_tokens_per_minute - 1 + MaxUse * Cardinality(Threads)

\* A call fails for a reason: an error that is not to be retried, or the last
\* of its attempts.
RetryInv == \A t \in Threads :
    /\ attempt[t] <= max_retries
    /\ role[t] = "call" /\ pc[t] = "failed" => error[t] # "retryable" \/ attempt[t] = max_retries

\* An answer is one to a prompt of the same key, from the cache or not.
AnswerInv ==
    /\ \A i \in DOMAIN cache_list : KeyOf[cache_list[i].answer] = cache_list[i].key
    /\ \A t \in Threads : pc[t] = "record" => KeyOf[got[t]] = KeyOf[want[t]]
    /\ \A t \in Threads : pc[t] = "store" => got[t] = want[t]

Registered(t) == role[t] \in {"register", "reenter"} /\ pc[t] = "done"

\* The token: who holds its mutex, and where callbacks are that have not run.
\* Each is of a registered thread and there once; the first to cancel takes all.
TokenInv ==
    /\ \A t \in Threads : token_mutex = t <=> pc[t] \in {"registering", "cancelling", "stuck"}
    /\ cancelled => callbacks = <<>>
    /\ ~cancelled => \A t \in Threads : cbs[t] = <<>> /\ ran[t] = 0
    /\ \A t \in Threads : cbs[t] # <<>> => pc[t] = "running"
    /\ \A i \in DOMAIN callbacks : Registered(callbacks[i])
    /\ \A c \in Threads : \A i \in DOMAIN cbs[c] : Registered(cbs[c][i]) /\ ran[cbs[c][i]] = 0
    /\ \A i, j \in DOMAIN callbacks : callbacks[i] = callbacks[j] => i = j
    /\ \A c, d \in Threads : \A i \in DOMAIN cbs[c], j \in DOMAIN cbs[d] :
          cbs[c][i] = cbs[d][j] => c = d /\ i = j
    /\ \A t \in Threads : ran[t] # 0 => Registered(t)

\* What a thread knows of its batch while it runs it.
BatchInv == \A t \in BatchThreads :
    /\ batch[t].status \in Statuses[processor[t]]
    /\ role[t] = "batch" /\ pc[t] \in {"submit", "polling", "fetch"} => items[t] = <<>>
    /\ role[t] = "batch" /\ pc[t] = "fetch" =>
          info[t] = "completed" /\ Settled(batch[t].status) /\ Parsed(t) = "completed"

\* The cache holds together while misses of one key overlap, the limiter's
\* budgets are kept as far as it can, retries end, and the token and the batches
\* are where the properties below need them.
StackInv == TypeOK /\ Course /\ CacheInv /\ LimiterInv /\ RetryInv /\ AnswerInv /\ TokenInv /\ BatchInv

\* A callback runs once if the token is cancelled and not before, whether it
\* was registered before, after or while that happened: none is lost between
\* the flag and the list.
CallbacksOnce == \A t \in Threads :
    /\ ran[t] <= 1
    /\ ran[t] = 1 => cancelled
    /\ Registered(t) => CASE ~cancelled -> t \in ToSet(callbacks)
                          [] cancelled  -> ran[t] = 1 \/ \E c \in Threads : t \in ToSet(cbs[c])

\* run_batch returns when the batch is over, with what became of its requests,
\* although others cancel it and its results come in any order.
BatchFinal == \A t \in BatchThreads : role[t] = "batch" /\ pc[t] = "done" => FinalWord(t)

\* Every thread comes to an end, unless a callback asks for the mutex under
\* which it runs.
ThreadsReturn == (\A t \in Threads : role[t] # "reenter") => <>(\A t \in Threads : Returned(t))
=============================================================================
