------------------------------- MODULE RateLimiter -------------------------------
(***************************************************************************)
(* RateLimiter: a window of a minute with a budget of requests and one of  *)
(* tokens.  A request is counted when it is let in, its tokens when it is  *)
(* over.                                                                   *)
(***************************************************************************)
EXTENDS Integers

CONSTANTS max_requests_per_minute, max_tokens_per_minute

ASSUME RateLimiterAssumption == /\ max_requests_per_minute \in Nat \ {0}
                                /\ max_tokens_per_minute \in Nat \ {0}

VARIABLES
    request_count, token_count,  \* of the current window
    minute_over                  \* the window has lasted a minute

limiterVars == <<request_count, token_count, minute_over>>

LimiterTypeOK == /\ request_count \in Nat /\ token_count \in Nat
                 /\ minute_over \in BOOLEAN

LimiterInit == /\ request_count = 0
               /\ token_count = 0
               /\ minute_over = FALSE

MinutePasses == /\ ~minute_over
                /\ minute_over' = TRUE
                /\ UNCHANGED <<request_count, token_count>>

\* The counts after maybe_reset_window.
Requests == IF minute_over THEN 0 ELSE request_count
Tokens == IF minute_over THEN 0 ELSE token_count

\* acquire, when it comes round and both budgets have something left.
LimiterAcquire == /\ Requests < max_requests_per_minute
                  /\ Tokens < max_tokens_per_minute
                  /\ request_count' = Requests + 1
                  /\ token_count' = Tokens
                  /\ minute_over' = FALSE

\* record_usage does not look at the window.
RecordUsage(n) == /\ token_count' = token_count + n
                  /\ UNCHANGED <<request_count, minute_over>>
=============================================================================
