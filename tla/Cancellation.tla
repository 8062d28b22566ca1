------------------------------ MODULE Cancellation ------------------------------
(***************************************************************************)
(* Cancellation: the state a CancellationSource shares with its tokens.    *)
(* The flag is read by whoever holds a token; the callbacks are under a    *)
(* mutex.  A callback is known by the thread that registered it.           *)
(***************************************************************************)
EXTENDS Integers, Sequences, FiniteSets, SequencesExt

CONSTANTS Threads, NoThread

VARIABLES
    cancelled,    \* the flag
    token_mutex,  \* who holds the mutex
    callbacks,    \* what is to run, in order
    cbs,          \* what each thread took from there and has still to run
    ran           \* how often the callback of each thread has run

cancelVars == <<cancelled, token_mutex, callbacks, cbs, ran>>

CancelTypeOK ==
    /\ cancelled \in BOOLEAN
    /\ token_mutex \in Threads \cup {NoThread}
    /\ callbacks \in Seq(Threads)
    /\ cbs \in [Threads -> Seq(Threads)]
    /\ ran \in [Threads -> Nat]

CancelInit ==
    /\ cancelled = FALSE
    /\ token_mutex = NoThread
    /\ callbacks = <<>>
    /\ cbs = [t \in Threads |-> <<>>]
    /\ ran = [t \in Threads |-> 0]

LockToken(t) == /\ token_mutex = NoThread
                /\ token_mutex' = t
                /\ UNCHANGED <<cancelled, callbacks, cbs, ran>>

\* on_cancel under the mutex: a token that is cancelled runs the callback there
\* and then, any other keeps it.
OnCancel(t) == /\ token_mutex = t
               /\ IF cancelled
                  THEN /\ ran' = [ran EXCEPT ![t] = @ + 1]
                       /\ UNCHANGED callbacks
                  ELSE /\ callbacks' = Append(callbacks, t)
                       /\ UNCHANGED ran
               /\ token_mutex' = NoThread
               /\ UNCHANGED <<cancelled, cbs>>

\* A callback that asks for the mutex its own thread holds: nothing more
\* happens to it.
ReentersToken(t) == /\ token_mutex = t
                    /\ cancelled
                    /\ UNCHANGED cancelVars

\* A mistake: the callbacks that are taken also stay.
TakeCallbacksKeeps(t) ==
    /\ token_mutex = t
    /\ cancelled' = TRUE
    /\ cbs' = [cbs EXCEPT ![t] = callbacks]
    /\ token_mutex' = NoThread
    /\ UNCHANGED <<callbacks, ran>>

\* cancel: the first to set the flag takes the callbacks.
TakeCallbacks(t) == /\ token_mutex = t
                    /\ cancelled' = TRUE
                    /\ IF cancelled THEN UNCHANGED <<callbacks, cbs>>
                       ELSE /\ cbs' = [cbs EXCEPT ![t] = callbacks]
                            /\ callbacks' = <<>>
                    /\ token_mutex' = NoThread
                    /\ UNCHANGED ran

\* And runs them one by one when it has let go of the mutex.  They return here:
\* one that threw would leave the loop and those after it would not run.
RunCallback(t) == /\ cbs[t] # <<>>
                  /\ ran' = [ran EXCEPT ![Head(cbs[t])] = @ + 1]
                  /\ cbs' = [cbs EXCEPT ![t] = Tail(@)]
                  /\ UNCHANGED <<cancelled, token_mutex, callbacks>>
=============================================================================
