-------------------------------- MODULE BatchRun --------------------------------
(***************************************************************************)
(* BatchRun: run_batch with the processors of OpenAI and Anthropic, and    *)
(* the batch on the server, which others may cancel.  A batch is told from *)
(* another by the thread that runs it.                                     *)
(***************************************************************************)
EXTENDS Integers, Sequences, FiniteSets, SequencesExt

CONSTANTS
    BatchThreads,
    CustomIds,   \* the requests of a batch
    max_polls    \* 0: as often as it takes

VARIABLES
    processor,  \* of each thread
    batch,      \* the batch on the server: its status and what became of each request
    polls,      \* how often its status did not end the polling
    info,       \* the status the thread knows last
    items       \* what it returned

batchVars == <<processor, batch, polls, info, items>>

Processors == {"openai", "anthropic"}

\* The server's word for a status, as BatchStatus: Anthropic's have fewer.  One
\* that is not known is a failure for OpenAI and progress for Anthropic.
Ends == [openai |-> {"completed", "failed", "expired"}, anthropic |-> {"ended"}]
Cancelled == [openai |-> "cancelled", anthropic |-> "ended"]
Unknown == [openai |-> "failed", anthropic |-> "in_progress"]
Parsed(t) == CASE batch[t].status = "ended" -> "completed"
               [] batch[t].status = "other" -> Unknown[processor[t]]
               [] batch[t].status \notin {"ended", "other"} -> batch[t].status

Fates == {"ok", "error"}

\* The statuses a server has for a batch; none while there is no batch.
Statuses == [openai    |-> {"none", "validating", "in_progress", "other", "cancelling", "completed",
                            "failed", "expired", "cancelled"},
             anthropic |-> {"none", "in_progress", "other", "cancelling", "ended"}]

BatchTypeOK ==
    /\ processor \in [BatchThreads -> Processors]
    /\ batch \in [BatchThreads -> [status : UNION {Statuses[p] : p \in Processors},
                                   fate : [CustomIds -> Fates]]]
    /\ polls \in [BatchThreads -> Nat]
    /\ info \in [BatchThreads -> UNION {Statuses[p] : p \in Processors}]
    /\ items \in [BatchThreads -> Seq([custom_id : CustomIds, got : Fates])]

BatchInit ==
    /\ processor \in [BatchThreads -> Processors]
    /\ batch = [t \in BatchThreads |-> [status |-> "none", fate |-> [i \in CustomIds |-> "ok"]]]
    /\ polls = [t \in BatchThreads |-> 0]
    /\ info = [t \in BatchThreads |-> "none"]
    /\ items = [t \in BatchThreads |-> <<>>]

\* The statuses a batch does not leave.
Settled(status) == status \in {"completed", "failed", "expired", "cancelled", "ended"}

(* The server *)

BatchGoesOn(t) == /\ batch[t].status \in {"validating", "in_progress"}
                  /\ \E s \in {"in_progress", "other"} : batch' = [batch EXCEPT ![t].status = s]
                  /\ UNCHANGED <<processor, polls, info, items>>

BatchCancels(t) == /\ batch[t].status \in {"validating", "in_progress", "other"}
                   /\ batch' = [batch EXCEPT ![t].status = "cancelling"]
                   /\ UNCHANGED <<processor, polls, info, items>>

BatchEnds(t) == /\ batch[t].status \in {"in_progress", "other", "cancelling"}
                /\ \E s \in IF batch[t].status = "cancelling" THEN {Cancelled[processor[t]]}
                            ELSE Ends[processor[t]] :
                   \E f \in [CustomIds -> Fates] :
                      batch' = [batch EXCEPT ![t] = [status |-> s, fate |-> f]]
                /\ UNCHANGED <<processor, polls, info, items>>

(* run_batch *)

Submit(t) == /\ batch' = [batch EXCEPT ![t].status =
                            IF processor[t] = "openai" THEN "validating" ELSE "in_progress"]
             /\ UNCHANGED <<processor, polls, info, items>>

\* A mistake: a batch that expired may still come to an end.
OverLate(status) == status \in {"completed", "failed", "cancelled"}

\* A mistake: a batch that is being cancelled counts as cancelled.
OverSoon(status) == status \in {"completed", "failed", "expired", "cancelled", "cancelling"}

\* The statuses that end the polling.
Over(status) == status \in {"completed", "failed", "expired", "cancelled"}

Poll(t) == /\ info' = [info EXCEPT ![t] = Parsed(t)]
           /\ polls' = [polls EXCEPT ![t] = IF Over(info'[t]) \/ max_polls = 0 THEN @ ELSE @ + 1]
           /\ UNCHANGED <<processor, batch, items>>

\* The requests in the file of results: OpenAI has one for errors apart.
Reported(t) == {i \in CustomIds : processor[t] = "anthropic" \/ batch[t].fate[i] = "ok"}

HasFile(t) == processor[t] = "anthropic" \/ Reported(t) # {}

\* The lines come in any order.
Fetch(t) == /\ \E s \in SetToSeqs(Reported(t)) :
                  items' = [items EXCEPT ![t] =
                      [n \in DOMAIN s |-> [custom_id |-> s[n], got |-> batch[t].fate[s[n]]]]]
            /\ UNCHANGED <<processor, batch, polls, info>>

\* What run_batch returned is the batch's final word: its status is one the
\* server does not leave, but for a failure that was only not understood, and a
\* completed batch alone has items, each of a request of its own, all that
\* succeeded among them.
FinalWord(t) ==
    /\ \/ Settled(batch[t].status) /\ info[t] = Parsed(t)
       \/ processor[t] = "openai" /\ info[t] = "failed"
    /\ info[t] # "completed" => items[t] = <<>>
    /\ info[t] = "completed" =>
          /\ \A n \in DOMAIN items[t] : items[t][n].got = batch[t].fate[items[t][n].custom_id]
          /\ \A n, k \in DOMAIN items[t] : items[t][n].custom_id = items[t][k].custom_id => n = k
          /\ \A i \in CustomIds : batch[t].fate[i] = "ok" =>
                \E n \in DOMAIN items[t] : items[t][n].custom_id = i
=============================================================================
