---------------------------- MODULE ContextEviction ----------------------------
(***************************************************************************)
(* ContextStrategy::manage: how a session's history is made to fit the     *)
(* context window before the agent sees it.  SlidingWindowStrategy drops   *)
(* the oldest turn units; SummarizationStrategy cuts the history at a turn *)
(* boundary, has the older part summarised (an await) and falls back to    *)
(* dropping units when the rest still does not fit.                        *)
(*                                                                         *)
(* One action per iteration of the loops.  How many tokens a history has   *)
(* is the TokenCounter's business, an interface the user may implement.    *)
(***************************************************************************)
EXTENDS Integers, Sequences

CONSTANTS CallIds,         \* tool call ids
          Histories,       \* the histories a session can hand to manage
          Windows,         \* values of available_input_tokens()
          Tokens(_),       \* count_messages_tokens
          KeptTurns,       \* kept_turns
          Threshold,       \* compaction_threshold, in percent
          Target,          \* target_utilization, in percent
          MinOverhead      \* the least kSummaryOverhead

VARIABLES strategy,    \* the session's ContextStrategy
          given,       \* the argument of manage
          available,   \* available_input_tokens()
          at,          \* where manage is
          system,      \* system_count of the loop that runs
          cut,         \* kept_start: the first cut messages are not kept
          turnsKept,   \* turns_kept
          result       \* the prompt being built

\* SlidingWindowStrategy, and SummarizationStrategy with and without a
\* Summarizer.
Strategies == {"sliding", "summarizing", "unassisted"}

manageVars == <<strategy, given, available, at, system, cut, turnsKept, result>>

\* A mistake: two messages are protected.
ProtectedTwo == 2

\* The tail the eviction loop never touches.
ProtectedTail == 1

\* A message: the ids are those of an assistant's calls or a tool message's
\* results.
HistoryMessage == [role : {"system", "user", "assistant", "tool"}, ids : SUBSET CallIds]

\* The message a summary is put into.
Summary == [role |-> "system", ids |-> {}]

IsTool(m) == m.role = "tool"

\* n is count_leading_system(h).
SystemBlock(h, n) == /\ n \in 0..Len(h)
                     /\ \A i \in 1..n : h[i].role = "system"
                     /\ n < Len(h) => h[n + 1].role # "system"

\* A tool message carries a result for a call of message i.
Belongs(h, i, j) == IsTool(h[j]) /\ h[j].ids \cap h[i].ids # {}

\* A mistake: an assistant message goes without its tool messages.
UnitAlone(h, i, e) == e = i /\ i <= Len(h)

\* The turn unit that starts with message i ends with message e: an assistant
\* message takes the tool messages after it along, any other stands alone.
UnitEnd(h, i, e) ==
    /\ e \in i..Len(h)
    /\ h[i].role # "assistant" => e = i
    /\ \A j \in (i + 1)..e : Belongs(h, i, j)
    /\ h[i].role = "assistant" /\ e < Len(h) => ~Belongs(h, i, e + 1)

\* A percentage of the window, truncated towards zero as static_cast does.
Share(percent) == IF available >= 0 THEN (available * percent) \div 100
                  ELSE -((-available * percent) \div 100)

SummaryOverhead == IF Share(2) > MinOverhead THEN Share(2) ELSE MinOverhead

From(h, n) == SubSeq(h, n + 1, Len(h))

\* What is left of h when the messages after the first n and up to e go.
Without(h, n, e) == SubSeq(h, 1, n) \o From(h, e)

ManageInit == /\ strategy \in Strategies
              /\ given \in Histories
              /\ available \in Windows
              /\ at = "start"
              /\ system = 0
              /\ cut = Len(given)
              /\ turnsKept = 0
              /\ result = <<>>

-----------------------------------------------------------------------------
(* SlidingWindowStrategy *)

Slide == /\ at = "start"
         /\ strategy = "sliding"
         /\ result' = given
         /\ at' = IF Tokens(given) <= available THEN "done" ELSE "fit"
         /\ UNCHANGED <<strategy, given, available, system, cut, turnsKept>>

-----------------------------------------------------------------------------
(* SummarizationStrategy *)

\* Below the threshold nothing is compacted.
Summarize == /\ at = "start"
             /\ strategy # "sliding"
             /\ \/ /\ Tokens(given) <= Share(Threshold)
                   /\ result' = given
                   /\ at' = "done"
                   /\ UNCHANGED system
                \/ /\ Tokens(given) > Share(Threshold)
                   /\ \E n \in 0..Len(given) : SystemBlock(given, n) /\ system' = n
                   /\ at' = "walk"
                   /\ UNCHANGED result
             /\ UNCHANGED <<strategy, given, available, cut, turnsKept>>

\* A mistake: the walk stops at the first tool message.
WalkBackOne == /\ at = "walk"
               /\ cut > system
               /\ turnsKept < KeptTurns
               /\ cut' = cut - 1
               /\ turnsKept' = turnsKept + 1
               /\ UNCHANGED <<strategy, given, available, at, system, result>>

\* The walk from the end, one turn unit back: over a run of tool messages to
\* the message before it, else over a single message.
WalkBack == /\ at = "walk"
            /\ cut > system
            /\ turnsKept < KeptTurns
            /\ IF IsTool(given[cut])
               THEN \E u \in system..(cut - 1) :
                       /\ \A j \in (u + 1)..cut : IsTool(given[j])
                       /\ u > system => ~IsTool(given[u])
                       /\ cut' = IF u > system THEN u - 1 ELSE u
               ELSE cut' = cut - 1
            /\ turnsKept' = turnsKept + 1
            /\ UNCHANGED <<strategy, given, available, at, system, result>>

WalkEnds == /\ at = "walk"
            /\ cut <= system \/ turnsKept >= KeptTurns
            /\ at' = "extra"
            /\ UNCHANGED <<strategy, given, available, system, cut, turnsKept, result>>

\* The unit at the cut, which goes as well when what remains fits the target.
DropsExtra(e) == /\ cut < Len(given)
                 /\ UnitEnd(given, cut + 1, e)
                 /\ e < Len(given)
                 /\ Tokens(Without(given, system, e)) + SummaryOverhead
                        <= Share(Target)

DropExtra == /\ at = "extra"
             /\ \E e \in 1..Len(given) : DropsExtra(e) /\ cut' = e
             /\ UNCHANGED <<strategy, given, available, at, system, turnsKept, result>>

ExtraEnds == /\ at = "extra"
             /\ ~\E e \in 1..Len(given) : DropsExtra(e)
             /\ at' = "cut"
             /\ UNCHANGED <<strategy, given, available, system, cut, turnsKept, result>>

\* Nothing to summarise: the prompt is put together as it was.
NothingEvicted == /\ at = "cut"
                  /\ cut = system
                  /\ result' = Without(given, system, cut)
                  /\ at' = IF Tokens(result') > available THEN "fit" ELSE "done"
                  /\ UNCHANGED <<strategy, given, available, system, cut, turnsKept>>

\* Nobody to summarise: the older part is dropped.
NoSummarizer == /\ at = "cut"
                /\ cut > system
                /\ strategy = "unassisted"
                /\ result' = Without(given, system, cut)
                /\ at' = "fit"
                /\ UNCHANGED <<strategy, given, available, system, cut, turnsKept>>

\* The summarizer is awaited: it may throw, or return an empty summary.
SummarizerReturns ==
    /\ at = "cut"
    /\ cut > system
    /\ strategy = "summarizing"
    /\ \E summary \in {<<>>, <<Summary>>} :
          result' = SubSeq(given, 1, system) \o summary \o From(given, cut)
    /\ at' = IF Tokens(result') > available THEN "fit" ELSE "done"
    /\ UNCHANGED <<strategy, given, available, system, cut, turnsKept>>

SummarizerThrows == /\ at = "cut"
                    /\ cut > system
                    /\ strategy = "summarizing"
                    /\ at' = "failed"
                    /\ UNCHANGED <<strategy, given, available, system, cut, turnsKept, result>>

-----------------------------------------------------------------------------
(* evict_turns_from_front *)

\* It counts the leading system messages once, those of the new prompt.
EnterEviction == /\ at = "fit"
                 /\ IF available <= 0
                    THEN at' = "done" /\ UNCHANGED system
                    ELSE /\ at' = "evict"
                         /\ \E n \in 0..Len(result) : SystemBlock(result, n) /\ system' = n
                 /\ UNCHANGED <<strategy, given, available, cut, turnsKept, result>>

\* The messages before this index may go.
ProtectedStart == IF Len(result) - ProtectedTail > system
                  THEN Len(result) - ProtectedTail ELSE system

\* The oldest unit, when the prompt does not fit and the unit does not reach
\* into the protected tail.
Evicts(e) == /\ Tokens(result) > available
             /\ system < ProtectedStart
             /\ UnitEnd(result, system + 1, e)
             /\ e <= ProtectedStart

\* A mistake: the eviction starts with the first message.
EvictFirst == /\ at = "evict"
              /\ \E e \in 1..Len(result) :
                     Evicts(e) /\ result' = Without(result, 0, e)
              /\ UNCHANGED <<strategy, given, available, at, system, cut, turnsKept>>

\* A mistake: the loop forgets to erase.
EvictNothing == /\ at = "evict"
                /\ \E e \in 1..Len(result) : Evicts(e)
                /\ UNCHANGED manageVars

EvictUnit == /\ at = "evict"
             /\ \E e \in 1..Len(result) :
                    Evicts(e) /\ result' = Without(result, system, e)
             /\ UNCHANGED <<strategy, given, available, at, system, cut, turnsKept>>

EvictionEnds == /\ at = "evict"
                /\ ~\E e \in 1..Len(result) : Evicts(e)
                /\ at' = "done"
                /\ UNCHANGED <<strategy, given, available, system, cut, turnsKept, result>>

Terminated == at \in {"done", "failed"} /\ UNCHANGED manageVars

Work == \/ Slide \/ Summarize \/ WalkBack \/ WalkEnds \/ DropExtra \/ ExtraEnds
        \/ NothingEvicted \/ NoSummarizer \/ SummarizerReturns \/ SummarizerThrows
        \/ EnterEviction \/ EvictUnit \/ EvictionEnds

ManageNext == Work \/ Terminated

ManageSpec == ManageInit /\ [][ManageNext]_manageVars

\* The coroutine runs on, and the summarizer comes back.
ManageFairSpec == ManageSpec /\ WF_manageVars(Work)

-----------------------------------------------------------------------------
(* Properties *)

\* Message j is the assistant's that tool message i answers.
Answers(h, i, j) == /\ j < i
                    /\ h[j].role = "assistant"
                    /\ \A m \in (j + 1)..i : IsTool(h[m])
                    /\ h[i].ids \subseteq h[j].ids

\* Every tool message answers calls of the assistant message its run follows,
\* and every call of an assistant message is answered there.
WellPaired(h) ==
    /\ \A i \in 1..Len(h) : IsTool(h[i]) =>
          h[i].ids # {} /\ \E j \in 1..Len(h) : Answers(h, i, j)
    /\ \A j \in 1..Len(h) : h[j].role = "assistant" =>
          \A id \in h[j].ids : \E i \in 1..Len(h) : Answers(h, i, j) /\ id \in h[i].ids

\* The tool messages after the first c messages all answer later ones.
Clean(h, c) == \A i \in (c + 1)..Len(h) : IsTool(h[i]) =>
                   \E j \in (c + 1)..Len(h) : Answers(h, i, j)

\* What the proofs need of the instances: well-formed histories, as the agent
\* loops leave them (ToolConversation!NoOrphans).
ASSUME EvictionAssumption ==
    /\ Histories \subseteq Seq(HistoryMessage)
    /\ \A h \in Histories : WellPaired(h)
    /\ Windows \subseteq Int
    /\ KeptTurns \in Nat

\* Where manage is, in terms of pairs: the cut is always at the start of a turn
\* unit, whichever loop has moved it, and so is the front of the evicted prompt.
EvictionInv ==
    /\ strategy \in Strategies
    /\ given \in Seq(HistoryMessage) /\ WellPaired(given)
    /\ at \in {"start", "walk", "extra", "cut", "fit", "evict", "done", "failed"}
    /\ result \in Seq(HistoryMessage)
    /\ system \in Nat /\ cut \in Nat
    /\ at = "start" => cut = Len(given)
    /\ at \in {"walk", "extra", "cut"} =>
          /\ system <= cut /\ cut <= Len(given)
          /\ \A i \in 1..system : given[i].role = "system"
          /\ Clean(given, cut)
    /\ at \in {"fit", "evict", "done"} => WellPaired(result)
    /\ at = "evict" => /\ system <= Len(result)
                       /\ \A i \in 1..system : result[i].role = "system"

\* "Implementations must never orphan a tool_use from its tool_result": the
\* prompt manage returns is as well-formed as the history it was given,
\* wherever the walk, the extra cut and the eviction happened to stop.
PairsKept == at = "done" => WellPaired(result)

\* What manage returns is the history's system block, at most one new summary
\* and a run of messages up to the last one, which is never dropped: the model
\* sees what the user just asked.
KeepsEnds == at = "done" =>
    \E n \in 0..Len(given), c \in 0..Len(given), s \in {<<>>, <<Summary>>} :
        /\ SystemBlock(given, n)
        /\ n <= c /\ (c < Len(given) \/ n = c)
        /\ result = SubSeq(given, 1, n) \o s \o From(given, c)

\* Within a positive window a result that does not fit cannot shrink: after
\* the system block there is only a unit that takes in the last message.
FitsOrCannot == at = "done" /\ available > 0 /\ Tokens(result) > available =>
    \A n \in 0..Len(result) : SystemBlock(result, n) /\ n < Len(result) =>
        UnitEnd(result, n + 1, Len(result))

\* manage returns or throws: each loop makes progress.
ManageEnds == <>(at \in {"done", "failed"})
=============================================================================
