----------------------------- MODULE CodingSession -----------------------------
(***************************************************************************)
(* CodingSession: a session with what a coding agent puts around it.  Its  *)
(* strategy puts what the memory knows into the prompt, its tools and its  *)
(* hook write memories, and its owner saves it and, when the process is    *)
(* gone, goes on with what was saved.                                      *)
(***************************************************************************)
EXTENDS Session, SessionStore, Memory

CONSTANTS
    Kinds,       \* what is around the session: of "nothing", "store", "memory"
    Left,        \* Left[k]: bound: operations of a session of kind k
    Terse,       \* bound: kinds whose turns are an answer and nothing else
    MaxWrites,   \* bound: what tools write
    MaxRestarts, \* bound
    EveryTurns   \* every_n_turns

ASSUME CodingSessionAssumption ==
    /\ Kinds \subseteq {"nothing", "store", "memory"}
    /\ Left \in [Kinds -> 0..MaxOps]
    /\ Terse \subseteq Kinds
    /\ MaxWrites \in Nat /\ MaxRestarts \in Nat /\ EveryTurns \in Nat \ {0}
    /\ Queries = Turns

VARIABLES
    kind,      \* what is around this session
    found,     \* what each turn's strategy found for its block
    restarts   \* how often the process died

codingVars == <<kind, found, restarts>>
allVars == <<vars, storeVars, memoryVars, codingVars>>

CodingInit ==
    /\ kind \in Kinds
    /\ InitWith(MaxOps - Left[kind])
    /\ StoreInit
    /\ \E initially \in {{}} \cup {{Record(id, "project", <<0>>)} : id \in MemoryIds} :
          /\ initially # {} => kind = "memory"
          /\ MemoryInit(initially)
    /\ found = [t \in Turns |-> "nothing"]
    /\ restarts = 0

\* Nothing else happens in a process that is in the middle of save().
Runs == saving = <<>>

-----------------------------------------------------------------------------
(* What the strategy puts into the prompt *)

\* manage() looks for project records, a checkpoint and words of the question:
\* the first two it takes, the last may be in any record.
Finds == IF Scope("project") \cup Scope("checkpoint") # {} THEN "block"
         ELSE IF records # {} THEN "words" ELSE "nothing"

Ask(t) == /\ pc[t] = "managing"
          /\ AskRetriever(t)
          /\ found' = [found EXCEPT ![t] = Finds]
          /\ UNCHANGED <<vars, storeVars, kind, restarts>>

Embed(t) == /\ pc[t] = "managing"
            /\ EmbeddingsCome(t)
            /\ UNCHANGED <<vars, storeVars, codingVars>>

\* Whether there is a block: with embeddings any cached record may be a hit.
Blocks(f, hits) == CASE f = "block" -> {TRUE}
                     [] f = "words" -> BOOLEAN
                     [] f = "nothing" -> {FALSE, hits}

\* It stands behind the leading system messages.
PutBlock(t, has) ==
    \E n \in 0..Len(managed[t]) :
        /\ Leading(managed[t], n)
        /\ managed' = [managed EXCEPT ![t] =
              IF has THEN SubSeq(@, 1, n) \o <<Msg("memory", 0)>> \o SubSeq(@, n + 1, Len(@)) ELSE @]

\* The question's own embedding has come, or there is no model to embed with and
\* the words were all.
Inject(t) ==
    /\ pc[t] = "managing"
    /\ \/ /\ query[t] = "scoring"
          /\ \E has \in Blocks(found[t], cached # <<>>) : PutBlock(t, has)
       \/ /\ query[t] = "none"
          /\ \E has \in Blocks(Finds, FALSE) : PutBlock(t, has)
    /\ query' = [query EXCEPT ![t] = "done"]
    /\ UNCHANGED <<overlap, history, pc, mode, turns, ops, storeVars, codingVars>>
    /\ UNCHANGED <<records, written, logged, cached, embeddings, listed>>

Remember(t) == Ask(t) \/ Embed(t) \/ Inject(t)

-----------------------------------------------------------------------------
(* A turn of the session *)

TurnGoesOn(t) ==
    /\ \/ \E m \in {"send", "stream"} : Begin(t, m)
       \/ ManageReturns(t) /\ (kind = "memory" => query[t] = "done")
       \/ StreamOpens(t)
    /\ UNCHANGED <<storeVars, memoryVars, codingVars>>

TurnThrows(t) == /\ Throws(t)
                 /\ query' = [query EXCEPT ![t] = "done"]
                 /\ listed' = [listed EXCEPT ![t] = <<>>]
                 /\ UNCHANGED <<records, written, logged, cached, embeddings, storeVars, codingVars>>

\* A turn's tools write memories while the agent is at work.
ToolWrites(t) ==
    /\ kind = "memory"
    /\ (pc[t] = "calling" /\ mode[t] = "send") \/ pc[t] = "draining"
    /\ written < MaxWrites
    /\ SaveMemory \/ UpdateCheckpoint \/ \E id \in TaskIds : LogProgress(id)
    /\ UNCHANGED <<overlap, history, pc, mode, managed, turns, ops, storeVars, codingVars>>

Answered(t) == /\ history' # <<>> /\ Last(history') = Msg("assistant", t)
               /\ \A i \in DOMAIN history' : history'[i] # Msg("results", t)

\* The hook looks whether a checkpoint is due and waits for its summary.
TurnFinishes(t) ==
    /\ AgentReturns(t) \/ StreamEnds(t)
    /\ kind \in Terse => Answered(t)
    /\ query' = [query EXCEPT ![t] = IF kind = "memory" /\ turns' % EveryTurns = 0
                                     THEN "summarizing" ELSE "done"]
    /\ UNCHANGED <<records, written, logged, cached, embeddings, listed, storeVars, codingVars>>

\* The summary has come and is written, or there is none.
HookReturns(t) ==
    /\ HookEnds(t)
    /\ query' = [query EXCEPT ![t] = "done"]
    /\ \/ query[t] = "summarizing" /\ WriteCheckpoint
       \/ UNCHANGED <<records, written, logged>>
    /\ UNCHANGED <<cached, embeddings, listed, storeVars, codingVars>>

ByHand == /\ SetSystem \/ AddMessage
          /\ UNCHANGED <<storeVars, memoryVars, codingVars>>

-----------------------------------------------------------------------------
(* Saving and going on *)

\* The turns of the session's history, also those it has forgotten.
Begun == {t \in Turns : pc[t] \notin {"idle", "lost"}}

Save == /\ kind = "store"
        /\ ops < MaxOps
        /\ ops' = ops + 1
        /\ Truncate([history |-> history, turns |-> turns, begun |-> Begun]) \/ CannotSave
        /\ UNCHANGED <<overlap, history, pc, mode, managed, turns, memoryVars, codingVars>>

SaveReturns == WriteFile /\ UNCHANGED <<vars, memoryVars, codingVars>>

\* The process dies, whatever it was doing; another loads the session, or has a
\* new one if there is none to load.
Restart ==
    /\ kind = "store"
    /\ restarts < MaxRestarts
    /\ restarts' = restarts + 1
    /\ LET saved == IF file = <<>> THEN [history |-> <<>>, turns |-> 0, begun |-> {}] ELSE file[1]
       IN  /\ history' = saved.history
           /\ turns' = saved.turns
           /\ pc' = [t \in Turns |-> IF t \in Begun
                                    THEN IF t \notin saved.begun THEN "lost"
                                         ELSE IF Over(t) THEN pc[t] ELSE "failed"
                                    ELSE pc[t]]
    /\ managed' = [t \in Turns |-> <<>>]
    /\ saving' = <<>>
    /\ UNCHANGED <<overlap, mode, ops, file, memoryVars, kind, found>>

Ends == Runs /\ AllOver /\ UNCHANGED allVars

CodingNext == \/ /\ Runs
                 /\ \/ \E t \in Turns : \/ TurnGoesOn(t) \/ TurnThrows(t) \/ ToolWrites(t)
                                         \/ TurnFinishes(t) \/ HookReturns(t)
                    \/ ByHand
                    \/ Save
              \/ Runs /\ kind = "memory" /\ \E t \in Turns : Remember(t)
              \/ SaveReturns
              \/ Restart
              \/ Ends

CodingSpec == CodingInit /\ [][CodingNext]_allVars

-----------------------------------------------------------------------------
(* Properties *)

\* What is saved can be gone on with: its calls and results are together.
SavedPaired(f) == f # <<>> => /\ f[1].history \in Seq(Message)
                              /\ Paired(f[1].history)
                              /\ f[1].turns \in Nat

\* The session, through every save and restart.
CodingInv == SessionInv /\ SavedPaired(file) /\ SavedPaired(saving)

\* What the retriever, the tools and the checkpoint writers of overlapping turns
\* make of the memory together.
MemoryInv == EmbeddingsMatch /\ OneCheckpoint /\ LogsKept
=============================================================================
