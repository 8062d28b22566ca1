--------------------------------- MODULE Memory ---------------------------------
(***************************************************************************)
(* Memory: records in files, by scope and id, the tools that write them,   *)
(* the retriever that embeds them and keeps the embeddings, and the writer *)
(* of checkpoints.  Contents are sequences of numbers, each of which is    *)
(* written once; an embedding is known by the content it is of.            *)
(***************************************************************************)
EXTENDS Integers, Sequences, FiniteSets, SequencesExt

CONSTANTS
    MemoryIds,  \* ids add() may give a record
    TaskIds,    \* ids models give tasks
    SaveScopes, \* scopes models save memories in
    Queries     \* who asks the retriever or writes a checkpoint

VARIABLES
    records,     \* the files
    written,     \* how often something was written
    logged,      \* what was logged of each task
    cached,      \* cached_records_
    embeddings,  \* cached_embeddings_
    listed,      \* the records each query has under way
    query        \* where it is

memoryVars == <<records, written, logged, cached, embeddings, listed, query>>

Record(id, scope, content) == [id |-> id, scope |-> scope, content |-> content]

Scopes == {"project", "checkpoint", "scratch", "task"}

ASSUME MemoryAssumption == SaveScopes \subseteq Scopes /\ MemoryIds \cap TaskIds = {}

MemoryInit(initially) ==
    /\ records = initially
    /\ written = 0
    /\ logged = [id \in TaskIds |-> <<>>]
    /\ cached = <<>>
    /\ embeddings = <<>>
    /\ listed = [q \in Queries |-> <<>>]
    /\ query = [q \in Queries |-> "none"]

\* list(): the order is the file system's.
Listed(scopes) == SetToSeqs({r \in records : r.scope \in scopes})

Scope(scope) == {r \in records : r.scope = scope}

UnusedIds == MemoryIds \ {r.id : r \in records}

WriteRecord(r) ==
    /\ records' = {s \in records : s.id # r.id \/ s.scope # r.scope} \cup {r}
    /\ written' = written + 1

-----------------------------------------------------------------------------
(* The tools *)

\* save_memory and add_note.
SaveMemory ==
    /\ \E id \in UnusedIds, scope \in SaveScopes : WriteRecord(Record(id, scope, <<written + 1>>))
    /\ UNCHANGED <<logged, cached, embeddings, listed, query>>

\* update_checkpoint and the checkpoint writer: the first checkpoint listed gets
\* a new content, or there is a new one.
WriteCheckpoint ==
    /\ \E ids \in IF Scope("checkpoint") = {} THEN UnusedIds
                  ELSE {r.id : r \in Scope("checkpoint")} :
          WriteRecord(Record(ids, "checkpoint", <<written + 1>>))
    /\ UNCHANGED logged

UpdateCheckpoint == WriteCheckpoint /\ UNCHANGED <<cached, embeddings, listed, query>>

\* log_task_progress: the entry follows those of the record get() finds, if that
\* is a task's.
LogProgress(id) ==
    LET existing == {r \in records : r.id = id}
    IN  /\ IF existing = {} THEN WriteRecord(Record(id, "task", <<written + 1>>))
           ELSE \E r \in existing :
                   WriteRecord(Record(id, "task",
                       IF r.scope = "task" THEN Append(r.content, written + 1) ELSE <<written + 1>>))
        /\ logged' = [logged EXCEPT ![id] = Append(@, written + 1)]
        /\ UNCHANGED <<cached, embeddings, listed, query>>

-----------------------------------------------------------------------------
(* EmbeddingRetriever::query *)

Ids(rs) == [i \in DOMAIN rs |-> rs[i].id]

\* A mistake: the records are kept before their embeddings have come.
AskKeepsEarly(q) ==
    /\ query[q] = "none"
    /\ \E rs \in Listed(Scopes) :
          IF Ids(rs) = Ids(cached)
          THEN /\ query' = [query EXCEPT ![q] = "scoring"]
               /\ UNCHANGED <<listed, cached>>
          ELSE /\ query' = [query EXCEPT ![q] = "embedding"]
               /\ listed' = [listed EXCEPT ![q] = rs]
               /\ cached' = rs
    /\ UNCHANGED <<records, written, logged, embeddings>>

\* The records are listed; with the ids that are cached there is nothing to embed.
AskRetriever(q) ==
    /\ query[q] = "none"
    /\ \E rs \in Listed(Scopes) :
          IF Ids(rs) = Ids(cached)
          THEN /\ query' = [query EXCEPT ![q] = "scoring"]
               /\ UNCHANGED listed
          ELSE /\ query' = [query EXCEPT ![q] = "embedding"]
               /\ listed' = [listed EXCEPT ![q] = rs]
    /\ UNCHANGED <<records, written, logged, cached, embeddings>>

\* embed_many comes back: what it was asked for and what it gave are kept.
EmbeddingsCome(q) ==
    /\ query[q] = "embedding"
    /\ cached' = listed[q]
    /\ embeddings' = [i \in DOMAIN listed[q] |-> listed[q][i].content]
    /\ listed' = [listed EXCEPT ![q] = <<>>]
    /\ query' = [query EXCEPT ![q] = "scoring"]
    /\ UNCHANGED <<records, written, logged>>

-----------------------------------------------------------------------------

\* Each cached record has the embedding of its own content, although queries
\* overlap and records are written while embeddings are under way.
EmbeddingsMatch == embeddings = [i \in DOMAIN cached |-> cached[i].content]

\* However checkpoints are written, there is one, unless a model saves its own.
OneCheckpoint == "checkpoint" \notin SaveScopes => Cardinality(Scope("checkpoint")) <= 1

\* A task's log has every entry, in order, unless a record of another scope has
\* its id.
LogsKept == \A id \in TaskIds :
    {r.scope : r \in {s \in records : s.id = id}} \subseteq {"task"} =>
        logged[id] = <<>> \/ Record(id, "task", logged[id]) \in records
=============================================================================
