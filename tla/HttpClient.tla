------------------------------ MODULE HttpClient ------------------------------
(***************************************************************************)
(* HttpClient: calls that share a pool of keep-alive connections to one    *)
(* host.  A plain call (get, post_json, post_multipart) reads its whole    *)
(* response on a thread of its own; a streaming call runs on one of the    *)
(* Workers threads of worker_pool, hands the headers over a promise and    *)
(* the body, chunk by chunk, over a StreamChannel that its caller pops.    *)
(*                                                                         *)
(* A connection is named after the call it was opened for.  A body comes   *)
(* in numbered pieces: a chunk is the number of its last piece, and holds  *)
(* those behind the chunk before it up to that one.                        *)
(***************************************************************************)
EXTENDS Integers, Sequences, FiniteSets

CONSTANTS PlainCalls,   \* calls through get, post_json and post_multipart
          StreamCalls,  \* calls through post_streaming
          Workers,      \* thread_pool_size
          MaxPerHost,   \* max_connections_per_host
          MaxSize,      \* bound: pieces of a body
          NoConn        \* no connection

Calls == PlainCalls \cup StreamCalls

ASSUME HttpAssumption == /\ PlainCalls \cap StreamCalls = {}
                         /\ Workers \in Nat \ {0}
                         /\ MaxPerHost \in Nat
                         /\ MaxSize \in Nat
                         /\ NoConn \notin Calls

VARIABLES work,      \* where the thread of each call is
          conn,      \* the connection it holds
          pool,      \* the host's idle connections, the oldest first
          up,        \* connections whose socket is open on this side
          clean,     \* connections whose last response was read to its end
          answer,    \* the future: headers, response or exception
          size,      \* pieces the server has for the body
          read,      \* pieces the worker has read of it
          chunks,    \* the channel's queue
          closed,    \* the channel's end: finished, and by what
          taken,     \* pieces the caller has popped
          caller,    \* where the calling coroutine is
          cancelled  \* calls whose token is cancelled

vars == <<work, conn, pool, up, clean, size, read, answer, chunks, closed, taken,
          caller, cancelled>>

Init == /\ work = [c \in Calls |-> "idle"]
        /\ conn = [c \in Calls |-> NoConn]
        /\ pool = <<>>
        /\ up = {}
        /\ clean = {}
        /\ answer = [c \in Calls |-> "pending"]
        /\ size = [c \in Calls |-> 0]
        /\ read = [c \in Calls |-> 0]
        /\ chunks = [c \in Calls |-> <<>>]
        /\ closed = [c \in Calls |-> "open"]
        /\ taken = [c \in Calls |-> 0]
        /\ caller = [c \in Calls |-> "idle"]
        /\ cancelled \in SUBSET Calls

At(c, where) == work[c] = where
Goes(c, where) == work' = [work EXCEPT ![c] = where]
Proceeds(c, where) == caller' = [caller EXCEPT ![c] = where]

\* The worker lets go of the connection without returning it.
Lets(c) == conn' = [conn EXCEPT ![c] = NoConn]

\* The end of a call that throws: the exception goes to the promise, or, once
\* the headers are delivered, to the channel.
Raise(c) == /\ Goes(c, "over")
            /\ Lets(c)
            /\ IF answer[c] = "pending"
               THEN /\ answer' = [answer EXCEPT ![c] = "thrown"]
                    /\ UNCHANGED closed
               ELSE /\ closed' = [closed EXCEPT ![c] = "thrown"]
                    /\ UNCHANGED answer

-----------------------------------------------------------------------------
(* The pool *)

\* The entries that can be used: neither idle for longer than idle_timeout, as
\* the oldest ones are, nor closed.
Usable(expired) == {i \in DOMAIN pool : i > expired /\ pool[i] \in up}

IsFirst(i, places) == i \in places /\ \A j \in places : i <= j

\* A mistake: the connection handed out stays in the pool.
AcquireShares(c) ==
    /\ At(c, "acquire")
    /\ \E expired \in 0..Len(pool) :
          \/ \E i \in DOMAIN pool :
                /\ IsFirst(i, Usable(expired))
                /\ conn' = [conn EXCEPT ![c] = pool[i]]
                /\ pool' = SubSeq(pool, i, Len(pool))
          \/ /\ Usable(expired) = {}
             /\ conn' = [conn EXCEPT ![c] = c]
             /\ pool' = <<>>
    /\ Goes(c, "connect")
    /\ UNCHANGED <<up, clean, size, read, answer, chunks, closed, taken, caller, cancelled>>

\* pool.acquire: the first usable connection, with those before it dropped, or
\* a new one.
Acquire(c) ==
    /\ At(c, "acquire")
    /\ \E expired \in 0..Len(pool) :
          \/ \E i \in DOMAIN pool :
                /\ IsFirst(i, Usable(expired))
                /\ conn' = [conn EXCEPT ![c] = pool[i]]
                /\ pool' = SubSeq(pool, i + 1, Len(pool))
          \/ /\ Usable(expired) = {}
             /\ conn' = [conn EXCEPT ![c] = c]
             /\ pool' = <<>>
    /\ Goes(c, "connect")
    /\ UNCHANGED <<up, clean, size, read, answer, chunks, closed, taken, caller, cancelled>>

\* pool.release: an open connection is kept unless the host has its share.  A
\* plain call returns its response, of whatever status, right after.
Release(c) ==
    /\ At(c, "release")
    /\ pool' = IF conn[c] \in up /\ Len(pool) < MaxPerHost
               THEN Append(pool, conn[c]) ELSE pool
    /\ Lets(c)
    /\ Goes(c, "over")
    /\ IF c \in PlainCalls
       THEN \E a \in {"head", "bad"} : answer' = [answer EXCEPT ![c] = a]
       ELSE UNCHANGED answer
    /\ UNCHANGED <<up, clean, size, read, chunks, closed, taken, caller, cancelled>>

\* evict_expired, which an application may call at any time.
EvictExpired ==
    /\ pool # <<>>
    /\ \E expired \in 1..Len(pool) : pool' = SubSeq(pool, expired + 1, Len(pool))
    /\ UNCHANGED <<work, conn, up, clean, size, read, answer, chunks, closed, taken,
                   caller, cancelled>>

-----------------------------------------------------------------------------
(* The thread of a call *)

Busy == {c \in StreamCalls : ~(work[c] \in {"idle", "queued", "over"})}

\* A thread of worker_pool takes the call up.
Dequeue(c) ==
    /\ At(c, "queued")
    /\ Cardinality(Busy) < Workers
    /\ Goes(c, "acquire")
    /\ UNCHANGED <<conn, pool, up, clean, size, read, answer, chunks, closed, taken,
                   caller, cancelled>>

\* ensure_connected and, behind it, the first look at the token.
Connect(c) ==
    /\ At(c, "connect")
    /\ \/ /\ up' = up \cup {conn[c]}
          /\ IF c \in cancelled THEN Raise(c)
             ELSE Goes(c, "write") /\ UNCHANGED <<conn, answer, closed>>
       \/ conn[c] \notin up /\ Raise(c) /\ UNCHANGED up
    /\ UNCHANGED <<pool, clean, size, read, chunks, taken, caller, cancelled>>

\* The request is written, and the token looked at again.
Write(c) ==
    /\ At(c, "write")
    /\ clean' = clean \ {conn[c]}
    /\ \/ /\ c \notin cancelled
          /\ Goes(c, IF c \in PlainCalls THEN "response" ELSE "header")
          /\ UNCHANGED <<conn, answer, closed>>
       \/ Raise(c)
    /\ UNCHANGED <<pool, up, size, read, chunks, taken, caller, cancelled>>

\* do_request and do_get_request read the response in one go, or throw.
ReadResponse(c) ==
    /\ At(c, "response")
    /\ \/ /\ clean' = clean \cup {conn[c]}
          /\ Goes(c, "release")
          /\ UNCHANGED <<conn, answer, closed>>
       \/ Raise(c) /\ UNCHANGED clean
    /\ UNCHANGED <<pool, up, size, read, chunks, taken, caller, cancelled>>

\* read_header, and what it read given to the awaiting coroutine.
ReadHeader(c, n) ==
    /\ At(c, "header")
    /\ \/ \E a \in {"head", "bad"} :
             /\ answer' = [answer EXCEPT ![c] = a]
             /\ Goes(c, IF a = "head" THEN "body" ELSE "error")
             /\ size' = [size EXCEPT ![c] = n]
             /\ UNCHANGED <<conn, closed>>
       \/ Raise(c) /\ UNCHANGED size
    /\ UNCHANGED <<pool, up, clean, read, chunks, taken, caller, cancelled>>

\* A read of the body fails: on a timeout the socket is closed, on a reset it
\* stays open.  The channel is told, and the connection is released.
ReadFails(c) ==
    /\ work[c] \in {"reading", "error"}
    /\ closed' = [closed EXCEPT ![c] = "failed"]
    /\ up' \in {up, up \ {conn[c]}}
    /\ Goes(c, "release")
    /\ UNCHANGED <<conn, pool, clean, size, read, answer, chunks, taken, caller, cancelled>>

\* The body of a response with an error status is read whole, then reported:
\* retryable (408, 429, 5xx) or not.
ErrorBodyEnds(c) ==
    /\ At(c, "error")
    /\ \E e \in {"retryable", "refused"} : closed' = [closed EXCEPT ![c] = e]
    /\ clean' = clean \cup {conn[c]}
    /\ Goes(c, "release")
    /\ UNCHANGED <<conn, pool, up, size, read, answer, chunks, taken, caller, cancelled>>

\* The token is looked at before each read, which may then take its time.
BeforeRead(c) ==
    /\ At(c, "body")
    /\ IF c \in cancelled THEN Raise(c)
       ELSE Goes(c, "reading") /\ UNCHANGED <<conn, answer, closed>>
    /\ UNCHANGED <<pool, up, clean, size, read, chunks, taken, caller, cancelled>>

\* One read of the body, up to piece n: a chunk for the channel.
ReadChunk(c, n) ==
    /\ At(c, "reading")
    /\ n \in (read[c] + 1)..size[c]
    /\ read' = [read EXCEPT ![c] = n]
    /\ chunks' = [chunks EXCEPT ![c] = Append(@, n)]
    /\ Goes(c, "body")
    /\ UNCHANGED <<conn, pool, up, clean, size, answer, closed, taken, caller, cancelled>>

\* The parser is done, with the last piece or by a read that finds no more.
BodyEnds(c) ==
    /\ work[c] \in {"body", "reading"}
    /\ read[c] = size[c]
    /\ closed' = [closed EXCEPT ![c] = "finished"]
    /\ clean' = clean \cup {conn[c]}
    /\ Goes(c, "release")
    /\ UNCHANGED <<conn, pool, up, size, read, answer, chunks, taken, caller, cancelled>>

-----------------------------------------------------------------------------
(* The calling coroutine *)

\* post_streaming posts the work, the others start a thread; both await.
Submit(c) ==
    /\ caller[c] = "idle"
    /\ Proceeds(c, "waiting")
    /\ Goes(c, IF c \in StreamCalls THEN "queued" ELSE "acquire")
    /\ UNCHANGED <<conn, pool, up, clean, size, read, answer, chunks, closed, taken, cancelled>>

\* The future is ready.  A plain call of an error status ends in
\* default_error_handler; a streaming one always gets its generator.
Answered(c) ==
    /\ caller[c] = "waiting"
    /\ answer[c] # "pending"
    /\ Proceeds(c, IF answer[c] = "thrown" THEN "thrown"
                   ELSE IF c \in StreamCalls THEN "streaming"
                   ELSE IF answer[c] = "bad" THEN "thrown" ELSE "complete")
    /\ UNCHANGED <<work, conn, pool, up, clean, size, read, answer, chunks, closed, taken,
                   cancelled>>

\* pop() with an error set: it throws, whatever is queued.
PopThrows(c) ==
    /\ caller[c] = "streaming"
    /\ closed[c] \notin {"open", "finished"}
    /\ Proceeds(c, "thrown")
    /\ UNCHANGED <<work, conn, pool, up, clean, size, read, answer, chunks, closed, taken,
                   cancelled>>

\* pop() of a finished channel that is empty: the generator ends.
PopEnds(c) ==
    /\ caller[c] = "streaming"
    /\ closed[c] = "finished"
    /\ chunks[c] = <<>>
    /\ Proceeds(c, "complete")
    /\ UNCHANGED <<work, conn, pool, up, clean, size, read, answer, chunks, closed, taken,
                   cancelled>>

\* pop() takes the oldest chunk.
PopChunk(c) ==
    /\ caller[c] = "streaming"
    /\ closed[c] \in {"open", "finished"}
    /\ chunks[c] # <<>>
    /\ taken' = [taken EXCEPT ![c] = Head(chunks[c])]
    /\ chunks' = [chunks EXCEPT ![c] = Tail(@)]
    /\ UNCHANGED <<work, conn, pool, up, clean, size, read, answer, closed, caller, cancelled>>

\* Whoever holds the source of the token that the calls of S were given
\* cancels it.
Cancel(S) ==
    /\ cancelled' = cancelled \cup S
    /\ UNCHANGED <<work, conn, pool, up, clean, size, read, answer, chunks, closed, taken,
                   caller>>

-----------------------------------------------------------------------------

Thread(c) == \/ Dequeue(c)
             \/ Acquire(c)
             \/ Connect(c)
             \/ Write(c)
             \/ ReadResponse(c)
             \/ \E n \in 0..MaxSize : ReadHeader(c, n)
             \/ \E n \in 1..MaxSize : ReadChunk(c, n)
             \/ ReadFails(c)
             \/ ErrorBodyEnds(c)
             \/ BeforeRead(c)
             \/ BodyEnds(c)
             \/ Release(c)

Caller(c) == Submit(c) \/ Answered(c) \/ PopThrows(c) \/ PopEnds(c) \/ PopChunk(c)

Next == \/ \E c \in Calls : Thread(c) \/ Caller(c)
        \/ \E S \in SUBSET Calls : Cancel(S)
        \/ EvictExpired

Spec == Init /\ [][Next]_vars

-----------------------------------------------------------------------------
(* Properties *)

Working == {"connect", "write", "response", "header", "body", "reading", "error",
            "release"}

TypeOK == /\ work \in [Calls -> Working \cup {"idle", "queued", "acquire", "over"}]
          /\ conn \in [Calls -> Calls \cup {NoConn}]
          /\ pool \in Seq(Calls)
          /\ up \in SUBSET Calls
          /\ clean \in SUBSET Calls
          /\ answer \in [Calls -> {"pending", "head", "bad", "thrown"}]
          /\ size \in [Calls -> Nat]
          /\ read \in [Calls -> Nat]
          /\ chunks \in [Calls -> Seq(Nat)]
          /\ closed \in [Calls -> {"open", "finished", "failed", "retryable", "refused",
                                   "thrown"}]
          /\ taken \in [Calls -> Nat]
          /\ caller \in [Calls -> {"idle", "waiting", "streaming", "complete", "thrown"}]
          /\ cancelled \in SUBSET Calls

Pooled == {pool[i] : i \in DOMAIN pool}

\* A call holds a connection while, and only while, its thread is at work.
HoldsAtWork == \A c \in Calls : conn[c] # NoConn <=> work[c] \in Working

\* However calls race for the pool, a connection is in one place at most: in
\* the hands of one call or once in the pool, so that two requests are never
\* written to one socket.
OneHolder == /\ \A b, c \in Calls : b # c /\ conn[b] # NoConn => conn[b] # conn[c]
             /\ \A c \in Calls : conn[c] \notin Pooled
             /\ \A i, j \in DOMAIN pool : i # j => pool[i] # pool[j]

\* A connection named after a call exists only once that call has acquired.
NamedOnce == \A c \in Calls : work[c] \in {"idle", "queued", "acquire"} =>
    c \notin Pooled /\ \A b \in Calls : conn[b] # c

PoolBounded == Len(pool) <= MaxPerHost

PooledOpen == Pooled \subseteq up

PoolInv == /\ TypeOK
           /\ HoldsAtWork
           /\ OneHolder
           /\ NamedOnce
           /\ PoolBounded
           /\ PooledOpen

\* The channel holds what was read and not taken, oldest first.
ChannelInOrder == \A c \in Calls :
    /\ taken[c] <= read[c] /\ read[c] <= size[c]
    /\ \A i \in DOMAIN chunks[c] : chunks[c][i] \in (taken[c] + 1)..read[c]
    /\ \A i, j \in DOMAIN chunks[c] : i < j => chunks[c][i] < chunks[c][j]
    /\ chunks[c] = <<>> => taken[c] = read[c]
    /\ chunks[c] # <<>> => chunks[c][Len(chunks[c])] = read[c]

\* A stream that ends without an exception was delivered whole: no cut, error
\* or cancellation in the worker passes for the end of the body.
CompleteIsWhole == \A c \in StreamCalls :
    caller[c] = "complete" => taken[c] = size[c]

\* The course of a call: its answer comes before its body, its channel is
\* finished by a body that is whole and by nothing later undone, and its caller
\* waits, streams and ends in step with it.
Before == {"idle", "queued", "acquire", "connect", "write", "response", "header"}

Course == \A c \in Calls :
    /\ caller[c] = "idle" <=> work[c] = "idle"
    /\ work[c] \in Before => answer[c] = "pending" /\ closed[c] = "open" /\ read[c] = 0
    /\ closed[c] = "finished" => work[c] \in {"release", "over"} /\ read[c] = size[c]
    /\ caller[c] = "streaming" => c \in StreamCalls /\ answer[c] # "pending"
    /\ c \in StreamCalls /\ caller[c] = "complete" => closed[c] = "finished" /\ chunks[c] = <<>>

HttpInv == PoolInv /\ ChannelInOrder /\ Course /\ CompleteIsWhole

\* "Connection is likely broken; don't return to pool": of the idle
\* connections, each has had its last response read to its end.
PooledClean == Pooled \subseteq clean
=============================================================================
