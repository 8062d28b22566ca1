---------------------------- MODULE HttpClientProofs ----------------------------
(***************************************************************************)
(* Calls that share a pool never share a connection, and a stream that     *)
(* ends was delivered whole: for any number of calls, worker threads,      *)
(* pooled connections and pieces of a body, and with the stream that is    *)
(* opened again on top.  Of a body of any length, cut anywhere into reads, *)
(* that stream yields the events the body says, each once and in order,    *)
(* and all of them when it ends as done.                                   *)
(*                                                                         *)
(* And the tasks that wait for such answers, of which there may be any     *)
(* number: no result is taken before it exists, no thread resumes a root   *)
(* that is not waiting, and, where the library can promise it, no wake-up  *)
(* is lost and nothing is destroyed under a running thread.  The two have  *)
(* no state in common.                                                     *)
(***************************************************************************)
EXTENDS ResilientStream, TaskHandshake, FiniteSetTheorems, SequenceTheorems,
        WellFoundedInduction, TLAPS

LEMMA InitInv == ASSUME HttpAssumption, Init PROVE HttpInv
  BY DEF HttpAssumption, Init, HttpInv, PoolInv, TypeOK, HoldsAtWork, OneHolder, NamedOnce,
         PoolBounded, PooledOpen, Pooled, ChannelInOrder, Course, CompleteIsWhole, Calls,
         Working, Before

-----------------------------------------------------------------------------
(* The pool *)

\* Where connections are.
PoolShape == HoldsAtWork /\ OneHolder /\ NamedOnce /\ PoolBounded

\* What is left of the pool behind its first k entries.
LEMMA Rest ==
    ASSUME NEW S, NEW s \in Seq(S), NEW k \in 0..Len(s)
    PROVE  /\ SubSeq(s, k + 1, Len(s)) \in Seq(S)
           /\ Len(SubSeq(s, k + 1, Len(s))) = Len(s) - k
           /\ DOMAIN SubSeq(s, k + 1, Len(s)) = 1..(Len(s) - k)
           /\ \A i \in 1..(Len(s) - k) : SubSeq(s, k + 1, Len(s))[i] = s[i + k]
  OBVIOUS

\* A thread goes on with the connection it has, or lets it go and is over.
LEMMA OnwardShape ==
    ASSUME HttpAssumption, TypeOK, PoolShape, NEW c \in Calls, NEW w,
           work[c] \in Working, work' = [work EXCEPT ![c] = w],
           \/ w \in Working /\ conn' = conn
           \/ w = "over" /\ Lets(c),
           pool' = pool
    PROVE  PoolShape'
<1>1. /\ \A d \in Calls : d # c => conn'[d] = conn[d] /\ work'[d] = work[d]
      /\ conn'[c] \in {conn[c], NoConn} /\ work'[c] = w
      /\ w \in Working <=> conn'[c] # NoConn
  BY DEF TypeOK, Lets, PoolShape, HoldsAtWork, Working
<1>2. Pooled' = Pooled /\ NoConn \notin Pooled
  BY DEF Pooled, TypeOK, HttpAssumption
<1>3. HoldsAtWork'
  BY <1>1 DEF HoldsAtWork, PoolShape
<1>4. OneHolder'
  <2>1. \A i, j \in DOMAIN pool' : i # j => pool'[i] # pool'[j]
    BY DEF OneHolder, PoolShape
  <2>2. \A d \in Calls : conn'[d] \notin Pooled'
    BY <1>1, <1>2 DEF OneHolder, PoolShape
  <2>3. \A d, e \in Calls : d # e /\ conn'[d] # NoConn => conn'[d] # conn'[e]
    BY <1>1 DEF OneHolder, PoolShape
  <2> QED BY <2>1, <2>2, <2>3 DEF OneHolder
<1>5. NamedOnce'
  <2>1. w \notin {"idle", "queued", "acquire"} /\ NoConn \notin Calls
    BY DEF Working, HttpAssumption
  <2> QED BY <1>1, <1>2, <2>1 DEF NamedOnce, PoolShape
<1>6. PoolBounded'
  BY DEF PoolBounded, PoolShape
<1> QED BY <1>3, <1>4, <1>5, <1>6 DEF PoolShape

\* A thread that has no connection waits, or the pool only loses entries.
LEMMA WaitsShape ==
    ASSUME HttpAssumption, TypeOK, PoolShape, NEW k \in 0..Len(pool),
           pool' = SubSeq(pool, k + 1, Len(pool)), conn' = conn,
           \/ work' = work
           \/ \E c \in Calls : /\ work[c] \in {"idle", "queued"}
                               /\ \E w \in {"queued", "acquire"} : work' = [work EXCEPT ![c] = w]
    PROVE  PoolShape'
<1> PICK n \in Nat : n = Len(pool) /\ DOMAIN pool = 1..n
  BY DEF TypeOK
<1>0. /\ DOMAIN pool' = 1..(n - k) /\ Len(pool') = n - k
      /\ \A i \in 1..(n - k) : pool'[i] = pool[i + k] /\ i + k \in 1..n
  BY Rest DEF TypeOK
<1>1. Pooled' \subseteq Pooled
  BY <1>0 DEF Pooled
<1>2. HoldsAtWork'
  BY DEF HoldsAtWork, Working, PoolShape, TypeOK
<1>3. OneHolder'
  <2>1. \A i, j \in DOMAIN pool' : i # j => pool'[i] # pool'[j]
    <3> SUFFICES ASSUME NEW i \in 1..(n - k), NEW j \in 1..(n - k), i # j
                 PROVE  pool'[i] # pool'[j]
      BY <1>0
    <3>1. i + k \in 1..n /\ j + k \in 1..n /\ i + k # j + k
      BY <1>0
    <3>2. pool[i + k] # pool[j + k]
      BY <3>1 DEF OneHolder, PoolShape
    <3> QED BY <1>0, <3>2
  <2> QED BY <1>1, <2>1 DEF OneHolder, PoolShape
<1>4. NamedOnce'
  BY <1>1 DEF NamedOnce, PoolShape, TypeOK
<1>5. PoolBounded'
  BY <1>0 DEF PoolBounded, PoolShape, HttpAssumption
<1> QED BY <1>2, <1>3, <1>4, <1>5 DEF PoolShape

\* A connection comes out of the pool, or is new.
LEMMA AcquireShape ==
    ASSUME HttpAssumption, TypeOK, PoolShape, NEW c \in Calls, Acquire(c)
    PROVE  PoolShape' /\ pool' \in Seq(Calls) /\ conn' \in [Calls -> Calls \cup {NoConn}]
           /\ Pooled' \subseteq Pooled
<1> PICK n \in Nat : n = Len(pool) /\ DOMAIN pool = 1..n
  BY DEF TypeOK
<1>1. work[c] = "acquire" /\ work' = [work EXCEPT ![c] = "connect"]
  BY DEF Acquire, At, Goes
<1>2. \A i \in 1..n : pool[i] \in Calls /\ pool[i] \in Pooled
  <2>1. \A i \in 1..n : pool[i] \in Calls
    BY DEF TypeOK
  <2> QED BY <2>1 DEF Pooled
<1>3. conn[c] = NoConn /\ NoConn \notin Calls
  BY <1>1 DEF HoldsAtWork, TypeOK, Working, HttpAssumption, PoolShape
<1>4. PICK b \in Calls, k \in 0..n :
         /\ conn' = [conn EXCEPT ![c] = b]
         /\ pool' = SubSeq(pool, k + 1, n)
         /\ (b = c /\ k = n) \/ (k \in 1..n /\ b = pool[k])
  <2>1. SubSeq(pool, n + 1, n) = <<>>
    BY Rest DEF TypeOK
  <2>2. \/ \E i \in 1..n : conn' = [conn EXCEPT ![c] = pool[i]] /\ pool' = SubSeq(pool, i + 1, n)
        \/ conn' = [conn EXCEPT ![c] = c] /\ pool' = <<>>
    BY DEF Acquire
  <2>3. CASE \E i \in 1..n : conn' = [conn EXCEPT ![c] = pool[i]] /\ pool' = SubSeq(pool, i + 1, n)
    <3>1. PICK i \in 1..n : conn' = [conn EXCEPT ![c] = pool[i]] /\ pool' = SubSeq(pool, i + 1, n)
      BY <2>3
    <3>2. pool[i] \in Calls /\ i \in 0..n
      BY <1>2
    <3> QED BY <3>1, <3>2
  <2>4. CASE conn' = [conn EXCEPT ![c] = c] /\ pool' = <<>>
    <3>1. n \in 0..n
      OBVIOUS
    <3> QED BY <2>1, <2>4, <3>1
  <2> QED BY <2>2, <2>3, <2>4
<1>5. /\ pool' \in Seq(Calls) /\ DOMAIN pool' = 1..(n - k) /\ Len(pool') = n - k
      /\ \A i \in 1..(n - k) : pool'[i] = pool[i + k] /\ i + k \in 1..n
  <2>1. k \in 0..Len(pool) /\ pool \in Seq(Calls)
    BY DEF TypeOK
  <2> QED BY SMTT(30), <1>4, <2>1, Rest
<1>6. Pooled' \subseteq Pooled
  BY <1>2, <1>5 DEF Pooled
<1>7. b \notin Pooled'
  <2>1. CASE b = c
    BY <1>1, <1>6, <2>1 DEF NamedOnce, PoolShape
  <2>2. CASE k \in 1..n /\ b = pool[k]
    <3> SUFFICES ASSUME NEW i \in 1..(n - k) PROVE pool'[i] # b
      BY <1>5 DEF Pooled
    <3>1. i + k \in 1..n /\ i + k # k /\ pool'[i] = pool[i + k]
      BY <1>5
    <3> QED BY <2>2, <3>1 DEF OneHolder, PoolShape
  <2> QED BY <1>4, <2>1, <2>2
<1>8. \A d \in Calls : d # c => conn[d] # b
  <2>1. CASE b = c
    BY <1>1, <2>1 DEF NamedOnce, PoolShape
  <2>2. CASE k \in 1..n /\ b = pool[k]
    BY <1>2, <2>2 DEF OneHolder, PoolShape
  <2> QED BY <1>4, <2>1, <2>2
<1>9. /\ \A d \in Calls : d # c => conn'[d] = conn[d] /\ work'[d] = work[d]
      /\ conn'[c] = b /\ work'[c] = "connect"
  BY <1>1, <1>4 DEF TypeOK
<1>10. HoldsAtWork'
  BY <1>3, <1>9 DEF HoldsAtWork, Working, PoolShape
<1>11. OneHolder'
  <2>1. \A i, j \in DOMAIN pool' : i # j => pool'[i] # pool'[j]
    <3> SUFFICES ASSUME NEW i \in 1..(n - k), NEW j \in 1..(n - k), i # j
                 PROVE  pool'[i] # pool'[j]
      BY <1>5
    <3>1. i + k \in 1..n /\ j + k \in 1..n /\ i + k # j + k
      BY <1>5
    <3> QED BY SMTT(30), <1>5, <3>1 DEF OneHolder, PoolShape
  <2>2. \A d \in Calls : conn'[d] \notin Pooled'
    BY <1>6, <1>7, <1>9 DEF OneHolder, PoolShape
  <2>3. \A d, e \in Calls : d # e /\ conn'[d] # NoConn => conn'[d] # conn'[e]
    BY <1>8, <1>9 DEF OneHolder, PoolShape
  <2> QED BY <2>1, <2>2, <2>3 DEF OneHolder
<1>12. NamedOnce'
  <2>1. \A d \in Calls : work'[d] \in {"idle", "queued", "acquire"} =>
           d # c /\ d \notin Pooled /\ d # b /\ \A e \in Calls : conn[e] # d
    <3>1. b # c => b \in Pooled
      BY <1>2, <1>4
    <3> QED BY <1>9, <3>1 DEF NamedOnce, PoolShape
  <2> QED BY <1>6, <1>9, <2>1 DEF NamedOnce
<1>13. PoolBounded'
  BY <1>2, <1>5 DEF PoolBounded, PoolShape, HttpAssumption
<1> QED BY <1>4, <1>5, <1>6, <1>10, <1>11, <1>12, <1>13 DEF PoolShape, TypeOK

\* A connection goes back into the pool.
LEMMA ReleaseShape ==
    ASSUME HttpAssumption, TypeOK, PoolShape, NEW c \in Calls, Release(c)
    PROVE  PoolShape' /\ pool' \in Seq(Calls) /\ Pooled' \subseteq Pooled \cup {conn[c]}
           /\ (conn[c] \notin up => Pooled' \subseteq Pooled)
<1> PICK n \in Nat : n = Len(pool) /\ DOMAIN pool = 1..n
  BY DEF TypeOK
<1>1. /\ work[c] = "release" /\ work' = [work EXCEPT ![c] = "over"]
      /\ conn' = [conn EXCEPT ![c] = NoConn]
  BY DEF Release, At, Goes, Lets
<1>2. \A i \in 1..n : pool[i] \in Calls /\ pool[i] \in Pooled
  <2>1. \A i \in 1..n : pool[i] \in Calls
    BY DEF TypeOK
  <2> QED BY <2>1 DEF Pooled
<1>3. conn[c] \in Calls /\ NoConn \notin Calls
  BY <1>1 DEF HoldsAtWork, TypeOK, Working, HttpAssumption, PoolShape
<1>4. CASE pool' = pool
  <2>1. work[c] \in Working /\ Lets(c)
    BY <1>1 DEF Working, Lets
  <2>2. PoolShape'
    BY <1>1, <1>4, <2>1, OnwardShape
  <2> QED BY <1>4, <2>2 DEF Pooled, TypeOK
<1>5. CASE conn[c] \in up /\ n < MaxPerHost /\ pool' = Append(pool, conn[c])
  <2>1. /\ pool' \in Seq(Calls) /\ DOMAIN pool' = 1..(n + 1) /\ Len(pool') = n + 1
        /\ \A i \in 1..n : pool'[i] = pool[i]
        /\ pool'[n + 1] = conn[c]
    BY <1>2, <1>3, <1>5 DEF TypeOK
  <2>2. Pooled' = Pooled \cup {conn[c]}
    BY <1>2, <2>1 DEF Pooled
  <2>3. /\ \A d \in Calls : d # c => conn'[d] = conn[d] /\ work'[d] = work[d]
        /\ conn'[c] = NoConn /\ work'[c] = "over"
    BY <1>1 DEF TypeOK
  <2>4. HoldsAtWork'
    BY <2>3 DEF HoldsAtWork, Working, PoolShape
  <2>5. OneHolder'
    <3>1. \A i, j \in DOMAIN pool' : i # j => pool'[i] # pool'[j]
      BY <1>2, <2>1 DEF OneHolder, PoolShape
    <3>2. \A d \in Calls : conn'[d] \notin Pooled'
      <4>1. NoConn \notin Pooled'
        BY <1>2, <1>3, <2>2 DEF Pooled
      <4>2. \A d \in Calls : d # c => conn[d] # conn[c]
        BY <1>3 DEF OneHolder, PoolShape
      <4> QED BY <2>2, <2>3, <4>1, <4>2 DEF OneHolder, PoolShape
    <3>3. \A d, e \in Calls : d # e /\ conn'[d] # NoConn => conn'[d] # conn'[e]
      BY <2>3 DEF OneHolder, PoolShape
    <3> QED BY <3>1, <3>2, <3>3 DEF OneHolder
  <2>6. NamedOnce'
    BY <1>3, <2>2, <2>3 DEF NamedOnce, PoolShape
  <2>7. PoolBounded'
    BY <1>2, <1>5, <2>1 DEF PoolBounded, HttpAssumption
  <2> QED BY <1>5, <2>1, <2>2, <2>4, <2>5, <2>6, <2>7 DEF PoolShape
<1> QED BY <1>4, <1>5 DEF Release

-----------------------------------------------------------------------------
(* The steps *)

\* What a thread's step between acquire and release does.
OnItsConnection(c) == \/ Connect(c) \/ Write(c) \/ ReadResponse(c)
                      \/ \E n \in 0..MaxSize : ReadHeader(c, n)
                      \/ \E n \in 1..MaxSize : ReadChunk(c, n)
                      \/ ReadFails(c) \/ ErrorBodyEnds(c) \/ BeforeRead(c) \/ BodyEnds(c)

LEMMA OnItsConnectionMoves ==
    ASSUME TypeOK, NEW c \in Calls, OnItsConnection(c)
    PROVE  /\ work[c] \in Working /\ pool' = pool
           /\ \E w : /\ work' = [work EXCEPT ![c] = w]
                     /\ (w \in Working /\ conn' = conn) \/ (w = "over" /\ Lets(c))
<1> USE DEF At, Goes, Raise, Working
<1>1. CASE Connect(c) BY <1>1 DEF Connect
<1>2. CASE Write(c) BY <1>2 DEF Write
<1>3. CASE ReadResponse(c) BY <1>3 DEF ReadResponse
<1>4. CASE \E n \in 0..MaxSize : ReadHeader(c, n) BY <1>4 DEF ReadHeader
<1>5. CASE \E n \in 1..MaxSize : ReadChunk(c, n) BY <1>5 DEF ReadChunk
<1>6. CASE ReadFails(c) BY <1>6 DEF ReadFails
<1>7. CASE ErrorBodyEnds(c) BY <1>7 DEF ErrorBodyEnds
<1>8. CASE BeforeRead(c) BY <1>8 DEF BeforeRead
<1>9. CASE BodyEnds(c) BY <1>9 DEF BodyEnds
<1> QED BY <1>1, <1>2, <1>3, <1>4, <1>5, <1>6, <1>7, <1>8, <1>9 DEF OnItsConnection

\* Only the connection in hand is opened or closed, and the pool only takes an
\* open one.
LEMMA OnItsConnectionOpen ==
    ASSUME HttpAssumption, PoolInv, NEW c \in Calls, OnItsConnection(c)
    PROVE  /\ up' \in SUBSET Calls
           /\ \A b \in Pooled : b \in up'
<1>1. work[c] \in Working /\ pool' = pool
  BY OnItsConnectionMoves DEF PoolInv
<1>2. conn[c] \in Calls /\ conn[c] \notin Pooled /\ Pooled \subseteq up /\ up \subseteq Calls
  BY <1>1 DEF PoolInv, TypeOK, HoldsAtWork, OneHolder, PooledOpen
<1>3. up' \in {up, up \cup {conn[c]}, up \ {conn[c]}}
  BY DEF OnItsConnection, Connect, Write, ReadResponse, ReadHeader, ReadChunk, ReadFails,
         ErrorBodyEnds, BeforeRead, BodyEnds
<1> QED BY <1>2, <1>3

\* The types of what a thread changes.
LEMMA OnItsConnectionTyped ==
    ASSUME HttpAssumption, PoolInv, NEW c \in Calls, OnItsConnection(c)
    PROVE  TypeOK'
<1> USE DEF HttpAssumption
<1>0. TypeOK /\ pool' = pool /\ UNCHANGED <<taken, caller, cancelled>>
  BY OnItsConnectionMoves
  DEF PoolInv, OnItsConnection, Connect, Write, ReadResponse, ReadHeader, ReadChunk,
      ReadFails, ErrorBodyEnds, BeforeRead, BodyEnds
<1>1. /\ work' \in [Calls -> Working \cup {"idle", "queued", "acquire", "over"}]
      /\ conn' \in [Calls -> Calls \cup {NoConn}]
  <2>1. PICK w : /\ work' = [work EXCEPT ![c] = w]
                 /\ (w \in Working /\ conn' = conn) \/ (w = "over" /\ Lets(c))
    BY <1>0, OnItsConnectionMoves
  <2> QED BY <1>0, <2>1 DEF Lets, TypeOK
<1>2. up' \in SUBSET Calls
  BY OnItsConnectionOpen
<1>3. clean' \in SUBSET Calls
  <2>1. conn[c] \in Calls /\ clean \in SUBSET Calls
    BY <1>0, OnItsConnectionMoves DEF PoolInv, HoldsAtWork, TypeOK
  <2>2. clean' \in {clean, clean \cup {conn[c]}, clean \ {conn[c]}}
    BY DEF OnItsConnection, Connect, Write, ReadResponse, ReadHeader, ReadChunk,
           ReadFails, ErrorBodyEnds, BeforeRead, BodyEnds
  <2> QED BY <2>1, <2>2
<1> DEFINE Told == /\ answer' \in [Calls -> {"pending", "head", "bad", "thrown"}]
                   /\ closed' \in [Calls -> {"open", "finished", "failed", "retryable", "refused", "thrown"}]
           Body == /\ size' \in [Calls -> Nat] /\ read' \in [Calls -> Nat]
                   /\ chunks' \in [Calls -> Seq(Nat)]
<1>4. Told /\ Body
  <2> USE <1>0 DEF TypeOK, Raise
  <2>1. CASE Connect(c) BY <2>1 DEF Connect
  <2>2. CASE Write(c) BY <2>2 DEF Write
  <2>3. CASE ReadResponse(c) BY <2>3 DEF ReadResponse
  <2>4. CASE \E n \in 0..MaxSize : ReadHeader(c, n)
    <3>1. PICK n \in 0..MaxSize : ReadHeader(c, n)
      BY <2>4
    <3>2. n \in Nat /\ read' = read /\ chunks' = chunks
      BY <3>1 DEF ReadHeader
    <3>3. Body
      BY <3>1, <3>2 DEF ReadHeader
    <3>4. Told
      BY ZenonT(40), <3>1 DEF ReadHeader
    <3> QED BY <3>3, <3>4
  <2>5. CASE \E n \in 1..MaxSize : ReadChunk(c, n)
    <3>1. PICK n \in 1..MaxSize : ReadChunk(c, n)
      BY <2>5
    <3>2. n \in Nat /\ Append(chunks[c], n) \in Seq(Nat)
      OBVIOUS
    <3>3. /\ read' = [read EXCEPT ![c] = n]
          /\ chunks' = [chunks EXCEPT ![c] = Append(chunks[c], n)]
          /\ UNCHANGED <<size, answer, closed>>
      BY <3>1 DEF ReadChunk
    <3> QED BY <3>2, <3>3
  <2>6. CASE ReadFails(c) BY <2>6 DEF ReadFails
  <2>7. CASE ErrorBodyEnds(c) BY <2>7 DEF ErrorBodyEnds
  <2>8. CASE BeforeRead(c) BY <2>8 DEF BeforeRead
  <2>9. CASE BodyEnds(c) BY <2>9 DEF BodyEnds
  <2> QED BY <2>1, <2>2, <2>3, <2>4, <2>5, <2>6, <2>7, <2>8, <2>9 DEF OnItsConnection
<1> QED BY <1>0, <1>1, <1>2, <1>3, <1>4 DEF TypeOK

\* Steps that leave the pool's part alone but for the pool's oldest entries and
\* the way of a call to acquire.
Elsewhere == \/ \E c \in Calls : Dequeue(c) \/ Caller(c)
             \/ \E S \in SUBSET Calls : Cancel(S)
             \/ EvictExpired
             \/ UNCHANGED vars

LEMMA ElsewhereMoves ==
    ASSUME TypeOK, Course, Elsewhere
    PROVE  /\ conn' = conn /\ up' = up /\ clean' = clean
           /\ \E k \in 0..Len(pool) : pool' = SubSeq(pool, k + 1, Len(pool))
           /\ \/ work' = work
              \/ \E c \in Calls : /\ work[c] \in {"idle", "queued"}
                                  /\ \E w \in {"queued", "acquire"} : work' = [work EXCEPT ![c] = w]
<1> PICK n \in Nat : n = Len(pool)
  BY DEF TypeOK
<1>0. pool' = pool => \E k \in 0..n : pool' = SubSeq(pool, k + 1, n)
  <2>1. SubSeq(pool, 0 + 1, n) = pool /\ 0 \in 0..n
    BY DEF TypeOK
  <2> QED BY <2>1
<1>1. CASE \E c \in Calls : Dequeue(c)
  <2>1. PICK c \in Calls : Dequeue(c)
    BY <1>1
  <2>2. work[c] = "queued" /\ work' = [work EXCEPT ![c] = "acquire"]
    BY <2>1 DEF Dequeue, At, Goes
  <2>3. UNCHANGED <<conn, pool, up, clean>>
    BY <2>1 DEF Dequeue
  <2> QED BY <1>0, <2>2, <2>3
<1>2. CASE \E c \in Calls : Submit(c)
  <2>1. PICK c \in Calls : Submit(c)
    BY <1>2
  <2>2. /\ work[c] = "idle"
        /\ \E w \in {"queued", "acquire"} : work' = [work EXCEPT ![c] = w]
    BY <2>1 DEF Submit, Goes, Course
  <2>3. UNCHANGED <<conn, pool, up, clean>>
    BY <2>1 DEF Submit
  <2> QED BY <1>0, <2>2, <2>3
<1>3. CASE \E c \in Calls : Answered(c) \/ PopThrows(c) \/ PopEnds(c) \/ PopChunk(c)
  BY <1>0, <1>3 DEF Answered, PopThrows, PopEnds, PopChunk
<1>4. CASE \E S \in SUBSET Calls : Cancel(S)
  BY <1>0, <1>4 DEF Cancel
<1>5. CASE EvictExpired
  BY <1>5 DEF EvictExpired
<1>6. CASE UNCHANGED vars
  BY <1>0, <1>6 DEF vars
<1> QED BY <1>1, <1>2, <1>3, <1>4, <1>5, <1>6 DEF Elsewhere, Caller

LEMMA ElsewhereTyped ==
    ASSUME TypeOK, Course, Elsewhere
    PROVE  TypeOK'
<1>1. /\ conn' = conn /\ up' = up /\ clean' = clean
      /\ \E k \in 0..Len(pool) : pool' = SubSeq(pool, k + 1, Len(pool))
  BY ElsewhereMoves
<1>2. pool' \in Seq(Calls)
  BY <1>1, Rest DEF TypeOK
<1>3. work' \in [Calls -> Working \cup {"idle", "queued", "acquire", "over"}]
  BY ElsewhereMoves DEF TypeOK
<1>4. /\ UNCHANGED <<answer, size, read, closed>>
      /\ chunks' \in [Calls -> Seq(Nat)] /\ taken' \in [Calls -> Nat]
      /\ caller' \in [Calls -> {"idle", "waiting", "streaming", "complete", "thrown"}]
      /\ cancelled' \in SUBSET Calls
  <2> USE DEF TypeOK, Proceeds
  <2>1. CASE \E c \in Calls : Dequeue(c) BY <2>1 DEF Dequeue
  <2>2. CASE \E c \in Calls : Submit(c) BY <2>2 DEF Submit
  <2>3. CASE \E c \in Calls : Answered(c) BY <2>3 DEF Answered
  <2>4. CASE \E c \in Calls : PopThrows(c) BY <2>4 DEF PopThrows
  <2>5. CASE \E c \in Calls : PopEnds(c) BY <2>5 DEF PopEnds
  <2>6. CASE \E c \in Calls : PopChunk(c)
    <3>1. PICK c \in Calls : PopChunk(c)
      BY <2>6
    <3>2. Head(chunks[c]) \in Nat /\ Tail(chunks[c]) \in Seq(Nat)
      BY <3>1 DEF PopChunk
    <3> QED BY <3>1, <3>2 DEF PopChunk
  <2>7. CASE \E S \in SUBSET Calls : Cancel(S) BY <2>7 DEF Cancel
  <2>8. CASE EvictExpired BY <2>8 DEF EvictExpired
  <2>9. CASE UNCHANGED vars BY <2>9 DEF vars
  <2> QED BY <2>1, <2>2, <2>3, <2>4, <2>5, <2>6, <2>7, <2>8, <2>9 DEF Elsewhere, Caller
<1> QED BY <1>1, <1>2, <1>3, <1>4 DEF TypeOK

LEMMA NextCases ==
    ASSUME [Next]_vars
    PROVE  Elsewhere \/ \E c \in Calls : OnItsConnection(c) \/ Acquire(c) \/ Release(c)
  BY DEF Next, Thread, Elsewhere, OnItsConnection

LEMMA PoolKept ==
    ASSUME HttpAssumption, PoolInv, Course, [Next]_vars
    PROVE  PoolInv'
<1>0. TypeOK /\ PoolShape /\ PooledOpen
  BY DEF PoolInv, PoolShape
<1>1. CASE Elsewhere
  <2>1. TypeOK'
    BY <1>0, <1>1, ElsewhereTyped
  <2>2. PICK k \in 0..Len(pool) : pool' = SubSeq(pool, k + 1, Len(pool))
    BY <1>0, <1>1, ElsewhereMoves
  <2>3. PoolShape' /\ up' = up
    BY <1>0, <1>1, <2>2, ElsewhereMoves, WaitsShape
  <2>4. Pooled' \subseteq Pooled
    <3> PICK n \in Nat : n = Len(pool) /\ DOMAIN pool = 1..n
      BY <1>0 DEF TypeOK
    <3>1. DOMAIN pool' = 1..(n - k) /\ \A i \in 1..(n - k) : pool'[i] = pool[i + k] /\ i + k \in 1..n
      BY <1>0, <2>2, Rest DEF TypeOK
    <3> QED BY <3>1 DEF Pooled
  <2> QED BY <1>0, <2>1, <2>3, <2>4 DEF PoolInv, PoolShape, PooledOpen
<1>2. ASSUME NEW c \in Calls, OnItsConnection(c) PROVE PoolInv'
  <2>1. TypeOK'
    BY <1>2, OnItsConnectionTyped
  <2>2. PoolShape'
    BY <1>0, <1>2, OnItsConnectionMoves, OnwardShape
  <2>3. PooledOpen'
    <3>1. Pooled' = Pooled
      BY <1>0, <1>2, OnItsConnectionMoves DEF Pooled
    <3> QED BY <1>2, <3>1, OnItsConnectionOpen DEF PooledOpen
  <2> QED BY <2>1, <2>2, <2>3 DEF PoolInv, PoolShape
<1>3. ASSUME NEW c \in Calls, Acquire(c) PROVE PoolInv'
  <2>1. PoolShape' /\ pool' \in Seq(Calls) /\ conn' \in [Calls -> Calls \cup {NoConn}]
        /\ Pooled' \subseteq Pooled
    BY <1>0, <1>3, AcquireShape
  <2>2. /\ work' = [work EXCEPT ![c] = "connect"]
        /\ UNCHANGED <<up, clean, size, read, answer, chunks, closed, taken, caller, cancelled>>
    BY <1>3 DEF Acquire, Goes
  <2>3. TypeOK'
    BY <1>0, <2>1, <2>2 DEF TypeOK, Working
  <2> QED BY <1>0, <2>1, <2>2, <2>3 DEF PoolInv, PoolShape, PooledOpen
<1>4. ASSUME NEW c \in Calls, Release(c) PROVE PoolInv'
  <2>1. /\ PoolShape' /\ pool' \in Seq(Calls) /\ Pooled' \subseteq Pooled \cup {conn[c]}
        /\ conn[c] \notin up => Pooled' \subseteq Pooled
    BY <1>0, <1>4, ReleaseShape
  <2>2. /\ work' = [work EXCEPT ![c] = "over"] /\ conn' = [conn EXCEPT ![c] = NoConn]
        /\ UNCHANGED <<up, clean, size, read, chunks, closed, taken, caller, cancelled>>
        /\ answer' \in [Calls -> {"pending", "head", "bad", "thrown"}]
    BY <1>0, <1>4 DEF Release, Goes, Lets, TypeOK
  <2>3. TypeOK'
    BY <1>0, <2>1, <2>2 DEF TypeOK
  <2> QED BY <1>0, <2>1, <2>2, <2>3 DEF PoolInv, PoolShape, PooledOpen
<1> QED BY <1>1, <1>2, <1>3, <1>4, NextCases

-----------------------------------------------------------------------------
(* The body of one call *)

\* What the invariant says of one call, but for the connection.
Ordered(c) == /\ taken[c] <= read[c] /\ read[c] <= size[c]
              /\ \A i \in DOMAIN chunks[c] : chunks[c][i] \in (taken[c] + 1)..read[c]
              /\ \A i, j \in DOMAIN chunks[c] : i < j => chunks[c][i] < chunks[c][j]
              /\ chunks[c] = <<>> => taken[c] = read[c]
              /\ chunks[c] # <<>> => chunks[c][Len(chunks[c])] = read[c]

OnCourse(c) ==
    /\ caller[c] = "idle" <=> work[c] = "idle"
    /\ work[c] \in Before => answer[c] = "pending" /\ closed[c] = "open" /\ read[c] = 0
    /\ closed[c] = "finished" => work[c] \in {"release", "over"} /\ read[c] = size[c]
    /\ caller[c] = "streaming" => c \in StreamCalls /\ answer[c] # "pending"
    /\ c \in StreamCalls /\ caller[c] = "complete" => closed[c] = "finished" /\ chunks[c] = <<>>

Sound(c) == Ordered(c) /\ OnCourse(c)

LEMMA SoundCalls == ChannelInOrder /\ Course <=> \A c \in Calls : Sound(c)
  BY DEF ChannelInOrder, Course, Sound, Ordered, OnCourse

\* A stream whose caller is done was finished, so that it was read to its size
\* and nothing of it is left in the channel.
LEMMA WholeCalls ==
    ASSUME ChannelInOrder, Course
    PROVE  CompleteIsWhole
<1> SUFFICES ASSUME NEW c \in StreamCalls, caller[c] = "complete" PROVE taken[c] = size[c]
  BY DEF CompleteIsWhole
<1>1. c \in Calls
  BY DEF Calls
<1>2. closed[c] = "finished" /\ chunks[c] = <<>>
  BY <1>1 DEF Course
<1> QED BY <1>1, <1>2 DEF Course, ChannelInOrder

State(c) == <<work[c], size[c], read[c], answer[c], chunks[c], closed[c], taken[c], caller[c]>>

LEMMA StateSound ==
    ASSUME NEW c \in Calls, Sound(c), State(c)' = State(c)
    PROVE  Sound(c)'
  BY DEF Sound, Ordered, OnCourse, State

\* A step of a thread from the first byte sent to the last one read leaves the
\* other calls alone.
LEMMA OnlyItsOwn ==
    ASSUME TypeOK, NEW c \in Calls, NEW d \in Calls, d # c,
           OnItsConnection(c) \/ Acquire(c) \/ Release(c) \/ Dequeue(c) \/ Caller(c)
    PROVE  State(d)' = State(d)
<1> USE DEF TypeOK, State, Goes, Raise, Proceeds
<1>1. CASE Connect(c) BY <1>1 DEF Connect
<1>2. CASE Write(c) BY <1>2 DEF Write
<1>3. CASE ReadResponse(c) BY <1>3 DEF ReadResponse
<1>4. CASE \E n \in 0..MaxSize : ReadHeader(c, n) BY <1>4 DEF ReadHeader
<1>5. CASE \E n \in 1..MaxSize : ReadChunk(c, n) BY <1>5 DEF ReadChunk
<1>6. CASE ReadFails(c) BY <1>6 DEF ReadFails
<1>7. CASE ErrorBodyEnds(c) BY <1>7 DEF ErrorBodyEnds
<1>8. CASE BeforeRead(c) BY <1>8 DEF BeforeRead
<1>9. CASE BodyEnds(c) BY <1>9 DEF BodyEnds
<1>10. CASE Acquire(c) BY <1>10 DEF Acquire
<1>11. CASE Release(c) BY <1>11 DEF Release
<1>12. CASE Dequeue(c) BY <1>12 DEF Dequeue
<1>13. CASE Submit(c) BY <1>13 DEF Submit
<1>14. CASE Answered(c) BY <1>14 DEF Answered
<1>15. CASE PopThrows(c) BY <1>15 DEF PopThrows
<1>16. CASE PopEnds(c) BY <1>16 DEF PopEnds
<1>17. CASE PopChunk(c) BY <1>17 DEF PopChunk
<1> QED BY <1>1, <1>2, <1>3, <1>4, <1>5, <1>6, <1>7, <1>8, <1>9, <1>10, <1>11, <1>12,
           <1>13, <1>14, <1>15, <1>16, <1>17 DEF OnItsConnection, Caller

\* A chunk at the end of the channel.
LEMMA ChunkAdded ==
    ASSUME NEW s \in Seq(Nat), NEW t \in Nat, NEW r \in Nat, NEW n \in Nat, r < n, t <= r,
           \A i \in DOMAIN s : s[i] \in (t + 1)..r,
           \A i, j \in DOMAIN s : i < j => s[i] < s[j]
    PROVE  /\ \A i \in DOMAIN Append(s, n) : Append(s, n)[i] \in (t + 1)..n
           /\ \A i, j \in DOMAIN Append(s, n) : i < j => Append(s, n)[i] < Append(s, n)[j]
           /\ Append(s, n) # <<>> /\ Append(s, n)[Len(Append(s, n))] = n
<1> PICK l \in Nat : l = Len(s) /\ DOMAIN s = 1..l
  OBVIOUS
<1>1. /\ DOMAIN Append(s, n) = 1..(l + 1) /\ Len(Append(s, n)) = l + 1
      /\ Append(s, n)[l + 1] = n
      /\ \A i \in 1..l : Append(s, n)[i] = s[i]
  OBVIOUS
<1>2. \A i \in 1..l : s[i] \in Nat /\ s[i] <= r
  OBVIOUS
<1>3. \A i \in 1..(l + 1) : Append(s, n)[i] \in (t + 1)..n
  BY SMTT(30), <1>1, <1>2
<1>4. \A i, j \in 1..(l + 1) : i < j => Append(s, n)[i] < Append(s, n)[j]
  <2> SUFFICES ASSUME NEW i \in 1..(l + 1), NEW j \in 1..(l + 1), i < j
               PROVE  Append(s, n)[i] < Append(s, n)[j]
    OBVIOUS
  <2>1. i \in 1..l /\ Append(s, n)[i] = s[i]
    BY <1>1
  <2>2. CASE j = l + 1 BY <1>1, <1>2, <2>1, <2>2
  <2>3. CASE j \in 1..l BY <1>1, <2>1, <2>3
  <2> QED BY <2>2, <2>3
<1> QED BY SMTT(30), <1>1, <1>3, <1>4

\* The oldest chunk is taken.
LEMMA ChunkTaken ==
    ASSUME NEW s \in Seq(Nat), NEW t \in Nat, NEW r \in Nat, s # <<>>,
           \A i \in DOMAIN s : s[i] \in (t + 1)..r,
           \A i, j \in DOMAIN s : i < j => s[i] < s[j],
           s[Len(s)] = r
    PROVE  /\ Head(s) \in Nat /\ Head(s) <= r
           /\ \A i \in DOMAIN Tail(s) : Tail(s)[i] \in (Head(s) + 1)..r
           /\ \A i, j \in DOMAIN Tail(s) : i < j => Tail(s)[i] < Tail(s)[j]
           /\ Tail(s) = <<>> => Head(s) = r
           /\ Tail(s) # <<>> => Tail(s)[Len(Tail(s))] = r
<1> PICK l \in Nat \ {0} : l = Len(s) /\ DOMAIN s = 1..l
  OBVIOUS
<1>1. /\ DOMAIN Tail(s) = 1..(l - 1) /\ Len(Tail(s)) = l - 1
      /\ \A i \in 1..(l - 1) : Tail(s)[i] = s[i + 1]
      /\ Head(s) = s[1]
  OBVIOUS
<1>2. \A i \in 1..l : s[i] \in Nat /\ s[i] <= r
  OBVIOUS
<1>3. \A i \in 1..(l - 1) : Tail(s)[i] \in (Head(s) + 1)..r
  <2> SUFFICES ASSUME NEW i \in 1..(l - 1) PROVE Tail(s)[i] \in (Head(s) + 1)..r
    OBVIOUS
  <2>1. i + 1 \in 1..l /\ 1 \in 1..l /\ 1 < i + 1
    OBVIOUS
  <2>2. s[1] < s[i + 1] /\ s[i + 1] \in Nat /\ s[1] \in Nat /\ s[i + 1] <= r
    BY <1>2, <2>1
  <2> QED BY <1>1, <2>2
<1>4. \A i, j \in 1..(l - 1) : i < j => Tail(s)[i] < Tail(s)[j]
  <2> SUFFICES ASSUME NEW i \in 1..(l - 1), NEW j \in 1..(l - 1), i < j
               PROVE  Tail(s)[i] < Tail(s)[j]
    OBVIOUS
  <2>1. i + 1 \in 1..l /\ j + 1 \in 1..l /\ i + 1 < j + 1
    OBVIOUS
  <2> QED BY <1>1, <2>1
<1>5. Tail(s) = <<>> => Head(s) = r
  BY <1>1
<1>6. Tail(s) # <<>> => Tail(s)[Len(Tail(s))] = r
  <2> SUFFICES ASSUME Tail(s) # <<>> PROVE Tail(s)[Len(Tail(s))] = r
    OBVIOUS
  <2>1. Len(Tail(s)) # 0
    OBVIOUS
  <2>2. l - 1 \in 1..(l - 1)
    BY <1>1, <2>1
  <2> QED BY <1>1, <2>2
<1>7. Head(s) \in Nat /\ Head(s) <= r
  <2>1. 1 \in 1..l
    OBVIOUS
  <2> QED BY <1>1, <1>2, <2>1
<1>8. DOMAIN Tail(s) = 1..(l - 1)
  BY <1>1
<1> QED BY <1>3, <1>4, <1>5, <1>6, <1>7, <1>8

\* What a thread does to its own call.
LEMMA ThreadSound ==
    ASSUME HttpAssumption, TypeOK, NEW c \in Calls, Sound(c),
           OnItsConnection(c) \/ Acquire(c) \/ Release(c) \/ Dequeue(c)
    PROVE  Sound(c)'
<1> USE DEF At, Goes, Sound
<1>0. /\ work[c] \in Working \cup {"idle", "queued", "acquire", "over"}
      /\ size[c] \in Nat /\ read[c] \in Nat /\ taken[c] \in Nat /\ chunks[c] \in Seq(Nat)
      /\ answer[c] \in {"pending", "head", "bad", "thrown"}
      /\ closed[c] \in {"open", "finished", "failed", "retryable", "refused", "thrown"}
  BY DEF TypeOK
\* Most steps leave the body alone.
<1>1. ASSUME UNCHANGED <<size, read, chunks, taken>> PROVE Ordered(c)'
  BY <1>1 DEF Ordered
\* The end of a call by an exception.
<1>2. ASSUME Raise(c), UNCHANGED <<size, read, chunks, taken, caller>>,
             work[c] \in Working \ {"release"}
      PROVE  Sound(c)'
  <2>1. /\ work'[c] = "over" /\ caller'[c] = caller[c] /\ read'[c] = read[c]
        /\ size'[c] = size[c] /\ chunks'[c] = chunks[c]
    BY <1>2 DEF Raise, TypeOK
  <2>2. \/ answer[c] = "pending" /\ answer'[c] = "thrown" /\ closed'[c] = closed[c]
        \/ answer[c] # "pending" /\ answer'[c] = answer[c] /\ closed'[c] = "thrown"
    BY <1>2 DEF Raise, TypeOK
  <2>3. OnCourse(c)'
    BY <1>2, <2>1, <2>2 DEF OnCourse, Before, Working
  <2> QED BY <1>1, <1>2, <2>3
<1> USE DEF TypeOK
<1>3. CASE Connect(c)
  BY <1>0, <1>1, <1>2, <1>3 DEF Connect, OnCourse, Before, Working
<1>4. CASE Write(c)
  BY <1>0, <1>1, <1>2, <1>4 DEF Write, OnCourse, Before, Working
<1>5. CASE ReadResponse(c)
  BY <1>0, <1>1, <1>2, <1>5 DEF ReadResponse, OnCourse, Before, Working
<1>6. CASE \E n \in 0..MaxSize : ReadHeader(c, n)
  <2>1. PICK n \in 0..MaxSize : ReadHeader(c, n)
    BY <1>6
  <2>2. CASE Raise(c) /\ UNCHANGED size
    BY <1>2, <2>1, <2>2 DEF ReadHeader, Working
  <2>3. ASSUME NEW a \in {"head", "bad"}, answer' = [answer EXCEPT ![c] = a],
               Goes(c, IF a = "head" THEN "body" ELSE "error"),
               size' = [size EXCEPT ![c] = n], UNCHANGED <<conn, closed>>
        PROVE  Sound(c)'
    <3>1. n \in Nat /\ n >= 0
      BY DEF HttpAssumption
    <3>2. /\ work[c] = "header" /\ read[c] = 0 /\ closed[c] = "open" /\ caller[c] # "idle"
          /\ UNCHANGED <<read, chunks, taken, caller>>
      BY <2>1 DEF ReadHeader, OnCourse, Before
    <3>3. Ordered(c)'
      BY <1>0, <2>3, <3>1, <3>2 DEF Ordered
    <3>4. OnCourse(c)'
      BY <1>0, <2>3, <3>2 DEF OnCourse, Before
    <3> QED BY <3>3, <3>4
  <2> QED BY <2>1, <2>2, <2>3 DEF ReadHeader
<1>7. CASE \E n \in 1..MaxSize : ReadChunk(c, n)
  <2>1. PICK n \in 1..MaxSize : ReadChunk(c, n)
    BY <1>7
  <2>2. n \in Nat /\ n \in (read[c] + 1)..size[c]
    BY <2>1 DEF ReadChunk
  <2>3. /\ read'[c] = n /\ chunks'[c] = Append(chunks[c], n) /\ size'[c] = size[c]
        /\ taken'[c] = taken[c] /\ work[c] = "reading" /\ work'[c] = "body"
        /\ UNCHANGED <<answer, closed, caller>>
    BY <2>1 DEF ReadChunk
  <2>4. Ordered(c)'
    <3>1. read[c] < n /\ n <= size[c] /\ taken[c] <= read[c]
      BY <1>0, <2>2 DEF Ordered
    <3>2. /\ \A i \in DOMAIN chunks[c] : chunks[c][i] \in (taken[c] + 1)..read[c]
          /\ \A i, j \in DOMAIN chunks[c] : i < j => chunks[c][i] < chunks[c][j]
      BY DEF Ordered
    <3>3. /\ \A i \in DOMAIN Append(chunks[c], n) : Append(chunks[c], n)[i] \in (taken[c] + 1)..n
          /\ \A i, j \in DOMAIN Append(chunks[c], n) :
                i < j => Append(chunks[c], n)[i] < Append(chunks[c], n)[j]
          /\ Append(chunks[c], n) # <<>>
          /\ Append(chunks[c], n)[Len(Append(chunks[c], n))] = n
      <4>1. chunks[c] \in Seq(Nat) /\ taken[c] \in Nat /\ read[c] \in Nat
        BY <1>0
      <4> HIDE DEF TypeOK, Sound
      <4> QED BY ZenonT(40), <2>2, <3>1, <3>2, <4>1, ChunkAdded
    <3>4. taken[c] <= n
      BY <1>0, <2>2, <3>1
    <3> QED BY <2>3, <3>1, <3>3, <3>4 DEF Ordered
  <2>5. OnCourse(c)'
    BY <1>0, <2>3 DEF OnCourse, Before
  <2> QED BY <2>4, <2>5
<1>8. CASE ReadFails(c)
  BY <1>0, <1>1, <1>8 DEF ReadFails, OnCourse, Before
<1>9. CASE ErrorBodyEnds(c)
  BY <1>0, <1>1, <1>9 DEF ErrorBodyEnds, OnCourse, Before
<1>10. CASE BeforeRead(c)
  BY <1>0, <1>1, <1>2, <1>10 DEF BeforeRead, OnCourse, Before, Working
<1>11. CASE BodyEnds(c)
  BY <1>0, <1>1, <1>11 DEF BodyEnds, OnCourse, Before
<1>12. CASE Acquire(c)
  BY <1>0, <1>1, <1>12 DEF Acquire, OnCourse, Before
<1>13. CASE Release(c)
  <2>1. /\ work[c] = "release" /\ work'[c] = "over"
        /\ UNCHANGED <<size, read, chunks, closed, taken, caller>>
        /\ answer'[c] = answer[c] \/ answer'[c] \in {"head", "bad"}
    BY <1>13 DEF Release
  <2>2. OnCourse(c)'
    BY <1>0, <2>1 DEF OnCourse, Before
  <2> QED BY <1>1, <2>1, <2>2
<1>14. CASE Dequeue(c)
  BY <1>0, <1>1, <1>14 DEF Dequeue, OnCourse, Before
<1> QED BY <1>3, <1>4, <1>5, <1>6, <1>7, <1>8, <1>9, <1>10, <1>11, <1>12, <1>13, <1>14
        DEF OnItsConnection

\* What the calling coroutine does to its call.
LEMMA CallerSound ==
    ASSUME HttpAssumption, TypeOK, NEW c \in Calls, Sound(c), Caller(c)
    PROVE  Sound(c)'
<1> USE DEF Proceeds, Goes, Sound, TypeOK
<1>0. /\ work[c] \in Working \cup {"idle", "queued", "acquire", "over"}
      /\ size[c] \in Nat /\ read[c] \in Nat /\ taken[c] \in Nat /\ chunks[c] \in Seq(Nat)
      /\ answer[c] \in {"pending", "head", "bad", "thrown"}
      /\ closed[c] \in {"open", "finished", "failed", "retryable", "refused", "thrown"}
      /\ caller[c] \in {"idle", "waiting", "streaming", "complete", "thrown"}
  OBVIOUS
<1>1. ASSUME UNCHANGED <<size, read, chunks, taken>> PROVE Ordered(c)'
  BY <1>1 DEF Ordered
<1>2. CASE Submit(c)
  <2>1. OnCourse(c)'
    BY <1>0, <1>2 DEF Submit, OnCourse, Before
  <2> QED BY <1>1, <1>2, <2>1 DEF Submit
<1>3. CASE Answered(c)
  <2>1. OnCourse(c)'
    BY <1>0, <1>3 DEF Answered, OnCourse, Before
  <2> QED BY <1>1, <1>3, <2>1 DEF Answered
<1>4. CASE PopThrows(c)
  <2>1. OnCourse(c)'
    BY <1>0, <1>4 DEF PopThrows, OnCourse, Before
  <2> QED BY <1>1, <1>4, <2>1 DEF PopThrows
<1>5. CASE PopEnds(c)
  <2>1. OnCourse(c)'
    BY <1>0, <1>5 DEF PopEnds, OnCourse, Before
  <2> QED BY <1>1, <1>5, <2>1 DEF PopEnds
<1>6. CASE PopChunk(c)
  <2>1. /\ taken'[c] = Head(chunks[c]) /\ chunks'[c] = Tail(chunks[c])
        /\ chunks[c] # <<>> /\ caller[c] = "streaming"
        /\ UNCHANGED <<work, size, read, answer, closed, caller>>
    BY <1>6 DEF PopChunk
  <2>2. Ordered(c)'
    <3>1. /\ \A i \in DOMAIN chunks[c] : chunks[c][i] \in (taken[c] + 1)..read[c]
          /\ \A i, j \in DOMAIN chunks[c] : i < j => chunks[c][i] < chunks[c][j]
          /\ chunks[c][Len(chunks[c])] = read[c]
      BY <2>1 DEF Ordered
    <3>2. /\ Head(chunks[c]) \in Nat /\ Head(chunks[c]) <= read[c]
          /\ \A i \in DOMAIN Tail(chunks[c]) :
                Tail(chunks[c])[i] \in (Head(chunks[c]) + 1)..read[c]
          /\ \A i, j \in DOMAIN Tail(chunks[c]) : i < j => Tail(chunks[c])[i] < Tail(chunks[c])[j]
          /\ Tail(chunks[c]) = <<>> => Head(chunks[c]) = read[c]
          /\ Tail(chunks[c]) # <<>> => Tail(chunks[c])[Len(Tail(chunks[c]))] = read[c]
      BY ZenonT(40), <1>0, <2>1, <3>1, ChunkTaken
    <3> QED BY <2>1, <3>2 DEF Ordered
  <2>3. OnCourse(c)'
    BY <1>0, <2>1 DEF OnCourse, Before
  <2> QED BY <2>2, <2>3
<1> QED BY <1>2, <1>3, <1>4, <1>5, <1>6 DEF Caller

-----------------------------------------------------------------------------
(* The theorems *)

LEMMA NextInv ==
    ASSUME HttpAssumption, HttpInv, [Next]_vars
    PROVE  HttpInv'
<1>0. TypeOK /\ \A c \in Calls : Sound(c)
  BY SoundCalls DEF HttpInv, PoolInv
<1>1. PoolInv'
  BY PoolKept DEF HttpInv
<1>2. \A c \in Calls : Sound(c)'
  <2>1. ASSUME NEW c \in Calls,
               OnItsConnection(c) \/ Acquire(c) \/ Release(c) \/ Dequeue(c) \/ Caller(c)
        PROVE  \A d \in Calls : Sound(d)'
    <3>1. Sound(c)'
      BY <1>0, <2>1, ThreadSound, CallerSound
    <3>2. ASSUME NEW d \in Calls, d # c PROVE Sound(d)'
      <4>1. State(d)' = State(d)
        BY <1>0, <2>1, <3>2, OnlyItsOwn
      <4> QED BY <1>0, <4>1, StateSound
    <3> QED BY <3>1, <3>2
  <2>2. ASSUME \/ \E S \in SUBSET Calls : Cancel(S)
               \/ EvictExpired
               \/ UNCHANGED vars
        PROVE  \A d \in Calls : Sound(d)'
    <3> SUFFICES ASSUME NEW d \in Calls PROVE Sound(d)'
      OBVIOUS
    <3>1. State(d)' = State(d)
      BY <2>2 DEF Cancel, EvictExpired, vars, State
    <3> QED BY <1>0, <3>1, StateSound
  <2> QED BY <2>1, <2>2, NextCases DEF Elsewhere
<1>3. (ChannelInOrder /\ Course)'
  BY <1>2, SoundCalls DEF Sound, Ordered, OnCourse, ChannelInOrder, Course
<1>4. CompleteIsWhole'
  <2>1. (ChannelInOrder /\ Course => CompleteIsWhole)'
    BY WholeCalls, PTL
  <2> QED BY <1>3, <2>1
<1> QED BY <1>1, <1>3, <1>4 DEF HttpInv

\* Every call of a client, in every interleaving: connections are held by one
\* call or the pool, the pool holds what its size allows, a channel gives its
\* chunks in order, and a stream that completes was read whole.
THEOREM HttpInvariant == Spec => []HttpInv
<1>1. Init => HttpInv
  BY HttpAssumption, InitInv
<1>2. HttpInv /\ [Next]_vars => HttpInv'
  BY HttpAssumption, NextInv
<1> QED BY <1>1, <1>2, PTL DEF Spec

-----------------------------------------------------------------------------
(* The stream on top *)

\* The generator is on one of its calls from the first on.
StreamShape == /\ cur \in 0..NStreams
               /\ phase \in {"opening", "streaming", "ending", "sleeping", "done", "failed"}
               /\ phase \in {"streaming", "ending"} => cur # 0
               /\ beside \subseteq PlainCalls

\* A step of the stream is one of the client, or leaves the client alone.
LEMMA StreamStep ==
    ASSUME HttpAssumption, StreamAssumption, StreamShape, [StreamNext]_allVars
    PROVE  StreamShape' /\ [Next]_vars
<1>0. /\ StreamCalls \subseteq Calls /\ PlainCalls \subseteq Calls /\ StreamCalls = 1..NStreams
      /\ NStreams \in Nat
  BY DEF Calls, StreamAssumption
<1>1. CASE Open
  <2>1. cur' \in StreamCalls /\ cur' = cur + 1
    BY <1>0, <1>1 DEF Open, StreamShape
  <2>2. Submit(cur') /\ phase' = "streaming" /\ beside' = beside
    BY <1>1 DEF Open
  <2>3. \E c \in Calls : Submit(c)
    BY <1>0, <2>1, <2>2
  <2>4. Next
    BY <2>3 DEF Next, Caller
  <2> QED BY <1>0, <2>1, <2>2, <2>4 DEF StreamShape
<1>2. ASSUME cur' = cur, beside' = beside, phase \in {"streaming", "ending"},
             phase' \in {"streaming", "ending", "sleeping", "failed", "done"},
             Answered(cur) \/ PopChunk(cur) \/ PopThrows(cur) \/ PopEnds(cur) \/ UNCHANGED vars
      PROVE  StreamShape' /\ [Next]_vars
  <2>1. cur \in Calls
    BY <1>0, <1>2 DEF StreamShape
  <2> QED BY <1>2, <2>1 DEF StreamShape, Next, Caller
<1>3. CASE StreamAnswered BY <1>2, <1>3 DEF StreamAnswered, Caught
<1>4. CASE Receive BY <1>2, <1>4 DEF Receive
<1>5. CASE Break BY <1>2, <1>5 DEF Break, Caught
<1>6. CASE BodyOver BY <1>2, <1>6 DEF BodyOver
<1>7. CASE Parse BY <1>2, <1>7 DEF Parse
<1>8. CASE Yield BY <1>2, <1>8 DEF Yield, Caught
<1>9. CASE End BY <1>2, <1>9 DEF End
<1>10. CASE Wake BY <1>10 DEF Wake, StreamShape
<1>11. CASE \E c \in Calls : StreamThread(c)
  BY <1>11 DEF StreamThread, streamVars, StreamShape, Next
<1>12. CASE \E c \in beside : PlainCaller(c)
  <2>1. PICK c \in beside : PlainCaller(c)
    BY <1>12
  <2>2. c \in Calls /\ (Submit(c) \/ Answered(c)) /\ UNCHANGED streamVars
    BY <1>0, <2>1 DEF PlainCaller, StreamShape
  <2> QED BY <2>2 DEF streamVars, StreamShape, Next, Caller
<1>13. CASE CancelStream
  <2>1. Cancel(StreamCalls) /\ StreamCalls \in SUBSET Calls /\ UNCHANGED streamVars
    BY <1>0, <1>13 DEF CancelStream
  <2> QED BY <2>1 DEF streamVars, StreamShape, Next
<1>14. CASE Evict
  BY <1>14 DEF Evict, streamVars, StreamShape, Next
<1>15. CASE UNCHANGED allVars
  BY <1>15 DEF allVars, streamVars, StreamShape
<1> QED BY <1>1, <1>3, <1>4, <1>5, <1>6, <1>7, <1>8, <1>9, <1>10, <1>11, <1>12, <1>13,
           <1>14, <1>15 DEF StreamNext, Steps, Resting

\* make_resilient_stream, whatever it does, uses the client as any caller may:
\* its behaviours are the client's.
THEOREM StreamImplementsClient == StreamSpec => Spec
<1>1. StreamInit => Init /\ StreamShape
  BY StreamAssumption DEF StreamInit, StreamShape, StreamAssumption
<1>2. StreamShape /\ [StreamNext]_allVars => StreamShape' /\ [Next]_vars
  BY HttpAssumption, StreamAssumption, StreamStep
<1> QED BY <1>1, <1>2, PTL DEF StreamSpec, Spec

\* With plain calls, reconnects, evictions and cancellations at any time: no
\* two calls share a connection, and no stream completes that was not read and
\* delivered whole.
THEOREM StreamKeepsClient == StreamSpec => []HttpInv
  BY HttpInvariant, StreamImplementsClient

\* A set of numbers has a least.
LEMMA Least == \A T \in SUBSET Nat : T # {} => \E m \in T : \A n \in T : m <= n
<1> SUFFICES ASSUME NEW T \in SUBSET Nat, T # {}
             PROVE  \E m \in T : \A n \in T : m <= n
  OBVIOUS
<1> DEFINE R == OpToRel(<, Nat)
<1>1. \A n, m \in Nat : n < m => <<n, m>> \in R
  BY DEF OpToRel
<1> HIDE DEF R
<1>2. IsWellFoundedOn(R, Nat)
  BY NatLessThanWellFounded DEF R
<1>3. PICK m \in T : \A n \in T : ~(<<n, m>> \in R)
  BY <1>2, WFMin
<1>4. \A n \in T : ~(n < m)
  BY <1>1, <1>3
<1> QED BY <1>4

\* f has what the first i sequences of ss are when they are joined.
Joins(f, ss) == f = [i \in 1..Len(ss) |-> IF i = 1 THEN ss[i] ELSE f[i - 1] \o ss[i]]

\* FlattenSeq joins them all.
LEMMA FlattenIs ==
    ASSUME NEW ss
    PROVE  FlattenSeq(ss) = IF Len(ss) = 0 THEN ss ELSE (CHOOSE f : Joins(f, ss))[Len(ss)]
  BY DEF FlattenSeq, Joins

\* There is one way to.
LEMMA JoinsUnique ==
    ASSUME NEW ss, Len(ss) \in Nat, NEW f, NEW g, Joins(f, ss), Joins(g, ss) PROVE f = g
<1> PICK n \in Nat : n = Len(ss)
  OBVIOUS
<1>1. /\ f = [i \in 1..n |-> f[i]] /\ g = [i \in 1..n |-> g[i]]
      /\ \A i \in 1..n : f[i] = IF i = 1 THEN ss[i] ELSE f[i - 1] \o ss[i]
      /\ \A i \in 1..n : g[i] = IF i = 1 THEN ss[i] ELSE g[i - 1] \o ss[i]
  BY DEF Joins
<1>2. \A i \in 1..n : f[i] = g[i]
  <2> SUFFICES ASSUME NEW k \in 1..n, f[k] # g[k] PROVE FALSE
    OBVIOUS
  <2> DEFINE T == {i \in 1..n : f[i] # g[i]}
  <2>1. PICK m \in T : \A i \in T : m <= i
    <3>1. T \in SUBSET Nat /\ k \in T
      OBVIOUS
    <3> QED BY <3>1, Least
  <2>2. m # 1
    BY <1>1, <2>1
  <2>3. m - 1 \in 1..n /\ m - 1 \notin T
    BY <2>1, <2>2
  <2>4. f[m - 1] = g[m - 1] /\ m \in 1..n /\ f[m] # g[m]
    BY <2>1, <2>3
  <2>5. f[m] = f[m - 1] \o ss[m] /\ g[m] = g[m - 1] \o ss[m]
    BY <1>1, <2>2, <2>4
  <2> QED BY <2>4, <2>5
<1> QED BY <1>1, <1>2

\* What there is to join f with one sequence more.
LEMMA JoinsMore ==
    ASSUME NEW S, NEW ss \in Seq(Seq(S)), NEW s \in Seq(S), NEW f, Joins(f, ss),
           NEW n, n = Len(ss) + 1
    PROVE  Joins([i \in 1..n |-> IF i = n THEN (IF n = 1 THEN s ELSE f[n - 1] \o s) ELSE f[i]],
                 Append(ss, s))
<1> DEFINE g == [i \in 1..n |-> IF i = n THEN (IF n = 1 THEN s ELSE f[n - 1] \o s) ELSE f[i]]
           q == Append(ss, s)
<1>1. n \in Nat /\ n >= 1 /\ Len(q) = n /\ q[n] = s /\ \A i \in 1..(n - 1) : q[i] = ss[i]
  OBVIOUS
<1>2. \A i \in 1..(n - 1) : f[i] = IF i = 1 THEN ss[i] ELSE f[i - 1] \o ss[i]
  <2>1. 1..Len(ss) = 1..(n - 1)
    OBVIOUS
  <2> QED BY <2>1 DEF Joins
<1> HIDE DEF q
<1>3. ASSUME NEW i \in 1..n PROVE g[i] = IF i = 1 THEN q[i] ELSE g[i - 1] \o q[i]
  <2>1. CASE i = n
    <3>1. CASE n = 1
      BY <1>1, <2>1, <3>1
    <3>2. CASE n # 1
      <4>1. n - 1 \in 1..n /\ n - 1 # n
        BY <1>1, <3>2
      <4>2. g[n - 1] = f[n - 1] /\ g[n] = f[n - 1] \o s
        BY <1>1, <3>2, <4>1
      <4> QED BY <1>1, <2>1, <3>2, <4>2
    <3> QED BY <3>1, <3>2
  <2>2. CASE i # n
    <3>1. i \in 1..(n - 1) /\ g[i] = f[i] /\ q[i] = ss[i]
      BY <1>1, <2>2
    <3>2. i # 1 => i - 1 \in 1..n /\ i - 1 # n /\ g[i - 1] = f[i - 1]
      BY <1>1, <2>2
    <3> QED BY <1>2, <3>1, <3>2
  <2> QED BY <2>1, <2>2
<1>4. g = [i \in 1..Len(q) |-> IF i = 1 THEN q[i] ELSE g[i - 1] \o q[i]]
  <2>1. g = [i \in 1..n |-> g[i]]
    OBVIOUS
  <2> HIDE DEF g
  <2> QED BY <1>1, <1>3, <2>1
<1> QED BY <1>4 DEF Joins, q

\* Any sequences can be joined.
LEMMA JoinsExists == ASSUME NEW S, NEW ss \in Seq(Seq(S)) PROVE \E f : Joins(f, ss)
<1> DEFINE T == {n \in Nat : \E x \in Seq(Seq(S)) : Len(x) = n /\ ~\E f : Joins(f, x)}
<1> SUFFICES ASSUME T # {} PROVE FALSE
  <2>1. Len(ss) \in Nat
    OBVIOUS
  <2> QED BY <2>1
<1>1. PICK m \in T : \A n \in T : m <= n
  <2>1. T \in SUBSET Nat
    OBVIOUS
  <2> QED BY <2>1, Least
<1>2. PICK x \in Seq(Seq(S)) : Len(x) = m /\ ~\E f : Joins(f, x)
  BY <1>1
<1>3. m # 0
  <2> SUFFICES ASSUME m = 0 PROVE FALSE
    OBVIOUS
  <2> DEFINE f == [i \in 1..0 |-> x[i]]
  <2>1. 1..0 = {} /\ 1..Len(x) = {}
    BY <1>2
  <2>2. f = [i \in 1..Len(x) |-> IF i = 1 THEN x[i] ELSE f[i - 1] \o x[i]]
    BY <2>1
  <2> QED BY <1>2, <2>2 DEF Joins
<1> DEFINE y == SubSeq(x, 1, m - 1)
<1>4. y \in Seq(Seq(S)) /\ Len(y) = m - 1 /\ m - 1 \in Nat /\ x[m] \in Seq(S)
  BY <1>1, <1>2, <1>3
<1>5. x = Append(y, x[m])
  BY <1>1, <1>2, <1>3, <1>4
<1>6. m - 1 \notin T
  BY <1>1, <1>4
<1>7. PICK f : Joins(f, y)
  BY <1>4, <1>6
<1>8. \E g : Joins(g, Append(y, x[m]))
  <2>1. PICK n : n = Len(y) + 1
    OBVIOUS
  <2> HIDE DEF y
  <2> QED BY <1>4, <1>7, <2>1, JoinsMore
<1> QED BY <1>2, <1>5, <1>8
\* Joining one sequence more.
LEMMA FlattenAppend ==
    ASSUME NEW S, NEW ss \in Seq(Seq(S)), NEW s \in Seq(S)
    PROVE  FlattenSeq(Append(ss, s)) = FlattenSeq(ss) \o s
<1> PICK n : n = Len(ss) + 1
  OBVIOUS
<1> PICK q : q = Append(ss, s)
  OBVIOUS
<1>1. PICK f : Joins(f, ss)
  BY JoinsExists
<1>2. PICK g : g = [i \in 1..n |-> IF i = n THEN (IF n = 1 THEN s ELSE f[n - 1] \o s) ELSE f[i]]
  OBVIOUS
<1>3. Joins(g, q)
  BY ZenonT(40), <1>1, <1>2, JoinsMore
<1>4. n \in Nat /\ n >= 1 /\ Len(q) = n /\ Len(ss) = n - 1 /\ Len(q) \in Nat
  OBVIOUS
<1>5. (CHOOSE h : Joins(h, q)) = g
  <2>1. Joins(CHOOSE h : Joins(h, q), q)
    BY <1>3
  <2> QED BY <1>3, <1>4, <2>1, JoinsUnique
<1>6. FlattenSeq(q) = g[n]
  <2>1. FlattenSeq(q) = IF Len(q) = 0 THEN q ELSE (CHOOSE h : Joins(h, q))[Len(q)]
    BY FlattenIs
  <2>2. FlattenSeq(q) = IF Len(q) = 0 THEN q ELSE g[Len(q)]
    BY <1>5, <2>1
  <2> QED BY <1>4, <2>2
<1>7. CASE n = 1
  <2>1. ss = <<>> /\ FlattenSeq(ss) = ss
    BY <1>4, <1>7, FlattenIs
  <2>2. g[n] = s
    BY <1>2, <1>7
  <2> QED BY <1>6, <2>1, <2>2
<1>8. CASE n # 1
  <2>1. (CHOOSE h : Joins(h, ss)) = f
    <3>1. Joins(CHOOSE h : Joins(h, ss), ss)
      BY <1>1
    <3> QED BY <1>1, <1>4, <3>1, JoinsUnique
  <2>2. FlattenSeq(ss) = f[n - 1]
    BY <1>4, <1>8, <2>1, FlattenIs
  <2>3. g[n] = f[n - 1] \o s
    BY <1>2, <1>4, <1>8
  <2> QED BY <1>6, <2>2, <2>3
<1> QED BY <1>7, <1>8

\* Every sequence is in a set that has the empty one and, with a sequence, those
\* that have one element more.
LEMMA BuiltUp ==
    ASSUME NEW S, NEW X, <<>> \in X,
           \A s \in X : \A e \in S : Append(s, e) \in X
    PROVE  Seq(S) \subseteq X
<1> SUFFICES ASSUME NEW u \in Seq(S), u \notin X PROVE FALSE
  OBVIOUS
<1> DEFINE T == {n \in Nat : \E x \in Seq(S) : Len(x) = n /\ x \notin X}
<1>1. PICK m \in T : \A n \in T : m <= n
  <2>1. T \in SUBSET Nat /\ Len(u) \in T
    BY LenProperties
  <2> QED BY <2>1, Least
<1>2. PICK x \in Seq(S) : Len(x) = m /\ x \notin X
  BY <1>1
<1>3. x # <<>>
  BY <1>2
<1>4. PICK y \in Seq(S), e \in S : x = Append(y, e)
  BY <1>3, SequenceEmptyOrAppend
<1>5. Len(y) \in Nat /\ m = Len(y) + 1
  BY <1>2, <1>4, AppendProperties, LenProperties
<1>6. y \in X
  <2> SUFFICES ASSUME y \notin X PROVE FALSE
    OBVIOUS
  <2>1. Len(y) \in T
    BY <1>5
  <2>2. m <= Len(y)
    BY <1>1, <2>1
  <2> QED BY <1>5, <2>2
<1> QED BY <1>2, <1>4, <1>6

\* No pieces put together are nothing, and pieces put together are of what they
\* are of.
LEMMA FlattenEmpty == FlattenSeq(<<>>) = <<>>
  BY FlattenIs

LEMMA FlattenTyped ==
    ASSUME NEW S, NEW ss \in Seq(Seq(S)) PROVE FlattenSeq(ss) \in Seq(S)
<1> DEFINE X == {x \in Seq(Seq(S)) : FlattenSeq(x) \in Seq(S)}
<1>1. <<>> \in X
  <2>1. <<>> \in Seq(Seq(S)) /\ <<>> \in Seq(S)
    BY EmptySeq
  <2> QED BY <2>1, FlattenEmpty
<1>2. ASSUME NEW x \in X, NEW e \in Seq(S) PROVE Append(x, e) \in X
  <2>1. FlattenSeq(Append(x, e)) = FlattenSeq(x) \o e
    BY FlattenAppend
  <2>2. FlattenSeq(x) \o e \in Seq(S)
    BY ConcatProperties
  <2>3. Append(x, e) \in Seq(Seq(S))
    BY AppendProperties
  <2> QED BY <2>1, <2>2, <2>3
<1> HIDE DEF X
<1>3. Seq(Seq(S)) \subseteq X
  BY <1>1, <1>2, BuiltUp
<1> QED BY <1>3 DEF X

\* What two lists of sequences give, joined one behind the other.
LEMMA FlattenJoin ==
    ASSUME NEW S, NEW ss \in Seq(Seq(S)), NEW tt \in Seq(Seq(S))
    PROVE  FlattenSeq(ss \o tt) = FlattenSeq(ss) \o FlattenSeq(tt)
<1> DEFINE X == {x \in Seq(Seq(S)) : FlattenSeq(ss \o x) = FlattenSeq(ss) \o FlattenSeq(x)}
<1>0. FlattenSeq(ss) \in Seq(S)
  BY FlattenTyped
<1>1. <<>> \in X
  <2>1. ss \o <<>> = ss /\ FlattenSeq(ss) \o <<>> = FlattenSeq(ss)
    BY <1>0, ConcatEmptySeq
  <2>2. <<>> \in Seq(Seq(S))
    BY EmptySeq
  <2>3. FlattenSeq(ss \o <<>>) = FlattenSeq(ss) \o FlattenSeq(<<>>)
    BY <2>1, FlattenEmpty
  <2> QED BY <2>2, <2>3
<1>2. ASSUME NEW x \in X, NEW e \in Seq(S) PROVE Append(x, e) \in X
  <2>1. ss \o Append(x, e) = Append(ss \o x, e)
    <3>1. <<e>> \in Seq(Seq(S)) /\ ss \o x \in Seq(Seq(S))
      BY ConcatProperties
    <3>2. (ss \o x) \o <<e>> = ss \o (x \o <<e>>)
      BY SMTT(30), <3>1, ConcatAssociative
    <3> QED BY <3>1, <3>2, AppendIsConcat
  <2>2. FlattenSeq(Append(ss \o x, e)) = FlattenSeq(ss \o x) \o e
    <3>1. ss \o x \in Seq(Seq(S))
      BY ConcatProperties
    <3> QED BY <3>1, FlattenAppend
  <2>3. FlattenSeq(Append(x, e)) = FlattenSeq(x) \o e /\ FlattenSeq(x) \in Seq(S)
    BY FlattenAppend, FlattenTyped
  <2>4. (FlattenSeq(ss) \o FlattenSeq(x)) \o e = FlattenSeq(ss) \o (FlattenSeq(x) \o e)
    BY SMTT(30), <1>0, <2>3, ConcatAssociative
  <2>5. Append(x, e) \in Seq(Seq(S))
    BY AppendProperties
  <2> QED BY <2>1, <2>2, <2>3, <2>4, <2>5
<1> HIDE DEF X
<1>3. Seq(Seq(S)) \subseteq X
  BY <1>1, <1>2, BuiltUp
<1> QED BY <1>3 DEF X

-----------------------------------------------------------------------------
(* Numbers in order *)

\* The greatest and the least of a set that has one.
LEMMA MaxIs ==
    ASSUME NEW S \in SUBSET Int, NEW x \in S, \A y \in S : y <= x
    PROVE  Max(S) = x
<1>0. \A y \in S : y \in Int
  OBVIOUS
<1>1. x \in S /\ \A y \in S : x >= y
  BY <1>0
<1>2. PICK m : m = Max(S)
  OBVIOUS
<1>3. m \in S /\ \A y \in S : m >= y
  BY <1>1, <1>2 DEF Max
<1>4. m >= x /\ x >= m /\ m \in Int /\ x \in Int
  BY <1>0, <1>1, <1>3
<1> QED BY <1>2, <1>4

\* Min is the least, and a set of numbers has it.
LEMMA MinIs ==
    ASSUME NEW S \in SUBSET Int, NEW x \in S, \A y \in S : x <= y
    PROVE  Min(S) = x
<1>0. \A y \in S : y \in Int
  OBVIOUS
<1>1. x \in S /\ \A y \in S : x <= y
  OBVIOUS
<1>2. PICK m : m = Min(S)
  OBVIOUS
<1>3. m \in S /\ \A y \in S : m <= y
  BY <1>1, <1>2 DEF Min
<1>4. m <= x /\ x <= m /\ m \in Int /\ x \in Int
  BY <1>0, <1>1, <1>3
<1> QED BY <1>2, <1>4

LEMMA MinOf ==
    ASSUME NEW S \in SUBSET Nat, S # {}
    PROVE  Min(S) \in S /\ \A y \in S : Min(S) <= y
<1>1. PICK m \in S : \A n \in S : m <= n
  BY Least
<1> QED BY <1>1, MinIs

\* A bounded set has a greatest number.
LEMMA MaxOf ==
    ASSUME NEW b \in Nat, NEW S \in SUBSET (0..b), S # {}
    PROVE  Max(S) \in S /\ \A y \in S : y <= Max(S)
<1> DEFINE T == {n \in Nat : \A y \in S : y <= n}
<1>0. \A y \in S : y \in Nat /\ y <= b
  OBVIOUS
<1>1. b \in T
  BY <1>0
<1>2. PICK m \in T : \A n \in T : m <= n
  <2>1. T \in SUBSET Nat /\ T # {}
    BY <1>1
  <2> QED BY <2>1, Least
<1>3. m \in S
  <2> SUFFICES ASSUME m \notin S PROVE FALSE
    OBVIOUS
  <2>1. PICK y \in S : y \in Nat
    BY <1>0
  <2>2. y <= m /\ y # m /\ \A z \in S : z <= m /\ z # m
    BY <1>2, <2>1
  <2>3. m - 1 \in T
    BY <1>0, <1>2, <2>1, <2>2
  <2> QED BY <1>2, <2>3
<1>4. Max(S) = m
  BY <1>2, <1>3, MaxIs
<1> QED BY <1>2, <1>3, <1>4

\* How many of S come before x.
Rank(S, x) == Cardinality({y \in S : y < x})

\* Ranks and sizes in a bounded set are numbers, and no rank is above the size.
LEMMA RankFacts ==
    ASSUME NEW b \in Nat, NEW S \in SUBSET (0..b)
    PROVE  /\ IsFiniteSet(S) /\ Cardinality(S) \in Nat
           /\ \A x : IsFiniteSet({y \in S : y < x}) /\ Rank(S, x) \in Nat
           /\ \A x : Rank(S, x) <= Cardinality(S)
<1>1. IsFiniteSet(S)
  <2>1. IsFiniteSet(0..b)
    BY FS_Interval
  <2> QED BY <2>1, FS_Subset
<1>2. \A x : {y \in S : y < x} \in SUBSET S
  OBVIOUS
<1>3. \A x : IsFiniteSet({y \in S : y < x}) /\ Rank(S, x) <= Cardinality(S)
  BY <1>1, <1>2, FS_Subset DEF Rank
<1>4. \A x : Rank(S, x) \in Nat
  BY <1>3, FS_CardinalityType DEF Rank
<1> QED BY <1>1, <1>3, <1>4, FS_CardinalityType

\* Of two numbers of S the smaller comes earlier.
LEMMA RankGrows ==
    ASSUME NEW b \in Nat, NEW S \in SUBSET (0..b), NEW x \in S, NEW y \in Int, x < y
    PROVE  Rank(S, x) < Rank(S, y)
<1> DEFINE X == {z \in S : z < x}  Y == {z \in S : z < y}
<1>0. \A z \in S : z \in Int
  OBVIOUS
<1>1. X \cup {x} \in SUBSET Y /\ x \notin X
  <2>1. \A z \in X : z \in Y
    BY <1>0
  <2>2. x \in Y /\ x \notin X
    BY <1>0
  <2> QED BY <2>1, <2>2
<1>2. IsFiniteSet(X) /\ IsFiniteSet(Y) /\ Cardinality(X) \in Nat /\ Cardinality(Y) \in Nat
  BY RankFacts DEF Rank
<1>3. Cardinality(X \cup {x}) = Cardinality(X) + 1
  BY <1>1, <1>2, FS_AddElement
<1>4. Cardinality(X \cup {x}) <= Cardinality(Y)
  BY <1>1, <1>2, FS_Subset
<1> QED BY <1>2, <1>3, <1>4 DEF Rank

\* What follows x in S comes right after it.
LEMMA RankNext ==
    ASSUME NEW b \in Nat, NEW S \in SUBSET (0..b), NEW x \in S, NEW y \in Int, x < y,
           \A z \in S : z <= x \/ y <= z
    PROVE  Rank(S, y) = Rank(S, x) + 1
<1> DEFINE X == {z \in S : z < x}  Y == {z \in S : z < y}
<1>0. \A z \in S : z \in Int
  OBVIOUS
<1>1. X \cup {x} = Y /\ x \notin X
  <2>1. \A z \in S : z < y <=> z < x \/ z = x
    BY <1>0
  <2>2. x \notin X
    BY <1>0
  <2> QED BY <2>1, <2>2
<1>2. IsFiniteSet(X)
  BY RankFacts
<1> QED BY <1>1, <1>2, FS_AddElement DEF Rank

\* InOrder has at each place the number with so many before it.
LEMMA InOrderAt ==
    ASSUME NEW b \in Nat, NEW S \in SUBSET (0..b), NEW x \in S
    PROVE  /\ Rank(S, x) + 1 \in 1..Cardinality(S)
           /\ InOrder(S)[Rank(S, x) + 1] = x
<1> DEFINE k == Rank(S, x) + 1
<1>0. Rank(S, x) \in Nat /\ Cardinality(S) \in Nat /\ Rank(S, b + 1) <= Cardinality(S)
  BY RankFacts
<1>1. Rank(S, x) < Rank(S, b + 1) /\ Rank(S, b + 1) \in Nat
  <2>1. b + 1 \in Int /\ x < b + 1
    OBVIOUS
  <2> QED BY <2>1, RankGrows, RankFacts
<1>2. k \in 1..Cardinality(S)
  BY <1>0, <1>1
<1>3. InOrder(S)[k] = CHOOSE z \in S : Rank(S, z) = k - 1
  BY <1>2 DEF InOrder, Rank
<1>4. Rank(S, x) = k - 1
  BY <1>0
<1>5. \A z \in S : Rank(S, z) = k - 1 => z = x
  <2> SUFFICES ASSUME NEW z \in S, Rank(S, z) = k - 1, z # x PROVE FALSE
    OBVIOUS
  <2>1. x \in Int /\ z \in Int /\ (z < x \/ x < z)
    OBVIOUS
  <2>2. Rank(S, z) < Rank(S, x) \/ Rank(S, x) < Rank(S, z)
    BY <2>1, RankGrows
  <2> QED BY <1>0, <1>4, <2>2
<1> HIDE DEF k
<1>6. (CHOOSE z \in S : Rank(S, z) = k - 1) = x
  BY <1>4, <1>5
<1> QED BY <1>2, <1>3, <1>6 DEF k

\* And every place is some number's.
LEMMA InOrderOnto ==
    ASSUME NEW b \in Nat, NEW S \in SUBSET (0..b), NEW k \in 1..Cardinality(S)
    PROVE  \E x \in S : Rank(S, x) = k - 1
<1>0. Cardinality(S) \in Nat /\ \A z : Rank(S, z) \in Nat
  BY RankFacts
<1> DEFINE T == {n \in 1..Cardinality(S) : \A x \in S : Rank(S, x) # n - 1}
<1> SUFFICES ASSUME T # {} PROVE FALSE
  OBVIOUS
<1>a. \A z \in S : z \in Nat
  OBVIOUS
<1>1. PICK m \in T : \A n \in T : m <= n
  <2>1. T \in SUBSET Nat
    OBVIOUS
  <2> QED BY <2>1, Least
<1>2. S # {}
  <2>1. Cardinality(S) # 0
    BY <1>0
  <2> QED BY <2>1, FS_EmptySet
<1>3. CASE m = 1
  <2>1. Min(S) \in S /\ \A y \in S : Min(S) <= y
    <3>1. S \in SUBSET Nat
      BY <1>a
    <3> QED BY <1>2, <3>1, MinOf
  <2>2. PICK x : x = Min(S)
    OBVIOUS
  <2>a. x \in S /\ \A y \in S : x <= y
    BY <2>1, <2>2
  <2>3. \A y \in S : ~(y < x)
    BY <1>a, <2>a
  <2>4. {y \in S : y < x} = {}
    BY <2>3
  <2>5. Rank(S, x) = 0
    BY <2>4, FS_EmptySet DEF Rank
  <2>6. x \in S /\ Rank(S, x) = m - 1
    BY <1>3, <2>1, <2>2, <2>5
  <2> QED BY <1>1, <2>6
<1>4. CASE m # 1
  <2>1. m - 1 \in 1..Cardinality(S) /\ m - 1 \notin T
    BY <1>0, <1>1, <1>4
  <2>2. PICK x \in S : Rank(S, x) = m - 2
    BY <1>1, <2>1
  <2> DEFINE U == {y \in S : x < y}
  <2>3. U # {}
    <3> SUFFICES ASSUME U = {} PROVE FALSE
      OBVIOUS
    <3>1. S = {y \in S : y < x} \cup {x} /\ x \notin {y \in S : y < x}
      <4>1. \A y \in S : y < x \/ y = x
        BY <1>a
      <4>2. ~(x < x)
        BY <1>a
      <4> QED BY <4>1, <4>2
    <3>2. IsFiniteSet({y \in S : y < x})
      BY RankFacts
    <3>3. Cardinality(S) = Rank(S, x) + 1
      BY <3>1, <3>2, FS_AddElement DEF Rank
    <3> QED BY <1>0, <1>1, <2>2, <3>3
  <2>4. PICK y \in U : \A z \in U : y <= z
    <3>1. U \in SUBSET Nat
      BY <1>a
    <3> QED BY <2>3, <3>1, Least
  <2>5. Rank(S, y) = Rank(S, x) + 1
    <3>1. y \in Int /\ x < y /\ \A z \in S : z <= x \/ y <= z
      BY <1>a, <2>4
    <3> QED BY <3>1, RankNext
  <2> QED BY <1>1, <1>0, <2>2, <2>4, <2>5
<1> QED BY <1>3, <1>4

\* One number more, greater than all.
LEMMA InOrderMore ==
    ASSUME NEW b \in Nat, NEW S \in SUBSET (0..b), NEW n \in Nat, \A x \in S : x < n
    PROVE  /\ Cardinality(S \cup {n}) = Cardinality(S) + 1
           /\ InOrder(S \cup {n})[Cardinality(S) + 1] = n
           /\ \A k \in 1..Cardinality(S) :
                 InOrder(S)[k] \in S /\ InOrder(S \cup {n})[k] = InOrder(S)[k]
<1> PICK B \in Nat : b <= B /\ n <= B
  <2>1. b + n \in Nat /\ b <= b + n /\ n <= b + n
    OBVIOUS
  <2> QED BY <2>1
<1> DEFINE U == S \cup {n}
<1>0. U \in SUBSET (0..B) /\ S \in SUBSET (0..B) /\ n \notin S
  OBVIOUS
<1>1. IsFiniteSet(S) /\ Cardinality(S) \in Nat
  BY RankFacts
<1>2. Cardinality(U) = Cardinality(S) + 1
  BY <1>0, <1>1, FS_AddElement
<1>3. \A x \in S : Rank(U, x) = Rank(S, x)
  <2> SUFFICES ASSUME NEW x \in S PROVE Rank(U, x) = Rank(S, x)
    OBVIOUS
  <2>1. x < n /\ x \in Int
    OBVIOUS
  <2>2. {y \in U : y < x} = {y \in S : y < x}
    BY <2>1
  <2> QED BY <2>2 DEF Rank
<1>4. Rank(U, n) = Cardinality(S)
  <2>1. \A y \in S : y \in Int
    OBVIOUS
  <2>2. \A y \in S : y < n
    OBVIOUS
  <2>3. ~(n < n)
    OBVIOUS
  <2>4. {y \in U : y < n} = S
    BY <2>2, <2>3
  <2> QED BY <2>4 DEF Rank
<1> HIDE DEF U
<1>5. InOrder(U)[Cardinality(S) + 1] = n
  BY <1>0, <1>4, InOrderAt DEF U
<1>6. ASSUME NEW k \in 1..Cardinality(S)
      PROVE  InOrder(S)[k] \in S /\ InOrder(U)[k] = InOrder(S)[k]
  <2>1. PICK x \in S : Rank(S, x) = k - 1
    BY InOrderOnto
  <2>2. Rank(S, x) + 1 = k /\ Rank(U, x) + 1 = k /\ x \in U
    BY <1>3, <2>1 DEF U
  <2>3. InOrder(S)[k] = x
    BY <2>1, <2>2, InOrderAt
  <2>4. InOrder(U)[k] = x
    BY <1>0, <2>2, InOrderAt
  <2> QED BY <2>1, <2>3, <2>4
<1> QED BY <1>2, <1>5, <1>6 DEF U

\* The numbers of S up to n come first in S.
UpTo(S, n) == {x \in S : x <= n}

\* The numbers up to n, in order, are what the numbers in order begin with.
LEMMA InOrderBegins ==
    ASSUME NEW b \in Nat, NEW S \in SUBSET (0..b), NEW n \in Nat
    PROVE  /\ Cardinality(UpTo(S, n)) \in Nat /\ Cardinality(UpTo(S, n)) <= Cardinality(S)
           /\ \A k \in 1..Cardinality(UpTo(S, n)) : InOrder(S)[k] = InOrder(UpTo(S, n))[k]
<1> PICK R : R = UpTo(S, n)
  OBVIOUS
<1>a. R = {x \in S : x <= n}
  BY DEF UpTo
<1>0. R \in SUBSET (0..b) /\ R \in SUBSET S /\ \A x \in S : x \in Int
  <2>1. \A x \in S : x \in Int
    OBVIOUS
  <2>2. \A x \in R : x \in S
    BY <1>a
  <2>3. \A x \in S : x \in 0..b
    OBVIOUS
  <2> QED BY <2>1, <2>2, <2>3
<1>1. Cardinality(R) \in Nat /\ Cardinality(R) <= Cardinality(S)
  <2>1. IsFiniteSet(S)
    BY RankFacts
  <2> QED BY <1>0, <2>1, FS_Subset, RankFacts
<1>2. ASSUME NEW k \in 1..Cardinality(R) PROVE InOrder(S)[k] = InOrder(R)[k]
  <2>1. PICK x \in R : Rank(R, x) = k - 1
    BY <1>0, InOrderOnto
  <2>2. \A y \in S : y < x => y \in R
    BY <1>0, <1>a, <2>1
  <2>3. {y \in S : y < x} = {y \in R : y < x}
    BY <1>0, <2>2
  <2>4. Rank(S, x) = k - 1 /\ x \in S
    BY <1>0, <2>1, <2>3 DEF Rank
  <2>5. InOrder(R)[k] = x
    <3>1. InOrder(R)[Rank(R, x) + 1] = x
      BY <1>0, InOrderAt
    <3> QED BY <1>1, <2>1, <3>1
  <2>6. InOrder(S)[k] = x
    <3>1. InOrder(S)[Rank(S, x) + 1] = x
      BY <2>4, InOrderAt
    <3> QED BY <1>1, <2>4, <3>1
  <2> QED BY <2>5, <2>6
<1> QED BY <1>1, <1>2

-----------------------------------------------------------------------------
(* Lines *)

\* Where a line may begin: at the beginning of a text, or behind a line feed.
Starts(body) == {0} \cup LineFeeds(body)

\* Where lines end and start, in a body; one more starts than ends.
LEMMA StartsTyped ==
    ASSUME NEW S, NEW body \in Seq(S)
    PROVE  /\ Len(body) \in Nat
           /\ LineFeeds(body) \in SUBSET (1..Len(body)) /\ Starts(body) \in SUBSET (0..Len(body))
           /\ LineFeeds(body) \in SUBSET (0..Len(body))
           /\ Cardinality(LineFeeds(body)) \in Nat
           /\ Cardinality(Starts(body)) = Cardinality(LineFeeds(body)) + 1
<1>0. Len(body) \in Nat /\ DOMAIN body = 1..Len(body)
  BY LenProperties
<1>1. LineFeeds(body) \in SUBSET (1..Len(body))
  BY <1>0 DEF LineFeeds
<1>2. LineFeeds(body) \in SUBSET (0..Len(body)) /\ 0 \notin LineFeeds(body) /\ 0 \in 0..Len(body)
  BY <1>0, <1>1
<1>3. IsFiniteSet(LineFeeds(body)) /\ Cardinality(LineFeeds(body)) \in Nat
  BY <1>0, <1>2, RankFacts
<1>4. LineFeeds(body) \cup {0} = Starts(body)
  BY DEF Starts
<1>5. Cardinality(Starts(body)) = Cardinality(LineFeeds(body)) + 1
  BY <1>2, <1>3, <1>4, FS_AddElement
<1>6. Starts(body) \in SUBSET (0..Len(body))
  BY <1>2, <1>4
<1> QED BY <1>0, <1>1, <1>2, <1>3, <1>5, <1>6

\* A line without its carriage return is of the same tokens.
LEMMA ChompTyped == ASSUME NEW S, NEW line \in Seq(S) PROVE Chomp(line) \in Seq(S)
  BY DEF Chomp, Front, Last

\* As many lines as line feeds, each a text.
LEMMA LinesTyped ==
    ASSUME NEW S, NEW body \in Seq(S)
    PROVE  CutAtLineFeeds(body) \in [1..Cardinality(LineFeeds(body)) -> Seq(S)]
<1> DEFINE at == InOrder(Starts(body))  L == Cardinality(LineFeeds(body))
<1>1. L \in Nat /\ Cardinality(Starts(body)) = L + 1
  BY StartsTyped
<1> DEFINE b == Len(body)
<1>2. \A k \in 1..(L + 1) : at[k] \in 0..b
  <2> SUFFICES ASSUME NEW k \in 1..(L + 1) PROVE at[k] \in 0..b
    OBVIOUS
  <2>1. Len(body) \in Nat /\ Starts(body) \in SUBSET (0..Len(body))
    BY StartsTyped
  <2>2. PICK x \in Starts(body) : Rank(Starts(body), x) = k - 1
    BY <1>1, <2>1, InOrderOnto
  <2>3. at[Rank(Starts(body), x) + 1] = x
    BY <2>1, InOrderAt
  <2>4. at[k] = x
    BY <1>1, <2>2, <2>3
  <2> QED BY <2>1, <2>4
<1>3. CutAtLineFeeds(body) =
         [k \in 1..L |-> Chomp(SubSeq(body, at[k] + 1, at[k + 1] - 1))]
  BY DEF CutAtLineFeeds, Starts
<1> HIDE DEF at, L
<1>4. ASSUME NEW k \in 1..L PROVE Chomp(SubSeq(body, at[k] + 1, at[k + 1] - 1)) \in Seq(S)
  <2>0. b \in Nat /\ k \in 1..(L + 1) /\ k + 1 \in 1..(L + 1)
    BY <1>1, StartsTyped
  <2>1. PICK i \in Int, j \in Int : i = at[k] + 1 /\ j = at[k + 1] - 1 /\ 1 <= i /\ j <= b
    BY SMTT(30), <1>2, <2>0
  <2>2. SubSeq(body, i, j) \in Seq(S)
    BY SMTT(30), <2>0, <2>1, SubSeqProperties
  <2> QED BY <2>1, <2>2, ChompTyped
<1> QED BY <1>3, <1>4 DEF L

\* The line that begins behind c and ends at the next line feed, n: its number,
\* and what it says.
LEMMA LineAt ==
    ASSUME NEW S, NEW body \in Seq(S), NEW c \in Starts(body), NEW n \in LineFeeds(body),
           c < n, \A e \in LineFeeds(body) : e <= c \/ n <= e,
           NEW k, k = Rank(Starts(body), c)
    PROVE  /\ k \in Nat
           /\ k + 1 \in 1..Cardinality(LineFeeds(body))
           /\ Rank(Starts(body), n) = k + 1
           /\ CutAtLineFeeds(body)[k + 1] = Chomp(SubSeq(body, c + 1, n - 1))
<1> DEFINE Z == Starts(body)  b == Len(body)  L == Cardinality(LineFeeds(body))
<1>1. b \in Nat /\ Z \in SUBSET (0..b) /\ L \in Nat /\ Cardinality(Z) = L + 1
  BY StartsTyped
<1>2. n \in Z /\ n \in Int /\ c \in Int /\ 0 <= c /\ c \in 0..b
  BY <1>1, StartsTyped DEF Starts
<1>3. \A z \in Z : z <= c \/ n <= z
  <2>1. \A z \in Z : z = 0 \/ z \in LineFeeds(body)
    BY DEF Starts
  <2> QED BY <1>2, <2>1
<1> HIDE DEF Z, b
<1>4. Rank(Z, n) = Rank(Z, c) + 1
  BY <1>1, <1>2, <1>3, RankNext DEF Z
<1>5. k \in Nat /\ k = Rank(Z, c)
  BY <1>1, RankFacts DEF Z
<1>6. InOrder(Z)[k + 1] = c
  BY <1>1, <1>5, InOrderAt DEF Z
<1>7. InOrder(Z)[k + 1 + 1] = n /\ k + 1 + 1 \in 1..Cardinality(Z)
  BY ZenonT(60), <1>1, <1>2, <1>4, <1>5, InOrderAt
<1>8. k + 1 \in 1..L
  BY <1>1, <1>5, <1>7
<1>9. CutAtLineFeeds(body)[k + 1] =
         Chomp(SubSeq(body, InOrder(Z)[k + 1] + 1, InOrder(Z)[k + 1 + 1] - 1))
  BY <1>8 DEF CutAtLineFeeds, Z, Starts
<1> QED BY <1>4, <1>5, <1>6, <1>7, <1>8, <1>9 DEF Z

\* Behind the last line feed all lines have ended.
LEMMA LinesOver ==
    ASSUME NEW S, NEW body \in Seq(S), NEW c \in Starts(body),
           \A e \in LineFeeds(body) : e <= c
    PROVE  Rank(Starts(body), c) = Cardinality(LineFeeds(body))
<1> DEFINE Z == Starts(body)  L == Cardinality(LineFeeds(body))
<1>1. Len(body) \in Nat /\ Z \in SUBSET (0..Len(body)) /\ L \in Nat /\ Cardinality(Z) = L + 1
  BY StartsTyped
<1>2. \A z \in Z : z \in Int /\ z <= c
  <2>1. \A z \in Z : z = 0 \/ z \in LineFeeds(body)
    BY DEF Starts
  <2>2. 0 <= c /\ c \in Int /\ \A z \in Z : z \in Int
    BY <1>1
  <2> QED BY <2>1, <2>2
<1> HIDE DEF Z
<1>3. Z = {z \in Z : z < c} \cup {c} /\ c \notin {z \in Z : z < c}
  <2>1. \A z \in Z : z < c \/ z = c
    <3>1. c \in Int
      BY <1>2 DEF Z
    <3> QED BY <1>2, <3>1
  <2>2. ~(c < c) /\ c \in Z
    BY <1>2 DEF Z
  <2> QED BY <2>1, <2>2
<1>4. IsFiniteSet({z \in Z : z < c})
  BY <1>1, RankFacts
<1>5. Cardinality(Z) = Rank(Z, c) + 1 /\ Rank(Z, c) \in Nat
  <2>1. Rank(Z, c) \in Nat
    BY <1>1, RankFacts
  <2> QED BY <1>3, <1>4, <2>1, FS_AddElement DEF Rank
<1> QED BY <1>1, <1>5 DEF Z

\* At the beginning none has.
LEMMA LinesBegin ==
    ASSUME NEW S, NEW body \in Seq(S) PROVE 0 \in Starts(body) /\ Rank(Starts(body), 0) = 0
<1>1. \A z \in Starts(body) : ~(z < 0)
  BY StartsTyped
<1>2. {z \in Starts(body) : z < 0} = {}
  BY <1>1
<1> QED BY <1>2, FS_EmptySet DEF Rank, Starts

-----------------------------------------------------------------------------
(* What the lines say *)

\* Tokens are strings, of which the provers have to be told two.
Tokens == {"LF", "message"} \cup STRING

Text == Seq(Tokens)

\* Texts the proofs name, and what appending to and in front of a text gives.
LEMMA TextFacts ==
    /\ "LF" \in Tokens
    /\ <<>> \in Text
    /\ <<"LF">> \in Text
    /\ <<"message">> \in Text
    /\ \A s \in Text : <<>> \o s = s /\ s \o <<"LF">> = Append(s, "LF")
    /\ Seq(Seq(STRING)) \subseteq Seq(Text)
<1>1. "LF" \in Tokens
  BY DEF Tokens
<1>2. <<>> \in Text
  BY EmptySeq DEF Text
<1>3. <<"LF">> \in Text /\ <<"message">> \in Text
  <2>1. "message" \in Tokens
    BY DEF Tokens
  <2> QED BY <1>1, <2>1 DEF Text
<1>4. ASSUME NEW s \in Text PROVE <<>> \o s = s /\ s \o <<"LF">> = Append(s, "LF")
  <2>1. <<>> \o s = s
    BY DEF Text
  <2>2. s \o <<"LF">> = Append(s, "LF")
    BY <1>1, AppendIsConcat DEF Text
  <2> QED BY <2>1, <2>2
<1>5. ASSUME NEW w \in Seq(Seq(STRING)) PROVE w \in Seq(Text)
  <2>1. ASSUME NEW s \in Seq(STRING) PROVE s \in Text
    <3>1. STRING \subseteq Tokens
      BY DEF Tokens
    <3> QED BY <3>1, SeqMonotonic DEF Text
  <2>2. Seq(STRING) \subseteq Text
    BY <2>1
  <2> QED BY <2>2, SeqMonotonic
<1> QED BY <1>1, <1>2, <1>3, <1>4, <1>5

\* What follows the colon is text.
LEMMA ValueTyped == ASSUME NEW line \in Text PROVE Value(line) \in Text
<1> DEFINE v == IF Colon(line) = {} THEN <<>>
                ELSE SubSeq(line, Min(Colon(line)) + 1, Len(line))
<1>1. v \in Text
  <2>1. CASE Colon(line) = {}
    BY <2>1, TextFacts
  <2>2. CASE Colon(line) # {}
    <3>1. Colon(line) \in SUBSET (1..Len(line)) /\ Colon(line) \in SUBSET Nat
      BY DEF Colon, Text
    <3>2. PICK m \in 1..Len(line) : m = Min(Colon(line))
      BY <2>2, <3>1, MinOf
    <3>3. SubSeq(line, m + 1, Len(line)) \in Text
      BY DEF Text
    <3> QED BY <2>2, <3>2, <3>3
  <2> QED BY <2>1, <2>2
<1>2. Value(line) = IF v # <<>> /\ v[1] = " " THEN Tail(v) ELSE v
  BY DEF Value
<1> HIDE DEF v
<1>3. v # <<>> => Tail(v) \in Text
  BY <1>1 DEF Text
<1> QED BY <1>1, <1>2, <1>3

\* One line more names the value of a field, or leaves it.
LEMMA LastMore ==
    ASSUME NEW lines, NEW field, NEW default, NEW m \in Nat, NEW k \in Nat, m <= k + 1
    PROVE  LastValue(lines, field, m, k + 1, default) =
              IF Field(lines[k + 1]) = field THEN Value(lines[k + 1])
              ELSE LastValue(lines, field, m, k, default)
<1> DEFINE S == {i \in m..k : Field(lines[i]) = field}
           U == {i \in m..(k + 1) : Field(lines[i]) = field}
<1>0. LastValue(lines, field, m, k + 1, default) = IF U = {} THEN default ELSE Value(lines[Max(U)])
  BY DEF LastValue
<1>1. CASE Field(lines[k + 1]) = field
  <2>1. k + 1 \in U
    BY <1>1
  <2>2. U \in SUBSET Int /\ \A i \in U : i <= k + 1
    OBVIOUS
  <2>3. Max(U) = k + 1
    <3> HIDE DEF U
    <3> QED BY <2>1, <2>2, MaxIs
  <2> QED BY <1>0, <1>1, <2>1, <2>3
<1>2. CASE Field(lines[k + 1]) # field
  <2>1. \A i \in m..(k + 1) : i \in m..k \/ i = k + 1
    OBVIOUS
  <2>2. \A i \in m..k : i \in m..(k + 1)
    OBVIOUS
  <2>3. U = S
    BY <1>2, <2>1, <2>2
  <2> QED BY <1>0, <1>2, <2>3 DEF LastValue
<1> QED BY <1>1, <1>2

\* What a line of data adds.
Piece(lines, k, i) == (IF k = 1 THEN <<>> ELSE <<"LF">>) \o Value(lines[i])

\* What a data line adds is text.
LEMMA PieceTyped ==
    ASSUME NEW lines, NEW i, lines[i] \in Text, NEW k PROVE Piece(lines, k, i) \in Text
<1>1. Value(lines[i]) \in Text
  BY ValueTyped
<1>2. <<>> \o Value(lines[i]) \in Text /\ <<"LF">> \o Value(lines[i]) \in Text
  BY <1>1, TextFacts, ConcatProperties DEF Text
<1> QED BY <1>2 DEF Piece

\* a is s with x behind it.
Continues(a, s, x) == /\ Len(a) = Len(s) + 1 /\ a[Len(s) + 1] = x
                      /\ \A j \in 1..Len(s) : a[j] = s[j]

\* What goes on from s by x is s with x appended.
LEMMA OneMore ==
    ASSUME NEW S, NEW s \in Seq(S), NEW a \in Seq(S), NEW x \in S, Continues(a, s, x)
    PROVE  a = Append(s, x)
<1> PICK z, n : z = Append(s, x) /\ n = Len(s)
  OBVIOUS
<1>1. /\ n \in Nat /\ z \in Seq(S) /\ Len(z) = n + 1 /\ z[n + 1] = x
      /\ \A j \in 1..n : z[j] = s[j]
  BY AppendProperties, LenProperties
<1>2. \A j \in 1..(n + 1) : j \in 1..n \/ j = n + 1
  BY <1>1
<1>3. Len(a) = n + 1 /\ \A j \in 1..(n + 1) : a[j] = z[j]
  BY <1>1, <1>2 DEF Continues
<1>4. z \in [1..(n + 1) -> S] /\ a \in [1..(n + 1) -> S]
  BY <1>1, <1>3, LenProperties
<1> QED BY <1>3, <1>4

\* What the lines of S add.
Pieces(lines, S) == [j \in 1..Cardinality(S) |-> Piece(lines, j, InOrder(S)[j])]

\* The numbers of S are below k, and those lines and line k are texts.
Below(lines, S, k) == /\ S \in SUBSET (0..k) /\ \A i \in S : i < k
                      /\ lines[k] \in Text /\ \A i \in S : lines[i] \in Text

\* One more data line adds one more piece, behind the others.
LEMMA PiecesMore ==
    ASSUME NEW lines, NEW k \in Nat, NEW S, Below(lines, S, k)
    PROVE  /\ Cardinality(S) \in Nat /\ (Cardinality(S) = 0 <=> S = {})
           /\ Pieces(lines, S) \in Seq(Text)
           /\ Pieces(lines, S \cup {k}) =
                 Append(Pieces(lines, S), Piece(lines, Cardinality(S) + 1, k))
<1> PICK n : n = Cardinality(S)
  OBVIOUS
<1>0. PICK U, p, a, x : /\ U = S \cup {k} /\ p = Pieces(lines, S) /\ a = Pieces(lines, U)
                       /\ x = Piece(lines, n + 1, k)
  OBVIOUS
<1>1. n \in Nat /\ (n = 0 <=> S = {})
  <2>1. IsFiniteSet(S) /\ n \in Nat
    BY RankFacts DEF Below
  <2> QED BY <2>1, FS_EmptySet
<1>2. /\ Cardinality(U) = n + 1
      /\ InOrder(U)[n + 1] = k
      /\ \A j \in 1..n : InOrder(S)[j] \in S /\ InOrder(U)[j] = InOrder(S)[j]
  <2>1. S \in SUBSET (0..k) /\ \A i \in S : i < k
    BY DEF Below
  <2>2. /\ Cardinality(S \cup {k}) = Cardinality(S) + 1
        /\ InOrder(S \cup {k})[Cardinality(S) + 1] = k
        /\ \A j \in 1..Cardinality(S) :
              InOrder(S)[j] \in S /\ InOrder(S \cup {k})[j] = InOrder(S)[j]
    BY <2>1, InOrderMore
  <2> QED BY <1>0, <2>2
<1>3. p \in Seq(Text) /\ Len(p) = n /\ \A j \in 1..n : p[j] = Piece(lines, j, InOrder(S)[j])
  <2>1. p = [j \in 1..n |-> Piece(lines, j, InOrder(S)[j])]
    BY <1>0 DEF Pieces
  <2>2. \A j \in 1..n : Piece(lines, j, InOrder(S)[j]) \in Text
    BY <1>2, PieceTyped DEF Below
  <2> QED BY <1>1, <2>1, <2>2
<1>4. a = [j \in 1..(n + 1) |-> Piece(lines, j, InOrder(U)[j])]
  BY <1>0, <1>2 DEF Pieces
<1>5. n + 1 \in 1..(n + 1) /\ \A j \in 1..n : j \in 1..(n + 1)
  BY <1>1
<1>6. x \in Text /\ a[n + 1] = x /\ \A j \in 1..n : a[j] = p[j]
  <2>1. a[n + 1] = x
    BY <1>0, <1>2, <1>4, <1>5
  <2>2. \A j \in 1..n : a[j] = p[j]
    BY <1>2, <1>3, <1>4, <1>5
  <2>3. x \in Text
    BY <1>0, PieceTyped DEF Below
  <2> QED BY <2>1, <2>2, <2>3
<1>7. a \in Seq(Text) /\ Len(a) = n + 1
  <2>1. \A j \in 1..(n + 1) : j \in 1..n \/ j = n + 1
    BY <1>1
  <2>2. \A j \in 1..n : p[j] \in Text
    BY <1>3
  <2>3. \A j \in 1..(n + 1) : a[j] \in Text
    BY <1>6, <2>1, <2>2
  <2> QED BY <1>1, <1>4, <2>3
<1>8. Continues(a, p, x)
  BY <1>3, <1>6, <1>7 DEF Continues
<1>9. a = Append(p, x)
  BY <1>3, <1>6, <1>7, <1>8, OneMore
<1> QED BY <1>0, <1>1, <1>3, <1>9

\* Whoever adds lines of data has data.
DataShows(lines, m, n) == JoinedData(lines, m, n) = <<>> <=> DataLines(lines, m, n) = {}

\* What data becomes with a line.
WithLine(data, line) ==
    IF Field(line) = <<"data">>
    THEN (IF data = <<>> THEN data ELSE Append(data, "LF")) \o Value(line)
    ELSE data

AreTexts(lines, m, n) == \A i \in m..n : lines[i] \in Text

\* The data of one line more.
LEMMA DataMore ==
    ASSUME NEW lines, NEW m \in Nat, NEW k \in Nat, m <= k + 1,
           AreTexts(lines, m, k + 1), DataShows(lines, m, k)
    PROVE  /\ JoinedData(lines, m, k + 1) = WithLine(JoinedData(lines, m, k), lines[k + 1])
           /\ DataShows(lines, m, k + 1)
<1> PICK J, K : J = JoinedData(lines, m, k) /\ K = JoinedData(lines, m, k + 1)
  OBVIOUS
<1> SUFFICES /\ K = IF Field(lines[k + 1]) = <<"data">>
                    THEN (IF J = <<>> THEN J ELSE Append(J, "LF")) \o Value(lines[k + 1])
                    ELSE J
             /\ K = <<>> <=> DataLines(lines, m, k + 1) = {}
  BY DEF DataShows, WithLine
<1>h. (\A i \in m..(k + 1) : lines[i] \in Text) /\ (J = <<>> <=> DataLines(lines, m, k) = {})
  BY DEF DataShows, AreTexts
<1>e. PICK S, U : S = DataLines(lines, m, k) /\ U = DataLines(lines, m, k + 1)
  OBVIOUS
<1> DEFINE Data(i) == Field(lines[i]) = <<"data">>
<1>a. \A i \in m..k : i \in m..(k + 1) /\ m..i \subseteq m..k
  OBVIOUS
<1>b. \A i \in m..(k + 1) : i \in m..k \/ i = k + 1
  OBVIOUS
<1>c. S \in SUBSET (0..(k + 1)) /\ S \in SUBSET (m..k) /\ \A i \in S : i < k + 1
  <2>1. \A i \in S : i \in m..k
    BY <1>e DEF DataLines
  <2>2. \A i \in m..k : i \in 0..(k + 1) /\ i < k + 1
    OBVIOUS
  <2> QED BY <2>1, <2>2
<1>d. k + 1 \in Nat /\ Value(lines[k + 1]) \in Text /\ k + 1 \in m..(k + 1) /\ lines[k + 1] \in Text
  BY <1>h, ValueTyped
<1>1. J = FlattenSeq(Pieces(lines, S)) /\ K = FlattenSeq(Pieces(lines, U))
  BY <1>e DEF JoinedData, Pieces, Piece, InOrder
<1>2. \A i \in m..k : i \in S <=> i \in U
  BY <1>a, <1>e DEF DataLines
<1>3. k + 1 \in U <=> Data(k + 1) /\ (Value(lines[k + 1]) # <<>> \/ S # {})
  <2>1. k + 1 \in U <=> Data(k + 1) /\ \E j \in m..(k + 1) : Data(j) /\ Value(lines[j]) # <<>>
    BY <1>d, <1>e DEF DataLines
  <2>2. S # {} <=> \E j \in m..k : Data(j) /\ Value(lines[j]) # <<>>
    <3>1. ASSUME NEW j \in m..k, Data(j), Value(lines[j]) # <<>> PROVE j \in S
      <4>1. j \in m..j
        OBVIOUS
      <4> QED BY <3>1, <4>1, <1>e DEF DataLines
    <3>2. ASSUME NEW i \in S PROVE \E j \in m..k : Data(j) /\ Value(lines[j]) # <<>>
      BY <1>a, <1>e DEF DataLines
    <3> QED BY <3>1, <3>2
  <2> QED BY <1>a, <1>b, <1>d, <2>1, <2>2
<1>4. U = IF k + 1 \in U THEN S \cup {k + 1} ELSE S
  <2>1. \A i \in U : i \in m..(k + 1)
    BY <1>e DEF DataLines
  <2>2. \A i \in U : i \in S \/ i = k + 1
    BY <1>b, <1>2, <2>1
  <2>3. \A i \in S : i \in U
    BY <1>c, <1>2
  <2>4. CASE k + 1 \in U
    BY <2>2, <2>3, <2>4
  <2>5. CASE k + 1 \notin U
    <3>1. \A i \in U : i \in S
      BY <2>2, <2>5
    <3> QED BY <2>3, <2>5, <3>1
  <2> QED BY <2>4, <2>5
<1>n. PICK n : n = Cardinality(S)
  OBVIOUS
<1>5. /\ n \in Nat /\ (n = 0 <=> S = {})
      /\ Pieces(lines, S) \in Seq(Text)
      /\ Pieces(lines, S \cup {k + 1}) =
            Append(Pieces(lines, S), Piece(lines, n + 1, k + 1))
  <2>1. \A i \in S : lines[i] \in Text
    BY <1>a, <1>c, <1>h
  <2>b. PICK b \in Nat : b = k + 1
    BY <1>d
  <2>2. Below(lines, S, b)
    BY <2>b, <1>c, <1>d, <2>1 DEF Below
  <2>3. /\ Cardinality(S) \in Nat /\ (Cardinality(S) = 0 <=> S = {})
        /\ Pieces(lines, S) \in Seq(Text)
        /\ Pieces(lines, S \cup {b}) =
              Append(Pieces(lines, S), Piece(lines, Cardinality(S) + 1, b))
    BY <2>2, PiecesMore
  <2> QED BY <1>n, <2>b, <2>3
<1>7. CASE k + 1 \notin U
  <2>1. U = S /\ K = J
    BY <1>1, <1>4, <1>7
  <2>2. Data(k + 1) => Value(lines[k + 1]) = <<>> /\ S = {} /\ J = <<>>
    BY <1>e, <1>h, <1>3, <1>7
  <2>3. <<>> \o <<>> = <<>>
    OBVIOUS
  <2> QED BY <1>e, <1>h, <2>1, <2>2, <2>3
<1>8. CASE k + 1 \in U
  <2> DEFINE s == Piece(lines, n + 1, k + 1)
  <2>3. s \in Text
    BY <1>d, PieceTyped
  <2>4. Pieces(lines, U) = Append(Pieces(lines, S), s)
    BY <1>4, <1>5, <1>8
  <2> HIDE DEF s
  <2>5. K = J \o s
    BY <1>1, <1>5, <2>3, <2>4, FlattenAppend DEF Text
  <2>6. J \in Text
    BY <1>1, <1>5, FlattenTyped DEF Text
  <2>7. Data(k + 1) /\ (Value(lines[k + 1]) # <<>> \/ S # {}) /\ U # {}
    BY <1>3, <1>8
  <2> DEFINE v == Value(lines[k + 1])
  <2> HIDE DEF v
  <2>a. v \in Text
    BY <1>d DEF v
  <2>8. CASE S = {}
    <3>1. n + 1 = 1 /\ J = <<>>
      BY <1>e, <1>h, <1>5, <2>8
    <3>2. s = <<>> \o v
      BY <3>1 DEF Piece, v, s
    <3>3. s = v /\ K = v /\ J \o v = v
      BY <2>5, <2>a, <3>1, <3>2, TextFacts
    <3> QED BY <1>e, <1>h, <2>7, <2>8, <3>1, <3>3 DEF v
  <2>9. CASE S # {}
    <3>1. n + 1 # 1 /\ J # <<>>
      BY <1>e, <1>h, <1>5, <2>9
    <3>2. s = <<"LF">> \o v
      BY <3>1 DEF Piece, v, s
    <3>3. K = Append(J, "LF") \o v
      <4>1. (J \o <<"LF">>) \o v = J \o (<<"LF">> \o v)
        BY SMTT(30), <2>6, <2>a, TextFacts, ConcatAssociative DEF Text
      <4> QED BY <2>5, <2>6, <3>2, <4>1, TextFacts
    <3>4. K # <<>>
      <4>1. Append(J, "LF") \in Text /\ Len(Append(J, "LF")) = Len(J) + 1 /\ Len(J) \in Nat
        BY <2>6, TextFacts, AppendProperties, LenProperties DEF Text
      <4>2. Len(K) = Len(Append(J, "LF")) + Len(v) /\ Len(v) \in Nat
        BY <2>a, <3>3, <4>1, ConcatProperties, LenProperties DEF Text
      <4>3. Len(K) > 0
        BY <4>1, <4>2
      <4> QED BY <4>3
    <3> QED BY <1>e, <1>h, <2>7, <3>1, <3>3, <3>4 DEF v
  <2> QED BY <2>8, <2>9
<1> QED BY <1>7, <1>8

\* Where the block of the line after line k + 1 begins.
LEMMA StartMore ==
    ASSUME NEW lines, NEW k \in Nat
    PROVE  /\ BlockStart(lines, k + 1) \in 1..(k + 1)
           /\ BlockStart(lines, k + 2) = IF lines[k + 1] = <<>> THEN k + 2
                                         ELSE BlockStart(lines, k + 1)
<1> DEFINE S == {0} \cup {i \in 1..k : lines[i] = <<>>}
           U == {0} \cup {i \in 1..(k + 1) : lines[i] = <<>>}
<1>1. BlockStart(lines, k + 1) = Max(S) + 1 /\ BlockStart(lines, k + 2) = Max(U) + 1
  BY DEF BlockStart
<1>2. Max(S) \in 0..k
  <2>1. S \in SUBSET (0..k) /\ S # {}
    OBVIOUS
  <2> HIDE DEF S
  <2> QED BY <2>1, MaxOf
<1>3. lines[k + 1] = <<>> => Max(U) = k + 1
  <2> SUFFICES ASSUME lines[k + 1] = <<>> PROVE Max(U) = k + 1
    OBVIOUS
  <2>1. U \in SUBSET Int /\ k + 1 \in U /\ \A i \in U : i <= k + 1
    OBVIOUS
  <2> HIDE DEF U
  <2> QED BY <2>1, MaxIs
<1>4. lines[k + 1] # <<>> => U = S
  <2>1. \A i \in 1..(k + 1) : i \in 1..k \/ i = k + 1
    OBVIOUS
  <2>2. \A i \in 1..k : i \in 1..(k + 1)
    OBVIOUS
  <2> QED BY <2>1, <2>2
<1> QED
  <2> HIDE DEF S, U
  <2>1. CASE lines[k + 1] = <<>>
    BY <1>1, <1>2, <1>3, <2>1
  <2>2. CASE lines[k + 1] # <<>>
    BY <1>1, <1>2, <1>4, <2>2
  <2> QED BY <2>1, <2>2

-----------------------------------------------------------------------------
(* A line taken *)

AnyEvent == [type : Text, data : Text, id : Text]

ParserType == [buffer : Text, event_type : Text, data_buffer : Text, last_id : Text,
               bom_stripped : BOOLEAN, events : Seq(AnyEvent)]

\* What p has gathered is what an empty line at n would make an event.
Gathers(p, lines, n) ==
    /\ Event(p.event_type, p.data_buffer, p.last_id) = EventAt(lines, n)
    /\ p.data_buffer = <<>> <=> DataLines(lines, BlockStart(lines, n), n - 1) = {}

\* A block without lines says nothing.
LEMMA EmptyBlock ==
    ASSUME NEW lines, NEW n \in Nat
    PROVE  /\ \A field, default : LastValue(lines, field, n + 1, n, default) = default
           /\ JoinedData(lines, n + 1, n) = <<>>
           /\ DataLines(lines, n + 1, n) = {}
<1>1. (n + 1)..n = {}
  OBVIOUS
<1>2. \A field, default : LastValue(lines, field, n + 1, n, default) = default
  BY <1>1 DEF LastValue
<1>3. DataLines(lines, n + 1, n) = {}
  BY <1>1 DEF DataLines
<1>4. JoinedData(lines, n + 1, n) = <<>>
  <2>1. Cardinality({}) = 0
    BY FS_EmptySet
  <2>2. DOMAIN InOrder({}) = {}
    BY <2>1 DEF InOrder
  <2>3. [k \in DOMAIN InOrder({}) |->
            (IF k = 1 THEN <<>> ELSE <<"LF">>) \o Value(lines[InOrder({})[k]])] = <<>>
    BY <2>2
  <2> QED BY <1>3, <2>3, FlattenEmpty DEF JoinedData
<1> QED BY <1>2, <1>3, <1>4

\* An event is the one said at a line when its type, data and id are.
LEMMA EventParts ==
    ASSUME NEW type, NEW data, NEW id, NEW lines, NEW n
    PROVE  Event(type, data, id) = EventAt(lines, n) <=>
              /\ type = LastValue(lines, <<"event">>, BlockStart(lines, n), n - 1, <<"message">>)
              /\ data = JoinedData(lines, BlockStart(lines, n), n - 1)
              /\ id = LastValue(lines, <<"id">>, 1, n - 1, <<>>)
  BY DEF Event, EventAt

\* A parser that has seen nothing.
LEMMA GathersNothing ==
    ASSUME NEW lines, NEW p, p.event_type = <<"message">>, p.data_buffer = <<>>, p.last_id = <<>>
    PROVE  Gathers(p, lines, 1)
<1>1. BlockStart(lines, 1) = 1
  <2>1. 0 \in Nat /\ 0 + 1 = 1
    OBVIOUS
  <2>2. BlockStart(lines, 0 + 1) \in 1..(0 + 1)
    BY StartMore
  <2> QED BY <2>1, <2>2
<1>2. /\ \A field, default : LastValue(lines, field, 1, 0, default) = default
      /\ JoinedData(lines, 1, 0) = <<>> /\ DataLines(lines, 1, 0) = {}
  <2>1. 0 \in Nat /\ 0 + 1 = 1
    OBVIOUS
  <2> QED BY <2>1, EmptyBlock
<1>3. 1 - 1 = 0
  OBVIOUS
<1> QED BY <1>1, <1>2, <1>3, EventParts DEF Gathers

\* What the parser holds after each kind of line.
LEMMA Dispatched ==
    ASSUME NEW p \in ParserType
    PROVE  /\ DispatchEvent(p) \in ParserType
           /\ DispatchEvent(p).buffer = p.buffer
           /\ DispatchEvent(p).bom_stripped = p.bom_stripped
           /\ DispatchEvent(p).event_type = <<"message">>
           /\ DispatchEvent(p).data_buffer = <<>>
           /\ DispatchEvent(p).last_id = p.last_id
           /\ DispatchEvent(p).events =
                 IF p.data_buffer = <<>> THEN p.events
                 ELSE Append(p.events, Event(p.event_type, p.data_buffer, p.last_id))
<1>1. Event(p.event_type, p.data_buffer, p.last_id) \in AnyEvent
  BY DEF Event, AnyEvent, ParserType
<1>2. Append(p.events, Event(p.event_type, p.data_buffer, p.last_id)) \in Seq(AnyEvent)
  BY <1>1 DEF ParserType
<1>3. <<"message">> \in Text /\ <<>> \in Text
  BY TextFacts
<1> QED BY <1>2, <1>3 DEF DispatchEvent, ParserType

\* What a line does to the parser, field by field (process_line).
LEMMA Processed ==
    ASSUME NEW p \in ParserType, NEW line \in Text, NEW q, q = ProcessLine(p, line)
    PROVE  /\ q \in ParserType
           /\ q.buffer = p.buffer /\ q.bom_stripped = p.bom_stripped /\ q.events = p.events
           /\ q.event_type = IF Field(line) = <<"event">> THEN Value(line) ELSE p.event_type
           /\ q.last_id = IF Field(line) = <<"id">> THEN Value(line) ELSE p.last_id
           /\ q.data_buffer = WithLine(p.data_buffer, line)
<1>1. Value(line) \in Text
  BY ValueTyped
<1>2. <<"event">> # <<"data">> /\ <<"event">> # <<"id">> /\ <<"data">> # <<"id">>
  OBVIOUS
<1>3. CASE Field(line) = <<"event">>
  <2>1. q = [p EXCEPT !.event_type = Value(line)]
    BY <1>3 DEF ProcessLine
  <2> QED BY <1>1, <1>2, <1>3, <2>1 DEF ParserType, WithLine
<1>4. CASE Field(line) = <<"id">>
  <2>1. q = [p EXCEPT !.last_id = Value(line)]
    BY <1>2, <1>4 DEF ProcessLine
  <2> QED BY <1>1, <1>2, <1>4, <2>1 DEF ParserType, WithLine
<1>5. CASE Field(line) = <<"data">>
  <2> PICK d : d = (IF p.data_buffer = <<>> THEN p.data_buffer
                    ELSE Append(p.data_buffer, "LF")) \o Value(line)
    OBVIOUS
  <2>1. q = [p EXCEPT !.data_buffer = d]
    BY <1>2, <1>5 DEF ProcessLine
  <2>2. d \in Text
    <3>1. p.data_buffer \in Text /\ Append(p.data_buffer, "LF") \in Text
      BY TextFacts, AppendProperties DEF ParserType, Text
    <3> QED BY <1>1, <3>1, ConcatProperties DEF Text
  <2> QED BY <1>2, <1>5, <2>1, <2>2 DEF ParserType, WithLine
<1>6. CASE Field(line) \notin {<<"event">>, <<"id">>, <<"data">>}
  <2>1. q = p
    BY <1>6 DEF ProcessLine
  <2> QED BY <1>6, <2>1 DEF WithLine
<1> QED BY <1>3, <1>4, <1>5, <1>6

\* One line more is gathered, or ends a block.
LEMMA GathersMore ==
    ASSUME NEW L \in Nat, NEW lines \in [1..L -> Text], NEW k \in Nat, k + 1 \in 1..L,
           NEW p \in ParserType, Gathers(p, lines, k + 1),
           NEW line \in Text, Chomp(line) = lines[k + 1],
           NEW q, q = TakeLine(p, line)
    PROVE  /\ q \in ParserType
           /\ q.buffer = p.buffer /\ q.bom_stripped = p.bom_stripped
           /\ Gathers(q, lines, k + 2)
           /\ q.events = IF k + 1 \in EventEnds(lines)
                         THEN Append(p.events, EventAt(lines, k + 1)) ELSE p.events
<1>a. PICK l, f : l = lines[k + 1] /\ f = BlockStart(lines, k + 1)
  OBVIOUS
<1>0. k + 1 - 1 = k /\ k + 2 - 1 = k + 1 /\ l \in Text /\ k + 1 \in Nat /\ 1 <= k + 1
  BY <1>a
<1>1. /\ p.event_type = LastValue(lines, <<"event">>, f, k, <<"message">>)
      /\ p.data_buffer = JoinedData(lines, f, k)
      /\ p.last_id = LastValue(lines, <<"id">>, 1, k, <<>>)
      /\ p.data_buffer = <<>> <=> DataLines(lines, f, k) = {}
  BY <1>0, <1>a, EventParts DEF Gathers
<1>2. f \in 1..(k + 1) /\ BlockStart(lines, k + 2) = IF l = <<>> THEN k + 2 ELSE f
  BY <1>a, StartMore
<1>3. k + 1 \in EventEnds(lines) <=> l = <<>> /\ p.data_buffer # <<>>
  <2>1. EventAt(lines, k + 1).data = p.data_buffer
    BY DEF Gathers, Event
  <2> QED BY <1>a, <2>1 DEF EventEnds
<1>4. LastValue(lines, <<"id">>, 1, k + 1, <<>>) =
         IF Field(l) = <<"id">> THEN Value(l) ELSE p.last_id
  BY <1>0, <1>1, <1>a, LastMore
<1>5. CASE l = <<>>
  <2>1. q = DispatchEvent(p)
    BY <1>5, <1>a DEF TakeLine
  <2>2. Field(l) = <<>> /\ <<>> # <<"id">>
    BY <1>5 DEF Field, Colon
  <2>3. LastValue(lines, <<"id">>, 1, k + 1, <<>>) = p.last_id
    BY <1>4, <2>2
  <2>4. /\ LastValue(lines, <<"event">>, k + 2, k + 1, <<"message">>) = <<"message">>
        /\ JoinedData(lines, k + 2, k + 1) = <<>> /\ DataLines(lines, k + 2, k + 1) = {}
    <3>1. PICK j \in Nat : j = k + 1
      BY <1>0
    <3>2. /\ \A field, default : LastValue(lines, field, j + 1, j, default) = default
          /\ JoinedData(lines, j + 1, j) = <<>> /\ DataLines(lines, j + 1, j) = {}
      BY EmptyBlock
    <3>3. j + 1 = k + 2
      BY <3>1
    <3> QED BY <3>1, <3>2, <3>3
  <2>5. Gathers(q, lines, k + 2)
    BY SMTT(30), <1>0, <1>2, <1>5, <2>1, <2>3, <2>4, Dispatched, EventParts DEF Gathers
  <2>6. q.events = IF k + 1 \in EventEnds(lines)
                   THEN Append(p.events, EventAt(lines, k + 1)) ELSE p.events
    BY <1>3, <1>5, <2>1, Dispatched DEF Gathers
  <2> QED BY <2>1, <2>5, <2>6, Dispatched
<1>6. CASE l # <<>>
  <2>1. q = ProcessLine(p, l)
    BY <1>6, <1>a DEF TakeLine
  <2>2. /\ q \in ParserType
        /\ q.buffer = p.buffer /\ q.bom_stripped = p.bom_stripped /\ q.events = p.events
        /\ q.event_type = IF Field(l) = <<"event">> THEN Value(l) ELSE p.event_type
        /\ q.last_id = IF Field(l) = <<"id">> THEN Value(l) ELSE p.last_id
        /\ q.data_buffer = WithLine(p.data_buffer, l)
    BY <1>0, <2>1, Processed
  <2>3. f \in Nat /\ f <= k + 1
    BY <1>2
  <2>4. LastValue(lines, <<"event">>, f, k + 1, <<"message">>) =
           IF Field(l) = <<"event">> THEN Value(l) ELSE p.event_type
    BY <1>1, <1>a, <2>3, LastMore
  <2>5. AreTexts(lines, f, k + 1) /\ DataShows(lines, f, k)
    BY <1>1, <1>2 DEF AreTexts, DataShows
  <2>a. /\ JoinedData(lines, f, k + 1) = WithLine(JoinedData(lines, f, k), lines[k + 1])
        /\ DataShows(lines, f, k + 1)
    BY <2>3, <2>5, DataMore
  <2>6. /\ JoinedData(lines, f, k + 1) = q.data_buffer
        /\ JoinedData(lines, f, k + 1) = <<>> <=> DataLines(lines, f, k + 1) = {}
    BY <1>1, <1>a, <2>2, <2>a DEF DataShows
  <2>7. Gathers(q, lines, k + 2)
    <3>1. BlockStart(lines, k + 2) = f
      BY <1>2, <1>6
    <3>2. Event(q.event_type, q.data_buffer, q.last_id) = EventAt(lines, k + 2)
      BY <1>0, <1>4, <2>2, <2>4, <2>6, <3>1, EventParts
    <3>3. q.data_buffer = <<>> <=> DataLines(lines, f, k + 1) = {}
      BY <2>6
    <3> QED BY <1>0, <3>1, <3>2, <3>3 DEF Gathers
  <2> QED BY <1>3, <1>6, <2>2, <2>7
<1> QED BY <1>5, <1>6

-----------------------------------------------------------------------------
(* The events of the first lines *)

\* Where the events of the first n lines end.
EndsTo(lines, n) == {i \in EventEnds(lines) : i <= n}

\* The lines that end events are lines.
LEMMA EndsTyped ==
    ASSUME NEW L \in Nat, NEW lines \in [1..L -> Text], NEW n \in Nat
    PROVE  /\ EventEnds(lines) \in SUBSET (0..L) /\ EventEnds(lines) \in SUBSET (1..L)
           /\ EndsTo(lines, n) \in SUBSET (0..L)
           /\ EndsTo(lines, n) \in SUBSET (0..n)
           /\ Cardinality(EndsTo(lines, n)) \in Nat
           /\ \A j \in 1..Cardinality(EndsTo(lines, n)) :
                 InOrder(EndsTo(lines, n))[j] \in EndsTo(lines, n)
<1>1. EventEnds(lines) \in SUBSET (1..L)
  BY DEF EventEnds
<1>2. \A i \in 1..L : i \in 0..L /\ (i <= n => i \in 0..n)
  OBVIOUS
<1>3. /\ EventEnds(lines) \in SUBSET (0..L)
      /\ EndsTo(lines, n) \in SUBSET (0..L) /\ EndsTo(lines, n) \in SUBSET (0..n)
  BY <1>1, <1>2 DEF EndsTo
<1>4. Cardinality(EndsTo(lines, n)) \in Nat
  BY <1>3, RankFacts
<1>5. ASSUME NEW j \in 1..Cardinality(EndsTo(lines, n))
      PROVE  InOrder(EndsTo(lines, n))[j] \in EndsTo(lines, n)
  <2> PICK R : R = EndsTo(lines, n)
    OBVIOUS
  <2>1. PICK x \in R : Rank(R, x) = j - 1
    BY <1>3, InOrderOnto
  <2>2. InOrder(R)[Rank(R, x) + 1] = x
    BY <1>3, InOrderAt
  <2>3. Rank(R, x) + 1 = j
    BY <1>4, <2>1
  <2> QED BY <2>1, <2>2, <2>3
<1> QED BY <1>1, <1>3, <1>4, <1>5

\* The events of the first n lines, one for each line that ends one.
LEMMA EventsAre ==
    ASSUME NEW lines, NEW n
    PROVE  EventsTo(lines, n) = [j \in 1..Cardinality(EndsTo(lines, n)) |->
                                    EventAt(lines, InOrder(EndsTo(lines, n))[j])]
  BY DEF EventsTo, EndsTo, InOrder

\* ... of the kind of event the lines say, and none before any line.
LEMMA EventsTyped ==
    ASSUME NEW L \in Nat, NEW lines \in [1..L -> Text], NEW n \in Nat,
           NEW X, \A i \in EventEnds(lines) : EventAt(lines, i) \in X
    PROVE  EventsTo(lines, n) \in Seq(X)
<1>1. \A j \in 1..Cardinality(EndsTo(lines, n)) :
         EventAt(lines, InOrder(EndsTo(lines, n))[j]) \in X
  BY EndsTyped DEF EndsTo
<1>2. Cardinality(EndsTo(lines, n)) \in Nat
  BY EndsTyped
<1> QED BY <1>1, <1>2, EventsAre

LEMMA EventsNone ==
    ASSUME NEW L \in Nat, NEW lines \in [1..L -> Text] PROVE EventsTo(lines, 0) = <<>>
<1>1. \A i \in EventEnds(lines) : ~(i <= 0)
  BY EndsTyped
<1>2. EndsTo(lines, 0) = {}
  BY <1>1 DEF EndsTo
<1>3. 1..Cardinality(EndsTo(lines, 0)) = {}
  BY <1>2, FS_EmptySet
<1>4. EventsTo(lines, 0) = [j \in {} |-> EventAt(lines, InOrder(EndsTo(lines, 0))[j])]
  BY <1>3, EventsAre
<1> QED BY <1>4

\* The events of one line more.
LEMMA EventsMore ==
    ASSUME NEW L \in Nat, NEW lines \in [1..L -> Text], NEW k \in Nat, k + 1 \in 1..L,
           NEW X, \A i \in EventEnds(lines) : EventAt(lines, i) \in X
    PROVE  EventsTo(lines, k + 1) = IF k + 1 \in EventEnds(lines)
                                    THEN Append(EventsTo(lines, k), EventAt(lines, k + 1))
                                    ELSE EventsTo(lines, k)
<1>0. PICK b, R, U, n : /\ b = k + 1 /\ n = Cardinality(R)
                        /\ R = EndsTo(lines, k) /\ U = EndsTo(lines, k + 1)
  OBVIOUS
<1>1. \A i \in EventEnds(lines) : i \in Nat /\ (i <= k + 1 <=> i <= k \/ i = k + 1)
  BY SMTT(30), EndsTyped
<1>2. CASE k + 1 \notin EventEnds(lines)
  <2>1. EndsTo(lines, k + 1) = EndsTo(lines, k)
    <3>1. \A i \in EventEnds(lines) : i <= k + 1 <=> i <= k
      BY <1>1, <1>2
    <3> QED BY <3>1 DEF EndsTo
  <2> QED BY <1>2, <2>1, EventsAre
<1>3. CASE k + 1 \in EventEnds(lines)
  <2>1. U = R \cup {b}
    <3>1. \A i : i \in EndsTo(lines, k + 1) <=> i \in EndsTo(lines, k) \/ i = k + 1
      BY <1>1, <1>3 DEF EndsTo
    <3> QED BY <1>0, <3>1
  <2>2. b \in Nat /\ R \in SUBSET (0..b) /\ n \in Nat /\ \A i \in R : i < b
    <3>1. R \in SUBSET (0..k) /\ n \in Nat
      BY <1>0, EndsTyped
    <3>2. \A i \in 0..k : i \in 0..(k + 1) /\ i < k + 1
      OBVIOUS
    <3> QED BY <1>0, <3>1, <3>2
  <2>3. /\ Cardinality(U) = n + 1
        /\ InOrder(U)[n + 1] = b
        /\ \A j \in 1..n : InOrder(R)[j] \in R /\ InOrder(U)[j] = InOrder(R)[j]
    <3>1. /\ Cardinality(R \cup {b}) = Cardinality(R) + 1
          /\ InOrder(R \cup {b})[Cardinality(R) + 1] = b
          /\ \A j \in 1..Cardinality(R) :
                InOrder(R)[j] \in R /\ InOrder(R \cup {b})[j] = InOrder(R)[j]
      BY <2>2, InOrderMore
    <3> QED BY <1>0, <2>1, <3>1
  <2>4. PICK a, p, x : /\ a = EventsTo(lines, k + 1) /\ p = EventsTo(lines, k)
                       /\ x = EventAt(lines, k + 1)
    OBVIOUS
  <2>5. a \in Seq(X) /\ p \in Seq(X) /\ x \in X
    BY <1>3, <2>4, EventsTyped
  <2>6. /\ p = [j \in 1..n |-> EventAt(lines, InOrder(R)[j])]
        /\ a = [j \in 1..(n + 1) |-> EventAt(lines, InOrder(U)[j])]
    BY <1>0, <2>3, <2>4, EventsAre
  <2>7. Len(p) = n /\ Len(a) = n + 1
    BY <2>2, <2>6
  <2>8. a[n + 1] = x /\ \A j \in 1..n : a[j] = p[j]
    <3>1. n + 1 \in 1..(n + 1) /\ \A j \in 1..n : j \in 1..(n + 1)
      BY <2>2
    <3> QED BY <1>0, <2>3, <2>4, <2>6, <3>1
  <2>9. Continues(a, p, x)
    BY <2>7, <2>8 DEF Continues
  <2>10. a = Append(p, x)
    BY <2>5, <2>9, OneMore
  <2> QED BY <1>3, <2>4, <2>10
<1> QED BY <1>2, <1>3

\* What the first lines say is the beginning of what all say.
LEMMA EventsBegin ==
    ASSUME NEW L \in Nat, NEW lines \in [1..L -> Text], NEW k \in Nat, k <= L,
           NEW X, NEW s \in Seq(X), NEW t \in Seq(X), s \o t = EventsTo(lines, k)
    PROVE  IsPrefix(s, EventsTo(lines, L))
<1>0. PICK R, S, n, m : /\ R = EndsTo(lines, k) /\ S = EndsTo(lines, L)
                        /\ n = Cardinality(R) /\ m = Cardinality(S)
  OBVIOUS
<1>1. R = UpTo(S, k)
  <2>1. \A i \in EventEnds(lines) : i \in 1..L
    BY EndsTyped
  <2>2. \A i \in EventEnds(lines) : i <= k => i <= L
    BY <2>1
  <2> QED BY <1>0, <2>2 DEF EndsTo, UpTo
<1>2. S \in SUBSET (0..L) /\ m \in Nat
  BY <1>0, EndsTyped
<1>3. n \in Nat /\ n <= m /\ \A j \in 1..n : InOrder(S)[j] = InOrder(R)[j]
  <2>1. /\ Cardinality(UpTo(S, k)) \in Nat /\ Cardinality(UpTo(S, k)) <= Cardinality(S)
        /\ \A j \in 1..Cardinality(UpTo(S, k)) : InOrder(S)[j] = InOrder(UpTo(S, k))[j]
    BY <1>2, InOrderBegins
  <2> QED BY <1>0, <1>1, <2>1
<1>4. PICK a, p : a = EventsTo(lines, L) /\ p = EventsTo(lines, k)
  OBVIOUS
<1>5. /\ p = [j \in 1..n |-> EventAt(lines, InOrder(R)[j])]
      /\ a = [j \in 1..m |-> EventAt(lines, InOrder(S)[j])]
  BY <1>0, <1>4, EventsAre
<1>6. Len(p) = n /\ Len(a) = m /\ \A j \in 1..n : j \in 1..m /\ a[j] = p[j]
  BY <1>2, <1>3, <1>5
<1>7. /\ Len(s) \in Nat /\ Len(s) <= n
      /\ \A j \in 1..Len(s) : s[j] = p[j]
  <2>1. /\ Len(s) \in Nat /\ Len(t) \in Nat /\ Len(s \o t) = Len(s) + Len(t)
        /\ \A j \in 1..Len(s) : (s \o t)[j] = s[j]
    BY ConcatProperties, LenProperties
  <2> QED BY <1>4, <1>6, <2>1
<1>8. \A j \in 1..Len(s) : s[j] = a[j] /\ j \in 1..m
  BY <1>3, <1>6, <1>7
<1>9. Len(s) <= Len(a)
  BY <1>2, <1>3, <1>6, <1>7
<1>10. SubSeq(s, 1, Len(s)) = SubSeq(a, 1, Len(s))
  BY <1>7, <1>8
<1> QED BY <1>4, <1>9, <1>10 DEF IsPrefix

-----------------------------------------------------------------------------
(* The parser's place in a body *)

\* A part of a part.
LEMMA PartOfPart ==
    ASSUME NEW S, NEW s \in Seq(S), NEW c \in Nat, NEW m \in Nat, c <= m, m <= Len(s),
           NEW i \in Nat, NEW j \in Nat, i <= j, j <= m - c,
           NEW part, part = SubSeq(s, c + 1, m)
    PROVE  /\ part \in Seq(S) /\ Len(part) = m - c
           /\ \A h \in 1..(m - c) : part[h] = s[c + h]
           /\ SubSeq(part, i + 1, j) = SubSeq(s, c + i + 1, c + j)
<1>1. /\ part \in Seq(S) /\ Len(part) = m - c
      /\ \A h \in 1..(m - c) : part[h] = s[c + h]
  OBVIOUS
<1>2. SubSeq(part, i + 1, j) = [h \in 1..(j - i) |-> part[i + h]]
  BY <1>1
<1>3. SubSeq(s, c + i + 1, c + j) = [h \in 1..(j - i) |-> s[c + i + h]]
  OBVIOUS
<1>4. \A h \in 1..(j - i) : i + h \in 1..(m - c) /\ c + (i + h) = c + i + h
  OBVIOUS
<1>5. \A h \in 1..(j - i) : part[i + h] = s[c + i + h]
  BY <1>1, <1>4
<1> QED BY <1>1, <1>2, <1>3, <1>5

\* What a part is.
LEMMA PartIs ==
    ASSUME NEW S, NEW s \in Seq(S), NEW a \in Nat, NEW b \in Nat, a <= b, b <= Len(s)
    PROVE  /\ SubSeq(s, a + 1, b) \in Seq(S) /\ Len(SubSeq(s, a + 1, b)) = b - a
           /\ \A h \in 1..(b - a) : SubSeq(s, a + 1, b)[h] = s[a + h]
<1>1. PICK part : part = SubSeq(s, a + 1, b)
  OBVIOUS
<1>2. part \in Seq(S) /\ Len(part) = b - a /\ \A h \in 1..(b - a) : part[h] = s[a + h]
  BY <1>1
<1> QED BY <1>1, <1>2

\* Two parts, one behind the other.
LEMMA PartsJoin ==
    ASSUME NEW S, NEW s \in Seq(S), NEW a \in Nat, NEW b \in Nat, NEW c \in Nat,
           a <= b, b <= c, c <= Len(s)
    PROVE  SubSeq(s, a + 1, b) \o SubSeq(s, b + 1, c) = SubSeq(s, a + 1, c)
<1>0. PICK x, y, z : x = SubSeq(s, a + 1, b) /\ y = SubSeq(s, b + 1, c) /\ z = SubSeq(s, a + 1, c)
  OBVIOUS
<1>1. /\ x \in Seq(S) /\ Len(x) = b - a /\ \A h \in 1..(b - a) : x[h] = s[a + h]
      /\ y \in Seq(S) /\ Len(y) = c - b /\ \A h \in 1..(c - b) : y[h] = s[b + h]
      /\ z \in Seq(S) /\ Len(z) = c - a /\ \A h \in 1..(c - a) : z[h] = s[a + h]
  <2>1. a <= c /\ b <= Len(s)
    BY LenProperties
  <2>2. x \in Seq(S) /\ Len(x) = b - a /\ \A h \in 1..(b - a) : x[h] = s[a + h]
    BY <1>0, <2>1, PartIs
  <2>3. y \in Seq(S) /\ Len(y) = c - b /\ \A h \in 1..(c - b) : y[h] = s[b + h]
    BY SMTT(30), <1>0, PartIs
  <2>4. z \in Seq(S) /\ Len(z) = c - a /\ \A h \in 1..(c - a) : z[h] = s[a + h]
    BY <1>0, <2>1, PartIs
  <2> QED BY <2>2, <2>3, <2>4
<1>2. /\ x \o y \in Seq(S) /\ Len(x \o y) = c - a
      /\ \A h \in 1..(c - a) : (x \o y)[h] = IF h <= b - a THEN x[h] ELSE y[h - (b - a)]
  <2>1. x \in Seq(S) /\ y \in Seq(S) /\ Len(x) = b - a /\ Len(y) = c - b
    BY <1>1
  <2>2. /\ x \o y \in Seq(S) /\ Len(x \o y) = Len(x) + Len(y)
        /\ \A h \in 1..(Len(x) + Len(y)) :
              (x \o y)[h] = IF h <= Len(x) THEN x[h] ELSE y[h - Len(x)]
    BY <2>1, ConcatProperties
  <2>3. Len(x) + Len(y) = c - a
    BY <2>1
  <2> QED BY <2>1, <2>2, <2>3
<1>3. ASSUME NEW h \in 1..(c - a) PROVE (x \o y)[h] = z[h]
  <2>1. CASE h <= b - a
    <3>1. h \in 1..(b - a)
      BY <2>1
    <3> QED BY <1>1, <1>2, <2>1, <3>1
  <2>2. CASE ~(h <= b - a)
    <3>1. h - (b - a) \in 1..(c - b) /\ b + (h - (b - a)) = a + h
      BY <2>2
    <3> QED BY <1>1, <1>2, <2>2, <3>1
  <2> QED BY <2>1, <2>2
<1> PICK u : u = x \o y
  OBVIOUS
<1>4. u \in [1..(c - a) -> S] /\ z \in [1..(c - a) -> S]
  BY <1>1, <1>2, LenProperties
<1>5. \A h \in 1..(c - a) : u[h] = z[h]
  BY <1>3
<1>6. u = z
  BY <1>4, <1>5
<1> QED BY <1>0, <1>6

\* p has taken the lines of a body up to position c, and holds what comes then,
\* up to position m.
Holds(p, body, c, m) ==
    /\ c \in Starts(body) /\ m \in 0..Len(body) /\ c <= m
    /\ p.buffer = SubSeq(body, c + 1, m)
    /\ Gathers(p, CutAtLineFeeds(body), Rank(Starts(body), c) + 1)

\* The lines taken are among the lines of the body.
LEMMA HoldsTyped ==
    ASSUME NEW body \in Text, NEW p, NEW c, NEW m, Holds(p, body, c, m),
           NEW L, L = Cardinality(LineFeeds(body)), NEW k, k = Rank(Starts(body), c)
    PROVE  /\ L \in Nat /\ k \in Nat /\ k <= L /\ CutAtLineFeeds(body) \in [1..L -> Text]
           /\ Len(body) \in Nat /\ c \in Nat /\ m \in Nat /\ c <= m /\ m <= Len(body)
           /\ Starts(body) \in SUBSET (0..Len(body)) /\ c \in Starts(body)
           /\ LineFeeds(body) \in SUBSET (1..Len(body))
<1>1. /\ Len(body) \in Nat /\ Starts(body) \in SUBSET (0..Len(body)) /\ L \in Nat
      /\ LineFeeds(body) \in SUBSET (1..Len(body)) /\ Cardinality(Starts(body)) = L + 1
  BY StartsTyped DEF Text
<1>2. c \in Starts(body) /\ c \in Nat /\ m \in Nat /\ c <= m /\ m <= Len(body)
  BY <1>1 DEF Holds
<1>3. k \in Nat
  BY <1>1, RankFacts
<1>4. k + 1 \in 1..(L + 1)
  BY <1>1, <1>2, InOrderAt
<1>5. CutAtLineFeeds(body) \in [1..L -> Text]
  BY LinesTyped DEF Text
<1> QED BY <1>1, <1>2, <1>3, <1>4, <1>5

\* The line feeds among what p holds.
LEMMA HeldLineFeeds ==
    ASSUME NEW body \in Text, NEW p, NEW c, NEW m, Holds(p, body, c, m)
    PROVE  /\ p.buffer \in Text /\ Len(p.buffer) = m - c
           /\ \A i \in 1..(m - c) : i \in LineFeeds(p.buffer) <=> c + i \in LineFeeds(body)
           /\ LineFeeds(p.buffer) \in SUBSET (1..(m - c))
<1>1. /\ c \in Nat /\ m \in Nat /\ c <= m /\ m <= Len(body) /\ Len(body) \in Nat
      /\ p.buffer = SubSeq(body, c + 1, m)
  BY HoldsTyped DEF Holds
<1>2. /\ p.buffer \in Text /\ Len(p.buffer) = m - c
      /\ \A h \in 1..(m - c) : p.buffer[h] = body[c + h]
  <2>1. 0 \in Nat /\ 0 <= 0 /\ 0 <= m - c
    BY <1>1
  <2> QED BY <1>1, <2>1, PartOfPart DEF Text
<1>3. DOMAIN p.buffer = 1..(m - c) /\ DOMAIN body = 1..Len(body)
  BY <1>2, LenProperties DEF Text
<1>4. \A i \in 1..(m - c) : c + i \in 1..Len(body)
  BY <1>1
<1> QED BY <1>2, <1>3, <1>4 DEF LineFeeds

\* What p holds has no line feed, and the body has ended: its lines are over.
LEMMA HeldIsOver ==
    ASSUME NEW body \in Text, NEW p, NEW c, Holds(p, body, c, Len(body)), ~HasLine(p)
    PROVE  Rank(Starts(body), c) = Cardinality(LineFeeds(body))
<1>1. /\ c \in Nat /\ Len(body) \in Nat /\ c \in Starts(body)
      /\ LineFeeds(body) \in SUBSET (1..Len(body))
  BY HoldsTyped
<1>2. ASSUME NEW e \in LineFeeds(body), ~(e <= c) PROVE FALSE
  <2>1. e - c \in 1..(Len(body) - c) /\ c + (e - c) = e
    BY <1>1, <1>2
  <2>2. e - c \in LineFeeds(p.buffer)
    BY <2>1, HeldLineFeeds
  <2> QED BY <2>2 DEF HasLine
<1> QED BY <1>1, <1>2, LinesOver DEF Text

\* One line is taken.
LEMMA NextLineHolds ==
    ASSUME NEW body \in Text, NEW p \in ParserType, NEW c, NEW m, Holds(p, body, c, m),
           HasLine(p), NEW q, q = NextLine(p),
           NEW lines, lines = CutAtLineFeeds(body), NEW k, k = Rank(Starts(body), c)
    PROVE  /\ q \in ParserType /\ q.bom_stripped = p.bom_stripped
           /\ k + 1 \in DOMAIN lines
           /\ \E n : Holds(q, body, n, m) /\ Rank(Starts(body), n) = k + 1
           /\ q.events = IF k + 1 \in EventEnds(lines)
                         THEN Append(p.events, EventAt(lines, k + 1)) ELSE p.events
<1>1. PICK L : L = Cardinality(LineFeeds(body))
  OBVIOUS
<1>2. /\ L \in Nat /\ k \in Nat /\ lines \in [1..L -> Text]
      /\ Len(body) \in Nat /\ c \in Nat /\ m \in Nat /\ c <= m /\ m <= Len(body)
      /\ c \in Starts(body) /\ LineFeeds(body) \in SUBSET (1..Len(body))
      /\ p.buffer = SubSeq(body, c + 1, m)
  BY <1>1, HoldsTyped DEF Holds
<1>3. PICK i : i = Min(LineFeeds(p.buffer))
  OBVIOUS
<1>4. i \in 1..(m - c) /\ i \in LineFeeds(p.buffer) /\ \A j \in LineFeeds(p.buffer) : i <= j
  <2>1. LineFeeds(p.buffer) \in SUBSET (1..(m - c)) /\ LineFeeds(p.buffer) # {}
    BY HeldLineFeeds DEF HasLine
  <2>2. LineFeeds(p.buffer) \in SUBSET Nat
    BY <1>2, <2>1
  <2> QED BY <1>3, <2>1, <2>2, MinOf
<1>5. PICK n : n = c + i
  OBVIOUS
<1>6. n \in LineFeeds(body) /\ c < n /\ n <= m /\ n \in Nat
  <2>1. c + i \in LineFeeds(body)
    BY <1>4, HeldLineFeeds
  <2> QED BY <1>2, <1>4, <1>5, <2>1
<1>7. \A e \in LineFeeds(body) : e <= c \/ n <= e
  <2> SUFFICES ASSUME NEW e \in LineFeeds(body), c < e, e < n PROVE FALSE
    BY <1>2, <1>6
  <2>1. e - c \in 1..(m - c) /\ c + (e - c) = e /\ ~(i <= e - c)
    BY <1>2, <1>4, <1>5, <1>6
  <2>2. e - c \in LineFeeds(p.buffer)
    BY <2>1, HeldLineFeeds
  <2> QED BY <1>4, <2>1, <2>2
<1>8. PICK line, rest : line = SubSeq(p.buffer, 1, i - 1) /\ rest = SubSeq(p.buffer, i + 1, m - c)
  OBVIOUS
<1>9. line = SubSeq(body, c + 1, n - 1) /\ line \in Text
  <2>1. 0 \in Nat /\ i - 1 \in Nat /\ 0 <= i - 1 /\ i - 1 <= m - c
    BY <1>2, <1>4
  <2>2. /\ SubSeq(p.buffer, 0 + 1, i - 1) = SubSeq(body, c + 0 + 1, c + (i - 1))
        /\ p.buffer \in Text /\ Len(p.buffer) = m - c
    BY <1>2, <2>1, PartOfPart DEF Text
  <2>3. 0 + 1 = 1 /\ c + 0 + 1 = c + 1 /\ c + (i - 1) = n - 1
    BY <1>2, <1>4, <1>5
  <2>4. SubSeq(p.buffer, 1, i - 1) \in Text
    BY <2>1, <2>2 DEF Text
  <2> QED BY <1>8, <2>2, <2>3, <2>4
<1>10. rest = SubSeq(body, n + 1, m) /\ rest \in Text
  <2>1. i \in Nat /\ m - c \in Nat /\ i <= m - c
    BY <1>2, <1>4
  <2>2. /\ SubSeq(p.buffer, i + 1, m - c) = SubSeq(body, c + i + 1, c + (m - c))
        /\ p.buffer \in Text /\ Len(p.buffer) = m - c
    BY <1>2, <2>1, PartOfPart DEF Text
  <2>3. c + i + 1 = n + 1 /\ c + (m - c) = m
    BY <1>2, <1>4, <1>5
  <2>4. SubSeq(p.buffer, i + 1, m - c) \in Text
    BY <2>1, <2>2 DEF Text
  <2> QED BY <1>8, <2>2, <2>3, <2>4
<1>11. /\ k + 1 \in 1..L
       /\ Rank(Starts(body), n) = k + 1
       /\ lines[k + 1] = Chomp(line)
  BY SMTT(30), <1>1, <1>2, <1>6, <1>7, <1>9, LineAt DEF Text
<1>12. PICK r : r = [p EXCEPT !.buffer = rest]
  OBVIOUS
<1>13. /\ r \in ParserType /\ r.buffer = rest /\ r.bom_stripped = p.bom_stripped
       /\ r.events = p.events /\ Gathers(r, lines, k + 1)
  <2>1. Gathers(p, lines, k + 1)
    BY DEF Holds
  <2>2. /\ r \in ParserType /\ r.buffer = rest /\ r.bom_stripped = p.bom_stripped
        /\ r.events = p.events /\ r.event_type = p.event_type
        /\ r.data_buffer = p.data_buffer /\ r.last_id = p.last_id
    BY <1>10, <1>12 DEF ParserType
  <2> QED BY <2>1, <2>2 DEF Gathers
<1>14. q = TakeLine(r, line)
  <2>1. Len(p.buffer) = m - c
    BY HeldLineFeeds
  <2> QED BY <1>3, <1>8, <1>12, <2>1 DEF NextLine
<1>15. /\ q \in ParserType
       /\ q.buffer = r.buffer /\ q.bom_stripped = r.bom_stripped
       /\ Gathers(q, lines, k + 2)
       /\ q.events = IF k + 1 \in EventEnds(lines)
                     THEN Append(r.events, EventAt(lines, k + 1)) ELSE r.events
  <2>1. L \in Nat /\ lines \in [1..L -> Text] /\ k \in Nat /\ k + 1 \in 1..L
    BY <1>2, <1>11
  <2>2. r \in ParserType /\ Gathers(r, lines, k + 1) /\ line \in Text /\ Chomp(line) = lines[k + 1]
    BY <1>9, <1>11, <1>13
  <2> QED BY <1>14, <2>1, <2>2, GathersMore
<1>16. Holds(q, body, n, m)
  <2>1. n \in Starts(body) /\ m \in 0..Len(body) /\ n <= m
    BY <1>2, <1>6 DEF Starts
  <2>2. Rank(Starts(body), n) + 1 = k + 2
    BY <1>2, <1>11
  <2> QED BY <1>10, <1>13, <1>15, <2>1, <2>2 DEF Holds
<1> QED BY <1>2, <1>11, <1>13, <1>15, <1>16

\* What is appended to the second of two is appended to both.
LEMMA AppendMoves ==
    ASSUME NEW S, NEW s \in Seq(S), NEW t \in Seq(S), NEW x \in S
    PROVE  s \o Append(t, x) = Append(s \o t, x)
<1>1. <<x>> \in Seq(S)
  OBVIOUS
<1>2. s \o t \in Seq(S)
  BY ConcatProperties
<1>3. (s \o t) \o <<x>> = s \o (t \o <<x>>)
  BY <1>1, ConcatAssociative
<1>4. t \o <<x>> = Append(t, x)
  BY AppendIsConcat
<1>5. (s \o t) \o <<x>> = Append(s \o t, x)
  BY <1>2, AppendIsConcat
<1> QED BY <1>3, <1>4, <1>5

\* The events f are those of e and, if the line behind n others ends a block
\* with data, its event.
Gives(lines, n, e, f) ==
    f = IF n + 1 \in EventEnds(lines) THEN Append(e, EventAt(lines, n + 1)) ELSE e

\* The events y and e are those of the first n lines.
SoFar(lines, n, y, e) == y \o e = EventsTo(lines, n)

\* What was yielded and what is still to yield, when a line more is taken.
LEMMA EventsOnward ==
    ASSUME NEW L \in Nat, NEW lines \in [1..L -> Text], NEW k \in Nat, k + 1 \in 1..L,
           NEW y \in Seq(AnyEvent), NEW e \in Seq(AnyEvent), SoFar(lines, k, y, e),
           NEW f, Gives(lines, k, e, f)
    PROVE  SoFar(lines, k + 1, y, f)
<1>0. PICK X, x : /\ X = AnyEvent \cup {EventAt(lines, i) : i \in EventEnds(lines)}
                  /\ x = EventAt(lines, k + 1)
  OBVIOUS
<1>1. \A i \in EventEnds(lines) : EventAt(lines, i) \in X
  BY <1>0
<1>2. EventsTo(lines, k + 1) = IF k + 1 \in EventEnds(lines)
                               THEN Append(EventsTo(lines, k), EventAt(lines, k + 1))
                               ELSE EventsTo(lines, k)
  BY <1>1, EventsMore
<1>3. y \in Seq(X) /\ e \in Seq(X)
  <2>1. AnyEvent \subseteq X
    BY <1>0
  <2> QED BY <2>1, SeqMonotonic
<1>4. CASE k + 1 \in EventEnds(lines)
  <2>1. x \in X
    BY <1>0, <1>1, <1>4
  <2>2. y \o Append(e, x) = Append(y \o e, x)
    BY <1>3, <2>1, AppendMoves
  <2> QED BY <1>0, <1>2, <1>4, <2>2 DEF Gives, SoFar
<1>5. CASE k + 1 \notin EventEnds(lines)
  BY <1>2, <1>5 DEF Gives, SoFar
<1> QED BY <1>4, <1>5

-----------------------------------------------------------------------------
(* What a wire brings *)

\* The tokens of its first n pieces.
Brought(w, n) == Len(FlattenSeq(SubSeq(w, 1, n)))

\* Pieces n + 1 to m of a wire are the part of its text between what the first n
\* and what the first m bring.
LEMMA Brings ==
    ASSUME NEW w \in Seq(Text), NEW n \in Nat, NEW m \in Nat, n <= m, m <= Len(w),
           NEW text, text = FlattenSeq(w)
    PROVE  /\ text \in Text /\ Brought(w, n) \in Nat /\ Brought(w, m) \in Nat
           /\ Brought(w, n) <= Brought(w, m) /\ Brought(w, m) <= Len(text)
           /\ FlattenSeq(SubSeq(w, n + 1, m)) = SubSeq(text, Brought(w, n) + 1, Brought(w, m))
<1>0. PICK a, b, c : /\ a = SubSeq(w, 1, n) /\ b = SubSeq(w, n + 1, m)
                     /\ c = SubSeq(w, m + 1, Len(w))
  OBVIOUS
<1>1. a \in Seq(Text) /\ b \in Seq(Text) /\ c \in Seq(Text) /\ Len(w) \in Nat
  BY <1>0
<1>2. a \o b = SubSeq(w, 1, m)
  <2>1. 0 \in Nat /\ 0 <= n /\ 0 + 1 = 1
    OBVIOUS
  <2>2. SubSeq(w, 0 + 1, n) \o SubSeq(w, n + 1, m) = SubSeq(w, 0 + 1, m)
    BY SMTT(30), <2>1, PartsJoin
  <2> QED BY <1>0, <2>1, <2>2
<1>3. (a \o b) \o c = w
  <2>1. 0 \in Nat /\ 0 <= m /\ 0 + 1 = 1 /\ Len(w) \in Nat /\ Len(w) <= Len(w)
    OBVIOUS
  <2>2. SubSeq(w, 0 + 1, m) \o SubSeq(w, m + 1, Len(w)) = SubSeq(w, 0 + 1, Len(w))
    BY <2>1, PartsJoin
  <2>3. SubSeq(w, 1, Len(w)) = w
    OBVIOUS
  <2> QED BY <1>0, <1>2, <2>1, <2>2, <2>3
<1>4. PICK x, y, z : x = FlattenSeq(a) /\ y = FlattenSeq(b) /\ z = FlattenSeq(c)
  OBVIOUS
<1>5. x \in Text /\ y \in Text /\ z \in Text
  BY <1>1, <1>4, FlattenTyped DEF Text
<1>6. FlattenSeq(a \o b) = x \o y
  BY <1>1, <1>4, FlattenJoin DEF Text
<1>7. text = (x \o y) \o z
  <2>1. a \o b \in Seq(Text)
    BY <1>1, ConcatProperties
  <2>2. FlattenSeq((a \o b) \o c) = FlattenSeq(a \o b) \o FlattenSeq(c)
    BY <1>1, <2>1, FlattenJoin DEF Text
  <2> QED BY <1>3, <1>4, <1>6, <2>2
<1>8. Brought(w, n) = Len(x) /\ Brought(w, m) = Len(x \o y)
  BY <1>0, <1>2, <1>4, <1>6 DEF Brought
<1>9. PICK u : u = x \o y
  OBVIOUS
<1>10. /\ u \in Text /\ Len(x) \in Nat /\ Len(y) \in Nat /\ Len(u) = Len(x) + Len(y)
       /\ \A i \in 1..Len(y) : u[Len(x) + i] = y[i]
  BY <1>5, <1>9, ConcatProperties, LenProperties DEF Text
<1>11. /\ text \in Text /\ Len(z) \in Nat /\ Len(text) = Len(u) + Len(z)
       /\ \A i \in 1..Len(u) : text[i] = u[i]
  BY <1>5, <1>7, <1>9, <1>10, ConcatProperties, LenProperties DEF Text
<1>12. y = SubSeq(text, Len(x) + 1, Len(u))
  <2>1. \A i \in 1..Len(y) : Len(x) + i \in 1..Len(u)
    BY <1>10
  <2>2. \A i \in 1..Len(y) : text[Len(x) + i] = y[i]
    BY <1>10, <1>11, <2>1
  <2>3. PICK v : v = SubSeq(text, Len(x) + 1, Len(u))
    OBVIOUS
  <2>4. v \in Text /\ Len(v) = Len(y) /\ \A i \in 1..Len(y) : v[i] = text[Len(x) + i]
    BY SMTT(30), <1>10, <1>11, <2>3 DEF Text
  <2>5. v \in [1..Len(y) -> Tokens] /\ y \in [1..Len(y) -> Tokens]
    BY <1>5, <2>4, LenProperties DEF Text
  <2>6. \A i \in 1..Len(y) : v[i] = y[i]
    BY <2>2, <2>4
  <2> QED BY <2>3, <2>5, <2>6
<1> QED BY SMTT(30), <1>0, <1>4, <1>8, <1>9, <1>10, <1>11, <1>12

\* How long the mark is that a text begins with.
Mark(text) == IF IsPrefix(BOM, text) THEN 3 ELSE 0

\* The mark a text begins with is within it.
LEMMA MarkFits ==
    ASSUME NEW text \in Text
    PROVE  Mark(text) \in Nat /\ Mark(text) <= Len(text) /\ Len(text) \in Nat
<1>1. Len(BOM) = 3
  BY DEF BOM
<1> QED BY <1>1 DEF Mark, IsPrefix, Text

\* Text and ended body, place by place.
LEMMA BodyIs ==
    ASSUME NEW text \in Text, NEW body, body = Ended(BodyOf(text)),
           NEW n, n = Len(text) - Mark(text)
    PROVE  /\ body \in Text /\ n \in Nat /\ n <= Len(body) /\ Len(body) \in Nat
           /\ \A i \in 1..n : body[i] = text[Mark(text) + i]
           /\ \/ body = BodyOf(text) /\ Len(body) = n /\ (n = 0 \/ body[n] = "LF")
              \/ n # 0 /\ body[n] # "LF" /\ Len(body) = n + 1 /\ body[n + 1] = "LF"
<1>0. PICK b : b = BodyOf(text)
  OBVIOUS
<1>1. Mark(text) \in Nat /\ Mark(text) <= Len(text) /\ Len(text) \in Nat
  BY MarkFits
<1>2. b \in Text /\ Len(b) = n /\ n \in Nat /\ \A i \in 1..n : b[i] = text[Mark(text) + i]
  <2>1. CASE IsPrefix(BOM, text)
    <3>1. b = SubSeq(text, 4, Len(text)) /\ Mark(text) = 3
      BY <1>0, <2>1 DEF BodyOf, Mark
    <3>2. Mark(text) + 1 = 4 /\ Len(text) <= Len(text)
      BY <1>1, <3>1
    <3>3. b = SubSeq(text, Mark(text) + 1, Len(text))
      BY <3>1, <3>2
    <3> QED BY <1>1, <3>2, <3>3, PartIs DEF Text
  <2>2. CASE ~IsPrefix(BOM, text)
    <3>1. b = text /\ Mark(text) = 0
      BY <1>0, <2>2 DEF BodyOf, Mark
    <3> QED BY <1>1, <3>1 DEF Text
  <2> QED BY <2>1, <2>2
<1>3. b = <<>> <=> n = 0
  BY <1>2 DEF Text
<1>4. CASE b = <<>> \/ b[n] = "LF"
  <2>1. body = b
    BY <1>0, <1>2, <1>4 DEF Ended, Last
  <2> QED BY <1>0, <1>2, <1>3, <1>4, <2>1
<1>5. CASE ~(b = <<>> \/ b[n] = "LF")
  <2>1. body = Append(b, "LF")
    BY <1>0, <1>2, <1>5 DEF Ended, Last
  <2>2. /\ body \in Text /\ Len(body) = n + 1 /\ body[n + 1] = "LF"
        /\ \A i \in 1..n : body[i] = b[i]
    BY <1>2, <2>1, TextFacts, AppendProperties DEF Text
  <2>3. n # 0 /\ n \in 1..n /\ body[n] # "LF"
    BY <1>2, <1>3, <1>5, <2>2
  <2> QED BY <1>2, <2>2, <2>3
<1> QED BY <1>4, <1>5

\* How far a body is known when n pieces have come.
Known(w, n) == IF n = 0 THEN 0
               ELSE Brought(w, n) - Mark(FlattenSeq(w))

\* The mark of w, if it has one, is in its first piece.
MarkFirst(w) == IsPrefix(BOM, FlattenSeq(w)) => IsPrefix(BOM, w[1])

\* No piece brings nothing, and all pieces bring all.
LEMMA BroughtEnds ==
    ASSUME NEW w \in Seq(Text)
    PROVE  Brought(w, 0) = 0 /\ Brought(w, Len(w)) = Len(FlattenSeq(w))
<1>1. SubSeq(w, 1, 0) = <<>>
  <2>1. Len(SubSeq(w, 1, 0)) = 0 /\ SubSeq(w, 1, 0) \in Seq(Text)
    OBVIOUS
  <2> QED BY <2>1, EmptySeq
<1>2. SubSeq(w, 1, Len(w)) = w
  OBVIOUS
<1>3. Len(<<>>) = 0
  OBVIOUS
<1>4. Brought(w, 0) = 0
  BY <1>1, <1>3, FlattenEmpty DEF Brought
<1>5. Brought(w, Len(w)) = Len(FlattenSeq(w))
  BY <1>2 DEF Brought
<1> QED BY <1>4, <1>5

\* Sequences are equal when their lengths and their elements are.
LEMMA SeqsEqual ==
    ASSUME NEW A, NEW B, NEW s \in Seq(A), NEW t \in Seq(B), Len(s) = Len(t),
           \A i \in 1..Len(s) : s[i] = t[i]
    PROVE  s = t
  OBVIOUS

\* The first pieces bring the beginning of the text.
LEMMA FirstPieces ==
    ASSUME NEW w \in Seq(Text), NEW n \in Nat, n <= Len(w)
    PROVE  /\ FlattenSeq(SubSeq(w, 1, n)) = SubSeq(FlattenSeq(w), 1, Brought(w, n))
           /\ FlattenSeq(w) \in Text /\ Brought(w, n) \in Nat
           /\ Brought(w, n) <= Len(FlattenSeq(w)) /\ Len(FlattenSeq(w)) \in Nat
<1>1. PICK z \in Nat : z = 0
  OBVIOUS
<1>2. z <= n /\ z + 1 = 1
  BY <1>1
<1>3. /\ FlattenSeq(SubSeq(w, z + 1, n)) =
            SubSeq(FlattenSeq(w), Brought(w, z) + 1, Brought(w, n))
      /\ FlattenSeq(w) \in Text /\ Brought(w, n) \in Nat
      /\ Brought(w, n) <= Len(FlattenSeq(w))
  BY <1>2, Brings
<1>4. Brought(w, z) + 1 = 1
  <2>1. Brought(w, z) = 0
    BY <1>1, BroughtEnds
  <2> QED BY <2>1
<1>5. Len(FlattenSeq(w)) \in Nat
  BY <1>3 DEF Text
<1> QED BY <1>2, <1>3, <1>4, <1>5

\* A text that is one of them, as pieces go.
LEMMA OnePiece ==
    ASSUME NEW w \in Seq(Text), 1 <= Len(w)
    PROVE  w[1] \in Text /\ FlattenSeq(SubSeq(w, 1, 1)) = w[1]
<1>1. PICK x : x = w[1]
  OBVIOUS
<1>2. x \in Text
  BY <1>1
<1>3. SubSeq(w, 1, 1) = <<x>>
  <2>1. PICK u, v : u = SubSeq(w, 1, 1) /\ v = <<x>>
    OBVIOUS
  <2>2. u \in Seq(Text) /\ Len(u) = 1 /\ u[1] = x
    BY <1>1, <2>1
  <2>3. v \in Seq(Text) /\ Len(v) = 1 /\ v[1] = x
    BY <1>2, <2>1
  <2>4. \A i \in 1..1 : u[i] = v[i]
    BY <2>2, <2>3
  <2> QED BY ZenonT(60), <2>1, <2>2, <2>3, <2>4, SeqsEqual
<1>4. <<x>> = Append(<<>>, x)
  OBVIOUS
<1>5. <<>> \in Seq(Text)
  BY EmptySeq
<1>6. FlattenSeq(Append(<<>>, x)) = FlattenSeq(<<>>) \o x
  BY <1>2, <1>5, FlattenAppend DEF Text
<1>7. <<>> \o x = x
  BY <1>2, TextFacts
<1> QED BY <1>1, <1>2, <1>3, <1>4, <1>6, <1>7, FlattenEmpty

\* A mark is three tokens.
LEMMA MarkIs ==
    ASSUME NEW s \in Text
    PROVE  IsPrefix(BOM, s) <=> 3 <= Len(s) /\ s[1] = "EF" /\ s[2] = "BB" /\ s[3] = "BF"
<1>1. Len(BOM) = 3 /\ BOM[1] = "EF" /\ BOM[2] = "BB" /\ BOM[3] = "BF"
  BY DEF BOM
<1>2. IsPrefix(BOM, s) <=> 3 <= Len(s) /\ SubSeq(BOM, 1, 3) = SubSeq(s, 1, 3)
  BY <1>1 DEF IsPrefix
<1>3. PICK a, b : a = SubSeq(BOM, 1, 3) /\ b = SubSeq(s, 1, 3)
  OBVIOUS
<1>4. PICK E : E = {"EF", "BB", "BF"}
  OBVIOUS
<1>5. a \in Seq(E) /\ Len(a) = 3 /\ a[1] = "EF" /\ a[2] = "BB" /\ a[3] = "BF"
  <2>1. BOM \in Seq(E) /\ Len(BOM) = 3
    BY <1>4 DEF BOM
  <2>2. a \in Seq(E) /\ Len(a) = 3 /\ \A i \in 1..3 : a[i] = BOM[i]
    BY SMTT(30), <1>3, <2>1
  <2> QED BY <1>1, <2>2
<1>6. 3 <= Len(s) => b \in Text /\ Len(b) = 3 /\ b[1] = s[1] /\ b[2] = s[2] /\ b[3] = s[3]
  BY <1>3 DEF Text
<1>7. ASSUME 3 <= Len(s), s[1] = "EF", s[2] = "BB", s[3] = "BF" PROVE a = b
  <2>1. /\ a \in Seq(E) /\ Len(a) = 3
        /\ b \in Seq(Tokens) /\ Len(b) = 3
    BY <1>5, <1>6, <1>7 DEF Text
  <2>2. a[1] = b[1] /\ a[2] = b[2] /\ a[3] = b[3]
    BY <1>5, <1>6, <1>7
  <2>3. \A i \in 1..3 : i = 1 \/ i = 2 \/ i = 3
    OBVIOUS
  <2>4. \A i \in 1..3 : a[i] = b[i]
    BY <2>2, <2>3
  <2> QED BY <2>1, <2>4, SeqsEqual
<1> QED BY <1>2, <1>3, <1>5, <1>6, <1>7

\* Two texts that begin alike begin with a mark both or neither.
LEMMA MarkAlike ==
    ASSUME NEW text \in Text, NEW n \in Nat, n <= Len(text)
    PROVE  /\ IsPrefix(BOM, SubSeq(text, 1, n)) <=> IsPrefix(BOM, text) /\ 3 <= n
           /\ SubSeq(text, 1, n) \in Text /\ Len(SubSeq(text, 1, n)) = n
           /\ \A i \in 1..n : SubSeq(text, 1, n)[i] = text[i]
<1>1. PICK s : s = SubSeq(text, 1, n)
  OBVIOUS
<1>2. s \in Text /\ Len(s) = n /\ \A i \in 1..n : s[i] = text[i]
  BY <1>1 DEF Text
<1>3. Len(text) \in Nat
  BY DEF Text
<1>4. 3 <= n => s[1] = text[1] /\ s[2] = text[2] /\ s[3] = text[3]
  BY <1>2
<1>5. IsPrefix(BOM, s) <=> 3 <= n /\ s[1] = "EF" /\ s[2] = "BB" /\ s[3] = "BF"
  BY <1>2, MarkIs
<1>6. IsPrefix(BOM, text) <=>
         3 <= Len(text) /\ text[1] = "EF" /\ text[2] = "BB" /\ text[3] = "BF"
  BY MarkIs
<1>7. 3 <= n => 3 <= Len(text)
  BY <1>3
<1>8. IsPrefix(BOM, s) <=> IsPrefix(BOM, text) /\ 3 <= n
  BY <1>4, <1>5, <1>6, <1>7
<1> QED BY <1>1, <1>2, <1>8

\* A first read brings the mark whole.
LEMMA MarkCome ==
    ASSUME NEW w \in Seq(Text), MarkFirst(w), NEW n \in Nat, n # 0, n <= Len(w)
    PROVE  /\ IsPrefix(BOM, FlattenSeq(SubSeq(w, 1, n))) <=> IsPrefix(BOM, FlattenSeq(w))
           /\ Mark(FlattenSeq(w)) <= Brought(w, n)
<1>1. PICK text, b : text = FlattenSeq(w) /\ b = Brought(w, n)
  OBVIOUS
<1>2. /\ FlattenSeq(SubSeq(w, 1, n)) = SubSeq(text, 1, b)
      /\ text \in Text /\ b \in Nat /\ b <= Len(text)
  BY <1>1, FirstPieces
<1>3. IsPrefix(BOM, SubSeq(text, 1, b)) <=> IsPrefix(BOM, text) /\ 3 <= b
  BY <1>2, MarkAlike
<1>4. ASSUME IsPrefix(BOM, text) PROVE 3 <= b
  <2>1. 1 \in Nat /\ 1 <= n /\ 1 <= Len(w)
    OBVIOUS
  <2>2. Brought(w, 1) \in Nat /\ Brought(w, 1) <= b
    BY <1>1, <2>1, Brings
  <2>3. FlattenSeq(SubSeq(w, 1, 1)) = w[1] /\ w[1] \in Text
    BY <2>1, OnePiece
  <2>4. Len(w[1]) = Brought(w, 1)
    BY <2>3 DEF Brought
  <2>5. IsPrefix(BOM, w[1])
    BY <1>1, <1>4 DEF MarkFirst
  <2>6. 3 <= Len(w[1])
    BY <2>3, <2>5, MarkIs
  <2> QED BY <1>2, <2>2, <2>4, <2>6
<1>5. Mark(text) = IF IsPrefix(BOM, text) THEN 3 ELSE 0
  BY DEF Mark
<1>6. Mark(text) <= b
  BY <1>2, <1>4, <1>5
<1> QED BY <1>1, <1>2, <1>3, <1>4, <1>6

\* How far it is known.
LEMMA KnownTyped ==
    ASSUME NEW w \in Seq(Text), MarkFirst(w), NEW n \in Nat, n <= Len(w),
           NEW text, text = FlattenSeq(w), NEW body, body = Ended(BodyOf(text))
    PROVE  /\ text \in Text /\ body \in Text /\ Len(body) \in Nat /\ Len(text) \in Nat
           /\ Known(w, n) \in Nat /\ Known(w, n) <= Len(text) - Mark(text)
           /\ Len(text) - Mark(text) <= Len(body)
           /\ Mark(text) \in Nat /\ Brought(w, n) \in Nat
           /\ n # 0 => Known(w, n) = Brought(w, n) - Mark(text) /\ Mark(text) <= Brought(w, n)
           /\ \A i \in 1..(Len(text) - Mark(text)) : body[i] = text[Mark(text) + i]
<1>1. text \in Text /\ Brought(w, n) \in Nat /\ Brought(w, n) <= Len(text)
  BY FirstPieces
<1>2. Mark(text) \in Nat /\ Mark(text) <= Len(text) /\ Len(text) \in Nat
  BY <1>1, MarkFits
<1>3. /\ body \in Text /\ Len(body) \in Nat /\ Len(text) - Mark(text) <= Len(body)
      /\ \A i \in 1..(Len(text) - Mark(text)) : body[i] = text[Mark(text) + i]
  BY <1>1, BodyIs
<1>4. n # 0 => Mark(text) <= Brought(w, n)
  BY MarkCome
<1> QED BY <1>1, <1>2, <1>3, <1>4 DEF Known

\* What all pieces bring.
LEMMA KnownAll ==
    ASSUME NEW w \in Seq(Text)
    PROVE  Known(w, Len(w)) = Len(FlattenSeq(w)) - Mark(FlattenSeq(w))
<1>1. PICK text : text = FlattenSeq(w)
  OBVIOUS
<1>2. Len(w) \in Nat /\ Len(w) <= Len(w)
  BY LenProperties
<1>3. text \in Text
  BY <1>1, <1>2, FirstPieces
<1>4. Mark(text) \in Nat /\ Mark(text) <= Len(text) /\ Len(text) \in Nat
  BY <1>3, MarkFits
<1>5. Brought(w, Len(w)) = Len(text) /\ Brought(w, 0) = 0
  BY <1>1, BroughtEnds
<1>6. CASE Len(w) = 0
  BY <1>1, <1>4, <1>5, <1>6 DEF Known
<1>7. CASE Len(w) # 0
  BY <1>1, <1>5, <1>7 DEF Known
<1> QED BY <1>6, <1>7

-----------------------------------------------------------------------------
(* The parser's steps *)

\* A parser that nothing was fed to is at the beginning of any body.
LEMMA BeginHolds ==
    ASSUME NEW body \in Text
    PROVE  Holds(NewParser, body, 0, 0) /\ NewParser \in ParserType
<1>1. /\ NewParser.event_type = <<"message">> /\ NewParser.data_buffer = <<>>
      /\ NewParser.last_id = <<>> /\ NewParser.buffer = <<>>
  BY DEF NewParser
<1>2. NewParser \in ParserType
  <2>1. <<"message">> \in Text /\ <<>> \in Text
    BY TextFacts
  <2>2. <<>> \in Seq(AnyEvent)
    BY EmptySeq
  <2> QED BY <2>1, <2>2 DEF NewParser, ParserType
<1>3. PICK lines : lines = CutAtLineFeeds(body)
  OBVIOUS
<1>4. Gathers(NewParser, lines, 1)
  BY <1>1, GathersNothing
<1>5. 0 \in Starts(body) /\ Rank(Starts(body), 0) = 0 /\ Len(body) \in Nat
  BY LinesBegin, StartsTyped DEF Text
<1>6. Rank(Starts(body), 0) + 1 = 1 /\ 0 \in 0..Len(body) /\ 0 <= 0
  BY <1>5
<1>7. SubSeq(body, 0 + 1, 0) = <<>>
  <2>1. SubSeq(body, 0 + 1, 0) \in Text /\ Len(SubSeq(body, 0 + 1, 0)) = 0
    BY <1>5 DEF Text
  <2> QED BY <2>1, EmptySeq DEF Text
<1> QED BY <1>1, <1>2, <1>3, <1>4, <1>5, <1>6, <1>7 DEF Holds

\* What only the buffer changes in goes on gathering.
LEMMA StillGathers ==
    ASSUME NEW p \in ParserType, NEW q \in ParserType, NEW lines, NEW n, Gathers(p, lines, n),
           q.event_type = p.event_type, q.data_buffer = p.data_buffer, q.last_id = p.last_id
    PROVE  Gathers(q, lines, n)
  BY DEF Gathers

\* A part that two sequences have in common, M places apart.
LEMMA PartMoved ==
    ASSUME NEW body \in Text, NEW text \in Text, NEW M \in Nat, NEW n \in Nat,
           n <= Len(body), M + n <= Len(text), \A i \in 1..n : body[i] = text[M + i],
           NEW i \in Nat, NEW j \in Nat, i <= j, j <= n
    PROVE  SubSeq(body, i + 1, j) = SubSeq(text, M + i + 1, M + j)
<1>0. PICK x, y : x = SubSeq(body, i + 1, j) /\ y = SubSeq(text, M + i + 1, M + j)
  OBVIOUS
<1>1. x \in Seq(Tokens) /\ Len(x) = j - i /\ \A h \in 1..(j - i) : x[h] = body[i + h]
  <2>1. j <= Len(body)
    BY LenProperties DEF Text
  <2> QED BY <1>0, <2>1, PartIs DEF Text
<1>2. y \in Seq(Tokens) /\ Len(y) = j - i /\ \A h \in 1..(j - i) : y[h] = text[M + i + h]
  <2>1. PICK A \in Nat, B \in Nat : A = M + i /\ B = M + j
    OBVIOUS
  <2>2. A <= B /\ B <= Len(text) /\ B - A = j - i
    BY <2>1, LenProperties DEF Text
  <2>3. y = SubSeq(text, A + 1, B)
    BY <1>0, <2>1
  <2>4. y \in Seq(Tokens) /\ Len(y) = B - A /\ \A h \in 1..(B - A) : y[h] = text[A + h]
    BY <2>2, <2>3, PartIs DEF Text
  <2> QED BY <2>1, <2>2, <2>4
<1>3. ASSUME NEW h \in 1..(j - i) PROVE x[h] = y[h]
  <2>1. i + h \in 1..n /\ M + (i + h) = M + i + h
    OBVIOUS
  <2>2. body[i + h] = text[M + (i + h)]
    BY <2>1
  <2> QED BY <1>1, <1>2, <2>1, <2>2
<1>4. x = y
  BY <1>1, <1>2, <1>3, SeqsEqual
<1> QED BY <1>0, <1>4

\* What a chunk changes.
LEMMA Fed ==
    ASSUME NEW p \in ParserType, NEW chunk \in Text
    PROVE  /\ Feed(p, chunk) \in ParserType
           /\ Feed(p, chunk).bom_stripped
           /\ Feed(p, chunk).events = p.events
           /\ Feed(p, chunk).event_type = p.event_type
           /\ Feed(p, chunk).data_buffer = p.data_buffer
           /\ Feed(p, chunk).last_id = p.last_id
           /\ Feed(p, chunk).buffer = IF ~p.bom_stripped THEN BodyOf(p.buffer \o chunk)
                                     ELSE p.buffer \o chunk
<1>0. PICK q, b : q = Feed(p, chunk) /\ b = p.buffer \o chunk
  OBVIOUS
<1>1. b \in Text
  BY <1>0, ConcatProperties DEF ParserType, Text
<1>2. PICK r : r = [p EXCEPT !.buffer = b]
  OBVIOUS
<1>3. /\ r \in ParserType /\ r.buffer = b /\ r.bom_stripped = p.bom_stripped
      /\ r.events = p.events /\ r.event_type = p.event_type
      /\ r.data_buffer = p.data_buffer /\ r.last_id = p.last_id
  BY <1>1, <1>2 DEF ParserType
<1>4. PICK d : d = IF ~p.bom_stripped THEN BodyOf(b) ELSE b
  OBVIOUS
<1>5. d \in Text
  <2>1. SubSeq(b, 4, Len(b)) \in Text
    BY <1>1 DEF Text
  <2> QED BY <1>1, <1>4, <2>1 DEF BodyOf
<1>6. q = StripBom(r)
  BY <1>0, <1>2 DEF Feed
<1>7. q = [r EXCEPT !.bom_stripped = TRUE, !.buffer = d]
  BY <1>3, <1>4, <1>6 DEF StripBom, BodyOf
<1>8. /\ q \in ParserType
      /\ q.bom_stripped /\ q.events = p.events /\ q.event_type = p.event_type
      /\ q.data_buffer = p.data_buffer /\ q.last_id = p.last_id /\ q.buffer = d
  BY <1>3, <1>5, <1>7 DEF ParserType
<1> QED BY <1>0, <1>4, <1>8

\* What the first read leaves in the buffer.
LEMMA FirstRead ==
    ASSUME NEW w \in Seq(Text), MarkFirst(w), NEW n \in Nat, n # 0, n <= Len(w)
    PROVE  BodyOf(FlattenSeq(SubSeq(w, 1, n))) =
              SubSeq(FlattenSeq(w), Mark(FlattenSeq(w)) + 1, Brought(w, n))
<1>1. PICK B, text, b : /\ B = Brought(w, n) /\ text = FlattenSeq(w)
                        /\ b = FlattenSeq(SubSeq(w, 1, n))
  OBVIOUS
<1>2. /\ b = SubSeq(text, 1, B) /\ text \in Text /\ B \in Nat
      /\ B <= Len(text) /\ Len(text) \in Nat
  BY <1>1, FirstPieces
<1>3. /\ b \in Text /\ Len(b) = B
  BY <1>2, MarkAlike
<1>4. (IsPrefix(BOM, b) <=> IsPrefix(BOM, text)) /\ Mark(text) <= B
  BY <1>1, MarkCome
<1>5. CASE IsPrefix(BOM, b)
  <2>1. Mark(text) = 3 /\ 3 <= B
    BY <1>4, <1>5 DEF Mark
  <2>2. PICK z \in Nat : z = 0
    OBVIOUS
  <2>3. z <= B /\ 3 \in Nat /\ 3 <= B - z /\ B <= B - z /\ z + 1 = 1 /\ B - z = B
        /\ 3 + 1 = 4 /\ z + 3 + 1 = 3 + 1 /\ z + B = B
    BY <1>2, <2>1, <2>2
  <2>4. b = SubSeq(text, z + 1, B)
    BY <1>2, <2>3
  <2>5. SubSeq(b, 3 + 1, B) = SubSeq(text, z + 3 + 1, z + B)
    BY <1>2, <2>1, <2>3, <2>4, PartOfPart DEF Text
  <2> QED BY <1>1, <1>3, <1>5, <2>1, <2>3, <2>5 DEF BodyOf
<1>6. CASE ~IsPrefix(BOM, b)
  <2>1. Mark(text) = 0 /\ 0 + 1 = 1
    BY <1>4, <1>6 DEF Mark
  <2> QED BY <1>1, <1>2, <1>3, <1>6, <2>1 DEF BodyOf
<1> QED BY <1>5, <1>6

\* What a read says of the body, when it is w's.
IsBody(body, w) == body = Ended(BodyOf(FlattenSeq(w)))

\* More pieces, more of the body known.
LEMMA KnownGrows ==
    ASSUME NEW w \in Seq(Text), MarkFirst(w), NEW t \in Nat, NEW n \in Nat, t <= n, n <= Len(w)
    PROVE  Known(w, t) \in Nat /\ Known(w, n) \in Nat /\ Known(w, t) <= Known(w, n)
<1>1. PICK text, body : text = FlattenSeq(w) /\ body = Ended(BodyOf(text))
  OBVIOUS
<1>2. t <= Len(w)
  BY LenProperties
<1>3. Known(w, t) \in Nat /\ Brought(w, t) \in Nat
  BY <1>1, <1>2, KnownTyped
<1>4. Known(w, n) \in Nat /\ Brought(w, n) \in Nat /\ Mark(text) \in Nat
  BY <1>1, KnownTyped
<1>5. Brought(w, t) <= Brought(w, n)
  BY Brings
<1>6. CASE t = 0
  <2>1. Known(w, t) = 0
    BY <1>6 DEF Known
  <2> QED BY <1>3, <1>4, <2>1
<1>7. CASE t # 0
  <2>1. n # 0
    BY <1>7
  <2>2. Known(w, t) = Brought(w, t) - Mark(text) /\ Known(w, n) = Brought(w, n) - Mark(text)
    BY <1>1, <1>7, <2>1 DEF Known
  <2> QED BY <1>3, <1>4, <1>5, <2>2
<1> QED BY <1>6, <1>7

\* Pieces t + 1 to n of a wire, without the mark when they are the first, are the
\* part of the body that was not known and is now.
LEMMA ReadSays ==
    ASSUME NEW w \in Seq(Text), MarkFirst(w), NEW body, IsBody(body, w),
           NEW t \in Nat, NEW n \in Nat, t < n, n <= Len(w)
    PROVE  /\ body \in Text /\ FlattenSeq(SubSeq(w, t + 1, n)) \in Text
           /\ Known(w, n) <= Len(body) /\ Len(body) \in Nat
           /\ IF t = 0
              THEN BodyOf(FlattenSeq(SubSeq(w, t + 1, n))) = SubSeq(body, 1, Known(w, n))
              ELSE FlattenSeq(SubSeq(w, t + 1, n)) = SubSeq(body, Known(w, t) + 1, Known(w, n))
<1>0. PICK text, M, T, chunk, k, m, B, A :
         /\ text = FlattenSeq(w) /\ M = Mark(text) /\ T = Len(text) - M
         /\ chunk = FlattenSeq(SubSeq(w, t + 1, n))
         /\ k = Known(w, t) /\ m = Known(w, n)
         /\ B = Brought(w, n) /\ A = Brought(w, t)
  OBVIOUS
<1>1. t <= n /\ t <= Len(w) /\ n # 0
  BY LenProperties
<1>2. body = Ended(BodyOf(text))
  BY <1>0 DEF IsBody
<1>3. /\ text \in Text /\ body \in Text /\ Len(body) \in Nat /\ Len(text) \in Nat
      /\ M \in Nat /\ T <= Len(body) /\ m \in Nat /\ m <= T /\ B \in Nat
      /\ m = B - M /\ M <= B
      /\ \A i \in 1..T : body[i] = text[M + i]
  BY SMTT(30), <1>0, <1>1, <1>2, KnownTyped
<1>4. k \in Nat /\ A \in Nat /\ (t # 0 => k = A - M /\ M <= A)
  BY <1>0, <1>1, <1>2, KnownTyped
<1>5. A <= B /\ B <= Len(text) /\ chunk = SubSeq(text, A + 1, B)
  BY <1>0, <1>1, Brings
<1>6. chunk \in Text
  BY <1>3, <1>4, <1>5 DEF Text
<1>7. k <= m
  BY <1>0, <1>1, KnownGrows
<1>8. T \in Nat /\ M + T <= Len(text) /\ m <= Len(body)
  <2>1. T = Len(text) - M
    BY <1>0
  <2>2. Len(text) \in Nat /\ Len(body) \in Nat /\ M \in Nat /\ T <= Len(body)
        /\ m \in Nat /\ m <= T
    BY <1>3
  <2> QED BY <2>1, <2>2
<1>9. SubSeq(body, k + 1, m) = SubSeq(text, M + k + 1, M + m)
  BY <1>3, <1>4, <1>7, <1>8, PartMoved
<1>10. CASE t = 0
  <2>1. k = 0 /\ k + 1 = 1 /\ M + k + 1 = M + 1 /\ M + m = B /\ t + 1 = 1
    <3>1. k = 0
      BY <1>0, <1>10 DEF Known
    <3> QED BY <1>3, <1>10, <3>1
  <2>2. chunk = FlattenSeq(SubSeq(w, 1, n))
    BY <1>0, <2>1
  <2>3. BodyOf(chunk) = SubSeq(text, M + 1, B)
    BY <1>0, <1>1, <2>2, FirstRead
  <2>4. BodyOf(chunk) = SubSeq(body, 1, m)
    BY <1>9, <2>1, <2>3
  <2> QED BY <1>0, <1>3, <1>6, <1>8, <1>10, <2>4
<1>11. CASE t # 0
  <2>1. M + k + 1 = A + 1 /\ M + m = B
    BY <1>3, <1>4, <1>11
  <2>2. chunk = SubSeq(body, k + 1, m)
    BY <1>5, <1>9, <2>1
  <2> QED BY <1>0, <1>3, <1>6, <1>8, <1>11, <2>2
<1> QED BY <1>10, <1>11

\* A chunk that continues what is held.
Fits(p, chunk, body, k, m) ==
    \/ p.bom_stripped /\ chunk = SubSeq(body, k + 1, m)
    \/ ~p.bom_stripped /\ k = 0 /\ BodyOf(chunk) = SubSeq(body, 1, m)

\* Feeding the parser the part of the body behind what it holds, it holds up to
\* the end of that part.
LEMMA FedHolds ==
    ASSUME NEW body \in Text, NEW p \in ParserType, NEW c, NEW k \in Nat, NEW m \in Nat,
           Holds(p, body, c, k), k <= m, m <= Len(body), NEW chunk \in Text,
           Fits(p, chunk, body, k, m)
    PROVE  /\ Feed(p, chunk) \in ParserType /\ Feed(p, chunk).bom_stripped
           /\ Feed(p, chunk).events = p.events
           /\ Holds(Feed(p, chunk), body, c, m)
<1>1. /\ c \in Starts(body) /\ c <= k /\ p.buffer = SubSeq(body, c + 1, k)
      /\ Gathers(p, CutAtLineFeeds(body), Rank(Starts(body), c) + 1)
  BY DEF Holds
<1>2. c \in Nat /\ Len(body) \in Nat
  BY HoldsTyped
<1>3. PICK q, b : q = Feed(p, chunk) /\ b = p.buffer \o chunk
  OBVIOUS
<1>4. /\ q \in ParserType
      /\ q.bom_stripped /\ q.events = p.events /\ q.event_type = p.event_type
      /\ q.data_buffer = p.data_buffer /\ q.last_id = p.last_id
      /\ q.buffer = IF ~p.bom_stripped THEN BodyOf(b) ELSE b
  BY <1>3, Fed
<1>5. q.buffer = SubSeq(body, c + 1, m)
  <2>1. CASE p.bom_stripped /\ chunk = SubSeq(body, k + 1, m)
    <3>1. SubSeq(body, c + 1, k) \o SubSeq(body, k + 1, m) = SubSeq(body, c + 1, m)
      BY <1>1, <1>2, PartsJoin DEF Text
    <3> QED BY <1>1, <1>3, <1>4, <2>1, <3>1
  <2>2. CASE ~p.bom_stripped /\ k = 0 /\ BodyOf(chunk) = SubSeq(body, 1, m)
    <3>1. c = 0 /\ c + 1 = 1
      BY <1>1, <1>2, <2>2
    <3>2. p.buffer = <<>>
      <4>1. Len(p.buffer) = k - c /\ p.buffer \in Text
        BY HeldLineFeeds
      <4>2. Len(p.buffer) = 0
        BY <2>2, <3>1, <4>1
      <4> QED BY <4>1, <4>2, EmptySeq DEF Text
    <3>3. b = chunk
      BY <1>3, <3>2, TextFacts
    <3> QED BY <1>4, <2>2, <3>1, <3>3
  <2> QED BY <2>1, <2>2 DEF Fits
<1>6. Gathers(q, CutAtLineFeeds(body), Rank(Starts(body), c) + 1)
  BY <1>1, <1>4, StillGathers
<1>7. m \in 0..Len(body) /\ c <= m
  BY <1>1, <1>2
<1> QED BY <1>1, <1>3, <1>4, <1>5, <1>6, <1>7 DEF Holds

\* A chunk comes.
LEMMA FeedHolds ==
    ASSUME NEW w \in Seq(Text), MarkFirst(w), NEW body, IsBody(body, w),
           NEW t \in Nat, NEW n \in Nat, t < n, n <= Len(w),
           NEW p \in ParserType, NEW c, Holds(p, body, c, Known(w, t)),
           p.bom_stripped <=> t # 0,
           NEW chunk, chunk = FlattenSeq(SubSeq(w, t + 1, n))
    PROVE  /\ Feed(p, chunk) \in ParserType /\ Feed(p, chunk).bom_stripped
           /\ Feed(p, chunk).events = p.events
           /\ Holds(Feed(p, chunk), body, c, Known(w, n))
<1>1. PICK k, m : k = Known(w, t) /\ m = Known(w, n)
  OBVIOUS
<1>2. k \in Nat /\ m \in Nat /\ k <= m
  BY <1>1, KnownGrows
<1>3. /\ body \in Text /\ chunk \in Text /\ m <= Len(body)
      /\ IF t = 0 THEN BodyOf(chunk) = SubSeq(body, 1, m)
         ELSE chunk = SubSeq(body, k + 1, m)
  BY <1>1, ReadSays
<1>4. t = 0 => k = 0
  BY <1>1 DEF Known
<1>5. Holds(p, body, c, k)
  BY <1>1
<1>6. Fits(p, chunk, body, k, m)
  BY <1>3, <1>4 DEF Fits
<1>7. Holds(Feed(p, chunk), body, c, m) /\ Feed(p, chunk) \in ParserType
      /\ Feed(p, chunk).bom_stripped /\ Feed(p, chunk).events = p.events
  BY <1>2, <1>3, <1>5, <1>6, FedHolds
<1> QED BY <1>1, <1>7

\* The bytes have ended.
LEMMA FinishHolds ==
    ASSUME NEW w \in Seq(Text), NEW body, IsBody(body, w),
           NEW p \in ParserType, NEW c, Holds(p, body, c, Known(w, Len(w))), ~HasLine(p),
           NEW q, q = Finish(p)
    PROVE  /\ q \in ParserType /\ q.events = p.events
           /\ Holds(q, body, c, Len(body))
<1>0. PICK text, n : text = FlattenSeq(w) /\ n = Len(text) - Mark(text)
  OBVIOUS
<1>1. text \in Text
  <2>1. Len(w) \in Nat /\ Len(w) <= Len(w)
    BY LenProperties
  <2> QED BY <1>0, <2>1, FirstPieces
<1>2. /\ body \in Text /\ n \in Nat /\ n <= Len(body) /\ Len(body) \in Nat
      /\ \/ Len(body) = n /\ (n = 0 \/ body[n] = "LF")
         \/ n # 0 /\ body[n] # "LF" /\ Len(body) = n + 1 /\ body[n + 1] = "LF"
  <2>1. body = Ended(BodyOf(text))
    BY <1>0 DEF IsBody
  <2> QED BY <1>0, <1>1, <2>1, BodyIs
<1>3. Holds(p, body, c, n)
  BY <1>0, KnownAll
<1>4. /\ c \in Starts(body) /\ c \in Nat /\ c <= n /\ p.buffer = SubSeq(body, c + 1, n)
      /\ Gathers(p, CutAtLineFeeds(body), Rank(Starts(body), c) + 1)
  <2>1. c \in Nat
    BY <1>2, <1>3, HoldsTyped
  <2> QED BY <1>3, <2>1 DEF Holds
<1>5. /\ p.buffer \in Text /\ Len(p.buffer) = n - c
      /\ \A i \in 1..(n - c) : i \in LineFeeds(p.buffer) <=> c + i \in LineFeeds(body)
  BY <1>2, <1>3, HeldLineFeeds
<1>6. DOMAIN body = 1..Len(body)
  BY <1>2, LenProperties DEF Text
<1>7. p.buffer = <<>> <=> c = n
  <2>1. p.buffer = <<>> <=> Len(p.buffer) = 0
    BY <1>5, EmptySeq DEF Text
  <2>2. Len(p.buffer) = 0 <=> c = n
    <3>1. Len(p.buffer) = n - c /\ n \in Nat /\ c \in Nat
      BY <1>2, <1>4, <1>5
    <3> QED BY <3>1
  <2> QED BY <2>1, <2>2
<1>8. CASE Len(body) = n /\ (n = 0 \/ body[n] = "LF")
  <2>1. ASSUME c # n PROVE FALSE
    <3>1. n \in LineFeeds(body)
      BY <1>2, <1>4, <1>6, <1>8, <2>1 DEF LineFeeds
    <3>2. n - c \in 1..(n - c) /\ c + (n - c) = n
      BY <1>2, <1>4, <2>1
    <3>3. n - c \in LineFeeds(p.buffer)
      BY <1>5, <3>1, <3>2
    <3> QED BY <3>3 DEF HasLine
  <2>2. q = p
    BY <1>7, <2>1 DEF Finish
  <2> QED BY <1>3, <1>8, <2>2
<1>9. CASE n # 0 /\ body[n] # "LF" /\ Len(body) = n + 1 /\ body[n + 1] = "LF"
  <2>1. c # n
    <3>1. n \notin LineFeeds(body)
      BY <1>9 DEF LineFeeds
    <3> QED BY <1>4, <1>9, <3>1 DEF Starts
  <2>2. PICK a : a = Append(p.buffer, "LF")
    OBVIOUS
  <2>3. q = [p EXCEPT !.buffer = a]
    BY <1>7, <2>1, <2>2 DEF Finish
  <2>4. /\ a \in Text /\ Len(a) = n - c + 1 /\ a[n - c + 1] = "LF"
        /\ \A i \in 1..(n - c) : a[i] = p.buffer[i]
    BY <1>2, <1>4, <1>5, <2>2, TextFacts, AppendProperties DEF Text
  <2>5. /\ q \in ParserType /\ q.buffer = a /\ q.events = p.events
        /\ q.event_type = p.event_type /\ q.data_buffer = p.data_buffer /\ q.last_id = p.last_id
    BY <2>3, <2>4 DEF ParserType
  <2>6. a = SubSeq(body, c + 1, n + 1)
    <3>1. PICK y : y = SubSeq(body, c + 1, n + 1)
      OBVIOUS
    <3>2. /\ y \in Text /\ Len(y) = n + 1 - c
          /\ \A i \in 1..(n + 1 - c) : y[i] = body[c + i]
      BY <1>2, <1>4, <1>9, <3>1 DEF Text
    <3>3. \A i \in 1..(n - c) : p.buffer[i] = body[c + i]
      BY <1>2, <1>4 DEF Text
    <3>4. ASSUME NEW i \in 1..(n + 1 - c) PROVE a[i] = y[i]
      <4>1. CASE i \in 1..(n - c)
        BY <2>4, <3>2, <3>3, <4>1
      <4>2. CASE i = n - c + 1
        <5>1. c + i = n + 1
          BY <1>2, <1>4, <4>2
        <5> QED BY <1>9, <2>4, <3>2, <4>2, <5>1
      <4> QED BY <1>2, <1>4, <4>1, <4>2
    <3>5. Len(a) = n + 1 - c /\ Len(y) = n + 1 - c
      BY <1>2, <1>4, <2>4, <3>2
    <3>6. a = y
      BY <2>4, <3>2, <3>4, <3>5, SeqsEqual DEF Text
    <3> QED BY <3>1, <3>6
  <2>7. Gathers(q, CutAtLineFeeds(body), Rank(Starts(body), c) + 1)
    BY <1>4, <2>5, StillGathers
  <2>8. n + 1 \in 0..Len(body) /\ c <= n + 1
    BY <1>2, <1>4, <1>9
  <2> QED BY <1>4, <1>9, <2>5, <2>6, <2>7, <2>8 DEF Holds
<1> QED BY <1>2, <1>8, <1>9

-----------------------------------------------------------------------------
(* Parser and events yielded, in step *)

\* All that the first lines of a body say was yielded, as y, or is p's to give,
\* and p holds the body from there up to position m.
InStep(y, p, body, m) ==
    \E c \in Starts(body) :
        /\ Holds(p, body, c, m)
        /\ y \o p.events = EventsTo(CutAtLineFeeds(body), Rank(Starts(body), c))

\* What the lines of a body say.
Says(body) == EventsTo(CutAtLineFeeds(body), Len(CutAtLineFeeds(body)))

\* The same, with c the end of the k-th of the body's L lines.
Placed(y, p, body, m, c, L, k) ==
    /\ c \in Starts(body) /\ L \in Nat /\ k \in Nat /\ k <= L
    /\ Holds(p, body, c, m)
    /\ L = Cardinality(LineFeeds(body)) /\ k = Rank(Starts(body), c)
    /\ CutAtLineFeeds(body) \in [1..L -> Text]
    /\ Len(CutAtLineFeeds(body)) = L
    /\ y \o p.events = EventsTo(CutAtLineFeeds(body), k)

\* The numbers and types that come with being in step.
LEMMA InStepTyped ==
    ASSUME NEW body \in Text, NEW p \in ParserType, NEW y \in Seq(AnyEvent), NEW m,
           InStep(y, p, body, m)
    PROVE  \E c, L, k : Placed(y, p, body, m, c, L, k)
<1>1. PICK c \in Starts(body) :
         /\ Holds(p, body, c, m)
         /\ y \o p.events = EventsTo(CutAtLineFeeds(body), Rank(Starts(body), c))
  BY DEF InStep
<1>2. PICK L, k : L = Cardinality(LineFeeds(body)) /\ k = Rank(Starts(body), c)
  OBVIOUS
<1>3. L \in Nat /\ k \in Nat /\ k <= L /\ CutAtLineFeeds(body) \in [1..L -> Text]
  BY <1>1, <1>2, HoldsTyped
<1>4. Len(CutAtLineFeeds(body)) = L
  BY <1>3
<1>5. Placed(y, p, body, m, c, L, k)
  BY <1>1, <1>2, <1>3, <1>4 DEF Placed
<1> QED BY <1>5

\* A new parser, nothing yielded, is in step with any body.
LEMMA BeginsInStep ==
    ASSUME NEW body \in Text PROVE InStep(<<>>, NewParser, body, 0)
<1>1. Holds(NewParser, body, 0, 0)
  BY BeginHolds
<1>2. 0 \in Starts(body) /\ Rank(Starts(body), 0) = 0
  BY LinesBegin DEF Text
<1>3. PICK lines, L : lines = CutAtLineFeeds(body) /\ L = Cardinality(LineFeeds(body))
  OBVIOUS
<1>4. L \in Nat /\ lines \in [1..L -> Text]
  BY <1>1, <1>3, HoldsTyped
<1>5. EventsTo(lines, 0) = <<>>
  BY <1>4, EventsNone
<1>6. NewParser.events = <<>> /\ <<>> \o <<>> = <<>>
  BY DEF NewParser
<1> QED BY <1>1, <1>2, <1>3, <1>5, <1>6 DEF InStep

\* Taking a line keeps in step ...
LEMMA NextInStep ==
    ASSUME NEW body \in Text, NEW p \in ParserType, NEW y \in Seq(AnyEvent), NEW m,
           InStep(y, p, body, m), HasLine(p)
    PROVE  /\ NextLine(p) \in ParserType /\ NextLine(p).bom_stripped = p.bom_stripped
           /\ InStep(y, NextLine(p), body, m)
<1>0. PICK c, L, k : Placed(y, p, body, m, c, L, k)
  BY InStepTyped
<1>1. /\ c \in Starts(body) /\ L \in Nat /\ k \in Nat /\ k <= L
      /\ Holds(p, body, c, m)
      /\ L = Cardinality(LineFeeds(body)) /\ k = Rank(Starts(body), c)
      /\ CutAtLineFeeds(body) \in [1..L -> Text]
      /\ Len(CutAtLineFeeds(body)) = L
      /\ y \o p.events = EventsTo(CutAtLineFeeds(body), k)
  BY <1>0 DEF Placed
<1>2. PICK lines, q : lines = CutAtLineFeeds(body) /\ q = NextLine(p)
  OBVIOUS
<1>3. /\ q \in ParserType /\ q.bom_stripped = p.bom_stripped
      /\ k + 1 \in DOMAIN lines
      /\ \E n : Holds(q, body, n, m) /\ Rank(Starts(body), n) = k + 1
      /\ q.events = IF k + 1 \in EventEnds(lines)
                    THEN Append(p.events, EventAt(lines, k + 1)) ELSE p.events
  BY <1>1, <1>2, NextLineHolds
<1>4. PICK n : Holds(q, body, n, m) /\ Rank(Starts(body), n) = k + 1
  BY <1>3
<1>5. n \in Starts(body)
  BY <1>4 DEF Holds
<1>6. PICK e, f : e = p.events /\ f = q.events
  OBVIOUS
<1>7. /\ L \in Nat /\ k \in Nat /\ lines \in [1..L -> Text] /\ k + 1 \in 1..L /\ e \in Seq(AnyEvent)
      /\ SoFar(lines, k, y, e)
      /\ Gives(lines, k, e, f)
  <2>1. e \in Seq(AnyEvent)
    BY <1>6 DEF ParserType
  <2> QED BY <1>1, <1>2, <1>3, <1>6, <2>1 DEF Gives, SoFar
<1>8. y \o q.events = EventsTo(lines, k + 1)
  <2>1. SoFar(lines, k + 1, y, f)
    BY <1>7, EventsOnward
  <2> QED BY <1>6, <2>1 DEF SoFar
<1> QED BY <1>2, <1>3, <1>4, <1>5, <1>8 DEF InStep

\* ... feeding the pieces that came since does ...
LEMMA FeedInStep ==
    ASSUME NEW w \in Seq(Text), MarkFirst(w), NEW body, IsBody(body, w),
           NEW t \in Nat, NEW n \in Nat, t < n, n <= Len(w),
           NEW p \in ParserType, NEW y, InStep(y, p, body, Known(w, t)),
           p.bom_stripped <=> t # 0,
           NEW chunk, chunk = FlattenSeq(SubSeq(w, t + 1, n))
    PROVE  /\ Feed(p, chunk) \in ParserType /\ Feed(p, chunk).bom_stripped
           /\ Feed(p, chunk).events = p.events
           /\ InStep(y, Feed(p, chunk), body, Known(w, n))
<1>1. PICK c \in Starts(body) :
         /\ Holds(p, body, c, Known(w, t))
         /\ y \o p.events = EventsTo(CutAtLineFeeds(body), Rank(Starts(body), c))
  BY DEF InStep
<1>2. /\ Feed(p, chunk) \in ParserType /\ Feed(p, chunk).bom_stripped
      /\ Feed(p, chunk).events = p.events
      /\ Holds(Feed(p, chunk), body, c, Known(w, n))
  BY <1>1, FeedHolds
<1> QED BY <1>1, <1>2 DEF InStep

\* ... so does finishing behind the last piece, up to the end of the body ...
LEMMA FinishInStep ==
    ASSUME NEW w \in Seq(Text), NEW body, IsBody(body, w),
           NEW p \in ParserType, NEW y, InStep(y, p, body, Known(w, Len(w))), ~HasLine(p)
    PROVE  /\ Finish(p) \in ParserType
           /\ InStep(y, Finish(p), body, Len(body))
<1>1. PICK c \in Starts(body) :
         /\ Holds(p, body, c, Known(w, Len(w)))
         /\ y \o p.events = EventsTo(CutAtLineFeeds(body), Rank(Starts(body), c))
  BY DEF InStep
<1>2. PICK q : q = Finish(p)
  OBVIOUS
<1>3. q \in ParserType /\ q.events = p.events /\ Holds(q, body, c, Len(body))
  BY <1>1, <1>2, FinishHolds
<1> QED BY <1>1, <1>2, <1>3 DEF InStep

\* The head of a sequence, appended to what came before it.
LEMMA HeadMoves ==
    ASSUME NEW S, NEW s \in Seq(S), NEW t \in Seq(S), t # <<>>
    PROVE  /\ Head(t) \in S /\ Tail(t) \in Seq(S) /\ Append(s, Head(t)) \in Seq(S)
           /\ Append(s, Head(t)) \o Tail(t) = s \o t
<1>1. PICK h, r : h = Head(t) /\ r = Tail(t)
  OBVIOUS
<1>2. h \in S /\ r \in Seq(S) /\ <<h>> \in Seq(S)
  BY <1>1
<1>3. <<h>> \o r = t
  BY <1>1
<1>4. Append(s, h) = s \o <<h>>
  BY <1>2, AppendIsConcat
<1>5. (s \o <<h>>) \o r = s \o (<<h>> \o r)
  BY <1>2, ConcatAssociative
<1>6. Append(s, h) \in Seq(S)
  BY <1>2, AppendProperties
<1> QED BY <1>1, <1>2, <1>3, <1>4, <1>5, <1>6

\* One event goes from p to what is yielded.
Given(p) == [p EXCEPT !.events = Tail(@)]
With(y, p) == Append(y, Head(p.events))

\* ... and yielding an event; what was yielded then begins what the body says.
LEMMA YieldInStep ==
    ASSUME NEW body \in Text, NEW p \in ParserType, NEW y \in Seq(AnyEvent), NEW m,
           InStep(y, p, body, m), p.events # <<>>
    PROVE  /\ Given(p) \in ParserType /\ Given(p).bom_stripped = p.bom_stripped
           /\ With(y, p) \in Seq(AnyEvent) /\ InStep(With(y, p), Given(p), body, m)
           /\ IsPrefix(With(y, p), Says(body))
<1>10. PICK q, z : q = Given(p) /\ z = With(y, p)
  OBVIOUS
<1>0. PICK c, L, k : Placed(y, p, body, m, c, L, k)
  BY InStepTyped
<1>1. /\ c \in Starts(body) /\ L \in Nat /\ k \in Nat /\ k <= L
      /\ Holds(p, body, c, m)
      /\ L = Cardinality(LineFeeds(body)) /\ k = Rank(Starts(body), c)
      /\ CutAtLineFeeds(body) \in [1..L -> Text]
      /\ Len(CutAtLineFeeds(body)) = L
      /\ y \o p.events = EventsTo(CutAtLineFeeds(body), k)
  BY <1>0 DEF Placed
<1>2. PICK lines, ev, e : lines = CutAtLineFeeds(body) /\ ev = p.events /\ e = Tail(ev)
  OBVIOUS
<1>3. ev \in Seq(AnyEvent) /\ ev # <<>>
  BY <1>2 DEF ParserType
<1>4. e \in Seq(AnyEvent) /\ z \in Seq(AnyEvent) /\ z \o e = y \o p.events
  <2>1. /\ Tail(ev) \in Seq(AnyEvent) /\ Append(y, Head(ev)) \in Seq(AnyEvent)
        /\ Append(y, Head(ev)) \o Tail(ev) = y \o ev
    BY <1>3, HeadMoves
  <2> QED BY <1>2, <1>10, <2>1 DEF With
<1>5. /\ q \in ParserType /\ q.bom_stripped = p.bom_stripped /\ q.events = e
      /\ q.buffer = p.buffer /\ q.event_type = p.event_type
      /\ q.data_buffer = p.data_buffer /\ q.last_id = p.last_id
  BY <1>2, <1>4, <1>10 DEF ParserType, Given
<1>6. Holds(q, body, c, m)
  BY <1>1, <1>5 DEF Holds, Gathers
<1>7. z \o e = EventsTo(lines, k) /\ lines \in [1..L -> Text]
  BY <1>1, <1>2, <1>4
<1>8. IsPrefix(z, EventsTo(lines, L))
  BY <1>1, <1>4, <1>7, EventsBegin
<1>9. InStep(z, q, body, m)
  BY <1>1, <1>2, <1>5, <1>6, <1>7 DEF InStep
<1> QED BY <1>1, <1>2, <1>4, <1>5, <1>8, <1>9, <1>10 DEF Says

\* All lines are taken, and all events yielded.
LEMMA OverInStep ==
    ASSUME NEW body \in Text, NEW p \in ParserType, NEW y \in Seq(AnyEvent),
           InStep(y, p, body, Len(body)), p.events = <<>>, ~HasLine(p)
    PROVE  y = Says(body)
<1>1. PICK c \in Starts(body) :
         /\ Holds(p, body, c, Len(body))
         /\ y \o p.events = EventsTo(CutAtLineFeeds(body), Rank(Starts(body), c))
  BY DEF InStep
<1>2. PICK lines, L : lines = CutAtLineFeeds(body) /\ L = Cardinality(LineFeeds(body))
  OBVIOUS
<1>3. Rank(Starts(body), c) = L
  BY <1>1, <1>2, HeldIsOver
<1>4. Len(lines) = L
  <2>1. L \in Nat /\ lines \in [1..L -> Text]
    BY <1>2, LinesTyped, StartsTyped DEF Text
  <2> QED BY <2>1
<1>5. y \o p.events = y
  <2>1. y \o <<>> = y
    OBVIOUS
  <2> QED BY <2>1
<1> QED BY <1>1, <1>2, <1>3, <1>4, <1>5 DEF Says

\* What is yielded is the beginning of what the body says.
LEMMA InStepBegins ==
    ASSUME NEW body \in Text, NEW p \in ParserType, NEW y \in Seq(AnyEvent), NEW m,
           InStep(y, p, body, m)
    PROVE  IsPrefix(y, Says(body))
<1>0. PICK c, L, k : Placed(y, p, body, m, c, L, k)
  BY InStepTyped
<1>1. /\ c \in Starts(body) /\ L \in Nat /\ k \in Nat /\ k <= L
      /\ Holds(p, body, c, m)
      /\ L = Cardinality(LineFeeds(body)) /\ k = Rank(Starts(body), c)
      /\ CutAtLineFeeds(body) \in [1..L -> Text]
      /\ Len(CutAtLineFeeds(body)) = L
      /\ y \o p.events = EventsTo(CutAtLineFeeds(body), k)
  BY <1>0 DEF Placed
<1>2. PICK lines, e : lines = CutAtLineFeeds(body) /\ e = p.events
  OBVIOUS
<1>3. e \in Seq(AnyEvent) /\ lines \in [1..L -> Text] /\ y \o e = EventsTo(lines, k)
  BY <1>1, <1>2 DEF ParserType
<1>4. IsPrefix(y, EventsTo(lines, L))
  BY <1>1, <1>3, EventsBegin
<1> QED BY <1>1, <1>2, <1>4 DEF Says

-----------------------------------------------------------------------------
(* What the stream yields *)

\* The body that is coming, its last line ended.
WireBody == Ended(BodyOf(FlattenSeq(wire)))

\* A streaming call is answered with the wire: it has its size before it is read.
InBody == \A c \in StreamCalls :
    /\ size[c] <= Len(wire)
    /\ work[c] \in {"body", "reading"} \/ closed[c] = "finished" => size[c] = Len(wire)

\* The parser has what the caller has taken of the wire, and between them yielded
\* and parsed make what the lines taken say; of the calls to come nothing is
\* yielded.
OnWire ==
    /\ wire \in Wires
    /\ parser \in ParserType
    /\ yielded \in [StreamCalls -> Seq(AnyEvent)]
    /\ \A c \in StreamCalls : c > cur => yielded[c] = <<>>
    /\ phase \in {"streaming", "ending", "done"} => cur \in StreamCalls
    /\ phase = "streaming" =>
          /\ parser.bom_stripped <=> taken[cur] # 0
          /\ InStep(yielded[cur], parser, WireBody, Known(wire, taken[cur]))
    /\ phase = "ending" =>
          /\ caller[cur] = "complete"
          /\ InStep(yielded[cur], parser, WireBody, Len(WireBody))

StreamInv == /\ StreamShape
             /\ InBody
             /\ OnWire
             /\ EventsAsWritten
             /\ DoneHasAll

\* What is asked of the wires, of this one.
LEMMA WireIs ==
    ASSUME StreamAssumption, MarkWhole, wire \in Wires
    PROVE  /\ wire \in Seq(Text) /\ MarkFirst(wire) /\ IsBody(WireBody, wire)
           /\ WireBody \in Text /\ Len(wire) \in Nat
           /\ Meaning[wire] = Says(WireBody)
<1>1. wire \in Seq(Text)
  BY TextFacts DEF StreamAssumption
<1>2. MarkFirst(wire)
  BY DEF MarkWhole, MarkFirst
<1>3. IsBody(WireBody, wire)
  BY DEF IsBody, WireBody
<1>4. Len(wire) \in Nat
  BY <1>1, LenProperties
<1>5. WireBody \in Text
  <2>1. FlattenSeq(wire) \in Text
    <3>1. Len(wire) <= Len(wire)
      BY <1>4
    <3> QED BY <1>1, <1>4, <3>1, FirstPieces
  <2> QED BY <2>1, BodyIs DEF WireBody
<1>6. Meaning[wire] = Says(WireBody)
  BY DEF Meaning, EventsOf, LinesOf, Says, WireBody
<1> QED BY <1>1, <1>2, <1>3, <1>4, <1>5, <1>6

\* A step that leaves the wire, the parser and what is yielded alone, and of the
\* calls of the stream what the generator sees of them.
LEMMA StandsStill ==
    ASSUME StreamAssumption, StreamShape, OnWire, EventsAsWritten, DoneHasAll,
           UNCHANGED <<wire, phase, cur, parser, yielded, taken>>,
           phase # "streaming" => \A c \in StreamCalls : caller'[c] = caller[c]
    PROVE  (OnWire /\ EventsAsWritten /\ DoneHasAll)'
<1>1. WireBody' = WireBody /\ Meaning[wire]' = Meaning[wire]
  BY DEF WireBody, Meaning
<1>2. OnWire'
  BY <1>1 DEF OnWire
<1>3. EventsAsWritten'
  BY <1>1 DEF EventsAsWritten
<1>4. DoneHasAll'
  BY <1>1 DEF DoneHasAll, OnWire
<1> QED BY <1>2, <1>3, <1>4

\* The generator leaves its call, or opens no other yet.
LEMMA LeavesCall ==
    ASSUME StreamAssumption, StreamShape, OnWire, EventsAsWritten,
           UNCHANGED <<wire, cur, parser, yielded>>,
           phase' \in {"failed", "sleeping", "opening"}
    PROVE  (OnWire /\ EventsAsWritten /\ DoneHasAll)'
<1>1. Meaning[wire]' = Meaning[wire]
  BY DEF Meaning
<1>2. OnWire'
  BY DEF OnWire
<1>3. EventsAsWritten'
  BY <1>1 DEF EventsAsWritten
<1>4. DoneHasAll'
  BY DEF DoneHasAll
<1> QED BY <1>2, <1>3, <1>4

\* The stream begins.
LEMMA StreamInitInv ==
    ASSUME StreamAssumption, MarkWhole, StreamInit PROVE StreamInv
<1>0. /\ wire \in Wires /\ beside \subseteq PlainCalls /\ phase = "opening" /\ cur = 0
      /\ parser = NewParser /\ yielded = [c \in StreamCalls |-> <<>>] /\ Init
  BY DEF StreamInit, StreamAssumption
<1>1. StreamShape
  BY <1>0 DEF StreamShape, StreamAssumption
<1>2. Len(wire) \in Nat /\ WireBody \in Text /\ Meaning[wire] = Says(WireBody)
  BY <1>0, WireIs
<1>3. InBody
  BY <1>0, <1>2 DEF InBody, Init, Calls
<1>4. NewParser \in ParserType /\ InStep(<<>>, NewParser, WireBody, 0)
  BY <1>2, BeginHolds, BeginsInStep
<1>5. <<>> \in Seq(AnyEvent)
  BY EmptySeq
<1>6. OnWire
  BY <1>0, <1>4, <1>5 DEF OnWire
<1>7. IsPrefix(<<>>, Says(WireBody))
  BY <1>2, <1>4, <1>5, InStepBegins
<1>8. EventsAsWritten
  BY <1>0, <1>2, <1>7 DEF EventsAsWritten
<1>9. DoneHasAll
  BY <1>0 DEF DoneHasAll
<1> QED BY <1>1, <1>3, <1>6, <1>8, <1>9 DEF StreamInv

-----------------------------------------------------------------------------
(* The size of what comes *)

\* A step in which no streaming call's body begins or ends.
LEMMA SizeStands ==
    ASSUME InBody, UNCHANGED <<wire, size>>,
           \A c \in StreamCalls :
              /\ work'[c] \in {"body", "reading"} => work[c] \in {"body", "reading"}
              /\ closed'[c] = "finished" => \/ closed[c] = "finished"
                                           \/ work[c] \in {"body", "reading"}
    PROVE  InBody'
  BY DEF InBody

\* A call's header keeps its size within the wire, and so does any step of its
\* worker thread.
LEMMA HeaderSize ==
    ASSUME StreamAssumption, HttpInv, InBody, NEW c \in Calls, NEW n \in 0..MaxSize,
           ReadHeader(c, n), StreamThread(c), Len(wire) \in Nat
    PROVE  InBody'
<1>0. /\ TypeOK /\ StreamCalls \subseteq Calls /\ wire' = wire
      /\ work[c] = "header" /\ answer[c] = "pending" /\ closed[c] = "open"
  BY DEF HttpInv, PoolInv, Calls, StreamThread, streamVars, ReadHeader, At, Course, Before
<1>1. ASSUME NEW a \in {"head", "bad"}, answer' = [answer EXCEPT ![c] = a],
             Goes(c, IF a = "head" THEN "body" ELSE "error"),
             size' = [size EXCEPT ![c] = n], closed' = closed
      PROVE  InBody'
  <2>1. /\ answer'[c] = a /\ work'[c] = (IF a = "head" THEN "body" ELSE "error")
        /\ closed'[c] = "open"
        /\ \A d \in Calls : d # c => work'[d] = work[d] /\ size'[d] = size[d]
    BY <1>0, <1>1 DEF TypeOK, Goes
  <2>2. c \in StreamCalls => size'[c] = IF a = "head" THEN Len(wire) ELSE 0
    BY <1>0, <1>1, <2>1 DEF StreamThread
  <2> QED BY <1>0, <1>1, <2>1, <2>2 DEF InBody
<1>2. ASSUME Raise(c), size' = size PROVE InBody'
  <2>1. /\ \A d \in Calls : work'[d] = work[d] \/ work'[d] = "over"
        /\ \A d \in Calls : closed'[d] = closed[d] \/ closed'[d] = "thrown"
    BY <1>0, <1>2 DEF TypeOK, Raise, Goes
  <2> QED BY <1>0, <1>2, <2>1, SizeStands
<1> QED BY <1>1, <1>2 DEF ReadHeader

LEMMA ThreadSize ==
    ASSUME StreamAssumption, HttpInv, InBody, NEW c \in Calls, StreamThread(c),
           Len(wire) \in Nat
    PROVE  InBody'
<1>0. TypeOK /\ StreamCalls \subseteq Calls /\ wire' = wire
  BY DEF HttpInv, PoolInv, Calls, StreamThread, streamVars
<1>1. ASSUME NEW n \in 0..MaxSize, ReadHeader(c, n) PROVE InBody'
  BY <1>1, HeaderSize
\* Anything else leaves sizes alone, and finishes only what was being read.
<1> DEFINE Stands == \A d \in Calls :
              /\ work'[d] \in {"body", "reading"} => work[d] \in {"body", "reading"}
              /\ closed'[d] = "finished" => \/ closed[d] = "finished"
                                           \/ work[d] \in {"body", "reading"}
<1>2. DOMAIN work = Calls /\ DOMAIN closed = Calls
  BY <1>0 DEF TypeOK
<1>3. ASSUME size' = size, Stands PROVE InBody'
  BY <1>0, <1>3, SizeStands
<1>4. Raise(c) => Stands
  BY <1>2 DEF Raise, Goes
<1>5. CASE Dequeue(c)
  <2>1. size' = size /\ Stands
    BY <1>2, <1>5 DEF Dequeue, Goes
  <2> QED BY <1>3, <2>1
<1>6. CASE Acquire(c)
  <2>1. size' = size /\ Goes(c, "connect") /\ closed' = closed
    BY <1>6 DEF Acquire
  <2>2. Stands
    BY <1>2, <2>1 DEF Goes
  <2> QED BY <1>3, <2>1, <2>2
<1>7. CASE Connect(c)
  <2>1. /\ size' = size
        /\ \/ Raise(c)
           \/ Goes(c, "write") /\ closed' = closed
    BY <1>7 DEF Connect
  <2>2. Stands
    BY <1>2, <1>4, <2>1 DEF Goes
  <2> QED BY <1>3, <2>1, <2>2
<1>8. CASE Write(c)
  <2>1. /\ size' = size
        /\ \/ Raise(c)
           \/ (Goes(c, "response") \/ Goes(c, "header")) /\ closed' = closed
    BY <1>8 DEF Write
  <2>2. Stands
    BY <1>2, <1>4, <2>1 DEF Goes
  <2> QED BY <1>3, <2>1, <2>2
<1>9. CASE ReadResponse(c)
  <2>1. /\ size' = size
        /\ \/ Raise(c)
           \/ Goes(c, "release") /\ closed' = closed
    BY <1>9 DEF ReadResponse
  <2>2. Stands
    BY <1>2, <1>4, <2>1 DEF Goes
  <2> QED BY <1>3, <2>1, <2>2
<1>10. CASE BeforeRead(c)
  <2>1. /\ size' = size
        /\ \/ Raise(c)
           \/ work[c] = "body" /\ Goes(c, "reading") /\ closed' = closed
    BY <1>10 DEF BeforeRead, At
  <2>2. Stands
    BY <1>2, <1>4, <2>1 DEF Goes
  <2> QED BY <1>3, <2>1, <2>2
<1>11. CASE \E n \in 1..MaxSize : ReadChunk(c, n)
  <2>1. size' = size /\ Stands
    BY <1>2, <1>11 DEF ReadChunk, At, Goes
  <2> QED BY <1>3, <2>1
<1>12. CASE ReadFails(c)
  <2>1. size' = size /\ Stands
    BY <1>2, <1>12 DEF ReadFails, Goes
  <2> QED BY <1>3, <2>1
<1>13. CASE ErrorBodyEnds(c)
  <2>1. size' = size /\ Stands
    BY <1>2, <1>13 DEF ErrorBodyEnds, Goes
  <2> QED BY <1>3, <2>1
<1>14. CASE BodyEnds(c)
  <2>1. size' = size /\ Stands
    BY <1>2, <1>14 DEF BodyEnds, Goes
  <2> QED BY <1>3, <2>1
<1>15. CASE Release(c)
  <2>1. size' = size /\ Stands
    BY <1>2, <1>15 DEF Release, Goes
  <2> QED BY <1>3, <2>1
<1> QED BY <1>1, <1>5, <1>6, <1>7, <1>8, <1>9, <1>10, <1>11, <1>12, <1>13, <1>14, <1>15
        DEF StreamThread, Thread

\* A caller that submits its call.
LEMMA SubmitSize ==
    ASSUME HttpInv, InBody, NEW c \in Calls, Submit(c), wire' = wire
    PROVE  InBody'
<1>1. TypeOK /\ StreamCalls \subseteq Calls
  BY DEF HttpInv, PoolInv, Calls
<1>2. size' = size /\ closed' = closed
  BY DEF Submit
<1>3. \A d \in Calls : work'[d] = work[d] \/ work'[d] \in {"queued", "acquire"}
  BY <1>1 DEF Submit, Goes, TypeOK
<1> QED BY <1>1, <1>2, <1>3, SizeStands

-----------------------------------------------------------------------------
(* The steps of the generator *)

\* What the generator's steps keep.
Delivers == OnWire /\ EventsAsWritten /\ DoneHasAll

\* A new call: its parser is at the beginning, and so is its channel.
LEMMA OpenDelivers ==
    ASSUME StreamAssumption, MarkWhole, HttpInv, StreamShape, Delivers, Open
    PROVE  Delivers'
<1>0. /\ TypeOK /\ StreamCalls \subseteq Calls /\ StreamCalls = 1..NStreams /\ NStreams \in Nat
      /\ cur \in Nat /\ wire \in Wires
  BY DEF HttpInv, PoolInv, Calls, StreamAssumption, StreamShape, Delivers, OnWire
<1>1. /\ cur' = cur + 1 /\ cur' \in StreamCalls /\ phase' = "streaming" /\ parser' = NewParser
      /\ wire' = wire /\ yielded' = yielded /\ taken' = taken /\ caller[cur'] = "idle"
  BY <1>0 DEF Open, Submit
<1>2. taken[cur'] = 0
  <2>1. work[cur'] = "idle" /\ cur' \in Calls
    BY <1>0, <1>1 DEF HttpInv, Course
  <2>2. read[cur'] = 0
    BY <2>1 DEF HttpInv, Course, Before
  <2>3. taken[cur'] <= read[cur'] /\ taken[cur'] \in Nat
    BY <1>0, <2>1 DEF HttpInv, ChannelInOrder, TypeOK
  <2> QED BY <2>2, <2>3
<1>3. /\ yielded[cur'] = <<>> /\ yielded \in [StreamCalls -> Seq(AnyEvent)]
      /\ \A c \in StreamCalls : c > cur' => yielded[c] = <<>>
  BY <1>0, <1>1 DEF Delivers, OnWire
<1>4. /\ WireBody \in Text /\ WireBody' = WireBody /\ Meaning[wire]' = Meaning[wire]
      /\ Meaning[wire] = Says(WireBody)
  BY <1>0, <1>1, WireIs DEF WireBody, Meaning
<1>5. NewParser \in ParserType /\ InStep(<<>>, NewParser, WireBody, 0)
  BY <1>4, BeginHolds, BeginsInStep
<1>6. Known(wire, 0) = 0 /\ NewParser.bom_stripped = FALSE
  BY DEF Known, NewParser
<1>7. InStep(yielded[cur'], NewParser, WireBody, Known(wire, taken[cur']))
  BY <1>2, <1>3, <1>5, <1>6
<1>8. OnWire'
  BY <1>0, <1>1, <1>2, <1>3, <1>4, <1>5, <1>6, <1>7 DEF OnWire
<1>9. EventsAsWritten'
  BY <1>1, <1>4 DEF EventsAsWritten, Delivers
<1>10. DoneHasAll'
  BY <1>1 DEF DoneHasAll
<1> QED BY <1>8, <1>9, <1>10 DEF Delivers

\* What the generator is on, when it is on a call.
LEMMA OnCall ==
    ASSUME StreamAssumption, MarkWhole, HttpInv, StreamShape, Delivers,
           phase \in {"streaming", "ending"}
    PROVE  /\ TypeOK /\ wire \in Wires /\ cur \in StreamCalls /\ cur \in Calls
           /\ wire \in Seq(Text) /\ MarkFirst(wire) /\ IsBody(WireBody, wire)
           /\ WireBody \in Text /\ Meaning[wire] = Says(WireBody)
           /\ parser \in ParserType /\ parser.events \in Seq(AnyEvent)
           /\ yielded \in [StreamCalls -> Seq(AnyEvent)] /\ yielded[cur] \in Seq(AnyEvent)
           /\ taken[cur] \in Nat
  BY WireIs DEF HttpInv, PoolInv, TypeOK, Calls, Delivers, OnWire, ParserType

\* Something of the parser, or of the call, changes, and it stays in step.
LEMMA StaysInStep ==
    ASSUME StreamAssumption, StreamShape, Delivers, UNCHANGED <<wire, cur>>,
           cur \in StreamCalls, phase' \in {"streaming", "ending"},
           parser' \in ParserType, yielded' \in [StreamCalls -> Seq(AnyEvent)],
           \A c \in StreamCalls : c # cur => yielded'[c] = yielded[c],
           IsPrefix(yielded'[cur], Meaning[wire]),
           phase' = "streaming" =>
              /\ parser'.bom_stripped <=> taken'[cur] # 0
              /\ InStep(yielded'[cur], parser', WireBody, Known(wire, taken'[cur])),
           phase' = "ending" =>
              /\ caller'[cur] = "complete"
              /\ InStep(yielded'[cur], parser', WireBody, Len(WireBody))
    PROVE  Delivers'
<1>1. WireBody' = WireBody /\ Meaning[wire]' = Meaning[wire]
  BY DEF WireBody, Meaning
<1>2. \A c \in StreamCalls : c > cur => yielded'[c] = <<>>
  <2>1. \A c \in StreamCalls : c > cur => c # cur
    BY DEF StreamShape, StreamAssumption
  <2> QED BY <2>1 DEF Delivers, OnWire
<1>3. OnWire'
  BY <1>1, <1>2 DEF OnWire, Delivers
<1>4. EventsAsWritten'
  BY <1>1 DEF EventsAsWritten, Delivers
<1>5. DoneHasAll'
  BY DEF DoneHasAll
<1> QED BY <1>3, <1>4, <1>5 DEF Delivers

\* A chunk is popped and fed.
LEMMA ReceiveDelivers ==
    ASSUME StreamAssumption, MarkWhole, HttpInv, StreamShape, InBody, Delivers, Receive
    PROVE  Delivers'
<1>0. /\ phase = "streaming" /\ phase' = phase /\ wire' = wire /\ cur' = cur
      /\ yielded' = yielded /\ PopChunk(cur)
  BY DEF Receive
<1>1. /\ TypeOK /\ cur \in StreamCalls /\ cur \in Calls
      /\ wire \in Seq(Text) /\ MarkFirst(wire) /\ IsBody(WireBody, wire)
      /\ parser \in ParserType /\ yielded \in [StreamCalls -> Seq(AnyEvent)]
      /\ taken[cur] \in Nat
  BY <1>0, OnCall
<1>2. PICK t, n, chunk : /\ t = taken[cur] /\ n = taken'[cur]
                         /\ chunk = FlattenSeq(SubSeq(wire, t + 1, n))
  OBVIOUS
<1>3. n \in Nat /\ t \in Nat /\ t < n /\ n <= Len(wire)
  <2>1. chunks[cur] \in Seq(Nat) /\ chunks[cur] # <<>> /\ n = chunks[cur][1]
    BY <1>0, <1>1, <1>2 DEF PopChunk, TypeOK
  <2>2. n \in (t + 1)..read[cur]
    BY <1>1, <1>2, <2>1 DEF HttpInv, ChannelInOrder
  <2>3. read[cur] <= size[cur] /\ size[cur] <= Len(wire)
    BY <1>1 DEF HttpInv, ChannelInOrder, InBody
  <2>4. read[cur] \in Nat /\ size[cur] \in Nat /\ Len(wire) \in Nat
    BY <1>1, LenProperties DEF TypeOK
  <2> QED BY SMTT(30), <1>1, <1>2, <2>2, <2>3, <2>4
<1>4. /\ parser.bom_stripped <=> t # 0
      /\ InStep(yielded[cur], parser, WireBody, Known(wire, t))
  BY <1>0, <1>2 DEF Delivers, OnWire
<1>5. parser' = Feed(parser, chunk)
  BY <1>2 DEF Receive
<1>6. /\ Feed(parser, chunk) \in ParserType /\ Feed(parser, chunk).bom_stripped
      /\ InStep(yielded[cur], Feed(parser, chunk), WireBody, Known(wire, n))
  BY SMTT(30), <1>1, <1>2, <1>3, <1>4, FeedInStep
<1>7. IsPrefix(yielded[cur], Meaning[wire])
  BY <1>1 DEF Delivers, EventsAsWritten
<1>8. n # 0
  BY <1>3
<1> QED BY <1>0, <1>1, <1>2, <1>5, <1>6, <1>7, <1>8, StaysInStep

\* A line is taken.
LEMMA ParseDelivers ==
    ASSUME StreamAssumption, MarkWhole, HttpInv, StreamShape, Delivers, Parse
    PROVE  Delivers'
<1>0. /\ phase \in {"streaming", "ending"} /\ phase' = phase /\ wire' = wire /\ cur' = cur
      /\ yielded' = yielded /\ taken' = taken /\ caller' = caller
      /\ HasLine(parser) /\ parser' = NextLine(parser)
  BY DEF Parse, vars
<1>1. /\ cur \in StreamCalls /\ WireBody \in Text /\ parser \in ParserType
      /\ yielded \in [StreamCalls -> Seq(AnyEvent)] /\ yielded[cur] \in Seq(AnyEvent)
  BY <1>0, OnCall
<1>2. ASSUME NEW m, InStep(yielded[cur], parser, WireBody, m)
      PROVE  /\ parser' \in ParserType /\ parser'.bom_stripped = parser.bom_stripped
             /\ InStep(yielded[cur], parser', WireBody, m)
  <2>1. /\ NextLine(parser) \in ParserType
        /\ NextLine(parser).bom_stripped = parser.bom_stripped
        /\ InStep(yielded[cur], NextLine(parser), WireBody, m)
    BY <1>0, <1>1, <1>2, NextInStep
  <2> QED BY <1>0, <2>1
<1>3. IsPrefix(yielded[cur], Meaning[wire])
  BY <1>1 DEF Delivers, EventsAsWritten
<1>4. CASE phase = "streaming"
  <2>1. /\ parser.bom_stripped <=> taken[cur] # 0
        /\ InStep(yielded[cur], parser, WireBody, Known(wire, taken[cur]))
    BY <1>4 DEF Delivers, OnWire
  <2>2. /\ parser' \in ParserType /\ parser'.bom_stripped = parser.bom_stripped
        /\ InStep(yielded[cur], parser', WireBody, Known(wire, taken[cur]))
    BY <1>2, <2>1
  <2> QED BY <1>0, <1>1, <1>3, <1>4, <2>1, <2>2, StaysInStep
<1>5. CASE phase = "ending"
  <2>1. caller[cur] = "complete" /\ InStep(yielded[cur], parser, WireBody, Len(WireBody))
    BY <1>5 DEF Delivers, OnWire
  <2>2. /\ parser' \in ParserType
        /\ InStep(yielded[cur], parser', WireBody, Len(WireBody))
    BY <1>2, <2>1
  <2> QED BY <1>0, <1>1, <1>3, <1>5, <2>1, <2>2, StaysInStep
<1> QED BY <1>0, <1>4, <1>5

\* The body is over.
LEMMA BodyOverDelivers ==
    ASSUME StreamAssumption, MarkWhole, HttpInv, StreamShape, InBody, Delivers, BodyOver
    PROVE  Delivers'
<1>0. /\ phase = "streaming" /\ phase' = "ending" /\ wire' = wire /\ cur' = cur
      /\ yielded' = yielded /\ ~HasLine(parser) /\ parser' = Finish(parser)
      /\ closed[cur] = "finished" /\ chunks[cur] = <<>>
      /\ caller' = [caller EXCEPT ![cur] = "complete"]
  BY DEF BodyOver, Drained, PopEnds, Proceeds
<1>1. /\ TypeOK /\ cur \in StreamCalls /\ cur \in Calls /\ wire \in Seq(Text)
      /\ IsBody(WireBody, wire) /\ parser \in ParserType
      /\ yielded \in [StreamCalls -> Seq(AnyEvent)]
  BY <1>0, OnCall
<1>2. caller'[cur] = "complete"
  BY <1>0, <1>1 DEF TypeOK
<1>3. taken[cur] = Len(wire)
  <2>1. taken[cur] = read[cur]
    BY <1>0, <1>1 DEF HttpInv, ChannelInOrder
  <2>2. read[cur] = size[cur]
    BY <1>0, <1>1 DEF HttpInv, Course
  <2>3. size[cur] = Len(wire)
    BY <1>0, <1>1 DEF InBody
  <2> QED BY <2>1, <2>2, <2>3
<1>4. InStep(yielded[cur], parser, WireBody, Known(wire, Len(wire)))
  BY <1>0, <1>3 DEF Delivers, OnWire
<1>5. Finish(parser) \in ParserType /\ InStep(yielded[cur], Finish(parser), WireBody, Len(WireBody))
  BY <1>0, <1>1, <1>4, FinishInStep
<1>6. IsPrefix(yielded[cur], Meaning[wire])
  BY <1>1 DEF Delivers, EventsAsWritten
<1> QED BY <1>0, <1>1, <1>2, <1>5, <1>6, StaysInStep

\* An event is yielded.
LEMMA YieldDelivers ==
    ASSUME StreamAssumption, MarkWhole, HttpInv, StreamShape, Delivers,
           phase \in {"streaming", "ending"}, parser.events # <<>>,
           yielded' = [yielded EXCEPT ![cur] = Append(@, Head(parser.events))],
           parser' = [parser EXCEPT !.events = Tail(@)],
           UNCHANGED <<vars, phase, wire, cur>>
    PROVE  Delivers'
<1>0. taken' = taken /\ caller' = caller /\ phase' = phase /\ wire' = wire /\ cur' = cur
  BY DEF vars
<1>1. /\ cur \in StreamCalls /\ WireBody \in Text /\ Meaning[wire] = Says(WireBody)
      /\ parser \in ParserType /\ parser.events \in Seq(AnyEvent)
      /\ yielded \in [StreamCalls -> Seq(AnyEvent)] /\ yielded[cur] \in Seq(AnyEvent)
  BY OnCall
<1>2. PICK y, z : y = yielded[cur] /\ z = Append(y, Head(parser.events))
  OBVIOUS
<1>3. z \in Seq(AnyEvent)
  BY <1>1, <1>2, HeadMoves
<1>4. /\ yielded' \in [StreamCalls -> Seq(AnyEvent)] /\ yielded'[cur] = z
      /\ \A c \in StreamCalls : c # cur => yielded'[c] = yielded[c]
  BY <1>1, <1>2, <1>3
<1>5. ASSUME NEW m, InStep(yielded[cur], parser, WireBody, m)
      PROVE  /\ parser' \in ParserType /\ parser'.bom_stripped = parser.bom_stripped
             /\ InStep(z, parser', WireBody, m) /\ IsPrefix(z, Meaning[wire])
  <2>1. /\ Given(parser) \in ParserType
        /\ Given(parser).bom_stripped = parser.bom_stripped
        /\ InStep(With(yielded[cur], parser), Given(parser), WireBody, m)
        /\ IsPrefix(With(yielded[cur], parser), Says(WireBody))
    BY <1>1, <1>5, YieldInStep
  <2>2. parser' = Given(parser) /\ z = With(yielded[cur], parser)
    BY <1>2 DEF Given, With
  <2> QED BY <1>1, <2>1, <2>2
<1>6. CASE phase = "streaming"
  <2>1. /\ parser.bom_stripped <=> taken[cur] # 0
        /\ InStep(yielded[cur], parser, WireBody, Known(wire, taken[cur]))
    BY <1>6 DEF Delivers, OnWire
  <2>2. /\ parser' \in ParserType /\ parser'.bom_stripped = parser.bom_stripped
        /\ InStep(z, parser', WireBody, Known(wire, taken[cur])) /\ IsPrefix(z, Meaning[wire])
    BY <1>5, <2>1
  <2> QED BY <1>0, <1>1, <1>4, <1>6, <2>1, <2>2, StaysInStep
<1>7. CASE phase = "ending"
  <2>1. caller[cur] = "complete" /\ InStep(yielded[cur], parser, WireBody, Len(WireBody))
    BY <1>7 DEF Delivers, OnWire
  <2>2. /\ parser' \in ParserType
        /\ InStep(z, parser', WireBody, Len(WireBody)) /\ IsPrefix(z, Meaning[wire])
    BY <1>5, <2>1
  <2> QED BY <1>0, <1>1, <1>4, <1>7, <2>1, <2>2, StaysInStep
<1> QED BY <1>6, <1>7

\* The stream ends.
LEMMA EndDelivers ==
    ASSUME StreamAssumption, MarkWhole, HttpInv, StreamShape, Delivers, End
    PROVE  Delivers'
<1>0. /\ phase = "ending" /\ phase' = "done" /\ wire' = wire /\ cur' = cur
      /\ yielded' = yielded /\ parser' = parser /\ caller' = caller
      /\ parser.events = <<>> /\ ~HasLine(parser)
  BY DEF End, Drained, vars
<1>1. /\ cur \in StreamCalls /\ WireBody \in Text /\ Meaning[wire] = Says(WireBody)
      /\ parser \in ParserType /\ yielded[cur] \in Seq(AnyEvent)
  BY <1>0, OnCall
<1>2. caller[cur] = "complete" /\ InStep(yielded[cur], parser, WireBody, Len(WireBody))
  BY <1>0 DEF Delivers, OnWire
<1>3. yielded[cur] = Says(WireBody)
  BY <1>0, <1>1, <1>2, OverInStep
<1>4. Meaning[wire]' = Meaning[wire]
  BY <1>0 DEF Meaning
<1>5. OnWire'
  BY <1>0, <1>1 DEF OnWire, Delivers
<1>6. EventsAsWritten'
  BY <1>0, <1>4 DEF EventsAsWritten, Delivers
<1>7. DoneHasAll'
  BY <1>0, <1>1, <1>2, <1>3, <1>4 DEF DoneHasAll
<1> QED BY <1>5, <1>6, <1>7 DEF Delivers

\* Any step at all.
LEMMA StreamNextDelivers ==
    ASSUME HttpAssumption, StreamAssumption, MarkWhole, HttpInv, StreamShape, InBody, Delivers,
           [StreamNext]_allVars
    PROVE  Delivers' /\ InBody'
<1>0. /\ TypeOK /\ StreamCalls \subseteq Calls /\ PlainCalls \subseteq Calls
      /\ PlainCalls \cap StreamCalls = {} /\ beside \subseteq PlainCalls
      /\ Len(wire) \in Nat
  BY WireIs DEF HttpInv, PoolInv, Calls, HttpAssumption, StreamShape, Delivers, OnWire
<1>1. ASSUME UNCHANGED <<wire, phase, cur, parser, yielded, taken>>,
             phase # "streaming" => \A c \in StreamCalls : caller'[c] = caller[c]
      PROVE  Delivers'
  BY <1>1, StandsStill DEF Delivers
<1>2. ASSUME UNCHANGED <<wire, cur, parser, yielded>>,
             phase' \in {"failed", "sleeping", "opening"}
      PROVE  Delivers'
  BY <1>2, LeavesCall DEF Delivers
<1>3. ASSUME UNCHANGED <<wire, work, size, closed>> PROVE InBody'
  BY <1>3, SizeStands
<1>4. CASE Open
  <2>1. Submit(cur') /\ wire' = wire
    BY <1>4 DEF Open
  <2>2. cur' \in Calls
    BY <1>0, <1>4 DEF Open, StreamAssumption, StreamShape
  <2> QED BY <1>4, <2>1, <2>2, OpenDelivers, SubmitSize
<1>5. CASE StreamAnswered
  <2>1. /\ UNCHANGED <<wire, cur, parser, yielded, taken, work, size, closed>>
        /\ phase = "streaming" /\ phase' \in {phase, "failed", "sleeping"}
    BY <1>5 DEF StreamAnswered, Answered, Caught
  <2> QED BY <1>1, <1>2, <1>3, <2>1
<1>6. CASE Receive
  <2>1. UNCHANGED <<wire, work, size, closed>>
    BY <1>6 DEF Receive, PopChunk
  <2> QED BY <1>3, <1>6, <2>1, ReceiveDelivers
<1>7. CASE Parse
  <2>1. UNCHANGED <<wire, work, size, closed>>
    BY <1>7 DEF Parse, vars
  <2> QED BY <1>3, <1>7, <2>1, ParseDelivers
<1>8. CASE Break
  <2>1. /\ UNCHANGED <<wire, cur, parser, yielded, work, size, closed>>
        /\ phase' \in {"failed", "sleeping"}
    BY <1>8 DEF Break, PopThrows, Caught
  <2> QED BY <1>2, <1>3, <2>1
<1>9. CASE BodyOver
  <2>1. UNCHANGED <<wire, work, size, closed>>
    BY <1>9 DEF BodyOver, PopEnds
  <2> QED BY <1>3, <1>9, <2>1, BodyOverDelivers
<1>10. CASE Yield
  <2>1. UNCHANGED <<vars, wire, cur>> /\ UNCHANGED <<wire, work, size, closed>>
    BY <1>10 DEF Yield, vars
  <2>2. CASE cur \in cancelled
    <3>1. UNCHANGED <<parser, yielded>> /\ phase' \in {"failed", "sleeping"}
      BY <1>10, <2>2 DEF Yield, Caught
    <3> QED BY <1>2, <1>3, <2>1, <3>1
  <2>3. CASE cur \notin cancelled
    <3>1. /\ phase \in {"streaming", "ending"} /\ parser.events # <<>>
          /\ yielded' = [yielded EXCEPT ![cur] = Append(@, Head(parser.events))]
          /\ parser' = [parser EXCEPT !.events = Tail(@)] /\ phase' = phase
      BY <1>10, <2>3 DEF Yield
    <3>2. Delivers'
      BY <2>1, <3>1, YieldDelivers
    <3> QED BY <1>3, <2>1, <3>2
  <2> QED BY <2>2, <2>3
<1>11. CASE End
  <2>1. UNCHANGED <<wire, work, size, closed>>
    BY <1>11 DEF End, vars
  <2> QED BY <1>3, <1>11, <2>1, EndDelivers
<1>12. CASE Wake
  <2>1. /\ UNCHANGED <<wire, cur, parser, yielded, work, size, closed>>
        /\ phase' \in {"failed", "opening"}
    BY <1>12 DEF Wake, vars
  <2> QED BY <1>2, <1>3, <2>1
<1>13. ASSUME NEW c \in Calls, StreamThread(c) PROVE Delivers' /\ InBody'
  <2>1. UNCHANGED streamVars /\ Thread(c)
    BY <1>13 DEF StreamThread
  <2>2. taken' = taken /\ caller' = caller
    BY <2>1 DEF Thread, Dequeue, Acquire, Connect, Write, ReadResponse, ReadHeader, ReadChunk,
                ReadFails, ErrorBodyEnds, BeforeRead, BodyEnds, Release
  <2> QED BY <1>0, <1>1, <1>13, <2>1, <2>2, ThreadSize DEF streamVars
<1>14. ASSUME NEW c \in beside, PlainCaller(c) PROVE Delivers' /\ InBody'
  <2>1. c \in Calls /\ c \notin StreamCalls /\ UNCHANGED streamVars
    BY <1>0, <1>14 DEF PlainCaller
  <2>2. Submit(c) \/ Answered(c)
    BY <1>14 DEF PlainCaller
  <2>3. taken' = taken /\ \A d \in StreamCalls : caller'[d] = caller[d]
    BY <1>0, <2>1, <2>2 DEF Submit, Answered, Proceeds, TypeOK
  <2>4. Delivers'
    BY <1>1, <2>1, <2>3 DEF streamVars
  <2>5. InBody'
    <3>1. CASE Submit(c)
      BY <2>1, <3>1, SubmitSize DEF streamVars
    <3>2. CASE Answered(c)
      BY <1>3, <2>1, <3>2 DEF Answered, streamVars
    <3> QED BY <2>2, <3>1, <3>2
  <2> QED BY <2>4, <2>5
<1>15. CASE CancelStream
  <2>1. UNCHANGED <<wire, phase, cur, parser, yielded, taken, caller, work, size, closed>>
    BY <1>15 DEF CancelStream, Cancel, streamVars
  <2> QED BY <1>1, <1>3, <2>1
<1>16. CASE Evict
  <2>1. UNCHANGED <<wire, phase, cur, parser, yielded, taken, caller, work, size, closed>>
    BY <1>16 DEF Evict, EvictExpired, streamVars
  <2> QED BY <1>1, <1>3, <2>1
<1>17. CASE UNCHANGED allVars
  <2>1. UNCHANGED <<wire, phase, cur, parser, yielded, taken, caller, work, size, closed>>
    BY <1>17 DEF allVars, vars, streamVars
  <2> QED BY <1>1, <1>3, <2>1
<1> QED BY <1>4, <1>5, <1>6, <1>7, <1>8, <1>9, <1>10, <1>11, <1>12, <1>13, <1>14, <1>15,
           <1>16, <1>17 DEF StreamNext, Steps, Resting

\* The parser holds what came from the last line that ended up to where the wire
\* is, has gathered what an empty line would make an event, and the events it holds
\* parsed go on where the yielded ones end.
LEMMA StreamInvariant == MarkWhole /\ StreamSpec => []StreamInv
<1>1. MarkWhole /\ StreamInit => StreamInv
  BY StreamAssumption, StreamInitInv
<1>2. MarkWhole /\ HttpInv /\ StreamInv /\ [StreamNext]_allVars => StreamInv'
  <2> SUFFICES ASSUME MarkWhole, HttpInv, StreamInv, [StreamNext]_allVars PROVE StreamInv'
    OBVIOUS
  <2>1. StreamShape /\ InBody /\ Delivers
    BY DEF StreamInv, Delivers
  <2>2. StreamShape'
    BY <2>1, HttpAssumption, StreamAssumption, StreamStep
  <2>3. Delivers' /\ InBody'
    BY <2>1, HttpAssumption, StreamAssumption, StreamNextDelivers
  <2> QED BY <2>2, <2>3 DEF StreamInv, Delivers
<1>3. MarkWhole' <=> MarkWhole
  BY DEF MarkWhole
<1> QED BY <1>1, <1>2, <1>3, StreamKeepsClient, PTL DEF StreamSpec

\* Of a body, however it is cut into reads, whatever lines, types, ids and marks
\* are in it, the stream yields the events it says, in order and each once, up to
\* wherever it is; and ends as done only with all of them.  A mark has to come
\* whole, or the parser takes its pieces for text.
THEOREM EventsAreAsWritten == MarkWhole /\ StreamSpec => []EventsAsWritten
<1>1. StreamInv => EventsAsWritten
  BY DEF StreamInv
<1> QED BY <1>1, StreamInvariant, PTL

\* A stream that ends without an exception had one call whose body came whole,
\* and has yielded every event of it, however often it was opened before.
THEOREM DoneIsComplete == MarkWhole /\ StreamSpec => []DoneHasAll
<1>1. StreamInv => DoneHasAll
  BY DEF StreamInv
<1> QED BY <1>1, StreamInvariant, PTL

-----------------------------------------------------------------------------
(* Tasks *)

LEMMA TaskInitInv == TaskInit => HandshakeInv
  BY HandshakeAssumption
  DEF TaskInit, HandshakeInv, TaskTypeOK, Uses, Children, Frames, PCs, TakeHasResult,
      RunnerFollowsRoot, OneContinuation, Live, TakenInOrder, RootAlive, LazyWaits,
      OneHandler, WaitsForLive, ChildrenOutliveThreads, NoticedMeansFinished

\* The parts of the invariant, as they are needed below.
LEMMA StartInv == HandshakeInv /\ StartTask => HandshakeInv'
<1> SUFFICES ASSUME HandshakeInv, StartTask PROVE HandshakeInv'
  OBVIOUS
<1>1. PICK f \in {"suspended", "parked"} : frame' = [frame EXCEPT ![child] = f]
  BY DEF StartTask
<1>2. /\ pc = "start" /\ started' = [started EXCEPT ![child] = TRUE]
      /\ UNCHANGED <<use, cont, runner>>
      /\ \/ child = N /\ pc' = "check" /\ child' = 1
         \/ child # N /\ child' = child + 1 /\ pc' = pc
  BY DEF StartTask
<1>3. child \in 1..N /\ child' \in 1..N /\ N \in Nat
  BY <1>2, HandshakeAssumption DEF HandshakeInv, TaskTypeOK, Children
<1>4. TaskTypeOK'
  BY <1>1, <1>2, <1>3 DEF HandshakeInv, TaskTypeOK, Children, Frames, PCs
<1>5. \A i \in Children : /\ frame'[i] = IF i = child THEN f ELSE frame[i]
                          /\ started'[i] = IF i = child THEN TRUE ELSE started[i]
  BY <1>1, <1>2, <1>3 DEF HandshakeInv, TaskTypeOK, Children
<1>6. Children = 1..N /\ use \in Uses
  BY DEF HandshakeInv, TaskTypeOK, Children
<1>7. TakeHasResult' /\ RunnerFollowsRoot' /\ OneContinuation'
  BY <1>2, <1>5
  DEF HandshakeInv, TakeHasResult, RunnerFollowsRoot, OneContinuation, Live
<1>8. TakenInOrder'
  <2>1. RootAlive /\ RootAlive'
    BY <1>2 DEF RootAlive
  <2>2. \A i \in Children : frame'[i] \notin {"freed", "dangling"}
    BY <1>5, <2>1 DEF HandshakeInv, TakenInOrder
  <2>3. \A i \in Children : started'[i] => frame'[i] # "created"
    BY <1>5 DEF HandshakeInv, TakenInOrder
  <2>4. pc' # "start" => \A i \in Children : ~(i < child')
    BY <1>2, <1>3, <1>6
  <2> QED BY <2>1, <2>2, <2>3, <2>4 DEF TakenInOrder
<1>9. use.eager /\ LazyWaits'
  BY <1>2 DEF HandshakeInv, LazyWaits
<1>10. OneHandler' /\ WaitsForLive'
  BY <1>2, <1>5 DEF HandshakeInv, OneHandler, WaitsForLive
<1>11. ChildrenOutliveThreads' /\ NoticedMeansFinished'
  BY <1>2, <1>5 DEF HandshakeInv, ChildrenOutliveThreads, NoticedMeansFinished
<1> QED BY <1>4, <1>7, <1>8, <1>9, <1>10, <1>11 DEF HandshakeInv

LEMMA ReadyInv == HandshakeInv /\ AwaitReady => HandshakeInv'
<1> SUFFICES ASSUME HandshakeInv, AwaitReady PROVE HandshakeInv'
  OBVIOUS
<1>1. /\ pc = "check" /\ UNCHANGED <<use, frame, started, cont, child, runner>>
      /\ \/ pc' = "take" /\ Done(child)
         \/ pc' = "suspend" /\ ~Done(child)
  BY DEF AwaitReady
<1>2. TaskTypeOK'
  BY <1>1 DEF HandshakeInv, TaskTypeOK, PCs
<1> QED
  BY <1>1, <1>2
  DEF HandshakeInv, TakeHasResult, Done,
      RunnerFollowsRoot, OneContinuation, Live, TakenInOrder, RootAlive, LazyWaits,
      OneHandler, WaitsForLive, ChildrenOutliveThreads, NoticedMeansFinished

LEMMA StartedInv == HandshakeInv /\ AwaitStarted => HandshakeInv'
<1> SUFFICES ASSUME HandshakeInv, AwaitStarted PROVE HandshakeInv'
  OBVIOUS
<1>1. /\ pc = "suspend" /\ started[child] /\ cont' = [cont EXCEPT ![child] = TRUE]
      /\ pc' = "suspended" /\ runner' = "nobody"
      /\ UNCHANGED <<use, frame, started, child>>
  BY DEF AwaitStarted
<1>2. child \in Children
  BY DEF HandshakeInv, TaskTypeOK
<1>3. TaskTypeOK'
  BY <1>1, <1>2 DEF HandshakeInv, TaskTypeOK, PCs
<1>4. \A i \in Children : cont'[i] = IF i = child THEN TRUE ELSE cont[i]
  BY <1>1, <1>2 DEF HandshakeInv, TaskTypeOK
<1>5. frame[child] \in Frames \ {"created", "freed", "dangling"}
  BY <1>1, <1>2 DEF HandshakeInv, TaskTypeOK, TakenInOrder, RootAlive
<1>6. use \in Uses
  BY DEF HandshakeInv, TaskTypeOK
<1> QED
  BY <1>1, <1>2, <1>3, <1>4, <1>5, <1>6
  DEF HandshakeInv, TakeHasResult, Done, Frames, Uses,
      RunnerFollowsRoot, OneContinuation, Live, TakenInOrder, RootAlive, LazyWaits,
      OneHandler, WaitsForLive, ChildrenOutliveThreads, NoticedMeansFinished

LEMMA FreshInv == HandshakeInv /\ AwaitFresh => HandshakeInv'
<1> SUFFICES ASSUME HandshakeInv, AwaitFresh PROVE HandshakeInv'
  OBVIOUS
<1>1. PICK f \in {"suspended", "parked"} :
          /\ frame' = [frame EXCEPT ![child] = f]
          /\ f = "suspended" => pc' = "suspended" /\ runner' = "nobody"
          /\ f = "parked" => pc' = "take" /\ runner' = runner
  BY DEF AwaitFresh
<1>2. /\ pc = "suspend" /\ ~started[child] /\ UNCHANGED <<use, child>>
      /\ cont' = [cont EXCEPT ![child] = TRUE]
      /\ started' = [started EXCEPT ![child] = TRUE]
  BY DEF AwaitFresh
<1>3. child \in Children
  BY DEF HandshakeInv, TaskTypeOK
<1>4. TaskTypeOK'
  BY <1>1, <1>2, <1>3 DEF HandshakeInv, TaskTypeOK, Frames, PCs
<1>5. \A i \in Children : /\ frame'[i] = IF i = child THEN f ELSE frame[i]
                          /\ started'[i] = IF i = child THEN TRUE ELSE started[i]
                          /\ cont'[i] = IF i = child THEN TRUE ELSE cont[i]
  BY <1>1, <1>2, <1>3 DEF HandshakeInv, TaskTypeOK
<1>6. TakeHasResult' /\ RunnerFollowsRoot'
  BY <1>1, <1>2, <1>3, <1>5
  DEF HandshakeInv, TakeHasResult, Done, RunnerFollowsRoot
<1>7. OneContinuation'
  BY <1>1, <1>2, <1>3, <1>5 DEF HandshakeInv, OneContinuation, Live
<1>8. TakenInOrder'
  <2>1. RootAlive /\ RootAlive' /\ pc # "start"
    BY <1>1, <1>2 DEF RootAlive
  <2>2. \A i \in Children : frame'[i] \notin {"freed", "dangling"}
    BY <1>5, <2>1 DEF HandshakeInv, TakenInOrder
  <2>3. \A i \in Children : started'[i] => frame'[i] # "created"
    BY <1>5 DEF HandshakeInv, TakenInOrder
  <2>4. \A i \in Children : i < child => i # child /\ Done(i)
    BY <1>3, <2>1, HandshakeAssumption DEF HandshakeInv, TakenInOrder, Children
  <2>5. \A i \in Children : i < child' => Done(i)'
    BY <1>2, <1>5, <2>4 DEF Done
  <2> QED BY <2>1, <2>2, <2>3, <2>5 DEF TakenInOrder
<1>9. LazyWaits'
  <2> SUFFICES ASSUME ~use.eager PROVE LazyWaits'
    BY <1>2 DEF LazyWaits
  <2>1. RootAlive /\ pc' \notin {"start", "check", "suspend"}
    BY <1>1, <1>2 DEF RootAlive
  <2>2. \A i \in Children : (Live(i))' => cont'[i]
    BY <1>5 DEF HandshakeInv, LazyWaits, Live
  <2>3. \A i \in Children : i > child => i # child /\ ~started[i]
    BY <1>3, <2>1, HandshakeAssumption DEF HandshakeInv, LazyWaits, Children
  <2>4. \A i \in Children : i > child' => ~started'[i]
    BY <1>2, <1>5, <2>3
  <2> QED BY <2>1, <2>2, <2>4 DEF LazyWaits
<1>10. OneHandler' /\ WaitsForLive'
  BY <1>1, <1>2, <1>3, <1>5
  DEF HandshakeInv, OneHandler, WaitsForLive, Live, RunnerFollowsRoot
<1>11. ChildrenOutliveThreads' /\ NoticedMeansFinished'
  BY <1>1, <1>2, <1>5 DEF HandshakeInv, ChildrenOutliveThreads, NoticedMeansFinished
<1> QED BY <1>4, <1>6, <1>7, <1>8, <1>9, <1>10, <1>11 DEF HandshakeInv

\* The root's body ends: where the library can promise it, no child is left
\* that a thread still executes or will resume.
LEMMA EndInv ==
    ASSUME HandshakeInv, pc = "take", pc' = "final", DestroyTasks,
           UNCHANGED <<use, started, cont, child, runner>>,
           use.throws \/ child = N
    PROVE  HandshakeInv'
<1>1. \A i \in Children : frame'[i] = Destroyed(frame[i])
  BY DEF DestroyTasks
<1>2. TaskTypeOK'
  BY DEF HandshakeInv, TaskTypeOK, PCs, Frames, DestroyTasks, Destroyed
<1>3. use \in Uses /\ child \in Children /\ runner # "nobody"
  BY DEF HandshakeInv, TaskTypeOK, RunnerFollowsRoot
<1>4. \A i \in Children : frame'[i] \in {"freed", "dangling"}
  BY <1>1 DEF Destroyed
<1>5. ~(use.eager /\ (use.threads \/ use.throws)) => \A i \in Children : ~Live(i)
  <2>1. CASE ~use.eager
    BY <2>1 DEF HandshakeInv, LazyWaits, OneContinuation
  <2>2. CASE ~use.threads /\ ~use.throws
    <3>1. child = N /\ N \in Nat
      BY <2>2, HandshakeAssumption
    <3>2. \A i \in Children : Done(i)
      BY <3>1 DEF HandshakeInv, TakeHasResult, TakenInOrder, RootAlive, Children
    <3>3. \A i \in Children : frame[i] # "final"
      BY <1>3, <2>2 DEF HandshakeInv, OneHandler
    <3> QED BY <3>2, <3>3 DEF Done, Live
  <2> QED BY <1>3, <2>1, <2>2 DEF Uses
<1>6. ChildrenOutliveThreads'
  BY <1>1, <1>5 DEF ChildrenOutliveThreads, Destroyed, Live
<1> QED
  BY <1>2, <1>3, <1>4, <1>6
  DEF HandshakeInv, TakeHasResult, RunnerFollowsRoot, OneContinuation, Live,
      TakenInOrder, RootAlive, LazyWaits, OneHandler, WaitsForLive,
      NoticedMeansFinished

LEMMA TakeInv == HandshakeInv /\ (Take \/ TakeThrows) => HandshakeInv'
<1> SUFFICES ASSUME HandshakeInv, Take \/ TakeThrows PROVE HandshakeInv'
  OBVIOUS
<1>1. CASE Take /\ child < N
  <2>1. /\ pc = "take" /\ child' = child + 1 /\ pc' = "check"
        /\ UNCHANGED <<use, frame, started, cont, runner>>
    BY <1>1 DEF Take
  <2>2. child \in 1..N /\ child' \in 1..N /\ N \in Nat
    BY <1>1, <2>1, HandshakeAssumption DEF HandshakeInv, TaskTypeOK, Children
  <2>3. TaskTypeOK'
    BY <2>1, <2>2 DEF HandshakeInv, TaskTypeOK, PCs, Children
  <2> QED
    BY <2>1, <2>2, <2>3
    DEF HandshakeInv, TakeHasResult, Done, Children,
        RunnerFollowsRoot, OneContinuation, Live, TakenInOrder, RootAlive, LazyWaits,
        OneHandler, WaitsForLive, ChildrenOutliveThreads, NoticedMeansFinished
<1>2. CASE Take /\ ~(child < N)
  <2>1. child = N
    BY <1>2, HandshakeAssumption DEF HandshakeInv, TaskTypeOK, Children
  <2> QED BY <1>2, <2>1, EndInv DEF Take
<1>3. CASE TakeThrows
  BY <1>3, EndInv DEF TakeThrows
<1> QED BY <1>1, <1>2, <1>3

\* What the driver and the root's final awaiter do concerns no child.
LEMMA RootEndInv == HandshakeInv /\ (RootParks \/ DriverFinishes) => HandshakeInv'
<1> SUFFICES ASSUME HandshakeInv, RootParks \/ DriverFinishes PROVE HandshakeInv'
  OBVIOUS
<1>1. /\ pc \in {"final", "parked"} /\ pc' \in {"parked", "freed", "dangling"}
      /\ UNCHANGED <<use, frame, started, cont, child>>
      /\ runner' = "nobody" \/ (runner' = runner /\ pc' # "parked")
  BY DEF RootParks, DriverFinishes, Destroyed
<1>2. TaskTypeOK'
  BY <1>1 DEF HandshakeInv, TaskTypeOK, PCs
<1>3. NoticedMeansFinished'
  BY DEF HandshakeInv, NoticedMeansFinished, RunnerFollowsRoot, RootParks,
         DriverFinishes, Destroyed
<1> QED
  BY <1>1, <1>2, <1>3
  DEF HandshakeInv, TakeHasResult, RunnerFollowsRoot, OneContinuation, Live,
      TakenInOrder, RootAlive, LazyWaits, OneHandler, WaitsForLive,
      ChildrenOutliveThreads

\* A child that moves within its body.
LEMMA BodyInv ==
    ASSUME HandshakeInv, NEW c \in Children, Resume(c) \/ Complete(c)
    PROVE  HandshakeInv'
<1>1. PICK f \in {"resumed", "final"} :
          /\ frame' = [frame EXCEPT ![c] = f]
          /\ frame[c] \in {"suspended", "resumed"}
          /\ f = "resumed" => MayRun(c)
          /\ f = "final" => frame[c] = "resumed"
          /\ UNCHANGED <<use, started, cont, pc, child, runner>>
  BY DEF Resume, Complete
<1>2. TaskTypeOK'
  BY <1>1 DEF HandshakeInv, TaskTypeOK, Frames
<1>3. \A i \in Children : frame'[i] = IF i = c THEN f ELSE frame[i]
  BY <1>1 DEF HandshakeInv, TaskTypeOK
<1>4. OneHandler'
  BY <1>1, <1>3 DEF HandshakeInv, OneHandler, MayRun, Done, TaskTypeOK, RunnerFollowsRoot
<1> QED
  BY <1>1, <1>2, <1>3, <1>4
  DEF HandshakeInv, TakeHasResult, Done,
      RunnerFollowsRoot, OneContinuation, Live, TakenInOrder, RootAlive, LazyWaits,
      WaitsForLive, ChildrenOutliveThreads, NoticedMeansFinished

LEMMA FinalInv ==
    ASSUME HandshakeInv, NEW c \in Children, FinalSuspend(c) PROVE HandshakeInv'
<1>1. /\ frame[c] = "final" /\ frame' = [frame EXCEPT ![c] = "parked"]
      /\ UNCHANGED <<use, started, cont, child>>
      /\ \/ cont[c] /\ pc' = "take" /\ runner' = "worker"
         \/ ~cont[c] /\ pc' = pc /\ runner' = runner
  BY DEF FinalSuspend
<1>2. TaskTypeOK'
  BY <1>1 DEF HandshakeInv, TaskTypeOK, Frames, PCs
<1>3. \A i \in Children : frame'[i] = IF i = c THEN "parked" ELSE frame[i]
  BY <1>1 DEF HandshakeInv, TaskTypeOK
<1>4. CASE cont[c]
  <2>1. pc = "suspended" /\ child = c /\ pc' = "take" /\ runner' = "worker"
    BY <1>1, <1>4 DEF HandshakeInv, OneContinuation, Live
  <2> QED
    BY <1>1, <1>2, <1>3, <2>1
    DEF HandshakeInv, TakeHasResult, Done,
        RunnerFollowsRoot, OneContinuation, Live, TakenInOrder, RootAlive, LazyWaits,
        OneHandler, WaitsForLive, ChildrenOutliveThreads, NoticedMeansFinished
<1>5. CASE ~cont[c]
  <2>1. pc' = pc /\ runner' = runner
    BY <1>1, <1>5
  <2> QED
    BY <1>1, <1>2, <1>3, <1>5, <2>1
    DEF HandshakeInv, TakeHasResult, Done,
        RunnerFollowsRoot, OneContinuation, Live, TakenInOrder, RootAlive, LazyWaits,
        OneHandler, WaitsForLive, ChildrenOutliveThreads, NoticedMeansFinished
<1> QED BY <1>4, <1>5

LEMMA TaskNextInv == HandshakeInv /\ [TaskNext]_taskVars => HandshakeInv'
<1> SUFFICES ASSUME HandshakeInv, [TaskNext]_taskVars PROVE HandshakeInv'
  OBVIOUS
<1>1. CASE UNCHANGED taskVars
  BY <1>1
  DEF taskVars, HandshakeInv, TaskTypeOK, TakeHasResult, Done,
      RunnerFollowsRoot, OneContinuation, Live, TakenInOrder, RootAlive, LazyWaits,
      OneHandler, WaitsForLive, ChildrenOutliveThreads, NoticedMeansFinished
<1>2. CASE RootStep
  BY <1>2, StartInv, ReadyInv, StartedInv, FreshInv, TakeInv, RootEndInv DEF RootStep
<1>3. ASSUME NEW c \in Children, ChildStep(c) PROVE HandshakeInv'
  BY <1>3, BodyInv, FinalInv DEF ChildStep
<1>4. CASE DriverFinishes
  BY <1>4, RootEndInv
<1> QED BY <1>1, <1>2, <1>3, <1>4 DEF TaskNext, Terminated

-----------------------------------------------------------------------------

\* The inductive invariant of the hand-over, for any number of children and
\* every use of the tasks: a result is taken only when there is one, and tasks
\* and roots outlive the threads that run them where that can be promised.
THEOREM HandshakeInvariant == TaskSpec => []HandshakeInv
  BY TaskInitInv, TaskNextInv, PTL DEF TaskSpec

\* No thread ever resumes a root that is not suspended on the child it just
\* finished: the root's code never runs on two threads.
THEOREM NeverRunsTwice == TaskSpec => []ResumesOnlySuspended
<1>1. HandshakeInv => ResumesOnlySuspended
  BY DEF HandshakeInv, OneContinuation, RunnerFollowsRoot, Live, ResumesOnlySuspended
<1> QED BY <1>1, HandshakeInvariant, PTL

\* On one event loop, and for children not started before they are awaited, no
\* wake-up is lost.
THEOREM NoLostWakeUp == TaskSpec => []ResumedInOrder
<1>1. HandshakeInv => ResumedInOrder
  BY DEF HandshakeInv, WaitsForLive, Live, ResumedInOrder, ResumedWhenChildEnds
<1> QED BY <1>1, HandshakeInvariant, PTL
=============================================================================
