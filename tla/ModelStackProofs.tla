--------------------------- MODULE ModelStackProofs ---------------------------
(***************************************************************************)
(* A model call, inside and out.  The layers over it for any number of     *)
(* threads: the limiter and the cache they share, retries, the             *)
(* cancellation token and batches; the steps of one part leave the others  *)
(* alone (the frames below), so that a step has to be shown to keep its    *)
(* own part of the invariant only.  And the stream below them, for each    *)
(* provider: the parts its decoder yields are well formed.                 *)
(***************************************************************************)
EXTENDS ModelStack, ProviderCalls, FiniteSetTheorems, SequenceTheorems, WellFoundedInduction,
        TLAPS

\* The invariants a run checks of the stack are inductive together.
IInv == StackInv /\ CallbacksOnce /\ BatchFinal

\* The role of a thread, by where it is.
LEMMA ByRole ==
    ASSUME TypeOK, Course, NEW t \in Threads
    PROVE  /\ pc[t] \in {"limit", "look", "asking", "store", "record", "caught"} => role[t] = "call"
           /\ pc[t] \in {"submit", "polling", "fetch"} => role[t] = "batch"
           /\ pc[t] = "locking" => role[t] \in {"register", "reenter", "cancel"}
           /\ pc[t] = "registering" => role[t] \in {"register", "reenter"}
           /\ pc[t] \in {"cancelling", "running"} => role[t] = "cancel"
           /\ pc[t] = "stuck" => role[t] = "reenter"
           /\ role[t] = "none" => pc[t] = "done"
<1>1. pc[t] \in Stations[role[t]] /\ role[t] \in {"call", "batch", "register", "reenter", "cancel", "none"}
  BY DEF TypeOK, Course, Begins
<1> QED BY <1>1 DEF Stations

\* Where a thread can go it is known to be; no other thread moves.
LEMMA Moves ==
    ASSUME TypeOK, Course, NEW t \in Threads, NEW to \in Stations[role[t]],
           pc' = [pc EXCEPT ![t] = to], role' = role
    PROVE  /\ pc' \in [Threads -> PCs]
           /\ pc'[t] = to /\ \A u \in Threads \ {t} : pc'[u] = pc[u]
           /\ Course'
<1>1. role[t] \in {"call", "batch", "register", "reenter", "cancel", "none"}
  BY DEF TypeOK, Begins
<1>2. to \in PCs
  BY <1>1 DEF Stations, PCs
<1>3. pc' \in [Threads -> PCs] /\ pc'[t] = to /\ \A u \in Threads \ {t} : pc'[u] = pc[u]
  BY <1>2 DEF TypeOK
<1>4. Course'
  BY <1>3 DEF Course
<1> QED BY <1>3, <1>4

\* A call leaves the token and the batches alone.
LEMMA CallFrame ==
    ASSUME IInv, CallStep, NEW t \in Threads, role[t] = "call",
           NEW to \in Stations["call"], pc' = [pc EXCEPT ![t] = to]
    PROVE  /\ role' \in [Threads -> DOMAIN Begins] /\ pc' \in [Threads -> PCs] /\ Course'
           /\ pc'[t] = to /\ \A u \in Threads \ {t} : pc'[u] = pc[u]
           /\ CancelTypeOK' /\ BatchTypeOK'
           /\ TokenInv' /\ BatchInv' /\ CallbacksOnce' /\ BatchFinal'
<1>1. /\ role' = role /\ pc' \in [Threads -> PCs] /\ Course'
      /\ pc'[t] = to /\ \A u \in Threads \ {t} : pc'[u] = pc[u]
  BY Moves DEF IInv, StackInv, CallStep
<1>2. /\ \A u \in Threads : Registered(u)' <=> Registered(u)
      /\ pc[t] \notin {"registering", "cancelling", "stuck", "running"}
      /\ to \notin {"registering", "cancelling", "stuck", "running"}
  <2>1. pc[t] \in Stations["call"]
    BY DEF IInv, StackInv, Course
  <2> QED BY <1>1, <2>1 DEF Stations, Registered
<1>3. TokenInv'
  <2>1. UNCHANGED cancelVars /\ callbacks \in Seq(Threads) /\ cbs \in [Threads -> Seq(Threads)]
    BY DEF CallStep, IInv, StackInv, TypeOK, CancelTypeOK
  <2> QED BY <1>1, <1>2, <2>1 DEF cancelVars, TokenInv, IInv, StackInv
<1>4. BatchInv'
  BY <1>1 DEF CallStep, batchVars, BatchInv, Parsed, IInv, StackInv
<1>5. CallbacksOnce'
  BY <1>2 DEF CallStep, cancelVars, CallbacksOnce, IInv
<1>6. BatchFinal'
  BY <1>1 DEF CallStep, batchVars, BatchFinal, FinalWord, Parsed, IInv
<1>7. CancelTypeOK'
  BY DEF CallStep, cancelVars, CancelTypeOK, TypeOK, IInv, StackInv
<1>8. BatchTypeOK'
  BY DEF CallStep, batchVars, BatchTypeOK, TypeOK, IInv, StackInv
<1>9. role' \in [Threads -> DOMAIN Begins]
  BY <1>1 DEF TypeOK, IInv, StackInv
<1> QED BY <1>1, <1>3, <1>4, <1>5, <1>6, <1>7, <1>8, <1>9

\* The token's steps leave calls, cache, limiter and batches alone.
LEMMA TokenFrame ==
    ASSUME IInv, TokenStep, NEW t \in Threads, role[t] \in {"register", "reenter", "cancel"},
           NEW to \in Stations[role[t]], pc' = [pc EXCEPT ![t] = to]
    PROVE  /\ role' \in [Threads -> DOMAIN Begins] /\ pc' \in [Threads -> PCs] /\ Course'
           /\ pc'[t] = to /\ \A u \in Threads \ {t} : pc'[u] = pc[u]
           /\ CallTypeOK' /\ LimiterTypeOK' /\ CacheTypeOK' /\ BatchTypeOK'
           /\ CacheInv' /\ LimiterInv' /\ RetryInv' /\ AnswerInv' /\ BatchInv' /\ BatchFinal'
<1>1. /\ role' = role /\ pc' \in [Threads -> PCs] /\ Course'
      /\ pc'[t] = to /\ \A u \in Threads \ {t} : pc'[u] = pc[u]
  BY Moves DEF IInv, StackInv, TokenStep
<1>2. /\ pc[t] \notin {"look", "asking", "store", "record", "failed", "submit", "polling", "fetch"}
      /\ to \notin {"look", "asking", "store", "record", "failed", "submit", "polling", "fetch"}
  <2>1. pc[t] \in Stations[role[t]]
    BY DEF IInv, StackInv, Course
  <2> QED BY <2>1 DEF Stations
<1>3. CacheInv'
  BY DEF TokenStep, cacheVars, CacheInv, IInv, StackInv
<1>4. LimiterInv'
  <2>1. InFlight' = InFlight
    BY <1>1, <1>2 DEF InFlight
  <2> QED BY <2>1 DEF TokenStep, limiterVars, LimiterInv, IInv, StackInv
<1>5. RetryInv'
  BY <1>1, <1>2 DEF TokenStep, callVars, RetryInv, IInv, StackInv
<1>6. AnswerInv'
  BY <1>1, <1>2 DEF TokenStep, callVars, cacheVars, AnswerInv, IInv, StackInv
<1>7. BatchInv'
  BY <1>1, <1>2 DEF TokenStep, batchVars, BatchInv, Parsed, IInv, StackInv
<1>8. BatchFinal'
  BY <1>1, <1>2 DEF TokenStep, batchVars, BatchFinal, FinalWord, Parsed, IInv
<1>9. CallTypeOK' /\ CacheTypeOK'
  BY DEF TokenStep, callVars, cacheVars, CallTypeOK, CacheTypeOK, TypeOK, IInv, StackInv
<1>10. LimiterTypeOK'
  BY DEF TokenStep, limiterVars, LimiterTypeOK, TypeOK, IInv, StackInv
<1>11. role' \in [Threads -> DOMAIN Begins]
  BY <1>1 DEF TypeOK, IInv, StackInv
<1>12. BatchTypeOK'
  BY DEF TokenStep, batchVars, BatchTypeOK, TypeOK, IInv, StackInv
<1> QED BY <1>1, <1>3, <1>4, <1>5, <1>6, <1>7, <1>8, <1>9, <1>10, <1>11, <1>12

\* Batches leave calls, cache, limiter and token alone.
LEMMA BatchFrame ==
    ASSUME IInv, BatchStep, NEW t \in Threads, NEW to \in Stations[role[t]],
           role[t] = "batch" \/ to = pc[t], pc' = [pc EXCEPT ![t] = to]
    PROVE  /\ role' \in [Threads -> DOMAIN Begins] /\ pc' \in [Threads -> PCs] /\ Course'
           /\ pc'[t] = to /\ \A u \in Threads \ {t} : pc'[u] = pc[u]
           /\ CallTypeOK' /\ LimiterTypeOK' /\ CacheTypeOK' /\ CancelTypeOK'
           /\ CacheInv' /\ LimiterInv' /\ RetryInv' /\ AnswerInv' /\ TokenInv' /\ CallbacksOnce'
<1>1. /\ role' = role /\ pc' \in [Threads -> PCs] /\ Course'
      /\ pc'[t] = to /\ \A u \in Threads \ {t} : pc'[u] = pc[u]
  BY Moves DEF IInv, StackInv, BatchStep
<1>2. /\ \A u \in Threads : Registered(u)' <=> Registered(u)
      /\ InFlight' = InFlight
      /\ \A u \in Threads, s \in {"registering", "cancelling", "stuck", "running", "record", "store"} :
            pc'[u] = s <=> pc[u] = s
      /\ \A u \in Threads : role[u] = "call" => pc'[u] = pc[u]
  <2>1. CASE to = pc[t]
    <3>1. \A u \in Threads : pc'[u] = pc[u]
      BY <1>1, <2>1
    <3> QED BY <1>1, <3>1 DEF Registered, InFlight
  <2>2. CASE role[t] = "batch"
    <3>1. /\ pc[t] \in {"submit", "polling", "fetch", "done", "failed"}
          /\ to \in {"submit", "polling", "fetch", "done", "failed"}
      BY <2>2 DEF IInv, StackInv, Course, Stations
    <3> QED BY <1>1, <2>2, <3>1 DEF Registered, InFlight
  <2> QED BY <2>1, <2>2
<1>3. CacheInv'
  BY DEF BatchStep, cacheVars, CacheInv, IInv, StackInv
<1>4. LimiterInv'
  BY <1>2 DEF BatchStep, limiterVars, LimiterInv, IInv, StackInv
<1>5. RetryInv'
  BY <1>1, <1>2 DEF BatchStep, callVars, RetryInv, IInv, StackInv
<1>6. AnswerInv'
  BY <1>1, <1>2 DEF BatchStep, callVars, cacheVars, AnswerInv, IInv, StackInv
<1>7. TokenInv'
  <2>1. UNCHANGED cancelVars /\ callbacks \in Seq(Threads) /\ cbs \in [Threads -> Seq(Threads)]
    BY DEF BatchStep, IInv, StackInv, TypeOK, CancelTypeOK
  <2> QED BY <1>1, <1>2, <2>1 DEF cancelVars, TokenInv, IInv, StackInv
<1>8. CallbacksOnce'
  BY <1>2 DEF BatchStep, cancelVars, CallbacksOnce, IInv
<1>9. CallTypeOK' /\ CacheTypeOK'
  BY DEF BatchStep, callVars, cacheVars, CallTypeOK, CacheTypeOK, TypeOK, IInv, StackInv
<1>10. LimiterTypeOK'
  BY DEF BatchStep, limiterVars, LimiterTypeOK, TypeOK, IInv, StackInv
<1>11. role' \in [Threads -> DOMAIN Begins]
  BY <1>1 DEF TypeOK, IInv, StackInv
<1>12. CancelTypeOK'
  BY DEF BatchStep, cancelVars, CancelTypeOK, TypeOK, IInv, StackInv
<1> QED BY <1>1, <1>3, <1>4, <1>5, <1>6, <1>7, <1>8, <1>9, <1>10, <1>11, <1>12

-----------------------------------------------------------------------------
(* The limiter *)

\* Counting calls: one more is at most one more, one less is one less.
LEMMA CallsCounted ==
    ASSUME NEW S \in SUBSET Threads
    PROVE  /\ Cardinality(S) \in Nat /\ Cardinality(S) <= Cardinality(Threads)
           /\ \A t \in Threads : /\ Cardinality(S \cup {t}) <= Cardinality(S) + 1
                                 /\ t \in S => Cardinality(S \ {t}) = Cardinality(S) - 1
<1>1. IsFiniteSet(Threads)
  BY ModelStackAssumption
<1>2. IsFiniteSet(S) /\ Cardinality(S) <= Cardinality(Threads)
  BY <1>1, FS_Subset
<1>3. Cardinality(S) \in Nat
  BY <1>2, FS_CardinalityType
<1>4. ASSUME NEW t \in Threads
      PROVE  /\ Cardinality(S \cup {t}) <= Cardinality(S) + 1
             /\ t \in S => Cardinality(S \ {t}) = Cardinality(S) - 1
  <2>1. Cardinality(S \cup {t}) = IF t \in S THEN Cardinality(S) ELSE Cardinality(S) + 1
    BY <1>2, FS_AddElement
  <2>2. Cardinality(S \ {t}) = IF t \in S THEN Cardinality(S) - 1 ELSE Cardinality(S)
    BY <1>2, FS_RemoveElement
  <2> QED BY <1>3, <2>1, <2>2
<1> QED BY <1>2, <1>3, <1>4

\* Who leaves makes room for the tokens of one call, and who stays keeps it.
LEMMA Budget ==
    ASSUME NEW n \in Nat, NEW k \in Nat, n <= k
    PROVE  /\ MaxUse * n <= MaxUse * k
           /\ n < k => MaxUse * n + MaxUse <= MaxUse * k
           /\ MaxUse * n \in Nat
<1>1. MaxUse \in Nat
  BY ModelStackAssumption
<1>2. PICK d \in Nat : k = n + d
  BY Z3
<1>3. MaxUse * k = MaxUse * n + MaxUse * d
  BY <1>1, <1>2
<1>4. MaxUse * d \in Nat /\ MaxUse * n \in Nat /\ (d > 0 => MaxUse * d >= MaxUse)
  BY <1>1
<1> QED BY <1>1, <1>2, <1>3, <1>4


\* The calls under way and the tokens of the window.
\* A call let in while the budget is not gone keeps the limiter within bounds.
LEMMA LetIn ==
    ASSUME TypeOK, NEW t \in Threads, InFlight' = InFlight \cup {t},
           request_count' \in 0..max_requests_per_minute, token_count' \in Nat,
           token_count' < max_tokens_per_minute
    PROVE  LimiterInv'
<1>1. /\ Cardinality(InFlight') \in Nat /\ Cardinality(Threads) \in Nat
      /\ Cardinality(InFlight') <= Cardinality(Threads)
  <2>1. InFlight' \in SUBSET Threads /\ Threads \in SUBSET Threads
    BY DEF InFlight
  <2> QED BY <2>1, CallsCounted
<1>2. MaxUse * Cardinality(InFlight') <= MaxUse * Cardinality(Threads)
      /\ MaxUse * Cardinality(InFlight') \in Nat /\ MaxUse * Cardinality(Threads) \in Nat
  BY <1>1, Budget
<1> QED BY <1>2, RateLimiterAssumption DEF LimiterInv

\* So does a step with which calls only leave, and nothing is spent.
LEMMA LetGo ==
    ASSUME TypeOK, LimiterInv, InFlight' \subseteq InFlight,
           request_count' = request_count, token_count' = token_count
    PROVE  LimiterInv'
<1>1. /\ Cardinality(InFlight') \in Nat /\ Cardinality(InFlight) \in Nat
      /\ Cardinality(InFlight') <= Cardinality(InFlight) /\ Cardinality(Threads) \in Nat
  <2>1. /\ InFlight \in SUBSET Threads /\ InFlight' \in SUBSET Threads /\ InFlight' \in SUBSET InFlight
        /\ Threads \in SUBSET Threads
    BY DEF InFlight
  <2>2. IsFiniteSet(InFlight)
    BY <2>1, ModelStackAssumption, FS_Subset
  <2> QED BY <2>1, <2>2, CallsCounted, FS_Subset
<1>2. /\ MaxUse * Cardinality(InFlight') <= MaxUse * Cardinality(InFlight)
      /\ MaxUse * Cardinality(InFlight') \in Nat /\ MaxUse * Cardinality(InFlight) \in Nat
      /\ MaxUse * Cardinality(Threads) \in Nat
  BY <1>1, Budget
<1> QED BY <1>2, RateLimiterAssumption DEF LimiterInv, TypeOK, LimiterTypeOK

\* A call that records what it used leaves room for it when it goes.
LEMMA Pays ==
    ASSUME TypeOK, LimiterInv, NEW t \in InFlight, InFlight' = InFlight \ {t},
           NEW n \in 0..MaxUse, request_count' = request_count, token_count' = token_count + n
    PROVE  LimiterInv'
<1>1. /\ Cardinality(InFlight') \in Nat /\ Cardinality(InFlight) \in Nat
      /\ Cardinality(InFlight') = Cardinality(InFlight) - 1 /\ Cardinality(Threads) \in Nat
  <2>1. InFlight \in SUBSET Threads /\ InFlight' \in SUBSET Threads /\ Threads \in SUBSET Threads
        /\ t \in Threads
    BY DEF InFlight
  <2> QED BY <2>1, CallsCounted
<1>2. /\ MaxUse * Cardinality(InFlight') + MaxUse <= MaxUse * Cardinality(InFlight)
      /\ MaxUse * Cardinality(InFlight') \in Nat /\ MaxUse * Cardinality(InFlight) \in Nat
      /\ MaxUse * Cardinality(Threads) \in Nat
  BY <1>1, Budget
<1> DEFINE before == MaxUse * Cardinality(InFlight)
           after  == MaxUse * Cardinality(InFlight')
           all    == MaxUse * Cardinality(Threads)
<1>3. /\ after + MaxUse <= before /\ before \in Nat /\ after \in Nat /\ all \in Nat
      /\ token_count + before <= max_tokens_per_minute - 1 + all
      /\ request_count' \in 0..max_requests_per_minute
  BY <1>2 DEF LimiterInv
<1> HIDE DEF before, after, all
<1>4. token_count \in Nat /\ n \in Nat /\ n <= MaxUse /\ MaxUse \in Nat /\ max_tokens_per_minute \in Nat
  BY RateLimiterAssumption, ModelStackAssumption DEF TypeOK, LimiterTypeOK
<1>5. token_count' + after <= max_tokens_per_minute - 1 + all
  BY <1>3, <1>4
<1> QED BY <1>3, <1>5 DEF LimiterInv, after, all

-----------------------------------------------------------------------------
(* The cache *)

\* The first n elements of a sequence, and those after them.
LEMMA Cut ==
    ASSUME NEW S, NEW s \in Seq(S), NEW m \in Int, NEW n \in Int, 1 <= m, m <= n + 1, n <= Len(s)
    PROVE  /\ SubSeq(s, m, n) \in Seq(S) /\ Len(SubSeq(s, m, n)) = n - m + 1
           /\ \A j \in 1..(n - m + 1) : SubSeq(s, m, n)[j] = s[m + j - 1]
<1>1. \A j \in m..n : s[j] \in S
  <2> TAKE j \in m..n
  <2>1. Len(s) \in Nat /\ j \in Int /\ 1 <= j /\ j <= Len(s)
    OBVIOUS
  <2>2. j \in 1..Len(s)
    BY <2>1
  <2> QED BY <2>2, ElementOfSeq
<1>2. /\ SubSeq(s, m, n) \in Seq(S)
      /\ Len(SubSeq(s, m, n)) = IF m <= n THEN n - m + 1 ELSE 0
      /\ \A j \in 1..(n - m + 1) : SubSeq(s, m, n)[j] = s[m + j - 1]
  BY <1>1, SubSeqProperties
<1>3. (IF m <= n THEN n - m + 1 ELSE 0) = n - m + 1
  OBVIOUS
<1> QED BY <1>2, <1>3

\* A sequence with one of its elements moved to the front.
Promoted(s, i) == <<s[i]>> \o RemoveAt(s, i)

\* It has the elements of the sequence, those before the moved one later by
\* one.
LEMMA FrontFacts ==
    ASSUME NEW S, NEW s \in Seq(S), NEW i \in 1..Len(s)
    PROVE  /\ Promoted(s, i) \in Seq(S) /\ Len(Promoted(s, i)) = Len(s) /\ DOMAIN Promoted(s, i) = DOMAIN s
           /\ \A j \in DOMAIN s : Promoted(s, i)[j] = s[IF j = 1 THEN i ELSE IF j <= i THEN j - 1 ELSE j]
<1> DEFINE n == Len(s)
           a == SubSeq(s, 1, i - 1)
           b == SubSeq(s, i + 1, n)
           c == a \o b
           h == <<s[i]>>
           f == Promoted(s, i)
<1>1. n \in Nat /\ DOMAIN s = 1..n /\ i \in Int /\ 1 <= i /\ i <= n /\ s[i] \in S
  <2>1. i \in 1..n => s[i] \in S
    BY ElementOfSeq
  <2> QED BY <2>1
<1>2. /\ a \in Seq(S) /\ Len(a) = i - 1
      /\ \A j \in 1..(i - 1) : a[j] = s[j]
  <2>1. /\ a \in Seq(S) /\ Len(a) = (i - 1) - 1 + 1
        /\ \A j \in 1..((i - 1) - 1 + 1) : a[j] = s[1 + j - 1]
    <3>1. 1 \in Int /\ i - 1 \in Int /\ 1 <= 1 /\ 1 <= (i - 1) + 1 /\ i - 1 <= Len(s)
      BY <1>1
    <3> QED BY <3>1, Cut
  <2>2. (i - 1) - 1 + 1 = i - 1 /\ \A j \in Int : 1 + j - 1 = j
    BY <1>1
  <2> QED BY <2>1, <2>2
<1>3. /\ b \in Seq(S) /\ Len(b) = n - i
      /\ \A j \in 1..(n - i) : b[j] = s[i + j]
  <2>1. /\ b \in Seq(S) /\ Len(b) = n - (i + 1) + 1
        /\ \A j \in 1..(n - (i + 1) + 1) : b[j] = s[(i + 1) + j - 1]
    <3>1. i + 1 \in Int /\ n \in Int /\ 1 <= i + 1 /\ i + 1 <= n + 1 /\ n <= Len(s)
      BY <1>1
    <3> QED BY <3>1, Cut
  <2>2. n - (i + 1) + 1 = n - i
    BY <1>1
  <2>3. ASSUME NEW j \in 1..(n - i)
        PROVE  b[j] = s[i + j]
    <3>1. (i + 1) + j - 1 = i + j
      BY <1>1
    <3>2. b[j] = s[(i + 1) + j - 1]
      BY <2>1, <2>2
    <3> QED BY <3>1, <3>2
  <2> HIDE DEF b
  <2> QED BY <2>1, <2>2, <2>3
<1>4. f = h \o c
  BY <1>1 DEF RemoveAt, Promoted
<1>5. h \in Seq(S) /\ Len(h) = 1 /\ h[1] = s[i]
  BY <1>1
<1> HIDE DEF a, b, c, h, f
<1>6. /\ c \in Seq(S) /\ Len(c) = n - 1
      /\ \A j \in 1..(n - 1) : c[j] = IF j <= i - 1 THEN s[j] ELSE s[j + 1]
  <2>1. /\ c \in Seq(S) /\ Len(c) = Len(a) + Len(b)
        /\ \A j \in 1..(Len(a) + Len(b)) : c[j] = IF j <= Len(a) THEN a[j] ELSE b[j - Len(a)]
    BY <1>2, <1>3, ConcatProperties DEF c
  <2>2. Len(a) + Len(b) = n - 1
    BY <1>1, <1>2, <1>3
  <2>3. ASSUME NEW j \in 1..(n - 1)
        PROVE  c[j] = IF j <= i - 1 THEN s[j] ELSE s[j + 1]
    <3>1. c[j] = IF j <= i - 1 THEN a[j] ELSE b[j - (i - 1)]
      BY <1>2, <2>1, <2>2
    <3>2. j <= i - 1 => a[j] = s[j]
      BY <1>1, <1>2
    <3>3. j > i - 1 => b[j - (i - 1)] = s[j + 1]
      <4> SUFFICES ASSUME j > i - 1 PROVE b[j - (i - 1)] = s[j + 1]
        OBVIOUS
      <4>1. j - (i - 1) \in 1..(n - i) /\ i + (j - (i - 1)) = j + 1
        BY <1>1
      <4> QED BY <1>3, <4>1
    <3> QED BY <1>1, <3>1, <3>2, <3>3
  <2> QED BY <2>1, <2>2, <2>3
<1>7. /\ f \in Seq(S) /\ Len(f) = 1 + (n - 1)
      /\ \A j \in 1..(1 + (n - 1)) : f[j] = IF j <= 1 THEN h[j] ELSE c[j - 1]
  <2>1. /\ h \o c \in Seq(S) /\ Len(h \o c) = Len(h) + Len(c)
        /\ \A j \in 1..(Len(h) + Len(c)) :
              (h \o c)[j] = IF j <= Len(h) THEN h[j] ELSE c[j - Len(h)]
    BY <1>5, <1>6, ConcatProperties
  <2> QED BY <1>4, <1>5, <1>6, <2>1
<1>8. 1 + (n - 1) = n
  BY <1>1
<1>9. Len(f) = n /\ DOMAIN f = DOMAIN s
  <2>1. Len(f) = n
    BY <1>7, <1>8
  <2>2. DOMAIN f = 1..Len(f)
    BY <1>7, LenProperties
  <2> QED BY <1>1, <2>1, <2>2
<1>10. ASSUME NEW j \in 1..n
       PROVE  f[j] = s[IF j = 1 THEN i ELSE IF j <= i THEN j - 1 ELSE j]
  <2>1. f[j] = IF j <= 1 THEN h[j] ELSE c[j - 1]
    BY <1>7, <1>8
  <2>2. CASE j = 1
    BY <1>5, <2>1, <2>2
  <2>3. CASE j # 1
    <3>1. j - 1 \in 1..(n - 1) /\ (j - 1) + 1 = j /\ (j - 1 <= i - 1 <=> j <= i) /\ ~(j <= 1)
      BY <1>1, <2>3
    <3>2. c[j - 1] = IF j - 1 <= i - 1 THEN s[j - 1] ELSE s[(j - 1) + 1]
      BY <1>6, <3>1
    <3> QED BY <2>1, <2>3, <3>1, <3>2
  <2> QED BY <2>2, <2>3
<1> QED BY <1>1, <1>7, <1>9, <1>10 DEF f

\* The place a key leads to.
LEMMA Found ==
    ASSUME CacheInv, NEW key \in DOMAIN cache_map
    PROVE  LET i == Place(cache_map[key])
           IN  /\ i \in DOMAIN cache_list
               /\ cache_list[i].node = cache_map[key] /\ cache_list[i].key = key
<1>1. PICK i \in DOMAIN cache_list : cache_list[i].node = cache_map[key] /\ cache_list[i].key = key
  BY DEF CacheInv
<1>2. /\ Place(cache_map[key]) \in DOMAIN cache_list
      /\ cache_list[Place(cache_map[key])].node = cache_map[key]
  BY <1>1 DEF Place
<1>3. Place(cache_map[key]) = i
  BY <1>1, <1>2 DEF CacheInv
<1> QED BY <1>1, <1>3

\* What AnswerInv says of the cache.
Answers == \A i \in DOMAIN cache_list : KeyOf[cache_list[i].answer] = cache_list[i].key

\* A hit moves the node to the front and answers a prompt of its key.
LEMMA HitKeeps ==
    ASSUME TypeOK, CacheInv, Answers, NEW key, Hit(key)
    PROVE  /\ CacheInv' /\ Answers' /\ cache_list' \in Seq(Entries)
           /\ Cached(key) \in Prompts /\ KeyOf[Cached(key)] = key
<1> DEFINE i == Place(cache_map[key])
<1>1. /\ key \in DOMAIN cache_map
      /\ i \in DOMAIN cache_list /\ cache_list[i].node = cache_map[key] /\ cache_list[i].key = key
      /\ cache_list \in Seq(Entries) /\ cache_map' = cache_map
  BY Found DEF Hit, TypeOK, CacheTypeOK
<1>2. /\ cache_list' \in Seq(Entries) /\ Len(cache_list') = Len(cache_list)
      /\ DOMAIN cache_list' = DOMAIN cache_list /\ DOMAIN cache_list = 1..Len(cache_list)
      /\ \A j \in DOMAIN cache_list :
            cache_list'[j] = cache_list[IF j = 1 THEN i ELSE IF j <= i THEN j - 1 ELSE j]
  <2>1. cache_list' = <<cache_list[i]>> \o RemoveAt(cache_list, i) /\ i \in 1..Len(cache_list)
        /\ DOMAIN cache_list = 1..Len(cache_list)
    BY <1>1 DEF Hit
  <2>2. cache_list \in Seq(Entries)
    BY <1>1
  <2>3. cache_list' = Promoted(cache_list, i)
    BY <2>1 DEF Promoted
  <2> HIDE DEF i
  <2>4. /\ Promoted(cache_list, i) \in Seq(Entries)
        /\ Len(Promoted(cache_list, i)) = Len(cache_list)
        /\ DOMAIN Promoted(cache_list, i) = DOMAIN cache_list
        /\ \A j \in DOMAIN cache_list : Promoted(cache_list, i)[j] =
              cache_list[IF j = 1 THEN i ELSE IF j <= i THEN j - 1 ELSE j]
    BY <2>1, <2>2, FrontFacts
  <2> QED BY <2>1, <2>3, <2>4
<1> HIDE DEF i
<1>3. Len(cache_list') <= max_entries
  BY <1>2 DEF CacheInv
<1>4. ASSUME NEW j \in DOMAIN cache_list', NEW k \in DOMAIN cache_list',
             cache_list'[j].node = cache_list'[k].node
      PROVE  j = k
  <2> DEFINE from(n) == IF n = 1 THEN i ELSE IF n <= i THEN n - 1 ELSE n
  <2>1. from(j) \in DOMAIN cache_list /\ from(k) \in DOMAIN cache_list
    BY <1>1, <1>2, <1>4
  <2>2. from(j) = from(k)
    BY <1>2, <1>4, <2>1 DEF CacheInv
  <2> QED BY <1>1, <1>2, <1>4, <2>2
<1>5. ASSUME NEW k \in DOMAIN cache_map
      PROVE  \E j \in DOMAIN cache_list' : cache_list'[j].node = cache_map[k] /\ cache_list'[j].key = k
  <2>1. PICK j \in DOMAIN cache_list : cache_list[j].node = cache_map[k] /\ cache_list[j].key = k
    BY DEF CacheInv
  <2>2. \E n \in DOMAIN cache_list' : cache_list'[n] = cache_list[j]
    <3>1. CASE j = i
      BY <1>1, <1>2, <3>1
    <3>2. CASE j < i
      <4>1. j + 1 \in DOMAIN cache_list' /\ cache_list'[j + 1] = cache_list[j]
        BY <1>1, <1>2, <3>2
      <4> QED BY <4>1
    <3>3. CASE j > i
      BY <1>1, <1>2, <3>3
    <3> QED BY <1>1, <1>2, <3>1, <3>2, <3>3
  <2> QED BY <2>1, <2>2
<1>6. CacheInv'
  BY <1>1, <1>3, <1>4, <1>5 DEF CacheInv
<1>7. Answers'
  BY <1>1, <1>2 DEF Answers
<1>8. Cached(key) \in Prompts /\ KeyOf[Cached(key)] = key
  <2>1. cache_list[i] \in Entries /\ Cached(key) = cache_list[i].answer
    BY <1>1, ElementOfSeq DEF Cached, i
  <2> QED BY <1>1, <2>1 DEF Entries, Answers
<1> QED BY <1>2, <1>6, <1>7, <1>8

\* There are more numbers than nodes.
LEMMA FreshFacts ==
    ASSUME TypeOK, CacheInv
    PROVE  FreshNode \in Nat /\ FreshNode \notin Nodes \cup Mapped
<1> DEFINE L == Len(cache_list)
           M == Cardinality(DOMAIN cache_map)
           Numbers == 1..(L + M + 1)
<1>1. L \in Nat /\ M \in Nat /\ DOMAIN cache_list = 1..L
  BY FS_CardinalityType DEF TypeOK, CacheTypeOK
<1>2. Mapped \subseteq Nodes
  BY DEF Mapped, Nodes, CacheInv
<1>3. IsFiniteSet(Nodes) /\ Cardinality(Nodes) <= L
  <2> DEFINE f == [i \in 1..L |-> cache_list[i].node]
  <2>1. f \in Surjection(1..L, Nodes)
    BY <1>1 DEF Surjection, Nodes
  <2>2. IsFiniteSet(1..L) /\ Cardinality(1..L) = L
    <3>1. 1 \in Int /\ L \in Int
      BY <1>1
    <3>2. /\ IsFiniteSet(1..L)
          /\ Cardinality(1..L) = IF 1 > L THEN 0 ELSE L - 1 + 1
      BY <3>1, FS_Interval
    <3> QED BY <1>1, <3>2
  <2> QED BY <2>1, <2>2, FS_Surjection
<1>4. IsFiniteSet(Numbers) /\ Cardinality(Numbers) = L + M + 1
  <2>1. 1 \in Int /\ L + M + 1 \in Int
    BY <1>1
  <2>2. /\ IsFiniteSet(Numbers)
        /\ Cardinality(Numbers) = IF 1 > L + M + 1 THEN 0 ELSE (L + M + 1) - 1 + 1
    BY <2>1, FS_Interval
  <2> QED BY <1>1, <2>2
<1>5. ~(Numbers \subseteq Nodes)
  <2> SUFFICES ASSUME Numbers \subseteq Nodes PROVE FALSE
    OBVIOUS
  <2>1. Cardinality(Numbers) <= Cardinality(Nodes)
    BY <1>3, FS_Subset
  <2>2. Cardinality(Nodes) \in Nat
    BY <1>3, FS_CardinalityType
  <2> QED BY <1>1, <1>3, <1>4, <2>1, <2>2
<1>6. \E n \in Numbers : n \notin Nodes \cup Mapped
  BY <1>2, <1>5
<1>7. FreshNode \in Numbers /\ FreshNode \notin Nodes \cup Mapped
  BY <1>6 DEF FreshNode
<1> QED BY <1>1, <1>7

\* An element in front of the first n of a sequence.
Led(e, s, n) == <<e>> \o SubSeq(s, 1, n)

\* That element is the first, and the others follow.
LEMMA LedFacts ==
    ASSUME NEW S, NEW s \in Seq(S), NEW e \in S, NEW n \in 0..Len(s)
    PROVE  /\ Led(e, s, n) \in Seq(S) /\ Len(Led(e, s, n)) = n + 1
           /\ DOMAIN Led(e, s, n) = 1..(n + 1)
           /\ Led(e, s, n)[1] = e
           /\ \A j \in 1..n : Led(e, s, n)[j + 1] = s[j]
<1> DEFINE a == SubSeq(s, 1, n)
           h == <<e>>
           f == Led(e, s, n)
<1>1. n \in Int /\ 0 <= n /\ n <= Len(s) /\ 1 \in Int
  OBVIOUS
<1>2. a \in Seq(S) /\ Len(a) = n /\ \A j \in 1..n : a[j] = s[j]
  <2>1. /\ a \in Seq(S) /\ Len(a) = n - 1 + 1
        /\ \A j \in 1..(n - 1 + 1) : a[j] = s[1 + j - 1]
    BY <1>1, Cut
  <2>2. n - 1 + 1 = n /\ \A j \in Int : 1 + j - 1 = j
    BY <1>1
  <2> QED BY <2>1, <2>2
<1>3. h \in Seq(S) /\ Len(h) = 1 /\ h[1] = e
  OBVIOUS
<1>4. f = h \o a
  BY DEF Led
<1> HIDE DEF a, h, f
<1>5. /\ f \in Seq(S) /\ Len(f) = Len(h) + Len(a)
      /\ \A j \in 1..(Len(h) + Len(a)) : f[j] = IF j <= Len(h) THEN h[j] ELSE a[j - Len(h)]
  <2>1. /\ h \o a \in Seq(S) /\ Len(h \o a) = Len(h) + Len(a)
        /\ \A j \in 1..(Len(h) + Len(a)) :
              (h \o a)[j] = IF j <= Len(h) THEN h[j] ELSE a[j - Len(h)]
    BY <1>2, <1>3, ConcatProperties
  <2> QED BY <1>4, <2>1
<1>6. Len(h) + Len(a) = n + 1
  BY <1>1, <1>2, <1>3
<1>7. DOMAIN f = 1..(n + 1)
  BY <1>5, <1>6, LenProperties
<1>8. f[1] = e
  BY <1>1, <1>3, <1>5, <1>6
<1>9. ASSUME NEW j \in 1..n
      PROVE  f[j + 1] = s[j]
  <2>1. j + 1 \in 1..(n + 1) /\ ~(j + 1 <= 1) /\ j + 1 - 1 = j
    BY <1>1
  <2>2. f[j + 1] = a[j + 1 - 1]
    BY <1>3, <1>5, <1>6, <2>1
  <2> QED BY <1>2, <2>1, <2>2
<1> QED BY <1>5, <1>6, <1>7, <1>8, <1>9 DEF f

\* Storing an answer keeps list and map in step, whether the key is there (a
\* miss that overlapped stored it first), the cache is full or neither.
LEMMA InsertKeeps ==
    ASSUME TypeOK, CacheInv, Answers, NEW key, NEW answer \in Prompts,
           KeyOf[answer] = key, Insert(key, answer)
    PROVE  /\ CacheInv' /\ Answers' /\ cache_list' \in Seq(Entries)
           /\ cache_map' \in [DOMAIN cache_map' -> Nat] /\ IsFiniteSet(DOMAIN cache_map')
<1> DEFINE e == [node |-> FreshNode, key |-> key, answer |-> answer]
           n == Staying
           Kept == DOMAIN Remembered
<1>1. FreshNode \in Nat /\ FreshNode \notin Nodes \cup Mapped
  BY FreshFacts
<1>2. e \in Entries /\ cache_list \in Seq(Entries) /\ Len(cache_list) \in Nat
      /\ DOMAIN cache_list = 1..Len(cache_list) /\ IsFiniteSet(DOMAIN cache_map)
  BY <1>1 DEF Entries, TypeOK, CacheTypeOK
<1>3. n \in 0..Len(cache_list) /\ n \in Nat /\ n + 1 <= max_entries
  BY <1>2, ResponseCacheAssumption DEF Staying
<1>4. cache_list' = Led(e, cache_list, n)
  BY DEF Insert, Led
<1>5. /\ Kept \subseteq DOMAIN cache_map
      /\ \A k \in Kept : /\ Remembered[k] = cache_map[k]
                         /\ \A i \in (n + 1)..Len(cache_list) : cache_list[i].key # k
  BY DEF Remembered
<1>6. /\ DOMAIN cache_map' = Kept \cup {key}
      /\ cache_map'[key] = FreshNode
      /\ \A k \in Kept \ {key} : cache_map'[k] = cache_map[k]
  <2>1. cache_map' = [k \in Kept \cup {key} |-> IF k = key THEN FreshNode ELSE Remembered[k]]
    BY DEF Insert
  <2> HIDE DEF Kept
  <2> QED BY <1>5, <2>1
<1>7. cache_map' = [k \in DOMAIN cache_map' |-> cache_map'[k]]
  BY <1>6 DEF Insert
<1>8. e.node = FreshNode /\ e.key = key /\ e.answer = answer
  OBVIOUS
<1> HIDE DEF e, n, Kept
<1>9. /\ Led(e, cache_list, n) \in Seq(Entries) /\ Len(Led(e, cache_list, n)) = n + 1
      /\ DOMAIN Led(e, cache_list, n) = 1..(n + 1)
      /\ Led(e, cache_list, n)[1] = e
      /\ \A j \in 1..n : Led(e, cache_list, n)[j + 1] = cache_list[j]
  <2>1. e \in Entries /\ cache_list \in Seq(Entries) /\ n \in 0..Len(cache_list)
    BY <1>2, <1>3
  <2>2. Led(e, cache_list, n) \in Seq(Entries)
    BY <2>1, LedFacts
  <2>3. Len(Led(e, cache_list, n)) = n + 1 /\ DOMAIN Led(e, cache_list, n) = 1..(n + 1)
    BY <2>1, LedFacts
  <2>4. Led(e, cache_list, n)[1] = e
    BY <2>1, LedFacts
  <2>5. \A j \in 1..n : Led(e, cache_list, n)[j + 1] = cache_list[j]
    BY <2>1, LedFacts
  <2> QED BY <2>2, <2>3, <2>4, <2>5
<1>10. /\ cache_list' \in Seq(Entries) /\ Len(cache_list') = n + 1
       /\ DOMAIN cache_list' = 1..(n + 1)
       /\ cache_list'[1] = e
       /\ \A j \in 1..n : cache_list'[j + 1] = cache_list[j]
  BY <1>4, <1>9
<1>11. \A j \in 1..(n + 1) : j # 1 => /\ j - 1 \in 1..n /\ j - 1 \in DOMAIN cache_list
                                      /\ cache_list'[j] = cache_list[j - 1]
  <2> TAKE j \in 1..(n + 1)
  <2> SUFFICES ASSUME j # 1
               PROVE  j - 1 \in 1..n /\ j - 1 \in DOMAIN cache_list
                      /\ cache_list'[j] = cache_list[j - 1]
    OBVIOUS
  <2>1. j - 1 \in 1..n /\ j - 1 \in 1..Len(cache_list) /\ (j - 1) + 1 = j
    BY <1>2, <1>3
  <2> QED BY <1>2, <1>10, <2>1
<1>12. \A i \in DOMAIN cache_list : cache_list[i].node # FreshNode
  BY <1>1 DEF Nodes
<1>13. ASSUME NEW j \in DOMAIN cache_list', NEW k \in DOMAIN cache_list',
              cache_list'[j].node = cache_list'[k].node
       PROVE  j = k
  <2>1. CASE j = 1 \/ k = 1
    BY <1>8, <1>10, <1>11, <1>12, <1>13, <2>1
  <2>2. CASE j # 1 /\ k # 1
    <3>1. j - 1 = k - 1
      BY <1>10, <1>11, <1>13, <2>2 DEF CacheInv
    <3> QED BY <1>3, <1>10, <3>1
  <2> QED BY <2>1, <2>2
<1>14. ASSUME NEW k \in DOMAIN cache_map'
       PROVE  \E j \in DOMAIN cache_list' : cache_list'[j].node = cache_map'[k] /\ cache_list'[j].key = k
  <2>1. CASE k = key
    <3>1. 1 \in DOMAIN cache_list'
      BY <1>3, <1>10
    <3> QED BY <1>6, <1>8, <1>10, <2>1, <3>1
  <2>2. CASE k # key
    <3>1. k \in Kept /\ k \in DOMAIN cache_map /\ cache_map'[k] = cache_map[k]
      BY <1>5, <1>6, <2>2
    <3>2. PICK i \in DOMAIN cache_list : cache_list[i].node = cache_map[k] /\ cache_list[i].key = k
      BY <3>1 DEF CacheInv
    <3>3. i \in 1..n
      BY <1>2, <1>3, <1>5, <3>1, <3>2
    <3>4. i + 1 \in DOMAIN cache_list' /\ cache_list'[i + 1] = cache_list[i]
      BY <1>3, <1>10, <3>3
    <3> QED BY <3>1, <3>2, <3>4
  <2> QED BY <2>1, <2>2
<1>15. CacheInv'
  BY <1>3, <1>10, <1>13, <1>14 DEF CacheInv
<1>16. Answers'
  BY <1>8, <1>10, <1>11 DEF Answers
<1>17. cache_map' \in [DOMAIN cache_map' -> Nat]
  <2>1. \A k \in DOMAIN cache_map' : cache_map'[k] \in Nat
    BY <1>1, <1>5, <1>6 DEF TypeOK, CacheTypeOK
  <2> QED BY <1>7, <2>1
<1>18. IsFiniteSet(DOMAIN cache_map')
  <2>1. IsFiniteSet(Kept)
    BY <1>2, <1>5, FS_Subset
  <2> QED BY <1>6, <2>1, FS_AddElement
<1> QED BY <1>10, <1>15, <1>16, <1>17, <1>18

-----------------------------------------------------------------------------
(* Calls *)

\* What is left to show of a call's step when the frame is taken off.
CallSide == /\ CallTypeOK /\ LimiterTypeOK /\ CacheTypeOK
            /\ CacheInv /\ LimiterInv /\ RetryInv /\ AnswerInv

\* A step of a call keeps the invariant when it keeps that.
LEMMA CallKeeps ==
    ASSUME IInv, CallStep, NEW t \in Threads, role[t] = "call",
           NEW to \in Stations["call"], pc' = [pc EXCEPT ![t] = to], CallSide'
    PROVE  IInv'
<1>1. /\ role' \in [Threads -> DOMAIN Begins] /\ pc' \in [Threads -> PCs] /\ Course'
      /\ CancelTypeOK' /\ BatchTypeOK'
      /\ TokenInv' /\ BatchInv' /\ CallbacksOnce' /\ BatchFinal'
  BY CallFrame
<1>2. TypeOK'
  BY <1>1 DEF CallSide, TypeOK
<1> QED BY <1>1, <1>2 DEF CallSide, IInv, StackInv

\* Fields of the invariant that a step of a call starts from.
LEMMA CallStart ==
    ASSUME IInv, NEW t \in Threads,
           pc[t] \in {"limit", "look", "asking", "store", "record", "caught"}
    PROVE  /\ role[t] = "call" /\ pc \in [Threads -> PCs]
           /\ CallTypeOK /\ LimiterTypeOK /\ CacheTypeOK /\ TypeOK
           /\ CacheInv /\ LimiterInv /\ RetryInv /\ AnswerInv
BY ByRole DEF IInv, StackInv, TypeOK

\* The limiter lets a call in, waits, or starts a new window.
LEMMA AcquireKeeps ==
    ASSUME IInv, NEW t \in Threads, Acquire(t)
    PROVE  IInv'
<1>1. /\ role[t] = "call" /\ pc \in [Threads -> PCs]
      /\ CallTypeOK /\ LimiterTypeOK /\ CacheTypeOK /\ TypeOK
      /\ CacheInv /\ LimiterInv /\ RetryInv /\ AnswerInv
  BY CallStart DEF Acquire, Goes
<1>2. pc' = [pc EXCEPT ![t] = "look"] /\ "look" \in Stations["call"] /\ CallStep
      /\ pc[t] = "limit" /\ UNCHANGED callVars /\ UNCHANGED cacheVars /\ role' = role
  BY DEF Acquire, Goes, Stations, CallStep
<1>3. pc'[t] = "look" /\ \A u \in Threads \ {t} : pc'[u] = pc[u]
  BY <1>1, <1>2
<1>4. CallTypeOK' /\ CacheTypeOK' /\ CacheInv'
  BY <1>1, <1>2 DEF callVars, cacheVars, CallTypeOK, CacheTypeOK, CacheInv
<1>5. minute_over' \in BOOLEAN
  BY DEF Acquire, LimiterAcquire
<1>6. /\ request_count' \in 0..max_requests_per_minute /\ request_count' \in Nat
      /\ token_count' \in Nat /\ token_count' < max_tokens_per_minute
  BY <1>1, RateLimiterAssumption DEF Acquire, LimiterAcquire, Requests, Tokens, LimiterTypeOK
<1>7. InFlight' = InFlight \cup {t}
  BY <1>3 DEF InFlight
<1>8. LimiterTypeOK' /\ LimiterInv'
  BY <1>1, <1>5, <1>6, <1>7, LetIn DEF LimiterTypeOK
<1>9. RetryInv'
  BY <1>1, <1>2, <1>3 DEF callVars, RetryInv
<1>10. AnswerInv'
  BY <1>1, <1>2, <1>3 DEF callVars, cacheVars, AnswerInv
<1> QED BY <1>1, <1>2, <1>4, <1>8, <1>9, <1>10, CallKeeps DEF CallSide

\* A call finds its answer in the cache.
LEMMA FindKeeps ==
    ASSUME IInv, NEW t \in Threads, Find(t)
    PROVE  IInv'
<1>1. /\ role[t] = "call" /\ pc \in [Threads -> PCs]
      /\ CallTypeOK /\ LimiterTypeOK /\ CacheTypeOK /\ TypeOK
      /\ CacheInv /\ LimiterInv /\ RetryInv /\ AnswerInv
  BY CallStart DEF Find, Goes
<1>2. pc' = [pc EXCEPT ![t] = "record"] /\ "record" \in Stations["call"] /\ CallStep
      /\ pc[t] = "look" /\ UNCHANGED <<want, attempt, error, calls>> /\ UNCHANGED limiterVars /\ role' = role
  BY DEF Find, Goes, Stations, CallStep
<1>3. pc'[t] = "record" /\ \A u \in Threads \ {t} : pc'[u] = pc[u]
  BY <1>1, <1>2
<1> DEFINE key == KeyOf[want[t]]
<1>4. Hit(key) /\ Answers /\ cache_map' = cache_map
  BY <1>1 DEF Find, Hit, AnswerInv, Answers
<1> HIDE DEF key
<1>5. /\ CacheInv' /\ Answers' /\ cache_list' \in Seq(Entries)
      /\ Cached(key) \in Prompts /\ KeyOf[Cached(key)] = key
  BY <1>1, <1>4, HitKeeps
<1>6. got' = [got EXCEPT ![t] = Cached(key)]
  BY DEF Find, key
<1>7. CallTypeOK' /\ CacheTypeOK'
  BY <1>1, <1>2, <1>4, <1>5, <1>6 DEF CallTypeOK, CacheTypeOK
<1>8. LimiterTypeOK'
  BY <1>1, <1>2 DEF limiterVars, LimiterTypeOK
<1>9. LimiterInv'
  <2>1. InFlight' = InFlight
    BY <1>2, <1>3 DEF InFlight
  <2> QED BY <1>1, <1>2, <2>1, LetGo DEF limiterVars
<1>10. RetryInv'
  BY <1>1, <1>2, <1>3 DEF RetryInv
<1>11. AnswerInv'
  <2>1. got'[t] = Cached(key) /\ \A u \in Threads \ {t} : got'[u] = got[u]
    BY <1>1, <1>6 DEF CallTypeOK
  <2> QED BY <1>1, <1>2, <1>3, <1>5, <2>1 DEF AnswerInv, Answers, key
<1> QED BY <1>1, <1>2, <1>5, <1>7, <1>8, <1>9, <1>10, <1>11, CallKeeps DEF CallSide

\* A call does not find it and asks the provider.
LEMMA MissKeeps ==
    ASSUME IInv, NEW t \in Threads, Miss(t)
    PROVE  IInv'
<1>1. /\ role[t] = "call" /\ pc \in [Threads -> PCs]
      /\ CallTypeOK /\ LimiterTypeOK /\ CacheTypeOK /\ TypeOK
      /\ CacheInv /\ LimiterInv /\ RetryInv /\ AnswerInv
  BY CallStart DEF Miss, Goes
<1>2. pc' = [pc EXCEPT ![t] = "asking"] /\ "asking" \in Stations["call"] /\ CallStep /\ pc[t] = "look"
      /\ UNCHANGED callVars /\ UNCHANGED limiterVars /\ UNCHANGED cacheVars /\ role' = role
  BY DEF Miss, Goes, Stations, CallStep
<1>3. pc'[t] = "asking" /\ \A u \in Threads \ {t} : pc'[u] = pc[u]
  BY <1>1, <1>2
<1>4. CallTypeOK' /\ CacheTypeOK' /\ CacheInv'
  BY <1>1, <1>2 DEF callVars, cacheVars, CallTypeOK, CacheTypeOK, CacheInv
<1>5. LimiterTypeOK'
  BY <1>1, <1>2 DEF limiterVars, LimiterTypeOK
<1>6. LimiterInv'
  <2>1. InFlight' = InFlight
    BY <1>2, <1>3 DEF InFlight
  <2> QED BY <1>1, <1>2, <2>1, LetGo DEF limiterVars
<1>7. RetryInv' /\ AnswerInv'
  BY <1>1, <1>2, <1>3 DEF callVars, cacheVars, RetryInv, AnswerInv
<1> QED BY <1>1, <1>2, <1>4, <1>5, <1>6, <1>7, CallKeeps DEF CallSide

\* The provider answers.
LEMMA AnswerKeeps ==
    ASSUME IInv, NEW t \in Threads, Answer(t)
    PROVE  IInv'
<1>1. /\ role[t] = "call" /\ pc \in [Threads -> PCs]
      /\ CallTypeOK /\ LimiterTypeOK /\ CacheTypeOK /\ TypeOK
      /\ CacheInv /\ LimiterInv /\ RetryInv /\ AnswerInv
  BY CallStart DEF Answer, Goes
<1>2. pc' = [pc EXCEPT ![t] = "store"] /\ "store" \in Stations["call"] /\ CallStep /\ pc[t] = "asking"
      /\ got' = [got EXCEPT ![t] = want[t]] /\ UNCHANGED <<want, attempt, error, calls>>
      /\ UNCHANGED limiterVars /\ UNCHANGED cacheVars /\ role' = role
  BY DEF Answer, Goes, Stations, CallStep
<1>3. /\ pc'[t] = "store" /\ \A u \in Threads \ {t} : pc'[u] = pc[u]
      /\ got'[t] = want[t] /\ \A u \in Threads \ {t} : got'[u] = got[u]
  BY <1>1, <1>2 DEF CallTypeOK
<1>4. CallTypeOK' /\ CacheTypeOK' /\ CacheInv'
  BY <1>1, <1>2 DEF cacheVars, CallTypeOK, CacheTypeOK, CacheInv
<1>5. LimiterTypeOK'
  BY <1>1, <1>2 DEF limiterVars, LimiterTypeOK
<1>6. LimiterInv'
  <2>1. InFlight' = InFlight
    BY <1>2, <1>3 DEF InFlight
  <2> QED BY <1>1, <1>2, <2>1, LetGo DEF limiterVars
<1>7. RetryInv' /\ AnswerInv'
  BY <1>1, <1>2, <1>3 DEF cacheVars, RetryInv, AnswerInv
<1> QED BY <1>1, <1>2, <1>4, <1>5, <1>6, <1>7, CallKeeps DEF CallSide

\* The provider fails, with one error or another.
LEMMA FailKeeps ==
    ASSUME IInv, NEW t \in Threads, Fail(t)
    PROVE  IInv'
<1>1. /\ role[t] = "call" /\ pc \in [Threads -> PCs]
      /\ CallTypeOK /\ LimiterTypeOK /\ CacheTypeOK /\ TypeOK
      /\ CacheInv /\ LimiterInv /\ RetryInv /\ AnswerInv
  BY CallStart DEF Fail, Goes
<1>2. pc' = [pc EXCEPT ![t] = "caught"] /\ "caught" \in Stations["call"] /\ CallStep /\ pc[t] = "asking"
      /\ (\E e \in Errors : error' = [error EXCEPT ![t] = e]) /\ UNCHANGED <<want, got, attempt, calls>>
      /\ UNCHANGED limiterVars /\ UNCHANGED cacheVars /\ role' = role
  BY DEF Fail, Goes, Stations, CallStep
<1>3. /\ pc'[t] = "caught" /\ \A u \in Threads \ {t} : pc'[u] = pc[u] /\ error'[u] = error[u]
  BY <1>1, <1>2 DEF CallTypeOK
<1>4. CallTypeOK' /\ CacheTypeOK' /\ CacheInv'
  BY <1>1, <1>2 DEF cacheVars, CallTypeOK, CacheTypeOK, CacheInv
<1>5. LimiterTypeOK'
  BY <1>1, <1>2 DEF limiterVars, LimiterTypeOK
<1>6. LimiterInv'
  <2>1. InFlight' \subseteq InFlight
    BY <1>2, <1>3 DEF InFlight
  <2> QED BY <1>1, <1>2, <2>1, LetGo DEF limiterVars
<1>7. RetryInv' /\ AnswerInv'
  BY <1>1, <1>2, <1>3 DEF cacheVars, RetryInv, AnswerInv
<1> QED BY <1>1, <1>2, <1>4, <1>5, <1>6, <1>7, CallKeeps DEF CallSide

\* A call that had missed stores its answer.
LEMMA StoreKeeps ==
    ASSUME IInv, NEW t \in Threads, Store(t)
    PROVE  IInv'
<1>1. /\ role[t] = "call" /\ pc \in [Threads -> PCs]
      /\ CallTypeOK /\ LimiterTypeOK /\ CacheTypeOK /\ TypeOK
      /\ CacheInv /\ LimiterInv /\ RetryInv /\ AnswerInv
  BY CallStart DEF Store, Goes
<1>2. pc' = [pc EXCEPT ![t] = "record"] /\ "record" \in Stations["call"] /\ CallStep /\ pc[t] = "store"
      /\ Insert(KeyOf[want[t]], got[t]) /\ UNCHANGED callVars /\ UNCHANGED limiterVars /\ role' = role
  BY DEF Store, Goes, Stations, CallStep
<1>3. pc'[t] = "record" /\ \A u \in Threads \ {t} : pc'[u] = pc[u]
  BY <1>1, <1>2
<1>4. got[t] = want[t] /\ got[t] \in Prompts /\ Answers
  BY <1>1, <1>2 DEF AnswerInv, Answers, CallTypeOK
<1>5. /\ CacheInv' /\ Answers' /\ cache_list' \in Seq(Entries)
      /\ cache_map' \in [DOMAIN cache_map' -> Nat] /\ IsFiniteSet(DOMAIN cache_map')
  BY <1>1, <1>2, <1>4, InsertKeeps
<1>6. CallTypeOK' /\ CacheTypeOK'
  BY <1>1, <1>2, <1>5 DEF callVars, CallTypeOK, CacheTypeOK
<1>7. LimiterTypeOK'
  BY <1>1, <1>2 DEF limiterVars, LimiterTypeOK
<1>8. LimiterInv'
  <2>1. InFlight' = InFlight
    BY <1>2, <1>3 DEF InFlight
  <2> QED BY <1>1, <1>2, <2>1, LetGo DEF limiterVars
<1>9. RetryInv' /\ AnswerInv'
  BY <1>1, <1>2, <1>3, <1>4, <1>5 DEF callVars, RetryInv, AnswerInv, Answers
<1> QED BY <1>1, <1>2, <1>5, <1>6, <1>7, <1>8, <1>9, CallKeeps DEF CallSide

\* A caught error is thrown again, or leads to the next attempt.
LEMMA RethrowKeeps ==
    ASSUME IInv, NEW t \in Threads, Rethrow(t)
    PROVE  IInv'
<1>1. /\ role[t] = "call" /\ pc \in [Threads -> PCs]
      /\ CallTypeOK /\ LimiterTypeOK /\ CacheTypeOK /\ TypeOK
      /\ CacheInv /\ LimiterInv /\ RetryInv /\ AnswerInv
  BY CallStart DEF Rethrow
<1>2. /\ CallStep /\ pc[t] = "caught" /\ UNCHANGED <<want, got, error, calls>>
      /\ UNCHANGED limiterVars /\ UNCHANGED cacheVars /\ role' = role
  BY DEF Rethrow, CallStep
<1>3. CacheTypeOK' /\ CacheInv'
  BY <1>1, <1>2 DEF cacheVars, CacheTypeOK, CacheInv
<1>4. LimiterTypeOK'
  BY <1>1, <1>2 DEF limiterVars, LimiterTypeOK
<1>5. ASSUME NEW to \in {"failed", "limit"}, pc' = [pc EXCEPT ![t] = to],
             CallTypeOK', RetryInv'
      PROVE  IInv'
  <2>1. pc'[t] = to /\ to \in Stations["call"] /\ \A u \in Threads \ {t} : pc'[u] = pc[u]
    BY <1>1, <1>5 DEF Stations
  <2>2. LimiterInv'
    <3>1. InFlight' \subseteq InFlight
      BY <2>1 DEF InFlight
    <3> QED BY <1>1, <1>2, <3>1, LetGo DEF limiterVars
  <2>3. AnswerInv'
    BY <1>1, <1>2, <2>1 DEF cacheVars, AnswerInv
  <2> QED BY <1>1, <1>2, <1>3, <1>4, <1>5, <2>1, <2>2, <2>3, CallKeeps DEF CallSide
<1>6. CASE attempt[t] >= max_retries \/ error[t] # "retryable"
  <2>1. pc' = [pc EXCEPT ![t] = "failed"] /\ attempt' = attempt
    BY <1>6 DEF Rethrow
  <2>2. CallTypeOK'
    BY <1>1, <1>2, <2>1 DEF CallTypeOK
  <2>3. RetryInv'
    BY <1>1, <1>2, <1>6, <2>1, ModelStackAssumption DEF RetryInv, CallTypeOK
  <2> QED BY <1>5, <2>1, <2>2, <2>3
<1>7. CASE ~(attempt[t] >= max_retries \/ error[t] # "retryable")
  <2>1. pc' = [pc EXCEPT ![t] = "limit"] /\ attempt' = [attempt EXCEPT ![t] = @ + 1]
    BY <1>7 DEF Rethrow
  <2>2. CallTypeOK'
    BY <1>1, <1>2, <2>1 DEF CallTypeOK
  <2>3. /\ attempt[t] \in Nat /\ max_retries \in Nat /\ attempt'[t] = attempt[t] + 1
        /\ attempt'[t] <= max_retries /\ pc'[t] = "limit"
        /\ \A u \in Threads \ {t} : attempt'[u] = attempt[u] /\ pc'[u] = pc[u]
    BY <1>1, <1>7, <2>1, ModelStackAssumption DEF CallTypeOK
  <2>4. RetryInv'
    BY <1>1, <1>2, <2>3 DEF RetryInv
  <2> QED BY <1>5, <2>1, <2>2, <2>4
<1> QED BY <1>6, <1>7

\* A call records the tokens it used, and the thread its next call.
LEMMA RecordKeeps ==
    ASSUME IInv, NEW t \in Threads, Record(t)
    PROVE  IInv'
<1>1. /\ role[t] = "call" /\ pc \in [Threads -> PCs]
      /\ CallTypeOK /\ LimiterTypeOK /\ CacheTypeOK /\ TypeOK
      /\ CacheInv /\ LimiterInv /\ RetryInv /\ AnswerInv
  BY CallStart DEF Record
<1>2. /\ CallStep /\ pc[t] = "record" /\ UNCHANGED cacheVars /\ role' = role
      /\ calls' = [calls EXCEPT ![t] = @ + 1]
      /\ attempt' = [attempt EXCEPT ![t] = 0]
      /\ error' = [error EXCEPT ![t] = "none"]
      /\ got' = [got EXCEPT ![t] = want'[t]]
  BY DEF Record, CallStep
<1>3. PICK n \in 0..MaxUse : RecordUsage(n)
  BY DEF Record
<1>4. PICK to \in {"done", "limit"} : pc' = [pc EXCEPT ![t] = to]
  BY DEF Record
<1>5. PICK p \in Prompts : want' = [want EXCEPT ![t] = p]
  <2>1. CASE calls'[t] = MaxCalls
    <3>1. want' = [want EXCEPT ![t] = want[t]] /\ want[t] \in Prompts
      BY <1>1, <2>1 DEF Record, CallTypeOK
    <3> QED BY <3>1
  <2>2. CASE calls'[t] # MaxCalls
    BY <2>2 DEF Record
  <2> QED BY <2>1, <2>2
<1>6. pc'[t] = to /\ to \in Stations["call"] /\ \A u \in Threads \ {t} : pc'[u] = pc[u]
  BY <1>1, <1>4 DEF Stations
<1>7. CacheTypeOK' /\ CacheInv'
  BY <1>1, <1>2 DEF cacheVars, CacheTypeOK, CacheInv
<1>8. CallTypeOK'
  <2>1. want' \in [Threads -> Prompts] /\ want'[t] \in Prompts
    BY <1>1, <1>5 DEF CallTypeOK
  <2>2. got' \in [Threads -> Prompts]
    BY <1>1, <1>2, <2>1 DEF CallTypeOK
  <2>3. calls' \in [Threads -> Nat] /\ attempt' \in [Threads -> Nat]
    BY <1>1, <1>2 DEF CallTypeOK
  <2>4. error' \in [Threads -> Errors]
    BY <1>1, <1>2 DEF CallTypeOK, Errors
  <2> QED BY <2>1, <2>2, <2>3, <2>4 DEF CallTypeOK
<1>9. minute_over' \in BOOLEAN
  BY <1>1, <1>3 DEF RecordUsage, LimiterTypeOK
<1>10. LimiterTypeOK'
  <2>1. MaxUse \in Nat /\ n \in Nat
    BY ModelStackAssumption
  <2> QED BY <1>1, <1>3, <1>9, <2>1 DEF RecordUsage, LimiterTypeOK
<1>11. LimiterInv'
  <2>1. t \in InFlight /\ InFlight' = InFlight \ {t}
    BY <1>2, <1>6 DEF InFlight
  <2> QED BY <1>1, <1>3, <2>1, Pays DEF RecordUsage
<1>12. RetryInv'
  BY <1>1, <1>2, <1>6, ModelStackAssumption DEF RetryInv, CallTypeOK
<1>13. AnswerInv'
  <2>1. \A u \in Threads \ {t} : got'[u] = got[u] /\ want'[u] = want[u]
    BY <1>1, <1>2, <1>5 DEF CallTypeOK
  <2> QED BY <1>1, <1>2, <1>6, <2>1 DEF cacheVars, AnswerInv
<1> QED BY <1>1, <1>2, <1>4, <1>6, <1>7, <1>8, <1>10, <1>11, <1>12, <1>13, CallKeeps
        DEF CallSide

\* The cache is cleared, whoever is between a miss and its store.
LEMMA ClearKeeps ==
    ASSUME IInv, ClearCache
    PROVE  IInv'
<1>1. PICK t \in Threads : pc[t] \in {"limit", "look", "asking", "store", "record"}
  BY DEF ClearCache
<1>2. /\ role[t] = "call" /\ pc \in [Threads -> PCs]
      /\ CallTypeOK /\ LimiterTypeOK /\ CacheTypeOK /\ TypeOK
      /\ CacheInv /\ LimiterInv /\ RetryInv /\ AnswerInv
  BY <1>1, CallStart
<1>3. /\ CallStep /\ pc' = pc /\ role' = role /\ UNCHANGED callVars /\ UNCHANGED limiterVars
      /\ cache_list' = <<>> /\ cache_map' = [k \in {} |-> 0]
  BY DEF ClearCache, Clear, CallStep
<1>4. pc' = [pc EXCEPT ![t] = pc[t]] /\ pc[t] \in Stations["call"]
  BY <1>1, <1>2, <1>3 DEF Stations
<1>5. CacheTypeOK'
  <2>1. DOMAIN cache_map' = {} /\ IsFiniteSet({}) /\ cache_map' = [k \in {} |-> 0]
    BY <1>3, FS_EmptySet
  <2>2. cache_map' \in [DOMAIN cache_map' -> Nat]
    BY <2>1
  <2> QED BY <1>3, <2>1, <2>2 DEF CacheTypeOK
<1>6. CacheInv'
  BY <1>3, ResponseCacheAssumption DEF CacheInv
<1>7. CallTypeOK' /\ LimiterTypeOK'
  <2>1. CallTypeOK'
    BY <1>2, <1>3 DEF callVars, CallTypeOK
  <2>2. LimiterTypeOK'
    BY <1>2, <1>3 DEF limiterVars, LimiterTypeOK
  <2> QED BY <2>1, <2>2
<1>8. LimiterInv'
  BY <1>2, <1>3 DEF limiterVars, LimiterInv, InFlight
<1>9. RetryInv'
  BY <1>2, <1>3 DEF callVars, RetryInv
<1>10. AnswerInv'
  BY <1>2, <1>3 DEF callVars, AnswerInv
<1> QED BY <1>2, <1>3, <1>4, <1>5, <1>6, <1>7, <1>8, <1>9, <1>10, CallKeeps DEF CallSide

\* A minute passes, whoever is under way.
LEMMA MinuteKeeps ==
    ASSUME IInv, Minute
    PROVE  IInv'
<1>1. PICK t \in Threads : pc[t] \in {"limit", "look", "asking", "store", "record"}
  BY DEF Minute
<1>2. /\ role[t] = "call" /\ pc \in [Threads -> PCs]
      /\ CallTypeOK /\ LimiterTypeOK /\ CacheTypeOK /\ TypeOK
      /\ CacheInv /\ LimiterInv /\ RetryInv /\ AnswerInv
  BY <1>1, CallStart
<1>3. /\ CallStep /\ pc' = pc /\ role' = role /\ UNCHANGED callVars /\ UNCHANGED cacheVars
      /\ UNCHANGED <<request_count, token_count>>
  BY DEF Minute, MinutePasses, CallStep
<1>4. pc' = [pc EXCEPT ![t] = pc[t]] /\ pc[t] \in Stations["call"]
  BY <1>1, <1>2, <1>3 DEF Stations
<1>5. CacheTypeOK' /\ CacheInv' /\ CallTypeOK'
  BY <1>2, <1>3 DEF cacheVars, callVars, CacheTypeOK, CacheInv, CallTypeOK
<1>6. minute_over' \in BOOLEAN
  BY DEF Minute, MinutePasses
<1>7. LimiterTypeOK'
  BY <1>2, <1>3, <1>6 DEF LimiterTypeOK
<1>8. LimiterInv'
  BY <1>2, <1>3 DEF LimiterInv, InFlight
<1>9. RetryInv' /\ AnswerInv'
  BY <1>2, <1>3 DEF callVars, cacheVars, RetryInv, AnswerInv
<1> QED BY <1>2, <1>3, <1>4, <1>5, <1>7, <1>8, <1>9, CallKeeps DEF CallSide

-----------------------------------------------------------------------------
(* The token *)

\* What is left to show of a step of the token when the frame is taken off.
TokenSide == CancelTypeOK /\ TokenInv /\ CallbacksOnce

\* A step of the token keeps the invariant when it keeps the token's part.
LEMMA TokenKeeps ==
    ASSUME IInv, TokenStep, NEW t \in Threads, role[t] \in {"register", "reenter", "cancel"},
           NEW to \in Stations[role[t]], pc' = [pc EXCEPT ![t] = to], TokenSide'
    PROVE  IInv'
<1>1. /\ role' \in [Threads -> DOMAIN Begins] /\ pc' \in [Threads -> PCs] /\ Course'
      /\ CallTypeOK' /\ LimiterTypeOK' /\ CacheTypeOK' /\ BatchTypeOK'
      /\ CacheInv' /\ LimiterInv' /\ RetryInv' /\ AnswerInv' /\ BatchInv' /\ BatchFinal'
  BY TokenFrame
<1>2. TypeOK'
  BY <1>1 DEF TokenSide, TypeOK
<1> QED BY <1>1, <1>2 DEF TokenSide, IInv, StackInv

\* Where the token's steps start from.
LEMMA TokenStart ==
    ASSUME IInv, NEW t \in Threads, pc[t] \in {"locking", "registering", "cancelling", "running"}
    PROVE  /\ role[t] \in {"register", "reenter", "cancel"} /\ pc \in [Threads -> PCs]
           /\ pc[t] = "registering" => role[t] \in {"register", "reenter"}
           /\ pc[t] \in {"cancelling", "running"} => role[t] = "cancel"
           /\ CancelTypeOK /\ TokenInv /\ CallbacksOnce
           /\ NoThread \notin Threads
<1>1. TypeOK /\ Course
  BY DEF IInv, StackInv
<1>2. /\ role[t] \in {"register", "reenter", "cancel"}
      /\ pc[t] = "registering" => role[t] \in {"register", "reenter"}
      /\ pc[t] \in {"cancelling", "running"} => role[t] = "cancel"
  BY <1>1, ByRole
<1> QED BY <1>1, <1>2, ModelStackAssumption DEF IInv, StackInv, TypeOK

\* A step that only moves a thread that is registered neither before nor after.
LEMMA TokenStays ==
    ASSUME CancelTypeOK, TokenInv, CallbacksOnce,
           UNCHANGED <<cancelled, callbacks, cbs, ran>>, token_mutex' \in Threads \cup {NoThread},
           \A u \in Threads : Registered(u)' <=> Registered(u),
           \A u \in Threads : token_mutex' = u <=> pc'[u] \in {"registering", "cancelling", "stuck"},
           \A u \in Threads : cbs[u] # <<>> => pc'[u] = "running"
    PROVE  TokenSide'
<1>1. CancelTypeOK'
  BY DEF CancelTypeOK
<1>2. callbacks \in Seq(Threads) /\ cbs \in [Threads -> Seq(Threads)]
  BY DEF CancelTypeOK
<1>3. /\ \A i \in DOMAIN callbacks : callbacks[i] \in Threads
      /\ \A c \in Threads : \A i \in DOMAIN cbs[c] : cbs[c][i] \in Threads
  BY <1>2
<1>4. TokenInv'
  BY <1>3 DEF TokenInv
<1>5. CallbacksOnce'
  BY DEF CallbacksOnce
<1> QED BY <1>1, <1>4, <1>5 DEF TokenSide

\* A thread takes the mutex of the token.
LEMMA LockKeeps ==
    ASSUME IInv, NEW t \in Threads, Lock(t)
    PROVE  IInv'
<1> DEFINE to == IF role[t] = "cancel" THEN "cancelling" ELSE "registering"
<1>1. pc[t] = "locking" /\ pc' = [pc EXCEPT ![t] = to] /\ TokenStep /\ role' = role
      /\ token_mutex = NoThread /\ token_mutex' = t /\ UNCHANGED <<cancelled, callbacks, cbs, ran>>
  BY DEF Lock, Goes, TokenStep, LockToken
<1>2. /\ role[t] \in {"register", "reenter", "cancel"} /\ pc \in [Threads -> PCs]
      /\ CancelTypeOK /\ TokenInv /\ CallbacksOnce /\ NoThread \notin Threads
  BY <1>1, TokenStart
<1>3. to \in Stations[role[t]] /\ to \in {"registering", "cancelling"}
  BY <1>2 DEF Stations
<1> HIDE DEF to
<1>4. pc'[t] = to /\ \A u \in Threads \ {t} : pc'[u] = pc[u]
  BY <1>1, <1>2
<1>5. \A u \in Threads : Registered(u)' <=> Registered(u)
  BY <1>1, <1>3, <1>4 DEF Registered
<1>6. \A u \in Threads : token_mutex' = u <=> pc'[u] \in {"registering", "cancelling", "stuck"}
  BY <1>1, <1>2, <1>3, <1>4 DEF TokenInv
<1>7. \A u \in Threads : cbs[u] # <<>> => pc'[u] = "running"
  BY <1>1, <1>2, <1>4 DEF TokenInv
<1>8. TokenSide'
  BY <1>1, <1>2, <1>5, <1>6, <1>7, TokenStays
<1> QED BY <1>1, <1>2, <1>3, <1>8, TokenKeeps

\* A callback run under the mutex asks for it again, and is stuck.
LEMMA ReenterKeeps ==
    ASSUME IInv, NEW t \in Threads, Reenter(t)
    PROVE  IInv'
<1>1. pc[t] = "registering" /\ pc' = [pc EXCEPT ![t] = "stuck"] /\ TokenStep /\ role' = role
      /\ role[t] = "reenter" /\ token_mutex = t /\ UNCHANGED cancelVars
  BY DEF Reenter, Goes, TokenStep, ReentersToken
<1>2. /\ role[t] \in {"register", "reenter", "cancel"} /\ pc \in [Threads -> PCs]
      /\ CancelTypeOK /\ TokenInv /\ CallbacksOnce
  BY <1>1, TokenStart
<1>3. "stuck" \in Stations[role[t]]
  BY <1>1 DEF Stations
<1>4. pc'[t] = "stuck" /\ \A u \in Threads \ {t} : pc'[u] = pc[u]
  BY <1>1, <1>2
<1>5. \A u \in Threads : Registered(u)' <=> Registered(u)
  BY <1>1, <1>4 DEF Registered
<1>6. UNCHANGED <<cancelled, callbacks, cbs, ran>> /\ token_mutex' = token_mutex
  BY <1>1 DEF cancelVars
<1>7. \A u \in Threads : token_mutex' = u <=> pc'[u] \in {"registering", "cancelling", "stuck"}
  BY <1>1, <1>2, <1>4, <1>6 DEF TokenInv
<1>8. \A u \in Threads : cbs[u] # <<>> => pc'[u] = "running"
  BY <1>1, <1>2, <1>4 DEF TokenInv
<1>9. TokenSide'
  <2>1. token_mutex' \in Threads \cup {NoThread}
    BY <1>1, <1>6
  <2> QED BY <1>2, <1>5, <1>6, <1>7, <1>8, <2>1, TokenStays
<1> QED BY <1>1, <1>2, <1>3, <1>9, TokenKeeps

\* cancel has run every callback it took.
LEMMA ReturnKeeps ==
    ASSUME IInv, NEW t \in Threads, CancelReturns(t)
    PROVE  IInv'
<1>1. pc[t] = "running" /\ pc' = [pc EXCEPT ![t] = "done"] /\ TokenStep /\ role' = role
      /\ cbs[t] = <<>> /\ UNCHANGED cancelVars
  BY DEF CancelReturns, Goes, TokenStep
<1>2. /\ role[t] = "cancel" /\ pc \in [Threads -> PCs]
      /\ CancelTypeOK /\ TokenInv /\ CallbacksOnce
  BY <1>1, TokenStart
<1>3. "done" \in Stations[role[t]]
  BY <1>2 DEF Stations
<1>4. pc'[t] = "done" /\ \A u \in Threads \ {t} : pc'[u] = pc[u]
  BY <1>1, <1>2
<1>5. \A u \in Threads : Registered(u)' <=> Registered(u)
  BY <1>1, <1>2, <1>4 DEF Registered
<1>6. UNCHANGED <<cancelled, callbacks, cbs, ran>> /\ token_mutex' = token_mutex
  BY <1>1 DEF cancelVars
<1>7. \A u \in Threads : token_mutex' = u <=> pc'[u] \in {"registering", "cancelling", "stuck"}
  BY <1>1, <1>2, <1>4, <1>6 DEF TokenInv
<1>8. \A u \in Threads : cbs[u] # <<>> => pc'[u] = "running"
  BY <1>1, <1>2, <1>4 DEF TokenInv
<1>9. TokenSide'
  <2>1. token_mutex' \in Threads \cup {NoThread}
    BY <1>2, <1>6 DEF CancelTypeOK
  <2> QED BY <1>2, <1>5, <1>6, <1>7, <1>8, <2>1, TokenStays
<1> QED BY <1>1, <1>2, <1>3, <1>9, TokenKeeps

\* on_cancel keeps the callback, or runs it when the token is cancelled.
LEMMA RegisterKeeps ==
    ASSUME IInv, NEW t \in Threads, Register(t)
    PROVE  IInv'
<1>1. pc[t] = "registering" /\ pc' = [pc EXCEPT ![t] = "done"] /\ TokenStep /\ role' = role
      /\ token_mutex = t /\ token_mutex' = NoThread /\ UNCHANGED <<cancelled, cbs>>
  BY DEF Register, Goes, TokenStep, OnCancel
<1>2. /\ role[t] \in {"register", "reenter"} /\ pc \in [Threads -> PCs]
      /\ CancelTypeOK /\ TokenInv /\ CallbacksOnce /\ NoThread \notin Threads
  BY <1>1, TokenStart
<1>3. "done" \in Stations[role[t]]
  BY <1>2 DEF Stations
<1>4. pc'[t] = "done" /\ \A u \in Threads \ {t} : pc'[u] = pc[u]
  BY <1>1, <1>2
<1>5. /\ Registered(t)' /\ ~Registered(t)
      /\ \A u \in Threads \ {t} : Registered(u)' <=> Registered(u)
  BY <1>1, <1>2, <1>4 DEF Registered
<1>6. /\ callbacks \in Seq(Threads) /\ cbs \in [Threads -> Seq(Threads)] /\ ran \in [Threads -> Nat]
      /\ \A i \in DOMAIN callbacks : callbacks[i] \in Threads \ {t}
      /\ \A c \in Threads : \A i \in DOMAIN cbs[c] : cbs[c][i] \in Threads \ {t}
      /\ ran[t] = 0
  <2>1. callbacks \in Seq(Threads) /\ cbs \in [Threads -> Seq(Threads)] /\ ran \in [Threads -> Nat]
    BY <1>2 DEF CancelTypeOK
  <2>2. /\ \A i \in DOMAIN callbacks : callbacks[i] \in Threads
        /\ \A c \in Threads : \A i \in DOMAIN cbs[c] : cbs[c][i] \in Threads
    BY <2>1
  <2> QED BY <1>2, <1>5, <2>1, <2>2 DEF TokenInv
<1>7. /\ \A u \in Threads : token_mutex' = u <=> pc'[u] \in {"registering", "cancelling", "stuck"}
      /\ \A c \in Threads : cbs'[c] # <<>> => pc'[c] = "running"
      /\ ~cancelled' => \A c \in Threads : cbs'[c] = <<>>
      /\ \A c, d \in Threads : \A i \in DOMAIN cbs'[c], j \in DOMAIN cbs'[d] :
            cbs'[c][i] = cbs'[d][j] => c = d /\ i = j
  <2>1. \A u \in Threads : token_mutex' = u <=> pc'[u] \in {"registering", "cancelling", "stuck"}
    BY <1>1, <1>2, <1>4 DEF TokenInv
  <2>2. \A c \in Threads : cbs'[c] # <<>> => pc'[c] = "running"
    BY <1>1, <1>2, <1>4 DEF TokenInv
  <2> QED BY <1>1, <1>2, <2>1, <2>2 DEF TokenInv
<1>8. TokenSide'
  <2>1. CASE cancelled
    <3>1. ran' = [ran EXCEPT ![t] = 1] /\ callbacks' = callbacks
      BY <1>1, <1>6, <2>1 DEF Register, OnCancel
    <3>2. CancelTypeOK'
      BY <1>1, <1>2, <3>1 DEF CancelTypeOK
    <3>3. callbacks = <<>> /\ cancelled'
      BY <1>1, <1>2, <2>1 DEF TokenInv
    <3>4. ran' \in [Threads -> Nat] /\ ran'[t] = 1 /\ \A u \in Threads \ {t} : ran'[u] = ran[u]
      BY <1>6, <3>1
    <3>5. \A c \in Threads : \A i \in DOMAIN cbs'[c] :
             (role[cbs[c][i]] \in {"register", "reenter"} /\ pc'[cbs[c][i]] = "done") /\ ran'[cbs[c][i]] = 0
      <4>1. \A c \in Threads : \A i \in DOMAIN cbs[c] :
               cbs[c][i] \in Threads \ {t} /\ Registered(cbs[c][i]) /\ ran[cbs[c][i]] = 0
        BY <1>2, <1>6 DEF TokenInv
      <4>2. \A u \in Threads \ {t} : Registered(u) /\ ran[u] = 0 =>
               (role[u] \in {"register", "reenter"} /\ pc'[u] = "done") /\ ran'[u] = 0
        BY <1>4, <3>4 DEF Registered
      <4> QED BY <1>1, <4>1, <4>2
    <3>6. \A u \in Threads : ran'[u] # 0 => Registered(u)'
      BY <1>2, <1>5, <3>4 DEF TokenInv
    <3>7. TokenInv'
      BY <1>1, <1>7, <3>1, <3>3, <3>5, <3>6 DEF TokenInv, Registered
    <3>8. CallbacksOnce'
      BY <1>1, <1>2, <1>5, <1>6, <2>1, <3>1, <3>3, <3>4 DEF CallbacksOnce
    <3> QED BY <3>2, <3>7, <3>8 DEF TokenSide
  <2>2. CASE ~cancelled
    <3>1. ran' = ran /\ callbacks' = Append(callbacks, t)
      BY <2>2 DEF Register, OnCancel
    <3> DEFINE n == Len(callbacks)
    <3>2. /\ callbacks' \in Seq(Threads) /\ n \in Nat
          /\ DOMAIN callbacks = 1..n /\ DOMAIN callbacks' = 1..(n + 1)
          /\ callbacks'[n + 1] = t
          /\ \A i \in 1..n : callbacks'[i] = callbacks[i]
      BY <1>6, <3>1
    <3>3. CancelTypeOK'
      BY <1>1, <1>2, <3>1, <3>2 DEF CancelTypeOK
    <3> HIDE DEF n
    <3>4. \A i \in DOMAIN callbacks' : i = n + 1 \/ i \in 1..n
      BY <3>2
    <3>5. \A i \in DOMAIN callbacks' : callbacks'[i] \in Threads /\
             role[callbacks'[i]] \in {"register", "reenter"} /\ pc'[callbacks'[i]] = "done"
      BY <1>2, <1>4, <1>6, <3>2, <3>4 DEF TokenInv, Registered
    <3>6. \A i, j \in DOMAIN callbacks' : callbacks'[i] = callbacks'[j] => i = j
      BY <1>2, <1>6, <3>2, <3>4 DEF TokenInv
    <3>7. \A c \in Threads : \A i \in DOMAIN cbs'[c] :
             (role[cbs[c][i]] \in {"register", "reenter"} /\ pc'[cbs[c][i]] = "done") /\ ran'[cbs[c][i]] = 0
      BY <1>1, <1>2, <1>4, <1>6, <3>1 DEF TokenInv, Registered
    <3>8. \A u \in Threads : ran'[u] = 0
      BY <1>2, <2>2, <3>1 DEF TokenInv
    <3>9. TokenInv'
      BY <1>1, <1>7, <2>2, <3>5, <3>6, <3>7, <3>8 DEF TokenInv, Registered
    <3>10. \A u \in Threads : Registered(u)' => u \in ToSet(callbacks')
      <4>1. t \in ToSet(callbacks')
        BY <3>2 DEF ToSet
      <4>2. \A u \in Threads \ {t} : Registered(u) => u \in ToSet(callbacks')
        <5> SUFFICES ASSUME NEW u \in Threads \ {t}, Registered(u)
                     PROVE  u \in ToSet(callbacks')
          OBVIOUS
        <5>1. u \in ToSet(callbacks)
          BY <1>2, <2>2 DEF CallbacksOnce
        <5>2. PICK i \in 1..n : callbacks[i] = u
          BY <3>2, <5>1 DEF ToSet
        <5>3. i \in DOMAIN callbacks' /\ callbacks'[i] = u
          BY <3>2, <5>2
        <5> QED BY <5>3 DEF ToSet
      <4> QED BY <1>5, <4>1, <4>2
    <3>11. CallbacksOnce'
      BY <1>1, <2>2, <3>8, <3>10 DEF CallbacksOnce
    <3> QED BY <3>3, <3>9, <3>11 DEF TokenSide
  <2> QED BY <2>1, <2>2
<1> QED BY <1>1, <1>2, <1>3, <1>8, TokenKeeps

\* cancel sets the flag and takes the callbacks in one critical section.
LEMMA CancelAllKeeps ==
    ASSUME IInv, NEW t \in Threads, CancelAll(t)
    PROVE  IInv'
<1>1. pc[t] = "cancelling" /\ pc' = [pc EXCEPT ![t] = "running"] /\ TokenStep /\ role' = role
      /\ token_mutex = t /\ token_mutex' = NoThread /\ cancelled' = TRUE /\ ran' = ran
  BY DEF CancelAll, Goes, TokenStep, TakeCallbacks
<1>2. /\ role[t] = "cancel" /\ pc \in [Threads -> PCs]
      /\ CancelTypeOK /\ TokenInv /\ CallbacksOnce /\ NoThread \notin Threads
  BY <1>1, TokenStart
<1>3. "running" \in Stations[role[t]]
  BY <1>2 DEF Stations
<1>4. pc'[t] = "running" /\ \A u \in Threads \ {t} : pc'[u] = pc[u]
  BY <1>1, <1>2
<1>5. \A u \in Threads : Registered(u)' <=> Registered(u)
  BY <1>1, <1>2, <1>4 DEF Registered
<1>6. \A u \in Threads : token_mutex' = u <=> pc'[u] \in {"registering", "cancelling", "stuck"}
  BY <1>1, <1>2, <1>4 DEF TokenInv
<1>7. \A c \in Threads : cbs[c] # <<>> => pc'[c] = "running"
  BY <1>1, <1>2, <1>4 DEF TokenInv
<1>8. TokenSide'
  <2>1. CASE cancelled
    <3>1. callbacks' = callbacks /\ cbs' = cbs /\ cancelled' = cancelled
      <4>1. callbacks' = callbacks /\ cbs' = cbs
        BY <2>1 DEF CancelAll, TakeCallbacks
      <4>2. cancelled = TRUE
        BY <1>2, <2>1 DEF CancelTypeOK
      <4> QED BY <1>1, <4>1, <4>2
    <3> QED BY <1>1, <1>2, <1>5, <1>6, <1>7, <3>1, TokenStays
  <2>2. CASE ~cancelled
    <3>1. cbs' = [cbs EXCEPT ![t] = callbacks] /\ callbacks' = <<>>
      BY <2>2 DEF CancelAll, TakeCallbacks
    <3>2. callbacks \in Seq(Threads) /\ cbs \in [Threads -> Seq(Threads)] /\ ran \in [Threads -> Nat]
      BY <1>2 DEF CancelTypeOK
    <3>3. cbs'[t] = callbacks /\ \A u \in Threads \ {t} : cbs'[u] = <<>>
      BY <1>2, <2>2, <3>1, <3>2 DEF TokenInv
    <3>4. cbs' \in [Threads -> Seq(Threads)] /\ callbacks' \in Seq(Threads)
      BY <3>1, <3>2
    <3>5. cancelled' \in BOOLEAN
      BY <1>1
    <3>6. CancelTypeOK'
      BY <1>1, <3>2, <3>4, <3>5 DEF CancelTypeOK
    <3>7. \A c \in Threads : \A i \in DOMAIN cbs'[c] : c = t /\ i \in DOMAIN callbacks
      BY <3>3
    <3>8. \A u \in Threads : ran[u] = 0
      BY <1>2, <2>2 DEF TokenInv
    <3>9. \A i \in DOMAIN callbacks : callbacks[i] \in Threads /\
             (role'[callbacks[i]] \in {"register", "reenter"} /\ pc'[callbacks[i]] = "done")
      <4>1. \A i \in DOMAIN callbacks : callbacks[i] \in Threads /\ Registered(callbacks[i])
        BY <1>2, <3>2 DEF TokenInv
      <4>2. \A u \in Threads : Registered(u) =>
               (role'[u] \in {"register", "reenter"} /\ pc'[u] = "done")
        BY <1>5 DEF Registered
      <4> QED BY <4>1, <4>2
    <3>10. TokenInv'
      <4>1. \A c \in Threads : cbs'[c] # <<>> => pc'[c] = "running"
        BY <1>4, <3>3
      <4>3. \A c \in Threads : \A i \in DOMAIN cbs'[c] :
               (role'[cbs'[c][i]] \in {"register", "reenter"} /\ pc'[cbs'[c][i]] = "done")
               /\ ran'[cbs'[c][i]] = 0
        BY <1>1, <3>3, <3>7, <3>8, <3>9
      <4>4. \A c, d \in Threads : \A i \in DOMAIN cbs'[c], j \in DOMAIN cbs'[d] :
               cbs'[c][i] = cbs'[d][j] => c = d /\ i = j
        BY <1>2, <3>3, <3>7 DEF TokenInv
      <4>5. callbacks' = <<>> /\ cancelled' /\ \A u \in Threads : ran'[u] = 0
        BY <1>1, <3>1, <3>8
      <4> QED BY <1>6, <4>1, <4>3, <4>4, <4>5 DEF TokenInv, Registered
    <3>11. CallbacksOnce'
      <4>1. \A u \in Threads : Registered(u) => u \in ToSet(cbs'[t])
        BY <1>2, <2>2, <3>3 DEF CallbacksOnce
      <4> QED BY <1>1, <1>5, <3>8, <4>1 DEF CallbacksOnce
    <3> QED BY <3>6, <3>10, <3>11 DEF TokenSide
  <2> QED BY <2>1, <2>2
<1> QED BY <1>1, <1>2, <1>3, <1>8, TokenKeeps

\* cancel runs the next of the callbacks it took, outside of the mutex.
LEMMA RunNextKeeps ==
    ASSUME IInv, NEW t \in Threads, RunNext(t)
    PROVE  IInv'
<1> DEFINE h == Head(cbs[t])
<1>1. pc[t] = "running" /\ pc' = pc /\ TokenStep /\ role' = role /\ cbs[t] # <<>>
      /\ ran' = [ran EXCEPT ![h] = @ + 1] /\ cbs' = [cbs EXCEPT ![t] = Tail(@)]
      /\ UNCHANGED <<cancelled, token_mutex, callbacks>>
  BY DEF RunNext, TokenStep, RunCallback
<1>2. /\ role[t] = "cancel" /\ pc \in [Threads -> PCs]
      /\ CancelTypeOK /\ TokenInv /\ CallbacksOnce
  BY <1>1, TokenStart
<1>3. pc' = [pc EXCEPT ![t] = "running"] /\ "running" \in Stations[role[t]]
  BY <1>1, <1>2 DEF Stations
<1>4. callbacks \in Seq(Threads) /\ cbs \in [Threads -> Seq(Threads)] /\ ran \in [Threads -> Nat]
  BY <1>2 DEF CancelTypeOK
<1> DEFINE s == cbs[t]
           n == Len(s)
<1>5. s \in Seq(Threads) /\ n \in Nat /\ n > 0 /\ DOMAIN s = 1..n /\ h = s[1] /\ 1 \in DOMAIN s
      /\ cbs'[t] = Tail(s) /\ Tail(s) \in Seq(Threads) /\ DOMAIN Tail(s) = 1..(n - 1)
      /\ \A i \in 1..(n - 1) : Tail(s)[i] = s[i + 1]
  <2>1. s \in Seq(Threads) /\ s # <<>> /\ cbs'[t] = Tail(s) /\ h = Head(s)
    BY <1>1, <1>4
  <2> HIDE DEF s, h
  <2>2. n \in Nat /\ n > 0 /\ DOMAIN s = 1..n
    BY <2>1, EmptySeq, LenProperties
  <2>3. h = s[1] /\ 1 \in DOMAIN s
    BY <2>1, <2>2
  <2>4. Tail(s) \in Seq(Threads) /\ Len(Tail(s)) = n - 1
        /\ \A i \in 1..(n - 1) : Tail(s)[i] = s[i + 1]
    BY <2>1, HeadTailProperties
  <2>5. DOMAIN Tail(s) = 1..(n - 1)
    BY <2>4, LenProperties
  <2> QED BY <2>1, <2>2, <2>3, <2>4, <2>5
<1>6. h \in Threads /\ Registered(h) /\ ran[h] = 0
  BY <1>2, <1>5 DEF TokenInv
<1> HIDE DEF h, s, n
<1>7. ran' \in [Threads -> Nat] /\ ran'[h] = 1 /\ \A u \in Threads \ {h} : ran'[u] = ran[u]
  BY <1>1, <1>4, <1>6
<1>8. cbs' \in [Threads -> Seq(Threads)] /\ \A c \in Threads \ {t} : cbs'[c] = cbs[c]
  BY <1>1, <1>4, <1>5 DEF s
<1>9. cancelled
  BY <1>1, <1>2 DEF TokenInv
<1>10. CancelTypeOK'
  BY <1>1, <1>2, <1>4, <1>7, <1>8 DEF CancelTypeOK
<1> DEFINE at(c, i) == IF c = t THEN i + 1 ELSE i
<1>11. ASSUME NEW c \in Threads, NEW i \in DOMAIN cbs'[c]
       PROVE  /\ at(c, i) \in DOMAIN cbs[c] /\ cbs'[c][i] = cbs[c][at(c, i)]
              /\ cbs'[c][i] \in Threads \ {h} /\ Registered(cbs'[c][i]) /\ ran[cbs'[c][i]] = 0
  <2>1. at(c, i) \in DOMAIN cbs[c] /\ cbs'[c][i] = cbs[c][at(c, i)]
        /\ (c = t => at(c, i) # 1)
    <3>1. CASE c = t
      <4>1. i \in 1..(n - 1) /\ i + 1 \in 1..n /\ i + 1 # 1
        BY <1>5, <1>11, <3>1
      <4> QED BY <1>5, <3>1, <4>1 DEF s
    <3>2. CASE c # t
      BY <1>8, <1>11, <3>2
    <3> QED BY <3>1, <3>2
  <2>2. cbs[c][at(c, i)] # h
    BY <1>2, <1>5, <2>1 DEF TokenInv, s
  <2>3. cbs[c][at(c, i)] \in Threads
    BY <1>4, <2>1
  <2>4. Registered(cbs[c][at(c, i)]) /\ ran[cbs[c][at(c, i)]] = 0
    BY <1>2, <2>1 DEF TokenInv
  <2> QED BY <2>1, <2>2, <2>3, <2>4
<1>12. \A c, d \in Threads : \A i \in DOMAIN cbs'[c], j \in DOMAIN cbs'[d] :
          cbs'[c][i] = cbs'[d][j] => c = d /\ i = j
  <2> SUFFICES ASSUME NEW c \in Threads, NEW d \in Threads, NEW i \in DOMAIN cbs'[c],
                      NEW j \in DOMAIN cbs'[d], cbs'[c][i] = cbs'[d][j]
               PROVE  c = d /\ i = j
    OBVIOUS
  <2>1. c = d /\ at(c, i) = at(d, j)
    BY <1>2, <1>11 DEF TokenInv
  <2>2. i \in Int /\ j \in Int
    BY <1>8
  <2> QED BY <2>1, <2>2
<1> HIDE DEF at
<1>13. TokenInv'
  <2>1. \A u \in Threads : token_mutex' = u <=> pc'[u] \in {"registering", "cancelling", "stuck"}
    BY <1>1, <1>2 DEF TokenInv
  <2>2. (cancelled' => callbacks' = <<>>) /\ cancelled'
    BY <1>1, <1>2, <1>9 DEF TokenInv
  <2>3. \A c \in Threads : cbs'[c] # <<>> => pc'[c] = "running"
    BY <1>1, <1>2, <1>8 DEF TokenInv
  <2>4. \A c \in Threads : \A i \in DOMAIN cbs'[c] :
           (role'[cbs'[c][i]] \in {"register", "reenter"} /\ pc'[cbs'[c][i]] = "done") /\ ran'[cbs'[c][i]] = 0
    BY <1>1, <1>7, <1>11 DEF Registered
  <2>5. \A u \in Threads : ran'[u] # 0 => Registered(u)'
    BY <1>1, <1>2, <1>6, <1>7 DEF TokenInv, Registered
  <2> QED BY <1>12, <2>1, <2>2, <2>3, <2>4, <2>5 DEF TokenInv, Registered
<1>14. CallbacksOnce'
  <2>1. \A u \in Threads : ran'[u] <= 1 /\ cancelled'
    BY <1>1, <1>2, <1>4, <1>7, <1>9 DEF CallbacksOnce
  <2>2. ASSUME NEW u \in Threads, Registered(u), ran'[u] # 1
        PROVE  \E c \in Threads : u \in ToSet(cbs'[c])
    <3>1. u # h /\ ran[u] # 1
      BY <1>7, <2>2
    <3>2. PICK c \in Threads : u \in ToSet(cbs[c])
      BY <1>2, <1>9, <2>2, <3>1 DEF CallbacksOnce
    <3>3. PICK i \in DOMAIN cbs[c] : u = cbs[c][i]
      BY <3>2 DEF ToSet
    <3>4. CASE c = t
      <4>1. i \in 1..n /\ i # 1
        BY <1>5, <3>1, <3>3, <3>4 DEF s
      <4>2. i - 1 \in 1..(n - 1) /\ (i - 1) + 1 = i
        BY <1>5, <4>1
      <4>3. i - 1 \in DOMAIN cbs'[t] /\ cbs'[t][i - 1] = u
        BY <1>5, <3>3, <3>4, <4>2 DEF s
      <4> QED BY <4>3 DEF ToSet
    <3>5. CASE c # t
      BY <1>8, <3>2, <3>5
    <3> QED BY <3>4, <3>5
  <2>3. \A u \in Threads : Registered(u)' <=> Registered(u)
    BY <1>1 DEF Registered
  <2> QED BY <2>1, <2>2, <2>3 DEF CallbacksOnce
<1> QED BY <1>1, <1>2, <1>3, <1>10, <1>13, <1>14, TokenKeeps DEF TokenSide

-----------------------------------------------------------------------------
(* Batches *)

\* What the invariants say of the batch of one thread.
OneBatch(t) ==
    /\ batch[t].status \in Statuses[processor[t]]
    /\ role[t] = "batch" /\ pc[t] \in {"submit", "polling", "fetch"} => items[t] = <<>>
    /\ role[t] = "batch" /\ pc[t] = "fetch" =>
          info[t] = "completed" /\ Settled(batch[t].status) /\ Parsed(t) = "completed"
    /\ role[t] = "batch" /\ pc[t] = "done" => FinalWord(t)

\* A step for one batch keeps the invariant when it keeps that batch.
LEMMA BatchKeeps ==
    ASSUME IInv, BatchStep, NEW t \in BatchThreads, NEW to \in Stations[role[t]],
           role[t] = "batch" \/ to = pc[t], pc' = [pc EXCEPT ![t] = to],
           BatchTypeOK', processor' = processor, OneBatch(t)',
           \A u \in BatchThreads \ {t} : batch'[u] = batch[u] /\ info'[u] = info[u] /\ items'[u] = items[u]
    PROVE  IInv'
<1>1. t \in Threads /\ BatchThreads \subseteq Threads
  BY ModelStackAssumption
<1>2. /\ role' \in [Threads -> DOMAIN Begins] /\ pc' \in [Threads -> PCs] /\ Course'
      /\ pc'[t] = to /\ \A u \in Threads \ {t} : pc'[u] = pc[u]
      /\ CallTypeOK' /\ LimiterTypeOK' /\ CacheTypeOK' /\ CancelTypeOK'
      /\ CacheInv' /\ LimiterInv' /\ RetryInv' /\ AnswerInv' /\ TokenInv' /\ CallbacksOnce'
  BY <1>1, BatchFrame
<1>3. TypeOK'
  BY <1>2 DEF TypeOK
<1>4. ASSUME NEW u \in BatchThreads
      PROVE  OneBatch(u)'
  <2>1. CASE u = t
    BY <2>1
  <2>2. CASE u # t
    <3>1. OneBatch(u)
      BY DEF IInv, StackInv, BatchInv, BatchFinal, OneBatch
    <3>2. batch'[u] = batch[u] /\ info'[u] = info[u] /\ items'[u] = items[u] /\ pc'[u] = pc[u] /\ role' = role
      BY <1>1, <1>2, <2>2 DEF BatchStep
    <3> QED BY <3>1, <3>2 DEF OneBatch, Parsed, FinalWord
  <2> QED BY <2>1, <2>2
<1>5. BatchInv' /\ BatchFinal'
  BY <1>4 DEF OneBatch, BatchInv, BatchFinal
<1> QED BY <1>2, <1>3, <1>5 DEF IInv, StackInv

\* Where a step for a batch starts from.
LEMMA BatchStart ==
    ASSUME IInv, NEW t \in BatchThreads
    PROVE  /\ t \in Threads /\ pc \in [Threads -> PCs] /\ BatchTypeOK /\ OneBatch(t)
           /\ pc[t] \in {"submit", "polling", "fetch"} => role[t] = "batch"
           /\ pc[t] \in Stations[role[t]]
<1>1. t \in Threads
  BY ModelStackAssumption
<1>2. TypeOK /\ Course /\ BatchInv /\ BatchFinal
  BY DEF IInv, StackInv
<1>3. pc[t] \in {"submit", "polling", "fetch"} => role[t] = "batch"
  BY <1>1, <1>2, ByRole
<1> QED BY <1>1, <1>2, <1>3 DEF TypeOK, Course, BatchInv, BatchFinal, OneBatch

\* A batch is submitted.
LEMMA SubmitKeeps ==
    ASSUME IInv, NEW t \in BatchThreads, SubmitBatch(t)
    PROVE  IInv'
<1> DEFINE s == IF processor[t] = "openai" THEN "validating" ELSE "in_progress"
<1>1. /\ pc[t] = "submit" /\ pc' = [pc EXCEPT ![t] = "polling"] /\ BatchStep /\ role' = role
      /\ batch' = [batch EXCEPT ![t].status = s] /\ UNCHANGED <<processor, polls, info, items>>
  BY DEF SubmitBatch, Goes, Submit, BatchStep
<1>2. /\ t \in Threads /\ pc \in [Threads -> PCs] /\ BatchTypeOK /\ OneBatch(t) /\ role[t] = "batch"
  BY <1>1, BatchStart
<1>3. "polling" \in Stations[role[t]] /\ pc'[t] = "polling"
  BY <1>1, <1>2 DEF Stations
<1>4. s \in Statuses[processor[t]] /\ s \in UNION {Statuses[p] : p \in Processors}
  BY <1>2 DEF BatchTypeOK, Statuses, Processors
<1> HIDE DEF s
<1>5. BatchTypeOK' /\ batch'[t].status = s /\ \A u \in BatchThreads \ {t} : batch'[u] = batch[u]
  BY <1>1, <1>2, <1>4 DEF BatchTypeOK
<1>6. OneBatch(t)'
  BY <1>1, <1>2, <1>3, <1>4, <1>5 DEF OneBatch
<1> QED BY <1>1, <1>2, <1>3, <1>5, <1>6, BatchKeeps

\* The token is cancelled, or a batch has no results to fetch.
LEMMA StopKeeps ==
    ASSUME IInv, NEW t \in BatchThreads, BatchStops(t) \/ BatchThrows(t)
    PROVE  IInv'
<1>1. /\ pc[t] \in {"submit", "polling", "fetch"} /\ pc' = [pc EXCEPT ![t] = "failed"]
      /\ BatchStep /\ role' = role /\ UNCHANGED batchVars
  BY DEF BatchStops, BatchThrows, Goes, BatchStep
<1>2. /\ t \in Threads /\ pc \in [Threads -> PCs] /\ BatchTypeOK /\ OneBatch(t) /\ role[t] = "batch"
  BY <1>1, BatchStart
<1>3. "failed" \in Stations[role[t]] /\ pc'[t] = "failed"
  BY <1>1, <1>2 DEF Stations
<1>4. BatchTypeOK'
  BY <1>1, <1>2 DEF batchVars, BatchTypeOK
<1>5. OneBatch(t)'
  BY <1>1, <1>2, <1>3 DEF batchVars, OneBatch
<1> QED BY <1>1, <1>2, <1>3, <1>4, <1>5, BatchKeeps DEF batchVars

\* A batch is polled: over, or to be polled again, or polled too often.
LEMMA PollKeeps ==
    ASSUME IInv, NEW t \in BatchThreads, PollBatch(t)
    PROVE  IInv'
<1>1. /\ pc[t] = "polling" /\ BatchStep /\ role' = role /\ UNCHANGED <<processor, batch, items>>
      /\ info' = [info EXCEPT ![t] = Parsed(t)]
      /\ polls' = [polls EXCEPT ![t] = IF Over(info'[t]) \/ max_polls = 0 THEN @ ELSE @ + 1]
  BY DEF PollBatch, Poll, BatchStep
<1>2. /\ t \in Threads /\ pc \in [Threads -> PCs] /\ BatchTypeOK /\ OneBatch(t) /\ role[t] = "batch"
  BY <1>1, BatchStart
<1>3. processor[t] \in {"openai", "anthropic"} /\ batch[t].status \in Statuses[processor[t]]
  BY <1>2 DEF BatchTypeOK, OneBatch, Processors
<1>4. Parsed(t) \in UNION {Statuses[p] : p \in Processors}
  BY <1>3 DEF Parsed, Unknown, Statuses, Processors
<1>5. info'[t] = Parsed(t) /\ \A u \in BatchThreads \ {t} : info'[u] = info[u]
  BY <1>1, <1>2 DEF BatchTypeOK
<1>6. BatchTypeOK'
  <2>1. info' \in [BatchThreads -> UNION {Statuses[p] : p \in Processors}]
    BY <1>1, <1>2, <1>4 DEF BatchTypeOK
  <2>2. polls' \in [BatchThreads -> Nat]
    BY <1>1, <1>2 DEF BatchTypeOK
  <2> QED BY <1>1, <1>2, <2>1, <2>2 DEF BatchTypeOK
<1>7. items'[t] = <<>> /\ batch' = batch /\ processor' = processor
  BY <1>1, <1>2 DEF OneBatch
<1>8. ASSUME NEW to \in {"fetch", "done", "polling", "failed"}, pc' = [pc EXCEPT ![t] = to],
             to = "fetch" => Parsed(t) = "completed",
             to = "done" => Over(Parsed(t)) /\ Parsed(t) # "completed"
      PROVE  IInv'
  <2>1. to \in Stations[role[t]] /\ pc'[t] = to
    BY <1>2, <1>8 DEF Stations
  <2>2. Parsed(t)' = Parsed(t)
    BY <1>7 DEF Parsed
  <2>3. to = "fetch" => Settled(batch[t].status)
    BY <1>3, <1>8 DEF Parsed, Settled, Unknown
  <2>4. to = "done" => Settled(batch[t].status) \/ (processor[t] = "openai" /\ Parsed(t) = "failed")
    BY <1>3, <1>8 DEF Parsed, Settled, Unknown, Over
  <2>5. to = "done" => FinalWord(t)'
    BY <1>5, <1>7, <1>8, <2>2, <2>4 DEF FinalWord
  <2>6. OneBatch(t)'
    BY <1>3, <1>5, <1>7, <1>8, <2>1, <2>2, <2>3, <2>5 DEF OneBatch
  <2> QED BY <1>1, <1>2, <1>5, <1>6, <1>8, <2>1, <2>6, BatchKeeps
<1>9. PICK to \in {"fetch", "done", "polling", "failed"} :
         /\ pc' = [pc EXCEPT ![t] = to]
         /\ to = "fetch" => Parsed(t) = "completed"
         /\ to = "done" => Over(Parsed(t)) /\ Parsed(t) # "completed"
  <2> DEFINE to == CASE Over(info'[t]) /\ info'[t] = "completed" -> "fetch"
                     [] Over(info'[t]) /\ info'[t] # "completed" -> "done"
                     [] ~Over(info'[t]) /\ (max_polls = 0 \/ polls'[t] < max_polls) -> "polling"
                     [] ~Over(info'[t]) /\ max_polls # 0 /\ polls'[t] >= max_polls -> "failed"
  <2>1. pc' = [pc EXCEPT ![t] = to]
    BY DEF PollBatch
  <2>2. polls'[t] < max_polls \/ polls'[t] >= max_polls
    BY <1>2, <1>6, ModelStackAssumption DEF BatchTypeOK
  <2>3. /\ to \in {"fetch", "done", "polling", "failed"}
        /\ to = "fetch" => Parsed(t) = "completed"
        /\ to = "done" => Over(Parsed(t)) /\ Parsed(t) # "completed"
    BY <1>5, <2>2
  <2> QED BY <2>1, <2>3
<1> QED BY <1>8, <1>9

\* The lines of the results are the requests in the file, each once.
LEMMA LinesFacts ==
    ASSUME NEW t \in BatchThreads, NEW s \in SetToSeqs(Reported(t))
    PROVE  /\ s \in Seq(CustomIds)
           /\ \A i, j \in DOMAIN s : s[i] = s[j] => i = j
           /\ \A c \in Reported(t) : \E i \in DOMAIN s : s[i] = c
<1> DEFINE R == Reported(t)
           n == Cardinality(R)
<1>1. IsFiniteSet(R) /\ n \in Nat /\ R \subseteq CustomIds
  <2>1. R \subseteq CustomIds
    BY DEF Reported
  <2>2. IsFiniteSet(CustomIds)
    BY ModelStackAssumption
  <2>3. IsFiniteSet(R)
    BY <2>1, <2>2, FS_Subset
  <2> QED BY <2>1, <2>3, FS_CardinalityType
<1>2. s \in [1..n -> R] /\ \A i, j \in 1..n : i # j => s[i] # s[j]
  BY DEF SetToSeqs
<1> HIDE DEF R, n
<1>3. s \in Injection(1..n, R)
  BY <1>2 DEF Injection, IsInjective
<1>4. IsFiniteSet(1..n) /\ Cardinality(1..n) = n
  <2>1. 1 \in Int /\ n \in Int
    BY <1>1
  <2>2. /\ IsFiniteSet(1..n)
        /\ Cardinality(1..n) = IF 1 > n THEN 0 ELSE n - 1 + 1
    BY <2>1, FS_Interval
  <2> QED BY <1>1, <2>2
<1>5. s \in Surjection(1..n, R)
  BY <1>1, <1>3, <1>4, FS_Injection DEF n
<1>6. s \in Seq(CustomIds)
  BY <1>1, <1>2
<1> QED BY <1>2, <1>5, <1>6 DEF Surjection, R

\* The results are fetched, their lines in any order.
LEMMA FetchKeeps ==
    ASSUME IInv, NEW t \in BatchThreads, FetchBatch(t)
    PROVE  IInv'
<1>1. /\ pc[t] = "fetch" /\ pc' = [pc EXCEPT ![t] = "done"] /\ BatchStep /\ role' = role
      /\ UNCHANGED <<processor, batch, polls, info>>
  BY DEF FetchBatch, Goes, Fetch, BatchStep
<1>2. /\ t \in Threads /\ pc \in [Threads -> PCs] /\ BatchTypeOK /\ OneBatch(t) /\ role[t] = "batch"
  BY <1>1, BatchStart
<1>3. "done" \in Stations[role[t]] /\ pc'[t] = "done"
  BY <1>1, <1>2 DEF Stations
<1>4. PICK s \in SetToSeqs(Reported(t)) :
         items' = [items EXCEPT ![t] =
                      [n \in DOMAIN s |-> [custom_id |-> s[n], got |-> batch[t].fate[s[n]]]]]
  BY DEF FetchBatch, Fetch
<1>5. /\ s \in Seq(CustomIds)
      /\ \A i, j \in DOMAIN s : s[i] = s[j] => i = j
      /\ \A c \in Reported(t) : \E i \in DOMAIN s : s[i] = c
  BY LinesFacts
<1> DEFINE lines == [n \in DOMAIN s |-> [custom_id |-> s[n], got |-> batch[t].fate[s[n]]]]
<1>6. lines \in Seq([custom_id : CustomIds, got : Fates])
  <2>1. batch[t].fate \in [CustomIds -> Fates]
    BY <1>2 DEF BatchTypeOK
  <2>2. DOMAIN s = 1..Len(s) /\ Len(s) \in Nat /\ \A n \in 1..Len(s) : s[n] \in CustomIds
    BY <1>5
  <2>3. \A n \in 1..Len(s) : [custom_id |-> s[n], got |-> batch[t].fate[s[n]]] \in [custom_id : CustomIds, got : Fates]
    BY <2>1, <2>2
  <2> QED BY <2>2, <2>3
<1>7. DOMAIN lines = DOMAIN s /\ \A n \in DOMAIN s : lines[n].custom_id = s[n] /\ lines[n].got = batch[t].fate[s[n]]
  OBVIOUS
<1> HIDE DEF lines
<1>8. BatchTypeOK' /\ items'[t] = lines /\ \A u \in BatchThreads \ {t} : items'[u] = items[u]
  <2>1. items' = [items EXCEPT ![t] = lines]
    BY <1>4 DEF lines
  <2>2. items' \in [BatchThreads -> Seq([custom_id : CustomIds, got : Fates])]
        /\ items'[t] = lines /\ \A u \in BatchThreads \ {t} : items'[u] = items[u]
    BY <1>2, <1>6, <2>1 DEF BatchTypeOK
  <2> QED BY <1>1, <1>2, <2>2 DEF BatchTypeOK
<1>9. info[t] = "completed" /\ Settled(batch[t].status) /\ Parsed(t) = "completed"
      /\ batch[t].status \in Statuses[processor[t]]
  BY <1>1, <1>2 DEF OneBatch
<1>10. Parsed(t)' = Parsed(t)
  BY <1>1 DEF Parsed
<1>11. FinalWord(t)'
  <2>1. \A c \in CustomIds : batch[t].fate[c] = "ok" => \E n \in DOMAIN lines : lines[n].custom_id = c
    BY <1>5, <1>7 DEF Reported
  <2>2. \A n, k \in DOMAIN lines : lines[n].custom_id = lines[k].custom_id => n = k
    BY <1>5, <1>7
  <2>3. \A n \in DOMAIN lines : lines[n].got = batch[t].fate[lines[n].custom_id]
    BY <1>7
  <2> QED BY <1>1, <1>8, <1>9, <1>10, <2>1, <2>2, <2>3 DEF FinalWord
<1>12. OneBatch(t)'
  BY <1>1, <1>3, <1>9, <1>11 DEF OneBatch
<1> QED BY <1>1, <1>2, <1>3, <1>8, <1>12, BatchKeeps

\* What the provider does with a batch, and who cancels it there.
LEMMA ServerKeeps ==
    ASSUME IInv, NEW t \in BatchThreads, Server(t)
    PROVE  IInv'
<1>1. /\ pc' = pc /\ BatchStep /\ role' = role /\ UNCHANGED <<processor, polls, info, items>>
      /\ batch[t].status \in {"validating", "in_progress", "other", "cancelling"}
  BY DEF Server, BatchStep, BatchGoesOn, BatchCancels, BatchEnds
<1>2. /\ t \in Threads /\ pc \in [Threads -> PCs] /\ BatchTypeOK /\ OneBatch(t)
      /\ pc[t] \in Stations[role[t]]
  BY <1>1, BatchStart
<1>3. pc' = [pc EXCEPT ![t] = pc[t]]
  BY <1>1, <1>2
<1>4. processor[t] \in {"openai", "anthropic"} /\ batch[t].fate \in [CustomIds -> Fates]
      /\ batch[t] = [status |-> batch[t].status, fate |-> batch[t].fate]
  BY <1>2 DEF BatchTypeOK, Processors
<1>5. \E s \in Statuses[processor[t]], f \in [CustomIds -> Fates] :
         batch' = [batch EXCEPT ![t] = [status |-> s, fate |-> f]]
  <2>1. ASSUME NEW s \in Statuses[processor[t]], batch' = [batch EXCEPT ![t].status = s]
        PROVE  batch' = [batch EXCEPT ![t] = [status |-> s, fate |-> batch[t].fate]]
    <3>1. [batch[t] EXCEPT !.status = s] = [status |-> s, fate |-> batch[t].fate]
      BY <1>4
    <3> QED BY <2>1, <3>1
  <2>2. CASE BatchGoesOn(t)
    <3>1. PICK s \in {"in_progress", "other"} : batch' = [batch EXCEPT ![t].status = s]
      BY <2>2 DEF BatchGoesOn
    <3>2. s \in Statuses[processor[t]]
      BY <1>4 DEF Statuses
    <3> QED BY <1>4, <2>1, <3>1, <3>2
  <2>3. CASE BatchCancels(t)
    <3>1. "cancelling" \in Statuses[processor[t]]
      BY <1>4 DEF Statuses
    <3> QED BY <1>4, <2>1, <2>3, <3>1 DEF BatchCancels
  <2>4. CASE BatchEnds(t)
    <3>1. PICK s \in IF batch[t].status = "cancelling" THEN {Cancelled[processor[t]]}
                     ELSE Ends[processor[t]] :
               \E f \in [CustomIds -> Fates] : batch' = [batch EXCEPT ![t] = [status |-> s, fate |-> f]]
      BY <2>4 DEF BatchEnds
    <3>2. s \in Statuses[processor[t]]
      BY <1>4, <3>1 DEF Cancelled, Ends, Statuses
    <3> QED BY <3>1, <3>2
  <2> QED BY <2>2, <2>3, <2>4 DEF Server
<1>6. PICK s \in Statuses[processor[t]], f \in [CustomIds -> Fates] :
         batch' = [batch EXCEPT ![t] = [status |-> s, fate |-> f]]
  BY <1>5
<1>7. s \in UNION {Statuses[p] : p \in Processors}
  BY <1>4 DEF Processors
<1>8. /\ batch' \in [BatchThreads -> [status : UNION {Statuses[p] : p \in Processors},
                                     fate : [CustomIds -> Fates]]]
      /\ batch'[t] = [status |-> s, fate |-> f]
      /\ \A u \in BatchThreads \ {t} : batch'[u] = batch[u]
  BY <1>2, <1>6, <1>7 DEF BatchTypeOK
<1>9. BatchTypeOK'
  BY <1>1, <1>2, <1>8 DEF BatchTypeOK
<1>10. OneBatch(t)'
  <2>1. ~Settled(batch[t].status)
    BY <1>1 DEF Settled
  <2>2. ASSUME FinalWord(t)
        PROVE  FinalWord(t)'
    <3>1. processor[t] = "openai" /\ info[t] = "failed" /\ items[t] = <<>>
      BY <2>1, <2>2 DEF FinalWord
    <3> QED BY <1>1, <3>1 DEF FinalWord
  <2> QED BY <1>1, <1>2, <1>8, <2>1, <2>2 DEF OneBatch
<1> QED BY <1>1, <1>2, <1>3, <1>8, <1>9, <1>10, BatchKeeps

-----------------------------------------------------------------------------

\* The stack starts in the invariant.
LEMMA StackInit == Init => IInv
<1> SUFFICES ASSUME Init PROVE IInv
  OBVIOUS
<1>1. /\ role \in [Threads -> {"call", "batch", "register", "reenter", "cancel", "none"}]
      /\ IsFiniteSet(Threads) /\ NoThread \notin Threads /\ BatchThreads \subseteq Threads
      /\ MaxUse \in Nat /\ max_retries \in Nat
  BY ModelStackAssumption DEF Init
<1>2. DOMAIN Begins = {"call", "batch", "register", "reenter", "cancel", "none"}
  BY DEF Begins
<1>3. \A t \in Threads :
         /\ pc[t] \in Stations[role[t]] /\ pc[t] \in {"limit", "submit", "locking", "done"}
         /\ pc[t] = "done" => role[t] = "none"
  BY <1>1 DEF Init, Begins, Stations
<1>4. pc \in [Threads -> PCs]
  BY <1>3 DEF Init, PCs
<1>5. CallTypeOK
  BY DEF Init, CallTypeOK, Errors
<1>6. CancelTypeOK
  <2>1. cancelled \in BOOLEAN
    BY DEF Init, CancelInit
  <2> QED BY <2>1 DEF Init, CancelInit, CancelTypeOK
<1>7. LimiterTypeOK
  <2>1. minute_over \in BOOLEAN
    BY DEF Init, LimiterInit
  <2> QED BY <2>1 DEF Init, LimiterInit, LimiterTypeOK
<1>8. CacheTypeOK
  <2>1. cache_list = <<>> /\ cache_map = [k \in {} |-> 0]
    BY DEF Init, CacheInit
  <2>2. DOMAIN cache_map = {} /\ IsFiniteSet({})
    BY <2>1, FS_EmptySet
  <2>3. cache_map \in [DOMAIN cache_map -> Nat]
    BY <2>1, <2>2
  <2> QED BY <2>1, <2>2, <2>3 DEF CacheTypeOK
<1>9. BatchTypeOK
  <2>1. "none" \in UNION {Statuses[p] : p \in Processors}
    BY DEF Statuses, Processors
  <2>2. [i \in CustomIds |-> "ok"] \in [CustomIds -> Fates]
    BY DEF Fates
  <2> QED BY <2>1, <2>2 DEF Init, BatchInit, BatchTypeOK
<1>10. TypeOK
  BY <1>1, <1>2, <1>4, <1>5, <1>6, <1>7, <1>8, <1>9 DEF TypeOK
<1>11. CacheInv
  <2>1. cache_list = <<>> /\ cache_map = [k \in {} |-> 0] /\ DOMAIN cache_map = {}
    BY DEF Init, CacheInit
  <2> QED BY <2>1, ResponseCacheAssumption DEF CacheInv
<1>12. LimiterInv
  <2>1. InFlight = {}
    BY <1>3 DEF InFlight
  <2>2. Cardinality(InFlight) = 0 /\ Cardinality(Threads) \in Nat
    BY <1>1, <2>1, FS_EmptySet, FS_CardinalityType
  <2>3. MaxUse * Cardinality(Threads) \in Nat /\ MaxUse * 0 = 0
    BY <1>1, <2>2
  <2> QED BY <2>2, <2>3, RateLimiterAssumption DEF Init, LimiterInit, LimiterInv
<1>13. RetryInv
  BY <1>1, <1>3 DEF Init, RetryInv
<1>14. AnswerInv
  BY <1>3 DEF Init, CacheInit, AnswerInv
<1>15. TokenInv
  BY <1>1, <1>3 DEF Init, CancelInit, TokenInv
<1>16. BatchInv
  <2>1. \A t \in BatchThreads : batch[t].status \in Statuses[processor[t]]
    BY DEF Init, BatchInit, Statuses, Processors
  <2>2. \A t \in BatchThreads : items[t] = <<>> /\ pc[t] # "fetch"
    BY <1>1, <1>3 DEF Init, BatchInit
  <2> QED BY <2>1, <2>2 DEF BatchInv
<1>17. CallbacksOnce
  BY <1>3 DEF Init, CancelInit, CallbacksOnce, Registered
<1>18. BatchFinal
  BY <1>1, <1>3 DEF BatchFinal
<1>19. Course
  BY <1>3 DEF Course
<1> QED BY <1>10, <1>11, <1>12, <1>13, <1>14, <1>15, <1>16, <1>17, <1>18, <1>19
        DEF IInv, StackInv

\* Every step of the stack keeps the invariant.
LEMMA StackNext == IInv /\ [Next]_vars => IInv'
<1> SUFFICES ASSUME IInv, [Next]_vars PROVE IInv'
  OBVIOUS
<1>1. ASSUME NEW t \in Threads, Call(t) PROVE IInv'
  BY <1>1, AcquireKeeps, FindKeeps, MissKeeps, AnswerKeeps, FailKeeps, StoreKeeps, RethrowKeeps,
     RecordKeeps DEF Call
<1>2. ASSUME NEW t \in Threads, Token(t) PROVE IInv'
  BY <1>2, LockKeeps, RegisterKeeps, ReenterKeeps, CancelAllKeeps, RunNextKeeps, ReturnKeeps
  DEF Token
<1>3. ASSUME NEW t \in BatchThreads, Batch(t) \/ BatchThrows(t) \/ Server(t) PROVE IInv'
  BY <1>3, SubmitKeeps, PollKeeps, FetchKeeps, StopKeeps, ServerKeeps DEF Batch
<1>4. ASSUME UNCHANGED vars PROVE IInv'
  <2>1. /\ UNCHANGED <<role, pc>> /\ UNCHANGED callVars /\ UNCHANGED cancelVars
        /\ UNCHANGED limiterVars /\ UNCHANGED cacheVars /\ UNCHANGED batchVars
    BY <1>4 DEF vars, callVars, cancelVars, limiterVars, cacheVars, batchVars
  <2>2. CallTypeOK' /\ CacheTypeOK' /\ BatchTypeOK'
    BY <2>1 DEF callVars, cacheVars, batchVars, CallTypeOK, CacheTypeOK, BatchTypeOK, TypeOK,
       IInv, StackInv
  <2>3. CancelTypeOK'
    BY <2>1 DEF cancelVars, CancelTypeOK, TypeOK, IInv, StackInv
  <2>4. LimiterTypeOK'
    BY <2>1 DEF limiterVars, LimiterTypeOK, TypeOK, IInv, StackInv
  <2>5. TypeOK'
    BY <2>1, <2>2, <2>3, <2>4 DEF TypeOK, IInv, StackInv
  <2>6. Course' /\ CacheInv' /\ LimiterInv' /\ RetryInv' /\ AnswerInv'
    BY <2>1 DEF callVars, limiterVars, cacheVars, Course, CacheInv, LimiterInv, InFlight,
       RetryInv,
                AnswerInv, IInv, StackInv
  <2>7. TokenInv'
    BY <2>1 DEF cancelVars, TokenInv, Registered, IInv, StackInv
  <2>8. BatchInv' /\ BatchFinal'
    BY <2>1 DEF batchVars, BatchInv, BatchFinal, FinalWord, Parsed, IInv, StackInv
  <2>9. CallbacksOnce'
    BY <2>1 DEF cancelVars, CallbacksOnce, Registered, IInv
  <2> QED BY <2>5, <2>6, <2>7, <2>8, <2>9 DEF IInv, StackInv
<1> QED BY <1>1, <1>2, <1>3, <1>4, ClearKeeps, MinuteKeeps DEF Next, Rest

\* For any number of threads, prompts, keys and requests in a batch, any budget
\* of the limiter and any capacity of the cache: list and map of the cache
\* agree
\* while misses overlap, the limiter lets no more in than its budget and one
\* call of each thread, retries end, and the token has each callback once.
THEOREM StackHolds == Spec => []StackInv
<1>1. IInv => StackInv
  BY DEF IInv
<1> QED BY StackInit, StackNext, <1>1, PTL DEF Spec

\* However registrations and cancellations interleave, a callback that is
\* registered runs once if the token is cancelled, and not otherwise.
THEOREM CallbacksRunOnce == Spec => []CallbacksOnce
<1>1. IInv => CallbacksOnce
  BY DEF IInv
<1> QED BY StackInit, StackNext, <1>1, PTL DEF Spec

\* run_batch returns only what became of every request, whatever order the
\* results come in and whoever cancels the batch meanwhile.
THEOREM BatchesFinal == Spec => []BatchFinal
<1>1. IInv => BatchFinal
  BY DEF IInv
<1> QED BY StackInit, StackNext, <1>1, PTL DEF Spec

-----------------------------------------------------------------------------
(* What FlattenSeq is of pieces of a wire *)

\* A set of numbers has a least.
LEMMA Least == \A T \in SUBSET Nat : T # {} => \E m \in T : \A n \in T : m <= n
<1> SUFFICES ASSUME NEW T \in SUBSET Nat, T # {}
             PROVE  \E m \in T : \A n \in T : m <= n
  OBVIOUS
<1> DEFINE R == OpToRel(<, Nat)
<1>1. \A n, m \in Nat : n < m => <<n, m>> \in R
  BY DEF OpToRel
<1> HIDE DEF R
<1>2. IsWellFoundedOn(R, Nat)
  BY NatLessThanWellFounded DEF R
<1>3. PICK m \in T : \A n \in T : ~(<<n, m>> \in R)
  BY <1>2, WFMin
<1>4. \A n \in T : ~(n < m)
  BY <1>1, <1>3
<1> QED BY <1>4

\* f has what the first i sequences of ss are when they are joined.
Joins(f, ss) == f = [i \in 1..Len(ss) |-> IF i = 1 THEN ss[i] ELSE f[i - 1] \o ss[i]]

\* FlattenSeq joins them all.
LEMMA FlattenIs ==
    ASSUME NEW ss
    PROVE  FlattenSeq(ss) = IF Len(ss) = 0 THEN ss ELSE (CHOOSE f : Joins(f, ss))[Len(ss)]
  BY DEF FlattenSeq, Joins

\* There is one way to.
LEMMA JoinsUnique ==
    ASSUME NEW ss, Len(ss) \in Nat, NEW f, NEW g, Joins(f, ss), Joins(g, ss) PROVE f = g
<1> PICK n \in Nat : n = Len(ss)
  OBVIOUS
<1>1. /\ f = [i \in 1..n |-> f[i]] /\ g = [i \in 1..n |-> g[i]]
      /\ \A i \in 1..n : f[i] = IF i = 1 THEN ss[i] ELSE f[i - 1] \o ss[i]
      /\ \A i \in 1..n : g[i] = IF i = 1 THEN ss[i] ELSE g[i - 1] \o ss[i]
  BY DEF Joins
<1>2. \A i \in 1..n : f[i] = g[i]
  <2> SUFFICES ASSUME NEW k \in 1..n, f[k] # g[k] PROVE FALSE
    OBVIOUS
  <2> DEFINE T == {i \in 1..n : f[i] # g[i]}
  <2>1. PICK m \in T : \A i \in T : m <= i
    <3>1. T \in SUBSET Nat /\ k \in T
      OBVIOUS
    <3> QED BY <3>1, Least
  <2>2. m # 1
    BY <1>1, <2>1
  <2>3. m - 1 \in 1..n /\ m - 1 \notin T
    BY <2>1, <2>2
  <2>4. f[m - 1] = g[m - 1] /\ m \in 1..n /\ f[m] # g[m]
    BY <2>1, <2>3
  <2>5. f[m] = f[m - 1] \o ss[m] /\ g[m] = g[m - 1] \o ss[m]
    BY <1>1, <2>2, <2>4
  <2> QED BY <2>4, <2>5
<1> QED BY <1>1, <1>2

\* What there is to join f with one sequence more.
LEMMA JoinsMore ==
    ASSUME NEW S, NEW ss \in Seq(Seq(S)), NEW s \in Seq(S), NEW f, Joins(f, ss),
           NEW n, n = Len(ss) + 1
    PROVE  Joins([i \in 1..n |-> IF i = n THEN (IF n = 1 THEN s ELSE f[n - 1] \o s) ELSE f[i]],
                 Append(ss, s))
<1> DEFINE g == [i \in 1..n |-> IF i = n THEN (IF n = 1 THEN s ELSE f[n - 1] \o s) ELSE f[i]]
           q == Append(ss, s)
<1>1. n \in Nat /\ n >= 1 /\ Len(q) = n /\ q[n] = s /\ \A i \in 1..(n - 1) : q[i] = ss[i]
  OBVIOUS
<1>2. \A i \in 1..(n - 1) : f[i] = IF i = 1 THEN ss[i] ELSE f[i - 1] \o ss[i]
  <2>1. 1..Len(ss) = 1..(n - 1)
    OBVIOUS
  <2> QED BY <2>1 DEF Joins
<1> HIDE DEF q
<1>3. ASSUME NEW i \in 1..n PROVE g[i] = IF i = 1 THEN q[i] ELSE g[i - 1] \o q[i]
  <2>1. CASE i = n
    <3>1. CASE n = 1
      BY <1>1, <2>1, <3>1
    <3>2. CASE n # 1
      <4>1. n - 1 \in 1..n /\ n - 1 # n
        BY <1>1, <3>2
      <4>2. g[n - 1] = f[n - 1] /\ g[n] = f[n - 1] \o s
        BY <1>1, <3>2, <4>1
      <4> QED BY <1>1, <2>1, <3>2, <4>2
    <3> QED BY <3>1, <3>2
  <2>2. CASE i # n
    <3>1. i \in 1..(n - 1) /\ g[i] = f[i] /\ q[i] = ss[i]
      BY <1>1, <2>2
    <3>2. i # 1 => i - 1 \in 1..n /\ i - 1 # n /\ g[i - 1] = f[i - 1]
      BY <1>1, <2>2
    <3> QED BY <1>2, <3>1, <3>2
  <2> QED BY <2>1, <2>2
<1>4. g = [i \in 1..Len(q) |-> IF i = 1 THEN q[i] ELSE g[i - 1] \o q[i]]
  <2>1. g = [i \in 1..n |-> g[i]]
    OBVIOUS
  <2> HIDE DEF g
  <2> QED BY <1>1, <1>3, <2>1
<1> QED BY <1>4 DEF Joins, q

\* Any sequences can be joined.
LEMMA JoinsExists == ASSUME NEW S, NEW ss \in Seq(Seq(S)) PROVE \E f : Joins(f, ss)
<1> DEFINE T == {n \in Nat : \E x \in Seq(Seq(S)) : Len(x) = n /\ ~\E f : Joins(f, x)}
<1> SUFFICES ASSUME T # {} PROVE FALSE
  <2>1. Len(ss) \in Nat
    OBVIOUS
  <2> QED BY <2>1
<1>1. PICK m \in T : \A n \in T : m <= n
  <2>1. T \in SUBSET Nat
    OBVIOUS
  <2> QED BY <2>1, Least
<1>2. PICK x \in Seq(Seq(S)) : Len(x) = m /\ ~\E f : Joins(f, x)
  BY <1>1
<1>3. m # 0
  <2> SUFFICES ASSUME m = 0 PROVE FALSE
    OBVIOUS
  <2> DEFINE f == [i \in 1..0 |-> x[i]]
  <2>1. 1..0 = {} /\ 1..Len(x) = {}
    BY <1>2
  <2>2. f = [i \in 1..Len(x) |-> IF i = 1 THEN x[i] ELSE f[i - 1] \o x[i]]
    BY <2>1
  <2> QED BY <1>2, <2>2 DEF Joins
<1> DEFINE y == SubSeq(x, 1, m - 1)
<1>4. y \in Seq(Seq(S)) /\ Len(y) = m - 1 /\ m - 1 \in Nat /\ x[m] \in Seq(S)
  BY <1>1, <1>2, <1>3
<1>5. x = Append(y, x[m])
  BY <1>1, <1>2, <1>3, <1>4
<1>6. m - 1 \notin T
  BY <1>1, <1>4
<1>7. PICK f : Joins(f, y)
  BY <1>4, <1>6
<1>8. \E g : Joins(g, Append(y, x[m]))
  <2>1. PICK n : n = Len(y) + 1
    OBVIOUS
  <2> HIDE DEF y
  <2> QED BY <1>4, <1>7, <2>1, JoinsMore
<1> QED BY <1>2, <1>5, <1>8
\* Joining one sequence more.
LEMMA FlattenAppend ==
    ASSUME NEW S, NEW ss \in Seq(Seq(S)), NEW s \in Seq(S)
    PROVE  FlattenSeq(Append(ss, s)) = FlattenSeq(ss) \o s
<1> PICK n : n = Len(ss) + 1
  OBVIOUS
<1> PICK q : q = Append(ss, s)
  OBVIOUS
<1>1. PICK f : Joins(f, ss)
  BY JoinsExists
<1>2. PICK g : g = [i \in 1..n |-> IF i = n THEN (IF n = 1 THEN s ELSE f[n - 1] \o s) ELSE f[i]]
  OBVIOUS
<1>3. Joins(g, q)
  BY ZenonT(40), <1>1, <1>2, JoinsMore
<1>4. n \in Nat /\ n >= 1 /\ Len(q) = n /\ Len(ss) = n - 1 /\ Len(q) \in Nat
  OBVIOUS
<1>5. (CHOOSE h : Joins(h, q)) = g
  <2>1. Joins(CHOOSE h : Joins(h, q), q)
    BY <1>3
  <2> QED BY <1>3, <1>4, <2>1, JoinsUnique
<1>6. FlattenSeq(q) = g[n]
  <2>1. FlattenSeq(q) = IF Len(q) = 0 THEN q ELSE (CHOOSE h : Joins(h, q))[Len(q)]
    BY FlattenIs
  <2>2. FlattenSeq(q) = IF Len(q) = 0 THEN q ELSE g[Len(q)]
    BY <1>5, <2>1
  <2> QED BY <1>4, <2>2
<1>7. CASE n = 1
  <2>1. ss = <<>> /\ FlattenSeq(ss) = ss
    BY <1>4, <1>7, FlattenIs
  <2>2. g[n] = s
    BY <1>2, <1>7
  <2> QED BY <1>6, <2>1, <2>2
<1>8. CASE n # 1
  <2>1. (CHOOSE h : Joins(h, ss)) = f
    <3>1. Joins(CHOOSE h : Joins(h, ss), ss)
      BY <1>1
    <3> QED BY <1>1, <1>4, <3>1, JoinsUnique
  <2>2. FlattenSeq(ss) = f[n - 1]
    BY <1>4, <1>8, <2>1, FlattenIs
  <2>3. g[n] = f[n - 1] \o s
    BY <1>2, <1>4, <1>8
  <2> QED BY <1>6, <2>2, <2>3
<1> QED BY <1>7, <1>8

\* Every sequence is in a set that has the empty one and, with a sequence, those
\* that have one element more.
LEMMA BuiltUp ==
    ASSUME NEW S, NEW X, <<>> \in X,
           \A s \in X : \A e \in S : Append(s, e) \in X
    PROVE  Seq(S) \subseteq X
<1> SUFFICES ASSUME NEW u \in Seq(S), u \notin X PROVE FALSE
  OBVIOUS
<1> DEFINE T == {n \in Nat : \E x \in Seq(S) : Len(x) = n /\ x \notin X}
<1>1. PICK m \in T : \A n \in T : m <= n
  <2>1. T \in SUBSET Nat /\ Len(u) \in T
    BY LenProperties
  <2> QED BY <2>1, Least
<1>2. PICK x \in Seq(S) : Len(x) = m /\ x \notin X
  BY <1>1
<1>3. x # <<>>
  BY <1>2
<1>4. PICK y \in Seq(S), e \in S : x = Append(y, e)
  BY <1>3, SequenceEmptyOrAppend
<1>5. Len(y) \in Nat /\ m = Len(y) + 1
  BY <1>2, <1>4, AppendProperties, LenProperties
<1>6. y \in X
  <2> SUFFICES ASSUME y \notin X PROVE FALSE
    OBVIOUS
  <2>1. Len(y) \in T
    BY <1>5
  <2>2. m <= Len(y)
    BY <1>1, <2>1
  <2> QED BY <1>5, <2>2
<1> QED BY <1>2, <1>4, <1>6

\* No pieces put together are nothing, and pieces put together are of what they
\* are of.
LEMMA FlattenEmpty == FlattenSeq(<<>>) = <<>>
  BY FlattenIs

\* What FlattenSeq joins is a sequence of the same elements.
LEMMA FlattenTyped ==
    ASSUME NEW S, NEW ss \in Seq(Seq(S)) PROVE FlattenSeq(ss) \in Seq(S)
<1> DEFINE X == {x \in Seq(Seq(S)) : FlattenSeq(x) \in Seq(S)}
<1>1. <<>> \in X
  <2>1. <<>> \in Seq(Seq(S)) /\ <<>> \in Seq(S)
    BY EmptySeq
  <2> QED BY <2>1, FlattenEmpty
<1>2. ASSUME NEW x \in X, NEW e \in Seq(S) PROVE Append(x, e) \in X
  <2>1. FlattenSeq(Append(x, e)) = FlattenSeq(x) \o e
    BY FlattenAppend
  <2>2. FlattenSeq(x) \o e \in Seq(S)
    BY ConcatProperties
  <2>3. Append(x, e) \in Seq(Seq(S))
    BY AppendProperties
  <2> QED BY <2>1, <2>2, <2>3
<1> HIDE DEF X
<1>3. Seq(Seq(S)) \subseteq X
  BY <1>1, <1>2, BuiltUp
<1> QED BY <1>3 DEF X

-----------------------------------------------------------------------------
(* Parts so far *)

IsSequence(s) == \E S : s \in Seq(S)

\* Sequences of whatever elements, joined.
LEMMA Joined ==
    ASSUME NEW s, NEW t, IsSequence(s), IsSequence(t)
    PROVE  /\ IsSequence(s \o t) /\ Len(s) \in Nat /\ Len(t) \in Nat
           /\ Len(s \o t) = Len(s) + Len(t)
           /\ DOMAIN s = 1..Len(s) /\ DOMAIN (s \o t) = 1..(Len(s) + Len(t))
           /\ \A i \in 1..Len(s) : (s \o t)[i] = s[i]
           /\ \A i \in 1..Len(t) : (s \o t)[Len(s) + i] = t[i]
<1>1. PICK S, T : s \in Seq(S) /\ t \in Seq(T)
  BY DEF IsSequence
<1>2. s \in Seq(S \cup T) /\ t \in Seq(S \cup T)
  BY <1>1
<1>3. s \o t \in Seq(S \cup T)
  BY <1>2
<1> QED BY <1>2, <1>3 DEF IsSequence

\* Joining is associative.
LEMMA JoinedTwice ==
    ASSUME NEW s, NEW t, NEW u, IsSequence(s), IsSequence(t), IsSequence(u)
    PROVE  s \o (t \o u) = (s \o t) \o u
<1>1. PICK S, T, U : s \in Seq(S) /\ t \in Seq(T) /\ u \in Seq(U)
  BY DEF IsSequence
<1>2. PICK V : V = S \cup T \cup U
  OBVIOUS
<1>3. s \in Seq(V) /\ t \in Seq(V) /\ u \in Seq(V)
  BY <1>1, <1>2
<1> QED BY <1>3, ConcatAssociative

\* No element, or one.
LEMMA Short == \A x : IsSequence(<<>>) /\ IsSequence(<<x>>)
<1> TAKE x
<1>1. <<>> \in Seq({x}) /\ <<x>> \in Seq({x})
  OBVIOUS
<1> QED BY <1>1 DEF IsSequence

\* One element after another.
LEMMA Two == ASSUME NEW x, NEW y PROVE <<x>> \o <<y>> = <<x, y>>
<1>1. PICK S : S = {x, y}
  OBVIOUS
<1>2. x \in S /\ y \in S
  BY <1>1
<1>3. <<x>> \in Seq(S) /\ <<y>> \in Seq(S) /\ <<x, y>> \in Seq(S)
  BY <1>2
<1>4. PICK s, t, u : s = <<x>> /\ t = <<y>> /\ u = <<x, y>>
  OBVIOUS
<1>5. /\ Len(s) = 1 /\ Len(t) = 1 /\ Len(u) = 2
      /\ s[1] = x /\ t[1] = y /\ u[1] = x /\ u[2] = y
  BY <1>4
<1>6. s \o t \in Seq(S) /\ Len(s \o t) = 2 /\ (s \o t)[1] = x /\ (s \o t)[2] = y
  BY <1>3, <1>4, <1>5
<1>7. PICK v : v = s \o t
  OBVIOUS
<1>8. /\ v \in Seq(S) /\ u \in Seq(S) /\ Len(v) = 2 /\ Len(u) = 2
      /\ v[1] = u[1] /\ v[2] = u[2]
  <2>1. u \in Seq(S)
    BY <1>3, <1>4
  <2> QED BY <1>5, <1>6, <1>7, <2>1
<1>9. v = u
  <2>1. \A i \in 1..Len(v) : i = 1 \/ i = 2
    BY <1>8
  <2> QED BY <1>8, <2>1, SeqEqual
<1> QED BY <1>4, <1>7, <1>9

\* Two elements added one by one are added together.
LEMMA OneByOne ==
    ASSUME NEW s, IsSequence(s), NEW x, NEW y PROVE (s \o <<x>>) \o <<y>> = s \o <<x, y>>
<1>1. PICK t, u : t = <<x>> /\ u = <<y>>
  OBVIOUS
<1>2. IsSequence(t) /\ IsSequence(u) /\ t \o u = <<x, y>>
  BY <1>1, Short, Two
<1>3. s \o (t \o u) = (s \o t) \o u
  <2>1. IsSequence(t) /\ IsSequence(u)
    BY <1>2
  <2> QED BY <2>1, JoinedTwice
<1> QED BY <1>1, <1>2, <1>3

\* And three.
LEMMA Three ==
    ASSUME NEW s, IsSequence(s), NEW x, NEW y, NEW z
    PROVE  ((s \o <<x>>) \o <<y>>) \o <<z>> = s \o <<x, y, z>>
<1>1. PICK S, t, u, v : S = {x, y, z} /\ t = <<x, y>> /\ u = <<z>> /\ v = <<x, y, z>>
  OBVIOUS
<1>2. /\ t \in Seq(S) /\ Len(t) = 2 /\ t[1] = x /\ t[2] = y
      /\ u \in Seq(S) /\ Len(u) = 1 /\ u[1] = z
      /\ v \in Seq(S) /\ Len(v) = 3 /\ v[1] = x /\ v[2] = y /\ v[3] = z
  <2>1. x \in S /\ y \in S /\ z \in S
    BY <1>1
  <2> QED BY <1>1, <2>1
<1>3. PICK w : w = t \o u
  OBVIOUS
<1>4. w \in Seq(S) /\ Len(w) = 3 /\ w[1] = x /\ w[2] = y /\ w[3] = z
  <2>1. w \in Seq(S)
    BY <1>2, <1>3, ConcatProperties
  <2>0. IsSequence(t) /\ IsSequence(u)
    BY <1>2 DEF IsSequence
  <2>4. /\ Len(w) = Len(t) + Len(u)
        /\ \A i \in 1..Len(t) : w[i] = t[i]
        /\ \A i \in 1..Len(u) : w[Len(t) + i] = u[i]
    BY <1>3, <2>0, Joined
  <2>2. Len(w) = 3 /\ w[1] = t[1] /\ w[2] = t[2]
    BY <1>2, <2>4
  <2>3. w[3] = u[1]
    <3>1. w[2 + 1] = u[1]
      BY <1>2, <2>4
    <3> QED BY <3>1
  <2> QED BY <1>2, <2>1, <2>2, <2>3
<1>5. \A i \in 1..Len(w) : i = 1 \/ i = 2 \/ i = 3
  BY <1>4
<1>6. w = v
  BY <1>2, <1>4, <1>5, SeqEqual
<1>7. IsSequence(t) /\ IsSequence(u)
  BY <1>2 DEF IsSequence
<1>8. (s \o t) \o u = s \o (t \o u)
  BY <1>7, JoinedTwice
<1>9. (s \o <<x>>) \o <<y>> = s \o t
  BY <1>1, OneByOne
<1> QED BY <1>1, <1>3, <1>6, <1>8, <1>9

\* Two elements, or three.
LEMMA ShortToo == \A x, y, z : IsSequence(<<x, y>>) /\ IsSequence(<<x, y, z>>)
<1> TAKE x, y, z
<1>1. PICK S : S = {x, y, z}
  OBVIOUS
<1>2. x \in S /\ y \in S /\ z \in S
  BY <1>1
<1>3. <<x, y>> \in Seq(S) /\ <<x, y, z>> \in Seq(S)
  BY <1>2
<1> QED BY <1>3 DEF IsSequence

\* Nothing joined.
LEMMA NothingJoined == ASSUME NEW s, IsSequence(s) PROVE s \o <<>> = s
<1>1. PICK S : s \in Seq(S)
  BY DEF IsSequence
<1> QED BY <1>1, ConcatEmptySeq

\* To nothing.
LEMMA NothingBefore == ASSUME NEW s, IsSequence(s) PROVE <<>> \o s = s
<1>1. PICK S : s \in Seq(S)
  BY DEF IsSequence
<1> QED BY <1>1, ConcatEmptySeq

\* What a first piece that is empty leaves.
LEMMA FromNothing ==
    ASSUME NEW s, NEW t, NEW u, IsSequence(s), IsSequence(t), IsSequence(u)
    PROVE  s \o ((<<>> \o t) \o u) = (s \o t) \o u
<1>1. <<>> \o t = t
  BY NothingBefore
<1>2. s \o (t \o u) = (s \o t) \o u
  BY JoinedTwice
<1> QED BY <1>1, <1>2

\* These parts are well formed and not finished, and these blocks are open.
Fine(ps, open) ==
    /\ IsSequence(ps) /\ WellFormed(ps)
    /\ Opened(ps, Len(ps)) = open
    /\ \A i \in DOMAIN ps : ps[i].part # "finish"

\* What is open after some parts, in terms of the part before.
LEMMA OpenedIn ==
    ASSUME NEW ps, NEW n, NEW b
    PROVE  b \in Opened(ps, n) <=>
             \E i \in 1..n : /\ ps[i].part = "start" /\ b = <<ps[i].of, ps[i].id>>
                             /\ \A j \in (i + 1)..n :
                                   ~(ps[j].part = "end" /\ <<ps[j].of, ps[j].id>> = b)
<1>1. ASSUME NEW i, b = <<ps[i].of, ps[i].id>>, NEW j
      PROVE  (ps[j].of = ps[i].of /\ ps[j].id = ps[i].id) <=> <<ps[j].of, ps[j].id>> = b
  BY <1>1
<1> QED BY <1>1 DEF Opened

\* The same parts, so far, leave the same open.
LEMMA OpenedAlike ==
    ASSUME NEW ps, NEW qs, NEW n \in Nat, \A i \in 1..n : qs[i] = ps[i]
    PROVE  Opened(qs, n) = Opened(ps, n)
<1>1. ASSUME NEW i \in 1..n, NEW j \in (i + 1)..n PROVE j \in 1..n
  BY <1>1
<1>2. ASSUME NEW b PROVE b \in Opened(qs, n) <=> b \in Opened(ps, n)
  BY <1>1, OpenedIn
<1> QED BY <1>2

\* One part more.
LEMMA OpenedMore ==
    ASSUME NEW ps, NEW n \in Nat
    PROVE  LET b == <<ps[n + 1].of, ps[n + 1].id>> IN
           Opened(ps, n + 1) = CASE ps[n + 1].part = "start" -> Opened(ps, n) \cup {b}
                                 [] ps[n + 1].part = "end"   -> Opened(ps, n) \ {b}
                                 [] OTHER                    -> Opened(ps, n)
<1> DEFINE ended(x, j) == ps[j].part = "end" /\ <<ps[j].of, ps[j].id>> = x
           begun(x, i) == ps[i].part = "start" /\ x = <<ps[i].of, ps[i].id>>
<1>0. \A m, x : x \in Opened(ps, m) <=>
                   \E i \in 1..m : begun(x, i) /\ \A j \in (i + 1)..m : ~ended(x, j)
  BY OpenedIn
<1>1. \A x : begun(x, n + 1) => ~ended(x, n + 1)
  OBVIOUS
<1> HIDE DEF ended, begun
<1>2. \A x : x \in Opened(ps, n + 1) <=> \/ begun(x, n + 1)
                                         \/ x \in Opened(ps, n) /\ ~ended(x, n + 1)
  BY <1>0
<1> QED BY <1>1, <1>2 DEF ended, begun

\* These parts are well formed, whether they are finished or not.
Whole(ps) == IsSequence(ps) /\ WellFormed(ps)

\* What one part more asks of the blocks that are open, and what it leaves open.
Allowed(open, p) == /\ p.part = "start" => <<p.of, p.id>> \notin open
                    /\ p.part \in {"delta", "end"} => <<p.of, p.id>> \in open
                    /\ p.part = "finish" => open = {}
Leaves(open, p) == CASE p.part = "start" -> open \cup {<<p.of, p.id>>}
                     [] p.part = "end"   -> open \ {<<p.of, p.id>>}
                     [] OTHER            -> open

\* One allowed part more leaves what it says open; after a finish nothing follows.
LEMMA OnePartMore ==
    ASSUME NEW ps, NEW open, NEW p, Fine(ps, open), Allowed(open, p)
    PROVE  /\ Whole(ps \o <<p>>)
           /\ p.part # "finish" => Fine(ps \o <<p>>, Leaves(open, p))
<1>1. PICK qs, n : qs = ps \o <<p>> /\ n = Len(ps)
  OBVIOUS
<1>2. /\ IsSequence(qs) /\ n \in Nat /\ DOMAIN ps = 1..n /\ DOMAIN qs = 1..(n + 1)
      /\ Len(qs) = n + 1
      /\ \A i \in 1..n : qs[i] = ps[i]
      /\ qs[n + 1] = p
  <2>1. IsSequence(ps) /\ IsSequence(<<p>>)
    BY Short DEF Fine
  <2>2. Len(<<p>>) = 1 /\ <<p>>[1] = p
    OBVIOUS
  <2> QED BY <1>1, <2>1, <2>2, Joined
<1>3. \A m \in 0..n : Opened(qs, m) = Opened(ps, m)
  BY <1>2, OpenedAlike
<1>4. Opened(qs, n) = open
  BY <1>1, <1>2, <1>3 DEF Fine
<1>5. Opened(qs, n + 1) = Leaves(open, p)
  BY <1>2, <1>4, OpenedMore DEF Leaves
<1>6. WellFormed(qs)
  <2> SUFFICES ASSUME NEW i \in 1..(n + 1)
               PROVE  /\ qs[i].part = "start" => <<qs[i].of, qs[i].id>> \notin Opened(qs, i - 1)
                      /\ qs[i].part \in {"delta", "end"} =>
                            <<qs[i].of, qs[i].id>> \in Opened(qs, i - 1)
                      /\ qs[i].part = "finish" => Opened(qs, i - 1) = {} /\ i = n + 1
    BY <1>2 DEF WellFormed
  <2>1. CASE i = n + 1
    <3>1. qs[i] = p /\ Opened(qs, i - 1) = open
      BY <1>2, <1>4, <2>1
    <3> QED BY <2>1, <3>1 DEF Allowed
  <2>2. CASE i \in 1..n
    <3>1. qs[i] = ps[i] /\ i - 1 \in 0..n /\ i \in DOMAIN ps
      BY <1>2, <2>2
    <3>2. Opened(qs, i - 1) = Opened(ps, i - 1)
      BY <1>3, <3>1
    <3>3. /\ ps[i].part = "start" => <<ps[i].of, ps[i].id>> \notin Opened(ps, i - 1)
          /\ ps[i].part \in {"delta", "end"} => <<ps[i].of, ps[i].id>> \in Opened(ps, i - 1)
          /\ ps[i].part # "finish"
      BY <3>1 DEF Fine, WellFormed
    <3> QED BY <3>1, <3>2, <3>3
  <2> QED BY <1>2, <2>1, <2>2
<1>7. p.part # "finish" => \A i \in 1..(n + 1) : qs[i].part # "finish"
  <2>1. \A i \in 1..(n + 1) : i \in 1..n \/ i = n + 1
    BY <1>2
  <2> QED BY <1>2, <2>1 DEF Fine
<1> QED BY <1>1, <1>2, <1>5, <1>6, <1>7 DEF Fine, Whole

\* The parts a decoder yields, one by one.
LEMMA PartBegins ==
    ASSUME NEW ps, NEW open, Fine(ps, open), NEW of, NEW id, NEW name, <<of, id>> \notin open
    PROVE  Fine(ps \o <<Start(of, id, name)>>, open \cup {<<of, id>>})
<1>1. PICK p : p = Start(of, id, name)
  OBVIOUS
<1>2. p.part = "start" /\ p.of = of /\ p.id = id
  BY <1>1 DEF Start
<1>3. Allowed(open, p) /\ Leaves(open, p) = open \cup {<<of, id>>}
  BY <1>2 DEF Allowed, Leaves
<1> QED BY <1>1, <1>2, <1>3, OnePartMore

\* A part of an open block.
LEMMA GoesOn ==
    ASSUME NEW ps, NEW open, Fine(ps, open), NEW of, NEW id, NEW text, <<of, id>> \in open
    PROVE  Fine(ps \o <<Delta(of, id, text)>>, open)
<1>1. PICK p : p = Delta(of, id, text)
  OBVIOUS
<1>2. p.part = "delta" /\ p.of = of /\ p.id = id
  BY <1>1 DEF Delta
<1>3. Allowed(open, p) /\ Leaves(open, p) = open
  BY <1>2 DEF Allowed, Leaves
<1> QED BY <1>1, <1>2, <1>3, OnePartMore

\* The end of an open block.
LEMMA Closes ==
    ASSUME NEW ps, NEW open, Fine(ps, open), NEW of, NEW id, <<of, id>> \in open,
           NEW p, p.part = "end" /\ p.of = of /\ p.id = id
    PROVE  Fine(ps \o <<p>>, open \ {<<of, id>>})
<1>1. Allowed(open, p) /\ Leaves(open, p) = open \ {<<of, id>>} /\ p.part # "finish"
  BY DEF Allowed, Leaves
<1> QED BY <1>1, OnePartMore

\* The one block there is.
LEMMA BeginsOne ==
    ASSUME NEW ps, Fine(ps, {}), NEW p, p.part = "start", NEW b, b = <<p.of, p.id>>
    PROVE  Fine(ps \o <<p>>, {b})
<1>1. Allowed({}, p) /\ Leaves({}, p) = {b} /\ p.part # "finish"
  BY DEF Allowed, Leaves
<1> QED BY <1>1, OnePartMore

\* It ends.
LEMMA ClosesOne ==
    ASSUME NEW ps, NEW b, Fine(ps, {b}), NEW p, p.part = "end", b = <<p.of, p.id>>
    PROVE  Fine(ps \o <<p>>, {})
<1>1. Allowed({b}, p) /\ Leaves({b}, p) = {} /\ p.part # "finish"
  BY DEF Allowed, Leaves
<1> QED BY <1>1, OnePartMore

\* It goes on.
LEMMA GoesOnOne ==
    ASSUME NEW ps, NEW b, Fine(ps, {b}), NEW p, p.part = "delta", b = <<p.of, p.id>>
    PROVE  Fine(ps \o <<p>>, {b})
<1>1. Allowed({b}, p) /\ Leaves({b}, p) = {b} /\ p.part # "finish"
  BY DEF Allowed, Leaves
<1> QED BY <1>1, OnePartMore

\* With nothing open a stream can finish.
LEMMA Finishes ==
    ASSUME NEW ps, Fine(ps, {}), NEW reason PROVE Whole(ps \o <<Finish(reason)>>)
<1>1. Allowed({}, Finish(reason))
  BY DEF Allowed, Finish
<1> QED BY <1>1, OnePartMore

\* An error leaves what is open as it is.
LEMMA Fails ==
    ASSUME NEW ps, NEW open, Fine(ps, open) PROVE Fine(ps \o <<Failure>>, open)
<1>1. Allowed(open, Failure) /\ Leaves(open, Failure) = open /\ Failure.part # "finish"
  BY DEF Allowed, Leaves, Failure
<1> QED BY <1>1, OnePartMore

\* Nothing, and no parts at all.
LEMMA NoPart ==
    /\ Fine(<<>>, {}) /\ Whole(<<>>)
    /\ \A ps, open : Fine(ps, open) => ps \o <<>> = ps /\ Whole(ps)
<1>1. DOMAIN <<>> = {} /\ Len(<<>>) = 0 /\ IsSequence(<<>>)
  <2>1. DOMAIN <<>> = {} /\ Len(<<>>) = 0
    OBVIOUS
  <2> QED BY <2>1, Short
<1>2. Opened(<<>>, 0) = {}
  BY DEF Opened
<1> QED BY <1>1, <1>2, NothingJoined DEF Fine, WellFormed, Whole

-----------------------------------------------------------------------------
(* What a server may send after what *)

\* In s, what follows an event is related to it by R.
Linked(s, R) == \A i \in 1..(Len(s) - 1) : <<s[i], s[i + 1]>> \in R

\* One event alone.
LEMMA OneLinked ==
    ASSUME NEW E, NEW R, NEW e \in E
    PROVE  /\ <<e>> \in Seq(E) /\ <<e>> # <<>> /\ <<e>>[1] = e /\ Last(<<e>>) = e
           /\ Linked(<<e>>, R)
  BY DEF Last, Linked

\* Two pieces of a wire, of which the second may be nothing.
LEMMA LinkedJoin ==
    ASSUME NEW E, NEW R, NEW s \in Seq(E), NEW t \in Seq(E), s # <<>>,
           Linked(s, R), Linked(t, R), t # <<>> => <<Last(s), t[1]>> \in R
    PROVE  /\ s \o t \in Seq(E) /\ s \o t # <<>> /\ Linked(s \o t, R)
           /\ (s \o t)[1] = s[1]
           /\ Last(s \o t) = IF t = <<>> THEN Last(s) ELSE Last(t)
<1>1. PICK m, n, u : m = Len(s) /\ n = Len(t) /\ u = s \o t
  OBVIOUS
<1>2. /\ m \in Nat /\ n \in Nat /\ m # 0 /\ (t = <<>> <=> n = 0)
      /\ u \in Seq(E) /\ Len(u) = m + n
      /\ \A i \in 1..m : u[i] = s[i]
      /\ \A i \in 1..n : u[m + i] = t[i]
  BY <1>1
<1>3. u # <<>> /\ u[1] = s[1]
  BY <1>2
<1>4. n = 0 => u[m + n] = s[m]
  BY <1>2
<1>5. n # 0 => u[m + n] = t[n]
  BY <1>2
<1>6. ASSUME NEW i \in 1..(m + n - 1) PROVE <<u[i], u[i + 1]>> \in R
  <2>1. CASE i \in 1..(m - 1)
    <3>1. u[i] = s[i] /\ u[i + 1] = s[i + 1]
      BY <1>2, <2>1
    <3> QED BY <1>1, <2>1, <3>1 DEF Linked
  <2>2. CASE i = m
    <3>1. n # 0 /\ 1 \in 1..n
      BY <1>2, <2>2
    <3>2. u[i] = s[m] /\ u[i + 1] = t[1]
      BY <1>2, <2>2, <3>1
    <3> QED BY <1>1, <1>2, <3>1, <3>2 DEF Last
  <2>3. CASE i \in (m + 1)..(m + n - 1)
    <3>1. PICK j \in Int : j = i - m
      BY <1>2
    <3>2. j \in 1..(n - 1) /\ i = m + j
      BY <1>2, <2>3, <3>1
    <3>3. u[i] = t[j] /\ u[i + 1] = t[j + 1]
      <4>1. j \in 1..n /\ j + 1 \in 1..n /\ i + 1 = m + (j + 1)
        BY <1>2, <3>2
      <4> QED BY <1>2, <3>2, <4>1
    <3> QED BY <1>1, <3>2, <3>3 DEF Linked
  <2> QED BY <1>2, <2>1, <2>2, <2>3
<1>7. Linked(u, R)
  BY <1>2, <1>6 DEF Linked
<1> QED BY <1>1, <1>2, <1>3, <1>4, <1>5, <1>7 DEF Last

\* What is left of a wire when the first event is read.
LEMMA LinkedTail ==
    ASSUME NEW E, NEW R, NEW w \in Seq(E), w # <<>>, Linked(w, R)
    PROVE  /\ w[1] \in E /\ SubSeq(w, 2, Len(w)) \in Seq(E)
           /\ Linked(SubSeq(w, 2, Len(w)), R)
           /\ SubSeq(w, 2, Len(w)) # <<>> =>
                 /\ <<w[1], SubSeq(w, 2, Len(w))[1]>> \in R
                 /\ SubSeq(w, 2, Len(w))[1] \in E
           /\ SubSeq(w, 1, 1)[1] = w[1]
<1>1. PICK t, n : t = SubSeq(w, 2, Len(w)) /\ n = Len(w)
  OBVIOUS
<1>2. n \in Nat /\ n # 0
  BY <1>1
<1>3. t \in Seq(E) /\ Len(t) = n - 1 /\ \A i \in 1..(n - 1) : t[i] = w[i + 1]
  BY <1>1, <1>2
<1>4. \A i \in 1..(n - 1) : <<w[i], w[i + 1]>> \in R
  BY <1>1 DEF Linked
<1>5. ASSUME NEW i \in 1..(Len(t) - 1) PROVE <<t[i], t[i + 1]>> \in R
  <2>1. i \in 1..(n - 1) /\ i + 1 \in 1..(n - 1)
    BY <1>2, <1>3
  <2>2. t[i] = w[i + 1] /\ t[i + 1] = w[(i + 1) + 1]
    BY <1>3, <2>1
  <2> QED BY <1>4, <2>1, <2>2
<1>6. Linked(t, R)
  BY <1>5 DEF Linked
<1>7. w[1] \in E
  BY <1>1, <1>2
<1>8. ASSUME t # <<>> PROVE <<w[1], t[1]>> \in R /\ t[1] \in E
  <2>1. Len(t) # 0
    BY <1>3, <1>8
  <2>2. 1 \in 1..(n - 1)
    BY <1>2, <1>3, <2>1
  <2>3. t[1] = w[2] /\ <<w[1], w[2]>> \in R
    BY <1>3, <1>4, <2>2
  <2> QED BY <1>3, <2>1, <2>2, <2>3
<1>9. SubSeq(w, 1, 1)[1] = w[1]
  BY <1>1, <1>2
<1> QED BY <1>1, <1>3, <1>6, <1>7, <1>8, <1>9

\* Pieces of which each follows the one before it.
Chained(ss, R) ==
    /\ \A i \in 1..Len(ss) : ss[i] # <<>> /\ Linked(ss[i], R)
    /\ \A i \in 1..(Len(ss) - 1) : <<Last(ss[i]), ss[i + 1][1]>> \in R

\* Without the last piece.
LEMMA ChainedLess ==
    ASSUME NEW S, NEW R, NEW x \in Seq(S), NEW e \in S, Chained(Append(x, e), R)
    PROVE  /\ Chained(x, R) /\ e # <<>> /\ Linked(e, R)
           /\ x # <<>> => <<Last(x[Len(x)]), e[1]>> \in R
<1>1. PICK n, y : n = Len(x) /\ y = Append(x, e)
  OBVIOUS
<1>2. /\ n \in Nat /\ Len(y) = n + 1 /\ y[n + 1] = e /\ \A i \in 1..n : y[i] = x[i]
      /\ x # <<>> => n # 0
  BY <1>1
<1>3. /\ \A i \in 1..(n + 1) : y[i] # <<>> /\ Linked(y[i], R)
      /\ \A i \in 1..n : <<Last(y[i]), y[i + 1][1]>> \in R
  BY <1>1, <1>2 DEF Chained
<1>4. \A i \in 1..n : i \in 1..(n + 1)
  BY <1>2
<1>5. \A i \in 1..(n - 1) : i \in 1..n /\ i + 1 \in 1..n
  BY <1>2
<1>6. Chained(x, R)
  BY <1>1, <1>2, <1>3, <1>4, <1>5 DEF Chained
<1>7. e # <<>> /\ Linked(e, R)
  BY <1>2, <1>3
<1>8. ASSUME x # <<>> PROVE <<Last(x[n]), e[1]>> \in R
  <2>1. n \in 1..n
    BY <1>2, <1>8
  <2> QED BY <1>2, <1>3, <2>1
<1> QED BY <1>1, <1>6, <1>7, <1>8

\* Such pieces, joined, are linked, and not empty.
LEMMA FlattenLinked ==
    ASSUME NEW E, NEW R, NEW ss \in Seq(Seq(E)), Chained(ss, R), ss # <<>>
    PROVE  /\ FlattenSeq(ss) \in Seq(E) /\ FlattenSeq(ss) # <<>> /\ Linked(FlattenSeq(ss), R)
           /\ FlattenSeq(ss)[1] = ss[1][1] /\ Last(FlattenSeq(ss)) = Last(ss[Len(ss)])
<1> DEFINE Good(x) == /\ FlattenSeq(x) # <<>> /\ Linked(FlattenSeq(x), R)
                      /\ FlattenSeq(x)[1] = x[1][1] /\ Last(FlattenSeq(x)) = Last(x[Len(x)])
           X == {x \in Seq(Seq(E)) : Chained(x, R) => x = <<>> \/ Good(x)}
<1>1. <<>> \in X
  BY EmptySeq
<1>2. ASSUME NEW x \in X, NEW e \in Seq(E) PROVE Append(x, e) \in X
  <2>0. x \in Seq(Seq(E)) /\ Append(x, e) \in Seq(Seq(E))
    BY AppendProperties
  <2> SUFFICES ASSUME Chained(Append(x, e), R) PROVE Good(Append(x, e))
    BY <2>0
  <2>1. /\ Chained(x, R) /\ e # <<>> /\ Linked(e, R)
        /\ x # <<>> => <<Last(x[Len(x)]), e[1]>> \in R
    BY <2>0, ChainedLess
  <2>2. PICK f : f = FlattenSeq(x)
    OBVIOUS
  <2>3. f \in Seq(E) /\ FlattenSeq(Append(x, e)) = f \o e
    BY <2>0, <2>2, FlattenTyped, FlattenAppend
  <2>4. Append(x, e)[Len(Append(x, e))] = e
    BY <2>0, AppendProperties
  <2>5. CASE x = <<>>
    <3>1. f = <<>>
      BY <2>2, <2>5, FlattenEmpty
    <3>2. f \o e = e
      BY <3>1, ConcatEmptySeq
    <3>3. Append(x, e)[1] = e
      BY <2>0, <2>5
    <3> QED BY <2>1, <2>3, <2>4, <3>2, <3>3
  <2>6. CASE x # <<>>
    <3>1. f # <<>> /\ Linked(f, R) /\ f[1] = x[1][1] /\ Last(f) = Last(x[Len(x)])
      BY <2>1, <2>2, <2>6
    <3>2. /\ f \o e # <<>> /\ Linked(f \o e, R)
          /\ (f \o e)[1] = f[1] /\ Last(f \o e) = Last(e)
      BY <2>1, <2>3, <2>6, <3>1, LinkedJoin
    <3>3. Append(x, e)[1] = x[1]
      BY <2>0, <2>6
    <3> QED BY <2>3, <2>4, <3>1, <3>2, <3>3
  <2> QED BY <2>5, <2>6
<1> HIDE DEF X
<1>3. Seq(Seq(E)) \subseteq X
  BY <1>1, <1>2, BuiltUp
<1>4. Good(ss)
  BY <1>3 DEF X
<1> QED BY <1>4, FlattenTyped

-----------------------------------------------------------------------------
(* Anthropic: one block after the other *)

AnthropicBlock == TextContent \cup CallContent \cup ReasoningContent

AnthropicCell == [type : {"message_start", "block_start", "delta", "signature", "block_stop",
                          "message_stop"}, block : AnthropicBlock, text : Seq(STRING)]
                 \cup [type : {"message_delta"}, stop : STRING] \cup [type : {"error"}]

AnthropicState(s) ==
    \E T, S, R : s \in [in : {{}, {"text"}, {"call"}, {"reasoning"}}, tool : T,
                        signature : S, reason : R]

Sealed(b) == b.type = "reasoning" /\ b.redacted # <<>>

\* Event f may follow e.
AnthropicAfter(e, f) ==
    /\ e.type \notin {"message_stop", "error"} /\ f.type # "message_start"
    /\ f.type \in {"block_start", "message_delta"} => e.type \in {"message_start", "block_stop"}
    /\ f.type \in {"delta", "signature", "block_stop"} =>
          e.type \in {"block_start", "delta", "signature"} /\ e.block = f.block
    /\ f.type \in {"delta", "signature"} => ~Sealed(f.block)
    /\ f.type = "message_stop" => e.type = "message_delta"

\* Which flag a block sets, and which block a flag stands for.
Flag(b, o) == IF b.type = "call" /\ o.structured THEN "text" ELSE b.type
AnthropicOpen(s) == {<<k, IF k = "call" THEN s.tool ELSE "0">> : k \in s.in}

\* The decoder is in the block that the next event goes on with.
InBlock(s, b, o) == s.in = {Flag(b, o)} /\ (Flag(b, o) = "call" => s.tool = b.id)
AnthropicReady(s, e, o) ==
    /\ e.type \in {"message_start", "block_start", "message_delta", "message_stop"} => s.in = {}
    /\ e.type \in {"delta", "signature"} => ~Sealed(e.block) /\ InBlock(s, e.block, o)
    /\ e.type = "block_stop" => IF Sealed(e.block) THEN s.in = {} ELSE InBlock(s, e.block, o)

\* The one flag that is set says which block is open.
LEMMA AnthropicOpens ==
    ASSUME NEW s
    PROVE  /\ s.in = {} => AnthropicOpen(s) = {}
           /\ s.in = {"text"} => AnthropicOpen(s) = {<<"text", "0">>}
           /\ s.in = {"reasoning"} => AnthropicOpen(s) = {<<"reasoning", "0">>}
           /\ s.in = {"call"} => AnthropicOpen(s) = {<<"call", s.tool>>}
  BY DEF AnthropicOpen

\* A flag is set, or all are cleared.
LEMMA FlagSet ==
    ASSUME NEW s, AnthropicState(s), s.in = {}, NEW k \in {"text", "call", "reasoning"},
           NEW tool, NEW signature
    PROVE  LET t == [s EXCEPT !.in = @ \cup {k}]
               v == [s EXCEPT !.in = @ \cup {k}, !.signature = signature]
           IN  /\ AnthropicState(t) /\ t.in = {k}
               /\ AnthropicState(v) /\ v.in = {k}
<1>1. PICK T, S, R : s \in [in : {{}, {"text"}, {"call"}, {"reasoning"}}, tool : T,
                            signature : S, reason : R]
  BY DEF AnthropicState
<1>2. s.in \cup {k} = {k} /\ {k} \in {{}, {"text"}, {"call"}, {"reasoning"}}
  OBVIOUS
<1>3. PICK U, V : U = T \cup {tool} /\ V = S \cup {signature}
  OBVIOUS
<1>4. \A x : x \in [in : {{}, {"text"}, {"call"}, {"reasoning"}}, tool : U,
                   signature : V, reason : R] => AnthropicState(x)
  BY DEF AnthropicState
<1>5. /\ s \in [in : {{}, {"text"}, {"call"}, {"reasoning"}}, tool : U,
                signature : V, reason : R]
      /\ tool \in U /\ signature \in V
  BY <1>1, <1>3
<1> QED BY <1>2, <1>4, <1>5

WithTool(s, k, tool) == [s EXCEPT !.in = @ \cup {k}, !.tool = tool]

\* A block begins: its flag is set, and its id kept.
LEMMA FlagAndTool ==
    ASSUME NEW s, AnthropicState(s), s.in = {}, NEW k \in {"text", "call", "reasoning"}, NEW tool
    PROVE  LET u == WithTool(s, k, tool)
           IN  AnthropicState(u) /\ u.in = {k} /\ u.tool = tool
<1>1. PICK T, S, R : s \in [in : {{}, {"text"}, {"call"}, {"reasoning"}}, tool : T,
                            signature : S, reason : R]
  BY DEF AnthropicState
<1>2. s.in \cup {k} = {k} /\ {k} \in {{}, {"text"}, {"call"}, {"reasoning"}}
  OBVIOUS
<1>3. PICK U : U = T \cup {tool}
  OBVIOUS
<1>4. \A x : x \in [in : {{}, {"text"}, {"call"}, {"reasoning"}}, tool : U,
                   signature : S, reason : R] => AnthropicState(x)
  BY DEF AnthropicState
<1>5. /\ s \in [in : {{}, {"text"}, {"call"}, {"reasoning"}}, tool : U,
                signature : S, reason : R]
      /\ tool \in U
  BY <1>1, <1>3
<1>6. PICK u : u = [s EXCEPT !.in = @ \cup {k}, !.tool = tool]
  OBVIOUS
<1>7. AnthropicState(u) /\ u.in = {k} /\ u.tool = tool
  BY <1>2, <1>4, <1>5, <1>6
<1> QED BY <1>6, <1>7 DEF WithTool

\* A block ends: its flag is cleared.
LEMMA FlagCleared ==
    ASSUME NEW s, AnthropicState(s), NEW k, s.in = {k}, NEW tool, NEW signature
    PROVE  LET t == [s EXCEPT !.in = @ \ {k}]
               v == [s EXCEPT !.in = @ \ {k}, !.signature = signature]
           IN  AnthropicState(t) /\ t.in = {} /\ AnthropicState(v) /\ v.in = {}
<1>1. PICK T, S, R : s \in [in : {{}, {"text"}, {"call"}, {"reasoning"}}, tool : T,
                            signature : S, reason : R]
  BY DEF AnthropicState
<1>2. s.in \ {k} = {} /\ {} \in {{}, {"text"}, {"call"}, {"reasoning"}}
  OBVIOUS
<1>3. PICK U, V : U = T \cup {tool} /\ V = S \cup {signature}
  OBVIOUS
<1>4. \A x : x \in [in : {{}, {"text"}, {"call"}, {"reasoning"}}, tool : U,
                   signature : V, reason : R] => AnthropicState(x)
  BY DEF AnthropicState
<1>5. /\ s \in [in : {{}, {"text"}, {"call"}, {"reasoning"}}, tool : U,
                signature : V, reason : R]
      /\ tool \in U /\ signature \in V
  BY <1>1, <1>3
<1> QED BY <1>2, <1>4, <1>5

\* What a block can be.
LEMMA BlockTyped ==
    ASSUME NEW b \in AnthropicBlock PROVE b.type \in {"text", "call", "reasoning"}
  BY DEF AnthropicBlock, TextContent, CallContent, ReasoningContent

\* A block begins ...
LEMMA AnthropicStarts ==
    ASSUME NEW s, AnthropicState(s), NEW b \in AnthropicBlock, NEW o, s.in = {},
           NEW ps, Fine(ps, {})
    PROVE  LET d == AnthropicBlockStart(s, b, o)
           IN  /\ AnthropicState(d.st)
               /\ Fine(ps \o d.parts, AnthropicOpen(d.st))
               /\ IF Sealed(b) THEN d.st.in = {} ELSE InBlock(d.st, b, o)
<1>1. PICK d : d = AnthropicBlockStart(s, b, o)
  OBVIOUS
<1>2. b.type \in {"text", "call", "reasoning"}
  BY BlockTyped
<1>3. CASE b.type = "text"
  <2>1. PICK t, p : t = [s EXCEPT !.in = @ \cup {"text"}] /\ p = Start("text", "0", "")
    OBVIOUS
  <2>2. d = Step(t, <<p>>)
    BY <1>1, <1>3, <2>1 DEF AnthropicBlockStart
  <2>3. d.st = t /\ d.parts = <<p>>
    BY <2>2 DEF Step
  <2>4. AnthropicState(t) /\ t.in = {"text"}
    BY <2>1, FlagSet
  <2>5. p.part = "start" /\ <<p.of, p.id>> = <<"text", "0">>
    BY <2>1 DEF Start
  <2>6. Fine(ps \o <<p>>, AnthropicOpen(t))
    <3>1. Fine(ps \o <<p>>, {<<"text", "0">>})
      BY <2>5, BeginsOne
    <3>2. AnthropicOpen(t) = {<<"text", "0">>}
      BY <2>4, AnthropicOpens
    <3> QED BY <3>1, <3>2
  <2>7. ~Sealed(b) /\ Flag(b, o) = "text"
    BY <1>3 DEF Sealed, Flag
  <2> QED BY <1>1, <2>3, <2>4, <2>6, <2>7 DEF InBlock
<1>4. CASE b.type = "call" /\ o.structured
  <2>1. PICK t, p : /\ t = [s EXCEPT !.in = @ \cup {"text"}, !.tool = b.id]
                    /\ p = Start("text", "0", "")
    OBVIOUS
  <2>2. d = Step(t, <<p>>)
    BY <1>1, <1>4, <2>1 DEF AnthropicBlockStart
  <2>3. d.st = t /\ d.parts = <<p>>
    BY <2>2 DEF Step
  <2>4. AnthropicState(t) /\ t.in = {"text"}
    <3>1. t = WithTool(s, "text", b.id)
      BY <2>1 DEF WithTool
    <3> QED BY <3>1, FlagAndTool
  <2>5. p.part = "start" /\ <<p.of, p.id>> = <<"text", "0">>
    BY <2>1 DEF Start
  <2>6. Fine(ps \o <<p>>, AnthropicOpen(t))
    <3>1. Fine(ps \o <<p>>, {<<"text", "0">>})
      BY <2>5, BeginsOne
    <3>2. AnthropicOpen(t) = {<<"text", "0">>}
      BY <2>4, AnthropicOpens
    <3> QED BY <3>1, <3>2
  <2>7. ~Sealed(b) /\ Flag(b, o) = "text"
    BY <1>4 DEF Sealed, Flag
  <2> QED BY <1>1, <2>3, <2>4, <2>6, <2>7 DEF InBlock
<1>5. CASE b.type = "call" /\ ~o.structured
  <2>1. PICK t, p : /\ t = [s EXCEPT !.in = @ \cup {"call"}, !.tool = b.id]
                    /\ p = Start("call", b.id, b.name)
    OBVIOUS
  <2>2. d = Step(t, <<p>>)
    BY <1>1, <1>5, <2>1 DEF AnthropicBlockStart
  <2>3. d.st = t /\ d.parts = <<p>>
    BY <2>2 DEF Step
  <2>4. AnthropicState(t) /\ t.in = {"call"} /\ t.tool = b.id
    <3>1. t = WithTool(s, "call", b.id)
      BY <2>1 DEF WithTool
    <3> QED BY <3>1, FlagAndTool
  <2>5. p.part = "start" /\ <<p.of, p.id>> = <<"call", t.tool>>
    BY <2>1, <2>4 DEF Start
  <2>6. Fine(ps \o <<p>>, AnthropicOpen(t))
    <3>1. Fine(ps \o <<p>>, {<<"call", t.tool>>})
      BY <2>5, BeginsOne
    <3>2. AnthropicOpen(t) = {<<"call", t.tool>>}
      BY <2>4, AnthropicOpens
    <3> QED BY <3>1, <3>2
  <2>7. ~Sealed(b) /\ Flag(b, o) = "call"
    BY <1>5 DEF Sealed, Flag
  <2> QED BY <1>1, <2>3, <2>4, <2>6, <2>7 DEF InBlock
<1>6. CASE b.type = "reasoning" /\ b.redacted # <<>>
  <2>1. PICK q, p : /\ q = Start("reasoning", "0", "")
                    /\ p = [End("reasoning", "0") EXCEPT !.redacted = b.redacted]
    OBVIOUS
  <2>2. d = Step(s, <<q, p>>)
    BY <1>1, <1>6, <2>1 DEF AnthropicBlockStart
  <2>3. d.st = s /\ d.parts = <<q, p>>
    BY <2>2 DEF Step
  <2>4. /\ q.part = "start" /\ <<q.of, q.id>> = <<"reasoning", "0">>
        /\ p.part = "end" /\ <<p.of, p.id>> = <<"reasoning", "0">>
    BY <2>1 DEF Start, End
  <2>5. Fine(ps \o <<q>>, {<<"reasoning", "0">>})
    BY <2>4, BeginsOne
  <2>6. Fine((ps \o <<q>>) \o <<p>>, {})
    BY <2>4, <2>5, ClosesOne
  <2>7. (ps \o <<q>>) \o <<p>> = ps \o <<q, p>>
    <3>1. IsSequence(ps)
      BY DEF Fine
    <3> QED BY <3>1, OneByOne
  <2>8. Sealed(b)
    BY <1>6 DEF Sealed
  <2> QED BY <1>1, <2>3, <2>6, <2>7, <2>8, AnthropicOpens
<1>7. CASE b.type = "reasoning" /\ ~(b.redacted # <<>>)
  <2>1. PICK t, p : /\ t = [s EXCEPT !.in = @ \cup {"reasoning"}, !.signature = <<>>]
                    /\ p = Start("reasoning", "0", "")
    OBVIOUS
  <2>2. d = Step(t, <<p>>)
    BY <1>1, <1>7, <2>1 DEF AnthropicBlockStart
  <2>3. d.st = t /\ d.parts = <<p>>
    BY <2>2 DEF Step
  <2>4. AnthropicState(t) /\ t.in = {"reasoning"}
    BY <2>1, FlagSet
  <2>5. p.part = "start" /\ <<p.of, p.id>> = <<"reasoning", "0">>
    BY <2>1 DEF Start
  <2>6. Fine(ps \o <<p>>, AnthropicOpen(t))
    <3>1. Fine(ps \o <<p>>, {<<"reasoning", "0">>})
      BY <2>5, BeginsOne
    <3>2. AnthropicOpen(t) = {<<"reasoning", "0">>}
      BY <2>4, AnthropicOpens
    <3> QED BY <3>1, <3>2
  <2>7. ~Sealed(b) /\ Flag(b, o) = "reasoning"
    BY <1>7 DEF Sealed, Flag
  <2> QED BY <1>1, <2>3, <2>4, <2>6, <2>7 DEF InBlock
<1> QED BY <1>2, <1>3, <1>4, <1>5, <1>6, <1>7

\* ... and ends.
LEMMA AnthropicStops ==
    ASSUME NEW s, AnthropicState(s), NEW ps, Fine(ps, AnthropicOpen(s))
    PROVE  LET d == AnthropicBlockStop(s)
           IN  AnthropicState(d.st) /\ d.st.in = {} /\ Fine(ps \o d.parts, {})
<1>1. PICK d : d = AnthropicBlockStop(s)
  OBVIOUS
<1>2. s.in \in {{}, {"text"}, {"call"}, {"reasoning"}}
  BY DEF AnthropicState
<1>3. CASE s.in = {}
  <2>1. d = Step(s, <<>>)
    BY <1>1, <1>3 DEF AnthropicBlockStop
  <2>2. d.st = s /\ d.parts = <<>>
    BY <2>1 DEF Step
  <2>3. Fine(ps, {}) /\ ps \o <<>> = ps
    BY <1>3, AnthropicOpens, NoPart
  <2> QED BY <1>1, <1>3, <2>2, <2>3
<1>4. CASE s.in = {"text"}
  <2>1. PICK t, p : t = [s EXCEPT !.in = @ \ {"text"}] /\ p = End("text", "0")
    OBVIOUS
  <2>2. d = Step(t, <<p>>)
    BY <1>1, <1>4, <2>1 DEF AnthropicBlockStop
  <2>3. d.st = t /\ d.parts = <<p>>
    BY <2>2 DEF Step
  <2>4. AnthropicState(t) /\ t.in = {}
    BY <1>4, <2>1, FlagCleared
  <2>5. p.part = "end" /\ <<p.of, p.id>> = <<"text", "0">>
    BY <2>1 DEF End
  <2>6. Fine(ps, {<<"text", "0">>})
    BY <1>4, AnthropicOpens
  <2>7. Fine(ps \o <<p>>, {})
    BY <2>5, <2>6, ClosesOne
  <2> QED BY <1>1, <2>3, <2>4, <2>7
<1>5. CASE s.in = {"call"}
  <2>1. PICK t, p : t = [s EXCEPT !.in = @ \ {"call"}] /\ p = End("call", s.tool)
    OBVIOUS
  <2>2. d = Step(t, <<p>>)
    BY <1>1, <1>5, <2>1 DEF AnthropicBlockStop
  <2>3. d.st = t /\ d.parts = <<p>>
    BY <2>2 DEF Step
  <2>4. AnthropicState(t) /\ t.in = {}
    BY <1>5, <2>1, FlagCleared
  <2>5. p.part = "end" /\ <<p.of, p.id>> = <<"call", s.tool>>
    BY <2>1 DEF End
  <2>6. Fine(ps, {<<"call", s.tool>>})
    BY <1>5, AnthropicOpens
  <2>7. Fine(ps \o <<p>>, {})
    BY <2>5, <2>6, ClosesOne
  <2> QED BY <1>1, <2>3, <2>4, <2>7
<1>6. CASE s.in = {"reasoning"}
  <2>1. PICK t, p : /\ t = [s EXCEPT !.in = @ \ {"reasoning"}, !.signature = <<>>]
                    /\ p = [End("reasoning", "0") EXCEPT !.signature = s.signature]
    OBVIOUS
  <2>2. d = Step(t, <<p>>)
    BY <1>1, <1>6, <2>1 DEF AnthropicBlockStop
  <2>3. d.st = t /\ d.parts = <<p>>
    BY <2>2 DEF Step
  <2>4. AnthropicState(t) /\ t.in = {}
    BY <1>6, <2>1, FlagCleared
  <2>5. p.part = "end" /\ <<p.of, p.id>> = <<"reasoning", "0">>
    BY <2>1 DEF End
  <2>6. Fine(ps, {<<"reasoning", "0">>})
    BY <1>6, AnthropicOpens
  <2>7. Fine(ps \o <<p>>, {})
    BY <2>5, <2>6, ClosesOne
  <2> QED BY <1>1, <2>3, <2>4, <2>7
<1> QED BY <1>2, <1>3, <1>4, <1>5, <1>6

\* What an event can be, and which have a block.
LEMMA CellTyped ==
    ASSUME NEW e \in AnthropicCell
    PROVE  /\ e.type \in {"message_start", "block_start", "delta", "signature", "block_stop",
                          "message_delta", "message_stop", "error"}
           /\ e.type \in {"block_start", "delta", "signature", "block_stop"}
                 => e.block \in AnthropicBlock
  BY DEF AnthropicCell

\* In between it goes on.
LEMMA AnthropicGoesOn ==
    ASSUME NEW s, NEW e, e.block \in AnthropicBlock, NEW o, InBlock(s, e.block, o),
           NEW ps, Fine(ps, AnthropicOpen(s))
    PROVE  LET d == AnthropicDelta(s, e, o)
           IN  d.st = s /\ Fine(ps \o d.parts, AnthropicOpen(s))
<1>1. PICK d, k, p : /\ d = AnthropicDelta(s, e, o) /\ k = Flag(e.block, o)
                     /\ p = Delta(k, IF k = "call" THEN s.tool ELSE "0", e.text)
  OBVIOUS
<1>2. d = Step(s, <<p>>)
  BY <1>1 DEF AnthropicDelta, Flag
<1>3. d.st = s /\ d.parts = <<p>>
  BY <1>2 DEF Step
<1>4. AnthropicOpen(s) = {<<k, IF k = "call" THEN s.tool ELSE "0">>}
  BY <1>1 DEF AnthropicOpen, InBlock
<1>5. p.part = "delta" /\ <<p.of, p.id>> = <<k, IF k = "call" THEN s.tool ELSE "0">>
  BY <1>1 DEF Delta
<1>6. Fine(ps \o <<p>>, AnthropicOpen(s))
  BY <1>4, <1>5, GoesOnOne
<1> QED BY <1>1, <1>3, <1>6

\* A signature and a reason leave the flags as they are.
LEMMA AnthropicQuiet ==
    ASSUME NEW s, AnthropicState(s), NEW x
    PROVE  LET t == [s EXCEPT !.signature = x]
               u == [s EXCEPT !.reason = x]
           IN  /\ AnthropicState(t) /\ t.in = s.in /\ t.tool = s.tool
               /\ AnthropicState(u) /\ u.in = s.in /\ u.tool = s.tool
<1>1. PICK T, S, R : s \in [in : {{}, {"text"}, {"call"}, {"reasoning"}}, tool : T,
                            signature : S, reason : R]
  BY DEF AnthropicState
<1>3. PICK U, V : U = S \cup {x} /\ V = R \cup {x}
  OBVIOUS
<1>4. \A y : y \in [in : {{}, {"text"}, {"call"}, {"reasoning"}}, tool : T,
                   signature : U, reason : V] => AnthropicState(y)
  BY DEF AnthropicState
<1>5. /\ s \in [in : {{}, {"text"}, {"call"}, {"reasoning"}}, tool : T,
                signature : U, reason : V]
      /\ x \in U /\ x \in V
  BY <1>1, <1>3
<1> QED BY <1>4, <1>5

\* The same flag and id: the same block is open.
LEMMA SameFlags ==
    ASSUME NEW s, NEW t, t.in = s.in, t.tool = s.tool
    PROVE  /\ AnthropicOpen(t) = AnthropicOpen(s)
           /\ \A b, o : InBlock(t, b, o) = InBlock(s, b, o)
  BY DEF AnthropicOpen, InBlock

\* Every event: the parts stay well formed, and the decoder is ready for what
\* may follow.
AnthropicStays(s, e, o, ps, d) ==
    /\ AnthropicState(d.st)
    /\ IF e.type = "message_stop" THEN Whole(ps \o d.parts)
       ELSE Fine(ps \o d.parts, AnthropicOpen(d.st))
    /\ \A f \in AnthropicCell : AnthropicAfter(e, f) => AnthropicReady(d.st, f, o)

\* An event that may come keeps the state and what is open in step.
LEMMA AnthropicKeeps ==
    ASSUME NEW s, AnthropicState(s), NEW e \in AnthropicCell, NEW o, AnthropicReady(s, e, o),
           NEW ps, Fine(ps, AnthropicOpen(s))
    PROVE  AnthropicStays(s, e, o, ps, AnthropicStep(s, e, o))
<1>1. PICK d : d = AnthropicStep(s, e, o)
  OBVIOUS
<1>2. /\ e.type \in {"message_start", "block_start", "delta", "signature", "block_stop",
                     "message_delta", "message_stop", "error"}
      /\ e.type \in {"block_start", "delta", "signature", "block_stop"}
            => e.block \in AnthropicBlock
  BY CellTyped
<1>3. CASE e.type = "block_start"
  <2>1. d = AnthropicBlockStart(s, e.block, o)
    BY <1>1, <1>3 DEF AnthropicStep
  <2>2. s.in = {} /\ Fine(ps, {})
    BY <1>3, AnthropicOpens DEF AnthropicReady
  <2>3. /\ AnthropicState(d.st) /\ Fine(ps \o d.parts, AnthropicOpen(d.st))
        /\ IF Sealed(e.block) THEN d.st.in = {} ELSE InBlock(d.st, e.block, o)
    BY <1>2, <1>3, <2>1, <2>2, AnthropicStarts
  <2>4. ASSUME NEW f \in AnthropicCell, AnthropicAfter(e, f) PROVE AnthropicReady(d.st, f, o)
    BY <1>3, <2>3, <2>4 DEF AnthropicAfter, AnthropicReady
  <2> QED BY <1>1, <1>3, <2>3, <2>4 DEF AnthropicStays
<1>4. CASE e.type = "delta"
  <2>1. d = AnthropicDelta(s, e, o)
    BY <1>1, <1>4 DEF AnthropicStep
  <2>2. InBlock(s, e.block, o)
    BY <1>4 DEF AnthropicReady
  <2>3. d.st = s /\ Fine(ps \o d.parts, AnthropicOpen(s))
    BY <1>2, <1>4, <2>1, <2>2, AnthropicGoesOn
  <2>4. ASSUME NEW f \in AnthropicCell, AnthropicAfter(e, f) PROVE AnthropicReady(s, f, o)
    BY <1>4, <2>4 DEF AnthropicAfter, AnthropicReady
  <2> QED BY <1>1, <1>4, <2>3, <2>4 DEF AnthropicStays
<1>5. CASE e.type = "signature"
  <2>1. PICK x : x = s.signature \o e.text
    OBVIOUS
  <2>2. PICK t : t = [s EXCEPT !.signature = x]
    OBVIOUS
  <2>3. d = Step(t, <<>>)
    BY <1>1, <1>5, <2>1, <2>2 DEF AnthropicStep
  <2>4. AnthropicState(t) /\ t.in = s.in /\ t.tool = s.tool
    BY <2>2, AnthropicQuiet
  <2>5. ASSUME NEW f \in AnthropicCell, AnthropicAfter(e, f) PROVE AnthropicReady(t, f, o)
    BY <1>5, <2>4, <2>5, SameFlags DEF AnthropicAfter, AnthropicReady
  <2>6. d.st = t /\ d.parts = <<>>
    BY <2>3 DEF Step
  <2>7. Fine(ps \o <<>>, AnthropicOpen(t))
    BY <2>4, SameFlags, NoPart
  <2> QED BY <1>1, <1>5, <2>4, <2>5, <2>6, <2>7 DEF AnthropicStays
<1>6. CASE e.type = "block_stop"
  <2>1. d = AnthropicBlockStop(s)
    BY <1>1, <1>6 DEF AnthropicStep
  <2>2. AnthropicState(d.st) /\ d.st.in = {} /\ Fine(ps \o d.parts, {})
    BY <2>1, AnthropicStops
  <2>3. ASSUME NEW f \in AnthropicCell, AnthropicAfter(e, f) PROVE AnthropicReady(d.st, f, o)
    <3>1. f.type \in {"block_start", "message_delta", "error"}
      BY <1>6, <2>3, CellTyped DEF AnthropicAfter
    <3> QED BY <2>2, <3>1 DEF AnthropicReady
  <2>4. AnthropicOpen(d.st) = {}
    BY <2>2, AnthropicOpens
  <2> QED BY <1>1, <1>6, <2>2, <2>3, <2>4 DEF AnthropicStays
<1>7. CASE e.type = "message_delta"
  <2>1. PICK x : x = AnthropicReason(e.stop)
    OBVIOUS
  <2>2. PICK t : t = [s EXCEPT !.reason = x]
    OBVIOUS
  <2>3. d = Step(t, <<>>)
    BY <1>1, <1>7, <2>1, <2>2 DEF AnthropicStep
  <2>4. AnthropicState(t) /\ t.in = s.in /\ t.tool = s.tool /\ s.in = {}
    BY <1>7, <2>2, AnthropicQuiet DEF AnthropicReady
  <2>5. ASSUME NEW f \in AnthropicCell, AnthropicAfter(e, f) PROVE AnthropicReady(t, f, o)
    <3>1. f.type \in {"message_stop", "error"}
      BY <1>7, <2>5, CellTyped DEF AnthropicAfter
    <3> QED BY <2>4, <3>1 DEF AnthropicReady
  <2>6. d.st = t /\ d.parts = <<>>
    BY <2>3 DEF Step
  <2>7. Fine(ps \o <<>>, AnthropicOpen(t))
    BY <2>4, SameFlags, NoPart
  <2> QED BY <1>1, <1>7, <2>4, <2>5, <2>6, <2>7 DEF AnthropicStays
<1>8. CASE e.type = "message_stop"
  <2>1. d = Step(s, <<Finish(s.reason)>>)
    BY <1>1, <1>8 DEF AnthropicStep
  <2>2. d.st = s /\ d.parts = <<Finish(s.reason)>>
    BY <2>1 DEF Step
  <2>3. Fine(ps, {})
    BY <1>8, AnthropicOpens DEF AnthropicReady
  <2>4. Whole(ps \o d.parts)
    BY <2>2, <2>3, Finishes
  <2>5. \A f : ~AnthropicAfter(e, f)
    BY <1>8 DEF AnthropicAfter
  <2> QED BY <1>1, <1>8, <2>2, <2>4, <2>5 DEF AnthropicStays
<1>9. CASE e.type = "error"
  <2>1. d = Step(s, <<Failure>>)
    BY <1>1, <1>9 DEF AnthropicStep
  <2>2. d.st = s /\ d.parts = <<Failure>>
    BY <2>1 DEF Step
  <2>3. Fine(ps \o d.parts, AnthropicOpen(s))
    BY <2>2, Fails
  <2>4. \A f : ~AnthropicAfter(e, f)
    BY <1>9 DEF AnthropicAfter
  <2> QED BY <1>1, <1>9, <2>2, <2>3, <2>4 DEF AnthropicStays
<1>10. CASE e.type = "message_start"
  <2>1. d = Step(s, <<>>)
    BY <1>1, <1>10 DEF AnthropicStep
  <2>2. d.st = s /\ d.parts = <<>> /\ s.in = {}
    BY <1>10, <2>1 DEF Step, AnthropicReady
  <2>3. Fine(ps \o <<>>, AnthropicOpen(s))
    BY NoPart
  <2>4. ASSUME NEW f \in AnthropicCell, AnthropicAfter(e, f) PROVE AnthropicReady(s, f, o)
    <3>1. f.type \in {"block_start", "message_delta", "error"}
      BY <1>10, <2>4, CellTyped DEF AnthropicAfter
    <3> QED BY <2>2, <3>1 DEF AnthropicReady
  <2> QED BY <1>1, <1>10, <2>2, <2>3, <2>4 DEF AnthropicStays
<1> QED BY <1>1, <1>2, <1>3, <1>4, <1>5, <1>6, <1>7, <1>8, <1>9, <1>10

-----------------------------------------------------------------------------
(* Anthropic's wire *)

AnthropicFollows == {p \in AnthropicCell \X AnthropicCell : AnthropicAfter(p[1], p[2])}

\* Where a stream stands: what has been read is fine, and the decoder is ready
\* for what is still to come.
AnthropicFlow(w, s, ps, o) ==
    /\ AnthropicState(s) /\ w \in Seq(AnthropicCell) /\ Linked(w, AnthropicFollows)
    /\ IF w = <<>> THEN Whole(ps) ELSE Fine(ps, AnthropicOpen(s)) /\ AnthropicReady(s, w[1], o)

\* The next event is read.
LEMMA AnthropicReads ==
    ASSUME NEW w, NEW s, NEW ps, NEW o, AnthropicFlow(w, s, ps, o), w # <<>>
    PROVE  LET d == AnthropicStep(s, SubSeq(w, 1, 1)[1], o)
           IN  AnthropicFlow(SubSeq(w, 2, Len(w)), d.st, ps \o d.parts, o)
<1>1. PICK e, t, d : e = w[1] /\ t = SubSeq(w, 2, Len(w)) /\ d = AnthropicStep(s, e, o)
  OBVIOUS
<1>2. /\ AnthropicState(s) /\ w \in Seq(AnthropicCell) /\ Linked(w, AnthropicFollows)
      /\ Fine(ps, AnthropicOpen(s)) /\ AnthropicReady(s, e, o)
  BY <1>1 DEF AnthropicFlow
<1>3. /\ e \in AnthropicCell /\ t \in Seq(AnthropicCell) /\ Linked(t, AnthropicFollows)
      /\ t # <<>> => <<e, t[1]>> \in AnthropicFollows /\ t[1] \in AnthropicCell
      /\ SubSeq(w, 1, 1)[1] = e
  BY <1>1, <1>2, LinkedTail
<1>4. AnthropicStays(s, e, o, ps, d)
  BY <1>1, <1>2, <1>3, AnthropicKeeps
<1>5. AnthropicState(d.st)
  BY <1>4 DEF AnthropicStays
<1>6. ASSUME t # <<>> PROVE Fine(ps \o d.parts, AnthropicOpen(d.st)) /\ AnthropicReady(d.st, t[1], o)
  <2>1. AnthropicAfter(e, t[1]) /\ t[1] \in AnthropicCell
    BY <1>3, <1>6 DEF AnthropicFollows
  <2>2. e.type # "message_stop"
    BY <2>1 DEF AnthropicAfter
  <2> QED BY <1>4, <2>1, <2>2 DEF AnthropicStays
<1>7. Whole(ps \o d.parts)
  BY <1>4, NoPart DEF AnthropicStays
<1> QED BY <1>1, <1>3, <1>5, <1>6, <1>7 DEF AnthropicFlow

\* The server gives up.
LEMMA AnthropicGivesUp ==
    ASSUME NEW w, NEW s, NEW ps, NEW o, AnthropicFlow(w, s, ps, o), w # <<>>
    PROVE  AnthropicFlow(<<[type |-> "error"]>>, s, ps, o)
<1>1. PICK e, u : e = [type |-> "error"] /\ u = <<e>>
  OBVIOUS
<1>2. e \in AnthropicCell /\ e.type = "error"
  BY <1>1 DEF AnthropicCell
<1>3. u \in Seq(AnthropicCell) /\ u # <<>> /\ u[1] = e /\ Len(u) = 1
  BY <1>1, <1>2
<1>4. Linked(u, AnthropicFollows)
  BY <1>3 DEF Linked
<1>5. AnthropicReady(s, e, o)
  BY <1>2 DEF AnthropicReady
<1> QED BY <1>1, <1>3, <1>4, <1>5 DEF AnthropicFlow

\* The parts so far are whole.
LEMMA AnthropicWhole ==
    ASSUME NEW w, NEW s, NEW ps, NEW o, AnthropicFlow(w, s, ps, o) PROVE Whole(ps)
  BY NoPart DEF AnthropicFlow

\* What a server sends of a block.
AnthropicEvent(type, b, text) == [type |-> type, block |-> b, text |-> text]
AnthropicPieces(b) == [i \in DOMAIN b.text |-> AnthropicEvent("delta", b, <<b.text[i]>>)]
AnthropicSigned(b) ==
    IF b.type = "reasoning"
    THEN [i \in DOMAIN b.signature |-> AnthropicEvent("signature", b, <<b.signature[i]>>)]
    ELSE <<>>
AnthropicOf(b) ==
    <<AnthropicEvent("block_start", b, <<>>)>> \o AnthropicPieces(b) \o AnthropicSigned(b)
    \o <<AnthropicEvent("block_stop", b, <<>>)>>

\* Redacted thinking has nothing else.
Proper(b) == b \in AnthropicBlock /\ (Sealed(b) => b.text = <<>> /\ b.signature = <<>>)

IsEvent(e, type, b) == e \in AnthropicCell /\ e.type = type /\ e.block = b

\* The events of a block are events.
LEMMA EventTyped ==
    ASSUME NEW b \in AnthropicBlock, NEW text \in Seq(STRING)
    PROVE  /\ IsEvent(AnthropicEvent("message_start", b, text), "message_start", b)
           /\ IsEvent(AnthropicEvent("block_start", b, text), "block_start", b)
           /\ IsEvent(AnthropicEvent("delta", b, text), "delta", b)
           /\ IsEvent(AnthropicEvent("signature", b, text), "signature", b)
           /\ IsEvent(AnthropicEvent("block_stop", b, text), "block_stop", b)
           /\ IsEvent(AnthropicEvent("message_stop", b, text), "message_stop", b)
  BY DEF AnthropicEvent, AnthropicCell, IsEvent

\* The pieces of a block, some letters of one type.
LEMMA PiecesLinked ==
    ASSUME NEW b \in AnthropicBlock, NEW type \in {"delta", "signature"}, NEW t \in Seq(STRING),
           t # <<>> => ~Sealed(b)
    PROVE  LET u == [i \in DOMAIN t |-> AnthropicEvent(type, b, <<t[i]>>)]
           IN  /\ u \in Seq(AnthropicCell) /\ Linked(u, AnthropicFollows)
               /\ u = <<>> <=> t = <<>>
               /\ u # <<>> => /\ u[1].type = type /\ u[1].block = b /\ u[1] \in AnthropicCell
                             /\ Last(u).type = type /\ Last(u).block = b
                             /\ Last(u) \in AnthropicCell
<1>1. PICK u, n : u = [i \in DOMAIN t |-> AnthropicEvent(type, b, <<t[i]>>)] /\ n = Len(t)
  OBVIOUS
<1>2. n \in Nat /\ DOMAIN t = 1..n /\ (t = <<>> <=> n = 0)
  BY <1>1
<1>3. ASSUME NEW i \in 1..n
      PROVE  u[i] \in AnthropicCell /\ u[i].type = type /\ u[i].block = b
  <2>1. t[i] \in STRING
    BY <1>2
  <2>2. <<t[i]>> \in Seq(STRING)
    BY <2>1
  <2>3. u[i] = AnthropicEvent(type, b, <<t[i]>>)
    BY <1>1, <1>2
  <2>4. IsEvent(AnthropicEvent(type, b, <<t[i]>>), type, b)
    BY <2>2, EventTyped
  <2> QED BY <2>3, <2>4 DEF IsEvent
<1>4. u \in [1..n -> AnthropicCell]
  BY <1>1, <1>2, <1>3
<1>5. u \in Seq(AnthropicCell) /\ Len(u) = n
  BY <1>2, <1>4
<1>6. u = <<>> <=> n = 0
  BY <1>2, <1>5
<1>7. ASSUME NEW i \in 1..(n - 1) PROVE <<u[i], u[i + 1]>> \in AnthropicFollows
  <2>1. i \in 1..n /\ i + 1 \in 1..n /\ n # 0
    BY <1>2
  <2>2. ~Sealed(b)
    BY <1>2, <2>1
  <2>3. AnthropicAfter(u[i], u[i + 1])
    BY <1>3, <2>1, <2>2 DEF AnthropicAfter
  <2> QED BY <1>3, <2>1, <2>3 DEF AnthropicFollows
<1>8. Linked(u, AnthropicFollows)
  BY <1>5, <1>7 DEF Linked
<1>9. n # 0 => 1 \in 1..n /\ n \in 1..n
  BY <1>2
<1> QED BY <1>1, <1>2, <1>3, <1>5, <1>6, <1>8, <1>9 DEF Last

\* A block's events: a start, its pieces, perhaps a signature, and a stop.
LEMMA OfLinked ==
    ASSUME NEW b, Proper(b)
    PROVE  LET u == AnthropicOf(b)
           IN  /\ u \in Seq(AnthropicCell) /\ u # <<>> /\ Linked(u, AnthropicFollows)
               /\ u[1] \in AnthropicCell /\ u[1].type = "block_start"
               /\ Last(u) \in AnthropicCell /\ Last(u).type = "block_stop"
<1>1. PICK x, y, p, q : /\ x = AnthropicEvent("block_start", b, <<>>)
                        /\ y = AnthropicEvent("block_stop", b, <<>>)
                        /\ p = AnthropicPieces(b) /\ q = AnthropicSigned(b)
  OBVIOUS
<1>2. b \in AnthropicBlock /\ (Sealed(b) => b.text = <<>> /\ b.signature = <<>>)
  BY DEF Proper
<1>3. /\ x \in AnthropicCell /\ x.type = "block_start" /\ x.block = b
      /\ y \in AnthropicCell /\ y.type = "block_stop" /\ y.block = b
  <2>1. <<>> \in Seq(STRING)
    BY EmptySeq
  <2>2. IsEvent(x, "block_start", b) /\ IsEvent(y, "block_stop", b)
    BY <1>1, <1>2, <2>1, EventTyped
  <2> QED BY <2>2 DEF IsEvent
<1>4. /\ p \in Seq(AnthropicCell) /\ Linked(p, AnthropicFollows)
      /\ p # <<>> => /\ p[1].type = "delta" /\ p[1].block = b /\ p[1] \in AnthropicCell
                    /\ Last(p).type = "delta" /\ Last(p).block = b /\ Last(p) \in AnthropicCell
                    /\ ~Sealed(b)
  <2>1. PICK t, type : t = b.text /\ type = "delta"
    OBVIOUS
  <2>2. t \in Seq(STRING) /\ (t # <<>> => ~Sealed(b)) /\ type \in {"delta", "signature"}
    BY <1>2, <2>1 DEF AnthropicBlock, TextContent, CallContent, ReasoningContent
  <2>3. p = [i \in DOMAIN t |-> AnthropicEvent(type, b, <<t[i]>>)]
    BY <1>1, <2>1 DEF AnthropicPieces
  <2>4. /\ p \in Seq(AnthropicCell) /\ Linked(p, AnthropicFollows)
        /\ p = <<>> <=> t = <<>>
        /\ p # <<>> => /\ p[1].type = type /\ p[1].block = b /\ p[1] \in AnthropicCell
                      /\ Last(p).type = type /\ Last(p).block = b /\ Last(p) \in AnthropicCell
    BY <1>2, <2>2, <2>3, PiecesLinked
  <2> QED BY <2>1, <2>2, <2>4
<1>5. /\ q \in Seq(AnthropicCell) /\ Linked(q, AnthropicFollows)
      /\ q # <<>> => /\ q[1].type = "signature" /\ q[1].block = b /\ q[1] \in AnthropicCell
                    /\ Last(q).type = "signature" /\ Last(q).block = b
                    /\ Last(q) \in AnthropicCell /\ ~Sealed(b)
  <2>1. CASE b.type = "reasoning"
    <3>1. PICK t, type : t = b.signature /\ type = "signature"
      OBVIOUS
    <3>2. t \in Seq(STRING) /\ (t # <<>> => ~Sealed(b)) /\ type \in {"delta", "signature"}
      BY <1>2, <2>1, <3>1 DEF AnthropicBlock, TextContent, CallContent, ReasoningContent
    <3>3. q = [i \in DOMAIN t |-> AnthropicEvent(type, b, <<t[i]>>)]
      BY <1>1, <2>1, <3>1 DEF AnthropicSigned
    <3>4. /\ q \in Seq(AnthropicCell) /\ Linked(q, AnthropicFollows)
          /\ q = <<>> <=> t = <<>>
          /\ q # <<>> => /\ q[1].type = type /\ q[1].block = b /\ q[1] \in AnthropicCell
                        /\ Last(q).type = type /\ Last(q).block = b /\ Last(q) \in AnthropicCell
      BY <1>2, <3>2, <3>3, PiecesLinked
    <3> QED BY <3>1, <3>2, <3>4
  <2>2. CASE b.type # "reasoning"
    <3>1. q = <<>>
      BY <1>1, <2>2 DEF AnthropicSigned
    <3>2. q \in Seq(AnthropicCell) /\ Len(q) = 0
      BY <3>1
    <3> QED BY <3>1, <3>2 DEF Linked
  <2> QED BY <2>1, <2>2
<1>6. PICK X, Y : X = <<x>> /\ Y = <<y>>
  OBVIOUS
<1>7. /\ X \in Seq(AnthropicCell) /\ X # <<>> /\ X[1] = x /\ Last(X) = x
      /\ Y \in Seq(AnthropicCell) /\ Y # <<>> /\ Y[1] = y /\ Last(Y) = y
      /\ Linked(X, AnthropicFollows) /\ Linked(Y, AnthropicFollows)
  BY <1>3, <1>6 DEF Last, Linked
<1>8. ASSUME NEW e \in AnthropicCell, NEW f \in AnthropicCell, AnthropicAfter(e, f)
      PROVE  <<e, f>> \in AnthropicFollows
  BY <1>8 DEF AnthropicFollows
<1>9. PICK u : u = X \o p
  OBVIOUS
<1>10. /\ u \in Seq(AnthropicCell) /\ u # <<>> /\ Linked(u, AnthropicFollows) /\ u[1] = x
       /\ Last(u) \in AnthropicCell /\ Last(u).type \in {"block_start", "delta"}
       /\ Last(u).block = b
  <2>1. p # <<>> => AnthropicAfter(x, p[1])
    BY <1>3, <1>4 DEF AnthropicAfter
  <2>2. p # <<>> => <<Last(X), p[1]>> \in AnthropicFollows
    BY <1>3, <1>4, <1>7, <1>8, <2>1
  <2>3. /\ u \in Seq(AnthropicCell) /\ u # <<>> /\ Linked(u, AnthropicFollows) /\ u[1] = X[1]
        /\ Last(u) = IF p = <<>> THEN Last(X) ELSE Last(p)
    BY <1>4, <1>7, <1>9, <2>2, LinkedJoin
  <2> QED BY <1>3, <1>4, <1>7, <2>3
<1>11. PICK v : v = u \o q
  OBVIOUS
<1>12. /\ v \in Seq(AnthropicCell) /\ v # <<>> /\ Linked(v, AnthropicFollows) /\ v[1] = x
       /\ Last(v) \in AnthropicCell /\ Last(v).type \in {"block_start", "delta", "signature"}
       /\ Last(v).block = b
  <2>1. q # <<>> => AnthropicAfter(Last(u), q[1])
    BY <1>5, <1>10 DEF AnthropicAfter
  <2>2. q # <<>> => <<Last(u), q[1]>> \in AnthropicFollows
    BY <1>5, <1>8, <1>10, <2>1
  <2>3. /\ v \in Seq(AnthropicCell) /\ v # <<>> /\ Linked(v, AnthropicFollows) /\ v[1] = u[1]
        /\ Last(v) = IF q = <<>> THEN Last(u) ELSE Last(q)
    BY <1>5, <1>10, <1>11, <2>2, LinkedJoin
  <2> QED BY <1>5, <1>10, <2>3
<1>13. PICK w : w = v \o Y
  OBVIOUS
<1>14. /\ w \in Seq(AnthropicCell) /\ w # <<>> /\ Linked(w, AnthropicFollows) /\ w[1] = x
       /\ Last(w) = y
  <2>1. AnthropicAfter(Last(v), y)
    BY <1>3, <1>12 DEF AnthropicAfter
  <2>2. <<Last(v), Y[1]>> \in AnthropicFollows
    BY <1>3, <1>7, <1>8, <1>12, <2>1
  <2> QED BY <1>7, <1>12, <1>13, <2>2, LinkedJoin
<1>15. w = AnthropicOf(b)
  BY <1>1, <1>6, <1>9, <1>11, <1>13 DEF AnthropicOf
<1> QED BY <1>3, <1>14, <1>15

\* What a server sends of a reply.
LEMMA AnthropicWire ==
    ASSUME NEW r, r.content \in Seq(AnthropicBlock), r.stop \in STRING,
           \A i \in DOMAIN r.content : Proper(r.content[i])
    PROVE  LET w == AnthropicEvents(r)
           IN  /\ w \in Seq(AnthropicCell) /\ w # <<>> /\ Linked(w, AnthropicFollows)
               /\ w[1].type = "message_start"
<1>1. PICK none, n : none = Text(<<>>) /\ n = Len(r.content)
  OBVIOUS
<1>2. PICK x, y, z : /\ x = AnthropicEvent("message_start", none, <<>>)
                     /\ y = [type |-> "message_delta", stop |-> r.stop]
                     /\ z = AnthropicEvent("message_stop", none, <<>>)
  OBVIOUS
<1>3. PICK ss, mid : /\ ss = [i \in DOMAIN r.content |-> AnthropicOf(r.content[i])]
                     /\ mid = FlattenSeq(ss)
  OBVIOUS
<1>4. AnthropicEvents(r) = (<<x>> \o mid) \o <<y, z>>
  BY <1>1, <1>2, <1>3 DEF AnthropicEvents, AnthropicOf, AnthropicPieces, AnthropicSigned,
     AnthropicEvent
<1>5. /\ x \in AnthropicCell /\ x.type = "message_start"
      /\ y \in AnthropicCell /\ y.type = "message_delta"
      /\ z \in AnthropicCell /\ z.type = "message_stop"
  <2>1. none \in AnthropicBlock
    BY <1>1 DEF Text, AnthropicBlock, TextContent
  <2>2. x \in AnthropicCell /\ x.type = "message_start" /\ z \in AnthropicCell
        /\ z.type = "message_stop"
    <3>1. <<>> \in Seq(STRING)
      BY EmptySeq
    <3>2. IsEvent(x, "message_start", none) /\ IsEvent(z, "message_stop", none)
      BY <1>2, <2>1, <3>1, EventTyped
    <3> QED BY <3>2 DEF IsEvent
  <2>3. y \in AnthropicCell /\ y.type = "message_delta"
    BY <1>2 DEF AnthropicCell
  <2> QED BY <2>2, <2>3
<1>6. ASSUME NEW e \in AnthropicCell, NEW f \in AnthropicCell, AnthropicAfter(e, f)
      PROVE  <<e, f>> \in AnthropicFollows
  BY <1>6 DEF AnthropicFollows
<1>7. /\ n \in Nat /\ DOMAIN r.content = 1..n /\ Len(ss) = n /\ ss \in Seq(Seq(AnthropicCell))
      /\ \A i \in 1..n :
            /\ ss[i] # <<>> /\ Linked(ss[i], AnthropicFollows)
            /\ ss[i][1] \in AnthropicCell /\ ss[i][1].type = "block_start"
            /\ Last(ss[i]) \in AnthropicCell /\ Last(ss[i]).type = "block_stop"
  <2>1. n \in Nat /\ DOMAIN r.content = 1..n
    BY <1>1
  <2>2. \A i \in 1..n : ss[i] = AnthropicOf(r.content[i]) /\ Proper(r.content[i])
    BY <1>3, <2>1
  <2>3. \A i \in 1..n :
            /\ ss[i] \in Seq(AnthropicCell)
            /\ ss[i] # <<>> /\ Linked(ss[i], AnthropicFollows)
            /\ ss[i][1] \in AnthropicCell /\ ss[i][1].type = "block_start"
            /\ Last(ss[i]) \in AnthropicCell /\ Last(ss[i]).type = "block_stop"
    BY <2>2, OfLinked
  <2>4. ss \in [1..n -> Seq(AnthropicCell)]
    BY <1>3, <2>1, <2>3
  <2>5. ss \in Seq(Seq(AnthropicCell)) /\ Len(ss) = n
    BY <2>1, <2>4
  <2> QED BY <2>1, <2>3, <2>5
<1>8. /\ mid \in Seq(AnthropicCell) /\ Linked(mid, AnthropicFollows)
      /\ mid # <<>> => /\ mid[1] \in AnthropicCell /\ mid[1].type = "block_start"
                      /\ Last(mid) \in AnthropicCell /\ Last(mid).type = "block_stop"
  <2>1. CASE n = 0
    <3>1. ss = <<>>
      BY <1>7, <2>1
    <3>2. mid = <<>>
      BY <1>3, <3>1, FlattenEmpty
    <3>3. mid \in Seq(AnthropicCell) /\ Len(mid) = 0
      BY <3>2
    <3> QED BY <3>2, <3>3 DEF Linked
  <2>2. CASE n # 0
    <3>1. ss # <<>> /\ 1 \in 1..n /\ n \in 1..n
      BY <1>7, <2>2
    <3>2. ASSUME NEW i \in 1..(n - 1) PROVE <<Last(ss[i]), ss[i + 1][1]>> \in AnthropicFollows
      <4>1. i \in 1..n /\ i + 1 \in 1..n
        BY <1>7
      <4>2. AnthropicAfter(Last(ss[i]), ss[i + 1][1])
        BY <1>7, <4>1 DEF AnthropicAfter
      <4> QED BY <1>6, <1>7, <4>1, <4>2
    <3>3. Chained(ss, AnthropicFollows)
      BY <1>7, <3>2 DEF Chained
    <3>4. /\ mid \in Seq(AnthropicCell) /\ Linked(mid, AnthropicFollows)
          /\ mid[1] = ss[1][1] /\ Last(mid) = Last(ss[n])
      BY <1>3, <1>7, <3>1, <3>3, FlattenLinked
    <3> QED BY <1>7, <3>1, <3>4
  <2> QED BY <2>1, <2>2
<1>9. PICK X, Y : X = <<x>> /\ Y = <<y, z>>
  OBVIOUS
<1>10. /\ X \in Seq(AnthropicCell) /\ X # <<>> /\ X[1] = x /\ Last(X) = x
       /\ Linked(X, AnthropicFollows)
  BY <1>5, <1>9 DEF Last, Linked
<1>11. Y \in Seq(AnthropicCell) /\ Y # <<>> /\ Y[1] = y /\ Linked(Y, AnthropicFollows)
  <2>1. Y \in Seq(AnthropicCell) /\ Len(Y) = 2 /\ Y[1] = y /\ Y[2] = z
    BY <1>5, <1>9
  <2>2. AnthropicAfter(y, z)
    BY <1>5 DEF AnthropicAfter
  <2>3. <<Y[1], Y[1 + 1]>> \in AnthropicFollows
    BY <1>5, <1>6, <2>1, <2>2
  <2>4. \A i \in 1..(Len(Y) - 1) : i = 1
    BY <2>1
  <2>5. ASSUME NEW i \in 1..(Len(Y) - 1) PROVE <<Y[i], Y[i + 1]>> \in AnthropicFollows
    <3>1. i = 1
      BY <2>4
    <3> QED BY <2>3, <3>1
  <2>6. Y # <<>>
    <3>1. Len(<<>>) # 2
      OBVIOUS
    <3>2. Len(Y) = 2
      BY <2>1
    <3> QED BY <3>1, <3>2
  <2> QED BY <2>1, <2>5, <2>6 DEF Linked
<1>12. PICK u : u = X \o mid
  OBVIOUS
<1>13. /\ u \in Seq(AnthropicCell) /\ u # <<>> /\ Linked(u, AnthropicFollows) /\ u[1] = x
       /\ Last(u) \in AnthropicCell /\ Last(u).type \in {"message_start", "block_stop"}
  <2>1. mid # <<>> => AnthropicAfter(x, mid[1])
    BY <1>5, <1>8 DEF AnthropicAfter
  <2>2. mid # <<>> => <<Last(X), mid[1]>> \in AnthropicFollows
    BY <1>5, <1>6, <1>8, <1>10, <2>1
  <2>3. /\ u \in Seq(AnthropicCell) /\ u # <<>> /\ Linked(u, AnthropicFollows) /\ u[1] = X[1]
        /\ Last(u) = IF mid = <<>> THEN Last(X) ELSE Last(mid)
    BY <1>8, <1>10, <1>12, <2>2, LinkedJoin
  <2> QED BY <1>5, <1>8, <1>10, <2>3
<1>14. PICK w : w = u \o Y
  OBVIOUS
<1>15. w \in Seq(AnthropicCell) /\ w # <<>> /\ Linked(w, AnthropicFollows) /\ w[1] = x
  <2>1. AnthropicAfter(Last(u), y)
    BY <1>5, <1>13 DEF AnthropicAfter
  <2>2. <<Last(u), Y[1]>> \in AnthropicFollows
    BY <1>5, <1>6, <1>11, <1>13, <2>1
  <2> QED BY <1>11, <1>13, <1>14, <2>2, LinkedJoin
<1>16. w = AnthropicEvents(r)
  BY <1>4, <1>9, <1>12, <1>14
<1> QED BY <1>5, <1>15, <1>16

\* A stream begins: nothing is open, and the first event may come.
LEMMA AnthropicOpensStream ==
    ASSUME NEW r, r.content \in Seq(AnthropicBlock), r.stop \in STRING,
           \A i \in DOMAIN r.content : Proper(r.content[i]), NEW o
    PROVE  AnthropicFlow(AnthropicEvents(r), AnthropicStart, <<>>, o)
<1>1. PICK w, s : w = AnthropicEvents(r) /\ s = AnthropicStart
  OBVIOUS
<1>2. /\ w \in Seq(AnthropicCell) /\ w # <<>> /\ Linked(w, AnthropicFollows)
      /\ w[1].type = "message_start"
  BY <1>1, AnthropicWire
<1>3. AnthropicState(s) /\ s.in = {}
  <2>1. s \in [in : {{}, {"text"}, {"call"}, {"reasoning"}}, tool : {""},
               signature : {<<>>}, reason : {"Stop"}]
    BY <1>1 DEF AnthropicStart
  <2> QED BY <1>1, <2>1 DEF AnthropicState, AnthropicStart
<1>4. Fine(<<>>, AnthropicOpen(s)) /\ AnthropicReady(s, w[1], o)
  BY <1>2, <1>3, NoPart, AnthropicOpens DEF AnthropicReady
<1> QED BY <1>1, <1>2, <1>3, <1>4 DEF AnthropicFlow

-----------------------------------------------------------------------------
(* Responses: one item after the other *)

ResponsesTypes == {"text.delta", "text.done", "call.added", "arguments.delta", "arguments.done",
                   "completed", "incomplete", "failed"}
ResponsesCell == [type : ResponsesTypes, id : STRING \cup {""}, name : STRING \cup {""},
                  text : Seq(STRING)]

ResponsesState(s) == \E T : s \in [text : BOOLEAN, tool : T]

Arguments == {"arguments.delta", "arguments.done"}

\* Event f may follow e.
ResponsesAfter(e, f) ==
    /\ e.type \notin {"completed", "incomplete", "failed"}
    /\ e.type = "text.delta" => f.type \in {"text.delta", "text.done"}
    /\ e.type \in {"call.added", "arguments.delta"} <=> f.type \in Arguments

\* What is open before an event, and when the decoder is ready for it.
ResponsesOpen(s, f) ==
    (IF s.text THEN {<<"text", "0">>} ELSE {})
    \cup (IF f.type \in Arguments THEN {<<"call", s.tool>>} ELSE {})
ResponsesReady(s, f) == s.text => f.type \in {"text.delta", "text.done"}

ResponsesFollows == {p \in ResponsesCell \X ResponsesCell : ResponsesAfter(p[1], p[2])}

ResponsesFlow(w, s, ps) ==
    /\ ResponsesState(s) /\ w \in Seq(ResponsesCell) /\ Linked(w, ResponsesFollows)
    /\ IF w = <<>> THEN Whole(ps) ELSE Fine(ps, ResponsesOpen(s, w[1])) /\ ResponsesReady(s, w[1])

\* What is open, by the flag and the event that comes next.
LEMMA ResponsesOpens ==
    ASSUME NEW s, NEW f
    PROVE  /\ ~s.text /\ f.type \notin Arguments => ResponsesOpen(s, f) = {}
           /\ s.text /\ f.type \notin Arguments => ResponsesOpen(s, f) = {<<"text", "0">>}
           /\ ~s.text /\ f.type \in Arguments => ResponsesOpen(s, f) = {<<"call", s.tool>>}
  BY DEF ResponsesOpen

\* An event: what follows it finds the decoder ready.
ResponsesStays(s, e, ps, d) ==
    /\ ResponsesState(d.st) /\ Whole(ps \o d.parts)
    /\ \A f \in ResponsesCell : ResponsesAfter(e, f) =>
          Fine(ps \o d.parts, ResponsesOpen(d.st, f)) /\ ResponsesReady(d.st, f)

Named(s, x) == [s EXCEPT !.tool = x]

\* What the decoder does to its flag and its id.
LEMMA ResponsesStates ==
    ASSUME NEW s, ResponsesState(s), NEW x
    PROVE  LET t == [s EXCEPT !.text = TRUE]
               u == [s EXCEPT !.text = FALSE]
               v == Named(s, x)
           IN  /\ ResponsesState(t) /\ t.text /\ ResponsesState(u) /\ ~u.text
               /\ ResponsesState(v) /\ v.tool = x /\ (~s.text => ~v.text)
<1>1. PICK T : s \in [text : BOOLEAN, tool : T]
  BY DEF ResponsesState
<1>2. PICK U : U = T \cup {x}
  OBVIOUS
<1>3. s \in [text : BOOLEAN, tool : U] /\ x \in U
  BY <1>1, <1>2
<1>4. \A y : y \in [text : BOOLEAN, tool : U] => ResponsesState(y)
  BY DEF ResponsesState
<1> QED BY <1>3, <1>4 DEF Named

\* An event that may come keeps the state and what is open in step.
LEMMA ResponsesKeeps ==
    ASSUME NEW s, ResponsesState(s), NEW e \in ResponsesCell, ResponsesReady(s, e),
           NEW ps, Fine(ps, ResponsesOpen(s, e))
    PROVE  ResponsesStays(s, e, ps, ResponsesStep(s, e))
<1>1. PICK d : d = ResponsesStep(s, e)
  OBVIOUS
<1>2. e.type \in ResponsesTypes
  BY DEF ResponsesCell
<1>0. s.text \in BOOLEAN
  BY DEF ResponsesState
<1>3. CASE e.type = "text.delta"
  <2>1. PICK t, p, q : /\ t = [s EXCEPT !.text = TRUE] /\ p = Start("text", "0", "")
                       /\ q = Delta("text", "0", e.text)
    OBVIOUS
  <2>2. d = [st |-> t, parts |-> (IF s.text THEN <<>> ELSE <<p>>) \o <<q>>]
    BY <1>1, <1>3, <2>1 DEF ResponsesStep
  <2>3. ResponsesState(t) /\ t.text
    BY <2>1, ResponsesStates
  <2>4. /\ p.part = "start" /\ <<p.of, p.id>> = <<"text", "0">>
        /\ q.part = "delta" /\ <<q.of, q.id>> = <<"text", "0">>
    BY <2>1 DEF Start, Delta
  <2>5. e.type \notin Arguments
    BY <1>3 DEF Arguments
  <2>6. Fine(ps \o d.parts, {<<"text", "0">>})
    <3>1. CASE s.text
      <4>1. <<>> \o <<q>> = <<q>>
        BY Short, NothingBefore
      <4>2. d.parts = <<q>>
        BY <2>2, <3>1, <4>1
      <4>3. Fine(ps, {<<"text", "0">>})
        BY <2>5, <3>1, ResponsesOpens
      <4> QED BY <2>4, <4>2, <4>3, GoesOnOne
    <3>2. CASE ~s.text
      <4>1. d.parts = <<p, q>>
        BY <2>2, <3>2, Two
      <4>2. Fine(ps, {})
        BY <2>5, <3>2, ResponsesOpens
      <4>3. Fine(ps \o <<p>>, {<<"text", "0">>})
        BY <2>4, <4>2, BeginsOne
      <4>4. Fine((ps \o <<p>>) \o <<q>>, {<<"text", "0">>})
        BY <2>4, <4>3, GoesOnOne
      <4>5. IsSequence(ps)
        BY <4>2 DEF Fine
      <4>6. (ps \o <<p>>) \o <<q>> = ps \o <<p, q>>
        BY <4>5, OneByOne
      <4> QED BY <4>1, <4>4, <4>6
    <3> QED BY <1>0, <3>1, <3>2
  <2>7. ASSUME NEW f \in ResponsesCell, ResponsesAfter(e, f)
        PROVE  ResponsesOpen(t, f) = {<<"text", "0">>} /\ ResponsesReady(t, f)
    <3>1. f.type \in {"text.delta", "text.done"}
      BY <1>3, <2>7 DEF ResponsesAfter
    <3> QED BY <2>3, <3>1, ResponsesOpens DEF ResponsesReady, Arguments
  <2>8. d.st = t
    BY <2>2
  <2> QED BY <1>1, <2>3, <2>6, <2>7, <2>8, NoPart DEF ResponsesStays
<1>4. CASE e.type = "text.done"
  <2>1. PICK t, p : t = [s EXCEPT !.text = FALSE] /\ p = End("text", "0")
    OBVIOUS
  <2>2. d = [st |-> t, parts |-> IF s.text THEN <<p>> ELSE <<>>]
    BY <1>1, <1>4, <2>1 DEF ResponsesStep
  <2>3. ResponsesState(t) /\ ~t.text
    BY <2>1, ResponsesStates
  <2>4. p.part = "end" /\ <<p.of, p.id>> = <<"text", "0">>
    BY <2>1 DEF End
  <2>5. e.type \notin Arguments
    BY <1>4 DEF Arguments
  <2>6. Fine(ps \o d.parts, {})
    <3>1. CASE s.text
      <4>1. d.parts = <<p>>
        BY <2>2, <3>1
      <4>2. Fine(ps, {<<"text", "0">>})
        BY <2>5, <3>1, ResponsesOpens
      <4> QED BY <2>4, <4>1, <4>2, ClosesOne
    <3>2. CASE ~s.text
      <4>1. d.parts = <<>>
        BY <2>2, <3>2
      <4>2. Fine(ps, {})
        BY <2>5, <3>2, ResponsesOpens
      <4> QED BY <4>1, <4>2, NoPart
    <3> QED BY <1>0, <3>1, <3>2
  <2>7. ASSUME NEW f \in ResponsesCell, ResponsesAfter(e, f)
        PROVE  ResponsesOpen(t, f) = {} /\ ResponsesReady(t, f)
    <3>1. f.type \notin Arguments
      BY <1>4, <2>7 DEF ResponsesAfter
    <3> QED BY <2>3, <3>1, ResponsesOpens DEF ResponsesReady
  <2>8. d.st = t
    BY <2>2
  <2> QED BY <1>1, <2>3, <2>6, <2>7, <2>8, NoPart DEF ResponsesStays
<1>5. CASE e.type = "call.added"
  <2>1. PICK t, p : t = [s EXCEPT !.tool = e.id] /\ p = Start("call", e.id, e.name)
    OBVIOUS
  <2>2. d = [st |-> t, parts |-> <<p>>]
    BY <1>1, <1>5, <2>1 DEF ResponsesStep
  <2>0. ~s.text
    BY <1>5 DEF ResponsesReady
  <2>3. ResponsesState(t) /\ t.tool = e.id /\ ~t.text
    <3>1. t = Named(s, e.id)
      BY <2>1 DEF Named
    <3> QED BY <2>0, <3>1, ResponsesStates
  <2>4. p.part = "start" /\ <<p.of, p.id>> = <<"call", e.id>>
    BY <2>1 DEF Start
  <2>5. e.type \notin Arguments
    BY <1>5 DEF Arguments
  <2>6. Fine(ps \o d.parts, {<<"call", e.id>>})
    <3>1. d.parts = <<p>>
      BY <2>2
    <3>2. Fine(ps, {})
      BY <2>0, <2>5, ResponsesOpens
    <3> QED BY <2>4, <3>1, <3>2, BeginsOne
  <2>7. ASSUME NEW f \in ResponsesCell, ResponsesAfter(e, f)
        PROVE  ResponsesOpen(t, f) = {<<"call", e.id>>} /\ ResponsesReady(t, f)
    <3>1. f.type \in Arguments
      BY <1>5, <2>7 DEF ResponsesAfter
    <3>2. ResponsesOpen(t, f) = {<<"call", t.tool>>}
      BY <2>3, <3>1, ResponsesOpens
    <3> QED BY <2>3, <3>2 DEF ResponsesReady
  <2>8. d.st = t
    BY <2>2
  <2> QED BY <1>1, <2>3, <2>6, <2>7, <2>8, NoPart DEF ResponsesStays
<1>6. CASE e.type = "arguments.delta"
  <2>1. PICK p : p = Delta("call", s.tool, e.text)
    OBVIOUS
  <2>2. d = [st |-> s, parts |-> <<p>>]
    BY <1>1, <1>6, <2>1 DEF ResponsesStep
  <2>3. ~s.text
    BY <1>6 DEF ResponsesReady
  <2>4. p.part = "delta" /\ <<p.of, p.id>> = <<"call", s.tool>>
    BY <2>1 DEF Delta
  <2>5. e.type \in Arguments
    BY <1>6 DEF Arguments
  <2>6. Fine(ps \o d.parts, {<<"call", s.tool>>})
    <3>1. d.parts = <<p>>
      BY <2>2
    <3>2. Fine(ps, {<<"call", s.tool>>})
      BY <2>3, <2>5, ResponsesOpens
    <3> QED BY <2>4, <3>1, <3>2, GoesOnOne
  <2>7. ASSUME NEW f \in ResponsesCell, ResponsesAfter(e, f)
        PROVE  ResponsesOpen(s, f) = {<<"call", s.tool>>} /\ ResponsesReady(s, f)
    <3>1. f.type \in Arguments
      BY <1>6, <2>7 DEF ResponsesAfter
    <3> QED BY <2>3, <3>1, ResponsesOpens DEF ResponsesReady
  <2>8. d.st = s
    BY <2>2
  <2> QED BY <1>1, <2>6, <2>7, <2>8, NoPart DEF ResponsesStays
<1>7. CASE e.type = "arguments.done"
  <2>1. PICK p : p = End("call", s.tool)
    OBVIOUS
  <2>2. d = [st |-> s, parts |-> <<p>>]
    BY <1>1, <1>7, <2>1 DEF ResponsesStep
  <2>3. ~s.text
    BY <1>7 DEF ResponsesReady
  <2>4. p.part = "end" /\ <<p.of, p.id>> = <<"call", s.tool>>
    BY <2>1 DEF End
  <2>5. e.type \in Arguments
    BY <1>7 DEF Arguments
  <2>6. Fine(ps \o d.parts, {})
    <3>1. d.parts = <<p>>
      BY <2>2
    <3>2. Fine(ps, {<<"call", s.tool>>})
      BY <2>3, <2>5, ResponsesOpens
    <3> QED BY <2>4, <3>1, <3>2, ClosesOne
  <2>7. ASSUME NEW f \in ResponsesCell, ResponsesAfter(e, f)
        PROVE  ResponsesOpen(s, f) = {} /\ ResponsesReady(s, f)
    <3>1. f.type \notin Arguments
      BY <1>7, <2>7 DEF ResponsesAfter
    <3> QED BY <2>3, <3>1, ResponsesOpens DEF ResponsesReady
  <2>8. d.st = s
    BY <2>2
  <2> QED BY <1>1, <2>6, <2>7, <2>8, NoPart DEF ResponsesStays
<1>8. CASE e.type \in {"completed", "incomplete", "failed"}
  <2>1. \A f : ~ResponsesAfter(e, f)
    BY <1>8 DEF ResponsesAfter
  <2>2. Fine(ps, {})
    <3>1. ~s.text /\ e.type \notin Arguments
      BY <1>8 DEF ResponsesReady, Arguments
    <3> QED BY <3>1, ResponsesOpens
  <2>3. d.st = s /\ Whole(ps \o d.parts)
    <3>1. CASE e.type = "completed"
      <4>1. d = [st |-> s, parts |-> <<Finish("Stop")>>]
        BY <1>1, <3>1 DEF ResponsesStep
      <4>2. d.st = s /\ d.parts = <<Finish("Stop")>>
        BY <4>1
      <4> QED BY <2>2, <4>2, Finishes
    <3>2. CASE e.type \in {"incomplete", "failed"}
      <4>1. d = [st |-> s, parts |-> <<>>]
        BY <1>1, <3>2 DEF ResponsesStep
      <4>2. d.st = s /\ d.parts = <<>>
        BY <4>1
      <4>3. Whole(ps \o <<>>)
        BY <2>2, NoPart
      <4> QED BY <4>2, <4>3
    <3> QED BY <1>8, <3>1, <3>2
  <2> QED BY <1>1, <2>1, <2>3 DEF ResponsesStays
<1> QED BY <1>1, <1>2, <1>3, <1>4, <1>5, <1>6, <1>7, <1>8 DEF ResponsesTypes

\* The next event is read.
LEMMA ResponsesReads ==
    ASSUME NEW w, NEW s, NEW ps, ResponsesFlow(w, s, ps), w # <<>>
    PROVE  LET d == ResponsesStep(s, SubSeq(w, 1, 1)[1])
           IN  ResponsesFlow(SubSeq(w, 2, Len(w)), d.st, ps \o d.parts)
<1>1. PICK e, t, d : e = w[1] /\ t = SubSeq(w, 2, Len(w)) /\ d = ResponsesStep(s, e)
  OBVIOUS
<1>2. /\ ResponsesState(s) /\ w \in Seq(ResponsesCell) /\ Linked(w, ResponsesFollows)
      /\ Fine(ps, ResponsesOpen(s, e)) /\ ResponsesReady(s, e)
  BY <1>1 DEF ResponsesFlow
<1>3. /\ e \in ResponsesCell /\ t \in Seq(ResponsesCell) /\ Linked(t, ResponsesFollows)
      /\ t # <<>> => <<e, t[1]>> \in ResponsesFollows /\ t[1] \in ResponsesCell
      /\ SubSeq(w, 1, 1)[1] = e
  BY <1>1, <1>2, LinkedTail
<1>4. ResponsesStays(s, e, ps, d)
  BY <1>1, <1>2, <1>3, ResponsesKeeps
<1>5. ResponsesState(d.st) /\ Whole(ps \o d.parts)
  BY <1>4 DEF ResponsesStays
<1>6. ASSUME t # <<>> PROVE Fine(ps \o d.parts, ResponsesOpen(d.st, t[1])) /\ ResponsesReady(d.st, t[1])
  <2>1. ResponsesAfter(e, t[1]) /\ t[1] \in ResponsesCell
    BY <1>3, <1>6 DEF ResponsesFollows
  <2> QED BY <1>4, <2>1 DEF ResponsesStays
<1> QED BY <1>1, <1>3, <1>5, <1>6 DEF ResponsesFlow

\* The parts so far are whole.
LEMMA ResponsesWhole ==
    ASSUME NEW w, NEW s, NEW ps, ResponsesFlow(w, s, ps) PROVE Whole(ps)
  BY NoPart DEF ResponsesFlow

\* What a server sends of an item.
ResponsesEvent(type, c, text) == [type |-> type, id |-> IF c.type = "call" THEN c.id ELSE "",
                                  name |-> IF c.type = "call" THEN c.name ELSE "", text |-> text]
ResponsesPieces(type, c) == [i \in DOMAIN c.text |-> ResponsesEvent(type, c, <<c.text[i]>>)]
ResponsesOf(c) ==
    IF c.type = "text"
    THEN ResponsesPieces("text.delta", c) \o <<ResponsesEvent("text.done", c, <<>>)>>
    ELSE <<ResponsesEvent("call.added", c, <<>>)>> \o ResponsesPieces("arguments.delta", c)
         \o <<ResponsesEvent("arguments.done", c, <<>>)>>

ResponsesEventOf(e, type) == e \in ResponsesCell /\ e.type = type

\* The events of an item are events.
LEMMA ResponsesEventTyped ==
    ASSUME NEW c \in TextContent \cup CallContent, NEW text \in Seq(STRING),
           NEW type \in ResponsesTypes
    PROVE  ResponsesEventOf(ResponsesEvent(type, c, text), type)
<1>1. PICK id, name : /\ id = (IF c.type = "call" THEN c.id ELSE "")
                      /\ name = (IF c.type = "call" THEN c.name ELSE "")
  OBVIOUS
<1>2. id \in STRING \cup {""} /\ name \in STRING \cup {""}
  BY <1>1 DEF TextContent, CallContent
<1>3. ResponsesEvent(type, c, text) = [type |-> type, id |-> id, name |-> name, text |-> text]
  BY <1>1 DEF ResponsesEvent
<1>4. PICK e : e = [type |-> type, id |-> id, name |-> name, text |-> text]
  OBVIOUS
<1>5. e \in ResponsesCell /\ e.type = type
  BY <1>2, <1>4 DEF ResponsesCell
<1> QED BY <1>3, <1>4, <1>5 DEF ResponsesEventOf

\* Pieces of a text or of arguments follow one another.
LEMMA ResponsesPiecesLinked ==
    ASSUME NEW c \in TextContent \cup CallContent, NEW type \in {"text.delta", "arguments.delta"}
    PROVE  LET u == ResponsesPieces(type, c)
           IN  /\ u \in Seq(ResponsesCell) /\ Linked(u, ResponsesFollows)
               /\ u # <<>> => /\ ResponsesEventOf(u[1], type) /\ ResponsesEventOf(Last(u), type)
<1>1. PICK u, t, n : u = ResponsesPieces(type, c) /\ t = c.text /\ n = Len(t)
  OBVIOUS
<1>2. t \in Seq(STRING)
  BY <1>1 DEF TextContent, CallContent
<1>3. n \in Nat /\ DOMAIN t = 1..n
  BY <1>1, <1>2
<1>4. type \in ResponsesTypes
  BY DEF ResponsesTypes
<1>5. u = [i \in 1..n |-> ResponsesEvent(type, c, <<t[i]>>)]
  BY <1>1, <1>3 DEF ResponsesPieces
<1>6. ASSUME NEW i \in 1..n PROVE ResponsesEventOf(u[i], type)
  <2>1. <<t[i]>> \in Seq(STRING)
    BY <1>2, <1>3
  <2>2. u[i] = ResponsesEvent(type, c, <<t[i]>>)
    BY <1>5
  <2> QED BY <1>4, <2>1, <2>2, ResponsesEventTyped
<1>7. u \in [1..n -> ResponsesCell]
  BY <1>5, <1>6 DEF ResponsesEventOf
<1>8. u \in Seq(ResponsesCell) /\ Len(u) = n
  BY <1>3, <1>7
<1>9. ASSUME NEW i \in 1..(n - 1) PROVE <<u[i], u[i + 1]>> \in ResponsesFollows
  <2>1. i \in 1..n /\ i + 1 \in 1..n
    BY <1>3
  <2>2. ResponsesEventOf(u[i], type) /\ ResponsesEventOf(u[i + 1], type)
    BY <1>6, <2>1
  <2>3. ResponsesAfter(u[i], u[i + 1])
    BY <2>2 DEF ResponsesEventOf, ResponsesAfter, Arguments
  <2> QED BY <2>2, <2>3 DEF ResponsesFollows, ResponsesEventOf
<1>10. Linked(u, ResponsesFollows)
  BY <1>8, <1>9 DEF Linked
<1>11. u # <<>> => 1 \in 1..n /\ n \in 1..n
  BY <1>3, <1>8
<1> QED BY <1>1, <1>6, <1>8, <1>10, <1>11 DEF Last

\* An item's events, from its start to its end.
LEMMA ResponsesOfLinked ==
    ASSUME NEW c \in TextContent \cup CallContent
    PROVE  LET u == ResponsesOf(c)
           IN  /\ u \in Seq(ResponsesCell) /\ u # <<>> /\ Linked(u, ResponsesFollows)
               /\ u[1] \in ResponsesCell /\ u[1].type \in {"text.delta", "text.done", "call.added"}
               /\ Last(u) \in ResponsesCell /\ Last(u).type \in {"text.done", "arguments.done"}
<1>0. <<>> \in Seq(STRING)
  BY EmptySeq
<1>a. ASSUME NEW e \in ResponsesCell, NEW f \in ResponsesCell, ResponsesAfter(e, f)
      PROVE  <<e, f>> \in ResponsesFollows
  BY <1>a DEF ResponsesFollows
<1>1. CASE c.type = "text"
  <2>1. PICK p, y : /\ p = ResponsesPieces("text.delta", c)
                    /\ y = ResponsesEvent("text.done", c, <<>>)
    OBVIOUS
  <2>2. ResponsesEventOf(y, "text.done")
    BY <1>0, <2>1, ResponsesEventTyped DEF ResponsesTypes
  <2>3. /\ p \in Seq(ResponsesCell) /\ Linked(p, ResponsesFollows)
        /\ p # <<>> => /\ ResponsesEventOf(p[1], "text.delta")
                      /\ ResponsesEventOf(Last(p), "text.delta")
    BY <2>1, ResponsesPiecesLinked
  <2>4. PICK Y : Y = <<y>>
    OBVIOUS
  <2>5. /\ Y \in Seq(ResponsesCell) /\ Y # <<>> /\ Y[1] = y /\ Last(Y) = y
        /\ Linked(Y, ResponsesFollows)
    BY <2>2, <2>4, OneLinked DEF ResponsesEventOf
  <2>6. ResponsesOf(c) = p \o Y
    BY <1>1, <2>1, <2>4 DEF ResponsesOf
  <2>7. CASE p = <<>>
    <3>1. p \o Y = Y
      BY <2>5, <2>7, ConcatEmptySeq
    <3> QED BY <2>2, <2>5, <2>6, <3>1 DEF ResponsesEventOf
  <2>8. CASE p # <<>>
    <3>1. ResponsesAfter(Last(p), y)
      BY <2>2, <2>3, <2>8 DEF ResponsesEventOf, ResponsesAfter, Arguments
    <3>2. <<Last(p), Y[1]>> \in ResponsesFollows
      BY <1>a, <2>2, <2>3, <2>5, <2>8, <3>1 DEF ResponsesEventOf
    <3>3. /\ p \o Y \in Seq(ResponsesCell) /\ p \o Y # <<>> /\ Linked(p \o Y, ResponsesFollows)
          /\ (p \o Y)[1] = p[1] /\ Last(p \o Y) = y
      BY <2>3, <2>5, <2>8, <3>2, LinkedJoin
    <3> QED BY <2>2, <2>3, <2>6, <2>8, <3>3 DEF ResponsesEventOf
  <2> QED BY <2>7, <2>8
<1>2. CASE c.type # "text"
  <2>1. PICK x, p, y : /\ x = ResponsesEvent("call.added", c, <<>>)
                       /\ p = ResponsesPieces("arguments.delta", c)
                       /\ y = ResponsesEvent("arguments.done", c, <<>>)
    OBVIOUS
  <2>2. ResponsesEventOf(x, "call.added") /\ ResponsesEventOf(y, "arguments.done")
    BY <1>0, <2>1, ResponsesEventTyped DEF ResponsesTypes
  <2>3. /\ p \in Seq(ResponsesCell) /\ Linked(p, ResponsesFollows)
        /\ p # <<>> => /\ ResponsesEventOf(p[1], "arguments.delta")
                      /\ ResponsesEventOf(Last(p), "arguments.delta")
    BY <2>1, ResponsesPiecesLinked
  <2>4. PICK X, Y : X = <<x>> /\ Y = <<y>>
    OBVIOUS
  <2>5. /\ X \in Seq(ResponsesCell) /\ X # <<>> /\ X[1] = x /\ Last(X) = x
        /\ Linked(X, ResponsesFollows)
        /\ Y \in Seq(ResponsesCell) /\ Y # <<>> /\ Y[1] = y /\ Last(Y) = y
        /\ Linked(Y, ResponsesFollows)
    BY <2>2, <2>4, OneLinked DEF ResponsesEventOf
  <2>6. PICK u : u = X \o p
    OBVIOUS
  <2>7. /\ u \in Seq(ResponsesCell) /\ u # <<>> /\ Linked(u, ResponsesFollows) /\ u[1] = x
        /\ Last(u) \in ResponsesCell /\ Last(u).type \in {"call.added", "arguments.delta"}
    <3>1. p # <<>> => ResponsesAfter(x, p[1])
      BY <2>2, <2>3 DEF ResponsesEventOf, ResponsesAfter, Arguments
    <3>2. p # <<>> => <<Last(X), p[1]>> \in ResponsesFollows
      BY <1>a, <2>2, <2>3, <2>5, <3>1 DEF ResponsesEventOf
    <3>3. /\ u \in Seq(ResponsesCell) /\ u # <<>> /\ Linked(u, ResponsesFollows) /\ u[1] = X[1]
          /\ Last(u) = IF p = <<>> THEN Last(X) ELSE Last(p)
      BY <2>3, <2>5, <2>6, <3>2, LinkedJoin
    <3> QED BY <2>2, <2>3, <2>5, <3>3 DEF ResponsesEventOf
  <2>8. PICK v : v = u \o Y
    OBVIOUS
  <2>9. v \in Seq(ResponsesCell) /\ v # <<>> /\ Linked(v, ResponsesFollows) /\ v[1] = x /\ Last(v) = y
    <3>1. ResponsesAfter(Last(u), y)
      BY <2>2, <2>7 DEF ResponsesEventOf, ResponsesAfter, Arguments
    <3>2. <<Last(u), Y[1]>> \in ResponsesFollows
      BY <1>a, <2>2, <2>5, <2>7, <3>1 DEF ResponsesEventOf
    <3> QED BY <2>5, <2>7, <2>8, <3>2, LinkedJoin
  <2>10. v = ResponsesOf(c)
    BY <1>2, <2>1, <2>4, <2>6, <2>8 DEF ResponsesOf
  <2> QED BY <2>2, <2>9, <2>10 DEF ResponsesEventOf
<1> QED BY <1>1, <1>2

\* A stream begins.
LEMMA ResponsesOpensStream ==
    ASSUME NEW r, r.content \in Seq(TextContent \cup CallContent),
           r.stop \in {"completed", "incomplete", "failed"}
    PROVE  ResponsesFlow(ResponsesEvents(r), ResponsesStart, <<>>)
<1>1. PICK none, n, y : /\ none = Text(<<>>) /\ n = Len(r.content)
                        /\ y = ResponsesEvent(r.stop, none, <<>>)
  OBVIOUS
<1>2. PICK ss, mid, Y : /\ ss = [i \in DOMAIN r.content |-> ResponsesOf(r.content[i])]
                        /\ mid = FlattenSeq(ss) /\ Y = <<y>>
  OBVIOUS
<1>3. ResponsesEvents(r) = mid \o Y
  BY <1>1, <1>2 DEF ResponsesEvents, ResponsesOf, ResponsesPieces, ResponsesEvent
<1>4. ResponsesEventOf(y, r.stop)
  <2>1. none \in TextContent \cup CallContent /\ <<>> \in Seq(STRING)
    BY <1>1, EmptySeq DEF Text, TextContent
  <2>2. PICK z : z = r.stop
    OBVIOUS
  <2>3. z \in ResponsesTypes /\ y = ResponsesEvent(z, none, <<>>)
    BY <1>1, <2>2 DEF ResponsesTypes
  <2> QED BY <2>1, <2>2, <2>3, ResponsesEventTyped
<1>a. ASSUME NEW e \in ResponsesCell, NEW f \in ResponsesCell, ResponsesAfter(e, f)
      PROVE  <<e, f>> \in ResponsesFollows
  BY <1>a DEF ResponsesFollows
<1>5. /\ n \in Nat /\ Len(ss) = n /\ ss \in Seq(Seq(ResponsesCell))
      /\ \A i \in 1..n :
            /\ ss[i] # <<>> /\ Linked(ss[i], ResponsesFollows)
            /\ ss[i][1] \in ResponsesCell
            /\ ss[i][1].type \in {"text.delta", "text.done", "call.added"}
            /\ Last(ss[i]) \in ResponsesCell
            /\ Last(ss[i]).type \in {"text.done", "arguments.done"}
  <2>1. n \in Nat /\ DOMAIN r.content = 1..n
    BY <1>1
  <2>2. \A i \in 1..n : ss[i] = ResponsesOf(r.content[i])
                        /\ r.content[i] \in TextContent \cup CallContent
    BY <1>2, <2>1
  <2>3. \A i \in 1..n :
            /\ ss[i] \in Seq(ResponsesCell)
            /\ ss[i] # <<>> /\ Linked(ss[i], ResponsesFollows)
            /\ ss[i][1] \in ResponsesCell
            /\ ss[i][1].type \in {"text.delta", "text.done", "call.added"}
            /\ Last(ss[i]) \in ResponsesCell
            /\ Last(ss[i]).type \in {"text.done", "arguments.done"}
    BY <2>2, ResponsesOfLinked
  <2>4. ss \in [1..n -> Seq(ResponsesCell)]
    BY <1>2, <2>1, <2>3
  <2>5. ss \in Seq(Seq(ResponsesCell)) /\ Len(ss) = n
    BY <2>1, <2>4
  <2> QED BY <2>1, <2>3, <2>5
<1>6. /\ Y \in Seq(ResponsesCell) /\ Y # <<>> /\ Y[1] = y /\ Last(Y) = y
      /\ Linked(Y, ResponsesFollows)
  BY <1>2, <1>4, OneLinked DEF ResponsesEventOf
<1>7. PICK w : w = mid \o Y
  OBVIOUS
<1>8. /\ w \in Seq(ResponsesCell) /\ w # <<>> /\ Linked(w, ResponsesFollows)
      /\ w[1].type \notin Arguments
  <2>1. CASE n = 0
    <3>1. ss = <<>>
      BY <1>5, <2>1
    <3>2. mid = <<>>
      BY <1>2, <3>1, FlattenEmpty
    <3>3. w = Y
      BY <1>6, <1>7, <3>2, ConcatEmptySeq
    <3>4. y.type \notin Arguments
      BY <1>4 DEF ResponsesEventOf, Arguments
    <3> QED BY <1>6, <3>3, <3>4
  <2>2. CASE n # 0
    <3>1. ss # <<>> /\ 1 \in 1..n /\ n \in 1..n
      BY <1>5, <2>2
    <3>2. ASSUME NEW i \in 1..(n - 1) PROVE <<Last(ss[i]), ss[i + 1][1]>> \in ResponsesFollows
      <4>1. i \in 1..n /\ i + 1 \in 1..n
        BY <1>5
      <4>2. ResponsesAfter(Last(ss[i]), ss[i + 1][1])
        BY <1>5, <4>1 DEF ResponsesAfter, Arguments
      <4> QED BY <1>a, <1>5, <4>1, <4>2
    <3>3. Chained(ss, ResponsesFollows)
      BY <1>5, <3>2 DEF Chained
    <3>4. /\ mid \in Seq(ResponsesCell) /\ mid # <<>> /\ Linked(mid, ResponsesFollows)
          /\ mid[1] = ss[1][1] /\ Last(mid) = Last(ss[n])
      BY <1>2, <1>5, <3>1, <3>3, FlattenLinked
    <3>5. ResponsesAfter(Last(mid), y)
      BY <1>4, <1>5, <3>1, <3>4 DEF ResponsesEventOf, ResponsesAfter, Arguments
    <3>6. <<Last(mid), Y[1]>> \in ResponsesFollows
      BY <1>a, <1>4, <1>5, <1>6, <3>1, <3>4, <3>5 DEF ResponsesEventOf
    <3>7. /\ w \in Seq(ResponsesCell) /\ w # <<>> /\ Linked(w, ResponsesFollows)
          /\ w[1] = mid[1]
      BY <1>6, <1>7, <3>4, <3>6, LinkedJoin
    <3>8. mid[1].type \notin Arguments
      BY <1>5, <3>1, <3>4 DEF Arguments
    <3> QED BY <3>7, <3>8
  <2> QED BY <2>1, <2>2
<1>9. PICK s : s = ResponsesStart
  OBVIOUS
<1>10. ResponsesState(s) /\ ~s.text
  <2>1. s \in [text : BOOLEAN, tool : {""}] /\ ~s.text
    BY <1>9 DEF ResponsesStart
  <2> QED BY <2>1 DEF ResponsesState
<1>11. Fine(<<>>, ResponsesOpen(s, w[1])) /\ ResponsesReady(s, w[1])
  BY <1>8, <1>10, NoPart, ResponsesOpens DEF ResponsesReady
<1> QED BY <1>3, <1>7, <1>8, <1>9, <1>10, <1>11 DEF ResponsesFlow

-----------------------------------------------------------------------------
(* Google: chunks of at most one part *)

GoogleCell == [parts : {<<>>} \cup {<<x>> : x \in TextContent \cup CallContent},
               stop : STRING \cup {"unset"}]

GoogleState(s) == \E T, R : s \in [text : BOOLEAN, calls : T, reason : R]
GoogleOpen(s) == IF s.text THEN {<<"text", "0">>} ELSE {}

GoogleFlow(w, s, ps) ==
    GoogleState(s) /\ w \in Seq(GoogleCell) /\ Fine(ps, GoogleOpen(s))

\* f is what folding the parts of a chunk gives for each set of places.
GoogleFolds(f, base, ps) ==
    f = [S \in SUBSET (DOMAIN ps) |->
            IF S = {} THEN base ELSE GooglePart(f[S \ {Max(S)}], ps[Max(S)])]

\* What FoldLeft is of GooglePart.
LEMMA GoogleFoldIs ==
    ASSUME NEW base, NEW ps
    PROVE  FoldLeft(GooglePart, base, ps) = (CHOOSE f : GoogleFolds(f, base, ps))[DOMAIN ps]
  BY DEF FoldLeft, MapThenFoldSet, GoogleFolds

\* The greatest of one.
LEMMA MaxOne == Max({1}) = 1
  BY DEF Max

\* A chunk without parts.
LEMMA GoogleFoldNone == ASSUME NEW base PROVE FoldLeft(GooglePart, base, <<>>) = base
<1>1. DOMAIN <<>> = {} /\ SUBSET {} = {{}}
  OBVIOUS
<1>2. GoogleFolds([S \in {{}} |-> base], base, <<>>)
  BY <1>1 DEF GoogleFolds
<1>3. PICK f : /\ f = CHOOSE g : GoogleFolds(g, base, <<>>)
               /\ GoogleFolds(f, base, <<>>)
  BY <1>2
<1>4. f[{}] = base
  BY <1>1, <1>3 DEF GoogleFolds
<1> QED BY <1>1, <1>3, <1>4, GoogleFoldIs

\* A chunk with one part.
LEMMA GoogleFoldOne ==
    ASSUME NEW base, NEW x PROVE FoldLeft(GooglePart, base, <<x>>) = GooglePart(base, x)
<1>1. PICK ps, e : ps = <<x>> /\ e = GooglePart(base, x)
  OBVIOUS
<1>2. DOMAIN ps = {1} /\ ps[1] = x
  BY <1>1
<1>3. /\ \A S \in SUBSET {1} : S = {} \/ S = {1}
      /\ {} \in SUBSET {1} /\ {1} \in SUBSET {1} /\ {1} # {} /\ {1} \ {1} = {}
  OBVIOUS
<1>4. PICK h : h = [S \in SUBSET {1} |-> IF S = {} THEN base ELSE e]
  OBVIOUS
<1>5. h[{}] = base /\ h[{1}] = e
  BY <1>3, <1>4
<1>6. ASSUME NEW S \in SUBSET {1}
      PROVE  h[S] = IF S = {} THEN base ELSE GooglePart(h[S \ {Max(S)}], ps[Max(S)])
  <2>1. CASE S = {}
    BY <1>5, <2>1
  <2>2. CASE S = {1}
    <3>1. Max(S) = 1 /\ S \ {Max(S)} = {}
      BY <1>3, <2>2, MaxOne
    <3> QED BY <1>1, <1>2, <1>3, <1>5, <2>2, <3>1
  <2> QED BY <1>3, <2>1, <2>2
<1>7. GoogleFolds(h, base, ps)
  <2>1. h = [S \in SUBSET {1} |-> h[S]]
    BY <1>4
  <2> QED BY <1>2, <1>6, <2>1 DEF GoogleFolds
<1>8. PICK f : f = (CHOOSE g : GoogleFolds(g, base, ps)) /\ GoogleFolds(f, base, ps)
  BY <1>7
<1>9. ASSUME NEW S \in SUBSET {1}
      PROVE  f[S] = IF S = {} THEN base ELSE GooglePart(f[S \ {Max(S)}], ps[Max(S)])
  BY <1>2, <1>8 DEF GoogleFolds
<1>10. f[{}] = base
  BY <1>3, <1>9
<1>11. f[{1}] = e
  <2>1. Max({1}) = 1 /\ {1} \ {Max({1})} = {}
    BY <1>3, MaxOne
  <2> QED BY <1>1, <1>2, <1>3, <1>9, <1>10, <2>1
<1> QED BY <1>1, <1>2, <1>8, <1>11, GoogleFoldIs

\* What the decoder does to its flag.
LEMMA GoogleStates ==
    ASSUME NEW s, GoogleState(s), NEW x, NEW y
    PROVE  LET t == [s EXCEPT !.reason = x]
               u == [s EXCEPT !.text = TRUE]
               v == [s EXCEPT !.text = FALSE, !.calls = y, !.reason = x]
           IN  /\ GoogleState(t) /\ GoogleOpen(t) = GoogleOpen(s)
               /\ GoogleState(u) /\ u.text
               /\ GoogleState(v) /\ ~v.text
<1>1. PICK T, R : s \in [text : BOOLEAN, calls : T, reason : R]
  BY DEF GoogleState
<1>2. PICK U, V : U = T \cup {y} /\ V = R \cup {x}
  OBVIOUS
<1>3. s \in [text : BOOLEAN, calls : U, reason : V] /\ x \in V /\ y \in U
  BY <1>1, <1>2
<1>4. \A z : z \in [text : BOOLEAN, calls : U, reason : V] => GoogleState(z)
  BY DEF GoogleState
<1> QED BY <1>3, <1>4 DEF GoogleOpen

\* One part of a chunk.
LEMMA GoogleOne ==
    ASSUME NEW s, GoogleState(s), NEW ps, Fine(ps, GoogleOpen(s)), NEW x
    PROVE  LET d == GooglePart([st |-> s, parts |-> <<>>], x)
           IN  GoogleState(d.st) /\ Fine(ps \o d.parts, GoogleOpen(d.st))
<1>1. PICK a, d : a = [st |-> s, parts |-> <<>>] /\ d = GooglePart(a, x)
  OBVIOUS
<1>2. a.st = s /\ a.parts = <<>> /\ s.text \in BOOLEAN
  BY <1>1 DEF GoogleState
<1>3. /\ s.text => GoogleOpen(s) = {<<"text", "0">>}
      /\ ~s.text => GoogleOpen(s) = {}
  BY DEF GoogleOpen
<1>4. IsSequence(ps)
  BY DEF Fine
<1>5. CASE x.type = "text"
  <2>1. PICK t, p, q, X : /\ t = [s EXCEPT !.text = TRUE] /\ p = Start("text", "0", "")
                          /\ q = Delta("text", "0", x.text)
                          /\ X = IF s.text THEN <<>> ELSE <<p>>
    OBVIOUS
  <2>2. d = [st |-> t, parts |-> (<<>> \o X) \o <<q>>]
    BY <1>1, <1>2, <1>5, <2>1 DEF GooglePart
  <2>3. d.st = t /\ d.parts = (<<>> \o X) \o <<q>>
    BY <2>2
  <2>4. GoogleState(t) /\ t.text /\ GoogleOpen(t) = {<<"text", "0">>}
    <3>1. GoogleState(t) /\ t.text
      BY <2>1, GoogleStates
    <3> QED BY <3>1 DEF GoogleOpen
  <2>5. /\ p.part = "start" /\ <<p.of, p.id>> = <<"text", "0">>
        /\ q.part = "delta" /\ <<q.of, q.id>> = <<"text", "0">>
    BY <2>1 DEF Start, Delta
  <2>6. IsSequence(X) /\ IsSequence(<<q>>)
    BY <1>2, <2>1, Short
  <2>7. ps \o d.parts = (ps \o X) \o <<q>>
    BY <1>4, <2>3, <2>6, FromNothing
  <2>8. Fine(ps \o X, {<<"text", "0">>})
    <3>1. CASE s.text
      BY <1>3, <2>1, <3>1, NoPart
    <3>2. CASE ~s.text
      BY <1>3, <2>1, <2>5, <3>2, BeginsOne
    <3> QED BY <1>2, <3>1, <3>2
  <2>9. Fine((ps \o X) \o <<q>>, {<<"text", "0">>})
    BY <2>5, <2>8, GoesOnOne
  <2> QED BY <1>1, <2>3, <2>4, <2>7, <2>9
<1>6. CASE x.type # "text"
  <2>1. PICK id, p, q, r, e, X :
            /\ id = MadeUp(x.name, s.calls)
            /\ p = Start("call", id, x.name) /\ q = Delta("call", id, Serialized(x.text))
            /\ r = End("call", id) /\ e = End("text", "0")
            /\ X = IF s.text THEN <<e>> ELSE <<>>
    OBVIOUS
  <2>2. PICK n, t : n = s.calls + 1
                    /\ t = [s EXCEPT !.text = FALSE, !.calls = n, !.reason = "ToolCalls"]
    OBVIOUS
  <2>3. d = [st |-> t, parts |-> (<<>> \o X) \o <<p, q, r>>]
    BY <1>1, <1>2, <1>6, <2>1, <2>2 DEF GooglePart
  <2>4. d.st = t /\ d.parts = (<<>> \o X) \o <<p, q, r>>
    BY <2>3
  <2>5. GoogleState(t) /\ ~t.text /\ GoogleOpen(t) = {}
    <3>1. GoogleState(t) /\ ~t.text
      BY <2>2, GoogleStates
    <3> QED BY <3>1 DEF GoogleOpen
  <2>6. /\ p.part = "start" /\ <<p.of, p.id>> = <<"call", id>>
        /\ q.part = "delta" /\ <<q.of, q.id>> = <<"call", id>>
        /\ r.part = "end" /\ <<r.of, r.id>> = <<"call", id>>
        /\ e.part = "end" /\ <<e.of, e.id>> = <<"text", "0">>
    BY <2>1 DEF Start, Delta, End
  <2>7. IsSequence(X) /\ IsSequence(<<p, q, r>>)
    BY <1>2, <2>1, Short, ShortToo
  <2>8. ps \o d.parts = (ps \o X) \o <<p, q, r>>
    BY <1>4, <2>4, <2>7, FromNothing
  <2>9. PICK os : os = ps \o X
    OBVIOUS
  <2>10. Fine(os, {})
    <3>1. CASE s.text
      BY <1>3, <2>1, <2>6, <2>9, <3>1, ClosesOne
    <3>2. CASE ~s.text
      BY <1>3, <2>1, <2>9, <3>2, NoPart
    <3> QED BY <1>2, <3>1, <3>2
  <2>11. Fine(os \o <<p>>, {<<"call", id>>})
    BY <2>6, <2>10, BeginsOne
  <2>12. Fine((os \o <<p>>) \o <<q>>, {<<"call", id>>})
    BY <2>6, <2>11, GoesOnOne
  <2>13. Fine(((os \o <<p>>) \o <<q>>) \o <<r>>, {})
    BY <2>6, <2>12, ClosesOne
  <2>14. ((os \o <<p>>) \o <<q>>) \o <<r>> = os \o <<p, q, r>>
    <3>1. IsSequence(os)
      BY <2>10 DEF Fine
    <3> QED BY <3>1, Three
  <2> QED BY <1>1, <2>4, <2>5, <2>8, <2>9, <2>13, <2>14
<1> QED BY <1>5, <1>6

\* The next chunk is read.
LEMMA GoogleReads ==
    ASSUME NEW w, NEW s, NEW ps, GoogleFlow(w, s, ps), w # <<>>
    PROVE  LET d == GoogleStep(s, SubSeq(w, 1, 1)[1])
           IN  GoogleFlow(SubSeq(w, 2, Len(w)), d.st, ps \o d.parts)
<1>1. PICK e, t, d : e = w[1] /\ t = SubSeq(w, 2, Len(w)) /\ d = GoogleStep(s, e)
  OBVIOUS
<1>2. GoogleState(s) /\ w \in Seq(GoogleCell) /\ Fine(ps, GoogleOpen(s))
  BY DEF GoogleFlow
<1>3. e \in GoogleCell /\ t \in Seq(GoogleCell) /\ SubSeq(w, 1, 1)[1] = e
  BY <1>1, <1>2
<1>4. PICK x, u, a : /\ x = (IF e.stop \in DOMAIN GoogleReasons THEN GoogleReasons[e.stop] ELSE s.reason)
                     /\ u = [s EXCEPT !.reason = x] /\ a = [st |-> u, parts |-> <<>>]
  OBVIOUS
<1>5. d = FoldLeft(GooglePart, a, e.parts)
  BY <1>1, <1>4 DEF GoogleStep
<1>6. GoogleState(u) /\ GoogleOpen(u) = GoogleOpen(s)
  BY <1>2, <1>4, GoogleStates
<1>8. GoogleState(d.st) /\ Fine(ps \o d.parts, GoogleOpen(d.st))
  <2>1. CASE e.parts = <<>>
    <3>1. d = a
      BY <1>5, <2>1, GoogleFoldNone
    <3>2. d.st = u /\ d.parts = <<>>
      BY <1>4, <3>1
    <3>3. ps \o <<>> = ps
      BY <1>2, NoPart
    <3> QED BY <1>2, <1>6, <3>2, <3>3
  <2>2. CASE \E y : e.parts = <<y>>
    <3>1. PICK y : e.parts = <<y>>
      BY <2>2
    <3>2. d = GooglePart(a, y)
      BY <1>5, <3>1, GoogleFoldOne
    <3> QED BY <1>2, <1>4, <1>6, <3>2, GoogleOne
  <2>3. e.parts = <<>> \/ \E y : e.parts = <<y>>
    BY <1>3 DEF GoogleCell
  <2> QED BY <2>1, <2>2, <2>3
<1> QED BY <1>1, <1>3, <1>8 DEF GoogleFlow

\* The parts so far are whole, and with the end of the stream.
LEMMA GoogleWhole ==
    ASSUME NEW w, NEW s, NEW ps, GoogleFlow(w, s, ps)
    PROVE  Whole(ps) /\ Whole(ps \o GoogleEnd(s))
<1>1. GoogleState(s) /\ Fine(ps, GoogleOpen(s)) /\ s.text \in BOOLEAN /\ IsSequence(ps)
  BY DEF GoogleFlow, GoogleState, Fine
<1>2. PICK e, f, X : /\ e = End("text", "0") /\ f = Finish(s.reason)
                     /\ X = IF s.text THEN <<e>> ELSE <<>>
  OBVIOUS
<1>3. e.part = "end" /\ <<e.of, e.id>> = <<"text", "0">>
  BY <1>2 DEF End
<1>4. Fine(ps \o X, {})
  <2>1. CASE s.text
    BY <1>1, <1>2, <1>3, <2>1, ClosesOne DEF GoogleOpen
  <2>2. CASE ~s.text
    BY <1>1, <1>2, <2>2, NoPart DEF GoogleOpen
  <2> QED BY <1>1, <2>1, <2>2
<1>5. Whole((ps \o X) \o <<f>>)
  BY <1>2, <1>4, Finishes
<1>6. IsSequence(X) /\ IsSequence(<<f>>)
  BY <1>1, <1>2, Short
<1>7. ps \o (X \o <<f>>) = (ps \o X) \o <<f>>
  BY <1>1, <1>6, JoinedTwice
<1>8. GoogleEnd(s) = X \o <<f>>
  BY <1>2 DEF GoogleEnd
<1> QED BY <1>1, <1>5, <1>7, <1>8, NoPart

\* A stream begins.
LEMMA GoogleOpensStream ==
    ASSUME NEW r, r.content \in Seq(TextContent \cup CallContent), r.stop \in STRING
    PROVE  GoogleFlow(GoogleEvents(r), GoogleStart, <<>>)
<1>1. PICK ls, n, m, cs :
          /\ ls = FlattenSeq([i \in DOMAIN r.content |->
                       IF r.content[i].type = "call" THEN <<r.content[i]>>
                       ELSE [k \in DOMAIN r.content[i].text |->
                                Text(<<r.content[i].text[k]>>)]])
          /\ n = Len(r.content) /\ m = Len(ls)
          /\ cs = [i \in DOMAIN ls |-> [parts |-> <<ls[i]>>, stop |-> "unset"]]
  OBVIOUS
<1>2. ls \in Seq(TextContent \cup CallContent)
  <2>1. n \in Nat /\ DOMAIN r.content = 1..n
    BY <1>1
  <2>2. ASSUME NEW i \in 1..n
        PROVE  (IF r.content[i].type = "call" THEN <<r.content[i]>>
                ELSE [k \in DOMAIN r.content[i].text |-> Text(<<r.content[i].text[k]>>)])
               \in Seq(TextContent \cup CallContent)
    <3>1. PICK b, t : b = r.content[i] /\ t = b.text
      OBVIOUS
    <3>2. b \in TextContent \cup CallContent
      BY <2>1, <3>1
    <3>3. t \in Seq(STRING)
      BY <3>1, <3>2 DEF TextContent, CallContent
    <3>4. <<b>> \in Seq(TextContent \cup CallContent)
      BY <3>2
    <3>5. ASSUME NEW k \in DOMAIN t PROVE Text(<<t[k]>>) \in TextContent \cup CallContent
      <4>1. <<t[k]>> \in Seq(STRING)
        BY <3>3
      <4> QED BY <4>1 DEF Text, TextContent
    <3>6. [k \in DOMAIN t |-> Text(<<t[k]>>)] \in Seq(TextContent \cup CallContent)
      <4>1. PICK l : l = Len(t) /\ l \in Nat /\ DOMAIN t = 1..l
        BY <3>3
      <4>2. [k \in DOMAIN t |-> Text(<<t[k]>>)] \in [1..l -> TextContent \cup CallContent]
        BY <3>5, <4>1
      <4> QED BY <4>1, <4>2
    <3> QED BY <3>1, <3>4, <3>6
  <2>3. PICK ss : ss = [i \in DOMAIN r.content |->
                       IF r.content[i].type = "call" THEN <<r.content[i]>>
                       ELSE [k \in DOMAIN r.content[i].text |->
                                Text(<<r.content[i].text[k]>>)]]
    OBVIOUS
  <2>4. ss \in [1..n -> Seq(TextContent \cup CallContent)]
    BY <2>1, <2>2, <2>3
  <2>5. ss \in Seq(Seq(TextContent \cup CallContent))
    BY <2>1, <2>4
  <2> QED BY <1>1, <2>3, <2>5, FlattenTyped
<1>3. m \in Nat /\ DOMAIN ls = 1..m
  BY <1>1, <1>2
<1>4. \A x \in TextContent \cup CallContent, stop \in STRING \cup {"unset"} :
          [parts |-> <<x>>, stop |-> stop] \in GoogleCell
  BY DEF GoogleCell
<1>5. cs \in Seq(GoogleCell) /\ Len(cs) = m /\ \A i \in 1..m : cs[i] = [parts |-> <<ls[i]>>, stop |-> "unset"]
  <2>1. \A i \in 1..m : ls[i] \in TextContent \cup CallContent
    BY <1>2, <1>3
  <2>2. \A i \in 1..m : [parts |-> <<ls[i]>>, stop |-> "unset"] \in GoogleCell
    BY <1>4, <2>1
  <2>3. cs \in [1..m -> GoogleCell]
    BY <1>1, <1>3, <2>2
  <2>4. cs \in Seq(GoogleCell) /\ Len(cs) = m
    BY <1>3, <2>3
  <2>5. \A i \in 1..m : cs[i] = [parts |-> <<ls[i]>>, stop |-> "unset"]
    BY <1>1, <1>3
  <2> QED BY <2>4, <2>5
<1>6. PICK w : w = GoogleEvents(r)
  OBVIOUS
<1>7. w \in Seq(GoogleCell)
  <2>1. w = IF r.late \/ cs = <<>> THEN Append(cs, [parts |-> <<>>, stop |-> r.stop])
            ELSE [cs EXCEPT ![Len(cs)].stop = r.stop]
    BY <1>1, <1>6 DEF GoogleEvents
  <2>2. Append(cs, [parts |-> <<>>, stop |-> r.stop]) \in Seq(GoogleCell)
    <3>1. [parts |-> <<>>, stop |-> r.stop] \in GoogleCell
      BY DEF GoogleCell
    <3> QED BY <1>5, <3>1, AppendProperties
  <2>3. ASSUME cs # <<>> PROVE [cs EXCEPT ![Len(cs)].stop = r.stop] \in Seq(GoogleCell)
    <3>1. m \in 1..m
      BY <1>3, <1>5, <2>3
    <3>2. [cs[m] EXCEPT !.stop = r.stop] \in GoogleCell
      <4>1. cs[m] \in GoogleCell
        BY <1>5, <3>1
      <4> QED BY <4>1 DEF GoogleCell
    <3>3. PICK c : c = [cs[m] EXCEPT !.stop = r.stop]
      OBVIOUS
    <3>4. [cs EXCEPT ![m] = c] \in Seq(GoogleCell)
      BY <1>5, <3>1, <3>2, <3>3
    <3>5. [cs EXCEPT ![Len(cs)].stop = r.stop] = [cs EXCEPT ![m] = c]
      BY <1>5, <3>3
    <3> QED BY <3>4, <3>5
  <2> QED BY <2>1, <2>2, <2>3
<1>8. GoogleState(GoogleStart) /\ GoogleOpen(GoogleStart) = {}
  <2>1. GoogleStart \in [text : BOOLEAN, calls : {0}, reason : {"Stop"}] /\ ~GoogleStart.text
    BY DEF GoogleStart
  <2> QED BY <2>1 DEF GoogleState, GoogleOpen
<1> QED BY <1>6, <1>7, <1>8, NoPart DEF GoogleFlow

-----------------------------------------------------------------------------
(* OpenAI: flags for a text and a reasoning, and the calls that have begun *)

OpenAICalls(r) ==
    {d \in [index : 1..Len(r.calls), id : STRING \cup {""}, name : STRING \cup {""},
            text : Seq(STRING)] : d.name # "" => d.id = r.calls[d.index].id}

OpenAICell(r) ==
    [text : Seq(STRING), reasoning : Seq(STRING), refusal : Seq(STRING),
     calls : {<<>>} \cup {<<d>> : d \in OpenAICalls(r)}, stop : STRING \cup {"unset"}]

\* The last chunk has nothing but a reason.
OpenAIEmpty(c) == c.text = <<>> /\ c.reasoning = <<>> /\ c.refusal = <<>> /\ c.calls = <<>>

\* How many calls have begun with a chunk.
Reached(e) == IF e.calls = <<>> THEN 0 ELSE e.calls[1].index

\* d is of the call after the m-th, or goes on with that.
HasName(d) == d.name # ""
OpenAIAt(d, m) == d.index = IF HasName(d) THEN m + 1 ELSE m

\* Chunk f may follow e.
OpenAIAfter(e, f) ==
    /\ ~OpenAIEmpty(e)
    /\ f.calls = <<>> /\ ~OpenAIEmpty(f) => e.calls = <<>>
    /\ f.calls # <<>> => OpenAIAt(f.calls[1], Reached(e))

\* The calls of a reply have names and different ids, and what is filled in
\* beside them is a text.
Apart(r) == /\ r.calls \in Seq(CallContent) /\ r.filler \in Seq(STRING)
            /\ \A i \in DOMAIN r.calls : r.calls[i].name # ""
            /\ \A i, j \in DOMAIN r.calls : r.calls[i].id = r.calls[j].id => i = j

\* The first m calls of r have begun.
Begun(r, m) == [i \in 1..m |-> r.calls[i].id]

OpenAIState(s, r, m) ==
    /\ m \in 0..Len(r.calls)
    /\ \E R : s \in [text : BOOLEAN, reasoning : BOOLEAN, ids : {Begun(r, m)}, reason : R]

OpenAIReady(m, f) ==
    /\ f.calls = <<>> /\ ~OpenAIEmpty(f) => m = 0
    /\ f.calls # <<>> => OpenAIAt(f.calls[1], m)

\* The blocks that are open.
Blocks(text, reasoning, ids) ==
    (IF text THEN {<<"text", "0">>} ELSE {})
    \cup (IF reasoning THEN {<<"reasoning", "0">>} ELSE {})
    \cup {<<"call", ids[i]>> : i \in DOMAIN ids}
OpenAIOpen(s) == Blocks(s.text, s.reasoning, s.ids)

OpenAIFollows(r) == {p \in OpenAICell(r) \X OpenAICell(r) : OpenAIAfter(p[1], p[2])}

OpenAIFlow(w, s, ps, r) ==
    /\ Apart(r) /\ w \in Seq(OpenAICell(r)) /\ Linked(w, OpenAIFollows(r))
    /\ Fine(ps, OpenAIOpen(s))
    /\ \E m : OpenAIState(s, r, m) /\ (w # <<>> => OpenAIReady(m, w[1]))

\* What is open when a text or a reasoning begins, goes on or ends.
LEMMA BlocksChange ==
    ASSUME NEW ids
    PROVE  \A t, g \in BOOLEAN :
             /\ (<<"text", "0">> \in Blocks(t, g, ids)) <=> t
             /\ (<<"reasoning", "0">> \in Blocks(t, g, ids)) <=> g
             /\ Blocks(t, g, ids) \cup {<<"text", "0">>} = Blocks(TRUE, g, ids)
             /\ Blocks(t, g, ids) \cup {<<"reasoning", "0">>} = Blocks(t, TRUE, ids)
             /\ Blocks(t, g, ids) \ {<<"text", "0">>} = Blocks(FALSE, g, ids)
             /\ Blocks(t, g, ids) \ {<<"reasoning", "0">>} = Blocks(t, FALSE, ids)
<1>1. PICK T, G, C : /\ T = <<"text", "0">> /\ G = <<"reasoning", "0">>
                     /\ C = {<<"call", ids[i]>> : i \in DOMAIN ids}
  OBVIOUS
<1>2. T # G /\ T \notin C /\ G \notin C
  BY <1>1
<1>3. /\ Blocks(TRUE, TRUE, ids) = {T} \cup {G} \cup C
      /\ Blocks(TRUE, FALSE, ids) = {T} \cup C
      /\ Blocks(FALSE, TRUE, ids) = {G} \cup C
      /\ Blocks(FALSE, FALSE, ids) = C
  <2>1. Blocks(TRUE, TRUE, ids) = {T} \cup {G} \cup C
    BY <1>1 DEF Blocks
  <2>2. Blocks(TRUE, FALSE, ids) = {T} \cup C
    BY <1>1 DEF Blocks
  <2>3. Blocks(FALSE, TRUE, ids) = {G} \cup C
    BY <1>1 DEF Blocks
  <2>4. Blocks(FALSE, FALSE, ids) = C
    BY <1>1 DEF Blocks
  <2> QED BY <2>1, <2>2, <2>3, <2>4
<1>4. PICK tt, tf, ft, ff : /\ tt = Blocks(TRUE, TRUE, ids) /\ tf = Blocks(TRUE, FALSE, ids)
                            /\ ft = Blocks(FALSE, TRUE, ids) /\ ff = Blocks(FALSE, FALSE, ids)
  OBVIOUS
<1>5. tt = {T} \cup {G} \cup C /\ tf = {T} \cup C /\ ft = {G} \cup C /\ ff = C
  BY <1>3, <1>4
<1>6. T \in tt /\ T \in tf /\ T \notin ft /\ T \notin ff
  BY <1>2, <1>5
<1>7. G \in tt /\ G \in ft /\ G \notin tf /\ G \notin ff
  BY <1>2, <1>5
<1>8. tt \cup {T} = tt /\ tf \cup {T} = tf /\ ft \cup {T} = tt /\ ff \cup {T} = tf
  BY <1>5
<1>9. tt \cup {G} = tt /\ tf \cup {G} = tt /\ ft \cup {G} = ft /\ ff \cup {G} = ft
  BY <1>5
<1>10. tt \ {T} = ft /\ tf \ {T} = ff /\ ft \ {T} = ft /\ ff \ {T} = ff
  BY <1>2, <1>5
<1>11. tt \ {G} = tf /\ tf \ {G} = tf /\ ft \ {G} = ff /\ ff \ {G} = ff
  BY <1>2, <1>5
<1> SUFFICES ASSUME NEW t \in BOOLEAN, NEW g \in BOOLEAN
             PROVE  /\ (T \in Blocks(t, g, ids)) <=> t
                    /\ (G \in Blocks(t, g, ids)) <=> g
                    /\ Blocks(t, g, ids) \cup {T} = Blocks(TRUE, g, ids)
                    /\ Blocks(t, g, ids) \cup {G} = Blocks(t, TRUE, ids)
                    /\ Blocks(t, g, ids) \ {T} = Blocks(FALSE, g, ids)
                    /\ Blocks(t, g, ids) \ {G} = Blocks(t, FALSE, ids)
  BY <1>1
<1>12. CASE t = TRUE /\ g = TRUE
  BY <1>12, <1>4, <1>6, <1>7, <1>8, <1>9, <1>10, <1>11
<1>13. CASE t = TRUE /\ g = FALSE
  BY <1>13, <1>4, <1>6, <1>7, <1>8, <1>9, <1>10, <1>11
<1>14. CASE t = FALSE /\ g = TRUE
  BY <1>14, <1>4, <1>6, <1>7, <1>8, <1>9, <1>10, <1>11
<1>15. CASE t = FALSE /\ g = FALSE
  BY <1>15, <1>4, <1>6, <1>7, <1>8, <1>9, <1>10, <1>11
<1> QED BY <1>12, <1>13, <1>14, <1>15

\* The reasoning ends.
LEMMA BlocksLess ==
    ASSUME NEW ids, NEW t \in BOOLEAN, NEW g \in BOOLEAN
    PROVE  Blocks(t, g, ids) \ {<<"reasoning", "0">>} = Blocks(t, FALSE, ids)
  BY BlocksChange

\* One behind the other.
Cat(s, t) == s \o t

\* Joining, without the operator's symbol.
LEMMA CatTwice ==
    /\ \A s, t : IsSequence(s) /\ IsSequence(t) => IsSequence(Cat(s, t))
    /\ \A s, t, u : IsSequence(s) /\ IsSequence(t) /\ IsSequence(u) =>
          Cat(s, Cat(t, u)) = Cat(Cat(s, t), u)
    /\ \A s : IsSequence(s) => Cat(s, <<>>) = s
<1>1. ASSUME NEW s, NEW t, IsSequence(s), IsSequence(t) PROVE IsSequence(Cat(s, t))
  BY <1>1, Joined DEF Cat
<1>2. ASSUME NEW s, NEW t, NEW u, IsSequence(s), IsSequence(t), IsSequence(u)
      PROVE  Cat(s, Cat(t, u)) = Cat(Cat(s, t), u)
  <2>1. s \o (t \o u) = (s \o t) \o u
    BY <1>2, JoinedTwice
  <2> QED BY <2>1 DEF Cat
<1>3. ASSUME NEW s, IsSequence(s) PROVE Cat(s, <<>>) = s
  BY <1>3, NothingJoined DEF Cat
<1> QED BY <1>1, <1>2, <1>3

\* What a chunk says, piece by piece.
LEMMA FourCat ==
    ASSUME NEW s, NEW q, NEW A, NEW B, NEW C,
           IsSequence(s), IsSequence(q), IsSequence(A), IsSequence(B), IsSequence(C)
    PROVE  Cat(s, Cat(Cat(q, Cat(A, B)), C)) = Cat(Cat(Cat(Cat(s, q), A), B), C)
<1>1. PICK x, y : x = Cat(A, B) /\ y = Cat(q, x)
  OBVIOUS
<1>2. IsSequence(x) /\ IsSequence(y) /\ IsSequence(Cat(s, q))
  BY <1>1, CatTwice
<1>3. Cat(s, Cat(y, C)) = Cat(Cat(s, y), C)
  BY <1>2, CatTwice
<1>4. Cat(s, y) = Cat(Cat(s, q), x)
  BY <1>1, <1>2, CatTwice
<1>5. Cat(Cat(s, q), x) = Cat(Cat(Cat(s, q), A), B)
  BY <1>1, <1>2, CatTwice
<1> QED BY <1>1, <1>3, <1>4, <1>5

\* And without a text.
LEMMA TwoCat ==
    ASSUME NEW s, NEW q, NEW C, IsSequence(s), IsSequence(q), IsSequence(C)
    PROVE  Cat(s, Cat(Cat(q, <<>>), C)) = Cat(Cat(s, q), C)
  BY CatTwice

\* The parts a decoder yields, one by one, joined with Cat.
LEMMA CatSteps ==
    ASSUME NEW s, NEW open, Fine(s, open)
    PROVE  /\ \A of, id, name : <<of, id>> \notin open =>
                  Fine(Cat(s, <<Start(of, id, name)>>), open \cup {<<of, id>>})
           /\ \A of, id, text : <<of, id>> \in open => Fine(Cat(s, <<Delta(of, id, text)>>), open)
           /\ \A of, id : <<of, id>> \in open =>
                  Fine(Cat(s, <<End(of, id)>>), open \ {<<of, id>>})
           /\ Cat(s, <<>>) = s
<1>1. \A of, id, name : <<of, id>> \notin open =>
                  Fine(Cat(s, <<Start(of, id, name)>>), open \cup {<<of, id>>})
  BY PartBegins DEF Cat
<1>2. \A of, id, text : <<of, id>> \in open => Fine(Cat(s, <<Delta(of, id, text)>>), open)
  BY GoesOn DEF Cat
<1>3. ASSUME NEW of, NEW id, <<of, id>> \in open
      PROVE  Fine(Cat(s, <<End(of, id)>>), open \ {<<of, id>>})
  <2>1. PICK p : p = End(of, id)
    OBVIOUS
  <2>2. p.part = "end" /\ p.of = of /\ p.id = id
    BY <2>1 DEF End
  <2>3. Fine(s \o <<p>>, open \ {<<of, id>>})
    BY <1>3, <2>2, Closes
  <2> QED BY <2>1, <2>3 DEF Cat
<1>4. Cat(s, <<>>) = s
  BY NoPart DEF Cat
<1> QED BY <1>1, <1>2, <1>3, <1>4

\* The parts of a chunk's text and reasoning.
ChunkSaid(close, begin, text, muse, reasoning) ==
    (((IF close THEN <<End("reasoning", "0")>> ELSE <<>>)
      \o (IF begin THEN <<Start("text", "0", "")>> ELSE <<>>))
     \o (IF text = <<>> THEN <<>> ELSE <<Delta("text", "0", text)>>))
    \o ((IF muse THEN <<Start("reasoning", "0", "")>> ELSE <<>>)
        \o (IF reasoning = <<>> THEN <<>> ELSE <<Delta("reasoning", "0", reasoning)>>))

\* What a chunk says of text and reasoning keeps the flags and what is open in step.
LEMMA ChunkParts ==
    ASSUME NEW ps, NEW t \in BOOLEAN, NEW g \in BOOLEAN, NEW ids, Fine(ps, Blocks(t, g, ids)),
           NEW text, NEW reasoning, NEW begin \in BOOLEAN, NEW close \in BOOLEAN,
           NEW muse \in BOOLEAN, NEW tt \in BOOLEAN, NEW gg \in BOOLEAN,
           begin <=> (text # <<>> /\ ~t), close <=> (begin /\ g),
           muse <=> (reasoning # <<>> /\ (close \/ ~g)),
           tt <=> (t \/ begin), gg <=> ((g /\ ~close) \/ muse)
    PROVE  /\ Fine(ps \o ChunkSaid(close, begin, text, muse, reasoning), Blocks(tt, gg, ids))
           /\ IsSequence(ChunkSaid(close, begin, text, muse, reasoning))
<1>1. PICK a, b, c, d, e : /\ a = End("reasoning", "0") /\ b = Start("text", "0", "")
                           /\ c = Delta("text", "0", text) /\ d = Start("reasoning", "0", "")
                           /\ e = Delta("reasoning", "0", reasoning)
  OBVIOUS
<1>2. /\ a.part = "end" /\ a.of = "reasoning" /\ a.id = "0"
  BY <1>1 DEF End
<1>3. PICK A, B, C, D, E : /\ A = (IF close THEN <<a>> ELSE <<>>)
                           /\ B = (IF begin THEN <<b>> ELSE <<>>)
                           /\ C = (IF text = <<>> THEN <<>> ELSE <<c>>)
                           /\ D = (IF muse THEN <<d>> ELSE <<>>)
                           /\ E = (IF reasoning = <<>> THEN <<>> ELSE <<e>>)
  OBVIOUS
<1>4. IsSequence(A) /\ IsSequence(B) /\ IsSequence(C) /\ IsSequence(D) /\ IsSequence(E)
  BY <1>3, Short
<1>5. PICK p1, p2, p3, p4, p5 : /\ p1 = ps \o A /\ p2 = p1 \o B /\ p3 = p2 \o C /\ p4 = p3 \o D
                                /\ p5 = p4 \o E
  OBVIOUS
<1>6. Fine(p1, Blocks(t, g /\ ~close, ids))
  <2>1. CASE close
    <3>1. g /\ (g /\ ~close) = FALSE
      BY <2>1
    <3>2. <<"reasoning", "0">> \in Blocks(t, g, ids)
      BY <3>1, BlocksChange
    <3>3. Fine(ps \o <<a>>, Blocks(t, g, ids) \ {<<"reasoning", "0">>})
      BY <1>2, <3>2, Closes
    <3>4. Blocks(t, g, ids) \ {<<"reasoning", "0">>} = Blocks(t, FALSE, ids)
      BY BlocksLess
    <3> QED BY <1>3, <1>5, <2>1, <3>1, <3>3, <3>4
  <2>2. CASE ~close
    <3>1. (g /\ ~close) = g
      BY <2>2
    <3>2. ps \o <<>> = ps
      BY NoPart
    <3> QED BY <1>3, <1>5, <2>2, <3>1, <3>2
  <2> QED BY <2>1, <2>2
<1>7. PICK h \in BOOLEAN : h = (g /\ ~close)
  OBVIOUS
<1>8. Fine(p2, Blocks(t \/ begin, h, ids))
  <2>1. CASE begin
    <3>1. ~t /\ (t \/ begin) = TRUE
      BY <2>1
    <3>2. <<"text", "0">> \notin Blocks(t, h, ids)
      BY <3>1, BlocksChange
    <3>3. Fine(p1 \o <<b>>, Blocks(t, h, ids) \cup {<<"text", "0">>})
      BY <1>1, <1>6, <1>7, <3>2, PartBegins
    <3>4. Blocks(t, h, ids) \cup {<<"text", "0">>} = Blocks(TRUE, h, ids)
      BY <1>7, BlocksChange
    <3> QED BY <1>3, <1>5, <2>1, <3>1, <3>3, <3>4
  <2>2. CASE ~begin
    <3>1. (t \/ begin) = t
      BY <2>2
    <3>2. p1 \o <<>> = p1
      BY <1>6, NoPart
    <3> QED BY <1>3, <1>5, <1>6, <1>7, <2>2, <3>1, <3>2
  <2> QED BY <2>1, <2>2
<1>9. PICK u \in BOOLEAN : u = (t \/ begin)
  OBVIOUS
<1>10. Fine(p3, Blocks(u, h, ids))
  <2>1. CASE text = <<>>
    <3>1. p2 \o <<>> = p2
      BY <1>8, NoPart
    <3> QED BY <1>3, <1>5, <1>8, <1>9, <2>1, <3>1
  <2>2. CASE text # <<>>
    <3>1. u
      BY <1>9, <2>2
    <3>2. <<"text", "0">> \in Blocks(u, h, ids)
      BY <3>1, BlocksChange
    <3>3. Fine(p2 \o <<c>>, Blocks(u, h, ids))
      BY <1>1, <1>8, <1>9, <3>2, GoesOn
    <3> QED BY <1>3, <1>5, <2>2, <3>3
  <2> QED BY <2>1, <2>2
<1>11. Fine(p4, Blocks(u, h \/ muse, ids))
  <2>1. CASE muse
    <3>1. ~h /\ (h \/ muse) = TRUE
      BY <1>7, <2>1
    <3>2. <<"reasoning", "0">> \notin Blocks(u, h, ids)
      BY <3>1, BlocksChange
    <3>3. Fine(p3 \o <<d>>, Blocks(u, h, ids) \cup {<<"reasoning", "0">>})
      BY <1>1, <1>10, <3>2, PartBegins
    <3>4. Blocks(u, h, ids) \cup {<<"reasoning", "0">>} = Blocks(u, TRUE, ids)
      BY <1>7, <1>9, BlocksChange
    <3> QED BY <1>3, <1>5, <2>1, <3>1, <3>3, <3>4
  <2>2. CASE ~muse
    <3>1. (h \/ muse) = h
      BY <2>2
    <3>2. p3 \o <<>> = p3
      BY <1>10, NoPart
    <3> QED BY <1>3, <1>5, <1>10, <2>2, <3>1, <3>2
  <2> QED BY <2>1, <2>2
<1>12. PICK v \in BOOLEAN : v = (h \/ muse)
  OBVIOUS
<1>13. Fine(p5, Blocks(u, v, ids))
  <2>1. CASE reasoning = <<>>
    <3>1. p4 \o <<>> = p4
      BY <1>11, NoPart
    <3> QED BY <1>3, <1>5, <1>11, <1>12, <2>1, <3>1
  <2>2. CASE reasoning # <<>>
    <3>1. v
      BY <1>7, <1>12, <2>2
    <3>2. <<"reasoning", "0">> \in Blocks(u, v, ids)
      BY <3>1, BlocksChange
    <3>3. Fine(p4 \o <<e>>, Blocks(u, v, ids))
      BY <1>1, <1>11, <1>12, <3>2, GoesOn
    <3> QED BY <1>3, <1>5, <2>2, <3>3
  <2> QED BY <2>1, <2>2
<1>14. ps \o (((A \o B) \o C) \o (D \o E)) = p5
  <2>1. IsSequence(ps)
    BY DEF Fine
  <2>2. ps \o (((A \o B) \o C) \o (D \o E)) = ((((ps \o A) \o B) \o C) \o D) \o E
    BY <1>4, <2>1
  <2> QED BY <1>5, <2>2
<1>15. ChunkSaid(close, begin, text, muse, reasoning) = ((A \o B) \o C) \o (D \o E)
  BY <1>1, <1>3 DEF ChunkSaid
<1>16. IsSequence(((A \o B) \o C) \o (D \o E))
  <2>1. IsSequence(A \o B) /\ IsSequence(D \o E)
    BY <1>4, Joined
  <2>2. IsSequence((A \o B) \o C)
    BY <1>4, <2>1, Joined
  <2> QED BY <2>1, <2>2, Joined
<1>17. u = tt /\ v = gg
  <2>1. u \in BOOLEAN /\ v \in BOOLEAN /\ (u <=> tt) /\ (v <=> gg)
    BY <1>7, <1>9, <1>12
  <2> QED BY <2>1
<1> QED BY <1>13, <1>14, <1>15, <1>16, <1>17

\* f is what folding the parts of a chunk gives for each set of places.
OpenAIFolds(f, base, ps) ==
    f = [S \in SUBSET (DOMAIN ps) |->
            IF S = {} THEN base ELSE OpenAICallDelta(f[S \ {Max(S)}], ps[Max(S)])]

\* What FoldLeft is of OpenAICallDelta.
LEMMA OpenAIFoldIs ==
    ASSUME NEW base, NEW ps
    PROVE  FoldLeft(OpenAICallDelta, base, ps) = (CHOOSE f : OpenAIFolds(f, base, ps))[DOMAIN ps]
  BY DEF FoldLeft, MapThenFoldSet, OpenAIFolds

\* A chunk without calls.
LEMMA OpenAIFoldNone == ASSUME NEW base PROVE FoldLeft(OpenAICallDelta, base, <<>>) = base
<1>1. DOMAIN <<>> = {} /\ SUBSET {} = {{}}
  OBVIOUS
<1>2. OpenAIFolds([S \in {{}} |-> base], base, <<>>)
  BY <1>1 DEF OpenAIFolds
<1>3. PICK f : /\ f = CHOOSE g : OpenAIFolds(g, base, <<>>)
               /\ OpenAIFolds(f, base, <<>>)
  BY <1>2
<1>4. f[{}] = base
  BY <1>1, <1>3 DEF OpenAIFolds
<1> QED BY <1>1, <1>3, <1>4, OpenAIFoldIs

\* A chunk with one.
LEMMA OpenAIFoldOne ==
    ASSUME NEW base, NEW x PROVE FoldLeft(OpenAICallDelta, base, <<x>>) = OpenAICallDelta(base, x)
<1>1. PICK ps, e : ps = <<x>> /\ e = OpenAICallDelta(base, x)
  OBVIOUS
<1>2. DOMAIN ps = {1} /\ ps[1] = x
  BY <1>1
<1>3. /\ \A S \in SUBSET {1} : S = {} \/ S = {1}
      /\ {} \in SUBSET {1} /\ {1} \in SUBSET {1} /\ {1} # {} /\ {1} \ {1} = {}
  OBVIOUS
<1>4. PICK h : h = [S \in SUBSET {1} |-> IF S = {} THEN base ELSE e]
  OBVIOUS
<1>5. h[{}] = base /\ h[{1}] = e
  BY <1>3, <1>4
<1>6. ASSUME NEW S \in SUBSET {1}
      PROVE  h[S] = IF S = {} THEN base ELSE OpenAICallDelta(h[S \ {Max(S)}], ps[Max(S)])
  <2>1. CASE S = {}
    BY <1>5, <2>1
  <2>2. CASE S = {1}
    <3>1. Max(S) = 1 /\ S \ {Max(S)} = {}
      BY <1>3, <2>2, MaxOne
    <3> QED BY <1>1, <1>2, <1>3, <1>5, <2>2, <3>1
  <2> QED BY <1>3, <2>1, <2>2
<1>7. OpenAIFolds(h, base, ps)
  <2>1. h = [S \in SUBSET {1} |-> h[S]]
    BY <1>4
  <2> QED BY <1>2, <1>6, <2>1 DEF OpenAIFolds
<1>8. PICK f : f = (CHOOSE g : OpenAIFolds(g, base, ps)) /\ OpenAIFolds(f, base, ps)
  BY <1>7
<1>9. ASSUME NEW S \in SUBSET {1}
      PROVE  f[S] = IF S = {} THEN base ELSE OpenAICallDelta(f[S \ {Max(S)}], ps[Max(S)])
  BY <1>2, <1>8 DEF OpenAIFolds
<1>10. f[{}] = base
  BY <1>3, <1>9
<1>11. f[{1}] = e
  <2>1. Max({1}) = 1 /\ {1} \ {Max({1})} = {}
    BY <1>3, MaxOne
  <2> QED BY <1>1, <1>2, <1>3, <1>9, <1>10, <2>1
<1> QED BY <1>1, <1>2, <1>8, <1>11, OpenAIFoldIs

\* What is open, by the flags.
LEMMA OpenFields ==
    ASSUME NEW a, NEW t \in BOOLEAN, NEW g \in BOOLEAN, a.text <=> t, a.reasoning <=> g
    PROVE  OpenAIOpen(a) = Blocks(t, g, a.ids)
  BY DEF OpenAIOpen, Blocks

\* The same flags: the same open blocks.
LEMMA BlocksSame ==
    ASSUME NEW ids, NEW t, NEW u, NEW g, NEW h, t <=> u, g <=> h
    PROVE  Blocks(t, g, ids) = Blocks(u, h, ids)
  BY DEF Blocks

\* What a chunk's reason, text and reasoning make of the flags, and their parts.
OpenAIBegin(s, e) == e.text # <<>> /\ ~s.text
OpenAIClose(s, e) == OpenAIBegin(s, e) /\ s.reasoning
OpenAIMuse(s, e) == e.reasoning # <<>> /\ (OpenAIClose(s, e) \/ ~s.reasoning)
OpenAIReason(s, e) == IF e.stop \in DOMAIN OpenAIReasons THEN OpenAIReasons[e.stop] ELSE s.reason
OpenAIWith(s, x, t, g, h) == [s EXCEPT !.reason = x, !.text = @ \/ t, !.reasoning = (@ /\ ~g) \/ h]
OpenAITold(s, e) ==
    OpenAIWith(s, OpenAIReason(s, e), OpenAIBegin(s, e), OpenAIClose(s, e), OpenAIMuse(s, e))
OpenAISaid(s, e) == ChunkSaid(OpenAIClose(s, e), OpenAIBegin(s, e), e.text, OpenAIMuse(s, e), e.reasoning)

\* A chunk is what it says of text and reasoning, then what it says of calls.
LEMMA OpenAIStepIs ==
    ASSUME NEW s, NEW e
    PROVE  OpenAIStep(s, e) = FoldLeft(OpenAICallDelta, [st |-> OpenAITold(s, e),
                                                         parts |-> OpenAISaid(s, e)], e.calls)
  BY DEF OpenAIStep, OpenAITold, OpenAIWith, OpenAISaid, ChunkSaid, OpenAIBegin, OpenAIClose, OpenAIMuse, OpenAIReason

\* A decoder's record with other flags or other calls.
OpenAIFields(I, R) == [text : BOOLEAN, reasoning : BOOLEAN, ids : {I}, reason : R]

\* The state after what a chunk says of text and reasoning.
LEMMA OpenAIStates ==
    ASSUME NEW I, NEW R, NEW s \in OpenAIFields(I, R), NEW x, NEW t \in BOOLEAN, NEW g \in BOOLEAN,
           NEW h \in BOOLEAN
    PROVE  LET a == OpenAIWith(s, x, t, g, h)
           IN  /\ a \in OpenAIFields(I, R \cup {x})
               /\ a.text <=> (s.text \/ t)
               /\ a.reasoning <=> ((s.reasoning /\ ~g) \/ h)
<1>1. PICK b, c : b = (s.text \/ t) /\ c = ((s.reasoning /\ ~g) \/ h)
  OBVIOUS
<1>2. b \in BOOLEAN /\ c \in BOOLEAN
  BY <1>1
<1>3. PICK a : a = [s EXCEPT !.reason = x, !.text = b, !.reasoning = c]
  OBVIOUS
<1>4. a \in OpenAIFields(I, R \cup {x}) /\ a.text = b /\ a.reasoning = c
  BY <1>2, <1>3 DEF OpenAIFields
<1>5. a = OpenAIWith(s, x, t, g, h)
  BY <1>1, <1>3 DEF OpenAIWith
<1> QED BY <1>1, <1>4, <1>5

OpenAICalled(s, J, n) == [s EXCEPT !.ids = J, !.text = @ /\ ~n]

\* The state after what it says of a call.
LEMMA OpenAIStatesToo ==
    ASSUME NEW I, NEW R, NEW s \in OpenAIFields(I, R), NEW J, NEW n \in BOOLEAN
    PROVE  LET a == OpenAICalled(s, J, n)
           IN  /\ a \in OpenAIFields(J, R)
               /\ a.text <=> (s.text /\ ~n)
               /\ a.reasoning <=> s.reasoning
<1>1. PICK b : b = (s.text /\ ~n)
  OBVIOUS
<1>2. b \in BOOLEAN
  BY <1>1
<1>3. PICK a : a = [s EXCEPT !.ids = J, !.text = b]
  OBVIOUS
<1>4. a \in OpenAIFields(J, R) /\ a.text = b /\ a.reasoning = s.reasoning
  BY <1>2, <1>3 DEF OpenAIFields
<1>5. a = OpenAICalled(s, J, n)
  BY <1>1, <1>3 DEF OpenAICalled
<1> QED BY <1>1, <1>4, <1>5

\* What a chunk says of text and reasoning keeps the invariant.
LEMMA OpenAITells ==
    ASSUME NEW r, NEW m, NEW s, OpenAIState(s, r, m), NEW e, NEW ps, Fine(ps, OpenAIOpen(s))
    PROVE  /\ OpenAIState(OpenAITold(s, e), r, m)
           /\ IsSequence(OpenAISaid(s, e))
           /\ Fine(ps \o OpenAISaid(s, e), OpenAIOpen(OpenAITold(s, e)))
<1>1. PICK R : s \in OpenAIFields(Begun(r, m), R)
  BY DEF OpenAIState, OpenAIFields
<1>2. s.text \in BOOLEAN /\ s.reasoning \in BOOLEAN /\ s.ids = Begun(r, m)
  BY <1>1 DEF OpenAIFields
<1>3. PICK begin \in BOOLEAN, close \in BOOLEAN, muse \in BOOLEAN, t \in BOOLEAN, g \in BOOLEAN :
          /\ begin = OpenAIBegin(s, e) /\ close = OpenAIClose(s, e) /\ muse = OpenAIMuse(s, e)
          /\ t = s.text /\ g = s.reasoning
  BY <1>2 DEF OpenAIBegin, OpenAIClose, OpenAIMuse
<1>4. /\ begin <=> (e.text # <<>> /\ ~t)
      /\ close <=> (begin /\ g)
      /\ muse <=> (e.reasoning # <<>> /\ (close \/ ~g))
  BY <1>3 DEF OpenAIBegin, OpenAIClose, OpenAIMuse
<1>5. PICK a : a = OpenAITold(s, e)
  OBVIOUS
<1>15. begin \in BOOLEAN /\ close \in BOOLEAN /\ muse \in BOOLEAN /\ t \in BOOLEAN /\ g \in BOOLEAN
  BY <1>3
<1>6. a = OpenAIWith(s, OpenAIReason(s, e), begin, close, muse)
  BY <1>3, <1>5 DEF OpenAITold
<1>7. /\ a \in OpenAIFields(Begun(r, m), R \cup {OpenAIReason(s, e)})
      /\ a.text <=> (s.text \/ begin)
      /\ a.reasoning <=> ((s.reasoning /\ ~close) \/ muse)
  BY <1>1, <1>6, <1>15, OpenAIStates
<1>8. OpenAIState(a, r, m) /\ a.ids = Begun(r, m)
  BY <1>7 DEF OpenAIState, OpenAIFields
<1>9. PICK tt \in BOOLEAN, gg \in BOOLEAN : tt = (t \/ begin) /\ gg = ((g /\ ~close) \/ muse)
  BY <1>15
<1>16. tt \in BOOLEAN /\ gg \in BOOLEAN
  BY <1>9
<1>17. (tt <=> (t \/ begin)) /\ (gg <=> ((g /\ ~close) \/ muse))
  BY <1>9
<1>18. OpenAIOpen(a) = Blocks(tt, gg, Begun(r, m))
  <2>1. (a.text <=> tt) /\ (a.reasoning <=> gg)
    BY <1>3, <1>7, <1>17
  <2>2. OpenAIOpen(a) = Blocks(tt, gg, a.ids)
    BY <1>16, <2>1, OpenFields
  <2> QED BY <1>8, <2>2
<1>10. Fine(ps, Blocks(t, g, Begun(r, m)))
  BY <1>2, <1>3 DEF OpenAIOpen
<1>12. OpenAISaid(s, e) = ChunkSaid(close, begin, e.text, muse, e.reasoning)
  BY <1>3 DEF OpenAISaid
<1>13. /\ Fine(ps \o ChunkSaid(close, begin, e.text, muse, e.reasoning), Blocks(tt, gg, Begun(r, m)))
       /\ IsSequence(ChunkSaid(close, begin, e.text, muse, e.reasoning))
  BY <1>4, <1>10, <1>15, <1>16, <1>17, ChunkParts
<1> QED BY <1>5, <1>8, <1>18, <1>12, <1>13

\* The calls of a reply are calls.
LEMMA ApartCalls ==
    ASSUME NEW r, Apart(r)
    PROVE  /\ Len(r.calls) \in Nat /\ DOMAIN r.calls = 1..Len(r.calls)
           /\ \A i \in 1..Len(r.calls) : r.calls[i] \in CallContent
<1>1. r.calls \in Seq(CallContent)
  BY DEF Apart
<1> QED BY <1>1

\* The index of a call's part is that of a call of the reply.
LEMMA CallIndex ==
    ASSUME NEW r, Apart(r), NEW d \in OpenAICalls(r)
    PROVE  d.index \in 1..Len(r.calls) /\ (d.name # "" => d.id = r.calls[d.index].id)
<1>1. PICK S, I : d \in [index : I, id : S, name : S, text : Seq(STRING)] /\ I = 1..Len(r.calls)
  BY DEF OpenAICalls
<1>2. d.index \in I
  BY <1>1
<1> QED BY <1>1, <1>2 DEF OpenAICalls

\* A part that may come begins the next call or goes on with the last.
LEMMA AtIndex ==
    ASSUME NEW r, Apart(r), NEW m \in Nat, NEW d \in OpenAICalls(r), OpenAIAt(d, m)
    PROVE  /\ HasName(d) => /\ m < Len(r.calls) /\ m + 1 \in 0..Len(r.calls)
                            /\ d.index = m + 1 /\ d.id = r.calls[m + 1].id
                            /\ d.index \notin 1..m /\ m + 1 \in 1..(m + 1)
           /\ ~HasName(d) => m \in 1..m /\ m \in 0..Len(r.calls) /\ d.index = m
<1>1. d.index \in 1..Len(r.calls) /\ (HasName(d) => d.id = r.calls[d.index].id)
  BY CallIndex DEF HasName
<1>2. Len(r.calls) \in Nat
  BY ApartCalls
<1>3. (HasName(d) => d.index = m + 1) /\ (~HasName(d) => d.index = m)
  BY DEF OpenAIAt
<1> QED BY <1>1, <1>2, <1>3

\* The ids of the calls that have begun, and of one call more.
IdsWith(I, n, id) == [i \in DOMAIN I \cup {n} |-> IF i = n THEN id ELSE I[i]]

\* The calls that have begun are open.
LEMMA BegunHas ==
    ASSUME NEW r, NEW m, NEW t, NEW g
    PROVE  /\ DOMAIN Begun(r, m) = 1..m
           /\ \A i \in 1..m : /\ Begun(r, m)[i] = r.calls[i].id
                             /\ <<"call", Begun(r, m)[i]>> \in Blocks(t, g, Begun(r, m))
<1>1. PICK I : I = Begun(r, m)
  OBVIOUS
<1>2. DOMAIN I = 1..m /\ \A i \in 1..m : I[i] = r.calls[i].id
  BY <1>1 DEF Begun
<1>3. \A i \in 1..m : <<"call", I[i]>> \in Blocks(t, g, I)
  BY <1>2 DEF Blocks
<1> QED BY <1>1, <1>2, <1>3

\* One call more has begun.
LEMMA BegunMore ==
    ASSUME NEW r, Apart(r), NEW m \in Nat, m < Len(r.calls), NEW t \in BOOLEAN, NEW g \in BOOLEAN
    PROVE  /\ IdsWith(Begun(r, m), m + 1, r.calls[m + 1].id) = Begun(r, m + 1)
           /\ <<"call", r.calls[m + 1].id>> \notin Blocks(t, g, Begun(r, m))
           /\ Blocks(t, g, Begun(r, m)) \cup {<<"call", r.calls[m + 1].id>>}
              = Blocks(t, g, Begun(r, m + 1))
<1>1. PICK I, J, n, id : /\ I = Begun(r, m) /\ J = Begun(r, m + 1) /\ n = Len(r.calls)
                         /\ id = r.calls[m + 1].id
  OBVIOUS
<1>2. n \in Nat /\ m < n /\ DOMAIN r.calls = 1..n
  <2>1. n \in Nat /\ DOMAIN r.calls = 1..n
    BY <1>1, ApartCalls
  <2> QED BY <1>1, <2>1
<1>3. DOMAIN I = 1..m /\ \A i \in 1..m : I[i] = r.calls[i].id
  BY <1>1 DEF Begun
<1>4. DOMAIN J = 1..(m + 1) /\ (1..m) \cup {m + 1} = 1..(m + 1)
  BY <1>1 DEF Begun
<1>5. \A i \in 1..m : J[i] = I[i] /\ i # m + 1 /\ i \in 1..(m + 1)
  BY <1>1, <1>3 DEF Begun
<1>6. J[m + 1] = id /\ m + 1 \in 1..(m + 1)
  BY <1>1 DEF Begun
<1>7. J = [i \in 1..(m + 1) |-> J[i]]
  BY <1>1, <1>4 DEF Begun
<1>8. \A i \in 1..(m + 1) : i \in 1..m \/ i = m + 1
  OBVIOUS
<1>9. IdsWith(I, m + 1, id) = J
  BY <1>3, <1>4, <1>5, <1>6, <1>7, <1>8 DEF IdsWith
<1>10. ASSUME NEW i \in 1..m PROVE I[i] # id
  <2>1. i \in 1..n /\ m + 1 \in 1..n /\ i # m + 1
    BY <1>2
  <2> QED BY <1>1, <1>2, <1>3, <2>1 DEF Apart
<1>11. <<"call", id>> \notin Blocks(t, g, I)
  <2>1. <<"call", id>> \notin {<<"call", I[i]>> : i \in DOMAIN I}
    BY <1>3, <1>10
  <2> QED BY <2>1 DEF Blocks
<1>12. {<<"call", I[i]>> : i \in DOMAIN I} \cup {<<"call", id>>} = {<<"call", J[i]>> : i \in DOMAIN J}
  BY <1>3, <1>4, <1>5, <1>6, <1>8
<1>13. Blocks(t, g, I) \cup {<<"call", id>>} = Blocks(t, g, J)
  BY <1>12 DEF Blocks
<1> QED BY <1>1, <1>9, <1>11, <1>13

\* A call that begins.
LEMMA CallBegins ==
    ASSUME NEW r, Apart(r), NEW m \in Nat, NEW a, OpenAIState(a, r, m), NEW ps, NEW q, IsSequence(q),
           IsSequence(ps), Fine(Cat(ps, q), OpenAIOpen(a)), NEW d \in OpenAICalls(r),
           HasName(d), OpenAIAt(d, m)
    PROVE  LET u == OpenAICallDelta([st |-> a, parts |-> q], d)
           IN  OpenAIState(u.st, r, m + 1) /\ Fine(Cat(ps, u.parts), OpenAIOpen(u.st))
<1>1. PICK R : a \in OpenAIFields(Begun(r, m), R)
  BY DEF OpenAIState, OpenAIFields
<1>2. /\ m \in 0..Len(r.calls) /\ m < Len(r.calls) /\ m + 1 \in 0..Len(r.calls)
      /\ d.index = m + 1 /\ d.id = r.calls[m + 1].id
      /\ d.index \notin 1..m /\ m + 1 \in 1..(m + 1)
  <2>1. m \in 0..Len(r.calls)
    BY DEF OpenAIState
  <2> QED BY <2>1, AtIndex
<1>3. a.text \in BOOLEAN /\ a.reasoning \in BOOLEAN /\ a.ids = Begun(r, m)
  BY <1>1 DEF OpenAIFields
<1>4. PICK t \in BOOLEAN, g \in BOOLEAN : t = a.text /\ g = a.reasoning
  BY <1>3
<1>5. t \in BOOLEAN /\ g \in BOOLEAN /\ TRUE \in BOOLEAN /\ FALSE \in BOOLEAN
  BY <1>4
<1>6. PICK I, J : I = Begun(r, m) /\ J = Begun(r, m + 1)
  OBVIOUS
<1>7. d.id = r.calls[m + 1].id
  BY <1>2
<1>22. PICK id : id = r.calls[m + 1].id
  OBVIOUS
<1>23. /\ IdsWith(I, m + 1, id) = J
       /\ <<"call", id>> \notin Blocks(FALSE, g, I)
       /\ Blocks(FALSE, g, I) \cup {<<"call", id>>} = Blocks(FALSE, g, J)
  <2>1. m < Len(r.calls)
    BY <1>2
  <2>2. IdsWith(Begun(r, m), m + 1, r.calls[m + 1].id) = Begun(r, m + 1)
    BY <1>5, <2>1, BegunMore
  <2>3. \A f \in BOOLEAN :
           /\ <<"call", r.calls[m + 1].id>> \notin Blocks(f, g, Begun(r, m))
           /\ Blocks(f, g, Begun(r, m)) \cup {<<"call", r.calls[m + 1].id>>}
              = Blocks(f, g, Begun(r, m + 1))
    BY <1>5, <2>1, BegunMore
  <2> QED BY <1>5, <1>6, <1>22, <2>2, <2>3
<1>8. /\ d.index \notin DOMAIN I
      /\ IdsWith(I, d.index, d.id) = J
      /\ <<"call", d.id>> \notin Blocks(FALSE, g, I)
      /\ Blocks(FALSE, g, I) \cup {<<"call", d.id>>} = Blocks(FALSE, g, J)
  <2>1. DOMAIN I = 1..m
    BY <1>6, BegunHas
  <2> QED BY <1>2, <1>22, <1>23, <2>1
<1>9. J[d.index] = d.id /\ <<"call", d.id>> \in Blocks(FALSE, g, J)
  <2>1. J[m + 1] = r.calls[m + 1].id
    BY <1>2, <1>6 DEF Begun
  <2>2. <<"call", id>> \in Blocks(FALSE, g, J)
    BY <1>23
  <2>3. J[d.index] = d.id
    BY <1>2, <1>7, <2>1
  <2> QED BY <1>7, <1>22, <2>2, <2>3
<1>10. PICK b : b = OpenAICalled(a, J, TRUE)
  OBVIOUS
<1>11. PICK X, Y, Z, u :
          /\ X = IF a.text THEN <<End("text", "0")>> ELSE <<>>
          /\ Y = <<Start("call", d.id, d.name)>>
          /\ Z = <<Delta("call", d.id, d.text)>>
          /\ u = OpenAICallDelta([st |-> a, parts |-> q], d)
  OBVIOUS
<1>12. u = [st |-> b, parts |-> Cat(Cat(q, Cat(X, Y)), Z)]
  <2>1. HasName(d) /\ d.index \notin DOMAIN a.ids
    BY <1>3, <1>6, <1>8
  <2>2. IdsWith(a.ids, d.index, d.id) = J
    BY <1>3, <1>6, <1>8
  <2> QED BY <1>9, <1>10, <1>11, <2>1, <2>2 DEF OpenAICallDelta, OpenAICalled, Cat, HasName, IdsWith
<1>13. /\ b \in OpenAIFields(J, R)
       /\ b.text <=> FALSE
       /\ b.reasoning <=> g
  <2>1. /\ b \in OpenAIFields(J, R)
        /\ b.text <=> (a.text /\ ~TRUE)
        /\ b.reasoning <=> a.reasoning
    BY <1>1, <1>5, <1>10, OpenAIStatesToo
  <2> QED BY <1>4, <2>1
<1>14. OpenAIState(b, r, m + 1) /\ b.ids = J
  <2> QED BY <1>2, <1>6, <1>13 DEF OpenAIState, OpenAIFields
<1>15. OpenAIOpen(b) = Blocks(FALSE, g, J)
  <2>1. OpenAIOpen(b) = Blocks(FALSE, g, b.ids)
    BY <1>5, <1>13, OpenFields
  <2> QED BY <1>14, <2>1
<1>16. Fine(Cat(ps, q), Blocks(t, g, I))
  BY <1>3, <1>4, <1>6 DEF OpenAIOpen
<1>24. PICK w : w = Cat(ps, q)
  OBVIOUS
<1>17. Fine(Cat(w, X), Blocks(FALSE, g, I))
  <2>0. Fine(w, Blocks(t, g, I))
    BY <1>16, <1>24
  <2>1. CASE t
    <3>1. <<"text", "0">> \in Blocks(t, g, I)
      BY <1>5, <2>1, BlocksChange
    <3>4. Fine(Cat(w, <<End("text", "0")>>), Blocks(t, g, I) \ {<<"text", "0">>})
      BY <2>0, <3>1, CatSteps
    <3>5. Blocks(t, g, I) \ {<<"text", "0">>} = Blocks(FALSE, g, I)
      BY <1>5, BlocksChange
    <3> QED BY <1>4, <1>11, <2>1, <3>4, <3>5
  <2>2. CASE ~t
    <3>1. Cat(w, <<>>) = w
      BY <2>0, CatSteps
    <3>2. Blocks(t, g, I) = Blocks(FALSE, g, I)
      BY <2>2, BlocksSame
    <3> QED BY <1>4, <1>11, <2>0, <2>2, <3>1, <3>2
  <2> QED BY <2>1, <2>2
<1>18. Fine(Cat(Cat(w, X), Y), Blocks(FALSE, g, J))
  <2>1. Fine(Cat(Cat(w, X), Y), Blocks(FALSE, g, I) \cup {<<"call", d.id>>})
    BY <1>8, <1>11, <1>17, CatSteps
  <2> QED BY <1>8, <2>1
<1>19. Fine(Cat(Cat(Cat(w, X), Y), Z), Blocks(FALSE, g, J))
  BY <1>9, <1>11, <1>18, CatSteps
<1>20. Fine(Cat(ps, Cat(Cat(q, Cat(X, Y)), Z)), Blocks(FALSE, g, J))
  <2>1. IsSequence(X) /\ IsSequence(Y) /\ IsSequence(Z)
    BY <1>11, Short
  <2>2. Cat(ps, Cat(Cat(q, Cat(X, Y)), Z)) = Cat(Cat(Cat(Cat(ps, q), X), Y), Z)
    BY <2>1, FourCat
  <2> QED BY <1>19, <1>24, <2>2
<1>21. u.st = b /\ u.parts = Cat(Cat(q, Cat(X, Y)), Z)
  BY <1>12
<1> QED BY <1>11, <1>14, <1>15, <1>20, <1>21

\* A call that goes on.
LEMMA CallGoesOn ==
    ASSUME NEW r, Apart(r), NEW m \in Nat, NEW a, OpenAIState(a, r, m), NEW ps, NEW q, IsSequence(q),
           IsSequence(ps), Fine(Cat(ps, q), OpenAIOpen(a)), NEW d \in OpenAICalls(r),
           ~HasName(d), OpenAIAt(d, m)
    PROVE  LET u == OpenAICallDelta([st |-> a, parts |-> q], d)
           IN  OpenAIState(u.st, r, m) /\ Fine(Cat(ps, u.parts), OpenAIOpen(u.st))
<1>1. PICK R : a \in OpenAIFields(Begun(r, m), R)
  BY DEF OpenAIState, OpenAIFields
<1>2. m \in 1..m /\ m \in 0..Len(r.calls) /\ d.index = m
  BY AtIndex
<1>3. a.ids = Begun(r, m) /\ TRUE \in BOOLEAN /\ FALSE \in BOOLEAN
  BY <1>1 DEF OpenAIFields
<1>4. PICK b : b = OpenAICalled(a, a.ids, FALSE)
  OBVIOUS
<1>5. PICK Z, u : /\ Z = <<Delta("call", a.ids[m], d.text)>>
                  /\ u = OpenAICallDelta([st |-> a, parts |-> q], d)
  OBVIOUS
<1>6. u = [st |-> b, parts |-> Cat(Cat(q, <<>>), Z)]
  BY <1>2, <1>4, <1>5 DEF OpenAICallDelta, OpenAICalled, Cat, HasName, IdsWith
<1>7. /\ b \in OpenAIFields(Begun(r, m), R)
      /\ b.text <=> a.text
      /\ b.reasoning <=> a.reasoning
  <2>1. /\ b \in OpenAIFields(Begun(r, m), R)
        /\ b.text <=> (a.text /\ ~FALSE)
        /\ b.reasoning <=> a.reasoning
    BY <1>1, <1>3, <1>4, OpenAIStatesToo
  <2> QED BY <2>1
<1>8. OpenAIState(b, r, m) /\ b.ids = Begun(r, m)
  BY <1>2, <1>7 DEF OpenAIState, OpenAIFields
<1>14. PICK t \in BOOLEAN, g \in BOOLEAN : t = a.text /\ g = a.reasoning
  BY <1>1 DEF OpenAIFields
<1>15. t \in BOOLEAN /\ g \in BOOLEAN
  BY <1>14
<1>16. OpenAIOpen(a) = Blocks(t, g, Begun(r, m))
  <2>1. OpenAIOpen(a) = Blocks(t, g, a.ids)
    BY <1>14, <1>15, OpenFields
  <2> QED BY <1>3, <2>1
<1>9. OpenAIOpen(b) = OpenAIOpen(a)
  <2>1. (b.text <=> t) /\ (b.reasoning <=> g)
    BY <1>7, <1>14
  <2>2. OpenAIOpen(b) = Blocks(t, g, b.ids)
    BY <1>15, <2>1, OpenFields
  <2> QED BY <1>8, <1>16, <2>2
<1>10. <<"call", a.ids[m]>> \in OpenAIOpen(a)
  <2>1. <<"call", Begun(r, m)[m]>> \in Blocks(t, g, Begun(r, m))
    BY <1>2, BegunHas
  <2> QED BY <1>3, <1>16, <2>1
<1>11. Fine(Cat(Cat(ps, q), Z), OpenAIOpen(a))
  BY <1>5, <1>10, CatSteps
<1>12. Fine(Cat(ps, Cat(Cat(q, <<>>), Z)), OpenAIOpen(a))
  <2>1. IsSequence(Z)
    BY <1>5, Short
  <2>2. Cat(ps, Cat(Cat(q, <<>>), Z)) = Cat(Cat(ps, q), Z)
    BY <2>1, TwoCat
  <2> QED BY <1>11, <2>2
<1>13. u.st = b /\ u.parts = Cat(Cat(q, <<>>), Z)
  BY <1>6
<1> QED BY <1>5, <1>8, <1>9, <1>12, <1>13

\* A chunk with calls has one.
LEMMA OneCall ==
    ASSUME NEW r, NEW e \in OpenAICell(r), e.calls # <<>>
    PROVE  \E y \in OpenAICalls(r) : e.calls = <<y>> /\ e.calls[1] = y
<1>1. e.calls \in {<<>>} \cup {<<d>> : d \in OpenAICalls(r)}
  BY DEF OpenAICell
<1>2. PICK y \in OpenAICalls(r) : e.calls = <<y>>
  BY <1>1
<1> QED BY <1>2

\* A chunk that may come keeps the state and what is open in step.
LEMMA OpenAIKeeps ==
    ASSUME NEW r, Apart(r), NEW m \in Nat, NEW s, OpenAIState(s, r, m), NEW e \in OpenAICell(r),
           OpenAIReady(m, e), NEW ps, Fine(ps, OpenAIOpen(s))
    PROVE  /\ \E k : /\ OpenAIState(OpenAIStep(s, e).st, r, k)
                     /\ ~OpenAIEmpty(e) => k = Reached(e)
           /\ Fine(Cat(ps, OpenAIStep(s, e).parts), OpenAIOpen(OpenAIStep(s, e).st))
<1>1. PICK a, q, c, d : /\ a = OpenAITold(s, e) /\ q = OpenAISaid(s, e)
                        /\ c = [st |-> a, parts |-> q] /\ d = OpenAIStep(s, e)
  OBVIOUS
<1>2. OpenAIState(a, r, m) /\ IsSequence(q) /\ Fine(Cat(ps, q), OpenAIOpen(a))
  BY <1>1, OpenAITells DEF Cat
<1>3. d = FoldLeft(OpenAICallDelta, c, e.calls) /\ IsSequence(ps)
  BY <1>1, OpenAIStepIs DEF Fine
<1>4. CASE e.calls = <<>>
  <2>1. d = c
    BY <1>3, <1>4, OpenAIFoldNone
  <2>2. d.st = a /\ d.parts = q
    BY <1>1, <2>1
  <2>3. ~OpenAIEmpty(e) => m = Reached(e)
    BY <1>4 DEF OpenAIReady, Reached
  <2> QED BY <1>1, <1>2, <2>2, <2>3
<1>5. CASE e.calls # <<>>
  <2>1. PICK y \in OpenAICalls(r) : e.calls = <<y>> /\ e.calls[1] = y
    BY <1>5, OneCall
  <2>2. d = OpenAICallDelta(c, y)
    BY <1>3, <2>1, OpenAIFoldOne
  <2>3. OpenAIAt(y, m)
    BY <1>5, <2>1 DEF OpenAIReady
  <2>4. Reached(e) = y.index
    BY <1>5, <2>1 DEF Reached
  <2>5. CASE HasName(y)
    <3>1. OpenAIState(d.st, r, m + 1) /\ Fine(Cat(ps, d.parts), OpenAIOpen(d.st))
      BY <1>1, <1>2, <1>3, <2>2, <2>3, <2>5, CallBegins
    <3>2. m + 1 = Reached(e)
      BY <2>3, <2>4, <2>5 DEF OpenAIAt
    <3> QED BY <1>1, <3>1, <3>2
  <2>6. CASE ~HasName(y)
    <3>1. OpenAIState(d.st, r, m) /\ Fine(Cat(ps, d.parts), OpenAIOpen(d.st))
      BY <1>1, <1>2, <1>3, <2>2, <2>3, <2>6, CallGoesOn
    <3>2. m = Reached(e)
      BY <2>3, <2>4, <2>6 DEF OpenAIAt
    <3> QED BY <1>1, <3>1, <3>2
  <2> QED BY <2>5, <2>6
<1> QED BY <1>4, <1>5

\* The next chunk is read.
LEMMA OpenAIReads ==
    ASSUME NEW w, NEW s, NEW ps, NEW r, OpenAIFlow(w, s, ps, r), w # <<>>
    PROVE  LET d == OpenAIStep(s, SubSeq(w, 1, 1)[1])
           IN  OpenAIFlow(SubSeq(w, 2, Len(w)), d.st, ps \o d.parts, r)
<1>1. PICK e, t, d : e = w[1] /\ t = SubSeq(w, 2, Len(w)) /\ d = OpenAIStep(s, e)
  OBVIOUS
<1>2. /\ Apart(r) /\ w \in Seq(OpenAICell(r)) /\ Linked(w, OpenAIFollows(r))
      /\ Fine(ps, OpenAIOpen(s))
  BY DEF OpenAIFlow
<1>3. PICK m : OpenAIState(s, r, m) /\ OpenAIReady(m, e)
  BY <1>1 DEF OpenAIFlow
<1>4. m \in Nat
  <2>1. m \in 0..Len(r.calls)
    BY <1>3 DEF OpenAIState
  <2> QED BY <2>1
<1>5. /\ e \in OpenAICell(r) /\ t \in Seq(OpenAICell(r)) /\ Linked(t, OpenAIFollows(r))
      /\ t # <<>> => <<e, t[1]>> \in OpenAIFollows(r)
      /\ SubSeq(w, 1, 1)[1] = e
  BY <1>1, <1>2, LinkedTail
<1>6. /\ \E k : OpenAIState(d.st, r, k) /\ (~OpenAIEmpty(e) => k = Reached(e))
      /\ Fine(Cat(ps, d.parts), OpenAIOpen(d.st))
  BY <1>1, <1>2, <1>3, <1>4, <1>5, OpenAIKeeps
<1>7. PICK k : OpenAIState(d.st, r, k) /\ (~OpenAIEmpty(e) => k = Reached(e))
  BY <1>6
<1>8. ASSUME t # <<>> PROVE OpenAIReady(k, t[1])
  <2>1. PICK f : f = t[1]
    OBVIOUS
  <2>2. OpenAIAfter(e, f)
    BY <1>5, <1>8, <2>1 DEF OpenAIFollows
  <2>3. ~OpenAIEmpty(e) /\ k = Reached(e)
    BY <1>7, <2>2 DEF OpenAIAfter
  <2>4. f.calls = <<>> /\ ~OpenAIEmpty(f) => k = 0
    BY <2>2, <2>3 DEF OpenAIAfter, Reached
  <2>5. f.calls # <<>> => OpenAIAt(f.calls[1], k)
    BY <2>2, <2>3 DEF OpenAIAfter
  <2> QED BY <2>1, <2>4, <2>5 DEF OpenAIReady
<1>9. Fine(ps \o d.parts, OpenAIOpen(d.st))
  BY <1>6 DEF Cat
<1> QED BY <1>1, <1>2, <1>5, <1>7, <1>8, <1>9 DEF OpenAIFlow

-----------------------------------------------------------------------------
(* What OpenAI's server sends of a reply *)

Filled(r) == [Chunk EXCEPT !.text = r.filler]
ReasoningChunk(r, t) == [Filled(r) EXCEPT !.reasoning = t]
TextChunk(t) == [Chunk EXCEPT !.text = t]
RefusalChunk(r, t) == [Filled(r) EXCEPT !.refusal = t]
CallChunk(r, d) == [Filled(r) EXCEPT !.calls = <<d>>]
StopChunk(x) == [Chunk EXCEPT !.stop = x]
FirstOf(r, n) == CallChunk(r, [index |-> n, id |-> r.calls[n].id, name |-> r.calls[n].name,
                               text |-> <<>>])
MoreOf(r, n, t) == CallChunk(r, [index |-> n, id |-> "", name |-> "", text |-> t])

\* What a server sends, by the names used here.
LEMMA OpenAIEventsAre ==
    ASSUME NEW r
    PROVE  OpenAIEvents(r) =
             [i \in DOMAIN r.reasoning |-> ReasoningChunk(r, <<r.reasoning[i]>>)]
             \o [i \in DOMAIN r.text |-> TextChunk(<<r.text[i]>>)]
             \o [i \in DOMAIN r.refusal |-> RefusalChunk(r, <<r.refusal[i]>>)]
             \o FlattenSeq([n \in DOMAIN r.calls |->
                    <<FirstOf(r, n)>>
                    \o [i \in DOMAIN r.calls[n].text |-> MoreOf(r, n, <<r.calls[n].text[i]>>)]])
             \o <<StopChunk(r.stop)>>
  BY DEF OpenAIEvents, Filled, ReasoningChunk, TextChunk, RefusalChunk, CallChunk, StopChunk,
         FirstOf, MoreOf

\* The chunks of a reply are chunks.
LEMMA ChunkCells ==
    ASSUME NEW r, r.filler \in Seq(STRING)
    PROVE  /\ \A t \in Seq(STRING) :
                 \A c \in {TextChunk(t), ReasoningChunk(r, t), RefusalChunk(r, t)} :
                     /\ c \in OpenAICell(r) /\ c.calls = <<>>
                     /\ t # <<>> => ~OpenAIEmpty(c)
           /\ \A d \in OpenAICalls(r) : /\ CallChunk(r, d) \in OpenAICell(r)
                                        /\ CallChunk(r, d).calls = <<d>>
           /\ \A x \in STRING : /\ StopChunk(x) \in OpenAICell(r) /\ StopChunk(x).calls = <<>>
                                /\ OpenAIEmpty(StopChunk(x))
<1>1. PICK S, C, D, b, o :
          /\ S = Seq(STRING) /\ C = {<<>>} \cup {<<d>> : d \in OpenAICalls(r)}
          /\ D = STRING \cup {"unset"} /\ b = Chunk /\ o = Filled(r)
  OBVIOUS
<1>2. OpenAICell(r) = [text : S, reasoning : S, refusal : S, calls : C, stop : D]
  BY <1>1 DEF OpenAICell
<1>3. /\ b \in [text : S, reasoning : S, refusal : S, calls : C, stop : D]
      /\ b.text = <<>> /\ b.reasoning = <<>> /\ b.refusal = <<>> /\ b.calls = <<>>
  <2>1. <<>> \in S /\ <<>> \in C /\ "unset" \in D
    BY <1>1
  <2> QED BY <1>1, <2>1 DEF Chunk
<1>3a. o \in [text : S, reasoning : S, refusal : S, calls : C, stop : D] /\ o.calls = <<>>
  <2>1. PICK t : t = r.filler /\ t \in S
    BY <1>1
  <2>2. o = [b EXCEPT !.text = t]
    BY <1>1, <2>1 DEF Filled
  <2> QED BY <1>3, <2>1, <2>2
<1>4. ASSUME NEW t \in S, NEW c \in {TextChunk(t), ReasoningChunk(r, t), RefusalChunk(r, t)}
      PROVE  /\ c \in [text : S, reasoning : S, refusal : S, calls : C, stop : D] /\ c.calls = <<>>
             /\ t # <<>> => ~OpenAIEmpty(c)
  <2>1. CASE c = [b EXCEPT !.text = t]
    BY <1>3, <2>1 DEF OpenAIEmpty
  <2>2. CASE c = [o EXCEPT !.reasoning = t]
    BY <1>3a, <2>2 DEF OpenAIEmpty
  <2>3. CASE c = [o EXCEPT !.refusal = t]
    BY <1>3a, <2>3 DEF OpenAIEmpty
  <2>4. \/ c = [b EXCEPT !.text = t] \/ c = [o EXCEPT !.reasoning = t]
        \/ c = [o EXCEPT !.refusal = t]
    BY <1>1 DEF TextChunk, ReasoningChunk, RefusalChunk
  <2> QED BY <2>1, <2>2, <2>3, <2>4
<1>5. ASSUME NEW d \in OpenAICalls(r)
      PROVE  /\ CallChunk(r, d) \in [text : S, reasoning : S, refusal : S, calls : C, stop : D]
             /\ CallChunk(r, d).calls = <<d>>
  <2>1. PICK x : x = <<d>>
    OBVIOUS
  <2>2. x \in C
    BY <1>1, <2>1
  <2>3. PICK c : c = [o EXCEPT !.calls = x]
    OBVIOUS
  <2>4. c \in [text : S, reasoning : S, refusal : S, calls : C, stop : D] /\ c.calls = x
    BY <1>3a, <2>2, <2>3
  <2> QED BY <1>1, <2>1, <2>3, <2>4 DEF CallChunk
<1>6. ASSUME NEW x \in STRING
      PROVE  /\ StopChunk(x) \in [text : S, reasoning : S, refusal : S, calls : C, stop : D]
             /\ StopChunk(x).calls = <<>> /\ OpenAIEmpty(StopChunk(x))
  <2>1. PICK c : c = [b EXCEPT !.stop = x]
    OBVIOUS
  <2>2. x \in D
    BY <1>1
  <2>3. /\ c \in [text : S, reasoning : S, refusal : S, calls : C, stop : D]
        /\ c.calls = <<>> /\ c.text = <<>> /\ c.reasoning = <<>> /\ c.refusal = <<>>
    BY <1>3, <2>1, <2>2
  <2> QED BY <1>1, <2>1, <2>3 DEF StopChunk, OpenAIEmpty
<1>7. \A t \in Seq(STRING) : t \in S
  BY <1>1
<1> QED BY <1>2, <1>4, <1>5, <1>6, <1>7

\* The chunks of one call.
LEMMA CallCells ==
    ASSUME NEW r, Apart(r), NEW n \in 1..Len(r.calls)
    PROVE  /\ FirstOf(r, n) \in OpenAICell(r) /\ ~OpenAIEmpty(FirstOf(r, n))
           /\ FirstOf(r, n).calls # <<>> /\ Reached(FirstOf(r, n)) = n
           /\ \A m : n = m + 1 => OpenAIAt(FirstOf(r, n).calls[1], m)
           /\ \A t \in Seq(STRING) : /\ MoreOf(r, n, t) \in OpenAICell(r) /\ ~OpenAIEmpty(MoreOf(r, n, t))
                                     /\ MoreOf(r, n, t).calls # <<>> /\ Reached(MoreOf(r, n, t)) = n
                                     /\ OpenAIAt(MoreOf(r, n, t).calls[1], n)
<1>0. r.filler \in Seq(STRING)
  BY DEF Apart
<1>1. /\ r.calls[n].id \in STRING /\ r.calls[n].name \in STRING /\ HasName(r.calls[n])
  <2>1. r.calls[n] \in CallContent /\ n \in DOMAIN r.calls
    BY ApartCalls
  <2>2. HasName(r.calls[n])
    BY <2>1 DEF Apart, HasName
  <2> QED BY <2>1, <2>2 DEF CallContent
<1>2. ASSUME NEW d \in OpenAICalls(r), d.index = n
      PROVE  /\ CallChunk(r, d) \in OpenAICell(r) /\ ~OpenAIEmpty(CallChunk(r, d))
             /\ CallChunk(r, d).calls # <<>> /\ Reached(CallChunk(r, d)) = n
             /\ CallChunk(r, d).calls[1] = d
  <2>1. PICK c : c = CallChunk(r, d)
    OBVIOUS
  <2>2. c \in OpenAICell(r) /\ c.calls = <<d>>
    BY <1>0, <2>1, ChunkCells
  <2>3. c.calls # <<>> /\ c.calls[1] = d
    BY <2>2
  <2> QED BY <1>2, <2>1, <2>2, <2>3 DEF OpenAIEmpty, Reached
<1>3. PICK d : d = [index |-> n, id |-> r.calls[n].id, name |-> r.calls[n].name, text |-> <<>>]
  OBVIOUS
<1>4. d \in OpenAICalls(r) /\ d.index = n /\ HasName(d)
  <2>1. d \in [index : 1..Len(r.calls), id : STRING \cup {""}, name : STRING \cup {""},
               text : Seq(STRING)]
    <3>1. PICK I, N, T : I = 1..Len(r.calls) /\ N = STRING \cup {""} /\ T = Seq(STRING)
      OBVIOUS
    <3>4. n \in I
      BY <3>1
    <3>5. r.calls[n].id \in N /\ r.calls[n].name \in N
      BY <1>1, <3>1
    <3>6. <<>> \in T
      BY <3>1, EmptySeq
    <3>2. n \in I /\ r.calls[n].id \in N /\ r.calls[n].name \in N /\ <<>> \in T
      BY <3>4, <3>5, <3>6
    <3>3. d \in [index : I, id : N, name : N, text : T]
      BY <1>3, <3>2
    <3> QED BY <3>1, <3>3
  <2>2. d.index = n /\ d.id = r.calls[n].id /\ d.name = r.calls[n].name
    BY <1>3
  <2>3. HasName(d)
    BY <1>1, <2>2 DEF HasName
  <2> QED BY <2>1, <2>2, <2>3 DEF OpenAICalls
<1>5. FirstOf(r, n) = CallChunk(r, d)
  BY <1>3 DEF FirstOf
<1>6. \A m : n = m + 1 => OpenAIAt(d, m)
  BY <1>4 DEF OpenAIAt
<1>7. ASSUME NEW t \in Seq(STRING)
      PROVE  /\ MoreOf(r, n, t) \in OpenAICell(r) /\ ~OpenAIEmpty(MoreOf(r, n, t))
             /\ MoreOf(r, n, t).calls # <<>> /\ Reached(MoreOf(r, n, t)) = n
             /\ OpenAIAt(MoreOf(r, n, t).calls[1], n)
  <2>1. PICK f : f = [index |-> n, id |-> "", name |-> "", text |-> t]
    OBVIOUS
  <2>2. f \in OpenAICalls(r) /\ f.index = n /\ ~HasName(f)
    BY <2>1 DEF OpenAICalls, HasName
  <2>3. MoreOf(r, n, t) = CallChunk(r, f)
    BY <2>1 DEF MoreOf
  <2>4. OpenAIAt(f, n)
    BY <2>2 DEF OpenAIAt
  <2> QED BY <1>2, <2>2, <2>3, <2>4
<1> QED BY <1>2, <1>4, <1>5, <1>6, <1>7

\* One letter of a text.
LEMMA OneLetter ==
    ASSUME NEW t \in Seq(STRING), NEW i \in DOMAIN t
    PROVE  <<t[i]>> \in Seq(STRING) /\ <<t[i]>> # <<>>
  OBVIOUS

\* Something for each letter of a text.
LEMMA ForEach ==
    ASSUME NEW t \in Seq(STRING), NEW E, NEW ms \in [DOMAIN t -> E]
    PROVE  ms \in Seq(E)
<1>1. PICK n : n = Len(t) /\ n \in Nat /\ DOMAIN t = 1..n
  OBVIOUS
<1> QED BY <1>1

\* Two pieces, of which either may be nothing.
LEMMA LinkedCat ==
    ASSUME NEW E, NEW R, NEW s \in Seq(E), NEW t \in Seq(E), Linked(s, R), Linked(t, R),
           s # <<>> /\ t # <<>> => <<Last(s), t[1]>> \in R
    PROVE  /\ Cat(s, t) \in Seq(E) /\ Linked(Cat(s, t), R)
           /\ Cat(s, t)[1] = IF s = <<>> THEN t[1] ELSE s[1]
           /\ Last(Cat(s, t)) = IF t = <<>> THEN Last(s) ELSE Last(t)
<1>1. CASE s = <<>>
  <2>1. s \o t = t
    BY <1>1, ConcatEmptySeq
  <2>2. Cat(s, t) = t
    BY <2>1 DEF Cat
  <2> QED BY <1>1, <2>2
<1>2. CASE s # <<>>
  <2>1. t # <<>> => <<Last(s), t[1]>> \in R
    BY <1>2
  <2>2. /\ s \o t \in Seq(E) /\ Linked(s \o t, R) /\ (s \o t)[1] = s[1]
        /\ Last(s \o t) = IF t = <<>> THEN Last(s) ELSE Last(t)
    BY <1>2, <2>1, LinkedJoin
  <2>3. PICK u : u = s \o t
    OBVIOUS
  <2>4. Cat(s, t) = u
    BY <2>3 DEF Cat
  <2> QED BY <1>2, <2>2, <2>3, <2>4
<1> QED BY <1>1, <1>2

\* In any order.
LEMMA LinkedFreely ==
    ASSUME NEW E, NEW R, NEW s \in Seq(E), \A e, f \in E : <<e, f>> \in R
    PROVE  Linked(s, R) /\ (s # <<>> => s[1] \in E /\ Last(s) \in E)
<1>1. PICK n : n = Len(s) /\ n \in Nat
  OBVIOUS
<1>2. \A i \in 1..n : s[i] \in E
  BY <1>1
<1>3. \A i \in 1..(n - 1) : i \in 1..n /\ i + 1 \in 1..n
  BY <1>1
<1>4. Linked(s, R)
  BY <1>1, <1>2, <1>3 DEF Linked
<1>5. s # <<>> => 1 \in 1..n /\ n \in 1..n
  BY <1>1
<1> QED BY <1>1, <1>2, <1>4, <1>5 DEF Last

\* The chunks of something else than calls.
Letters(r) == {c \in OpenAICell(r) : c.calls = <<>> /\ ~OpenAIEmpty(c)}

\* Chunks of text, reasoning and refusal come in any order, before the calls.
LEMMA LettersFollow ==
    ASSUME NEW r
    PROVE  /\ \A e, f \in Letters(r) : <<e, f>> \in OpenAIFollows(r)
           /\ \A e \in Letters(r) : OpenAIReady(0, e)
<1>1. ASSUME NEW e \in Letters(r), NEW f \in Letters(r) PROVE <<e, f>> \in OpenAIFollows(r)
  <2>1. e \in OpenAICell(r) /\ f \in OpenAICell(r) /\ OpenAIAfter(e, f)
    BY DEF Letters, OpenAIAfter
  <2> QED BY <2>1 DEF OpenAIFollows
<1>2. ASSUME NEW e \in Letters(r) PROVE OpenAIReady(0, e)
  BY DEF Letters, OpenAIReady
<1> QED BY <1>1, <1>2

\* The chunks of the n-th call.
CallWire(r, n) == <<FirstOf(r, n)>>
                  \o [i \in DOMAIN r.calls[n].text |-> MoreOf(r, n, <<r.calls[n].text[i]>>)]
OfCall(r, n) == {c \in OpenAICell(r) : /\ ~OpenAIEmpty(c) /\ c.calls # <<>> /\ Reached(c) = n
                                       /\ OpenAIAt(c.calls[1], n)}

\* The chunks of a call: its name, then its arguments.
LEMMA CallWireIs ==
    ASSUME NEW r, Apart(r), NEW n \in 1..Len(r.calls)
    PROVE  LET c == CallWire(r, n)
           IN  /\ c \in Seq(OpenAICell(r)) /\ c # <<>> /\ Linked(c, OpenAIFollows(r))
               /\ c[1] = FirstOf(r, n)
               /\ Last(c) \in OpenAICell(r) /\ ~OpenAIEmpty(Last(c)) /\ Last(c).calls # <<>>
               /\ Reached(Last(c)) = n
<1>1. PICK t, E, R, e, ms :
          /\ t = r.calls[n].text /\ E = OpenAICell(r) /\ R = OpenAIFollows(r)
          /\ e = FirstOf(r, n) /\ ms = [i \in DOMAIN t |-> MoreOf(r, n, <<t[i]>>)]
  OBVIOUS
<1>2. t \in Seq(STRING)
  <2>1. r.calls[n] \in CallContent
    BY ApartCalls
  <2> QED BY <1>1, <2>1 DEF CallContent
<1>3. /\ e \in E /\ ~OpenAIEmpty(e) /\ e.calls # <<>> /\ Reached(e) = n
      /\ \A u \in Seq(STRING) : MoreOf(r, n, u) \in OfCall(r, n)
  BY <1>1, CallCells DEF OfCall
<1>4. ms \in Seq(OfCall(r, n))
  <2>1. \A i \in DOMAIN t : MoreOf(r, n, <<t[i]>>) \in OfCall(r, n)
    BY <1>2, <1>3, OneLetter
  <2>2. ms \in [DOMAIN t -> OfCall(r, n)]
    BY <1>1, <2>1
  <2> QED BY <1>2, <2>2, ForEach
<1>5. ASSUME NEW c \in E, ~OpenAIEmpty(c), Reached(c) = n, NEW f \in OfCall(r, n)
      PROVE  <<c, f>> \in R
  <2>1. f \in E /\ OpenAIAfter(c, f)
    BY <1>1, <1>5 DEF OfCall, OpenAIAfter
  <2> QED BY <1>1, <2>1 DEF OpenAIFollows
<1>6. \A c, f \in OfCall(r, n) : <<c, f>> \in R
  <2>1. \A c \in OfCall(r, n) : c \in E /\ ~OpenAIEmpty(c) /\ Reached(c) = n
    BY <1>1 DEF OfCall
  <2> QED BY <1>5, <2>1
<1>7. /\ Linked(ms, R) /\ ms \in Seq(E)
      /\ ms # <<>> => ms[1] \in OfCall(r, n) /\ Last(ms) \in OfCall(r, n)
  <2>1. OfCall(r, n) \subseteq E
    BY <1>1 DEF OfCall
  <2> QED BY <1>4, <1>6, <2>1, LinkedFreely
<1>8. <<e>> \in Seq(E) /\ <<e>> # <<>> /\ <<e>>[1] = e /\ Last(<<e>>) = e /\ Linked(<<e>>, R)
  BY <1>3, OneLinked
<1>9. ms # <<>> => <<Last(<<e>>), ms[1]>> \in R
  BY <1>3, <1>5, <1>7, <1>8
<1>10. PICK h, c : h = <<e>> /\ c = h \o ms
  OBVIOUS
<1>11. /\ c \in Seq(E) /\ c # <<>> /\ Linked(c, R) /\ c[1] = e
       /\ Last(c) = IF ms = <<>> THEN e ELSE Last(ms)
  <2>1. /\ h \in Seq(E) /\ h # <<>> /\ Linked(h, R) /\ h[1] = e /\ Last(h) = e
        /\ ms # <<>> => <<Last(h), ms[1]>> \in R
    BY <1>8, <1>9, <1>10
  <2>2. /\ h \o ms \in Seq(E) /\ h \o ms # <<>> /\ Linked(h \o ms, R)
        /\ (h \o ms)[1] = h[1]
        /\ Last(h \o ms) = IF ms = <<>> THEN Last(h) ELSE Last(ms)
    BY <1>7, <2>1, LinkedJoin
  <2> QED BY <1>10, <2>1, <2>2
<1>12. /\ Last(c) \in E /\ ~OpenAIEmpty(Last(c)) /\ Last(c).calls # <<>>
       /\ Reached(Last(c)) = n
  BY <1>1, <1>3, <1>7, <1>11 DEF OfCall
<1>13. CallWire(r, n) = c
  BY <1>1, <1>10 DEF CallWire
<1> QED BY <1>1, <1>11, <1>12, <1>13

\* A piece of a wire that may come first, and after which more may come.
Startable(w, r) ==
    /\ w \in Seq(OpenAICell(r)) /\ Linked(w, OpenAIFollows(r))
    /\ w # <<>> => OpenAIReady(0, w[1]) /\ Last(w) \in OpenAICell(r) /\ ~OpenAIEmpty(Last(w))

\* The chunks of all calls.
CallWires(r) == FlattenSeq([n \in DOMAIN r.calls |-> CallWire(r, n)])

\* The chunks of all calls, one call after the other.
LEMMA CallWiresAre ==
    ASSUME NEW r, Apart(r)
    PROVE  /\ Startable(CallWires(r), r)
           /\ CallWires(r) # <<>> => /\ 1 \in 1..Len(r.calls)
                                     /\ CallWires(r)[1] = FirstOf(r, 1)
<1>1. PICK n, E, R, ss : /\ n = Len(r.calls) /\ E = OpenAICell(r) /\ R = OpenAIFollows(r)
                         /\ ss = [i \in DOMAIN r.calls |-> CallWire(r, i)]
  OBVIOUS
<1>2. n \in Nat /\ DOMAIN r.calls = 1..n
  BY <1>1, ApartCalls
<1>3. \A i \in 1..n :
         /\ CallWire(r, i) \in Seq(E) /\ CallWire(r, i) # <<>> /\ Linked(CallWire(r, i), R)
         /\ CallWire(r, i)[1] = FirstOf(r, i)
         /\ Last(CallWire(r, i)) \in E /\ ~OpenAIEmpty(Last(CallWire(r, i)))
         /\ Last(CallWire(r, i)).calls # <<>>
         /\ Reached(Last(CallWire(r, i))) = i
  BY <1>1, CallWireIs
<1>4. ss \in Seq(Seq(E)) /\ Len(ss) = n /\ \A i \in 1..n : ss[i] = CallWire(r, i)
  <2>1. ss \in [1..n -> Seq(E)]
    BY <1>1, <1>2, <1>3
  <2>2. ss \in Seq(Seq(E)) /\ Len(ss) = n
    BY <1>2, <2>1
  <2>3. \A i \in 1..n : ss[i] = CallWire(r, i)
    BY <1>1, <1>2
  <2> QED BY <2>2, <2>3
<1>5. ASSUME NEW i \in 1..(n - 1) PROVE <<Last(ss[i]), ss[i + 1][1]>> \in R
  <2>1. PICK e, f : e = Last(ss[i]) /\ f = ss[i + 1][1]
    OBVIOUS
  <2>2. i \in 1..n /\ i + 1 \in 1..n
    BY <1>2
  <2>3. /\ e \in E /\ ~OpenAIEmpty(e) /\ Reached(e) = i
        /\ f = FirstOf(r, i + 1)
    BY <1>3, <1>4, <2>1, <2>2
  <2>4. /\ f \in E /\ ~OpenAIEmpty(f) /\ f.calls # <<>> /\ OpenAIAt(f.calls[1], i)
    BY <1>1, <2>2, <2>3, CallCells
  <2>5. OpenAIAfter(e, f)
    BY <2>3, <2>4 DEF OpenAIAfter
  <2> QED BY <1>1, <2>1, <2>3, <2>4, <2>5 DEF OpenAIFollows
<1>6. Chained(ss, R)
  <2>1. \A i \in 1..n : ss[i] # <<>> /\ Linked(ss[i], R)
    BY <1>3, <1>4
  <2> QED BY <1>4, <1>5, <2>1 DEF Chained
<1>7. PICK w : w = FlattenSeq(ss)
  OBVIOUS
<1>8. CallWires(r) = w
  BY <1>1, <1>7 DEF CallWires
<1>9. CASE n = 0
  <2>1. ss = <<>>
    BY <1>4, <1>9
  <2>2. w = <<>>
    BY <1>7, <2>1, FlattenEmpty
  <2>3. w \in Seq(E) /\ Linked(w, R)
    BY <2>2 DEF Linked
  <2> QED BY <1>1, <1>8, <2>2, <2>3 DEF Startable
<1>10. CASE n # 0
  <2>1. ss # <<>> /\ 1 \in 1..n /\ n \in 1..n
    BY <1>2, <1>4, <1>10
  <2>2. w \in Seq(E) /\ w # <<>> /\ Linked(w, R) /\ w[1] = ss[1][1] /\ Last(w) = Last(ss[n])
    BY <1>4, <1>6, <1>7, <2>1, FlattenLinked
  <2>3. w[1] = FirstOf(r, 1) /\ Last(w) \in E /\ ~OpenAIEmpty(Last(w))
    BY <1>3, <1>4, <2>1, <2>2
  <2>4. OpenAIReady(0, FirstOf(r, 1))
    <3>1. /\ FirstOf(r, 1).calls # <<>>
          /\ \A m : 1 = m + 1 => OpenAIAt(FirstOf(r, 1).calls[1], m)
      BY <1>1, <2>1, CallCells
    <3>2. OpenAIAt(FirstOf(r, 1).calls[1], 0)
      BY <3>1
    <3> QED BY <3>1, <3>2 DEF OpenAIReady
  <2> QED BY <1>1, <1>8, <2>1, <2>2, <2>3, <2>4 DEF Startable
<1> QED BY <1>2, <1>9, <1>10

\* Something else than calls.
LEMMA LettersAre ==
    ASSUME NEW r, NEW s \in Seq(Letters(r))
    PROVE  Startable(s, r) /\ (s # <<>> => Last(s).calls = <<>>)
<1>1. Linked(s, OpenAIFollows(r)) /\ (s # <<>> => s[1] \in Letters(r) /\ Last(s) \in Letters(r))
  BY LettersFollow, LinkedFreely
<1>2. s \in Seq(OpenAICell(r))
  <2>1. Letters(r) \subseteq OpenAICell(r)
    BY DEF Letters
  <2> QED BY <2>1
<1> QED BY <1>1, <1>2, LettersFollow DEF Startable, Letters

\* The chunks before those of the calls.
LEMMA LetterChunks ==
    ASSUME NEW r, r.text \in Seq(STRING), r.reasoning \in Seq(STRING), r.refusal \in Seq(STRING),
           r.filler \in Seq(STRING)
    PROVE  [i \in DOMAIN r.reasoning |-> ReasoningChunk(r, <<r.reasoning[i]>>)]
           \o [i \in DOMAIN r.text |-> TextChunk(<<r.text[i]>>)]
           \o [i \in DOMAIN r.refusal |-> RefusalChunk(r, <<r.refusal[i]>>)] \in Seq(Letters(r))
<1>1. PICK L, a, b, c : /\ L = Letters(r) /\ a = r.reasoning /\ b = r.text /\ c = r.refusal
  OBVIOUS
<1>2. \A t \in Seq(STRING) : t # <<>> => /\ ReasoningChunk(r, t) \in L /\ TextChunk(t) \in L
                                         /\ RefusalChunk(r, t) \in L
  BY <1>1, ChunkCells DEF Letters
<1>3. a \in Seq(STRING) /\ b \in Seq(STRING) /\ c \in Seq(STRING)
  BY <1>1
<1>4. PICK x, y, z : /\ x = [i \in DOMAIN a |-> ReasoningChunk(r, <<a[i]>>)]
                     /\ y = [i \in DOMAIN b |-> TextChunk(<<b[i]>>)]
                     /\ z = [i \in DOMAIN c |-> RefusalChunk(r, <<c[i]>>)]
  OBVIOUS
<1>5. x \in Seq(L)
  <2>1. \A i \in DOMAIN a : ReasoningChunk(r, <<a[i]>>) \in L
    BY <1>2, <1>3, OneLetter
  <2>2. x \in [DOMAIN a -> L]
    BY <1>4, <2>1
  <2> QED BY <1>3, <2>2, ForEach
<1>6. y \in Seq(L)
  <2>1. \A i \in DOMAIN b : TextChunk(<<b[i]>>) \in L
    BY <1>2, <1>3, OneLetter
  <2>2. y \in [DOMAIN b -> L]
    BY <1>4, <2>1
  <2> QED BY <1>3, <2>2, ForEach
<1>7. z \in Seq(L)
  <2>1. \A i \in DOMAIN c : RefusalChunk(r, <<c[i]>>) \in L
    BY <1>2, <1>3, OneLetter
  <2>2. z \in [DOMAIN c -> L]
    BY <1>4, <2>1
  <2> QED BY <1>3, <2>2, ForEach
<1>8. x \o y \in Seq(L)
  BY <1>5, <1>6, ConcatProperties
<1>9. (x \o y) \o z \in Seq(L)
  BY <1>7, <1>8, ConcatProperties
<1> QED BY <1>1, <1>4, <1>9

\* A stream begins.
LEMMA OpenAIOpensStream ==
    ASSUME NEW r, Apart(r), r.text \in Seq(STRING), r.reasoning \in Seq(STRING),
           r.refusal \in Seq(STRING), r.stop \in STRING
    PROVE  OpenAIFlow(OpenAIEvents(r), OpenAIStart, <<>>, r)
<1>0. r.filler \in Seq(STRING)
  BY DEF Apart
<1>1. PICK E, R, a, b, c, f :
          /\ E = OpenAICell(r) /\ R = OpenAIFollows(r)
          /\ a = [i \in DOMAIN r.reasoning |-> ReasoningChunk(r, <<r.reasoning[i]>>)]
                 \o [i \in DOMAIN r.text |-> TextChunk(<<r.text[i]>>)]
                 \o [i \in DOMAIN r.refusal |-> RefusalChunk(r, <<r.refusal[i]>>)]
          /\ b = CallWires(r) /\ f = StopChunk(r.stop) /\ c = <<f>>
  OBVIOUS
<1>2. a \in Seq(Letters(r))
  BY <1>0, <1>1, LetterChunks
<1>3. Startable(a, r) /\ (a # <<>> => Last(a).calls = <<>>)
  BY <1>2, LettersAre
<1>4. Startable(b, r) /\ (b # <<>> => 1 \in 1..Len(r.calls) /\ b[1] = FirstOf(r, 1))
  BY <1>1, CallWiresAre
<1>5. f \in E /\ f.calls = <<>> /\ OpenAIEmpty(f)
  BY <1>0, <1>1, ChunkCells
<1>6. /\ a \in Seq(E) /\ Linked(a, R) /\ b \in Seq(E) /\ Linked(b, R)
      /\ a # <<>> => OpenAIReady(0, a[1]) /\ Last(a) \in E /\ ~OpenAIEmpty(Last(a))
      /\ b # <<>> => OpenAIReady(0, b[1]) /\ Last(b) \in E /\ ~OpenAIEmpty(Last(b))
  BY <1>1, <1>3, <1>4 DEF Startable
<1>7. c \in Seq(E) /\ c # <<>> /\ c[1] = f /\ Linked(c, R)
  BY <1>1, <1>5, OneLinked
<1>8. ASSUME a # <<>>, b # <<>> PROVE <<Last(a), b[1]>> \in R
  <2>1. PICK e, g : e = Last(a) /\ g = b[1]
    OBVIOUS
  <2>2. e \in E /\ ~OpenAIEmpty(e) /\ Reached(e) = 0
    BY <1>3, <1>6, <1>8, <2>1 DEF Reached
  <2>3. g = FirstOf(r, 1) /\ 1 \in 1..Len(r.calls)
    BY <1>4, <1>8, <2>1
  <2>4. g \in E /\ g.calls # <<>> /\ \A m : 1 = m + 1 => OpenAIAt(g.calls[1], m)
    BY <1>1, <2>3, CallCells
  <2>5. OpenAIAt(g.calls[1], 0)
    BY <2>4
  <2>6. OpenAIAfter(e, g)
    BY <2>2, <2>4, <2>5 DEF OpenAIAfter
  <2> QED BY <1>1, <2>1, <2>2, <2>4, <2>6 DEF OpenAIFollows
<1>9. PICK d : d = Cat(a, b)
  OBVIOUS
<1>10. /\ d \in Seq(E) /\ Linked(d, R)
       /\ d # <<>> => OpenAIReady(0, d[1]) /\ Last(d) \in E /\ ~OpenAIEmpty(Last(d))
  <2>1. /\ d \in Seq(E) /\ Linked(d, R)
        /\ d[1] = (IF a = <<>> THEN b[1] ELSE a[1])
        /\ Last(d) = (IF b = <<>> THEN Last(a) ELSE Last(b))
    <3>1. a \in Seq(E) /\ Linked(a, R) /\ b \in Seq(E) /\ Linked(b, R)
      BY <1>6
    <3>2. a # <<>> /\ b # <<>> => <<Last(a), b[1]>> \in R
      BY <1>8
    <3>3. /\ Cat(a, b) \in Seq(E) /\ Linked(Cat(a, b), R)
          /\ Cat(a, b)[1] = (IF a = <<>> THEN b[1] ELSE a[1])
          /\ Last(Cat(a, b)) = (IF b = <<>> THEN Last(a) ELSE Last(b))
      BY <3>1, <3>2, LinkedCat
    <3> QED BY <1>9, <3>3
  <2>2. a = <<>> /\ b = <<>> => d = <<>>
    BY <1>6, <1>9, ConcatEmptySeq DEF Cat
  <2> QED BY <1>6, <2>1, <2>2
<1>11. ASSUME d # <<>> PROVE <<Last(d), c[1]>> \in R
  <2>1. OpenAIAfter(Last(d), f)
    BY <1>5, <1>10, <1>11 DEF OpenAIAfter
  <2> QED BY <1>1, <1>5, <1>7, <1>10, <1>11, <2>1 DEF OpenAIFollows
<1>12. PICK w : w = Cat(d, c)
  OBVIOUS
<1>13. /\ w \in Seq(E) /\ Linked(w, R)
       /\ w[1] = (IF d = <<>> THEN c[1] ELSE d[1])
  BY <1>7, <1>10, <1>11, <1>12, LinkedCat
<1>14. OpenAIReady(0, w[1])
  <2>1. OpenAIReady(0, f)
    BY <1>5 DEF OpenAIReady
  <2> QED BY <1>7, <1>10, <1>13, <2>1
<1>15. OpenAIEvents(r) = w
  BY <1>1, <1>9, <1>12, OpenAIEventsAre DEF CallWires, CallWire, Cat
<1>16. OpenAIState(OpenAIStart, r, 0)
  <2>1. <<>> = Begun(r, 0)
    <3>1. Begun(r, 0) \in [1..0 -> {}]
      BY DEF Begun
    <3>2. Begun(r, 0) \in Seq({}) /\ Len(Begun(r, 0)) = 0
      BY <3>1
    <3> QED BY <3>2, EmptySeq
  <2>2. 0 \in 0..Len(r.calls)
    BY ApartCalls
  <2>3. OpenAIStart \in [text : BOOLEAN, reasoning : BOOLEAN, ids : {Begun(r, 0)}, reason : {"Stop"}]
    BY <2>1 DEF OpenAIStart
  <2> QED BY <2>2, <2>3 DEF OpenAIState
<1>17. OpenAIOpen(OpenAIStart) = {}
  BY DEF OpenAIOpen, OpenAIStart, Blocks
<1>18. Fine(<<>>, OpenAIOpen(OpenAIStart))
  BY <1>17, NoPart
<1> QED BY <1>1, <1>13, <1>14, <1>15, <1>16, <1>18 DEF OpenAIFlow

-----------------------------------------------------------------------------
(* The end of an OpenAI stream *)

\* The first k of some parts.
Prefix(E, k) == [i \in 1..k |-> E[i]]

\* One part more.
LEMMA PrefixMore ==
    ASSUME NEW p, IsSequence(p), NEW E, NEW k \in Nat
    PROVE  /\ IsSequence(Prefix(E, k))
           /\ Cat(p, Prefix(E, k + 1)) = Cat(Cat(p, Prefix(E, k)), <<E[k + 1]>>)
<1>1. PICK S, x, y, e, z :
          /\ S = {E[i] : i \in 1..(k + 1)} /\ x = Prefix(E, k) /\ y = Prefix(E, k + 1)
          /\ e = E[k + 1] /\ z = <<e>>
  OBVIOUS
<1>2. \A i \in 1..(k + 1) : E[i] \in S
  BY <1>1
<1>3. x \in [1..k -> S] /\ y \in [1..(k + 1) -> S] /\ e \in S
  <2>1. \A i \in 1..k : i \in 1..(k + 1)
    OBVIOUS
  <2>2. k + 1 \in 1..(k + 1)
    OBVIOUS
  <2>3. x \in [1..k -> S]
    BY <1>1, <1>2, <2>1 DEF Prefix
  <2>4. y \in [1..(k + 1) -> S]
    BY <1>1, <1>2 DEF Prefix
  <2> QED BY <1>1, <1>2, <2>2, <2>3, <2>4
<1>4. /\ x \in Seq(S) /\ Len(x) = k /\ y \in Seq(S) /\ Len(y) = k + 1
      /\ \A i \in 1..k : x[i] = E[i] /\ y[i] = E[i]
      /\ y[k + 1] = e
  <2>1. x \in Seq(S) /\ Len(x) = k /\ y \in Seq(S) /\ Len(y) = k + 1
    BY <1>3
  <2>2. \A i \in 1..k : x[i] = E[i] /\ y[i] = E[i]
    BY <1>1 DEF Prefix
  <2>3. y[k + 1] = e
    BY <1>1 DEF Prefix
  <2> QED BY <2>1, <2>2, <2>3
<1>5. Append(x, e) = y
  <2>1. /\ Append(x, e) \in Seq(S) /\ Len(Append(x, e)) = k + 1
        /\ \A i \in 1..k : Append(x, e)[i] = x[i]
        /\ Append(x, e)[k + 1] = e
    BY <1>3, <1>4, AppendProperties
  <2>2. \A i \in 1..(k + 1) : i \in 1..k \/ i = k + 1
    OBVIOUS
  <2>3. \A i \in 1..(k + 1) : Append(x, e)[i] = y[i]
    BY <1>4, <2>1, <2>2
  <2> QED BY <1>4, <2>1, <2>3, SeqEqual
<1>6. x \o <<e>> = Append(x, e)
  BY <1>3, <1>4, AppendIsConcat
<1>7. Cat(x, z) = y
  BY <1>1, <1>5, <1>6 DEF Cat
<1>8. IsSequence(x) /\ IsSequence(z)
  BY <1>1, <1>4, Short DEF IsSequence
<1>9. Cat(p, Cat(x, z)) = Cat(Cat(p, x), z)
  BY <1>8, CatTwice
<1> QED BY <1>1, <1>7, <1>8, <1>9

\* They are a sequence.
LEMMA PrefixIs == ASSUME NEW E, NEW k \in Nat PROVE IsSequence(Prefix(E, k))
<1>1. IsSequence(<<>>)
  BY Short
<1> QED BY <1>1, PrefixMore

\* One part more that is allowed.
LEMMA PrefixOneMore ==
    ASSUME NEW p, IsSequence(p), NEW E, NEW k \in Nat, NEW open,
           Fine(Cat(Cat(p, Prefix(E, k)), <<E[k + 1]>>), open)
    PROVE  Fine(Cat(p, Prefix(E, k + 1)), open)
<1>1. Cat(p, Prefix(E, k + 1)) = Cat(Cat(p, Prefix(E, k)), <<E[k + 1]>>)
  BY PrefixMore
<1> QED BY <1>1

\* A flag that is not set.
LEMMA BlocksNot ==
    ASSUME NEW t \in BOOLEAN, NEW g \in BOOLEAN, NEW ids
    PROVE  /\ ~t => Blocks(t, g, ids) = Blocks(FALSE, g, ids)
           /\ ~g => Blocks(t, g, ids) = Blocks(t, FALSE, ids)
<1>1. ~t => t = FALSE
  OBVIOUS
<1>2. ~g => g = FALSE
  OBVIOUS
<1> QED BY <1>1, <1>2

\* The blocks of m calls, and their ends in some order.
CallBlocks(ids, m) == {<<"call", ids[i]>> : i \in 1..m}
CallEnds(ids, f, m) == [i \in 1..m |-> End("call", ids[f[i]])]
AllApart(f, m) == \A i, j \in 1..m : f[i] = f[j] => i = j

\* One block ends.
LEMMA OneEnd ==
    ASSUME NEW ps, NEW open, NEW left, NEW of, NEW id, NEW e, NEW b, Fine(ps, open),
           e = End(of, id), b = <<of, id>>, b \in open, left = open \ {b}
    PROVE  Fine(Cat(ps, <<e>>), left)
<1>1. <<of, id>> \in open
  OBVIOUS
<1>2. Fine(Cat(ps, <<End(of, id)>>), open \ {<<of, id>>})
  BY <1>1, CatSteps
<1> QED BY <1>2

\* What is left of some blocks when one more has ended.
LEMMA OneLess ==
    ASSUME NEW m \in Nat, NEW g, AllApart(g, m), NEW k \in 0..(m - 1)
    PROVE  /\ g[k + 1] \in {g[j] : j \in (k + 1)..m}
           /\ {g[j] : j \in ((k + 1) + 1)..m} = {g[j] : j \in (k + 1)..m} \ {g[k + 1]}
<1>1. k + 1 \in 1..m /\ k + 1 \in (k + 1)..m
  OBVIOUS
<1>2. \A j \in (k + 1)..m : j = k + 1 \/ j \in ((k + 1) + 1)..m
  OBVIOUS
<1>3. \A j \in ((k + 1) + 1)..m : j \in (k + 1)..m /\ j \in 1..m /\ j # k + 1
  OBVIOUS
<1>4. \A j \in ((k + 1) + 1)..m : g[j] # g[k + 1]
  BY <1>1, <1>3 DEF AllApart
<1>5. PICK K : K = k + 1
  OBVIOUS
<1>6. PICK I, J : I = K..m /\ J = (K + 1)..m
  OBVIOUS
<1>7. /\ K \in I /\ (\A j \in I : j = K \/ j \in J)
      /\ (\A j \in J : j \in I) /\ (\A j \in J : g[j] # g[K])
  BY <1>1, <1>2, <1>3, <1>4, <1>5, <1>6
<1>8. g[K] \in {g[j] : j \in I}
  BY <1>7
<1>9. {g[j] : j \in J} = {g[j] : j \in I} \ {g[K]}
  BY <1>7
<1> QED BY <1>5, <1>6, <1>8, <1>9

\* The calls end one after the other, in any order.
LEMMA CallsEnd ==
    ASSUME NEW m \in Nat, NEW ids, NEW f \in [1..m -> 1..m], AllApart(ids, m), AllApart(f, m),
           NEW p, Fine(p, CallBlocks(ids, m))
    PROVE  IsSequence(CallEnds(ids, f, m)) /\ Fine(Cat(p, CallEnds(ids, f, m)), {})
<1>1. PICK E : E = CallEnds(ids, f, m) /\ E = [i \in 1..m |-> End("call", ids[f[i]])]
  BY DEF CallEnds
<1>11. PICK b : b = [i \in 1..m |-> <<"call", ids[i]>>]
  OBVIOUS
<1>12. \A i, j \in 1..m : b[i] = b[j] => i = j
  <2>1. \A i \in 1..m : b[i] = <<"call", ids[i]>>
    BY <1>11
  <2> QED BY <2>1 DEF AllApart
<1>13. \A j \in 1..m : f[j] \in 1..m /\ b[f[j]] = <<"call", ids[f[j]]>>
  BY <1>11
<1>14. PICK g : g = [j \in 1..m |-> b[f[j]]]
  OBVIOUS
<1>15. \A j \in 1..m : g[j] = b[f[j]]
  BY <1>14
<1>16. AllApart(g, m)
  <2> SUFFICES ASSUME NEW i \in 1..m, NEW j \in 1..m, g[i] = g[j] PROVE i = j
    BY DEF AllApart
  <2>1. b[f[i]] = b[f[j]] /\ f[i] \in 1..m /\ f[j] \in 1..m
    BY <1>13, <1>15
  <2>2. f[i] = f[j]
    BY <1>12, <2>1
  <2> QED BY <2>2 DEF AllApart
<1> DEFINE Left(k) == {g[j] : j \in (k + 1)..m}
<1>2. Left(0) = CallBlocks(ids, m)
  <2>1. f \in Injection(1..m, 1..m)
    BY DEF Injection, IsInjective, AllApart
  <2>2. f \in Surjection(1..m, 1..m)
    <3>1. IsFiniteSet(1..m)
      BY FS_Interval
    <3> QED BY <2>1, <3>1, FS_Injection
  <2>3. \A i \in 1..m : \E j \in 1..m : f[j] = i
    BY <2>2 DEF Surjection
  <2>4. (0 + 1)..m = 1..m
    OBVIOUS
  <2>5. {g[j] : j \in 1..m} = {b[i] : i \in 1..m}
    <3>1. \A j \in 1..m : g[j] \in {b[i] : i \in 1..m}
      BY <1>13, <1>15
    <3>2. \A i \in 1..m : b[i] \in {g[j] : j \in 1..m}
      <4> TAKE i \in 1..m
      <4>1. PICK j \in 1..m : f[j] = i
        BY <2>3
      <4> QED BY <1>15, <4>1
    <3> QED BY <3>1, <3>2
  <2>6. {b[i] : i \in 1..m} = CallBlocks(ids, m)
    BY <1>11 DEF CallBlocks
  <2> QED BY <2>4, <2>5, <2>6
<1>3. Left(m) = {}
  OBVIOUS
<1>4. ASSUME NEW k \in 0..(m - 1)
      PROVE  g[k + 1] \in Left(k) /\ Left(k + 1) = Left(k) \ {g[k + 1]}
  BY <1>16, OneLess
<1> DEFINE Good(k) == Fine(Cat(p, Prefix(E, k)), Left(k))
<1>5. Good(0)
  <2>1. Prefix(E, 0) = <<>>
    <3>1. Prefix(E, 0) \in [1..0 -> {}]
      BY DEF Prefix
    <3>2. Prefix(E, 0) \in Seq({}) /\ Len(Prefix(E, 0)) = 0
      BY <3>1
    <3> QED BY <3>2, EmptySeq
  <2>2. Cat(p, <<>>) = p
    BY CatSteps
  <2> QED BY <1>2, <2>1, <2>2
<1> HIDE DEF Left
<1>6. ASSUME NEW k \in 0..(m - 1), Good(k) PROVE Good(k + 1)
  <2>1. k \in Nat /\ k + 1 \in 1..m
    OBVIOUS
  <2>2. E[k + 1] = End("call", ids[f[k + 1]])
    BY <1>1, <2>1
  <2>3. g[k + 1] = <<"call", ids[f[k + 1]]>>
    BY <1>13, <1>15, <2>1
  <2>4. PICK q, L, M, e, c, id :
            /\ q = Cat(p, Prefix(E, k)) /\ L = Left(k) /\ M = Left(k + 1)
            /\ e = E[k + 1] /\ c = g[k + 1] /\ id = ids[f[k + 1]]
    OBVIOUS
  <2>5. IsSequence(p)
    BY DEF Fine
  <2>7. Fine(q, L)
    BY <1>6, <2>4
  <2>8. e = End("call", id) /\ c = <<"call", id>> /\ c \in L /\ M = L \ {c}
    BY <1>4, <2>2, <2>3, <2>4
  <2>9. Fine(Cat(q, <<e>>), M)
    BY <2>7, <2>8, OneEnd
  <2>6. Fine(Cat(Cat(p, Prefix(E, k)), <<E[k + 1]>>), Left(k + 1))
    BY <2>4, <2>9
  <2> QED BY <2>1, <2>5, <2>6, PrefixOneMore
<1>7. Good(m)
  <2> HIDE DEF Good
  <2> SUFFICES ASSUME ~Good(m) PROVE FALSE
    OBVIOUS
  <2> DEFINE T == {k \in 0..m : ~Good(k)}
  <2>1. T \in SUBSET Nat /\ m \in T
    OBVIOUS
  <2>2. PICK k \in T : \A n \in T : k <= n
    BY <2>1, Least
  <2>3. k \in 0..m /\ ~Good(k) /\ k # 0
    BY <1>5, <2>2
  <2>4. k - 1 \in 0..(m - 1) /\ (k - 1) + 1 = k /\ k - 1 \notin T
    BY <2>2, <2>3
  <2>5. Good(k - 1)
    BY <2>4
  <2>6. Good((k - 1) + 1)
    BY <1>6, <2>4, <2>5
  <2> QED BY <2>3, <2>4, <2>6
<1>8. Prefix(E, m) = E
  BY <1>1 DEF Prefix
<1>9. IsSequence(E)
  BY <1>8, PrefixIs
<1>10. Fine(Cat(p, E), {})
  BY <1>3, <1>7, <1>8
<1> QED BY <1>1, <1>9, <1>10

\* The parts so far are whole, and with any end of the stream.
LEMMA OpenAIWhole ==
    ASSUME NEW w, NEW s, NEW ps, NEW r, OpenAIFlow(w, s, ps, r)
    PROVE  Whole(ps) /\ \A ending \in OpenAIEnds(s) : Whole(ps \o ending)
<1>1. Fine(ps, OpenAIOpen(s)) /\ Apart(r) /\ Whole(ps)
  BY NoPart DEF OpenAIFlow
<1>2. PICK m : OpenAIState(s, r, m)
  BY DEF OpenAIFlow
<1>3. PICK R : m \in 0..Len(r.calls) /\ s \in OpenAIFields(Begun(r, m), R)
  BY <1>2 DEF OpenAIState, OpenAIFields
<1>4. s.text \in BOOLEAN /\ s.reasoning \in BOOLEAN /\ s.ids = Begun(r, m)
  BY <1>3 DEF OpenAIFields
<1>5. PICK ids, t, g : ids = Begun(r, m) /\ t = s.text /\ g = s.reasoning
  OBVIOUS
<1>6. t \in BOOLEAN /\ g \in BOOLEAN /\ FALSE \in BOOLEAN
  BY <1>4, <1>5
<1>7. /\ m \in Nat /\ DOMAIN ids = 1..m
      /\ \A i, j \in 1..m : ids[i] = ids[j] => i = j
  <2>1. PICK n : n = Len(r.calls) /\ n \in Nat /\ DOMAIN r.calls = 1..n
    BY <1>1, ApartCalls
  <2>2. m \in Nat /\ \A i \in 1..m : i \in 1..n
    BY <1>3, <2>1
  <2>3. DOMAIN ids = 1..m /\ \A i \in 1..m : ids[i] = r.calls[i].id
    BY <1>5, BegunHas
  <2>4. \A i, j \in 1..n : r.calls[i].id = r.calls[j].id => i = j
    BY <1>1, <2>1 DEF Apart
  <2> QED BY <2>2, <2>3, <2>4
<1>8. Cardinality(DOMAIN s.ids) = m
  <2>1. Cardinality(1..m) = m
    BY <1>7, FS_Interval
  <2> QED BY <1>4, <1>5, <1>7, <2>1
<1> SUFFICES ASSUME NEW ending \in OpenAIEnds(s) PROVE Whole(ps \o ending)
  BY <1>1
<1>9. PICK A, B, Z : /\ A = (IF s.reasoning THEN <<End("reasoning", "0")>> ELSE <<>>)
                     /\ B = (IF s.text THEN <<End("text", "0")>> ELSE <<>>)
                     /\ Z = <<Finish(s.reason)>>
  OBVIOUS
<1>10. PICK f \in [1..m -> 1..m] :
          /\ IsInjective(f)
          /\ ending = (A \o B) \o [i \in DOMAIN f |-> End("call", s.ids[f[i]])] \o Z
  <2>1. DOMAIN s.ids = 1..m
    BY <1>4, <1>5, <1>7
  <2> QED BY <1>8, <1>9, <2>1 DEF OpenAIEnds
<1>11. PICK E : E = CallEnds(ids, f, m) /\ E = [i \in 1..m |-> End("call", ids[f[i]])]
  BY DEF CallEnds
<1>12. ending = Cat(Cat(Cat(A, B), E), Z)
  <2>1. [i \in DOMAIN f |-> End("call", s.ids[f[i]])] = E
    BY <1>4, <1>5, <1>11
  <2> QED BY <1>10, <2>1 DEF Cat
<1>13. Fine(Cat(ps, A), Blocks(t, FALSE, ids))
  <2>0. Fine(ps, Blocks(t, g, ids))
    BY <1>1, <1>4, <1>5 DEF OpenAIOpen
  <2>1. CASE g
    <3>1. <<"reasoning", "0">> \in Blocks(t, g, ids)
      BY <1>6, <2>1, BlocksChange
    <3>2. Blocks(t, g, ids) \ {<<"reasoning", "0">>} = Blocks(t, FALSE, ids)
      BY <1>6, BlocksLess
    <3>3. Fine(Cat(ps, <<End("reasoning", "0")>>), Blocks(t, g, ids) \ {<<"reasoning", "0">>})
      BY <2>0, <3>1, CatSteps
    <3> QED BY <1>5, <1>9, <2>1, <3>2, <3>3
  <2>2. CASE ~g
    <3>1. Blocks(t, g, ids) = Blocks(t, FALSE, ids)
      BY <1>6, <2>2, BlocksNot
    <3>2. Cat(ps, <<>>) = ps
      BY <2>0, CatSteps
    <3> QED BY <1>5, <1>9, <2>0, <2>2, <3>1, <3>2
  <2> QED BY <2>1, <2>2
<1>14. Fine(Cat(Cat(ps, A), B), Blocks(FALSE, FALSE, ids))
  <2>1. CASE t
    <3>1. <<"text", "0">> \in Blocks(t, FALSE, ids)
      BY <1>6, <2>1, BlocksChange
    <3>2. Blocks(t, FALSE, ids) \ {<<"text", "0">>} = Blocks(FALSE, FALSE, ids)
      BY <1>6, BlocksChange
    <3>3. Fine(Cat(Cat(ps, A), <<End("text", "0")>>), Blocks(t, FALSE, ids) \ {<<"text", "0">>})
      BY <1>13, <3>1, CatSteps
    <3> QED BY <1>5, <1>9, <2>1, <3>2, <3>3
  <2>2. CASE ~t
    <3>1. Blocks(t, FALSE, ids) = Blocks(FALSE, FALSE, ids)
      BY <1>6, <2>2, BlocksNot
    <3>2. Cat(Cat(ps, A), <<>>) = Cat(ps, A)
      BY <1>13, CatSteps
    <3> QED BY <1>5, <1>9, <1>13, <2>2, <3>1, <3>2
  <2> QED BY <2>1, <2>2
<1>15. Blocks(FALSE, FALSE, ids) = CallBlocks(ids, m)
  BY <1>7 DEF Blocks, CallBlocks
<1>16. IsSequence(E) /\ Fine(Cat(Cat(Cat(ps, A), B), E), {})
  <2>1. AllApart(f, m) /\ AllApart(ids, m)
    BY <1>7, <1>10 DEF IsInjective, AllApart
  <2>2. PICK p : p = Cat(Cat(ps, A), B)
    OBVIOUS
  <2>3. Fine(p, CallBlocks(ids, m))
    BY <1>14, <1>15, <2>2
  <2>4. IsSequence(CallEnds(ids, f, m)) /\ Fine(Cat(p, CallEnds(ids, f, m)), {})
    BY <1>7, <1>10, <2>1, <2>3, CallsEnd
  <2> QED BY <1>11, <2>2, <2>4
<1>17. Whole(Cat(Cat(Cat(Cat(ps, A), B), E), Z))
  BY <1>9, <1>16, Finishes DEF Cat
<1>18. Cat(ps, ending) = Cat(Cat(Cat(Cat(ps, A), B), E), Z)
  <2>1. IsSequence(ps) /\ IsSequence(A) /\ IsSequence(B) /\ IsSequence(E) /\ IsSequence(Z)
    BY <1>1, <1>9, <1>16, Short DEF Fine
  <2>2. PICK x, y : x = Cat(A, B) /\ y = Cat(x, E)
    OBVIOUS
  <2>3. IsSequence(x) /\ IsSequence(y)
    BY <2>1, <2>2, CatTwice
  <2>4. Cat(ps, Cat(y, Z)) = Cat(Cat(ps, y), Z)
    BY <2>1, <2>3, CatTwice
  <2>5. Cat(ps, y) = Cat(Cat(ps, x), E)
    BY <2>1, <2>2, <2>3, CatTwice
  <2>6. Cat(ps, x) = Cat(Cat(ps, A), B)
    BY <2>1, <2>2, CatTwice
  <2> QED BY <1>12, <2>2, <2>4, <2>5, <2>6
<1> QED BY <1>17, <1>18 DEF Cat

-----------------------------------------------------------------------------
(* The stream of any provider *)

\* What is still to come fits what the decoder knows and what it has yielded.
Flows(p, w, s, ps, o, r) ==
    /\ p = "anthropic" => AnthropicFlow(w, s, ps, o)
    /\ p = "openai"    => OpenAIFlow(w, s, ps, r)
    /\ p = "responses" => ResponsesFlow(w, s, ps)
    /\ p = "google"    => GoogleFlow(w, s, ps)

\* A stream as its server sends it.
LEMMA FlowsOpen ==
    ASSUME NEW p \in Providers, NEW r \in Replies[p], NEW o
    PROVE  Flows(p, Wire(p, r), Decoder(p), <<>>, o, r)
<1>1. ASSUME p = "anthropic" PROVE AnthropicFlow(Wire(p, r), Decoder(p), <<>>, o)
  <2>1. /\ r.content \in Seq(AnthropicBlock) /\ r.stop \in STRING
        /\ \A i \in DOMAIN r.content : Proper(r.content[i])
    <3>1. /\ r.content \in Seq(TextContent \cup CallContent \cup ReasoningContent)
          /\ \A i \in DOMAIN r.content :
                r.content[i].type = "reasoning" /\ r.content[i].redacted # <<>> =>
                    r.content[i].text = <<>> /\ r.content[i].signature = <<>>
          /\ r.stop \in STRING
      BY <1>1, ReplyAssumption
    <3>2. r.content \in Seq(AnthropicBlock)
      BY <3>1 DEF AnthropicBlock
    <3>3. \A i \in DOMAIN r.content : r.content[i] \in AnthropicBlock
      BY <3>2
    <3> QED BY <3>1, <3>2, <3>3 DEF Proper, Sealed
  <2>2. Wire(p, r) = AnthropicEvents(r) /\ Decoder(p) = AnthropicStart
    BY <1>1 DEF Wire, Decoder
  <2> QED BY <2>1, <2>2, AnthropicOpensStream
<1>2. ASSUME p = "openai" PROVE OpenAIFlow(Wire(p, r), Decoder(p), <<>>, r)
  <2>1. /\ Apart(r) /\ r.text \in Seq(STRING) /\ r.reasoning \in Seq(STRING)
        /\ r.refusal \in Seq(STRING) /\ r.stop \in STRING
    BY <1>2, ReplyAssumption DEF Apart
  <2>2. Wire(p, r) = OpenAIEvents(r) /\ Decoder(p) = OpenAIStart
    BY <1>2 DEF Wire, Decoder
  <2> QED BY <2>1, <2>2, OpenAIOpensStream
<1>3. ASSUME p = "responses" PROVE ResponsesFlow(Wire(p, r), Decoder(p), <<>>)
  <2>1. /\ r.content \in Seq(TextContent \cup CallContent)
        /\ r.stop \in {"completed", "incomplete", "failed"}
    BY <1>3, ReplyAssumption
  <2>2. Wire(p, r) = ResponsesEvents(r) /\ Decoder(p) = ResponsesStart
    BY <1>3 DEF Wire, Decoder
  <2> QED BY <2>1, <2>2, ResponsesOpensStream
<1>4. ASSUME p = "google" PROVE GoogleFlow(Wire(p, r), Decoder(p), <<>>)
  <2>1. r.content \in Seq(TextContent \cup CallContent) /\ r.stop \in STRING
    BY <1>4, ReplyAssumption
  <2>2. Wire(p, r) = GoogleEvents(r) /\ Decoder(p) = GoogleStart
    BY <1>4 DEF Wire, Decoder
  <2> QED BY <2>1, <2>2, GoogleOpensStream
<1> QED BY <1>1, <1>2, <1>3, <1>4 DEF Flows

\* The next event is read.
LEMMA FlowsOn ==
    ASSUME NEW p, p # "bedrock", NEW w, w # <<>>, NEW s, NEW ps, NEW o, NEW r,
           Flows(p, w, s, ps, o, r)
    PROVE  LET d == Decoded(p, s, SubSeq(w, 1, 1), o)
           IN  Flows(p, SubSeq(w, 2, Len(w)), d.st, ps \o d.parts, o, r)
<1>0. PICK d, u, t : /\ d = Decoded(p, s, u, o) /\ u = SubSeq(w, 1, 1)
                     /\ t = SubSeq(w, 2, Len(w))
  OBVIOUS
<1>1. ASSUME p = "anthropic" PROVE AnthropicFlow(t, d.st, ps \o d.parts, o)
  <2>1. d = AnthropicStep(s, u[1], o)
    BY <1>0, <1>1 DEF Decoded
  <2>2. AnthropicFlow(w, s, ps, o)
    BY <1>1 DEF Flows
  <2> QED BY <1>0, <2>1, <2>2, AnthropicReads
<1>2. ASSUME p = "openai" PROVE OpenAIFlow(t, d.st, ps \o d.parts, r)
  <2>1. d = OpenAIStep(s, u[1])
    BY <1>0, <1>2 DEF Decoded
  <2>2. OpenAIFlow(w, s, ps, r)
    BY <1>2 DEF Flows
  <2> QED BY <1>0, <2>1, <2>2, OpenAIReads
<1>3. ASSUME p = "responses" PROVE ResponsesFlow(t, d.st, ps \o d.parts)
  <2>1. d = ResponsesStep(s, u[1])
    BY <1>0, <1>3 DEF Decoded
  <2>2. ResponsesFlow(w, s, ps)
    BY <1>3 DEF Flows
  <2> QED BY <1>0, <2>1, <2>2, ResponsesReads
<1>4. ASSUME p = "google" PROVE GoogleFlow(t, d.st, ps \o d.parts)
  <2>1. d = GoogleStep(s, u[1])
    BY <1>0, <1>4 DEF Decoded
  <2>2. GoogleFlow(w, s, ps)
    BY <1>4 DEF Flows
  <2> QED BY <1>0, <2>1, <2>2, GoogleReads
<1>5. Flows(p, t, d.st, ps \o d.parts, o, r)
  BY <1>1, <1>2, <1>3, <1>4 DEF Flows
<1> QED BY <1>0, <1>5

\* The parts so far are whole, and also those after any end.
LEMMA FlowsWhole ==
    ASSUME NEW p \in Providers, p # "bedrock", NEW w, NEW s, NEW ps, NEW o, NEW r,
           Flows(p, w, s, ps, o, r)
    PROVE  Whole(ps) /\ \A ending \in Endings(p, s) : Whole(ps \o ending)
<1>0. Whole(ps) => Whole(ps \o <<>>)
  <2>1. IsSequence(ps) => ps \o <<>> = ps
    BY NothingJoined
  <2> QED BY <2>1 DEF Whole
<1>1. CASE p = "anthropic"
  <2>1. Endings(p, s) = {<<>>}
    BY <1>1 DEF Endings
  <2>2. AnthropicFlow(w, s, ps, o)
    BY <1>1 DEF Flows
  <2> QED BY <1>0, <2>1, <2>2, AnthropicWhole
<1>2. CASE p = "openai"
  <2>1. Endings(p, s) = OpenAIEnds(s)
    BY <1>2 DEF Endings
  <2>2. OpenAIFlow(w, s, ps, r)
    BY <1>2 DEF Flows
  <2> QED BY <2>1, <2>2, OpenAIWhole
<1>3. CASE p = "responses"
  <2>1. Endings(p, s) = {<<>>}
    BY <1>3 DEF Endings
  <2>2. ResponsesFlow(w, s, ps)
    BY <1>3 DEF Flows
  <2> QED BY <1>0, <2>1, <2>2, ResponsesWhole
<1>4. CASE p = "google"
  <2>1. Endings(p, s) = {GoogleEnd(s)}
    BY <1>4 DEF Endings
  <2>2. GoogleFlow(w, s, ps)
    BY <1>4 DEF Flows
  <2> QED BY <2>1, <2>2, GoogleWhole
<1>5. p \in {"anthropic", "openai", "responses", "google"}
  BY ProviderCallsAssumption
<1> QED BY <1>1, <1>2, <1>3, <1>4, <1>5

\* The inductive invariant: the parts are whole and, while a stream is open,
\* what is still to come fits them.
BlockInv ==
    /\ provider \in Providers
    /\ provider # "bedrock" => Whole(parts)
    /\ phase = "streaming" => Flows(provider, wire, st, parts, options, reply)

\* Every step keeps it.
LEMMA BlockStep == ASSUME BlockInv, [ProviderNext]_providerVars PROVE BlockInv'
<1>1. /\ provider \in Providers
      /\ provider # "bedrock" => Whole(parts)
      /\ phase = "streaming" => Flows(provider, wire, st, parts, options, reply)
  BY DEF BlockInv
<1>2. CASE Ask \/ Throw \/ ReplyWhole \/ Continue
  <2>1. UNCHANGED <<provider, parts>> /\ phase' # "streaming"
    BY <1>2 DEF Ask, Throw, ReplyWhole, Continue
  <2> QED BY <1>1, <2>1 DEF BlockInv
<1>3. CASE Resume \/ AtRest \/ UNCHANGED providerVars
  <2>1. UNCHANGED <<provider, wire, st, parts, options, reply, phase>>
    BY <1>3 DEF Resume, AtRest, providerVars
  <2> QED BY <1>1, <2>1 DEF BlockInv
<1>4. CASE StreamOpens
  <2>1. PICK r \in Replies[provider] : reply' = r /\ wire' = Wire(provider, r)
    BY <1>4 DEF StreamOpens
  <2>2. st' = Decoder(provider) /\ parts' = <<>> /\ UNCHANGED <<provider, options>>
    BY <1>4 DEF StreamOpens
  <2>3. Flows(provider, Wire(provider, r), Decoder(provider), <<>>, options, r)
    BY <1>1, FlowsOpen
  <2>4. Flows(provider', wire', st', parts', options', reply')
    BY <2>1, <2>2, <2>3
  <2>5. Whole(parts') /\ provider' \in Providers
    BY <1>1, <2>2, NoPart
  <2> QED BY <2>4, <2>5 DEF BlockInv
<1>5. CASE Read
  <2>1. phase = "streaming" /\ UNCHANGED <<provider, options, reply>>
    BY <1>5 DEF Read
  <2>2. CASE provider = "bedrock"
    <3>1. Flows(provider', wire', st', parts', options', reply')
      BY <2>1, <2>2 DEF Flows
    <3> QED BY <1>1, <2>1, <2>2, <3>1 DEF BlockInv
  <2>3. CASE provider # "bedrock"
    <3>1. PICK n \in 1..1 :
              /\ n <= Len(wire)
              /\ st' = Decoded(provider, st, SubSeq(wire, 1, n), options).st
              /\ parts' = parts \o Decoded(provider, st, SubSeq(wire, 1, n), options).parts
              /\ wire' = SubSeq(wire, n + 1, Len(wire))
      BY <1>5, <2>3 DEF Read
    <3>2. n = 1 /\ n + 1 = 2
      OBVIOUS
    <3>3. wire # <<>>
      <4>1. ~(1 <= Len(<<>>))
        OBVIOUS
      <4>2. 1 <= Len(wire)
        BY <3>1, <3>2
      <4> QED BY <4>1, <4>2
    <3>4. PICK d : d = Decoded(provider, st, SubSeq(wire, 1, 1), options)
      OBVIOUS
    <3>5. st' = d.st /\ parts' = parts \o d.parts /\ wire' = SubSeq(wire, 2, Len(wire))
      BY <3>1, <3>2, <3>4
    <3>6. Flows(provider, wire, st, parts, options, reply)
      BY <1>1, <2>1
    <3>7. Flows(provider, SubSeq(wire, 2, Len(wire)), d.st, parts \o d.parts, options, reply)
      BY <2>3, <3>3, <3>4, <3>6, FlowsOn
    <3>8. Flows(provider, wire', st', parts', options, reply)
      BY <3>5, <3>7
    <3>9. Whole(parts')
      BY <1>1, <2>3, <3>8, FlowsWhole
    <3> QED BY <1>1, <2>1, <3>8, <3>9 DEF BlockInv
  <2> QED BY <2>2, <2>3
<1>6. CASE ServerError
  <2>1. /\ phase = "streaming" /\ provider = "anthropic" /\ wire # <<>>
        /\ wire' = <<[type |-> "error"]>>
        /\ UNCHANGED <<provider, options, reply, st, parts, phase>>
    BY <1>6 DEF ServerError
  <2>2. AnthropicFlow(wire, st, parts, options)
    BY <1>1, <2>1 DEF Flows
  <2>3. AnthropicFlow(<<[type |-> "error"]>>, st, parts, options)
    BY <2>1, <2>2, AnthropicGivesUp
  <2>4. Flows(provider, <<[type |-> "error"]>>, st, parts, options, reply)
    BY <2>1, <2>3 DEF Flows
  <2>5. Flows(provider', wire', st', parts', options', reply')
    BY <2>1, <2>4
  <2> QED BY <1>1, <2>1, <2>5 DEF BlockInv
<1>7. CASE StreamEnds
  <2>1. phase = "streaming" /\ UNCHANGED provider
    BY <1>7 DEF StreamEnds
  <2>2. phase' # "streaming"
    BY <1>7 DEF StreamEnds
  <2>3. PICK ending \in Endings(provider, st) : parts' = parts \o ending
    BY <1>7 DEF StreamEnds
  <2>4. provider # "bedrock" => Whole(parts \o ending)
    BY <1>1, <2>1, FlowsWhole
  <2> QED BY <1>1, <2>1, <2>2, <2>3, <2>4 DEF BlockInv
<1> QED BY <1>2, <1>3, <1>4, <1>5, <1>6, <1>7 DEF ProviderNext

\* The parts a stream yields are well formed at any time, whatever the server
\* answers, asked for whatever, and wherever it gives up.
THEOREM PartsAreWellFormed == ProviderSpec => []PartsWellFormed
<1>1. ProviderInit => BlockInv
  BY NoPart DEF ProviderInit, BlockInv
<1>2. BlockInv /\ [ProviderNext]_providerVars => BlockInv'
  BY BlockStep
<1>3. BlockInv => PartsWellFormed
  BY DEF BlockInv, Whole, PartsWellFormed
<1> QED BY <1>1, <1>2, <1>3, PTL DEF ProviderSpec
=============================================================================
