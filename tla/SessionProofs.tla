----------------------------- MODULE SessionProofs -----------------------------
(***************************************************************************)
(* Calls stay with their results, and an agent is given the message it is  *)
(* to answer: for any number of turns, however they overlap, are cut by    *)
(* the strategy and fail, of any number of rounds; and so they do with     *)
(* blocks of memory in the prompt and when the session is saved, lost with *)
(* its process and loaded again.  Of the strategy: what manage returns     *)
(* fits or can shrink no further, and keeps both ends of the history.  Of  *)
(* memory: one checkpoint, and a task's record is its log.  Of turns one   *)
(* after the other: none is missing between two that are kept.             *)
(***************************************************************************)
EXTENDS CodingSession, ContextEviction, FiniteSetTheorems, SequenceTheorems, WellFoundedInduction,
        TLAPS

-----------------------------------------------------------------------------
(* Sequences of messages *)

\* What of a sequence is in front of a cut, and behind it.
LEMMA InFront ==
    ASSUME NEW S, NEW s \in Seq(S), NEW n \in 0..Len(s)
    PROVE  /\ SubSeq(s, 1, n) \in Seq(S) /\ Len(SubSeq(s, 1, n)) = n
           /\ \A i \in 1..n : SubSeq(s, 1, n)[i] = s[i]
  OBVIOUS

LEMMA Behind ==
    ASSUME NEW S, NEW s \in Seq(S), NEW k \in 0..Len(s)
    PROVE  /\ SubSeq(s, k + 1, Len(s)) \in Seq(S)
           /\ Len(SubSeq(s, k + 1, Len(s))) = Len(s) - k
           /\ \A i \in 1..(Len(s) - k) : SubSeq(s, k + 1, Len(s))[i] = s[i + k]
  OBVIOUS

\* One sequence behind another.
LEMMA Joined ==
    ASSUME NEW S, NEW a \in Seq(S), NEW b \in Seq(S)
    PROVE  /\ a \o b \in Seq(S) /\ Len(a \o b) = Len(a) + Len(b)
           /\ \A i \in 1..Len(a) : (a \o b)[i] = a[i]
           /\ \A i \in 1..Len(b) : (a \o b)[Len(a) + i] = b[i]
  OBVIOUS

\* Messages that belong to no round are paired.
LEMMA PlainPaired ==
    ASSUME NEW s \in Seq(Message),
           \A i \in 1..Len(s) : s[i].role \notin {"calls", "results"}
    PROVE  Paired(s)
  BY DEF Paired

LEMMA OneMessage ==
    ASSUME NEW role \in Roles, NEW t \in {0} \cup Turns
    PROVE  /\ Msg(role, t) \in Message /\ <<Msg(role, t)>> \in Seq(Message)
           /\ role \notin {"calls", "results"} => Paired(<<Msg(role, t)>>)
  BY DEF Msg, Message, Paired

\* Neither of two paired histories ends or begins within a round.
LEMMA JoinPaired ==
    ASSUME NEW a \in Seq(Message), NEW b \in Seq(Message), Paired(a), Paired(b)
    PROVE  Paired(a \o b)
<1> PICK m \in Nat : m = Len(a)
  OBVIOUS
<1> PICK n \in Nat : n = Len(b)
  OBVIOUS
<1> DEFINE h == a \o b
<1>1. /\ Len(h) = m + n
      /\ \A i \in 1..m : h[i] = a[i]
      /\ \A i \in 1..n : h[m + i] = b[i]
  BY Joined
<1> HIDE DEF h
<1>2. ASSUME NEW i \in 1..(m + n), h[i].role = "calls"
      PROVE  i < m + n /\ h[i + 1] = Msg("results", h[i].turn)
  <2>1. CASE i \in 1..m
    <3>1. i < m /\ a[i + 1] = Msg("results", a[i].turn)
      BY <1>1, <1>2, <2>1 DEF Paired
    <3> QED BY <1>1, <2>1, <3>1
  <2>2. CASE i \notin 1..m
    <3>0. i - m \in 1..n /\ i = m + (i - m)
      BY <2>2
    <3>1. i - m \in 1..n /\ i = m + (i - m) /\ h[i] = b[i - m]
      BY <1>1, <3>0
    <3>2. i - m < n /\ b[(i - m) + 1] = Msg("results", b[i - m].turn)
      BY <1>2, <3>1 DEF Paired
    <3>3. (i - m) + 1 \in 1..n /\ i + 1 = m + ((i - m) + 1)
      BY <3>1, <3>2
    <3>4. h[m + ((i - m) + 1)] = b[(i - m) + 1]
      BY <1>1, <3>3
    <3> QED BY <3>1, <3>2, <3>3, <3>4
  <2> QED BY <2>1, <2>2
<1>3. ASSUME NEW i \in 1..(m + n), h[i].role = "results"
      PROVE  1 < i /\ h[i - 1] = Msg("calls", h[i].turn)
  <2>1. CASE i \in 1..m
    <3>1. 1 < i /\ a[i - 1] = Msg("calls", a[i].turn)
      BY <1>1, <1>3, <2>1 DEF Paired
    <3> QED BY <1>1, <2>1, <3>1
  <2>2. CASE i \notin 1..m
    <3>0. i - m \in 1..n /\ i = m + (i - m)
      BY <2>2
    <3>1. i - m \in 1..n /\ i = m + (i - m) /\ h[i] = b[i - m]
      BY <1>1, <3>0
    <3>2. 1 < i - m /\ b[(i - m) - 1] = Msg("calls", b[i - m].turn)
      BY <1>3, <3>1 DEF Paired
    <3>3. (i - m) - 1 \in 1..n /\ i - 1 = m + ((i - m) - 1)
      BY <3>1, <3>2
    <3>4. h[m + ((i - m) - 1)] = b[(i - m) - 1]
      BY <1>1, <3>3
    <3> QED BY <3>1, <3>2, <3>3, <3>4
  <2> QED BY <2>1, <2>2
<1> QED BY <1>1, <1>2, <1>3 DEF Paired, h

\* A history cut in front of anything but results.
LEMMA RestPaired ==
    ASSUME NEW s \in Seq(Message), Paired(s), NEW k \in 0..Len(s),
           k > 0 /\ k < Len(s) => s[k + 1].role # "results"
    PROVE  Paired(SubSeq(s, k + 1, Len(s)))
<1> PICK m \in Nat : m = Len(s)
  OBVIOUS
<1> DEFINE h == SubSeq(s, k + 1, m)
<1>1. /\ k \in Nat /\ Len(h) = m - k
      /\ \A i \in 1..(m - k) : h[i] = s[i + k] /\ i + k \in 1..m
  BY Behind
<1> HIDE DEF h
<1>2. ASSUME NEW i \in 1..(m - k), h[i].role = "calls"
      PROVE  i < m - k /\ h[i + 1] = Msg("results", h[i].turn)
  <2>1. h[i] = s[i + k] /\ i + k \in 1..m
    BY <1>1
  <2>2. i + k < m /\ s[(i + k) + 1] = Msg("results", s[i + k].turn)
    BY <1>2, <2>1 DEF Paired
  <2>3. i + 1 \in 1..(m - k) /\ (i + 1) + k = (i + k) + 1
    BY <1>1, <2>2
  <2>4. h[i + 1] = s[(i + 1) + k]
    BY <1>1, <2>3
  <2> QED BY <1>1, <2>1, <2>2, <2>3, <2>4
<1>3. ASSUME NEW i \in 1..(m - k), h[i].role = "results"
      PROVE  1 < i /\ h[i - 1] = Msg("calls", h[i].turn)
  <2>1. h[i] = s[i + k] /\ i + k \in 1..m
    BY <1>1
  <2>2. 1 < i + k /\ s[(i + k) - 1] = Msg("calls", s[i + k].turn)
    BY <1>3, <2>1 DEF Paired
  <2>3. i # 1
    <3> SUFFICES ASSUME i = 1 PROVE FALSE
      OBVIOUS
    <3>1. k > 0 /\ k < m /\ i + k = k + 1
      BY <1>1, <2>1, <2>2
    <3> QED BY <1>3, <2>1, <3>1
  <2>0. k \in Nat /\ i \in Nat /\ 1 <= i /\ i <= m - k
    BY <1>1
  <2>4. i - 1 \in 1..(m - k) /\ (i - 1) + k = (i + k) - 1
    BY <2>0, <2>3
  <2>5. h[i - 1] = s[(i - 1) + k]
    BY <1>1, <2>4
  <2> QED BY <2>1, <2>2, <2>3, <2>4, <2>5
<1> QED BY <1>1, <1>2, <1>3 DEF Paired, h

\* The messages of a turn.
LEMMA TurnPaired ==
    ASSUME NEW t \in Turns, NEW r \in Nat, NEW e \in Endings
    PROVE  TurnMessages(t, r, e) \in Seq(Message) /\ Paired(TurnMessages(t, r, e))
<1> DEFINE rounds == [i \in 1..(2 * r) |-> Msg(IF i % 2 = 1 THEN "calls" ELSE "results", t)]
           end == [i \in 1..Len(e) |-> Msg(e[i], t)]
<1>1. rounds \in Seq(Message) /\ Len(rounds) = 2 * r
  <2>1. \A i \in 1..(2 * r) : Msg(IF i % 2 = 1 THEN "calls" ELSE "results", t) \in Message
    BY DEF Msg, Message, Roles
  <2> QED BY <2>1
<1>2. Paired(rounds)
  <2>1. ASSUME NEW i \in 1..(2 * r), rounds[i].role = "calls"
        PROVE  i < 2 * r /\ rounds[i + 1] = Msg("results", rounds[i].turn)
    <3>1. i % 2 = 1 /\ rounds[i].turn = t
      BY <2>1 DEF Msg
    <3>2. i < 2 * r /\ (i + 1) % 2 = 0
      BY <3>1
    <3> QED BY <3>1, <3>2
  <2>2. ASSUME NEW i \in 1..(2 * r), rounds[i].role = "results"
        PROVE  1 < i /\ rounds[i - 1] = Msg("calls", rounds[i].turn)
    <3>1. i % 2 # 1 /\ rounds[i].turn = t
      BY <2>2 DEF Msg
    <3>2. 1 < i /\ (i - 1) % 2 = 1 /\ i - 1 \in 1..(2 * r)
      BY <3>1
    <3> QED BY <3>1, <3>2
  <2> QED BY <1>1, <2>1, <2>2 DEF Paired
<1>3. end \in Seq(Message) /\ Paired(end)
  <2>1. CASE e = <<>>
    <3>1. Len(e) = 0
      BY <2>1
    <3>2. end = <<>>
      BY <3>1
    <3> QED BY <3>2 DEF Paired
  <2>2. ASSUME NEW role \in {"assistant", "cutoff"}, e = <<role>> PROVE end \in Seq(Message) /\ Paired(end)
    <3>1. Len(e) = 1 /\ e[1] = role
      BY <2>2
    <3>2. end = <<Msg(role, t)>>
      BY <3>1
    <3> QED BY <3>2, OneMessage DEF Roles
  <2> QED BY <2>1, <2>2 DEF Endings
<1>4. TurnMessages(t, r, e) = rounds \o end
  BY DEF TurnMessages
<1> HIDE DEF rounds, end
<1> QED BY <1>1, <1>2, <1>3, <1>4, Joined, JoinPaired

\* What may stand for what was cut.
LEMMA StandsPaired ==
    ASSUME NEW n, NEW c, NEW s \in Stands(n, c)
    PROVE  s \in Seq(Message) /\ Paired(s)
<1>1. <<>> \in Seq(Message) /\ Paired(<<>>)
  BY DEF Paired
<1>2. <<Msg("summary", 0)>> \in Seq(Message) /\ Paired(<<Msg("summary", 0)>>)
  BY OneMessage DEF Roles
<1> QED BY <1>1, <1>2 DEF Stands

\* What a strategy makes of a history: paired, and with the same end.
LEMMA CutPaired ==
    ASSUME NEW h \in Seq(Message), Paired(h), NEW n \in 0..Len(h), NEW c \in 0..Len(h),
           MayCut(h, n, c), NEW s \in Seq(Message), Paired(s),
           NEW r, r = SubSeq(h, 1, n) \o s \o SubSeq(h, c + 1, Len(h))
    PROVE  /\ r \in Seq(Message) /\ Paired(r)
           /\ n < Len(h) => r # <<>> /\ r[Len(r)] = h[Len(h)]
<1> PICK m \in Nat : m = Len(h)
  OBVIOUS
<1> DEFINE lead == SubSeq(h, 1, n)
           rest == SubSeq(h, c + 1, m)
<1>1. lead \in Seq(Message) /\ Paired(lead)
  <2>1. lead \in Seq(Message) /\ Len(lead) = n /\ \A i \in 1..n : lead[i] = h[i]
    BY InFront
  <2>2. \A i \in 1..n : h[i].role \notin {"calls", "results"}
    BY DEF MayCut, Leading, IsSystem
  <2> QED BY <2>1, <2>2, PlainPaired
<1>2. s \in Seq(Message) /\ Paired(s)
  OBVIOUS
<1>3. /\ rest \in Seq(Message) /\ Len(rest) = m - c
      /\ \A i \in 1..(m - c) : rest[i] = h[i + c]
  BY Behind
<1>4. Paired(rest)
  <2>1. c > 0 /\ c < m => h[c + 1].role # "results"
    <3>1. CASE n < c
      BY <3>1 DEF MayCut
    <3>2. CASE n = c
      <4>1. c > 0 => h[c].role \notin {"calls", "results"} /\ c \in 1..m
        BY <3>2 DEF MayCut, Leading, IsSystem
      <4>2. \A i \in 1..m : h[i].role = "results" => h[i - 1].role = "calls"
        <5>1. \A u : Msg("calls", u).role = "calls"
          BY DEF Msg
        <5> QED BY <5>1 DEF Paired
      <4>3. c < m => c + 1 \in 1..m /\ (c + 1) - 1 = c
        OBVIOUS
      <4> QED BY <4>1, <4>2, <4>3
    <3>3. n <= c
      BY DEF MayCut
    <3> QED BY <3>1, <3>2, <3>3
  <2> QED BY <2>1, RestPaired
<1> DEFINE most == lead \o s
<1>5. r = most \o rest
  OBVIOUS
<1> HIDE DEF lead, rest, most
<1>6. most \in Seq(Message) /\ Paired(most)
  BY <1>1, <1>2, Joined, JoinPaired DEF most
<1>7. r \in Seq(Message) /\ Paired(r)
  BY <1>3, <1>4, <1>5, <1>6, Joined, JoinPaired
<1>8. n < m => r # <<>> /\ r[Len(r)] = h[m]
  <2> SUFFICES ASSUME n < m PROVE r # <<>> /\ r[Len(r)] = h[m]
    OBVIOUS
  <2>1. c < m
    BY DEF MayCut
  <2>2. m - c \in 1..(m - c) /\ rest[m - c] = h[m]
    <3>1. m - c \in 1..(m - c) /\ (m - c) + c = m
      BY <2>1
    <3> QED BY <1>3, <3>1
  <2> PICK l \in Nat : l = Len(most)
    BY <1>6
  <2>3. Len(r) = l + (m - c) /\ r[l + (m - c)] = rest[m - c]
    <3>1. Len(most \o rest) = l + (m - c)
      BY <1>3, <1>6, Joined
    <3>2. (most \o rest)[l + (m - c)] = rest[m - c]
      BY SMTT(30), <1>3, <1>6, <2>2, Joined
    <3> QED BY <1>5, <3>1, <3>2
  <2>4. Len(r) # 0
    <3>1. l + (m - c) # 0
      BY <2>1
    <3> QED BY <2>3, <3>1
  <2> QED BY <2>2, <2>3, <2>4
<1> QED BY <1>7, <1>8

-----------------------------------------------------------------------------
(* The steps *)

LEMMA InitInv == ASSUME SessionAssumption, Init PROVE SessionInv
  BY DEF SessionAssumption, Init, InitWith, SessionInv, TypeOK, PairsTogether,
         EndsWithRequest, Paired, Turns

\* A turn's request.
LEMMA BeginKeeps ==
    ASSUME SessionAssumption, SessionInv, NEW t \in Turns, NEW m \in {"send", "stream"},
           Begin(t, m)
    PROVE  SessionInv'
<1> PICK n \in Nat : n = Len(history)
  BY DEF SessionInv, TypeOK
<1>1. Msg("user", t) \in Message /\ <<Msg("user", t)>> \in Seq(Message)
      /\ Paired(<<Msg("user", t)>>)
  BY OneMessage DEF Roles
<1>2. /\ history \in Seq(Message) /\ Paired(history)
      /\ history' = Append(history, Msg("user", t))
      /\ managed' = [managed EXCEPT ![t] = history']
      /\ pc' = [pc EXCEPT ![t] = "managing"]
      /\ mode' = [mode EXCEPT ![t] = m] /\ ops' = ops + 1
      /\ ops < MaxOps /\ UNCHANGED <<overlap, turns>>
  BY DEF Begin, Goes, MayBegin, SessionInv, TypeOK, PairsTogether
<1>3. history' = history \o <<Msg("user", t)>>
  BY <1>1, <1>2
<1>4. history' \in Seq(Message) /\ Paired(history')
  BY <1>1, <1>2, <1>3, Joined, JoinPaired
<1>5. history' # <<>> /\ history'[Len(history')] = Msg("user", t)
  <2>1. Len(history') = n + 1 /\ history'[n + 1] = Msg("user", t)
    BY <1>1, <1>2
  <2> QED BY <2>1
<1>6. TypeOK'
  BY <1>2, <1>4 DEF SessionInv, TypeOK, SessionAssumption
<1>7. /\ \A u \in Turns : u # t => managed'[u] = managed[u] /\ pc'[u] = pc[u]
      /\ managed'[t] = history' /\ pc'[t] = "managing"
  BY <1>2 DEF SessionInv, TypeOK
<1>8. PairsTogether'
  <2>1. \A u \in Turns : Paired(managed'[u])
    BY <1>4, <1>7 DEF SessionInv, PairsTogether
  <2> QED BY <1>4, <2>1 DEF PairsTogether, Paired
<1>9. EndsWithRequest'
  BY <1>5, <1>7 DEF SessionInv, EndsWithRequest
<1> QED BY <1>6, <1>8, <1>9 DEF SessionInv

\* A history that is cut.
LEMMA ManageKeeps ==
    ASSUME SessionAssumption, SessionInv, NEW t \in Turns, ManageReturns(t)
    PROVE  SessionInv'
<1> DEFINE h == managed[t]
<1>1. /\ h \in Seq(Message) /\ Paired(h) /\ history \in Seq(Message) /\ Paired(history)
      /\ h # <<>> /\ h[Len(h)] = Msg("user", t)
      /\ pc[t] = "managing" /\ pc' = [pc EXCEPT ![t] = "calling"]
      /\ UNCHANGED <<overlap, mode, turns, ops>>
  BY DEF ManageReturns, Goes, SessionInv, TypeOK, PairsTogether, EndsWithRequest
<1>2. PICK n \in 0..Len(h), c \in 0..Len(h) :
         /\ MayCut(h, n, c)
         /\ \E s \in Stands(n, c) :
               LET r == SubSeq(h, 1, n) \o s \o SubSeq(h, c + 1, Len(h))
               IN  /\ managed' = [managed EXCEPT ![t] = r]
                   /\ history' = IF mode[t] = "stream" THEN r ELSE history
  BY DEF ManageReturns
<1>3. PICK s \in Stands(n, c) :
         LET r == SubSeq(h, 1, n) \o s \o SubSeq(h, c + 1, Len(h))
         IN  /\ managed' = [managed EXCEPT ![t] = r]
             /\ history' = IF mode[t] = "stream" THEN r ELSE history
  BY <1>2
<1> DEFINE r == SubSeq(h, 1, n) \o s \o SubSeq(h, c + 1, Len(h))
<1>4. n < Len(h)
  <2> PICK l \in Nat : l = Len(h)
    BY <1>1
  <2>1. l # 0
    BY <1>1
  <2>2. n = l => IsSystem(h[l])
    BY <1>2, <2>1 DEF MayCut, Leading
  <2> QED BY <1>1, <2>2 DEF IsSystem, Msg
<1>5. managed' = [managed EXCEPT ![t] = r] /\ history' \in {r, history}
  BY <1>3
<1>6. r = SubSeq(h, 1, n) \o s \o SubSeq(h, c + 1, Len(h))
  OBVIOUS
<1> HIDE DEF r, h
<1>7. r \in Seq(Message) /\ Paired(r) /\ r # <<>> /\ r[Len(r)] = Msg("user", t)
  <2>1. h \in Seq(Message) /\ Paired(h) /\ MayCut(h, n, c) /\ s \in Seq(Message) /\ Paired(s)
    BY <1>1, <1>2, StandsPaired
  <2>2. /\ r \in Seq(Message) /\ Paired(r)
        /\ n < Len(h) => r # <<>> /\ r[Len(r)] = h[Len(h)]
    BY <1>6, <2>1, CutPaired
  <2> QED BY <1>1, <1>4, <2>2
<1>8. history' \in Seq(Message) /\ Paired(history')
  BY <1>1, <1>7, <1>5
<1>9. TypeOK'
  BY <1>1, <1>7, <1>5, <1>8 DEF SessionInv, TypeOK
<1>10. /\ \A u \in Turns : u # t => managed'[u] = managed[u] /\ pc'[u] = pc[u]
      /\ managed'[t] = r
  BY <1>1, <1>5 DEF SessionInv, TypeOK
<1>11. PairsTogether'
  <2>1. \A u \in Turns : Paired(managed'[u])
    BY <1>7, <1>10 DEF SessionInv, PairsTogether
  <2> QED BY <1>8, <2>1 DEF PairsTogether, Paired
<1>12. EndsWithRequest'
  BY <1>7, <1>10 DEF SessionInv, EndsWithRequest
<1> QED BY <1>9, <1>11, <1>12 DEF SessionInv

\* A step that gives up the copy of a turn or leaves it alone, and does to the
\* history what keeps it paired.
LEMMA OthersKeep ==
    ASSUME SessionInv, history' \in Seq(Message), Paired(history'),
           UNCHANGED <<overlap, mode>>, turns' \in Nat, ops' \in 0..MaxOps,
           \/ pc' = pc /\ managed' = managed
           \/ \E t \in Turns, w \in {"draining", "hook", "done", "failed"} :
                 /\ pc' = [pc EXCEPT ![t] = w]
                 /\ managed' \in {managed, [managed EXCEPT ![t] = <<>>]}
    PROVE  SessionInv'
<1>1. Paired(<<>>) /\ <<>> \in Seq(Message)
  BY DEF Paired
<1>2. TypeOK'
  <2>1. CASE pc' = pc /\ managed' = managed
    BY <2>1 DEF SessionInv, TypeOK
  <2>2. ASSUME NEW t \in Turns, NEW w \in {"draining", "hook", "done", "failed"},
               pc' = [pc EXCEPT ![t] = w],
               managed' \in {managed, [managed EXCEPT ![t] = <<>>]}
        PROVE  TypeOK'
    BY ZenonT(40), <1>1, <2>2 DEF SessionInv, TypeOK
  <2> QED BY <2>1, <2>2
<1>3. \A u \in Turns : /\ managed'[u] \in {managed[u], <<>>}
                       /\ pc'[u] \in {"managing", "calling"} =>
                             pc'[u] = pc[u] /\ managed'[u] = managed[u]
  BY DEF SessionInv, TypeOK
<1>4. PairsTogether'
  <2>1. \A u \in Turns : Paired(managed'[u])
    BY <1>1, <1>3 DEF SessionInv, PairsTogether
  <2> QED BY <2>1 DEF PairsTogether, Paired
<1>5. EndsWithRequest'
  BY <1>3 DEF SessionInv, EndsWithRequest
<1> QED BY <1>2, <1>4, <1>5 DEF SessionInv

\* A turn's messages behind a paired history.
LEMMA TurnAdded ==
    ASSUME SessionAssumption, NEW t \in Turns, NEW h \in Seq(Message), Paired(h),
           NEW r \in 0..MaxRounds, NEW e \in Endings
    PROVE  h \o TurnMessages(t, r, e) \in Seq(Message) /\ Paired(h \o TurnMessages(t, r, e))
<1>1. r \in Nat
  BY DEF SessionAssumption
<1>2. TurnMessages(t, r, e) \in Seq(Message) /\ Paired(TurnMessages(t, r, e))
  BY <1>1, TurnPaired
<1> QED BY <1>2, Joined, JoinPaired

\* The leading system message is replaced.
LEMMA FirstReplaced ==
    ASSUME NEW h \in Seq(Message), Paired(h), h # <<>>, IsSystem(h[1])
    PROVE  /\ [h EXCEPT ![1] = Msg("system", 0)] \in Seq(Message)
           /\ Paired([h EXCEPT ![1] = Msg("system", 0)])
<1> PICK m \in Nat \ {0} : m = Len(h) /\ DOMAIN h = 1..m
  OBVIOUS
<1> DEFINE g == [h EXCEPT ![1] = Msg("system", 0)]
<1>1. Msg("system", 0) \in Message /\ Msg("system", 0).role = "system"
  BY DEF Msg, Message, Roles
<1>2. /\ g \in Seq(Message) /\ Len(g) = m /\ g[1] = Msg("system", 0)
      /\ \A i \in 2..m : g[i] = h[i]
  BY <1>1
<1> HIDE DEF g
<1>3. h[1].role \notin {"calls", "results"}
  BY DEF IsSystem
<1>4. ASSUME NEW i \in 1..m, g[i].role = "calls"
      PROVE  i < m /\ g[i + 1] = Msg("results", g[i].turn)
  <2>1. i \in 2..m /\ g[i] = h[i]
    BY <1>1, <1>2, <1>4
  <2>2. i < m /\ h[i + 1] = Msg("results", h[i].turn)
    BY <1>4, <2>1 DEF Paired
  <2> QED BY <1>2, <2>1, <2>2
<1>5. ASSUME NEW i \in 1..m, g[i].role = "results"
      PROVE  1 < i /\ g[i - 1] = Msg("calls", g[i].turn)
  <2>1. i \in 2..m /\ g[i] = h[i]
    BY <1>1, <1>2, <1>5
  <2>2. 1 < i /\ h[i - 1] = Msg("calls", h[i].turn)
    BY <1>5, <2>1 DEF Paired
  <2>3. i # 2
    BY <1>3, <2>1, <2>2 DEF Msg
  <2>4. i - 1 \in 2..m
    BY <2>1, <2>3
  <2> QED BY <1>2, <2>1, <2>2, <2>4
<1> QED BY <1>2, <1>4, <1>5 DEF Paired, g

LEMMA NextInv ==
    ASSUME SessionAssumption, SessionInv, [Next]_vars
    PROVE  SessionInv'
<1>0. /\ history \in Seq(Message) /\ Paired(history) /\ turns \in Nat /\ ops \in 0..MaxOps
      /\ MaxOps \in Nat /\ \A t \in Turns : managed[t] \in Seq(Message) /\ Paired(managed[t])
  BY DEF SessionInv, TypeOK, PairsTogether, SessionAssumption
<1>1. ASSUME NEW t \in Turns, NEW m \in {"send", "stream"}, Begin(t, m) PROVE SessionInv'
  BY <1>1, BeginKeeps
<1>2. ASSUME NEW t \in Turns, ManageReturns(t) PROVE SessionInv'
  BY <1>2, ManageKeeps
<1>3. ASSUME NEW t \in Turns, Throws(t) PROVE SessionInv'
  BY <1>0, <1>3, OthersKeep DEF Throws, Goes
<1>4. ASSUME NEW t \in Turns, AgentReturns(t) PROVE SessionInv'
  <2>1. history' \in Seq(Message) /\ Paired(history')
    <3>1. PICK r \in 0..MaxRounds, e \in Endings : history' = managed[t] \o TurnMessages(t, r, e)
      BY <1>4 DEF AgentReturns
    <3> QED BY <1>0, <3>1, TurnAdded
  <2>2. /\ pc' = [pc EXCEPT ![t] = "hook"] /\ managed' = [managed EXCEPT ![t] = <<>>]
        /\ turns' = turns + 1 /\ UNCHANGED <<overlap, mode, ops>>
    BY <1>4 DEF AgentReturns, Goes
  <2>3. turns' \in Nat /\ ops' \in 0..MaxOps
    BY <1>0, <2>2
  <2> QED BY <2>1, <2>2, <2>3, OthersKeep
<1>5. ASSUME NEW t \in Turns, StreamOpens(t) PROVE SessionInv'
  BY <1>0, <1>5, OthersKeep DEF StreamOpens, Goes
<1>6. ASSUME NEW t \in Turns, StreamEnds(t) PROVE SessionInv'
  <2>1. history' \in Seq(Message) /\ Paired(history')
    <3>1. PICK r \in 0..MaxRounds, e \in Endings : history' = history \o TurnMessages(t, r, e)
      BY <1>6 DEF StreamEnds
    <3> QED BY <1>0, <3>1, TurnAdded
  <2>2. /\ pc' = [pc EXCEPT ![t] = "hook"] /\ managed' = managed
        /\ turns' = turns + 1 /\ UNCHANGED <<overlap, mode, ops>>
    BY <1>6 DEF StreamEnds, Goes
  <2>3. turns' \in Nat /\ ops' \in 0..MaxOps
    BY <1>0, <2>2
  <2> QED BY <2>1, <2>2, <2>3, OthersKeep
<1>7. ASSUME NEW t \in Turns, HookEnds(t) PROVE SessionInv'
  BY <1>0, <1>7, OthersKeep DEF HookEnds, Goes
<1>8. CASE SetSystem
  <2>1. <<Msg("system", 0)>> \in Seq(Message) /\ Paired(<<Msg("system", 0)>>)
    BY OneMessage DEF Roles
  <2>2. CASE history # <<>> /\ IsSystem(history[1])
    <3>1. history' \in Seq(Message) /\ Paired(history')
      BY <1>0, <1>8, <2>2, FirstReplaced DEF SetSystem
    <3> QED BY <1>0, <1>8, <3>1, OthersKeep DEF SetSystem
  <2>3. CASE ~(history # <<>> /\ IsSystem(history[1]))
    <3>1. history' = <<Msg("system", 0)>> \o history
      BY <1>8, <2>3 DEF SetSystem
    <3>2. history' \in Seq(Message) /\ Paired(history')
      BY <1>0, <2>1, <3>1, Joined, JoinPaired
    <3> QED BY <1>0, <1>8, <3>2, OthersKeep DEF SetSystem
  <2> QED BY <2>2, <2>3
<1>9. CASE AddMessage
  <2>1. PICK role \in {"user", "assistant"} : history' = Append(history, Msg(role, 0))
    BY <1>9 DEF AddMessage
  <2>2. Msg(role, 0) \in Message /\ <<Msg(role, 0)>> \in Seq(Message) /\ Paired(<<Msg(role, 0)>>)
    BY OneMessage DEF Roles
  <2>3. history' = history \o <<Msg(role, 0)>>
    BY <1>0, <2>1, <2>2
  <2>4. history' \in Seq(Message) /\ Paired(history')
    BY <1>0, <2>2, <2>3, Joined, JoinPaired
  <2> QED BY <1>0, <1>9, <2>4, OthersKeep DEF AddMessage
<1>10. CASE UNCHANGED vars
  BY <1>0, <1>10, OthersKeep DEF vars
<1> QED BY <1>1, <1>2, <1>3, <1>4, <1>5, <1>6, <1>7, <1>8, <1>9, <1>10 DEF Next, AllOver

\* In the history and every copy of it, at any time: executed calls are directly
\* followed by their results, and what an agent is given ends with its request.
THEOREM SessionInvariant == Spec => []SessionInv
<1>1. Init => SessionInv
  BY SessionAssumption, InitInv
<1>2. SessionInv /\ [Next]_vars => SessionInv'
  BY SessionAssumption, NextInv
<1> QED BY <1>1, <1>2, PTL DEF Spec

-----------------------------------------------------------------------------
(* The session that is saved and has a memory *)

LEMMA CodingInitInv ==
    ASSUME SessionAssumption, CodingSessionAssumption, CodingInit
    PROVE  CodingInv
<1>1. kind \in Kinds /\ Left[kind] \in 0..MaxOps /\ InitWith(MaxOps - Left[kind])
  BY DEF CodingInit, CodingSessionAssumption
<1>2. MaxOps - Left[kind] \in 0..MaxOps
  BY <1>1 DEF SessionAssumption
<1>3. SessionInv
  BY <1>1, <1>2 DEF InitWith, SessionInv, TypeOK, PairsTogether, EndsWithRequest, Paired
<1> QED BY <1>3 DEF CodingInit, StoreInit, CodingInv, SavedPaired

\* A block of memory behind the leading system messages.
LEMMA BlockPaired ==
    ASSUME NEW h \in Seq(Message), Paired(h), NEW n \in 0..Len(h), Leading(h, n),
           n < Len(h),
           NEW r, r = SubSeq(h, 1, n) \o <<Msg("memory", 0)>> \o SubSeq(h, n + 1, Len(h))
    PROVE  r \in Seq(Message) /\ Paired(r) /\ r # <<>> /\ r[Len(r)] = h[Len(h)]
<1>1. MayCut(h, n, n)
  BY DEF MayCut
<1>2. <<Msg("memory", 0)>> \in Seq(Message) /\ Paired(<<Msg("memory", 0)>>)
  BY OneMessage DEF Roles
<1> QED BY <1>1, <1>2, CutPaired

LEMMA InjectKeeps ==
    ASSUME CodingInv, NEW t \in Turns, Inject(t)
    PROVE  CodingInv'
<1> DEFINE h == managed[t]
<1>1. /\ h \in Seq(Message) /\ Paired(h) /\ history \in Seq(Message) /\ Paired(history)
      /\ h # <<>> /\ h[Len(h)] = Msg("user", t)
  BY DEF Inject, CodingInv, SessionInv, TypeOK, PairsTogether, EndsWithRequest
<1>2. PICK n \in 0..Len(h), has \in {TRUE, FALSE} :
         /\ Leading(h, n)
         /\ managed' = [managed EXCEPT ![t] =
               IF has THEN SubSeq(h, 1, n) \o <<Msg("memory", 0)>> \o SubSeq(h, n + 1, Len(h)) ELSE h]
  <2>1. PICK has : PutBlock(t, has)
    BY DEF Inject
  <2>2. PICK n \in 0..Len(h) :
           /\ Leading(h, n)
           /\ managed' = [managed EXCEPT ![t] =
                 IF has THEN SubSeq(h, 1, n) \o <<Msg("memory", 0)>> \o SubSeq(h, n + 1, Len(h)) ELSE h]
    BY <2>1 DEF PutBlock
  <2>3. CASE has
    BY <2>2, <2>3
  <2>4. CASE ~has
    BY <2>2, <2>4
  <2> QED BY <2>3, <2>4
<1>3. n < Len(h)
  <2> PICK l \in Nat : l = Len(h)
    BY <1>1
  <2>1. l # 0
    BY <1>1
  <2>2. n = l => IsSystem(h[l])
    BY <1>2, <2>1 DEF Leading
  <2> QED BY <1>1, <2>2 DEF IsSystem, Msg
<1>4. PICK r : r = IF has THEN SubSeq(h, 1, n) \o <<Msg("memory", 0)>> \o SubSeq(h, n + 1, Len(h)) ELSE h
  OBVIOUS
<1>5. managed' = [managed EXCEPT ![t] = r]
  BY <1>2, <1>4
<1> HIDE DEF h
<1>6. r \in Seq(Message) /\ Paired(r) /\ r # <<>> /\ r[Len(r)] = Msg("user", t)
  <2>1. CASE has
    <3>1. r = SubSeq(h, 1, n) \o <<Msg("memory", 0)>> \o SubSeq(h, n + 1, Len(h))
      BY <1>4, <2>1
    <3> QED BY <1>1, <1>2, <1>3, <3>1, BlockPaired
  <2>2. CASE ~has
    BY <1>1, <1>4, <2>2
  <2> QED BY <2>1, <2>2
<1>7. UNCHANGED <<overlap, history, pc, mode, turns, ops, file, saving>>
  BY DEF Inject, storeVars
<1>8. /\ \A u \in Turns : u # t => managed'[u] = managed[u]
      /\ managed'[t] = r
  BY <1>5 DEF CodingInv, SessionInv, TypeOK
<1>9. TypeOK'
  BY <1>5, <1>6, <1>7 DEF CodingInv, SessionInv, TypeOK
<1>10. PairsTogether'
  <2>1. \A u \in Turns : Paired(managed'[u])
    BY <1>6, <1>8 DEF CodingInv, SessionInv, PairsTogether
  <2> QED BY <1>1, <1>7, <2>1 DEF PairsTogether, Paired
<1>11. EndsWithRequest'
  BY <1>6, <1>7, <1>8 DEF CodingInv, SessionInv, EndsWithRequest
<1>12. SavedPaired(file)' /\ SavedPaired(saving)'
  BY <1>7 DEF CodingInv, SavedPaired, Paired
<1> QED BY <1>9, <1>10, <1>11, <1>12 DEF CodingInv, SessionInv

\* What is taken from the file, and what goes there.
LEMMA SaveKeeps ==
    ASSUME SessionAssumption, CodingInv, Save
    PROVE  CodingInv'
<1>0. /\ SessionInv /\ history \in Seq(Message) /\ Paired(history) /\ turns \in Nat
      /\ ops \in 0..MaxOps /\ MaxOps \in Nat
  BY DEF CodingInv, SessionInv, TypeOK, PairsTogether, SessionAssumption
<1>1. /\ ops < MaxOps /\ ops' = ops + 1
      /\ UNCHANGED <<overlap, history, pc, mode, managed, turns>>
  BY DEF Save
<1>2. SessionInv'
  <2>1. history' \in Seq(Message) /\ Paired(history') /\ turns' \in Nat /\ ops' \in 0..MaxOps
    BY <1>0, <1>1
  <2> QED BY <1>0, <1>1, <2>1, OthersKeep
<1> DEFINE snapshot == [history |-> history, turns |-> turns, begun |-> Begun]
<1>3. \/ saving' = <<snapshot>> /\ file' = <<>>
      \/ file' = file /\ saving' = saving
  BY DEF Save, Truncate, CannotSave, storeVars
<1>4. SavedPaired(<<>>) /\ SavedPaired(<<snapshot>>)
  BY <1>0 DEF SavedPaired
<1> HIDE DEF snapshot
<1>5. SavedPaired(file') /\ SavedPaired(saving')
  BY <1>3, <1>4 DEF CodingInv
<1> QED BY <1>2, <1>5 DEF CodingInv, SavedPaired, Paired

LEMMA RestartKeeps ==
    ASSUME CodingInv, Restart
    PROVE  CodingInv'
<1>1. /\ managed' = [t \in Turns |-> <<>>] /\ saving' = <<>>
      /\ UNCHANGED <<overlap, mode, ops, file>>
  BY DEF Restart
<1>2. history' \in Seq(Message) /\ Paired(history') /\ turns' \in Nat
  <2>1. CASE file = <<>>
    BY <2>1 DEF Restart, Paired
  <2>2. CASE file # <<>>
    <3>1. history' = file[1].history /\ turns' = file[1].turns
      BY <2>2 DEF Restart
    <3> QED BY <2>2, <3>1 DEF CodingInv, SavedPaired, Paired
  <2> QED BY <2>1, <2>2
<1>3. pc' \in [Turns -> {"idle", "done", "failed", "lost"}]
  BY DEF Restart, Begun, Over, CodingInv, SessionInv, TypeOK
<1>4. Paired(<<>>) /\ <<>> \in Seq(Message)
  BY DEF Paired
<1>5. TypeOK'
  BY <1>1, <1>2, <1>3, <1>4 DEF CodingInv, SessionInv, TypeOK
<1>6. PairsTogether'
  <2>1. \A u \in Turns : Paired(managed'[u])
    BY <1>1, <1>4
  <2> QED BY <1>2, <2>1 DEF PairsTogether, Paired
<1>7. EndsWithRequest'
  BY <1>3 DEF EndsWithRequest
<1>8. SavedPaired(file)' /\ SavedPaired(saving)'
  BY <1>1 DEF CodingInv, SavedPaired, Paired
<1> QED BY <1>5, <1>6, <1>7, <1>8 DEF CodingInv, SessionInv

LEMMA CodingNextInv ==
    ASSUME SessionAssumption, CodingInv, [CodingNext]_allVars
    PROVE  CodingInv'
<1>0. SessionInv
  BY DEF CodingInv
<1>1. ASSUME [Next]_vars, file' = file, saving' = saving PROVE CodingInv'
  <2>1. SessionInv'
    BY <1>0, <1>1, NextInv
  <2> QED BY <1>1, <2>1 DEF CodingInv, SavedPaired, Paired
<1>2. ASSUME NEW t \in Turns,
             TurnGoesOn(t) \/ TurnThrows(t) \/ TurnFinishes(t) \/ HookReturns(t) \/ ToolWrites(t)
      PROVE  CodingInv'
  BY <1>1, <1>2 DEF TurnGoesOn, TurnThrows, TurnFinishes, HookReturns, ToolWrites, storeVars,
                    Next, vars
<1>3. CASE ByHand
  BY <1>1, <1>3 DEF ByHand, storeVars, Next
<1>4. CASE Save
  BY <1>4, SaveKeeps
<1>5. ASSUME NEW t \in Turns, Remember(t) PROVE CodingInv'
  <2>1. CASE Ask(t) BY <1>1, <2>1 DEF Ask, storeVars
  <2>2. CASE Embed(t) BY <1>1, <2>2 DEF Embed, storeVars
  <2> QED BY <1>5, <2>1, <2>2, InjectKeeps DEF Remember
<1>6. CASE SaveReturns
  <2>1. UNCHANGED vars /\ file' \in {saving, <<>>} /\ saving' = <<>>
    BY <1>6 DEF SaveReturns, WriteFile
  <2>2. SessionInv'
    BY <1>0, <2>1, NextInv
  <2>3. SavedPaired(<<>>)
    BY DEF SavedPaired
  <2>4. SavedPaired(file') /\ SavedPaired(saving')
    BY <2>1, <2>3 DEF CodingInv
  <2> QED BY <2>2, <2>4 DEF CodingInv, SavedPaired, Paired
<1>7. CASE Restart
  BY <1>7, RestartKeeps
<1>8. CASE UNCHANGED allVars
  BY <1>1, <1>8 DEF allVars, storeVars
<1> QED BY <1>2, <1>3, <1>4, <1>5, <1>6, <1>7, <1>8 DEF CodingNext, Ends

\* Saved at any time, lost with its process between any two steps and loaded
\* again, with blocks of memory put into its prompts: the session keeps its pairs
\* together, what is saved does, and an agent is given its request.
THEOREM CodingInvariant == CodingSpec => []CodingInv
<1>1. CodingInit => CodingInv
  BY SessionAssumption, CodingSessionAssumption, CodingInitInv
<1>2. CodingInv /\ [CodingNext]_allVars => CodingInv'
  BY SessionAssumption, CodingNextInv
<1> QED BY <1>1, <1>2, PTL DEF CodingSpec

-----------------------------------------------------------------------------
(***************************************************************************)
(* The strategy itself.  What a turn is cut down to is, in the theorems    *)
(* above, any history the contract of manage allows (MayCut); the loops of *)
(* both strategies keep to the pairs in that contract: for every           *)
(* well-formed history of any length, every window, every way to count     *)
(* tokens and every number of kept turns.                                  *)
(***************************************************************************)

\* A prompt made of k system messages and the last messages of a well-formed
\* history, from a clean cut on, is well-formed.
LEMMA CutKeepsPairs ==
    ASSUME NEW h \in Seq(HistoryMessage), WellPaired(h),
           NEW c \in 0..Len(h), Clean(h, c),
           NEW r \in Seq(HistoryMessage), NEW k \in Nat,
           Len(r) = k + Len(h) - c,
           \A i \in 1..k : r[i].role = "system",
           \A i \in (k + 1)..Len(r) : r[i] = h[i - k + c]
    PROVE  WellPaired(r)
<1> DEFINE old(i) == i - k + c
<1>0. Len(h) \in Nat /\ Len(r) \in Nat /\ c \in Nat
  OBVIOUS
<1>1. \A i \in (k + 1)..Len(r) : old(i) \in (c + 1)..Len(h) /\ r[i] = h[old(i)]
  BY <1>0
<1>2. \A i, j \in (k + 1)..Len(r) : Answers(h, old(i), old(j)) => Answers(r, i, j)
  <2> SUFFICES ASSUME NEW i \in (k + 1)..Len(r), NEW j \in (k + 1)..Len(r),
                      Answers(h, old(i), old(j))
               PROVE  Answers(r, i, j)
    OBVIOUS
  <2>1. j < i /\ r[j].role = "assistant" /\ r[i].ids \subseteq r[j].ids
    BY SMTT(30), <1>0, <1>1 DEF Answers
  <2>2. ASSUME NEW m \in (j + 1)..i PROVE IsTool(r[m])
    <3>1. m \in (k + 1)..Len(r) /\ old(m) \in (old(j) + 1)..old(i)
      BY <1>0
    <3> QED BY <1>1, <3>1 DEF Answers
  <2> QED BY <2>1, <2>2 DEF Answers
<1>3. ASSUME NEW i \in 1..Len(r), IsTool(r[i])
      PROVE  r[i].ids # {} /\ \E j \in 1..Len(r) : Answers(r, i, j)
  <2>1. i \in (k + 1)..Len(r)
    BY <1>0, <1>3 DEF IsTool
  <2>2. IsTool(h[old(i)]) /\ old(i) \in (c + 1)..Len(h) /\ r[i] = h[old(i)]
    BY <1>1, <1>3, <2>1
  <2>3. PICK jh \in (c + 1)..Len(h) : Answers(h, old(i), jh)
    BY <2>2 DEF Clean
  <2>4. jh + k - c \in (k + 1)..Len(r) /\ old(jh + k - c) = jh
    BY <1>0
  <2>5. Answers(r, i, jh + k - c)
    BY <1>2, <2>1, <2>3, <2>4
  <2>6. h[old(i)].ids # {}
    BY <1>0, <2>2 DEF WellPaired
  <2>7. jh + k - c \in 1..Len(r) /\ r[i].ids # {}
    BY SMTT(30), <1>0, <2>2, <2>4, <2>6
  <2> QED BY <2>5, <2>7
<1>4. ASSUME NEW j \in 1..Len(r), r[j].role = "assistant", NEW id \in r[j].ids
      PROVE  \E i \in 1..Len(r) : Answers(r, i, j) /\ id \in r[i].ids
  <2>1. j \in (k + 1)..Len(r)
    BY <1>0, <1>4
  <2>2. /\ old(j) \in (c + 1)..Len(h) /\ old(j) \in 1..Len(h)
        /\ h[old(j)].role = "assistant" /\ id \in h[old(j)].ids
    BY <1>0, <1>1, <1>4, <2>1
  <2>3. PICK ih \in 1..Len(h) : Answers(h, ih, old(j)) /\ id \in h[ih].ids
    BY <2>2 DEF WellPaired
  <2>4. old(j) < ih
    BY <2>3 DEF Answers
  <2>5. ih + k - c \in (k + 1)..Len(r) /\ old(ih + k - c) = ih
    BY <1>0, <2>2, <2>4
  <2>6. Answers(r, ih + k - c, j) /\ r[ih + k - c] = h[ih]
    BY <1>1, <1>2, <2>1, <2>3, <2>5
  <2>7. ih + k - c \in 1..Len(r)
    BY <1>0, <2>5
  <2>8. id \in r[ih + k - c].ids
    BY <2>3, <2>6
  <2> QED BY <2>6, <2>7, <2>8
<1> QED BY <1>3, <1>4 DEF WellPaired

\* The two ends of a history.
LEMMA FrontFacts ==
    ASSUME NEW h \in Seq(HistoryMessage), NEW n \in 0..Len(h)
    PROVE  /\ SubSeq(h, 1, n) \in Seq(HistoryMessage)
           /\ Len(SubSeq(h, 1, n)) = n
           /\ \A i \in 1..n : SubSeq(h, 1, n)[i] = h[i]
<1>1. \A i \in 1..n : h[i] \in HistoryMessage
  OBVIOUS
<1> QED BY <1>1, SubSeqProperties

LEMMA BackFacts ==
    ASSUME NEW h \in Seq(HistoryMessage), NEW c \in 0..Len(h)
    PROVE  /\ From(h, c) \in Seq(HistoryMessage)
           /\ Len(From(h, c)) = Len(h) - c
           /\ \A i \in 1..(Len(h) - c) : From(h, c)[i] = h[c + i]
<1>0. Len(h) \in Nat /\ c \in Nat
  OBVIOUS
<1>1. \A i \in (c + 1)..Len(h) : h[i] \in HistoryMessage
  BY <1>0
<1>2. /\ From(h, c) \in Seq(HistoryMessage)
      /\ Len(From(h, c)) = IF c + 1 <= Len(h) THEN Len(h) - (c + 1) + 1 ELSE 0
      /\ \A i \in 1..(Len(h) - (c + 1) + 1) : From(h, c)[i] = h[(c + 1) + i - 1]
  BY <1>0, <1>1, SubSeqProperties DEF From
<1>4. Len(From(h, c)) = Len(h) - c
  BY <1>0, <1>2
<1>5. ASSUME NEW i \in 1..(Len(h) - c) PROVE From(h, c)[i] = h[c + i]
  <2>1. i \in 1..(Len(h) - (c + 1) + 1) /\ (c + 1) + i - 1 = c + i
    BY <1>0
  <2>2. From(h, c)[i] = h[(c + 1) + i - 1]
    BY <1>2, <2>1
  <2> QED BY <2>1, <2>2
<1> QED BY <1>2, <1>4, <1>5

\* System messages, then the history from a clean cut on.
LEMMA JoinKeepsPairs ==
    ASSUME NEW h \in Seq(HistoryMessage), WellPaired(h), NEW c \in 0..Len(h), Clean(h, c),
           NEW f \in Seq(HistoryMessage), \A i \in 1..Len(f) : f[i].role = "system"
    PROVE  f \o From(h, c) \in Seq(HistoryMessage) /\ WellPaired(f \o From(h, c))
<1>1. PICK b \in Seq(HistoryMessage) :
          /\ b = From(h, c) /\ Len(b) = Len(h) - c
          /\ \A i \in 1..(Len(h) - c) : b[i] = h[c + i]
  BY BackFacts
<1>2. PICK r \in Seq(HistoryMessage) :
          /\ r = f \o b /\ Len(r) = Len(f) + Len(b)
          /\ \A i \in 1..(Len(f) + Len(b)) :
                r[i] = IF i <= Len(f) THEN f[i] ELSE b[i - Len(f)]
  <2>1. /\ f \o b \in Seq(HistoryMessage) /\ Len(f \o b) = Len(f) + Len(b)
        /\ \A i \in 1..(Len(f) + Len(b)) :
              (f \o b)[i] = IF i <= Len(f) THEN f[i] ELSE b[i - Len(f)]
    BY ConcatProperties
  <2> QED BY <2>1, Zenon
<1>3. PICK k \in Nat : k = Len(f)
  OBVIOUS
<1>4. Len(h) \in Nat /\ c \in Nat /\ Len(r) = k + Len(h) - c
  BY <1>1, <1>2, <1>3
<1>5. \A i \in 1..k : r[i].role = "system"
  BY <1>1, <1>2, <1>3, <1>4
<1>6. ASSUME NEW i \in (k + 1)..Len(r) PROVE r[i] = h[i - k + c]
  <2>1. i - k \in 1..(Len(h) - c) /\ ~(i <= k) /\ c + (i - k) = i - k + c
    BY <1>3, <1>4
  <2>2. r[i] = b[i - k]
    BY <1>1, <1>2, <1>3, <1>4, <2>1
  <2> QED BY <1>1, <2>1, <2>2
<1>7. WellPaired(r)
  BY <1>3, <1>4, <1>5, <1>6, CutKeepsPairs
<1> QED BY <1>1, <1>2, <1>7

\* The prompts manage puts together, with a summary or an empty one.
LEMMA CutWithSummary ==
    ASSUME NEW h \in Seq(HistoryMessage), WellPaired(h), NEW c \in 0..Len(h), Clean(h, c),
           NEW n \in 0..c, \A i \in 1..n : h[i].role = "system",
           NEW x \in {<<>>, <<Summary>>}
    PROVE  LET r == SubSeq(h, 1, n) \o x \o From(h, c)
           IN  r \in Seq(HistoryMessage) /\ WellPaired(r)
<1>1. x \in Seq(HistoryMessage) /\ \A i \in 1..Len(x) : x[i].role = "system"
  <2>1. Summary \in HistoryMessage /\ Summary.role = "system"
    BY DEF Summary, HistoryMessage
  <2>2. CASE x = <<>>
    BY <2>2
  <2>3. CASE x = <<Summary>>
    BY <2>1, <2>3
  <2> QED BY <2>2, <2>3
<1>2. n \in 0..Len(h)
  OBVIOUS
<1>3. PICK f \in Seq(HistoryMessage) :
          f = SubSeq(h, 1, n) /\ Len(f) = n /\ \A i \in 1..n : f[i] = h[i]
  BY <1>2, FrontFacts
<1>4. PICK g \in Seq(HistoryMessage) :
          /\ g = f \o x /\ Len(g) = Len(f) + Len(x)
          /\ \A i \in 1..(Len(f) + Len(x)) :
                g[i] = IF i <= Len(f) THEN f[i] ELSE x[i - Len(f)]
  <2>1. /\ f \o x \in Seq(HistoryMessage) /\ Len(f \o x) = Len(f) + Len(x)
        /\ \A i \in 1..(Len(f) + Len(x)) :
              (f \o x)[i] = IF i <= Len(f) THEN f[i] ELSE x[i - Len(f)]
    BY <1>1, ConcatProperties
  <2> QED BY <2>1, Zenon
<1>5. \A i \in 1..Len(g) : g[i].role = "system"
  <2> SUFFICES ASSUME NEW i \in 1..Len(g) PROVE g[i].role = "system"
    OBVIOUS
  <2>1. CASE i <= n
    BY <1>3, <1>4, <2>1
  <2>2. CASE ~(i <= n)
    <3>1. i - n \in 1..Len(x) /\ g[i] = x[i - n]
      BY <1>1, <1>3, <1>4, <2>2
    <3> QED BY <1>1, <3>1
  <2> QED BY <2>1, <2>2
<1> QED BY <1>3, <1>4, <1>5, JoinKeepsPairs

\* The same without one.
LEMMA CutPlain ==
    ASSUME NEW h \in Seq(HistoryMessage), WellPaired(h), NEW c \in 0..Len(h), Clean(h, c),
           NEW n \in 0..c, \A i \in 1..n : h[i].role = "system"
    PROVE  Without(h, n, c) \in Seq(HistoryMessage) /\ WellPaired(Without(h, n, c))
<1>1. n \in 0..Len(h)
  OBVIOUS
<1>2. PICK f \in Seq(HistoryMessage) :
          f = SubSeq(h, 1, n) /\ Len(f) = n /\ \A i \in 1..n : f[i] = h[i]
  BY <1>1, FrontFacts
<1> QED BY <1>2, JoinKeepsPairs DEF Without

-----------------------------------------------------------------------------
(* Where the loops cut *)

\* Past a block of system messages, or past everything, the cut is clean.
LEMMA SystemsAreClean ==
    ASSUME NEW h \in Seq(HistoryMessage), WellPaired(h), NEW n \in 0..Len(h),
           \A i \in 1..n : h[i].role = "system"
    PROVE  Clean(h, n)
  BY DEF Clean, WellPaired, Answers

LEMMA EndIsClean == \A h : h \in Seq(HistoryMessage) => Clean(h, Len(h))
  BY DEF Clean

\* A tool message right after an assistant's run of tools answers it.
LEMMA RunAnswersStart ==
    ASSUME NEW h \in Seq(HistoryMessage), WellPaired(h), NEW s \in 1..Len(h),
           h[s].role = "assistant", NEW t \in (s + 1)..Len(h),
           \A m \in (s + 1)..t : IsTool(h[m])
    PROVE  Belongs(h, s, t)
<1>1. IsTool(h[t]) /\ t \in 1..Len(h) /\ s \in Nat /\ Len(h) \in Nat
  OBVIOUS
<1>2. PICK j \in 1..Len(h) : Answers(h, t, j)
  BY <1>1 DEF WellPaired
<1>3. h[t].ids # {}
  BY <1>1 DEF WellPaired
<1>4. j = s
  <2>1. ~(j < s)
    BY <1>1, <1>2 DEF Answers, IsTool
  <2>2. ~(j > s)
    BY <1>1, <1>2 DEF Answers, IsTool
  <2> QED BY <1>1, <2>1, <2>2
<1> QED BY <1>1, <1>2, <1>3, <1>4 DEF Answers, Belongs

\* A unit that starts at a clean cut ends at one.
LEMMA UnitIsClean ==
    ASSUME NEW h \in Seq(HistoryMessage), WellPaired(h), NEW n \in 0..(Len(h) - 1),
           Clean(h, n), NEW e, UnitEnd(h, n + 1, e)
    PROVE  e \in (n + 1)..Len(h) /\ Clean(h, e)
<1>0. n \in Nat /\ Len(h) \in Nat /\ e \in (n + 1)..Len(h)
  BY DEF UnitEnd
<1> SUFFICES ASSUME NEW i \in (e + 1)..Len(h), IsTool(h[i])
             PROVE  \E j \in (e + 1)..Len(h) : Answers(h, i, j)
  BY <1>0 DEF Clean
<1>1. PICK j \in (n + 1)..Len(h) : Answers(h, i, j)
  BY <1>0 DEF Clean
<1>2. CASE j > e
  BY <1>0, <1>1, <1>2
<1>3. CASE j <= e
  <2>1. j = n + 1
    BY <1>0, <1>1, <1>3 DEF UnitEnd, Belongs, Answers, IsTool
  <2>2. /\ h[n + 1].role = "assistant" /\ n + 1 \in 1..Len(h)
        /\ e + 1 \in ((n + 1) + 1)..Len(h)
        /\ \A m \in ((n + 1) + 1)..(e + 1) : IsTool(h[m])
    BY <1>0, <1>1, <2>1 DEF Answers
  <2>3. Belongs(h, n + 1, e + 1)
    BY <2>2, RunAnswersStart
  <2>4. e < Len(h)
    BY <1>0
  <2> QED BY <2>2, <2>3, <2>4 DEF UnitEnd
<1> QED BY <1>0, <1>2, <1>3

\* A message that is no tool's can be put behind a clean cut.
LEMMA OneBackIsClean ==
    ASSUME NEW h \in Seq(HistoryMessage), NEW c \in 1..Len(h), Clean(h, c), ~IsTool(h[c])
    PROVE  Clean(h, c - 1)
<1> SUFFICES ASSUME NEW i \in c..Len(h), IsTool(h[i])
             PROVE  \E j \in c..Len(h) : Answers(h, i, j)
  BY DEF Clean
<1>1. i \in (c + 1)..Len(h)
  <2>1. i # c
    OBVIOUS
  <2> QED BY <2>1
<1> QED BY <1>1 DEF Clean

\* Walking back over one unit leads from a clean cut to a clean cut.
LEMMA WalkIsClean ==
    ASSUME EvictionInv, WalkBack
    PROVE  cut' \in system..Len(given) /\ Clean(given, cut')
<1> DEFINE h == given
<1>0. /\ h \in Seq(HistoryMessage) /\ WellPaired(h) /\ Clean(h, cut) /\ Len(h) \in Nat
      /\ system \in Nat /\ cut \in (system + 1)..Len(h)
      /\ \A i \in 1..system : h[i].role = "system"
  BY DEF EvictionInv, WalkBack
<1>1. CASE ~IsTool(h[cut])
  <2>1. cut' = cut - 1
    BY <1>1 DEF WalkBack
  <2>2. cut \in 1..Len(h) /\ cut - 1 \in system..Len(h)
    BY <1>0
  <2>3. Clean(h, cut - 1)
    BY <1>0, <1>1, <2>2, OneBackIsClean
  <2> QED BY <2>1, <2>2, <2>3
<1>2. CASE IsTool(h[cut])
  <2>1. PICK u \in system..(cut - 1) :
            /\ \A j \in (u + 1)..cut : IsTool(h[j])
            /\ u > system => ~IsTool(h[u])
            /\ cut' = IF u > system THEN u - 1 ELSE u
    BY <1>2 DEF WalkBack
  <2>2. /\ u \in Nat /\ cut' \in system..Len(h)
        /\ u > system => cut' = u - 1
        /\ ~(u > system) => cut' = u /\ u = system
    BY <1>0, <2>1
  <2> SUFFICES ASSUME NEW i \in (cut' + 1)..Len(h), IsTool(h[i])
               PROVE  \E j \in (cut' + 1)..Len(h) : Answers(h, i, j)
    BY <2>2 DEF Clean
  <2>3. CASE i > cut
    <3>1. PICK j \in (cut + 1)..Len(h) : Answers(h, i, j)
      BY <1>0, <2>2, <2>3 DEF Clean
    <3>2. j \in (cut' + 1)..Len(h)
      BY <1>0, <2>1, <2>2
    <3> QED BY <3>1, <3>2
  <2>4. CASE i <= cut
    <3>1. i \in (u + 1)..cut /\ i \in 1..Len(h)
      BY <1>0, <2>1, <2>2, <2>4
    <3>2. PICK j \in 1..Len(h) : Answers(h, i, j)
      BY <1>0, <3>1 DEF WellPaired
    <3>3. j <= u
      BY <1>0, <2>1, <3>1, <3>2 DEF Answers, IsTool
    <3>4. CASE u > system
      <4>1. ~(j < u)
        BY <1>0, <2>1, <3>1, <3>2, <3>4 DEF Answers
      <4> QED BY <1>0, <2>2, <3>2, <3>3, <3>4, <4>1
    <3>5. CASE ~(u > system)
      BY <1>0, <2>2, <3>2, <3>3, <3>5 DEF Answers
    <3> QED BY <3>4, <3>5
  <2>5. i \in Int
    BY <1>0, <2>2
  <2> QED BY <1>0, <2>3, <2>4, <2>5
<1> QED BY <1>1, <1>2

-----------------------------------------------------------------------------
(* The invariant *)

LEMMA ManageInitInv == ManageInit => EvictionInv
  BY EvictionAssumption DEF ManageInit, EvictionInv

\* The prompts a compaction puts together.
LEMMA BuildInv ==
    ASSUME EvictionInv, NothingEvicted \/ NoSummarizer \/ SummarizerReturns
    PROVE  EvictionInv'
<1>1. /\ at = "cut" /\ at' \in {"fit", "done"}
      /\ UNCHANGED <<strategy, given, available, system, cut, turnsKept>>
  BY DEF NothingEvicted, NoSummarizer, SummarizerReturns
<1>2. /\ given \in Seq(HistoryMessage) /\ WellPaired(given) /\ Clean(given, cut)
      /\ cut \in 0..Len(given) /\ system \in 0..cut
      /\ \A i \in 1..system : given[i].role = "system"
  BY <1>1 DEF EvictionInv
<1>3. result' \in Seq(HistoryMessage) /\ WellPaired(result')
  <2>1. CASE NothingEvicted \/ NoSummarizer
    BY <1>2, <2>1, CutPlain DEF NothingEvicted, NoSummarizer
  <2>2. CASE SummarizerReturns
    <3>1. PICK x \in {<<>>, <<Summary>>} :
              result' = SubSeq(given, 1, system) \o x \o From(given, cut)
      BY <2>2 DEF SummarizerReturns
    <3> QED BY <1>2, <3>1, CutWithSummary
  <2> QED BY <2>1, <2>2
<1> QED BY <1>1, <1>3 DEF EvictionInv

LEMMA EvictUnitInv == ASSUME EvictionInv, EvictUnit PROVE EvictionInv'
<1>1. PICK e \in 1..Len(result) : Evicts(e) /\ result' = Without(result, system, e)
  BY DEF EvictUnit
<1>2. /\ at = "evict" /\ UNCHANGED <<strategy, given, available, at, system, cut, turnsKept>>
      /\ result \in Seq(HistoryMessage) /\ WellPaired(result) /\ system \in Nat
      /\ Len(result) \in Nat
      /\ system <= Len(result) /\ \A i \in 1..system : result[i].role = "system"
  BY DEF EvictUnit, EvictionInv
<1>3. UnitEnd(result, system + 1, e) /\ system \in 0..(Len(result) - 1)
  BY <1>1, <1>2 DEF Evicts, UnitEnd
<1>4. Clean(result, system)
  BY <1>2, SystemsAreClean
<1>5. e \in (system + 1)..Len(result) /\ Clean(result, e)
  BY <1>2, <1>3, <1>4, UnitIsClean
<1>6. result' \in Seq(HistoryMessage) /\ WellPaired(result')
  BY <1>1, <1>2, <1>5, CutPlain
<1>7. /\ system <= Len(result')
      /\ \A i \in 1..system : result'[i].role = "system"
  <2>1. PICK f \in Seq(HistoryMessage) : /\ f = SubSeq(result, 1, system) /\ Len(f) = system
                                  /\ \A i \in 1..system : f[i] = result[i]
    <3>1. system \in 0..Len(result)
      BY <1>2
    <3> QED BY <1>2, <3>1, FrontFacts
  <2>2. PICK b \in Seq(HistoryMessage) : b = From(result, e)
    BY <1>2, <1>5, BackFacts
  <2>3. /\ Len(f \o b) = Len(f) + Len(b)
        /\ \A i \in 1..Len(f) : (f \o b)[i] = f[i]
    BY ConcatProperties
  <2>4. result' = f \o b
    BY <1>1, <2>1, <2>2 DEF Without
  <2>5. Len(b) \in Nat
    OBVIOUS
  <2>6. Len(result') = system + Len(b)
    BY <2>1, <2>3, <2>4
  <2>7. \A i \in 1..system : result'[i] = result[i]
    BY <2>1, <2>3, <2>4
  <2> QED BY <1>2, <2>5, <2>6, <2>7
<1> QED BY <1>2, <1>6, <1>7 DEF EvictionInv

LEMMA ManageNextInv == EvictionInv /\ [ManageNext]_manageVars => EvictionInv'
<1> SUFFICES ASSUME EvictionInv, [ManageNext]_manageVars PROVE EvictionInv'
  OBVIOUS
<1>1. CASE Slide
  BY <1>1 DEF Slide, EvictionInv
<1>2. CASE Summarize
  BY <1>2, EndIsClean DEF Summarize, EvictionInv, SystemBlock
<1>3. CASE WalkBack
  <2>1. cut' \in system..Len(given) /\ Clean(given, cut')
    BY <1>3, WalkIsClean
  <2> QED BY <1>3, <2>1 DEF WalkBack, EvictionInv
<1>4. CASE DropExtra
  <2>1. PICK e \in 1..Len(given) : DropsExtra(e) /\ cut' = e
    BY <1>4 DEF DropExtra
  <2>2. /\ at = "extra" /\ cut \in 0..(Len(given) - 1) /\ Clean(given, cut)
        /\ UnitEnd(given, cut + 1, e)
    BY <1>4, <2>1 DEF DropExtra, DropsExtra, EvictionInv
  <2>3. e \in (cut + 1)..Len(given) /\ Clean(given, e)
    BY <2>2, UnitIsClean DEF EvictionInv
  <2> QED BY <1>4, <2>1, <2>2, <2>3 DEF DropExtra, EvictionInv
<1>5. CASE WalkEnds \/ ExtraEnds \/ SummarizerThrows \/ EvictionEnds
  BY <1>5 DEF WalkEnds, ExtraEnds, SummarizerThrows, EvictionEnds, EvictionInv
<1>6. CASE NothingEvicted \/ NoSummarizer \/ SummarizerReturns
  BY <1>6, BuildInv
<1>7. CASE EnterEviction
  BY <1>7 DEF EnterEviction, EvictionInv, SystemBlock
<1>8. CASE EvictUnit
  BY <1>8, EvictUnitInv
<1>9. CASE UNCHANGED manageVars
  BY <1>9 DEF manageVars, EvictionInv
<1> QED BY <1>1, <1>2, <1>3, <1>4, <1>5, <1>6, <1>7, <1>8, <1>9
        DEF ManageNext, Work, Terminated

-----------------------------------------------------------------------------

\* The cut is always at the start of a turn unit.
THEOREM EvictionInvariant == ManageSpec => []EvictionInv
  BY ManageInitInv, ManageNextInv, PTL DEF ManageSpec

\* manage "must never orphan a tool_use from its tool_result".
THEOREM NeverOrphans == ManageSpec => []PairsKept
<1>1. EvictionInv => PairsKept
  BY DEF EvictionInv, PairsKept
<1> QED BY <1>1, EvictionInvariant, PTL

-----------------------------------------------------------------------------

\* The least number principle, with which what holds up to some place in a
\* sequence can be told from what holds behind it.
LEMMA Least == \A T \in SUBSET Nat : T # {} => \E m \in T : \A n \in T : m <= n
<1> SUFFICES ASSUME NEW T \in SUBSET Nat, T # {}
             PROVE  \E m \in T : \A n \in T : m <= n
  OBVIOUS
<1> DEFINE R == OpToRel(<, Nat)
<1>1. \A n, m \in Nat : n < m => <<n, m>> \in R
  BY DEF OpToRel
<1> HIDE DEF R
<1>2. IsWellFoundedOn(R, Nat)
  BY NatLessThanWellFounded DEF R
<1>3. PICK m \in T : \A n \in T : ~(<<n, m>> \in R)
  BY <1>2, WFMin
<1>4. \A n \in T : ~(n < m)
  BY <1>1, <1>3
<1> QED BY <1>4

\* count_leading_system finds one number.
LEMMA BlockExists ==
    ASSUME NEW h \in Seq(HistoryMessage)
    PROVE  \E n \in 0..Len(h) : SystemBlock(h, n)
<1> PICK l \in Nat : l = Len(h)
  OBVIOUS
<1> DEFINE T == {i \in 1..(l + 1) : i = l + 1 \/ h[i].role # "system"}
<1>1. T \in SUBSET Nat /\ l + 1 \in T
  OBVIOUS
<1>2. PICK m \in T : \A i \in T : m <= i
  BY <1>1, Least
<1>3. m - 1 \in 0..l /\ \A i \in 1..(m - 1) : h[i].role = "system"
  BY <1>2
<1>4. m - 1 < l => h[(m - 1) + 1].role # "system"
  BY <1>2
<1> QED BY <1>3, <1>4 DEF SystemBlock

\* It finds no other.
LEMMA BlockUnique ==
    ASSUME NEW h \in Seq(HistoryMessage), NEW m, NEW n, SystemBlock(h, m), SystemBlock(h, n)
    PROVE  m = n
<1>1. m \in Nat /\ n \in Nat /\ m <= Len(h) /\ n <= Len(h) /\ Len(h) \in Nat
  BY DEF SystemBlock
<1>2. ~(m < n)
  <2> SUFFICES ASSUME m < n PROVE FALSE
    OBVIOUS
  <2>1. m + 1 \in 1..n /\ m < Len(h)
    BY <1>1
  <2> QED BY <2>1 DEF SystemBlock
<1>3. ~(n < m)
  <2> SUFFICES ASSUME n < m PROVE FALSE
    OBVIOUS
  <2>1. n + 1 \in 1..m /\ n < Len(h)
    BY <1>1
  <2> QED BY <2>1 DEF SystemBlock
<1> QED BY <1>1, <1>2, <1>3

\* Every message starts a unit.
LEMMA UnitExists ==
    ASSUME NEW h \in Seq(HistoryMessage), NEW i \in 1..Len(h)
    PROVE  \E e \in i..Len(h) : UnitEnd(h, i, e)
<1> PICK l \in Nat : l = Len(h)
  OBVIOUS
<1>0. i \in Nat /\ 1 <= i /\ i <= l
  OBVIOUS
<1>1. CASE h[i].role # "assistant"
  BY <1>0, <1>1 DEF UnitEnd
<1>2. CASE h[i].role = "assistant"
  <2> DEFINE T == {e \in i..l : e = l \/ ~Belongs(h, i, e + 1)}
  <2>1. T \in SUBSET Nat /\ l \in T
    BY <1>0
  <2>2. PICK m \in T : \A e \in T : m <= e
    BY <2>1, Least
  <2>3. m \in i..l
    BY <2>2
  <2>4. ASSUME NEW j \in (i + 1)..m PROVE Belongs(h, i, j)
    <3>1. j - 1 \in i..l /\ j - 1 < m /\ j - 1 # l /\ (j - 1) + 1 = j
      BY <1>0, <2>3
    <3>2. ~(m <= j - 1)
      BY <1>0, <2>3, <3>1
    <3>3. j - 1 \notin T
      BY <2>2, <3>2
    <3> QED BY <3>1, <3>3
  <2>5. m < l => ~Belongs(h, i, m + 1)
    BY <1>0, <2>2, <2>3
  <2> QED BY <1>0, <1>2, <2>3, <2>4, <2>5 DEF UnitEnd
<1> QED BY <1>1, <1>2

\* When no unit can go, what follows the system messages is one unit that
\* takes in the last message.
LEMMA NothingLeftToEvict ==
    ASSUME NEW r \in Seq(HistoryMessage), NEW k \in 0..Len(r),
           \A i \in 1..k : r[i].role = "system",
           \A e \in 1..Len(r) : k < Len(r) - 1 => ~(UnitEnd(r, k + 1, e) /\ e <= Len(r) - 1),
           NEW n \in 0..Len(r), SystemBlock(r, n), n < Len(r)
    PROVE  UnitEnd(r, n + 1, Len(r))
<1> PICK l \in Nat : l = Len(r)
  OBVIOUS
<1>1. k \in Nat /\ n \in Nat /\ k <= l /\ n < l
  OBVIOUS
<1>2. k <= n
  <2> SUFFICES ASSUME n < k PROVE FALSE
    BY <1>1
  <2>1. n + 1 \in 1..k
    BY <1>1
  <2> QED BY <2>1 DEF SystemBlock
<1>3. CASE n = l - 1
  BY <1>1, <1>3 DEF UnitEnd
<1>4. CASE n < l - 1
  <2>0. k + 1 \in 1..l /\ k < l - 1
    BY <1>1, <1>2, <1>4
  <2>1. PICK e \in (k + 1)..l : UnitEnd(r, k + 1, e)
    BY <2>0, UnitExists
  <2>2. e \in 1..l /\ ~(e <= l - 1)
    BY <1>1, <2>0, <2>1
  <2>3. e = l
    BY <1>1, <2>1, <2>2
  <2>4. k = n
    <3> SUFFICES ASSUME k < n PROVE FALSE
      BY <1>1, <1>2
    <3>1. k + 1 \in 1..n
      BY <1>1
    <3>2. r[k + 1].role = "system"
      BY <3>1 DEF SystemBlock
    <3>3. e = k + 1
      BY <2>1, <3>2 DEF UnitEnd
    <3> QED BY <1>1, <2>0, <2>3, <3>3
  <2> QED BY <2>1, <2>3, <2>4
<1>5. l - 1 \in Int
  OBVIOUS
<1> QED BY <1>1, <1>3, <1>4, <1>5

\* What a user gives SummarizationStrategy: a number of turns to keep, and a
\* share of the window; and what a TokenCounter returns.
Sensible == /\ Threshold \in 0..100
            /\ \A h \in Seq(HistoryMessage) : Tokens(h) \in Int

\* A share of a window is no more than it.
LEMMA ShareFits ==
    ASSUME available \in Int, available > 0, NEW p \in 0..100
    PROVE  Share(p) \in Int /\ Share(p) <= available
<1> PICK a \in Nat : a = available
  OBVIOUS
<1> PICK x \in Nat : x = a * p
  OBVIOUS
<1>1. x <= a * 100
  OBVIOUS
<1>2. x \div 100 \in Int /\ x \div 100 <= a
  BY <1>1
<1>3. Share(p) = x \div 100
  BY DEF Share
<1> QED BY <1>2, <1>3

\* The loops leave with a result that fits, or one that nothing can go from.
FitsInv == /\ available \in Int
           /\ at = "evict" => available > 0
           /\ FitsOrCannot

\* Nothing has been returned yet.
LEMMA FitsInit == ManageInit => FitsInv
  BY EvictionAssumption DEF ManageInit, FitsInv, FitsOrCannot

\* Each loop leaves with a result that fits or, at the end of the last,
\* with no unit that could go.
LEMMA FitsNext == Sensible /\ EvictionInv /\ FitsInv /\ [ManageNext]_manageVars => FitsInv'
<1> SUFFICES ASSUME Sensible, EvictionInv, FitsInv, [ManageNext]_manageVars PROVE FitsInv'
  OBVIOUS
<1>0. /\ available \in Int /\ given \in Seq(HistoryMessage) /\ result \in Seq(HistoryMessage)
      /\ Tokens(given) \in Int /\ Tokens(result) \in Int
      /\ EvictionInv'
  BY ManageNextInv DEF FitsInv, EvictionInv, Sensible
<1>1. CASE Slide
  BY <1>0, <1>1 DEF Slide, FitsInv, FitsOrCannot
<1>2. CASE Summarize
  <2>1. available > 0 => Share(Threshold) \in Int /\ Share(Threshold) <= available
    BY <1>0, ShareFits DEF Sensible
  <2> QED BY <1>0, <1>2, <2>1 DEF Summarize, FitsInv, FitsOrCannot
<1>3. CASE WalkBack \/ WalkEnds \/ DropExtra \/ ExtraEnds \/ NoSummarizer \/ SummarizerThrows \/ EvictUnit
  BY <1>0, <1>3 DEF WalkBack, WalkEnds, DropExtra, ExtraEnds, NoSummarizer, SummarizerThrows, EvictUnit,
                    FitsInv, FitsOrCannot
<1>4. CASE NothingEvicted \/ SummarizerReturns
  <2>1. /\ available' = available /\ at' \in {"fit", "done"}
        /\ at' = "done" => ~(Tokens(result') > available)
    BY <1>4 DEF NothingEvicted, SummarizerReturns
  <2> QED BY <1>0, <2>1 DEF FitsInv, FitsOrCannot
<1>5. CASE EnterEviction
  BY <1>0, <1>5 DEF EnterEviction, FitsInv, FitsOrCannot
<1>6. CASE EvictionEnds
  <2>1. /\ at = "evict" /\ UNCHANGED <<available, system, result>> /\ at' = "done"
        /\ ~\E e \in 1..Len(result) : Evicts(e)
    BY <1>6 DEF EvictionEnds
  <2>2. /\ system \in 0..Len(result) /\ \A i \in 1..system : result[i].role = "system"
    BY <2>1 DEF EvictionInv
  <2> SUFFICES ASSUME Tokens(result) > available, NEW n \in 0..Len(result),
                      SystemBlock(result, n), n < Len(result)
               PROVE  UnitEnd(result, n + 1, Len(result))
    BY <1>0, <2>1 DEF FitsInv, FitsOrCannot
  <2>3. ASSUME NEW e \in 1..Len(result), system < Len(result) - 1
        PROVE  ~(UnitEnd(result, system + 1, e) /\ e <= Len(result) - 1)
    <3>1. ProtectedStart = Len(result) - 1
      BY <2>3 DEF ProtectedStart, ProtectedTail
    <3> QED BY <2>1, <2>3, <3>1 DEF Evicts
  <2> QED BY <1>0, <2>2, <2>3, NothingLeftToEvict
<1>7. CASE UNCHANGED manageVars
  BY <1>7 DEF manageVars, FitsInv, FitsOrCannot
<1> QED BY <1>1, <1>2, <1>3, <1>4, <1>5, <1>6, <1>7 DEF ManageNext, Work, Terminated

\* A prompt that manage returns for a window that is open fits in it, or is
\* one that evict_oldest_units can take no further unit from: the loops do
\* not leave early.
THEOREM FitsOrNothingCanGo == ASSUME Sensible PROVE ManageSpec => []FitsOrCannot
<1>1. FitsInv => FitsOrCannot
  BY DEF FitsInv
<1>2. EvictionInv /\ FitsInv /\ [ManageNext]_manageVars => FitsInv'
  BY FitsNext
<1> QED BY <1>1, <1>2, FitsInit, EvictionInvariant, PTL DEF ManageSpec

\* What a session gives to manage: system messages come before all others;
\* and a strategy that keeps at least one turn. With none kept everything
\* behind the block may be summarised, the last message too.
Leads(h) == \A i \in 2..Len(h) : h[i].role = "system" => h[i - 1].role = "system"
Ordinary == KeptTurns > 0 /\ \A h \in Histories : Leads(h)

\* No system message comes after the block.
LEMMA NoneAfterBlock ==
    ASSUME NEW h \in Seq(HistoryMessage), Leads(h), NEW n, SystemBlock(h, n)
    PROVE  \A i \in (n + 1)..Len(h) : h[i].role # "system"
<1> PICK l \in Nat : l = Len(h)
  OBVIOUS
<1>0. n \in Nat /\ n <= l
  BY DEF SystemBlock
<1> SUFFICES ASSUME NEW j \in (n + 1)..l, h[j].role = "system" PROVE FALSE
  OBVIOUS
<1> DEFINE T == {i \in (n + 1)..l : h[i].role = "system"}
<1>1. T \in SUBSET Nat /\ j \in T
  BY <1>0
<1>2. PICK m \in T : \A i \in T : m <= i
  BY <1>1, Least
<1>3. m \in (n + 1)..l /\ h[m].role = "system"
  BY <1>2
<1>4. m # n + 1
  BY <1>0, <1>3 DEF SystemBlock
<1>5. m \in 2..l /\ m - 1 \in (n + 1)..l
  BY <1>0, <1>3, <1>4
<1>6. m - 1 \in T
  BY <1>3, <1>5 DEF Leads
<1>7. m <= m - 1
  BY <1>2, <1>6
<1> QED BY <1>3, <1>7, <1>0

\* The system block of the history, a summary and the messages from a cut on.
EndsOf(r, n, c, s) == /\ n \in 0..Len(given) /\ c \in 0..Len(given) /\ s \in {<<>>, <<Summary>>}
                    /\ SystemBlock(given, n)
                    /\ n <= c /\ (c < Len(given) \/ n = c)
                    /\ r = SubSeq(given, 1, n) \o s \o From(given, c)

\* Such a prompt, place by place.
LEMMA EndsFacts ==
    ASSUME given \in Seq(HistoryMessage), NEW r, NEW n, NEW c, NEW s, EndsOf(r, n, c, s)
    PROVE  /\ r \in Seq(HistoryMessage) /\ Len(s) \in {0, 1}
           /\ Len(r) = n + Len(s) + Len(given) - c
           /\ \A i \in 1..n : r[i] = given[i]
           /\ \A i \in (n + 1)..(n + Len(s)) : r[i] = Summary
           /\ \A i \in (n + Len(s) + 1)..Len(r) : r[i] = given[i - n - Len(s) + c]
<1> PICK l \in Nat : l = Len(given)
  OBVIOUS
<1>0. n \in 0..l /\ c \in 0..l /\ n <= c /\ n \in Nat /\ c \in Nat
  BY DEF EndsOf
<1>1. Summary \in HistoryMessage
  BY DEF Summary, HistoryMessage
<1>2. s \in Seq(HistoryMessage) /\ Len(s) \in {0, 1} /\ (Len(s) = 1 => s[1] = Summary)
  <2>1. CASE s = <<>>
    BY <2>1
  <2>2. CASE s = <<Summary>>
    BY <1>1, <2>2
  <2> QED BY <2>1, <2>2 DEF EndsOf
<1>3. PICK f \in Seq(HistoryMessage) :
          f = SubSeq(given, 1, n) /\ Len(f) = n /\ \A i \in 1..n : f[i] = given[i]
  BY <1>0, FrontFacts
<1>4. PICK b \in Seq(HistoryMessage) :
          b = From(given, c) /\ Len(b) = l - c /\ \A i \in 1..(l - c) : b[i] = given[c + i]
  BY <1>0, BackFacts
<1>5. PICK g \in Seq(HistoryMessage) :
          /\ g = f \o s /\ Len(g) = Len(f) + Len(s)
          /\ \A i \in 1..(Len(f) + Len(s)) :
                g[i] = IF i <= Len(f) THEN f[i] ELSE s[i - Len(f)]
  <2>1. /\ f \o s \in Seq(HistoryMessage) /\ Len(f \o s) = Len(f) + Len(s)
        /\ \A i \in 1..(Len(f) + Len(s)) :
              (f \o s)[i] = IF i <= Len(f) THEN f[i] ELSE s[i - Len(f)]
    BY <1>2, ConcatProperties
  <2> QED BY <2>1, Zenon
<1>6. /\ r = g \o b /\ r \in Seq(HistoryMessage) /\ Len(r) = Len(g) + Len(b)
      /\ \A i \in 1..(Len(g) + Len(b)) : r[i] = IF i <= Len(g) THEN g[i] ELSE b[i - Len(g)]
  <2>1. /\ g \o b \in Seq(HistoryMessage) /\ Len(g \o b) = Len(g) + Len(b)
        /\ \A i \in 1..(Len(g) + Len(b)) :
              (g \o b)[i] = IF i <= Len(g) THEN g[i] ELSE b[i - Len(g)]
    BY ConcatProperties
  <2>2. r = g \o b
    BY <1>3, <1>4, <1>5 DEF EndsOf
  <2> QED BY <2>1, <2>2, Zenon
<1> PICK k \in {0, 1} : k = Len(s)
  BY <1>2
<1>7. Len(f) = n /\ Len(b) = l - c /\ l - c \in Nat /\ n + k \in Nat
  BY <1>0, <1>3, <1>4
<1>8. Len(g) = n + k /\ \A i \in 1..(n + k) : g[i] = IF i <= n THEN f[i] ELSE s[i - n]
  BY <1>5, <1>7
<1>9. /\ Len(r) = (n + k) + (l - c)
      /\ \A i \in 1..((n + k) + (l - c)) : r[i] = IF i <= n + k THEN g[i] ELSE b[i - (n + k)]
  BY <1>6, <1>7, <1>8
<1>10. ASSUME NEW i \in 1..n PROVE r[i] = given[i]
  <2>1. i \in 1..((n + k) + (l - c)) /\ i <= n + k /\ i \in 1..(n + k) /\ i <= n
    BY <1>0, <1>7
  <2>2. r[i] = g[i] /\ g[i] = f[i]
    BY <1>8, <1>9, <2>1
  <2> QED BY <1>3, <2>2
<1>11. ASSUME NEW i \in (n + 1)..(n + k) PROVE r[i] = Summary
  <2>1. k = 1 /\ i = n + 1
    BY <1>0
  <2>2. i \in 1..((n + k) + (l - c)) /\ i <= n + k /\ i \in 1..(n + k) /\ ~(i <= n) /\ i - n = 1
    BY <1>0, <1>7, <2>1
  <2>3. r[i] = g[i] /\ g[i] = s[1]
    BY <1>8, <1>9, <2>2
  <2> QED BY <1>2, <2>1, <2>3
<1>12. ASSUME NEW i \in (n + k + 1)..Len(r) PROVE r[i] = given[i - n - k + c]
  <2>1. /\ i \in 1..((n + k) + (l - c)) /\ ~(i <= n + k)
        /\ i - (n + k) \in 1..(l - c) /\ c + (i - (n + k)) = i - n - k + c
    BY <1>0, <1>7, <1>9
  <2>2. r[i] = b[i - (n + k)]
    BY <1>9, <2>1
  <2>3. b[i - (n + k)] = given[c + (i - (n + k))]
    BY <1>4, <2>1
  <2> QED BY <2>1, <2>2, <2>3
<1>13. Len(r) = n + k + l - c
  BY <1>0, <1>7, <1>9
<1> QED BY <1>2, <1>6, <1>10, <1>11, <1>12, <1>13

\* A prompt of the same places is the same prompt.
LEMMA SamePlaces ==
    ASSUME NEW r \in Seq(HistoryMessage), NEW q \in Seq(HistoryMessage), Len(r) = Len(q),
           \A i \in 1..Len(q) : r[i] = q[i]
    PROVE  r = q
  OBVIOUS

\* A history is its own block and all that comes after it.
LEMMA WholeHasEnds ==
    ASSUME given \in Seq(HistoryMessage), NEW n, SystemBlock(given, n)
    PROVE  EndsOf(given, n, n, <<>>)
<1> PICK l \in Nat : l = Len(given)
  OBVIOUS
<1> DEFINE r == SubSeq(given, 1, n) \o <<>> \o From(given, n)
<1>1. n \in 0..l /\ n \in Nat
  BY DEF SystemBlock
<1>2. EndsOf(r, n, n, <<>>)
  BY <1>1 DEF EndsOf
<1> HIDE DEF r
<1>3. /\ r \in Seq(HistoryMessage) /\ Len(r) = n + Len(<<>>) + l - n /\ Len(<<>>) = 0
      /\ \A i \in 1..n : r[i] = given[i]
      /\ \A i \in (n + Len(<<>>) + 1)..Len(r) : r[i] = given[i - n - Len(<<>>) + n]
  BY <1>2, EndsFacts
<1>4. Len(r) = l
  BY <1>1, <1>3
<1>5. ASSUME NEW i \in 1..l PROVE r[i] = given[i]
  <2>1. CASE i <= n
    BY <1>1, <1>3, <2>1
  <2>2. CASE ~(i <= n)
    <3>1. i \in (n + Len(<<>>) + 1)..Len(r) /\ i - n - Len(<<>>) + n = i
      BY <1>1, <1>3, <1>4, <2>2
    <3> QED BY <1>3, <3>1
  <2> QED BY <2>1, <2>2
<1>6. r = given
  BY <1>3, <1>4, <1>5, SamePlaces
<1> QED BY <1>2, <1>6

\* The block that eviction counts is that of the history, with the summary.
LEMMA BlockAfter ==
    ASSUME given \in Seq(HistoryMessage), Leads(given), NEW r, NEW n, NEW c, NEW s, EndsOf(r, n, c, s),
           NEW m, SystemBlock(r, m)
    PROVE  m = n + Len(s)
<1> PICK l \in Nat : l = Len(given)
  OBVIOUS
<1>0. n \in 0..l /\ c \in 0..l /\ n <= c /\ n \in Nat /\ c \in Nat /\ SystemBlock(given, n)
  BY DEF EndsOf
<1>1. /\ r \in Seq(HistoryMessage) /\ Len(s) \in {0, 1}
      /\ Len(r) = n + Len(s) + l - c
      /\ \A i \in 1..n : r[i] = given[i]
      /\ \A i \in (n + 1)..(n + Len(s)) : r[i] = Summary
      /\ \A i \in (n + Len(s) + 1)..Len(r) : r[i] = given[i - n - Len(s) + c]
  BY EndsFacts
<1> PICK k \in {0, 1} : k = Len(s)
  BY <1>1
<1>2. n + k \in 0..Len(r)
  BY <1>0, <1>1
<1>3. ASSUME NEW i \in 1..(n + k) PROVE r[i].role = "system"
  <2>1. CASE i <= n
    <3>1. i \in 1..n
      BY <1>0, <2>1
    <3>2. \A j \in 1..n : given[j].role = "system"
      BY <1>0 DEF SystemBlock
    <3>3. r[i] = given[i]
      BY <1>1, <3>1
    <3> QED BY <3>1, <3>2, <3>3
  <2>2. CASE ~(i <= n)
    <3>1. i \in (n + 1)..(n + k)
      BY <1>0, <2>2
    <3>2. r[i] = Summary
      BY <1>1, <3>1
    <3> QED BY <3>2 DEF Summary
  <2> QED BY <2>1, <2>2
<1>4. ASSUME n + k < Len(r) PROVE r[n + k + 1].role # "system"
  <2>1. n + k + 1 \in (n + k + 1)..Len(r) /\ (n + k + 1) - n - k + c = c + 1 /\ c + 1 \in (n + 1)..l
    BY <1>0, <1>1, <1>4
  <2>2. r[n + k + 1] = given[c + 1]
    BY <1>1, <2>1
  <2> QED BY <1>0, <2>1, <2>2, NoneAfterBlock
<1>5. SystemBlock(r, n + k)
  BY <1>2, <1>3, <1>4 DEF SystemBlock
<1> QED BY <1>1, <1>5, BlockUnique

\* Evicting a unit behind the block, and not the last message, leaves both ends.
LEMMA EvictKeepsEnds ==
    ASSUME given \in Seq(HistoryMessage), NEW r, NEW n, NEW c, NEW s, EndsOf(r, n, c, s),
           NEW e \in (n + Len(s) + 1)..(Len(r) - 1)
    PROVE  EndsOf(Without(r, n + Len(s), e), n, c + (e - n - Len(s)), s)
<1> PICK l \in Nat : l = Len(given)
  OBVIOUS
<1>0. n \in 0..l /\ c \in 0..l /\ n <= c /\ n \in Nat /\ c \in Nat /\ SystemBlock(given, n)
      /\ s \in {<<>>, <<Summary>>}
  BY DEF EndsOf
<1>1. /\ r \in Seq(HistoryMessage) /\ Len(s) \in {0, 1}
      /\ Len(r) = n + Len(s) + l - c
      /\ \A i \in 1..n : r[i] = given[i]
      /\ \A i \in (n + 1)..(n + Len(s)) : r[i] = Summary
      /\ \A i \in (n + Len(s) + 1)..Len(r) : r[i] = given[i - n - Len(s) + c]
  BY EndsFacts
<1> PICK k \in {0, 1} : k = Len(s)
  BY <1>1
<1> PICK lr \in Nat : lr = Len(r)
  BY <1>1
<1>2. /\ e \in Nat /\ n + k + 1 <= e /\ e <= lr - 1 /\ lr = n + k + l - c
      /\ n + k \in 0..lr /\ e \in 0..lr
  BY <1>0, <1>1
<1>15. c + (e - n - k) \in Nat
  BY <1>0, <1>2
<1> PICK d \in Nat : d = c + (e - n - k)
  BY <1>15
<1>3. d \in 0..l /\ n <= d /\ d < l /\ lr - e = l - d
  BY <1>0, <1>2
<1> DEFINE q == SubSeq(given, 1, n) \o s \o From(given, d)
<1>4. EndsOf(q, n, d, s)
  BY <1>0, <1>3 DEF EndsOf
<1>5. /\ q \in Seq(HistoryMessage) /\ Len(q) = n + k + l - d
      /\ \A i \in 1..n : q[i] = given[i]
      /\ \A i \in (n + 1)..(n + k) : q[i] = Summary
      /\ \A i \in (n + k + 1)..Len(q) : q[i] = given[i - n - k + d]
  <2> HIDE DEF q
  <2>1. /\ q \in Seq(HistoryMessage) /\ Len(q) = n + Len(s) + Len(given) - d
        /\ \A i \in 1..n : q[i] = given[i]
        /\ \A i \in (n + 1)..(n + Len(s)) : q[i] = Summary
        /\ \A i \in (n + Len(s) + 1)..Len(q) : q[i] = given[i - n - Len(s) + d]
    BY <1>4, EndsFacts
  <2> QED BY <2>1
<1> HIDE DEF q
<1>6. PICK f \in Seq(HistoryMessage) :
          f = SubSeq(r, 1, n + k) /\ Len(f) = n + k /\ \A i \in 1..(n + k) : f[i] = r[i]
  BY <1>1, <1>2, FrontFacts
<1>7. PICK b \in Seq(HistoryMessage) :
          b = From(r, e) /\ Len(b) = lr - e /\ \A i \in 1..(lr - e) : b[i] = r[e + i]
  <2>1. e \in 0..Len(r)
    BY <1>2
  <2>2. /\ From(r, e) \in Seq(HistoryMessage) /\ Len(From(r, e)) = Len(r) - e
        /\ \A i \in 1..(Len(r) - e) : From(r, e)[i] = r[e + i]
    BY <1>1, <2>1, BackFacts
  <2> QED BY <2>2
<1>8. PICK w \in Seq(HistoryMessage) :
          /\ w = f \o b /\ Len(w) = Len(f) + Len(b)
          /\ \A i \in 1..(Len(f) + Len(b)) :
                w[i] = IF i <= Len(f) THEN f[i] ELSE b[i - Len(f)]
  <2>1. /\ f \o b \in Seq(HistoryMessage) /\ Len(f \o b) = Len(f) + Len(b)
        /\ \A i \in 1..(Len(f) + Len(b)) :
              (f \o b)[i] = IF i <= Len(f) THEN f[i] ELSE b[i - Len(f)]
    BY ConcatProperties
  <2> QED BY <2>1, Zenon
<1>9. w = Without(r, n + k, e)
  BY <1>6, <1>7, <1>8 DEF Without
<1>10. /\ Len(w) = (n + k) + (lr - e)
       /\ \A i \in 1..((n + k) + (lr - e)) : w[i] = IF i <= n + k THEN f[i] ELSE b[i - (n + k)]
  BY SMTT(30), <1>6, <1>7, <1>8
<1>11. Len(w) = Len(q)
  BY <1>0, <1>2, <1>3, <1>5, <1>10
<1>12. ASSUME NEW i \in 1..Len(q) PROVE w[i] = q[i]
  <2>0. i \in 1..((n + k) + (lr - e)) /\ i \in Nat
    BY SMTT(30), <1>0, <1>10, <1>11
  <2>1. CASE i <= n
    <3>1. i \in 1..n /\ i <= n + k /\ i \in 1..(n + k)
      BY <1>0, <2>0, <2>1
    <3>2. w[i] = f[i] /\ f[i] = r[i]
      BY <1>6, <1>10, <2>0, <3>1
    <3> QED BY <1>1, <1>5, <3>1, <3>2
  <2>2. CASE ~(i <= n) /\ i <= n + k
    <3>1. i \in (n + 1)..(n + k) /\ i \in 1..(n + k)
      BY <1>0, <2>0, <2>2
    <3>2. w[i] = f[i] /\ f[i] = r[i]
      BY <1>6, <1>10, <2>0, <2>2, <3>1
    <3> QED BY <1>1, <1>5, <3>1, <3>2
  <2>3. CASE ~(i <= n + k)
    <3>0. i \in Nat /\ n + k + 1 <= i /\ i <= (n + k) + (lr - e) /\ Len(q) = (n + k) + (lr - e)
      <4>1. Len(q) = (n + k) + (lr - e)
        BY <1>10, <1>11
      <4>2. n + k \in Nat /\ lr - e \in Nat
        BY <1>0, <1>2
      <4> QED BY <2>0, <2>3, <4>1, <4>2
    <3>1. /\ i - (n + k) \in 1..(lr - e) /\ e + (i - (n + k)) \in (n + k + 1)..lr
          /\ i \in (n + k + 1)..Len(q)
      BY <1>0, <1>2, <3>0
    <3>2. w[i] = b[i - (n + k)] /\ b[i - (n + k)] = r[e + (i - (n + k))]
      BY <1>7, <1>10, <2>0, <2>3, <3>1
    <3>3. r[e + (i - (n + k))] = given[(e + (i - (n + k))) - n - k + c]
      BY <1>1, <3>1
    <3>4. (e + (i - (n + k))) - n - k + c = i - n - k + d
      BY <1>0, <1>2, <2>0
    <3> QED BY <1>5, <3>1, <3>2, <3>3, <3>4
  <2> QED BY <2>1, <2>2, <2>3
<1>13. w = q
  BY <1>5, <1>11, <1>12, SamePlaces
<1>14. EndsOf(w, n, d, s)
  BY <1>4, <1>13
<1> QED BY <1>9, <1>14

\* Where the cut and the prompt are, in terms of the ends of the history.
EndsInv ==
    /\ given \in Seq(HistoryMessage) /\ Leads(given)
    /\ turnsKept \in Nat
    /\ at = "start" => turnsKept = 0
    /\ at = "walk" => /\ SystemBlock(given, system)
                      /\ cut < Len(given) \/ (turnsKept = 0 /\ cut = Len(given))
    /\ at \in {"extra", "cut"} => /\ SystemBlock(given, system)
                                  /\ cut < Len(given) \/ cut = system
    /\ at \in {"fit", "done"} => \E n, c, s : EndsOf(result, n, c, s)
    /\ at = "evict" => \E n, c, s : EndsOf(result, n, c, s) /\ system = n + Len(s)

\* The call begins with the history as it was given.
LEMMA EndsInit == Ordinary /\ ManageInit => EndsInv
  BY EvictionAssumption DEF Ordinary, ManageInit, EndsInv

\* Putting the prompt together from the cut, with a summary or without.
LEMMA BuildKeepsEnds ==
    ASSUME EvictionInv, EndsInv, NothingEvicted \/ NoSummarizer \/ SummarizerReturns
    PROVE  EndsInv'
<1>1. /\ at = "cut" /\ at' \in {"fit", "done"}
      /\ UNCHANGED <<given, turnsKept>>
  BY DEF NothingEvicted, NoSummarizer, SummarizerReturns
<1>2. /\ given \in Seq(HistoryMessage) /\ SystemBlock(given, system)
      /\ system \in 0..Len(given) /\ cut \in 0..Len(given) /\ system <= cut
      /\ cut < Len(given) \/ cut = system
  BY <1>1 DEF EvictionInv, EndsInv
<1>3. \E s \in {<<>>, <<Summary>>} : result' = SubSeq(given, 1, system) \o s \o From(given, cut)
  <2>1. CASE SummarizerReturns
    BY <2>1 DEF SummarizerReturns
  <2>2. CASE NothingEvicted \/ NoSummarizer
    <3>1. result' = SubSeq(given, 1, system) \o From(given, cut)
      BY <2>2 DEF NothingEvicted, NoSummarizer, Without
    <3>2. SubSeq(given, 1, system) \in Seq(HistoryMessage)
      BY <1>2, FrontFacts
    <3>3. SubSeq(given, 1, system) \o <<>> = SubSeq(given, 1, system)
      BY <3>2
    <3> QED BY <3>1, <3>3
  <2> QED BY <2>1, <2>2
<1>4. \E n, c, s : EndsOf(result', n, c, s)
  BY <1>2, <1>3 DEF EndsOf
<1>5. (\E n, c, s : EndsOf(result, n, c, s))'
  BY <1>1, <1>4 DEF EndsOf
<1> QED BY <1>1, <1>5 DEF EndsInv

\* Each step leaves the block in front, and the last message behind.
LEMMA EndsNext == Ordinary /\ EvictionInv /\ EndsInv /\ [ManageNext]_manageVars => EndsInv'
<1> SUFFICES ASSUME Ordinary, EvictionInv, EndsInv, [ManageNext]_manageVars PROVE EndsInv'
  OBVIOUS
<1>0. given \in Seq(HistoryMessage) /\ result \in Seq(HistoryMessage) /\ EvictionInv'
  BY ManageNextInv DEF EvictionInv
<1>1. CASE Slide
  <2>1. /\ result' = given /\ at' \in {"fit", "done"} /\ UNCHANGED <<given, turnsKept>>
    BY <1>1 DEF Slide
  <2>2. \E n : EndsOf(given, n, n, <<>>)
    BY <1>0, BlockExists, WholeHasEnds
  <2>3. (\E n, c, s : EndsOf(result, n, c, s))'
    BY <2>1, <2>2 DEF EndsOf
  <2> QED BY <2>1, <2>3 DEF EndsInv
<1>2. CASE Summarize
  <2>1. UNCHANGED <<given, turnsKept, cut>> /\ at = "start"
    BY <1>2 DEF Summarize
  <2>2. CASE at' = "done"
    <3>1. result' = given
      BY <1>2, <2>2 DEF Summarize
    <3>2. \E n : EndsOf(given, n, n, <<>>)
      BY <1>0, BlockExists, WholeHasEnds
    <3>3. (\E n, c, s : EndsOf(result, n, c, s))'
      BY <2>1, <3>1, <3>2 DEF EndsOf
    <3> QED BY <2>1, <2>2, <3>3 DEF EndsInv
  <2>3. CASE at' = "walk"
    <3>1. SystemBlock(given, system')
      BY <1>2, <2>3 DEF Summarize
    <3>2. cut = Len(given) /\ turnsKept = 0
      BY <2>1 DEF EvictionInv, EndsInv
    <3>3. SystemBlock(given, system)'
      BY <2>1, <3>1 DEF SystemBlock
    <3> QED BY <2>1, <2>3, <3>2, <3>3 DEF EndsInv
  <2> QED BY <1>2, <2>2, <2>3 DEF Summarize
<1>3. CASE WalkBack
  <2>1. /\ at = "walk" /\ at' = at /\ UNCHANGED <<given, system, result>> /\ turnsKept' = turnsKept + 1
        /\ cut > system
    BY <1>3 DEF WalkBack
  <2>2. cut \in Nat /\ system \in Nat /\ cut <= Len(given) /\ Len(given) \in Nat
    BY <1>0, <2>1 DEF EvictionInv
  <2>3. cut' < cut
    BY <1>3, <2>1, <2>2 DEF WalkBack
  <2>4. cut' \in Int
    BY <1>0 DEF EvictionInv
  <2>5. cut' < Len(given)
    BY <2>2, <2>3, <2>4
  <2> QED BY <2>1, <2>5 DEF EndsInv, SystemBlock
<1>4. CASE WalkEnds
  <2>1. /\ at = "walk" /\ at' = "extra" /\ UNCHANGED <<given, system, cut, turnsKept, result>>
        /\ cut <= system \/ turnsKept >= KeptTurns
    BY <1>4 DEF WalkEnds
  <2>2. system <= cut /\ system \in Nat /\ cut \in Nat /\ SystemBlock(given, system)
    BY <2>1 DEF EvictionInv, EndsInv
  <2>3. cut < Len(given) \/ cut = system
    <3>1. CASE cut < Len(given)
      BY <3>1
    <3>2. CASE turnsKept = 0
      <4>1. ~(turnsKept >= KeptTurns)
        BY <3>2, EvictionAssumption DEF Ordinary
      <4> QED BY <2>1, <2>2, <4>1
    <3> QED BY <2>1, <3>1, <3>2 DEF EndsInv
  <2> QED BY <2>1, <2>2, <2>3 DEF EndsInv, SystemBlock
<1>5. CASE DropExtra
  <2>1. /\ at = "extra" /\ at' = at /\ UNCHANGED <<given, system, turnsKept, result>>
        /\ cut' < Len(given)
    BY <1>5 DEF DropExtra, DropsExtra
  <2> QED BY <2>1 DEF EndsInv, SystemBlock
<1>6. CASE ExtraEnds
  BY <1>6 DEF ExtraEnds, EndsInv, SystemBlock
<1>7. CASE NothingEvicted \/ NoSummarizer \/ SummarizerReturns
  BY <1>7, BuildKeepsEnds
<1>8. CASE SummarizerThrows
  BY <1>8 DEF SummarizerThrows, EndsInv
<1>9. CASE EnterEviction
  <2>1. at = "fit" /\ UNCHANGED <<given, turnsKept, result>> /\ at' \in {"done", "evict"}
    BY <1>9 DEF EnterEviction
  <2>2. PICK n, c, s : EndsOf(result, n, c, s)
    BY <2>1 DEF EndsInv
  <2>3. EndsOf(result, n, c, s)'
    BY <2>1, <2>2 DEF EndsOf, SystemBlock
  <2>4. at' = "evict" => system' = n + Len(s)
    <3> SUFFICES ASSUME at' = "evict" PROVE system' = n + Len(s)
      OBVIOUS
    <3>1. SystemBlock(result, system')
      BY <1>9 DEF EnterEviction
    <3> QED BY <1>0, <2>2, <3>1, BlockAfter DEF EndsInv
  <2> QED BY <2>1, <2>3, <2>4 DEF EndsInv
<1>10. CASE EvictUnit
  <2>1. PICK e \in 1..Len(result) : Evicts(e) /\ result' = Without(result, system, e)
    BY <1>10 DEF EvictUnit
  <2>2. at = "evict" /\ at' = at /\ UNCHANGED <<given, system, turnsKept>>
    BY <1>10 DEF EvictUnit
  <2>3. PICK n, c, s : EndsOf(result, n, c, s) /\ system = n + Len(s)
    BY <2>2 DEF EndsInv
  <2>4. system \in Nat /\ Len(result) \in Nat
    BY <1>0 DEF EvictionInv
  <2>5. e \in (n + Len(s) + 1)..(Len(result) - 1)
    <3>1. e \in (system + 1)..Len(result) /\ system < ProtectedStart /\ e <= ProtectedStart
      BY <2>1 DEF Evicts, UnitEnd
    <3>2. e <= Len(result) - 1
      BY <2>4, <3>1 DEF ProtectedStart, ProtectedTail
    <3> QED BY <2>3, <2>4, <3>1, <3>2
  <2>6. EndsOf(result', n, c + (e - n - Len(s)), s)
    BY <1>0, <2>1, <2>3, <2>5, EvictKeepsEnds
  <2>7. (\E a, b, x : EndsOf(result, a, b, x) /\ system = a + Len(x))'
    BY <2>2, <2>3, <2>6 DEF EndsOf, SystemBlock
  <2> QED BY <2>2, <2>7 DEF EndsInv
<1>11. CASE EvictionEnds
  <2>1. /\ at = "evict" /\ at' = "done" /\ UNCHANGED <<given, turnsKept, result>>
    BY <1>11 DEF EvictionEnds
  <2>2. (\E n, c, s : EndsOf(result, n, c, s))'
    BY <2>1 DEF EndsInv, EndsOf, SystemBlock
  <2> QED BY <2>1, <2>2 DEF EndsInv
<1>12. CASE UNCHANGED manageVars
  <2>1. UNCHANGED <<given, at, system, cut, turnsKept, result>>
    BY <1>12 DEF manageVars
  <2>2. \A n, c, s : EndsOf(result, n, c, s)' <=> EndsOf(result, n, c, s)
    BY <2>1 DEF EndsOf, SystemBlock
  <2> QED BY <2>1, <2>2 DEF EndsInv, SystemBlock
<1> QED BY <1>1, <1>2, <1>3, <1>4, <1>5, <1>6, <1>7, <1>8, <1>9, <1>10, <1>11, <1>12
        DEF ManageNext, Work, Terminated

\* Of such a history manage returns the system messages, then at most one
\* summary, then the last messages as they were: what goes comes from between.
THEOREM BothEndsKept == ASSUME Ordinary PROVE ManageSpec => []KeepsEnds
<1>1. EndsInv => KeepsEnds
  BY DEF EndsInv, KeepsEnds, EndsOf
<1>2. EvictionInv /\ EndsInv /\ [ManageNext]_manageVars => EndsInv'
  BY EndsNext
<1>3. ManageInit => EndsInv
  BY EndsInit
<1> QED BY <1>1, <1>2, <1>3, EvictionInvariant, PTL DEF ManageSpec

-----------------------------------------------------------------------------
(* Memory *)

\* The checkpoint is one record, and a task's record is the log of that task.
RecordsInv ==
    /\ logged \in [TaskIds -> Seq(Int)]
    /\ written \in Int
    /\ "checkpoint" \notin SaveScopes => \A r, s \in Scope("checkpoint") : r = s
    /\ \A r \in records : r.id \in TaskIds =>
          r = Record(r.id, "task", logged[r.id]) /\ logged[r.id] # <<>>
    /\ \A id \in TaskIds : logged[id] # <<>> => Record(id, "task", logged[id]) \in records

\* What memory holds between two steps.
MemoryIInv == RecordsInv /\ EmbeddingsMatch

LEMMA MemoryIInvEnough == MemoryIInv => MemoryInv
<1> SUFFICES ASSUME MemoryIInv PROVE MemoryInv
  OBVIOUS
<1>1. OneCheckpoint
  <2> SUFFICES ASSUME "checkpoint" \notin SaveScopes PROVE Cardinality(Scope("checkpoint")) <= 1
    BY DEF OneCheckpoint
  <2>1. CASE Scope("checkpoint") = {}
    BY <2>1, FS_EmptySet
  <2>2. CASE Scope("checkpoint") # {}
    <3>1. PICK r : Scope("checkpoint") = {r}
      BY <2>2 DEF MemoryIInv, RecordsInv
    <3>2. Cardinality({r}) = 1
      BY FS_Singleton
    <3> QED BY <3>1, <3>2
  <2> QED BY <2>1, <2>2
<1>2. LogsKept
  BY DEF MemoryIInv, RecordsInv, LogsKept
<1> QED BY <1>1, <1>2 DEF MemoryInv, MemoryIInv

LEMMA MemoryInitInv == CodingInit => MemoryIInv
<1> SUFFICES ASSUME CodingInit PROVE MemoryIInv
  OBVIOUS
<1>1. PICK initially \in {{}} \cup {{Record(id, "project", <<0>>)} : id \in MemoryIds} :
         MemoryInit(initially)
  BY DEF CodingInit
<1>2. /\ logged = [id \in TaskIds |-> <<>>] /\ written = 0 /\ cached = <<>> /\ embeddings = <<>>
      /\ \A r \in records : r.id \notin TaskIds /\ r.scope = "project"
  BY <1>1, MemoryAssumption DEF MemoryInit, Record
<1>3. RecordsInv
  BY <1>2 DEF RecordsInv, Scope
<1>4. EmbeddingsMatch
  BY <1>2 DEF EmbeddingsMatch
<1> QED BY <1>3, <1>4 DEF MemoryIInv

\* A record of a task is written by the task's log only.
LEMMA OtherRecord ==
    ASSUME RecordsInv, NEW r, WriteRecord(r), r.id \notin TaskIds, UNCHANGED logged,
           "checkpoint" \notin SaveScopes /\ r.scope = "checkpoint" =>
               \A s \in Scope("checkpoint") : s.id = r.id
    PROVE  RecordsInv'
<1>1. /\ records' = {s \in records : s.id # r.id \/ s.scope # r.scope} \cup {r}
      /\ written' \in Int
  BY DEF WriteRecord, RecordsInv
<1>2. ASSUME NEW s \in records', s.id \in TaskIds
      PROVE  s = Record(s.id, "task", logged'[s.id]) /\ logged'[s.id] # <<>>
  BY <1>1, <1>2 DEF RecordsInv
<1>3. ASSUME NEW id \in TaskIds, logged'[id] # <<>> PROVE Record(id, "task", logged'[id]) \in records'
  <2>1. Record(id, "task", logged[id]) \in records
    BY <1>3 DEF RecordsInv
  <2>2. Record(id, "task", logged[id]).id = id
    BY DEF Record
  <2> QED BY <1>1, <2>1, <2>2
<1>4. ASSUME "checkpoint" \notin SaveScopes, NEW s \in Scope("checkpoint")', NEW u \in Scope("checkpoint")'
      PROVE  s = u
  <2>1. /\ s \in records' /\ s.scope = "checkpoint" /\ u \in records' /\ u.scope = "checkpoint"
    BY DEF Scope
  <2>2. CASE r.scope = "checkpoint"
    <3>1. s = r /\ u = r
      BY <1>1, <1>4, <2>1, <2>2 DEF Scope
    <3> QED BY <3>1
  <2>3. CASE r.scope # "checkpoint"
    <3>1. s \in Scope("checkpoint") /\ u \in Scope("checkpoint")
      BY <1>1, <2>1, <2>3 DEF Scope
    <3> QED BY <1>4, <3>1 DEF RecordsInv
  <2> QED BY <2>2, <2>3
<1> QED BY <1>1, <1>2, <1>3, <1>4 DEF RecordsInv

\* save_memory writes one record, whose id no other has and no task is logged
\* under.
LEMMA SaveMemoryKeeps == ASSUME RecordsInv, SaveMemory PROVE RecordsInv'
<1>1. PICK id \in UnusedIds, scope \in SaveScopes : WriteRecord(Record(id, scope, <<written + 1>>))
  BY DEF SaveMemory
<1>2. id \in MemoryIds /\ id \notin TaskIds
  BY MemoryAssumption DEF UnusedIds
<1>3. /\ Record(id, scope, <<written + 1>>).id = id
      /\ Record(id, scope, <<written + 1>>).scope = scope
  BY DEF Record
<1>4. UNCHANGED logged
  BY DEF SaveMemory
<1> QED BY <1>1, <1>2, <1>3, <1>4, OtherRecord

\* There is one checkpoint to write to, or none.
LEMMA CheckpointKeeps == ASSUME RecordsInv, WriteCheckpoint PROVE RecordsInv'
<1>1. PICK id \in IF Scope("checkpoint") = {} THEN UnusedIds
                  ELSE {r.id : r \in Scope("checkpoint")} :
          WriteRecord(Record(id, "checkpoint", <<written + 1>>))
  BY DEF WriteCheckpoint
<1>2. /\ Record(id, "checkpoint", <<written + 1>>).id = id
      /\ Record(id, "checkpoint", <<written + 1>>).scope = "checkpoint"
  BY DEF Record
<1>3. id \notin TaskIds
  <2>1. CASE Scope("checkpoint") = {}
    BY <1>1, <2>1, MemoryAssumption DEF UnusedIds
  <2>2. CASE Scope("checkpoint") # {}
    <3>1. PICK r \in records : r.scope = "checkpoint" /\ r.id = id
      BY <1>1, <2>2 DEF Scope
    <3>2. Record(r.id, "task", logged[r.id]).scope = "task"
      BY DEF Record
    <3> QED BY <3>1, <3>2 DEF RecordsInv
  <2> QED BY <2>1, <2>2
<1>4. "checkpoint" \notin SaveScopes => \A s \in Scope("checkpoint") : s.id = id
  BY <1>1 DEF RecordsInv
<1>5. UNCHANGED logged
  BY DEF WriteCheckpoint
<1> QED BY <1>1, <1>2, <1>3, <1>4, <1>5, OtherRecord

\* An entry follows all that the task's record has.
LEMMA LogKeeps == ASSUME RecordsInv, NEW id \in TaskIds, LogProgress(id) PROVE RecordsInv'
<1> DEFINE n == written + 1
<1> DEFINE existing == {r \in records : r.id = id}
<1>0. n \in Int /\ logged \in [TaskIds -> Seq(Int)] /\ logged[id] \in Seq(Int)
      /\ logged' = [logged EXCEPT ![id] = Append(@, n)]
  BY DEF RecordsInv, LogProgress
<1>1. WriteRecord(Record(id, "task", Append(logged[id], n)))
  <2>1. CASE existing = {}
    <3>1. logged[id] = <<>>
      <4>1. Record(id, "task", logged[id]).id = id
        BY DEF Record
      <4> QED BY <2>1, <4>1 DEF RecordsInv
    <3>2. WriteRecord(Record(id, "task", <<n>>))
      BY <2>1 DEF LogProgress
    <3>3. Append(<<>>, n) = <<n>>
      BY <1>0
    <3> QED BY <3>1, <3>2, <3>3
  <2>2. CASE existing # {}
    <3>1. PICK r \in existing :
             WriteRecord(Record(id, "task", IF r.scope = "task" THEN Append(r.content, n) ELSE <<n>>))
      BY <2>2 DEF LogProgress
    <3>2. r = Record(id, "task", logged[id])
      BY DEF RecordsInv
    <3>3. r.scope = "task" /\ r.content = logged[id]
      BY <3>2 DEF Record
    <3> QED BY <3>1, <3>3
  <2> QED BY <2>1, <2>2
<1>9. Append(logged[id], n) \in Seq(Int) /\ Append(logged[id], n) # <<>>
  <2> HIDE DEF n
  <2> QED BY <1>0
<1> PICK e \in Seq(Int) : e = Append(logged[id], n)
  BY <1>9
<1>2. e # <<>> /\ logged' = [logged EXCEPT ![id] = e]
  BY <1>0, <1>9
<1> PICK r : r = Record(id, "task", e)
  OBVIOUS
<1>3. /\ r.id = id /\ r.scope = "task"
      /\ records' = {s \in records : s.id # id \/ s.scope # "task"} \cup {r}
      /\ written' = n
  BY <1>1 DEF WriteRecord, Record
<1>4. /\ logged' \in [TaskIds -> Seq(Int)] /\ logged'[id] = e
      /\ \A u \in TaskIds : u # id => logged'[u] = logged[u]
  BY <1>0, <1>2
<1>5. ASSUME NEW s \in records', s.id \in TaskIds
      PROVE  s = Record(s.id, "task", logged'[s.id]) /\ logged'[s.id] # <<>>
  <2>1. CASE s.id = id
    <3>1. s = r
      <4> SUFFICES ASSUME s \in records, s.scope # "task" PROVE FALSE
        BY <1>3, <2>1
      <4>1. s = Record(s.id, "task", logged[s.id])
        BY <1>5 DEF RecordsInv
      <4> QED BY <4>1 DEF Record
    <3> QED BY <1>2, <1>3, <1>4, <3>1
  <2>2. CASE s.id # id
    BY <1>3, <1>4, <1>5, <2>2 DEF RecordsInv
  <2> QED BY <2>1, <2>2
<1>6. ASSUME NEW u \in TaskIds, logged'[u] # <<>> PROVE Record(u, "task", logged'[u]) \in records'
  <2>1. CASE u = id
    BY <1>3, <1>4, <2>1
  <2>2. CASE u # id
    <3>1. Record(u, "task", logged[u]) \in records
      BY <1>4, <1>6, <2>2 DEF RecordsInv
    <3>2. Record(u, "task", logged[u]).id = u
      BY DEF Record
    <3> QED BY <1>3, <1>4, <2>2, <3>1, <3>2
  <2> QED BY <2>1, <2>2
<1>7. Scope("checkpoint")' = Scope("checkpoint")
  BY <1>3 DEF Scope
<1> QED BY <1>0, <1>3, <1>4, <1>5, <1>6, <1>7 DEF RecordsInv

LEMMA MemoryNextInv == ASSUME MemoryIInv, [CodingNext]_allVars PROVE MemoryIInv'
<1>1. ASSUME UNCHANGED <<records, written, logged, cached, embeddings>> PROVE MemoryIInv'
  BY <1>1 DEF MemoryIInv, RecordsInv, EmbeddingsMatch, Scope
<1>2. ASSUME RecordsInv', UNCHANGED <<cached, embeddings>> PROVE MemoryIInv'
  BY <1>2 DEF MemoryIInv, EmbeddingsMatch
<1>3. ASSUME NEW t \in Turns, TurnGoesOn(t) \/ TurnThrows(t) \/ TurnFinishes(t) PROVE MemoryIInv'
  BY <1>1, <1>3 DEF TurnGoesOn, TurnThrows, TurnFinishes, memoryVars
<1>4. ASSUME NEW t \in Turns, ToolWrites(t) PROVE MemoryIInv'
  <2>1. SaveMemory \/ UpdateCheckpoint \/ \E id \in TaskIds : LogProgress(id)
    BY <1>4 DEF ToolWrites
  <2>2. RecordsInv'
    BY <2>1, SaveMemoryKeeps, CheckpointKeeps, LogKeeps DEF UpdateCheckpoint, MemoryIInv
  <2>3. UNCHANGED <<cached, embeddings>>
    BY <2>1 DEF SaveMemory, UpdateCheckpoint, LogProgress
  <2> QED BY <1>2, <2>2, <2>3
<1>5. ASSUME NEW t \in Turns, HookReturns(t) PROVE MemoryIInv'
  <2>1. UNCHANGED <<cached, embeddings>>
    BY <1>5 DEF HookReturns
  <2>2. CASE WriteCheckpoint
    BY <1>2, <2>1, <2>2, CheckpointKeeps DEF MemoryIInv
  <2>3. CASE UNCHANGED <<records, written, logged>>
    BY <1>1, <2>1, <2>3
  <2> QED BY <1>5, <2>2, <2>3 DEF HookReturns
<1>6. ASSUME NEW t \in Turns, Ask(t) \/ Inject(t) PROVE MemoryIInv'
  BY <1>1, <1>6 DEF Ask, Inject, AskRetriever
<1>7. ASSUME NEW t \in Turns, Embed(t) PROVE MemoryIInv'
  <2>1. UNCHANGED <<records, written, logged>>
    BY <1>7 DEF Embed, EmbeddingsCome
  <2>2. EmbeddingsMatch'
    BY <1>7 DEF Embed, EmbeddingsCome, EmbeddingsMatch
  <2> QED BY <2>1, <2>2 DEF MemoryIInv, RecordsInv, Scope
<1>8. CASE ByHand \/ Save \/ SaveReturns \/ Restart \/ UNCHANGED allVars
  BY <1>1, <1>8 DEF ByHand, Save, SaveReturns, Restart, allVars, memoryVars
<1>9. ASSUME NEW t \in Turns, Remember(t) PROVE MemoryIInv'
  BY <1>6, <1>7, <1>9 DEF Remember
<1>10. ASSUME NEW t \in Turns,
              \/ TurnGoesOn(t) \/ TurnThrows(t) \/ ToolWrites(t)
              \/ TurnFinishes(t) \/ HookReturns(t) \/ Remember(t)
       PROVE  MemoryIInv'
  BY <1>3, <1>4, <1>5, <1>9, <1>10
<1> QED BY <1>8, <1>10 DEF CodingNext, Ends

\* However turns, their queries, their tools and their hooks overlap, cached
\* embeddings are those of the cached records, there is one checkpoint, and a
\* task's record has every entry in order.
THEOREM MemoryHolds == CodingSpec => []MemoryInv
<1>1. CodingInit => MemoryIInv
  BY MemoryInitInv
<1>2. MemoryIInv /\ [CodingNext]_allVars => MemoryIInv'
  BY MemoryNextInv
<1> QED BY <1>1, <1>2, MemoryIInvEnough, PTL DEF CodingSpec

-----------------------------------------------------------------------------
(* The order of messages *)

\* The messages of h are of the turns in b, those of a turn behind those of the
\* turns before it, and from the first of these turns on none is missing.
InOrder(h, b) ==
    /\ h \in Seq(Message)
    /\ \A i \in 1..Len(h) : h[i].turn = 0 \/ h[i].turn \in b
    /\ \A i \in 1..Len(h) : IsSystem(h[i]) => h[i].turn = 0
    /\ \A i, j \in 1..Len(h) :
          i < j /\ h[i].turn # 0 /\ h[j].turn # 0 => h[i].turn <= h[j].turn
    /\ \A u \in b, v \in b : u < v /\ Mentions(h, u) => Mentions(h, v)

\* For leaves that need only this of a sequence.
LEMMA LenIsNat == \A S : \A q \in Seq(S) : Len(q) \in Nat
  OBVIOUS

\* Messages that go from the front, with what stands for them of no turn.
LEMMA RestInOrder ==
    ASSUME NEW b \in SUBSET Turns, NEW h, InOrder(h, b), NEW r \in Seq(Message),
           NEW k \in Nat, NEW c \in 0..Len(h), Len(r) = k + Len(h) - c,
           \A i \in 1..k : r[i].turn = 0,
           \A i \in (k + 1)..Len(r) : r[i] = h[i - k + c]
    PROVE  InOrder(r, b)
<1> PICK l \in Nat : l = Len(h)
  BY DEF InOrder
<1> PICK n \in Nat : n = Len(r)
  BY LenIsNat, Zenon
<1>0. c \in Nat /\ c <= l /\ n = k + l - c
  OBVIOUS
<1>1. \A i \in (k + 1)..n : i - k + c \in 1..l /\ r[i] = h[i - k + c]
  BY <1>0
<1>2. \A i \in 1..n : r[i].turn # 0 => i \in (k + 1)..n
  BY <1>0
<1>3. ASSUME NEW i \in 1..n PROVE r[i].turn = 0 \/ r[i].turn \in b
  BY <1>1, <1>2 DEF InOrder
<1>4. ASSUME NEW i \in 1..n, IsSystem(r[i]) PROVE r[i].turn = 0
  BY ZenonT(40), <1>1, <1>2, <1>4 DEF InOrder
<1>5. ASSUME NEW i \in 1..n, NEW j \in 1..n, i < j, r[i].turn # 0, r[j].turn # 0
      PROVE  r[i].turn <= r[j].turn
  <2>1. i \in (k + 1)..n /\ j \in (k + 1)..n
    BY <1>2, <1>5
  <2>2. /\ i - k + c \in 1..l /\ j - k + c \in 1..l /\ i - k + c < j - k + c
        /\ r[i] = h[i - k + c] /\ r[j] = h[j - k + c]
    BY <1>0, <1>1, <1>5, <2>1
  <2> QED BY <1>5, <2>2 DEF InOrder
<1>6. ASSUME NEW u \in b, NEW v \in b, u < v, Mentions(r, u) PROVE Mentions(r, v)
  <2>0. u \in Int /\ v \in Int /\ u # 0 /\ v # 0
    BY SessionAssumption DEF Turns
  <2>1. PICK i \in 1..n : r[i].turn = u
    BY <1>6 DEF Mentions
  <2>2. i \in (k + 1)..n /\ i - k + c \in 1..l /\ h[i - k + c].turn = u
    BY <1>1, <1>2, <2>0, <2>1
  <2>3. Mentions(h, v)
    BY <1>6, <2>2 DEF InOrder, Mentions
  <2>4. PICK j \in 1..l : h[j].turn = v
    BY <2>3 DEF Mentions
  <2>5. ~(j < i - k + c)
    <3> SUFFICES ASSUME j < i - k + c PROVE FALSE
      OBVIOUS
    <3>1. v <= u
      BY <2>0, <2>2, <2>4 DEF InOrder
    <3> QED BY <1>6, <2>0, <3>1
  <2>6. j # i - k + c
    <3> SUFFICES ASSUME j = i - k + c PROVE FALSE
      OBVIOUS
    <3>1. u = v
      BY <2>2, <2>4
    <3> QED BY <1>6, <2>0, <3>1
  <2>7. j + k - c \in (k + 1)..n /\ (j + k - c) - k + c = j
    BY <1>0, <2>2, <2>5, <2>6
  <2>8. r[j + k - c] = h[j]
    BY <1>1, <2>7
  <2>9. j + k - c \in 1..n
    BY <2>7
  <2> QED BY <2>4, <2>8, <2>9 DEF Mentions
<1> QED BY <1>3, <1>4, <1>5, <1>6 DEF InOrder

\* Messages behind the history: of no turn, or of the last one.
LEMMA JoinInOrder ==
    ASSUME NEW b \in SUBSET Turns, NEW a \in SUBSET Turns, NEW h, InOrder(h, b), b \subseteq a,
           NEW m \in Seq(Message), NEW t \in {0} \cup Turns,
           \A i \in 1..Len(m) : m[i].turn = t /\ ~IsSystem(m[i]),
           \A u \in a : u \in b \/ (u = t /\ Len(m) # 0),
           t # 0 => t \in a /\ \A u \in a : u <= t
    PROVE  InOrder(h \o m, a)
<1> PICK l \in Nat : l = Len(h)
  BY DEF InOrder
<1> PICK n \in Nat : n = Len(m)
  OBVIOUS
<1>0. t \in Int /\ \A u \in a : u \in Int /\ u # 0
  BY SessionAssumption DEF Turns
<1> DEFINE r == h \o m
<1>7. /\ r \in Seq(Message) /\ Len(r) = l + n
      /\ \A i \in 1..l : r[i] = h[i]
      /\ \A i \in 1..n : r[l + i] = m[i]
  <2>1. h \in Seq(Message)
    BY DEF InOrder
  <2> QED BY <2>1, Joined
<1> HIDE DEF r
<1>1. \A i \in 1..(l + n) : \/ i \in 1..l /\ r[i] = h[i]
                            \/ i \in (l + 1)..(l + n) /\ r[i].turn = t /\ ~IsSystem(r[i])
  <2> SUFFICES ASSUME NEW i \in 1..(l + n), i \notin 1..l
               PROVE  i \in (l + 1)..(l + n) /\ r[i].turn = t /\ ~IsSystem(r[i])
    BY <1>7
  <2>1. i - l \in 1..n /\ l + (i - l) = i
    OBVIOUS
  <2>2. r[i] = m[i - l]
    BY <2>1, <1>7
  <2> QED BY <1>7, <2>1, <2>2
<1>2. ASSUME NEW i \in 1..(l + n) PROVE r[i].turn = 0 \/ r[i].turn \in a
  BY <1>1, <1>7 DEF InOrder
<1>3. ASSUME NEW i \in 1..(l + n), IsSystem(r[i]) PROVE r[i].turn = 0
  BY <1>1, <1>3, <1>7 DEF InOrder
<1>4. ASSUME NEW i \in 1..(l + n), NEW j \in 1..(l + n), i < j, r[i].turn # 0, r[j].turn # 0
      PROVE  r[i].turn <= r[j].turn
  <2>1. CASE j \in 1..l
    <3>1. i \in 1..l
      BY <1>4, <2>1
    <3> QED BY <1>4, <1>7, <2>1, <3>1 DEF InOrder
  <2>2. CASE j \notin 1..l
    <3>1. r[j].turn = t /\ t # 0
      BY <1>1, <1>4, <2>2
    <3>2. r[i].turn \in a
      BY <1>2, <1>4
    <3> QED BY <3>1, <3>2
  <2> QED BY <2>1, <2>2
<1>5. ASSUME NEW u \in a, NEW v \in a, u < v, Mentions(r, u) PROVE Mentions(r, v)
  <2>1. PICK i \in 1..(l + n) : r[i].turn = u
    BY <1>5, <1>7 DEF Mentions
  <2>2. i \in 1..l /\ h[i].turn = u
    <3>1. u # t
      BY <1>0, <1>5
    <3> QED BY <1>1, <2>1, <3>1
  <2>3. Mentions(h, u) /\ u \in b
    BY <1>0, <2>2 DEF Mentions, InOrder
  <2>4. CASE v \in b
    <3>1. Mentions(h, v)
      BY <1>5, <2>3, <2>4 DEF InOrder
    <3>2. PICK j \in 1..l : h[j].turn = v
      BY <3>1 DEF Mentions
    <3>3. j \in 1..(l + n) /\ r[j].turn = v
      BY <1>7, <3>2
    <3> QED BY <1>7, <3>3 DEF Mentions
  <2>5. CASE v = t /\ n # 0
    <3>1. l + 1 \in 1..(l + n) /\ 1 \in 1..n
      BY <2>5
    <3>2. r[l + 1].turn = v
      BY <1>7, <2>5, <3>1
    <3> QED BY <1>7, <3>1, <3>2 DEF Mentions
  <2> QED BY <2>4, <2>5
<1>6. InOrder(r, a)
  BY <1>2, <1>3, <1>4, <1>5, <1>7 DEF InOrder
<1> QED BY <1>6 DEF r

\* A history with s in place of what is between its first n messages and the
\* c-th.
CutTo(h, n, c, s) == SubSeq(h, 1, n) \o s \o SubSeq(h, c + 1, Len(h))

\* r is h with c in place of what is between its first n and its last s messages.
Places(r, h, n, c, s) ==
    /\ r \in Seq(Message) /\ Len(r) = n + Len(s) + Len(h) - c
    /\ \A i \in 1..n : r[i] = h[i]
    /\ \A i \in (n + 1)..(n + Len(s)) : r[i] = s[i - n]
    /\ \A i \in (n + Len(s) + 1)..Len(r) : r[i] = h[i - (n + Len(s)) + c]

LEMMA CutPlaces ==
    ASSUME NEW h \in Seq(Message), NEW n \in 0..Len(h), NEW c \in 0..Len(h),
           NEW s \in Seq(Message),
           NEW r, r = CutTo(h, n, c, s)
    PROVE  Places(r, h, n, c, s)
<1> PICK l \in Nat : l = Len(h)
  OBVIOUS
<1> PICK k \in Nat : k = Len(s)
  OBVIOUS
<1>0. n \in Nat /\ c \in Nat /\ n <= l /\ c <= l
  OBVIOUS
<1>1. PICK f \in Seq(Message) : f = SubSeq(h, 1, n) /\ Len(f) = n /\ \A i \in 1..n : f[i] = h[i]
  BY ZenonT(40), InFront
<1>2. PICK z \in Seq(Message) :
         z = SubSeq(h, c + 1, Len(h)) /\ Len(z) = l - c /\ \A i \in 1..(l - c) : z[i] = h[i + c]
  <2>1. /\ SubSeq(h, c + 1, Len(h)) \in Seq(Message) /\ Len(SubSeq(h, c + 1, Len(h))) = Len(h) - c
        /\ \A i \in 1..(Len(h) - c) : SubSeq(h, c + 1, Len(h))[i] = h[i + c]
    BY Behind
  <2> QED BY <2>1
<1>3. PICK g \in Seq(Message) :
         /\ g = f \o s /\ Len(g) = n + k
         /\ \A i \in 1..n : g[i] = f[i]
         /\ \A i \in 1..k : g[n + i] = s[i]
  <2>1. /\ f \o s \in Seq(Message) /\ Len(f \o s) = Len(f) + Len(s)
        /\ \A i \in 1..Len(f) : (f \o s)[i] = f[i]
        /\ \A i \in 1..Len(s) : (f \o s)[Len(f) + i] = s[i]
    BY Joined
  <2>2. /\ Len(f \o s) = n + k /\ \A i \in 1..n : (f \o s)[i] = f[i]
        /\ \A i \in 1..k : (f \o s)[n + i] = s[i]
    BY <1>1, <2>1
  <2> QED BY <2>1, <2>2, Zenon
<1>4. /\ r = g \o z /\ r \in Seq(Message) /\ Len(r) = (n + k) + (l - c)
      /\ \A i \in 1..(n + k) : r[i] = g[i]
      /\ \A i \in 1..(l - c) : r[(n + k) + i] = z[i]
  <2>1. /\ g \o z \in Seq(Message) /\ Len(g \o z) = Len(g) + Len(z)
        /\ \A i \in 1..Len(g) : (g \o z)[i] = g[i]
        /\ \A i \in 1..Len(z) : (g \o z)[Len(g) + i] = z[i]
    BY Joined
  <2>2. r = g \o z
    BY <1>1, <1>2, <1>3 DEF CutTo
  <2> QED BY <1>2, <1>3, <2>1, <2>2
<1>5. ASSUME NEW i \in 1..n PROVE r[i] = h[i]
  <2>1. i \in 1..(n + k)
    BY <1>0
  <2> QED BY <1>1, <1>3, <1>4, <2>1
<1>6. ASSUME NEW i \in (n + 1)..(n + k) PROVE r[i] = s[i - n]
  <2>1. i \in 1..(n + k) /\ i - n \in 1..k /\ n + (i - n) = i
    BY <1>0
  <2> QED BY <1>3, <1>4, <2>1
<1>7. ASSUME NEW i \in (n + k + 1)..Len(r) PROVE r[i] = h[i - (n + k) + c]
  <2>0. i \in (n + k + 1)..((n + k) + (l - c))
    BY <1>4
  <2>1. i - (n + k) \in 1..(l - c) /\ (n + k) + (i - (n + k)) = i
    BY <1>0, <2>0
  <2> QED BY <1>2, <1>4, <2>1
<1>8. Len(r) = n + k + l - c
  BY <1>0, <1>4
<1> QED BY <1>4, <1>5, <1>6, <1>7, <1>8 DEF Places

\* What a strategy makes of it, and a block of memory.
LEMMA CutInOrder ==
    ASSUME NEW b \in SUBSET Turns, NEW h \in Seq(Message), InOrder(h, b),
           NEW n \in 0..Len(h), NEW c \in 0..Len(h),
           Leading(h, n), NEW s \in Seq(Message), \A i \in 1..Len(s) : s[i].turn = 0,
           NEW r, r = CutTo(h, n, c, s)
    PROVE  InOrder(r, b)
<1> PICK l \in Nat : l = Len(h)
  BY DEF InOrder
<1> PICK k \in Nat : k = Len(s)
  BY LenIsNat, Zenon
<1>0. h \in Seq(Message) /\ n \in Nat /\ n <= l
  BY DEF InOrder
<1>1. /\ r \in Seq(Message) /\ Len(r) = n + k + l - c
      /\ \A i \in 1..n : r[i] = h[i]
      /\ \A i \in (n + 1)..(n + k) : r[i] = s[i - n]
      /\ \A i \in (n + k + 1)..Len(r) : r[i] = h[i - (n + k) + c]
  <2>1. Places(r, h, n, c, s)
    BY CutPlaces
  <2> QED BY <2>1 DEF Places
<1>2. ASSUME NEW i \in 1..(n + k) PROVE r[i].turn = 0
  <2>1. CASE i \in 1..n
    <3>1. i \in 1..l /\ IsSystem(h[i])
      BY <1>0, <2>1 DEF Leading
    <3> QED BY <1>1, <2>1, <3>1 DEF InOrder
  <2>2. CASE i \notin 1..n
    <3>1. i \in (n + 1)..(n + k) /\ i - n \in 1..k
      BY <1>0, <2>2
    <3> QED BY <1>1, <3>1
  <2> QED BY <2>1, <2>2
<1>3. n + k \in Nat
  BY <1>0
<1> QED BY <1>1, <1>2, <1>3, RestInOrder

\* A snapshot has the history of turns that have begun.
SnapshotInOrder(f) == f # <<>> => f[1].begun \subseteq Begun /\ InOrder(f[1].history, f[1].begun)

\* Of turns one after the other: only the last may be under way.
InTurn == \A s, t \in Turns : s < t /\ pc[t] # "idle" => pc[s] # "idle" /\ Over(s)

\* While turns do not overlap the history has the turns in order, and so has
\* what a turn under way has been given.
OrderInv == ~overlap =>
    /\ InTurn
    /\ InOrder(history, Begun)
    /\ \A t \in Turns : pc[t] \in {"managing", "calling"} => InOrder(managed[t], Begun)
    /\ SnapshotInOrder(file) /\ SnapshotInOrder(saving)

\* A history in order lacks no turn between two of its turns.
LEMMA OrderIsEnough == CodingInv /\ OrderInv => NothingLostBetween
<1> SUFFICES ASSUME CodingInv, OrderInv, ~overlap, NEW s \in Turns, NEW t \in Turns, s < t,
                    pc[t] \notin {"idle", "lost"}, Mentions(history, s)
             PROVE  Mentions(history, t)
  BY DEF NothingLostBetween
<1>1. t \in Begun /\ InOrder(history, Begun)
  BY DEF OrderInv, Begun
<1>2. PICK i \in 1..Len(history) : history[i].turn = s
  BY DEF Mentions
<1>3. s # 0
  BY SessionAssumption DEF Turns
<1>4. s \in Begun
  BY <1>1, <1>2, <1>3 DEF InOrder
<1> QED BY <1>1, <1>4 DEF InOrder

LEMMA NothingInOrder == InOrder(<<>>, {})
  BY DEF InOrder

LEMMA OrderInit == CodingInit => OrderInv
<1> SUFFICES ASSUME CodingInit PROVE OrderInv
  OBVIOUS
<1>1. /\ pc = [t \in Turns |-> "idle"] /\ history = <<>> /\ file = <<>> /\ saving = <<>>
  BY DEF CodingInit, InitWith, StoreInit
<1>2. Begun = {}
  BY <1>1 DEF Begun
<1> QED BY <1>1, <1>2, NothingInOrder DEF OrderInv, InTurn, SnapshotInOrder

\* Steps of a turn that is under way, and of the caller.
LEMMA OrderKept ==
    ASSUME OrderInv, ~overlap, UNCHANGED <<overlap, file, saving>>, InTurn', Begun' = Begun,
           InOrder(history', Begun),
           \A t \in Turns : pc'[t] \in {"managing", "calling"} => InOrder(managed'[t], Begun)
    PROVE  OrderInv'
<1>1. \A h, b : InOrder(h, b)' <=> InOrder(h', b')
  BY DEF InOrder, Mentions
<1>2. (InOrder(history, Begun))'
  BY <1>1
<1>3. (SnapshotInOrder(file) /\ SnapshotInOrder(saving))'
  BY DEF OrderInv, SnapshotInOrder
<1> QED BY <1>2, <1>3 DEF OrderInv

-----------------------------------------------------------------------------
(* Turns one after the other keep the order *)

\* Where a turn is under way.
UnderWay == {"managing", "calling", "draining", "hook"}

\* A turn that is under way goes on or is over.
LEMMA TurnKept ==
    ASSUME CodingInv, OrderInv, ~overlap, UNCHANGED <<overlap, file, saving>>,
           NEW t \in Turns, pc[t] \in UnderWay,
           NEW to \in UnderWay \cup {"done", "failed"}, pc' = [pc EXCEPT ![t] = to],
           InOrder(history', Begun),
           NEW r, managed' = [managed EXCEPT ![t] = r],
           to \in {"managing", "calling"} => InOrder(r, Begun)
    PROVE  OrderInv'
<1>1. /\ \A u \in Turns : u # t => pc'[u] = pc[u] /\ managed'[u] = managed[u]
      /\ pc'[t] = to /\ managed'[t] = r
  BY DEF CodingInv, SessionInv, TypeOK
<1>2. Begun' = Begun
  <2>1. \A u \in Turns : pc'[u] \in {"idle", "lost"} <=> pc[u] \in {"idle", "lost"}
    BY <1>1 DEF UnderWay
  <2> QED BY <2>1 DEF Begun
<1>3. InTurn'
  <2> SUFFICES ASSUME NEW s \in Turns, NEW u \in Turns, s < u, pc'[u] # "idle"
               PROVE  pc'[s] # "idle" /\ Over(s)'
    BY DEF InTurn, Over
  <2>1. pc[u] # "idle"
    BY <1>1 DEF UnderWay
  <2>2. pc[s] # "idle" /\ Over(s)
    BY <2>1 DEF OrderInv, InTurn
  <2>3. s # t
    BY <2>2 DEF Over, UnderWay
  <2> QED BY <1>1, <2>2, <2>3 DEF Over
<1>4. \A u \in Turns : pc'[u] \in {"managing", "calling"} => InOrder(managed'[u], Begun)
  BY <1>1 DEF OrderInv
<1> QED BY <1>2, <1>3, <1>4, OrderKept

\* No turn has begun after the one that is under way.
LEMMA TheLast ==
    ASSUME OrderInv, ~overlap, NEW t \in Turns, pc[t] \in UnderWay
    PROVE  t \in Begun /\ \A u \in Begun : u <= t
<1>1. t \in Begun
  BY DEF Begun, UnderWay
<1>2. ASSUME NEW u \in Begun PROVE u <= t
  <2>1. u \in Turns /\ pc[u] # "idle" /\ u \in Int /\ t \in Int
    BY SessionAssumption DEF Begun, Turns
  <2>2. t < u => Over(t)
    BY <2>1 DEF OrderInv, InTurn
  <2>3. ~Over(t)
    BY DEF Over, UnderWay
  <2> QED BY <2>1, <2>2, <2>3
<1> QED BY <1>1, <1>2

LEMMA BegunAreTurns == Begun \in SUBSET Turns
  BY DEF Begun

\* The messages of a turn.
LEMMA TurnPlaces ==
    ASSUME NEW t \in Turns, NEW n \in 0..MaxRounds, NEW e \in Endings
    PROVE  /\ TurnMessages(t, n, e) \in Seq(Message)
           /\ \A i \in 1..Len(TurnMessages(t, n, e)) :
                 TurnMessages(t, n, e)[i].turn = t /\ ~IsSystem(TurnMessages(t, n, e)[i])
<1> DEFINE f == [i \in 1..(2 * n) |-> Msg(IF i % 2 = 1 THEN "calls" ELSE "results", t)]
           g == [i \in 1..Len(e) |-> Msg(e[i], t)]
<1>0. n \in Nat /\ 2 * n \in Nat
  BY SessionAssumption
<1>1. f \in Seq(Message) /\ \A i \in 1..Len(f) : f[i].turn = t /\ ~IsSystem(f[i])
  BY <1>0 DEF Msg, Message, Roles, IsSystem
<1>2. e \in Seq({"assistant", "cutoff"})
  <2>1. CASE e = <<>>
    BY <2>1
  <2>2. CASE e = <<"assistant">>
    BY <2>2
  <2>3. CASE e = <<"cutoff">>
    BY <2>3
  <2> QED BY <2>1, <2>2, <2>3 DEF Endings
<1>3. g \in Seq(Message) /\ \A i \in 1..Len(g) : g[i].turn = t /\ ~IsSystem(g[i])
  BY <1>2 DEF Msg, Message, Roles, IsSystem
<1>4. TurnMessages(t, n, e) = f \o g
  BY DEF TurnMessages
<1> HIDE DEF f, g
<1>5. /\ f \o g \in Seq(Message) /\ Len(f \o g) = Len(f) + Len(g)
      /\ \A i \in 1..Len(f) : (f \o g)[i] = f[i]
      /\ \A i \in 1..Len(g) : (f \o g)[Len(f) + i] = g[i]
  BY <1>1, <1>3, Joined
<1> PICK a \in Nat, b \in Nat : a = Len(f) /\ b = Len(g)
  BY <1>1, <1>3
<1>6. ASSUME NEW i \in 1..(a + b) PROVE (f \o g)[i].turn = t /\ ~IsSystem((f \o g)[i])
  <2>1. CASE i \in 1..a
    BY <1>1, <1>5, <2>1
  <2>2. CASE i \notin 1..a
    <3>1. i - a \in 1..b /\ a + (i - a) = i
      BY <2>2
    <3>2. (f \o g)[a + (i - a)] = g[i - a]
      BY <1>5, <3>1
    <3> QED BY <1>3, <3>1, <3>2
  <2> QED BY <2>1, <2>2
<1> QED BY <1>4, <1>5, <1>6

\* A message of the last turn that has begun goes behind all others.
LEMMA AddedInOrder ==
    ASSUME OrderInv, ~overlap, NEW t \in Turns, pc[t] \in UnderWay,
           NEW h, InOrder(h, Begun), NEW n \in 0..MaxRounds, NEW e \in Endings
    PROVE  InOrder(h \o TurnMessages(t, n, e), Begun)
<1>1. PICK m \in Seq(Message) :
         m = TurnMessages(t, n, e) /\ \A i \in 1..Len(m) : m[i].turn = t /\ ~IsSystem(m[i])
  BY TurnPlaces
<1>2. InOrder(h \o m, Begun)
  BY <1>1, TheLast, BegunAreTurns, JoinInOrder
<1> QED BY <1>1, <1>2

\* One message more.
LEMMA MessageInOrder ==
    ASSUME NEW b \in SUBSET Turns, NEW a \in SUBSET Turns, NEW h, InOrder(h, b),
           NEW t \in {0} \cup Turns, a = IF t = 0 THEN b ELSE b \cup {t},
           t # 0 => \A u \in a : u <= t,
           NEW role \in {"user", "assistant"}
    PROVE  InOrder(Append(h, Msg(role, t)), a)
<1>1. PICK m : m = Msg(role, t)
  OBVIOUS
<1>2. m \in Message /\ m.turn = t /\ ~IsSystem(m)
  BY <1>1 DEF Msg, Message, Roles, IsSystem
<1>3. PICK q \in Seq(Message) : q = <<m>> /\ Len(q) = 1
  <2>1. <<m>> \in Seq(Message) /\ Len(<<m>>) = 1
    BY <1>2
  <2> QED BY <2>1, Zenon
<1>4. \A i \in 1..Len(q) : q[i].turn = t /\ ~IsSystem(q[i])
  BY <1>2, <1>3
<1>5. b \subseteq a /\ (t # 0 => t \in a)
  OBVIOUS
<1>6. \A u \in a : u \in b \/ (u = t /\ Len(q) # 0)
  BY <1>3
<1>7. InOrder(h \o q, a)
  BY <1>4, <1>5, <1>6, JoinInOrder
<1>8. h \o q = Append(h, m)
  BY <1>2, <1>3 DEF InOrder
<1> QED BY <1>1, <1>7, <1>8

\* A turn begins when all before it are over.
LEMMA BeginInOrder ==
    ASSUME CodingInv, OrderInv, ~overlap, UNCHANGED <<file, saving>>,
           NEW t \in Turns, NEW m \in {"send", "stream"}, Begin(t, m)
    PROVE  OrderInv'
<1>0. /\ pc[t] = "idle" /\ \A s \in Turns : s < t => pc[s] # "idle" /\ Over(s)
      /\ pc' = [pc EXCEPT ![t] = "managing"]
      /\ history' = Append(history, Msg("user", t))
      /\ managed' = [managed EXCEPT ![t] = history']
      /\ UNCHANGED overlap
  BY DEF Begin, MayBegin, Goes
<1>1. /\ \A u \in Turns : u # t => pc'[u] = pc[u] /\ managed'[u] = managed[u]
      /\ pc'[t] = "managing" /\ managed'[t] = history'
  BY <1>0 DEF CodingInv, SessionInv, TypeOK
<1>2. Begun' = Begun \cup {t}
  BY <1>0, <1>1 DEF Begun
<1>3. \A s, u \in Turns : /\ s < u \/ s = u \/ u < s
                          /\ ~(s < u /\ u < s)
  BY SessionAssumption DEF Turns
<1>4. \A u \in Turns : t < u => pc[u] = "idle"
  BY <1>0 DEF OrderInv, InTurn
<1>5. InTurn'
  <2> SUFFICES ASSUME NEW s \in Turns, NEW u \in Turns, s < u, pc'[u] # "idle"
               PROVE  pc'[s] # "idle" /\ Over(s)'
    BY DEF InTurn, Over
  <2>1. CASE u = t
    <3>1. pc'[s] = pc[s]
      BY <1>1, <1>3, <2>1
    <3> QED BY <1>0, <2>1, <3>1 DEF Over
  <2>2. CASE u # t
    <3>1. pc[u] # "idle"
      BY <1>1, <2>2
    <3>2. pc[s] # "idle" /\ Over(s) /\ s # t
      BY <1>0, <3>1 DEF OrderInv, InTurn
    <3> QED BY <1>1, <3>2 DEF Over
  <2> QED BY <2>1, <2>2
<1>6. InOrder(history', Begun \cup {t})
  <2>1. \A u \in Begun : u \in Turns /\ pc[u] # "idle"
    BY DEF Begun
  <2>2. \A u \in Begun : ~(t < u)
    BY <1>4, <2>1
  <2>3. \A u \in Begun \cup {t} : u <= t
    BY <2>1, <2>2, SessionAssumption DEF Turns
  <2>4. InOrder(history, Begun)
    BY DEF OrderInv
  <2>5. Begun \in SUBSET Turns /\ Begun \cup {t} \in SUBSET Turns
    BY BegunAreTurns
  <2>6. InOrder(Append(history, Msg("user", t)), Begun \cup {t})
    <3> PICK a : a = Begun \cup {t}
      OBVIOUS
    <3>1. t # 0 /\ t \in {0} \cup Turns
      BY SessionAssumption DEF Turns
    <3>2. a \in SUBSET Turns /\ a = IF t = 0 THEN Begun ELSE Begun \cup {t}
      BY <2>5, <3>1
    <3>3. InOrder(Append(history, Msg("user", t)), a)
      BY <2>3, <2>4, <2>5, <3>1, <3>2, MessageInOrder
    <3> QED BY <3>3
  <2> QED BY <1>0, <2>6
<1>7. \A u \in Turns : pc'[u] \in {"managing", "calling"} => InOrder(managed'[u], Begun \cup {t})
  <2> SUFFICES ASSUME NEW u \in Turns, pc'[u] \in {"managing", "calling"}
               PROVE  u = t
    BY <1>1, <1>6
  <2>1. u # t => pc[u] \in {"managing", "calling"}
    BY <1>1
  <2>2. u < t => Over(u)
    BY <1>0
  <2>3. t < u => pc[u] = "idle"
    BY <1>4
  <2> QED BY <1>3, <2>1, <2>2, <2>3 DEF Over
<1>8. (SnapshotInOrder(file) /\ SnapshotInOrder(saving))'
  <2>1. Begun \subseteq Begun'
    BY <1>2
  <2>2. \A f : SnapshotInOrder(f) /\ f # <<>>
                 => f[1].begun \subseteq Begun' /\ InOrder(f[1].history, f[1].begun)
    BY <2>1 DEF SnapshotInOrder
  <2>3. SnapshotInOrder(file) /\ SnapshotInOrder(saving)
    BY DEF OrderInv
  <2>4. \A h, b : InOrder(h, b)' <=> InOrder(h', b')
    BY DEF InOrder, Mentions
  <2> QED BY <2>2, <2>3, <2>4 DEF SnapshotInOrder
<1>9. \A h, b : InOrder(h, b)' <=> InOrder(h', b')
  BY DEF InOrder, Mentions
<1> QED BY <1>0, <1>2, <1>5, <1>6, <1>7, <1>8, <1>9 DEF OrderInv

\* What manage returns, and what a block of memory leaves.
LEMMA ManageInOrder ==
    ASSUME CodingInv, OrderInv, ~overlap, UNCHANGED <<file, saving>>,
           NEW t \in Turns, ManageReturns(t)
    PROVE  OrderInv'
<1> PICK h : h = managed[t]
  OBVIOUS
<1>1. /\ h \in Seq(Message) /\ InOrder(h, Begun) /\ InOrder(history, Begun)
      /\ pc[t] = "managing" /\ pc' = [pc EXCEPT ![t] = "calling"] /\ UNCHANGED overlap
  BY DEF ManageReturns, Goes, OrderInv, InOrder
<1>a. PICK n \in 0..Len(h), c \in 0..Len(h) : MayCut(h, n, c) /\ \E s \in Stands(n, c) :
         /\ managed' = [managed EXCEPT ![t] = CutTo(h, n, c, s)]
         /\ history' = IF mode[t] = "stream" THEN CutTo(h, n, c, s) ELSE history
  BY DEF ManageReturns, CutTo
<1>b. PICK s \in Stands(n, c) :
         /\ managed' = [managed EXCEPT ![t] = CutTo(h, n, c, s)]
         /\ history' = IF mode[t] = "stream" THEN CutTo(h, n, c, s) ELSE history
  BY <1>a
<1>2. /\ MayCut(h, n, c) /\ s \in Stands(n, c)
      /\ managed' = [managed EXCEPT ![t] = CutTo(h, n, c, s)]
      /\ history' = IF mode[t] = "stream" THEN CutTo(h, n, c, s) ELSE history
  BY <1>a, <1>b
<1>3. s \in Seq(Message) /\ \A i \in 1..Len(s) : s[i].turn = 0
  <2>1. CASE s = <<>>
    BY <2>1
  <2>2. CASE s = <<Msg("summary", 0)>>
    <3>1. Msg("summary", 0) \in Message /\ Msg("summary", 0).turn = 0
      BY DEF Msg, Message, Roles
    <3> QED BY <2>2, <3>1
  <2>3. s \in {<<>>, <<Msg("summary", 0)>>}
    BY <1>2 DEF Stands
  <2> QED BY <2>1, <2>2, <2>3
<1>4. Leading(h, n)
  BY <1>2 DEF MayCut
<1>5. PICK r : r = CutTo(h, n, c, s)
  OBVIOUS
<1>6. InOrder(r, Begun)
  BY <1>1, <1>3, <1>4, <1>5, BegunAreTurns, CutInOrder
<1>7. managed' = [managed EXCEPT ![t] = r] /\ history' \in {r, history}
  BY <1>2, <1>5
<1>8. InOrder(history', Begun)
  BY <1>1, <1>6, <1>7
<1>9. pc[t] \in UnderWay /\ "calling" \in UnderWay
  BY <1>1 DEF UnderWay
<1> QED BY <1>1, <1>6, <1>7, <1>8, <1>9, TurnKept

\* A block of memory belongs to no turn.
LEMMA InjectInOrder ==
    ASSUME CodingInv, OrderInv, ~overlap, NEW t \in Turns, Inject(t)
    PROVE  OrderInv'
<1> PICK h : h = managed[t]
  OBVIOUS
<1>1. /\ h \in Seq(Message) /\ InOrder(h, Begun) /\ InOrder(history, Begun)
      /\ pc[t] = "managing" /\ UNCHANGED <<overlap, history, pc, file, saving>>
      /\ pc = [pc EXCEPT ![t] = "managing"]
  BY DEF Inject, storeVars, OrderInv, InOrder, CodingInv, SessionInv, TypeOK
<1>2. PICK has : PutBlock(t, has)
  BY DEF Inject
<1>3. PICK n \in 0..Len(h) :
         /\ Leading(h, n)
         /\ managed' = [managed EXCEPT ![t] =
               IF has THEN CutTo(h, n, n, <<Msg("memory", 0)>>) ELSE h]
  BY <1>2 DEF PutBlock, CutTo
<1>4. PICK s \in Seq(Message) : s = <<Msg("memory", 0)>> /\ \A i \in 1..Len(s) : s[i].turn = 0
  <2>1. Msg("memory", 0) \in Message /\ Msg("memory", 0).turn = 0
    BY DEF Msg, Message, Roles
  <2>2. <<Msg("memory", 0)>> \in Seq(Message)
        /\ \A i \in 1..Len(<<Msg("memory", 0)>>) : <<Msg("memory", 0)>>[i].turn = 0
    BY <2>1
  <2> QED BY <2>2, Zenon
<1>5. PICK r : r = CutTo(h, n, n, s)
  OBVIOUS
<1>6. InOrder(r, Begun)
  BY <1>1, <1>3, <1>4, <1>5, BegunAreTurns, CutInOrder
<1>7. PICK q \in {r, h} : managed' = [managed EXCEPT ![t] = q]
  BY <1>3, <1>4, <1>5
<1>8. InOrder(q, Begun) /\ InOrder(history', Begun)
  BY <1>1, <1>6, <1>7
<1>9. /\ pc[t] \in UnderWay /\ "managing" \in UnderWay \cup {"done", "failed"}
      /\ pc' = [pc EXCEPT ![t] = "managing"] /\ UNCHANGED <<overlap, file, saving>>
  BY <1>1 DEF UnderWay
<1> QED BY <1>7, <1>8, <1>9, TurnKept

\* A turn's end, whichever it is.
LEMMA TurnEndsInOrder ==
    ASSUME CodingInv, OrderInv, ~overlap, UNCHANGED <<file, saving>>, NEW t \in Turns,
           Throws(t) \/ AgentReturns(t) \/ StreamOpens(t) \/ StreamEnds(t) \/ HookEnds(t)
    PROVE  OrderInv'
<1>0. /\ managed \in [Turns -> Seq(Message)]
      /\ InOrder(history, Begun) /\ UNCHANGED overlap
  BY DEF CodingInv, SessionInv, TypeOK, OrderInv, Throws, AgentReturns, StreamOpens, StreamEnds,
         HookEnds
<1>1. PICK to \in {"draining", "hook", "done", "failed"}, r \in {<<>>, managed[t]} :
         /\ pc[t] \in UnderWay
         /\ pc' = [pc EXCEPT ![t] = to]
         /\ managed' = [managed EXCEPT ![t] = r]
  <2>1. managed = [managed EXCEPT ![t] = managed[t]]
    BY <1>0
  <2> QED BY <2>1 DEF Throws, AgentReturns, StreamOpens, StreamEnds, HookEnds, Goes, UnderWay
<1>2. InOrder(history', Begun)
  <2>1. CASE AgentReturns(t)
    <3>1. InOrder(managed[t], Begun)
      BY <2>1 DEF AgentReturns, OrderInv
    <3>2. PICK n \in 0..MaxRounds, e \in Endings : history' = managed[t] \o TurnMessages(t, n, e)
      BY <2>1 DEF AgentReturns
    <3> QED BY <1>1, <3>1, <3>2, AddedInOrder
  <2>2. CASE StreamEnds(t)
    <3>1. PICK n \in 0..MaxRounds, e \in Endings : history' = history \o TurnMessages(t, n, e)
      BY <2>2 DEF StreamEnds
    <3> QED BY <1>0, <1>1, <3>1, AddedInOrder
  <2>3. CASE Throws(t) \/ StreamOpens(t) \/ HookEnds(t)
    BY <1>0, <2>3 DEF Throws, StreamOpens, HookEnds
  <2> QED BY <2>1, <2>2, <2>3
<1>3. to \in UnderWay \cup {"done", "failed"} /\ to \notin {"managing", "calling"}
  BY DEF UnderWay
<1> QED BY <1>0, <1>1, <1>2, <1>3, TurnKept

\* What the caller does by hand is of no turn.
LEMMA ByHandInOrder ==
    ASSUME CodingInv, OrderInv, ~overlap, UNCHANGED <<file, saving>>, SetSystem \/ AddMessage
    PROVE  OrderInv'
<1>1. /\ UNCHANGED <<overlap, pc, managed>> /\ InOrder(history, Begun) /\ history \in Seq(Message)
  BY DEF SetSystem, AddMessage, OrderInv, InOrder
<1>2. Begun' = Begun /\ InTurn'
  BY <1>1 DEF Begun, OrderInv, InTurn, Over
<1>3. InOrder(history', Begun)
  <2>1. CASE AddMessage
    <3>1. PICK role \in {"user", "assistant"} : history' = Append(history, Msg(role, 0))
      BY <2>1 DEF AddMessage
    <3> QED BY <1>1, <3>1, BegunAreTurns, MessageInOrder
  <2>2. CASE SetSystem
    <3> PICK l \in Nat : l = Len(history)
      BY <1>1
    <3>0. Msg("system", 0) \in Message /\ Msg("system", 0).turn = 0
      BY DEF Msg, Message, Roles
    <3> PICK m \in Message : m = Msg("system", 0) /\ m.turn = 0
      BY <3>0, Zenon
    <3>1. CASE history # <<>> /\ IsSystem(history[1])
      <4>1. history' = [history EXCEPT ![1] = m]
        BY <2>2, <3>1 DEF SetSystem
      <4>2. l # 0
        BY <1>1, <3>1
      <4>3. /\ history' \in Seq(Message) /\ Len(history') = l /\ history'[1] = m
            /\ \A i \in 2..l : history'[i] = history[i]
        BY <1>1, <4>1, <4>2
      <4>4. /\ 1 \in 0..l /\ 1 \in Nat /\ Len(history') = 1 + l - 1
            /\ \A i \in 1..1 : history'[i].turn = 0
            /\ \A i \in (1 + 1)..Len(history') : history'[i] = history[i - 1 + 1]
        BY <4>2, <4>3
      <4> QED BY <1>1, <4>3, <4>4, BegunAreTurns, RestInOrder
    <3>2. CASE ~(history # <<>> /\ IsSystem(history[1]))
      <4>1. history' = <<m>> \o history
        BY <2>2, <3>2 DEF SetSystem
      <4>2. /\ history' \in Seq(Message) /\ Len(history') = 1 + l /\ history'[1] = m
            /\ \A i \in 2..(1 + l) : history'[i] = history[i - 1]
        <5>1. <<m>> \in Seq(Message) /\ Len(<<m>>) = 1 /\ <<m>>[1] = m
          OBVIOUS
        <5>2. /\ <<m>> \o history \in Seq(Message) /\ Len(<<m>> \o history) = Len(<<m>>) + Len(history)
              /\ \A i \in 1..Len(<<m>>) : (<<m>> \o history)[i] = <<m>>[i]
              /\ \A i \in 1..Len(history) : (<<m>> \o history)[Len(<<m>>) + i] = history[i]
          BY <1>1, <5>1, Joined
        <5>3. \A i \in 2..(1 + l) : i - 1 \in 1..l /\ 1 + (i - 1) = i
          OBVIOUS
        <5> QED BY <4>1, <5>1, <5>2, <5>3
      <4>3. /\ 0 \in 0..l /\ 1 \in Nat /\ Len(history') = 1 + l - 0
            /\ \A i \in 1..1 : history'[i].turn = 0
            /\ \A i \in (1 + 1)..Len(history') : history'[i] = history[i - 1 + 0]
        BY <4>2
      <4> QED BY <1>1, <4>2, <4>3, BegunAreTurns, RestInOrder
    <3> QED BY <3>1, <3>2
  <2> QED BY <2>1, <2>2
<1>4. \A t \in Turns : pc'[t] \in {"managing", "calling"} => InOrder(managed'[t], Begun)
  BY <1>1 DEF OrderInv
<1> QED BY <1>1, <1>2, <1>3, <1>4, OrderKept

\* The file and what is about to be written to it.
LEMMA StoreInOrder ==
    ASSUME CodingInv, OrderInv, ~overlap, Save \/ SaveReturns
    PROVE  OrderInv'
<1>1. UNCHANGED <<overlap, history, pc, managed>>
  BY DEF Save, SaveReturns, vars
<1>2. Begun' = Begun /\ InTurn'
  BY <1>1 DEF Begun, OrderInv, InTurn, Over
<1>3. \A h, b : InOrder(h, b)' <=> InOrder(h', b')
  BY DEF InOrder, Mentions
<1>4. SnapshotInOrder(file') /\ SnapshotInOrder(saving')
  <2>1. SnapshotInOrder(file) /\ SnapshotInOrder(saving) /\ SnapshotInOrder(<<>>)
        /\ InOrder(history, Begun)
    BY DEF OrderInv, SnapshotInOrder
  <2>2. CASE Save
    <3> PICK f : f = [history |-> history, turns |-> turns, begun |-> Begun]
      OBVIOUS
    <3>1. SnapshotInOrder(<<f>>)
      BY <2>1 DEF SnapshotInOrder
    <3>2. (saving' = <<f>> /\ file' = <<>>) \/ UNCHANGED <<file, saving>>
      BY <2>2 DEF Save, Truncate, CannotSave, storeVars
    <3> QED BY <2>1, <3>1, <3>2
  <2>3. CASE SaveReturns
    <3>1. file' \in {saving, <<>>} /\ saving' = <<>>
      BY <2>3 DEF SaveReturns, WriteFile
    <3> QED BY <2>1, <3>1
  <2> QED BY <2>2, <2>3
<1>5. (SnapshotInOrder(file) /\ SnapshotInOrder(saving))'
  BY <1>2, <1>3, <1>4 DEF SnapshotInOrder
<1> QED BY <1>1, <1>2, <1>3, <1>5 DEF OrderInv

\* What is loaded has the turns that had begun when it was saved; the others
\* are lost.
LEMMA RestartInOrder ==
    ASSUME CodingInv, OrderInv, ~overlap, Restart
    PROVE  OrderInv'
<1> PICK b, h : /\ b = IF file = <<>> THEN {} ELSE file[1].begun
                /\ h = IF file = <<>> THEN <<>> ELSE file[1].history
  OBVIOUS
<1>1. b \subseteq Begun /\ InOrder(h, b)
  BY NothingInOrder DEF OrderInv, SnapshotInOrder
<1>2. /\ history' = h /\ saving' = <<>> /\ UNCHANGED <<overlap, file>>
      /\ pc' = [t \in Turns |-> IF t \in Begun
                               THEN IF t \notin b THEN "lost"
                                    ELSE IF Over(t) THEN pc[t] ELSE "failed"
                               ELSE pc[t]]
  <2>1. CASE file = <<>>
    BY <2>1 DEF Restart
  <2>2. CASE file # <<>>
    BY <2>2 DEF Restart
  <2> QED BY <2>1, <2>2
<1>3. \A t \in Turns : /\ t \in Begun <=> pc[t] \notin {"idle", "lost"}
                       /\ pc'[t] = IF t \in Begun
                                  THEN IF t \notin b THEN "lost"
                                       ELSE IF Over(t) THEN pc[t] ELSE "failed"
                                  ELSE pc[t]
  BY <1>2 DEF Begun
<1>4. Begun' = b
  <2>1. \A t \in Turns : pc'[t] \notin {"idle", "lost"} <=> t \in b
    BY <1>1, <1>3 DEF Over
  <2>2. b \subseteq Turns
    BY <1>1 DEF Begun
  <2> QED BY <2>1, <2>2 DEF Begun
<1>5. \A t \in Turns : /\ pc'[t] = "idle" <=> pc[t] = "idle"
                       /\ pc'[t] \in {"idle", "done", "failed", "lost"}
  BY <1>3 DEF Over
<1>6. InTurn'
  BY <1>5 DEF OrderInv, InTurn, Over
<1>7. \A q, a : InOrder(q, a)' <=> InOrder(q', a')
  BY DEF InOrder, Mentions
<1>8. (SnapshotInOrder(file) /\ SnapshotInOrder(saving))'
  BY <1>1, <1>2, <1>4, <1>7 DEF SnapshotInOrder
<1>9. (InOrder(history, Begun))'
  BY <1>1, <1>2, <1>4, <1>7
<1> QED BY <1>5, <1>6, <1>8, <1>9 DEF OrderInv

\* Each step of the session.
LEMMA OrderNext == ASSUME CodingInv, OrderInv, [CodingNext]_allVars PROVE OrderInv'
<1>0. overlap' = overlap
  <2>1. ASSUME NEW t \in Turns,
               \/ TurnGoesOn(t) \/ TurnThrows(t) \/ ToolWrites(t)
               \/ TurnFinishes(t) \/ HookReturns(t) \/ Remember(t)
        PROVE  overlap' = overlap
    BY <2>1 DEF TurnGoesOn, TurnThrows, ToolWrites, TurnFinishes, HookReturns, Remember, Ask, Embed,
                Inject, Begin, ManageReturns, StreamOpens, Throws, AgentReturns, StreamEnds, HookEnds,
                vars
  <2>2. CASE ByHand \/ Save \/ SaveReturns \/ Restart \/ UNCHANGED allVars
    BY <2>2 DEF ByHand, SetSystem, AddMessage, Save, SaveReturns, Restart, allVars, vars
  <2> QED BY <2>1, <2>2 DEF CodingNext, Ends
<1> SUFFICES ASSUME ~overlap PROVE OrderInv'
  BY <1>0 DEF OrderInv
<1>1. ASSUME NEW t \in Turns, TurnGoesOn(t) PROVE OrderInv'
  <2>1. UNCHANGED <<file, saving>>
    BY <1>1 DEF TurnGoesOn, storeVars
  <2> QED BY <1>1, <2>1, BeginInOrder, ManageInOrder, TurnEndsInOrder DEF TurnGoesOn
<1>2. ASSUME NEW t \in Turns, TurnThrows(t) \/ TurnFinishes(t) \/ HookReturns(t) PROVE OrderInv'
  <2>1. UNCHANGED <<file, saving>>
    BY <1>2 DEF TurnThrows, TurnFinishes, HookReturns, storeVars
  <2>2. Throws(t) \/ AgentReturns(t) \/ StreamEnds(t) \/ HookEnds(t)
    BY <1>2 DEF TurnThrows, TurnFinishes, HookReturns
  <2> QED BY <2>1, <2>2, TurnEndsInOrder
<1>3. ASSUME UNCHANGED <<overlap, history, pc, managed, file, saving>> PROVE OrderInv'
  <2>1. Begun' = Begun /\ InTurn' /\ InOrder(history', Begun)
    BY <1>3 DEF Begun, OrderInv, InTurn, Over
  <2>2. \A t \in Turns : pc'[t] \in {"managing", "calling"} => InOrder(managed'[t], Begun)
    BY <1>3 DEF OrderInv
  <2> QED BY <1>3, <2>1, <2>2, OrderKept
<1>4. ASSUME NEW t \in Turns, ToolWrites(t) PROVE OrderInv'
  BY <1>3, <1>4 DEF ToolWrites, storeVars
<1>5. ASSUME NEW t \in Turns, Remember(t) PROVE OrderInv'
  <2>1. CASE Ask(t) \/ Embed(t)
    BY <1>3, <2>1 DEF Ask, Embed, vars, storeVars
  <2> QED BY <1>5, <2>1, InjectInOrder DEF Remember
<1>6. CASE ByHand
  <2>1. UNCHANGED <<file, saving>> /\ (SetSystem \/ AddMessage)
    BY <1>6 DEF ByHand, storeVars
  <2> QED BY <2>1, ByHandInOrder
<1>7. CASE Save \/ SaveReturns
  BY <1>7, StoreInOrder
<1>8. CASE Restart
  BY <1>8, RestartInOrder
<1>9. CASE UNCHANGED allVars
  BY <1>3, <1>9 DEF allVars, vars, storeVars
<1>10. ASSUME NEW t \in Turns,
              \/ TurnGoesOn(t) \/ TurnThrows(t) \/ ToolWrites(t)
              \/ TurnFinishes(t) \/ HookReturns(t) \/ Remember(t)
       PROVE  OrderInv'
  BY <1>1, <1>2, <1>4, <1>5, <1>10
<1> QED BY <1>6, <1>7, <1>8, <1>9, <1>10 DEF CodingNext, Ends

\* Turns one after the other, cut from the front, failing, saved and resumed:
\* a history that has a turn has all that have begun since.
THEOREM NothingIsLostBetween == CodingSpec => []NothingLostBetween
<1>1. CodingInit => OrderInv
  BY OrderInit
<1>2. CodingInv /\ OrderInv /\ [CodingNext]_allVars => OrderInv'
  BY OrderNext
<1>3. CodingInv /\ OrderInv => NothingLostBetween
  BY OrderIsEnough
<1> QED BY <1>1, <1>2, <1>3, CodingInvariant, PTL DEF CodingSpec
=============================================================================
