---------------------------- MODULE McpClientProofs ----------------------------
(***************************************************************************)
(* The MCP client for any number of threads, requests of the server and    *)
(* messages of other kinds, over both transports.                          *)
(***************************************************************************)
EXTENDS McpClient, FiniteSetTheorems, TLAPS

\* What a run checks is inductive as it stands.
IInv == McpInv /\ ServedOnce

\* What a queue has left when its head is taken.
LEMMA Taken ==
    ASSUME NEW S, NEW q \in Seq(S), q # <<>>
    PROVE  /\ Tail(q) \in Seq(S)
           /\ Head(q) \in S /\ 1 \in DOMAIN q /\ Head(q) = q[1]
           /\ \A i \in DOMAIN Tail(q) : /\ i \in Nat \ {0} /\ i + 1 \in DOMAIN q
                                        /\ Tail(q)[i] = q[i + 1]
           /\ \A i \in DOMAIN q : i = 1 \/ q[i] \in {Tail(q)[k] : k \in DOMAIN Tail(q)}
<1>1. \A i \in DOMAIN q : i # 1 => i - 1 \in DOMAIN Tail(q) /\ Tail(q)[i - 1] = q[i]
  OBVIOUS
<1>2. /\ Tail(q) \in Seq(S)
      /\ Head(q) \in S /\ 1 \in DOMAIN q /\ Head(q) = q[1]
  OBVIOUS
<1>3. \A i \in DOMAIN Tail(q) : /\ i \in Nat \ {0} /\ i + 1 \in DOMAIN q
                                /\ Tail(q)[i] = q[i + 1]
  OBVIOUS
<1> QED BY <1>1, <1>2, <1>3

\* What a queue has when messages are put behind it.
LEMMA Joined ==
    ASSUME NEW S, NEW q \in Seq(S), NEW b \in Seq(S)
    PROVE  /\ q \o b \in Seq(S)
           /\ \A i \in DOMAIN q : i \in DOMAIN (q \o b) /\ (q \o b)[i] = q[i]
           /\ \A i \in DOMAIN (q \o b) :
                 \/ i \in DOMAIN q /\ (q \o b)[i] = q[i]
                 \/ /\ i \in Nat /\ i - Len(q) \in DOMAIN b
                    /\ (q \o b)[i] = b[i - Len(q)]
           /\ \A i \in DOMAIN b : b[i] \in {(q \o b)[k] : k \in DOMAIN (q \o b)}
<1>1. q \o b \in Seq(S) /\ Len(q) \in Nat
  OBVIOUS
<1>2. \A i \in DOMAIN b : Len(q) + i \in DOMAIN (q \o b) /\ (q \o b)[Len(q) + i] = b[i]
  OBVIOUS
<1>3. \A i \in DOMAIN q : i \in DOMAIN (q \o b) /\ (q \o b)[i] = q[i]
  OBVIOUS
<1>4. \A i \in DOMAIN (q \o b) :
         \/ i \in DOMAIN q /\ (q \o b)[i] = q[i]
         \/ /\ i \in Nat /\ i - Len(q) \in DOMAIN b
            /\ (q \o b)[i] = b[i - Len(q)]
  OBVIOUS
<1> QED BY <1>1, <1>2, <1>3, <1>4

\* What a queue has when one message is put behind it.
LEMMA Appended ==
    ASSUME NEW S, NEW q \in Seq(S), NEW m \in S
    PROVE  /\ Append(q, m) \in Seq(S)
           /\ \A i \in DOMAIN q : i \in DOMAIN Append(q, m) /\ Append(q, m)[i] = q[i]
           /\ \A i \in DOMAIN Append(q, m) :
                 \/ i \in DOMAIN q /\ Append(q, m)[i] = q[i]
                 \/ i = Len(q) + 1 /\ Append(q, m)[i] = m
           /\ m \in {Append(q, m)[k] : k \in DOMAIN Append(q, m)}
<1>1. /\ Append(q, m) \in Seq(S)
      /\ Len(q) + 1 \in DOMAIN Append(q, m) /\ Append(q, m)[Len(q) + 1] = m
  OBVIOUS
<1>2. /\ \A i \in DOMAIN q : i \in DOMAIN Append(q, m) /\ Append(q, m)[i] = q[i]
      /\ \A i \in DOMAIN Append(q, m) :
            \/ i \in DOMAIN q /\ Append(q, m)[i] = q[i]
            \/ i = Len(q) + 1 /\ Append(q, m)[i] = m
  OBVIOUS
<1> QED BY <1>1, <1>2

\* The messages written are messages.
LEMMA MessageTypes ==
    /\ \A n \in Nat : Response(n) \in Messages /\ Response(n).type = "response" /\ Response(n).id = n
    /\ \A r \in Asks : Request(r) \in Messages /\ Request(r).type = "request" /\ Request(r).id = r
    /\ \A m \in Extras : m \in Messages /\ m.type \in {"progress", "junk"} /\ m.id = 0
    /\ \A m \in Messages : m.type = "response" => m.id \in Nat /\ m = Response(m.id)
    /\ \A m \in Messages : m.type = "request" => m.id \in Asks /\ m = Request(m.id)
    /\ \A m \in Messages : m.type \in {"response", "request"} \/ m \in Extras
  BY DEF Messages, Response, Request, Extras

\* What may come back with a message: at most one answer, to one of the calls N,
\* and at most one request of the server's own, which has not been read.
LEMMA BatchFacts ==
    ASSUME NEW N \in SUBSET Nat, NEW b \in Batches(N)
    PROVE  /\ b \in Seq(Messages)
           /\ \A i \in DOMAIN b : b[i].type = "response" => b[i].id \in N /\ b[i] = Response(b[i].id)
           /\ \A i, j \in DOMAIN b : b[i].type = "request" /\ b[j].type = "request" => i = j
           /\ \A i \in DOMAIN b : b[i].type = "request" => served[b[i].id] = 0
<1> DEFINE own   == {Response(n) : n \in N}
           other == {Request(r) : r \in {r \in Asks : served[r] = 0}} \cup Extras
<1>1. \A m \in other : /\ m \in Messages /\ m.type # "response"
                       /\ m.type = "request" => served[m.id] = 0
  BY MessageTypes
<1>2. \A m \in own : m \in Messages /\ m.type = "response" /\ m.id \in N /\ m = Response(m.id)
  BY MessageTypes
<1>3. \/ b = <<>>
      \/ \E m \in own \cup other : b = <<m>>
      \/ \E m \in own, o \in other : b = <<m, o>> \/ b = <<o, m>>
  <2>1. b \in {<<>>} \cup {<<m>> : m \in own \cup other}
              \cup {<<m, o>> : m \in own, o \in other} \cup {<<o, m>> : m \in own, o \in other}
    BY DEF Batches
  <2> HIDE DEF own, other
  <2> QED BY <2>1
<1> HIDE DEF own, other
<1>4. CASE b = <<>>
  BY <1>4
<1>5. ASSUME NEW m \in own \cup other, b = <<m>> PROVE
           /\ b \in Seq(Messages)
           /\ \A i \in DOMAIN b : b[i].type = "response" => b[i].id \in N /\ b[i] = Response(b[i].id)
           /\ \A i, j \in DOMAIN b : b[i].type = "request" /\ b[j].type = "request" => i = j
           /\ \A i \in DOMAIN b : b[i].type = "request" => served[b[i].id] = 0
  <2>1. DOMAIN b = {1} /\ b[1] = m
    BY <1>5
  <2>2. m \in Messages /\ b \in Seq(Messages)
    BY <1>1, <1>2, <1>5
  <2> QED BY <1>1, <1>2, <2>1, <2>2
<1>6. ASSUME NEW m \in own, NEW o \in other, b = <<m, o>> \/ b = <<o, m>> PROVE
           /\ b \in Seq(Messages)
           /\ \A i \in DOMAIN b : b[i].type = "response" => b[i].id \in N /\ b[i] = Response(b[i].id)
           /\ \A i, j \in DOMAIN b : b[i].type = "request" /\ b[j].type = "request" => i = j
           /\ \A i \in DOMAIN b : b[i].type = "request" => served[b[i].id] = 0
  <2>1. DOMAIN b = {1, 2}
    <3>1. CASE b = <<m, o>>
      BY <3>1
    <3>2. CASE b = <<o, m>>
      BY <3>2
    <3> QED BY <1>6, <3>1, <3>2
  <2>4. (b[1] = m /\ b[2] = o) \/ (b[1] = o /\ b[2] = m)
    <3>1. b = <<m, o>> => b[1] = m /\ b[2] = o
      OBVIOUS
    <3>2. b = <<o, m>> => b[1] = o /\ b[2] = m
      OBVIOUS
    <3> QED BY <1>6, <3>1, <3>2
  <2>2. m \in Messages /\ o \in Messages /\ m.type = "response" /\ o.type # "response"
    BY <1>1, <1>2
  <2>3. b \in Seq(Messages)
    <3>1. CASE b = <<m, o>>
      BY <2>2, <3>1
    <3>2. CASE b = <<o, m>>
      BY <2>2, <3>2
    <3> QED BY <1>6, <3>1, <3>2
  <2> QED BY <1>1, <1>2, <2>1, <2>2, <2>3, <2>4
<1> QED BY <1>3, <1>4, <1>5, <1>6

\* How many of other kinds a batch has is a number.
LEMMA ExtrasCounted == ASSUME NEW b \in Seq(Messages) PROVE ExtrasIn(b) \in Nat
<1> DEFINE at == {i \in DOMAIN b : b[i] \in Extras}
<1>1. IsFiniteSet(DOMAIN b) /\ at \in SUBSET DOMAIN b
  <2>1. DOMAIN b = 1..Len(b) /\ Len(b) \in Nat
    OBVIOUS
  <2> QED BY <2>1, FS_Interval
<1>2. IsFiniteSet(at)
  BY <1>1, FS_Subset
<1> QED BY <1>2, FS_CardinalityType DEF ExtrasIn

\* What a queue that is part of the inbox has.
Within(q) == /\ q \in Seq(Messages)
             /\ \A i \in DOMAIN q : \E k \in DOMAIN inbox : q[i] = inbox[k]
             /\ \A i, j \in DOMAIN q :
                   q[i].type = "request" /\ q[j].type = "request" /\ q[i].id = q[j].id => i = j

\* What a step leaves in the inbox that takes it down to q, and sends something
\* the server may answer with an answer to one of the calls N.
Carries(q, N) ==
    /\ inbox' \in Seq(Messages) /\ extra' \in Nat
    /\ asked' \subseteq N /\ answered \subseteq answered' /\ answered' \subseteq answered \cup N
    /\ \A i \in DOMAIN inbox' : inbox'[i].type = "response" => inbox'[i].id \in answered'
    /\ \A i \in DOMAIN inbox' : inbox'[i].type = "request" =>
          /\ inbox'[i].id \in Asks /\ Unread(inbox'[i].id)
          /\ \/ \E k \in DOMAIN q : inbox'[i] = q[k]
             \/ \A k \in DOMAIN inbox : inbox[k].type = "request" => inbox[k].id # inbox'[i].id
    /\ \A i, j \in DOMAIN inbox' :
          inbox'[i].type = "request" /\ inbox'[j].type = "request" /\ inbox'[i].id = inbox'[j].id
          => i = j
    /\ \A n : Response(n) \in {q[k] : k \in DOMAIN q} => Response(n) \in {inbox'[k] : k \in DOMAIN inbox'}
    /\ \A n \in answered' \ answered : Response(n) \in {inbox'[k] : k \in DOMAIN inbox'}

\* The inbox itself is one, and what a read leaves of it.
LEMMA WithinInbox == IInv => Within(inbox)
  BY DEF IInv, McpInv, TypeOK, RequestsUnread, Within

LEMMA WithinTail ==
    ASSUME IInv, inbox # <<>>
    PROVE  /\ Within(Tail(inbox)) /\ Head(inbox) \in Messages
           /\ Head(inbox).type = "response" => Head(inbox).id \in answered
           /\ Head(inbox).type = "request" => Head(inbox).id \in Asks /\ Unread(Head(inbox).id)
           /\ \A i \in DOMAIN Tail(inbox) :
                 Head(inbox).type = "request" /\ Tail(inbox)[i].type = "request"
                 => Tail(inbox)[i].id # Head(inbox).id
           /\ \E i \in DOMAIN inbox : inbox[i] = Head(inbox)
           /\ \A n : Response(n) \in {inbox[i] : i \in DOMAIN inbox} /\ Head(inbox) # Response(n)
                     => Response(n) \in {Tail(inbox)[i] : i \in DOMAIN Tail(inbox)}
<1> DEFINE q == Tail(inbox)
<1>1. /\ q \in Seq(Messages) /\ Head(inbox) \in Messages
      /\ 1 \in DOMAIN inbox /\ Head(inbox) = inbox[1]
      /\ \A i \in DOMAIN q : /\ i \in Nat \ {0} /\ i + 1 \in DOMAIN inbox
                             /\ q[i] = inbox[i + 1]
      /\ \A i \in DOMAIN inbox : i = 1 \/ inbox[i] \in {q[k] : k \in DOMAIN q}
  BY Taken DEF IInv, McpInv, TypeOK
<1> HIDE DEF q
<1>2. Head(inbox).type = "request" => Head(inbox).id \in Asks /\ Unread(Head(inbox).id)
  BY <1>1, MessageTypes DEF IInv, McpInv, RequestsUnread
<1>3. ASSUME NEW i \in DOMAIN q, Head(inbox).type = "request", q[i].type = "request"
      PROVE  q[i].id # Head(inbox).id
  <2>1. i + 1 \in DOMAIN inbox /\ q[i] = inbox[i + 1] /\ i + 1 # 1
    BY <1>1
  <2> QED BY <1>1, <1>3, <2>1 DEF IInv, McpInv, RequestsUnread
<1>4. ASSUME NEW i \in DOMAIN q, NEW j \in DOMAIN q,
             q[i].type = "request", q[j].type = "request", q[i].id = q[j].id
      PROVE  i = j
  <2>1. i + 1 = j + 1
    BY <1>1, <1>4 DEF IInv, McpInv, RequestsUnread
  <2> QED BY <1>1, <2>1
<1>5. Head(inbox).type = "response" => Head(inbox).id \in answered
  BY <1>1 DEF IInv, McpInv, AnswersSent
<1>6. ASSUME NEW n, Response(n) \in {inbox[i] : i \in DOMAIN inbox}, Head(inbox) # Response(n)
      PROVE  Response(n) \in {q[i] : i \in DOMAIN q}
  <2>1. PICK i \in DOMAIN inbox : inbox[i] = Response(n)
    BY <1>6
  <2> QED BY <1>1, <1>6, <2>1
<1>7. Within(q)
  BY <1>1, <1>4 DEF Within
<1> QED BY <1>1, <1>2, <1>3, <1>5, <1>6, <1>7 DEF q

\* A step that sends nothing over HTTP.
LEMMA Unposted ==
    ASSUME IInv, NEW q, Within(q), NEW N, asked \subseteq N, inbox' = q, extra' = extra,
           answered' = answered, asked' \subseteq N
    PROVE  Carries(q, N)
<1>1. \A i \in DOMAIN q : /\ q[i].type = "response" => q[i].id \in answered
                          /\ q[i].type = "request" => q[i].id \in Asks /\ Unread(q[i].id)
  BY MessageTypes DEF Within, IInv, McpInv, TypeOK, AnswersSent, RequestsUnread
<1>2. inbox' \in Seq(Messages) /\ extra' \in Nat
  BY DEF Within, IInv, McpInv, TypeOK
<1> QED BY <1>1, <1>2 DEF Carries, Within

\* And one that does.
LEMMA Posted ==
    ASSUME IInv, NEW q, Within(q), NEW N \in SUBSET Nat, Posts(q, N)
    PROVE  Carries(q, N)
<1>1. PICK b \in Batches(N) :
          /\ Fresh(b)
          /\ inbox' = q \o b
          /\ extra' = extra + ExtrasIn(b)
          /\ asked' = N \ AnswersIn(b)
          /\ answered' = answered \cup AnswersIn(b)
  BY DEF Posts
<1>2. /\ b \in Seq(Messages)
      /\ \A i \in DOMAIN b : b[i].type = "response" => b[i].id \in N /\ b[i] = Response(b[i].id)
      /\ \A i, j \in DOMAIN b : b[i].type = "request" /\ b[j].type = "request" => i = j
      /\ \A i \in DOMAIN b : b[i].type = "request" => served[b[i].id] = 0
  BY BatchFacts
<1>3. /\ inbox' \in Seq(Messages)
      /\ \A i \in DOMAIN q : i \in DOMAIN inbox' /\ inbox'[i] = q[i]
      /\ \A i \in DOMAIN inbox' :
            \/ i \in DOMAIN q /\ inbox'[i] = q[i]
            \/ /\ i \in Nat /\ i - Len(q) \in DOMAIN b
               /\ inbox'[i] = b[i - Len(q)]
      /\ \A i \in DOMAIN b : b[i] \in {inbox'[k] : k \in DOMAIN inbox'}
  BY <1>1, <1>2, Joined DEF Within
<1>4. extra' \in Nat
  BY <1>1, <1>2, ExtrasCounted DEF IInv, McpInv, TypeOK
<1>5. \A i \in DOMAIN b : b[i].type = "request" =>
          /\ b[i].id \in Asks /\ Unread(b[i].id)
          /\ \A k \in DOMAIN inbox : inbox[k].type = "request" => inbox[k].id # b[i].id
  <2> SUFFICES ASSUME NEW i \in DOMAIN b, b[i].type = "request"
               PROVE  /\ b[i].id \in Asks /\ Unread(b[i].id)
                      /\ \A k \in DOMAIN inbox : inbox[k].type = "request" => inbox[k].id # b[i].id
    OBVIOUS
  <2>1. b[i] \in Messages /\ b[i].id \in RequestsIn(b)
    BY <1>2 DEF RequestsIn
  <2> QED BY <1>1, <1>2, <2>1, MessageTypes DEF Fresh, Unread
<1>6. /\ \A n \in AnswersIn(b) : n \in N /\ Response(n) \in {inbox'[k] : k \in DOMAIN inbox'}
      /\ \A i \in DOMAIN b : b[i].type = "response" => b[i].id \in AnswersIn(b)
  BY <1>2, <1>3 DEF AnswersIn
<1>7. \A i \in DOMAIN q : /\ q[i].type = "response" => q[i].id \in answered
                          /\ q[i].type = "request" =>
                                /\ q[i].id \in Asks /\ Unread(q[i].id)
                                /\ \E k \in DOMAIN inbox : q[i] = inbox[k]
  BY MessageTypes DEF Within, IInv, McpInv, TypeOK, AnswersSent, RequestsUnread
<1>8. /\ asked' \subseteq N /\ answered \subseteq answered' /\ answered' \subseteq answered \cup N
      /\ \A n \in answered' \ answered : Response(n) \in {inbox'[k] : k \in DOMAIN inbox'}
  BY <1>1, <1>6
<1>9. \A n : Response(n) \in {q[k] : k \in DOMAIN q} => Response(n) \in {inbox'[k] : k \in DOMAIN inbox'}
  BY <1>3
<1>10. ASSUME NEW i \in DOMAIN inbox', inbox'[i].type = "response" PROVE inbox'[i].id \in answered'
  BY <1>1, <1>3, <1>6, <1>7, <1>10
<1>11. ASSUME NEW i \in DOMAIN inbox', inbox'[i].type = "request"
       PROVE  /\ inbox'[i].id \in Asks /\ Unread(inbox'[i].id)
              /\ \/ \E k \in DOMAIN q : inbox'[i] = q[k]
                 \/ \A k \in DOMAIN inbox : inbox[k].type = "request" => inbox[k].id # inbox'[i].id
  BY <1>3, <1>5, <1>7, <1>11
<1>12. ASSUME NEW i \in DOMAIN inbox', NEW j \in DOMAIN inbox',
              inbox'[i].type = "request", inbox'[j].type = "request", inbox'[i].id = inbox'[j].id
       PROVE  i = j
  <2>1. Len(q) \in Nat
    BY DEF Within
  <2>2. CASE i \in DOMAIN q /\ j \in DOMAIN q /\ inbox'[i] = q[i] /\ inbox'[j] = q[j]
    BY <1>12, <2>2 DEF Within
  <2>3. CASE /\ i \in Nat /\ i - Len(q) \in DOMAIN b /\ inbox'[i] = b[i - Len(q)]
             /\ j \in Nat /\ j - Len(q) \in DOMAIN b /\ inbox'[j] = b[j - Len(q)]
    <3>1. i - Len(q) = j - Len(q)
      BY <1>2, <1>12, <2>3
    <3> QED BY <2>1, <2>3, <3>1
  <2>4. CASE /\ i \in DOMAIN q /\ inbox'[i] = q[i]
             /\ j - Len(q) \in DOMAIN b /\ inbox'[j] = b[j - Len(q)]
    BY <1>5, <1>7, <1>12, <2>4
  <2>5. CASE /\ j \in DOMAIN q /\ inbox'[j] = q[j]
             /\ i - Len(q) \in DOMAIN b /\ inbox'[i] = b[i - Len(q)]
    BY <1>5, <1>7, <1>12, <2>5
  <2> QED BY <1>3, <2>2, <2>3, <2>4, <2>5
<1> QED BY <1>3, <1>4, <1>8, <1>9, <1>10, <1>11, <1>12 DEF Carries

\* What such a step of a call keeps, whichever it is: numbers, answers on their
\* way, and the server's knowledge of them.
LEMMA Keeping ==
    ASSUME IInv, NEW c \in Callers, NEW q, NEW N, Carries(q, N), N \subseteq asked \cup {id[c]},
           pc[c] \notin {"idle", "over"}, pc[c] = "notifying" => pc'[c] = "over",
           pc' = [pc EXCEPT ![c] = pc'[c]], pc'[c] \notin {"idle", "locking"},
           outcome' = outcome \/ (pc'[c] = "over" /\ outcome' = [outcome EXCEPT ![c] = outcome'[c]]),
           \A n : Response(n) \in {inbox[i] : i \in DOMAIN inbox}
                  => Response(n) \in {q[i] : i \in DOMAIN q},
           UNCHANGED <<kind, connected, next_id, id>>
    PROVE  /\ IdsApart' /\ AnswerKept' /\ AnswersSent'
           /\ asked' \in SUBSET Nat /\ answered' \in SUBSET Nat
<1>1. /\ asked' \subseteq N /\ answered \subseteq answered' /\ answered' \subseteq answered \cup N
      /\ \A n \in answered' \ answered : Response(n) \in {inbox'[k] : k \in DOMAIN inbox'}
      /\ \A i \in DOMAIN inbox' : inbox'[i].type = "response" => inbox'[i].id \in answered'
      /\ \A n : Response(n) \in {q[k] : k \in DOMAIN q} => Response(n) \in {inbox'[k] : k \in DOMAIN inbox'}
  BY DEF Carries
<1>2. \A e \in Callers \ {c} : pc'[e] = pc[e]
  BY DEF IInv, McpInv, TypeOK
<1>3. id[c] \in Nat /\ id[c] \in 1..(next_id - 1) /\ id[c] # 0
  BY DEF IInv, McpInv, TypeOK, IdsApart
<1>4. asked' \cup answered' \subseteq asked \cup answered \cup {id[c]}
  BY <1>1
<1>5. IdsApart'
  BY <1>2, <1>3, <1>4 DEF IInv, McpInv, IdsApart
<1>6. AnswerKept'
  <2> SUFFICES ASSUME NEW e \in Callers, Awaiting(e)', id[e] \in answered',
                      kind = "http" \/ connected
               PROVE  Response(id[e]) \in {inbox'[i] : i \in DOMAIN inbox'}
    BY DEF AnswerKept, Response
  <2>1. CASE id[e] \notin answered
    BY <1>1, <2>1
  <2>2. CASE id[e] \in answered
    <3>1. Awaiting(e)
      <4>1. pc[e] = "locking" => id[e] \notin answered
        BY DEF IInv, McpInv, AnswersSent
      <4>2. CASE e = c
        BY <2>2, <4>1, <4>2 DEF Awaiting, IInv, McpInv, TypeOK
      <4>3. CASE e # c
        BY <1>2, <4>3 DEF Awaiting
      <4> QED BY <4>2, <4>3
    <3>2. Response(id[e]) \in {inbox[i] : i \in DOMAIN inbox}
      BY <2>2, <3>1 DEF IInv, McpInv, AnswerKept
    <3> QED BY <1>1, <3>2
  <2> QED BY <2>1, <2>2
<1>7. AnswersSent'
  <2>1. \A e \in Callers : pc'[e] \in {"idle", "locking"} => id[e] \notin asked' \cup answered'
    BY <1>2, <1>3, <1>4 DEF IInv, McpInv, IdsApart, AnswersSent
  <2>2. \A e \in Callers : outcome'[e] # "none" => pc'[e] = "over"
    BY <1>2 DEF IInv, McpInv, TypeOK, AnswersSent
  <2> QED BY <1>1, <2>1, <2>2 DEF AnswersSent
<1>8. asked' \in SUBSET Nat /\ answered' \in SUBSET Nat
  BY <1>3, <1>4 DEF IInv, McpInv, TypeOK
<1> QED BY <1>5, <1>6, <1>7, <1>8

\* Numbers that a handler's calls take leave the calls' own apart.
LEMMA NumbersTaken ==
    ASSUME IInv, next_id' \in Nat, next_id' >= next_id, UNCHANGED <<id, asked, answered>>,
           \A e \in Callers : pc'[e] # "idle" /\ id[e] = 0 => pc'[e] = "over"
    PROVE  IdsApart'
<1>1. next_id \in Nat /\ id \in [Callers -> Nat]
  BY DEF IInv, McpInv, TypeOK
<1>2. \A b, c \in Callers : b # c /\ id[b] # 0 => id[b] # id[c]
  BY DEF IInv, McpInv, IdsApart
<1>3. \A c \in Callers : id[c] < next_id'
  BY <1>1 DEF IInv, McpInv, IdsApart
<1>4. \A n \in asked \cup answered : n \in 1..(next_id' - 1)
  BY <1>1 DEF IInv, McpInv, IdsApart
<1> QED BY <1>2, <1>3, <1>4 DEF IdsApart

\* What a read that sends nothing leaves of the queue, and what it has read.
LEMMA Reads ==
    ASSUME IInv, inbox # <<>>, inbox' = Tail(inbox)
    PROVE  /\ inbox' \in Seq(Messages) /\ Head(inbox) \in Messages
           /\ Head(inbox).type = "response" => Head(inbox).id \in answered
           /\ \A i \in DOMAIN inbox' : inbox'[i].type = "response" => inbox'[i].id \in answered
           /\ \A i \in DOMAIN inbox' : inbox'[i].type = "request" => Unread(inbox'[i].id)
           /\ \A i, j \in DOMAIN inbox' :
                 inbox'[i].type = "request" /\ inbox'[j].type = "request" /\ inbox'[i].id = inbox'[j].id
                 => i = j
           /\ \A n : Response(n) \in {inbox[i] : i \in DOMAIN inbox} /\ Head(inbox) # Response(n)
                     => Response(n) \in {inbox'[i] : i \in DOMAIN inbox'}
<1>1. Within(inbox')
  BY WithinTail
<1>2. \A i \in DOMAIN inbox' : /\ inbox'[i].type = "response" => inbox'[i].id \in answered
                               /\ inbox'[i].type = "request" => Unread(inbox'[i].id)
  BY <1>1 DEF Within, IInv, McpInv, AnswersSent, RequestsUnread
<1> QED BY <1>1, <1>2, WithinTail DEF Within

\* And a message written.
LEMMA Writing ==
    ASSUME IInv, NEW m \in Messages, inbox' = Append(inbox, m)
    PROVE  /\ inbox' \in Seq(Messages)
           /\ \A i \in DOMAIN inbox : i \in DOMAIN inbox' /\ inbox'[i] = inbox[i]
           /\ \A i \in DOMAIN inbox' :
                 \/ i \in DOMAIN inbox /\ inbox'[i] = inbox[i]
                 \/ i = Len(inbox) + 1 /\ inbox'[i] = m
           /\ m \in {inbox'[i] : i \in DOMAIN inbox'}
           /\ \A n : Response(n) \in {inbox[i] : i \in DOMAIN inbox}
                     => Response(n) \in {inbox'[i] : i \in DOMAIN inbox'}
<1>1. /\ inbox' \in Seq(Messages)
      /\ \A i \in DOMAIN inbox : i \in DOMAIN inbox' /\ inbox'[i] = inbox[i]
      /\ \A i \in DOMAIN inbox' :
            \/ i \in DOMAIN inbox /\ inbox'[i] = inbox[i]
            \/ i = Len(inbox) + 1 /\ inbox'[i] = m
      /\ m \in {inbox'[i] : i \in DOMAIN inbox'}
  BY Appended DEF IInv, McpInv, TypeOK
<1>2. ASSUME NEW n, Response(n) \in {inbox[i] : i \in DOMAIN inbox}
      PROVE  Response(n) \in {inbox'[i] : i \in DOMAIN inbox'}
  <2>1. PICK i \in DOMAIN inbox : inbox[i] = Response(n)
    BY <1>2
  <2> QED BY <1>1, <2>1
<1> QED BY <1>1, <1>2

\* The two ways a call goes on that has sent something: it reads, or it has thrown.
GoesOn(c) == \/ /\ pc' = [pc EXCEPT ![c] = "receiving"] /\ pc'[c] = "receiving"
                /\ io_mutex' = c /\ outcome' = outcome
             \/ /\ pc' = [pc EXCEPT ![c] = "over"] /\ pc'[c] = "over"
                /\ io_mutex' = None
                /\ outcome' = [outcome EXCEPT ![c] = "threw"] /\ outcome'[c] = "threw"

\* Either keeps what is said of the calls and of the mutex.
LEMMA GoingOn ==
    ASSUME IInv, NEW c \in Callers, GoesOn(c), pc[c] \notin {"idle", "over"},
           io_mutex \in {None, c}, answered \subseteq answered', UNCHANGED <<up, connected, id>>
    PROVE  /\ pc' \in [Callers -> {"idle", "locking", "receiving", "handling", "notifying", "stuck", "over"}]
           /\ outcome' \in [Callers -> {"none", "answered", "threw"}]
           /\ io_mutex' \in Callers \cup {None}
           /\ OneReader' /\ AnsweredByOwn' /\ OneConnection'
           /\ \A e \in Callers : pc'[e] \notin {"handling", "stuck"}
<1>1. \A e \in Callers \ {c} : pc'[e] = pc[e] /\ outcome'[e] = outcome[e]
                               /\ pc[e] \notin {"receiving", "handling", "stuck"}
  BY McpAssumption DEF GoesOn, IInv, McpInv, TypeOK, OneReader
<1>2. /\ pc' \in [Callers -> {"idle", "locking", "receiving", "handling", "notifying", "stuck", "over"}]
      /\ outcome' \in [Callers -> {"none", "answered", "threw"}]
      /\ io_mutex' \in Callers \cup {None}
  BY DEF GoesOn, IInv, McpInv, TypeOK
<1>3. OneReader'
  BY <1>1, McpAssumption DEF GoesOn, OneReader
<1>4. AnsweredByOwn'
  BY <1>1 DEF GoesOn, IInv, McpInv, AnsweredByOwn, AnswersSent
<1>5. OneConnection'
  BY <1>1, McpAssumption DEF GoesOn, IInv, McpInv, OneConnection
<1>6. \A e \in Callers : pc'[e] \notin {"handling", "stuck"}
  BY <1>1 DEF GoesOn
<1> QED BY <1>2, <1>3, <1>4, <1>5, <1>6

\* The request goes out: over a pipe, over HTTP, or it throws.
LEMMA SendInv == ASSUME IInv, NEW c \in Callers, Send(c) PROVE IInv'
<1> DEFINE N == asked \cup {id[c]}
<1>1. /\ pc[c] = "locking" /\ io_mutex = None
      /\ UNCHANGED <<kind, up, connected, next_id, id, served, thrownBy, serving>>
  BY DEF Send
<1>2. N \in SUBSET Nat /\ asked \subseteq N /\ pc \in [Callers -> {"idle", "locking", "receiving", "handling", "notifying", "stuck", "over"}] /\ outcome \in [Callers -> {"none", "answered", "threw"}]
  BY DEF IInv, McpInv, TypeOK
<1>3. Carries(inbox, N) /\ GoesOn(c)
  <2>1. CASE /\ kind = "stdio" /\ connected
             /\ asked' = (IF up THEN asked \cup {id[c]} ELSE asked)
             /\ io_mutex' = c
             /\ Goes(c, "receiving")
             /\ UNCHANGED <<outcome, inbox, answered, extra>>
    <3>1. Carries(inbox, N)
      BY <1>2, <2>1, WithinInbox, Unposted
    <3> QED BY <1>2, <2>1, <3>1 DEF GoesOn, Goes
  <2>2. CASE /\ kind = "http"
             /\ Posts(inbox, asked \cup {id[c]})
             /\ io_mutex' = c
             /\ Goes(c, "receiving")
             /\ UNCHANGED outcome
    <3>1. Carries(inbox, N)
      BY <1>2, <2>2, WithinInbox, Posted
    <3> QED BY <1>2, <2>2, <3>1 DEF GoesOn, Goes
  <2>3. CASE Leaves(c, "threw") /\ UNCHANGED <<inbox, asked, answered, extra>>
    <3>1. Carries(inbox, N)
      BY <1>2, <2>3, WithinInbox, Unposted
    <3> QED BY <1>2, <2>3, <3>1 DEF GoesOn, Leaves, Goes
  <2> QED BY <2>1, <2>2, <2>3 DEF Send
<1> HIDE DEF N
<1>4. N \subseteq asked \cup {id[c]}
  BY DEF N
<1>5. /\ IdsApart' /\ AnswerKept' /\ AnswersSent'
      /\ asked' \in SUBSET Nat /\ answered' \in SUBSET Nat
  BY <1>1, <1>3, <1>4, Keeping DEF GoesOn
<1>6. /\ pc' \in [Callers -> {"idle", "locking", "receiving", "handling", "notifying", "stuck", "over"}]
      /\ outcome' \in [Callers -> {"none", "answered", "threw"}]
      /\ io_mutex' \in Callers \cup {None}
      /\ OneReader' /\ AnsweredByOwn' /\ OneConnection'
      /\ \A e \in Callers : pc'[e] \notin {"handling", "stuck"}
  BY <1>1, <1>3, GoingOn DEF Carries
<1>7. TypeOK'
  BY <1>1, <1>3, <1>5, <1>6 DEF Carries, IInv, McpInv, TypeOK
<1>8. RequestsUnread'
  <2>1. serving = None
    BY <1>1, McpAssumption DEF IInv, McpInv, TypeOK, OneReader, RequestsUnread
  <2> QED BY <1>1, <1>3, <1>6, <2>1 DEF Carries, IInv, McpInv, RequestsUnread, Unread
<1>9. ServedOnce'
  BY <1>1 DEF IInv, ServedOnce
<1> QED BY <1>5, <1>6, <1>7, <1>8, <1>9 DEF IInv, McpInv

\* The notification of connect: nothing is waited for.
LEMMA NotifyInv == ASSUME IInv, NEW c \in Callers, Notify(c) PROVE IInv'
<1>1. /\ pc[c] = "notifying" /\ pc' = [pc EXCEPT ![c] = "over"] /\ pc'[c] = "over"
      /\ UNCHANGED <<kind, up, connected, next_id, io_mutex, id, served, thrownBy, serving>>
  BY DEF Notify, Goes, IInv, McpInv, TypeOK
<1>2. /\ outcome' = [outcome EXCEPT ![c] = outcome'[c]]
      /\ outcome'[c] \in {"answered", "threw"}
  BY DEF Notify, IInv, McpInv, TypeOK
<1>3. asked \in SUBSET Nat /\ asked \subseteq asked \cup {id[c]}
  BY DEF IInv, McpInv, TypeOK
<1>4. Carries(inbox, asked)
  <2>1. CASE UNCHANGED <<inbox, serverVars>>
    BY <1>3, <2>1, WithinInbox, Unposted DEF serverVars
  <2>2. CASE Posts(inbox, asked)
    BY <1>3, <2>2, WithinInbox, Posted
  <2> QED BY <2>1, <2>2 DEF Notify
<1>5. /\ IdsApart' /\ AnswerKept' /\ AnswersSent'
      /\ asked' \in SUBSET Nat /\ answered' \in SUBSET Nat
  BY <1>1, <1>2, <1>3, <1>4, Keeping
<1>6. \A e \in Callers \ {c} : pc'[e] = pc[e] /\ outcome'[e] = outcome[e]
  BY <1>1, <1>2 DEF IInv, McpInv, TypeOK
<1>7. TypeOK'
  <2>1. /\ pc' \in [Callers -> {"idle", "locking", "receiving", "handling", "notifying", "stuck", "over"}]
        /\ outcome' \in [Callers -> {"none", "answered", "threw"}]
    BY <1>1, <1>2 DEF IInv, McpInv, TypeOK
  <2> QED BY <1>1, <1>4, <1>5, <2>1 DEF Carries, IInv, McpInv, TypeOK
<1>8. OneReader'
  BY <1>1, <1>6 DEF IInv, McpInv, OneReader
<1>9. AnsweredByOwn'
  BY <1>1, <1>4, <1>6 DEF Carries, IInv, McpInv, AnsweredByOwn
<1>10. OneConnection'
  BY <1>1, <1>6, McpAssumption DEF IInv, McpInv, OneConnection
<1>11. RequestsUnread'
  BY <1>1, <1>4, <1>6 DEF Carries, IInv, McpInv, RequestsUnread, Unread
<1>12. ServedOnce'
  BY <1>1 DEF IInv, ServedOnce
<1> QED BY <1>5, <1>7, <1>8, <1>9, <1>10, <1>11, <1>12 DEF IInv, McpInv

\* connect starts the transport.
LEMMA ConnectInv == ASSUME IInv, Connect PROVE IInv'
<1>1. TypeOK'
  BY McpAssumption DEF IInv, McpInv, Connect, serverVars, Goes, TypeOK, Messages, Extras,
         Response, Request
<1>2. OneReader'
  BY McpAssumption DEF IInv, McpInv, Connect, serverVars, Goes, TypeOK, OneReader
<1>3. IdsApart'
  BY McpAssumption DEF IInv, McpInv, Connect, serverVars, Goes, TypeOK, IdsApart, AnswersSent
<1>4. AnswerKept'
  BY McpAssumption DEF IInv, McpInv, Connect, serverVars, Goes, TypeOK, OneReader, AnswerKept,
         AnswersSent, OneConnection, IdsApart, Awaiting, Response
<1>5. AnsweredByOwn'
  BY McpAssumption DEF IInv, McpInv, Connect, serverVars, Goes, TypeOK, AnsweredByOwn,
         AnswersSent
<1>6. OneConnection'
  BY McpAssumption DEF IInv, McpInv, Connect, serverVars, Goes, TypeOK, OneConnection
<1>7. AnswersSent'
  BY McpAssumption DEF IInv, McpInv, Connect, serverVars, Goes, TypeOK, AnswersSent, IdsApart
<1>8. RequestsUnread'
  BY McpAssumption DEF IInv, McpInv, Connect, serverVars, Goes, TypeOK, OneReader,
         RequestsUnread, Unread
<1>9. ServedOnce'
  BY McpAssumption DEF IInv, McpInv, Connect, serverVars, Goes, TypeOK, ServedOnce,
         RequestsUnread, Unread
<1> QED BY <1>1, <1>2, <1>3, <1>4, <1>5, <1>6, <1>7, <1>8, <1>9 DEF IInv, McpInv

\* A thread takes the mutex and writes its request.
LEMMA BeginInv == ASSUME IInv, NEW c \in Callers, NEW tokens \in {0, 1}, Begin(c, tokens) PROVE IInv'
<1>1. TypeOK'
  BY McpAssumption DEF IInv, McpInv, Begin, serverVars, Goes, TypeOK, Messages, Extras,
         Response, Request
<1>2. OneReader'
  BY McpAssumption DEF IInv, McpInv, Begin, serverVars, Goes, TypeOK, OneReader
<1>3. IdsApart'
  BY McpAssumption DEF IInv, McpInv, Begin, serverVars, Goes, TypeOK, IdsApart, AnswersSent
<1>4. AnswerKept'
  BY McpAssumption DEF IInv, McpInv, Begin, serverVars, Goes, TypeOK, OneReader, AnswerKept,
         AnswersSent, OneConnection, IdsApart, Awaiting, Response
<1>5. AnsweredByOwn'
  BY McpAssumption DEF IInv, McpInv, Begin, serverVars, Goes, TypeOK, AnsweredByOwn, AnswersSent
<1>6. OneConnection'
  BY McpAssumption DEF IInv, McpInv, Begin, serverVars, Goes, TypeOK, OneConnection
<1>7. AnswersSent'
  BY McpAssumption DEF IInv, McpInv, Begin, serverVars, Goes, TypeOK, AnswersSent, IdsApart
<1>8. RequestsUnread'
  BY McpAssumption DEF IInv, McpInv, Begin, serverVars, Goes, TypeOK, OneReader, RequestsUnread,
         Unread
<1>9. ServedOnce'
  BY McpAssumption DEF IInv, McpInv, Begin, serverVars, Goes, TypeOK, ServedOnce,
         RequestsUnread, Unread
<1> QED BY <1>1, <1>2, <1>3, <1>4, <1>5, <1>6, <1>7, <1>8, <1>9 DEF IInv, McpInv

\* A thread finds the client not connected.
LEMMA BeginUnconnectedInv == ASSUME IInv, NEW c \in Callers, BeginUnconnected(c) PROVE IInv'
<1>1. TypeOK'
  BY McpAssumption DEF IInv, McpInv, BeginUnconnected, serverVars, Goes, TypeOK, Messages,
         Extras, Response, Request
<1>2. OneReader'
  BY McpAssumption DEF IInv, McpInv, BeginUnconnected, serverVars, Goes, TypeOK, OneReader
<1>3. IdsApart'
  BY McpAssumption DEF IInv, McpInv, BeginUnconnected, serverVars, Goes, TypeOK, IdsApart,
         AnswersSent
<1>4. AnswerKept'
  BY McpAssumption DEF IInv, McpInv, BeginUnconnected, serverVars, Goes, TypeOK, OneReader,
         AnswerKept, AnswersSent, OneConnection, IdsApart, Awaiting, Response
<1>5. AnsweredByOwn'
  BY McpAssumption DEF IInv, McpInv, BeginUnconnected, serverVars, Goes, TypeOK, AnsweredByOwn,
         AnswersSent
<1>6. OneConnection'
  BY McpAssumption DEF IInv, McpInv, BeginUnconnected, serverVars, Goes, TypeOK, OneConnection
<1>7. AnswersSent'
  BY McpAssumption DEF IInv, McpInv, BeginUnconnected, serverVars, Goes, TypeOK, AnswersSent,
         IdsApart
<1>8. RequestsUnread'
  BY McpAssumption DEF IInv, McpInv, BeginUnconnected, serverVars, Goes, TypeOK, OneReader,
         RequestsUnread, Unread
<1>9. ServedOnce'
  BY McpAssumption DEF IInv, McpInv, BeginUnconnected, serverVars, Goes, TypeOK, ServedOnce,
         RequestsUnread, Unread
<1> QED BY <1>1, <1>2, <1>3, <1>4, <1>5, <1>6, <1>7, <1>8, <1>9 DEF IInv, McpInv

\* receive() finds no message.
LEMMA ReceiveNothingInv == ASSUME IInv, NEW c \in Callers, ReceiveNothing(c) PROVE IInv'
<1>1. TypeOK'
  BY McpAssumption DEF IInv, McpInv, ReceiveNothing, serverVars, Leaves, Goes, TypeOK, Messages,
         Extras, Response, Request
<1>2. OneReader'
  BY McpAssumption DEF IInv, McpInv, ReceiveNothing, serverVars, Leaves, Goes, TypeOK, OneReader
<1>3. IdsApart'
  BY McpAssumption DEF IInv, McpInv, ReceiveNothing, serverVars, Leaves, Goes, TypeOK, IdsApart,
         AnswersSent
<1>4. AnswerKept'
  BY McpAssumption DEF IInv, McpInv, ReceiveNothing, serverVars, Leaves, Goes, TypeOK,
         OneReader, AnswerKept, AnswersSent, OneConnection, IdsApart, Awaiting, Response
<1>5. AnsweredByOwn'
  BY McpAssumption DEF IInv, McpInv, ReceiveNothing, serverVars, Leaves, Goes, TypeOK,
         AnsweredByOwn, AnswersSent
<1>6. OneConnection'
  BY McpAssumption DEF IInv, McpInv, ReceiveNothing, serverVars, Leaves, Goes, TypeOK,
         OneConnection
<1>7. AnswersSent'
  BY McpAssumption DEF IInv, McpInv, ReceiveNothing, serverVars, Leaves, Goes, TypeOK,
         AnswersSent, IdsApart
<1>8. RequestsUnread'
  BY McpAssumption DEF IInv, McpInv, ReceiveNothing, serverVars, Leaves, Goes, TypeOK,
         OneReader, RequestsUnread, Unread
<1>9. ServedOnce'
  BY McpAssumption DEF IInv, McpInv, ReceiveNothing, serverVars, Leaves, Goes, TypeOK,
         ServedOnce, RequestsUnread, Unread
<1> QED BY <1>1, <1>2, <1>3, <1>4, <1>5, <1>6, <1>7, <1>8, <1>9 DEF IInv, McpInv

\* A response is read: the one waited for, or another.
LEMMA ReceiveResponseInv == ASSUME IInv, NEW c \in Callers, ReceiveResponse(c) PROVE IInv'
<1>0. inbox # <<>> /\ inbox' = Tail(inbox)
  BY DEF ReceiveResponse
<1>1. TypeOK'
  BY <1>0, Reads DEF ReceiveResponse, serverVars, Leaves, Goes, IInv, McpInv, TypeOK
<1>2. OneReader'
  BY McpAssumption DEF IInv, McpInv, ReceiveResponse, serverVars, Leaves, Goes, TypeOK,
         OneReader
<1>3. IdsApart'
  BY McpAssumption DEF IInv, McpInv, ReceiveResponse, serverVars, Leaves, Goes, TypeOK,
         IdsApart, AnswersSent
<1>4. AnswerKept'
  <2> SUFFICES ASSUME NEW e \in Callers, Awaiting(e)', id'[e] \in answered',
                      (kind = "http" \/ connected)'
               PROVE  Response(id'[e]) \in {inbox'[i] : i \in DOMAIN inbox'}
    BY DEF AnswerKept, Response
  <2>1. e = c /\ Head(inbox).id # id[c] /\ Awaiting(c)
    BY McpAssumption
    DEF ReceiveResponse, Leaves, Goes, IInv, McpInv, TypeOK, OneReader, Awaiting
  <2>2. Response(id[c]) \in {inbox[i] : i \in DOMAIN inbox} /\ id'[e] = id[c]
    BY <2>1 DEF ReceiveResponse, serverVars, IInv, McpInv, AnswerKept
  <2> QED BY <1>0, <2>1, <2>2, Reads DEF Response
<1>5. AnsweredByOwn'
  BY McpAssumption DEF IInv, McpInv, ReceiveResponse, serverVars, Leaves, Goes, TypeOK,
         AnsweredByOwn, AnswersSent
<1>6. OneConnection'
  BY McpAssumption DEF IInv, McpInv, ReceiveResponse, serverVars, Leaves, Goes, TypeOK,
         OneConnection
<1>7. AnswersSent'
  BY <1>0, Reads DEF ReceiveResponse, serverVars, Leaves, Goes, IInv, McpInv, TypeOK, AnswersSent
<1>8. RequestsUnread'
  BY <1>0, Reads DEF ReceiveResponse, serverVars, Leaves, Goes, IInv, McpInv, TypeOK, RequestsUnread, Unread
<1>9. ServedOnce'
  BY McpAssumption DEF IInv, McpInv, ReceiveResponse, serverVars, Leaves, Goes, TypeOK,
         ServedOnce, RequestsUnread, Unread
<1> QED BY <1>1, <1>2, <1>3, <1>4, <1>5, <1>6, <1>7, <1>8, <1>9 DEF IInv, McpInv

\* A message of another kind is read: a notification, or junk that throws.
LEMMA ReceiveExtraInv == ASSUME IInv, NEW c \in Callers, ReceiveExtra(c) PROVE IInv'
<1>0. inbox # <<>> /\ inbox' = Tail(inbox)
  BY DEF ReceiveExtra
<1>1. TypeOK'
  <2>1. next_id' \in Nat \ {0} /\ next_id' >= next_id
    BY DEF ReceiveExtra, Reenters, IInv, McpInv, TypeOK
  <2>2. /\ pc' \in [Callers -> {"idle", "locking", "receiving", "handling", "notifying", "stuck", "over"}]
        /\ outcome' \in [Callers -> {"none", "answered", "threw"}]
        /\ io_mutex' \in Callers \cup {None}
    BY DEF ReceiveExtra, Reenters, Leaves, Goes, IInv, McpInv, TypeOK
  <2> QED BY <1>0, <2>1, <2>2, Reads DEF ReceiveExtra, serverVars, IInv, McpInv, TypeOK
<1>2. OneReader'
  BY McpAssumption DEF IInv, McpInv, ReceiveExtra, Reenters, serverVars, Leaves, Goes, Extras, TypeOK,
         OneReader
<1>3. IdsApart'
  <2>1. next_id' \in Nat /\ next_id' >= next_id
    BY DEF ReceiveExtra, Reenters, IInv, McpInv, TypeOK
  <2>2. \A e \in Callers : pc'[e] # "idle" /\ id[e] = 0 => pc'[e] = "over"
    BY DEF ReceiveExtra, Reenters, Leaves, Goes, IInv, McpInv, TypeOK, IdsApart
  <2>3. UNCHANGED <<id, asked, answered>>
    BY DEF ReceiveExtra, serverVars
  <2> QED BY <2>1, <2>2, <2>3, NumbersTaken
<1>4. AnswerKept'
  <2> SUFFICES ASSUME NEW e \in Callers, Awaiting(e)', id'[e] \in answered',
                      (kind = "http" \/ connected)'
               PROVE  Response(id'[e]) \in {inbox'[i] : i \in DOMAIN inbox'}
    BY DEF AnswerKept, Response
  <2>1. e = c /\ Awaiting(c)
    BY McpAssumption
    DEF ReceiveExtra, Reenters, Leaves, Goes, IInv, McpInv, TypeOK, OneReader, Awaiting
  <2>2. Response(id[c]) \in {inbox[i] : i \in DOMAIN inbox} /\ id'[e] = id[c]
    BY <2>1 DEF ReceiveExtra, serverVars, IInv, McpInv, AnswerKept
  <2>3. Head(inbox) # Response(id[c])
    BY DEF ReceiveExtra, Extras, Response
  <2> QED BY <1>0, <2>2, <2>3, Reads DEF Response
<1>5. AnsweredByOwn'
  BY McpAssumption DEF IInv, McpInv, ReceiveExtra, Reenters, serverVars, Leaves, Goes, Extras, TypeOK,
         AnsweredByOwn, AnswersSent
<1>6. OneConnection'
  BY McpAssumption DEF IInv, McpInv, ReceiveExtra, Reenters, serverVars, Leaves, Goes, Extras, TypeOK,
         OneConnection
<1>7. AnswersSent'
  BY <1>0, Reads DEF ReceiveExtra, Reenters, serverVars, Leaves, Goes, IInv, McpInv, TypeOK, AnswersSent
<1>8. RequestsUnread'
  <2>1. pc'[c] # "handling" /\ \A e \in Callers \ {c} : pc'[e] = pc[e]
    BY DEF ReceiveExtra, Reenters, Leaves, Goes, IInv, McpInv, TypeOK
  <2>2. serving = None
    BY McpAssumption DEF ReceiveExtra, IInv, McpInv, TypeOK, OneReader, RequestsUnread
  <2>3. /\ \A e \in Callers : pc'[e] = "handling" => serving' # None
        /\ serving' = None /\ serving' \notin thrownBy'
    BY <2>1, <2>2 DEF ReceiveExtra, IInv, McpInv, RequestsUnread
  <2> QED BY <1>0, <2>3, Reads DEF ReceiveExtra, RequestsUnread, Unread
<1>9. ServedOnce'
  BY McpAssumption DEF IInv, McpInv, ReceiveExtra, Reenters, serverVars, Leaves, Goes, Extras, TypeOK,
         ServedOnce, RequestsUnread, Unread
<1> QED BY <1>1, <1>2, <1>3, <1>4, <1>5, <1>6, <1>7, <1>8, <1>9 DEF IInv, McpInv

\* The answer to a request of the server: sent or not.
LEMMA Responding ==
    ASSUME IInv, NEW c \in Callers, NEW r, NEW q, Within(q), Respond(c, r, q), io_mutex = c
    PROVE  /\ Carries(q, asked) /\ GoesOn(c)
           /\ \/ served' = served /\ thrownBy' = thrownBy \cup {r}
              \/ served' = [served EXCEPT ![r] = @ + 1] /\ thrownBy' = thrownBy
<1>1. asked \in SUBSET Nat /\ pc \in [Callers -> {"idle", "locking", "receiving", "handling", "notifying", "stuck", "over"}]
      /\ outcome \in [Callers -> {"none", "answered", "threw"}]
  BY DEF IInv, McpInv, TypeOK
<1>2. Carries(q, asked)
  <2>1. CASE inbox' = q /\ UNCHANGED serverVars
    BY <1>1, <2>1, Unposted DEF serverVars
  <2>2. CASE Posts(q, asked)
    BY <1>1, <2>2, Posted
  <2> QED BY <2>1, <2>2 DEF Respond
<1>3. GoesOn(c)
  <2>1. CASE Leaves(c, "threw")
    BY <1>1, <2>1 DEF GoesOn, Leaves, Goes
  <2>2. CASE Goes(c, "receiving") /\ UNCHANGED <<outcome, io_mutex>>
    BY <1>1, <2>2 DEF GoesOn, Goes
  <2> QED BY <2>1, <2>2 DEF Respond
<1>4. \/ served' = served /\ thrownBy' = thrownBy \cup {r}
      \/ served' = [served EXCEPT ![r] = @ + 1] /\ thrownBy' = thrownBy
  BY DEF Respond
<1> QED BY <1>2, <1>3, <1>4

\* A call that has read request r or run its handler, and answered it.
LEMMA Answering ==
    ASSUME IInv, NEW c \in Callers, NEW r \in Asks, NEW q, Within(q), Carries(q, asked), GoesOn(c),
           pc[c] \in {"receiving", "handling"}, io_mutex = c,
           \/ served' = served /\ thrownBy' = thrownBy \cup {r}
           \/ served' = [served EXCEPT ![r] = @ + 1] /\ thrownBy' = thrownBy,
           served[r] = 0, r \notin thrownBy, serving \in {None, r}, serving' = None,
           \A i \in DOMAIN inbox' : inbox'[i].type = "request" => inbox'[i].id # r,
           \A n : Response(n) \in {inbox[i] : i \in DOMAIN inbox}
                  => Response(n) \in {q[i] : i \in DOMAIN q},
           UNCHANGED <<kind, up, connected, next_id, id>>
    PROVE  IInv'
<1>1. /\ IdsApart' /\ AnswerKept' /\ AnswersSent'
      /\ asked' \in SUBSET Nat /\ answered' \in SUBSET Nat
  BY Keeping DEF GoesOn
<1>2. /\ pc' \in [Callers -> {"idle", "locking", "receiving", "handling", "notifying", "stuck", "over"}]
      /\ outcome' \in [Callers -> {"none", "answered", "threw"}]
      /\ io_mutex' \in Callers \cup {None}
      /\ OneReader' /\ AnsweredByOwn' /\ OneConnection'
      /\ \A e \in Callers : pc'[e] \notin {"handling", "stuck"}
  BY GoingOn DEF Carries
<1>3. served' \in [Asks -> Nat] /\ thrownBy' \in SUBSET Asks /\ None \notin thrownBy'
  BY McpAssumption DEF IInv, McpInv, TypeOK
<1>4. TypeOK'
  BY <1>1, <1>2, <1>3 DEF Carries, IInv, McpInv, TypeOK
<1>5. RequestsUnread'
  <2>1. ASSUME NEW i \in DOMAIN inbox', inbox'[i].type = "request"
        PROVE  /\ served'[inbox'[i].id] = 0
               /\ inbox'[i].id # serving' /\ inbox'[i].id \notin thrownBy'
    <3>1. inbox'[i].id \in Asks /\ Unread(inbox'[i].id) /\ inbox'[i].id # r
      BY <2>1 DEF Carries
    <3>2. ASSUME NEW x \in Asks, Unread(x), x # r
          PROVE  served'[x] = 0 /\ x # serving' /\ x \notin thrownBy'
      BY <3>2, McpAssumption DEF Unread, IInv, McpInv, TypeOK
    <3> QED BY <3>1, <3>2
  <2>2. \A j, k \in DOMAIN inbox' :
           inbox'[j].type = "request" /\ inbox'[k].type = "request" /\ inbox'[j].id = inbox'[k].id
           => j = k
    BY DEF Carries
  <2> QED BY <1>2, <1>3, <2>1, <2>2 DEF RequestsUnread, Unread
<1>6. ServedOnce'
  <2> SUFFICES ASSUME NEW x \in Asks
               PROVE  served'[x] <= 1 /\ (x \in thrownBy' \/ x = serving' => served'[x] = 0)
    BY DEF ServedOnce
  <2>1. x # None
    BY McpAssumption
  <2> QED BY <2>1 DEF IInv, McpInv, TypeOK, ServedOnce
<1> QED BY <1>1, <1>2, <1>4, <1>5, <1>6 DEF IInv, McpInv

\* A request of the server is read: it is answered, or its handler starts.
LEMMA ReceiveRequestInv == ASSUME IInv, NEW c \in Callers, ReceiveRequest(c) PROVE IInv'
<1> DEFINE q == Tail(inbox)
           r == Head(inbox).id
<1>1. /\ inbox # <<>> /\ Head(inbox).type = "request" /\ pc[c] = "receiving" /\ io_mutex = c
      /\ UNCHANGED <<kind, up, connected, next_id, id>>
  BY DEF ReceiveRequest, IInv, McpInv, OneReader
<1>2. /\ Within(q) /\ r \in Asks /\ Unread(r)
      /\ \A i \in DOMAIN q : q[i].type = "request" => q[i].id # r
      /\ \E i \in DOMAIN inbox : inbox[i] = Head(inbox)
  BY <1>1, WithinTail
<1>3. \A n : Response(n) \in {inbox[i] : i \in DOMAIN inbox} => Response(n) \in {q[i] : i \in DOMAIN q}
  <2>1. \A n : Head(inbox) # Response(n)
    BY <1>1 DEF Response
  <2> QED BY <1>1, <2>1, WithinTail
<1>4. serving = None
  BY <1>1, McpAssumption DEF IInv, McpInv, TypeOK, OneReader, RequestsUnread
<1>5. ASSUME Carries(q, asked)
      PROVE  \A i \in DOMAIN inbox' : inbox'[i].type = "request" => inbox'[i].id # r
  BY <1>1, <1>2, <1>5 DEF Carries
<1>6. CASE Respond(c, r, q) /\ UNCHANGED serving
  <2>1. /\ Carries(q, asked) /\ GoesOn(c)
        /\ \/ served' = served /\ thrownBy' = thrownBy \cup {r}
           \/ served' = [served EXCEPT ![r] = @ + 1] /\ thrownBy' = thrownBy
    BY <1>1, <1>2, <1>6, Responding
  <2> HIDE DEF q, r
  <2>2. served[r] = 0 /\ r \notin thrownBy
    BY <1>2 DEF Unread
  <2> QED BY <1>1, <1>2, <1>3, <1>4, <1>5, <1>6, <2>1, <2>2, Answering
<1>7. CASE /\ inbox' = q
           /\ serving' = r
           /\ Goes(c, "handling")
           /\ UNCHANGED <<outcome, io_mutex, served, thrownBy>>
           /\ UNCHANGED serverVars
  <2>1. Carries(q, asked) /\ asked \subseteq asked \cup {id[c]}
    BY <1>2, <1>7, Unposted DEF serverVars
  <2> HIDE DEF q, r
  <2>2. pc' = [pc EXCEPT ![c] = "handling"] /\ pc'[c] = "handling"
        /\ \A e \in Callers \ {c} : pc'[e] = pc[e] /\ pc[e] \notin {"receiving", "handling", "stuck"}
    BY <1>1, <1>7 DEF Goes, IInv, McpInv, TypeOK, OneReader
  <2>3. /\ IdsApart' /\ AnswerKept' /\ AnswersSent'
        /\ asked' \in SUBSET Nat /\ answered' \in SUBSET Nat
    BY <1>1, <1>3, <1>7, <2>1, <2>2, Keeping
  <2>4. TypeOK'
    BY <1>1, <1>2, <1>7, <2>1, <2>2, <2>3 DEF Carries, IInv, McpInv, TypeOK
  <2>5. OneReader'
    BY <1>1, <1>7, <2>2, McpAssumption DEF IInv, McpInv, OneReader
  <2>6. AnsweredByOwn' /\ OneConnection'
    BY <1>1, <1>7, <2>1, <2>2, McpAssumption
    DEF Carries, IInv, McpInv, AnsweredByOwn, OneConnection
  <2>7. RequestsUnread'
    <3>1. \A i \in DOMAIN inbox' : inbox'[i].type = "request" =>
             Unread(inbox'[i].id) /\ inbox'[i].id # r
      BY <1>5, <2>1 DEF Carries
    <3>2. r \notin thrownBy /\ r # None
      BY <1>2, McpAssumption DEF Unread
    <3> QED BY <1>7, <2>1, <2>2, <3>1, <3>2 DEF Carries, RequestsUnread, Unread
  <2>8. ServedOnce'
    BY <1>2, <1>7 DEF IInv, ServedOnce, Unread
  <2> QED BY <2>3, <2>4, <2>5, <2>6, <2>7, <2>8 DEF IInv, McpInv
<1> QED BY <1>6, <1>7 DEF ReceiveRequest

\* What is known of the request whose handler ends.
LEMMA Served ==
    ASSUME IInv, NEW c \in Callers, pc[c] = "handling"
    PROVE  /\ serving \in Asks /\ serving # None /\ served[serving] = 0 /\ serving \notin thrownBy
           /\ \A i \in DOMAIN inbox : inbox[i].type = "request" => inbox[i].id # serving
           /\ io_mutex = c
           /\ \A e \in Callers \ {c} : pc[e] \notin {"receiving", "handling", "stuck"}
<1>1. serving \in Asks /\ serving # None /\ serving \notin thrownBy
  BY DEF IInv, McpInv, TypeOK, RequestsUnread
<1>2. served[serving] = 0
  BY <1>1 DEF IInv, ServedOnce
<1>3. \A i \in DOMAIN inbox : inbox[i].type = "request" => inbox[i].id # serving
  BY DEF IInv, McpInv, RequestsUnread, Unread
<1>4. io_mutex = c /\ \A e \in Callers \ {c} : pc[e] \notin {"receiving", "handling", "stuck"}
  BY DEF IInv, McpInv, OneReader
<1> QED BY <1>1, <1>2, <1>3, <1>4

\* The handler returns or throws, and its answer is sent.
LEMMA HandlerEndsInv == ASSUME IInv, NEW c \in Callers, HandlerEnds(c) PROVE IInv'
<1>1. /\ pc[c] = "handling" /\ serving' = None
      /\ UNCHANGED <<kind, up, connected, next_id, id>>
  BY DEF HandlerEnds
<1>2. /\ serving \in Asks /\ serving # None /\ served[serving] = 0 /\ serving \notin thrownBy
      /\ io_mutex = c
      /\ \A i \in DOMAIN inbox : inbox[i].type = "request" => inbox[i].id # serving
  BY <1>1, Served
<1>3. /\ Carries(inbox, asked) /\ GoesOn(c)
      /\ \/ served' = served /\ thrownBy' = thrownBy \cup {serving}
         \/ served' = [served EXCEPT ![serving] = @ + 1] /\ thrownBy' = thrownBy
  <2>1. CASE Respond(c, serving, inbox)
    BY <1>2, <2>1, WithinInbox, Responding
  <2>2. CASE /\ thrownBy' = thrownBy \cup {serving}
             /\ Leaves(c, "threw")
             /\ UNCHANGED <<served, inbox, serverVars>>
    <3>1. Carries(inbox, asked)
      BY <2>2, WithinInbox, Unposted DEF serverVars
    <3>2. GoesOn(c)
      BY <2>2 DEF GoesOn, Leaves, Goes, IInv, McpInv, TypeOK
    <3> QED BY <2>2, <3>1, <3>2
  <2> QED BY <2>1, <2>2 DEF HandlerEnds
<1>4. \A i \in DOMAIN inbox' : inbox'[i].type = "request" => inbox'[i].id # serving
  <2> SUFFICES ASSUME NEW i \in DOMAIN inbox', inbox'[i].type = "request"
               PROVE  inbox'[i].id # serving
    OBVIOUS
  <2>1. Unread(inbox'[i].id)
    BY <1>3 DEF Carries
  <2> QED BY <2>1 DEF Unread
<1>5. Within(inbox)
  BY WithinInbox
<1> QED BY <1>1, <1>2, <1>3, <1>4, <1>5, Answering

\* The handler calls the client: it waits for the mutex of its thread, or throws.
LEMMA HandlerReentersInv == ASSUME IInv, NEW c \in Callers, HandlerReenters(c) PROVE IInv'
<1>1. /\ pc[c] = "handling" /\ Reenters(c)
      /\ UNCHANGED <<kind, up, connected, id, inbox, served, asked, answered, extra>>
      /\ \/ connected /\ UNCHANGED <<serving, thrownBy>>
         \/ ~connected /\ serving' = None /\ thrownBy' = thrownBy \cup {serving}
  BY DEF HandlerReenters, serverVars
<1>2. /\ serving \in Asks /\ serving # None /\ served[serving] = 0 /\ serving \notin thrownBy
      /\ io_mutex = c
      /\ \A i \in DOMAIN inbox : inbox[i].type = "request" => inbox[i].id # serving
      /\ \A e \in Callers \ {c} : pc[e] \notin {"receiving", "handling", "stuck"}
  BY <1>1, Served
<1>3. next_id' \in Nat \ {0} /\ next_id' >= next_id
  BY <1>1 DEF Reenters, IInv, McpInv, TypeOK
<1>4. \/ /\ connected /\ UNCHANGED <<outcome, io_mutex>>
         /\ pc' = [pc EXCEPT ![c] = "stuck"] /\ pc'[c] = "stuck"
      \/ /\ ~connected /\ io_mutex' = None
         /\ pc' = [pc EXCEPT ![c] = "over"] /\ pc'[c] = "over"
         /\ outcome' = [outcome EXCEPT ![c] = "threw"] /\ outcome'[c] = "threw"
  BY <1>1 DEF Reenters, Leaves, Goes, IInv, McpInv, TypeOK
<1>5. \A e \in Callers \ {c} : pc'[e] = pc[e] /\ outcome'[e] = outcome[e]
  BY <1>4 DEF IInv, McpInv, TypeOK
<1>6. TypeOK'
  <2>1. /\ pc' \in [Callers -> {"idle", "locking", "receiving", "handling", "notifying", "stuck", "over"}]
        /\ outcome' \in [Callers -> {"none", "answered", "threw"}]
        /\ io_mutex' \in Callers \cup {None}
    BY <1>4 DEF IInv, McpInv, TypeOK
  <2> QED BY <1>1, <1>2, <1>3, <2>1 DEF IInv, McpInv, TypeOK
<1>7. OneReader'
  BY <1>2, <1>4, <1>5, McpAssumption DEF OneReader
<1>8. IdsApart'
  <2>1. \A e \in Callers : pc'[e] # "idle" /\ id[e] = 0 => pc'[e] = "over"
    BY <1>1, <1>4, <1>5 DEF IInv, McpInv, IdsApart
  <2> QED BY <1>1, <1>3, <2>1, NumbersTaken
<1>9. AnswerKept'
  BY <1>1, <1>4, <1>5 DEF IInv, McpInv, AnswerKept, Awaiting, Response
<1>10. AnsweredByOwn' /\ OneConnection' /\ AnswersSent'
  <2>1. AnsweredByOwn' /\ AnswersSent'
    BY <1>1, <1>4, <1>5 DEF IInv, McpInv, AnsweredByOwn, AnswersSent
  <2>2. OneConnection'
    BY <1>1, <1>4, <1>5, McpAssumption DEF IInv, McpInv, OneConnection
  <2> QED BY <2>1, <2>2
<1>11. RequestsUnread'
  <2>1. \A i \in DOMAIN inbox : inbox[i].type = "request" => inbox[i].id \in Asks /\ Unread(inbox[i].id)
    BY MessageTypes DEF IInv, McpInv, TypeOK, RequestsUnread
  <2>2. \A i \in DOMAIN inbox' : inbox'[i].type = "request" =>
           /\ served'[inbox'[i].id] = 0
           /\ inbox'[i].id # serving' /\ inbox'[i].id \notin thrownBy'
    BY <1>1, <1>2, <2>1, McpAssumption DEF Unread
  <2>3. /\ \A e \in Callers : pc'[e] = "handling" => serving' # None
        /\ serving' # None => \E e \in Callers : pc'[e] \in {"handling", "stuck"}
    BY <1>1, <1>2, <1>4, <1>5
  <2>4. serving' \notin thrownBy'
    BY <1>1, <1>2, McpAssumption DEF IInv, McpInv, TypeOK
  <2>5. \A j, k \in DOMAIN inbox' :
           inbox'[j].type = "request" /\ inbox'[k].type = "request" /\ inbox'[j].id = inbox'[k].id
           => j = k
    BY <1>1 DEF IInv, McpInv, RequestsUnread
  <2> QED BY <2>2, <2>3, <2>4, <2>5 DEF RequestsUnread, Unread
<1>12. ServedOnce'
  BY <1>1, <1>2, McpAssumption DEF IInv, ServedOnce
<1> QED BY <1>6, <1>7, <1>8, <1>9, <1>10, <1>11, <1>12 DEF IInv, McpInv

\* disconnect, or the destructor.
LEMMA DisconnectInv == ASSUME IInv, Disconnect PROVE IInv'
<1>0. inbox' \in Seq(Messages)
  <2>1. <<>> \in Seq(Messages)
    OBVIOUS
  <2> QED BY <2>1 DEF Disconnect, IInv, McpInv, TypeOK
<1>1. TypeOK'
  BY <1>0 DEF Disconnect, serverVars, IInv, McpInv, TypeOK
<1>2. OneReader'
  BY McpAssumption DEF IInv, McpInv, Disconnect, serverVars, Goes, TypeOK, OneReader
<1>3. IdsApart'
  BY McpAssumption DEF IInv, McpInv, Disconnect, serverVars, Goes, TypeOK, IdsApart, AnswersSent
<1>4. AnswerKept'
  BY McpAssumption DEF IInv, McpInv, Disconnect, serverVars, Goes, TypeOK, OneReader,
         AnswerKept, AnswersSent, OneConnection, IdsApart, Awaiting, Response
<1>5. AnsweredByOwn'
  BY McpAssumption DEF IInv, McpInv, Disconnect, serverVars, Goes, TypeOK, AnsweredByOwn,
         AnswersSent
<1>6. OneConnection'
  BY McpAssumption DEF IInv, McpInv, Disconnect, serverVars, Goes, TypeOK, OneConnection
<1>7. AnswersSent'
  BY McpAssumption DEF IInv, McpInv, Disconnect, serverVars, Goes, TypeOK, AnswersSent, IdsApart
<1>8. RequestsUnread'
  BY McpAssumption DEF IInv, McpInv, Disconnect, serverVars, Goes, TypeOK, OneReader,
         RequestsUnread, Unread
<1>9. ServedOnce'
  BY McpAssumption DEF IInv, McpInv, Disconnect, serverVars, Goes, TypeOK, ServedOnce,
         RequestsUnread, Unread
<1> QED BY <1>1, <1>2, <1>3, <1>4, <1>5, <1>6, <1>7, <1>8, <1>9 DEF IInv, McpInv

\* The server answers a request.
LEMMA AnswerInv == ASSUME IInv, NEW n \in 1..MaxId, Answer(n) PROVE IInv'
<1>0. n \in Nat /\ Response(n) \in Messages /\ inbox' = Append(inbox, Response(n))
  BY MessageTypes DEF Answer, Writes, IInv, McpInv, TypeOK
<1>1. TypeOK'
  BY McpAssumption DEF IInv, McpInv, Answer, serverVars, Writes, others, Response, TypeOK,
         Messages, Extras, Request
<1>2. OneReader'
  BY McpAssumption DEF IInv, McpInv, Answer, serverVars, Writes, others, Response, TypeOK,
         OneReader
<1>3. IdsApart'
  BY McpAssumption DEF IInv, McpInv, Answer, serverVars, Writes, others, Response, TypeOK,
         IdsApart, AnswersSent
<1>4. AnswerKept'
  <2> SUFFICES ASSUME NEW e \in Callers, Awaiting(e)', id'[e] \in answered',
                      (kind = "http" \/ connected)'
               PROVE  Response(id'[e]) \in {inbox'[i] : i \in DOMAIN inbox'}
    BY DEF AnswerKept, Response
  <2>1. Awaiting(e) /\ id'[e] = id[e] /\ (kind = "http" \/ connected) /\ id[e] \in answered \cup {n}
    BY DEF Answer, others, Awaiting
  <2>2. id[e] = n \/ Response(id[e]) \in {inbox[i] : i \in DOMAIN inbox}
    BY <2>1 DEF IInv, McpInv, AnswerKept
  <2> QED BY <1>0, <2>1, <2>2, Writing DEF Response
<1>5. AnsweredByOwn'
  BY McpAssumption DEF IInv, McpInv, Answer, serverVars, Writes, others, Response, TypeOK,
         AnsweredByOwn, AnswersSent
<1>6. OneConnection'
  BY McpAssumption DEF IInv, McpInv, Answer, serverVars, Writes, others, Response, TypeOK,
         OneConnection
<1>7. AnswersSent'
  BY McpAssumption DEF IInv, McpInv, Answer, serverVars, Writes, others, Response, TypeOK,
         AnswersSent, IdsApart
<1>8. RequestsUnread'
  BY McpAssumption DEF IInv, McpInv, Answer, serverVars, Writes, others, Response, TypeOK,
         OneReader, RequestsUnread, Unread
<1>9. ServedOnce'
  BY McpAssumption DEF IInv, McpInv, Answer, serverVars, Writes, others, Response, TypeOK,
         ServedOnce, RequestsUnread, Unread
<1> QED BY <1>1, <1>2, <1>3, <1>4, <1>5, <1>6, <1>7, <1>8, <1>9 DEF IInv, McpInv

\* The server makes a request of its own.
LEMMA AskInv == ASSUME IInv, NEW r \in Asks, Ask(r) PROVE IInv'
<1>0. /\ Request(r) \in Messages /\ Request(r).type = "request" /\ Request(r).id = r
      /\ inbox' = Append(inbox, Request(r))
  BY MessageTypes DEF Ask, Writes
<1>1. TypeOK'
  BY McpAssumption DEF IInv, McpInv, Ask, serverVars, Writes, others, Request, TypeOK, Messages,
         Extras, Response
<1>2. OneReader'
  BY McpAssumption DEF IInv, McpInv, Ask, serverVars, Writes, others, Request, TypeOK, OneReader
<1>3. IdsApart'
  BY McpAssumption DEF IInv, McpInv, Ask, serverVars, Writes, others, Request, TypeOK, IdsApart,
         AnswersSent
<1>4. AnswerKept'
  <2> SUFFICES ASSUME NEW e \in Callers, Awaiting(e)', id'[e] \in answered',
                      (kind = "http" \/ connected)'
               PROVE  Response(id'[e]) \in {inbox'[i] : i \in DOMAIN inbox'}
    BY DEF AnswerKept, Response
  <2>1. Awaiting(e) /\ id'[e] = id[e] /\ (kind = "http" \/ connected) /\ id[e] \in answered
    BY DEF Ask, others, serverVars, Awaiting
  <2>2. Response(id[e]) \in {inbox[i] : i \in DOMAIN inbox}
    BY <2>1 DEF IInv, McpInv, AnswerKept
  <2> QED BY <1>0, <2>1, <2>2, Writing DEF Response
<1>5. AnsweredByOwn'
  BY McpAssumption DEF IInv, McpInv, Ask, serverVars, Writes, others, Request, TypeOK,
         AnsweredByOwn, AnswersSent
<1>6. OneConnection'
  BY McpAssumption DEF IInv, McpInv, Ask, serverVars, Writes, others, Request, TypeOK,
         OneConnection
<1>7. AnswersSent'
  BY McpAssumption DEF IInv, McpInv, Ask, serverVars, Writes, others, Request, TypeOK,
         AnswersSent, IdsApart
<1>8. RequestsUnread'
  <2>1. r \in RequestsIn(<<Request(r)>>)
    BY <1>0 DEF RequestsIn
  <2>2. /\ Unread(r)
        /\ \A i \in DOMAIN inbox : inbox[i].type = "request" => inbox[i].id # r
    BY <2>1 DEF Ask, Fresh, Unread
  <2>3. \A i \in DOMAIN inbox' : inbox'[i].type = "request" => Unread(inbox'[i].id)
    BY <1>0, <2>2, Writing DEF IInv, McpInv, RequestsUnread
  <2>4. \A i, j \in DOMAIN inbox' :
          inbox'[i].type = "request" /\ inbox'[j].type = "request" /\ inbox'[i].id = inbox'[j].id => i = j
    BY <1>0, <2>2, Writing DEF IInv, McpInv, RequestsUnread
  <2> QED BY <2>3, <2>4 DEF Ask, others, IInv, McpInv, RequestsUnread, Unread
<1>9. ServedOnce'
  BY McpAssumption DEF IInv, McpInv, Ask, serverVars, Writes, others, Request, TypeOK,
         ServedOnce, RequestsUnread, Unread
<1> QED BY <1>1, <1>2, <1>3, <1>4, <1>5, <1>6, <1>7, <1>8, <1>9 DEF IInv, McpInv

\* The server writes a message of another kind.
LEMMA WriteExtraInv == ASSUME IInv, NEW m \in Extras, WriteExtra(m) PROVE IInv'
<1>0. /\ m \in Messages /\ m.type \notin {"request", "response"}
      /\ inbox' = Append(inbox, m)
  BY MessageTypes DEF WriteExtra, Writes
<1>1. TypeOK'
  BY McpAssumption DEF IInv, McpInv, WriteExtra, serverVars, Writes, others, TypeOK, Messages,
         Extras, Response, Request
<1>2. OneReader'
  BY McpAssumption DEF IInv, McpInv, WriteExtra, serverVars, Writes, others, TypeOK, OneReader
<1>3. IdsApart'
  BY McpAssumption DEF IInv, McpInv, WriteExtra, serverVars, Writes, others, TypeOK, IdsApart,
         AnswersSent
<1>4. AnswerKept'
  <2> SUFFICES ASSUME NEW e \in Callers, Awaiting(e)', id'[e] \in answered',
                      (kind = "http" \/ connected)'
               PROVE  Response(id'[e]) \in {inbox'[i] : i \in DOMAIN inbox'}
    BY DEF AnswerKept, Response
  <2>1. Awaiting(e) /\ id'[e] = id[e] /\ (kind = "http" \/ connected) /\ id[e] \in answered
    BY DEF WriteExtra, others, Awaiting
  <2>2. Response(id[e]) \in {inbox[i] : i \in DOMAIN inbox}
    BY <2>1 DEF IInv, McpInv, AnswerKept
  <2> QED BY <1>0, <2>1, <2>2, Writing DEF Response
<1>5. AnsweredByOwn'
  BY McpAssumption DEF IInv, McpInv, WriteExtra, serverVars, Writes, others, TypeOK,
         AnsweredByOwn, AnswersSent
<1>6. OneConnection'
  BY McpAssumption DEF IInv, McpInv, WriteExtra, serverVars, Writes, others, TypeOK,
         OneConnection
<1>7. AnswersSent'
  BY <1>0, Writing DEF WriteExtra, others, IInv, McpInv, AnswersSent
<1>8. RequestsUnread'
  <2>1. \A i \in DOMAIN inbox' : inbox'[i].type = "request" => i \in DOMAIN inbox /\ inbox'[i] = inbox[i]
    BY <1>0, Writing
  <2> QED BY <2>1 DEF WriteExtra, others, IInv, McpInv, RequestsUnread, Unread
<1>9. ServedOnce'
  BY McpAssumption DEF IInv, McpInv, WriteExtra, serverVars, Writes, others, TypeOK, ServedOnce,
         RequestsUnread, Unread
<1> QED BY <1>1, <1>2, <1>3, <1>4, <1>5, <1>6, <1>7, <1>8, <1>9 DEF IInv, McpInv

\* The server exits.
LEMMA ExitInv == ASSUME IInv, Exit PROVE IInv'
<1>1. TypeOK'
  BY McpAssumption DEF IInv, McpInv, Exit, serverVars, Goes, TypeOK, Messages, Extras, Response,
         Request
<1>2. OneReader'
  BY McpAssumption DEF IInv, McpInv, Exit, serverVars, Goes, TypeOK, OneReader
<1>3. IdsApart'
  BY McpAssumption DEF IInv, McpInv, Exit, serverVars, Goes, TypeOK, IdsApart, AnswersSent
<1>4. AnswerKept'
  BY McpAssumption DEF IInv, McpInv, Exit, serverVars, Goes, TypeOK, OneReader, AnswerKept,
         AnswersSent, OneConnection, IdsApart, Awaiting, Response
<1>5. AnsweredByOwn'
  BY McpAssumption DEF IInv, McpInv, Exit, serverVars, Goes, TypeOK, AnsweredByOwn, AnswersSent
<1>6. OneConnection'
  BY McpAssumption DEF IInv, McpInv, Exit, serverVars, Goes, TypeOK, OneConnection
<1>7. AnswersSent'
  BY McpAssumption DEF IInv, McpInv, Exit, serverVars, Goes, TypeOK, AnswersSent, IdsApart
<1>8. RequestsUnread'
  BY McpAssumption DEF IInv, McpInv, Exit, serverVars, Goes, TypeOK, OneReader, RequestsUnread,
         Unread
<1>9. ServedOnce'
  BY McpAssumption DEF IInv, McpInv, Exit, serverVars, Goes, TypeOK, ServedOnce, RequestsUnread,
         Unread
<1> QED BY <1>1, <1>2, <1>3, <1>4, <1>5, <1>6, <1>7, <1>8, <1>9 DEF IInv, McpInv

\* A client starts in the invariant.
LEMMA InitInv == Init => IInv
<1> SUFFICES ASSUME Init PROVE IInv
  OBVIOUS
<1>1. inbox = <<>> /\ <<>> \in Seq(Messages) /\ DOMAIN <<>> = {}
  BY DEF Init
<1>2. TypeOK
  <2>1. inbox \in Seq(Messages)
    BY <1>1 DEF Init
  <2>2. /\ pc \in [Callers -> {"idle", "locking", "receiving", "handling", "notifying", "stuck", "over"}]
        /\ id \in [Callers -> Nat] /\ outcome \in [Callers -> {"none", "answered", "threw"}]
        /\ served \in [Asks -> Nat]
    BY DEF Init
  <2>3. /\ kind \in {"stdio", "http"}
        /\ next_id \in Nat \ {0} /\ extra \in Nat
        /\ io_mutex \in Callers \cup {None} /\ serving \in Asks \cup {None}
        /\ asked \in SUBSET Nat /\ answered \in SUBSET Nat /\ thrownBy \in SUBSET Asks
    BY DEF Init
  <2>4. up \in BOOLEAN /\ connected \in BOOLEAN
    BY DEF Init
  <2> QED BY <2>1, <2>2, <2>3, <2>4 DEF TypeOK
<1>5. OneReader
  BY McpAssumption DEF Init, OneReader
<1>3. IdsApart /\ AnsweredByOwn /\ OneConnection
  BY DEF Init, IdsApart, AnsweredByOwn, OneConnection
<1>4. AnswerKept /\ AnswersSent /\ RequestsUnread /\ ServedOnce
  BY <1>1, McpAssumption
  DEF Init, AnswerKept, Awaiting, AnswersSent, RequestsUnread, Unread, ServedOnce
<1> QED BY <1>2, <1>3, <1>4, <1>5 DEF IInv, McpInv

\* Stuttering keeps it.
LEMMA StutterInv == IInv /\ UNCHANGED vars => IInv'
<1> SUFFICES ASSUME IInv, UNCHANGED vars PROVE IInv'
  OBVIOUS
<1>1. (TypeOK /\ OneReader /\ IdsApart /\ AnswerKept /\ AnsweredByOwn)'
  BY DEF vars, IInv, McpInv, TypeOK, OneReader, IdsApart, AnswerKept, Awaiting, AnsweredByOwn
<1>2. (OneConnection /\ AnswersSent /\ RequestsUnread /\ ServedOnce)'
  BY DEF vars, IInv, McpInv, OneConnection, AnswersSent, RequestsUnread, Unread, ServedOnce
<1> QED BY <1>1, <1>2 DEF IInv, McpInv

\* Every step keeps it.
LEMMA NextInv == IInv /\ [Next]_vars => IInv'
<1> SUFFICES ASSUME IInv, [Next]_vars PROVE IInv'
  OBVIOUS
<1>1. CASE Connect
  BY <1>1, ConnectInv
<1>2. ASSUME NEW c \in Callers, NEW tokens \in {0, 1}, Begin(c, tokens) PROVE IInv'
  BY <1>2, BeginInv
<1>3. ASSUME NEW c \in Callers, BeginUnconnected(c) PROVE IInv'
  BY <1>3, BeginUnconnectedInv
<1>4. ASSUME NEW c \in Callers, Call(c) PROVE IInv'
  BY <1>4, SendInv, ReceiveNothingInv, ReceiveResponseInv, ReceiveExtraInv, ReceiveRequestInv,
     HandlerEndsInv, HandlerReentersInv, NotifyInv
  DEF Call
<1>5. CASE Disconnect
  BY <1>5, DisconnectInv
<1>6. CASE Server
  BY <1>6, AnswerInv, AskInv, WriteExtraInv, ExitInv DEF Server
<1>7. CASE Resting \/ UNCHANGED vars
  BY <1>7, StutterInv DEF Resting
<1> QED BY <1>1, <1>2, <1>3, <1>4, <1>5, <1>6, <1>7 DEF Next

\* However threads, server and transport take turns, each call reads under the
\* mutex, its answer is not lost while it waits, and who returns was answered.
THEOREM McpHolds == Spec => []McpInv
<1>1. IInv => McpInv
  BY DEF IInv
<1> QED BY <1>1, InitInv, NextInv, PTL DEF Spec

\* No request of the server is answered twice, and none that was read is
\* forgotten while its handler neither throws nor runs.
THEOREM RequestsServedOnce == Spec => []ServedOnce
<1>1. IInv => ServedOnce
  BY DEF IInv
<1> QED BY <1>1, InitInv, NextInv, PTL DEF Spec
=============================================================================
