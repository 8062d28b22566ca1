------------------------------- MODULE McpClient -------------------------------
(***************************************************************************)
(* McpClient: JSON-RPC calls of several threads over one transport.  A     *)
(* call sends its request and reads messages under io_mutex until the one  *)
(* that answers it; on the way it serves the server's own requests and     *)
(* notifications, and skips answers to calls that have given up.           *)
(*                                                                         *)
(* Over stdio the server writes messages when it likes and a read waits.   *)
(* Over HTTP each message sent brings a batch of messages back, queued in  *)
(* incoming_, and a read of an empty queue answers with nothing.           *)
(***************************************************************************)
EXTENDS Integers, Sequences, FiniteSets

CONSTANTS Callers,     \* threads; each makes one call
          Connector,   \* the one that connects first
          Asks,        \* requests of the server's own
          MaxExtra,    \* bound: notifications and malformed messages of the server
          None         \* no caller, and no request

ASSUME McpAssumption == /\ Connector \in Callers
                        /\ None \notin Callers \cup Asks
                        /\ MaxExtra \in Nat

VARIABLES kind,       \* the transport: "stdio" or "http"
          up,         \* the transport is started, its server running
          connected,  \* the atomic flag
          next_id,    \* the atomic counter
          io_mutex,   \* the caller that holds it
          pc,         \* where each call is
          id,         \* the id of its request
          outcome,    \* what it returned, or how it threw
          inbox,      \* messages on their way to the client
          asked,      \* ids of requests the server has and has not answered
          answered,   \* ids it has answered
          served,     \* how often the client has sent an answer to each request of the server
          thrownBy,   \* requests of the server whose handler threw
          serving,    \* the request whose handler runs
          extra       \* notifications and malformed messages so far

vars == <<kind, up, connected, next_id, io_mutex, pc, id, outcome, inbox, asked,
          answered, served, thrownBy, serving, extra>>

\* "progress" is a notification of progress (another one is read as one whose
\* handler returns), "junk" a blank line or what is no JSON object.
Response(n)   == [type |-> "response", id |-> n]
Request(r)    == [type |-> "request", id |-> r]
Extras        == {[type |-> t, id |-> 0] : t \in {"progress", "junk"}}

Init == /\ kind \in {"stdio", "http"}
        /\ up = FALSE
        /\ connected = FALSE
        /\ next_id = 1
        /\ io_mutex = None
        /\ pc = [c \in Callers |-> "idle"]
        /\ id = [c \in Callers |-> 0]
        /\ outcome = [c \in Callers |-> "none"]
        /\ inbox = <<>>
        /\ asked = {}
        /\ answered = {}
        /\ served = [r \in Asks |-> 0]
        /\ thrownBy = {}
        /\ serving = None
        /\ extra = 0

Goes(c, where) == pc' = [pc EXCEPT ![c] = where]

serverVars == <<asked, answered, extra>>

\* A call is over: the lock guard goes with it.
Leaves(c, how) == /\ Goes(c, "over")
                  /\ outcome' = [outcome EXCEPT ![c] = how]
                  /\ io_mutex' = None

\* A handler of the application calls the client, as the thread that holds the
\* mutex: the call takes its numbers and waits for that mutex for ever (on a
\* std::mutex that is undefined, and with POSIX threads a wait).  Without
\* connection it throws, and the call the handler serves ends with it.
Reenters(c) ==
    /\ \E tokens \in {0, 1} : next_id' = next_id + tokens + (IF connected THEN 1 ELSE 0)
    /\ IF connected THEN Goes(c, "stuck") /\ UNCHANGED <<outcome, io_mutex>>
       ELSE Leaves(c, "threw")

-----------------------------------------------------------------------------
(* A call *)

\* connect: the transport is started and the flag set before initialize is
\* sent; it stays set when initialize fails.
Connect ==
    /\ ~up
    /\ pc[Connector] = "idle"
    /\ up' = TRUE
    /\ connected' = TRUE
    /\ id' = [id EXCEPT ![Connector] = next_id]
    /\ next_id' = next_id + 1
    /\ Goes(Connector, "locking")
    /\ UNCHANGED <<kind, io_mutex, outcome, inbox, served, thrownBy, serving>>
    /\ UNCHANGED serverVars

\* list_tools and its likes take one number, call_tool another one before it
\* for its progress token.  Without connection send_request throws.
Begin(c, tokens) ==
    /\ pc[c] = "idle"
    /\ c # Connector
    /\ connected
    /\ id' = [id EXCEPT ![c] = next_id + tokens]
    /\ next_id' = next_id + tokens + 1
    /\ Goes(c, "locking")
    /\ UNCHANGED <<kind, up, connected, io_mutex, outcome, inbox, served, thrownBy,
                   serving>>
    /\ UNCHANGED serverVars

BeginUnconnected(c) ==
    /\ pc[c] = "idle"
    /\ c # Connector
    /\ ~connected
    /\ Goes(c, "over")
    /\ outcome' = [outcome EXCEPT ![c] = "threw"]
    /\ UNCHANGED <<kind, up, connected, next_id, io_mutex, id, inbox, served, thrownBy,
                   serving>>
    /\ UNCHANGED serverVars

\* The messages an HTTP server may send back with what it is sent: the answer to
\* one of the calls N or none, with a request of its own or something else on
\* either side.
Batches(N) ==
    LET own   == {Response(n) : n \in N}
        other == {Request(r) : r \in {r \in Asks : served[r] = 0}} \cup Extras
    IN  {<<>>} \cup {<<m>> : m \in own \cup other}
        \cup {<<m, o>> : m \in own, o \in other} \cup {<<o, m>> : m \in own, o \in other}

AnswersIn(b)  == {b[i].id : i \in {i \in DOMAIN b : b[i].type = "response"}}
RequestsIn(b) == {b[i].id : i \in {i \in DOMAIN b : b[i].type = "request"}}
ExtrasIn(b)   == Cardinality({i \in DOMAIN b : b[i] \in Extras})

\* A request of the server is sent once.
Fresh(b) == /\ \A i \in DOMAIN inbox : inbox[i].type = "request" => inbox[i].id \notin RequestsIn(b)
            /\ serving \notin RequestsIn(b)
            /\ thrownBy \cap RequestsIn(b) = {}
            /\ extra + ExtrasIn(b) <= MaxExtra

\* A message goes out over HTTP: what it brings back is queued behind q, and what
\* the server has not answered of N it may answer later.
Posts(q, N) == \E b \in Batches(N) :
    /\ Fresh(b)
    /\ inbox' = q \o b
    /\ extra' = extra + ExtrasIn(b)
    /\ asked' = N \ AnswersIn(b)
    /\ answered' = answered \cup AnswersIn(b)

\* A mistake: the mutex is not waited for.
SendUnlocked(c) ==
    /\ pc[c] = "locking"
    /\ kind = "stdio" /\ up
    /\ asked' = asked \cup {id[c]}
    /\ io_mutex' = IF io_mutex = None THEN c ELSE io_mutex
    /\ Goes(c, "receiving")
    /\ UNCHANGED <<kind, up, connected, next_id, id, outcome, inbox, served, thrownBy,
                   serving, answered, extra>>

\* The request goes out under the mutex; over HTTP the batch comes back with
\* it.  A pipe nobody reads takes it, too; a transport that is stopped, or an
\* HTTP error, throws.
Send(c) ==
    /\ pc[c] = "locking"
    /\ io_mutex = None
    /\ \/ /\ kind = "stdio" /\ connected
          /\ asked' = IF up THEN asked \cup {id[c]} ELSE asked
          /\ io_mutex' = c
          /\ Goes(c, "receiving")
          /\ UNCHANGED <<outcome, inbox, answered, extra>>
       \/ /\ kind = "http"
          /\ Posts(inbox, asked \cup {id[c]})
          /\ io_mutex' = c
          /\ Goes(c, "receiving")
          /\ UNCHANGED outcome
       \/ /\ kind = "stdio" => ~connected
          /\ Leaves(c, "threw")
          /\ UNCHANGED <<inbox, asked, answered, extra>>
    /\ UNCHANGED <<kind, up, connected, next_id, id, served, thrownBy, serving>>

\* receive() finds no message: "" over HTTP, an end of file over stdio.
ReceiveNothing(c) ==
    /\ pc[c] = "receiving"
    /\ inbox = <<>>
    /\ kind = "stdio" => ~up
    /\ Leaves(c, "threw")
    /\ UNCHANGED <<kind, up, connected, next_id, id, inbox, served, thrownBy, serving>>
    /\ UNCHANGED serverVars

\* A mistake: an answer that is not one's own goes back to the end of the inbox.
ReceiveRequeues(c) ==
    /\ pc[c] = "receiving"
    /\ inbox # <<>>
    /\ Head(inbox).type = "response"
    /\ IF Head(inbox).id = id[c]
       THEN /\ inbox' = Tail(inbox)
            /\ Leaves(c, "answered")
       ELSE /\ inbox' = Append(Tail(inbox), Head(inbox))
            /\ UNCHANGED <<pc, outcome, io_mutex>>
    /\ UNCHANGED <<kind, up, connected, next_id, id, served, thrownBy, serving>>
    /\ UNCHANGED serverVars

\* A response: one's own ends the call (by a result or an error), another is
\* skipped.  After a result of initialize connect has a notification to send.
ReceiveResponse(c) ==
    /\ pc[c] = "receiving"
    /\ inbox # <<>>
    /\ Head(inbox).type = "response"
    /\ inbox' = Tail(inbox)
    /\ \/ Head(inbox).id = id[c] /\ Leaves(c, "answered")
       \/ /\ Head(inbox).id = id[c] /\ c = Connector
          /\ Goes(c, "notifying")
          /\ io_mutex' = None
          /\ UNCHANGED outcome
       \/ Head(inbox).id # id[c] /\ UNCHANGED <<pc, outcome, io_mutex>>
    /\ UNCHANGED <<kind, up, connected, next_id, id, served, thrownBy, serving>>
    /\ UNCHANGED serverVars

\* What is no JSON object, or an empty line, throws out of the call;
\* handle_notification runs the progress handler, with the mutex held: it returns
\* (or is not set), throws, or calls the client.
ReceiveExtra(c) ==
    /\ pc[c] = "receiving"
    /\ inbox # <<>>
    /\ Head(inbox) \in Extras
    /\ inbox' = Tail(inbox)
    /\ \/ Leaves(c, "threw") /\ UNCHANGED next_id
       \/ /\ Head(inbox).type = "progress"
          /\ UNCHANGED <<pc, outcome, io_mutex, next_id>>
       \/ Head(inbox).type = "progress" /\ Reenters(c)
    /\ UNCHANGED <<kind, up, connected, id, served, thrownBy, serving>>
    /\ UNCHANGED serverVars

\* respond: the answer to request r is sent, q is what is left to read.  Over
\* stdio a pipe takes it, and a transport that is stopped throws before; over
\* HTTP messages may come back with it, or it throws, arrived or not.
Respond(c, r, q) ==
    \/ /\ kind = "stdio" /\ ~connected
       /\ inbox' = q
       /\ thrownBy' = thrownBy \cup {r}
       /\ Leaves(c, "threw")
       /\ UNCHANGED served
       /\ UNCHANGED serverVars
    \/ /\ served' = [served EXCEPT ![r] = @ + 1]
       /\ UNCHANGED thrownBy
       /\ \/ /\ kind = "stdio" /\ connected
             /\ inbox' = q
             /\ Goes(c, "receiving") /\ UNCHANGED <<outcome, io_mutex>>
             /\ UNCHANGED serverVars
          \/ /\ kind = "http"
             /\ Posts(q, asked)
             /\ Goes(c, "receiving") /\ UNCHANGED <<outcome, io_mutex>>
          \/ /\ kind = "http"
             /\ inbox' = q
             /\ Leaves(c, "threw")
             /\ UNCHANGED serverVars

\* handle_server_request: an error is sent at once for a method that is none or
\* has no handler, else the sampling handler runs, with the mutex held.
ReceiveRequest(c) ==
    /\ pc[c] = "receiving"
    /\ inbox # <<>>
    /\ Head(inbox).type = "request"
    /\ \/ /\ Respond(c, Head(inbox).id, Tail(inbox))
          /\ UNCHANGED serving
       \/ /\ inbox' = Tail(inbox)
          /\ serving' = Head(inbox).id
          /\ Goes(c, "handling")
          /\ UNCHANGED <<outcome, io_mutex, served, thrownBy>>
          /\ UNCHANGED serverVars
    /\ UNCHANGED <<kind, up, connected, next_id, id>>

\* A mistake: the result is sent by the handler's wrapper and again behind it.
HandlerEndsTwice(c) ==
    /\ pc[c] = "handling"
    /\ serving' = None
    /\ served' = [served EXCEPT ![serving] = @ + 2]
    /\ Goes(c, "receiving")
    /\ UNCHANGED <<kind, up, connected, next_id, io_mutex, id, outcome, inbox, thrownBy>>
    /\ UNCHANGED serverVars

\* The handler returns and its result is sent, or it throws: the call ends with
\* it, the request stays without answer, and what the call waited for stays in the
\* queue.
HandlerEnds(c) ==
    /\ pc[c] = "handling"
    /\ serving' = None
    /\ \/ Respond(c, serving, inbox)
       \/ /\ thrownBy' = thrownBy \cup {serving}
          /\ Leaves(c, "threw")
          /\ UNCHANGED <<served, inbox, serverVars>>
    /\ UNCHANGED <<kind, up, connected, next_id, id>>

\* The handler calls the client.
HandlerReenters(c) ==
    /\ pc[c] = "handling"
    /\ Reenters(c)
    /\ IF connected THEN UNCHANGED <<serving, thrownBy>>
       ELSE serving' = None /\ thrownBy' = thrownBy \cup {serving}
    /\ UNCHANGED <<kind, up, connected, id, inbox, served>>
    /\ UNCHANGED serverVars

\* send_notification of connect, under the mutex; without connection it returns
\* without it.  Over HTTP messages come back with it, or it throws.
Notify(c) ==
    /\ pc[c] = "notifying"
    /\ Goes(c, "over")
    /\ \/ /\ ~connected \/ (kind = "stdio" /\ io_mutex = None)
          /\ outcome' = [outcome EXCEPT ![c] = "answered"]
          /\ UNCHANGED <<inbox, serverVars>>
       \/ /\ kind = "http" /\ io_mutex = None
          /\ outcome' = [outcome EXCEPT ![c] = "answered"]
          /\ Posts(inbox, asked)
       \/ /\ kind = "stdio" => ~connected
          /\ io_mutex = None
          /\ outcome' = [outcome EXCEPT ![c] = "threw"]
          /\ UNCHANGED <<inbox, serverVars>>
    /\ UNCHANGED <<kind, up, connected, next_id, io_mutex, id, served, thrownBy, serving>>

\* disconnect, without the mutex.  Over stdio the pipes are closed: the server
\* ends, and what it wrote is not read any more.
Disconnect ==
    /\ connected
    /\ connected' = FALSE
    /\ IF kind = "stdio" THEN up' = FALSE /\ inbox' = <<>> ELSE UNCHANGED <<up, inbox>>
    /\ UNCHANGED <<kind, next_id, io_mutex, pc, id, outcome, served, thrownBy, serving>>
    /\ UNCHANGED serverVars

-----------------------------------------------------------------------------
(* The server, over stdio *)

Writes(m) == kind = "stdio" /\ up /\ inbox' = Append(inbox, m)

others == <<kind, up, connected, next_id, io_mutex, pc, id, outcome, served, thrownBy,
            serving>>

Answer(n) == /\ n \in asked
             /\ Writes(Response(n))
             /\ asked' = asked \ {n}
             /\ answered' = answered \cup {n}
             /\ UNCHANGED <<others, extra>>

Ask(r) == /\ served[r] = 0
          /\ Fresh(<<Request(r)>>)
          /\ Writes(Request(r))
          /\ UNCHANGED <<others, serverVars>>

WriteExtra(m) == /\ extra < MaxExtra
                 /\ Writes(m)
                 /\ extra' = extra + 1
                 /\ UNCHANGED <<others, asked, answered>>

\* It ends by itself; what it wrote can still be read.
Exit == /\ kind = "stdio" /\ up /\ connected
        /\ up' = FALSE
        /\ UNCHANGED <<kind, connected, next_id, io_mutex, pc, id, outcome, inbox,
                       served, thrownBy, serving>>
        /\ UNCHANGED serverVars

-----------------------------------------------------------------------------

Call(c) == \/ Send(c)
           \/ ReceiveNothing(c)
           \/ ReceiveResponse(c)
           \/ ReceiveExtra(c)
           \/ ReceiveRequest(c)
           \/ HandlerEnds(c)
           \/ HandlerReenters(c)
           \/ Notify(c)

MaxId == 2 * Cardinality(Callers)

Server == \/ \E n \in 1..MaxId : Answer(n)
          \/ \E r \in Asks : Ask(r)
          \/ \E m \in Extras : WriteExtra(m)
          \/ Exit

\* The client may rest, and a thread that waits for its own mutex must.
Resting == /\ \A c \in Callers : pc[c] \in {"idle", "over", "stuck"}
                                 \/ (\E b \in Callers : pc[b] = "stuck")
           /\ UNCHANGED vars

Next == \/ Connect
        \/ \E c \in Callers : \/ \E tokens \in {0, 1} : Begin(c, tokens)
                              \/ BeginUnconnected(c)
                              \/ Call(c)
        \/ Disconnect
        \/ Server
        \/ Resting

Spec == Init /\ [][Next]_vars

\* A call's own steps are taken.  That the server answers, too, is a
\* hypothesis of CallsReturn.
FairSpec == Spec /\ \A c \in Callers : WF_vars(Call(c))

ServerAnswers == \A n \in 1..MaxId : WF_vars(Answer(n))

-----------------------------------------------------------------------------
(* Properties *)

Messages == [type : {"response"}, id : Nat] \cup [type : {"request"}, id : Asks] \cup Extras

TypeOK == /\ kind \in {"stdio", "http"}
          /\ up \in BOOLEAN
          /\ connected \in BOOLEAN
          /\ next_id \in Nat \ {0}
          /\ io_mutex \in Callers \cup {None}
          /\ pc \in [Callers -> {"idle", "locking", "receiving", "handling", "notifying", "stuck", "over"}]
          /\ id \in [Callers -> Nat]
          /\ outcome \in [Callers -> {"none", "answered", "threw"}]
          /\ inbox \in Seq(Messages)
          /\ asked \in SUBSET Nat
          /\ answered \in SUBSET Nat
          /\ served \in [Asks -> Nat]
          /\ thrownBy \in SUBSET Asks
          /\ serving \in Asks \cup {None}
          /\ extra \in Nat

\* One call reads at a time: the one that holds the mutex.
OneReader == \A c \in Callers : pc[c] \in {"receiving", "handling", "stuck"} <=> io_mutex = c

\* No two calls share a number, a progress token is no call's number, and the
\* server knows of no number that was not given.
IdsApart == /\ \A b, c \in Callers : b # c /\ id[b] # 0 => id[b] # id[c]
            /\ \A c \in Callers : id[c] < next_id
            /\ \A c \in Callers : pc[c] # "idle" /\ id[c] = 0 => pc[c] = "over"
            /\ \A n \in asked \cup answered : n \in 1..(next_id - 1)

Awaiting(c) == pc[c] \in {"receiving", "handling", "stuck"}

\* The answer to a call that still waits for it is in the queue: none of the
\* calls before it, given up with their answers unread, took it or lost it, and
\* none of the server's requests served in between did.  (After disconnect
\* the queue is gone.)
AnswerKept == \A c \in Callers : Awaiting(c) /\ id[c] \in answered /\ (kind = "http" \/ connected) =>
    Response(id[c]) \in {inbox[i] : i \in DOMAIN inbox}

\* A call that returns was answered: by its own number.
AnsweredByOwn ==
    \A c \in Callers : outcome[c] = "answered" \/ pc[c] = "notifying" => id[c] \in answered

\* Before the first connection there is nothing to lose, and a connection once
\* given up is not made again.
OneConnection == pc[Connector] = "idle" =>
    /\ ~connected /\ ~up
    /\ \A c \in Callers : pc[c] \in {"idle", "over"}

\* The server answers what was sent: no call that has not sent yet, and whatever
\* answer is on its way it has given.
AnswersSent ==
    /\ \A c \in Callers : pc[c] \in {"idle", "locking"} => id[c] \notin asked \cup answered
    /\ \A i \in DOMAIN inbox : inbox[i].type = "response" => inbox[i].id \in answered
    /\ \A c \in Callers : outcome[c] # "none" => pc[c] = "over"

\* A request of the server that is on its way has not been read, and is there
\* once.
Unread(r) == served[r] = 0 /\ r # serving /\ r \notin thrownBy

RequestsUnread ==
    /\ \A i \in DOMAIN inbox : inbox[i].type = "request" => Unread(inbox[i].id)
    /\ \A i, j \in DOMAIN inbox :
          inbox[i].type = "request" /\ inbox[j].type = "request" /\ inbox[i].id = inbox[j].id => i = j
    /\ \A c \in Callers : pc[c] = "handling" => serving # None
    /\ serving # None => \E c \in Callers : pc[c] \in {"handling", "stuck"}
    /\ serving \notin thrownBy

\* No request of the server is answered twice, whichever thread's loop comes upon
\* it and whatever its answer's own POST brings back, and none is when the
\* handler threw or still runs.
ServedOnce == \A r \in Asks :
    /\ served[r] <= 1
    /\ r \in thrownBy \/ r = serving => served[r] = 0

McpInv == TypeOK /\ OneReader /\ IdsApart /\ AnswerKept /\ AnsweredByOwn /\ OneConnection
          /\ AnswersSent /\ RequestsUnread

\* When the server answers, every call that has begun returns or throws, as does
\* connect with its notification, unless some call of the client is inside a
\* sampling or progress handler that calls the client again: that one never ends,
\* and with it no call behind it.
CallsReturn == ServerAnswers =>
    \A c \in Callers :
        (pc[c] = "locking") ~> (pc[c] = "over" \/ \E b \in Callers : pc[b] = "stuck")
=============================================================================
