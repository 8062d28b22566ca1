---------------------------- MODULE ResilientStream ----------------------------
(***************************************************************************)
(* make_resilient_stream over the streaming calls of an HttpClient: the    *)
(* bytes of a call go through SseParser::parse, its events are yielded one *)
(* by one, and a stream that throws is opened again from its beginning.    *)
(* Plain calls go on beside it and share the pool.                         *)
(***************************************************************************)
EXTENDS HttpClient, SseParser

CONSTANTS Wires,       \* bodies a server may send: pieces, each a sequence of tokens
          WiresBeside, \* bound: those of them it sends while plain calls go on
          NStreams,    \* bound: streaming calls; they are 1..NStreams
          MaxReconnect \* max_reconnect_attempts

ASSUME StreamAssumption == /\ NStreams \in Nat
                           /\ StreamCalls = 1..NStreams
                           /\ MaxReconnect \in Nat
                           /\ WiresBeside \subseteq Wires
                           /\ Wires \subseteq Seq(Seq(STRING))
                           /\ \A w \in Wires : Len(w) <= MaxSize

VARIABLES wire,     \* the body every call of this stream is answered with
          beside,   \* the plain calls that go on beside the stream
          phase,    \* where the generator is
          cur,      \* its current call
          attempt,  \* failures since the last event
          parser,   \* the parser of the current call
          yielded   \* the events each call has yielded

streamVars == <<wire, beside, phase, cur, attempt, parser, yielded>>
allVars == <<vars, streamVars>>

StreamInit == /\ Init
              /\ beside \in SUBSET PlainCalls
              /\ cancelled \subseteq beside
              /\ wire \in (IF beside = {} THEN Wires ELSE WiresBeside)
              /\ phase = "opening"
              /\ cur = 0
              /\ attempt = 0
              /\ parser = NewParser
              /\ yielded = [c \in StreamCalls |-> <<>>]

\* factory(): the next call.
Open == /\ phase = "opening"
        /\ cur < NStreams
        /\ cur' = cur + 1
        /\ Submit(cur')
        /\ phase' = "streaming"
        /\ parser' = NewParser
        /\ UNCHANGED <<wire, beside, attempt, yielded>>

\* The three catch clauses: an API error that may not be retried leaves at
\* once, anything else (a cancellation too) when the attempts are used up.
Caught(refused) ==
    IF refused \/ attempt >= MaxReconnect
    THEN phase' = "failed" /\ UNCHANGED attempt
    ELSE phase' = "sleeping" /\ attempt' = attempt + 1

\* The call answers, or throws before there is a body.
StreamAnswered ==
    /\ phase = "streaming"
    /\ Answered(cur)
    /\ IF caller'[cur] = "thrown" THEN Caught(FALSE) ELSE UNCHANGED <<phase, attempt>>
    /\ UNCHANGED <<wire, beside, cur, parser, yielded>>

\* next_event finds nothing more in what the parser was fed.
Drained == parser.events = <<>> /\ ~HasLine(parser)

\* The parser's coroutine pops a chunk when its events have been yielded.
Receive ==
    /\ phase = "streaming"
    /\ Drained
    /\ PopChunk(cur)
    /\ parser' = Feed(parser, FlattenSeq(SubSeq(wire, taken[cur] + 1, taken'[cur])))
    /\ UNCHANGED <<wire, beside, phase, cur, attempt, yielded>>

Break ==
    /\ phase = "streaming"
    /\ Drained
    /\ PopThrows(cur)
    /\ Caught(closed[cur] = "refused")
    /\ UNCHANGED <<wire, beside, cur, parser, yielded>>

\* The body ends; what the parser still holds is taken as a line.
BodyOver ==
    /\ phase = "streaming"
    /\ Drained
    /\ PopEnds(cur)
    /\ parser' = Finish(parser)
    /\ phase' = "ending"
    /\ UNCHANGED <<wire, beside, cur, attempt, yielded>>

\* next_event takes a line, until one makes an event.
Parse == /\ phase \in {"streaming", "ending"}
         /\ parser.events = <<>>
         /\ HasLine(parser)
         /\ parser' = NextLine(parser)
         /\ UNCHANGED <<vars, wire, beside, phase, cur, attempt, yielded>>

\* An event comes out of the parser; a cancellation is thrown instead of it.
Yield ==
    /\ phase \in {"streaming", "ending"}
    /\ parser.events # <<>>
    /\ IF cur \in cancelled
       THEN Caught(FALSE) /\ UNCHANGED <<parser, yielded>>
       ELSE /\ yielded' = [yielded EXCEPT ![cur] = Append(@, Head(parser.events))]
            /\ parser' = [parser EXCEPT !.events = Tail(@)]
            /\ attempt' = 0
            /\ UNCHANGED phase
    /\ UNCHANGED <<vars, wire, beside, cur>>

\* The inner stream ends, and with it the loop.
End == /\ phase = "ending"
       /\ Drained
       /\ phase' = "done"
       /\ UNCHANGED <<vars, wire, beside, cur, attempt, parser, yielded>>

\* A mistake: after the pause the parser's events count as delivered.
WakeResumes ==
    /\ phase = "sleeping"
    /\ phase' = IF 1 \in cancelled THEN "failed" ELSE "ending"
    /\ UNCHANGED <<vars, wire, beside, cur, attempt, parser, yielded>>

\* A mistake: the pause begins anew.
WakeAgain ==
    /\ phase = "sleeping"
    /\ phase' = IF 1 \in cancelled THEN "failed" ELSE "sleeping"
    /\ UNCHANGED <<vars, wire, beside, cur, attempt, parser, yielded>>

\* The pause is over; the token is looked at outside the try block.
Wake == /\ phase = "sleeping"
        /\ phase' = IF 1 \in cancelled THEN "failed" ELSE "opening"
        /\ UNCHANGED <<vars, wire, beside, cur, attempt, parser, yielded>>

\* One token for the stream and all calls its factory makes, another for each
\* plain call.
CancelStream == /\ phase \notin {"done", "failed"}
                /\ 1 \notin cancelled
                /\ Cancel(StreamCalls)
                /\ UNCHANGED streamVars

\* A streaming call is answered with the wire.
StreamThread(c) ==
    /\ Thread(c)
    /\ answer[c] = "pending" /\ answer'[c] = "head" /\ c \in StreamCalls
          => size'[c] = Len(wire)
    /\ answer'[c] = "bad" => size'[c] = 0
    /\ UNCHANGED streamVars

PlainCaller(c) == (Submit(c) \/ Answered(c)) /\ UNCHANGED streamVars

Evict == EvictExpired /\ UNCHANGED streamVars

Steps == \/ Open \/ StreamAnswered \/ Receive \/ Parse \/ Break \/ BodyOver \/ Yield \/ End \/ Wake

\* The application may stop once its calls are over.
Resting == /\ phase \in {"done", "failed"} \/ (phase = "opening" /\ cur = NStreams)
           /\ \A c \in Calls : work[c] \in {"idle", "over"}
           /\ \A c \in beside : caller[c] \in {"complete", "thrown"}
           /\ UNCHANGED allVars

StreamNext == \/ Steps
              \/ \E c \in Calls : StreamThread(c)
              \/ \E c \in beside : PlainCaller(c)
              \/ CancelStream
              \/ Evict
              \/ Resting

\* Threads run on and so do coroutines whose wait is over.  That the network
\* answers or fails in the end is a hypothesis of StreamReturns.
StreamSpec == StreamInit /\ [][StreamNext]_allVars /\ WF_allVars(Steps)

NetworkAnswers == \A c \in StreamCalls : WF_allVars(StreamThread(c))

-----------------------------------------------------------------------------
(* Properties *)

\* The events of each body.
Meaning == [w \in Wires |-> EventsOf(FlattenSeq(w))]

\* A mark comes whole, or the parser takes what it sees of it first for text.
MarkWhole == \A w \in Wires : IsPrefix(BOM, FlattenSeq(w)) => IsPrefix(BOM, w[1])

\* What is yielded of a call is the beginning of what its body means when it
\* is read as a whole: cuts between chunks, in a line, between CR and LF, at
\* the end, show in no event, and nothing is lost or yielded twice.
EventsAsWritten == \A c \in StreamCalls : IsPrefix(yielded[c], Meaning[wire])

\* The stream ends without an exception only after one call's body came whole,
\* and then all its events were yielded, however often it was opened before.
DoneHasAll == phase = "done" => /\ caller[cur] = "complete"
                                /\ yielded[cur] = Meaning[wire]

\* As long as the network answers, the stream ends, unless the server keeps
\* giving it events and then failing, for which the bound on calls stands.
StreamReturns == NetworkAnswers =>
    <>(phase \in {"done", "failed"} \/ (phase = "opening" /\ cur = NStreams))
=============================================================================
