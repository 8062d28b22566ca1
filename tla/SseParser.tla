------------------------------- MODULE SseParser -------------------------------
(***************************************************************************)
(* SseParser: bytes in, server-sent events out, however the bytes are cut  *)
(* into chunks.  Text is a sequence of tokens: the names of fields, ":",   *)
(* " ", CR, LF, the three bytes of a byte order mark, and letters.         *)
(***************************************************************************)
EXTENDS Integers, Sequences, FiniteSets, SequencesExt

BOM == <<"EF", "BB", "BF">>

Event(type, data, id) == [type |-> type, data |-> data, id |-> id]

NewParser == [buffer |-> <<>>, event_type |-> <<"message">>, data_buffer |-> <<>>,
              last_id |-> <<>>, bom_stripped |-> FALSE, events |-> <<>>]

\* The first chunk alone decides whether the text begins with a mark.
StripBom(p) ==
    [p EXCEPT !.bom_stripped = TRUE,
              !.buffer = IF ~p.bom_stripped /\ IsPrefix(BOM, @)
                         THEN SubSeq(@, 4, Len(@)) ELSE @]

\* dispatch_event: without data only the type is reset.
DispatchEvent(p) ==
    [p EXCEPT !.event_type = <<"message">>,
              !.data_buffer = <<>>,
              !.events = IF p.data_buffer = <<>> THEN @
                         ELSE Append(@, Event(p.event_type, p.data_buffer, p.last_id))]

Colon(line) == {i \in DOMAIN line : line[i] = ":"}

\* A line's field name: what stands before the first colon, or all of it.
Field(line) ==
    IF Colon(line) = {} THEN line ELSE SubSeq(line, 1, Min(Colon(line)) - 1)

\* Its value, without one leading space.
Value(line) ==
    LET v == IF Colon(line) = {} THEN <<>>
             ELSE SubSeq(line, Min(Colon(line)) + 1, Len(line))
    IN  IF v # <<>> /\ v[1] = " " THEN Tail(v) ELSE v

\* process_line; a comment and an unknown field change nothing.
ProcessLine(p, line) ==
    CASE Field(line) = <<"event">> -> [p EXCEPT !.event_type = Value(line)]
      [] Field(line) = <<"data">>  ->
            [p EXCEPT !.data_buffer = (IF @ = <<>> THEN @ ELSE Append(@, "LF")) \o Value(line)]
      [] Field(line) = <<"id">>    -> [p EXCEPT !.last_id = Value(line)]
      [] OTHER                     -> p

\* A line without the carriage return at its end.
Chomp(line) == IF line # <<>> /\ Last(line) = "CR" THEN Front(line) ELSE line

\* A line, its line feed gone already, and the carriage return before that too.
TakeLine(p, line) == IF Chomp(line) = <<>> THEN DispatchEvent(p)
                     ELSE ProcessLine(p, Chomp(line))

LineFeeds(text) == {i \in DOMAIN text : text[i] = "LF"}

HasLine(p) == LineFeeds(p.buffer) # {}

\* One round of next_event: the first line that has ended is taken.
NextLine(p) ==
    LET n == Min(LineFeeds(p.buffer))
    IN  TakeLine([p EXCEPT !.buffer = SubSeq(@, n + 1, Len(@))], SubSeq(p.buffer, 1, n - 1))

\* A mistake: a chunk replaces what the one before it left unfinished.
FeedReplaces(p, chunk) == StripBom([p EXCEPT !.buffer = chunk])

Feed(p, chunk) == StripBom([p EXCEPT !.buffer = @ \o chunk])

\* The bytes have ended: a last line without line feed is taken as a line.
Finish(p) == IF p.buffer = <<>> THEN p
             ELSE [p EXCEPT !.buffer = Append(@, "LF")]

-----------------------------------------------------------------------------
(* What the text means, read as a whole *)

\* The numbers of S in order.
InOrder(S) == [k \in 1..Cardinality(S) |->
                  CHOOSE x \in S : Cardinality({y \in S : y < x}) = k - 1]

\* A text without the mark it may begin with.
BodyOf(text) == IF IsPrefix(BOM, text) THEN SubSeq(text, 4, Len(text)) ELSE text

\* A body whose last line is ended.
Ended(body) == IF body = <<>> \/ Last(body) = "LF" THEN body ELSE Append(body, "LF")

\* The lines of an ended body: what stands between two line feeds.
CutAtLineFeeds(body) ==
    LET at == InOrder({0} \cup LineFeeds(body))
    IN  [k \in 1..Cardinality(LineFeeds(body)) |-> Chomp(SubSeq(body, at[k] + 1, at[k + 1] - 1))]

LinesOf(text) == CutAtLineFeeds(Ended(BodyOf(text)))

\* The value the last line from m to n with a field gives to it, or a default.
LastValue(lines, field, m, n, default) ==
    LET S == {i \in m..n : Field(lines[i]) = field}
    IN  IF S = {} THEN default ELSE Value(lines[Max(S)])

\* Where the block of line n begins: behind the last empty line before it.
BlockStart(lines, n) == Max({0} \cup {i \in 1..(n - 1) : lines[i] = <<>>}) + 1

\* The lines from m to n that add to the data.  One without a value adds an end
\* of line to what there is, but nothing to nothing.
DataLines(lines, m, n) ==
    {i \in m..n : /\ Field(lines[i]) = <<"data">>
                  /\ \E j \in m..i : Field(lines[j]) = <<"data">> /\ Value(lines[j]) # <<>>}

\* What they say, joined.
JoinedData(lines, m, n) ==
    LET d == InOrder(DataLines(lines, m, n))
    IN  FlattenSeq([k \in DOMAIN d |-> (IF k = 1 THEN <<>> ELSE <<"LF">>) \o Value(lines[d[k]])])

\* What an empty line at n makes of its block: the last type named in it, its
\* data, and the last id named at all.
EventAt(lines, n) ==
    Event(LastValue(lines, <<"event">>, BlockStart(lines, n), n - 1, <<"message">>),
          JoinedData(lines, BlockStart(lines, n), n - 1),
          LastValue(lines, <<"id">>, 1, n - 1, <<>>))

\* Each empty line that ends a block with data makes an event of it.
EventEnds(lines) == {n \in DOMAIN lines : lines[n] = <<>> /\ EventAt(lines, n).data # <<>>}

\* The events of the first n lines.
EventsTo(lines, n) ==
    LET ends == InOrder({i \in EventEnds(lines) : i <= n})
    IN  [k \in DOMAIN ends |-> EventAt(lines, ends[k])]

EventsOf(text) == EventsTo(LinesOf(text), Len(LinesOf(text)))
=============================================================================
