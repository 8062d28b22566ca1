------------------------------ MODULE BedrockModel ------------------------------
(***************************************************************************)
(* BedrockModel: Converse.  A reply is a sequence of blocks; its stream    *)
(* comes in binary frames, each with one event, which a read may cut.      *)
(***************************************************************************)
EXTENDS LanguageModel

\* A user's texts alone; of an assistant texts and calls; a result says whether
\* it is an error.  A message of which nothing is left is dropped.
BedrockContent(m) ==
    CASE m.role = "user"      -> OfType(m.content, {"text"})
      [] m.role = "assistant" -> OfType(m.content, {"text", "call"})
      [] m.role = "tool"      ->
            [i \in DOMAIN m.content |->
                [type |-> "result", id |-> m.content[i].id, empty |-> FALSE,
                 error |-> IsError(m.content[i].output) \/ m.content[i].output = "denied"]]

BedrockMessage(m) ==
    IF BedrockContent(m) = <<>> THEN <<>>
    ELSE <<Message(IF m.role = "tool" THEN "user" ELSE m.role, BedrockContent(m))>>

\* A budget, for Claude; max_tokens is not looked at.
BedrockThinking(options) ==
    IF options.model = "other" THEN "off"
    ELSE CASE options.effort \in {"minimal", "low"}       -> "1024"
           [] options.effort = "medium"                   -> "10000"
           [] options.effort \in {"high", "xhigh", "max"} -> "50000"
           [] OTHER                                       -> "off"

\* Every system message is sent.  A choice of no tool is left out, the tools
\* stay.
BedrockRequest(prompt, options) ==
    [system   |-> Contents(prompt, {"system"}),
     messages |-> Translated(prompt, BedrockMessage),
     tools    |-> options.tools,
     choice   |-> IF options.tools = <<>> \/ options.choice = "none" THEN "unset"
                  ELSE options.choice,
     thinking |-> BedrockThinking(options)]

BedrockReason(stop) == CASE stop \in {"end_turn", "stop", "stop_sequence"} -> "Stop"
                         [] stop = "tool_use"         -> "ToolCalls"
                         [] stop = "max_tokens"       -> "Length"
                         [] stop = "content_filtered" -> "ContentFilter"
                         [] OTHER                     -> "Other"

\* A reasoning keeps its text alone.
BedrockGenerate(reply) ==
    Result([i \in DOMAIN reply.content |->
               IF reply.content[i].type = "reasoning"
               THEN Reasoning(reply.content[i].text, <<>>, <<>>)
               ELSE WithInputs(reply.content, Serialized)[i]],
           BedrockReason(reply.stop))

-----------------------------------------------------------------------------

\* The events a server sends: a block by its index; only a call has a start.
BedrockEvents(reply) ==
    LET event(type, n, c, text) == [type |-> type, index |-> ToString(n - 1), block |-> c,
                                    text |-> text, stop |-> reply.stop]
        of(n, c) == (IF c.type = "call" THEN <<event("start", n, c, <<>>)>> ELSE <<>>)
                    \o [i \in DOMAIN c.text |-> event("delta", n, c, <<c.text[i]>>)]
                    \o <<event("stop", n, c, <<>>)>>
        none == Text(<<>>)
    IN  FlattenSeq([n \in DOMAIN reply.content |-> of(n, reply.content[n])])
        \o <<event("messageStop", 1, none, <<>>), event("metadata", 1, none, <<>>)>>

\* What an event yields: the input of a call under its index, every end as
\* that of a text, and a finish with the reason before one with the usage,
\* which says Stop.
BedrockParts(e) ==
    CASE e.type = "start"       -> IF e.block.type = "call"
                                   THEN <<Start("call", e.block.id, e.block.name)>>
                                   ELSE <<Start("text", e.index, "")>>
      [] e.type = "delta"       -> <<Delta(e.block.type, e.index, e.text)>>
      [] e.type = "stop"        -> <<End("text", e.index)>>
      [] e.type = "messageStop" -> <<Finish(BedrockReason(e.stop))>>
      [] e.type = "metadata"    -> <<Finish("Stop")>>

(* Frames.  A frame is two cells on the wire: its prelude, which says how much *)
(* follows, and the event.                                                     *)

Frame(e) == <<[cell |-> "prelude"], [cell |-> "event", event |-> e]>>

\* decode_event, as long as the buffer holds a whole frame.
DecodeWhole(buffer) == Len(buffer) \div 2

\* The parts of the frames a buffer holds, and what it keeps of the next one.
BedrockDecode(buffer) ==
    LET n == DecodeWhole(buffer)
    IN  [st    |-> SubSeq(buffer, 2 * n + 1, Len(buffer)),
         parts |-> FlattenSeq([i \in 1..n |-> BedrockParts(buffer[2 * i].event)])]

BedrockStart == <<>>

\* A read appends what it brought and decodes what is whole.
BedrockStep(st, cells) == BedrockDecode(st \o cells)
=============================================================================
