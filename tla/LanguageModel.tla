----------------------------- MODULE LanguageModel -----------------------------
(***************************************************************************)
(* LanguageModel: what every provider translates to and from.  A prompt is *)
(* a sequence of messages, a result has content and a finish reason, and a *)
(* stream is a sequence of parts.  A text is a sequence of letters, and so *)
(* is the input of a call, which stands for its JSON; a call without input *)
(* has no letters.  A piece of a text that is empty is the letter "".      *)
(***************************************************************************)
EXTENDS Integers, Sequences, FiniteSets, SequencesExt

(* Content of a message and of a result *)

Text(t) == [type |-> "text", text |-> t]
ToolCall(id, name, input) == [type |-> "call", id |-> id, name |-> name, text |-> input]
Reasoning(t, signature, redacted) ==
    [type |-> "reasoning", text |-> t, signature |-> signature, redacted |-> redacted]
File(data) == [type |-> "file", data |-> data]
ToolResult(id, name, output) == [type |-> "result", id |-> id, name |-> name, output |-> output]

Outputs == {"text", "json", "error_text", "error_json", "denied"}
IsError(output) == output \in {"error_text", "error_json"}

Message(role, content) == [role |-> role, content |-> content]

Result(content, reason) == [content |-> content, reason |-> reason]

\* The JSON of an object without fields, and of an empty string.
NoFields == <<"{}">>
EmptyString == <<"\"\"">>

\* What a reply as a whole gives as the input of a call that has none.
Serialized(input) == IF input = <<>> THEN NoFields ELSE input

\* safe_parse, or else the text as a JSON string: what is empty does not parse.
\* Of other inputs it is not told apart whether they do.
SafeParsed(input) == IF input = <<>> THEN EmptyString ELSE input

\* The content with what f makes of the inputs of its calls.
WithInputs(content, f(_)) ==
    [i \in DOMAIN content |-> IF content[i].type = "call"
                              THEN [content[i] EXCEPT !.text = f(@)] ELSE content[i]]

\* The letters of a text that came in pieces.
InOne(t) == SelectSeq(t, LAMBDA l : l # "")

OfType(content, types) == SelectSeq(content, LAMBDA c : c.type \in types)
Texts(content) == FlattenSeq([i \in DOMAIN content |-> content[i].text])

\* The content of all messages of the given roles, in order.
Contents(messages, roles) ==
    FlattenSeq([i \in DOMAIN messages |->
                   IF messages[i].role \in roles THEN messages[i].content ELSE <<>>])

\* The last message of a role, as a sequence of at most one text.
LastSystem(prompt) ==
    LET s == SelectSeq(prompt, LAMBDA m : m.role = "system")
    IN  IF s = <<>> \/ Last(s).content[1].text = <<>> THEN <<>> ELSE <<Last(s).content[1]>>

\* Each message but the system's, as f translates it; f leaves out a message by <<>>.
Translated(prompt, f(_)) ==
    FlattenSeq([i \in DOMAIN prompt |-> IF prompt[i].role = "system" THEN <<>> ELSE f(prompt[i])])

-----------------------------------------------------------------------------
(* Parts of a stream; a block is a text, a reasoning or the input of a call *)

Start(of, id, name) == [part |-> "start", of |-> of, id |-> id, name |-> name]
Delta(of, id, text) == [part |-> "delta", of |-> of, id |-> id, text |-> text]
End(of, id) == [part |-> "end", of |-> of, id |-> id, signature |-> <<>>, redacted |-> <<>>]
Finish(reason) == [part |-> "finish", of |-> "message", id |-> "", reason |-> reason]
Failure == [part |-> "error", of |-> "message", id |-> ""]

\* What a consumer has after the parts before one, and after it: stream_text's
\* account of a step.
Nothing == [text |-> <<>>, calls |-> <<>>, pending |-> <<>>, reasoning |-> <<>>,
            signature |-> <<>>, redacted |-> <<>>, reason |-> "Stop"]

\* The pending calls but that of id.
Without(pending, id) == SelectSeq(pending, LAMBDA c : c.id # id)

Accumulate(acc, p) ==
    CASE p.part = "delta" /\ p.of = "text"      -> [acc EXCEPT !.text = @ \o p.text]
      [] p.part = "delta" /\ p.of = "reasoning" -> [acc EXCEPT !.reasoning = @ \o p.text]
      [] p.part = "start" /\ p.of = "reasoning" ->
            [acc EXCEPT !.reasoning = <<>>, !.signature = <<>>, !.redacted = <<>>]
      [] p.part = "end" /\ p.of = "reasoning"   ->
            [acc EXCEPT !.signature = IF p.signature = <<>> THEN @ ELSE p.signature,
                        !.redacted = IF p.redacted = <<>> THEN @ ELSE p.redacted]
      [] p.part = "start" /\ p.of = "call"      ->
            [acc EXCEPT !.pending = Append(Without(@, p.id), ToolCall(p.id, p.name, <<>>))]
      [] p.part = "delta" /\ p.of = "call"      ->
            [acc EXCEPT !.pending = [i \in DOMAIN @ |->
                IF @[i].id = p.id THEN [@[i] EXCEPT !.text = @ \o p.text] ELSE @[i]]]
      [] p.part = "end" /\ p.of = "call"        ->
            [acc EXCEPT !.pending = Without(@, p.id),
                        !.calls = @ \o SelectSeq(acc.pending, LAMBDA c : c.id = p.id)]
      [] p.part = "finish"                      -> [acc EXCEPT !.reason = p.reason]
      [] OTHER                                  -> acc

\* The result stream_text makes of the parts of a step.
Gathered(parts) ==
    LET acc == FoldLeft(Accumulate, Nothing, parts)
        reasoning == IF acc.reasoning = <<>> /\ acc.redacted = <<>> THEN <<>>
                     ELSE <<Reasoning(acc.reasoning, acc.signature, acc.redacted)>>
        text == IF InOne(acc.text) = <<>> THEN <<>> ELSE <<Text(InOne(acc.text))>>
    IN  Result(reasoning \o text \o acc.calls, acc.reason)

\* append_assistant_message: the content goes back into the prompt, its inputs
\* as the tools get them.
AssistantMessage(result) == Message("assistant", WithInputs(result.content, SafeParsed))
=============================================================================
