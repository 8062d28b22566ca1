------------------------------ MODULE OpenAIModel ------------------------------
(***************************************************************************)
(* OpenAIModel: Chat Completions, of OpenAI and of the hosts that speak    *)
(* it.  A reply has a text, a reasoning, a refusal and calls; a stream has *)
(* chunks with something of each, calls told apart by their index.  A text *)
(* that is <<>> is not there; one that is empty is the piece "".           *)
(***************************************************************************)
EXTENDS LanguageModel

\* Which effort is sent: none to OpenAI's models that do not reason, unless the
\* caller gives it raw.
OpenAIThinking(options) ==
    IF options.effort # "unset"
       /\ (options.model = "reasoning" \/ options.host # "openai" \/ options.forced)
    THEN options.effort ELSE "off"

\* Without files a user's text is one string; a file without bytes or address
\* is dropped.
OpenAIUser(content) ==
    IF OfType(content, {"file"}) = <<>> THEN <<Text(Texts(content))>>
    ELSE SelectSeq(content, LAMBDA p : p.type # "file" \/ p.data \in {"bytes", "pdf", "url"})

\* An assistant's texts are one, of its reasonings the last is kept, and its
\* calls come behind them.
OpenAIAssistant(content) ==
    LET reasonings == OfType(content, {"reasoning"})
        text       == Texts(OfType(content, {"text"}))
    IN  (IF reasonings = <<>> THEN <<>> ELSE <<Reasoning(Last(reasonings).text, <<>>, <<>>)>>)
        \o (IF text = <<>> THEN <<>> ELSE <<Text(text)>>)
        \o OfType(content, {"call"})

\* One message for each result, which does not say whether it is an error.
OpenAIResults(content) ==
    [i \in DOMAIN content |->
        Message("tool", <<[type |-> "result", id |-> content[i].id, error |-> FALSE,
                           empty |-> content[i].output = "denied"]>>)]

OpenAIMessage(m, options) ==
    CASE m.role = "system"    -> <<Message(IF options.model = "reasoning" THEN "developer"
                                           ELSE "system", m.content)>>
      [] m.role = "user"      -> <<Message("user", OpenAIUser(m.content))>>
      [] m.role = "assistant" -> <<Message("assistant", OpenAIAssistant(m.content))>>
      [] m.role = "tool"      -> OpenAIResults(m.content)

\* How a schema is asked for: by the host's own means or, where it has none,
\* as an instruction in front of all messages.
OpenAIFormat(options) ==
    IF ~options.structured THEN "text"
    ELSE IF options.format # "unset" THEN options.format
    ELSE IF options.host = "openai" THEN "json_schema" ELSE "json_object"

OpenAIRequest(prompt, options) ==
    LET instruction == IF OpenAIFormat(options) \in {"text", "json_schema"} THEN <<>>
                       ELSE <<Message("system", <<Text(<<"schema">>)>>)>>
    IN  [system   |-> <<>>,
         messages |-> instruction \o FlattenSeq([i \in DOMAIN prompt |->
                                                     OpenAIMessage(prompt[i], options)]),
         tools    |-> options.tools,
         choice   |-> IF options.tools = <<>> THEN "unset" ELSE options.choice,
         thinking |-> OpenAIThinking(options)]

-----------------------------------------------------------------------------
(* The answer as a whole *)

OpenAIReasons == [stop |-> "Stop", length |-> "Length", tool_calls |-> "ToolCalls",
                  content_filter |-> "ContentFilter"]

\* A refusal becomes text, "so it isn't silently lost".
OpenAIGenerate(reply) ==
    LET some(t, c) == IF t = <<>> THEN <<>> ELSE <<c>>
    IN  Result(some(reply.reasoning, Reasoning(reply.reasoning, <<>>, <<>>))
               \o some(reply.text, Text(InOne(reply.text)))
               \o some(reply.refusal, Text(reply.refusal))
               \o WithInputs(reply.calls, Serialized),
               IF reply.stop \in DOMAIN OpenAIReasons THEN OpenAIReasons[reply.stop] ELSE "Other")

-----------------------------------------------------------------------------
(* The answer as a stream *)

Chunk == [text |-> <<>>, reasoning |-> <<>>, refusal |-> <<>>, calls |-> <<>>, stop |-> "unset"]

\* The chunks a server sends: one piece of one thing each, the first of a call
\* with its id and name.  Some hosts fill in an empty text where there is none.
OpenAIEvents(reply) ==
    LET pieces(t, f(_)) == [i \in DOMAIN t |-> f(<<t[i]>>)]
        other           == [Chunk EXCEPT !.text = reply.filler]
        first(n)        == [other EXCEPT !.calls = <<[index |-> n, id |-> reply.calls[n].id,
                                name |-> reply.calls[n].name, text |-> <<>>]>>]
        more(n, t)      == [other EXCEPT !.calls = <<[index |-> n, id |-> "", name |-> "",
                                text |-> t]>>]
    IN  pieces(reply.reasoning, LAMBDA t : [other EXCEPT !.reasoning = t])
        \o pieces(reply.text, LAMBDA t : [Chunk EXCEPT !.text = t])
        \o pieces(reply.refusal, LAMBDA t : [other EXCEPT !.refusal = t])
        \o FlattenSeq([n \in DOMAIN reply.calls |->
               <<first(n)>> \o pieces(reply.calls[n].text, LAMBDA t : more(n, t))])
        \o <<[Chunk EXCEPT !.stop = reply.stop]>>

\* The calls that have begun, by their index.
OpenAIStart == [text |-> FALSE, reasoning |-> FALSE, ids |-> <<>>, reason |-> "Stop"]

\* One call's part of a chunk: a name begins it and closes the text.
OpenAICallDelta(s, d) ==
    LET begins == d.name # "" /\ d.index \notin DOMAIN s.st.ids
        ids    == IF begins THEN [i \in DOMAIN s.st.ids \cup {d.index} |->
                                     IF i = d.index THEN d.id ELSE s.st.ids[i]]
                  ELSE s.st.ids
        before == IF ~begins THEN <<>>
                  ELSE (IF s.st.text THEN <<End("text", "0")>> ELSE <<>>)
                       \o <<Start("call", d.id, d.name)>>
    IN  [st    |-> [s.st EXCEPT !.ids = ids, !.text = @ /\ ~begins],
         parts |-> s.parts \o before \o <<Delta("call", ids[d.index], d.text)>>]

\* A chunk: its reason, its text (which ends the reasoning, and may be empty), its
\* reasoning, and its calls.  The refusal is not looked at.
OpenAIStep(st, e) ==
    LET reason == IF e.stop \in DOMAIN OpenAIReasons THEN OpenAIReasons[e.stop] ELSE st.reason
        begin  == e.text # <<>> /\ ~st.text
        close  == begin /\ st.reasoning
        text   == (IF close THEN <<End("reasoning", "0")>> ELSE <<>>)
                  \o (IF begin THEN <<Start("text", "0", "")>> ELSE <<>>)
                  \o (IF e.text = <<>> THEN <<>> ELSE <<Delta("text", "0", e.text)>>)
        muse   == e.reasoning # <<>> /\ (close \/ ~st.reasoning)
        think  == (IF muse THEN <<Start("reasoning", "0", "")>> ELSE <<>>)
                  \o (IF e.reasoning = <<>> THEN <<>> ELSE <<Delta("reasoning", "0", e.reasoning)>>)
        after  == [st EXCEPT !.reason = reason, !.text = @ \/ begin,
                             !.reasoning = (@ /\ ~close) \/ muse]
    IN  FoldLeft(OpenAICallDelta, [st |-> after, parts |-> text \o think], e.calls)

\* A mistake: calls that are open at the end stay open.
OpenAIEndsText(st) == {(IF st.text THEN <<End("text", "0")>> ELSE <<>>) \o <<Finish(st.reason)>>}

\* What follows the last chunk: whatever is open ends, the calls in the order
\* an unordered map has them, which is any.
OpenAIEnds(st) ==
    LET closed == (IF st.reasoning THEN <<End("reasoning", "0")>> ELSE <<>>)
                  \o (IF st.text THEN <<End("text", "0")>> ELSE <<>>)
        orders == {f \in [1..Cardinality(DOMAIN st.ids) -> DOMAIN st.ids] : IsInjective(f)}
    IN  {closed \o [i \in DOMAIN f |-> End("call", st.ids[f[i]])] \o <<Finish(st.reason)>>
            : f \in orders}
=============================================================================
