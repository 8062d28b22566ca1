---------------------------- MODULE AnthropicModel ----------------------------
(***************************************************************************)
(* AnthropicModel: the Messages API.  A reply is a sequence of blocks; a   *)
(* stream gives them one after the other, each between a start and a stop. *)
(* A block is the content it means: what a block of wrong shape would do   *)
(* is left out.                                                            *)
(***************************************************************************)
EXTENDS LanguageModel

\* What a request asks for besides its prompt: see ProviderCalls.
AnthropicMaxTokens(options) == IF options.max_tokens # 0 THEN options.max_tokens
                               ELSE IF options.model = "opus" THEN 32000 ELSE 64000

AnthropicBudget(effort) == CASE effort \in {"minimal", "low"} -> 1024
                             [] effort = "medium"             -> 10000
                             [] effort = "high"               -> 50000
                             [] effort = "xhigh"              -> 100000
                             [] OTHER                         -> 0

\* The thinking field: what the caller gives, an effort for models that adapt,
\* or a budget below max_tokens that is 1024 at least.
AnthropicThinking(options) ==
    LET budget == AnthropicBudget(options.effort)
        limit  == AnthropicMaxTokens(options)
        below  == IF budget < limit THEN budget
                  ELSE IF limit > 1024 THEN limit - 1 ELSE 1024
    IN  IF options.thinking THEN [mode |-> "given", budget |-> 0]
        ELSE IF options.effort \in {"unset", "none"} THEN [mode |-> "off", budget |-> 0]
        ELSE IF options.model = "adaptive" THEN [mode |-> "adaptive", budget |-> 0]
        ELSE IF budget = 0 THEN [mode |-> "off", budget |-> 0]
        ELSE [mode |-> "enabled", budget |-> IF below < 1024 THEN 1024 ELSE below]

\* A file without bytes or address is dropped; a pdf becomes a document.
AnthropicUser(content) ==
    SelectSeq(content, LAMBDA p : p.type # "file" \/ p.data \in {"bytes", "pdf", "url"})

\* A mistake: thinking goes back without its signature.
AnthropicAssistantUnsigned(content) ==
    [i \in DOMAIN content |->
        IF content[i].type = "reasoning"
        THEN Reasoning(content[i].text, <<>>, content[i].redacted) ELSE content[i]]

\* Thinking goes back with its signature, redacted thinking as it came.
AnthropicAssistant(content) ==
    [i \in DOMAIN content |->
        IF content[i].type = "reasoning" /\ content[i].redacted # <<>>
        THEN Reasoning(<<>>, <<>>, content[i].redacted) ELSE content[i]]

\* A result that is neither text, JSON nor an error loses what it says.
AnthropicResults(content) ==
    [i \in DOMAIN content |-> [type |-> "result", id |-> content[i].id,
                               error |-> IsError(content[i].output),
                               empty |-> content[i].output = "denied"]]

AnthropicMessage(m) ==
    CASE m.role = "user"      -> <<Message("user", AnthropicUser(m.content))>>
      [] m.role = "assistant" -> <<Message("assistant", AnthropicAssistant(m.content))>>
      [] m.role = "tool"      -> <<Message("user", AnthropicResults(m.content))>>

\* The request: the last system message alone.  A schema takes the place of
\* all tools: it is the one tool, which must be called.
AnthropicRequest(prompt, options) ==
    [system   |-> LastSystem(prompt),
     messages |-> Translated(prompt, AnthropicMessage),
     tools    |-> IF options.structured THEN <<"json">> ELSE options.tools \o options.builtin,
     choice   |-> IF options.structured THEN "specific"
                  ELSE IF options.tools \o options.builtin = <<>> THEN "unset"
                  ELSE options.choice,
     thinking |-> AnthropicThinking(options)]

-----------------------------------------------------------------------------
(* The answer as a whole *)

AnthropicReason(stop) == CASE stop \in {"end_turn", "stop_sequence"} -> "Stop"
                           [] stop \in {"max_tokens", "model_context_window_exceeded"} -> "Length"
                           [] stop = "tool_use" -> "ToolCalls"
                           [] stop = "refusal"  -> "ContentFilter"
                           [] OTHER             -> "Other"

\* For a schema the input of the first call, the forced one, is the text.
AnthropicGenerate(reply, options) ==
    LET content == WithInputs(reply.content, Serialized)
        calls   == OfType(content, {"call"})
    IN  IF options.structured /\ calls # <<>>
        THEN Result(<<Text(calls[1].text)>>, "Stop")
        ELSE Result(content, AnthropicReason(reply.stop))

-----------------------------------------------------------------------------
(* The answer as a stream *)

\* The events a server sends: text, input, thinking and signature letter by letter;
\* of an input without fields, which its start shows, none.
AnthropicEvents(reply) ==
    LET event(type, block, text) == [type |-> type, block |-> block, text |-> text]
        pieces(b) == [i \in DOMAIN b.text |-> event("delta", b, <<b.text[i]>>)]
        signed(b) == IF b.type = "reasoning"
                     THEN [i \in DOMAIN b.signature |-> event("signature", b, <<b.signature[i]>>)]
                     ELSE <<>>
        of(b)     == <<event("block_start", b, <<>>)>> \o pieces(b) \o signed(b)
                     \o <<event("block_stop", b, <<>>)>>
        none      == Text(<<>>)
    IN  <<event("message_start", none, <<>>)>>
        \o FlattenSeq([i \in DOMAIN reply.content |-> of(reply.content[i])])
        \o <<[type |-> "message_delta", stop |-> reply.stop], event("message_stop", none, <<>>)>>

\* The flags in_text, in_tool_input and in_thinking, as the set of those set.
AnthropicStart == [in |-> {}, tool |-> "", signature |-> <<>>, reason |-> "Stop"]

\* What an event does to the state, and the parts it yields.
Step(st, parts) == [st |-> st, parts |-> parts]

AnthropicBlockStart(st, b, options) ==
    CASE b.type = "text" ->
            Step([st EXCEPT !.in = @ \cup {"text"}], <<Start("text", "0", "")>>)
      [] b.type = "call" /\ options.structured ->
            Step([st EXCEPT !.in = @ \cup {"text"}, !.tool = b.id], <<Start("text", "0", "")>>)
      [] b.type = "call" /\ ~options.structured ->
            Step([st EXCEPT !.in = @ \cup {"call"}, !.tool = b.id],
                 <<Start("call", b.id, b.name)>>)
      [] b.type = "reasoning" /\ b.redacted # <<>> ->
            Step(st, <<Start("reasoning", "0", ""),
                       [End("reasoning", "0") EXCEPT !.redacted = b.redacted]>>)
      [] OTHER ->
            Step([st EXCEPT !.in = @ \cup {"reasoning"}, !.signature = <<>>],
                 <<Start("reasoning", "0", "")>>)

AnthropicDelta(st, e, options) ==
    LET of == IF e.block.type = "call" /\ options.structured THEN "text" ELSE e.block.type
    IN  Step(st, <<Delta(of, IF of = "call" THEN st.tool ELSE "0", e.text)>>)

\* A mistake: the first flag that is set stays set.
AnthropicBlockStopKeeps(st) ==
    IF "text" \in st.in THEN Step(st, <<End("text", "0")>>)
    ELSE IF "call" \in st.in THEN Step(st, <<End("call", st.tool)>>)
    ELSE IF "reasoning" \in st.in
    THEN Step(st, <<[End("reasoning", "0") EXCEPT !.signature = st.signature]>>)
    ELSE Step(st, <<>>)

AnthropicBlockStop(st) ==
    IF "text" \in st.in THEN Step([st EXCEPT !.in = @ \ {"text"}], <<End("text", "0")>>)
    ELSE IF "call" \in st.in THEN Step([st EXCEPT !.in = @ \ {"call"}], <<End("call", st.tool)>>)
    ELSE IF "reasoning" \in st.in
    THEN Step([st EXCEPT !.in = @ \ {"reasoning"}, !.signature = <<>>],
              <<[End("reasoning", "0") EXCEPT !.signature = st.signature]>>)
    ELSE Step(st, <<>>)

AnthropicStep(st, e, options) ==
    CASE e.type = "block_start"   -> AnthropicBlockStart(st, e.block, options)
      [] e.type = "delta"         -> AnthropicDelta(st, e, options)
      [] e.type = "signature"     -> Step([st EXCEPT !.signature = @ \o e.text], <<>>)
      [] e.type = "block_stop"    -> AnthropicBlockStop(st)
      [] e.type = "message_delta" -> Step([st EXCEPT !.reason = AnthropicReason(e.stop)], <<>>)
      [] e.type = "message_stop"  -> Step(st, <<Finish(st.reason)>>)
      [] e.type = "error"         -> Step(st, <<Failure>>)
      [] OTHER                    -> Step(st, <<>>)
=============================================================================
