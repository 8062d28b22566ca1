---------------------------- MODULE OpenAIResponses ----------------------------
(***************************************************************************)
(* OpenAIResponses: the Responses API.  A reply is a sequence of items,    *)
(* texts and calls; the stream is split into events by the model itself,   *)
(* at empty lines.                                                         *)
(***************************************************************************)
EXTENDS LanguageModel

\* The text of a user or an assistant, and nothing else of them, one message
\* each; what tools returned is not sent at all.
ResponsesMessage(m) ==
    IF m.role = "tool" THEN <<>>
    ELSE <<Message(m.role, <<Text(Texts(OfType(m.content, {"text"})))>>)>>

\* An effort given raw wins, and provider options without one silence another.
ResponsesThinking(options) ==
    IF options.effort = "unset" \/ (options.thinking /\ ~options.forced) THEN "off"
    ELSE options.effort

ResponsesRequest(prompt, options) ==
    [system   |-> LastSystem(prompt),
     messages |-> Translated(prompt, ResponsesMessage),
     tools    |-> options.tools,
     choice   |-> options.choice,
     thinking |-> ResponsesThinking(options)]

\* A reply that is complete stops, whether it has calls or not.
ResponsesGenerate(reply) ==
    Result(WithInputs(reply.content, Serialized),
           CASE reply.stop = "completed"  -> "Stop"
             [] reply.stop = "incomplete" -> "Length"
             [] OTHER                     -> "Other")

\* The events a server sends, as the model reads them: an item that is added
\* says itself what it is.
ResponsesEvents(reply) ==
    LET event(type, c, text) == [type |-> type, id |-> IF c.type = "call" THEN c.id ELSE "",
                                 name |-> IF c.type = "call" THEN c.name ELSE "", text |-> text]
        pieces(type, c)      == [i \in DOMAIN c.text |-> event(type, c, <<c.text[i]>>)]
        of(c) == IF c.type = "text"
                 THEN pieces("text.delta", c) \o <<event("text.done", c, <<>>)>>
                 ELSE <<event("call.added", c, <<>>)>> \o pieces("arguments.delta", c)
                      \o <<event("arguments.done", c, <<>>)>>
    IN  FlattenSeq([i \in DOMAIN reply.content |-> of(reply.content[i])])
        \o <<event(reply.stop, Text(<<>>), <<>>)>>

ResponsesStart == [text |-> FALSE, tool |-> ""]

\* What an event does; only a reply that is complete has a finish.
ResponsesStep(st, e) ==
    LET becomes(s, parts) == [st |-> s, parts |-> parts]
    IN  CASE e.type = "text.delta" ->
                becomes([st EXCEPT !.text = TRUE],
                        (IF st.text THEN <<>> ELSE <<Start("text", "0", "")>>)
                        \o <<Delta("text", "0", e.text)>>)
          [] e.type = "text.done" ->
                becomes([st EXCEPT !.text = FALSE], IF st.text THEN <<End("text", "0")>> ELSE <<>>)
          [] e.type = "call.added" ->
                becomes([st EXCEPT !.tool = e.id], <<Start("call", e.id, e.name)>>)
          [] e.type = "arguments.delta" -> becomes(st, <<Delta("call", st.tool, e.text)>>)
          [] e.type = "arguments.done"  -> becomes(st, <<End("call", st.tool)>>)
          [] e.type = "completed"       -> becomes(st, <<Finish("Stop")>>)
          [] OTHER                      -> becomes(st, <<>>)
=============================================================================
