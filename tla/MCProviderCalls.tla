---------------------------- MODULE MCProviderCalls ----------------------------
(***************************************************************************)
(* Instances of ProviderCalls for TLC: every provider with a few replies   *)
(* of each shape.                                                          *)
(***************************************************************************)
EXTENDS ProviderCalls

All == {"anthropic", "openai", "responses", "google", "bedrock"}

Plain == [tools |-> <<>>, builtin |-> <<>>, choice |-> "unset", structured |-> FALSE,
          effort |-> "unset", thinking |-> FALSE, forced |-> FALSE, max_tokens |-> 0,
          model |-> "other", host |-> "openai", format |-> "unset"]
WithTools == [Plain EXCEPT !.tools = <<"f">>, !.choice = "auto"]
Thinks == [WithTools EXCEPT !.effort = "high", !.model = "reasoning", !.max_tokens = 2000]
Schema == [WithTools EXCEPT !.structured = TRUE, !.host = "groq", !.choice = "none"]

AllOptions ==
    [p \in All |-> CASE p = "anthropic" -> {WithTools, Thinks, Schema}
                     [] p = "openai"    -> {WithTools, Thinks, Schema}
                     [] OTHER           -> {WithTools, Thinks}]

User == Message("user", <<Text(<<"q">>), File("bytes"), File("none")>>)
Call(n, input) == ToolCall("c" \o ToString(n), "f", input)

\* A conversation that begins, and one that went on through two calls, the
\* second of a stream that gave it no input.
AllPrompts ==
    [p \in All |->
        {<<Message("system", <<Text(<<"s">>)>>), User>>,
         <<User, Message("assistant", <<Text(<<"t">>), Call(8, <<"x">>), Call(9, EmptyString)>>),
           Message("tool", <<ToolResult("c8", "f", "text"), ToolResult("c9", "f", "error_text")>>)>>}]

Thinking == Reasoning(<<"r">>, <<"s", "z">>, <<>>)
Redacted == Reasoning(<<>>, <<>>, <<"d">>)

\* Contents: a text, calls with input, without, and with one that says so, both,
\* and with thinking before them.
Blocks == {<<Text(<<"a", "b">>)>>, <<Text(<<"a">>), Call(1, <<"x", "y">>)>>,
           <<Call(1, <<"x">>), Call(2, <<>>)>>, <<Call(1, <<>>)>>, <<Call(1, NoFields)>>}
Thought == {<<Thinking>> \o b : b \in Blocks} \cup {<<Redacted, Call(1, <<"x">>)>>}

\* The reason of a reply with calls, or another.
Replied(contents, calls, others) ==
    {[content |-> c, stop |-> s] : c \in contents, s \in {calls}}
    \cup {[content |-> c, stop |-> s] : c \in {<<Text(<<"a">>)>>}, s \in others}

\* With a text, none or an empty one, on hosts that fill in what is not there and
\* on others.
OpenAIReplies ==
    {[reasoning |-> r, text |-> t, refusal |-> <<>>, calls |-> c, stop |-> "tool_calls",
      filler |-> f] :
        r \in {<<>>, <<"r", "q">>}, t \in {<<>>, <<"">>, <<"", "a", "b">>},
        c \in {<<Call(1, <<"x">>), Call(2, <<>>)>>, <<Call(1, <<>>)>>}, f \in {<<>>, <<"">>}}
    \cup {[reasoning |-> <<>>, text |-> t, refusal |-> n, calls |-> <<>>, stop |-> s,
            filler |-> <<"">>] :
        t \in {<<>>, <<"a">>}, n \in {<<>>, <<"n">>}, s \in {"stop", "length", "unknown"}}

AllReplies ==
    [p \in All |->
        CASE p = "anthropic" -> Replied(Blocks \cup Thought, "tool_use", {"end_turn", "refusal"})
          [] p = "openai"    -> OpenAIReplies
          [] p = "responses" -> Replied(Blocks, "completed", {"completed", "incomplete"})
          [] p = "google"    -> {[content |-> b, stop |-> s, late |-> l] :
                                    b \in Blocks \cup {<<>>}, s \in {"STOP", "MAX_TOKENS", "OTHER"},
                                    l \in BOOLEAN}
          [] p = "bedrock"   -> Replied(Blocks \cup Thought, "tool_use", {"end_turn", "max_tokens"})]
=============================================================================
