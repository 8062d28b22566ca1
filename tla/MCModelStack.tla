------------------------------ MODULE MCModelStack ------------------------------
(***************************************************************************)
(* Instances of ModelStack for TLC: three threads that call, register and  *)
(* cancel, or run a batch.                                                 *)
(***************************************************************************)
EXTENDS ModelStack

Three == 1..3

\* The third thread may run a batch.
Casts == {<<"call", "call", "none">>, <<"register", "cancel", "cancel">>,
          <<"register", "reenter", "cancel">>, <<"call", "cancel", "none">>,
          <<"cancel", "register", "batch">>, <<"register", "none", "batch">>}

\* Two prompts, and one that differs from the second in a tool's result only.
ThePrompts == {"a", "b", "b2"}

Asked(output) == <<Message("user", <<Text(<<1>>)>>),
                   Message("assistant", <<ToolCall("id", "f", <<2>>)>>),
                   Message("tool", <<ToolResult("id", "f", output)>>)>>

TheOptions == [p \in ThePrompts |->
                 [prompt |-> CASE p = "a"  -> <<Message("user", <<Text(<<1>>)>>)>>
                               [] p = "b"  -> Asked("text")
                               [] p = "b2" -> Asked("json"),
                  sampling |-> <<>>, tools |-> <<"f">>]]

\* The cache takes the last two for one.
TheKeys == [p \in ThePrompts |-> IF p = "a" THEN "A" ELSE "B"]
=============================================================================
