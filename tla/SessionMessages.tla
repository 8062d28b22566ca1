---------------------------- MODULE SessionMessages ----------------------------
(***************************************************************************)
(* SessionMessages: the messages of a session as a session store writes    *)
(* and reads them.  A field that a message does not have is not written.   *)
(***************************************************************************)
EXTENDS LanguageModel

\* The parts of a message that are written: of a user's files only links, and in
\* an assistant's message no files and no results.
Persisted(role) == CASE role = "system"    -> {"text"}
                     [] role = "user"      -> {"text", "file"}
                     [] role = "assistant" -> {"text", "reasoning", "call"}
                     [] role = "tool"      -> {"result"}

IsPersisted(role, p) == p.type \in Persisted(role) /\ (p.type = "file" => p.data = "url")

OptionalField(name, value) == IF value = <<>> THEN <<>> ELSE name :> value

SavedPart(p) ==
    CASE p.type = "text"      -> [type |-> "text", text |-> p.text]
      [] p.type = "file"      -> [type |-> "file_url", url |-> p.data]
      [] p.type = "reasoning" -> [type |-> "reasoning", text |-> p.text]
                                 @@ OptionalField("signature", p.signature)
                                 @@ OptionalField("redacted_data", p.redacted)
      [] p.type = "call"      -> [type |-> "tool_call", id |-> p.id, name |-> p.name, input |-> p.text]
      [] p.type = "result"    -> [type |-> "tool_result", id |-> p.id, name |-> p.name,
                                  kind |-> IF p.output \in Outputs THEN p.output ELSE "content"]

\* serialize_message
SavedMessage(m) ==
    LET kept == SelectSeq(m.content, LAMBDA p : IsPersisted(m.role, p))
    IN  [role |-> m.role, parts |-> [i \in DOMAIN kept |-> SavedPart(kept[i])]]

Field(o, name) == IF name \in DOMAIN o THEN o[name] ELSE <<>>

LoadedPart(o) ==
    CASE o.type = "text"        -> Text(o.text)
      [] o.type = "file_url"    -> File(o.url)
      [] o.type = "reasoning"   -> Reasoning(o.text, Field(o, "signature"), Field(o, "redacted_data"))
      [] o.type = "tool_call"   -> ToolCall(o.id, o.name, o.input)
      [] o.type = "tool_result" -> ToolResult(o.id, o.name, IF o.kind = "content" THEN "text" ELSE o.kind)

\* deserialize_message
LoadedMessage(v) == Message(v.role, [i \in DOMAIN v.parts |-> LoadedPart(v.parts[i])])

\* A history as it is when it was saved and loaded again.
Resumed(history) == [i \in DOMAIN history |-> LoadedMessage(SavedMessage(history[i]))]
=============================================================================
