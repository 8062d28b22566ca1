------------------------------ MODULE GoogleModel ------------------------------
(***************************************************************************)
(* GoogleModel: generateContent.  A reply is a sequence of parts, texts    *)
(* and calls, which have no ids on the wire: each side makes some up.      *)
(***************************************************************************)
EXTENDS LanguageModel

\* A made-up id, of the call's name and a number.
MadeUp(name, n) == "call_" \o name \o "_" \o ToString(n)

\* The arguments of a call: a string that is not JSON itself becomes an object
\* without fields.
GoogleArgs(input) == IF input = EmptyString THEN NoFields ELSE input

\* A call without its id, and a reasoning not at all.
GoogleAssistant(content) ==
    LET kept == WithInputs(OfType(content, {"text", "call"}), GoogleArgs)
    IN  [i \in DOMAIN kept |-> IF kept[i].type = "call" THEN [kept[i] EXCEPT !.id = ""]
                               ELSE kept[i]]

GoogleResults(content) ==
    [i \in DOMAIN content |-> [type |-> "result", id |-> "", name |-> content[i].name,
                               error |-> IsError(content[i].output),
                               empty |-> content[i].output = "denied"]]

GoogleMessage(m) ==
    CASE m.role = "user"      -> <<Message("user", SelectSeq(m.content,
                                     LAMBDA p : p.type # "file" \/ p.data \in {"bytes", "pdf", "url"}))>>
      [] m.role = "assistant" -> <<Message("model", GoogleAssistant(m.content))>>
      [] m.role = "tool"      -> <<Message("user", GoogleResults(m.content))>>

\* A level for the newest models, else a budget, which only some efforts have.
GoogleThinking(options) ==
    IF options.effort \in {"unset", "none"} THEN "off"
    ELSE IF options.model = "adaptive" THEN options.effort
    ELSE CASE options.effort \in {"minimal", "low"}       -> "1024"
           [] options.effort = "medium"                   -> "8192"
           [] options.effort \in {"high", "xhigh", "max"} -> "24576"
           [] OTHER                                       -> "off"

GoogleRequest(prompt, options) ==
    [system   |-> LastSystem(prompt),
     messages |-> Translated(prompt, GoogleMessage),
     tools    |-> options.tools \o options.builtin,
     choice   |-> IF options.tools \o options.builtin = <<>> THEN "unset" ELSE options.choice,
     thinking |-> GoogleThinking(options)]

GoogleReasons == [STOP |-> "Stop", MAX_TOKENS |-> "Length", SAFETY |-> "ContentFilter"]

\* Calls are numbered by what stands before them; with calls a reply that
\* stops stops for them.
GoogleGenerate(reply) ==
    LET reason == IF reply.stop \in DOMAIN GoogleReasons THEN GoogleReasons[reply.stop] ELSE "Other"
    IN  Result([i \in DOMAIN reply.content |->
                   IF reply.content[i].type = "text" THEN reply.content[i]
                   ELSE [reply.content[i] EXCEPT !.id = MadeUp(reply.content[i].name, i - 1),
                                                 !.text = Serialized(@)]],
               IF reason = "Stop" /\ OfType(reply.content, {"call"}) # <<>> THEN "ToolCalls"
               ELSE reason)

\* The chunks a server sends: a letter or a call each; the reason comes with
\* the last of them, or (reply.late) in one of its own.
GoogleEvents(reply) ==
    LET chunk(parts, stop) == [parts |-> parts, stop |-> stop]
        letters == FlattenSeq([i \in DOMAIN reply.content |->
                       IF reply.content[i].type = "call" THEN <<reply.content[i]>>
                       ELSE [k \in DOMAIN reply.content[i].text |->
                                Text(<<reply.content[i].text[k]>>)]])
        chunks  == [i \in DOMAIN letters |-> chunk(<<letters[i]>>, "unset")]
    IN  IF reply.late \/ chunks = <<>> THEN Append(chunks, chunk(<<>>, reply.stop))
        ELSE [chunks EXCEPT ![Len(chunks)].stop = reply.stop]

GoogleStart == [text |-> FALSE, calls |-> 0, reason |-> "Stop"]

GooglePart(s, p) ==
    IF p.type = "text"
    THEN [st    |-> [s.st EXCEPT !.text = TRUE],
          parts |-> s.parts \o (IF s.st.text THEN <<>> ELSE <<Start("text", "0", "")>>)
                    \o <<Delta("text", "0", p.text)>>]
    ELSE LET id == MadeUp(p.name, s.st.calls)
         IN  [st    |-> [s.st EXCEPT !.text = FALSE, !.calls = @ + 1, !.reason = "ToolCalls"],
              parts |-> s.parts \o (IF s.st.text THEN <<End("text", "0")>> ELSE <<>>)
                        \o <<Start("call", id, p.name), Delta("call", id, Serialized(p.text)),
                          End("call", id)>>]

\* The reason of a chunk is set before its parts, whatever an earlier one was.
GoogleStep(st, e) ==
    FoldLeft(GooglePart,
             [st    |-> [st EXCEPT !.reason = IF e.stop \in DOMAIN GoogleReasons
                                              THEN GoogleReasons[e.stop] ELSE @],
              parts |-> <<>>],
             e.parts)

GoogleEnd(st) == (IF st.text THEN <<End("text", "0")>> ELSE <<>>) \o <<Finish(st.reason)>>
=============================================================================
