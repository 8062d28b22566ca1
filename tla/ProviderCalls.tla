------------------------------ MODULE ProviderCalls ------------------------------
(***************************************************************************)
(* ProviderCalls: calls of a provider's model, whole or as a stream, and   *)
(* the conversation that goes on with what they gave: the next request is  *)
(* made of the last result and of what its calls returned.                 *)
(***************************************************************************)
EXTENDS AnthropicModel, OpenAIModel, OpenAIResponses, GoogleModel, BedrockModel, SessionMessages

CONSTANTS
    Providers,   \* the providers' names, of those below
    CallOptions, \* CallOptions[p]: what callers of p ask for besides the prompt
    Beginnings,  \* Beginnings[p]: how conversations begin
    Replies,     \* Replies[p]: what the server of p answers
    MaxRead,     \* bound: cells of the wire a read brings
    MaxTurns     \* bound: calls of the model in a conversation

ASSUME ProviderCallsAssumption ==
    /\ Providers \subseteq {"anthropic", "openai", "responses", "google", "bedrock"}
    /\ MaxRead \in Nat \ {0}
    /\ MaxTurns \in Nat \ {0}

TextContent == [type : {"text"}, text : Seq(STRING)]
CallContent == [type : {"call"}, id : STRING, name : STRING, text : Seq(STRING)]
ReasoningContent == [type : {"reasoning"}, text : Seq(STRING), signature : Seq(STRING),
                     redacted : Seq(STRING)]

\* Servers answer what their APIs say: redacted thinking has nothing else, and
\* calls of one reply have names and different ids.  What a host of OpenAI's API
\* fills in is a text like others.
ASSUME ReplyAssumption ==
    /\ "anthropic" \in Providers => \A r \in Replies["anthropic"] :
          /\ r.content \in Seq(TextContent \cup CallContent \cup ReasoningContent)
          /\ \A i \in DOMAIN r.content :
                r.content[i].type = "reasoning" /\ r.content[i].redacted # <<>> =>
                    r.content[i].text = <<>> /\ r.content[i].signature = <<>>
          /\ r.stop \in STRING
    /\ "openai" \in Providers => \A r \in Replies["openai"] :
          /\ r.text \in Seq(STRING) /\ r.filler \in Seq(STRING)
          /\ r.reasoning \in Seq(STRING) /\ r.refusal \in Seq(STRING)
          /\ r.calls \in Seq(CallContent)
          /\ \A i \in DOMAIN r.calls : r.calls[i].name # ""
          /\ \A i, j \in DOMAIN r.calls : r.calls[i].id = r.calls[j].id => i = j
          /\ r.stop \in STRING
    /\ "responses" \in Providers => \A r \in Replies["responses"] :
          /\ r.content \in Seq(TextContent \cup CallContent)
          /\ r.stop \in {"completed", "incomplete", "failed"}
    /\ "google" \in Providers => \A r \in Replies["google"] :
          /\ r.content \in Seq(TextContent \cup CallContent)
          /\ r.late \in BOOLEAN
          /\ r.stop \in STRING

VARIABLES
    provider,  \* the provider of the conversation
    options,   \* and what is asked for
    prompt,    \* the conversation so far
    request,   \* the body of the last request
    reply,     \* what the server answers it
    wire,      \* what it has still to send of a stream
    st,        \* what the decoder knows
    parts,     \* the parts it has yielded
    result,    \* what the call returned
    phase,     \* "idle" "asked" "whole" "streaming" "done" "over" "failed"
    turn       \* which call this is

providerVars == <<provider, options, prompt, request, reply, wire, st, parts, result, phase, turn>>

-----------------------------------------------------------------------------
(* The provider's own functions *)

Request(p, messages, o) ==
    CASE p = "anthropic" -> AnthropicRequest(messages, o)
      [] p = "openai"    -> OpenAIRequest(messages, o)
      [] p = "responses" -> ResponsesRequest(messages, o)
      [] p = "google"    -> GoogleRequest(messages, o)
      [] p = "bedrock"   -> BedrockRequest(messages, o)

Generate(p, r, o) ==
    CASE p = "anthropic" -> AnthropicGenerate(r, o)
      [] p = "openai"    -> OpenAIGenerate(r)
      [] p = "responses" -> ResponsesGenerate(r)
      [] p = "google"    -> GoogleGenerate(r)
      [] p = "bedrock"   -> BedrockGenerate(r)

\* What a server sends of a reply: events or, for Bedrock, the cells of frames.
Wire(p, r) ==
    CASE p = "anthropic" -> AnthropicEvents(r)
      [] p = "openai"    -> OpenAIEvents(r)
      [] p = "responses" -> ResponsesEvents(r)
      [] p = "google"    -> GoogleEvents(r)
      [] p = "bedrock"   -> LET es == BedrockEvents(r)
                            IN  FlattenSeq([i \in DOMAIN es |-> Frame(es[i])])

Decoder(p) ==
    CASE p = "anthropic" -> AnthropicStart
      [] p = "openai"    -> OpenAIStart
      [] p = "responses" -> ResponsesStart
      [] p = "google"    -> GoogleStart
      [] p = "bedrock"   -> BedrockStart

\* What a read of some of the wire does to the decoder, and the parts it yields.
Decoded(p, s, cells, o) ==
    CASE p = "anthropic" -> AnthropicStep(s, cells[1], o)
      [] p = "openai"    -> OpenAIStep(s, cells[1])
      [] p = "responses" -> ResponsesStep(s, cells[1])
      [] p = "google"    -> GoogleStep(s, cells[1])
      [] p = "bedrock"   -> BedrockStep(s, cells)

\* The parts that follow the end of the wire: any of these.
Endings(p, s) == CASE p = "openai" -> OpenAIEnds(s)
                   [] p = "google" -> {GoogleEnd(s)}
                   [] OTHER        -> {<<>>}

-----------------------------------------------------------------------------

ProviderInit ==
    /\ provider \in Providers
    /\ options \in CallOptions[provider]
    /\ prompt \in Beginnings[provider]
    /\ request = <<>>
    /\ reply = <<>>
    /\ wire = <<>>
    /\ st = <<>>
    /\ parts = <<>>
    /\ result = <<>>
    /\ phase = "idle"
    /\ turn = 1

\* do_generate and do_stream begin with the same body.
Ask == /\ phase = "idle"
       /\ request' = Request(provider, prompt, options)
       /\ phase' = "asked"
       /\ UNCHANGED <<provider, options, prompt, reply, wire, st, parts, result, turn>>

\* An error of the server or the connection, as a status or in the middle of a
\* stream, comes to the caller as an exception.
Throw == /\ phase \in {"asked", "streaming"}
         /\ phase' = "failed"
         /\ UNCHANGED <<provider, options, prompt, request, reply, wire, st, parts, result, turn>>

ReplyWhole == /\ phase = "asked"
              /\ \E r \in Replies[provider] :
                    /\ reply' = r
                    /\ result' = Generate(provider, r, options)
              /\ phase' = "whole"
              /\ UNCHANGED <<provider, options, prompt, request, wire, st, parts, turn>>

StreamOpens == /\ phase = "asked"
               /\ \E r \in Replies[provider] :
                     /\ reply' = r
                     /\ wire' = Wire(provider, r)
               /\ st' = Decoder(provider)
               /\ parts' = <<>>
               /\ phase' = "streaming"
               /\ UNCHANGED <<provider, options, prompt, request, result, turn>>

\* A read: an event, or as many cells as the connection has ready.
Read == /\ phase = "streaming"
        /\ \E n \in 1..(IF provider = "bedrock" THEN MaxRead ELSE 1) :
              /\ n <= Len(wire)
              /\ LET d == Decoded(provider, st, SubSeq(wire, 1, n), options)
                 IN  /\ st' = d.st
                     /\ parts' = parts \o d.parts
              /\ wire' = SubSeq(wire, n + 1, Len(wire))
        /\ UNCHANGED <<provider, options, prompt, request, reply, result, phase, turn>>

\* The server gives up: for Anthropic an event of its own, after which the
\* stream ends.
ServerError == /\ phase = "streaming"
               /\ provider = "anthropic"
               /\ wire # <<>>
               /\ Head(wire).type # "error"
               /\ wire' = <<[type |-> "error"]>>
               /\ UNCHANGED <<provider, options, prompt, request, reply, st, parts, result, phase, turn>>

\* The stream is over; stream_text makes a result of its parts, unless one of
\* them was an error.
StreamEnds == /\ phase = "streaming"
              /\ wire = <<>>
              /\ \E ending \in Endings(provider, st) : parts' = parts \o ending
              /\ result' = Gathered(parts')
              /\ phase' = IF \E i \in DOMAIN parts' : parts'[i].part = "error" THEN "failed"
                          ELSE "done"
              /\ UNCHANGED <<provider, options, prompt, request, reply, wire, st, turn>>

\* A result with calls goes on: what was said and what the calls returned join
\* the prompt.
Continue == /\ phase \in {"whole", "done"}
            /\ turn < MaxTurns
            /\ result.reason = "ToolCalls"
            /\ LET calls == OfType(result.content, {"call"})
                   back(output) == Message("tool", [i \in DOMAIN calls |->
                                       ToolResult(calls[i].id, calls[i].name, output)])
               IN  /\ calls # <<>>
                   /\ \E output \in Outputs :
                         prompt' = prompt \o <<AssistantMessage(result), back(output)>>
            /\ phase' = "idle"
            /\ turn' = turn + 1
            /\ UNCHANGED <<provider, options, request, reply, wire, st, parts, result>>

\* Between two turns the conversation is saved, and another process resumes it.
Resume == /\ phase = "idle"
          /\ prompt' = Resumed(prompt)
          /\ prompt' # prompt
          /\ UNCHANGED <<provider, options, request, reply, wire, st, parts, result, phase, turn>>

AtRest == /\ \/ phase = "failed"
             \/ phase \in {"whole", "done"} /\ (turn = MaxTurns \/ result.reason # "ToolCalls"
                                                \/ OfType(result.content, {"call"}) = <<>>)
          /\ UNCHANGED providerVars

ProviderNext ==
    \/ Ask \/ Throw \/ ReplyWhole \/ StreamOpens \/ Read \/ ServerError \/ StreamEnds
    \/ Continue \/ Resume \/ AtRest

ProviderSpec == ProviderInit /\ [][ProviderNext]_providerVars

-----------------------------------------------------------------------------
(* Blocks and turns as they should be *)

\* The blocks that are open after the first n parts: begun, and not ended since.
Opened(ps, n) ==
    LET ends(i, j) == ps[j].part = "end" /\ ps[j].of = ps[i].of /\ ps[j].id = ps[i].id
    IN  {<<ps[i].of, ps[i].id>> :
            i \in {k \in 1..n : ps[k].part = "start" /\ \A j \in (k + 1)..n : ~ends(k, j)}}

\* A block begins before it goes on and goes on before it ends, none is open at
\* the finish, and nothing follows that.
WellFormed(ps) ==
    \A i \in DOMAIN ps :
        LET p      == ps[i]
            before == Opened(ps, i - 1)
        IN  /\ p.part = "start" => <<p.of, p.id>> \notin before
            /\ p.part \in {"delta", "end"} => <<p.of, p.id>> \in before
            /\ p.part = "finish" => before = {} /\ i = Len(ps)

\* The parts of a stream are well formed, at any time.  It is about the flags and
\* maps each decoder keeps from one event to the next.  Bedrock's ends are all
\* those of texts, and it finishes twice.
PartsWellFormed == provider # "bedrock" => WellFormed(parts)

Calls(content) == OfType(content, {"call"})
Anonymous(calls) == [i \in DOMAIN calls |-> [calls[i] EXCEPT !.id = ""]]

\* Where the two ways are known to tell different texts: a stream says nothing
\* of a refusal, and with a schema it tells more than the one call, or nothing of
\* an input without fields.
TextMayDiffer ==
    \/ provider = "openai" /\ reply.refusal # <<>>
    \/ /\ provider = "anthropic" /\ options.structured
       /\ Len(reply.content) # 1 \/ reply.content[1].text = <<>>

\* Where they give different inputs: a call without one has that of no fields in
\* a reply as a whole and an empty one in a stream.  Google's has no fields in both.
InputMayDiffer ==
    LET calls == IF provider = "openai" THEN reply.calls ELSE Calls(reply.content)
    IN  provider # "google" /\ \E c \in ToSet(calls) : c.text = <<>>

\* Where they give different reasons: for a schema the stream's is that of a
\* call; a reason that is not known is no reason in a stream; with Google's calls
\* the reason is theirs, or that of a later chunk, and not the server's; a reply that is not
\* complete has no finish; and Bedrock's last finish always says Stop.
ReasonMayDiffer ==
    CASE provider = "anthropic" -> options.structured
      [] provider = "openai"    -> reply.stop \notin DOMAIN OpenAIReasons
      [] provider = "google"    ->
            \/ reply.stop \notin DOMAIN GoogleReasons
            \/ OfType(reply.content, {"call"}) # <<>> /\ (reply.late \/ reply.stop # "STOP")
      [] provider = "responses" -> reply.stop # "completed"
      [] provider = "bedrock"   -> TRUE

\* One thinking that has a text or is redacted: of several, or of an empty one,
\* a stream keeps less.
OneThinking ==
    /\ provider = "anthropic" /\ ~options.structured
    /\ Len(OfType(reply.content, {"reasoning"})) = 1
    /\ \A c \in ToSet(OfType(reply.content, {"reasoning"})) : c.text # <<>> \/ c.redacted # <<>>

\* A reply means the same however it comes: the parts of a stream, put together
\* again, are the text, the calls and the reason that the reply as a whole has,
\* in whatever pieces the wire brought it, but for the cases named above; where
\* inputs differ, they do so in calls that have none.  Bedrock's calls never end
\* in a stream, so it has none.
StreamAgrees ==
    phase = "done" =>
        LET whole == Generate(provider, reply, options)
            none(input) == IF InputMayDiffer /\ input = NoFields THEN <<>> ELSE input
            mine  == WithInputs(Calls(result.content), none)
            its   == WithInputs(Calls(whole.content), none)
        IN  /\ TextMayDiffer \/ Texts(OfType(result.content, {"text"}))
                                = Texts(OfType(whole.content, {"text"}))
            /\ ReasonMayDiffer \/ result.reason = whole.reason
            /\ OneThinking => OfType(result.content, {"reasoning"})
                              = OfType(whole.content, {"reasoning"})
            /\ CASE provider = "bedrock" \/ (provider = "anthropic" /\ options.structured) ->
                        mine = <<>>
                 [] provider = "openai" -> /\ ToSet(mine) = ToSet(its)
                                           /\ Len(mine) = Len(its)
                 [] provider = "google" -> Anonymous(mine) = Anonymous(its)
                 [] OTHER               -> mine = its

\* What a message of the request says of calls, and of what they returned.
CallsSaid(messages) == Calls(FlattenSeq([i \in DOMAIN messages |-> messages[i].content]))
ResultsSaid(messages) ==
    OfType(FlattenSeq([i \in DOMAIN messages |-> messages[i].content]), {"result"})
Ids(results) == [i \in DOMAIN results |-> results[i].id]

LastSaid == Last(SelectSeq(request.messages, LAMBDA m : m.role \in {"assistant", "model"}))

\* The conversation comes to the server whole: each call of the prompt with its
\* input and the id its result has, the results in the order of the calls, and
\* in the next turn the calls with the inputs their tools got and the thinking
\* with the signature the server gave it, in whatever pieces, also after another
\* process resumed it.  (Google's wire has no ids, and an input that is a string
\* has no fields there; the Responses API is told of neither calls nor results.)
ConversationKept ==
    phase = "asked" /\ provider # "responses" =>
        LET calls   == CallsSaid(prompt)
            results == ResultsSaid(prompt)
        IN  /\ CallsSaid(request.messages)
               = IF provider = "google" THEN Anonymous(WithInputs(calls, GoogleArgs)) ELSE calls
            /\ Len(ResultsSaid(request.messages)) = Len(results)
            /\ provider # "google" =>
                  /\ Ids(ResultsSaid(request.messages)) = Ids(results)
                  /\ Ids(CallsSaid(request.messages)) = Ids(ResultsSaid(request.messages))
            /\ turn > 1 => Anonymous(CallsSaid(<<LastSaid>>))
                           = Anonymous(WithInputs(Calls(result.content), SafeParsed))
            /\ turn > 1 /\ OneThinking =>
                  LET own == OfType(reply.content, {"reasoning"})[1]
                  IN  OfType(LastSaid.content, {"reasoning"})
                      = <<IF own.redacted = <<>> THEN own ELSE Reasoning(<<>>, <<>>, own.redacted)>>
=============================================================================
