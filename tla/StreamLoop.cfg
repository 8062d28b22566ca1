\* Both paths of stream_text: two steps with two interleaved tool calls, and
\* the single step there is without tools; a consumer that pulls on or drops
\* the stream, and each step against the conversation it implements.
SPECIFICATION FairSpec
CONSTANTS
    MaxSteps = 2
    Ids = {a, b}
    MaxParts = 5
INVARIANTS
    StreamInv
    CallsFromParts
PROPERTIES
    ConversationSpec
    FullResultArrives
    StreamTerminates
