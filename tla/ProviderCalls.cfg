SPECIFICATION ProviderSpec
CONSTANTS
    Providers <- All
    CallOptions <- AllOptions
    Beginnings <- AllPrompts
    Replies <- AllReplies
    MaxRead = 3
    MaxTurns = 2
INVARIANTS
    PartsWellFormed
    StreamAgrees
    ConversationKept
