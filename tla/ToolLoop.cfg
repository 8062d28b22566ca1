\* One or two calls per reply, up to two rounds: every interleaving of the
\* launches, completions, awaits and the cancellation, and each step against
\* the conversation it implements.  No symmetry: a TLC property is checked on
\* the actual states, and ids are told apart on both levels.
SPECIFICATION LoopFairSpec
CONSTANTS
    MaxSteps = 2
    Ids = {a, b}
    MaxCalls = 2
    HasTools = TRUE
    HasRepair = TRUE
INVARIANTS
    NoOrphans
    ReportAgrees
    LoopInv
PROPERTIES
    ConversationSpec
    LaunchNeverWaits
    Termination
