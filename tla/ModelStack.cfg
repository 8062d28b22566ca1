\* Six casts of three threads: two callers of three prompts under budgets of one
\* request and one token and a cache of one entry; callbacks, one of which may
\* ask for its own mutex, and cancellers; a batch of two requests, cancelled from
\* near and far.
SPECIFICATION FairSpec
CONSTANTS
    Threads <- Three
    NoThread = 0
    max_requests_per_minute = 1
    max_tokens_per_minute = 1
    max_entries = 1
    BatchThreads = {3}
    CustomIds = {"r1", "r2"}
    max_polls = 0
    Roles <- Casts
    Prompts <- ThePrompts
    Options <- TheOptions
    KeyOf <- TheKeys
    MaxUse = 1
    MaxCalls = 2
    max_retries = 1
INVARIANTS
    StackInv
    CallbacksOnce
    BatchFinal
PROPERTIES
    ThreadsReturn
