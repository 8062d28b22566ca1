\* Every strategy on every well-formed history of up to six messages, under
\* every window; the summarizer answers, answers nothing or throws.
SPECIFICATION ManageFairSpec
CONSTANTS
    c1 = c1
    c2 = c2
    MaxLen = 6
    CallIds <- MCIds
    Histories <- MCHistories
    Windows <- MCWindows
    Tokens <- MCTokens
    KeptTurns = 3
    Threshold = 70
    Target = 50
    MinOverhead = 1
INVARIANTS
    EvictionInv
    KeepsEnds
    FitsOrCannot
PROPERTIES
    ManageEnds
