\* Three operations of a session that may be saved and resumed once: turns, sent
\* or streamed, one after the other or overlapping, messages added and the system
\* prompt set between them.  Two operations of one whose turns write to a memory.
SPECIFICATION CodingSpec
CONSTANTS
    MaxOps = 3
    MaxRounds = 1
    Kinds <- AllKinds
    Left <- TheLeft
    Terse = {"memory"}
    MaxWrites = 2
    MaxRestarts = 1
    EveryTurns = 1
    MemoryIds = {m1, m2}
    TaskIds = {k1}
    SaveScopes = {"project"}
    Queries <- TheTurns
    m1 = m1
    m2 = m2
    k1 = k1
INVARIANTS
    CodingInv
    NothingLostBetween
    MemoryInv
