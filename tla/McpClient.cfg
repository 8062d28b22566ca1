SPECIFICATION FairSpec
CONSTANTS
    Callers <- Threads
    Connector = 1
    Asks = {11}
    MaxExtra = 1
    None = 0
INVARIANTS
    McpInv
    ServedOnce
PROPERTIES
    CallsReturn
