SPECIFICATION StreamSpec
CONSTANTS
    PlainCalls <- Plain
    StreamCalls <- Streams
    NoConn = 0
    Workers = 1
    MaxPerHost = 1
    MaxSize = 2
    NStreams = 2
    MaxReconnect = 1
    Wires <- TheWires
    WiresBeside <- OneWire
INVARIANTS
    HttpInv
    EventsAsWritten
    DoneHasAll
PROPERTIES
    StreamReturns
