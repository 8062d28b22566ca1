\* Four children, resumed by threads or by one event loop, started first or
\* not, throwing or not.  A root may be left suspended (see
\* TaskHandshakeLost.cfg): that use of the system really stops.
SPECIFICATION TaskFairSpec
CONSTANTS
    N = 4
INVARIANTS
    HandshakeInv
    ResumesOnlySuspended
    ResumedInOrder
PROPERTIES
    Delivered
CHECK_DEADLOCK FALSE
