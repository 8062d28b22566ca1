\* execute_tools over tools that resume from threads of their own.
SPECIFICATION TaskSpec
CONSTANTS
    N = 2
INVARIANTS
    ResumedWhenChildEnds
CHECK_DEADLOCK FALSE
