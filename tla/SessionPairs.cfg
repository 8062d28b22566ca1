\* One turn suffices: its last step carries calls but stopped for another reason.
SPECIFICATION Spec
CONSTANTS
    MaxOps = 1
    MaxRounds = 1
INVARIANT
    MatchedPairs
