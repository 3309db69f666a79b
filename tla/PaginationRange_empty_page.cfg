CONSTANTS
    MaxPages = 4
    MaxItems = 2
SPECIFICATION FairSpec
CHECK_DEADLOCK FALSE
INVARIANTS EndMeansExhausted
