SPECIFICATION FairSpec
CONSTANTS
    Name <- OneName
    Source <- LateLoop
CHECK_DEADLOCK FALSE
INVARIANT JumpsReadBack
