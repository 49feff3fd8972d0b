SPECIFICATION GenFairSpec
CONSTANTS
    Name <- Names
    Source <- BracedPrograms
    MaxDepth = 40
CHECK_DEADLOCK FALSE
INVARIANT BracedFunctionsCompile
