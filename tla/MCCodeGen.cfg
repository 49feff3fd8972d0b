SPECIFICATION GenFairSpec
CONSTANTS
    Name <- Names
    Source <- Programs
    MaxDepth = 40
CHECK_DEADLOCK FALSE
INVARIANTS GenTypeOK ScopesMatchVisits SuccessMeansDeclared
PROPERTY CompileTerminates
