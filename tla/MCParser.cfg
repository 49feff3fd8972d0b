SPECIFICATION FairSpec
CONSTANTS
    Name <- OneName
    Source <- AnySource
\* A parse ends.
CHECK_DEADLOCK FALSE
INVARIANTS TypeOK LinksFormForest GuardrailIdle NothingSkipped BracketsMatch ExpressionsGroup
PROPERTY Terminates
