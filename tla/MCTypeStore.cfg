SPECIFICATION Spec
CONSTANTS
    Atomics = 1
    TypeID = {1}
    Flags <- SomeFlags
    Members <- SomeMembers
    MaxWords = 7
    MaxTypes = 2
INVARIANTS TypeOK DenseIds RecordsReadBack
