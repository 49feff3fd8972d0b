SPECIFICATION Spec
CONSTANTS
    Name <- Names
    EmptyName <- NoName
    Raw <- SomeRaw
    View <- SomeView
    MaxEntries = 3
INVARIANTS TypeOK EntriesTile WriteBehindRead LoadedOnce
PROPERTY ImplementsFileStore
