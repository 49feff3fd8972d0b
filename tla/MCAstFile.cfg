SPECIFICATION Spec
CONSTANTS
    Node = {n1, n2}
    Tree <- SmallTrees
INVARIANTS TypeOK LoadedIsSaved SavedIsWhole
PROPERTY ImplementsAstStore
