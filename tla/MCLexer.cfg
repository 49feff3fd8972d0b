SPECIFICATION FairSpec
CONSTANTS
    Source <- AnyText
    Reset <- SomeReset
    Keyword <- Keywords
    LengthMod = 16
    MaxTokens = 7
INVARIANTS TypeOK TokensOrdered GapsAreBlank LiteralsClose LongestLexeme
PROPERTY NextTokenReturns
