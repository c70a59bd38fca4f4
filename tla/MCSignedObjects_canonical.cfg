SPECIFICATION Spec
CONSTANTS
    Raw <- MCRaw
    Short <- MCShort
    hex4 <- MChex4
    IntegerValue <- MCIntegerValue
    FloatingPoint = {"1.0", "1e0"}
    MaxNesting = 3
    Minted <- MCMinted
    Pieces <- MCPieces
    Numbers <- MCNumbers
    NewMembers <- MCNewMembers
    MaxLength = 3
    MaxEdits = 2
CHECK_DEADLOCK FALSE
INVARIANTS
    MeaningKept
    OneForm
PROPERTIES
    SpellingForgotten
