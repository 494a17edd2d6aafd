SPECIFICATION SearchSpec
CONSTANTS
    Characters = {"a", "b", "c"}
    Texts <- MCTexts
    Patterns <- MCPatterns
    MaxFrom = 2
INVARIANTS
    SearchInv
PROPERTIES
    SearchEnds
CHECK_DEADLOCK FALSE
