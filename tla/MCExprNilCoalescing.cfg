SPECIFICATION USpec
CONSTANTS
    Vocabulary <- OnlyNilCoalescing
    MaxUsed = 0
INVARIANTS
    CodeIsTypeSafe
