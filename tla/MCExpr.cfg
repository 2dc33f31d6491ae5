SPECIFICATION USpec
CONSTANTS
    Vocabulary <- TypesAndShape
    MaxUsed = 4
INVARIANTS
    TypeOK
    HandlesFit
    ParsesByPrecedence
    CodeIsTypeSafe
    RejectsOnlyIllFormed
    StoredFitsItsType
    RefusesOnlyMisfits
