SPECIFICATION FairSpec
CONSTANTS
    Function <- MCFunction
    Parameters <- MCParameters
    Vocabulary <- AllPrograms
    MaxCalls = 2
INVARIANTS
    ProgramRuns
    RangeIsOwn
PROPERTIES
    ReturnsRestore
    Finishes
