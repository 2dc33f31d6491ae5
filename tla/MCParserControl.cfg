CONSTANTS
    Vocabulary <- ControlVocabulary
SPECIFICATION Spec
INVARIANTS
    TypeOK
    ContextMatchesBraces
    JumpsToInnermostLoop
    BranchLabelsNest
    PassRestoresGlobals
    AcceptsOnlyTheGrammar
