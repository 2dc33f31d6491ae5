CONSTANTS
    Vocabulary <- FunctionAndCallVocabulary
SPECIFICATION FairSpec
INVARIANTS
    SecondPassFollows
    RejectsOnlyTheRest
    ValueFunctionsReturn
    BracketEndsArguments
PROPERTIES
    Terminates
