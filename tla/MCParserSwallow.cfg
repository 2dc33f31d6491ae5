CONSTANTS
    Vocabulary <- CallVocabulary
SPECIFICATION Spec
INVARIANTS
    AcceptsOnlyTheGrammar
