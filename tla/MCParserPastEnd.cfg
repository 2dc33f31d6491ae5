CONSTANTS
    Vocabulary <- CallVocabulary
SPECIFICATION Spec
INVARIANTS
    NeverPastTheEnd
