CONSTANT Vocabulary <- OnlyNestedComments
SPECIFICATION Spec
INVARIANT EveryNewlineIsNoted
