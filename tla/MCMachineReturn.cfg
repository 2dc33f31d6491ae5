SPECIFICATION Spec
CONSTANTS
    Function <- MCFunction
    Parameters <- MCParameters
    Vocabulary <- OnlyLeaving
    MaxCalls = 2
PROPERTY ReturnsRestore
