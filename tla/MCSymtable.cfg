SPECIFICATION FairSpec
CONSTANTS
    a = a
    b = b
    readInt = readInt
    NULL = NULL
    Name <- MCName
    Type <- MCType
    StdParamless <- MCStd
    MaxDepth = 2
    MaxDecls = 2
CONSTRAINT FewDecls
INVARIANTS
    TypeOK
    WalkKeepsScopes
    MissIsUndeclared
    ScopeFieldIsDepth
    InitDepthIsVisible
    NoParamlessFunctionShadowed
PROPERTIES
    RedefinitionUsedOnce
    ImplementsScopes
    LookupReturns
\* The compiler stops when it reports an error.
CHECK_DEADLOCK FALSE
