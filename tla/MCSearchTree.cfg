SPECIFICATION Spec
CONSTANTS
    NULL = NULL
    Key <- MCKey
    Data <- MCData
INVARIANTS
    FindsFirstAddition
    Ordered
    RightRotationKeepsOrder
