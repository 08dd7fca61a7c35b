SPECIFICATION Spec
CONSTANTS
    NULL = NULL
    Inputs <- MCInputs
INVARIANTS
    LinksAgree
    OnlyRingsAreLeft
    OutlinesAreRings
    NoWalkIsCut
PROPERTY
    WalksEnd
