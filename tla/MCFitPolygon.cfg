SPECIFICATION Spec
CONSTANTS
    NULL = NULL
    Width <- MCWidth
    Grid <- MCGrid
    Unit <- MCUnit
    Leftmost <- MCLeftmost
    Inputs <- MCInputs
INVARIANTS
    TypeOK
    BoundaryIsCovered
    PartsTouch
    SheetIsFilled
PROPERTY
    CoverageIsKept
