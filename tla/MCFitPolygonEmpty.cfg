SPECIFICATION Spec
CONSTANTS
    NULL = NULL
    Width <- MCWidth
    Grid <- MCGrid
    Unit <- MCUnit
    Leftmost <- MCLeftmost
    Inputs <- MCEmpty
INVARIANT
    ResultIsNotEmpty
