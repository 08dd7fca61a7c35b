SPECIFICATION Spec
CONSTANTS
    Unit <- MCUnit
    Leftmost <- MCLeftmost
    Inputs <- MCInputs
INVARIANT
    LeftBeforeRight
