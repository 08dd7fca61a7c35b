SPECIFICATION Spec
CONSTANTS
    Unit <- MCUnit
    Leftmost <- MCLeftmost
    Inputs <- MCFan
INVARIANT
    AllAreFound
