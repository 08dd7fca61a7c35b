SPECIFICATION Spec
CONSTANTS
    Drawings <- MCDrawings
    NULL = NULL
INVARIANT ClosedEndsMeet
