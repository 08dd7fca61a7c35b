SPECIFICATION Spec
CONSTANTS
    Drawings <- MCDrawings
    NULL = NULL
INVARIANT EachDrawnOnce
PROPERTY ReadingEnds
