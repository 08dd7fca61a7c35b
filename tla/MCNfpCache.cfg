SPECIFICATION Spec
CONSTANTS
    Item <- MCItem
    Sheet <- MCSheet
    Count <- MCCount
    MirrorCount <- MCMirrorCount
    w1 = w1
    w2 = w2
    Worker <- MCWorker
    NULL = NULL
    UNDEFINED = UNDEFINED
INVARIANTS
    FinishedIsComplete
    AnswerIsOwn
    IInv
PROPERTIES
    EntriesStay
    BuildEnds
