SPECIFICATION Spec
CONSTANTS
    Unit <- MCUnit
    Leftmost <- MCLeftmost
    Inputs <- MCInputs
INVARIANTS
    FlowIsKept
    PiecesAreFew
    NothingBehind
    LeavesAtItsEnd
    AllAreFound
    QueueIsOrdered
    OrderedUnlessChained
    StatusIsSorted
