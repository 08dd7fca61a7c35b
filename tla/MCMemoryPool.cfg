SPECIFICATION Spec
CONSTANTS
    t1 = t1
    t2 = t2
    s1 = s1
    s2 = s2
    Thread = {t1, t2}
    Span = {s1, s2}
    Batch <- MCBatch
    MaxExits = 1
    NULL = NULL
    Payload = Payload
INVARIANTS
    SpansRecorded
    SizeIsLength
    NothingLost
    IInv
PROPERTIES
    AllocatorSpec
    HandsOutFree
    AllocationReturns
