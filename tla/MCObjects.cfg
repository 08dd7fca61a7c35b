SPECIFICATION Spec
CONSTANTS
    v1 = v1
    v2 = v2
    v3 = v3
    v4 = v4
    s1 = s1
    s2 = s2
    s3 = s3
    p1 = p1
    p2 = p2
    p3 = p3
    NULL = NULL
    Vert <- MCVert
    Segment <- MCSegment
    Point <- MCPoint
    PoolVerts <- MCPoolVerts
    PoolSegments <- MCPoolSegments
SYMMETRY MCSymmetry
INVARIANTS
    EachInOnePlace
    ListsAgree
    FreshAgain
    OneVertexPerPoint
CHECK_DEADLOCK FALSE
