SPECIFICATION Spec
CONSTANTS
    Item <- MCItem
    Sheet <- MCSheet
    Count <- MCCount
    MirrorCount <- MCCount
    Shape <- MCShape
INVARIANTS
    LookupIsMatched
    LookupIsRight
    KeyIsUnique
    LookupIsDifference
