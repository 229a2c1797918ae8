CONSTANTS
    WindowSize = 2
    MaxSeq = 4
    RetireAfter = 2
    MaxGen = 4
    MaxTime = 3
SPECIFICATION Spec
INVARIANTS
    TagNamesOneKey
    WindowExact
PROPERTY AtMostOnceAccept
