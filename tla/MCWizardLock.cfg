SPECIFICATION LockSpec
CONSTANTS
    p1 = p1
    p2 = p2
    p3 = p3
    p4 = p4
    NoFile = NoFile
    Empty = Empty
    Pids <- MCPids
SYMMETRY Symmetry
INVARIANTS LockTypeOK AloneUnlessRaced LeftoversAreAbandoned
PROPERTY DiesOnce
