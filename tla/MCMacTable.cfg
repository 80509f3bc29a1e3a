SPECIFICATION Spec
CONSTANTS
    NoMac = NoMac
    c1 = c1
    c2 = c2
    k1 = k1
    k2 = k2
    Clients <- MCClients
    Cards <- MCCards
    Nestings <- MCNestings
    MaxDoubtful = 1
SYMMETRY Symmetry
INVARIANTS NoSharedCard PingEnds MovedIsServed
CHECK_DEADLOCK FALSE
