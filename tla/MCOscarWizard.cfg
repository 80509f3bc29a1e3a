SPECIFICATION Spec
CONSTANTS
    c1 = c1
    c2 = c2
    Clients <- MCClients
SYMMETRY Symmetry
INVARIANTS StepsInOrder ScreenIsRecorded StatusOnlyInGroup
