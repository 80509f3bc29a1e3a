SPECIFICATION Spec
CONSTANTS
    i1 = i1
    i2 = i2
    NoImage = NoImage
    Images <- MCImages
SYMMETRY Symmetry
INVARIANTS
    BuiltStaysGood
    CleanupResolves
PROPERTY HostFilesSafe
