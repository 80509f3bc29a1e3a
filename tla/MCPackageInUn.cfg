CONSTANTS
    n1 = n1
    n2 = n2
    base = base
    app = app
    meta = meta
    lost = lost
    NoPackage = NoPackage
    Packages <- MCPackages
    Nodes <- MCNodes
    Requires <- MCRequires
    Rpms <- MCRpms
    OnDisk <- MCOnDisk
    ClientScripts <- MCClientScripts
SYMMETRY Symmetry
SPECIFICATION Spec
INVARIANT RecordClosed
PROPERTIES
    RecordedOnlyDelivered
    WedgedUntilReimaged
