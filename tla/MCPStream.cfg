\* A stream that is not opened any more does nothing.
CHECK_DEADLOCK FALSE
SPECIFICATION Spec
CONSTANTS
    bufsz = 2
    pbsz = 1
    PipeSize = 2
    Modes <- MCModes
    MaxOut = 3
    MaxIn = 3
    MaxOpens = 2
    NULL = NULL
    Other = Other
    Garbage = Garbage
INVARIANTS TypeOK ClosedIsClean InputInOrder OutputInOrder PutbackKept
PROPERTY CloseComesBack
