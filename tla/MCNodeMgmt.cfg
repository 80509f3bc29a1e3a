\* The window may be closed.
CHECK_DEADLOCK FALSE
SPECIFICATION MgmtSpec
CONSTANTS
    m1 = m1
    m2 = m2
    m3 = m3
    One = One
    Blank = Blank
    Macs <- MCMacs
    SampleMacs <- MCSampleMacs
    SampleStray <- MCSampleStray
    MaxNodes = 2
    MaxNumber = 1
    MaxEdits = 1
    MaxHeard = 2
    MaxOnes = 1
INVARIANTS MgmtTypeOK AddressesHaveAPlace TableIsOda
PROPERTY HeardIsKept
