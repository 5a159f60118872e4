SPECIFICATION FairSpec
CONSTANTS
    Stream <- MCStream
    StartSeq = 2
    AckInterval = 2
    Numberings <- MCNumberings
    NoTrx <- MCNoTrx
    MaxDelay = 3
    MaxFrames = 2
    MaxFaults = 2
INVARIANTS
    TypeOK
    InOrderOnce
    NothingPassedOver
    ClosedStaysDown
PROPERTIES
    AllArrive
    ImplementsLog
CHECK_DEADLOCK FALSE
