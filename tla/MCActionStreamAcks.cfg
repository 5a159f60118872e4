SPECIFICATION Spec
CONSTANTS
    Stream <- MCStream
    StartSeq = 2
    AckInterval = 2
    Numberings <- MCNumberings
    NoTrx <- MCNoTrx
    MaxDelay = 3
    MaxFrames = 2
    MaxFaults = 1
PROPERTIES
    AcksByCount
CHECK_DEADLOCK FALSE
