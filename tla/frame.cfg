CONSTANTS
    Hosts <- MCHosts
    Hosts6 <- MCHosts6
    NameLens = {1, 248}
    Ports = {80, 13568}
    DataLens = {0, 1, 1248}
    BufSize = 1500
    MaxFrames = 2
SPECIFICATION Spec
CHECK_DEADLOCK FALSE
INVARIANT FramesComeThrough
INVARIANT AnswersAreAddressed
