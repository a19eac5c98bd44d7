CONSTANTS
    Modes = {"UDP_IN_TCP", "UDP_IN_UDP"}
    Num = 2
    Kinds = {"fits", "big", "bad", "empty", "noname"}
    MaxUp = 2
    MaxDown = 2
    MaxBytes = 3
    MaxCtl = 1
    Cuts = TRUE
    Breaks = TRUE
    UdpTimeout = 60
SPECIFICATION FairSpec
CHECK_DEADLOCK FALSE
INVARIANT TypeOK
INVARIANT AnswersHavePeer
PROPERTY RelayEnds
