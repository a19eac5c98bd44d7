CONSTANTS
    Modes = {"UDP_IN_TCP"}
    Num = 2
    Kinds = {"fits", "big"}
    MaxUp = 2
    MaxDown = 1
    MaxBytes = 1
    MaxCtl = 0
    Cuts = FALSE
    Breaks = FALSE
    UdpTimeout <- MCNever
SPECIFICATION FairSpec
CHECK_DEADLOCK FALSE
INVARIANT OnlyClientsPackets
