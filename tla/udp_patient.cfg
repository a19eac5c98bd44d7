CONSTANTS
    Modes = {"UDP_IN_TCP", "UDP_IN_UDP"}
    Num = 2
    Kinds = {"fits"}
    MaxUp = 4
    MaxDown = 2
    MaxBytes = 3
    MaxCtl = 1
    Cuts = TRUE
    Breaks = FALSE
    UdpTimeout <- MCNever
SPECIFICATION FairSpec
CHECK_DEADLOCK FALSE
PROPERTY KeepsChannel
PROPERTY DatagramTaken
PROPERTY AnswerDelivered
PROPERTY ControlEnds
