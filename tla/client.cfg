\* One client object; two descriptors are enough for what it opens, one more
\* lets a descriptor be used again.
CONSTANTS
    f1 = f1
    f2 = f2
    f3 = f3
    Fds = {f1, f2, f3}
    NoFd = NoFd
    Logins <- MCLogins
    NoLogin <- MCNoLogin
    ConnectTimeout = 10
    TcpTimeout = 300
    UdpTimeout = 60
SPECIFICATION FairSpec
CHECK_DEADLOCK FALSE
INVARIANT TypeOK
INVARIANT FdOwnership
INVARIANT AddressAtHand
INVARIANT AddressReleased
INVARIANT UsableWhenOk
PROPERTY HandshakeReturns
