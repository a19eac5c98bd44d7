\* All timeouts are negative: no timer fires, the ends wait for ever.
CONSTANTS
    s = s
    f1 = f1
    f2 = f2
    f3 = f3
    g1 = g1
    g2 = g2
    Fds = {f1, f2, f3}
    CFds = {g1, g2}
    NoFd = NoFd
    Users = {"ann"}
    Passwords = {"apw", "bpw"}
    PassOf <- MCPassOf
    Names = {"", "ann"}
    Passes = {"", "apw", "bpw"}
    Empty = ""
    NoObj = NoObj
    AuthObj = AuthObj
    Logins <- MCLogins
    NoLogin <- MCNoLogin
    NameLen = 3
    PassLen = 3
    DomainLen = 14
    ConnectTimeout <- MCNever
    TcpTimeout <- MCNever
    UdpTimeout <- MCNever
SPECIFICATION FairSpec
CHECK_DEADLOCK FALSE
INVARIANT LinkTypeOK
INVARIANT NoMutualWait
PROPERTY ClientIsAnswered
PROPERTY BothRelay
