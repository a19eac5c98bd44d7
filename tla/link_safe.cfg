\* Timers may fire at any wait of either end.
CONSTANTS
    s = s
    f1 = f1
    f2 = f2
    f3 = f3
    g1 = g1
    g2 = g2
    Fds = {f1, f2, f3}
    CFds = {g1, g2}
    NoFd = NoFd
    Users = {"ann"}
    Passwords = {"apw", "bpw"}
    PassOf <- MCPassOf
    Names = {"", "ann"}
    Passes = {"", "apw", "bpw"}
    Empty = ""
    NoObj = NoObj
    AuthObj = AuthObj
    Logins <- MCLogins
    NoLogin <- MCNoLogin
    NameLen = 3
    PassLen = 3
    DomainLen = 14
    ConnectTimeout = 10
    TcpTimeout = 300
    UdpTimeout = 60
SPECIFICATION Spec
SYMMETRY Symmetry
CHECK_DEADLOCK FALSE
INVARIANT SpeakInTurn
INVARIANT Agreement
INVARIANT InStep
