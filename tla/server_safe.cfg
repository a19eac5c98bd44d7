\* Two sessions over a descriptor table that four descriptors fill.
CONSTANTS
    s1 = s1
    s2 = s2
    f1 = f1
    f2 = f2
    f3 = f3
    f4 = f4
    f5 = f5
    Sessions = {s1, s2}
    Fds = {f1, f2, f3, f4}
    NoFd = NoFd
    Users = {"ann"}
    Passwords = {"apw", "bpw"}
    PassOf <- MCPassOf
    Names = {"", "ann", "eve"}
    Passes = {"", "apw", "bpw"}
    Empty = ""
    NoObj = NoObj
    AuthObj = AuthObj
    ConnectTimeout = 10
    TcpTimeout = 300
    UdpTimeout = 60
SPECIFICATION Spec
SYMMETRY Symmetry
INVARIANT TypeOK
INVARIANT FdOwnership
INVARIANT AuthGate
INVARIANT ReadyWhenTold
INVARIANT TimeoutFitsPhase
INVARIANT SessionsInv
