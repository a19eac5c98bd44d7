\* One session (sessions wait for no one but their own peer), fair.
CONSTANTS
    s1 = s1
    s2 = s2
    f1 = f1
    f2 = f2
    f3 = f3
    f4 = f4
    f5 = f5
    Sessions = {s1}
    Fds = {f1, f2, f3}
    NoFd = NoFd
    Users = {"ann"}
    Passwords = {"apw", "bpw"}
    PassOf <- MCPassOf
    Names = {"", "ann", "eve"}
    Passes = {"", "apw", "bpw"}
    Empty = ""
    NoObj = NoObj
    AuthObj = AuthObj
    ConnectTimeout = 10
    TcpTimeout = 300
    UdpTimeout = 60
SPECIFICATION FairSpec
PROPERTY HandshakeEnds
PROPERTY KeepsToDialogue
