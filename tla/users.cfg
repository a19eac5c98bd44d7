\* Two sessions, an authenticator and its replacement.
CONSTANTS
    a1 = a1
    a2 = a2
    u1 = u1
    u2 = u2
    u3 = u3
    s1 = s1
    s2 = s2
    Auths = {a1, a2}
    Users = {u1, u2, u3}
    Names = {"ann", "bob"}
    Sessions = {s1, s2}
    NoObj = NoObj
SPECIFICATION Spec
SYMMETRY Symmetry
INVARIANT TypeOK
INVARIANT NothingReachedIsFreed
INVARIANT CountsAreHolders
PROPERTY IdentityIsKept
