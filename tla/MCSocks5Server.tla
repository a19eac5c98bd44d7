--------------------------- MODULE MCSocks5Server ---------------------------
(* Small instances of the server: accounts, and what a peer may send.       *)
EXTENDS Socks5Server, TLC

CONSTANTS s1, s2, f1, f2, f3, f4, f5

MCPassOf == ("ann" :> "apw")

FdSymmetry == Permutations(Fds)
SessionSymmetry == Permutations(Sessions)
Symmetry == FdSymmetry \cup SessionSymmetry
=============================================================================
