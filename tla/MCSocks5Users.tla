--------------------------- MODULE MCSocks5Users ----------------------------
(* Small instances of the reference counts.                                 *)
EXTENDS Socks5Users, TLC

CONSTANTS a1, a2, u1, u2, u3, s1, s2

Symmetry == Permutations(Auths) \cup Permutations(Users) \cup Permutations(Sessions)
=============================================================================
