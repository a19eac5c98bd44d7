---------------------------- MODULE MCSocks5Link ----------------------------
(* One client and one session; good and bad credentials.                    *)
EXTENDS Socks5Link, TLC

CONSTANTS f1, f2, f3, g1, g2

MCPassOf == ("ann" :> "apw")
MCLogins == {[name |-> "ann", pass |-> "apw"], [name |-> "ann", pass |-> "bpw"]}
MCNoLogin == [name |-> "", pass |-> ""]
\* A timeout that never fires.
MCNever == -1

Symmetry == Permutations(Fds) \cup Permutations(CFds)
=============================================================================
