--------------------------- MODULE MCSocks5Client ---------------------------
(* Small instances of the client.                                           *)
EXTENDS Socks5Client

CONSTANTS f1, f2, f3

MCLogins == {[name |-> "ann", pass |-> "apw"]}
MCNoLogin == [name |-> "", pass |-> ""]
=============================================================================
