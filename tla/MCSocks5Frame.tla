--------------------------- MODULE MCSocks5Frame ----------------------------
(* Small instances of the frames: the shortest and the longest names whose  *)
(* header length fits into a byte, the longest payloads that fit, and IPv6  *)
(* addresses around those that stand for an IPv4 address.                   *)
EXTENDS Socks5Frame

MCHosts == {<<1, 2, 3, 4>>, <<0, 0, 255, 255>>}

\* The first nine bytes, the three after them, and the last four.
MCV6(head, tenth, eleventh, twelfth, tail) ==
    [i \in 1..16 |-> CASE i = 10 -> tenth [] i = 11 -> eleventh [] i = 12 -> twelfth
                      [] i > 12 -> tail[i - 12] [] OTHER -> head]

\* ::1.2.3.4, ::ffff:1.2.3.4, ::1:ffff:1.2.3.4, ::fffe:1.2.3.4, ones throughout.
MCHosts6 == {MCV6(0, 0, 0, 0, <<1, 2, 3, 4>>), MCV6(0, 0, 255, 255, <<1, 2, 3, 4>>),
             MCV6(0, 1, 255, 255, <<1, 2, 3, 4>>), MCV6(0, 0, 255, 254, <<1, 2, 3, 4>>),
             MCV6(255, 255, 255, 255, <<255, 255, 255, 255>>)}
=============================================================================
