---------------------------- MODULE Socks5Frame -----------------------------
(***************************************************************************)
(* UDP messages as frames of the TCP stream: sendmmsg_tcp at one end,      *)
(* recvmmsg_tcp at the other (hev-socks5-udp.c), and the address each      *)
(* message carries (hev-socks5-misc.c).                                    *)
(*                                                                         *)
(* A frame is what its fields hold, after the width of the fields, and the *)
(* number of bytes that follow.  The receiver finds the next frame only by *)
(* those fields: once they lead it elsewhere it is lost.                   *)
(***************************************************************************)
EXTENDS Naturals, Sequences

CONSTANTS
    Hosts,        \* IPv4 addresses, as their bytes
    Hosts6,       \* IPv6 addresses, as their bytes
    NameLens,     \* the lengths of the names that are sent to
    Ports,        \* in network order, as sin6_port
    DataLens,     \* the lengths of the payloads
    BufSize,      \* of the receiver's buffer for a message
    MaxFrames     \* bound: messages sent

Bytes4 == [1..4 -> 0..255]
Bytes16 == [1..16 -> 0..255]

ASSUME AddrAssumption ==
    /\ NameLens \subseteq 0..255
    /\ Ports \subseteq 0..65535
ASSUME HostAssumption == Hosts \subseteq Bytes4 /\ Hosts6 \subseteq Bytes16
ASSUME LengthAssumption == DataLens \subseteq Nat /\ BufSize \in Nat

VARIABLES sent, stream, got, lost

vars == <<sent, stream, got, lost>>

-----------------------------------------------------------------------------
(* Addresses: HevSocks5Addr and sockaddr_in6.                               *)

\* htons and ntohs on a little-endian machine; on the other they do nothing,
\* and what follows holds as well.
Swap(p) == (p % 256) * 256 + p \div 256

V4(h, p) == [atype |-> "v4", host |-> h, port |-> p]
V6(h, p) == [atype |-> "v6", host |-> h, port |-> p]
\* A name is told by its length.
Name(n, p) == [atype |-> "name", host |-> n, port |-> p]

Addrs == {V4(h, p) : h \in Hosts, p \in Ports}
           \cup {V6(h, p) : h \in Hosts6, p \in Ports}
           \cup {Name(n, p) : n \in NameLens, p \in Ports}

\* sin6_addr and sin6_port.
SockAddr(bytes, p) == [addr |-> bytes, port |-> p]

\* IN6_IS_ADDR_V4MAPPED: ten zeros and two bytes of ones come first.
IsMapped(bytes) == /\ \A i \in 1..10 : bytes[i] = 0
                   /\ bytes[11] = 255 /\ bytes[12] = 255

\* The same written, as ipv4_into_sockaddr6 does.
Mapped(h) == [i \in 1..16 |-> IF i <= 10 THEN 0 ELSE IF i <= 12 THEN 255 ELSE h[i - 12]]

addr_len(a) ==
    CASE a.atype = "v4" -> 7
      [] a.atype = "v6" -> 19
      [] a.atype = "name" -> 4 + a.host

\* Mutant of from_sockaddr6: the four bytes are taken one too early.
from_sockaddr6_early(s) ==
    IF IsMapped(s.addr) THEN V4([i \in 1..4 |-> s.addr[i + 11]], s.port) ELSE V6(s.addr, s.port)

from_sockaddr6(s) ==
    IF IsMapped(s.addr) THEN V4([i \in 1..4 |-> s.addr[i + 12]], s.port) ELSE V6(s.addr, s.port)

\* hev_socks5_addr_into_sockaddr6: a name becomes an address of either family
\* that the resolver finds for it, if it finds one, with the message's port.
into_sockaddr6(a) ==
    CASE a.atype = "v4" -> {SockAddr(Mapped(a.host), a.port)}
      [] a.atype = "v6" -> {SockAddr(a.host, a.port)}
      [] a.atype = "name" -> {SockAddr(b, Swap(Swap(a.port))) :
                                b \in {Mapped(h) : h \in Hosts} \cup Hosts6}

-----------------------------------------------------------------------------
(* Frames: HevSocks5UDPHdr.                                                 *)

HeadSize == 3      \* datlen and hdrlen
Lead == 5          \* the bytes that recvmmsg_tcp reads first

\* Mutant of Datlen: the length the documentation gives.
DatlenTotal(m) == (HeadSize + addr_len(m.addr) + m.len) % 65536

Datlen(m) == m.len % 65536
Hdrlen(m) == (HeadSize + addr_len(m.addr)) % 256

Frame(m) == [datlen |-> Datlen(m), hdrlen |-> Hdrlen(m), msg |-> m,
             size |-> HeadSize + addr_len(m.addr) + m.len]

\* What recvmmsg_tcp makes of the fields: the bytes it takes from the stream.
\* Mutant of Taken: the address type and length are read twice.
TakenTwice(f) == Lead + (f.hdrlen - 3) + f.datlen

Taken(f) == Lead + (f.hdrlen - 3 - 2) + f.datlen

Refused(f) == f.hdrlen < 5 \/ f.datlen > BufSize - (f.hdrlen - 3)

-----------------------------------------------------------------------------
Init == sent = <<>> /\ stream = <<>> /\ got = <<>> /\ lost = FALSE

\* hev_socks5_udp_sendmmsg_tcp with a batch; one message of the stream.
Send(batch) ==
    /\ Len(sent) + Len(batch) <= MaxFrames
    /\ sent' = sent \o batch
    /\ stream' = stream \o [i \in DOMAIN batch |-> Frame(batch[i])]
    /\ UNCHANGED <<got, lost>>

\* One round of the loop of hev_socks5_udp_recvmmsg_tcp.
Receive ==
    /\ stream # <<>> /\ ~lost
    /\ LET f == Head(stream)
       IN  IF Refused(f) \/ Taken(f) # f.size
           THEN lost' = TRUE /\ UNCHANGED <<got, stream>>
           ELSE /\ got' = Append(got, [addr |-> f.msg.addr, len |-> f.datlen])
                /\ stream' = Tail(stream)
                /\ UNCHANGED lost
    /\ UNCHANGED sent

Messages == [addr : Addrs, len : DataLens]

Next ==
    \/ \E m \in Messages : Send(<<m>>)
    \/ \E m, n \in Messages : Send(<<m, n>>)
    \/ Receive

Spec == Init /\ [][Next]_vars

-----------------------------------------------------------------------------
(* The receiver gets the messages that were sent, each with its address and *)
(* length, and always finds the next one: for every address whose header    *)
(* length fits into a byte and every payload that fits the buffer.          *)
FramesComeThrough == ~lost /\ sent = got \o [i \in DOMAIN stream |-> stream[i].msg]

(* Upstream's answer carries the address that the client's own message to   *)
(* it was sent to, byte for byte: the two conversions lay an IPv4 address   *)
(* out alike and agree on what is one, and only a client that wrote one as  *)
(* a mapped IPv6 address gets it back in its short form.  What is sent to   *)
(* an answer's address goes where the answer came from.                     *)
AnswersAreAddressed ==
    \A i \in DOMAIN got : \A s \in into_sockaddr6(got[i].addr) :
      /\ into_sockaddr6(from_sockaddr6(s)) = {s}
      /\ got[i].addr.atype = "v4" \/ (got[i].addr.atype = "v6" /\ ~IsMapped(s.addr)) =>
           from_sockaddr6(s) = got[i].addr
=============================================================================
