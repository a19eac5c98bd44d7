-------------------------- MODULE Socks5Frame_proof --------------------------
(***************************************************************************)
(* Theorems about the frames, for every set of addresses and of lengths    *)
(* and any number of messages.                                             *)
(***************************************************************************)
EXTENDS Socks5Frame, Integers, SequenceTheorems, TLAPS

-----------------------------------------------------------------------------
(* Addresses.                                                               *)

\* A message's address is one of three.
LEMMA AddrForms ==
    ASSUME NEW a \in Addrs
    PROVE  \/ \E h \in Hosts, p \in Ports : a = V4(h, p)
           \/ \E h \in Hosts6, p \in Ports : a = V6(h, p)
           \/ \E n \in NameLens, p \in Ports : a = Name(n, p)
  BY DEF Addrs

\* An IPv4 address is written as a mapped one, and read from it again.
LEMMA MappedAndBack ==
    ASSUME NEW h \in Bytes4
    PROVE  /\ Mapped(h) \in Bytes16 /\ IsMapped(Mapped(h))
           /\ [i \in 1..4 |-> Mapped(h)[i + 12]] = h
<1>1. \A i \in 1..16 :
        Mapped(h)[i] = IF i <= 10 THEN 0 ELSE IF i <= 12 THEN 255 ELSE h[i - 12]
  BY DEF Mapped
<1>2. Mapped(h) \in Bytes16
  <2>1. ASSUME NEW i \in 1..16
        PROVE  (IF i <= 10 THEN 0 ELSE IF i <= 12 THEN 255 ELSE h[i - 12]) \in 0..255
    <3>1. CASE i <= 12
      BY <3>1
    <3>2. CASE i > 12
      <4>1. i - 12 \in 1..4 /\ ~(i <= 10) /\ ~(i <= 12)
        BY <3>2
      <4> QED
        BY <4>1 DEF Bytes4
    <3> QED
      BY <3>1, <3>2
  <2> QED
    BY <2>1 DEF Mapped, Bytes16
<1>3. IsMapped(Mapped(h))
  <2>1. \A i \in 1..10 : i \in 1..16 /\ i <= 10
    OBVIOUS
  <2> QED
    BY <1>1, <2>1 DEF IsMapped
<1>4. ASSUME NEW i \in 1..4 PROVE Mapped(h)[i + 12] = h[i]
  <2>1. i + 12 \in 1..16 /\ ~(i + 12 <= 10) /\ ~(i + 12 <= 12) /\ (i + 12) - 12 = i
    OBVIOUS
  <2> QED
    BY <1>1, <2>1
<1>5. h = [i \in 1..4 |-> h[i]]
  BY DEF Bytes4
<1> QED
  BY <1>2, <1>3, <1>4, <1>5

\* A mapped address is told by its last four bytes.
LEMMA LastFour ==
    ASSUME NEW b \in Bytes16, IsMapped(b)
    PROVE  /\ [i \in 1..4 |-> b[i + 12]] \in Bytes4
           /\ Mapped([i \in 1..4 |-> b[i + 12]]) = b
<1> DEFINE h == [i \in 1..4 |-> b[i + 12]]
<1>1. h \in Bytes4
  BY DEF Bytes4, Bytes16
<1>2. ASSUME NEW i \in 1..16 PROVE Mapped(h)[i] = b[i]
  <2>1. Mapped(h)[i] = IF i <= 10 THEN 0 ELSE IF i <= 12 THEN 255 ELSE h[i - 12]
    BY DEF Mapped
  <2>2. CASE i <= 10
    BY <2>1, <2>2 DEF IsMapped
  <2>3. CASE i = 11 \/ i = 12
    BY <2>1, <2>3 DEF IsMapped
  <2>4. CASE i > 12
    <3>1. i - 12 \in 1..4 /\ (i - 12) + 12 = i /\ ~(i <= 10) /\ ~(i <= 12)
      BY <2>4
    <3>2. h[i - 12] = b[i]
      BY <3>1
    <3> HIDE DEF h
    <3> QED
      BY <2>1, <3>1, <3>2
  <2> QED
    BY <2>2, <2>3, <2>4
<1>3. Mapped(h) = [i \in 1..16 |-> Mapped(h)[i]] /\ b = [i \in 1..16 |-> b[i]]
  BY DEF Mapped, Bytes16
<1> HIDE DEF h
<1>4. Mapped(h) = b
  BY <1>2, <1>3
<1> QED
  BY <1>1, <1>4 DEF h

\* A socket address becomes a message's address and that the same one again.
LEMMA ThereAndBack ==
    ASSUME NEW b \in Bytes16, NEW p
    PROVE  into_sockaddr6(from_sockaddr6(SockAddr(b, p))) = {SockAddr(b, p)}
<1> DEFINE h == [i \in 1..4 |-> b[i + 12]]
<1>1. CASE IsMapped(b)
  <2>1. from_sockaddr6(SockAddr(b, p)) = V4(h, p)
    BY <1>1 DEF from_sockaddr6, SockAddr
  <2>2. Mapped(h) = b
    BY <1>1, LastFour
  <2> HIDE DEF h
  <2> QED
    BY <2>1, <2>2 DEF into_sockaddr6, V4
<1>2. CASE ~IsMapped(b)
  <2>1. from_sockaddr6(SockAddr(b, p)) = V6(b, p)
    BY <1>2 DEF from_sockaddr6, SockAddr
  <2> QED
    BY <2>1 DEF into_sockaddr6, V6
<1> QED
  BY <1>1, <1>2

\* An answer to an address carries that address.
LEMMA AnsweredTo ==
    ASSUME NEW a \in Addrs, NEW s \in into_sockaddr6(a)
    PROVE  /\ into_sockaddr6(from_sockaddr6(s)) = {s}
           /\ a.atype = "v4" \/ (a.atype = "v6" /\ ~IsMapped(s.addr)) =>
                from_sockaddr6(s) = a
<1>1. Hosts \subseteq Bytes4 /\ Hosts6 \subseteq Bytes16
  BY HostAssumption
<1>2. CASE \E h \in Hosts, p \in Ports : a = V4(h, p)
  <2>1. PICK h \in Hosts, p \in Ports : a = V4(h, p)
    BY <1>2
  <2>2. s = SockAddr(Mapped(h), p)
    BY <2>1 DEF into_sockaddr6, V4
  <2>3. /\ Mapped(h) \in Bytes16 /\ IsMapped(Mapped(h))
        /\ [i \in 1..4 |-> Mapped(h)[i + 12]] = h
    BY <1>1, MappedAndBack
  <2>4. s.addr = Mapped(h) /\ s.port = p
    BY <2>2 DEF SockAddr
  <2>5. from_sockaddr6(s) = V4(h, p)
    BY <2>3, <2>4 DEF from_sockaddr6
  <2> QED
    BY <2>1, <2>2, <2>3, <2>5, ThereAndBack
<1>3. CASE \E h \in Hosts6, p \in Ports : a = V6(h, p)
  <2>1. PICK h \in Hosts6, p \in Ports : a = V6(h, p)
    BY <1>3
  <2>2. s = SockAddr(h, p) /\ a.atype = "v6" /\ h \in Bytes16
    BY <1>1, <2>1 DEF into_sockaddr6, V6
  <2>3. ~IsMapped(s.addr) => from_sockaddr6(s) = a
    BY <2>1, <2>2 DEF from_sockaddr6, SockAddr
  <2> QED
    BY <2>2, <2>3, ThereAndBack
<1>4. CASE \E n \in NameLens, p \in Ports : a = Name(n, p)
  <2>1. a.atype = "name"
    BY <1>4 DEF Name
  <2>2. PICK b \in {Mapped(h) : h \in Hosts} \cup Hosts6 : s = SockAddr(b, Swap(Swap(a.port)))
    BY <2>1 DEF into_sockaddr6
  <2>3. b \in Bytes16
    BY <1>1, <2>2, MappedAndBack
  <2> QED
    BY <2>1, <2>2, <2>3, ThereAndBack
<1> QED
  BY <1>2, <1>3, <1>4, AddrForms
-----------------------------------------------------------------------------
(* The stream.                                                              *)

Frames == {Frame(m) : m \in Messages}

\* The messages in a sequence of frames.
Msgs(fs) == [i \in DOMAIN fs |-> fs[i].msg]

LEMMA MsgsOf ==
    ASSUME NEW fs \in Seq(Frames)
    PROVE  /\ Msgs(fs) \in Seq(Messages) /\ Len(Msgs(fs)) = Len(fs)
           /\ \A i \in 1 .. Len(fs) : Msgs(fs)[i] = fs[i].msg
<1>1. \A i \in 1 .. Len(fs) : fs[i] \in Frames /\ fs[i].msg \in Messages
  BY DEF Frames, Frame
<1>2. Len(fs) \in Nat /\ Msgs(fs) = [i \in 1 .. Len(fs) |-> fs[i].msg]
  BY DEF Msgs
<1> QED
  BY <1>1, <1>2

\* The frames of a batch of messages.
LEMMA Framed ==
    ASSUME NEW b \in Seq(Messages)
    PROVE  /\ [i \in DOMAIN b |-> Frame(b[i])] \in Seq(Frames)
           /\ Msgs([i \in DOMAIN b |-> Frame(b[i])]) = b
<1> DEFINE fs == [i \in DOMAIN b |-> Frame(b[i])]
<1>1. fs = [i \in 1 .. Len(b) |-> Frame(b[i])] /\ Len(b) \in Nat
  OBVIOUS
<1>2. \A i \in 1 .. Len(b) : Frame(b[i]) \in Frames
  BY DEF Frames
<1>3. fs \in Seq(Frames) /\ Len(fs) = Len(b)
  BY <1>1, <1>2
<1>4. \A i \in 1 .. Len(b) : fs[i].msg = b[i]
  BY <1>1 DEF Frame
<1> HIDE DEF fs
<1>5. Msgs(fs) \in Seq(Messages) /\ Len(Msgs(fs)) = Len(b)
      /\ \A i \in 1 .. Len(b) : Msgs(fs)[i] = b[i]
  BY <1>3, <1>4, MsgsOf
<1>6. Msgs(fs) = b
  BY <1>5, SeqEqual
<1> QED
  BY <1>3, <1>6 DEF fs

LEMMA MsgsOfConcat ==
    ASSUME NEW fs \in Seq(Frames), NEW gs \in Seq(Frames)
    PROVE  fs \o gs \in Seq(Frames) /\ Msgs(fs \o gs) = Msgs(fs) \o Msgs(gs)
<1> DEFINE hs == fs \o gs
           ms == Msgs(fs) \o Msgs(gs)
<1>1. /\ hs \in Seq(Frames) /\ Len(hs) = Len(fs) + Len(gs)
      /\ \A i \in 1 .. Len(hs) : hs[i] = IF i <= Len(fs) THEN fs[i] ELSE gs[i - Len(fs)]
  BY ConcatProperties
<1>2. /\ Msgs(fs) \in Seq(Messages) /\ Len(Msgs(fs)) = Len(fs)
      /\ \A i \in 1 .. Len(fs) : Msgs(fs)[i] = fs[i].msg
      /\ Msgs(gs) \in Seq(Messages) /\ Len(Msgs(gs)) = Len(gs)
      /\ \A i \in 1 .. Len(gs) : Msgs(gs)[i] = gs[i].msg
  BY MsgsOf
<1>3. /\ ms \in Seq(Messages) /\ Len(ms) = Len(hs)
      /\ \A i \in 1 .. Len(hs) :
           ms[i] = IF i <= Len(fs) THEN Msgs(fs)[i] ELSE Msgs(gs)[i - Len(fs)]
  <2>1. /\ ms \in Seq(Messages) /\ Len(ms) = Len(Msgs(fs)) + Len(Msgs(gs))
        /\ \A i \in 1 .. Len(Msgs(fs)) + Len(Msgs(gs)) :
             ms[i] = IF i <= Len(Msgs(fs)) THEN Msgs(fs)[i]
                     ELSE Msgs(gs)[i - Len(Msgs(fs))]
    <3> HIDE DEF hs
    <3>1. Msgs(fs) \in Seq(Messages) /\ Msgs(gs) \in Seq(Messages)
      BY <1>2
    <3> QED
      BY <3>1, ConcatProperties
  <2> HIDE DEF ms
  <2> QED
    BY <1>1, <1>2, <2>1
<1> HIDE DEF hs, ms
<1>4. /\ Msgs(hs) \in Seq(Messages) /\ Len(Msgs(hs)) = Len(hs)
      /\ \A i \in 1 .. Len(hs) : Msgs(hs)[i] = hs[i].msg
  BY <1>1, MsgsOf
<1>5. ASSUME NEW i \in 1 .. Len(hs) PROVE Msgs(hs)[i] = ms[i]
  <2>1. Len(fs) \in Nat /\ Len(gs) \in Nat
    OBVIOUS
  <2>2. CASE i <= Len(fs)
    <3>1. i \in 1 .. Len(fs)
      BY <1>1, <2>1, <2>2
    <3> QED
      BY <1>1, <1>2, <1>3, <1>4, <2>2, <3>1
  <2>3. CASE ~(i <= Len(fs))
    <3>1. i - Len(fs) \in 1 .. Len(gs)
      BY <1>1, <2>1, <2>3
    <3> QED
      BY <1>1, <1>2, <1>3, <1>4, <2>3, <3>1
  <2> QED
    BY <2>2, <2>3
<1>6. Msgs(hs) = ms
  BY <1>3, <1>4, <1>5, SeqEqual
<1> QED
  BY <1>1, <1>6 DEF hs, ms

\* The first frame moves over.
LEMMA MovesOver ==
    ASSUME NEW ms \in Seq(Messages), NEW fs \in Seq(Frames), fs # <<>>
    PROVE  /\ Head(fs) \in Frames /\ Tail(fs) \in Seq(Frames)
           /\ Append(ms, Head(fs).msg) \o Msgs(Tail(fs)) = ms \o Msgs(fs)
<1>1. /\ Head(fs) \in Frames /\ Tail(fs) \in Seq(Frames)
      /\ Len(fs) \in Nat \ {0} /\ Len(Tail(fs)) = Len(fs) - 1 /\ Head(fs) = fs[1]
      /\ \A i \in 1 .. Len(fs) - 1 : Tail(fs)[i] = fs[i + 1]
  OBVIOUS
<1>2. Head(fs).msg \in Messages
  BY <1>1 DEF Frames, Frame
<1> DEFINE m == Head(fs).msg
           l == Append(ms, m)
           t == Msgs(Tail(fs))
           u == Msgs(fs)
<1>3. /\ l \in Seq(Messages) /\ Len(l) = Len(ms) + 1 /\ Len(ms) \in Nat
      /\ \A i \in 1 .. Len(ms) : l[i] = ms[i]
      /\ l[Len(ms) + 1] = m
  BY <1>2, AppendProperties
<1>4. /\ t \in Seq(Messages) /\ Len(t) = Len(fs) - 1
      /\ \A i \in 1 .. Len(fs) - 1 : t[i] = fs[i + 1].msg
  <2> DEFINE q == Tail(fs)
  <2>1. /\ q \in Seq(Frames) /\ Len(q) = Len(fs) - 1
        /\ \A i \in 1 .. Len(fs) - 1 : q[i] = fs[i + 1]
    BY <1>1
  <2> HIDE DEF q
  <2>2. /\ Msgs(q) \in Seq(Messages) /\ Len(Msgs(q)) = Len(q)
        /\ \A i \in 1 .. Len(q) : Msgs(q)[i] = q[i].msg
    BY <2>1, MsgsOf
  <2> QED
    BY <2>1, <2>2 DEF q
<1>5. /\ u \in Seq(Messages) /\ Len(u) = Len(fs)
      /\ \A i \in 1 .. Len(fs) : u[i] = fs[i].msg
  BY MsgsOf
<1>6. m = fs[1].msg
  BY <1>1
<1> HIDE DEF m, l, t, u
<1>7. /\ l \o t \in Seq(Messages) /\ Len(l \o t) = Len(ms) + Len(fs)
      /\ \A i \in 1 .. Len(ms) + Len(fs) :
           (l \o t)[i] = IF i <= Len(l) THEN l[i] ELSE t[i - Len(l)]
  <2>1. Len(ms) + Len(fs) = Len(l) + Len(t)
    BY <1>1, <1>3, <1>4
  <2>2. /\ l \o t \in Seq(Messages) /\ Len(l \o t) = Len(l) + Len(t)
        /\ \A i \in 1 .. Len(l) + Len(t) :
             (l \o t)[i] = IF i <= Len(l) THEN l[i] ELSE t[i - Len(l)]
    BY <1>3, <1>4, ConcatProperties
  <2> QED
    BY <2>1, <2>2
<1>8. /\ ms \o u \in Seq(Messages) /\ Len(ms \o u) = Len(ms) + Len(fs)
      /\ \A i \in 1 .. Len(ms) + Len(fs) :
           (ms \o u)[i] = IF i <= Len(ms) THEN ms[i] ELSE u[i - Len(ms)]
  <2>1. /\ ms \o u \in Seq(Messages) /\ Len(ms \o u) = Len(ms) + Len(u)
        /\ \A i \in 1 .. Len(ms) + Len(u) :
             (ms \o u)[i] = IF i <= Len(ms) THEN ms[i] ELSE u[i - Len(ms)]
    BY <1>5, ConcatProperties
  <2> QED
    BY <1>5, <2>1
<1>9. ASSUME NEW i \in 1 .. Len(ms) + Len(fs) PROVE (l \o t)[i] = (ms \o u)[i]
  <2>1. CASE i <= Len(ms)
    <3>1. i \in 1 .. Len(ms) /\ i <= Len(l)
      BY <1>3, <2>1
    <3> QED
      BY <1>3, <1>7, <1>8, <2>1, <3>1
  <2>2. CASE i = Len(ms) + 1
    <3>1. ~(i <= Len(ms)) /\ i <= Len(l) /\ i - Len(ms) = 1 /\ 1 \in 1 .. Len(fs)
      BY <1>1, <1>3, <2>2
    <3>2. (l \o t)[i] = m
      BY <1>3, <1>7, <2>2, <3>1
    <3>3. (ms \o u)[i] = fs[1].msg
      BY <1>5, <1>8, <3>1
    <3> QED
      BY <1>6, <3>2, <3>3
  <2>3. CASE i > Len(ms) + 1
    <3> DEFINE j == i - Len(l)
    <3>1. /\ ~(i <= Len(ms)) /\ ~(i <= Len(l)) /\ j \in 1 .. Len(fs) - 1
          /\ i - Len(ms) = j + 1 /\ j + 1 \in 1 .. Len(fs)
      BY <1>1, <1>3, <2>3
    <3>2. (l \o t)[i] = t[j]
      BY <1>7, <3>1
    <3>3. (ms \o u)[i] = u[j + 1]
      BY <1>8, <3>1
    <3> HIDE DEF j
    <3> QED
      BY <1>4, <1>5, <3>1, <3>2, <3>3
  <2>4. i <= Len(ms) \/ i = Len(ms) + 1 \/ i > Len(ms) + 1
    BY <1>1, <1>3
  <2> QED
    BY <2>1, <2>2, <2>3, <2>4
<1>10. l \o t = ms \o u
  BY <1>7, <1>8, <1>9, SeqEqual
<1> QED
  BY <1>1, <1>10 DEF m, l, t, u
-----------------------------------------------------------------------------
(* The specification.  Whatever the lengths are, the receiver keeps only    *)
(* what is in a frame.                                                      *)

Shape ==
    /\ sent \in Seq(Messages)
    /\ stream \in Seq(Frames)
    /\ got \in Seq([addr : Addrs, len : Nat])

\* What Receive takes over is a message, but for its length.
LEMMA Fields ==
    ASSUME NEW f \in Frames
    PROVE  /\ f.msg \in Messages
           /\ [addr |-> f.msg.addr, len |-> f.datlen] \in [addr : Addrs, len : Nat]
<1>1. PICK m \in Messages : f = Frame(m)
  BY DEF Frames
<1>2. f.msg = m /\ f.datlen = m.len % 65536 /\ m.addr \in Addrs /\ m.len \in Nat
  <2>1. m.addr \in Addrs /\ m.len \in DataLens
    BY DEF Messages
  <2>2. f.msg = m /\ f.datlen = m.len % 65536
    BY <1>1 DEF Frame, Datlen
  <2>3. m.len \in Nat
    BY <2>1, LengthAssumption
  <2> QED
    BY <2>1, <2>2, <2>3
<1>3. f.datlen \in Nat
  BY <1>2
<1> QED
  BY <1>2, <1>3

LEMMA Batches ==
    ASSUME Next
    PROVE  (\E b \in Seq(Messages) : Send(b)) \/ Receive
<1>1. \A m, n \in Messages : <<m>> \in Seq(Messages) /\ <<m, n>> \in Seq(Messages)
  OBVIOUS
<1> QED
  BY <1>1 DEF Next

LEMMA ShapeStep == Shape /\ [Next]_vars => Shape'
<1> SUFFICES ASSUME Shape, [Next]_vars PROVE Shape'
  OBVIOUS
<1>1. ASSUME NEW b \in Seq(Messages), Send(b) PROVE Shape'
  <2>1. [i \in DOMAIN b |-> Frame(b[i])] \in Seq(Frames)
    BY Framed
  <2>2. sent' \in Seq(Messages)
    BY <1>1, ConcatProperties DEF Send, Shape
  <2>3. stream' \in Seq(Frames)
    BY <1>1, <2>1, MsgsOfConcat DEF Send, Shape
  <2> QED
    BY <1>1, <2>2, <2>3 DEF Send, Shape
<1>2. CASE Receive
  <2>1. Head(stream) \in Frames /\ Tail(stream) \in Seq(Frames)
    BY <1>2 DEF Receive, Shape
  <2> DEFINE g == [addr |-> Head(stream).msg.addr, len |-> Head(stream).datlen]
  <2>2. g \in [addr : Addrs, len : Nat]
    BY <2>1, Fields
  <2>3. /\ sent' = sent
        /\ UNCHANGED <<stream, got>> \/ (stream' = Tail(stream) /\ got' = Append(got, g))
    BY <1>2 DEF Receive
  <2> HIDE DEF g
  <2>4. Append(got, g) \in Seq([addr : Addrs, len : Nat])
    BY <2>2, AppendProperties DEF Shape
  <2>5. got' \in Seq([addr : Addrs, len : Nat])
    BY <2>3, <2>4 DEF Shape
  <2>6. stream' \in Seq(Frames) /\ sent' \in Seq(Messages)
    BY <2>1, <2>3 DEF Shape
  <2> QED
    BY <2>5, <2>6 DEF Shape
<1>3. CASE UNCHANGED vars
  BY <1>3 DEF vars, Shape
<1> QED
  BY <1>1, <1>2, <1>3, Batches

(* The variables keep their types.                                          *)
THEOREM TypeCorrect == Spec => []Shape
<1>1. Init => Shape
  BY DEF Init, Shape
<1> QED
  BY <1>1, ShapeStep, PTL DEF Spec

(* What hev_socks5_addr_into_sockaddr6 writes into the sixteen bytes of a   *)
(* socket address hev_socks5_addr_from_sockaddr6 reads back, for every      *)
(* address: an answer carries the address that the client's message was     *)
(* sent to, and an IPv6 address that stands for an IPv4 one its short form. *)
THEOREM AnswersFindTheirAddress == Spec => []AnswersAreAddressed
<1>1. Shape => AnswersAreAddressed
  <2> SUFFICES ASSUME Shape, NEW i \in DOMAIN got, NEW s \in into_sockaddr6(got[i].addr)
               PROVE  /\ into_sockaddr6(from_sockaddr6(s)) = {s}
                      /\ got[i].addr.atype = "v4" \/ (got[i].addr.atype = "v6" /\ ~IsMapped(s.addr)) =>
                           from_sockaddr6(s) = got[i].addr
    BY DEF AnswersAreAddressed
  <2>1. got[i] \in [addr : Addrs, len : Nat]
    <3> DEFINE R == [addr : Addrs, len : Nat]
    <3>1. got \in Seq(R) /\ i \in DOMAIN got
      BY DEF Shape
    <3> HIDE DEF R
    <3>2. got \in [1 .. Len(got) -> R] /\ DOMAIN got = 1 .. Len(got)
      BY <3>1, LenProperties
    <3>3. got[i] \in R
      BY <3>1, <3>2
    <3> QED
      BY <3>3 DEF R
  <2>2. got[i].addr \in Addrs
    BY <2>1
  <2> QED
    BY <2>2, AnsweredTo
<1> QED
  BY <1>1, TypeCorrect, PTL

-----------------------------------------------------------------------------
(* Frames whose header fits its byte and whose payload fits its field and   *)
(* the receiver's buffer come through.                                      *)

\* The lengths that the two ends of the stream are used with.
Fitting ==
    /\ NameLens \subseteq 0..248
    /\ \A n \in DataLens : n <= 65535 /\ \A a \in Addrs : n + addr_len(a) <= BufSize

LEMMA AddrLens ==
    ASSUME Fitting, NEW a \in Addrs
    PROVE  addr_len(a) \in 4 .. 252
<1>1. CASE \E h \in Hosts, p \in Ports : a = V4(h, p)
  <2>1. a.atype = "v4"
    BY <1>1 DEF V4
  <2> QED
    BY <2>1 DEF addr_len
<1>2. CASE \E h \in Hosts6, p \in Ports : a = V6(h, p)
  <2>1. a.atype = "v6"
    BY <1>2 DEF V6
  <2> QED
    BY <2>1 DEF addr_len
<1>3. CASE \E n \in NameLens, p \in Ports : a = Name(n, p)
  <2>1. a.atype = "name" /\ a.host \in 0 .. 248
    BY <1>3 DEF Name, Fitting
  <2>2. addr_len(a) = 4 + a.host
    BY <2>1 DEF addr_len
  <2> QED
    BY <2>1, <2>2
<1> QED
  BY <1>1, <1>2, <1>3, AddrForms

\* The receiver takes exactly the frame, and its length is the payload's.
LEMMA TakesTheFrame ==
    ASSUME Fitting, NEW m \in Messages
    PROVE  /\ ~Refused(Frame(m)) /\ Taken(Frame(m)) = Frame(m).size
           /\ [addr |-> Frame(m).msg.addr, len |-> Frame(m).datlen] = m
<1> DEFINE f == Frame(m)
           a == addr_len(m.addr)
<1>1. /\ m.addr \in Addrs /\ m.len \in Nat /\ m.len <= 65535 /\ m.len + a <= BufSize
      /\ m = [addr |-> m.addr, len |-> m.len] /\ BufSize \in Nat
  <2>1. m.addr \in Addrs /\ m.len \in DataLens /\ m = [addr |-> m.addr, len |-> m.len]
    BY DEF Messages
  <2>2. m.len \in Nat /\ BufSize \in Nat
    BY <2>1, LengthAssumption
  <2>3. m.len <= 65535 /\ m.len + a <= BufSize
    BY <2>1 DEF Fitting
  <2> QED
    BY <2>1, <2>2, <2>3
<1>2. a \in 4 .. 252
  BY <1>1, AddrLens
<1>3. f.msg = m /\ f.datlen = m.len % 65536 /\ f.hdrlen = (3 + a) % 256 /\ f.size = 3 + a + m.len
  BY DEF Frame, Datlen, Hdrlen, HeadSize
<1> HIDE DEF f, a
<1>4. f.datlen = m.len /\ f.hdrlen = 3 + a
  BY <1>1, <1>2, <1>3
<1>5. ~Refused(f)
  BY <1>1, <1>2, <1>4 DEF Refused
<1>6. Taken(f) = f.size
  BY <1>1, <1>2, <1>3, <1>4 DEF Taken, Lead
<1> QED
  BY <1>1, <1>3, <1>4, <1>5, <1>6 DEF f

\* Nothing is lost between what was sent, what is on its way and what arrived.
Through ==
    /\ Shape /\ got \in Seq(Messages) /\ ~lost
    /\ sent = got \o Msgs(stream)

(* sendmmsg_tcp and recvmmsg_tcp agree on where each frame ends and give    *)
(* each message its address and its length.                                 *)
THEOREM FramesArrive ==
    ASSUME Fitting
    PROVE  Spec => []FramesComeThrough
<1>1. Init => Through
  <2> SUFFICES ASSUME Init PROVE Through
    OBVIOUS
  <2>1. stream = <<>> /\ got = <<>> /\ sent = <<>> /\ ~lost
    BY DEF Init
  <2>2. Msgs(stream) \in Seq(Messages) /\ Len(Msgs(stream)) = 0
    <3>1. stream \in Seq(Frames) /\ Len(stream) = 0
      BY <2>1
    <3> QED
      BY <3>1, MsgsOf
  <2>3. Msgs(stream) = <<>>
    BY <2>2
  <2> QED
    BY <2>1, <2>3 DEF Through, Shape
<1>2. Through /\ [Next]_vars => Through'
  <2> SUFFICES ASSUME Through, [Next]_vars PROVE Through'
    OBVIOUS
  <2>0. Shape'
    BY ShapeStep DEF Through
  <2>1. ASSUME NEW b \in Seq(Messages), Send(b) PROVE Through'
    <3> DEFINE fs == [i \in DOMAIN b |-> Frame(b[i])]
    <3>1. fs \in Seq(Frames) /\ Msgs(fs) = b
      BY Framed
    <3>2. sent' = sent \o b /\ stream' = stream \o fs /\ UNCHANGED <<got, lost>>
      BY <2>1 DEF Send
    <3> HIDE DEF fs
    <3>3. /\ stream \in Seq(Frames) /\ got \in Seq(Messages) /\ ~lost
          /\ sent = got \o Msgs(stream)
      BY DEF Through, Shape
    <3>4. Msgs(stream') = Msgs(stream) \o b /\ Msgs(stream) \in Seq(Messages)
      BY <3>1, <3>2, <3>3, MsgsOfConcat, MsgsOf
    <3>5. sent' = got \o (Msgs(stream) \o b)
      BY <3>2, <3>3, <3>4, ConcatAssociative
    <3>6. Msgs(stream)' = Msgs(stream')
      BY DEF Msgs
    <3>7. sent' = got' \o Msgs(stream)'
      BY <3>2, <3>4, <3>5, <3>6
    <3> QED
      BY <2>0, <3>2, <3>3, <3>7 DEF Through
  <2>2. CASE Receive
    <3>1. /\ stream \in Seq(Frames) /\ got \in Seq(Messages) /\ ~lost /\ stream # <<>>
          /\ sent = got \o Msgs(stream)
      BY <2>2 DEF Through, Shape, Receive
    <3>2. PICK m \in Messages : Head(stream) = Frame(m)
      BY <3>1, MovesOver DEF Frames
    <3>3. /\ ~Refused(Head(stream)) /\ Taken(Head(stream)) = Head(stream).size
          /\ [addr |-> Head(stream).msg.addr, len |-> Head(stream).datlen] = m
          /\ Head(stream).msg = m
      BY <3>2, TakesTheFrame DEF Frame
    <3>4. got' = Append(got, m) /\ stream' = Tail(stream) /\ UNCHANGED <<sent, lost>>
      BY <2>2, <3>3 DEF Receive
    <3>5. Append(got, m) \o Msgs(Tail(stream)) = got \o Msgs(stream)
      BY <3>1, <3>3, MovesOver
    <3>6. Msgs(stream)' = Msgs(stream')
      BY DEF Msgs
    <3>7. sent' = got' \o Msgs(stream)'
      BY <3>1, <3>4, <3>5, <3>6
    <3> QED
      BY <2>0, <3>1, <3>4, <3>7 DEF Through
  <2>3. CASE UNCHANGED vars
    BY <2>3 DEF vars, Through, Shape, Msgs
  <2> QED
    BY <2>1, <2>2, <2>3, Batches
<1>3. Through => FramesComeThrough
  BY DEF Through, FramesComeThrough, Msgs
<1> QED
  BY <1>1, <1>2, <1>3, PTL DEF Spec
=============================================================================
