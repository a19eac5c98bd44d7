-------------------------- MODULE Socks5UDP_proof ---------------------------
(***************************************************************************)
(* Proofs about the UDP relay, for every number of buffers and packets.    *)
(***************************************************************************)
EXTENDS Socks5UDP, SequenceTheorems, TLAPS

\* Somebody upstream may know of the relay only when its socket is bound and
\* the client is known.
Reached == bind /\ (mode = "UDP_IN_UDP" => assoc)

PeerInv ==
    /\ up # <<>> => Reached
    /\ queue # <<>> => Reached
    /\ pc = "sendB" => Reached
    /\ pc \in {"pass", "sendF"} /\ mode = "UDP_IN_UDP" => assoc
    /\ pc = "sendF" => bind
    /\ pc \in {"restHead", "body"} => mode # "UDP_IN_UDP"

\* The environment changes neither the loop's variables nor what was sent, and
\* answers only what was sent.
LEMMA EnvironmentKeepsPeer ==
    ASSUME PeerInv, Client \/ UpstreamAnswers
    PROVE  PeerInv'
<1>1. /\ UNCHANGED <<mode, loopVars, up>>
      /\ UNCHANGED queue \/ up # <<>>
  BY DEF Client, UpstreamAnswers, ClientSends, ClientGoesOn, ClientWrites, ClientCloses
<1>2. QED
  BY <1>1 DEF PeerInv, Reached, loopVars

\* A receive of the forward direction.
LEMMA ReceivingKeepsPeer ==
    ASSUME PeerInv,
           \/ SkipF \/ RecvHeader \/ RecvRestOfHeader \/ RecvBody
           \/ RecvDatagrams \/ RecvDatagramsFails
    PROVE  PeerInv'
<1>1. UNCHANGED <<mode, bind, up, queue>> /\ (assoc' = assoc \/ assoc')
  BY DEF SkipF, RecvHeader, RecvRestOfHeader, RecvBody, RecvDatagrams, RecvDatagramsFails
<1>2. CASE SkipF
  BY <1>1, <1>2 DEF SkipF, EndF, PeerInv, Reached
<1>3. CASE RecvHeader
  <2>1. mode = "UDP_IN_TCP" /\ pc' \in {"pass", "recvB", "body", "restHead", "recvF"}
    BY <1>3 DEF RecvHeader, NoHeader, CheckHeader, EndF
  <2>2. QED
    BY <1>1, <2>1 DEF PeerInv, Reached
<1>4. CASE RecvRestOfHeader \/ RecvBody
  <2>1. mode # "UDP_IN_UDP"
    BY <1>4 DEF RecvRestOfHeader, RecvBody, PeerInv
  <2>2. pc' \in {"pass", "recvB", "body", "recvF"}
    BY <1>4 DEF RecvRestOfHeader, RecvBody, CheckHeader, ShortHeader, TakesForMessages, EndF
  <2>3. QED
    BY <1>1, <2>1, <2>2 DEF PeerInv, Reached
<1>5. CASE RecvDatagrams \/ RecvDatagramsFails
  <2>1. pc' = "recvB" \/ (pc' = "pass" /\ assoc')
    BY <1>5 DEF RecvDatagrams, RecvDatagramsFails, EndF
  <2>2. QED
    BY <1>1, <2>1 DEF PeerInv, Reached
<1>6. QED
  BY <1>2, <1>3, <1>4, <1>5

\* What goes upstream goes through a bound socket.
LEMMA PassingOnKeepsPeer ==
    ASSUME PeerInv, NEW n, PassOn \/ SendF(n)
    PROVE  PeerInv'
<1>1. UNCHANGED <<mode, assoc, queue>> /\ (bind' = bind \/ bind')
  BY DEF PassOn, SendF
<1>2. CASE PassOn
  <2>1. /\ pc = "pass" /\ UNCHANGED up
        /\ pc' \in {"recvB", "crash"} \/ (pc' = "sendF" /\ bind')
    BY <1>2 DEF PassOn, EndF
  <2>2. QED
    BY <1>1, <2>1 DEF PeerInv, Reached
<1>3. CASE SendF(n)
  <2>1. pc = "sendF" /\ pc' = "recvB" /\ bind' = bind
    BY <1>3 DEF SendF, EndF
  <2>2. Reached
    BY <2>1 DEF PeerInv, Reached
  <2>3. QED
    BY <1>1, <2>1, <2>2 DEF PeerInv, Reached
<1>4. QED
  BY <1>2, <1>3

\* The backward direction takes answers only where there are some.
LEMMA AnsweringKeepsPeer ==
    ASSUME Num \in Nat \ {0}, PeerInv, NEW n, NEW done,
           SkipB \/ RecvB \/ RecvBFails \/ SendBStream(done) \/ SendBDatagrams(n)
    PROVE  PeerInv'
<1>1. UNCHANGED <<mode, assoc, bind, up>>
  BY DEF SkipB, RecvB, RecvBFails, SendBStream, SendBDatagrams
<1>2. CASE SkipB \/ RecvBFails \/ SendBStream(done) \/ SendBDatagrams(n)
  <2>1. pc' = "turn" /\ UNCHANGED queue
    BY <1>2 DEF SkipB, RecvBFails, SendBStream, SendBDatagrams, EndB
  <2>2. QED
    BY <1>1, <2>1 DEF PeerInv, Reached
<1>3. CASE RecvB
  <2>1. CASE queue = <<>>
    <3>1. Len(queue) = 0
      BY <2>1
    <3>2. queue' = SubSeq(queue, 1, 0) /\ pc' = "turn"
      BY <1>3, <3>1 DEF RecvB, EndB
    <3>3. queue' = <<>>
      BY <2>1, <3>2
    <3>4. QED
      BY <1>1, <3>2, <3>3 DEF PeerInv, Reached
  <2>2. CASE queue # <<>>
    <3>1. Reached
      BY <2>2 DEF PeerInv
    <3>2. pc' \in {"turn", "sendB"}
      BY <1>3 DEF RecvB, EndB
    <3>3. QED
      BY <1>1, <3>1, <3>2 DEF PeerInv, Reached
  <2>3. QED
    BY <2>1, <2>2
<1>4. QED
  BY <1>2, <1>3

LEMMA WaitingKeepsPeer ==
    ASSUME PeerInv, Yield \/ Wakes \/ TimerEnds
    PROVE  PeerInv'
<1>1. /\ UNCHANGED <<mode, assoc, bind, up, queue>>
      /\ pc' \in {"done", "recvF", "waitio"}
  BY DEF Yield, Wakes, TimerEnds
<1>2. QED
  BY <1>1 DEF PeerInv, Reached

LEMMA PeersHold == Spec => []PeerInv
<1>1. Init => PeerInv
  BY DEF Init, PeerInv, Reached
<1>2. PeerInv /\ [Next]_vars => PeerInv'
  <2>1. SUFFICES ASSUME PeerInv, [Next]_vars PROVE PeerInv'
    OBVIOUS
  <2>2. CASE Client \/ UpstreamAnswers
    BY <2>1, <2>2, EnvironmentKeepsPeer
  <2>3. CASE \/ SkipF \/ RecvHeader \/ RecvRestOfHeader \/ RecvBody
             \/ RecvDatagrams \/ RecvDatagramsFails
    BY <2>1, <2>3, ReceivingKeepsPeer
  <2>4. ASSUME NEW n, PassOn \/ SendF(n) PROVE PeerInv'
    BY <2>1, <2>4, PassingOnKeepsPeer
  <2>5. ASSUME NEW n, NEW done,
               SkipB \/ RecvB \/ RecvBFails \/ SendBStream(done) \/ SendBDatagrams(n)
        PROVE  PeerInv'
    BY <2>1, <2>5, AnsweringKeepsPeer, UdpAssumption DEF UdpAssumption
  <2>6. CASE Yield \/ Wakes \/ TimerEnds
    BY <2>1, <2>6, WaitingKeepsPeer
  <2>7. CASE UNCHANGED vars
    BY <2>1, <2>7 DEF PeerInv, Reached, vars, loopVars
  <2>8. QED
    BY <2>1, <2>2, <2>3, <2>4, <2>5, <2>6, <2>7, Zenon DEF Next, Loop
<1>3. QED
  BY <1>1, <1>2, PTL DEF Spec

(***************************************************************************)
(* Answers are sent to a client on UDP only when its socket was connected  *)
(* by its own first datagram (hev-socks5-udp.c, recvmmsg_udp and fwd_b),   *)
(* whatever failed on the way there, for every number of copy buffers.     *)
(***************************************************************************)
THEOREM PeersAreKnown == Spec => []AnswersHavePeer
<1>1. PeerInv => AnswersHavePeer
  BY DEF PeerInv, Reached, AnswersHavePeer
<1> QED
  BY <1>1, PeersHold, PTL

-----------------------------------------------------------------------------
(* What the sequences hold, whatever arrives, fails or times out.           *)

\* The parts that a frame arrives in, and a datagram.
Pieces == [part : {"start", "rest", "body", "whole"}, id : 0..MaxUp, kind : Kinds \cup {"fits"}]

\* What a batch holds on its way upstream.
Messages == Pieces \cup {Unset}

\* The steps of the forward direction, which share the copy buffers, and those
\* at which a batch is as long as a receive said.
Passing == {"pass", "sendF", "crash"}
Forward == {"recvF", "restHead", "body"} \cup Passing

Plain ==
    /\ mode \in Modes
    /\ pc \in Forward \cup {"recvB", "sendB", "turn", "waitio", "done"}
    /\ resF \in -1..1 /\ resB \in -1..1
    /\ timeout \in {UdpTimeout, 0} /\ ctl \in 0..MaxCtl
    /\ sent \in 0..MaxUp /\ answered \in 0..MaxDown

Flags == bind \in BOOLEAN /\ assoc \in BOOLEAN /\ wake \in BOOLEAN /\ gone \in BOOLEAN

\* Every filled message of a batch is in a buffer of its own, and a buffer is
\* free while a frame is being read into it.
Buffers ==
    /\ pc \notin Passing => Len(batch) <= Num
    /\ pc \in Passing => \A i \in 1..Len(batch) : i > Num => batch[i].kind = "unset"
    /\ pc \in {"restHead", "body"} => Len(batch) < Num
    /\ pc \in Forward => batch \in Seq(Messages)
    /\ pc \notin Forward => batch \in Seq(1..MaxDown)
    /\ pc \in {"recvB", "turn", "waitio", "done"} => batch = <<>>

Streams ==
    /\ stream \in Seq(Pieces)
    /\ rest \in Seq(Pieces) /\ Len(rest) <= 2
    /\ up \in Seq(0..MaxUp) /\ queue \in Seq(1..MaxDown) /\ back \in Seq(0..MaxDown)

TypeInv == Plain /\ Flags /\ Buffers /\ Streams

LEMMA Bounds ==
    /\ Num \in Nat \ {0} /\ MaxUp \in Nat /\ MaxDown \in Nat /\ MaxBytes \in Nat
    /\ MaxCtl \in Nat
  BY UdpAssumption

\* A part of a sequence.
LEMMA Cut ==
    ASSUME NEW S, NEW s \in Seq(S), NEW m \in Nat \ {0}, NEW n \in 0..Len(s)
    PROVE  /\ SubSeq(s, m, n) \in Seq(S)
           /\ Len(SubSeq(s, m, n)) = IF m <= n THEN n - m + 1 ELSE 0
           /\ \A i \in 1..(n - m + 1) : SubSeq(s, m, n)[i] = s[m + i - 1]
<1>1. \A i \in m..n : s[i] \in S
  BY ElementOfSeq
<1> QED
  BY <1>1, SubSeqProperties

LEMMA Prefix ==
    ASSUME NEW S, NEW s \in Seq(S), NEW n \in 0..Len(s)
    PROVE  /\ SubSeq(s, 1, n) \in Seq(S) /\ Len(SubSeq(s, 1, n)) = n
           /\ \A i \in 1..n : SubSeq(s, 1, n)[i] = s[i]
<1>1. 1 \in Nat \ {0} /\ Len(s) \in Nat
  OBVIOUS
<1>2. /\ SubSeq(s, 1, n) \in Seq(S)
      /\ Len(SubSeq(s, 1, n)) = IF 1 <= n THEN n - 1 + 1 ELSE 0
      /\ \A i \in 1..(n - 1 + 1) : SubSeq(s, 1, n)[i] = s[1 + i - 1]
  BY <1>1, Cut
<1> QED
  BY <1>1, <1>2

LEMMA Suffix ==
    ASSUME NEW S, NEW s \in Seq(S), NEW n \in 0..Len(s)
    PROVE  /\ SubSeq(s, n + 1, Len(s)) \in Seq(S)
           /\ Len(SubSeq(s, n + 1, Len(s))) = Len(s) - n
           /\ \A i \in 1..(Len(s) - n) : SubSeq(s, n + 1, Len(s))[i] = s[n + i]
<1>1. n + 1 \in Nat \ {0} /\ Len(s) \in 0..Len(s) /\ Len(s) \in Nat
  OBVIOUS
<1> DEFINE m == n + 1
           t == SubSeq(s, m, Len(s))
<1> HIDE DEF m
<1>2. /\ t \in Seq(S)
      /\ Len(t) = IF m <= Len(s) THEN Len(s) - m + 1 ELSE 0
      /\ \A i \in 1..(Len(s) - m + 1) : t[i] = s[m + i - 1]
  BY <1>1, Cut DEF m
<1> HIDE DEF t
<1>3. Len(t) = Len(s) - n /\ \A i \in 1..(Len(s) - n) : i \in 1..(Len(s) - m + 1) /\ m + i - 1 = n + i
  BY <1>1, <1>2 DEF m
<1> QED
  BY <1>2, <1>3 DEF m, t

LEMMA FrameType ==
    ASSUME NEW i \in 0..MaxUp, NEW kind \in Kinds
    PROVE  /\ Frame(i, kind) \in Seq(Pieces) /\ Len(Frame(i, kind)) = 3
           /\ Piece("whole", i, kind) \in Pieces
<1>1. \A p \in {"start", "rest", "body", "whole"} : Piece(p, i, kind) \in Pieces
  BY DEF Piece, Pieces
<1>2. /\ Piece("start", i, kind) \in Pieces /\ Piece("rest", i, kind) \in Pieces
      /\ Piece("body", i, kind) \in Pieces /\ Piece("whole", i, kind) \in Pieces
  BY <1>1
<1> HIDE DEF Pieces, Piece
<1> QED
  BY <1>2 DEF Frame

LEMMA NoPacketType == NoPacket \in Pieces
  BY UdpAssumption DEF NoPacket, Piece, Pieces, Garbage

LEMMA UnsetType == Unset.id = 0 /\ Unset.kind = "unset"
  BY DEF Unset, Piece, Garbage

\* What a client sends is never an unset message.
LEMMA PiecesAreSet == \A p \in Pieces : p.kind # "unset"
  BY UdpAssumption DEF Pieces

\* The environment fills only its own streams.
LEMMA EnvironmentKeepsTypes ==
    ASSUME TypeInv, Client \/ UpstreamAnswers
    PROVE  TypeInv'
<1>1. UNCHANGED <<mode, loopVars, up, back>>
  BY DEF Client, UpstreamAnswers, ClientSends, ClientGoesOn, ClientWrites, ClientCloses
<1>2. Buffers'
  BY <1>1 DEF TypeInv, Buffers, loopVars
<1>3. ASSUME NEW kind \in Kinds, ClientSends(kind) PROVE Plain' /\ Flags' /\ Streams'
  <2>1. sent + 1 \in 0..MaxUp
    BY <1>3, Bounds DEF ClientSends, TypeInv, Plain
  <2>2. Plain'
    BY <1>1, <1>3, <2>1 DEF ClientSends, TypeInv, Plain, loopVars
  <2>3. Flags'
    BY <1>1, <1>3, Zenon DEF ClientSends, TypeInv, Flags, loopVars
  <2> DEFINE frame == Frame(sent + 1, kind)
             whole == Piece("whole", sent + 1, kind)
  <2>4. frame \in Seq(Pieces) /\ Len(frame) = 3 /\ whole \in Pieces
    BY <2>1, FrameType
  <2>5. UNCHANGED <<up, queue, back>>
        /\ \/ stream' = Append(stream, whole) /\ UNCHANGED rest
           \/ \E k \in 1..3 : stream' = stream \o SubSeq(frame, 1, k) /\ rest' = SubSeq(frame, k + 1, 3)
    <3> HIDE DEF frame, whole
    <3>1. UNCHANGED <<up, queue, back>>
      BY <1>3 DEF ClientSends
    <3>2. \/ stream' = Append(stream, whole) /\ UNCHANGED rest
          \/ \E k \in IF Cuts THEN 1..3 ELSE {3} :
               stream' = stream \o SubSeq(frame, 1, k) /\ rest' = SubSeq(frame, k + 1, 3)
      <4>1. CASE mode = "UDP_IN_UDP"
        BY <1>3, <4>1 DEF ClientSends, frame, whole
      <4>2. CASE mode # "UDP_IN_UDP"
        BY <1>3, <4>2, Zenon DEF ClientSends, frame, whole
      <4> QED
        BY <4>1, <4>2
    <3>3. 3 \in 1..3
      OBVIOUS
    <3>4. \A k : k \in (IF Cuts THEN 1..3 ELSE {3}) => k \in 1..3
      BY <3>3, Zenon
    <3> QED
      BY <3>1, <3>2, <3>4, Zenon
  <2> HIDE DEF frame, whole, Pieces
  <2>6. CASE stream' = Append(stream, whole) /\ UNCHANGED rest
    BY <2>4, <2>5, <2>6, AppendProperties, <1>2, <2>2, <2>3 DEF TypeInv, Streams
  <2>7. ASSUME NEW k \in 1..3, stream' = stream \o SubSeq(frame, 1, k),
               rest' = SubSeq(frame, k + 1, 3)
        PROVE  Streams'
    <3>1. /\ SubSeq(frame, 1, k) \in Seq(Pieces)
          /\ SubSeq(frame, k + 1, 3) \in Seq(Pieces)
          /\ Len(SubSeq(frame, k + 1, 3)) <= 2
      <4>1. k + 1 \in Nat \ {0} /\ 1 \in Nat \ {0} /\ k \in 0..Len(frame) /\ 3 \in 0..Len(frame)
        BY <2>4
      <4>2. /\ SubSeq(frame, 1, k) \in Seq(Pieces)
            /\ SubSeq(frame, k + 1, 3) \in Seq(Pieces)
            /\ Len(SubSeq(frame, k + 1, 3)) = IF k + 1 <= 3 THEN 3 - (k + 1) + 1 ELSE 0
        BY <2>4, <4>1, Cut
      <4> QED
        BY <4>2
    <3>2. stream \o SubSeq(frame, 1, k) \in Seq(Pieces)
      BY <3>1, ConcatProperties DEF TypeInv, Streams
    <3> QED
      BY <2>5, <2>7, <3>1, <3>2 DEF TypeInv, Streams
  <2> QED
    BY <2>2, <2>3, <2>5, <2>6, <2>7
<1>4. CASE ClientGoesOn
  <2>1. Head(rest) \in Pieces /\ Tail(rest) \in Seq(Pieces) /\ Len(Tail(rest)) = Len(rest) - 1
    BY <1>4, HeadTailProperties DEF ClientGoesOn, TypeInv, Streams
  <2>2. Append(stream, Head(rest)) \in Seq(Pieces)
    BY <2>1, AppendProperties DEF TypeInv, Streams
  <2>3. Streams'
    BY <1>4, <2>1, <2>2 DEF ClientGoesOn, TypeInv, Streams
  <2>4. Plain'
    BY <1>1, <1>4 DEF ClientGoesOn, TypeInv, Plain, loopVars
  <2>5. Flags'
    BY <1>1, <1>4, Zenon DEF ClientGoesOn, TypeInv, Flags, loopVars
  <2> QED
    BY <1>2, <2>3, <2>4, <2>5 DEF TypeInv
<1>5. CASE ClientCloses
  <2>1. Streams'
    BY <1>1, <1>5 DEF ClientCloses, TypeInv, Streams
  <2>2. Plain'
    BY <1>1, <1>5 DEF ClientCloses, TypeInv, Plain, loopVars
  <2>3. Flags'
    BY <1>1, <1>5, Zenon DEF ClientCloses, TypeInv, Flags, loopVars
  <2> QED
    BY <1>2, <2>1, <2>2, <2>3 DEF TypeInv
<1>w. CASE ClientWrites
  <2>1. Streams'
    BY <1>1, <1>w DEF ClientWrites, envVars, TypeInv, Streams
  <2>2. ctl + 1 \in 0..MaxCtl
    BY <1>w, Bounds DEF ClientWrites, TypeInv, Plain
  <2>3. Plain'
    BY <1>1, <1>w, <2>2 DEF ClientWrites, envVars, TypeInv, Plain, loopVars
  <2>4. Flags'
    BY <1>1, <1>w, Zenon DEF ClientWrites, envVars, TypeInv, Flags, loopVars
  <2> QED
    BY <1>2, <2>1, <2>3, <2>4 DEF TypeInv
<1>6. CASE UpstreamAnswers
  <2>1. answered + 1 \in 1..MaxDown
    BY <1>6, Bounds DEF UpstreamAnswers, TypeInv, Plain
  <2>2. Append(queue, answered + 1) \in Seq(1..MaxDown)
    BY <2>1, AppendProperties DEF TypeInv, Streams
  <2>3. Streams'
    BY <1>1, <1>6, <2>2 DEF UpstreamAnswers, TypeInv, Streams
  <2>4. Plain'
    BY <1>1, <1>6, <2>1 DEF UpstreamAnswers, TypeInv, Plain, loopVars
  <2>5. Flags'
    BY <1>1, <1>6, Zenon DEF UpstreamAnswers, TypeInv, Flags, loopVars
  <2> QED
    BY <1>2, <2>3, <2>4, <2>5 DEF TypeInv
<1> QED
  BY <1>2, <1>3, <1>4, <1>5, <1>w, <1>6, Zenon DEF Client, TypeInv

\* How a direction ends: its copy buffers are free again.
LEMMA Ends ==
    ASSUME NEW r \in -1..1
    PROVE  /\ EndF(r) => Buffers' /\ resF' \in -1..1 /\ pc' = "recvB"
           /\ EndB(r) => Buffers' /\ resB' \in -1..1 /\ pc' = "turn"
<1>1. batch' = <<>> => Len(batch') = 0 /\ batch' \in Seq(1..MaxDown) /\ 0 <= Num
  <2>1. Len(<<>>) = 0 /\ <<>> \in Seq(1..MaxDown)
    BY EmptySeq
  <2> QED
    BY <2>1, Bounds
<1>2. batch' = <<>> /\ pc' \in {"recvB", "turn"} => Buffers'
  BY <1>1 DEF Buffers, Forward, Passing
<1>3. EndF(r) => batch' = <<>> /\ resF' = r /\ pc' = "recvB"
  BY DEF EndF
<1>4. EndB(r) => batch' = <<>> /\ resB' = r /\ pc' = "turn"
  BY DEF EndB
<1> QED
  BY <1>2, <1>3, <1>4

\* The flags and the counters of the environment.
LEMMA LoopFlags ==
    ASSUME TypeInv, Loop
    PROVE  /\ Flags' /\ UNCHANGED <<mode, gone, sent, answered, rest>>
           /\ timeout' \in {UdpTimeout, 0} /\ ctl' \in 0..ctl
<1> DEFINE Steady ==
             /\ UNCHANGED <<mode, gone, sent, answered, rest>>
             /\ bind' = bind \/ bind' = TRUE
             /\ assoc' = assoc \/ assoc' = TRUE
             /\ wake' = wake \/ wake' = FALSE
             /\ timeout' = timeout \/ timeout' = 0
             /\ ctl' \in 0..ctl
<1>0. ctl \in Nat /\ ctl \in 0..ctl /\ 0 \in 0..ctl /\ (ctl > 0 => ctl - 1 \in 0..ctl)
  BY Bounds DEF TypeInv, Plain
<1>1. ASSUME \/ SkipF \/ RecvHeader \/ RecvRestOfHeader \/ RecvBody
             \/ RecvDatagrams \/ RecvDatagramsFails
      PROVE  Steady
  BY <1>0, <1>1 DEF SkipF, RecvHeader, RecvRestOfHeader, RecvBody, RecvDatagrams,
                    RecvDatagramsFails, envVars, MayMissWake
<1>2. ASSUME NEW n, PassOn \/ SendF(n) PROVE Steady
  BY <1>0, <1>2 DEF PassOn, SendF, envVars, MayMissWake, WaitEnds, WaitFails
<1>3. ASSUME NEW n, SkipB \/ RecvB \/ RecvBFails \/ SendBDatagrams(n) PROVE Steady
  BY <1>0, <1>3 DEF SkipB, RecvB, RecvBFails, SendBDatagrams, envVars, MayMissWake, WaitEnds,
                    WaitFails
<1>4. ASSUME NEW done, SendBStream(done) PROVE Steady
  BY <1>0, <1>4 DEF SendBStream, envVars, MayMissWake
<1>5. ASSUME Yield \/ Wakes \/ TimerEnds PROVE Steady
  BY <1>0, <1>5 DEF Yield, Wakes, TimerEnds, envVars, MayMissWake
<1>6. Steady
  BY <1>1, <1>2, <1>3, <1>4, <1>5, Zenon DEF Loop
<1>7. Flags'
  BY <1>6, Zenon DEF TypeInv, Flags
<1>8. timeout' \in {UdpTimeout, 0}
  BY <1>6 DEF TypeInv, Plain
<1> QED
  BY <1>6, <1>7, <1>8

\* What is left to show for a step of the loop.
Kept ==
    /\ pc' \in Forward \cup {"recvB", "sendB", "turn", "waitio", "done"}
    /\ resF' \in -1..1 /\ resB' \in -1..1
    /\ Buffers'
    /\ stream' \in Seq(Pieces)
    /\ up' \in Seq(0..MaxUp) /\ queue' \in Seq(1..MaxDown) /\ back' \in Seq(0..MaxDown)

LEMMA LoopKeeps ==
    ASSUME TypeInv, Loop, Kept
    PROVE  TypeInv'
<1>1. /\ Flags' /\ UNCHANGED <<mode, sent, answered, rest>>
      /\ timeout' \in {UdpTimeout, 0} /\ ctl' \in 0..ctl
  BY LoopFlags
<1>2. Plain'
  <2>1. ctl' \in 0..MaxCtl
    BY <1>1, Bounds DEF TypeInv, Plain
  <2> QED
    BY <1>1, <2>1 DEF Kept, TypeInv, Plain
<1>3. Streams'
  BY <1>1 DEF Kept, TypeInv, Streams
<1> QED
  BY <1>1, <1>2, <1>3 DEF Kept, TypeInv

\* A number of bytes that is taken for one of messages leaves the filled ones
\* as they are, or some of them, and sets nothing behind them.
LEMMA TakenForMessages ==
    ASSUME NEW bytes \in Nat \ {0}, TakesForMessages(bytes), batch \in Seq(Messages)
    PROVE  /\ pc' = "pass" /\ resF' = resF /\ batch' \in Seq(Messages) /\ Len(batch') = bytes
           /\ \A i \in 1..bytes : batch'[i] = IF i <= Len(batch) THEN batch[i] ELSE Unset
<1> HIDE DEF Messages
<1>1. Len(batch) \in Nat /\ DOMAIN batch = 1..Len(batch)
  BY LenProperties
<1>2. pc' = "pass" /\ resF' = resF
      /\ batch' = [i \in 1..bytes |-> IF i \in DOMAIN batch THEN batch[i] ELSE Unset]
  BY DEF TakesForMessages
<1>3. ASSUME NEW i \in 1..bytes
      PROVE  /\ i \in DOMAIN batch <=> i <= Len(batch)
             /\ (IF i \in DOMAIN batch THEN batch[i] ELSE Unset) \in Messages
  <2>1. i \in DOMAIN batch <=> i <= Len(batch)
    BY <1>1
  <2>2. i \in DOMAIN batch => batch[i] \in Messages
    BY <1>1, ElementOfSeq
  <2>3. Unset \in Messages
    BY DEF Messages
  <2> QED
    BY <2>1, <2>2, <2>3, Zenon
<1>4. batch' \in [1..bytes -> Messages]
  BY <1>2, <1>3, Zenon
<1>5. batch' \in Seq(Messages) /\ Len(batch') = bytes
  BY <1>4
<1>6. \A i \in 1..bytes : batch'[i] = IF i <= Len(batch) THEN batch[i] ELSE Unset
  BY <1>2, <1>3, Zenon
<1> QED
  BY <1>2, <1>5, <1>6

\* From the stream into the buffers.
LEMMA ReceivingKeepsTypes ==
    ASSUME TypeInv, SkipF \/ RecvHeader \/ RecvRestOfHeader \/ RecvBody
    PROVE  Kept
<1> USE DEF TypeInv
<1>1. /\ UNCHANGED <<resB, up, queue, back>> /\ pc \in Forward /\ pc \notin Passing
      /\ batch \in Seq(Messages)
      /\ resF \in -1..1 /\ resB \in -1..1 /\ Len(batch) \in Nat /\ Len(batch) <= Num
      /\ stream \in Seq(Pieces)
      /\ up \in Seq(0..MaxUp) /\ queue \in Seq(1..MaxDown) /\ back \in Seq(0..MaxDown)
  <2>1. UNCHANGED <<resB, up, queue, back>> /\ pc \in Forward /\ pc \notin Passing
    BY DEF SkipF, RecvHeader, RecvRestOfHeader, RecvBody, Forward, Passing
  <2>2. batch \in Seq(Messages) /\ Len(batch) <= Num
    BY <2>1 DEF Buffers
  <2>3. Len(batch) \in Nat
    BY <2>2, LenProperties
  <2> QED
    BY <2>1, <2>2, <2>3 DEF Plain, Streams
<1>2. ASSUME stream # <<>>
      PROVE  Tail(stream) \in Seq(Pieces) /\ Head(stream) \in Pieces
  BY <1>1, <1>2, HeadTailProperties
<1>3. \A r \in StaleErrno : r \in -1..1
  BY DEF StaleErrno
<1>4. \A x \in Pieces : Append(batch, x) \in Seq(Messages) /\ Len(Append(batch, x)) = Len(batch) + 1
  <2>1. \A x \in Pieces : x \in Messages
    BY DEF Messages
  <2> HIDE DEF Pieces, Messages
  <2> QED
    BY <1>1, <2>1, AppendProperties
<1> HIDE DEF TypeInv
<1> DEFINE Ended == Buffers' /\ resF' \in -1..1 /\ pc' = "recvB"
           Same == resF' = resF /\ batch' = batch
           Misread == \E bytes \in Nat \ {0} : TakesForMessages(bytes)
           Grown == resF' = resF /\ pc' = "recvF" /\ Len(batch) < Num
                    /\ \E x \in Pieces : batch' = Append(batch, x)
<1>5. \/ Ended
      \/ Same /\ pc' = "pass"
      \/ Same /\ pc' \in {"restHead", "body"} /\ Len(batch) < Num
      \/ Misread
      \/ Grown
  <2> HIDE DEF Ended, Pieces, Messages
  <2>0. ASSUME NEW r \in -1..1, EndF(r) PROVE Ended
    BY <2>0, Ends DEF Ended
  <2>1. CASE SkipF
    BY <1>1, <2>0, <2>1 DEF SkipF
  <2>2. ASSUME NEW kind, CheckHeader(kind), Len(batch) < Num
        PROVE  Ended \/ (Same /\ pc' = "body" /\ Len(batch) < Num)
    BY <1>3, <2>0, <2>2 DEF CheckHeader
  <2>3. CASE RecvHeader
    <3>1. ~Full => Len(batch) < Num
      BY <1>1, Bounds DEF Full
    <3>2. NoHeader => Ended \/ (Same /\ pc' = "pass")
      BY <2>0 DEF NoHeader
    <3>3. NoPacket \in Pieces
      BY NoPacketType
    <3>4. CASE Full
      BY <2>3, <3>4 DEF RecvHeader
    <3>5. CASE ~Full /\ stream = <<>>
      BY <2>3, <3>2, <3>5 DEF RecvHeader
    <3>6. CASE ~Full /\ stream # <<>> /\ Head(stream).part = "start"
      <4>1. CheckHeader(Head(stream).kind) \/ (Same /\ pc' = "restHead")
        BY <2>3, <3>6 DEF RecvHeader
      <4> QED
        BY <2>2, <3>1, <3>6, <4>1
    <3>7. CASE ~Full /\ stream # <<>> /\ Head(stream).part # "start"
      <4>1. \/ \E r \in StaleErrno : EndF(r)
            \/ batch' = Append(batch, NoPacket) /\ UNCHANGED <<pc, resF>>
        BY <2>3, <3>7 DEF RecvHeader
      <4>2. pc = "recvF"
        BY <2>3 DEF RecvHeader
      <4> QED
        BY <1>3, <2>0, <3>1, <3>3, <3>7, <4>1, <4>2
    <3> QED
      BY <3>4, <3>5, <3>6, <3>7
  <2>4. CASE RecvRestOfHeader
    <3>1. Len(batch) < Num
      BY <2>4 DEF RecvRestOfHeader, TypeInv, Buffers
    <3>2. CASE stream # <<>>
      BY <2>2, <2>4, <3>1, <3>2 DEF RecvRestOfHeader
    <3>3. CASE stream = <<>>
      <4>1. ASSUME NEW result \in -1..4, ShortHeader(result)
            PROVE  Ended \/ Misread
        <5>1. CASE result \in {-1, 0}
          BY <1>3, <2>0, <4>1, <5>1 DEF ShortHeader
        <5>2. CASE result \notin {-1, 0}
          <6>1. result \in Nat \ {0} /\ result # -1 /\ result # 0
            BY <4>1, <5>2
          <6>2. TakesForMessages(result)
            BY <4>1, <6>1 DEF ShortHeader
          <6> QED
            BY <6>1, <6>2
        <5> QED
          BY <5>1, <5>2
      <4>2. \/ Same /\ pc' = "pass"
            \/ \E bytes \in 0..4 : ShortHeader(bytes)
            \/ \E left \in -1..2 : ShortHeader(left)
        BY <2>4, <3>3 DEF RecvRestOfHeader
      <4>3. \A result : result \in 0..4 \/ result \in -1..2 => result \in -1..4
        OBVIOUS
      <4> QED
        BY <4>1, <4>2, <4>3, Zenon
    <3> QED
      BY <3>2, <3>3
  <2>5. CASE RecvBody
    <3>1. Len(batch) < Num
      BY <2>5 DEF RecvBody, TypeInv, Buffers
    <3>2. CASE stream # <<>>
      BY <1>2, <2>5, <3>1, <3>2 DEF RecvBody
    <3>3. CASE stream = <<>>
      <4>1. EndF(-1) \/ \E bytes \in 1..MaxBytes : TakesForMessages(bytes)
        BY <2>5, <3>3 DEF RecvBody
      <4>2. 1..MaxBytes \subseteq Nat \ {0} /\ -1 \in -1..1
        BY Bounds
      <4> QED
        BY <2>0, <4>1, <4>2, Zenon
    <3> QED
      BY <3>2, <3>3
  <2> QED
    BY <2>1, <2>3, <2>4, <2>5
<1>6. /\ pc' \in Forward \cup {"recvB", "sendB", "turn", "waitio", "done"}
      /\ resF' \in -1..1 /\ Buffers'
  <2>1. CASE Ended
    BY <2>1
  <2>2. CASE Same /\ pc' \in {"pass", "restHead", "body"} /\ (pc' # "pass" => Len(batch) < Num)
    <3>1. \A i \in 1..Len(batch) : ~(i > Num)
      BY <1>1, Bounds
    <3> QED
      BY <1>1, <2>2, <3>1 DEF Buffers, Forward, Passing
  <2>3. CASE Misread
    <3>1. PICK bytes \in Nat \ {0} : TakesForMessages(bytes)
      BY <2>3
    <3>2. /\ pc' = "pass" /\ resF' = resF /\ batch' \in Seq(Messages) /\ Len(batch') = bytes
          /\ \A i \in 1..bytes : batch'[i] = IF i <= Len(batch) THEN batch[i] ELSE Unset
      BY <1>1, <3>1, TakenForMessages
    <3>3. \A i \in 1..bytes : i > Num => batch'[i].kind = "unset"
      <4> SUFFICES ASSUME NEW i \in 1..bytes, i > Num PROVE batch'[i].kind = "unset"
        OBVIOUS
      <4>1. ~(i <= Len(batch))
        BY <1>1, Bounds
      <4>2. batch'[i] = Unset
        BY <3>2, <4>1
      <4> QED
        BY <4>2, UnsetType
    <3> QED
      BY <1>1, <3>2, <3>3 DEF Buffers, Forward, Passing
  <2>4. CASE Grown
    <3>1. batch' \in Seq(Messages) /\ Len(batch') = Len(batch) + 1
      BY <1>4, <2>4
    <3> QED
      BY <1>1, <2>4, <3>1, Bounds DEF Buffers, Forward, Passing
  <2> QED
    BY <1>5, <2>1, <2>2, <2>3, <2>4
<1>7. stream' \in Seq(Pieces)
  <2>1. CASE RecvHeader
    <3>1. CASE stream' = SubSeq(stream, 3, Len(stream))
      <4>1. 3 \in Nat \ {0} /\ Len(stream) \in 0..Len(stream)
        BY <1>1, LenProperties
      <4> QED
        BY <1>1, <3>1, <4>1, Cut
    <3>2. CASE stream' = <<>>
      BY <3>2, EmptySeq
    <3>3. \/ UNCHANGED stream \/ stream' = <<>> \/ stream' = SubSeq(stream, 3, Len(stream))
          \/ (stream # <<>> /\ stream' = Tail(stream))
      BY <2>1 DEF RecvHeader
    <3> QED
      BY <1>1, <1>2, <3>1, <3>2, <3>3
  <2>2. CASE RecvRestOfHeader \/ RecvBody
    <3>1. UNCHANGED stream \/ (stream # <<>> /\ stream' = Tail(stream))
      BY <2>2 DEF RecvRestOfHeader, RecvBody
    <3> QED
      BY <1>1, <1>2, <3>1
  <2>3. CASE SkipF
    BY <1>1, <2>3 DEF SkipF
  <2> QED
    BY <2>1, <2>2, <2>3
<1> QED
  BY <1>1, <1>6, <1>7 DEF Kept

\* As many datagrams as there are buffers.
LEMMA FailedDatagramsKeepTypes ==
    ASSUME TypeInv, RecvDatagramsFails
    PROVE  Kept
<1>1. EndF(-1) /\ UNCHANGED <<resB, stream, up, queue, back>>
  BY DEF RecvDatagramsFails
<1> QED
  BY <1>1, Ends DEF Kept, TypeInv, Plain, Streams

LEMMA DatagramsKeepTypes ==
    ASSUME TypeInv, RecvDatagrams
    PROVE  Kept
<1> DEFINE n == IF Len(stream) < Num THEN Len(stream) ELSE Num
           got == SubSeq(stream, 1, n)
           filled == [i \in DOMAIN got |-> Received(got[i])]
<1>1. /\ stream \in Seq(Pieces) /\ Len(stream) \in Nat /\ Num \in Nat /\ resF \in -1..1
      /\ resB \in -1..1
      /\ up \in Seq(0..MaxUp) /\ queue \in Seq(1..MaxDown) /\ back \in Seq(0..MaxDown)
  BY Bounds, LenProperties DEF TypeInv, Streams, Plain
<1>2. n \in 0..Len(stream) /\ n <= Num /\ n + 1 \in Nat \ {0} /\ Len(stream) \in 0..Len(stream)
  BY <1>1
<1>3. /\ stream' = SubSeq(stream, n + 1, Len(stream)) /\ UNCHANGED <<resB, up, queue, back>>
      /\ \/ \E r \in {-1, 0} : EndF(r)
         \/ pc' = "pass" /\ batch' = filled /\ resF' = resF
  <2> HIDE DEF filled
  <2>1. /\ stream' = SubSeq(stream, n + 1, Len(stream)) /\ UNCHANGED <<resB, up, queue, back>>
        /\ \/ EndF(0) \/ EndF(-1) \/ (\E r \in StaleErrno : EndF(r))
           \/ (pc' = "pass" /\ batch' = filled /\ resF' = resF)
    BY DEF RecvDatagrams, filled
  <2> HIDE DEF n
  <2> QED
    BY <2>1 DEF StaleErrno
<1> HIDE DEF n
<1>4. stream' \in Seq(Pieces)
  BY <1>1, <1>2, <1>3, Cut
<1>5. /\ got \in Seq(Pieces) /\ Len(got) = IF 1 <= n THEN n - 1 + 1 ELSE 0
  BY <1>1, <1>2, Cut
<1>6. Len(got) \in Nat /\ Len(got) <= Num
  BY <1>1, <1>2, <1>5
<1> HIDE DEF got
<1>7. \A x \in Pieces : Received(x) \in Pieces
  BY Bounds DEF Received, Pieces, Garbage
<1>8. filled \in Seq(Pieces) /\ Len(filled) = Len(got)
  <2>1. \A i \in 1..Len(got) : Received(got[i]) \in Pieces
    BY <1>5, <1>7, ElementOfSeq
  <2>2. filled = [i \in 1..Len(got) |-> Received(got[i])]
    BY <1>5, LenProperties
  <2> HIDE DEF filled, Pieces
  <2> QED
    BY <1>6, <2>1, <2>2
<1> HIDE DEF filled
<1>9. pc' \in {"pass", "recvB"} /\ resF' \in -1..1 /\ Buffers'
  <2>1. CASE \E r \in {-1, 0} : EndF(r)
    BY <2>1, Ends
  <2>2. CASE pc' = "pass" /\ batch' = filled /\ resF' = resF
    <3>1. \A i \in 1..Len(filled) : ~(i > Num)
      BY <1>1, <1>6, <1>8
    <3>2. filled \in Seq(Messages)
      <4>1. Pieces \subseteq Messages
        BY DEF Messages
      <4> QED
        BY <1>8, <4>1, SeqMonotonic
    <3> QED
      BY <1>1, <2>2, <3>1, <3>2 DEF Buffers, Forward, Passing
  <2> QED
    BY <1>3, <2>1, <2>2
<1> QED
  BY <1>1, <1>3, <1>4, <1>9 DEF Kept, Forward, Passing

\* From the buffers upstream.
LEMMA PassingOnKeepsTypes ==
    ASSUME TypeInv, NEW n \in 0..Len(batch), PassOn \/ SendF(n)
    PROVE  Kept
<1>1. /\ UNCHANGED <<resB, stream, queue, back>>
      /\ batch \in Seq(Messages) /\ Len(batch) \in Nat
      /\ \A i \in 1..Len(batch) : i > Num => batch[i].kind = "unset"
      /\ resF \in -1..1 /\ resB \in -1..1
      /\ stream \in Seq(Pieces)
      /\ up \in Seq(0..MaxUp) /\ queue \in Seq(1..MaxDown) /\ back \in Seq(0..MaxDown)
  <2>1. UNCHANGED <<resB, stream, queue, back>> /\ pc \in Forward /\ pc \in Passing
    BY DEF PassOn, SendF, Forward, Passing
  <2>2. batch \in Seq(Messages) /\ \A i \in 1..Len(batch) : i > Num => batch[i].kind = "unset"
    BY <2>1 DEF TypeInv, Buffers
  <2>3. Len(batch) \in Nat
    BY <2>2, LenProperties
  <2> QED
    BY <2>1, <2>2, <2>3 DEF TypeInv, Plain, Streams
<1>2. CASE PassOn
  <2>1. EndF(-1) \/ (pc' \in {"sendF", "crash"} /\ resF' = resF /\ batch' = batch)
    BY <1>2 DEF PassOn
  <2>2. up' = up
    BY <1>2 DEF PassOn
  <2>3. pc' \in {"sendF", "crash", "recvB"} /\ resF' \in -1..1 /\ Buffers'
    BY <1>1, <2>1, Ends DEF Buffers, Forward, Passing
  <2> QED
    BY <1>1, <2>2, <2>3 DEF Kept, Forward, Passing
<1>3. CASE SendF(n)
  <2> DEFINE ids == [i \in 1..n |-> batch[i].id]
  <2>1. up' = up \o ids /\ (EndF(1) \/ EndF(-1))
    BY <1>1, <1>3 DEF SendF
  <2>2. \A i \in 1..n : batch[i] \in Messages
    <3> HIDE DEF Messages
    <3>1. \A i \in 1..n : i \in 1..Len(batch)
      BY <1>1
    <3> QED
      BY <1>1, <3>1, ElementOfSeq
  <2>3. \A i \in 1..n : batch[i].id \in 0..MaxUp
    <3>1. \A p \in Pieces : p.id \in 0..MaxUp
      BY DEF Pieces
    <3>2. Unset.id \in 0..MaxUp
      BY UnsetType, Bounds
    <3> HIDE DEF Pieces
    <3>3. \A p \in Messages : p.id \in 0..MaxUp
      BY <3>1, <3>2 DEF Messages
    <3> HIDE DEF Messages
    <3> QED
      BY <2>2, <3>3, Zenon
  <2>4. ids \in Seq(0..MaxUp)
    BY <2>3
  <2> HIDE DEF ids
  <2>5. up' \in Seq(0..MaxUp)
    BY <1>1, <2>1, <2>4, ConcatProperties
  <2>6. pc' = "recvB" /\ resF' \in -1..1 /\ Buffers'
    BY <2>1, Ends
  <2> QED
    BY <1>1, <2>5, <2>6 DEF Kept
<1> QED
  BY <1>2, <1>3

\* The answers, from the socket into the buffers and from there to the client.
LEMMA AnsweringKeepsTypes ==
    ASSUME TypeInv, NEW n \in 0..Len(batch), NEW done,
           SkipB \/ RecvB \/ RecvBFails \/ SendBStream(done) \/ SendBDatagrams(n)
    PROVE  Kept
<1>1. /\ UNCHANGED <<resF, stream, up>>
      /\ batch \in Seq(1..MaxDown) /\ Len(batch) \in Nat
      /\ resF \in -1..1 /\ resB \in -1..1
      /\ stream \in Seq(Pieces) /\ up \in Seq(0..MaxUp)
      /\ queue \in Seq(1..MaxDown) /\ Len(queue) \in Nat /\ back \in Seq(0..MaxDown)
  <2>1. UNCHANGED <<resF, stream, up>> /\ pc \notin Forward
    BY DEF SkipB, RecvB, RecvBFails, SendBStream, SendBDatagrams, Forward, Passing
  <2>2. batch \in Seq(1..MaxDown)
    BY <2>1 DEF TypeInv, Buffers
  <2>3. Len(batch) \in Nat /\ Len(queue) \in Nat
    BY <2>2, LenProperties DEF TypeInv, Streams
  <2> QED
    BY <2>1, <2>2, <2>3 DEF TypeInv, Plain, Streams
<1>2. CASE SkipB
  <2>1. EndB(resB) /\ UNCHANGED <<queue, back>>
    BY <1>2 DEF SkipB
  <2> QED
    BY <1>1, <2>1, Ends DEF Kept
<1>b. CASE RecvBFails
  <2>1. EndB(-1) /\ UNCHANGED <<queue, back>>
    BY <1>b DEF RecvBFails
  <2> QED
    BY <1>1, <2>1, Ends DEF Kept
<1>3. CASE RecvB
  <2> DEFINE k == IF Len(queue) < Num THEN Len(queue) ELSE Num
  <2>1. /\ queue' = SubSeq(queue, k + 1, Len(queue)) /\ UNCHANGED back
        /\ EndB(0) \/ (pc' = "sendB" /\ batch' = SubSeq(queue, 1, k) /\ UNCHANGED resB)
    BY <1>3 DEF RecvB
  <2>2. k \in 0..Len(queue) /\ k <= Num /\ k + 1 \in Nat \ {0} /\ Len(queue) \in 0..Len(queue)
    BY <1>1, Bounds
  <2> HIDE DEF k
  <2>3. queue' \in Seq(1..MaxDown)
    BY <1>1, <2>1, <2>2, Cut
  <2>4. SubSeq(queue, 1, k) \in Seq(1..MaxDown) /\ Len(SubSeq(queue, 1, k)) <= Num
    BY <1>1, <2>2, Prefix
  <2>5. pc' \in {"turn", "sendB"} /\ resB' \in -1..1 /\ Buffers'
    <3>1. CASE EndB(0)
      BY <3>1, Ends
    <3>2. CASE pc' = "sendB" /\ batch' = SubSeq(queue, 1, k) /\ UNCHANGED resB
      BY <1>1, <2>4, <3>2 DEF Buffers, Forward, Passing
    <3> QED
      BY <2>1, <3>1, <3>2
  <2> QED
    BY <1>1, <2>1, <2>3, <2>5 DEF Kept
<1>4. ASSUME NEW k \in 0..Len(batch)
      PROVE  /\ SubSeq(batch, 1, k) \in Seq(0..MaxDown)
             /\ Append(SubSeq(batch, 1, k), Torn) \in Seq(0..MaxDown)
             /\ back \o SubSeq(batch, 1, k) \in Seq(0..MaxDown)
             /\ back \o Append(SubSeq(batch, 1, k), Torn) \in Seq(0..MaxDown)
  <2>1. SubSeq(batch, 1, k) \in Seq(1..MaxDown)
    BY <1>1, Prefix
  <2>2. 1..MaxDown \subseteq 0..MaxDown
    BY Bounds
  <2>3. SubSeq(batch, 1, k) \in Seq(0..MaxDown)
    BY <2>1, <2>2, SeqMonotonic
  <2>4. Torn \in 0..MaxDown
    BY Bounds DEF Torn
  <2>5. Append(SubSeq(batch, 1, k), Torn) \in Seq(0..MaxDown)
    BY <2>3, <2>4, AppendProperties
  <2> QED
    BY <1>1, <2>3, <2>5, ConcatProperties
<1>5. CASE SendBStream(done)
  <2>1. UNCHANGED queue /\ \E r \in {-1, 0, 1} : EndB(r)
    BY <1>5 DEF SendBStream, StaleErrno
  <2>2. back \o batch \in Seq(0..MaxDown)
    <3>1. SubSeq(batch, 1, Len(batch)) = batch /\ Len(batch) \in 0..Len(batch)
      BY <1>1, SubSeqFull
    <3> QED
      BY <1>4, <3>1
  <2>3. back' \in Seq(0..MaxDown)
    <3>1. \/ back' = back \o batch
          \/ \E k \in 0..(Len(batch) - 1) :
               back' \in {back \o SubSeq(batch, 1, k), back \o Append(SubSeq(batch, 1, k), Torn)}
      BY <1>5 DEF SendBStream
    <3>2. ASSUME NEW k \in 0..(Len(batch) - 1) PROVE k \in 0..Len(batch)
      BY <1>1, <3>2
    <3> QED
      BY <1>4, <2>2, <3>1, <3>2
  <2> QED
    BY <1>1, <2>1, <2>3, Ends DEF Kept
<1>6. CASE SendBDatagrams(n)
  <2>1. /\ n \in 0..Len(batch) /\ UNCHANGED queue /\ (EndB(1) \/ EndB(-1))
        /\ back' = back \o SubSeq(batch, 1, n)
    BY <1>1, <1>6 DEF SendBDatagrams
  <2> QED
    BY <1>1, <1>4, <2>1, Ends DEF Kept
<1> QED
  BY <1>2, <1>b, <1>3, <1>5, <1>6

\* The wait and the next round.
LEMMA WaitingKeepsTypes ==
    ASSUME TypeInv, Yield \/ Wakes \/ TimerEnds
    PROVE  Kept
<1>1. /\ pc \in {"turn", "waitio"} /\ pc' \in {"done", "recvF", "waitio"}
      /\ UNCHANGED <<resF, resB, batch, stream, up, queue, back>>
  BY DEF Yield, Wakes, TimerEnds
<1>2. batch = <<>>
  BY <1>1 DEF TypeInv, Buffers
<1>3. <<>> \in Seq(Messages) /\ <<>> \in Seq(1..MaxDown) /\ Len(<<>>) <= Num
  BY Bounds
<1>4. Buffers'
  BY <1>1, <1>2, <1>3 DEF Buffers, Passing
<1> QED
  BY <1>1, <1>4 DEF Kept, TypeInv, Plain, Streams, Forward, Passing

LEMMA TypesHold == Spec => []TypeInv
<1>1. Init => TypeInv
  <2> SUFFICES ASSUME Init PROVE TypeInv
    OBVIOUS
  <2>1. <<>> \in Seq(Pieces) /\ <<>> \in Seq(1..MaxDown) /\ <<>> \in Seq(0..MaxUp)
        /\ <<>> \in Seq(0..MaxDown) /\ <<>> \in Seq(Messages) /\ Len(<<>>) = 0
    BY EmptySeq
  <2>2. Plain
    BY Bounds DEF Init, Plain, Forward
  <2>3. Flags
    BY DEF Init, Flags
  <2>4. Buffers
    BY <2>1, Bounds DEF Init, Buffers, Passing, Forward
  <2>5. Streams
    BY <2>1 DEF Init, Streams
  <2> QED
    BY <2>2, <2>3, <2>4, <2>5 DEF TypeInv
<1>2. TypeInv /\ [Next]_vars => TypeInv'
  <2> SUFFICES ASSUME TypeInv, [Next]_vars PROVE TypeInv'
    OBVIOUS
  <2>1. CASE Client \/ UpstreamAnswers
    BY <2>1, EnvironmentKeepsTypes
  <2>2. CASE Loop
    <3>1. ASSUME SkipF \/ RecvHeader \/ RecvRestOfHeader \/ RecvBody PROVE Kept
      BY <3>1, ReceivingKeepsTypes
    <3>2. ASSUME RecvDatagrams \/ RecvDatagramsFails PROVE Kept
      BY <3>2, DatagramsKeepTypes, FailedDatagramsKeepTypes
    <3>3. 0 \in 0..Len(batch)
      <4>1. Len(batch) \in Nat
        BY LenProperties DEF TypeInv, Buffers
      <4> QED
        BY <4>1
    <3>4. ASSUME NEW n \in 0..Len(batch), PassOn \/ SendF(n) PROVE Kept
      BY <3>4, PassingOnKeepsTypes
    <3>5. ASSUME NEW n \in 0..Len(batch), NEW done,
                 SkipB \/ RecvB \/ RecvBFails \/ SendBStream(done) \/ SendBDatagrams(n)
          PROVE  Kept
      BY <3>5, AnsweringKeepsTypes
    <3>6. ASSUME Yield \/ Wakes \/ TimerEnds PROVE Kept
      BY <3>6, WaitingKeepsTypes
    <3>7. Kept
      BY <2>2, <3>1, <3>2, <3>3, <3>4, <3>5, <3>6, Zenon DEF Loop
    <3> QED
      BY <2>2, <3>7, LoopKeeps
  <2>3. CASE UNCHANGED vars
    <3>1. Plain' /\ Buffers' /\ Streams'
      BY <2>3 DEF vars, loopVars, envVars, TypeInv, Plain, Buffers, Streams
    <3>2. Flags'
      BY <2>3, Zenon DEF vars, loopVars, envVars, TypeInv, Flags
    <3> QED
      BY <3>1, <3>2 DEF TypeInv
  <2> QED
    BY <2>1, <2>2, <2>3 DEF Next
<1> QED
  BY <1>1, <1>2, PTL DEF Spec

(***************************************************************************)
(* The variables of the relay keep their types: no receive fills in more   *)
(* messages than there are copy buffers, and no packet and no answer is    *)
(* numbered that there was not, whatever arrives, fails or times out.  It  *)
(* does not say that fwd_f stays within its array: after a frame that the  *)
(* end of the stream cut short it does not (hev-socks5-udp.c, recvmmsg_tcp *)
(* and fwd_f), and what it then sends beyond the buffers are messages that *)
(* nothing filled in.                                                      *)
(***************************************************************************)
THEOREM TypeCorrect == Spec => []TypeOK
<1>1. TypeInv => TypeOK
  <2> SUFFICES ASSUME TypeInv PROVE TypeOK
    OBVIOUS
  <2>1. pc \in Passing => \A i \in DOMAIN batch : i > Num => batch[i].kind = "unset"
    <3> SUFFICES ASSUME pc \in Passing, NEW i \in DOMAIN batch, i > Num
                 PROVE  batch[i].kind = "unset"
      OBVIOUS
    <3>1. batch \in Seq(Messages)
      BY DEF TypeInv, Buffers, Forward
    <3>2. i \in 1..Len(batch)
      BY <3>1, LenProperties
    <3> QED
      BY <3>2 DEF TypeInv, Buffers
  <2> QED
    BY <2>1 DEF TypeInv, Plain, Flags, Buffers, Streams, TypeOK, Forward, Passing
<1> QED
  BY <1>1, TypesHold, PTL

-----------------------------------------------------------------------------
(***************************************************************************)
(* The UDP relay implements two channels, for every number of copy         *)
(* buffers, packets and answers, as long as packets fit, no socket fails   *)
(* and no timer runs.                                                      *)
(*                                                                         *)
(* Where a packet is between the client and upstream is told by counting   *)
(* pieces: the relay has read so many, and those that arrived and those    *)
(* the client still owes are the next ones, in order.                      *)
(***************************************************************************)

Idx(part) == CASE part = "start" -> 0 [] part = "rest" -> 1 [] part = "body" -> 2 [] OTHER -> 3

\* The place of a piece among all pieces of all frames, from 3.
Pos(p) == 3 * p.id + Idx(p.part)

\* Of n frames c pieces were read; s arrived and r is owed.
TcpFlow(c, s, r, n) ==
    /\ \A i \in 1..Len(s) : s[i].part # "whole" /\ Pos(s[i]) = c + i + 2
    /\ \A i \in 1..Len(r) : r[i].part # "whole" /\ Pos(r[i]) = c + Len(s) + i + 2
    /\ c + Len(s) + Len(r) = 3 * n

\* Of n datagrams k were read; s arrived.
UdpFlow(k, s, n) ==
    /\ \A i \in 1..Len(s) : s[i].id = k + i
    /\ k + Len(s) = n

\* What is next at a place among the pieces.
LEMMA PosOf ==
    ASSUME NEW p \in Pieces, NEW k \in Nat, NEW j \in 0..2,
           p.part # "whole", Pos(p) = 3 * k + j + 3
    PROVE  /\ p.id = k + 1
           /\ j = 0 => p.part = "start"
           /\ j = 1 => p.part = "rest"
           /\ j = 2 => p.part = "body"
<1>1. p.id \in Nat /\ p.part \in {"start", "rest", "body"}
  BY Bounds DEF Pieces
<1>2. CASE p.part = "start"
  BY <1>1, <1>2 DEF Pos, Idx
<1>3. CASE p.part = "rest"
  BY <1>1, <1>3 DEF Pos, Idx
<1>4. CASE p.part = "body"
  BY <1>1, <1>4 DEF Pos, Idx
<1> QED
  BY <1>1, <1>2, <1>3, <1>4

\* The relay reads a piece.
LEMMA TcpTake ==
    ASSUME NEW c \in Nat, NEW n \in Nat, NEW s \in Seq(Pieces), NEW r \in Seq(Pieces),
           s # <<>>, TcpFlow(c, s, r, n)
    PROVE  /\ TcpFlow(c + 1, Tail(s), r, n)
           /\ Head(s) \in Pieces /\ Head(s).part # "whole" /\ Pos(Head(s)) = c + 3
<1> DEFINE t == Tail(s)
<1>1. /\ Head(s) \in Pieces /\ t \in Seq(Pieces) /\ Len(t) = Len(s) - 1
      /\ \A i \in 1..Len(t) : t[i] = s[i + 1]
  BY HeadTailProperties
<1>2. Head(s) = s[1] /\ 1 \in 1..Len(s) /\ Len(s) \in Nat /\ Len(r) \in Nat
  OBVIOUS
<1> HIDE DEF t, Pieces
<1>3. \A i \in 1..Len(t) : i + 1 \in 1..Len(s) /\ c + (i + 1) + 2 = (c + 1) + i + 2
  BY <1>1, <1>2
<1>4. \A i \in 1..Len(t) : t[i].part # "whole" /\ Pos(t[i]) = (c + 1) + i + 2
  BY <1>1, <1>3 DEF TcpFlow
<1>5. \A i \in 1..Len(r) : c + Len(s) + i + 2 = (c + 1) + Len(t) + i + 2
  BY <1>1, <1>2
<1>6. (c + 1) + Len(t) + Len(r) = 3 * n
  <2>1. c + Len(s) + Len(r) = 3 * n
    BY DEF TcpFlow
  <2>2. Len(t) = Len(s) - 1 /\ Len(s) \in Nat /\ Len(r) \in Nat
    BY <1>1, <1>2
  <2> QED
    BY <2>1, <2>2
<1>7. TcpFlow(c + 1, t, r, n)
  BY <1>4, <1>5, <1>6 DEF TcpFlow
<1>8. Head(s).part # "whole" /\ Pos(Head(s)) = c + 1 + 2
  BY <1>2 DEF TcpFlow
<1> QED
  BY <1>1, <1>7, <1>8 DEF t

\* It reads the header at once.
LEMMA TcpTakeTwo ==
    ASSUME NEW c \in Nat, NEW n \in Nat, NEW s \in Seq(Pieces), NEW r \in Seq(Pieces),
           Len(s) > 1, TcpFlow(c, s, r, n)
    PROVE  TcpFlow(c + 2, SubSeq(s, 3, Len(s)), r, n)
<1> DEFINE t == SubSeq(s, 3, Len(s))
<1>1. t \in Seq(Pieces) /\ Len(t) = Len(s) - 2 /\ \A i \in 1..Len(t) : t[i] = s[i + 2]
  <2>1. 2 \in 0..Len(s) /\ 2 + 1 = 3 /\ Len(s) \in Nat
    OBVIOUS
  <2>2. /\ t \in Seq(Pieces) /\ Len(t) = Len(s) - 2
        /\ \A i \in 1..(Len(s) - 2) : t[i] = s[2 + i]
    BY <2>1, Suffix
  <2> HIDE DEF t
  <2> QED
    BY <2>1, <2>2
<1>2. Len(s) \in Nat /\ Len(r) \in Nat
  OBVIOUS
<1> HIDE DEF t, Pieces
<1>3. \A i \in 1..Len(t) : i + 2 \in 1..Len(s) /\ c + (i + 2) + 2 = (c + 2) + i + 2
  BY <1>1, <1>2
<1>4. \A i \in 1..Len(t) : t[i].part # "whole" /\ Pos(t[i]) = (c + 2) + i + 2
  <2> SUFFICES ASSUME NEW i \in 1..Len(t)
               PROVE  t[i].part # "whole" /\ Pos(t[i]) = (c + 2) + i + 2
    OBVIOUS
  <2>1. t[i] = s[i + 2] /\ i + 2 \in 1..Len(s) /\ c + (i + 2) + 2 = (c + 2) + i + 2
    BY <1>1, <1>3
  <2>2. s[i + 2].part # "whole" /\ Pos(s[i + 2]) = c + (i + 2) + 2
    BY <2>1 DEF TcpFlow
  <2> QED
    BY <2>1, <2>2
<1>5. \A i \in 1..Len(r) : c + Len(s) + i + 2 = (c + 2) + Len(t) + i + 2
  BY <1>1, <1>2
<1>6. (c + 2) + Len(t) + Len(r) = 3 * n
  <2>1. c + Len(s) + Len(r) = 3 * n
    BY DEF TcpFlow
  <2>2. Len(t) = Len(s) - 2 /\ Len(s) \in Nat /\ Len(r) \in Nat
    BY <1>1, <1>2
  <2> QED
    BY <2>1, <2>2
<1>7. TcpFlow(c + 2, t, r, n)
  BY <1>4, <1>5, <1>6 DEF TcpFlow
<1> QED
  BY <1>7 DEF t

\* A piece that was owed arrives.
LEMMA TcpMore ==
    ASSUME NEW c \in Nat, NEW n \in Nat, NEW s \in Seq(Pieces), NEW r \in Seq(Pieces),
           r # <<>>, TcpFlow(c, s, r, n)
    PROVE  TcpFlow(c, Append(s, Head(r)), Tail(r), n)
<1> DEFINE t == Append(s, Head(r))
           q == Tail(r)
<1>1. /\ Head(r) \in Pieces /\ q \in Seq(Pieces) /\ Len(q) = Len(r) - 1
      /\ \A i \in 1..Len(q) : q[i] = r[i + 1]
  BY HeadTailProperties
<1>2. Head(r) = r[1] /\ 1 \in 1..Len(r) /\ Len(s) \in Nat /\ Len(r) \in Nat
  OBVIOUS
<1>3. /\ Len(t) = Len(s) + 1
      /\ \A i \in 1..Len(s) : t[i] = s[i]
      /\ t[Len(s) + 1] = r[1]
  <2> HIDE DEF Pieces
  <2> QED
    BY <1>1, <1>2, AppendProperties
<1> HIDE DEF t, q, Pieces
<1>4. r[1].part # "whole" /\ Pos(r[1]) = c + Len(s) + 1 + 2
  BY <1>2 DEF TcpFlow
<1>5. \A i \in 1..Len(t) : t[i].part # "whole" /\ Pos(t[i]) = c + i + 2
  <2> SUFFICES ASSUME NEW i \in 1..Len(t)
               PROVE  t[i].part # "whole" /\ Pos(t[i]) = c + i + 2
    OBVIOUS
  <2>1. CASE i \in 1..Len(s)
    BY <1>3, <2>1 DEF TcpFlow
  <2>2. CASE i = Len(s) + 1
    BY <1>2, <1>3, <1>4, <2>2
  <2> QED
    BY <1>2, <1>3, <2>1, <2>2
<1>6. \A i \in 1..Len(q) : i + 1 \in 1..Len(r) /\ c + Len(s) + (i + 1) + 2 = c + Len(t) + i + 2
  BY <1>1, <1>2, <1>3
<1>7. \A i \in 1..Len(q) : q[i].part # "whole" /\ Pos(q[i]) = c + Len(t) + i + 2
  BY <1>1, <1>6 DEF TcpFlow
<1>8. c + Len(t) + Len(q) = 3 * n
  BY <1>1, <1>2, <1>3 DEF TcpFlow
<1>9. TcpFlow(c, t, q, n)
  BY <1>5, <1>7, <1>8 DEF TcpFlow
<1> QED
  BY <1>9 DEF t, q

\* A frame begins to arrive.
LEMMA TcpNew ==
    ASSUME NEW c \in Nat, NEW n \in Nat, NEW s \in Seq(Pieces), NEW kind, NEW k \in 1..3,
           Frame(n + 1, kind) \in Seq(Pieces), TcpFlow(c, s, <<>>, n)
    PROVE  TcpFlow(c, s \o SubSeq(Frame(n + 1, kind), 1, k), SubSeq(Frame(n + 1, kind), k + 1, 3), n + 1)
<1> DEFINE f == Frame(n + 1, kind)
           a == SubSeq(f, 1, k)
           q == SubSeq(f, k + 1, 3)
           t == s \o a
<1>1. /\ f \in Seq(Pieces) /\ Len(f) = 3
      /\ \A i \in 1..3 : f[i].part # "whole" /\ Pos(f[i]) = 3 * n + i + 2
  <2>1. f[1] = Piece("start", n + 1, kind) /\ f[2] = Piece("rest", n + 1, kind)
        /\ f[3] = Piece("body", n + 1, kind) /\ Len(f) = 3
    BY DEF Frame
  <2>2. /\ f[1].part = "start" /\ f[2].part = "rest" /\ f[3].part = "body"
        /\ f[1].id = n + 1 /\ f[2].id = n + 1 /\ f[3].id = n + 1
    BY <2>1 DEF Piece
  <2> HIDE DEF f
  <2>3. Pos(f[1]) = 3 * (n + 1) /\ Pos(f[2]) = 3 * (n + 1) + 1 /\ Pos(f[3]) = 3 * (n + 1) + 2
    BY <2>2 DEF Pos, Idx
  <2>4. f \in Seq(Pieces)
    BY DEF f
  <2>5. \A i \in 1..3 : i = 1 \/ i = 2 \/ i = 3
    OBVIOUS
  <2> QED
    BY <2>1, <2>2, <2>3, <2>4, <2>5
<1> HIDE DEF f, Pieces
<1>0. k \in 0..Len(f)
  BY <1>1
<1>2. a \in Seq(Pieces) /\ Len(a) = k /\ \A i \in 1..k : a[i] = f[i]
  BY <1>0, <1>1, Prefix
<1>3. q \in Seq(Pieces) /\ Len(q) = 3 - k /\ \A i \in 1..(3 - k) : q[i] = f[k + i]
  <2>1. /\ SubSeq(f, k + 1, Len(f)) \in Seq(Pieces)
        /\ Len(SubSeq(f, k + 1, Len(f))) = Len(f) - k
        /\ \A i \in 1..(Len(f) - k) : SubSeq(f, k + 1, Len(f))[i] = f[k + i]
    BY <1>0, <1>1, Suffix
  <2> QED
    BY <1>1, <2>1
<1> HIDE DEF a, q
<1>4. /\ Len(t) = Len(s) + Len(a)
      /\ \A i \in 1..(Len(s) + Len(a)) : t[i] = IF i <= Len(s) THEN s[i] ELSE a[i - Len(s)]
  BY <1>2, ConcatProperties
<1> HIDE DEF t
<1>5. Len(s) \in Nat /\ c + Len(s) = 3 * n
  <2>1. c + Len(s) + Len(<<>>) = 3 * n /\ Len(<<>>) = 0 /\ Len(s) \in Nat
    BY DEF TcpFlow
  <2> QED
    BY <2>1
<1>6. \A i \in 1..Len(t) : t[i].part # "whole" /\ Pos(t[i]) = c + i + 2
  <2> SUFFICES ASSUME NEW i \in 1..Len(t)
               PROVE  t[i].part # "whole" /\ Pos(t[i]) = c + i + 2
    OBVIOUS
  <2>1. CASE i <= Len(s)
    <3>1. t[i] = s[i] /\ i \in 1..Len(s)
      BY <1>2, <1>4, <1>5, <2>1
    <3> QED
      BY <3>1 DEF TcpFlow
  <2>2. CASE i > Len(s)
    <3> DEFINE j == i - Len(s)
    <3>1. /\ j \in 1..k /\ j \in 1..3 /\ 3 * n + j + 2 = c + i + 2
          /\ ~(i <= Len(s)) /\ i \in 1..(Len(s) + Len(a))
      <4>1. Len(a) = k /\ Len(t) = Len(s) + Len(a)
        BY <1>2, <1>4
      <4>2. k \in 0..3 /\ i \in Int /\ Len(s) \in Int /\ c + Len(s) = 3 * n
        BY <1>5
      <4>3. i <= Len(s) + k /\ i > Len(s) /\ i \in 1..(Len(s) + Len(a))
        BY <2>2, <4>1
      <4>4. j \in 1..k
        BY <4>2, <4>3
      <4>5. j \in 1..3
        BY <4>4
      <4>6. 3 * n + j + 2 = c + i + 2
        BY <4>2
      <4>7. ~(i <= Len(s))
        BY <4>2, <4>3
      <4> HIDE DEF j
      <4> QED
        BY <4>3, <4>4, <4>5, <4>6, <4>7
    <3>2. t[i] = a[j]
      BY <1>4, <3>1
    <3> HIDE DEF j
    <3>3. t[i] = f[j]
      BY <1>2, <3>1, <3>2
    <3> QED
      BY <1>1, <3>1, <3>3
  <2> QED
    BY <1>2, <1>4, <1>5, <2>1, <2>2
<1>7. \A i \in 1..Len(q) : q[i].part # "whole" /\ Pos(q[i]) = c + Len(t) + i + 2
  <2> SUFFICES ASSUME NEW i \in 1..Len(q)
               PROVE  q[i].part # "whole" /\ Pos(q[i]) = c + Len(t) + i + 2
    OBVIOUS
  <2>1. k + i \in 1..3 /\ i \in 1..(3 - k) /\ 3 * n + (k + i) + 2 = c + Len(t) + i + 2
    BY <1>2, <1>3, <1>4, <1>5
  <2>2. q[i] = f[k + i]
    BY <1>3, <2>1
  <2> QED
    BY <1>1, <2>1, <2>2
<1>8. c + Len(t) + Len(q) = 3 * (n + 1)
  BY <1>2, <1>3, <1>4, <1>5
<1>9. TcpFlow(c, t, q, n + 1)
  BY <1>6, <1>7, <1>8 DEF TcpFlow
<1> QED
  BY <1>9 DEF t, a, q, f

\* A datagram arrives.
LEMMA UdpNew ==
    ASSUME NEW k \in Nat, NEW n \in Nat, NEW s \in Seq(Pieces), NEW p \in Pieces,
           p.id = n + 1, UdpFlow(k, s, n)
    PROVE  UdpFlow(k, Append(s, p), n + 1)
<1> DEFINE t == Append(s, p)
<1>1. Len(t) = Len(s) + 1 /\ t[Len(s) + 1] = p /\ \A i \in 1..Len(s) : t[i] = s[i]
  <2> HIDE DEF Pieces
  <2> QED
    BY AppendProperties
<1>2. Len(s) \in Nat /\ k + Len(s) = n
  BY DEF UdpFlow
<1> HIDE DEF t, Pieces
<1>3. ASSUME NEW i \in 1..Len(t) PROVE t[i].id = k + i
  <2>1. CASE i \in 1..Len(s)
    BY <1>1, <2>1 DEF UdpFlow
  <2>2. CASE i = Len(s) + 1
    BY <1>1, <1>2, <2>2
  <2> QED
    BY <1>1, <1>2, <2>1, <2>2
<1>4. k + Len(t) = n + 1
  BY <1>1, <1>2
<1>5. UdpFlow(k, t, n + 1)
  BY <1>3, <1>4 DEF UdpFlow
<1> QED
  BY <1>5 DEF t

\* The relay reads some datagrams.
LEMMA UdpTake ==
    ASSUME NEW k \in Nat, NEW n \in Nat, NEW s \in Seq(Pieces), NEW m \in 0..Len(s),
           UdpFlow(k, s, n)
    PROVE  /\ UdpFlow(k + m, SubSeq(s, m + 1, Len(s)), n)
           /\ \A i \in 1..m : s[i].id = k + i
<1> DEFINE t == SubSeq(s, m + 1, Len(s))
<1>1. Len(t) = Len(s) - m /\ \A i \in 1..(Len(s) - m) : t[i] = s[m + i]
  BY Suffix
<1>2. Len(s) \in Nat /\ k + Len(s) = n
  BY DEF UdpFlow
<1> HIDE DEF t, Pieces
<1>3. ASSUME NEW i \in 1..Len(t) PROVE t[i].id = (k + m) + i
  <2>1. m + i \in 1..Len(s) /\ i \in 1..(Len(s) - m) /\ (k + m) + i = k + (m + i)
    BY <1>1, <1>2
  <2>2. t[i] = s[m + i]
    BY <1>1, <2>1
  <2> QED
    BY <2>1, <2>2 DEF UdpFlow
<1>4. (k + m) + Len(t) = n
  BY <1>1, <1>2
<1>5. UdpFlow(k + m, t, n)
  BY <1>3, <1>4 DEF UdpFlow
<1>6. \A i \in 1..m : i \in 1..Len(s)
  BY <1>2
<1> QED
  BY <1>5, <1>6 DEF UdpFlow, t

-----------------------------------------------------------------------------
(* When packets fit, no socket fails and no timer runs.                     *)

Calm == Kinds \subseteq {"fits"} /\ Breaks = FALSE /\ UdpTimeout < 0

\* Only the end of the control connection makes a wait fail.
Quiet ==
    /\ timeout >= 0 => ControlClosed
    /\ mode = "UDP_IN_UDP" => rest = <<>>
    /\ pc = "recvF" /\ (mode = "UDP_IN_UDP" \/ resF < 0) => batch = <<>>
    /\ pc \in {"restHead", "body"} => resF >= 0 /\ mode # "UDP_IN_UDP"
    /\ pc = "sendB" => batch # <<>> /\ resB >= 0

LEMMA EnvironmentStaysQuiet ==
    ASSUME Calm, Quiet, Client \/ UpstreamAnswers
    PROVE  Quiet'
<1>1. /\ UNCHANGED <<mode, loopVars>>
      /\ gone => UNCHANGED <<gone, ctl>>
  BY DEF Client, UpstreamAnswers, ClientSends, ClientGoesOn, ClientWrites, ClientCloses, envVars
<1>2. timeout' >= 0 => ControlClosed'
  BY <1>1 DEF Quiet, ControlClosed, loopVars
<1>3. mode' = "UDP_IN_UDP" => rest' = <<>>
  <2>1. CASE \E kind \in Kinds : ClientSends(kind)
    BY <1>1, <2>1 DEF ClientSends, Quiet
  <2>2. CASE ClientGoesOn
    BY <1>1, <2>2 DEF ClientGoesOn, Quiet
  <2>3. CASE ClientWrites \/ ClientCloses \/ UpstreamAnswers
    BY <1>1, <2>3 DEF ClientWrites, ClientCloses, UpstreamAnswers, envVars, Quiet
  <2> QED
    BY <2>1, <2>2, <2>3 DEF Client
<1> QED
  BY <1>1, <1>2, <1>3 DEF Quiet, loopVars

LEMMA LoopStaysQuiet ==
    ASSUME Calm, TypeInv, Quiet, Loop
    PROVE  Quiet'
<1>0. UNCHANGED <<mode, gone, rest>> /\ ctl' \in 0..ctl /\ ctl \in Nat
  BY LoopFlags, Bounds DEF TypeInv, Plain
<1>1. timeout' = timeout \/ ControlClosed'
  <2> DEFINE Steady == timeout' = timeout \/ ControlClosed'
  <2>1. ASSUME NEW n, SendF(n) \/ SendBDatagrams(n) PROVE Steady
    BY <1>0, <2>1 DEF SendF, SendBDatagrams, WaitEnds, WaitFails, ControlClosed
  <2>2. ASSUME \/ SkipF \/ RecvHeader \/ RecvRestOfHeader \/ RecvBody \/ RecvDatagrams
               \/ RecvDatagramsFails \/ PassOn \/ SkipB \/ RecvB \/ RecvBFails
        PROVE  Steady
    BY <2>2 DEF SkipF, RecvHeader, RecvRestOfHeader, RecvBody, RecvDatagrams,
                RecvDatagramsFails, PassOn, SkipB, RecvB, RecvBFails
  <2>3. ASSUME NEW done, SendBStream(done) PROVE Steady
    BY <2>3 DEF SendBStream
  <2>4. ASSUME Yield \/ Wakes \/ TimerEnds PROVE Steady
    BY <1>0, <2>4 DEF Yield, Wakes, TimerEnds, ControlClosed
  <2> QED
    BY <2>1, <2>2, <2>3, <2>4, Zenon DEF Loop
<1>2. timeout' >= 0 => ControlClosed'
  BY <1>0, <1>1 DEF Quiet, ControlClosed
<1>3. mode' = "UDP_IN_UDP" => rest' = <<>>
  BY <1>0 DEF Quiet
<1>4. ASSUME NEW r, EndF(r) \/ EndB(r) PROVE Quiet'
  <2>1. pc' \in {"recvB", "turn"} /\ batch' = <<>>
    BY <1>4 DEF EndF, EndB
  <2> QED
    BY <1>2, <1>3, <2>1 DEF Quiet
<1>5. Num \in Nat \ {0} /\ mode' = mode
  BY <1>0, Bounds
<1>a. ASSUME pc' \in Passing PROVE Quiet'
  BY <1>2, <1>3, <1>a DEF Quiet, Passing
<1>b. ASSUME pc' \in {"body", "restHead", "recvF"}, resF' >= 0, mode' # "UDP_IN_UDP",
              resF' \in Int
       PROVE  Quiet'
  BY <1>2, <1>3, <1>b DEF Quiet
<1>c. resF \in Int
  BY DEF TypeInv, Plain
<1>6. CASE SkipF \/ SkipB \/ RecvDatagramsFails \/ RecvBFails
  BY <1>4, <1>6 DEF SkipF, SkipB, RecvDatagramsFails, RecvBFails
<1>7. CASE RecvHeader
  <2>1. \/ \E r : EndF(r)
        \/ pc' \in Passing
        \/ pc' \in {"body", "restHead"} /\ resF' = resF
        \/ pc' = "recvF" /\ resF' = resF
    BY <1>7 DEF RecvHeader, NoHeader, CheckHeader, Passing
  <2>2. resF >= 0 /\ mode # "UDP_IN_UDP"
    BY <1>7 DEF RecvHeader
  <2> QED
    BY <1>4, <1>5, <1>a, <1>b, <1>c, <2>1, <2>2
<1>8. CASE RecvRestOfHeader \/ RecvBody
  <2>1. \/ \E r : EndF(r)
        \/ pc' \in Passing
        \/ pc' \in {"body", "recvF"} /\ resF' = resF
    BY <1>8 DEF RecvRestOfHeader, RecvBody, CheckHeader, ShortHeader, TakesForMessages, Passing
  <2>2. resF >= 0 /\ mode # "UDP_IN_UDP"
    BY <1>8 DEF RecvRestOfHeader, RecvBody, Quiet
  <2> QED
    BY <1>4, <1>5, <1>a, <1>b, <1>c, <2>1, <2>2
<1>9. CASE RecvDatagrams
  <2>1. (\E r : EndF(r)) \/ pc' \in Passing
    BY <1>9 DEF RecvDatagrams, Passing
  <2> QED
    BY <1>4, <1>a, <2>1
<1>10. CASE PassOn
  <2>1. EndF(-1) \/ pc' \in Passing
    BY <1>10 DEF PassOn, Passing
  <2> QED
    BY <1>4, <1>a, <2>1
<1>11. CASE \E n \in 0..Len(batch) : SendF(n) \/ SendBDatagrams(n)
  BY <1>4, <1>11 DEF SendF, SendBDatagrams
<1>12. CASE \E done \in BOOLEAN : SendBStream(done)
  BY <1>4, <1>12 DEF SendBStream
<1>13. CASE RecvB
  <2> DEFINE k == IF Len(queue) < Num THEN Len(queue) ELSE Num
  <2>1. EndB(0) \/ (k > 0 /\ pc' = "sendB" /\ batch' = SubSeq(queue, 1, k) /\ resB' = resB /\ resB >= 0)
    BY <1>13 DEF RecvB
  <2>2. ASSUME k > 0 PROVE SubSeq(queue, 1, k) # <<>>
    <3>1. queue \in Seq(1..MaxDown) /\ Len(queue) \in Nat
      BY LenProperties DEF TypeInv, Streams
    <3>2. k \in 0..Len(queue)
      BY <1>5, <3>1
    <3> HIDE DEF k
    <3>3. Len(SubSeq(queue, 1, k)) = k
      BY <3>1, <3>2, Prefix
    <3>4. Len(<<>>) = 0 /\ k # 0
      BY <2>2, <3>2
    <3> QED
      BY <3>3, <3>4
  <2> HIDE DEF k
  <2> QED
    BY <1>2, <1>3, <1>4, <2>1, <2>2 DEF Quiet
<1>14. CASE Yield \/ Wakes \/ TimerEnds
  <2>1. /\ pc \in {"turn", "waitio"} /\ pc' \in {"done", "recvF", "waitio"}
        /\ batch' = batch
    BY <1>14 DEF Yield, Wakes, TimerEnds
  <2>2. batch = <<>>
    BY <2>1 DEF TypeInv, Buffers
  <2> QED
    BY <1>2, <1>3, <2>1, <2>2 DEF Quiet
<1> QED
  BY <1>6, <1>7, <1>8, <1>9, <1>10, <1>11, <1>12, <1>13, <1>14, Zenon DEF Loop

-----------------------------------------------------------------------------
(* Upstream.                                                                *)

\* The packets that were read, and the pieces of the next frame that were.
Taken == Len(up) + (IF pc \in Forward THEN Len(batch) ELSE 0)
Offset == IF pc = "restHead" THEN 1 ELSE IF pc = "body" THEN 2 ELSE 0

Flow ==
    /\ mode = "UDP_IN_UDP" => UdpFlow(Taken, stream, sent)
    /\ mode # "UDP_IN_UDP" => TcpFlow(3 * Taken + Offset, stream, rest, sent)

Ahead == pc \in Forward => \A i \in 1..Len(batch) : batch[i].id = Len(up) + i

\* The round in which the end of the control connection ends the loop: what a
\* send left over is lost, and nothing is read any more.
Closing == ControlClosed /\ pc \in {"recvB", "sendB", "turn", "done"}

\* What went upstream is the first packets.
Counted == up = Channel!UpTo(Len(up))

\* The stream has ended within a frame.
Severed == mode # "UDP_IN_UDP" /\ gone /\ rest # <<>> /\ stream = <<>>

\* What is about to go upstream then: some of the whole packets, and messages
\* that nothing filled in.
Misread ==
    /\ pc \in {"pass", "sendF"} /\ Counted
    /\ \E f \in 0..Len(batch) :
         /\ Len(up) + f < sent
         /\ \A i \in 1..Len(batch) : batch[i].id = IF i <= f THEN Len(up) + i ELSE 0

\* Nothing more goes upstream.
Spent ==
    /\ pc \notin {"restHead", "body", "pass", "sendF"}
    /\ pc = "recvF" => batch = <<>>

Upwards ==
    \/ Closing
    \/ Counted /\ Flow /\ Ahead
    \/ Severed /\ (Misread \/ Spent)

LEMMA Lens ==
    ASSUME TypeInv
    PROVE  /\ stream \in Seq(Pieces) /\ rest \in Seq(Pieces)
           /\ Len(stream) \in Nat /\ Len(rest) \in Nat
           /\ up \in Seq(Nat) /\ Len(up) \in Nat /\ sent \in Nat
           /\ pc \in Forward => batch \in Seq(Messages) /\ Len(batch) \in Nat
           /\ Taken \in Nat
<1>1. stream \in Seq(Pieces) /\ rest \in Seq(Pieces) /\ up \in Seq(0..MaxUp) /\ sent \in 0..MaxUp
      /\ (pc \in Forward => batch \in Seq(Messages))
  BY DEF TypeInv, Streams, Plain, Buffers
<1>2. 0..MaxUp \subseteq Nat
  BY Bounds
<1>3. up \in Seq(Nat) /\ sent \in Nat
  BY <1>1, <1>2, SeqMonotonic
<1>4. /\ Len(stream) \in Nat /\ Len(rest) \in Nat /\ Len(up) \in Nat
      /\ pc \in Forward => Len(batch) \in Nat
  BY <1>1, <1>3, LenProperties
<1> QED
  BY <1>1, <1>3, <1>4 DEF Taken

\* What is read is what the client sent, and all of it that is whole.
LEMMA TakenIsSent ==
    ASSUME TypeInv, Quiet, Flow
    PROVE  /\ Taken <= sent
           /\ rest # <<>> \/ (mode # "UDP_IN_UDP" /\ Offset # 0) => Taken < sent
<1>1. Taken \in Nat /\ Offset \in Nat /\ sent \in Nat /\ Len(stream) \in Nat /\ Len(rest) \in Nat
  BY Lens DEF Offset
<1>2. CASE mode = "UDP_IN_UDP"
  <2>1. Taken + Len(stream) = sent
    BY <1>2 DEF Flow, UdpFlow
  <2>2. rest = <<>>
    BY <1>2 DEF Quiet
  <2> QED
    BY <1>1, <1>2, <2>1, <2>2
<1>3. CASE mode # "UDP_IN_UDP"
  <2>1. 3 * Taken + Offset + Len(stream) + Len(rest) = 3 * sent
    BY <1>3 DEF Flow, TcpFlow
  <2>2. rest # <<>> => Len(rest) # 0
    BY Lens, EmptySeq
  <2> QED
    BY <1>1, <2>1, <2>2
<1> QED
  BY <1>2, <1>3

\* A message of its place is a packet.
LEMMA AheadAreSet ==
    ASSUME TypeInv, Ahead, pc \in Forward
    PROVE  \A i \in 1..Len(batch) : batch[i] \in Pieces
<1> SUFFICES ASSUME NEW i \in 1..Len(batch) PROVE batch[i] \in Pieces
  OBVIOUS
<1>1. Len(up) \in Nat /\ batch \in Seq(Messages) /\ Len(batch) \in Nat
  BY Lens
<1>2. batch[i] \in Messages
  <2> HIDE DEF Messages
  <2> QED
    BY <1>1, ElementOfSeq
<1>3. batch[i].id # 0
  <2>1. batch[i].id = Len(up) + i
    BY DEF Ahead
  <2> QED
    BY <1>1, <2>1
<1> HIDE DEF Pieces
<1> QED
  BY <1>2, <1>3, UnsetType DEF Messages

\* The steps outside of the forward direction.
LEMMA OthersKeepUpwards ==
    ASSUME TypeInv, Upwards, UNCHANGED <<mode, gone, up, stream, rest, sent>>, ctl' \in 0..ctl,
           pc \notin Forward,
           pc' \in {"recvF", "sendB", "turn", "waitio", "done"},
           pc' = "recvF" => batch' = <<>>,
           Closing => pc' \in {"recvB", "sendB", "turn", "done"}
    PROVE  Upwards'
<1>1. CASE Closing
  BY <1>1 DEF Upwards, Closing, ControlClosed
<1>2. CASE Counted /\ Flow /\ Ahead
  <2>1. Len(<<>>) = 0 /\ Len(up) \in Nat
    BY Lens
  <2>2. Taken = Len(up) /\ Taken' = Len(up)
    BY <2>1 DEF Taken, Forward, Passing
  <2>3. Offset = 0 /\ Offset' = 0
    BY DEF Offset, Forward
  <2>4. Flow'
    BY <1>2, <2>2, <2>3 DEF Flow
  <2>5. Ahead'
    BY <2>1 DEF Ahead, Forward, Passing
  <2>6. Counted'
    BY <1>2 DEF Counted, Channel!UpTo
  <2> QED
    BY <2>4, <2>5, <2>6 DEF Upwards
<1>3. CASE Severed
  BY <1>3 DEF Upwards, Severed, Spent
<1> QED
  BY <1>1, <1>2, <1>3 DEF Upwards

\* What the client sends comes after what it sent.
LEMMA EnvironmentKeepsUpwards ==
    ASSUME Calm, TypeInv, Quiet, Upwards, Client \/ UpstreamAnswers
    PROVE  Upwards'
<1>1. UNCHANGED <<mode, loopVars, up>>
  BY DEF Client, UpstreamAnswers, ClientSends, ClientGoesOn, ClientWrites, ClientCloses
<1>2. /\ Taken' = Taken /\ Offset' = Offset /\ Ahead' = Ahead /\ Counted' = Counted
  BY <1>1 DEF Taken, Offset, Ahead, loopVars, Counted, Channel!UpTo
<1>3. ASSUME NEW kind \in Kinds, ClientSends(kind) PROVE Upwards'
  <2>1. ~gone /\ rest = <<>> /\ sent < MaxUp /\ sent' = sent + 1 /\ sent \in Nat
    BY <1>3, Lens DEF ClientSends
  <2>2. Counted /\ Flow /\ Ahead
    BY <2>1 DEF Upwards, Closing, ControlClosed, Severed
  <2>3. sent + 1 \in 0..MaxUp
    BY <2>1, Bounds
  <2>4. /\ Frame(sent + 1, kind) \in Seq(Pieces)
        /\ Piece("whole", sent + 1, kind) \in Pieces
        /\ Piece("whole", sent + 1, kind).id = sent + 1
    BY <2>3, FrameType DEF Piece
  <2>5. stream \in Seq(Pieces) /\ Taken \in Nat /\ 3 * Taken + Offset \in Nat
    BY Lens DEF Offset
  <2>6. CASE mode = "UDP_IN_UDP"
    <3>1. stream' = Append(stream, Piece("whole", sent + 1, kind))
      BY <1>3, <2>6 DEF ClientSends
    <3>2. UdpFlow(Taken, stream', sent')
      BY <2>1, <2>2, <2>4, <2>5, <2>6, <3>1, UdpNew DEF Flow
    <3> QED
      BY <1>1, <1>2, <2>1, <2>2, <2>6, <3>2 DEF Upwards, Flow
  <2>7. CASE mode # "UDP_IN_UDP"
    <3>1. PICK k \in IF Cuts THEN 1..3 ELSE {3} :
            /\ stream' = stream \o SubSeq(Frame(sent + 1, kind), 1, k)
            /\ rest' = SubSeq(Frame(sent + 1, kind), k + 1, 3)
      BY <1>3, <2>7, Zenon DEF ClientSends
    <3>2. 3 \in 1..3
      OBVIOUS
    <3>3. k \in 1..3
      BY <3>2, Zenon
    <3>4. TcpFlow(3 * Taken + Offset, stream', rest', sent')
      <4>1. TcpFlow(3 * Taken + Offset, stream, <<>>, sent)
        BY <2>1, <2>2, <2>7 DEF Flow
      <4> QED
        BY <2>1, <2>4, <2>5, <3>1, <3>3, <4>1, TcpNew
    <3> QED
      BY <1>1, <1>2, <2>1, <2>2, <2>7, <3>4 DEF Upwards, Flow
  <2> QED
    BY <2>6, <2>7
<1>4. CASE ClientGoesOn
  <2>1. /\ ~gone /\ rest # <<>> /\ sent' = sent
        /\ stream' = Append(stream, Head(rest)) /\ rest' = Tail(rest)
    BY <1>4 DEF ClientGoesOn
  <2>2. Counted /\ Flow /\ Ahead /\ mode # "UDP_IN_UDP"
    BY <2>1 DEF Upwards, Closing, ControlClosed, Severed, Quiet
  <2>3. /\ stream \in Seq(Pieces) /\ rest \in Seq(Pieces) /\ sent \in Nat
        /\ 3 * Taken + Offset \in Nat
    BY Lens DEF Offset
  <2>4. TcpFlow(3 * Taken + Offset, stream', rest', sent')
    BY <2>1, <2>2, <2>3, TcpMore DEF Flow
  <2> QED
    BY <1>1, <1>2, <2>1, <2>2, <2>4 DEF Upwards, Flow
<1>5. CASE ClientWrites \/ ClientCloses \/ UpstreamAnswers
  <2>1. UNCHANGED <<stream, rest, sent>> /\ (gone => UNCHANGED <<gone, ctl>>)
    BY <1>5 DEF ClientWrites, ClientCloses, UpstreamAnswers, envVars
  <2>2. Closing => Closing'
    BY <1>1, <2>1 DEF Closing, ControlClosed, loopVars
  <2>3. Flow => Flow'
    BY <1>1, <1>2, <2>1 DEF Flow
  <2>4. Severed => Severed'
    BY <1>1, <2>1 DEF Severed
  <2>5. Misread => Misread'
    BY <1>1, <1>2, <2>1 DEF Misread, loopVars
  <2>6. Spent => Spent'
    BY <1>1 DEF Spent, loopVars
  <2> QED
    BY <1>1, <1>2, <2>2, <2>3, <2>4, <2>5, <2>6 DEF Upwards
<1> QED
  BY <1>3, <1>4, <1>5 DEF Client

\* A step from one place of the forward direction to another.
LEMMA MovesForward ==
    ASSUME Counted, UNCHANGED up, Flow', Ahead'
    PROVE  Upwards'
BY DEF Upwards, Counted, Channel!UpTo

\* The forward direction ends with empty buffers, having read nothing more.
LEMMA EndsEmpty ==
    ASSUME TypeInv, Counted, Flow, UNCHANGED <<mode, up, stream, rest, sent>>,
           pc = "recvF", batch = <<>>, NEW r, EndF(r)
    PROVE  Upwards'
<1>1. pc' = "recvB" /\ Len(<<>>) = 0 /\ Len(up) \in Nat
  BY Lens DEF EndF
<1>2. Taken = Len(up) /\ Taken' = Len(up) /\ Offset = 0 /\ Offset' = 0
  BY <1>1 DEF Taken, Offset, Forward, Passing
<1>3. Flow' /\ Ahead'
  BY <1>1, <1>2 DEF Flow, Ahead, Forward, Passing
<1> QED
  BY <1>3, MovesForward

\* What a read that falls short leads to.
LEMMA ShortReads ==
    ASSUME Quiet, RecvRestOfHeader \/ RecvBody, stream = <<>>
    PROVE  /\ gone /\ mode # "UDP_IN_UDP" /\ pc \in {"restHead", "body"}
           /\ UNCHANGED <<mode, up, stream, rest, sent, gone>>
           /\ \/ \E r : EndF(r)
              \/ pc' = "pass" /\ batch' = batch
              \/ \E bytes \in Nat \ {0} : TakesForMessages(bytes)
<1>1. /\ mode # "UDP_IN_UDP" /\ pc \in {"restHead", "body"}
      /\ UNCHANGED <<mode, up, stream, rest, sent, gone>>
  BY DEF RecvRestOfHeader, RecvBody, Quiet, envVars
<1>2. ~(timeout >= 0)
  BY <1>1 DEF Quiet, ControlClosed
<1>3. gone
  BY <1>2 DEF RecvRestOfHeader, RecvBody
<1>4. CASE RecvRestOfHeader
  <2>1. \/ pc' = "pass" /\ batch' = batch
        \/ \E bytes \in 0..4 : ShortHeader(bytes)
    BY <1>2, <1>4 DEF RecvRestOfHeader
  <2>2. ASSUME NEW bytes \in 0..4, ShortHeader(bytes)
        PROVE  \/ \E r : EndF(r)
               \/ \E n \in Nat \ {0} : TakesForMessages(n)
    <3>1. CASE bytes = 0
      <4>1. EndF(-1)
        BY <2>2, <3>1 DEF ShortHeader
      <4> QED
        BY <4>1
    <3>2. CASE bytes # 0
      <4>1. bytes \in Nat \ {0} /\ bytes # -1
        BY <3>2
      <4>2. TakesForMessages(bytes)
        BY <2>2, <3>2, <4>1 DEF ShortHeader
      <4> QED
        BY <4>1, <4>2
    <3> QED
      BY <3>1, <3>2
  <2> QED
    BY <1>1, <1>3, <2>1, <2>2, Zenon
<1>5. CASE RecvBody
  <2>1. EndF(-1) \/ \E bytes \in 1..MaxBytes : TakesForMessages(bytes)
    BY <1>5 DEF RecvBody
  <2>2. 1..MaxBytes \subseteq Nat \ {0}
    BY Bounds
  <2> QED
    BY <1>1, <1>3, <2>1, <2>2, Zenon
<1> QED
  BY <1>4, <1>5

\* A frame that ends too early is the last thing that is read.
LEMMA ShortReadKeepsUpwards ==
    ASSUME TypeInv, Quiet, Counted, Flow, Ahead, RecvRestOfHeader \/ RecvBody, stream = <<>>
    PROVE  Upwards'
<1>1. /\ gone /\ mode # "UDP_IN_UDP" /\ pc \in {"restHead", "body"} /\ pc \in Forward
      /\ UNCHANGED <<mode, up, stream, rest, sent, gone>>
  BY ShortReads DEF Forward
<1>2. /\ Len(up) \in Nat /\ Len(batch) \in Nat /\ batch \in Seq(Messages) /\ sent \in Nat
      /\ Len(rest) \in Nat
  BY <1>1, Lens
<1>3. Offset \in {1, 2} /\ Taken = Len(up) + Len(batch) /\ Taken < sent
  <2>1. Offset \in {1, 2} /\ Taken = Len(up) + Len(batch)
    BY <1>1 DEF Offset, Taken
  <2> QED
    BY <1>1, <2>1, TakenIsSent
<1>4. Severed'
  <2>1. 3 * Taken + Offset + Len(stream) + Len(rest) = 3 * sent /\ Len(stream) = 0
    BY <1>1, EmptySeq DEF Flow, TcpFlow
  <2>2. Len(rest) # 0
    BY <1>2, <1>3, <2>1
  <2>3. rest # <<>>
    BY <2>2, EmptySeq
  <2> QED
    BY <1>1, <2>3 DEF Severed
<1>5. Counted'
  BY <1>1 DEF Counted, Channel!UpTo
<1>6. \A i \in 1..Len(batch) : batch[i].id = Len(up) + i
  BY <1>1 DEF Ahead
<1>7. ASSUME pc' = "pass", NEW f \in 0..Len(batch'), f <= Len(batch),
             \A i \in 1..Len(batch') : batch'[i].id = IF i <= f THEN Len(up) + i ELSE 0
      PROVE  Upwards'
  <2>1. Len(up) + f < sent
    <3>1. f \in Int
      OBVIOUS
    <3> QED
      BY <1>2, <1>3, <1>7, <3>1
  <2>2. Misread'
    BY <1>1, <1>5, <1>7, <2>1 DEF Misread
  <2> QED
    BY <1>4, <2>2 DEF Upwards
<1>8. CASE \E r : EndF(r)
  <2>1. Spent'
    BY <1>8 DEF EndF, Spent
  <2> QED
    BY <1>4, <2>1 DEF Upwards
<1>9. CASE pc' = "pass" /\ batch' = batch
  <2>1. Len(batch) \in 0..Len(batch') /\ Len(batch) <= Len(batch)
    BY <1>2, <1>9
  <2>2. \A i \in 1..Len(batch') : batch'[i].id = IF i <= Len(batch) THEN Len(up) + i ELSE 0
    BY <1>2, <1>6, <1>9
  <2> QED
    BY <1>7, <1>9, <2>1, <2>2
<1>10. ASSUME NEW bytes \in Nat \ {0}, TakesForMessages(bytes) PROVE Upwards'
  <2> DEFINE f == IF bytes <= Len(batch) THEN bytes ELSE Len(batch)
  <2>1. /\ pc' = "pass" /\ Len(batch') = bytes
        /\ \A i \in 1..bytes : batch'[i] = IF i <= Len(batch) THEN batch[i] ELSE Unset
    BY <1>2, <1>10, TakenForMessages
  <2>2. f \in 0..Len(batch') /\ f <= Len(batch)
    BY <1>2, <2>1
  <2>3. \A i \in 1..bytes : i <= f <=> i <= Len(batch)
    BY <1>2
  <2>4. \A i \in 1..bytes : i <= Len(batch) => i \in 1..Len(batch)
    BY <1>2
  <2> HIDE DEF f
  <2>5. ASSUME NEW i \in 1..bytes
        PROVE  batch'[i].id = IF i <= f THEN Len(up) + i ELSE 0
    <3>1. CASE i <= Len(batch)
      <4>1. batch'[i] = batch[i] /\ batch[i].id = Len(up) + i /\ i <= f
        BY <1>6, <2>1, <2>3, <2>4, <3>1
      <4> QED
        BY <4>1
    <3>2. CASE ~(i <= Len(batch))
      <4>1. batch'[i] = Unset /\ ~(i <= f)
        BY <2>1, <2>3, <3>2
      <4> QED
        BY <4>1, UnsetType
    <3> QED
      BY <3>1, <3>2
  <2> QED
    BY <1>7, <2>1, <2>2, <2>5
<1> QED
  BY <1>8, <1>9, <1>10, ShortReads

\* Behind the end of the stream there is nothing.
LEMMA NothingBehind ==
    ASSUME TypeInv, Severed, Spent, RecvHeader \/ RecvRestOfHeader \/ RecvBody
    PROVE  Upwards'
<1>1. RecvHeader /\ batch = <<>> /\ stream = <<>> /\ UNCHANGED <<mode, gone, rest>>
  BY DEF RecvHeader, RecvRestOfHeader, RecvBody, Spent, Severed, envVars
<1>2. ~Full
  <2>1. Len(batch) = 0 /\ Num # 0
    BY <1>1, EmptySeq, Bounds
  <2> QED
    BY <2>1 DEF Full
<1>3. NoHeader /\ stream' = stream
  BY <1>1, <1>2 DEF RecvHeader
<1>4. pc' = "recvB"
  BY <1>1, <1>3 DEF NoHeader, EndF
<1> QED
  BY <1>1, <1>3, <1>4 DEF Upwards, Severed, Spent

\* On a stream: what is next is what the place says.
LEMMA StreamKeepsUpwards ==
    ASSUME Calm, TypeInv, Quiet, Counted, Flow, Ahead,
           \/ RecvHeader
           \/ (RecvRestOfHeader \/ RecvBody) /\ stream # <<>>
    PROVE  Upwards'
<1> DEFINE k == Len(up) + Len(batch)
<1>1. /\ mode # "UDP_IN_UDP" /\ UNCHANGED <<mode, up, sent, rest>>
      /\ pc \in {"recvF", "restHead", "body"}
  BY DEF RecvHeader, RecvRestOfHeader, RecvBody, Quiet, envVars
<1>2. /\ stream \in Seq(Pieces) /\ rest \in Seq(Pieces) /\ batch \in Seq(Messages)
      /\ Len(stream) \in Nat /\ Len(rest) \in Nat /\ Len(batch) \in Nat /\ Len(up) \in Nat
      /\ sent \in Nat /\ k \in Nat
  BY <1>1, Lens DEF Forward
<1>3. Taken = k
  BY <1>1 DEF Taken, Forward
<1>4. TcpFlow(3 * k + Offset, stream, rest, sent)
  BY <1>1, <1>3 DEF Flow
<1> HIDE DEF k
<1>6. ASSUME NEW kind, CheckHeader(kind), NEW p \in Pieces, kind = p.kind
      PROVE  pc' = "body" /\ batch' = batch
  <2>1. kind = "fits"
    BY <1>6 DEF Pieces, Calm
  <2> QED
    BY <1>6, <2>1 DEF CheckHeader
\* The buffers are as they were, and so many pieces were read.
<1>7. ASSUME NEW o \in 0..2, TcpFlow(3 * k + o, stream', rest, sent), batch' = batch,
             pc' \in Forward,
             o = 0 <=> pc' \in {"recvF", "pass"}, o = 1 <=> pc' = "restHead", o = 2 <=> pc' = "body"
      PROVE  Upwards'
  <2>1. Taken' = k /\ Offset' = o
    BY <1>1, <1>7 DEF Taken, Offset, k
  <2>2. Flow'
    BY <1>1, <1>7, <2>1 DEF Flow
  <2>3. Ahead'
    BY <1>1, <1>7 DEF Ahead, Forward
  <2> QED
    BY <1>1, <2>2, <2>3, MovesForward
<1>8. CASE RecvHeader
  <2>1. pc = "recvF" /\ Offset = 0 /\ 3 * k \in Nat /\ Num \in Nat \ {0}
    BY <1>2, <1>8, Bounds DEF RecvHeader, Offset
  <2>2. TcpFlow(3 * k, stream, rest, sent)
    BY <1>2, <1>4, <2>1
  <2>3. CASE Full
    <3>1. pc' = "pass" /\ batch' = batch /\ stream' = stream
      BY <1>8, <2>3 DEF RecvHeader
    <3> QED
      BY <1>2, <1>7, <2>1, <2>2, <3>1 DEF Forward, Passing
  <2>4. CASE ~Full /\ stream = <<>>
    <3>1. stream' = stream /\ NoHeader
      BY <1>8, <2>4 DEF RecvHeader
    <3>2. CASE batch # <<>>
      <4>1. pc' = "pass" /\ batch' = batch
        BY <3>1, <3>2 DEF NoHeader
      <4> QED
        BY <1>2, <1>7, <2>1, <2>2, <3>1, <4>1 DEF Forward, Passing
    <3>3. CASE batch = <<>>
      <4>1. PICK r : EndF(r)
        BY <3>1, <3>3 DEF NoHeader
      <4>2. UNCHANGED <<mode, up, stream, rest, sent>>
        BY <1>1, <3>1
      <4> QED
        BY <2>1, <3>3, <4>1, <4>2, EndsEmpty, Zenon
    <3> QED
      BY <3>2, <3>3
  <2>5. CASE ~Full /\ stream # <<>>
    <3>1. /\ TcpFlow(3 * k + 1, Tail(stream), rest, sent)
          /\ Head(stream) \in Pieces /\ Head(stream).part # "whole"
          /\ Pos(Head(stream)) = 3 * k + 0 + 3
      BY <1>2, <2>1, <2>2, <2>5, TcpTake
    <3>2. Head(stream).part = "start"
      BY <1>2, <3>1, PosOf
    <3>3. CASE Len(stream) > 1
      <4>1. stream' = SubSeq(stream, 3, Len(stream)) /\ CheckHeader(Head(stream).kind)
        BY <1>8, <2>5, <3>2, <3>3 DEF RecvHeader
      <4>2. TcpFlow(3 * k + 2, stream', rest, sent)
        BY <1>2, <2>1, <2>2, <3>3, <4>1, TcpTakeTwo
      <4>3. pc' = "body" /\ batch' = batch
        BY <1>6, <3>1, <4>1
      <4> QED
        BY <1>7, <4>2, <4>3 DEF Forward
    <3>4. CASE ~(Len(stream) > 1)
      <4>1. stream' = <<>> /\ pc' = "restHead" /\ batch' = batch
        BY <1>8, <2>5, <3>2, <3>4 DEF RecvHeader
      <4>2. Tail(stream) = <<>>
        <5>1. Tail(stream) \in Seq(Pieces) /\ Len(Tail(stream)) = Len(stream) - 1
          BY <1>2, <2>5, HeadTailProperties
        <5>2. Len(Tail(stream)) \in Nat
          BY <5>1, LenProperties
        <5>3. Len(Tail(stream)) \notin Nat \ {0}
          BY <1>2, <3>4, <5>1
        <5> QED
          BY <5>1, <5>2, <5>3, EmptySeq
      <4>3. TcpFlow(3 * k + 1, stream', rest, sent)
        BY <3>1, <4>1, <4>2
      <4> QED
        BY <1>7, <4>1, <4>3 DEF Forward
    <3> QED
      BY <3>3, <3>4
  <2> QED
    BY <2>3, <2>4, <2>5
<1>10. CASE RecvRestOfHeader
  <2>1. pc = "restHead" /\ Offset = 1
    BY <1>10 DEF RecvRestOfHeader, Offset
  <2>2. /\ stream # <<>> /\ stream' = Tail(stream) /\ CheckHeader(Head(stream).kind)
    BY <1>10, <2>1 DEF RecvRestOfHeader, RecvHeader
  <2>3. 3 * k + 1 \in Nat /\ TcpFlow(3 * k + 1, stream, rest, sent)
    BY <1>2, <1>4, <2>1
  <2>4. TcpFlow(3 * k + 1 + 1, Tail(stream), rest, sent) /\ Head(stream) \in Pieces
    BY <1>2, <2>2, <2>3, TcpTake
  <2>5. TcpFlow(3 * k + 2, stream', rest, sent)
    BY <1>2, <2>2, <2>4
  <2>6. pc' = "body" /\ batch' = batch
    BY <1>6, <2>2, <2>4
  <2> QED
    BY <1>7, <2>5, <2>6 DEF Forward
<1>11. CASE RecvBody
  <2>1. pc = "body" /\ Offset = 2
    BY <1>11 DEF RecvBody, Offset
  <2>2. /\ stream # <<>> /\ stream' = Tail(stream) /\ batch' = Append(batch, Head(stream))
        /\ pc' = "recvF"
    BY <1>11, <2>1 DEF RecvBody, RecvHeader
  <2>3. 3 * k + 2 \in Nat /\ TcpFlow(3 * k + 2, stream, rest, sent)
    BY <1>2, <1>4, <2>1
  <2>4. /\ TcpFlow(3 * k + 2 + 1, Tail(stream), rest, sent)
        /\ Head(stream) \in Pieces /\ Head(stream).part # "whole"
        /\ Pos(Head(stream)) = 3 * k + 2 + 3
    BY <1>2, <2>2, <2>3, TcpTake
  <2>5. Head(stream).id = k + 1
    BY <1>2, <2>4, PosOf
  <2>6. /\ Len(batch') = Len(batch) + 1 /\ batch'[Len(batch) + 1] = Head(stream)
        /\ \A i \in 1..Len(batch) : batch'[i] = batch[i]
    <3>1. Head(stream) \in Messages
      BY <2>4 DEF Messages
    <3> HIDE DEF Messages
    <3> QED
      BY <1>2, <2>2, <3>1, AppendProperties
  <2>7. Taken' = k + 1 /\ Offset' = 0 /\ 3 * k + 2 + 1 = 3 * (k + 1) + 0
    BY <1>1, <1>2, <2>2, <2>6 DEF Taken, Offset, Forward, k
  <2>8. Flow'
    <3>1. TcpFlow(3 * Taken' + Offset', Tail(stream), rest, sent)
      BY <2>4, <2>7
    <3> QED
      BY <1>1, <2>2, <3>1 DEF Flow
  <2>9. Ahead'
    <3> SUFFICES ASSUME NEW i \in 1..Len(batch') PROVE batch'[i].id = Len(up) + i
      BY <1>1 DEF Ahead
    <3>1. CASE i \in 1..Len(batch)
      BY <1>1, <2>6, <3>1 DEF Ahead, Forward
    <3>2. CASE i = Len(batch) + 1
      BY <1>2, <2>5, <2>6, <3>2 DEF k
    <3> QED
      BY <1>2, <2>6, <3>1, <3>2
  <2> QED
    BY <1>1, <2>8, <2>9, MovesForward
<1> QED
  BY <1>8, <1>10, <1>11

\* Datagrams, into empty buffers.
LEMMA DatagramsKeepUpwards ==
    ASSUME Calm, TypeInv, Quiet, Counted, Flow, Ahead, RecvDatagrams
    PROVE  Upwards'
<1> DEFINE n == IF Len(stream) < Num THEN Len(stream) ELSE Num
           got == SubSeq(stream, 1, n)
           filled == [i \in DOMAIN got |-> Received(got[i])]
<1>1. /\ mode = "UDP_IN_UDP" /\ pc = "recvF" /\ UNCHANGED <<mode, up, sent, rest>>
      /\ batch = <<>>
  BY DEF RecvDatagrams, Quiet, envVars
<1>2. /\ stream \in Seq(Pieces) /\ Len(stream) \in Nat /\ Len(up) \in Nat /\ sent \in Nat
      /\ Num \in Nat \ {0}
  BY Lens, Bounds
<1>3. Taken = Len(up)
  <2>1. Len(<<>>) = 0
    OBVIOUS
  <2> QED
    BY <1>1, <1>2, <2>1 DEF Taken, Forward
<1>4. n \in 0..Len(stream)
  BY <1>2
<1>5. /\ got \in Seq(Pieces) /\ Len(got) = n
      /\ \A i \in 1..n : got[i] = stream[i]
  <2> HIDE DEF n
  <2> QED
    BY <1>2, <1>4, Prefix
<1>6. stream' = SubSeq(stream, n + 1, Len(stream))
  BY DEF RecvDatagrams
<1>7. /\ UdpFlow(Len(up) + n, SubSeq(stream, n + 1, Len(stream)), sent)
      /\ \A i \in 1..n : stream[i].id = Len(up) + i
  <2> HIDE DEF n
  <2>1. UdpFlow(Len(up), stream, sent)
    BY <1>1, <1>3 DEF Flow
  <2> QED
    BY <1>2, <1>4, <2>1, UdpTake
\* Each is one that the relay can pass on.
<1>8. \A i \in 1..n : got[i].kind = "fits" /\ Received(got[i]) = got[i]
  <2> HIDE DEF got, n
  <2> SUFFICES ASSUME NEW i \in 1..n
               PROVE  got[i].kind = "fits" /\ Received(got[i]) = got[i]
    OBVIOUS
  <2>1. got[i] \in Pieces
    BY <1>5, ElementOfSeq
  <2>2. got[i].kind = "fits"
    BY <2>1 DEF Pieces, Calm
  <2> QED
    BY <2>2 DEF Received
<1>9. DOMAIN got = 1..n
  BY <1>5, LenProperties
<1>10. \/ n = 0 /\ EndF(0)
       \/ n > 0 /\ pc' = "pass" /\ batch' = filled
  <2>1. \/ n = 0 /\ EndF(0)
        \/ n > 0 /\ Breaks /\ EndF(-1)
        \/ n > 0 /\ \E i \in DOMAIN got : got[i].kind = "bad"
        \/ n > 0 /\ pc' = "pass" /\ batch' = filled
    <3> HIDE DEF filled
    <3> QED
      BY DEF RecvDatagrams, filled
  <2>2. Breaks = FALSE
    BY DEF Calm
  <2> HIDE DEF got, n, filled
  <2>3. ~\E i \in DOMAIN got : got[i].kind = "bad"
    BY <1>8, <1>9
  <2> QED
    BY <2>1, <2>2, <2>3, Zenon
<1> HIDE DEF n, got
<1>11. CASE n = 0 /\ EndF(0)
  <2>1. SubSeq(stream, n + 1, Len(stream)) = stream
    <3>1. SubSeq(stream, 1, Len(stream)) = stream
      BY <1>2, SubSeqFull
    <3> QED
      BY <1>11, <3>1
  <2> QED
    BY <1>1, <1>3, <1>6, <1>11, <2>1, EndsEmpty
<1>12. CASE n > 0 /\ pc' = "pass" /\ batch' = filled
  <2>1. DOMAIN batch' = 1..n /\ \A i \in 1..n : batch'[i].id = Len(up) + i
    <3>1. \A i \in 1..n : filled[i] = got[i]
      BY <1>8, <1>9
    <3>2. DOMAIN filled = 1..n
      BY <1>9
    <3> HIDE DEF filled
    <3> QED
      BY <1>5, <1>7, <1>12, <3>1, <3>2
  <2>2. Len(batch') = n
    <3>1. filled = [i \in 1..n |-> Received(got[i])]
      BY <1>9
    <3>2. Len(filled) = n
      BY <1>2, <1>4, <3>1
    <3> QED
      BY <1>12, <3>2
  <2>3. Taken' = Len(up) + n /\ Offset' = 0
    BY <1>1, <1>12, <2>2 DEF Taken, Offset, Forward, Passing
  <2>4. Flow'
    BY <1>1, <1>6, <1>7, <2>3 DEF Flow
  <2>5. Ahead'
    BY <1>1, <1>12, <2>1, <2>2 DEF Ahead
  <2> QED
    BY <1>1, <2>4, <2>5, MovesForward
<1> QED
  BY <1>10, <1>11, <1>12

LEMMA PassingOnKeepsUpwards ==
    ASSUME Calm, TypeInv, Upwards, PassOn
    PROVE  Upwards'
<1>1. pc = "pass" /\ UNCHANGED <<mode, gone, up, sent, stream, rest>> /\ pc \in Forward
  BY DEF PassOn, envVars, Forward, Passing
<1>2. batch \in Seq(Messages)
  BY <1>1, Lens
<1>3. CASE Counted /\ Flow /\ Ahead
  <2>1. \A i \in DOMAIN batch : batch[i].kind = "fits"
    <3> SUFFICES ASSUME NEW i \in DOMAIN batch PROVE batch[i].kind = "fits"
      OBVIOUS
    <3>1. i \in 1..Len(batch)
      BY <1>2, LenProperties
    <3>2. batch[i] \in Pieces
      BY <1>1, <1>3, <3>1, AheadAreSet
    <3> QED
      BY <3>2 DEF Pieces, Calm
  <2>2. pc' = "sendF" /\ batch' = batch
    BY <2>1 DEF PassOn, Calm
  <2>3. Taken' = Taken /\ Offset' = Offset
    BY <1>1, <2>2 DEF Taken, Offset, Forward, Passing
  <2>4. Flow' /\ Ahead'
    BY <1>1, <1>3, <2>2, <2>3 DEF Flow, Ahead, Forward, Passing
  <2> QED
    BY <1>1, <1>3, <2>4, MovesForward
<1>4. CASE Severed /\ Misread
  <2>1. Severed'
    BY <1>1, <1>4 DEF Severed
  <2>2. pc' \in {"recvB", "crash"} \/ (pc' = "sendF" /\ batch' = batch)
    BY DEF PassOn, EndF
  <2>3. CASE pc' \in {"recvB", "crash"}
    BY <2>1, <2>3 DEF Upwards, Spent
  <2>4. CASE pc' = "sendF" /\ batch' = batch
    <3>1. Counted'
      BY <1>1, <1>4 DEF Misread, Counted, Channel!UpTo
    <3>2. Misread'
      BY <1>1, <1>4, <2>4, <3>1 DEF Misread
    <3> QED
      BY <2>1, <3>2 DEF Upwards
  <2> QED
    BY <2>2, <2>3, <2>4
<1> QED
  BY <1>1, <1>3, <1>4 DEF Upwards, Closing, Spent

\* What goes on counting is all that came before and what is added.
LEMMA CountsOn ==
    ASSUME NEW s \in Seq(Nat), NEW b \in Seq(Nat),
           s = Channel!UpTo(Len(s)), \A i \in 1..Len(b) : b[i] = Len(s) + i
    PROVE  /\ s \o b \in Seq(Nat) /\ Len(s \o b) = Len(s) + Len(b)
           /\ s \o b = Channel!UpTo(Len(s) + Len(b))
<1> DEFINE t == s \o b
           m == Len(s) + Len(b)
           u == Channel!UpTo(m)
<1>1. Len(s) \in Nat /\ Len(b) \in Nat /\ m \in Nat
  OBVIOUS
<1>2. /\ t \in Seq(Nat) /\ Len(t) = Len(s) + Len(b)
      /\ \A i \in 1..(Len(s) + Len(b)) : t[i] = IF i <= Len(s) THEN s[i] ELSE b[i - Len(s)]
  BY ConcatProperties
<1>3. u \in Seq(Nat) /\ Len(u) = m /\ \A i \in 1..m : u[i] = i
  <2>1. u = [i \in 1..m |-> i]
    BY DEF Channel!UpTo
  <2> HIDE DEF u, m
  <2> QED
    BY <1>1, <2>1
<1>4. \A i \in 1..Len(s) : s[i] = i
  <2>1. Channel!UpTo(Len(s)) = [i \in 1..Len(s) |-> i]
    BY DEF Channel!UpTo
  <2>2. \A i \in 1..Len(s) : Channel!UpTo(Len(s))[i] = i
    BY <2>1
  <2> QED
    BY <2>2, Zenon
<1> HIDE DEF t, u
<1>5. \A i \in 1..Len(t) : t[i] = u[i]
  <2> SUFFICES ASSUME NEW i \in 1..Len(t) PROVE t[i] = u[i]
    OBVIOUS
  <2>1. CASE i <= Len(s)
    <3>1. i \in 1..Len(s) /\ i \in 1..m /\ i \in 1..(Len(s) + Len(b))
      BY <1>1, <1>2, <2>1
    <3>2. t[i] = s[i]
      BY <1>2, <2>1, <3>1
    <3>3. u[i] = i /\ s[i] = i
      BY <1>3, <1>4, <3>1
    <3> QED
      BY <3>2, <3>3
  <2>2. CASE ~(i <= Len(s))
    <3>1. i - Len(s) \in 1..Len(b) /\ i \in 1..m /\ i \in 1..(Len(s) + Len(b))
          /\ Len(s) + (i - Len(s)) = i
      BY <1>1, <1>2, <2>2
    <3>2. t[i] = b[i - Len(s)]
      BY <1>2, <2>2, <3>1
    <3>3. b[i - Len(s)] = Len(s) + (i - Len(s))
      BY <3>1
    <3> QED
      BY <1>3, <3>1, <3>2, <3>3
  <2> QED
    BY <2>1, <2>2
<1>6. Len(t) = Len(u)
  BY <1>2, <1>3
<1>7. t = u
  BY <1>2, <1>3, <1>5, <1>6, SeqEqual
<1> QED
  BY <1>2, <1>7 DEF t, u

\* Packets that are counted are packets.
LEMMA CountedIsPure ==
    ASSUME Counted
    PROVE  Channel!Pure
<1>1. \A i \in DOMAIN Channel!UpTo(Len(up)) : Channel!UpTo(Len(up))[i] # 0
  BY DEF Channel!UpTo
<1> QED
  BY <1>1, Zenon DEF Counted, Channel!Pure, Channel!NoMessage

\* What follows of a count that is followed by nothing but empty messages.
LEMMA CountsOff ==
    ASSUME NEW s \in Seq(Nat), NEW b \in Seq(Nat), s = Channel!UpTo(Len(s)), NEW f \in 0..Len(b),
           \A i \in 1..Len(b) : b[i] = IF i <= f THEN Len(s) + i ELSE 0
    PROVE  /\ Len(s \o b) = Len(s) + Len(b)
           /\ s \o b = [i \in 1..Len(s \o b) |-> IF i <= Len(s) + f THEN i ELSE 0]
<1> DEFINE t == s \o b
           m == Len(s) + f
<1>1. Len(s) \in Nat /\ Len(b) \in Nat /\ m \in Nat /\ f \in Nat
  OBVIOUS
<1>2. /\ t \in Seq(Nat) /\ Len(t) = Len(s) + Len(b)
      /\ \A i \in 1..(Len(s) + Len(b)) : t[i] = IF i <= Len(s) THEN s[i] ELSE b[i - Len(s)]
  BY ConcatProperties
<1>3. \A i \in 1..Len(s) : s[i] = i
  <2>1. Channel!UpTo(Len(s)) = [i \in 1..Len(s) |-> i]
    BY DEF Channel!UpTo
  <2>2. \A i \in 1..Len(s) : Channel!UpTo(Len(s))[i] = i
    BY <2>1
  <2> QED
    BY <2>2, Zenon
<1> HIDE DEF t, m
<1>4. ASSUME NEW i \in 1..Len(t) PROVE t[i] = IF i <= m THEN i ELSE 0
  <2>1. CASE i <= Len(s)
    <3>1. i \in 1..Len(s) /\ i \in 1..(Len(s) + Len(b)) /\ i <= m
      BY <1>1, <1>2, <2>1 DEF m
    <3> QED
      BY <1>2, <1>3, <2>1, <3>1
  <2>2. CASE ~(i <= Len(s))
    <3>1. /\ i - Len(s) \in 1..Len(b) /\ i \in 1..(Len(s) + Len(b))
          /\ Len(s) + (i - Len(s)) = i /\ (i <= m <=> i - Len(s) <= f)
      BY <1>1, <1>2, <2>2 DEF m
    <3>2. t[i] = b[i - Len(s)]
      BY <1>2, <2>2, <3>1
    <3>3. b[i - Len(s)] = IF i - Len(s) <= f THEN i ELSE 0
      BY <3>1
    <3> QED
      BY <3>1, <3>2, <3>3
  <2> QED
    BY <2>1, <2>2
<1>5. t = [i \in 1..Len(t) |-> IF i <= m THEN i ELSE 0]
  <2> DEFINE u == [i \in 1..Len(t) |-> t[i]]
             v == [i \in 1..Len(t) |-> IF i <= m THEN i ELSE 0]
  <2>1. t = u
    BY <1>2, LenProperties
  <2>2. u = v
    BY <1>4, Zenon
  <2> QED
    BY <2>1, <2>2, Zenon
<1> QED
  BY <1>2, <1>5 DEF t, m

\* What a send changes and what it leaves.
LEMMA SendChanges ==
    ASSUME Calm, TypeInv, Quiet, NEW n \in 0..Len(batch), SendF(n)
    PROVE  /\ pc = "sendF" /\ pc' = "recvB" /\ pc \in Forward /\ n \in Nat
           /\ UNCHANGED <<mode, gone, sent, answered, stream, rest, back>>
           /\ up' = up \o [i \in 1..n |-> batch[i].id]
           /\ batch \in Seq(Messages) /\ Len(batch) \in Nat /\ n <= Len(batch)
           /\ up \in Seq(Nat) /\ Len(up) \in Nat /\ sent \in Nat
           /\ n < Len(batch) => batch[n + 1].kind = "unset" \/ Closing'
<1>1. /\ pc = "sendF" /\ pc' = "recvB" /\ pc \in Forward
      /\ UNCHANGED <<mode, gone, sent, answered, stream, rest, back>>
      /\ up' = up \o [i \in 1..n |-> batch[i].id]
  BY DEF SendF, EndF, envVars, Forward, Passing
<1>2. /\ batch \in Seq(Messages) /\ Len(batch) \in Nat /\ n \in Nat /\ n <= Len(batch)
      /\ up \in Seq(Nat) /\ Len(up) \in Nat /\ sent \in Nat
  <2>1. batch \in Seq(Messages) /\ Len(batch) \in Nat
    BY <1>1, Lens
  <2> QED
    BY <2>1, Lens
<1>3. ASSUME WaitFails PROVE Closing'
  <2>1. ctl \in Nat
    BY Bounds DEF TypeInv, Plain
  <2>2. ControlClosed'
    BY <1>1, <1>3, <2>1 DEF WaitFails, WaitEnds, Quiet, ControlClosed
  <2> QED
    BY <1>1, <2>2 DEF Closing
<1>4. n < Len(batch) => batch[n + 1].kind = "unset" \/ WaitFails
  BY DEF SendF, Calm
<1> QED
  BY <1>1, <1>2, <1>3, <1>4

\* A send upstream sends the next packets, in order.
LEMMA SendsTheNext ==
    ASSUME Calm, TypeInv, Quiet, Counted, Flow, Ahead, NEW n \in 0..Len(batch), SendF(n)
    PROVE  Upwards' /\ (Channel!Next \/ UNCHANGED Channel!vars)
<1> DEFINE ids == [i \in 1..n |-> batch[i].id]
<1>1. /\ pc = "sendF" /\ UNCHANGED <<mode, gone, sent, answered, stream, rest, back>>
      /\ n <= Len(batch) /\ n \in Nat /\ pc' = "recvB" /\ pc \in Forward
      /\ up' = up \o ids
  BY SendChanges
<1>2. /\ Len(batch) \in Nat /\ up \in Seq(Nat) /\ Len(up) \in Nat /\ sent \in Nat
  BY SendChanges
<1>3. Taken = Len(up) + Len(batch) /\ Offset = 0
  BY <1>1 DEF Taken, Offset
<1>4. \A i \in 1..Len(batch) : batch[i].id = Len(up) + i
  BY <1>1 DEF Ahead
<1>5. ids \in Seq(Nat) /\ Len(ids) = n /\ \A i \in 1..n : ids[i] = Len(up) + i
  <2>1. \A i \in 1..n : i \in 1..Len(batch)
    BY <1>1, <1>2
  <2>2. \A i \in 1..n : batch[i].id = Len(up) + i
    BY <1>4, <2>1
  <2>3. \A i \in 1..n : Len(up) + i \in Nat
    BY <1>2
  <2> QED
    BY <1>1, <2>2, <2>3
<1> HIDE DEF ids
<1>6. up' \in Seq(Nat) /\ Len(up') = Len(up) + n /\ up' = Channel!UpTo(Len(up) + n)
  <2>1. up = Channel!UpTo(Len(up))
    BY DEF Counted
  <2> QED
    BY <1>1, <1>2, <1>5, <2>1, CountsOn
<1>7. Counted'
  <2>1. Channel!UpTo(Len(up))' = Channel!UpTo(Len(up'))
    BY DEF Channel!UpTo
  <2> QED
    BY <1>6, <2>1 DEF Counted
<1>8. Upwards'
  <2>1. CASE n = Len(batch)
    <3>1. Taken' = Taken /\ Offset' = Offset
      BY <1>1, <1>2, <1>3, <1>6, <2>1 DEF Taken, Offset, Forward, Passing
    <3>2. Flow' /\ Ahead'
      BY <1>1, <3>1 DEF Flow, Ahead, Forward, Passing
    <3> QED
      BY <1>7, <3>2 DEF Upwards
  <2>2. CASE n # Len(batch)
    <3>1. n < Len(batch) /\ n + 1 \in 1..Len(batch)
      BY <1>1, <1>2, <2>2
    <3>2. batch[n + 1].kind # "unset"
      <4>1. batch[n + 1] \in Pieces
        BY <1>1, <3>1, AheadAreSet
      <4> QED
        BY <4>1, PiecesAreSet, Zenon
    <3> QED
      BY <3>1, <3>2, SendChanges DEF Upwards
  <2> QED
    BY <2>1, <2>2
<1>9. Channel!Next \/ UNCHANGED Channel!vars
  <2>1. CASE n = 0
    <3>1. up' = up
      BY <1>2, <1>6, <2>1 DEF Counted
    <3> QED
      BY <1>1, <3>1 DEF Channel!vars
  <2>2. CASE n # 0
    <3>1. Len(up) + n \in (Len(up) + 1)..Channel!Complete
      <4>1. Taken <= sent /\ (rest # <<>> => Taken < sent)
        BY TakenIsSent
      <4>2. Len(up) + n <= Channel!Complete /\ Channel!Complete \in Int
        <5>1. CASE gone /\ rest # <<>>
          <6>1. Channel!Complete = sent - 1
            BY <5>1 DEF Channel!Complete
          <6> QED
            BY <1>1, <1>2, <1>3, <4>1, <5>1, <6>1
        <5>2. CASE ~(gone /\ rest # <<>>)
          <6>1. Channel!Complete = sent
            BY <5>2 DEF Channel!Complete
          <6> QED
            BY <1>1, <1>2, <1>3, <4>1, <6>1
        <5> QED
          BY <5>1, <5>2
      <4> QED
        BY <1>1, <1>2, <2>2, <4>2
    <3>2. Channel!PassOn
      BY <1>1, <1>6, <3>1, CountedIsPure DEF Channel!PassOn
    <3> QED
      BY <3>2 DEF Channel!Next
  <2> QED
    BY <2>1, <2>2
<1> QED
  BY <1>8, <1>9

\* A send after a frame that was cut short sends whole packets, then what
\* nobody sent, and is the last one.
LEMMA SendsTheLast ==
    ASSUME Calm, TypeInv, Quiet, Severed, Misread, NEW n \in 0..Len(batch), SendF(n)
    PROVE  Upwards' /\ (Channel!Next \/ UNCHANGED Channel!vars)
<1> DEFINE ids == [i \in 1..n |-> batch[i].id]
<1>1. /\ pc = "sendF" /\ UNCHANGED <<mode, gone, sent, answered, stream, rest, back>>
      /\ n <= Len(batch) /\ n \in Nat /\ pc' = "recvB"
      /\ up' = up \o ids
  BY SendChanges
<1>2. /\ Len(batch) \in Nat /\ up \in Seq(Nat) /\ Len(up) \in Nat /\ sent \in Nat
  BY SendChanges
<1>3. Upwards'
  BY <1>1 DEF Severed, Spent, Upwards
<1>4. PICK f \in 0..Len(batch) :
        /\ Len(up) + f < sent
        /\ \A i \in 1..Len(batch) : batch[i].id = IF i <= f THEN Len(up) + i ELSE 0
  BY DEF Misread
<1>5. Counted /\ up = Channel!UpTo(Len(up)) /\ Channel!Pure
  BY CountedIsPure DEF Misread, Counted
<1>6. /\ ids \in Seq(Nat) /\ Len(ids) = n
      /\ \A i \in 1..n : ids[i] = IF i <= f THEN Len(up) + i ELSE 0
  <2>1. \A i \in 1..n : i \in 1..Len(batch)
    BY <1>1, <1>2
  <2>2. \A i \in 1..n : batch[i].id = IF i <= f THEN Len(up) + i ELSE 0
    BY <1>4, <2>1
  <2>3. \A i \in 1..n : batch[i].id \in Nat
    BY <1>2, <2>2
  <2> QED
    BY <1>1, <2>2, <2>3
<1> HIDE DEF ids
<1>7. Channel!Complete = sent - 1
  BY DEF Severed, Channel!Complete
<1>8. f \in Nat
  BY <1>2
<1>9. CASE n <= f
  <2>1. \A i \in 1..n : i <= f /\ ids[i] = Len(up) + i
    BY <1>1, <1>6, <1>8, <1>9
  <2>2. up' = Channel!UpTo(Len(up) + n)
    BY <1>1, <1>2, <1>5, <1>6, <2>1, CountsOn
  <2>3. CASE n = 0
    <3>1. up' = up
      BY <1>2, <1>5, <2>2, <2>3
    <3> QED
      BY <1>1, <1>3, <3>1 DEF Channel!vars
  <2>4. CASE n # 0
    <3>1. Len(up) + n \in (Len(up) + 1)..Channel!Complete
      BY <1>1, <1>2, <1>4, <1>7, <1>8, <1>9, <2>4
    <3>2. Channel!PassOn
      BY <1>1, <1>5, <2>2, <3>1 DEF Channel!PassOn
    <3> QED
      BY <1>3, <3>2 DEF Channel!Next
  <2> QED
    BY <2>3, <2>4
<1>10. CASE ~(n <= f)
  <2>1. f \in 0..n /\ n > f
    BY <1>1, <1>8, <1>10
  <2>2. /\ Len(up') = Len(up) + n
        /\ up' = [i \in 1..Len(up') |-> IF i <= Len(up) + f THEN i ELSE 0]
    BY <1>1, <1>2, <1>5, <1>6, <2>1, CountsOff
  <2>3. Len(up) + f \in Len(up)..Channel!Complete /\ Len(up') > Len(up) + f
    BY <1>1, <1>2, <1>4, <1>7, <1>8, <2>1, <2>2
  <2>4. up' = [i \in 1..Len(up') |-> IF i <= Len(up) + f THEN i ELSE Channel!NoMessage]
    BY <2>2, Zenon DEF Channel!NoMessage
  <2>5. gone /\ rest # <<>>
    BY DEF Severed
  <2>6. Channel!MakeUp
    BY <1>1, <1>5, <2>3, <2>4, <2>5 DEF Channel!MakeUp
  <2> QED
    BY <1>3, <2>6 DEF Channel!Next
<1> QED
  BY <1>9, <1>10

\* In the round that ends the relay nothing is sent upstream any more.
LEMMA SendsOne ==
    ASSUME Calm, TypeInv, Quiet, Upwards, NEW n \in 0..Len(batch), SendF(n)
    PROVE  Upwards' /\ (Channel!Next \/ UNCHANGED Channel!vars)
<1>1. pc = "sendF"
  BY SendChanges
<1> QED
  BY <1>1, SendsTheNext, SendsTheLast DEF Upwards, Closing, Spent

LEMMA UpwardsStep ==
    ASSUME Calm, TypeInv, Quiet, Upwards, [Next]_vars
    PROVE  Upwards'
<1>0. ASSUME Loop PROVE ctl' \in 0..ctl
  BY <1>0, LoopFlags
<1>1. CASE Client \/ UpstreamAnswers
  BY <1>1, EnvironmentKeepsUpwards
<1>2. CASE SkipF
  <2>1. /\ pc = "recvF" /\ batch = <<>> /\ EndF(resF)
        /\ UNCHANGED <<mode, gone, up, stream, rest, sent>>
    BY <1>2 DEF SkipF, Quiet, envVars
  <2>2. CASE Counted /\ Flow /\ Ahead
    BY <2>1, <2>2, EndsEmpty
  <2>3. CASE Severed
    <3>1. Severed' /\ Spent'
      BY <2>1, <2>3 DEF Severed, Spent, EndF
    <3> QED
      BY <3>1 DEF Upwards
  <2> QED
    BY <2>1, <2>2, <2>3 DEF Upwards, Closing
<1>3. CASE RecvHeader \/ RecvRestOfHeader \/ RecvBody
  <2>1. pc \in {"recvF", "restHead", "body"}
    BY <1>3 DEF RecvHeader, RecvRestOfHeader, RecvBody
  <2>2. CASE Counted /\ Flow /\ Ahead
    BY <1>3, <2>2, StreamKeepsUpwards, ShortReadKeepsUpwards
  <2>3. CASE Severed /\ Spent
    BY <1>3, <2>3, NothingBehind
  <2> QED
    BY <2>1, <2>2, <2>3 DEF Upwards, Closing, Misread
<1>4. CASE RecvDatagrams
  <2>1. pc = "recvF" /\ mode = "UDP_IN_UDP"
    BY <1>4 DEF RecvDatagrams
  <2>2. Counted /\ Flow /\ Ahead
    BY <2>1 DEF Upwards, Closing, Severed
  <2> QED
    BY <1>4, <2>2, DatagramsKeepUpwards
<1>5. CASE PassOn
  BY <1>5, PassingOnKeepsUpwards
<1>6. CASE \E n \in 0..Len(batch) : SendF(n)
  BY <1>6, SendsOne
<1>7. ASSUME NEW n, NEW done, Loop, SkipB \/ RecvB \/ SendBStream(done) \/ SendBDatagrams(n)
      PROVE  Upwards'
  <2>1. /\ UNCHANGED <<mode, gone, up, stream, rest, sent>>
        /\ pc \notin Forward /\ pc' \in {"sendB", "turn"}
    BY <1>7 DEF SkipB, RecvB, SendBStream, SendBDatagrams, EndB, envVars, Forward, Passing
  <2> QED
    BY <1>0, <1>7, <2>1, OthersKeepUpwards
<1>8. ASSUME Loop, Yield \/ Wakes \/ TimerEnds PROVE Upwards'
  <2>1. /\ UNCHANGED <<mode, gone, up, stream, rest, sent, batch>>
        /\ pc \in {"turn", "waitio"} /\ pc' \in {"done", "recvF", "waitio"}
        /\ Closing => pc' = "done"
    BY <1>8 DEF Yield, Wakes, TimerEnds, Closing, envVars
  <2>2. batch = <<>> /\ pc \notin Forward
    BY <2>1 DEF TypeInv, Buffers, Forward, Passing
  <2> QED
    BY <1>0, <1>8, <2>1, <2>2, OthersKeepUpwards
<1>9. CASE UNCHANGED vars
  BY <1>9 DEF vars, loopVars, envVars, Upwards, Flow, Ahead, Taken, Offset, Closing, ControlClosed,
              Counted, Severed, Misread, Spent, Channel!UpTo
<1>10. ~RecvDatagramsFails /\ ~RecvBFails
  BY DEF RecvDatagramsFails, RecvBFails, Calm
<1>11. Client \/ UpstreamAnswers \/ Loop \/ UNCHANGED vars
  BY DEF Next
<1> QED
  BY <1>1, <1>2, <1>3, <1>4, <1>5, <1>6, <1>7, <1>8, <1>9, <1>10, <1>11, Zenon DEF Loop

-----------------------------------------------------------------------------
(* Back to the client.                                                      *)

\* The answers that were read.
Given == Len(back) + (IF pc = "sendB" THEN Len(batch) ELSE 0)

Answering ==
    /\ back = Channel!UpTo(Len(back))
    /\ pc = "sendB" => \A i \in 1..Len(batch) : batch[i] = Len(back) + i
    /\ \A i \in 1..Len(queue) : queue[i] = Given + i
    /\ Given + Len(queue) = answered

\* The answers go on in order until the direction is dead or the loop ends.
Downwards ==
    \/ resB < 0
    \/ ControlClosed /\ pc \in {"turn", "done"}
    \/ Answering

LEMMA BackLens ==
    ASSUME TypeInv
    PROVE  /\ back \in Seq(Nat) /\ Len(back) \in Nat
           /\ queue \in Seq(Nat) /\ Len(queue) \in Nat /\ answered \in Nat
           /\ pc \notin Forward => batch \in Seq(Nat) /\ Len(batch) \in Nat
           /\ Given \in Nat
<1>1. /\ back \in Seq(0..MaxDown) /\ queue \in Seq(1..MaxDown) /\ answered \in 0..MaxDown
      /\ pc \notin Forward => batch \in Seq(1..MaxDown)
  BY DEF TypeInv, Streams, Plain, Buffers
<1>2. 0..MaxDown \subseteq Nat /\ 1..MaxDown \subseteq Nat
  BY Bounds
<1>3. /\ back \in Seq(Nat) /\ queue \in Seq(Nat) /\ answered \in Nat
      /\ pc \notin Forward => batch \in Seq(Nat)
  BY <1>1, <1>2, SeqMonotonic
<1>4. /\ Len(back) \in Nat /\ Len(queue) \in Nat
      /\ pc \notin Forward => Len(batch) \in Nat
  BY <1>3, LenProperties
<1> QED
  BY <1>3, <1>4 DEF Given, Forward, Passing

\* The steps that move no answer.
LEMMA OthersKeepDownwards ==
    ASSUME Downwards, UNCHANGED <<resB, queue, back, answered>>,
           ControlClosed => ControlClosed',
           (pc # "sendB" /\ pc' # "sendB") \/ UNCHANGED <<pc, batch>>,
           ControlClosed /\ pc \in {"turn", "done"} => pc' \in {"turn", "done"}
    PROVE  Downwards'
<1>1. Given' = Given
  BY DEF Given
<1>2. Channel!UpTo(Len(back))' = Channel!UpTo(Len(back))
  BY DEF Channel!UpTo
<1>3. Answering => Answering'
  BY <1>1, <1>2 DEF Answering
<1> QED
  BY <1>3 DEF Downwards

LEMMA AnswerKeepsDownwards ==
    ASSUME TypeInv, Downwards, UpstreamAnswers
    PROVE  Downwards'
<1>1. /\ UNCHANGED <<mode, gone, ctl, pc, batch, resB, back>> /\ answered' = answered + 1
      /\ queue' = Append(queue, answered + 1)
  BY DEF UpstreamAnswers, loopVars
<1>2. CASE ~Answering
  BY <1>1, <1>2 DEF Downwards, ControlClosed
<1>3. CASE Answering
  <2>1. queue \in Seq(Nat) /\ Len(queue) \in Nat /\ answered \in Nat /\ Given \in Nat
    BY BackLens
  <2>2. /\ Len(queue') = Len(queue) + 1 /\ queue'[Len(queue) + 1] = answered + 1
        /\ \A i \in 1..Len(queue) : queue'[i] = queue[i]
    BY <1>1, <2>1, AppendProperties
  <2>3. Given' = Given
    BY <1>1 DEF Given
  <2>4. Given + Len(queue) = answered
    BY <1>3 DEF Answering
  <2>5. \A i \in 1..Len(queue') : queue'[i] = Given + i
    <3> SUFFICES ASSUME NEW i \in 1..Len(queue') PROVE queue'[i] = Given + i
      OBVIOUS
    <3>1. CASE i \in 1..Len(queue)
      BY <1>3, <2>2, <3>1 DEF Answering
    <3>2. CASE i = Len(queue) + 1
      BY <2>1, <2>2, <2>4, <3>2
    <3> QED
      BY <2>1, <2>2, <3>1, <3>2
  <2>6. Given + Len(queue') = answered'
    BY <1>1, <2>1, <2>2, <2>4
  <2>7. back' = Channel!UpTo(Len(back))'
    BY <1>1, <1>3 DEF Answering, Channel!UpTo
  <2>8. pc' = "sendB" => \A i \in 1..Len(batch') : batch'[i] = Len(back') + i
    BY <1>1, <1>3 DEF Answering
  <2> QED
    BY <2>3, <2>5, <2>6, <2>7, <2>8 DEF Downwards, Answering
<1> QED
  BY <1>2, <1>3

\* As many answers as there are buffers.
LEMMA RecvBKeepsDownwards ==
    ASSUME TypeInv, Downwards, RecvB
    PROVE  Downwards'
<1> DEFINE k == IF Len(queue) < Num THEN Len(queue) ELSE Num
<1>1. pc = "recvB" /\ resB >= 0 /\ resB \in Int /\ UNCHANGED <<mode, gone, back, answered>>
  BY DEF RecvB, envVars, TypeInv, Plain
<1>2. Answering
  BY <1>1 DEF Downwards
<1>3. /\ queue \in Seq(Nat) /\ Len(queue) \in Nat /\ Len(back) \in Nat /\ Num \in Nat \ {0}
      /\ answered \in Nat
  BY BackLens, Bounds
<1>4. k \in 0..Len(queue)
  BY <1>3
<1>5. /\ queue' = SubSeq(queue, k + 1, Len(queue))
      /\ \/ k = 0 /\ pc' = "turn"
         \/ k > 0 /\ pc' = "sendB" /\ batch' = SubSeq(queue, 1, k)
  BY DEF RecvB, EndB
<1> HIDE DEF k
<1>6. /\ Given = Len(back) /\ Given + Len(queue) = answered
      /\ \A i \in 1..Len(queue) : queue[i] = Len(back) + i
  BY <1>1, <1>2, <1>3 DEF Given, Answering
<1>7. /\ Len(queue') = Len(queue) - k
      /\ \A i \in 1..(Len(queue) - k) : queue'[i] = queue[k + i]
  BY <1>3, <1>4, <1>5, Suffix
<1>8. back' = Channel!UpTo(Len(back))'
  BY <1>1, <1>2 DEF Answering, Channel!UpTo
<1>9. \A i \in 1..Len(queue') : queue'[i] = (Len(back) + k) + i
  <2> SUFFICES ASSUME NEW i \in 1..Len(queue') PROVE queue'[i] = (Len(back) + k) + i
    OBVIOUS
  <2>1. /\ k + i \in 1..Len(queue) /\ i \in 1..(Len(queue) - k)
        /\ (Len(back) + k) + i = Len(back) + (k + i)
    BY <1>3, <1>4, <1>7
  <2> QED
    BY <1>6, <1>7, <2>1
<1>10. /\ Given' = Len(back) + k
       /\ pc' = "sendB" => \A i \in 1..Len(batch') : batch'[i] = Len(back') + i
  <2>1. CASE k = 0 /\ pc' = "turn"
    BY <1>1, <1>3, <2>1 DEF Given
  <2>2. CASE k > 0 /\ pc' = "sendB" /\ batch' = SubSeq(queue, 1, k)
    <3>1. Len(batch') = k /\ \A i \in 1..k : batch'[i] = queue[i]
      BY <1>3, <1>4, <2>2, Prefix
    <3>2. \A i \in 1..k : i \in 1..Len(queue)
      BY <1>3, <1>4
    <3> QED
      BY <1>1, <1>6, <2>2, <3>1, <3>2 DEF Given
  <2> QED
    BY <1>5, <2>1, <2>2
<1>11. Given' + Len(queue') = answered'
  <2>1. /\ Given' = Len(back) + k /\ Len(queue') = Len(queue) - k
        /\ Len(back) + Len(queue) = answered /\ answered' = answered
    BY <1>1, <1>6, <1>7, <1>10
  <2>2. k \in Nat /\ Len(back) \in Nat /\ Len(queue) \in Nat
    BY <1>3, <1>4
  <2> QED
    BY <2>1, <2>2
<1> QED
  BY <1>1, <1>8, <1>9, <1>10, <1>11 DEF Downwards, Answering

LEMMA AppendLater ==
    ASSUME NEW S, NEW s \in Seq(S), NEW t \in Seq(S), NEW e \in S
    PROVE  s \o Append(t, e) = Append(s \o t, e)
<1>1. <<e>> \in Seq(S) /\ s \o t \in Seq(S)
  BY ConcatProperties
<1>2. Append(t, e) = t \o <<e>> /\ Append(s \o t, e) = (s \o t) \o <<e>>
  BY <1>1, AppendIsConcat
<1>3. (s \o t) \o <<e>> = s \o (t \o <<e>>)
  <2>1. \A u \in Seq(S) : (s \o t) \o u = s \o (t \o u)
    BY ConcatAssociative
  <2> QED
    BY <1>1, <2>1, Zenon
<1> QED
  BY <1>2, <1>3, Zenon

\* What a send to the client leaves with it: the next answers, in order.
LEMMA GivesTheNext ==
    ASSUME TypeInv, Quiet, Downwards, pc = "sendB"
    PROVE  /\ Answering /\ batch # <<>> /\ Len(batch) \in Nat \ {0} /\ Len(back) \in Nat
           /\ answered \in Nat /\ Len(back) + Len(batch) <= answered
           /\ \A k \in 0..Len(batch) :
                /\ Len(back \o SubSeq(batch, 1, k)) = Len(back) + k
                /\ back \o SubSeq(batch, 1, k) = Channel!UpTo(Len(back) + k)
                /\ back \o Append(SubSeq(batch, 1, k), Torn)
                     = Append(Channel!UpTo(Len(back) + k), Torn)
           /\ back \o batch = Channel!UpTo(Len(back) + Len(batch))
           /\ Len(back \o batch) = Len(back) + Len(batch)
<1>1. /\ back \in Seq(Nat) /\ Len(back) \in Nat /\ batch \in Seq(Nat) /\ Len(batch) \in Nat
      /\ Len(queue) \in Nat /\ answered \in Nat
  BY BackLens DEF Forward, Passing
<1>2. Answering /\ batch # <<>>
  <2>1. resB \in Int
    BY DEF TypeInv, Plain
  <2> QED
    BY <2>1 DEF Downwards, Quiet
<1>3. Len(batch) \in Nat \ {0}
  BY <1>1, <1>2, EmptySeq
<1>4. Len(back) + Len(batch) <= answered
  <2>1. Len(back) + Len(batch) + Len(queue) = answered
    BY <1>2 DEF Answering, Given
  <2> QED
    BY <1>1, <2>1
<1>5. back = Channel!UpTo(Len(back)) /\ \A i \in 1..Len(batch) : batch[i] = Len(back) + i
  BY <1>2 DEF Answering
<1>6. ASSUME NEW k \in 0..Len(batch)
      PROVE  /\ Len(back \o SubSeq(batch, 1, k)) = Len(back) + k
             /\ back \o SubSeq(batch, 1, k) = Channel!UpTo(Len(back) + k)
             /\ back \o Append(SubSeq(batch, 1, k), Torn)
                  = Append(Channel!UpTo(Len(back) + k), Torn)
  <2> DEFINE b == SubSeq(batch, 1, k)
  <2>1. /\ b \in Seq(Nat) /\ Len(b) = k /\ \A i \in 1..k : b[i] = batch[i]
    BY <1>1, Prefix
  <2> HIDE DEF b
  <2>2. \A i \in 1..Len(b) : b[i] = Len(back) + i
    <3>1. \A i \in 1..k : i \in 1..Len(batch)
      BY <1>1
    <3> QED
      BY <1>5, <2>1, <3>1
  <2>3. Len(back \o b) = Len(back) + k /\ back \o b = Channel!UpTo(Len(back) + k)
    BY <1>1, <1>5, <2>1, <2>2, CountsOn
  <2>4. back \o Append(b, Torn) = Append(back \o b, Torn)
    <3>1. Torn \in Nat
      BY DEF Torn
    <3> QED
      BY <1>1, <2>1, <3>1, AppendLater
  <2> QED
    BY <2>3, <2>4 DEF b
<1>7. SubSeq(batch, 1, Len(batch)) = batch /\ Len(batch) \in 0..Len(batch)
  BY <1>1, SubSeqFull
<1>8. back \o batch = Channel!UpTo(Len(back) + Len(batch)) /\ Len(back \o batch) = Len(back) + Len(batch)
  BY <1>6, <1>7
<1> QED
  BY <1>1, <1>2, <1>3, <1>4, <1>6, <1>8

\* Everything that was read went out.
LEMMA AllGiven ==
    ASSUME TypeInv, Quiet, Downwards, pc = "sendB", back' = back \o batch, pc' = "turn",
           UNCHANGED <<queue, answered>>
    PROVE  Downwards'
<1>1. /\ Answering /\ back' = Channel!UpTo(Len(back) + Len(batch))
      /\ Len(back') = Len(back) + Len(batch)
  BY GivesTheNext
<1>2. back' = Channel!UpTo(Len(back))'
  <2>1. Channel!UpTo(Len(back))' = Channel!UpTo(Len(back'))
    BY DEF Channel!UpTo
  <2> QED
    BY <1>1, <2>1
<1>3. Given' = Given
  <2>1. Len(back') \in Nat /\ Len(back) + Len(batch) \in Nat
    BY <1>1, GivesTheNext
  <2> QED
    BY <1>1, <2>1 DEF Given
<1>4. Answering'
  BY <1>1, <1>2, <1>3 DEF Answering
<1> QED
  BY <1>4 DEF Downwards

LEMMA SendBKeepsDownwards ==
    ASSUME Calm, TypeInv, PeerInv, Quiet, Downwards, NEW n \in 0..Len(batch),
           NEW done \in BOOLEAN, SendBStream(done) \/ SendBDatagrams(n)
    PROVE  Downwards'
<1>1. pc = "sendB" /\ pc' = "turn" /\ UNCHANGED <<mode, gone, queue, answered>>
  BY DEF SendBStream, SendBDatagrams, EndB, envVars
<1>2. CASE SendBStream(done)
  <2>1. ~(timeout >= 0)
    BY <1>2 DEF SendBStream, Quiet, ControlClosed
  <2>2. back' = back \o batch \/ EndB(-1)
    BY <1>2, <2>1 DEF SendBStream
  <2>3. CASE EndB(-1)
    BY <2>3 DEF EndB, Downwards
  <2> QED
    BY <1>1, <2>2, <2>3, AllGiven
<1>3. CASE SendBDatagrams(n)
  <2>1. /\ mode = "UDP_IN_UDP" /\ n <= Len(batch) /\ back' = back \o SubSeq(batch, 1, n)
        /\ n < Len(batch) => Breaks \/ ~assoc \/ WaitFails
    BY <1>3 DEF SendBDatagrams
  <2>2. assoc
    BY <1>1, <2>1 DEF PeerInv, Reached
  <2>3. CASE n < Len(batch)
    <3>1. WaitFails
      BY <2>1, <2>2, <2>3, Zenon DEF Calm
    <3>2. ctl \in Nat
      BY Bounds DEF TypeInv, Plain
    <3>3. ControlClosed'
      BY <1>1, <3>1, <3>2 DEF WaitFails, WaitEnds, Quiet, ControlClosed
    <3> QED
      BY <1>1, <3>3 DEF Downwards
  <2>4. CASE ~(n < Len(batch))
    <3>1. batch \in Seq(Nat) /\ Len(batch) \in Nat /\ n \in Int
      BY <1>1, BackLens DEF Forward, Passing
    <3>2. n = Len(batch)
      BY <2>1, <2>4, <3>1
    <3>3. SubSeq(batch, 1, n) = batch
      BY <3>1, <3>2, SubSeqFull
    <3> QED
      BY <1>1, <2>1, <3>3, AllGiven
  <2> QED
    BY <2>3, <2>4
<1> QED
  BY <1>2, <1>3

LEMMA DownwardsStep ==
    ASSUME Calm, TypeInv, PeerInv, Quiet, Downwards, [Next]_vars
    PROVE  Downwards'
\* What has closed the control connection stays so.
<1>0. ControlClosed => ControlClosed'
  <2>1. ctl \in Nat
    BY Bounds DEF TypeInv, Plain
  <2>2. CASE Loop
    <3>1. UNCHANGED <<mode, gone>> /\ ctl' \in 0..ctl
      BY <2>2, LoopFlags
    <3> QED
      BY <2>1, <3>1 DEF ControlClosed
  <2>3. CASE Client \/ UpstreamAnswers
    BY <2>3 DEF Client, UpstreamAnswers, ClientSends, ClientGoesOn, ClientWrites, ClientCloses,
                envVars, ControlClosed
  <2>4. CASE UNCHANGED vars
    BY <2>4 DEF vars, envVars, ControlClosed
  <2> QED
    BY <2>2, <2>3, <2>4 DEF Next
<1>1. CASE Client
  <2>1. UNCHANGED <<pc, batch, resB, queue, back, answered>>
    BY <1>1 DEF Client, ClientSends, ClientGoesOn, ClientWrites, ClientCloses, loopVars, envVars
  <2> QED
    BY <1>0, <2>1, OthersKeepDownwards
<1>2. CASE UpstreamAnswers
  BY <1>2, AnswerKeepsDownwards
<1>3. ASSUME NEW n, \/ SkipF \/ RecvHeader \/ RecvRestOfHeader \/ RecvBody \/ RecvDatagrams
                    \/ PassOn \/ SendF(n)
      PROVE  Downwards'
  <2>1. UNCHANGED <<resB, queue, back, answered>> /\ pc \in Forward
    BY <1>3 DEF SkipF, RecvHeader, RecvRestOfHeader, RecvBody, RecvDatagrams, PassOn, SendF,
                envVars, Forward, Passing
  <2>2. pc' \in Forward \cup {"recvB"}
    BY <1>3 DEF SkipF, RecvHeader, RecvRestOfHeader, RecvBody, RecvDatagrams, PassOn, SendF,
                NoHeader, CheckHeader, ShortHeader, TakesForMessages, EndF, Forward, Passing
  <2> QED
    BY <1>0, <2>1, <2>2, OthersKeepDownwards DEF Forward, Passing
<1>4. CASE SkipB
  BY <1>4 DEF SkipB, EndB, Downwards
<1>5. CASE RecvB
  BY <1>5, RecvBKeepsDownwards
<1>6. ASSUME NEW n \in 0..Len(batch), NEW done \in BOOLEAN, SendBStream(done) \/ SendBDatagrams(n)
      PROVE  Downwards'
  BY <1>6, SendBKeepsDownwards
<1>7. CASE Yield \/ Wakes \/ TimerEnds
  <2>1. /\ UNCHANGED <<resB, queue, back, answered>>
        /\ pc \in {"turn", "waitio"} /\ pc' \in {"done", "recvF", "waitio"}
        /\ ControlClosed /\ pc = "turn" => pc' = "done"
    BY <1>7 DEF Yield, Wakes, TimerEnds, envVars
  <2> QED
    BY <1>0, <2>1, OthersKeepDownwards
<1>8. CASE UNCHANGED vars
  BY <1>8 DEF vars, loopVars, envVars, Downwards, Answering, Given, ControlClosed, Channel!UpTo
<1>9. ~RecvDatagramsFails /\ ~RecvBFails
  BY DEF RecvDatagramsFails, RecvBFails, Calm
<1>10. 0 \in 0..Len(batch) /\ TRUE \in BOOLEAN
  <2>1. Len(batch) \in Nat
    BY LenProperties DEF TypeInv, Buffers
  <2> QED
    BY <2>1
<1> QED
  BY <1>1, <1>2, <1>3, <1>4, <1>5, <1>6, <1>7, <1>8, <1>9, <1>10, Zenon DEF Next, Loop

-----------------------------------------------------------------------------
(* The refinement.                                                          *)

Relay == Quiet /\ Upwards /\ Downwards

LEMMA RelayInit == ASSUME Calm, Init PROVE Relay
<1>1. Len(<<>>) = 0 /\ Channel!UpTo(0) = <<>>
  BY DEF Channel!UpTo
<1>2. /\ Len(up) = 0 /\ Len(batch) = 0 /\ Len(stream) = 0 /\ Len(rest) = 0 /\ Len(queue) = 0
      /\ Len(back) = 0
  BY <1>1 DEF Init
<1>3. Quiet
  <2>1. ~(timeout >= 0)
    BY UdpAssumption DEF Init, Calm
  <2> QED
    BY <2>1 DEF Init, Quiet
<1>4. Taken = 0 /\ Offset = 0 /\ Given = 0
  BY <1>2 DEF Init, Taken, Offset, Given
<1>5. Flow /\ Ahead
  BY <1>2, <1>4 DEF Init, Flow, TcpFlow, UdpFlow, Ahead
<1>6. Upwards
  BY <1>1, <1>2, <1>5 DEF Init, Upwards, Counted
<1>7. Answering
  BY <1>1, <1>2, <1>4 DEF Init, Answering
<1> QED
  BY <1>3, <1>6, <1>7 DEF Relay, Downwards

LEMMA RelayStep ==
    ASSUME Calm, TypeInv, PeerInv, Relay, [Next]_vars
    PROVE  Relay'
<1>1. Quiet'
  <2>1. CASE Client \/ UpstreamAnswers
    BY <2>1, EnvironmentStaysQuiet DEF Relay
  <2>2. CASE Loop
    BY <2>2, LoopStaysQuiet DEF Relay
  <2>3. CASE UNCHANGED vars
    BY <2>3 DEF vars, loopVars, envVars, Relay, Quiet, ControlClosed
  <2> QED
    BY <2>1, <2>2, <2>3 DEF Next
<1>2. Upwards'
  BY UpwardsStep DEF Relay
<1>3. Downwards'
  BY DownwardsStep DEF Relay
<1> QED
  BY <1>1, <1>2, <1>3 DEF Relay

\* The steps that the channels do not see.
LEMMA Unseen ==
    ASSUME NEW n, NEW done,
           \/ SkipF \/ RecvHeader \/ RecvRestOfHeader \/ RecvBody \/ RecvDatagrams
           \/ RecvDatagramsFails \/ PassOn
           \/ SkipB \/ RecvB \/ RecvBFails \/ Yield \/ Wakes \/ TimerEnds
           \/ ClientGoesOn \/ ClientWrites \/ UNCHANGED vars
    PROVE  UNCHANGED Channel!vars
<1>1. /\ UNCHANGED <<sent, up, answered, back, gone>>
      /\ UNCHANGED rest \/ ~gone
  BY DEF SkipF, RecvHeader, RecvRestOfHeader, RecvBody, RecvDatagrams, RecvDatagramsFails, PassOn,
         SkipB, RecvB, RecvBFails, Yield, Wakes, TimerEnds, ClientGoesOn, ClientWrites, vars,
         envVars
<1> QED
  BY <1>1 DEF Channel!vars

\* Nothing of an answer is torn as long as answers are sent.
LEMMA NothingTorn ==
    ASSUME back = Channel!UpTo(Len(back))
    PROVE  Channel!Whole
<1>1. \A i \in DOMAIN Channel!UpTo(Len(back)) : Channel!UpTo(Len(back))[i] # 0
  BY DEF Channel!UpTo
<1> QED
  BY <1>1, Zenon DEF Channel!Whole, Channel!Torn

\* A send to the client is one of the channel's, or sends nothing.
LEMMA SendBIsAllowed ==
    ASSUME TypeInv, Quiet, Downwards, pc = "sendB",
           UNCHANGED <<sent, up, answered, gone, rest>>,
           \/ back' = back \o batch
           \/ \E k \in 0..Len(batch) : back' = back \o SubSeq(batch, 1, k)
           \/ \E k \in 0..(Len(batch) - 1) : back' = back \o Append(SubSeq(batch, 1, k), Torn)
    PROVE  Channel!Next \/ UNCHANGED Channel!vars
<1>1. /\ Answering /\ Len(batch) \in Nat \ {0} /\ Len(back) \in Nat /\ answered \in Nat
      /\ Len(back) + Len(batch) <= answered
      /\ back \o batch = Channel!UpTo(Len(back) + Len(batch))
  BY GivesTheNext
<1>2. back = Channel!UpTo(Len(back)) /\ Channel!Whole
  BY <1>1, NothingTorn DEF Answering
<1>3. ASSUME NEW k \in 1..Len(batch), back' = Channel!UpTo(Len(back) + k)
      PROVE  Channel!Next
  <2>1. Len(back) + k \in (Len(back) + 1)..answered
    BY <1>1
  <2>2. Channel!PassBack
    BY <1>2, <1>3, <2>1 DEF Channel!PassBack
  <2> QED
    BY <2>2 DEF Channel!Next
<1>4. CASE back' = back \o batch
  <2>1. Len(batch) \in 1..Len(batch)
    BY <1>1
  <2> QED
    BY <1>1, <1>3, <1>4, <2>1
<1>5. ASSUME NEW k \in 0..Len(batch), back' = back \o SubSeq(batch, 1, k)
      PROVE  Channel!Next \/ UNCHANGED Channel!vars
  <2>1. back' = Channel!UpTo(Len(back) + k)
    BY <1>5, GivesTheNext
  <2>2. CASE k = 0
    <3>1. Len(back) + k = Len(back)
      BY <1>1, <2>2
    <3>2. back' = back
      BY <1>2, <2>1, <3>1
    <3> QED
      BY <3>2 DEF Channel!vars
  <2>3. CASE k # 0
    <3>1. k \in 1..Len(batch)
      BY <2>3
    <3> QED
      BY <1>3, <2>1, <3>1
  <2> QED
    BY <2>2, <2>3
<1>6. ASSUME NEW k \in 0..(Len(batch) - 1), back' = back \o Append(SubSeq(batch, 1, k), Torn)
      PROVE  Channel!Next
  <2>1. k \in 0..Len(batch) /\ Len(back) + k \in Len(back)..(answered - 1)
    BY <1>1
  <2>2. back' = Append(Channel!UpTo(Len(back) + k), Torn)
    BY <1>6, <2>1, GivesTheNext
  <2>3. Channel!BreakOff
    BY <1>2, <2>1, <2>2 DEF Channel!BreakOff, Channel!Torn, Torn
  <2> QED
    BY <2>3 DEF Channel!Next
<1> QED
  BY <1>4, <1>5, <1>6

LEMMA StepsAreAllowed ==
    ASSUME Calm, TypeInv, Relay, [Next]_vars
    PROVE  [Channel!Next]_(Channel!vars)
<1> USE DEF Relay
<1>1. CASE \E kind \in Kinds : ClientSends(kind)
  <2>1. /\ ~gone /\ gone' = gone /\ sent' = sent + 1 /\ UNCHANGED <<up, answered, back>>
    BY <1>1 DEF ClientSends
  <2>2. Channel!Send
    BY <2>1 DEF Channel!Send
  <2> QED
    BY <2>2 DEF Channel!Next
<1>2. CASE UpstreamAnswers
  <2>1. Channel!Answer
    BY <1>2 DEF UpstreamAnswers, Channel!Answer
  <2> QED
    BY <2>1 DEF Channel!Next
<1>c. CASE ClientCloses
  <2>1. ~gone /\ gone' /\ UNCHANGED <<rest, sent, up, answered, back>>
    BY <1>c DEF ClientCloses
  <2>2. CASE rest = <<>>
    BY <2>1, <2>2 DEF Channel!vars
  <2>3. CASE rest # <<>>
    <3>1. Flow
      BY <2>1 DEF Upwards, Closing, ControlClosed, Severed
    <3>2. sent > Len(up)
      <4>1. Taken < sent
        BY <2>3, <3>1, TakenIsSent
      <4>2. Len(up) \in Nat /\ Taken \in Nat /\ sent \in Nat /\ Len(up) <= Taken
        BY Lens DEF Taken
      <4> QED
        BY <4>1, <4>2
    <3>3. Channel!ClientBreaksOff
      BY <2>1, <2>3, <3>2 DEF Channel!ClientBreaksOff
    <3> QED
      BY <3>3 DEF Channel!Next
  <2> QED
    BY <2>2, <2>3
<1>3. ASSUME NEW n \in 0..Len(batch), SendF(n) PROVE Channel!Next \/ UNCHANGED Channel!vars
  BY <1>3, SendsOne
<1>4. ASSUME NEW done, SendBStream(done) PROVE Channel!Next \/ UNCHANGED Channel!vars
  <2>1. pc = "sendB" /\ UNCHANGED <<sent, up, answered, gone, rest>>
    BY <1>4 DEF SendBStream, envVars
  <2>2. \/ back' = back \o batch
        \/ \E k \in 0..(Len(batch) - 1) :
             back' \in {back \o SubSeq(batch, 1, k), back \o Append(SubSeq(batch, 1, k), Torn)}
    BY <1>4 DEF SendBStream
  <2>3. \A k \in 0..(Len(batch) - 1) : k \in 0..Len(batch)
    <3>1. Len(batch) \in Nat
      BY <2>1, BackLens DEF Forward, Passing
    <3> QED
      BY <3>1
  <2>4. \/ back' = back \o batch
        \/ \E k \in 0..Len(batch) : back' = back \o SubSeq(batch, 1, k)
        \/ \E k \in 0..(Len(batch) - 1) : back' = back \o Append(SubSeq(batch, 1, k), Torn)
    BY <2>2, <2>3
  <2> QED
    BY <2>1, <2>4, SendBIsAllowed
<1>5. ASSUME NEW n \in 0..Len(batch), SendBDatagrams(n)
      PROVE  Channel!Next \/ UNCHANGED Channel!vars
  <2>1. /\ pc = "sendB" /\ UNCHANGED <<sent, up, answered, gone, rest>>
        /\ back' = back \o SubSeq(batch, 1, n)
    BY <1>5 DEF SendBDatagrams, envVars
  <2> QED
    BY <2>1, SendBIsAllowed
<1> QED
  BY <1>1, <1>2, <1>c, <1>3, <1>4, <1>5, Unseen, Zenon DEF Next, Loop, Client

(***************************************************************************)
(* As long as packets fit, no call on a socket fails and no timer runs,    *)
(* the splicer (hev-socks5-udp.c) is two channels: each packet goes        *)
(* upstream once and in the order sent, each answer comes back so,         *)
(* whatever pieces they arrive in and however they are batched, for every  *)
(* number of copy buffers, packets and answers.  The client may close at   *)
(* any time.  When it does so within a frame the splicer may send          *)
(* messages that nobody sent; the theorem says that this is the only way   *)
(* to them, that whole packets before them are the client's, in order, and *)
(* that nothing goes upstream after them.                                  *)
(***************************************************************************)
THEOREM RelayIsTwoChannels ==
    ASSUME Calm
    PROVE  Spec => KeepsChannel
<1>1. Init => Relay
  BY RelayInit
<1>2. Relay /\ TypeInv /\ PeerInv /\ [Next]_vars => Relay'
  BY RelayStep
<1>3. Spec => []Relay
  BY <1>1, <1>2, TypesHold, PeersHold, PTL DEF Spec
<1>4. Init => Channel!Init
  BY DEF Init, Channel!Init
<1>5. Relay /\ TypeInv /\ [Next]_vars => [Channel!Next]_(Channel!vars)
  BY StepsAreAllowed
<1> QED
  BY <1>3, <1>4, <1>5, TypesHold, PTL DEF Spec, KeepsChannel, Channel!Spec
=============================================================================
