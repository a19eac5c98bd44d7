----------------------------- MODULE Socks5UDP ------------------------------
(***************************************************************************)
(* The UDP relay of one session: the loop of hev_socks5_udp_splicer        *)
(* (hev-socks5-udp.c) between the client, which is reached through the     *)
(* session's TCP stream or through a UDP socket of its own, and the        *)
(* upstream UDP socket fd_b.                                               *)
(*                                                                         *)
(* A client's frame in the TCP stream is three pieces that may arrive at   *)
(* different times: some bytes of the five of the header, the rest of the  *)
(* five, the body.  A packet is its number and its kind:                   *)
(*   "fits"    a packet the relay can pass on;                             *)
(*   "big"     longer than what a copy buffer leaves for it;               *)
(*   "bad"     a header with which recvmmsg fails;                         *)
(*   "empty"   no payload, or (UDP) too short for a header: a length of 0; *)
(*   "noname"  an address that does not become a socket address;           *)
(*   "unset"   no packet: a message of the array that was never filled in. *)
(***************************************************************************)
EXTENDS Integers, Sequences, Socks5Base

CONSTANTS
    Modes,        \* the types of the session: "UDP_IN_TCP", "UDP_IN_UDP"
    Num,          \* udp_copy_buffer_nums
    Kinds,        \* the packets that the client sends
    MaxUp,        \* bound: packets of the client
    MaxDown,      \* bound: answers
    MaxBytes,     \* bound: bytes of a body that the end of the stream cuts off
    MaxCtl,       \* bound: unread bytes on the control connection
    Cuts,         \* the pieces of a frame may arrive one by one
    Breaks,       \* calls on the sockets fail
    UdpTimeout

ASSUME UdpAssumption ==
    /\ Modes \subseteq {"UDP_IN_TCP", "UDP_IN_UDP"}
    /\ Num \in Nat \ {0}
    /\ Kinds \subseteq {"fits", "big", "bad", "empty", "noname"}
    /\ MaxUp \in Nat /\ MaxDown \in Nat /\ MaxBytes \in Nat /\ MaxCtl \in Nat
    /\ Cuts \in BOOLEAN /\ Breaks \in BOOLEAN
    /\ UdpTimeout \in Int

VARIABLES
    mode,      \* self->base.type
    pc,
    resF,      \* res_f, by its sign
    resB,      \* res_b
    bind,      \* fd_b is bound
    assoc,     \* self->base.udp_associated: fds[1] is connected
    timeout,   \* self->base.timeout
    batch,     \* the messages between a receive and the send after it
    wake,      \* an event of a descriptor that the task has not slept off
    gone,      \* the client has closed its TCP connection
    ctl,       \* the unread bytes of that connection where no frames are in it
    stream,    \* the pieces that arrived from the client, unread
    rest,      \* the pieces of the frame the client is sending
    sent,      \* the number of packets it has begun to send
    up,        \* what was sent upstream (a history)
    queue,     \* the answers that wait at fd_b
    answered,  \* the number of answers that came
    back       \* what was sent to the client (a history)

loopVars == <<pc, resF, resB, bind, assoc, timeout, batch>>
envVars == <<gone, rest, sent, answered>>
vars == <<mode, loopVars, wake, envVars, ctl, stream, up, queue, back>>

Garbage == 0      \* a message the client never sent
Torn == 0         \* the beginning of a frame whose end was not sent

Piece(part, i, kind) == [part |-> part, id |-> i, kind |-> kind]
NoPacket == Piece("body", Garbage, "fits")
Unset == Piece("body", Garbage, "unset")
Frame(i, kind) == <<Piece("start", i, kind), Piece("rest", i, kind), Piece("body", i, kind)>>

Init ==
    /\ mode \in Modes
    /\ pc = "recvF" /\ resF = 1 /\ resB = 1
    /\ bind = FALSE /\ assoc = FALSE /\ timeout = UdpTimeout
    /\ batch = <<>> /\ wake = FALSE
    /\ gone = FALSE /\ ctl = 0 /\ stream = <<>> /\ rest = <<>> /\ sent = 0
    /\ up = <<>> /\ queue = <<>> /\ answered = 0 /\ back = <<>>

-----------------------------------------------------------------------------
(* The client and the upstream.                                             *)

ClientSends(kind) ==
    /\ ~gone /\ rest = <<>> /\ sent < MaxUp
    /\ sent' = sent + 1
    /\ LET frame == Frame(sent + 1, kind)
       IN  IF mode = "UDP_IN_UDP"
           THEN stream' = Append(stream, Piece("whole", sent + 1, kind)) /\ UNCHANGED rest
           ELSE \E k \in (IF Cuts THEN 1..3 ELSE {3}) :
                  /\ stream' = stream \o SubSeq(frame, 1, k)
                  /\ rest' = SubSeq(frame, k + 1, 3)
    /\ wake' = TRUE
    /\ UNCHANGED <<mode, loopVars, gone, ctl, answered, up, queue, back>>

ClientGoesOn ==
    /\ ~gone /\ rest # <<>>
    /\ stream' = Append(stream, Head(rest))
    /\ rest' = Tail(rest)
    /\ wake' = TRUE
    /\ UNCHANGED <<mode, loopVars, gone, ctl, sent, answered, up, queue, back>>

\* A byte on the control connection, which nothing in the protocol asks for.
ClientWrites ==
    /\ mode = "UDP_IN_UDP" /\ ~gone /\ ctl < MaxCtl
    /\ ctl' = ctl + 1
    /\ wake' = TRUE
    /\ UNCHANGED <<mode, loopVars, envVars, stream, up, queue, back>>

\* At any time, in the middle of a frame as well.
ClientCloses ==
    /\ ~gone
    /\ gone' = TRUE
    /\ wake' = TRUE
    /\ UNCHANGED <<mode, loopVars, ctl, rest, sent, answered, stream, up, queue, back>>

\* Only what was sent to tells fd_b's port to anybody.
UpstreamAnswers ==
    /\ up # <<>> /\ answered < MaxDown
    /\ answered' = answered + 1
    /\ queue' = Append(queue, answered + 1)
    /\ wake' = TRUE
    /\ UNCHANGED <<mode, loopVars, gone, ctl, rest, sent, stream, up, back>>

-----------------------------------------------------------------------------
(* The yielder.  With its client on UDP a session looks at its control      *)
(* connection first and gives up every wait once that was closed, but it    *)
(* looks by reading one byte: unread bytes hide the end behind them.        *)

ControlClosed == mode = "UDP_IN_UDP" /\ gone /\ ctl = 0

\* A wait within one of the two directions gets what it waits for, or an error.
WaitEnds == ctl' \in 0..ctl /\ UNCHANGED timeout

\* The yielder gives the wait up; the turns before may have read what was there.
WaitFails ==
    \/ timeout >= 0 /\ WaitEnds
    \/ /\ mode = "UDP_IN_UDP" /\ gone
       /\ ctl' = 0
       /\ timeout' = 0

\* A task that gave the processor away may have slept off an event.
MayMissWake == wake' \in {wake, FALSE}

EndF(result) == pc' = "recvB" /\ resF' = result /\ batch' = <<>>

EndB(result) == pc' = "turn" /\ resB' = result /\ batch' = <<>>

\* A result of -1 that the code gave without a failed call: fwd_f and fwd_b
\* then look at an errno that some earlier call left.
StaleErrno == {-1, 0}

-----------------------------------------------------------------------------
(* hev_socks5_udp_fwd_f, from the client: recvmmsg_tcp.                     *)

SkipF ==
    /\ pc = "recvF" /\ resF < 0
    /\ EndF(resF)
    /\ UNCHANGED <<mode, resB, bind, assoc, timeout, wake, envVars, ctl, stream, up, queue, back>>

\* A result that counts bytes where the caller takes it for messages, of which
\* it then finds the ones after the first Len(batch) as the stack left them.
TakesForMessages(bytes) ==
    /\ pc' = "pass"
    /\ batch' = [i \in 1..bytes |-> IF i \in DOMAIN batch THEN batch[i] ELSE Unset]
    /\ UNCHANGED resF

\* The result of a read of a header that fell short: some bytes and what the
\* wait for the others gave, which is a number of bytes at the end of the
\* stream, -1 for an error and -2 when the yielder gave it up.
ShortHeader(result) ==
    CASE result = -1 -> \E r \in StaleErrno : EndF(r)
      [] result = 0 -> EndF(-1)
      [] OTHER -> TakesForMessages(result)

\* What a header leads to, once its five bytes are there.
CheckHeader(kind) ==
    IF kind \in {"bad", "big"}
    THEN \E r \in StaleErrno : EndF(r)
    ELSE pc' = "body" /\ UNCHANGED <<resF, batch>>

\* Mutant of NoHeader: what was received before is not passed on.
NoHeaderDropsBatch == EndF(IF gone THEN -1 ELSE 0)

\* No byte of a header: EAGAIN or the end of the stream.
NoHeader ==
    IF batch # <<>> THEN pc' = "pass" /\ UNCHANGED <<resF, batch>>
    ELSE EndF(IF gone THEN -1 ELSE 0)

\* Mutant of Full: one buffer more than there is.
FullOneLate == Len(batch) > Num

Full == Len(batch) = Num

RecvHeader ==
    /\ pc = "recvF" /\ resF >= 0 /\ mode = "UDP_IN_TCP"
    /\ \/ /\ Full
          /\ pc' = "pass"
          /\ UNCHANGED <<resF, batch, stream>>
       \/ /\ ~Full /\ stream = <<>>
          /\ NoHeader
          /\ UNCHANGED stream
       \/ /\ ~Full /\ stream # <<>> /\ Head(stream).part = "start"
          /\ IF Len(stream) > 1
             THEN /\ stream' = SubSeq(stream, 3, Len(stream))
                  /\ CheckHeader(Head(stream).kind)
             ELSE /\ stream' = <<>>
                  /\ pc' = "restHead"
                  /\ UNCHANGED <<resF, batch>>
       \/ \* what is next is not a header, but is taken for one
          /\ ~Full /\ stream # <<>> /\ Head(stream).part # "start"
          /\ stream' = Tail(stream)
          /\ \/ \E r \in StaleErrno : EndF(r)
             \/ batch' = Append(batch, NoPacket) /\ UNCHANGED <<pc, resF>>
    /\ UNCHANGED <<mode, resB, bind, assoc, timeout, wake, envVars, ctl, up, queue, back>>

\* The wait for the rest of a header.
RecvRestOfHeader ==
    /\ pc = "restHead"
    /\ \/ /\ stream # <<>>
          /\ stream' = Tail(stream)
          /\ CheckHeader(Head(stream).kind)
       \/ /\ stream = <<>> /\ (gone \/ timeout >= 0)
          /\ IF batch # <<>> THEN pc' = "pass" /\ UNCHANGED <<resF, batch>>
             ELSE \/ gone /\ \E bytes \in 0..4 : ShortHeader(bytes)
                  \/ timeout >= 0 /\ \E left \in -1..2 : ShortHeader(left)
          /\ UNCHANGED stream
    /\ MayMissWake
    /\ UNCHANGED <<mode, resB, bind, assoc, timeout, envVars, ctl, up, queue, back>>

\* The wait for the body; a failure drops the frames before it as well, and so
\* many bytes of a body as there are frames before it keep that many of them.
RecvBody ==
    /\ pc = "body"
    /\ \/ /\ stream # <<>>
          /\ stream' = Tail(stream)
          /\ batch' = Append(batch, Head(stream))
          /\ pc' = "recvF"
          /\ UNCHANGED resF
       \/ /\ stream = <<>> /\ (gone \/ timeout >= 0)
          /\ EndF(-1)
          /\ UNCHANGED stream
       \/ /\ stream = <<>> /\ gone
          /\ \E bytes \in 1..MaxBytes : TakesForMessages(bytes)
          /\ UNCHANGED stream
    /\ MayMissWake
    /\ UNCHANGED <<mode, resB, bind, assoc, timeout, envVars, ctl, up, queue, back>>

-----------------------------------------------------------------------------
(* hev_socks5_udp_fwd_f, from the client: recvmmsg_udp.  The first datagrams *)
(* tell who the client is.                                                  *)

\* What a datagram becomes in the copy buffer: one too long is cut off.
Received(piece) == IF piece.kind = "big" THEN [piece EXCEPT !.id = Garbage] ELSE piece

\* Mutant of RecvDatagrams: the mark of the association is not set.
RecvDatagramsUnmarked ==
    /\ pc = "recvF" /\ resF >= 0 /\ mode = "UDP_IN_UDP"
    /\ LET n == IF Len(stream) < Num THEN Len(stream) ELSE Num
           got == SubSeq(stream, 1, n)
       IN  /\ stream' = SubSeq(stream, n + 1, Len(stream))
           /\ IF n = 0 THEN EndF(0)
              ELSE pc' = "pass" /\ UNCHANGED resF
                   /\ batch' = [i \in DOMAIN got |-> Received(got[i])]
    /\ UNCHANGED <<mode, resB, bind, assoc, timeout, wake, envVars, ctl, up, queue, back>>

\* recvmmsg fails; a pending error of the socket is one of the reasons.
RecvDatagramsFails ==
    /\ pc = "recvF" /\ resF >= 0 /\ mode = "UDP_IN_UDP" /\ Breaks
    /\ EndF(-1)
    /\ UNCHANGED <<mode, resB, bind, assoc, timeout, wake, envVars, ctl, stream, up, queue, back>>

RecvDatagrams ==
    /\ pc = "recvF" /\ resF >= 0 /\ mode = "UDP_IN_UDP"
    /\ LET n == IF Len(stream) < Num THEN Len(stream) ELSE Num
           got == SubSeq(stream, 1, n)
       IN  /\ stream' = SubSeq(stream, n + 1, Len(stream))
           /\ \/ /\ n = 0
                 /\ EndF(0)
                 /\ UNCHANGED assoc
              \/ \* connect fails
                 /\ n > 0 /\ ~assoc /\ Breaks
                 /\ EndF(-1)
                 /\ UNCHANGED assoc
              \/ /\ n > 0
                 /\ assoc' = TRUE
                 /\ IF \E i \in DOMAIN got : got[i].kind = "bad"
                    THEN \E r \in StaleErrno : EndF(r)
                    ELSE /\ pc' = "pass"
                         /\ batch' = [i \in DOMAIN got |-> Received(got[i])]
                         /\ UNCHANGED resF
    /\ UNCHANGED <<mode, resB, bind, timeout, wake, envVars, ctl, up, queue, back>>

-----------------------------------------------------------------------------
(* hev_socks5_udp_fwd_f, to the upstream.                                   *)

\* Every packet is looked at before any is sent; the socket is bound once.
\* Looking up a name lets other tasks run.  Where a message was never filled in
\* its address is what the stack left: none, no address, one to read, or a
\* pointer that ends the process.
PassOn ==
    /\ pc = "pass"
    /\ LET refused == \E i \in DOMAIN batch : batch[i].kind \in {"empty", "noname"}
           unset == \E i \in DOMAIN batch : batch[i].kind = "unset"
       IN  \/ /\ refused \/ unset
              /\ EndF(-1)
              /\ UNCHANGED bind
           \/ /\ ~refused /\ unset
              /\ pc' = "crash"
              /\ UNCHANGED <<bind, resF, batch>>
           \/ /\ ~refused /\ ~bind /\ Breaks
              /\ EndF(-1)
              /\ UNCHANGED bind
           \/ /\ ~refused
              /\ bind' = TRUE
              /\ pc' = "sendF"
              /\ UNCHANGED <<resF, batch>>
    /\ MayMissWake
    /\ UNCHANGED <<mode, resB, assoc, timeout, envVars, ctl, stream, up, queue, back>>

\* sendmmsg sends the first n of the batch; none, and it fails.
SendF(n) ==
    /\ pc = "sendF"
    /\ n <= Len(batch)
    /\ up' = up \o [i \in 1..n |-> batch[i].id]
    /\ \/ /\ n < Len(batch) => Breaks \/ batch[n + 1].kind = "unset"
          /\ EndF(IF n > 0 THEN 1 ELSE -1)
          /\ WaitEnds
       \/ /\ n < Len(batch)
          /\ EndF(-1) \/ (n > 0 /\ EndF(1))
          /\ WaitFails
    /\ MayMissWake
    /\ UNCHANGED <<mode, resB, bind, assoc, envVars, stream, queue, back>>

-----------------------------------------------------------------------------
(* hev_socks5_udp_fwd_b.                                                    *)

SkipB ==
    /\ pc = "recvB" /\ resB < 0
    /\ EndB(resB)
    /\ UNCHANGED <<mode, resF, bind, assoc, timeout, wake, envVars, ctl, stream, up, queue, back>>

RecvBFails ==
    /\ pc = "recvB" /\ resB >= 0 /\ Breaks
    /\ EndB(-1)
    /\ UNCHANGED <<mode, resF, bind, assoc, timeout, wake, envVars, ctl, stream, up, queue, back>>

RecvB ==
    /\ pc = "recvB" /\ resB >= 0
    /\ LET n == IF Len(queue) < Num THEN Len(queue) ELSE Num
       IN  /\ queue' = SubSeq(queue, n + 1, Len(queue))
           /\ \/ /\ n = 0
                 /\ EndB(0)
              \/ /\ n > 0
                 /\ pc' = "sendB"
                 /\ batch' = SubSeq(queue, 1, n)
                 /\ UNCHANGED resB
    /\ UNCHANGED <<mode, resF, bind, assoc, timeout, wake, envVars, ctl, stream, up, back>>

\* To a client on TCP, one message of all frames.  A send that the timer or
\* the connection ends may leave a part of it in the stream; what the timer
\* ends is told with a -1 of sendmmsg_tcp's own.
SendBStream(done) ==
    /\ pc = "sendB" /\ mode = "UDP_IN_TCP"
    /\ IF done
       THEN back' = back \o batch /\ EndB(1)
       ELSE /\ timeout >= 0 \/ gone
            /\ \E n \in 0..(Len(batch) - 1) :
                 back' \in {back \o SubSeq(batch, 1, n), back \o Append(SubSeq(batch, 1, n), Torn)}
            /\ \/ gone /\ EndB(-1)
               \/ timeout >= 0 /\ \E r \in StaleErrno : EndB(r)
    /\ MayMissWake
    /\ UNCHANGED <<mode, resF, bind, assoc, timeout, envVars, ctl, stream, up, queue>>

\* To a client on UDP, as SendF; without an association there is no address.
SendBDatagrams(n) ==
    /\ pc = "sendB" /\ mode = "UDP_IN_UDP"
    /\ n <= Len(batch)
    /\ n > 0 => assoc
    /\ back' = back \o SubSeq(batch, 1, n)
    /\ \/ /\ n < Len(batch) => Breaks \/ ~assoc
          /\ EndB(IF n > 0 THEN 1 ELSE -1)
          /\ WaitEnds
       \/ /\ n < Len(batch)
          /\ EndB(-1) \/ (n > 0 /\ EndB(1))
          /\ WaitFails
    /\ MayMissWake
    /\ UNCHANGED <<mode, resF, bind, assoc, envVars, stream, up, queue>>

-----------------------------------------------------------------------------
(* The end of a round of the loop, and the loop's wait.                     *)

\* Mutant of Turn: the task sleeps unless both directions got on.
TurnYieldsForBoth ==
    IF resF > 0 /\ resB > 0 THEN "yield"
    ELSE IF resF >= 0 \/ resB >= 0 THEN "waitio" ELSE "done"

\* Mutant of Turn: a direction that had nothing to do keeps the task running.
TurnSpins == IF resF >= 0 \/ resB >= 0 THEN "yield" ELSE "done"

Turn ==
    IF resF > 0 \/ resB > 0 THEN "yield"
    ELSE IF resF = 0 \/ resB = 0 THEN "waitio" ELSE "done"

\* Mutant of Yield: the control connection is not looked at.
YieldBlindly ==
    /\ pc = "turn"
    /\ pc' = CASE Turn = "yield" -> "recvF" [] Turn = "waitio" -> "waitio" [] OTHER -> "done"
    /\ IF Turn = "yield" THEN MayMissWake ELSE UNCHANGED wake
    /\ UNCHANGED <<mode, resF, resB, bind, assoc, timeout, batch, envVars, ctl, stream, up,
                   queue, back>>

\* The loop's own turn of the yielder, which reads a byte if there is one.
Yield ==
    /\ pc = "turn"
    /\ \/ /\ Turn = "done"
          /\ pc' = "done"
          /\ UNCHANGED <<timeout, ctl, wake>>
       \/ /\ Turn # "done" /\ ControlClosed
          /\ pc' = "done"
          /\ timeout' = 0
          /\ UNCHANGED <<ctl, wake>>
       \/ /\ Turn # "done" /\ ~ControlClosed
          /\ ctl' = IF ctl > 0 THEN ctl - 1 ELSE 0
          /\ pc' = IF Turn = "yield" THEN "recvF" ELSE "waitio"
          /\ IF Turn = "yield" THEN MayMissWake ELSE UNCHANGED wake
          /\ UNCHANGED timeout
    /\ UNCHANGED <<mode, resF, resB, bind, assoc, batch, envVars, stream, up, queue, back>>

Wakes ==
    /\ pc = "waitio" /\ wake
    /\ wake' = FALSE
    /\ pc' = "recvF"
    /\ UNCHANGED <<mode, resF, resB, bind, assoc, timeout, batch, envVars, ctl, stream, up,
                   queue, back>>

\* hev_task_sleep ran out.
TimerEnds ==
    /\ pc = "waitio" /\ timeout >= 0
    /\ pc' = "done"
    /\ UNCHANGED <<mode, resF, resB, bind, assoc, timeout, batch, wake, envVars, ctl, stream,
                   up, queue, back>>

-----------------------------------------------------------------------------
Loop ==
    \/ SkipF \/ RecvHeader \/ RecvRestOfHeader \/ RecvBody
    \/ RecvDatagrams \/ RecvDatagramsFails
    \/ PassOn \/ (\E n \in 0..Len(batch) : SendF(n))
    \/ SkipB \/ RecvB \/ RecvBFails
    \/ (\E done \in BOOLEAN : SendBStream(done))
    \/ (\E n \in 0..Len(batch) : SendBDatagrams(n))
    \/ Yield \/ Wakes \/ TimerEnds

Client ==
    \/ \E kind \in Kinds : ClientSends(kind)
    \/ ClientGoesOn \/ ClientWrites \/ ClientCloses

Next == Loop \/ Client \/ UpstreamAnswers

Spec == Init /\ [][Next]_vars

(* The task is scheduled when it can run and its timer runs out; a client   *)
(* that has begun a frame goes on with it.                                  *)
FairSpec == Spec /\ WF_vars(Loop) /\ WF_vars(ClientGoesOn)

-----------------------------------------------------------------------------
(* Type correctness.  No receive fills in more messages than there are copy *)
(* buffers (the loop of recvmmsg_tcp, recvmmsg).  What is sent may be       *)
(* longer all the same: a number of bytes that was taken for one of         *)
(* messages leads fwd_f past the end of its array, through messages that    *)
(* were never filled in, and only there.                                    *)
TypeOK ==
    /\ mode \in Modes
    /\ pc \in {"recvF", "restHead", "body", "pass", "sendF", "recvB", "sendB", "turn",
               "waitio", "done", "crash"}
    /\ resF \in -1..1 /\ resB \in -1..1
    /\ bind \in BOOLEAN /\ assoc \in BOOLEAN /\ wake \in BOOLEAN /\ gone \in BOOLEAN
    /\ timeout \in {UdpTimeout, 0} /\ ctl \in 0..MaxCtl
    /\ pc \notin {"pass", "sendF", "crash"} => Len(batch) <= Num
    /\ pc \in {"pass", "sendF", "crash"} =>
         \A i \in DOMAIN batch : i > Num => batch[i].kind = "unset"
    /\ Len(rest) <= 2 /\ sent \in 0..MaxUp /\ answered \in 0..MaxDown
    /\ up \in Seq(0..MaxUp) /\ queue \in Seq(1..MaxDown) /\ back \in Seq(0..MaxDown)

(* Answers are sent to a client on UDP only when its socket was connected   *)
(* by the client's own first datagram, whatever failed in between.          *)
AnswersHavePeer == pc = "sendB" /\ mode = "UDP_IN_UDP" => assoc /\ bind

Over == pc \in {"done", "crash"}

(* With a timeout a relay ends once its client is gone, whatever was on its *)
(* way, wherever the task stood and whatever hides the close; it does not   *)
(* run or wait for ever.  (Over counts the end of the process on a message  *)
(* that was never filled in, which needs a frame cut short by the close.)   *)
RelayEnds == gone ~> Over

(* Without one the end of the control connection still ends it, if nothing  *)
(* unread was before it: the close is an event, and no wait, yield or       *)
(* failure between that event and the task's next look at the connection    *)
(* loses it.  Behind unread bytes the end may stay unseen for good.         *)
ControlEnds == mode = "UDP_IN_UDP" /\ gone /\ ctl = 0 /\ wake ~> pc = "done"

(* A packet that the client has sent is taken from its socket, unless the   *)
(* forward direction is dead: the task never sleeps over it.  One case is   *)
(* left out because the code does: when a client resets its TCP connection  *)
(* while an answer to it waits to be sent, the wait of the backward         *)
(* direction uses up the event of what the client had sent before.          *)
DatagramTaken ==
    \A i \in 1..MaxUp :
      sent >= i ~> \/ \A k \in DOMAIN stream : stream[k].id > i
                   \/ resF < 0 \/ Over
                   \/ mode = "UDP_IN_TCP" /\ gone /\ resB < 0

(* An answer that has come is passed on to the client, unless that has gone *)
(* or the relay is over: the task does not sleep over it either, and an     *)
(* answer that came while another was being sent is not left behind.        *)
AnswerDelivered ==
    \A i \in 1..MaxDown :
      answered >= i ~> (\E k \in DOMAIN back : back[k] = i) \/ gone \/ Over

(* As long as packets fit, no call on a socket fails and no timer runs, the *)
(* relay is two channels: each packet goes upstream once and in the order   *)
(* sent, each answer comes back so, whatever pieces they arrive in and      *)
(* however they are batched.  A client that breaks its stream off between   *)
(* two frames leaves it at that.  Within a frame it is the one way to       *)
(* messages nobody sent: they are the last that goes upstream, whole        *)
(* packets before them are not mixed with them.  An answer that the end of  *)
(* the connection tore is the last thing in the client's stream.            *)
Channel == INSTANCE Socks5Channel WITH broken <- gone /\ rest # <<>>

KeepsChannel == Channel!Spec

(* Only messages that the client sent ever go upstream.                     *)
OnlyClientsPackets == \A i \in DOMAIN up : up[i] # Garbage

=============================================================================
