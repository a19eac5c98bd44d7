---------------------------- MODULE Socks5Server ----------------------------
(***************************************************************************)
(* The sessions of a SOCKS5 server (hev-socks5-server.c over hev-socks5.c, *)
(* hev-socks5-misc.c): each is one HevSocks5Server object run by a task of *)
(* its own.  They share the process's descriptor table.                    *)
(*                                                                         *)
(* A step is the code of a session from one wait for the network (or one   *)
(* system call that takes or returns a descriptor) to the next.  What the  *)
(* peer sends, whether it reads, and what the kernel and the resolver      *)
(* answer are parameters of the actions: Next lets them be anything, and a *)
(* module that composes the server with a client supplies them.            *)
(***************************************************************************)
EXTENDS Integers, Sequences, Socks5Base

CONSTANTS
    Sessions,        \* objects the application may have alive at once
    Fds,             \* the descriptors of the process
    NoFd,            \* -1
    Users,           \* the names in the authenticator
    Passwords,
    PassOf,          \* the password of each user
    Names, Passes,   \* what a peer may send as name and password
    Empty,           \* the name or password of length 0
    NoObj, AuthObj,  \* the union obj/auth/user: NULL, the authenticator
    ConnectTimeout, TcpTimeout, UdpTimeout

ASSUME FdAssumption == NoFd \notin Fds

ASSUME AccountAssumption ==
    /\ PassOf \in [Users -> Passwords]
    /\ NoObj \notin Users
    /\ AuthObj \notin Users
    /\ NoObj # AuthObj

ASSUME TimeoutAssumption ==
    /\ ConnectTimeout \in Int
    /\ TcpTimeout \in Int
    /\ UdpTimeout \in Int

VARIABLES
    pc,        \* where the task of each session stands
    type,      \* self->base.type
    timeout,   \* self->base.timeout
    family,    \* self->base.addr_family
    obj,       \* self->obj: NULL, the authenticator, then the user
    fd,        \* the descriptors the session holds, by slot
    open,      \* the descriptors that are open in the process
    reply,     \* the local variable (method, res or rep) next to be written
    cmd,       \* the local variable cmd of the handshake
    out        \* the replies sent so far (a history: no code reads it)

vars == <<pc, type, timeout, family, obj, fd, open, reply, cmd, out>>

\* The places where a session keeps a descriptor: base.fd, fds[0], fds[1] and
\* the local variable of hev_socks5_server_connect while it waits.
Slots == {"ctl", "fds0", "fds1", "conn"}

NoFds == [k \in Slots |-> NoFd]

\* Where a task waits for its peer, with the session's timer.
PeerWaits == {"readMethod", "writeMethod", "readUser", "writeUser",
              "readRequest", "connecting", "writeResponse"}

Pcs == {"none", "new", "resolve", "dispatch", "service", "splice", "fini"}
         \cup PeerWaits

MethodReply(m) == [kind |-> "method", code |-> ToByte(m)]
AuthReply(r) == [kind |-> "auth", code |-> ToByte(r)]
Response(r) == [kind |-> "response", code |-> ToByte(r)]

-----------------------------------------------------------------------------
(* The messages of a peer.  `got` says how the wait for the message ended. *)

Hellos == [got : Outcomes, ver : {4, Ver5}, methods : SUBSET {MethodNone, MethodUser}]

Creds == [got : Outcomes, ver : {0, AuthVer1}, name : Names, pass : Passes]

\* `rest` is the end of the second wait, for the bytes that follow the first
\* five.
Requests == [got : Outcomes, rest : Outcomes, ver : {4, Ver5},
             cmd : {CmdConnect, CmdUdpAsc, CmdFwdUdp, 2}, atype : AddrTypes]

-----------------------------------------------------------------------------
Goto(s, where) == pc' = [pc EXCEPT ![s] = where]

ArmTimeout(s, t) == timeout' = [timeout EXCEPT ![s] = SetTimeout(@, t)]

Hold(s, slot, f) == fd' = [fd EXCEPT ![s] = [@ EXCEPT ![slot] = f]]

Say(s, message, outcome) ==
    out' = IF outcome = "done" THEN [out EXCEPT ![s] = Append(@, message)] ELSE out

Init ==
    /\ pc = [s \in Sessions |-> "none"]
    /\ type = [s \in Sessions |-> "NONE"]
    /\ timeout = [s \in Sessions |-> -1]
    /\ family = [s \in Sessions |-> "unspec"]
    /\ obj = [s \in Sessions |-> NoObj]
    /\ fd = [s \in Sessions |-> NoFds]
    /\ open = {}
    /\ reply = [s \in Sessions |-> 0]
    /\ cmd = [s \in Sessions |-> 0]
    /\ out = [s \in Sessions |-> <<>>]

(* hev_socks5_server_new: the application passes the descriptor f of a      *)
(* connection it has just accepted.                                         *)
New(s, f) ==
    /\ pc[s] = "none"
    /\ f \in Fds \ open
    /\ open' = open \cup {f}
    /\ type' = [type EXCEPT ![s] = "NONE"]
    /\ timeout' = [timeout EXCEPT ![s] = -1]
    /\ family' = [family EXCEPT ![s] = "unspec"]
    /\ obj' = [obj EXCEPT ![s] = NoObj]
    /\ fd' = [fd EXCEPT ![s] = [NoFds EXCEPT !["ctl"] = f]]
    /\ out' = [out EXCEPT ![s] = <<>>]
    /\ Goto(s, "new")
    /\ UNCHANGED <<reply, cmd>>

SetAuth(s) ==
    /\ pc[s] = "new"
    /\ obj' = [obj EXCEPT ![s] = AuthObj]
    /\ UNCHANGED <<pc, type, timeout, family, fd, open, reply, cmd, out>>

\* Mutant of Run: the timeout of the constructor stays.
RunWithoutTimeout(s) ==
    /\ pc[s] = "new"
    /\ Goto(s, "readMethod")
    /\ UNCHANGED <<type, timeout, family, obj, fd, open, reply, cmd, out>>

(* hev_socks5_server_run, up to the first wait of the handshake.            *)
Run(s) ==
    /\ pc[s] = "new"
    /\ ArmTimeout(s, TcpTimeout)
    /\ Goto(s, "readMethod")
    /\ UNCHANGED <<type, family, obj, fd, open, reply, cmd, out>>

\* Mutant of Wanted: the authenticator is not looked at.
WantedAlwaysNone(s) == MethodNone

Wanted(s) == IF obj[s] = NoObj THEN MethodNone ELSE MethodUser

\* Mutant of ReadAuthMethod: a refusal is the code point that is to be sent.
ReadAuthMethodOrDeny(s, in) ==
    /\ pc[s] = "readMethod"
    /\ MayEnd(in.got, timeout[s])
    /\ LET agreed == in.got = "done" /\ in.ver = Ver5 /\ Wanted(s) \in in.methods
       IN  reply' = [reply EXCEPT ![s] = IF agreed THEN Wanted(s) ELSE MethodDeny]
    /\ Goto(s, "writeMethod")
    /\ UNCHANGED <<type, timeout, family, obj, fd, open, cmd, out>>

ReadAuthMethod(s, in) ==
    /\ pc[s] = "readMethod"
    /\ MayEnd(in.got, timeout[s])
    /\ LET agreed == in.got = "done" /\ in.ver = Ver5 /\ Wanted(s) \in in.methods
       IN  reply' = [reply EXCEPT ![s] = IF agreed THEN Wanted(s) ELSE -1]
    /\ Goto(s, "writeMethod")
    /\ UNCHANGED <<type, timeout, family, obj, fd, open, cmd, out>>

(* The method is written whatever was read: -1 leaves as 255.  The switch   *)
(* of hev_socks5_server_auth follows.                                       *)
WriteAuthMethod(s, outcome) ==
    /\ pc[s] = "writeMethod"
    /\ MayEnd(outcome, timeout[s])
    /\ Say(s, MethodReply(reply[s]), outcome)
    /\ Goto(s, CASE outcome # "done" -> "fini"
                 [] outcome = "done" /\ reply[s] = MethodNone -> "readRequest"
                 [] outcome = "done" /\ reply[s] = MethodUser -> "readUser"
                 [] OTHER -> "fini")
    /\ UNCHANGED <<type, timeout, family, obj, fd, open, reply, cmd>>

\* Mutant of Genuine: a known name is enough.
KnownName(in) ==
    /\ in.got = "done"
    /\ in.ver = AuthVer1
    /\ in.name # Empty
    /\ in.pass # Empty
    /\ in.name \in Users

\* hev_socks5_authenticator_get, then hev_socks5_user_check
Genuine(in) ==
    /\ in.got = "done"
    /\ in.ver = AuthVer1
    /\ in.name # Empty
    /\ in.pass # Empty
    /\ in.name \in Users
    /\ PassOf[in.name] = in.pass

(* The authenticator in the object's union gives way to the user.           *)
ReadAuthUser(s, in) ==
    /\ pc[s] = "readUser"
    /\ MayEnd(in.got, timeout[s])
    /\ reply' = [reply EXCEPT ![s] = IF Genuine(in) THEN 0 ELSE -1]
    /\ obj' = IF Genuine(in) THEN [obj EXCEPT ![s] = in.name] ELSE obj
    /\ Goto(s, "writeUser")
    /\ UNCHANGED <<type, timeout, family, fd, open, cmd, out>>

\* Mutant of WriteAuthUser: `res = write (res)`.
WriteAuthUserOverwrites(s, outcome) ==
    /\ pc[s] = "writeUser"
    /\ MayEnd(outcome, timeout[s])
    /\ Say(s, AuthReply(reply[s]), outcome)
    /\ Goto(s, IF outcome = "done" THEN "readRequest" ELSE "fini")
    /\ UNCHANGED <<type, timeout, family, obj, fd, open, reply, cmd>>

(* `res |= write (res)`: the reply goes out, and either failure is final.   *)
WriteAuthUser(s, outcome) ==
    /\ pc[s] = "writeUser"
    /\ MayEnd(outcome, timeout[s])
    /\ Say(s, AuthReply(reply[s]), outcome)
    /\ Goto(s, IF outcome = "done" /\ reply[s] = 0 THEN "readRequest" ELSE "fini")
    /\ UNCHANGED <<type, timeout, family, obj, fd, open, reply, cmd>>

\* What hev_socks5_server_read_request makes of the bytes, before it resolves
\* a name.
RequestRep(in) ==
    CASE in.ver # Ver5 -> RepFail
      [] in.ver = Ver5 /\ in.atype = "bad" -> RepAddr
      [] in.ver = Ver5 /\ in.atype # "bad" /\ in.rest # "done" -> RepAddr
      [] OTHER -> RepSucc

(* Nothing is answered when the first five bytes do not arrive.             *)
LoseRequest(s, in) ==
    /\ pc[s] = "readRequest"
    /\ in.got # "done"
    /\ MayEnd(in.got, timeout[s])
    /\ Goto(s, "fini")
    /\ UNCHANGED <<type, timeout, family, obj, fd, open, reply, cmd, out>>

RefuseRequest(s, in) ==
    /\ pc[s] = "readRequest"
    /\ in.got = "done"
    /\ RequestRep(in) # RepSucc
    /\ MayEnd(in.rest, timeout[s])
    /\ reply' = [reply EXCEPT ![s] = RequestRep(in)]
    /\ Goto(s, "writeResponse")
    /\ UNCHANGED <<type, timeout, family, obj, fd, open, cmd, out>>

AcceptRequest(s, in) ==
    /\ pc[s] = "readRequest"
    /\ in.got = "done"
    /\ RequestRep(in) = RepSucc
    /\ reply' = [reply EXCEPT ![s] = RepSucc]
    /\ cmd' = [cmd EXCEPT ![s] = in.cmd]
    /\ family' = IF in.atype = "name" THEN family
                 ELSE [family EXCEPT ![s] = in.atype]
    /\ Goto(s, IF in.atype = "name" THEN "resolve" ELSE "dispatch")
    /\ UNCHANGED <<type, timeout, obj, fd, open, out>>

ReadRequest(s, in) ==
    LoseRequest(s, in) \/ RefuseRequest(s, in) \/ AcceptRequest(s, in)

(* The resolver answers with an address of some family, or "none".  The     *)
(* session's timer does not run here.                                       *)
Resolve(s, answer) ==
    /\ pc[s] = "resolve"
    /\ IF answer \in Families
       THEN /\ family' = [family EXCEPT ![s] = answer]
            /\ Goto(s, "dispatch")
            /\ UNCHANGED reply
       ELSE /\ reply' = [reply EXCEPT ![s] = RepAddr]
            /\ Goto(s, "writeResponse")
            /\ UNCHANGED family
    /\ UNCHANGED <<type, timeout, obj, fd, open, cmd, out>>

-----------------------------------------------------------------------------
(* The switch of hev_socks5_server_handshake.  A command sets the type of   *)
(* the session whether it succeeds or not.                                  *)

\* Mutant of OpenUpstreamFails: the result of connect is not looked at.
OpenUpstreamFailsUnnoticed(s) ==
    /\ pc[s] = "dispatch"
    /\ cmd[s] = CmdConnect
    /\ type' = [type EXCEPT ![s] = "TCP"]
    /\ Goto(s, "writeResponse")
    /\ UNCHANGED <<timeout, family, obj, fd, open, reply, cmd, out>>

(* hev_socks5_server_connect fails before it waits: no descriptor is left,  *)
(* or the binder refuses and the socket is closed again.                    *)
OpenUpstreamFails(s) ==
    /\ pc[s] = "dispatch"
    /\ cmd[s] = CmdConnect
    /\ reply' = [reply EXCEPT ![s] = RepHost]
    /\ type' = [type EXCEPT ![s] = "TCP"]
    /\ Goto(s, "writeResponse")
    /\ UNCHANGED <<timeout, family, obj, fd, open, cmd, out>>

OpenUpstream(s, f) ==
    /\ pc[s] = "dispatch"
    /\ cmd[s] = CmdConnect
    /\ f \in Fds \ open
    /\ open' = open \cup {f}
    /\ Hold(s, "conn", f)
    /\ ArmTimeout(s, ConnectTimeout)
    /\ Goto(s, "connecting")
    /\ UNCHANGED <<type, family, obj, reply, cmd, out>>

\* Mutant of Connected: the connect timeout stays in force.
ConnectedKeepsTimeout(s) ==
    /\ pc[s] = "connecting"
    /\ fd' = [fd EXCEPT ![s] = [@ EXCEPT !["fds0"] = fd[s]["conn"], !["conn"] = NoFd]]
    /\ type' = [type EXCEPT ![s] = "TCP"]
    /\ Goto(s, "writeResponse")
    /\ UNCHANGED <<timeout, family, obj, open, reply, cmd, out>>

Connected(s) ==
    /\ pc[s] = "connecting"
    /\ ArmTimeout(s, TcpTimeout)
    /\ fd' = [fd EXCEPT ![s] = [@ EXCEPT !["fds0"] = fd[s]["conn"], !["conn"] = NoFd]]
    /\ type' = [type EXCEPT ![s] = "TCP"]
    /\ Goto(s, "writeResponse")
    /\ UNCHANGED <<family, obj, open, reply, cmd, out>>

ConnectFails(s, outcome) ==
    /\ pc[s] = "connecting"
    /\ outcome # "done"
    /\ MayEnd(outcome, timeout[s])
    /\ open' = open \ {fd[s]["conn"]}
    /\ Hold(s, "conn", NoFd)
    /\ reply' = [reply EXCEPT ![s] = RepHost]
    /\ type' = [type EXCEPT ![s] = "TCP"]
    /\ Goto(s, "writeResponse")
    /\ UNCHANGED <<timeout, family, obj, cmd, out>>

UdpType == [c \in {CmdUdpAsc, CmdFwdUdp} |->
              IF c = CmdUdpAsc THEN "UDP_IN_UDP" ELSE "UDP_IN_TCP"]

(* hev_socks5_server_bind does not wait.  When it cannot have the socket    *)
(* towards the client it leaves the upstream socket in fds[0].              *)
BindFails(s) ==
    /\ pc[s] = "dispatch"
    /\ cmd[s] \in {CmdUdpAsc, CmdFwdUdp}
    /\ \/ UNCHANGED <<fd, open>>
       \/ /\ cmd[s] = CmdUdpAsc
          /\ \E f \in Fds \ open : open' = open \cup {f} /\ Hold(s, "fds0", f)
    /\ reply' = [reply EXCEPT ![s] = RepFail]
    /\ type' = [type EXCEPT ![s] = UdpType[cmd[s]]]
    /\ Goto(s, "writeResponse")
    /\ UNCHANGED <<timeout, family, obj, cmd, out>>

BindUpstream(s, f) ==
    /\ pc[s] = "dispatch"
    /\ cmd[s] = CmdFwdUdp
    /\ f \in Fds \ open
    /\ open' = open \cup {f}
    /\ Hold(s, "fds0", f)
    /\ type' = [type EXCEPT ![s] = UdpType[cmd[s]]]
    /\ Goto(s, "writeResponse")
    /\ UNCHANGED <<timeout, family, obj, reply, cmd, out>>

BindBoth(s, f, g) ==
    /\ pc[s] = "dispatch"
    /\ cmd[s] = CmdUdpAsc
    /\ f \in Fds \ open
    /\ g \in Fds \ (open \cup {f})
    /\ open' = open \cup {f, g}
    /\ fd' = [fd EXCEPT ![s] = [@ EXCEPT !["fds0"] = f, !["fds1"] = g]]
    /\ type' = [type EXCEPT ![s] = UdpType[cmd[s]]]
    /\ Goto(s, "writeResponse")
    /\ UNCHANGED <<timeout, family, obj, reply, cmd, out>>

UnknownCommand(s) ==
    /\ pc[s] = "dispatch"
    /\ cmd[s] \notin {CmdConnect, CmdUdpAsc, CmdFwdUdp}
    /\ reply' = [reply EXCEPT ![s] = RepImpl]
    /\ Goto(s, "writeResponse")
    /\ UNCHANGED <<type, timeout, family, obj, fd, open, cmd, out>>

Dispatch(s) ==
    \/ OpenUpstreamFails(s)
    \/ BindFails(s)
    \/ UnknownCommand(s)
    \/ \E f \in Fds : OpenUpstream(s, f) \/ BindUpstream(s, f)
    \/ \E f, g \in Fds : BindBoth(s, f, g)

WriteResponse(s, outcome) ==
    /\ pc[s] = "writeResponse"
    /\ MayEnd(outcome, timeout[s])
    /\ Say(s, Response(reply[s]), outcome)
    /\ Goto(s, IF outcome = "done" /\ reply[s] = RepSucc THEN "service" ELSE "fini")
    /\ UNCHANGED <<type, timeout, family, obj, fd, open, reply, cmd>>

(* hev_socks5_server_service, up to the relay's first wait.                 *)
Service(s) ==
    /\ pc[s] = "service"
    /\ IF type[s] \in {"UDP_IN_TCP", "UDP_IN_UDP"}
       THEN ArmTimeout(s, UdpTimeout)
       ELSE UNCHANGED timeout
    /\ Goto(s, IF type[s] = "NONE" THEN "fini" ELSE "splice")
    /\ UNCHANGED <<type, family, obj, fd, open, reply, cmd, out>>

(* The relay returns.  When it carries UDP beside the control connection it *)
(* may have zeroed the timeout on the way (hev-socks5-udp.c, the yielder).  *)
SpliceEnds(s) ==
    /\ pc[s] = "splice"
    /\ \/ UNCHANGED timeout
       \/ type[s] = "UDP_IN_UDP" /\ ArmTimeout(s, 0)
    /\ Goto(s, "fini")
    /\ UNCHANGED <<type, family, obj, fd, open, reply, cmd, out>>

\* Mutant of Closed: the socket towards the UDP client is forgotten.
ClosedButOne(s) == {fd[s][k] : k \in {"fds0", "ctl"}}

(* The destructors of the server and of the base object close what is set;  *)
(* the object, and the task's locals, are gone.                             *)
Closed(s) == {fd[s][k] : k \in {"fds0", "fds1", "ctl"}}

Destruct(s) ==
    /\ pc[s] \in {"new", "fini"}
    /\ open' = open \ Closed(s)
    /\ fd' = [fd EXCEPT ![s] = NoFds]
    /\ obj' = [obj EXCEPT ![s] = NoObj]
    /\ type' = [type EXCEPT ![s] = "NONE"]
    /\ timeout' = [timeout EXCEPT ![s] = -1]
    /\ family' = [family EXCEPT ![s] = "unspec"]
    /\ reply' = [reply EXCEPT ![s] = 0]
    /\ cmd' = [cmd EXCEPT ![s] = 0]
    /\ out' = [out EXCEPT ![s] = <<>>]
    /\ Goto(s, "none")

-----------------------------------------------------------------------------
Step(s) ==
    \/ \E f \in Fds : New(s, f)
    \/ SetAuth(s)
    \/ Run(s)
    \/ \E in \in Hellos : ReadAuthMethod(s, in)
    \/ \E in \in Creds : ReadAuthUser(s, in)
    \/ \E in \in Requests : ReadRequest(s, in)
    \/ \E o \in Outcomes :
         WriteAuthMethod(s, o) \/ WriteAuthUser(s, o) \/ WriteResponse(s, o)
    \/ \E answer \in Families \cup {"none"} : Resolve(s, answer)
    \/ Dispatch(s)
    \/ Connected(s)
    \/ \E o \in Outcomes : ConnectFails(s, o)
    \/ Service(s)
    \/ SpliceEnds(s)
    \/ Destruct(s)

Next == \E s \in Sessions : Step(s)

(* The timer of the wait a session is in.                                   *)
TimerFires(s) ==
    \/ \E in \in Hellos : in.got = "timer" /\ ReadAuthMethod(s, in)
    \/ \E in \in Creds : in.got = "timer" /\ ReadAuthUser(s, in)
    \/ \E in \in Requests : in.got = "timer" /\ ReadRequest(s, in)
    \/ WriteAuthMethod(s, "timer")
    \/ WriteAuthUser(s, "timer")
    \/ WriteResponse(s, "timer")
    \/ ConnectFails(s, "timer")

(* The scheduler runs a task that does not wait; armed timers fire; the     *)
(* resolver answers.  Nothing is assumed of the peer or the application.    *)
Fairness ==
    \A s \in Sessions :
      /\ WF_vars(TimerFires(s))
      /\ WF_vars(Dispatch(s))
      /\ WF_vars(Service(s))
      /\ WF_vars(\E answer \in Families \cup {"none"} : Resolve(s, answer))

Spec == Init /\ [][Next]_vars

FairSpec == Spec /\ Fairness

-----------------------------------------------------------------------------
(* Type correctness: descriptors, replies and timeouts stay in range.       *)
TypeOK ==
    /\ pc \in [Sessions -> Pcs]
    /\ type \in [Sessions -> Types]
    /\ timeout \in [Sessions -> {-1, 0, ConnectTimeout, TcpTimeout, UdpTimeout}]
    /\ family \in [Sessions -> Families \cup {"unspec"}]
    /\ obj \in [Sessions -> Users \cup {NoObj, AuthObj}]
    /\ fd \in [Sessions -> [Slots -> Fds \cup {NoFd}]]
    /\ open \in SUBSET Fds
    /\ reply \in [Sessions -> Reps \cup {-1, MethodUser}]
    /\ cmd \in [Sessions -> {0, CmdConnect, CmdUdpAsc, CmdFwdUdp, 2}]
    /\ out \in [Sessions -> Seq([kind : {"method", "auth", "response"}, code : Int])]

(* Every open descriptor of the process is held in one place of one session *)
(* and every descriptor held is open: the failure paths of connect and bind *)
(* and the destructors neither leak one, nor close one twice, which could   *)
(* be another session's by then.                                            *)
FdOwnership ==
    /\ \A f \in Fds : f \in open <=> \E s \in Sessions, k \in Slots : fd[s][k] = f
    /\ \A s, t \in Sessions : \A k, l \in Slots :
         fd[s][k] = fd[t][l] /\ fd[s][k] # NoFd => s = t /\ k = l

(* While a session holds the authenticator its peer has not been told that  *)
(* it passed, nothing has been done for it and no response was sent; a      *)
(* session whose object holds a user has told the peer of that user's       *)
(* success, is about to, or could not.                                      *)
GateIsShut(s) ==
    /\ fd[s]["fds0"] = NoFd /\ fd[s]["fds1"] = NoFd /\ fd[s]["conn"] = NoFd
    /\ type[s] = "NONE"
    /\ \A i \in DOMAIN out[s] : out[s][i] # AuthReply(0) /\ out[s][i].kind # "response"

AuthGate ==
    \A s \in Sessions :
      /\ obj[s] = AuthObj => GateIsShut(s)
      /\ obj[s] \in Users =>
           \/ \E i \in DOMAIN out[s] : out[s][i] = AuthReply(0)
           \/ pc[s] = "writeUser" /\ reply[s] = 0
           \/ pc[s] = "fini" /\ Len(out[s]) = 1

(* A peer that was told of success has what it asked for: the descriptors   *)
(* that the relay uses (the argument of the splice and get_fd) are held and *)
(* are different ones; a socket towards a UDP client exists in that mode    *)
(* only.                                                                    *)
Told(s) == \E i \in DOMAIN out[s] : out[s][i] = Response(RepSucc)

\* hev_socks5_server_get_fd, and the connection itself for TCP
ClientFd(s) == IF type[s] = "UDP_IN_UDP" THEN fd[s]["fds1"] ELSE fd[s]["ctl"]

ReadyWhenTold ==
    \A s \in Sessions :
      pc[s] # "none" /\ Told(s) =>
        /\ pc[s] \in {"service", "splice", "fini"}
        /\ type[s] # "NONE"
        /\ fd[s]["fds0"] \in open
        /\ ClientFd(s) \in open
        /\ ClientFd(s) # fd[s]["fds0"]
        /\ (fd[s]["fds1"] # NoFd) <=> (type[s] = "UDP_IN_UDP")

(* Where a session stands tells what it holds, what it has said and what it *)
(* owes: nothing before the dispatch, a connecting socket while it          *)
(* connects, all that its type needs once it is to report success.  This is *)
(* the inductive invariant behind AuthGate and ReadyWhenTold.               *)
Passed(s) == IF obj[s] = NoObj THEN <<MethodReply(MethodNone)>>
             ELSE <<MethodReply(MethodUser), AuthReply(0)>>

HoldsNothing(s) ==
    /\ fd[s]["fds0"] = NoFd /\ fd[s]["fds1"] = NoFd /\ fd[s]["conn"] = NoFd
    /\ type[s] = "NONE"

IsReady(s) ==
    /\ fd[s]["fds0"] # NoFd
    /\ fd[s]["conn"] = NoFd
    /\ type[s] # "NONE"
    /\ (fd[s]["fds1"] # NoFd) <=> (type[s] = "UDP_IN_UDP")

\* How a session may have ended: before the gate, at it, or past it.
Ended(s) ==
    \/ /\ out[s] \in {<<>>, <<MethodReply(-1)>>}
       /\ obj[s] \in {NoObj, AuthObj}
       /\ HoldsNothing(s)
    \/ /\ out[s] = <<MethodReply(MethodUser)>>
       /\ obj[s] # NoObj
       /\ HoldsNothing(s)
    \/ /\ out[s] = <<MethodReply(MethodUser), AuthReply(-1)>>
       /\ obj[s] = AuthObj
       /\ HoldsNothing(s)
    \/ out[s] = Passed(s) /\ obj[s] # AuthObj
    \/ \E r \in Reps :
         /\ out[s] = Append(Passed(s), Response(r))
         /\ obj[s] # AuthObj
         /\ r = RepSucc => IsReady(s)

SessionInv(s) ==
    /\ pc[s] = "none" =>
         fd[s] = NoFds /\ out[s] = <<>> /\ obj[s] = NoObj
    /\ pc[s] # "none" => fd[s]["ctl"] # NoFd
    /\ pc[s] \notin {"connecting", "writeResponse", "service", "splice", "fini"} =>
         HoldsNothing(s)
    /\ pc[s] \in {"new", "readMethod", "writeMethod"} =>
         out[s] = <<>> /\ obj[s] \in {NoObj, AuthObj}
    /\ pc[s] = "writeMethod" => reply[s] \in {-1, Wanted(s)}
    /\ pc[s] \in {"readUser", "writeUser"} => out[s] = <<MethodReply(MethodUser)>>
    /\ pc[s] = "readUser" => obj[s] = AuthObj
    /\ pc[s] = "writeUser" => \/ reply[s] = 0 /\ obj[s] \in Users
                              \/ reply[s] = -1 /\ obj[s] = AuthObj
    /\ pc[s] \in {"readRequest", "resolve", "dispatch", "connecting", "writeResponse"} =>
         out[s] = Passed(s) /\ obj[s] # AuthObj
    /\ pc[s] \in {"resolve", "dispatch", "connecting"} => reply[s] = RepSucc
    /\ pc[s] = "connecting" =>
         /\ fd[s]["conn"] # NoFd /\ fd[s]["fds0"] = NoFd /\ fd[s]["fds1"] = NoFd
         /\ type[s] = "NONE"
    /\ pc[s] = "writeResponse" =>
         /\ fd[s]["conn"] = NoFd
         /\ reply[s] \in Reps
         /\ reply[s] = RepSucc => IsReady(s)
    /\ pc[s] \in {"service", "splice"} =>
         /\ out[s] = Append(Passed(s), Response(RepSucc))
         /\ obj[s] # AuthObj
         /\ IsReady(s)
    /\ pc[s] = "fini" => fd[s]["conn"] = NoFd /\ Ended(s)

SessionsInv == \A s \in Sessions : SessionInv(s)

(* The timer in force is the one of the phase: the connect timeout bounds   *)
(* the connect and, when it fails, the response about it; every other wait  *)
(* of the handshake is bounded by the TCP timeout and the relay by that of  *)
(* its kind.  (For settings that are positive.)                             *)
TimeoutFitsPhase ==
    \A s \in Sessions :
      LET failed == pc[s] = "writeResponse" /\ reply[s] = RepHost
      IN  /\ pc[s] = "connecting" => timeout[s] = ConnectTimeout
          /\ failed => timeout[s] \in {ConnectTimeout, TcpTimeout}
          /\ pc[s] \in PeerWaits \ {"connecting"} /\ ~failed => timeout[s] = TcpTimeout
          /\ pc[s] = "splice" =>
               timeout[s] = IF type[s] = "TCP" THEN TcpTimeout ELSE UdpTimeout

(* Whatever its peer does or fails to do, a handshake that has begun ends:  *)
(* the session comes to its relay or to its end.                            *)
HandshakeEnds ==
    \A s \in Sessions : pc[s] = "readMethod" ~> pc[s] \in {"splice", "fini"}

(* The replies of a session keep to the dialogue of the protocol.           *)
Phase(s) ==
    CASE pc[s] = "none" -> "idle"
      [] pc[s] = "new" -> "ready"
      [] pc[s] = "splice" -> "relaying"
      [] pc[s] = "fini" -> "closed"
      [] OTHER -> "talking"

Dialogue ==
    INSTANCE Socks5Dialogue WITH
      phase <- [s \in Sessions |-> Phase(s)],
      guarded <- [s \in Sessions |-> obj[s] # NoObj],
      said <- out

KeepsToDialogue == Dialogue!Spec
=============================================================================
