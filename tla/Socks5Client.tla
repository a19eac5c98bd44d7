---------------------------- MODULE Socks5Client ----------------------------
(***************************************************************************)
(* A SOCKS5 client object, from its construction to its destruction: the   *)
(* connect, the two forms of the handshake (hev-socks5-client.c) and what  *)
(* its TCP and UDP classes add (hev-socks5-client-tcp.c, -udp.c).          *)
(*                                                                         *)
(* The application calls connect, then handshake at most once, and does    *)
(* not look at what connect returned, as the examples of the README do.    *)
(* What the server answers and the kernel does are parameters of the       *)
(* actions; Next lets them be anything.                                    *)
(***************************************************************************)
EXTENDS Integers, Sequences, Socks5Base

CONSTANTS
    Fds, NoFd,
    Logins,          \* the pairs of user and password it may be given
    NoLogin,         \* auth.user = NULL
    ConnectTimeout, TcpTimeout, UdpTimeout

ASSUME FdAssumption == NoFd \notin Fds

ASSUME TimeoutAssumption ==
    /\ ConnectTimeout \in Int
    /\ TcpTimeout \in Int
    /\ UdpTimeout \in Int

VARIABLES
    pc,
    type,      \* self->base.type
    target,    \* the kind of address a TCP client was made with
    pipeline,  \* the argument of hev_socks5_client_handshake
    creds,     \* self->auth
    timeout,   \* self->base.timeout
    family,    \* self->base.addr_family
    fd,        \* the descriptors of the object, by slot
    open,      \* the descriptors that are open
    addr,      \* where the memory of the upstream address is
    assoc,     \* self->base.udp_associated
    ret        \* what the handshake has returned

vars == <<pc, type, target, pipeline, creds, timeout, family, fd, open, addr, assoc, ret>>

\* base.fd, the fd of HevSocks5ClientUDP, and connect's local variable.
Slots == {"ctl", "udp", "conn"}

NoFds == [k \in Slots |-> NoFd]

PeerWaits == {"connecting", "sendMethods", "readMethod", "sendCreds",
              "readCreds", "sendRequest", "readResponse"}

Pcs == {"new", "resolve", "socket", "idle", "returned", "gone"} \cup PeerWaits

\* The object owns the address until the request is written; "leaked" is the
\* address that no pointer refers to any more.
AddrStates == {"none", "object", "freed", "leaked"}

-----------------------------------------------------------------------------
(* What a server may answer; `got` (and `rest`, for the address of the      *)
(* response) is the end of the wait.                                        *)

MethodReplies == [got : Outcomes, ver : {4, Ver5},
                  method : {MethodNone, 1, MethodUser, MethodDeny}]

AuthReplies == [got : Outcomes, ver : {AuthVer1, Ver5}, rep : {0, 255}]

Responses == [got : Outcomes, rest : Outcomes, ver : {4, Ver5},
              rep : {RepSucc, RepHost}, atype : AddrTypes]

-----------------------------------------------------------------------------
\* Mutant of ArmTimeout: only a zero timeout is replaced.
ArmTimeoutInverted(t) == timeout' = IF timeout = 0 THEN t ELSE timeout

\* Mutant of ArmTimeout: seconds are taken for milliseconds.
ArmTimeoutInSeconds(t) == timeout' = SetTimeout(timeout, 1000 * t)

ArmTimeout(t) == timeout' = SetTimeout(timeout, t)

\* hev_socks5_construct and the constructors above it.
Init ==
    /\ pc = "new"
    /\ type \in Types \ {"NONE"}
    /\ target \in IF type = "TCP" THEN AddrTypes \ {"bad"} ELSE {"bad"}
    /\ pipeline = FALSE
    /\ creds = NoLogin
    /\ timeout = -1
    /\ family = "unspec"
    /\ fd = NoFds
    /\ open = {}
    /\ addr = IF type = "TCP" THEN "object" ELSE "none"
    /\ assoc = FALSE
    /\ ret = "none"

SetAuth(c) ==
    /\ pc = "new"
    /\ creds' = c
    /\ UNCHANGED <<pc, type, target, pipeline, timeout, family, fd, open, addr, assoc, ret>>

(* hev_socks5_client_connect, to the resolver's answer, to the end of the   *)
(* connect.                                                                 *)
Connect ==
    /\ pc = "new"
    /\ ArmTimeout(ConnectTimeout)
    /\ pc' = "resolve"
    /\ UNCHANGED <<type, target, pipeline, creds, family, fd, open, addr, assoc, ret>>

Resolve(found) ==
    /\ pc = "resolve"
    /\ pc' = IF found THEN "socket" ELSE "idle"
    /\ UNCHANGED <<type, target, pipeline, creds, timeout, family, fd, open, addr, assoc, ret>>

(* No descriptor, or the binder refuses and the socket is closed again.     *)
OpenSocketFails ==
    /\ pc = "socket"
    /\ pc' = "idle"
    /\ UNCHANGED <<type, target, pipeline, creds, timeout, family, fd, open, addr, assoc, ret>>

OpenSocket(f) ==
    /\ pc = "socket"
    /\ f \in Fds \ open
    /\ open' = open \cup {f}
    /\ fd' = [fd EXCEPT !["conn"] = f]
    /\ pc' = "connecting"
    /\ UNCHANGED <<type, target, pipeline, creds, timeout, family, addr, assoc, ret>>

\* Mutant of Connected: the family of the server's address is not kept.
ConnectedWithoutFamily(fam) ==
    /\ pc = "connecting"
    /\ fd' = [fd EXCEPT !["ctl"] = fd["conn"], !["conn"] = NoFd]
    /\ pc' = "idle"
    /\ UNCHANGED <<type, target, pipeline, creds, timeout, family, open, addr, assoc, ret>>

Connected(fam) ==
    /\ pc = "connecting"
    /\ fd' = [fd EXCEPT !["ctl"] = fd["conn"], !["conn"] = NoFd]
    /\ family' = fam
    /\ pc' = "idle"
    /\ UNCHANGED <<type, target, pipeline, creds, timeout, open, addr, assoc, ret>>

\* Mutant of ConnectFails: the socket is not closed.
ConnectFailsOpen(outcome) ==
    /\ pc = "connecting"
    /\ outcome # "done"
    /\ MayEnd(outcome, timeout)
    /\ fd' = [fd EXCEPT !["conn"] = NoFd]
    /\ pc' = "idle"
    /\ UNCHANGED <<type, target, pipeline, creds, timeout, family, open, addr, assoc, ret>>

ConnectFails(outcome) ==
    /\ pc = "connecting"
    /\ outcome # "done"
    /\ MayEnd(outcome, timeout)
    /\ open' = open \ {fd["conn"]}
    /\ fd' = [fd EXCEPT !["conn"] = NoFd]
    /\ pc' = "idle"
    /\ UNCHANGED <<type, target, pipeline, creds, timeout, family, addr, assoc, ret>>

-----------------------------------------------------------------------------
(* The handshake.  The standard form waits for each answer before the next  *)
(* message; the pipelined form sends all its messages first.                *)
Handshake(pipelined) ==
    /\ pc = "idle"
    /\ ArmTimeout(TcpTimeout)
    /\ pipeline' = pipelined
    /\ pc' = "sendMethods"
    /\ UNCHANGED <<type, target, creds, family, fd, open, addr, assoc, ret>>

\* Mutants: the pipelined form forgets the credentials; the standard form
\* forgets them; the pipelined form does not read the method first.
AfterMethodsNoCreds == IF pipeline THEN "sendRequest" ELSE "readMethod"
WhenUserAuthNoCreds == "readCreds"
AfterRequestNoMethod == "readResponse"

AfterMethods == IF pipeline THEN "sendCreds" ELSE "readMethod"
AfterCreds == IF pipeline THEN "sendRequest" ELSE "readCreds"
AfterRequest == IF pipeline THEN "readMethod" ELSE "readResponse"
WhenUserAuth == IF pipeline THEN "readCreds" ELSE "sendCreds"
WhenAccepted == IF pipeline THEN "readResponse" ELSE "sendRequest"

\* The end of hev_socks5_client_handshake, whatever the form has returned.
Return(r) ==
    /\ ret' = r
    /\ pc' = "returned"
    /\ IF type = "TCP" THEN UNCHANGED timeout ELSE ArmTimeout(UdpTimeout)

GoOn(where) == pc' = where /\ UNCHANGED <<ret, timeout>>

\* A send or receive on descriptor -1 fails at once.
Ends(outcome) ==
    /\ MayEnd(outcome, timeout)
    /\ fd["ctl"] = NoFd => outcome = "closed"

Offer == IF creds = NoLogin THEN MethodNone ELSE MethodUser

WriteAuthMethods(outcome) ==
    /\ pc = "sendMethods"
    /\ Ends(outcome)
    /\ IF outcome = "done" THEN GoOn(AfterMethods) ELSE Return("failed")
    /\ UNCHANGED <<type, target, pipeline, creds, family, fd, open, addr, assoc>>

(* Without credentials nothing is sent, and that counts as success.         *)
WriteAuthCreds(outcome) ==
    /\ pc = "sendCreds"
    /\ creds = NoLogin => outcome = "done"
    /\ Ends(outcome)
    /\ IF outcome = "done" THEN GoOn(AfterCreds) ELSE Return("failed")
    /\ UNCHANGED <<type, target, pipeline, creds, family, fd, open, addr, assoc>>

\* get_upstream_addr of the class: the address that a TCP client owns, a fresh
\* one of the connection's family for UDP; NULL otherwise.
HasAddress == IF type = "TCP" THEN addr = "object" ELSE family \in Families

RequestAddrType == IF type = "TCP" THEN target ELSE family

RequestCmd == CASE type = "TCP" -> CmdConnect
                [] type = "UDP_IN_TCP" -> CmdFwdUdp
                [] type = "UDP_IN_UDP" -> CmdUdpAsc

(* The address is taken from the object and freed only after a send that    *)
(* succeeded.  The code does not test it for NULL: the guard HasAddress     *)
(* stands for the program ending there, and AddressAtHand says it never is. *)
WriteRequest(outcome) ==
    /\ pc = "sendRequest"
    /\ HasAddress
    /\ Ends(outcome)
    /\ addr' = IF outcome = "done" THEN "freed" ELSE "leaked"
    /\ IF outcome = "done" THEN GoOn(AfterRequest) ELSE Return("failed")
    /\ UNCHANGED <<type, target, pipeline, creds, family, fd, open, assoc>>

ReadAuthMethod(in) ==
    /\ pc = "readMethod"
    /\ Ends(in.got)
    /\ LET read == in.got = "done" /\ in.ver = Ver5
       IN  CASE read /\ in.method = MethodUser -> GoOn(WhenUserAuth)
             [] read /\ in.method = MethodNone -> GoOn(WhenAccepted)
             [] OTHER -> Return("failed")
    /\ UNCHANGED <<type, target, pipeline, creds, family, fd, open, addr, assoc>>

ReadAuthCreds(in) ==
    /\ pc = "readCreds"
    /\ Ends(in.got)
    /\ IF in.got = "done" /\ in.ver = AuthVer1 /\ in.rep = RepSucc
       THEN GoOn(WhenAccepted)
       ELSE Return("failed")
    /\ UNCHANGED <<type, target, pipeline, creds, family, fd, open, addr, assoc>>

\* Mutant of Promises: the length of an IPv6 address is not known.
PromisesV4(in) ==
    /\ in.got = "done"
    /\ in.ver = Ver5
    /\ in.rep = RepSucc
    /\ in.atype = "v4"

\* The first four bytes promise an address of a length the client knows.
Promises(in) ==
    /\ in.got = "done"
    /\ in.ver = Ver5
    /\ in.rep = RepSucc
    /\ in.atype \in {"v4", "v6"}

ResponseLost(in) ==
    /\ pc = "readResponse"
    /\ Ends(in.got)
    /\ Promises(in) => in.rest # "done" /\ Ends(in.rest)
    /\ Return("failed")
    /\ UNCHANGED <<type, target, pipeline, creds, family, fd, open, addr, assoc>>

\* Mutant of ResponseRead: set_upstream_addr does nothing for any type.
ResponseReadOnly(in) ==
    /\ pc = "readResponse"
    /\ Ends(in.got)
    /\ Promises(in)
    /\ in.rest = "done"
    /\ Return("ok")
    /\ UNCHANGED <<type, target, pipeline, creds, family, fd, open, addr, assoc>>

(* set_upstream_addr does nothing unless UDP travels beside the connection. *)
ResponseRead(in) ==
    /\ pc = "readResponse"
    /\ Ends(in.got)
    /\ Promises(in)
    /\ in.rest = "done"
    /\ type # "UDP_IN_UDP"
    /\ Return("ok")
    /\ UNCHANGED <<type, target, pipeline, creds, family, fd, open, addr, assoc>>

AssociateFails(in) ==
    /\ pc = "readResponse"
    /\ Ends(in.got)
    /\ Promises(in)
    /\ in.rest = "done"
    /\ type = "UDP_IN_UDP"
    /\ Return("failed")
    /\ UNCHANGED <<type, target, pipeline, creds, family, fd, open, addr, assoc>>

Associate(in, f) ==
    /\ pc = "readResponse"
    /\ Ends(in.got)
    /\ Promises(in)
    /\ in.rest = "done"
    /\ type = "UDP_IN_UDP"
    /\ f \in Fds \ open
    /\ open' = open \cup {f}
    /\ fd' = [fd EXCEPT !["udp"] = f]
    /\ assoc' = TRUE
    /\ Return("ok")
    /\ UNCHANGED <<type, target, pipeline, creds, family, addr>>

ReadResponse(in) ==
    \/ ResponseLost(in) \/ ResponseRead(in) \/ AssociateFails(in)
    \/ \E f \in Fds : Associate(in, f)

\* Mutant of Destruct: the address of a request that was not written stays.
DestructWithoutAddr ==
    /\ pc \in {"new", "idle", "returned"}
    /\ open' = open \ {fd["udp"], fd["ctl"]}
    /\ fd' = NoFds
    /\ pc' = "gone"
    /\ UNCHANGED <<type, target, pipeline, creds, timeout, family, addr, assoc, ret>>

(* The destructors of the three classes.                                    *)
Destruct ==
    /\ pc \in {"new", "idle", "returned"}
    /\ open' = open \ {fd["udp"], fd["ctl"]}
    /\ fd' = NoFds
    /\ addr' = IF addr = "object" THEN "freed" ELSE addr
    /\ pc' = "gone"
    /\ UNCHANGED <<type, target, pipeline, creds, timeout, family, assoc, ret>>

-----------------------------------------------------------------------------
Answered ==
    \/ \E in \in MethodReplies : ReadAuthMethod(in)
    \/ \E in \in AuthReplies : ReadAuthCreds(in)
    \/ \E in \in Responses : ReadResponse(in)

Sent ==
    \E o \in Outcomes :
      WriteAuthMethods(o) \/ WriteAuthCreds(o) \/ WriteRequest(o)

Next ==
    \/ \E c \in Logins : SetAuth(c)
    \/ Connect
    \/ \E found \in BOOLEAN : Resolve(found)
    \/ OpenSocketFails
    \/ \E f \in Fds : OpenSocket(f)
    \/ \E fam \in Families : Connected(fam)
    \/ \E o \in Outcomes : ConnectFails(o)
    \/ \E p \in BOOLEAN : Handshake(p)
    \/ Sent
    \/ Answered
    \/ Destruct

(* The timer of the wait the task is in.                                    *)
TimerFires ==
    \/ ConnectFails("timer")
    \/ WriteAuthMethods("timer") \/ WriteAuthCreds("timer") \/ WriteRequest("timer")
    \/ \E in \in MethodReplies : in.got = "timer" /\ ReadAuthMethod(in)
    \/ \E in \in AuthReplies : in.got = "timer" /\ ReadAuthCreds(in)
    \/ \E in \in Responses : in.got = "timer" /\ ReadResponse(in)

(* What the task does without waiting for its server.                       *)
RunsOn ==
    \/ fd["ctl"] = NoFd /\ Sent
    \/ creds = NoLogin /\ WriteAuthCreds("done")

Spec == Init /\ [][Next]_vars

FairSpec ==
    /\ Spec
    /\ WF_vars(TimerFires)
    /\ WF_vars(RunsOn)

-----------------------------------------------------------------------------
(* Type correctness.                                                        *)
TypeOK ==
    /\ pc \in Pcs
    /\ type \in Types \ {"NONE"}
    /\ target \in AddrTypes
    /\ pipeline \in BOOLEAN
    /\ creds \in Logins \cup {NoLogin}
    /\ timeout \in {-1, 0, ConnectTimeout, TcpTimeout, UdpTimeout}
    /\ family \in Families \cup {"unspec"}
    /\ fd \in [Slots -> Fds \cup {NoFd}]
    /\ open \in SUBSET Fds
    /\ addr \in AddrStates
    /\ assoc \in BOOLEAN
    /\ ret \in {"none", "ok", "failed"}

(* The client holds each open descriptor in one place, and what it holds is *)
(* open; nothing is open when the object is gone.                           *)
FdOwnership ==
    /\ open = {fd[k] : k \in Slots} \ {NoFd}
    /\ \A k, l \in Slots : fd[k] = fd[l] /\ fd[k] # NoFd => k = l
    /\ pc = "gone" => open = {}

(* hev_socks5_client_write_request never dereferences a NULL address, even  *)
(* if the application did not notice that connect had failed: without a     *)
(* connection the handshake ends at its first send, and a connection has a  *)
(* family.                                                                  *)
AddressAtHand ==
    pc \in {"sendRequest", "readResponse", "readMethod", "sendCreds", "readCreds"} =>
      /\ fd["ctl"] \in open
      /\ pc = "sendRequest" => HasAddress

(* The memory of the address is released with the object in every case but  *)
(* one: a request whose send failed takes it along.                         *)
AddressReleased ==
    pc = "gone" => \/ addr \in {"none", "freed"}
                   \/ addr = "leaked" /\ ret = "failed"

(* A handshake that returned success leaves an object that can relay: its   *)
(* connection is open, a UDP association has its own connected socket and   *)
(* is marked so, and the timeout is that of the relay.                      *)
UsableWhenOk ==
    pc = "returned" /\ ret = "ok" =>
      /\ fd["ctl"] \in open
      /\ addr = "freed"
      /\ assoc <=> type = "UDP_IN_UDP"
      /\ assoc => fd["udp"] \in open /\ fd["udp"] # fd["ctl"]
      /\ timeout = IF type = "TCP" THEN TcpTimeout ELSE UdpTimeout

(* The handshake returns, whatever the server does or fails to do.          *)
HandshakeReturns == pc = "sendMethods" ~> pc \in {"returned", "gone"}
=============================================================================
