------------------------- MODULE Socks5Client_proof -------------------------
(***************************************************************************)
(* Theorems about the client, for every number of descriptors, every set   *)
(* of credentials and any server.                                          *)
(***************************************************************************)
EXTENDS Socks5Client, TLAPS

-----------------------------------------------------------------------------
(* The inductive invariant: where the client stands tells what it holds.    *)

Connecting == {"resolve", "socket", "connecting", "idle"}
Talking == PeerWaits \ {"connecting"}
Over == {"returned", "gone"}

\* The request was sent: the pipelined form reads its answers after that.
RequestSent ==
    pc = "readResponse" \/ (pipeline /\ pc \in {"readMethod", "readCreds"})

\* The first send shows whether there is a connection.
Holdings ==
    /\ pc \in {"new", "resolve", "socket", "gone"} => fd = NoFds
    /\ pc = "connecting" => fd["conn"] # NoFd /\ fd["ctl"] = NoFd
    /\ pc # "connecting" => fd["conn"] = NoFd
    /\ pc # "returned" => fd["udp"] = NoFd
    /\ pc \in Talking \ {"sendMethods"} => fd["ctl"] # NoFd
    /\ fd["ctl"] # NoFd => family \in Families

Address ==
    /\ pc \notin Over =>
         addr = IF RequestSent THEN "freed" ELSE IF type = "TCP" THEN "object" ELSE "none"
    /\ pc \in Over /\ addr = "leaked" => ret = "failed"
    /\ pc = "gone" => addr # "object"

Result ==
    /\ pc \notin Over => ret = "none" /\ ~assoc
    /\ pc = "returned" /\ ret = "ok" =>
         /\ fd["ctl"] # NoFd
         /\ addr = "freed"
         /\ assoc <=> type = "UDP_IN_UDP"
         /\ assoc => fd["udp"] # NoFd

ClientInv == Holdings /\ Address /\ Result

\* With settings that are not zero each phase has its own timeout.
PhaseTimeout ==
    /\ pc = "new" => timeout = -1
    /\ pc \in Connecting => timeout = ConnectTimeout
    /\ pc \in Talking => timeout = TcpTimeout
    /\ pc = "returned" /\ ret = "ok" =>
         timeout = IF type = "TCP" THEN TcpTimeout ELSE UdpTimeout

IInv == TypeOK /\ FdOwnership /\ ClientInv

-----------------------------------------------------------------------------
LEMMA Initially == Init => IInv /\ PhaseTimeout
<1> SUFFICES ASSUME Init PROVE IInv /\ PhaseTimeout
  OBVIOUS
<1>1. TypeOK
  BY DEF Init, TypeOK, NoFds, Slots, Pcs, Types, AddrTypes, AddrStates
<1>2. FdOwnership
  BY DEF Init, FdOwnership, NoFds, Slots
<1>3. ClientInv
  BY DEF Init, ClientInv, Holdings, Address, Result, RequestSent, NoFds, Slots,
         PeerWaits, Talking, Over
<1>4. PhaseTimeout
  BY DEF Init, PhaseTimeout, Connecting, PeerWaits, Talking
<1> QED
  BY <1>1, <1>2, <1>3, <1>4 DEF IInv

(* Every step keeps the types.                                              *)
LEMMA TypeStep == ASSUME TypeOK, Next PROVE TypeOK'
<1> USE TimeoutAssumption
<1> USE DEF TypeOK, ArmTimeout, SetTimeout, Pcs, PeerWaits
<1>1. ASSUME NEW c \in Logins, SetAuth(c) PROVE TypeOK'
  BY <1>1 DEF SetAuth
<1>2. CASE Connect
  BY <1>2 DEF Connect
<1>3. ASSUME NEW found \in BOOLEAN, Resolve(found) PROVE TypeOK'
  BY <1>3 DEF Resolve
<1>4. CASE OpenSocketFails
  BY <1>4 DEF OpenSocketFails
<1>5. ASSUME NEW f \in Fds, OpenSocket(f) PROVE TypeOK'
  BY <1>5 DEF OpenSocket, Slots
<1>6. ASSUME NEW fam \in Families, Connected(fam) PROVE TypeOK'
  <2>1. fd["conn"] \in Fds \cup {NoFd}
    BY DEF Slots
  <2> QED
    BY <1>6, <2>1 DEF Connected, Slots
<1>7. ASSUME NEW o \in Outcomes, ConnectFails(o) PROVE TypeOK'
  BY <1>7 DEF ConnectFails, Slots
<1>8. ASSUME NEW p \in BOOLEAN, Handshake(p) PROVE TypeOK'
  BY <1>8 DEF Handshake
<1>9. CASE Sent
  BY <1>9 DEF Sent, WriteAuthMethods, WriteAuthCreds, WriteRequest, GoOn, Return,
     AfterMethods, AfterCreds, AfterRequest, AddrStates
<1>10. CASE \E in \in MethodReplies : ReadAuthMethod(in)
  BY <1>10 DEF ReadAuthMethod, GoOn, Return, WhenUserAuth, WhenAccepted
<1>11. CASE \E in \in AuthReplies : ReadAuthCreds(in)
  BY <1>11 DEF ReadAuthCreds, GoOn, Return, WhenAccepted
<1>12. ASSUME NEW in \in Responses, ResponseLost(in) \/ ResponseRead(in) \/ AssociateFails(in)
       PROVE  TypeOK'
  BY <1>12 DEF ResponseLost, ResponseRead, AssociateFails, Return
<1>13. ASSUME NEW in \in Responses, NEW f \in Fds, Associate(in, f) PROVE TypeOK'
  BY <1>13 DEF Associate, Return, Slots
<1>14. CASE Destruct
  BY <1>14 DEF Destruct, NoFds, AddrStates
<1> QED
  BY <1>1, <1>2, <1>3, <1>4, <1>5, <1>6, <1>7, <1>8, <1>9, <1>10, <1>11, <1>12, <1>13, <1>14
  DEF Next, Answered, ReadResponse

-----------------------------------------------------------------------------
(* The descriptors.  Only six actions touch them.                           *)

\* What the messages of the handshake leave alone.
LEMMA Talk ==
    ASSUME \/ Sent
           \/ \E in \in MethodReplies : ReadAuthMethod(in)
           \/ \E in \in AuthReplies : ReadAuthCreds(in)
           \/ \E in \in Responses : ResponseLost(in) \/ ResponseRead(in) \/ AssociateFails(in)
    PROVE  /\ pc \in Talking /\ pc' \in Talking \cup {"returned"}
           /\ UNCHANGED <<type, pipeline, family, fd, open, assoc>>
<1>1. CASE Sent
  BY <1>1 DEF Sent, WriteAuthMethods, WriteAuthCreds, WriteRequest, GoOn, Return,
     AfterMethods, AfterCreds, AfterRequest, Talking, PeerWaits
<1>2. CASE \E in \in MethodReplies : ReadAuthMethod(in)
  BY <1>2 DEF ReadAuthMethod, GoOn, Return, WhenUserAuth, WhenAccepted, Talking, PeerWaits
<1>3. CASE \E in \in AuthReplies : ReadAuthCreds(in)
  BY <1>3 DEF ReadAuthCreds, GoOn, Return, WhenAccepted, Talking, PeerWaits
<1>4. CASE \E in \in Responses : ResponseLost(in) \/ ResponseRead(in) \/ AssociateFails(in)
  BY <1>4 DEF ResponseLost, ResponseRead, AssociateFails, Return, Talking, PeerWaits
<1> QED
  BY <1>1, <1>2, <1>3, <1>4

LEMMA OwnershipStep == ASSUME TypeOK, FdOwnership, Holdings, Next PROVE FdOwnership'
<1> USE FdAssumption DEF FdOwnership
<1>1. ASSUME UNCHANGED <<fd, open>>, pc' # "gone" PROVE FdOwnership'
  BY <1>1
<1>2. ASSUME \/ \E c \in Logins : SetAuth(c)
             \/ Connect
             \/ \E found \in BOOLEAN : Resolve(found)
             \/ OpenSocketFails
             \/ \E p \in BOOLEAN : Handshake(p)
      PROVE  FdOwnership'
  <2>1. UNCHANGED <<fd, open>> /\ pc' # "gone"
    BY <1>2 DEF SetAuth, Connect, Resolve, OpenSocketFails, Handshake
  <2> QED
    BY <2>1, <1>1
<1>3. ASSUME NEW f \in Fds, OpenSocket(f) PROVE FdOwnership'
  <2>1. fd = NoFds /\ open = {}
    BY <1>3 DEF OpenSocket, Holdings, NoFds
  <2>2. fd' = [NoFds EXCEPT !["conn"] = f] /\ open' = {f} /\ pc' # "gone"
    BY <1>3, <2>1 DEF OpenSocket
  <2> QED
    BY <2>2 DEF NoFds, Slots
<1>4. ASSUME NEW fam \in Families, Connected(fam) PROVE FdOwnership'
  <2>1. fd' = [fd EXCEPT !["ctl"] = fd["conn"], !["conn"] = NoFd] /\ open' = open /\ pc' # "gone"
    BY <1>4 DEF Connected
  <2>2. fd["ctl"] = NoFd /\ DOMAIN fd = Slots
    BY <1>4 DEF Connected, Holdings, TypeOK
  <2> QED
    BY <2>1, <2>2 DEF Slots
<1>5. ASSUME NEW o \in Outcomes, ConnectFails(o) PROVE FdOwnership'
  <2>1. fd' = [fd EXCEPT !["conn"] = NoFd] /\ open' = open \ {fd["conn"]} /\ pc' # "gone"
    BY <1>5 DEF ConnectFails
  <2> QED
    BY <2>1 DEF Slots, TypeOK
<1>6. ASSUME NEW in \in Responses, NEW f \in Fds, Associate(in, f) PROVE FdOwnership'
  <2>1. fd' = [fd EXCEPT !["udp"] = f] /\ open' = open \cup {f} /\ f \notin open /\ pc' # "gone"
    BY <1>6 DEF Associate, Return
  <2>2. fd["udp"] = NoFd
    BY <1>6 DEF Associate, Holdings
  <2> QED
    BY <2>1, <2>2 DEF Slots, TypeOK
<1>7. CASE Destruct
  <2>1. fd["conn"] = NoFd
    BY <1>7 DEF Destruct, Holdings
  <2>2. open' = {} /\ fd' = NoFds
    BY <1>7, <2>1 DEF Destruct, Slots
  <2> QED
    BY <2>2 DEF NoFds, Slots
<1>8. ASSUME \/ Sent
             \/ \E in \in MethodReplies : ReadAuthMethod(in)
             \/ \E in \in AuthReplies : ReadAuthCreds(in)
             \/ \E in \in Responses : ResponseLost(in) \/ ResponseRead(in) \/ AssociateFails(in)
      PROVE  FdOwnership'
  BY <1>8, <1>1, Talk DEF Talking, PeerWaits
<1> QED
  BY <1>2, <1>3, <1>4, <1>5, <1>6, <1>7, <1>8 DEF Next, Answered, ReadResponse

-----------------------------------------------------------------------------
(* What the client holds.                                                   *)

LEMMA HoldingsStep == ASSUME TypeOK, Holdings, Next PROVE Holdings'
<1> USE FdAssumption DEF Holdings
<1>1. ASSUME \/ \E c \in Logins : SetAuth(c)
             \/ Connect
             \/ \E found \in BOOLEAN : Resolve(found)
             \/ OpenSocketFails
             \/ \E p \in BOOLEAN : Handshake(p)
      PROVE  Holdings'
  <2>1. UNCHANGED <<fd, family>> /\ pc' \in {"new", "resolve", "socket", "idle", "sendMethods"}
    BY <1>1 DEF SetAuth, Connect, Resolve, OpenSocketFails, Handshake
  <2>2. pc \in {"new", "resolve", "socket"} \/ (pc = "idle" /\ pc' = "sendMethods")
    BY <1>1 DEF SetAuth, Connect, Resolve, OpenSocketFails, Handshake
  <2> QED
    BY <2>1, <2>2 DEF NoFds, Slots, Talking, PeerWaits
<1>2. ASSUME NEW f \in Fds, OpenSocket(f) PROVE Holdings'
  BY <1>2 DEF OpenSocket, NoFds, Slots, Talking, PeerWaits
<1>3. ASSUME NEW fam \in Families, Connected(fam) PROVE Holdings'
  BY <1>3 DEF Connected, TypeOK, Slots, Talking, PeerWaits
<1>4. ASSUME NEW o \in Outcomes, ConnectFails(o) PROVE Holdings'
  BY <1>4 DEF ConnectFails, TypeOK, Slots, Talking, PeerWaits
<1>5. CASE Sent
  <2>1. pc' \in Talking \ {"sendMethods"} => fd["ctl"] # NoFd
    BY <1>5 DEF Sent, WriteAuthMethods, WriteAuthCreds, WriteRequest, GoOn, Return, Ends,
       AfterMethods, AfterCreds, AfterRequest, Talking, PeerWaits
  <2> QED
    BY <1>5, <2>1, Talk DEF Talking, PeerWaits
<1>6. ASSUME \/ \E in \in MethodReplies : ReadAuthMethod(in)
             \/ \E in \in AuthReplies : ReadAuthCreds(in)
             \/ \E in \in Responses : ResponseLost(in) \/ ResponseRead(in) \/ AssociateFails(in)
      PROVE  Holdings'
  <2>1. pc # "sendMethods"
    BY <1>6 DEF ReadAuthMethod, ReadAuthCreds, ResponseLost, ResponseRead, AssociateFails
  <2> QED
    BY <1>6, <2>1, Talk DEF Talking, PeerWaits
<1>7. ASSUME NEW in \in Responses, NEW f \in Fds, Associate(in, f) PROVE Holdings'
  BY <1>7 DEF Associate, Return, TypeOK, Slots, Talking, PeerWaits
<1>8. CASE Destruct
  BY <1>8 DEF Destruct, NoFds, Slots, Talking, PeerWaits
<1> QED
  BY <1>1, <1>2, <1>3, <1>4, <1>5, <1>6, <1>7, <1>8 DEF Next, Answered, ReadResponse

-----------------------------------------------------------------------------
(* The address and the result.                                              *)

\* The steps before the handshake.
Prelude ==
    \/ \E c \in Logins : SetAuth(c)
    \/ Connect
    \/ \E found \in BOOLEAN : Resolve(found)
    \/ OpenSocketFails
    \/ \E f \in Fds : OpenSocket(f)
    \/ \E fam \in Families : Connected(fam)
    \/ \E o \in Outcomes : ConnectFails(o)
    \/ \E p \in BOOLEAN : Handshake(p)

LEMMA PreludeStep ==
    ASSUME Prelude
    PROVE  /\ pc \in {"new"} \cup Connecting
           /\ pc' \in {"new", "sendMethods"} \cup Connecting
           /\ UNCHANGED <<type, addr, assoc, ret>>
  BY DEF Prelude, SetAuth, Connect, Resolve, OpenSocketFails, OpenSocket, Connected,
     ConnectFails, Handshake, Connecting

LEMMA AddressStep == ASSUME TypeOK, Address, Next PROVE Address'
<1> USE DEF Address, RequestSent, Over
<1>1. CASE Prelude
  BY <1>1, PreludeStep DEF Connecting
<1>2. ASSUME NEW o \in Outcomes, WriteAuthMethods(o) \/ WriteAuthCreds(o) PROVE Address'
  BY <1>2 DEF WriteAuthMethods, WriteAuthCreds, GoOn, Return, AfterMethods, AfterCreds, TypeOK
<1>3. ASSUME NEW o \in Outcomes, WriteRequest(o) PROVE Address'
  BY <1>3 DEF WriteRequest, GoOn, Return, AfterRequest, TypeOK
<1>4. ASSUME NEW in \in MethodReplies, ReadAuthMethod(in) PROVE Address'
  <2>1. /\ pc = "readMethod" /\ UNCHANGED <<type, pipeline, addr>>
        /\ \/ pc' \in {WhenUserAuth, WhenAccepted} /\ ret' = ret
           \/ pc' = "returned" /\ ret' = "failed"
    BY <1>4 DEF ReadAuthMethod, GoOn, Return
  <2> QED
    BY <2>1 DEF WhenUserAuth, WhenAccepted, TypeOK
<1>5. ASSUME NEW in \in AuthReplies, ReadAuthCreds(in) PROVE Address'
  BY <1>5 DEF ReadAuthCreds, GoOn, Return, WhenAccepted, TypeOK
<1>6. ASSUME NEW in \in Responses, ReadResponse(in) PROVE Address'
  BY <1>6 DEF ReadResponse, ResponseLost, ResponseRead, AssociateFails, Associate, Return
<1>7. CASE Destruct
  BY <1>7 DEF Destruct, PeerWaits
<1> QED
  BY <1>1, <1>2, <1>3, <1>4, <1>5, <1>6, <1>7 DEF Next, Sent, Answered, Prelude

\* What a reply to the methods or the credentials leads to.
LEMMA Replied ==
    ASSUME NEW in, ReadAuthMethod(in) \/ ReadAuthCreds(in)
    PROVE  /\ pc \in Talking
           /\ \/ pc' \in Talking /\ UNCHANGED <<ret, timeout>>
              \/ pc' = "returned" /\ ret' = "failed"
<1> USE DEF Talking, PeerWaits, GoOn
<1>1. WhenUserAuth \in Talking /\ WhenAccepted \in Talking
  BY DEF WhenUserAuth, WhenAccepted
<1>2. Return("failed") => pc' = "returned" /\ ret' = "failed"
  BY DEF Return
<1>3. CASE ReadAuthMethod(in)
  BY <1>1, <1>2, <1>3 DEF ReadAuthMethod
<1>4. CASE ReadAuthCreds(in)
  BY <1>1, <1>2, <1>4 DEF ReadAuthCreds
<1> QED
  BY <1>3, <1>4

\* A send or a reply to it leads on or ends the handshake as failed.
LEMMA OnOrFailed ==
    ASSUME \/ Sent
           \/ \E in \in MethodReplies : ReadAuthMethod(in)
           \/ \E in \in AuthReplies : ReadAuthCreds(in)
    PROVE  \/ pc' # "returned" /\ ret' = ret
           \/ pc' = "returned" /\ ret' = "failed"
<1>1. CASE Sent
  BY <1>1 DEF Sent, WriteAuthMethods, WriteAuthCreds, WriteRequest, GoOn, Return,
     AfterMethods, AfterCreds, AfterRequest
<1>2. CASE \/ \E in \in MethodReplies : ReadAuthMethod(in)
           \/ \E in \in AuthReplies : ReadAuthCreds(in)
  BY <1>2, Replied DEF Talking, PeerWaits
<1> QED
  BY <1>1, <1>2

LEMMA ResultStep == ASSUME TypeOK, Holdings, Address, Result, Next PROVE Result'
<1> USE FdAssumption DEF Result, Over
<1>1. CASE Prelude
  BY <1>1, PreludeStep DEF Connecting
<1>2. ASSUME \/ Sent
             \/ \E in \in MethodReplies : ReadAuthMethod(in)
             \/ \E in \in AuthReplies : ReadAuthCreds(in)
      PROVE  Result'
  <2>1. \/ pc' # "returned" /\ ret' = ret
        \/ pc' = "returned" /\ ret' = "failed"
    BY <1>2, OnOrFailed
  <2>2. pc \notin Over /\ pc' # "gone" /\ assoc' = assoc
    BY <1>2, Talk DEF Talking, PeerWaits
  <2>3. ret = "none" /\ ~assoc
    BY <2>2
  <2>4. ~assoc'
    BY <2>2, <2>3, Zenon
  <2>5. pc' \notin Over => ret' = "none"
    BY <2>1, <2>3
  <2>6. ~(pc' = "returned" /\ ret' = "ok")
    BY <2>1, <2>3
  <2> QED
    BY <2>2, <2>4, <2>5, <2>6, Zenon
<1>4. ASSUME NEW in \in Responses, ReadResponse(in) PROVE Result'
  <2>1. pc = "readResponse" /\ addr = "freed" /\ fd["ctl"] # NoFd /\ ~assoc /\ pc' = "returned"
    BY <1>4 DEF ReadResponse, ResponseLost, ResponseRead, AssociateFails, Associate, Return,
       Address, RequestSent, Holdings, Talking, PeerWaits
  <2>2. UNCHANGED <<type, addr>>
    BY <1>4 DEF ReadResponse, ResponseLost, ResponseRead, AssociateFails, Associate
  <2>3. CASE ResponseLost(in) \/ ResponseRead(in) \/ AssociateFails(in)
    BY <2>1, <2>2, <2>3 DEF ResponseLost, ResponseRead, AssociateFails, Return
  <2>4. ASSUME NEW f \in Fds, Associate(in, f) PROVE Result'
    BY <2>1, <2>2, <2>4 DEF Associate, Return, TypeOK, Slots
  <2> QED
    BY <1>4, <2>3, <2>4 DEF ReadResponse
<1>5. CASE Destruct
  BY <1>5 DEF Destruct
<1> QED
  BY <1>1, <1>2, <1>4, <1>5 DEF Next, Answered, Prelude

LEMMA PhaseStep ==
    ASSUME ConnectTimeout # 0, TcpTimeout # 0, TypeOK, PhaseTimeout, Next
    PROVE  PhaseTimeout'
<1> USE TimeoutAssumption
    DEF PhaseTimeout, Connecting, Talking, PeerWaits, ArmTimeout, SetTimeout
<1>1. CASE Prelude
  BY <1>1 DEF Prelude, SetAuth, Connect, Resolve, OpenSocketFails, OpenSocket, Connected,
     ConnectFails, Handshake
<1>2. CASE Sent
  BY <1>2 DEF Sent, WriteAuthMethods, WriteAuthCreds, WriteRequest, GoOn, Return,
     AfterMethods, AfterCreds, AfterRequest
<1>3. ASSUME \/ \E in \in MethodReplies : ReadAuthMethod(in)
             \/ \E in \in AuthReplies : ReadAuthCreds(in)
      PROVE  PhaseTimeout'
  BY <1>3, Replied
<1>4. ASSUME NEW in \in Responses, ReadResponse(in) PROVE PhaseTimeout'
  BY <1>4 DEF ReadResponse, ResponseLost, ResponseRead, AssociateFails, Associate, Return
<1>5. CASE Destruct
  BY <1>5 DEF Destruct
<1> QED
  BY <1>1, <1>2, <1>3, <1>4, <1>5 DEF Next, Answered, Prelude

-----------------------------------------------------------------------------
LEMMA Inductive == IInv /\ [Next]_vars => IInv'
<1> SUFFICES ASSUME IInv, [Next]_vars PROVE IInv'
  OBVIOUS
<1>1. CASE Next
  BY <1>1, TypeStep, OwnershipStep, HoldingsStep, AddressStep, ResultStep DEF IInv, ClientInv
<1>2. CASE UNCHANGED vars
  BY <1>2 DEF vars, IInv, TypeOK, FdOwnership, ClientInv, Holdings, Address, Result, RequestSent
<1> QED
  BY <1>1, <1>2

LEMMA Invariance == Spec => []IInv
  BY Initially, Inductive, PTL DEF Spec

LEMMA Implications ==
    ASSUME IInv
    PROVE  /\ TypeOK /\ FdOwnership /\ AddressAtHand /\ AddressReleased
           /\ PhaseTimeout => UsableWhenOk
<1> USE DEF IInv, ClientInv
<1>1. \A k \in Slots : fd[k] # NoFd => fd[k] \in open
  BY DEF FdOwnership
<1>2. AddressAtHand
  <2> SUFFICES ASSUME pc \in Talking \ {"sendMethods"}
               PROVE  fd["ctl"] \in open /\ (pc = "sendRequest" => HasAddress)
    BY DEF AddressAtHand, Talking, PeerWaits
  <2>1. fd["ctl"] # NoFd /\ family \in Families
    BY DEF Holdings
  <2>2. pc = "sendRequest" /\ type = "TCP" => addr = "object"
    BY DEF Address, RequestSent, Over
  <2> QED
    BY <1>1, <2>1, <2>2 DEF HasAddress, Slots
<1>3. AddressReleased
  BY DEF AddressReleased, Address, Over, TypeOK, AddrStates
<1>4. ASSUME PhaseTimeout PROVE UsableWhenOk
  <2> SUFFICES ASSUME pc = "returned", ret = "ok"
               PROVE  /\ fd["ctl"] \in open
                      /\ addr = "freed"
                      /\ assoc <=> type = "UDP_IN_UDP"
                      /\ assoc => fd["udp"] \in open /\ fd["udp"] # fd["ctl"]
                      /\ timeout = IF type = "TCP" THEN TcpTimeout ELSE UdpTimeout
    BY DEF UsableWhenOk
  <2>1. assoc => fd["udp"] # NoFd /\ fd["udp"] # fd["ctl"]
    BY DEF Result, FdOwnership, Slots
  <2> QED
    BY <1>1, <1>4, <2>1 DEF Result, PhaseTimeout, Slots
<1> QED
  BY <1>2, <1>3, <1>4

(* The client's variables keep their types.                                 *)
THEOREM TypeCorrect == Spec => []TypeOK
  BY Invariance, Implications, PTL

(* connect, set_upstream_addr and the destructors (hev-socks5-client.c,     *)
(* -tcp.c, -udp.c) neither leak a descriptor nor close one twice, wherever  *)
(* they fail, and nothing is open when the object is gone.                  *)
THEOREM DescriptorsAreOwned == Spec => []FdOwnership
  BY Invariance, Implications, PTL

(* hev_socks5_client_write_request has an address to send, even when the    *)
(* application has not noticed that connect had failed.                     *)
THEOREM AddressIsThere == Spec => []AddressAtHand
  BY Invariance, Implications, PTL

(* The memory of the address is released with the object, but for a request *)
(* whose send failed.                                                       *)
THEOREM AddressIsReleased == Spec => []AddressReleased
  BY Invariance, Implications, PTL

(* A handshake that returned success leaves a client that can relay.  A     *)
(* connect or TCP timeout of zero is sticky (hev_socks5_set_timeout), and   *)
(* the relay's would then not come into force.                              *)
THEOREM SuccessIsUsable ==
    ASSUME ConnectTimeout # 0, TcpTimeout # 0
    PROVE  Spec => []UsableWhenOk
<1>1. PhaseTimeout /\ TypeOK /\ [Next]_vars => PhaseTimeout'
  <2>1. ASSUME PhaseTimeout, TypeOK, Next PROVE PhaseTimeout'
    BY <2>1, PhaseStep
  <2>2. ASSUME PhaseTimeout, UNCHANGED vars PROVE PhaseTimeout'
    BY <2>2 DEF vars, PhaseTimeout
  <2> QED
    BY <2>1, <2>2
<1>2. IInv /\ PhaseTimeout => TypeOK /\ UsableWhenOk
  BY Implications
<1>3. IInv => TypeOK
  BY DEF IInv
<1> QED
  BY Initially, Invariance, <1>1, <1>2, <1>3, PTL DEF Spec
=============================================================================
