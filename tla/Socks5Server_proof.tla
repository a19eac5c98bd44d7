------------------------- MODULE Socks5Server_proof -------------------------
(***************************************************************************)
(* Theorems about the sessions of the server, for every number of sessions *)
(* and descriptors, every set of accounts and every setting of timeouts.   *)
(***************************************************************************)
EXTENDS Socks5Server, SequenceTheorems, TLAPS

-----------------------------------------------------------------------------
(* Bytes and short sequences.                                               *)

LEMMA Modulo == \A q \in Int : (256 * q + 255) % 256 = 255
  OBVIOUS

\* The codes that the server writes fit a byte; -1 leaves as 255.
LEMMA Bytes ==
    /\ ToByte(-1) = 255
    /\ \A n \in 0 .. 255 : ToByte(n) = n
    /\ \A n \in Int : ToByte(n) \in Int
<1>1. (256 * (-1) + 255) % 256 = 255
  <2>1. -1 \in Int
    OBVIOUS
  <2> QED
    BY <2>1, Modulo
<1>2. -1 = 256 * (-1) + 255
  OBVIOUS
<1>3. ToByte(-1) = 255
  BY <1>1, <1>2, Zenon DEF ToByte
<1>4. ASSUME NEW n \in 0 .. 255 PROVE ToByte(n) = n
  BY DEF ToByte
<1>5. ASSUME NEW n \in Int PROVE ToByte(n) \in Int
  BY DEF ToByte
<1> QED
  BY <1>3, <1>4, <1>5

\* A short sequence of replies and one more.
LEMMA AppendOne == ASSUME NEW a PROVE Append(<<>>, a) = <<a>>
  OBVIOUS

LEMMA AppendTwo ==
    ASSUME NEW a, NEW b
    PROVE  Append(<<a>>, b) = <<a, b>>
<1> DEFINE S == {a, b}
<1>1. <<a>> \in Seq(S) /\ <<a, b>> \in Seq(S)
  OBVIOUS
<1>2. Append(<<a>>, b) \in Seq(S) /\ Len(Append(<<a>>, b)) = 2
  BY <1>1
<1>3. \A i \in 1 .. 2 : Append(<<a>>, b)[i] = <<a, b>>[i]
  BY <1>1
<1> QED
  BY <1>1, <1>2, <1>3, SeqEqual

-----------------------------------------------------------------------------
\* What a session is about to write is a number, and so is its byte.
LEMMA ReplyCode ==
    ASSUME TypeOK, NEW s \in Sessions
    PROVE  reply[s] \in Int /\ ToByte(reply[s]) \in Int
<1>1. reply[s] \in Reps \cup {-1, MethodUser}
  BY DEF TypeOK
<1>2. Reps \cup {-1, MethodUser} \subseteq Int
  BY DEF Reps, RepSucc, RepFail, RepHost, RepImpl, RepAddr, MethodUser
<1>3. reply[s] \in Int
  BY <1>1, <1>2
<1> QED
  BY <1>3, Bytes

(* Every step of a session keeps the types.                                 *)
LEMMA TypeStep ==
    ASSUME TypeOK, NEW s \in Sessions, Step(s)
    PROVE  TypeOK'
<1> USE FdAssumption, AccountAssumption, TimeoutAssumption
<1> USE DEF TypeOK, Goto, ArmTimeout, Hold, SetTimeout
<1>1. ASSUME NEW f \in Fds, New(s, f) PROVE TypeOK'
  BY <1>1 DEF New, NoFds, Slots, Pcs, Types
<1>2. CASE SetAuth(s)
  BY <1>2 DEF SetAuth
<1>3. CASE Run(s)
  BY <1>3 DEF Run, Pcs, PeerWaits
<1>4. ASSUME NEW in \in Hellos, ReadAuthMethod(s, in) PROVE TypeOK'
  BY <1>4 DEF ReadAuthMethod, Wanted, MethodNone, MethodUser, Reps, RepSucc, Pcs, PeerWaits
<1>5. ASSUME NEW in \in Creds, ReadAuthUser(s, in) PROVE TypeOK'
  BY <1>5 DEF ReadAuthUser, Genuine, Reps, RepSucc, Pcs, PeerWaits
<1>6. ASSUME NEW in \in Requests, ReadRequest(s, in) PROVE TypeOK'
  <2>1. CASE LoseRequest(s, in)
    BY <2>1 DEF LoseRequest, Pcs
  <2>2. CASE RefuseRequest(s, in)
    BY <2>2 DEF RefuseRequest, RequestRep, Reps, Pcs, PeerWaits
  <2>3. CASE AcceptRequest(s, in)
    <3>1. in.cmd \in {CmdConnect, CmdUdpAsc, CmdFwdUdp, 2} /\ in.atype \in AddrTypes
      BY DEF Requests
    <3>2. in.atype # "name" => in.atype \in Families
      BY <2>3, <3>1 DEF AcceptRequest, RequestRep, AddrTypes, Families, RepAddr, RepSucc, RepFail, Ver5
    <3> QED
      BY <2>3, <3>1, <3>2 DEF AcceptRequest, Reps, Pcs
  <2> QED
    BY <1>6, <2>1, <2>2, <2>3 DEF ReadRequest
<1>7. ASSUME NEW o \in Outcomes,
             WriteAuthMethod(s, o) \/ WriteAuthUser(s, o) \/ WriteResponse(s, o)
      PROVE  TypeOK'
  <2> DEFINE Replies == [kind : {"method", "auth", "response"}, code : Int]
  <2>1. /\ MethodReply(reply[s]) \in Replies
        /\ AuthReply(reply[s]) \in Replies
        /\ Response(reply[s]) \in Replies
    <3>1. ToByte(reply[s]) \in Int
      BY ReplyCode
    <3> QED
      BY <3>1 DEF MethodReply, AuthReply, Response
  <2>2. out' \in [Sessions -> Seq(Replies)]
    <3>1. PICK m \in Replies : Say(s, m, o)
      BY <1>7, <2>1 DEF WriteAuthMethod, WriteAuthUser, WriteResponse
    <3>2. out \in [Sessions -> Seq(Replies)]
      OBVIOUS
    <3>3. Append(out[s], m) \in Seq(Replies)
      BY <3>2
    <3> HIDE DEF Replies
    <3> QED
      BY <3>1, <3>2, <3>3 DEF Say
  <2>3. pc' \in [Sessions -> Pcs]
    BY <1>7 DEF WriteAuthMethod, WriteAuthUser, WriteResponse, Pcs, PeerWaits
  <2> QED
    BY <1>7, <2>2, <2>3 DEF WriteAuthMethod, WriteAuthUser, WriteResponse
<1>8. ASSUME NEW answer \in Families \cup {"none"}, Resolve(s, answer) PROVE TypeOK'
  <2>1. CASE answer \in Families
    BY <1>8, <2>1 DEF Resolve, Pcs
  <2>2. CASE answer \notin Families
    BY <1>8, <2>2 DEF Resolve, Reps, Pcs, PeerWaits
  <2> QED
    BY <2>1, <2>2
<1>9. CASE OpenUpstreamFails(s) \/ BindFails(s) \/ UnknownCommand(s)
  <2>1. CASE OpenUpstreamFails(s)
    BY <2>1 DEF OpenUpstreamFails, Reps, Types, Pcs, PeerWaits
  <2>2. CASE BindFails(s)
    <3>1. fd' \in [Sessions -> [Slots -> Fds \cup {NoFd}]] /\ open' \in SUBSET Fds
      <4>1. CASE UNCHANGED <<fd, open>>
        BY <4>1
      <4>2. ASSUME NEW f \in Fds, open' = open \cup {f}, Hold(s, "fds0", f)
            PROVE  fd' \in [Sessions -> [Slots -> Fds \cup {NoFd}]] /\ open' \in SUBSET Fds
        BY <4>2 DEF Slots
      <4> QED
        BY <2>2, <4>1, <4>2 DEF BindFails
    <3> QED
      BY <2>2, <3>1 DEF BindFails, UdpType, Reps, Types, Pcs, PeerWaits
  <2>3. CASE UnknownCommand(s)
    BY <2>3 DEF UnknownCommand, Reps, Pcs, PeerWaits
  <2> QED
    BY <1>9, <2>1, <2>2, <2>3
<1>10. ASSUME NEW f \in Fds, OpenUpstream(s, f) \/ BindUpstream(s, f) PROVE TypeOK'
  <2>1. CASE OpenUpstream(s, f)
    BY <2>1 DEF OpenUpstream, Pcs, PeerWaits, Slots
  <2>2. CASE BindUpstream(s, f)
    BY <2>2 DEF BindUpstream, UdpType, Types, Pcs, PeerWaits, Slots
  <2> QED
    BY <1>10, <2>1, <2>2
<1>11. ASSUME NEW f \in Fds, NEW g \in Fds, BindBoth(s, f, g) PROVE TypeOK'
  BY <1>11 DEF BindBoth, UdpType, Types, Pcs, PeerWaits, Slots
<1>12. CASE Connected(s)
  <2>1. fd' \in [Sessions -> [Slots -> Fds \cup {NoFd}]]
    <3>1. [fd[s] EXCEPT !["fds0"] = fd[s]["conn"], !["conn"] = NoFd]
            \in [Slots -> Fds \cup {NoFd}]
      <4>1. fd[s] \in [Slots -> Fds \cup {NoFd}] /\ fd[s]["conn"] \in Fds \cup {NoFd}
        BY DEF Slots
      <4> QED
        BY <4>1 DEF Slots
    <3> QED
      BY <1>12, <3>1 DEF Connected
  <2> QED
    BY <1>12, <2>1 DEF Connected, Types, Pcs, PeerWaits
<1>13. ASSUME NEW o \in Outcomes, ConnectFails(s, o) PROVE TypeOK'
  BY <1>13 DEF ConnectFails, Reps, Types, Pcs, PeerWaits, Slots
<1>14. CASE Service(s)
  BY <1>14 DEF Service, Pcs
<1>15. CASE SpliceEnds(s)
  BY <1>15 DEF SpliceEnds, Pcs
<1>16. CASE Destruct(s)
  BY <1>16 DEF Destruct, NoFds, Types, Reps, RepSucc, Pcs
<1> QED
  BY <1>1, <1>2, <1>3, <1>4, <1>5, <1>6, <1>7, <1>8, <1>9, <1>10, <1>11, <1>12,
     <1>13, <1>14, <1>15, <1>16
  DEF Step, Dispatch

LEMMA TypeInit == Init => TypeOK
  BY DEF Init, TypeOK, NoFds, Slots, Pcs, Types, Reps, RepSucc

(* The server's variables keep their types.                                 *)
THEOREM TypeCorrect == Spec => []TypeOK
<1>1. TypeOK /\ [Next]_vars => TypeOK'
  <2> SUFFICES ASSUME TypeOK, [Next]_vars PROVE TypeOK'
    OBVIOUS
  <2>1. CASE Next
    BY <2>1, TypeStep DEF Next
  <2>2. CASE UNCHANGED vars
    BY <2>2 DEF vars, TypeOK
  <2> QED
    BY <2>1, <2>2
<1> QED
  BY TypeInit, <1>1, PTL DEF Spec

-----------------------------------------------------------------------------
(* The inductive invariant, session by session.  What follows needs of the  *)
(* types only the domains of the functions.                                 *)
Shape ==
    /\ DOMAIN pc = Sessions /\ DOMAIN type = Sessions /\ DOMAIN obj = Sessions
    /\ DOMAIN fd = Sessions /\ DOMAIN reply = Sessions /\ DOMAIN out = Sessions
    /\ DOMAIN cmd = Sessions
    /\ \A t \in Sessions : DOMAIN fd[t] = Slots

LEMMA ShapeOfTypes == TypeOK => Shape
  BY DEF TypeOK, Shape

\* A session is not disturbed by the steps of another one.
LEMMA Frame ==
    ASSUME Shape, NEW s \in Sessions, NEW t \in Sessions, s # t, Step(s)
    PROVE  /\ pc'[t] = pc[t] /\ type'[t] = type[t] /\ obj'[t] = obj[t]
           /\ fd'[t] = fd[t] /\ reply'[t] = reply[t] /\ out'[t] = out[t]
<1> USE DEF Shape, Goto, Hold
<1>1. ASSUME NEW f \in Fds, New(s, f) \/ OpenUpstream(s, f) \/ BindUpstream(s, f)
      PROVE  /\ pc'[t] = pc[t] /\ type'[t] = type[t] /\ obj'[t] = obj[t]
             /\ fd'[t] = fd[t] /\ reply'[t] = reply[t] /\ out'[t] = out[t]
  BY <1>1 DEF New, OpenUpstream, BindUpstream
<1>2. CASE SetAuth(s) \/ Run(s) \/ Service(s) \/ SpliceEnds(s) \/ Destruct(s) \/ Connected(s)
  BY <1>2 DEF SetAuth, Run, Service, SpliceEnds, Destruct, Connected
<1>3. ASSUME NEW in, ReadAuthMethod(s, in) \/ ReadAuthUser(s, in)
      PROVE  /\ pc'[t] = pc[t] /\ type'[t] = type[t] /\ obj'[t] = obj[t]
             /\ fd'[t] = fd[t] /\ reply'[t] = reply[t] /\ out'[t] = out[t]
  BY <1>3 DEF ReadAuthMethod, ReadAuthUser
<1>4. ASSUME NEW in, ReadRequest(s, in)
      PROVE  /\ pc'[t] = pc[t] /\ type'[t] = type[t] /\ obj'[t] = obj[t]
             /\ fd'[t] = fd[t] /\ reply'[t] = reply[t] /\ out'[t] = out[t]
  BY <1>4 DEF ReadRequest, LoseRequest, RefuseRequest, AcceptRequest
<1>5. ASSUME NEW o, WriteAuthMethod(s, o) \/ WriteAuthUser(s, o) \/ WriteResponse(s, o)
      PROVE  /\ pc'[t] = pc[t] /\ type'[t] = type[t] /\ obj'[t] = obj[t]
             /\ fd'[t] = fd[t] /\ reply'[t] = reply[t] /\ out'[t] = out[t]
  BY <1>5 DEF WriteAuthMethod, WriteAuthUser, WriteResponse, Say
<1>6. ASSUME NEW o, Resolve(s, o) \/ ConnectFails(s, o)
      PROVE  /\ pc'[t] = pc[t] /\ type'[t] = type[t] /\ obj'[t] = obj[t]
             /\ fd'[t] = fd[t] /\ reply'[t] = reply[t] /\ out'[t] = out[t]
  BY <1>6 DEF Resolve, ConnectFails
<1>7. CASE OpenUpstreamFails(s) \/ BindFails(s) \/ UnknownCommand(s)
  BY <1>7 DEF OpenUpstreamFails, BindFails, UnknownCommand
<1>8. ASSUME NEW f, NEW g, BindBoth(s, f, g)
      PROVE  /\ pc'[t] = pc[t] /\ type'[t] = type[t] /\ obj'[t] = obj[t]
             /\ fd'[t] = fd[t] /\ reply'[t] = reply[t] /\ out'[t] = out[t]
  BY <1>8 DEF BindBoth
<1> HIDE DEF Shape, Goto, Hold
<1> QED
  BY <1>1, <1>2, <1>3, <1>4, <1>5, <1>6, <1>7, <1>8 DEF Step, Dispatch

LEMMA FrameInv ==
    ASSUME Shape, NEW s \in Sessions, NEW t \in Sessions, s # t, Step(s), SessionInv(t)
    PROVE  SessionInv(t)'
<1>1. /\ pc'[t] = pc[t] /\ type'[t] = type[t] /\ obj'[t] = obj[t]
      /\ fd'[t] = fd[t] /\ reply'[t] = reply[t] /\ out'[t] = out[t]
  BY Frame
<1> QED
  BY <1>1 DEF SessionInv, Ended, IsReady, HoldsNothing, Passed, Wanted

-----------------------------------------------------------------------------
(* A session's own steps keep its invariant.  The proofs of the groups of   *)
(* actions first say what the step does to this session.                    *)
LEMMA OpeningSteps ==
    ASSUME Shape, NEW s \in Sessions, SessionInv(s),
           (\E f \in Fds : New(s, f)) \/ SetAuth(s) \/ Run(s) \/ Destruct(s)
    PROVE  SessionInv(s)'
<1> USE FdAssumption DEF Shape, Goto, SessionInv, HoldsNothing
<1>1. ASSUME NEW f \in Fds, New(s, f) PROVE SessionInv(s)'
  <2>1. /\ pc'[s] = "new" /\ type'[s] = "NONE" /\ obj'[s] = NoObj /\ out'[s] = <<>>
        /\ fd'[s] = [NoFds EXCEPT !["ctl"] = f]
    BY <1>1 DEF New
  <2>2. fd'[s]["ctl"] = f /\ \A k \in {"fds0", "fds1", "conn"} : fd'[s][k] = NoFd
    BY <2>1 DEF NoFds, Slots
  <2> QED
    BY <2>1, <2>2
<1>2. CASE SetAuth(s)
  <2>1. pc'[s] = "new" /\ obj'[s] = AuthObj /\ UNCHANGED <<type, fd, out>> /\ pc[s] = "new"
    BY <1>2 DEF SetAuth
  <2> QED
    BY <2>1
<1>3. CASE Run(s)
  <2>1. pc'[s] = "readMethod" /\ UNCHANGED <<type, obj, fd, out>> /\ pc[s] = "new"
    BY <1>3 DEF Run
  <2> QED
    BY <2>1
<1>4. CASE Destruct(s)
  <2>1. /\ pc'[s] = "none" /\ type'[s] = "NONE" /\ obj'[s] = NoObj /\ out'[s] = <<>>
        /\ fd'[s] = NoFds
    BY <1>4 DEF Destruct
  <2> QED
    BY <2>1 DEF NoFds, Slots
<1> QED
  BY <1>1, <1>2, <1>3, <1>4

LEMMA AuthSteps ==
    ASSUME Shape, NEW s \in Sessions, SessionInv(s), obj[s] \in Users \cup {NoObj, AuthObj},
           \/ \E in : ReadAuthMethod(s, in) \/ ReadAuthUser(s, in)
           \/ \E o : WriteAuthMethod(s, o) \/ WriteAuthUser(s, o)
    PROVE  SessionInv(s)'
<1> USE AccountAssumption DEF Shape, Goto, SessionInv, HoldsNothing
<1>1. ASSUME NEW in, ReadAuthMethod(s, in) PROVE SessionInv(s)'
  <2>1. /\ pc[s] = "readMethod" /\ pc'[s] = "writeMethod"
        /\ reply'[s] \in {-1, Wanted(s)}
        /\ UNCHANGED <<type, obj, fd, out>>
    BY <1>1 DEF ReadAuthMethod
  <2> QED
    BY <2>1 DEF Wanted
<1>2. ASSUME NEW in, ReadAuthUser(s, in) PROVE SessionInv(s)'
  <2>1. /\ pc[s] = "readUser" /\ pc'[s] = "writeUser"
        /\ \/ reply'[s] = 0 /\ obj'[s] \in Users
           \/ reply'[s] = -1 /\ obj'[s] = obj[s]
        /\ UNCHANGED <<type, fd, out>>
    BY <1>2 DEF ReadAuthUser, Genuine
  <2> QED
    BY <2>1
<1>3. ASSUME NEW o, WriteAuthMethod(s, o) PROVE SessionInv(s)'
  <2>1. pc[s] = "writeMethod" /\ UNCHANGED <<type, obj, fd>>
    BY <1>3 DEF WriteAuthMethod
  <2>2. CASE o # "done"
    <3>1. pc'[s] = "fini" /\ out' = out
      BY <1>3, <2>2 DEF WriteAuthMethod, Say
    <3> QED
      BY <2>1, <3>1 DEF Ended
  <2>3. CASE o = "done"
    <3>1. out'[s] = <<MethodReply(reply[s])>>
      BY <1>3, <2>1, <2>3, AppendOne DEF WriteAuthMethod, Say
    <3>2. CASE reply[s] = -1
      <4>1. pc'[s] = "fini"
        BY <1>3, <2>3, <3>2 DEF WriteAuthMethod, MethodNone, MethodUser
      <4> QED
        BY <2>1, <3>1, <3>2, <4>1 DEF Ended
    <3>3. CASE reply[s] = MethodNone /\ obj[s] = NoObj
      <4>1. pc'[s] = "readRequest"
        BY <1>3, <2>3, <3>3 DEF WriteAuthMethod, MethodNone, MethodUser
      <4> QED
        BY <2>1, <3>1, <3>3, <4>1 DEF Passed
    <3>4. CASE reply[s] = MethodUser /\ obj[s] = AuthObj
      <4>1. pc'[s] = "readUser"
        BY <1>3, <2>3, <3>4 DEF WriteAuthMethod, MethodNone, MethodUser
      <4> QED
        BY <2>1, <3>1, <3>4, <4>1
    <3> QED
      BY <2>1, <3>2, <3>3, <3>4 DEF Wanted
  <2> QED
    BY <2>2, <2>3
<1>4. ASSUME NEW o, WriteAuthUser(s, o) PROVE SessionInv(s)'
  <2>1. pc[s] = "writeUser" /\ UNCHANGED <<type, obj, fd>>
    BY <1>4 DEF WriteAuthUser
  <2>2. CASE o # "done"
    <3>1. pc'[s] = "fini" /\ out' = out
      BY <1>4, <2>2 DEF WriteAuthUser, Say
    <3> QED
      BY <2>1, <3>1 DEF Ended
  <2>3. CASE o = "done"
    <3>1. out'[s] = <<MethodReply(MethodUser), AuthReply(reply[s])>>
      <4>1. out'[s] = Append(<<MethodReply(MethodUser)>>, AuthReply(reply[s]))
        BY <1>4, <2>1, <2>3 DEF WriteAuthUser, Say
      <4> QED
        BY <4>1, AppendTwo
    <3>2. CASE reply[s] = 0 /\ obj[s] \in Users
      <4>1. pc'[s] = "readRequest"
        BY <1>4, <2>3, <3>2 DEF WriteAuthUser
      <4> QED
        BY <2>1, <3>1, <3>2, <4>1 DEF Passed
    <3>3. CASE reply[s] = -1 /\ obj[s] = AuthObj
      <4>1. pc'[s] = "fini"
        BY <1>4, <2>3, <3>3 DEF WriteAuthUser
      <4> QED
        BY <2>1, <3>1, <3>3, <4>1 DEF Ended
    <3> QED
      BY <2>1, <3>2, <3>3
  <2> QED
    BY <2>2, <2>3
<1> QED
  BY <1>1, <1>2, <1>3, <1>4

LEMMA RequestSteps ==
    ASSUME Shape, NEW s \in Sessions, SessionInv(s),
           \/ \E in : ReadRequest(s, in)
           \/ \E answer : Resolve(s, answer)
    PROVE  SessionInv(s)'
<1> USE DEF Shape, Goto, SessionInv, HoldsNothing, Passed, RepSucc, RepFail, RepHost,
            RepImpl, RepAddr, Reps
<1>1. ASSUME NEW in, LoseRequest(s, in) PROVE SessionInv(s)'
  <2>1. /\ pc[s] = "readRequest" /\ pc'[s] = "fini"
        /\ UNCHANGED <<type, obj, fd, reply, out>>
    BY <1>1 DEF LoseRequest
  <2> QED
    BY <2>1 DEF Ended
<1>2. ASSUME NEW in, RefuseRequest(s, in) PROVE SessionInv(s)'
  <2>1. /\ pc[s] = "readRequest" /\ pc'[s] = "writeResponse"
        /\ reply'[s] \in {RepFail, RepAddr}
        /\ UNCHANGED <<type, obj, fd, out>>
    BY <1>2 DEF RefuseRequest, RequestRep
  <2> QED
    BY <2>1
<1>3. ASSUME NEW in, AcceptRequest(s, in) PROVE SessionInv(s)'
  <2>1. /\ pc[s] = "readRequest" /\ pc'[s] \in {"resolve", "dispatch"}
        /\ reply'[s] = RepSucc
        /\ UNCHANGED <<type, obj, fd, out>>
    BY <1>3 DEF AcceptRequest
  <2> QED
    BY <2>1
<1>4. ASSUME NEW answer, Resolve(s, answer) PROVE SessionInv(s)'
  <2>1. /\ pc[s] = "resolve"
        /\ \/ pc'[s] = "dispatch" /\ reply' = reply
           \/ pc'[s] = "writeResponse" /\ reply'[s] = RepAddr
        /\ UNCHANGED <<type, obj, fd, out>>
    BY <1>4 DEF Resolve
  <2> QED
    BY <2>1
<1> QED
  BY <1>1, <1>2, <1>3, <1>4 DEF ReadRequest

LEMMA DispatchSteps ==
    ASSUME Shape, NEW s \in Sessions, SessionInv(s), Dispatch(s)
    PROVE  SessionInv(s)'
<1> USE FdAssumption DEF Shape, Goto, Hold, Slots, SessionInv, HoldsNothing, Passed, IsReady,
            RepSucc, RepFail, RepHost, RepImpl, RepAddr, Reps, UdpType
<1>1. CASE OpenUpstreamFails(s)
  <2>1. /\ pc[s] = "dispatch" /\ pc'[s] = "writeResponse" /\ reply'[s] = RepHost
        /\ type'[s] = "TCP" /\ UNCHANGED <<obj, fd, out>>
    BY <1>1 DEF OpenUpstreamFails
  <2> QED
    BY <2>1
<1>2. CASE BindFails(s)
  <2>1. /\ pc[s] = "dispatch" /\ pc'[s] = "writeResponse" /\ reply'[s] = RepFail
        /\ UNCHANGED <<obj, out>>
        /\ fd'[s]["ctl"] = fd[s]["ctl"] /\ fd'[s]["conn"] = fd[s]["conn"]
    BY <1>2 DEF BindFails
  <2> QED
    BY <2>1
<1>3. CASE UnknownCommand(s)
  <2>1. /\ pc[s] = "dispatch" /\ pc'[s] = "writeResponse" /\ reply'[s] = RepImpl
        /\ UNCHANGED <<type, obj, fd, out>>
    BY <1>3 DEF UnknownCommand
  <2> QED
    BY <2>1
<1>4. ASSUME NEW f \in Fds, OpenUpstream(s, f) PROVE SessionInv(s)'
  <2>1. /\ pc[s] = "dispatch" /\ pc'[s] = "connecting"
        /\ UNCHANGED <<type, obj, reply, out>>
        /\ fd'[s] = [fd[s] EXCEPT !["conn"] = f]
    BY <1>4 DEF OpenUpstream
  <2> QED
    BY <2>1
<1>5. ASSUME NEW f \in Fds, BindUpstream(s, f) PROVE SessionInv(s)'
  <2>1. /\ pc[s] = "dispatch" /\ pc'[s] = "writeResponse"
        /\ UNCHANGED <<obj, reply, out>> /\ type'[s] = "UDP_IN_TCP"
        /\ fd'[s] = [fd[s] EXCEPT !["fds0"] = f]
    BY <1>5 DEF BindUpstream, CmdUdpAsc, CmdFwdUdp
  <2> QED
    BY <2>1
<1>6. ASSUME NEW f \in Fds, NEW g \in Fds, BindBoth(s, f, g) PROVE SessionInv(s)'
  <2>1. /\ pc[s] = "dispatch" /\ pc'[s] = "writeResponse"
        /\ UNCHANGED <<obj, reply, out>> /\ type'[s] = "UDP_IN_UDP"
        /\ fd'[s] = [fd[s] EXCEPT !["fds0"] = f, !["fds1"] = g]
    BY <1>6 DEF BindBoth, CmdUdpAsc, CmdFwdUdp
  <2> QED
    BY <2>1
<1> QED
  BY <1>1, <1>2, <1>3, <1>4, <1>5, <1>6 DEF Dispatch

LEMMA ClosingSteps ==
    ASSUME Shape, NEW s \in Sessions, SessionInv(s),
           \/ Connected(s) \/ Service(s) \/ SpliceEnds(s)
           \/ \E o : ConnectFails(s, o) \/ WriteResponse(s, o)
    PROVE  SessionInv(s)'
<1> USE FdAssumption DEF Shape, Goto, Hold, Slots, SessionInv, HoldsNothing, Passed, IsReady,
            RepSucc, RepFail, RepHost, RepImpl, RepAddr, Reps
<1>1. CASE Connected(s)
  <2>1. /\ pc[s] = "connecting" /\ pc'[s] = "writeResponse" /\ type'[s] = "TCP"
        /\ UNCHANGED <<obj, reply, out>>
        /\ fd'[s] = [fd[s] EXCEPT !["fds0"] = fd[s]["conn"], !["conn"] = NoFd]
    BY <1>1 DEF Connected
  <2>2. /\ fd'[s]["ctl"] = fd[s]["ctl"] /\ fd'[s]["fds1"] = fd[s]["fds1"]
        /\ fd'[s]["fds0"] = fd[s]["conn"] /\ fd'[s]["conn"] = NoFd
    BY <2>1
  <2> QED
    BY <2>1, <2>2
<1>2. CASE Service(s) \/ SpliceEnds(s)
  <2>1. /\ \/ pc[s] = "service" /\ pc'[s] = "splice"
           \/ pc[s] = "splice" /\ pc'[s] = "fini"
        /\ UNCHANGED <<type, obj, fd, reply, out>>
    BY <1>2 DEF Service, SpliceEnds
  <2> QED
    BY <2>1 DEF Ended
<1>3. ASSUME NEW o, ConnectFails(s, o) PROVE SessionInv(s)'
  <2>1. /\ pc[s] = "connecting" /\ pc'[s] = "writeResponse" /\ reply'[s] = RepHost
        /\ UNCHANGED <<obj, out>>
        /\ fd'[s] = [fd[s] EXCEPT !["conn"] = NoFd]
    BY <1>3 DEF ConnectFails
  <2> QED
    BY <2>1
<1>4. ASSUME NEW o, WriteResponse(s, o) PROVE SessionInv(s)'
  <2>1. /\ pc[s] = "writeResponse" /\ UNCHANGED <<type, obj, fd, reply>>
        /\ pc'[s] = IF o = "done" /\ reply[s] = RepSucc THEN "service" ELSE "fini"
        /\ out'[s] = IF o = "done" THEN Append(out[s], Response(reply[s])) ELSE out[s]
    BY <1>4 DEF WriteResponse, Say
  <2> QED
    BY <2>1 DEF Ended
<1> QED
  BY <1>1, <1>2, <1>3, <1>4

LEMMA SessionStep ==
    ASSUME TypeOK, NEW s \in Sessions, SessionInv(s), Step(s)
    PROVE  SessionInv(s)'
<1>1. Shape /\ obj[s] \in Users \cup {NoObj, AuthObj}
  BY ShapeOfTypes DEF TypeOK
<1> QED
  BY <1>1, OpeningSteps, AuthSteps, RequestSteps, DispatchSteps, ClosingSteps DEF Step

-----------------------------------------------------------------------------
(* Ownership of descriptors, of any table h of slots and set o of open      *)
(* descriptors, under the ways in which the server changes them.            *)
Tables == [Sessions -> [Slots -> Fds \cup {NoFd}]]

Owned(h, o) ==
    /\ \A f \in Fds : f \in o <=> \E s \in Sessions, k \in Slots : h[s][k] = f
    /\ \A s, t \in Sessions : \A k, l \in Slots :
         h[s][k] = h[t][l] /\ h[s][k] # NoFd => s = t /\ k = l

\* An empty slot is given a descriptor that was not open.
LEMMA TakeOwned ==
    ASSUME NEW h \in Tables, NEW o \in SUBSET Fds, Owned(h, o),
           NEW s \in Sessions, NEW k \in Slots, h[s][k] = NoFd,
           NEW f \in Fds \ o,
           NEW h2 \in Tables,
           \A t \in Sessions, l \in Slots :
             h2[t][l] = IF t = s /\ l = k THEN f ELSE h[t][l]
    PROVE  Owned(h2, o \cup {f})
<1>1. \A t \in Sessions, l \in Slots : h[t][l] # f
  BY DEF Owned
<1>2. \A g \in Fds : g \in o \cup {f} <=> \E t \in Sessions, l \in Slots : h2[t][l] = g
  BY FdAssumption DEF Owned
<1>3. \A t, u \in Sessions : \A l, m \in Slots :
        h2[t][l] = h2[u][m] /\ h2[t][l] # NoFd => t = u /\ l = m
  BY <1>1 DEF Owned
<1> QED
  BY <1>2, <1>3 DEF Owned

\* The descriptors of some slots R of a session are closed and forgotten.
LEMMA ReleaseOwned ==
    ASSUME NEW h \in Tables, NEW o \in SUBSET Fds, Owned(h, o),
           NEW s \in Sessions, NEW R \in SUBSET Slots,
           NEW h2 \in Tables,
           \A t \in Sessions, l \in Slots :
             h2[t][l] = IF t = s /\ l \in R THEN NoFd ELSE h[t][l]
    PROVE  Owned(h2, o \ {h[s][k] : k \in R})
<1>1. \A g \in Fds : g \in o \ {h[s][k] : k \in R}
                       <=> \E t \in Sessions, l \in Slots : h2[t][l] = g
  <2> SUFFICES ASSUME NEW g \in Fds
               PROVE  g \in o \ {h[s][k] : k \in R}
                        <=> \E t \in Sessions, l \in Slots : h2[t][l] = g
    OBVIOUS
  <2>1. ASSUME g \in o, \A k \in R : g # h[s][k]
        PROVE  \E t \in Sessions, l \in Slots : h2[t][l] = g
    <3>1. PICK t \in Sessions, l \in Slots : h[t][l] = g
      BY <2>1 DEF Owned
    <3>2. h2[t][l] = g
      BY <2>1, <3>1
    <3> QED
      BY <3>2
  <2>2. ASSUME NEW t \in Sessions, NEW l \in Slots, h2[t][l] = g
        PROVE  g \in o /\ \A k \in R : g # h[s][k]
    <3>1. h[t][l] = g /\ ~(t = s /\ l \in R)
      BY <2>2, FdAssumption
    <3>2. g \in o
      BY <3>1 DEF Owned
    <3>3. ASSUME NEW k \in R, g = h[s][k] PROVE FALSE
      BY <3>1, <3>3, FdAssumption DEF Owned
    <3> QED
      BY <3>2, <3>3
  <2> QED
    BY <2>1, <2>2
<1>2. \A t, u \in Sessions : \A l, m \in Slots :
        h2[t][l] = h2[u][m] /\ h2[t][l] # NoFd => t = u /\ l = m
  BY DEF Owned
<1> QED
  BY <1>1, <1>2 DEF Owned

\* A descriptor moves from one slot of a session to an empty one.
LEMMA MoveOwned ==
    ASSUME NEW h \in Tables, NEW o \in SUBSET Fds, Owned(h, o),
           NEW s \in Sessions, NEW k \in Slots, NEW k2 \in Slots, k # k2, h[s][k2] = NoFd,
           NEW h2 \in Tables,
           \A t \in Sessions, l \in Slots :
             h2[t][l] = IF t = s /\ l = k2 THEN h[s][k]
                        ELSE IF t = s /\ l = k THEN NoFd ELSE h[t][l]
    PROVE  Owned(h2, o)
<1>1. \A g \in Fds : g \in o <=> \E t \in Sessions, l \in Slots : h2[t][l] = g
  <2> SUFFICES ASSUME NEW g \in Fds
               PROVE  g \in o <=> \E t \in Sessions, l \in Slots : h2[t][l] = g
    OBVIOUS
  <2>1. ASSUME g \in o PROVE \E t \in Sessions, l \in Slots : h2[t][l] = g
    <3>1. PICK t \in Sessions, l \in Slots : h[t][l] = g
      BY <2>1 DEF Owned
    <3>2. CASE t = s /\ l = k
      <4>1. h2[s][k2] = g
        BY <3>1, <3>2
      <4> QED
        BY <4>1
    <3>3. CASE ~(t = s /\ l = k)
      <4>1. h2[t][l] = g
        BY <3>1, <3>3, FdAssumption
      <4> QED
        BY <4>1
    <3> QED
      BY <3>2, <3>3
  <2>2. ASSUME NEW t \in Sessions, NEW l \in Slots, h2[t][l] = g PROVE g \in o
    BY <2>2, FdAssumption DEF Owned
  <2> QED
    BY <2>1, <2>2
<1>2. \A t, u \in Sessions : \A l, m \in Slots :
        h2[t][l] = h2[u][m] /\ h2[t][l] # NoFd => t = u /\ l = m
  BY DEF Owned
<1> QED
  BY <1>1, <1>2 DEF Owned

LEMMA FdStep ==
    ASSUME TypeOK, TypeOK', FdOwnership, NEW s \in Sessions, SessionInv(s), Step(s)
    PROVE  FdOwnership'
<1> DEFINE Same == UNCHANGED <<fd, open>>
<1>0. /\ fd \in Tables /\ fd' \in Tables /\ open \in SUBSET Fds
      /\ Owned(fd, open)
      /\ Owned(fd', open') => FdOwnership'
  BY DEF TypeOK, FdOwnership, Owned, Tables
<1>s. Same => FdOwnership'
  BY DEF FdOwnership
<1>1. ASSUME NEW f \in Fds, New(s, f) PROVE FdOwnership'
  <2>1. /\ f \in Fds \ open /\ open' = open \cup {f} /\ fd[s]["ctl"] = NoFd
        /\ \A t \in Sessions, l \in Slots :
             fd'[t][l] = IF t = s /\ l = "ctl" THEN f ELSE fd[t][l]
    BY <1>1, <1>0 DEF New, SessionInv, NoFds, Slots, Tables
  <2> QED
    BY <2>1, <1>0, TakeOwned DEF Slots
<1>2. ASSUME NEW f \in Fds, OpenUpstream(s, f) PROVE FdOwnership'
  <2>1. /\ f \in Fds \ open /\ open' = open \cup {f} /\ fd[s]["conn"] = NoFd
        /\ \A t \in Sessions, l \in Slots :
             fd'[t][l] = IF t = s /\ l = "conn" THEN f ELSE fd[t][l]
    BY <1>2, <1>0 DEF OpenUpstream, Hold, SessionInv, HoldsNothing, Slots, Tables
  <2> QED
    BY <2>1, <1>0, TakeOwned DEF Slots
<1>3. ASSUME NEW f \in Fds, BindUpstream(s, f) PROVE FdOwnership'
  <2>1. /\ f \in Fds \ open /\ open' = open \cup {f} /\ fd[s]["fds0"] = NoFd
        /\ \A t \in Sessions, l \in Slots :
             fd'[t][l] = IF t = s /\ l = "fds0" THEN f ELSE fd[t][l]
    BY <1>3, <1>0 DEF BindUpstream, Hold, SessionInv, HoldsNothing, Slots, Tables
  <2> QED
    BY <2>1, <1>0, TakeOwned DEF Slots
<1>4. CASE BindFails(s)
  <2>1. ASSUME NEW f \in Fds \ open, open' = open \cup {f}, Hold(s, "fds0", f)
        PROVE  FdOwnership'
    <3>1. /\ fd[s]["fds0"] = NoFd
          /\ \A t \in Sessions, l \in Slots :
               fd'[t][l] = IF t = s /\ l = "fds0" THEN f ELSE fd[t][l]
      BY <1>4, <2>1, <1>0 DEF BindFails, Hold, SessionInv, HoldsNothing, Slots, Tables
    <3> QED
      BY <2>1, <3>1, <1>0, TakeOwned DEF Slots
  <2> QED
    BY <1>4, <2>1, <1>s DEF BindFails
<1>5. ASSUME NEW f \in Fds, NEW g \in Fds, BindBoth(s, f, g) PROVE FdOwnership'
  <2> DEFINE h == [fd EXCEPT ![s] = [@ EXCEPT !["fds0"] = f]]
             o == open \cup {f}
  <2>1. /\ f \in Fds \ open /\ g \in Fds \ o /\ open' = o \cup {g}
        /\ fd[s]["fds0"] = NoFd /\ fd[s]["fds1"] = NoFd
        /\ fd' = [fd EXCEPT ![s] = [@ EXCEPT !["fds0"] = f, !["fds1"] = g]]
    BY <1>5 DEF BindBoth, SessionInv, HoldsNothing
  <2>2. h \in Tables /\ o \in SUBSET Fds
    BY <1>0 DEF Tables, Slots
  <2>3. \A t \in Sessions, l \in Slots :
          h[t][l] = IF t = s /\ l = "fds0" THEN f ELSE fd[t][l]
    BY <1>0 DEF Tables, Slots
  <2>4. \A t \in Sessions, l \in Slots :
          fd'[t][l] = IF t = s /\ l = "fds1" THEN g ELSE h[t][l]
    BY <1>0, <2>1 DEF Tables, Slots
  <2>5. "fds0" \in Slots /\ "fds1" \in Slots
    BY DEF Slots
  <2>6. h[s]["fds1"] = NoFd
    BY <2>1, <2>3, <2>5
  <2>7. o = open \cup {f}
    OBVIOUS
  <2> HIDE DEF h, o
  <2>8. Owned(h, o)
    BY <1>0, <2>1, <2>2, <2>3, <2>5, <2>7, TakeOwned
  <2>9. g \in Fds \ o
    BY <2>1
  <2>10. Owned(fd', o \cup {g})
    BY <1>0, <2>2, <2>4, <2>5, <2>6, <2>8, <2>9, TakeOwned
  <2> QED
    BY <2>1, <2>10, <1>0
<1>6. CASE Connected(s)
  <2>1. /\ open' = open /\ fd[s]["fds0"] = NoFd
        /\ fd' = [fd EXCEPT ![s] = [@ EXCEPT !["fds0"] = fd[s]["conn"], !["conn"] = NoFd]]
    BY <1>6 DEF Connected, SessionInv
  <2>2. \A t \in Sessions, l \in Slots :
          fd'[t][l] = IF t = s /\ l = "fds0" THEN fd[s]["conn"]
                      ELSE IF t = s /\ l = "conn" THEN NoFd ELSE fd[t][l]
    BY <1>0, <2>1 DEF Tables, Slots
  <2>3. "fds0" \in Slots /\ "conn" \in Slots /\ "conn" # "fds0"
    BY DEF Slots
  <2>4. fd[s]["fds0"] = NoFd
    BY <2>1
  <2>5. Owned(fd', open)
    BY <1>0, <2>2, <2>3, <2>4, MoveOwned
  <2> QED
    BY <1>0, <2>1, <2>5
<1>7. ASSUME NEW o, ConnectFails(s, o) PROVE FdOwnership'
  <2>1. /\ open' = open \ {fd[s][k] : k \in {"conn"}}
        /\ \A t \in Sessions, l \in Slots :
             fd'[t][l] = IF t = s /\ l \in {"conn"} THEN NoFd ELSE fd[t][l]
    BY <1>7, <1>0 DEF ConnectFails, Hold, Tables, Slots
  <2>2. Owned(fd', open \ {fd[s][k] : k \in {"conn"}})
    BY <1>0, <2>1, ReleaseOwned DEF Slots
  <2> QED
    BY <1>0, <2>1, <2>2
<1>8. CASE Destruct(s)
  <2>1. fd[s]["conn"] = NoFd
    BY <1>8 DEF Destruct, SessionInv, HoldsNothing
  <2>2. /\ open' = open \ {fd[s][k] : k \in {"fds0", "fds1", "ctl"}}
        /\ fd' = [fd EXCEPT ![s] = NoFds]
    BY <1>8 DEF Destruct, Closed
  <2>3. \A t \in Sessions, l \in Slots :
          fd'[t][l] = IF t = s /\ l \in {"fds0", "fds1", "ctl"} THEN NoFd ELSE fd[t][l]
    BY <2>1, <2>2, <1>0 DEF NoFds, Tables, Slots
  <2>4. Owned(fd', open \ {fd[s][k] : k \in {"fds0", "fds1", "ctl"}})
    BY <1>0, <2>3, ReleaseOwned DEF Slots
  <2> QED
    BY <1>0, <2>2, <2>4
<1>9. CASE SetAuth(s) \/ Run(s) \/ Service(s) \/ SpliceEnds(s)
           \/ OpenUpstreamFails(s) \/ UnknownCommand(s)
  BY <1>9, <1>s DEF SetAuth, Run, Service, SpliceEnds, OpenUpstreamFails, UnknownCommand
<1>10. ASSUME NEW in, ReadAuthMethod(s, in) \/ ReadAuthUser(s, in) \/ ReadRequest(s, in)
       PROVE  FdOwnership'
  BY <1>10, <1>s DEF ReadAuthMethod, ReadAuthUser, ReadRequest, LoseRequest,
                     RefuseRequest, AcceptRequest
<1>11. ASSUME NEW o, \/ WriteAuthMethod(s, o) \/ WriteAuthUser(s, o)
                     \/ WriteResponse(s, o) \/ Resolve(s, o)
       PROVE  FdOwnership'
  BY <1>11, <1>s DEF WriteAuthMethod, WriteAuthUser, WriteResponse, Resolve
<1> QED
  BY <1>1, <1>2, <1>3, <1>4, <1>5, <1>6, <1>7, <1>8, <1>9, <1>10, <1>11
  DEF Step, Dispatch

-----------------------------------------------------------------------------
(* The inductive invariant: types, ownership and each session's own part.   *)
IInv == TypeOK /\ FdOwnership /\ SessionsInv

LEMMA IInvInit == Init => IInv
<1> SUFFICES ASSUME Init PROVE IInv
  OBVIOUS
<1>1. TypeOK
  BY TypeInit
<1>2. FdOwnership
  BY FdAssumption DEF Init, FdOwnership, NoFds, Slots
<1>3. SessionsInv
  BY DEF Init, SessionsInv, SessionInv, HoldsNothing, NoFds, Slots
<1> QED
  BY <1>1, <1>2, <1>3 DEF IInv

LEMMA IInvNext == IInv /\ [Next]_vars => IInv'
<1> SUFFICES ASSUME IInv, [Next]_vars PROVE IInv'
  OBVIOUS
<1>1. ASSUME NEW s \in Sessions, Step(s) PROVE IInv'
  <2>1. TypeOK'
    BY <1>1, TypeStep DEF IInv
  <2>2. FdOwnership'
    BY <1>1, <2>1, FdStep DEF IInv, SessionsInv
  <2>3. ASSUME NEW t \in Sessions PROVE SessionInv(t)'
    <3>1. CASE t = s
      BY <1>1, <3>1, SessionStep DEF IInv, SessionsInv
    <3>2. CASE t # s
      BY <1>1, <3>2, FrameInv, ShapeOfTypes DEF IInv, SessionsInv
    <3> QED
      BY <3>1, <3>2
  <2> QED
    BY <2>1, <2>2, <2>3 DEF IInv, SessionsInv
<1>2. CASE UNCHANGED vars
  <2>1. TypeOK'
    BY <1>2 DEF IInv, vars, TypeOK
  <2>2. FdOwnership'
    BY <1>2 DEF IInv, vars, FdOwnership
  <2>3. SessionsInv'
    BY <1>2 DEF IInv, vars, SessionsInv, SessionInv, Ended, IsReady, HoldsNothing, Passed, Wanted
  <2> QED
    BY <2>1, <2>2, <2>3 DEF IInv
<1> QED
  BY <1>1, <1>2 DEF Next

THEOREM Invariance == Spec => []IInv
  BY IInvInit, IInvNext, PTL DEF Spec

(* No descriptor is leaked, closed twice or shared by two sessions.         *)
THEOREM DescriptorsAreOwned == Spec => []FdOwnership
  BY Invariance, PTL DEF IInv

(* Where a session stands tells what it holds, has said and owes.           *)
THEOREM EverySession == Spec => []SessionsInv
  BY Invariance, PTL DEF IInv

-----------------------------------------------------------------------------
(* The gate.                                                                *)

\* The replies of a session that has not passed a gate say so.
LEMMA NotTold ==
    ASSUME NEW w,
           w \in {<<>>, <<MethodReply(-1)>>, <<MethodReply(MethodUser)>>,
                  <<MethodReply(MethodUser), AuthReply(-1)>>}
    PROVE  \A i \in DOMAIN w : w[i] # AuthReply(0) /\ w[i].kind # "response"
<1>1. AuthReply(-1) # AuthReply(0) /\ AuthReply(-1).kind = "auth"
  <2>1. ToByte(0) # ToByte(-1)
    <3>1. ToByte(0) = 0
      BY Bytes
    <3> QED
      BY <3>1, Bytes
  <2> QED
    BY <2>1 DEF AuthReply
<1>2. \A m : MethodReply(m) # AuthReply(0) /\ MethodReply(m).kind = "method"
  BY DEF MethodReply, AuthReply
<1> QED
  BY <1>1, <1>2

LEMMA HeldBack ==
    ASSUME NEW s \in Sessions, SessionInv(s), pc[s] \in Pcs, obj[s] = AuthObj
    PROVE  GateIsShut(s)
<1> USE AccountAssumption
<1>1. HoldsNothing(s)
  BY DEF SessionInv, Ended, HoldsNothing
<1>2. out[s] \in {<<>>, <<MethodReply(-1)>>, <<MethodReply(MethodUser)>>,
                  <<MethodReply(MethodUser), AuthReply(-1)>>}
  BY DEF SessionInv, Ended, Pcs, PeerWaits
<1>3. \A i \in DOMAIN out[s] : out[s][i] # AuthReply(0) /\ out[s][i].kind # "response"
  BY <1>2, NotTold
<1> QED
  BY <1>1, <1>3 DEF GateIsShut, HoldsNothing

\* Who has passed has been told.
LEMMA TellsPassed ==
    ASSUME NEW w, \/ w = <<MethodReply(MethodUser), AuthReply(0)>>
                  \/ \E r : w = Append(<<MethodReply(MethodUser), AuthReply(0)>>, Response(r))
    PROVE  \E i \in DOMAIN w : w[i] = AuthReply(0)
<1> DEFINE p == <<MethodReply(MethodUser), AuthReply(0)>>
<1>1. CASE w = p
  BY <1>1
<1>2. ASSUME NEW r, w = Append(p, r) PROVE 2 \in DOMAIN w /\ w[2] = AuthReply(0)
  <2> DEFINE S == {MethodReply(MethodUser), AuthReply(0), r}
  <2>1. p \in Seq(S) /\ r \in S /\ Len(p) = 2 /\ p[2] = AuthReply(0)
    OBVIOUS
  <2> HIDE DEF p, S
  <2>2. w \in Seq(S) /\ Len(w) = 3 /\ w[2] = p[2]
    BY <1>2, <2>1, AppendProperties
  <2> QED
    BY <2>1, <2>2
<1> QED
  BY <1>1, <1>2

LEMMA LetThrough ==
    ASSUME NEW s \in Sessions, SessionInv(s), pc[s] \in Pcs, obj[s] \in Users
    PROVE  \/ \E i \in DOMAIN out[s] : out[s][i] = AuthReply(0)
           \/ pc[s] = "writeUser" /\ reply[s] = 0
           \/ pc[s] = "fini" /\ Len(out[s]) = 1
<1>1. obj[s] # NoObj /\ obj[s] # AuthObj
  BY AccountAssumption
<1>2. Passed(s) = <<MethodReply(MethodUser), AuthReply(0)>>
  BY <1>1 DEF Passed
<1>3. \/ pc[s] \in {"readRequest", "resolve", "dispatch", "connecting", "writeResponse"}
      \/ pc[s] \in {"service", "splice"}
      \/ pc[s] = "fini"
      \/ pc[s] = "writeUser"
  BY <1>1 DEF SessionInv, Pcs, PeerWaits
<1>4. \/ pc[s] = "writeUser" /\ reply[s] = 0
      \/ pc[s] = "fini" /\ out[s] = <<MethodReply(MethodUser)>>
      \/ out[s] = Passed(s)
      \/ \E r : out[s] = Append(Passed(s), Response(r))
  BY <1>1, <1>3 DEF SessionInv, Ended
<1> QED
  BY <1>2, <1>4, TellsPassed

(* Nothing is done for a peer, and no success told, before the gate.        *)
THEOREM TheGateHolds == Spec => []AuthGate
<1>1. IInv => AuthGate
  BY HeldBack, LetThrough DEF IInv, SessionsInv, TypeOK, AuthGate
<1> QED
  BY <1>1, Invariance, PTL

-----------------------------------------------------------------------------
(* A peer that is told of success is given its relay.                       *)

LEMMA LastWord ==
    ASSUME NEW w, NEW r, NEW g,
           w \in {<<>>, <<MethodReply(g)>>, <<MethodReply(g), AuthReply(r)>>}
    PROVE  ~ \E i \in DOMAIN w : w[i] = Response(RepSucc)
  BY DEF MethodReply, AuthReply, Response

LEMMA SaysWhat ==
    ASSUME NEW s \in Sessions, NEW r \in Reps, out[s] = Append(Passed(s), Response(r)), Told(s)
    PROVE  r = RepSucc
<1> DEFINE p == Passed(s)
           S == {p[i] : i \in DOMAIN p} \cup {Response(r)}
<1>1. p \in Seq(S) /\ \A i \in 1 .. Len(p) : p[i].kind # "response"
  <2>1. CASE obj[s] = NoObj
    BY <2>1 DEF Passed, MethodReply
  <2>2. CASE obj[s] # NoObj
    BY <2>2 DEF Passed, MethodReply, AuthReply
  <2> QED
    BY <2>1, <2>2
<1>2. PICK i \in DOMAIN out[s] : out[s][i] = Response(RepSucc)
  BY DEF Told
<1>3. Response(r) \in S /\ Response(RepSucc).kind = "response"
  BY DEF Response
<1> HIDE DEF p, S
<1>4. out[s] = Append(p, Response(r))
  BY DEF p
<1>5. i \in 1 .. Len(p) + 1 /\ (i <= Len(p) => out[s][i] = p[i])
      /\ (i = Len(p) + 1 => out[s][i] = Response(r))
  BY <1>1, <1>2, <1>3, <1>4
<1>6. Response(r) = Response(RepSucc)
  BY <1>1, <1>2, <1>3, <1>5
<1>7. ToByte(r) = ToByte(RepSucc)
  BY <1>6 DEF Response
<1>8. r \in 0 .. 255 /\ RepSucc \in 0 .. 255
  BY DEF Reps, RepSucc, RepFail, RepHost, RepImpl, RepAddr
<1>9. ToByte(r) = r /\ ToByte(RepSucc) = RepSucc
  BY <1>8, Bytes
<1> QED
  BY <1>7, <1>9

LEMMA ToldIsReady ==
    ASSUME NEW s \in Sessions, SessionInv(s), pc[s] \in Pcs, Told(s)
    PROVE  pc[s] \in {"service", "splice", "fini"} /\ IsReady(s)
<1>0. ~ \E g, r : out[s] \in {<<>>, <<MethodReply(g)>>, <<MethodReply(g), AuthReply(r)>>}
  BY LastWord DEF Told
<1>1. out[s] # <<>> /\ (\A g : out[s] # <<MethodReply(g)>>)
      /\ \A g, r : out[s] # <<MethodReply(g), AuthReply(r)>>
  BY <1>0
<1>2. out[s] # Passed(s)
  BY <1>1 DEF Passed
<1>3. pc[s] \in {"service", "splice", "fini"}
  BY <1>1, <1>2 DEF SessionInv, Pcs, PeerWaits
<1>4. CASE pc[s] = "fini"
  <2>1. PICK r \in Reps : out[s] = Append(Passed(s), Response(r)) /\ (r = RepSucc => IsReady(s))
    BY <1>1, <1>2, <1>4 DEF SessionInv, Ended
  <2> QED
    BY <1>3, <2>1, SaysWhat
<1>5. CASE pc[s] # "fini"
  BY <1>3, <1>5 DEF SessionInv
<1> QED
  BY <1>4, <1>5

(* A peer that was told of success has the descriptors of its relay.        *)
THEOREM SuccessIsReady == Spec => []ReadyWhenTold
<1>1. ASSUME IInv, NEW s \in Sessions, pc[s] # "none", Told(s)
      PROVE  /\ pc[s] \in {"service", "splice", "fini"}
             /\ type[s] # "NONE"
             /\ fd[s]["fds0"] \in open
             /\ ClientFd(s) \in open
             /\ ClientFd(s) # fd[s]["fds0"]
             /\ (fd[s]["fds1"] # NoFd) <=> (type[s] = "UDP_IN_UDP")
  <2>1. SessionInv(s) /\ pc[s] \in Pcs /\ fd[s] \in [Slots -> Fds \cup {NoFd}]
    BY <1>1 DEF IInv, SessionsInv, TypeOK
  <2>2. pc[s] \in {"service", "splice", "fini"} /\ IsReady(s)
    BY <1>1, <2>1, ToldIsReady
  <2>3. fd[s]["ctl"] # NoFd
    BY <1>1, <2>1 DEF SessionInv
  <2>4. "ctl" \in Slots /\ "fds0" \in Slots /\ "fds1" \in Slots
    BY DEF Slots
  <2>5. PICK k \in Slots : k # "fds0" /\ ClientFd(s) = fd[s][k] /\ fd[s][k] # NoFd
    BY <2>2, <2>3, <2>4 DEF ClientFd, IsReady
  <2>6. \A l \in Slots : fd[s][l] # NoFd => fd[s][l] \in open
    BY <1>1, <2>1 DEF IInv, FdOwnership
  <2>7. fd[s]["fds0"] # NoFd /\ fd[s][k] # fd[s]["fds0"]
    BY <1>1, <2>2, <2>4, <2>5 DEF IInv, FdOwnership, IsReady
  <2> QED
    BY <2>2, <2>4, <2>5, <2>6, <2>7 DEF IsReady
<1>2. IInv => ReadyWhenTold
  BY <1>1 DEF ReadyWhenTold
<1> QED
  BY <1>2, Invariance, PTL
-----------------------------------------------------------------------------
(* The timers.                                                              *)

\* The timer of a session at every point of its task.
PhaseTimer(s) ==
    /\ pc[s] = "new" => timeout[s] = -1
    /\ pc[s] \in (PeerWaits \ {"connecting", "writeResponse"})
                   \cup {"resolve", "dispatch", "service"} => timeout[s] = TcpTimeout
    /\ pc[s] = "connecting" => timeout[s] = ConnectTimeout
    /\ pc[s] = "writeResponse" =>
         \/ timeout[s] = TcpTimeout
         \/ reply[s] = RepHost /\ timeout[s] = ConnectTimeout
    /\ pc[s] = "splice" => timeout[s] = IF type[s] = "TCP" THEN TcpTimeout ELSE UdpTimeout

PhaseTimers == \A s \in Sessions : PhaseTimer(s)

\* The timer of a session is its own.
LEMMA FrameTimer ==
    ASSUME TypeOK, NEW s \in Sessions, NEW t \in Sessions, s # t, Step(s), PhaseTimer(t)
    PROVE  PhaseTimer(t)'
<1>1. timeout'[t] = timeout[t]
  <2> USE DEF TypeOK, ArmTimeout
  <2>1. CASE (\E f \in Fds : New(s, f)) \/ SetAuth(s) \/ Run(s) \/ Destruct(s)
    BY <2>1 DEF New, SetAuth, Run, Destruct
  <2>2. CASE \/ \E in : ReadAuthMethod(s, in) \/ ReadAuthUser(s, in) \/ ReadRequest(s, in)
             \/ \E o : WriteAuthMethod(s, o) \/ WriteAuthUser(s, o) \/ WriteResponse(s, o)
             \/ \E answer : Resolve(s, answer)
    BY <2>2 DEF ReadAuthMethod, ReadAuthUser, ReadRequest, LoseRequest, RefuseRequest,
       AcceptRequest, WriteAuthMethod, WriteAuthUser, WriteResponse, Resolve
  <2>3. CASE Dispatch(s)
    BY <2>3 DEF Dispatch, OpenUpstreamFails, BindFails, UnknownCommand, OpenUpstream,
       BindUpstream, BindBoth
  <2>4. CASE \/ Connected(s) \/ Service(s) \/ SpliceEnds(s)
             \/ \E o : ConnectFails(s, o)
    BY <2>4 DEF Connected, Service, SpliceEnds, ConnectFails
  <2> HIDE DEF TypeOK, ArmTimeout
  <2> QED
    BY <2>1, <2>2, <2>3, <2>4 DEF Step
<1>2. pc'[t] = pc[t] /\ type'[t] = type[t] /\ reply'[t] = reply[t]
  BY ShapeOfTypes, Frame
<1> QED
  BY <1>1, <1>2 DEF PhaseTimer

\* A session's own steps.  A setting of zero would stick.
LEMMA TimerStep ==
    ASSUME ConnectTimeout # 0, TcpTimeout # 0,
           TypeOK, NEW s \in Sessions, PhaseTimer(s), Step(s)
    PROVE  PhaseTimer(s)'
<1>0. /\ DOMAIN pc = Sessions /\ DOMAIN type = Sessions /\ DOMAIN timeout = Sessions
      /\ DOMAIN reply = Sessions /\ type[s] \in Types
  BY DEF TypeOK
<1> USE TimeoutAssumption DEF PhaseTimer, PeerWaits, Goto, ArmTimeout, SetTimeout
<1>1. ASSUME (\E f \in Fds : New(s, f)) \/ SetAuth(s) \/ Run(s) \/ Destruct(s)
      PROVE  PhaseTimer(s)'
  BY <1>0, <1>1 DEF New, SetAuth, Run, Destruct
<1>2. ASSUME NEW in, ReadAuthMethod(s, in) \/ ReadAuthUser(s, in) PROVE PhaseTimer(s)'
  BY <1>0, <1>2 DEF ReadAuthMethod, ReadAuthUser
<1>3. ASSUME NEW o, WriteAuthMethod(s, o) PROVE PhaseTimer(s)'
  <2>1. /\ pc[s] = "writeMethod" /\ timeout' = timeout
        /\ pc'[s] \in {"fini", "readRequest", "readUser"}
    BY <1>0, <1>3 DEF WriteAuthMethod
  <2> QED
    BY <2>1
<1>4. ASSUME NEW o, WriteAuthUser(s, o) \/ WriteResponse(s, o) PROVE PhaseTimer(s)'
  BY <1>0, <1>4 DEF WriteAuthUser, WriteResponse, RepSucc, RepHost
<1>5. ASSUME NEW in, ReadRequest(s, in) PROVE PhaseTimer(s)'
  BY <1>0, <1>5 DEF ReadRequest, LoseRequest, RefuseRequest, AcceptRequest
<1>6. ASSUME NEW o, Resolve(s, o) \/ ConnectFails(s, o) PROVE PhaseTimer(s)'
  BY <1>0, <1>6 DEF Resolve, ConnectFails
<1>7. CASE Dispatch(s)
  BY <1>0, <1>7 DEF Dispatch, OpenUpstreamFails, BindFails, UnknownCommand, OpenUpstream,
     BindUpstream, BindBoth
<1>8. CASE Connected(s) \/ Service(s) \/ SpliceEnds(s)
  BY <1>0, <1>8 DEF Connected, Service, SpliceEnds, Types
<1> QED
  BY <1>1, <1>2, <1>3, <1>4, <1>5, <1>6, <1>7, <1>8 DEF Step

(* Each wait is bounded by the timeout of its phase.  With a connect or TCP *)
(* timeout of zero hev_socks5_set_timeout would leave the first one that is *)
(* zero in force to the end.                                                *)
THEOREM TimersFit ==
    ASSUME ConnectTimeout # 0, TcpTimeout # 0
    PROVE  Spec => []TimeoutFitsPhase
<1>1. Init => PhaseTimers
  BY DEF Init, PhaseTimers, PhaseTimer, PeerWaits
<1>2. TypeOK /\ PhaseTimers /\ [Next]_vars => PhaseTimers'
  <2>1. ASSUME TypeOK, PhaseTimers, NEW s \in Sessions, Step(s), NEW t \in Sessions
        PROVE  PhaseTimer(t)'
    BY <2>1, TimerStep, FrameTimer DEF PhaseTimers
  <2>2. ASSUME PhaseTimers, UNCHANGED vars PROVE PhaseTimers'
    BY <2>2 DEF vars, PhaseTimers, PhaseTimer
  <2> QED
    BY <2>1, <2>2 DEF Next, PhaseTimers
<1>3. PhaseTimers => TimeoutFitsPhase
  BY DEF PhaseTimers, PhaseTimer, TimeoutFitsPhase, PeerWaits
<1> QED
  BY <1>1, <1>2, <1>3, TypeCorrect, PTL DEF Spec

-----------------------------------------------------------------------------
(***************************************************************************)
(* The sessions of the server keep to the dialogue that is promised to     *)
(* their peers: the initial state maps to the initial state of             *)
(* Socks5Dialogue, and every step of a session maps to a step of it or to  *)
(* none.  (That a dialogue which has begun also ends is a matter of        *)
(* fairness; it is model-checked.)                                         *)
(***************************************************************************)

\* The abstract state of one session.
Guarded(s) == obj[s] # NoObj

-----------------------------------------------------------------------------
(* The replies are those of the dialogue, byte for byte.                    *)
LEMMA Words ==
    /\ MethodReply(MethodNone) = Dialogue!Method(MethodNone)
    /\ MethodReply(MethodUser) = Dialogue!Method(MethodUser)
    /\ MethodReply(-1) = Dialogue!Method(MethodDeny)
    /\ AuthReply(0) = Dialogue!AuthStatus(0)
    /\ AuthReply(-1) = Dialogue!AuthStatus(255)
    /\ \A r \in Reps : Response(r) = Dialogue!Answer(r)
<1>1. /\ ToByte(MethodNone) = MethodNone /\ ToByte(MethodUser) = MethodUser
      /\ ToByte(-1) = MethodDeny /\ ToByte(-1) = 255 /\ ToByte(0) = 0
  <2>1. MethodNone \in 0 .. 255 /\ MethodUser \in 0 .. 255 /\ 0 \in 0 .. 255 /\ MethodDeny = 255
    BY DEF MethodNone, MethodUser, MethodDeny
  <2> QED
    BY <2>1, Bytes
<1>2. ASSUME NEW r \in Reps PROVE ToByte(r) = r
  <2>1. r \in 0 .. 255
    BY DEF Reps, RepSucc, RepFail, RepHost, RepImpl, RepAddr
  <2> QED
    BY <2>1, Bytes
<1> QED
  BY <1>1, <1>2
  DEF MethodReply, AuthReply, Response, Dialogue!Method, Dialogue!AuthStatus, Dialogue!Answer

LEMMA SamePassed ==
    ASSUME NEW s \in Sessions
    PROVE  Passed(s) = Dialogue!Passed(Guarded(s))
  BY Words DEF Passed, Guarded, Dialogue!Passed, MethodNone, MethodUser,
               Dialogue!MethodNone, Dialogue!MethodUser

-----------------------------------------------------------------------------
(* The mapped state moves at the session that takes the step only.          *)
Phases == [t \in Sessions |-> Phase(t)]
Guards == [t \in Sessions |-> obj[t] # NoObj]

LEMMA Moves ==
    ASSUME TypeOK, TypeOK', NEW s \in Sessions, Step(s)
    PROVE  /\ Phases' = [Phases EXCEPT ![s] = Phase(s)']
           /\ Guards' = [Guards EXCEPT ![s] = Guarded(s)']
           /\ out' = [out EXCEPT ![s] = out'[s]]
           /\ Phases[s] = Phase(s) /\ Guards[s] = Guarded(s)
<1>1. ASSUME NEW t \in Sessions, t # s
      PROVE  Phase(t)' = Phase(t) /\ obj'[t] = obj[t] /\ out'[t] = out[t]
  <2>1. pc'[t] = pc[t] /\ obj'[t] = obj[t] /\ out'[t] = out[t]
    BY <1>1, Frame, ShapeOfTypes
  <2> QED
    BY <2>1 DEF Phase
<1>2. Phases' = [Phases EXCEPT ![s] = Phase(s)']
  BY <1>1 DEF Phases
<1>3. Guards' = [Guards EXCEPT ![s] = Guarded(s)']
  BY <1>1 DEF Guards, Guarded
<1>4. out' = [out EXCEPT ![s] = out'[s]]
  <2>1. DOMAIN out = Sessions /\ DOMAIN out' = Sessions
        /\ out = [t \in Sessions |-> out[t]] /\ out' = [t \in Sessions |-> out'[t]]
    BY DEF TypeOK
  <2> QED
    BY <1>1, <2>1
<1> QED
  BY <1>2, <1>3, <1>4 DEF Phases, Guards, Guarded

\* A step of the server at s that says nothing and changes neither the phase
\* nor the guard is none of the dialogue's.
LEMMA Stutter ==
    ASSUME TypeOK, TypeOK', NEW s \in Sessions, Step(s),
           Phase(s)' = Phase(s), Guarded(s)' = Guarded(s), out' = out
    PROVE  UNCHANGED Dialogue!vars
<1>1. Phases' = Phases /\ Guards' = Guards
  BY Moves DEF Phases, Guards
<1> QED
  BY <1>1 DEF Phases, Guards, Dialogue!vars

LEMMA Hangup ==
    ASSUME TypeOK, TypeOK', NEW s \in Sessions, Step(s),
           Phase(s) \in {"talking", "relaying"}, Phase(s)' = "closed",
           Guarded(s)' = Guarded(s), out' = out
    PROVE  Dialogue!Close(s)
<1>1. Phases' = [Phases EXCEPT ![s] = "closed"] /\ Guards' = Guards
      /\ Phases[s] = Phase(s)
  BY Moves DEF Guards
<1> QED
  BY <1>1 DEF Phases, Guards, Dialogue!Close

LEMMA Speech ==
    ASSUME TypeOK, TypeOK', NEW s \in Sessions, Step(s), NEW m,
           Phase(s) = "talking", Phase(s)' \in {"talking", "closed"},
           Guarded(s)' = Guarded(s), out'[s] = Append(out[s], m),
           m \in Dialogue!MayFollow(Guarded(s), out[s])
    PROVE  Dialogue!Next
<1>1. /\ Phases' = [Phases EXCEPT ![s] = Phase(s)'] /\ Guards' = Guards
      /\ Phases[s] = Phase(s) /\ Guards[s] = Guarded(s)
      /\ out' = [out EXCEPT ![s] = Append(out[s], m)]
  BY Moves DEF Guards
<1>2. Phases' = Phases \/ Phases' = [Phases EXCEPT ![s] = "closed"]
  BY <1>1 DEF Phases
<1>3. Dialogue!Tell(s, m)
  BY <1>1, <1>2 DEF Phases, Guards, Dialogue!Tell
<1>4. m \in Dialogue!MayFollow([t \in Sessions |-> obj[t] # NoObj][s], out[s])
  BY <1>1 DEF Guards
<1> QED
  BY <1>3, <1>4 DEF Dialogue!Next

-----------------------------------------------------------------------------
(* What may follow what has been said.                                      *)
LEMMA FirstReply ==
    ASSUME NEW g \in BOOLEAN
    PROVE  /\ Dialogue!Method(MethodDeny) \in Dialogue!MayFollow(g, <<>>)
           /\ g => Dialogue!Method(MethodUser) \in Dialogue!MayFollow(g, <<>>)
           /\ ~g => Dialogue!Method(MethodNone) \in Dialogue!MayFollow(g, <<>>)
<1>1. /\ Dialogue!MethodUser = MethodUser /\ Dialogue!MethodNone = MethodNone
      /\ Dialogue!MethodDeny = MethodDeny
  BY DEF Dialogue!MethodUser, Dialogue!MethodNone, Dialogue!MethodDeny,
         MethodUser, MethodNone, MethodDeny
<1>2. <<>> # <<Dialogue!Method(MethodUser)>> /\ <<>> # Dialogue!Passed(g)
  BY DEF Dialogue!Passed
<1> QED
  BY <1>1, <1>2 DEF Dialogue!MayFollow

LEMMA SecondReply ==
    /\ Dialogue!AuthStatus(0) \in Dialogue!MayFollow(TRUE, <<Dialogue!Method(MethodUser)>>)
    /\ Dialogue!AuthStatus(255) \in Dialogue!MayFollow(TRUE, <<Dialogue!Method(MethodUser)>>)
<1>1. <<Dialogue!Method(MethodUser)>> # <<>>
  OBVIOUS
<1>2. Dialogue!MethodUser = MethodUser
  BY DEF Dialogue!MethodUser, MethodUser
<1>3. <<Dialogue!Method(MethodUser)>> # Dialogue!Passed(TRUE)
  BY DEF Dialogue!Passed
<1> QED
  BY <1>1, <1>2, <1>3 DEF Dialogue!MayFollow

LEMMA LastReply ==
    ASSUME NEW g \in BOOLEAN, NEW r \in Reps
    PROVE  Dialogue!Answer(r) \in Dialogue!MayFollow(g, Dialogue!Passed(g))
<1>1. Dialogue!Passed(g) # <<>>
  BY DEF Dialogue!Passed
<1>2. g => Dialogue!Passed(g) # <<Dialogue!Method(Dialogue!MethodUser)>>
  BY DEF Dialogue!Passed
<1>3. Dialogue!Reps = Reps
  BY DEF Dialogue!Reps, Reps, Dialogue!RepSucc, Dialogue!RepFail, Dialogue!RepHost,
         Dialogue!RepImpl, Dialogue!RepAddr, RepSucc, RepFail, RepHost, RepImpl, RepAddr
<1> QED
  BY <1>1, <1>2, <1>3 DEF Dialogue!MayFollow

-----------------------------------------------------------------------------
(* Every step of a session is one of the dialogue, or none.                 *)
Follows == Dialogue!Next \/ UNCHANGED Dialogue!vars

LEMMA Whole ==
    ASSUME NEW s \in Sessions,
           \/ Dialogue!Accept(s) \/ Dialogue!Guard(s) \/ Dialogue!Begin(s)
           \/ Dialogue!Relay(s) \/ Dialogue!Close(s) \/ Dialogue!Release(s)
    PROVE  Follows
  BY DEF Follows, Dialogue!Next

LEMMA BeginOrEnd ==
    ASSUME TypeOK, TypeOK', NEW s \in Sessions, SessionInv(s), Step(s),
           (\E f \in Fds : New(s, f)) \/ SetAuth(s) \/ Run(s) \/ Destruct(s)
    PROVE  Follows
<1> USE DEF Goto
<1>0. DOMAIN pc = Sessions /\ DOMAIN obj = Sessions /\ DOMAIN out = Sessions
  BY DEF TypeOK
<1>1. ASSUME NEW f \in Fds, New(s, f) PROVE Follows
  <2>1. /\ Phase(s) = "idle" /\ Phase(s)' = "ready" /\ Guarded(s)' = FALSE
        /\ out' = [out EXCEPT ![s] = <<>>]
    BY <1>0, <1>1 DEF New, Phase, Guarded
  <2>2. Dialogue!Accept(s)
    BY <2>1, Moves DEF Phases, Guards, Dialogue!Accept
  <2> QED
    BY <2>2, Whole
<1>2. CASE SetAuth(s)
  <2>1. Phase(s) = "ready" /\ Phase(s)' = "ready" /\ Guarded(s)' = TRUE /\ out' = out
    BY <1>0, <1>2, AccountAssumption DEF SetAuth, Phase, Guarded
  <2>2. Phases' = Phases
    BY <2>1, Moves DEF Phases
  <2>3. Dialogue!Guard(s)
    BY <2>1, <2>2, Moves DEF Phases, Guards, Dialogue!Guard
  <2> QED
    BY <2>3, Whole
<1>3. CASE Run(s)
  <2>1. Phase(s) = "ready" /\ Phase(s)' = "talking" /\ UNCHANGED <<obj, out>>
    BY <1>0, <1>3 DEF Run, Phase
  <2>2. Dialogue!Begin(s)
    BY <2>1, Moves DEF Phases, Guards, Dialogue!Begin
  <2> QED
    BY <2>2, Whole
<1>4. CASE Destruct(s)
  <2>1. /\ Phase(s) \in {"ready", "closed"} /\ Phase(s)' = "idle" /\ Guarded(s)' = FALSE
        /\ out' = [out EXCEPT ![s] = <<>>]
    BY <1>0, <1>4 DEF Destruct, Phase, Guarded
  <2>2. Dialogue!Release(s)
    BY <2>1, Moves DEF Phases, Guards, Dialogue!Release
  <2> QED
    BY <2>2, Whole
<1> QED
  BY <1>1, <1>2, <1>3, <1>4

LEMMA GateFollows ==
    ASSUME TypeOK, TypeOK', NEW s \in Sessions, SessionInv(s), Step(s),
           \/ \E in \in Hellos : ReadAuthMethod(s, in)
           \/ \E in \in Creds : ReadAuthUser(s, in)
           \/ \E o \in Outcomes : WriteAuthMethod(s, o) \/ WriteAuthUser(s, o)
    PROVE  Follows
<1> USE AccountAssumption DEF Goto
<1>0. /\ DOMAIN pc = Sessions /\ DOMAIN obj = Sessions /\ DOMAIN out = Sessions
      /\ Guarded(s) \in BOOLEAN
  BY DEF TypeOK, Guarded
<1>1. ASSUME NEW in, ReadAuthMethod(s, in) PROVE Follows
  <2>1. Phase(s)' = Phase(s) /\ UNCHANGED <<obj, out>>
    BY <1>0, <1>1 DEF ReadAuthMethod, Phase
  <2> QED
    BY <2>1, Stutter DEF Guarded, Follows
<1>2. ASSUME NEW in, ReadAuthUser(s, in) PROVE Follows
  <2>1. Phase(s)' = Phase(s) /\ out' = out /\ Guarded(s)' = Guarded(s)
    BY <1>0, <1>2 DEF ReadAuthUser, Genuine, Phase, Guarded, SessionInv
  <2> QED
    BY <2>1, Stutter DEF Follows
<1>3. ASSUME NEW o, WriteAuthMethod(s, o) PROVE Follows
  <2>1. /\ Phase(s) = "talking" /\ Phase(s)' \in {"talking", "closed"} /\ obj' = obj
        /\ out[s] = <<>> /\ reply[s] \in {-1, Wanted(s)}
    BY <1>0, <1>3 DEF WriteAuthMethod, Phase, SessionInv
  <2>2. CASE o = "done"
    <3>1. out'[s] = Append(out[s], MethodReply(reply[s]))
      BY <1>0, <1>3, <2>2 DEF WriteAuthMethod, Say
    <3>2. MethodReply(reply[s]) \in Dialogue!MayFollow(Guarded(s), out[s])
      BY <1>0, <2>1, Words, FirstReply DEF Wanted, Guarded
    <3> QED
      BY <2>1, <3>1, <3>2, Speech DEF Guarded, Follows
  <2>3. CASE o # "done"
    <3>1. out' = out /\ Phase(s)' = "closed"
      BY <1>0, <1>3, <2>3 DEF WriteAuthMethod, Say, Phase
    <3> QED
      BY <2>1, <3>1, Hangup, Whole DEF Guarded
  <2> QED
    BY <2>2, <2>3
<1>4. ASSUME NEW o, WriteAuthUser(s, o) PROVE Follows
  <2>1. /\ Phase(s) = "talking" /\ Phase(s)' \in {"talking", "closed"} /\ obj' = obj
        /\ out[s] = <<MethodReply(MethodUser)>> /\ reply[s] \in {-1, 0} /\ Guarded(s) = TRUE
    BY <1>0, <1>4 DEF WriteAuthUser, Phase, SessionInv, Guarded
  <2>2. CASE o = "done"
    <3>1. out'[s] = Append(out[s], AuthReply(reply[s]))
      BY <1>0, <1>4, <2>2 DEF WriteAuthUser, Say
    <3>2. AuthReply(reply[s]) \in Dialogue!MayFollow(Guarded(s), out[s])
      BY <2>1, Words, SecondReply
    <3> QED
      BY <2>1, <3>1, <3>2, Speech DEF Guarded, Follows
  <2>3. CASE o # "done"
    <3>1. out' = out /\ Phase(s)' = "closed"
      BY <1>0, <1>4, <2>3 DEF WriteAuthUser, Say, Phase
    <3> QED
      BY <2>1, <3>1, Hangup, Whole DEF Guarded
  <2> QED
    BY <2>2, <2>3
<1> QED
  BY <1>1, <1>2, <1>3, <1>4

LEMMA RequestFollows ==
    ASSUME TypeOK, TypeOK', NEW s \in Sessions, SessionInv(s), Step(s),
           \/ \E in \in Requests : ReadRequest(s, in)
           \/ \E answer \in Families \cup {"none"} : Resolve(s, answer)
           \/ Dispatch(s) \/ Connected(s)
           \/ \E o \in Outcomes : ConnectFails(s, o)
    PROVE  Follows
<1> USE DEF Goto
<1>0. DOMAIN pc = Sessions
  BY DEF TypeOK
<1> DEFINE Silent == Phase(s) = "talking" /\ Phase(s)' = "talking" /\ UNCHANGED <<obj, out>>
<1>1. Silent => Follows
  BY Stutter DEF Guarded, Follows
<1>2. ASSUME NEW in, ReadRequest(s, in) PROVE Follows
  <2>1. CASE LoseRequest(s, in)
    <3>1. Phase(s) = "talking" /\ Phase(s)' = "closed" /\ UNCHANGED <<obj, out>>
      BY <1>0, <2>1 DEF LoseRequest, Phase
    <3> QED
      BY <3>1, Hangup, Whole DEF Guarded
  <2>2. CASE RefuseRequest(s, in) \/ AcceptRequest(s, in)
    <3>1. Silent
      BY <1>0, <2>2 DEF RefuseRequest, AcceptRequest, Phase
    <3> QED
      BY <3>1, <1>1
  <2> QED
    BY <1>2, <2>1, <2>2 DEF ReadRequest
<1>3. ASSUME NEW answer, Resolve(s, answer) PROVE Silent
  BY <1>0, <1>3 DEF Resolve, Phase
<1>4. CASE OpenUpstreamFails(s) \/ BindFails(s) \/ UnknownCommand(s) \/ Connected(s)
  <2>1. Silent
    BY <1>0, <1>4 DEF OpenUpstreamFails, BindFails, UnknownCommand, Connected, Phase
  <2> QED
    BY <2>1, <1>1
<1>5. ASSUME NEW f, NEW g, OpenUpstream(s, f) \/ BindUpstream(s, f) \/ BindBoth(s, f, g)
      PROVE  Silent
  BY <1>0, <1>5 DEF OpenUpstream, BindUpstream, BindBoth, Phase
<1>6. ASSUME NEW o, ConnectFails(s, o) PROVE Silent
  BY <1>0, <1>6 DEF ConnectFails, Phase
<1> HIDE DEF Silent
<1> QED
  BY <1>1, <1>2, <1>3, <1>4, <1>5, <1>6 DEF Dispatch

LEMMA EndFollows ==
    ASSUME TypeOK, TypeOK', NEW s \in Sessions, SessionInv(s), Step(s),
           \/ \E o \in Outcomes : WriteResponse(s, o)
           \/ Service(s) \/ SpliceEnds(s)
    PROVE  Follows
<1> USE DEF Goto
<1>0. /\ DOMAIN pc = Sessions /\ DOMAIN out = Sessions /\ Guarded(s) \in BOOLEAN
  BY DEF TypeOK, Guarded
<1>1. ASSUME NEW o, WriteResponse(s, o) PROVE Follows
  <2>1. /\ Phase(s) = "talking" /\ Phase(s)' \in {"talking", "closed"} /\ obj' = obj
        /\ out[s] = Passed(s) /\ reply[s] \in Reps
    BY <1>0, <1>1 DEF WriteResponse, Phase, SessionInv
  <2>2. CASE o = "done"
    <3>1. out'[s] = Append(out[s], Response(reply[s]))
      BY <1>0, <1>1, <2>2 DEF WriteResponse, Say
    <3>2. Response(reply[s]) \in Dialogue!MayFollow(Guarded(s), out[s])
      BY <1>0, <2>1, Words, LastReply, SamePassed
    <3> QED
      BY <2>1, <3>1, <3>2, Speech DEF Guarded, Follows
  <2>3. CASE o # "done"
    <3>1. out' = out /\ Phase(s)' = "closed"
      BY <1>0, <1>1, <2>3 DEF WriteResponse, Say, Phase
    <3> QED
      BY <2>1, <3>1, Hangup, Whole DEF Guarded
  <2> QED
    BY <2>2, <2>3
<1>2. CASE Service(s)
  <2>1. /\ out[s] = Append(Passed(s), Response(RepSucc)) /\ type[s] # "NONE"
        /\ Phase(s) = "talking" /\ Phase(s)' = "relaying" /\ UNCHANGED <<obj, out>>
    BY <1>0, <1>2 DEF Service, SessionInv, IsReady, Phase
  <2>2. out[s] = Append(Dialogue!Passed(Guards[s]), Dialogue!Answer(Dialogue!RepSucc))
    <3>1. RepSucc \in Reps /\ Dialogue!RepSucc = RepSucc /\ Guards[s] = Guarded(s)
      BY DEF Reps, RepSucc, Dialogue!RepSucc, Guards, Guarded
    <3> QED
      BY <2>1, <3>1, Words, SamePassed
  <2>3. /\ Phases[s] = "talking" /\ Phases' = [Phases EXCEPT ![s] = "relaying"]
        /\ Guards' = Guards /\ out' = out
    BY <2>1, Moves DEF Guards
  <2>4. Dialogue!Relay(s)
    BY <2>2, <2>3 DEF Phases, Guards, Dialogue!Relay
  <2> QED
    BY <2>4, Whole
<1>3. CASE SpliceEnds(s)
  <2>1. Phase(s) = "relaying" /\ Phase(s)' = "closed" /\ UNCHANGED <<obj, out>>
    BY <1>0, <1>3 DEF SpliceEnds, Phase
  <2> QED
    BY <2>1, Hangup, Whole DEF Guarded
<1> QED
  BY <1>1, <1>2, <1>3

LEMMA StepFollows ==
    ASSUME IInv, TypeOK', NEW s \in Sessions, Step(s)
    PROVE  Follows
<1>1. TypeOK /\ SessionInv(s)
  BY DEF IInv, SessionsInv
<1> QED
  BY <1>1, BeginOrEnd, GateFollows, RequestFollows, EndFollows DEF Step

(* The replies, the relay and the end of every session come in the order    *)
(* that Socks5Dialogue promises: the safety part of KeepsToDialogue.        *)
THEOREM ServerKeepsToDialogue == Spec => Dialogue!Safety
<1>1. Init => Dialogue!Init
  BY DEF Init, Phase, Dialogue!Init
<1>2. IInv /\ IInv' /\ [Next]_vars => [Dialogue!Next]_(Dialogue!vars)
  <2> SUFFICES ASSUME IInv, IInv', [Next]_vars
               PROVE  Dialogue!Next \/ UNCHANGED Dialogue!vars
    OBVIOUS
  <2>1. CASE Next
    BY <2>1, StepFollows DEF Next, IInv, Follows
  <2>2. CASE UNCHANGED vars
    BY <2>2 DEF vars, Dialogue!vars, Phase
  <2> QED
    BY <2>1, <2>2
<1> QED
  BY <1>1, <1>2, Invariance, PTL DEF Spec, Dialogue!Safety

(* A session relays only after its peer was told so and, where it is        *)
(* guarded, after the peer's credentials were accepted.                     *)
THEOREM RelaysAreEarned == Spec => []Dialogue!RelayIsEarned
<1>1. ASSUME IInv, NEW s \in Sessions, Phases[s] = "relaying"
      PROVE  out[s] = Append(Dialogue!Passed(Guards[s]), Dialogue!Answer(Dialogue!RepSucc))
  <2>1. pc[s] = "splice"
    BY <1>1 DEF Phases, Phase
  <2>2. out[s] = Append(Passed(s), Response(RepSucc))
    BY <1>1, <2>1 DEF IInv, SessionsInv, SessionInv
  <2>3. RepSucc \in Reps /\ Dialogue!RepSucc = RepSucc /\ Guards[s] = Guarded(s)
    BY DEF Reps, RepSucc, Dialogue!RepSucc, Guards, Guarded
  <2> QED
    BY <2>2, <2>3, Words, SamePassed
<1>2. IInv => Dialogue!RelayIsEarned
  BY <1>1 DEF Phases, Guards, Dialogue!RelayIsEarned
<1> QED
  BY <1>2, Invariance, PTL
=============================================================================
