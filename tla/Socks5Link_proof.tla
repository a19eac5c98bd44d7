-------------------------- MODULE Socks5Link_proof --------------------------
(***************************************************************************)
(* Theorems about a client and a session at the two ends of a connection,  *)
(* for every table of accounts and of logins, every form of the handshake, *)
(* every setting of the timeouts and every length of the variable fields.  *)
(***************************************************************************)
EXTENDS Socks5Link, SequenceTheorems, TLAPS

-----------------------------------------------------------------------------
(* The conversation as it was planned: what the client sends in turn, what   *)
(* is due to it, and how many bytes the first messages take.                *)
N == IF creds = NoLogin THEN 2 ELSE 3

Plan == [k \in 1 .. 3 |-> IF k = 1 THEN HelloMsg
                          ELSE IF k = 2 /\ creds # NoLogin THEN CredsMsg ELSE RequestMsg]

Due == [k \in 1 .. 3 |-> IF k = 1 THEN [kind |-> "method", code |-> Cli!Offer]
                         ELSE IF k = 2 /\ creds # NoLogin THEN [kind |-> "auth", code |-> 0]
                         ELSE [kind |-> "response", code |-> 0]]

UpTo == [k \in 0 .. 3 |->
           CASE k = 0 -> 0
             [] k = 1 -> WriteLen(Plan[1])
             [] k = 2 -> WriteLen(Plan[1]) + WriteLen(Plan[2])
             [] k = 3 -> WriteLen(Plan[1]) + WriteLen(Plan[2]) + WriteLen(Plan[3])]

\* How many messages the client has sent, and how many replies it has read.
Sent ==
    IF ret = "ok" \/ cpc = "readResponse" \/ (pipeline /\ cpc \in {"readMethod", "readCreds"}) THEN N
    ELSE IF cpc = "sendRequest" THEN N - 1
    ELSE IF cpc = "readCreds" THEN 2
    ELSE IF cpc \in {"sendCreds", "readMethod"} THEN 1 ELSE 0

Got ==
    IF ret = "ok" THEN N
    ELSE IF cpc = "readResponse" \/ (~pipeline /\ cpc = "sendRequest") THEN N - 1
    ELSE IF cpc = "readCreds" \/ (~pipeline /\ cpc = "sendCreds") THEN 1 ELSE 0

\* How many messages the session has taken, and how many replies it has sent.
Taken ==
    IF pc[s] \in {"none", "new", "readMethod"} THEN 0
    ELSE IF pc[s] \in {"writeMethod", "readUser"} THEN 1
    ELSE IF pc[s] = "writeUser" THEN 2
    ELSE IF pc[s] = "readRequest" THEN N - 1 ELSE N

Told ==
    IF pc[s] \in {"none", "new", "readMethod", "writeMethod"} THEN 0
    ELSE IF pc[s] \in {"readUser", "writeUser"} THEN 1
    ELSE IF pc[s] \in {"service", "splice"} THEN N ELSE N - 1

\* The session has ended, or is about to refuse.
Over == link = "accepted" /\ pc[s] \in {"fini", "none"}

Refusing ==
    \/ pc[s] \in {"writeMethod", "writeUser"} /\ reply[s] = -1
    \/ pc[s] = "writeResponse" /\ reply[s] # RepSucc

OnTrack == ~Over /\ ~Refusing

-----------------------------------------------------------------------------
(* The inductive invariant.                                                 *)
UpMsgs ==
    {[kind |-> "hello", methods |-> {m}] : m \in {MethodNone, MethodUser}}
      \cup {[kind |-> "creds", name |-> c.name, pass |-> c.pass] : c \in Logins}
      \cup [kind : {"request"}, cmd : {CmdConnect, CmdUdpAsc, CmdFwdUdp},
            atype : AddrTypes \cup {"unspec"}]

DownMsgs ==
    [kind : {"method", "auth"}, code : Int]
      \cup [kind : {"response"}, code : Int, atype : {"v4", "v6"}]

Network ==
    /\ link \in {"down", "up", "accepted"}
    /\ held \in Seq({m \in UpMsgs : m.kind # "request"})
    /\ c2s \in Seq(UpMsgs)
    /\ s2c \in Seq(DownMsgs)
    /\ bytes \in [{"up", "upRead", "down", "downRead"} -> Nat]

Early == {"new", "resolve", "socket", "connecting"}

Client ==
    /\ cpc \in Cli!Pcs
    /\ creds \in Logins \cup {NoLogin}
    /\ ctype \in {"TCP", "UDP_IN_TCP", "UDP_IN_UDP"}
    /\ target \in AddrTypes
    /\ cfamily \in AddrTypes \cup {"unspec"}
    /\ pipeline \in BOOLEAN
    /\ ret \in {"none", "ok", "failed"}
    /\ cpc \in Early => link = "down"
    /\ cpc \notin {"returned", "gone"} => ret = "none"
    /\ cpc = "returned" => ret # "none"
    /\ cpc = "readCreds" \/ (~pipeline /\ cpc = "sendCreds") => creds # NoLogin

\* The variables of the session are tables with one entry.
Shape ==
    /\ pc \in [{s} -> Srv!Pcs]
    /\ reply \in [{s} -> Int]
    /\ obj \in [{s} -> Users \cup {NoObj, AuthObj}]
    /\ type \in [{s} -> Types]
    /\ cmd \in [{s} -> Int]

\* The session holds the user whose credentials the client gave, or nobody.
Known ==
    IF creds = NoLogin THEN obj[s] = NoObj
    ELSE obj[s] = creds.name /\ PassOf[creds.name] = creds.pass

Session ==
    /\ link # "accepted" => pc[s] = "none"
    /\ pc[s] = "writeMethod" =>
         \/ reply[s] = -1
         \/ reply[s] = Cli!Offer /\ (creds = NoLogin => obj[s] = NoObj)
    /\ pc[s] \in {"readUser", "writeUser"} => creds # NoLogin
    /\ pc[s] = "writeUser" => reply[s] = -1 \/ (reply[s] = 0 /\ Known)
    /\ pc[s] \in {"readRequest", "resolve", "dispatch", "connecting", "writeResponse",
                  "service", "splice"} => Known
    /\ pc[s] \in {"resolve", "dispatch", "connecting"} =>
         reply[s] = RepSucc /\ cmd[s] = Cli!RequestCmd
    /\ pc[s] = "connecting" => ctype = "TCP"
    /\ pc[s] = "writeResponse" => reply[s] \in Reps /\ (reply[s] = RepSucc => type[s] = ctype)
    /\ pc[s] \in {"service", "splice"} => type[s] = ctype

\* Messages stand in a queue as planned after the first k.
Stands(q, k) == \A i \in 1 .. Len(q) : q[i] = Plan[k + i]

Upstream ==
    /\ OnTrack =>
         /\ Taken + Len(c2s) + Len(held) <= N
         /\ Stands(c2s, Taken)
         /\ Stands(held, Taken + Len(c2s))
         /\ ret # "failed" => Taken + Len(c2s) + Len(held) = Sent
         /\ bytes["upRead"] = UpTo[Taken]
    /\ ret # "failed" => bytes["up"] = UpTo[Sent]

Right(m, k) == m.kind = Due[k].kind /\ m.code = Due[k].code

Wrong(m, k) ==
    /\ m.kind = Due[k].kind
    /\ m.code # Due[k].code
    /\ m.code = 255 \/ m.kind = "response"

\* The client has read a response of success or will.
Succeeded ==
    /\ Got + Len(s2c) = N
    /\ s2c # <<>> => s2c[Len(s2c)].code = RepSucc

Served == type[s] = ctype /\ Known /\ bytes["upRead"] = UpTo[N]

\* The bytes of the replies in q; a response is the last of them.
PendingIn(q) ==
    IF q # <<>> /\ q[Len(q)].kind = "response"
    THEN 2 * (Len(q) - 1) + WriteLen(q[Len(q)]) ELSE 2 * Len(q)

Pending == PendingIn(s2c)

Downstream ==
    ret # "failed" =>
      /\ Got + Len(s2c) <= N
      /\ ~Over => Got + Len(s2c) = Told
      /\ \A i \in 1 .. Len(s2c) :
           \/ Right(s2c[i], Got + i)
           \/ i = Len(s2c) /\ Over /\ Wrong(s2c[i], Got + i)
      /\ pc[s] = "fini" /\ Succeeded => Served
      /\ bytes["down"] = bytes["downRead"] + Pending

IInv == Network /\ Client /\ Shape /\ Session /\ Upstream /\ Downstream

-----------------------------------------------------------------------------
(* Queues.                                                                  *)
LEMMA Shift ==
    ASSUME NEW S, NEW q \in Seq(S), q # <<>>
    PROVE  /\ Tail(q) \in Seq(S)
           /\ Len(q) \in Nat /\ Len(q) >= 1 /\ Len(Tail(q)) = Len(q) - 1
           /\ Head(q) = q[1] /\ q[1] \in S
           /\ \A i \in 1 .. Len(q) - 1 : Tail(q)[i] = q[i + 1]
  BY HeadTailProperties, EmptySeq

LEMMA Add ==
    ASSUME NEW S, NEW q \in Seq(S), NEW m \in S
    PROVE  /\ Append(q, m) \in Seq(S)
           /\ Len(q) \in Nat /\ Len(Append(q, m)) = Len(q) + 1
           /\ Append(q, m) # <<>>
           /\ \A i \in 1 .. Len(q) : Append(q, m)[i] = q[i]
           /\ Append(q, m)[Len(q) + 1] = m
  BY AppendProperties

LEMMA Join ==
    ASSUME NEW S, NEW q \in Seq(S), NEW r \in Seq(S)
    PROVE  /\ q \o r \in Seq(S)
           /\ Len(q) \in Nat /\ Len(r) \in Nat /\ Len(q \o r) = Len(q) + Len(r)
           /\ \A i \in 1 .. Len(q) : (q \o r)[i] = q[i]
           /\ \A i \in 1 .. Len(r) : (q \o r)[Len(q) + i] = r[i]
  BY ConcatProperties

LEMMA Nothing == ASSUME NEW S PROVE <<>> \in Seq(S) /\ Len(<<>>) = 0
  OBVIOUS

-----------------------------------------------------------------------------
(* The steps of the session, by what they do to the place it stands at, to   *)
(* its reply, its object, its type and its command.                         *)
Keeps == UNCHANGED <<reply, obj, type, cmd>>

LEMMA OpeningIs ==
    ASSUME Shape
    PROVE  /\ \A f : Srv!New(s, f) =>
                pc[s] = "none" /\ pc'[s] = "new" /\ UNCHANGED <<reply, cmd>> /\ Shape'
           /\ Srv!SetAuth(s) =>
                pc[s] = "new" /\ pc'[s] = "new" /\ UNCHANGED <<reply, type, cmd>> /\ Shape'
           /\ Srv!Run(s) => pc[s] = "new" /\ pc'[s] = "readMethod" /\ Keeps /\ Shape'
           /\ Srv!Destruct(s) => pc[s] \in {"new", "fini"} /\ pc'[s] = "none" /\ Shape'
<1> USE DEF Shape, Srv!Goto, Srv!Pcs, Srv!PeerWaits, Keeps, Types
<1>1. ASSUME NEW f, Srv!New(s, f)
      PROVE  pc[s] = "none" /\ pc'[s] = "new" /\ UNCHANGED <<reply, cmd>> /\ Shape'
  BY <1>1 DEF Srv!New
<1>2. ASSUME Srv!SetAuth(s)
      PROVE  pc[s] = "new" /\ pc'[s] = "new" /\ UNCHANGED <<reply, type, cmd>> /\ Shape'
  BY <1>2 DEF Srv!SetAuth
<1>3. ASSUME Srv!Run(s)
      PROVE  pc[s] = "new" /\ pc'[s] = "readMethod" /\ Keeps /\ Shape'
  BY <1>3 DEF Srv!Run
<1>4. ASSUME Srv!Destruct(s)
      PROVE  pc[s] \in {"new", "fini"} /\ pc'[s] = "none" /\ Shape'
  BY <1>4 DEF Srv!Destruct
<1> QED
  BY <1>1, <1>2, <1>3, <1>4

LEMMA ReadAuthMethodIs ==
    ASSUME Shape, NEW in, Srv!ReadAuthMethod(s, in)
    PROVE  /\ pc[s] = "readMethod" /\ pc'[s] = "writeMethod"
           /\ reply'[s] = IF in.got = "done" /\ in.ver = Srv!Ver5 /\ Srv!Wanted(s) \in in.methods
                          THEN Srv!Wanted(s) ELSE -1
           /\ UNCHANGED <<obj, type, cmd>> /\ Shape'
<1>1. /\ pc[s] = "readMethod" /\ pc' = [pc EXCEPT ![s] = "writeMethod"]
      /\ UNCHANGED <<obj, type, cmd>>
  BY DEF Srv!ReadAuthMethod, Srv!Goto
<1>2. reply' = [reply EXCEPT ![s] =
        IF in.got = "done" /\ in.ver = Srv!Ver5 /\ Srv!Wanted(s) \in in.methods
        THEN Srv!Wanted(s) ELSE -1]
  BY DEF Srv!ReadAuthMethod
<1>3. Srv!Wanted(s) \in Int
  BY DEF Srv!Wanted, Srv!MethodNone, Srv!MethodUser
<1> QED
  BY <1>1, <1>2, <1>3 DEF Shape, Srv!Pcs, Srv!PeerWaits

LEMMA WriteAuthMethodIs ==
    ASSUME Shape, NEW o, Srv!WriteAuthMethod(s, o)
    PROVE  /\ pc[s] = "writeMethod" /\ Keeps /\ Shape'
           /\ pc'[s] = IF o = "done" /\ reply[s] = 0 THEN "readRequest"
                       ELSE IF o = "done" /\ reply[s] = 2 THEN "readUser" ELSE "fini"
  BY DEF Shape, Keeps, Srv!WriteAuthMethod, Srv!Goto, Srv!Pcs, Srv!PeerWaits, Srv!MethodNone,
     Srv!MethodUser

LEMMA ReadAuthUserIs ==
    ASSUME Shape, NEW in, Srv!ReadAuthUser(s, in)
    PROVE  /\ pc[s] = "readUser" /\ pc'[s] = "writeUser"
           /\ UNCHANGED <<type, cmd>> /\ Shape'
           /\ \/ in.got = "done" /\ reply'[s] = 0 /\ obj'[s] = in.name /\ PassOf[in.name] = in.pass
              \/ reply'[s] = -1 /\ obj' = obj
<1> USE DEF Shape, Srv!Goto, Srv!Pcs, Srv!PeerWaits
<1>1. CASE Srv!Genuine(in)
  BY <1>1 DEF Srv!ReadAuthUser, Srv!Genuine
<1>2. CASE ~Srv!Genuine(in)
  BY <1>2 DEF Srv!ReadAuthUser
<1> QED
  BY <1>1, <1>2

LEMMA WriteAuthUserIs ==
    ASSUME Shape, NEW o, Srv!WriteAuthUser(s, o)
    PROVE  /\ pc[s] = "writeUser" /\ Keeps /\ Shape'
           /\ pc'[s] = IF o = "done" /\ reply[s] = 0 THEN "readRequest" ELSE "fini"
  BY DEF Shape, Keeps, Srv!WriteAuthUser, Srv!Goto, Srv!Pcs, Srv!PeerWaits

LEMMA ReadRequestIs ==
    ASSUME Shape, NEW in, in.cmd \in Int, Srv!ReadRequest(s, in)
    PROVE  /\ pc[s] = "readRequest" /\ UNCHANGED <<obj, type>> /\ Shape'
           /\ \/ in.got # "done" /\ pc'[s] = "fini"
              \/ /\ in.got = "done" /\ pc'[s] = "writeResponse"
                 /\ reply'[s] \in Reps \ {0} /\ cmd' = cmd
              \/ /\ in.got = "done" /\ pc'[s] \in {"resolve", "dispatch"}
                 /\ in.rest = "done" /\ reply'[s] = 0 /\ cmd'[s] = in.cmd
<1> USE DEF Shape, Srv!Goto, Srv!Pcs, Srv!PeerWaits
<1>1. CASE Srv!LoseRequest(s, in)
  BY <1>1 DEF Srv!LoseRequest
<1>2. CASE Srv!RefuseRequest(s, in)
  <2>1. Srv!RequestRep(in) \in Reps \ {0} /\ Srv!RequestRep(in) \in Int
    BY <1>2 DEF Srv!RefuseRequest, Srv!RequestRep, Srv!RepSucc, Srv!RepFail, Srv!RepAddr, Reps,
       RepSucc, RepFail, RepAddr
  <2> QED
    BY <1>2, <2>1 DEF Srv!RefuseRequest
<1>3. CASE Srv!AcceptRequest(s, in)
  <2>1. in.rest = "done"
    BY <1>3 DEF Srv!AcceptRequest, Srv!RequestRep, Srv!RepSucc, Srv!RepFail, Srv!RepAddr
  <2> QED
    BY <1>3, <2>1 DEF Srv!AcceptRequest, Srv!RepSucc
<1> QED
  BY <1>1, <1>2, <1>3 DEF Srv!ReadRequest

LEMMA ResolveIs ==
    ASSUME Shape, NEW answer, Srv!Resolve(s, answer)
    PROVE  /\ pc[s] = "resolve" /\ UNCHANGED <<obj, type, cmd>> /\ Shape'
           /\ \/ pc'[s] = "dispatch" /\ reply' = reply
              \/ pc'[s] = "writeResponse" /\ reply'[s] \in Reps \ {0}
  BY DEF Shape, Srv!Goto, Srv!Pcs, Srv!PeerWaits, Srv!Resolve, Srv!RepAddr, RepAddr, Reps

LEMMA DispatchIs ==
    ASSUME Shape, Srv!Dispatch(s)
    PROVE  /\ pc[s] = "dispatch" /\ UNCHANGED <<obj, cmd>> /\ Shape'
           /\ \/ pc'[s] = "writeResponse" /\ reply'[s] \in Reps \ {0}
              \/ pc'[s] = "connecting" /\ cmd[s] = CmdConnect /\ reply' = reply
              \/ /\ pc'[s] = "writeResponse" /\ reply' = reply
                 /\ cmd[s] = CmdUdpAsc /\ type'[s] = "UDP_IN_UDP"
              \/ /\ pc'[s] = "writeResponse" /\ reply' = reply
                 /\ cmd[s] = CmdFwdUdp /\ type'[s] = "UDP_IN_TCP"
<1> USE DEF Shape, Srv!Goto, Srv!Pcs, Srv!PeerWaits, Types, Reps, RepFail, RepHost, RepImpl,
      Srv!RepFail, Srv!RepHost, Srv!RepImpl, CmdConnect, CmdUdpAsc, CmdFwdUdp,
      Srv!CmdConnect, Srv!CmdUdpAsc, Srv!CmdFwdUdp
<1>1. CASE Srv!OpenUpstreamFails(s)
  BY <1>1 DEF Srv!OpenUpstreamFails
<1>2. CASE Srv!BindFails(s)
  BY <1>2 DEF Srv!BindFails, Srv!UdpType
<1>3. CASE Srv!UnknownCommand(s)
  BY <1>3 DEF Srv!UnknownCommand
<1>4. ASSUME NEW f, Srv!OpenUpstream(s, f)
      PROVE  /\ pc[s] = "dispatch" /\ UNCHANGED <<obj, cmd>> /\ Shape'
             /\ pc'[s] = "connecting" /\ cmd[s] = CmdConnect /\ reply' = reply
  BY <1>4 DEF Srv!OpenUpstream
<1>5. ASSUME NEW f, Srv!BindUpstream(s, f)
      PROVE  /\ pc[s] = "dispatch" /\ UNCHANGED <<obj, cmd>> /\ Shape'
             /\ pc'[s] = "writeResponse" /\ reply' = reply
             /\ cmd[s] = CmdFwdUdp /\ type'[s] = "UDP_IN_TCP"
  BY <1>5 DEF Srv!BindUpstream, Srv!UdpType
<1>6. ASSUME NEW f, NEW g, Srv!BindBoth(s, f, g)
      PROVE  /\ pc[s] = "dispatch" /\ UNCHANGED <<obj, cmd>> /\ Shape'
             /\ pc'[s] = "writeResponse" /\ reply' = reply
             /\ cmd[s] = CmdUdpAsc /\ type'[s] = "UDP_IN_UDP"
  BY <1>6 DEF Srv!BindBoth, Srv!UdpType
<1> QED
  BY <1>1, <1>2, <1>3, <1>4, <1>5, <1>6 DEF Srv!Dispatch

LEMMA ConnectIs ==
    ASSUME Shape
    PROVE  /\ Srv!Connected(s) =>
                /\ pc[s] = "connecting" /\ pc'[s] = "writeResponse" /\ type'[s] = "TCP"
                /\ UNCHANGED <<reply, obj, cmd>> /\ Shape'
           /\ \A o : Srv!ConnectFails(s, o) =>
                /\ pc[s] = "connecting" /\ pc'[s] = "writeResponse"
                /\ reply'[s] \in Reps \ {0}
                /\ UNCHANGED <<obj, cmd>> /\ Shape'
<1> USE DEF Shape, Srv!Goto, Srv!Pcs, Srv!PeerWaits, Types, Reps, RepHost, Srv!RepHost
<1>1. ASSUME Srv!Connected(s)
      PROVE  /\ pc[s] = "connecting" /\ pc'[s] = "writeResponse" /\ type'[s] = "TCP"
             /\ UNCHANGED <<reply, obj, cmd>> /\ Shape'
  BY <1>1 DEF Srv!Connected
<1>2. ASSUME NEW o, Srv!ConnectFails(s, o)
      PROVE  /\ pc[s] = "connecting" /\ pc'[s] = "writeResponse"
             /\ reply'[s] \in Reps \ {0}
             /\ UNCHANGED <<obj, cmd>> /\ Shape'
  BY <1>2 DEF Srv!ConnectFails
<1> QED
  BY <1>1, <1>2

LEMMA ClosingIs ==
    ASSUME Shape
    PROVE  /\ \A o : Srv!WriteResponse(s, o) =>
                /\ pc[s] = "writeResponse" /\ Keeps /\ Shape'
                /\ pc'[s] = IF o = "done" /\ reply[s] = 0 THEN "service" ELSE "fini"
           /\ Srv!Service(s) =>
                pc[s] = "service" /\ pc'[s] \in {"splice", "fini"} /\ Keeps /\ Shape'
           /\ Srv!SpliceEnds(s) =>
                pc[s] = "splice" /\ pc'[s] = "fini" /\ Keeps /\ Shape'
<1> USE DEF Shape, Srv!Goto, Srv!Pcs, Srv!PeerWaits, Srv!RepSucc, Keeps
<1>1. ASSUME NEW o, Srv!WriteResponse(s, o)
      PROVE  /\ pc[s] = "writeResponse" /\ Keeps /\ Shape'
             /\ pc'[s] = IF o = "done" /\ reply[s] = 0 THEN "service" ELSE "fini"
  BY <1>1 DEF Srv!WriteResponse
<1>2. ASSUME Srv!Service(s)
      PROVE  pc[s] = "service" /\ pc'[s] \in {"splice", "fini"} /\ Keeps /\ Shape'
  BY <1>2 DEF Srv!Service
<1>3. ASSUME Srv!SpliceEnds(s)
      PROVE  pc[s] = "splice" /\ pc'[s] = "fini" /\ Keeps /\ Shape'
  BY <1>3 DEF Srv!SpliceEnds
<1> QED
  BY <1>1, <1>2, <1>3

-----------------------------------------------------------------------------
(* The steps of the client.                                                 *)
Same == UNCHANGED <<creds, ctype, target, cfamily, pipeline>>

Fails == cpc' = "returned" /\ ret' = "failed" /\ Same

LEMMA PreludeIs ==
    ASSUME Client,
           \/ \E c \in Logins : Cli!SetAuth(c)
           \/ Cli!Connect
           \/ \E found \in BOOLEAN : Cli!Resolve(found)
           \/ Cli!OpenSocketFails
           \/ \E f \in CFds : Cli!OpenSocket(f)
           \/ \E o \in Outcomes : Cli!ConnectFails(o)
           \/ \E p \in BOOLEAN : Cli!Handshake(p)
    PROVE  /\ cpc \in Early \cup {"idle"} /\ cpc' \in Early \cup {"idle", "sendMethods"}
           /\ cpc' \in Early => cpc \in Early
           /\ UNCHANGED <<ctype, target, cfamily, ret>>
           /\ creds' \in Logins \cup {NoLogin}
           /\ creds' = creds \/ cpc \in Early
           /\ pipeline' \in BOOLEAN
  BY DEF Client, Early, Cli!SetAuth, Cli!Connect, Cli!Resolve, Cli!OpenSocketFails,
     Cli!OpenSocket, Cli!ConnectFails, Cli!Handshake

LEMMA ConnectedIs ==
    ASSUME NEW fam \in Families, Cli!Connected(fam)
    PROVE  /\ cpc = "connecting" /\ cpc' = "idle" /\ cfamily' = fam
           /\ UNCHANGED <<creds, ctype, target, pipeline, ret>>
  BY DEF Cli!Connected

LEMMA DestructIs ==
    ASSUME Cli!Destruct
    PROVE  cpc \in {"new", "idle", "returned"} /\ cpc' = "gone" /\ ret' = ret /\ Same
  BY DEF Cli!Destruct, Same

LEMMA WriteIs ==
    ASSUME NEW o
    PROVE  /\ Cli!WriteAuthMethods(o) =>
                /\ cpc = "sendMethods"
                /\ \/ /\ o = "done" /\ ret' = ret /\ Same
                      /\ cpc' = IF pipeline THEN "sendCreds" ELSE "readMethod"
                   \/ o # "done" /\ Fails
           /\ Cli!WriteAuthCreds(o) =>
                /\ cpc = "sendCreds"
                /\ \/ /\ o = "done" /\ ret' = ret /\ Same
                      /\ cpc' = IF pipeline THEN "sendRequest" ELSE "readCreds"
                   \/ o # "done" /\ Fails
           /\ Cli!WriteRequest(o) =>
                /\ cpc = "sendRequest"
                /\ \/ /\ o = "done" /\ ret' = ret /\ Same
                      /\ cpc' = IF pipeline THEN "readMethod" ELSE "readResponse"
                   \/ o # "done" /\ Fails
  BY DEF Cli!WriteAuthMethods, Cli!WriteAuthCreds, Cli!WriteRequest, Cli!GoOn, Cli!Return,
     Cli!AfterMethods, Cli!AfterCreds, Cli!AfterRequest, Same, Fails

LEMMA ReadAuthMethodGoes ==
    ASSUME NEW in, Cli!ReadAuthMethod(in)
    PROVE  /\ cpc = "readMethod"
           /\ \/ /\ in.got = "done" /\ in.method = MethodUser /\ ret' = ret /\ Same
                 /\ cpc' = IF pipeline THEN "readCreds" ELSE "sendCreds"
              \/ /\ in.got = "done" /\ in.method = MethodNone /\ ret' = ret /\ Same
                 /\ cpc' = IF pipeline THEN "readResponse" ELSE "sendRequest"
              \/ Fails
<1> USE DEF MethodNone, MethodUser, Cli!MethodNone, Cli!MethodUser, Same, Fails
<1> DEFINE read == in.got = "done" /\ in.ver = Cli!Ver5
<1>1. CASE read /\ in.method = MethodUser
  BY <1>1 DEF Cli!ReadAuthMethod, Cli!GoOn, Cli!WhenUserAuth
<1>2. CASE read /\ in.method = MethodNone
  BY <1>2 DEF Cli!ReadAuthMethod, Cli!GoOn, Cli!WhenAccepted
<1>3. CASE ~(read /\ in.method \in {MethodUser, MethodNone})
  BY <1>3 DEF Cli!ReadAuthMethod, Cli!Return
<1> QED
  BY <1>1, <1>2, <1>3

LEMMA ReadAuthCredsGoes ==
    ASSUME NEW in, Cli!ReadAuthCreds(in)
    PROVE  /\ cpc = "readCreds"
           /\ \/ /\ in.got = "done" /\ in.rep = RepSucc /\ ret' = ret /\ Same
                 /\ cpc' = IF pipeline THEN "readResponse" ELSE "sendRequest"
              \/ Fails
  BY DEF Cli!ReadAuthCreds, Cli!GoOn, Cli!Return, Cli!WhenAccepted, Cli!RepSucc, RepSucc,
     Same, Fails

LEMMA ReadResponseGoes ==
    ASSUME NEW in, Cli!ReadResponse(in)
    PROVE  /\ cpc = "readResponse" /\ cpc' = "returned" /\ Same
           /\ \/ ret' = "ok" /\ in.got = "done" /\ in.rep = RepSucc
              \/ ret' = "failed"
<1> USE DEF Cli!Return, Cli!Promises, Cli!RepSucc, RepSucc, Same
<1>1. CASE Cli!ResponseLost(in)
  BY <1>1 DEF Cli!ResponseLost
<1>2. CASE Cli!ResponseRead(in)
  BY <1>2 DEF Cli!ResponseRead
<1>3. CASE Cli!AssociateFails(in)
  BY <1>3 DEF Cli!AssociateFails
<1>4. ASSUME NEW f, Cli!Associate(in, f)
      PROVE  /\ cpc = "readResponse" /\ cpc' = "returned" /\ Same
             /\ ret' = "ok" /\ in.got = "done" /\ in.rep = RepSucc
  BY <1>4 DEF Cli!Associate
<1> QED
  BY <1>1, <1>2, <1>3, <1>4 DEF Cli!ReadResponse

-----------------------------------------------------------------------------
(* The plan.                                                                *)
LEMMA Counts ==
    /\ N \in {2, 3}
    /\ creds # NoLogin => N = 3
    /\ Sent \in 0 .. 3 /\ Got \in 0 .. 3 /\ Taken \in 0 .. 3 /\ Told \in 0 .. 3
  BY DEF N, Sent, Got, Taken, Told

LEMMA PlanIs ==
    ASSUME Client
    PROVE  /\ Plan[1] = HelloMsg /\ HelloMsg.kind = "hello"
           /\ creds # NoLogin => Plan[2] = CredsMsg /\ CredsMsg.kind = "creds"
           /\ Plan[N] = RequestMsg /\ RequestMsg.kind = "request"
           /\ HelloMsg \in UpMsgs /\ RequestMsg \in UpMsgs
           /\ creds # NoLogin => CredsMsg \in UpMsgs
<1>1. HelloMsg.kind = "hello" /\ RequestMsg.kind = "request"
  BY DEF HelloMsg, RequestMsg
<1>2. creds # NoLogin => CredsMsg.kind = "creds"
  BY DEF CredsMsg
<1>3. HelloMsg \in UpMsgs
  BY DEF HelloMsg, UpMsgs, Cli!Offer, Cli!MethodNone, Cli!MethodUser, MethodNone, MethodUser
<1>4. creds # NoLogin => CredsMsg \in UpMsgs
  BY DEF CredsMsg, UpMsgs, Client
<1>5. RequestMsg \in UpMsgs
  <2>1. Cli!RequestCmd \in {CmdConnect, CmdUdpAsc, CmdFwdUdp}
    BY DEF Cli!RequestCmd, Client, CmdConnect, CmdUdpAsc, CmdFwdUdp, Cli!CmdConnect,
       Cli!CmdUdpAsc, Cli!CmdFwdUdp
  <2>2. Cli!RequestAddrType \in AddrTypes \cup {"unspec"}
    BY DEF Cli!RequestAddrType, Client
  <2> QED
    BY <2>1, <2>2 DEF RequestMsg, UpMsgs
<1> QED
  BY <1>1, <1>2, <1>3, <1>4, <1>5 DEF Plan, N

LEMMA DueIs ==
    /\ Due[1].kind = "method" /\ Due[1].code = Cli!Offer
    /\ creds # NoLogin => Due[2].kind = "auth" /\ Due[2].code = 0
    /\ Due[N].kind = "response" /\ Due[N].code = 0
    /\ \A k \in 1 .. 3 : k < N => Due[k].kind \in {"method", "auth"}
    /\ Cli!Offer \in {0, 2}
    /\ Cli!Offer = 0 <=> creds = NoLogin
  BY DEF Due, N, Cli!Offer, Cli!MethodNone, Cli!MethodUser

\* Both ends agree on the length of every message.
LEMMA Lengths ==
    /\ \A m \in UpMsgs : WriteLen(m) \in Nat /\ ReadLen(m) = WriteLen(m)
    /\ \A m \in DownMsgs :
         /\ WriteLen(m) \in Nat /\ ReadLen(m) = WriteLen(m)
         /\ m.kind # "response" => WriteLen(m) = 2
<1> USE LengthAssumption DEF WriteLen, ReadLen
<1>1. ASSUME NEW m \in {[kind |-> "hello", methods |-> {x}] : x \in {MethodNone, MethodUser}}
      PROVE  WriteLen(m) \in Nat /\ ReadLen(m) = WriteLen(m)
  <2>1. m.kind = "hello"
    OBVIOUS
  <2> QED
    BY <2>1
<1>2. ASSUME NEW m \in {[kind |-> "creds", name |-> c.name, pass |-> c.pass] : c \in Logins}
      PROVE  WriteLen(m) \in Nat /\ ReadLen(m) = WriteLen(m)
  <2>1. m.kind = "creds"
    OBVIOUS
  <2> QED
    BY <2>1
<1>3. ASSUME NEW a PROVE AddrLen(a) \in Nat /\ 5 + RestLen(a) = 3 + AddrLen(a)
  BY DEF AddrLen, RestLen
<1>4. ASSUME NEW m, m.kind = "request"
      PROVE  WriteLen(m) \in Nat /\ ReadLen(m) = WriteLen(m)
  BY <1>3, <1>4
<1>5. ASSUME NEW m \in UpMsgs PROVE WriteLen(m) \in Nat /\ ReadLen(m) = WriteLen(m)
  <2>1. CASE m \in [kind : {"request"}, cmd : {CmdConnect, CmdUdpAsc, CmdFwdUdp},
                    atype : AddrTypes \cup {"unspec"}]
    <3>1. m.kind = "request"
      BY <2>1
    <3> QED
      BY <3>1, <1>4
  <2> QED
    BY <2>1, <1>1, <1>2 DEF UpMsgs
<1>6. ASSUME NEW m \in [kind : {"response"}, code : Int, atype : {"v4", "v6"}]
      PROVE  m.kind = "response" /\ WriteLen(m) \in Nat /\ ReadLen(m) = WriteLen(m)
  <2>1. m.kind = "response" /\ m.atype \in {"v4", "v6"}
    BY <1>6
  <2>2. AddrLen(m.atype) \in Nat /\ 4 + TailLen(m.atype) = 3 + AddrLen(m.atype)
    BY <2>1 DEF AddrLen, TailLen
  <2> QED
    BY <2>1, <2>2
<1>7. ASSUME NEW m \in [kind : {"method", "auth"}, code : Int]
      PROVE  WriteLen(m) = 2 /\ ReadLen(m) = 2
  <2>1. m.kind \in {"method", "auth"}
    BY <1>7
  <2> QED
    BY <2>1
<1> QED
  BY <1>5, <1>6, <1>7 DEF DownMsgs

LEMMA Totals ==
    ASSUME Client
    PROVE  /\ UpTo[0] = 0
           /\ \A k \in 0 .. 3 : UpTo[k] \in Nat
           /\ \A k \in 0 .. 2 : UpTo[k + 1] = UpTo[k] + WriteLen(Plan[k + 1])
<1>1. Plan[1] \in UpMsgs /\ Plan[2] \in UpMsgs /\ Plan[3] \in UpMsgs
  BY PlanIs DEF Plan, N
<1>2. /\ WriteLen(Plan[1]) \in Nat /\ WriteLen(Plan[2]) \in Nat /\ WriteLen(Plan[3]) \in Nat
  BY <1>1, Lengths
<1>3. UpTo[0] = 0 /\ UpTo[1] = WriteLen(Plan[1])
  BY DEF UpTo
<1>4. UpTo[2] = WriteLen(Plan[1]) + WriteLen(Plan[2])
  BY DEF UpTo
<1>5. UpTo[3] = WriteLen(Plan[1]) + WriteLen(Plan[2]) + WriteLen(Plan[3])
  BY DEF UpTo
<1> QED
  BY <1>2, <1>3, <1>4, <1>5

\* The plan stands as long as the client's object does not change.
LEMMA PlanStands ==
    ASSUME UNCHANGED <<creds, ctype, target, cfamily>>
    PROVE  /\ N' = N /\ Plan' = Plan /\ Due' = Due /\ UpTo' = UpTo
           /\ (Cli!Offer)' = Cli!Offer /\ (Cli!RequestCmd)' = Cli!RequestCmd
<1>1. HelloMsg' = HelloMsg /\ CredsMsg' = CredsMsg /\ RequestMsg' = RequestMsg
  BY DEF HelloMsg, CredsMsg, RequestMsg, Cli!Offer, Cli!RequestCmd, Cli!RequestAddrType
<1>2. N' = N /\ (Cli!Offer)' = Cli!Offer /\ (Cli!RequestCmd)' = Cli!RequestCmd
  BY DEF N, Cli!Offer, Cli!RequestCmd
<1>3. Plan' = Plan
  BY <1>1 DEF Plan
<1>4. Due' = Due
  BY <1>2 DEF Due
<1>5. UpTo' = UpTo
  BY <1>3 DEF UpTo
<1> QED
  BY <1>2, <1>3, <1>4, <1>5

-----------------------------------------------------------------------------
(* What leaves each part of the invariant alone.                            *)
Fixed == UNCHANGED <<creds, ctype, target, cfamily>>

LEMMA UpKept ==
    ASSUME Upstream, Fixed, UNCHANGED <<c2s, held>>,
           bytes'["up"] = bytes["up"], bytes'["upRead"] = bytes["upRead"],
           OnTrack' => OnTrack /\ Taken' = Taken,
           ret' # "failed" => ret # "failed" /\ Sent' = Sent
    PROVE  Upstream'
<1>1. N' = N /\ Plan' = Plan /\ UpTo' = UpTo
  BY PlanStands DEF Fixed
<1>2. c2s' = c2s /\ held' = held /\ bytes'["up"] = bytes["up"] /\ bytes'["upRead"] = bytes["upRead"]
  OBVIOUS
<1>3. ret' # "failed" => bytes'["up"] = UpTo'[Sent']
  BY <1>1, <1>2 DEF Upstream
<1>4. OnTrack' => /\ Taken' + Len(c2s') + Len(held') <= N'
                  /\ bytes'["upRead"] = UpTo'[Taken']
                  /\ ret' # "failed" => Taken' + Len(c2s') + Len(held') = Sent'
  BY <1>1, <1>2 DEF Upstream
<1>5. OnTrack' => Stands(c2s, Taken)' /\ Stands(held, Taken + Len(c2s))'
  BY <1>1, <1>2 DEF Upstream, Stands
<1> QED
  BY <1>3, <1>4, <1>5 DEF Upstream

LEMMA DownKept ==
    ASSUME Downstream, Fixed, UNCHANGED <<s2c, bytes>>,
           Over => Over', ~Over' => Told' = Told,
           ret' # "failed" => ret # "failed" /\ Got' = Got,
           ret # "failed" /\ pc'[s] = "fini" /\ Succeeded => Served'
    PROVE  Downstream'
<1> SUFFICES ASSUME ret' # "failed" PROVE Downstream'
  BY DEF Downstream
<1>1. N' = N /\ Due' = Due /\ Got' = Got /\ s2c' = s2c /\ bytes' = bytes /\ ret # "failed"
  BY PlanStands DEF Fixed
<1>2. Got' + Len(s2c') <= N' /\ (~Over' => Got' + Len(s2c') = Told')
  BY <1>1 DEF Downstream
<1>3. \A i \in 1 .. Len(s2c) : \/ Right(s2c[i], Got + i)
                               \/ i = Len(s2c) /\ Over /\ Wrong(s2c[i], Got + i)
  BY <1>1 DEF Downstream
<1>4. \A i \in 1 .. Len(s2c) : /\ Right(s2c[i], Got + i)' <=> Right(s2c[i], Got + i)
                               /\ Wrong(s2c[i], Got + i)' <=> Wrong(s2c[i], Got + i)
  BY <1>1 DEF Right, Wrong
<1>5. (\A i \in 1 .. Len(s2c) : \/ Right(s2c[i], Got + i)
                                \/ i = Len(s2c) /\ Over /\ Wrong(s2c[i], Got + i))'
  BY <1>1, <1>3, <1>4
<1>6. Succeeded' <=> Succeeded
  BY <1>1 DEF Succeeded
<1>7. bytes'["down"] = bytes'["downRead"] + Pending'
  BY <1>1 DEF Downstream, Pending, PendingIn, PendingIn
<1> QED
  BY <1>1, <1>2, <1>5, <1>6, <1>7 DEF Downstream

\* The session does not move.
LEMMA SessionStays ==
    ASSUME UNCHANGED <<serverVars, link>>
    PROVE  /\ UNCHANGED <<pc, reply, obj, type, cmd>>
           /\ Over' = Over /\ OnTrack' = OnTrack
           /\ Fixed => Taken' = Taken /\ Told' = Told /\ Known' = Known
<1>1. UNCHANGED <<pc, reply, obj, type, cmd, link>>
  BY DEF serverVars
<1>2. Over' = Over /\ Refusing' = Refusing
  BY <1>1 DEF Over, Refusing
<1>3. Fixed => N' = N
  BY PlanStands DEF Fixed
<1> QED
  BY <1>1, <1>2, <1>3 DEF OnTrack, Taken, Told, Known, Fixed

LEMMA SessionKept ==
    ASSUME Session, Fixed, UNCHANGED <<serverVars, link>>
    PROVE  Session'
<1>1. (Cli!Offer)' = Cli!Offer /\ (Cli!RequestCmd)' = Cli!RequestCmd
  BY PlanStands DEF Fixed
<1>2. Known' = Known /\ UNCHANGED <<pc, reply, obj, type, cmd, creds, ctype, link>>
  BY SessionStays DEF Fixed
<1> QED
  BY <1>1, <1>2 DEF Session

LEMMA ShapeKept == ASSUME Shape, UNCHANGED serverVars PROVE Shape'
  BY DEF Shape, serverVars

LEMMA NetworkKept == ASSUME Network, UNCHANGED netVars PROVE Network'
  BY DEF Network, netVars

\* The client does not move.
LEMMA ClientStays ==
    ASSUME UNCHANGED clientVars
    PROVE  /\ Fixed /\ Sent' = Sent /\ Got' = Got
           /\ UNCHANGED <<cpc, ret, creds, ctype, pipeline>>
<1>1. UNCHANGED <<cpc, ret, creds, ctype, target, cfamily, pipeline>>
  BY DEF clientVars
<1>2. N' = N
  BY <1>1 DEF N
<1> QED
  BY <1>1, <1>2 DEF Fixed, Sent, Got

LEMMA ClientKept ==
    ASSUME Client, UNCHANGED clientVars, link' = link \/ link # "down"
    PROVE  Client'
<1>1. UNCHANGED <<cpc, ret, creds, ctype, target, cfamily, pipeline>>
  BY DEF clientVars
<1> QED
  BY <1>1 DEF Client, Early

\* The client has said and read nothing yet, and is not served yet.
LEMMA NotBegun ==
    ASSUME Network, Client, Session, Upstream, Downstream, ret = "none", Sent = 0, Got = 0,
           OnTrack, Taken = 0, Told = 0, ~Over
    PROVE  /\ c2s = <<>> /\ held = <<>> /\ s2c = <<>>
           /\ bytes["up"] = 0 /\ bytes["upRead"] = 0 /\ bytes["down"] = bytes["downRead"]
<1>1. Len(c2s) \in Nat /\ Len(held) \in Nat /\ Len(s2c) \in Nat
  BY LenProperties DEF Network
<1>2. Len(c2s) = 0 /\ Len(held) = 0 /\ Len(s2c) = 0
  BY <1>1 DEF Upstream, Downstream
<1>3. c2s = <<>> /\ held = <<>> /\ s2c = <<>>
  BY <1>2, EmptySeq DEF Network
<1>4. UpTo[0] = 0
  BY Totals
<1>5. bytes["down"] = bytes["downRead"] + 0
  BY <1>2, <1>3 DEF Downstream, Pending, PendingIn, PendingIn
<1> QED
  BY <1>3, <1>4, <1>5 DEF Upstream, Network

\* ... and is still at that point after a step.
LEMMA Beginning ==
    ASSUME c2s' = <<>>, held' = <<>>, s2c' = <<>>, Sent' = 0, Got' = 0,
           pc'[s] = "none", link' # "accepted", bytes' \in [{"up", "upRead", "down", "downRead"} -> Nat],
           bytes'["up"] = 0, bytes'["upRead"] = 0, bytes'["down"] = bytes'["downRead"]
    PROVE  Session' /\ Upstream' /\ Downstream'
<1>1. UpTo'[0] = 0 /\ N' \in {2, 3}
  BY DEF UpTo, N
<1>2. Len(c2s') = 0 /\ Len(held') = 0 /\ Len(s2c') = 0
  OBVIOUS
<1>3. ~Over' /\ Taken' = 0 /\ Told' = 0
  BY DEF Over, Taken, Told
<1>4. Session'
  BY DEF Session
<1>5. Upstream'
  BY <1>1, <1>2, <1>3 DEF Upstream, Stands
<1>6. Downstream'
  BY <1>1, <1>2, <1>3 DEF Downstream, Pending, PendingIn, PendingIn
<1> QED
  BY <1>4, <1>5, <1>6

\* Only the place of the client changes, not what it has sent and read.
LEMMA QuietKept ==
    ASSUME Session, Upstream, Downstream, Fixed, UNCHANGED <<serverVars, netVars>>,
           ret' # "failed" => ret # "failed" /\ Sent' = Sent /\ Got' = Got
    PROVE  Session' /\ Upstream' /\ Downstream'
<1>1. UNCHANGED <<serverVars, link>> /\ UNCHANGED <<c2s, held, s2c, bytes>>
  BY DEF netVars
<1>2. /\ Over' = Over /\ OnTrack' = OnTrack /\ Taken' = Taken /\ Told' = Told /\ Known' = Known
      /\ UNCHANGED <<pc, type>>
  BY <1>1, SessionStays
<1>3. UpTo' = UpTo /\ N' = N
  BY PlanStands DEF Fixed
<1>4. Served' = Served
  BY <1>1, <1>2, <1>3 DEF Served, Fixed
<1>5. Session'
  BY <1>1, SessionKept
<1>6. Upstream'
  BY <1>1, <1>2, UpKept
<1>7. ret # "failed" /\ pc'[s] = "fini" /\ Succeeded => Served'
  BY <1>2, <1>4 DEF Downstream
<1>8. Downstream'
  BY <1>1, <1>2, <1>7, DownKept
<1> QED
  BY <1>5, <1>6, <1>8

-----------------------------------------------------------------------------
(* The client's steps.                                                      *)
ClientPrelude ==
    \/ \E c \in Logins : Cli!SetAuth(c)
    \/ Cli!Connect
    \/ \E found \in BOOLEAN : Cli!Resolve(found)
    \/ Cli!OpenSocketFails
    \/ \E f \in CFds : Cli!OpenSocket(f)
    \/ \E o \in Outcomes : Cli!ConnectFails(o)
    \/ \E p \in BOOLEAN : Cli!Handshake(p)

\* While the client has not begun nothing is under way.
LEMMA Early0 ==
    ASSUME IInv, cpc \in Early \cup {"idle"}
    PROVE  /\ ret = "none" /\ Sent = 0 /\ Got = 0
           /\ cpc \in Early =>
                /\ link = "down" /\ pc[s] = "none"
                /\ c2s = <<>> /\ held = <<>> /\ s2c = <<>>
                /\ bytes["up"] = 0 /\ bytes["upRead"] = 0 /\ bytes["down"] = bytes["downRead"]
<1>1. ret = "none" /\ Sent = 0 /\ Got = 0
  BY DEF IInv, Client, Early, Sent, Got
<1>2. CASE cpc \in Early
  <2>1. link = "down" /\ pc[s] = "none"
    BY <1>2 DEF IInv, Client, Session
  <2>2. OnTrack /\ Taken = 0 /\ Told = 0 /\ ~Over
    BY <2>1 DEF OnTrack, Over, Refusing, Taken, Told
  <2> QED
    BY <1>1, <2>1, <2>2, NotBegun DEF IInv
<1> QED
  BY <1>1, <1>2

LEMMA PreludeStep ==
    ASSUME IInv, ClientPrelude, UNCHANGED <<serverVars, netVars>>
    PROVE  IInv'
<1>1. /\ cpc \in Early \cup {"idle"} /\ cpc' \in Early \cup {"idle", "sendMethods"}
      /\ cpc' \in Early => cpc \in Early
      /\ UNCHANGED <<ctype, target, cfamily, ret>>
      /\ creds' \in Logins \cup {NoLogin}
      /\ creds' = creds \/ cpc \in Early
      /\ pipeline' \in BOOLEAN
  BY PreludeIs DEF ClientPrelude, IInv
<1>2. ret = "none" /\ Sent = 0 /\ Got = 0
  BY <1>1, Early0
<1>3. Sent' = 0 /\ Got' = 0 /\ ret' = "none"
  BY <1>1, <1>2 DEF Sent, Got, Early
<1>4. Client' /\ Shape' /\ Network'
  <2>1. Client'
    BY <1>1, <1>2 DEF IInv, Client, Early, Cli!Pcs, Cli!PeerWaits, netVars
  <2> QED
    BY <2>1, ShapeKept, NetworkKept DEF IInv
<1>5. UNCHANGED <<pc, link, c2s, held, s2c, bytes>>
  BY DEF serverVars, netVars
<1>6. CASE cpc \in Early
  <2>1. Session' /\ Upstream' /\ Downstream'
    BY <1>3, <1>5, <1>6, Early0, Beginning DEF IInv, Network
  <2> QED
    BY <1>4, <2>1 DEF IInv
<1>7. CASE cpc = "idle"
  <2>1. Fixed
    BY <1>1, <1>7 DEF Fixed, Early
  <2>2. Session' /\ Upstream' /\ Downstream'
    BY <2>1, <1>2, <1>3, QuietKept DEF IInv
  <2> QED
    BY <1>4, <2>2 DEF IInv
<1> QED
  BY <1>1, <1>6, <1>7

LEMMA ConnectedStep == ASSUME IInv, ClientConnected PROVE IInv'
<1>1. PICK fam \in Families : Cli!Connected(fam)
  BY DEF ClientConnected
<1>2. /\ cpc = "connecting" /\ cpc' = "idle" /\ cfamily' = fam
      /\ UNCHANGED <<creds, ctype, target, pipeline, ret>>
  BY <1>1, ConnectedIs
<1>3. /\ link' = "up" /\ UNCHANGED <<serverVars, held, c2s, s2c, bytes>>
  BY DEF ClientConnected
<1>4. Client'
  BY <1>2, <1>3 DEF IInv, Client, Early, Cli!Pcs, Cli!PeerWaits, AddrTypes, Families
<1>5. Shape'
  BY <1>3, ShapeKept DEF IInv
<1>6. Network'
  BY <1>3 DEF IInv, Network
<1>7. Session' /\ Upstream' /\ Downstream'
  <2>1. cpc \in Early
    BY <1>2 DEF Early
  <2>2. /\ ret = "none" /\ pc[s] = "none"
        /\ c2s = <<>> /\ held = <<>> /\ s2c = <<>>
        /\ bytes["up"] = 0 /\ bytes["upRead"] = 0 /\ bytes["down"] = bytes["downRead"]
    BY <2>1, Early0
  <2>3. Sent' = 0 /\ Got' = 0 /\ pc' = pc
    BY <1>2, <1>3, <2>2 DEF Sent, Got, serverVars
  <2> QED
    BY <1>3, <2>2, <2>3, Beginning DEF IInv, Network
<1> QED
  BY <1>4, <1>5, <1>6, <1>7 DEF IInv

LEMMA DestructStep ==
    ASSUME IInv, Cli!Destruct, UNCHANGED <<serverVars, netVars>> PROVE IInv'
<1>1. cpc \in {"new", "idle", "returned"} /\ cpc' = "gone" /\ ret' = ret /\ Same
  BY DestructIs
<1>2. Fixed /\ N' = N
  BY <1>1 DEF Same, Fixed, N
<1>3. ret # "failed" => Sent' = Sent /\ Got' = Got
  BY <1>1, <1>2 DEF IInv, Client, Sent, Got
<1>4. Client'
  BY <1>1 DEF IInv, Client, Same, Early, Cli!Pcs
<1> QED
  BY <1>1, <1>2, <1>3, <1>4, QuietKept, ShapeKept, NetworkKept DEF IInv

LEMMA FailsStep ==
    ASSUME IInv, cpc \in Cli!PeerWaits, Fails, UNCHANGED <<serverVars, netVars>>
    PROVE  IInv'
<1>1. Fixed
  BY DEF Fails, Same, Fixed
<1>2. Client'
  BY DEF IInv, Client, Fails, Same, Early, Cli!Pcs
<1> QED
  BY <1>1, <1>2, QuietKept, ShapeKept, NetworkKept DEF IInv, Fails

-----------------------------------------------------------------------------
(* Messages on their way.                                                   *)
LEMMA StandsAdd ==
    ASSUME NEW S, NEW q \in Seq(S), NEW k \in Nat, NEW m \in S,
           Stands(q, k), m = Plan[k + Len(q) + 1]
    PROVE  Stands(Append(q, m), k)
<1>1. /\ Len(q) \in Nat /\ Len(Append(q, m)) = Len(q) + 1
      /\ \A i \in 1 .. Len(q) : Append(q, m)[i] = q[i]
      /\ Append(q, m)[Len(q) + 1] = m
  BY Add
<1>2. ASSUME NEW i \in 1 .. Len(q) + 1 PROVE Append(q, m)[i] = Plan[k + i]
  <2>1. CASE i \in 1 .. Len(q)
    BY <1>1, <2>1 DEF Stands
  <2>2. CASE i = Len(q) + 1
    <3>1. k + i = k + Len(q) + 1
      BY <1>1, <2>2
    <3> QED
      BY <1>1, <2>2, <3>1
  <2> QED
    BY <1>1, <2>1, <2>2
<1> QED
  BY <1>1, <1>2 DEF Stands

LEMMA StandsJoin ==
    ASSUME NEW S, NEW q \in Seq(S), NEW r \in Seq(S), NEW k \in Nat,
           Stands(q, k), Stands(r, k + Len(q))
    PROVE  Stands(q \o r, k)
<1>1. /\ Len(q) \in Nat /\ Len(r) \in Nat /\ Len(q \o r) = Len(q) + Len(r)
      /\ \A i \in 1 .. Len(q) : (q \o r)[i] = q[i]
      /\ \A i \in 1 .. Len(r) : (q \o r)[Len(q) + i] = r[i]
  BY Join
<1>2. ASSUME NEW i \in 1 .. Len(q) + Len(r) PROVE (q \o r)[i] = Plan[k + i]
  <2>1. CASE i \in 1 .. Len(q)
    BY <1>1, <2>1 DEF Stands
  <2>2. CASE i > Len(q)
    <3> DEFINE j == i - Len(q)
    <3>1. j \in 1 .. Len(r) /\ Len(q) + j = i /\ (k + Len(q)) + j = k + i
      BY <1>1, <2>2
    <3>2. (q \o r)[Len(q) + j] = r[j] /\ r[j] = Plan[(k + Len(q)) + j]
      BY <1>1, <3>1 DEF Stands
    <3> QED
      BY <3>1, <3>2
  <2> QED
    BY <1>1, <2>1, <2>2
<1> QED
  BY <1>1, <1>2 DEF Stands

LEMMA StandsTail ==
    ASSUME NEW S, NEW q \in Seq(S), NEW k \in Nat, Stands(q, k), q # <<>>
    PROVE  Head(q) = Plan[k + 1] /\ Stands(Tail(q), k + 1)
<1>1. /\ Len(q) \in Nat /\ Len(q) >= 1 /\ Len(Tail(q)) = Len(q) - 1 /\ Head(q) = q[1]
      /\ \A i \in 1 .. Len(q) - 1 : Tail(q)[i] = q[i + 1]
  BY Shift
<1>2. Head(q) = Plan[k + 1]
  BY <1>1 DEF Stands
<1>3. ASSUME NEW i \in 1 .. Len(q) - 1 PROVE Tail(q)[i] = Plan[(k + 1) + i]
  <2>1. i + 1 \in 1 .. Len(q) /\ k + (i + 1) = (k + 1) + i
    BY <1>1
  <2>2. q[i + 1] = Plan[k + (i + 1)]
    BY <2>1 DEF Stands
  <2> QED
    BY <1>1, <2>1, <2>2
<1> QED
  BY <1>1, <1>2, <1>3 DEF Stands

\* Stands speaks of the plan, which does not change.
HeldMsgs == {m \in UpMsgs : m.kind # "request"}

LEMMA Lens ==
    ASSUME Network
    PROVE  /\ Len(c2s) \in Nat /\ Len(held) \in Nat /\ Len(s2c) \in Nat
           /\ held \in Seq(HeldMsgs) /\ held \in Seq(UpMsgs)
<1>1. held \in Seq(HeldMsgs)
  BY DEF Network, HeldMsgs
<1>2. HeldMsgs \subseteq UpMsgs
  BY DEF HeldMsgs
<1>3. held \in Seq(UpMsgs)
  BY <1>1, <1>2, SeqMonotonic
<1> QED
  BY <1>1, <1>3, LenProperties DEF Network

\* The client sends the next message of its plan, held back or not.
LEMMA SendStep ==
    ASSUME IInv, NEW m \in UpMsgs, m = Plan[Sent + 1],
           Fixed, Client', UNCHANGED <<serverVars, link, s2c>>,
           ret = "none", ret' = "none", Sent' = Sent + 1, Sent' <= N, Got' = Got,
           bytes' = [bytes EXCEPT !["up"] = @ + WriteLen(m)],
           \/ m.kind # "request" /\ held' = Append(held, m) /\ c2s' = c2s
           \/ held' = <<>> /\ c2s' = c2s \o Append(held, m)
    PROVE  IInv'
<1>1. /\ N' = N /\ Plan' = Plan /\ UpTo' = UpTo
      /\ Over' = Over /\ OnTrack' = OnTrack /\ Taken' = Taken /\ Told' = Told /\ Known' = Known
      /\ UNCHANGED <<pc, type>>
  BY PlanStands, SessionStays DEF Fixed
<1>2. /\ Len(c2s) \in Nat /\ Len(held) \in Nat /\ held \in Seq(HeldMsgs) /\ held \in Seq(UpMsgs)
      /\ c2s \in Seq(UpMsgs)
  BY Lens DEF IInv, Network
<1>3. WriteLen(m) \in Nat /\ Sent \in 0 .. 2 /\ Sent \in Nat /\ Taken \in Nat /\ N \in {2, 3}
  BY Lengths, Counts
<1>4. /\ Append(held, m) \in Seq(UpMsgs) /\ Len(Append(held, m)) = Len(held) + 1
  BY <1>2, Add
<1>5. m.kind # "request" => Append(held, m) \in Seq(HeldMsgs)
  <2>1. SUFFICES ASSUME m.kind # "request" PROVE Append(held, m) \in Seq(HeldMsgs)
    OBVIOUS
  <2>2. m \in HeldMsgs
    BY <2>1 DEF HeldMsgs
  <2> QED
    BY <2>2, <1>2, Add
<1>6. /\ c2s \o Append(held, m) \in Seq(UpMsgs)
      /\ Len(c2s \o Append(held, m)) = Len(c2s) + Len(Append(held, m))
  BY <1>2, <1>4, Join
<1>7. Network'
  <2>1. bytes' \in [{"up", "upRead", "down", "downRead"} -> Nat]
    BY <1>3 DEF IInv, Network
  <2>2. c2s' \in Seq(UpMsgs)
    BY <1>2, <1>6
  <2>3. held' \in Seq(HeldMsgs)
    BY <1>5, Nothing
  <2> QED
    BY <2>1, <2>2, <2>3 DEF IInv, Network, HeldMsgs
<1>8. /\ bytes'["up"] = UpTo'[Sent'] /\ bytes'["upRead"] = bytes["upRead"]
      /\ bytes'["down"] = bytes["down"] /\ bytes'["downRead"] = bytes["downRead"]
  <2>1. bytes["up"] = UpTo[Sent] /\ UpTo[Sent + 1] = UpTo[Sent] + WriteLen(m)
    BY <1>3, Totals DEF IInv, Upstream
  <2> QED
    BY <1>1, <2>1 DEF IInv, Network
<1>9. Len(c2s') + Len(held') = Len(c2s) + Len(held) + 1
  <2>1. CASE held' = Append(held, m) /\ c2s' = c2s
    BY <1>2, <1>4, <2>1
  <2>2. CASE held' = <<>> /\ c2s' = c2s \o Append(held, m)
    <3>1. Len(held') = 0
      BY <2>2
    <3>2. Len(c2s') = Len(c2s) + (Len(held) + 1)
      BY <1>4, <1>6, <2>2
    <3> QED
      BY <1>2, <3>1, <3>2
  <2> QED
    BY <2>1, <2>2
<1>10. ASSUME OnTrack
       PROVE  /\ Taken + Len(c2s) + Len(held) = Sent
              /\ Stands(c2s', Taken) /\ Stands(held', Taken + Len(c2s'))
  <2>1. /\ Taken + Len(c2s) + Len(held) = Sent
        /\ Stands(c2s, Taken) /\ Stands(held, Taken + Len(c2s))
    BY <1>10 DEF IInv, Upstream
  <2>2. m = Plan[(Taken + Len(c2s)) + Len(held) + 1] /\ Taken + Len(c2s) \in Nat
    BY <2>1, <1>2, <1>3
  <2>3. Stands(Append(held, m), Taken + Len(c2s))
    BY <2>1, <2>2, <1>2, StandsAdd
  <2>4. Stands(c2s \o Append(held, m), Taken)
    BY <2>1, <2>3, <1>2, <1>3, <1>4, StandsJoin
  <2>5. Stands(<<>>, Taken + Len(c2s'))
    BY DEF Stands
  <2> QED
    BY <2>1, <2>3, <2>4, <2>5
<1>11. Upstream'
  <2>1. OnTrack => Stands(c2s, Taken)' /\ Stands(held, Taken + Len(c2s))'
    BY <1>1, <1>10 DEF Stands
  <2>2. OnTrack => /\ Taken' + Len(c2s') + Len(held') = Sent'
                   /\ bytes'["upRead"] = UpTo'[Taken']
    BY <1>1, <1>2, <1>3, <1>8, <1>9, <1>10 DEF IInv, Upstream
  <2>3. OnTrack => Taken' + Len(c2s') + Len(held') <= N'
    BY <1>1, <2>2
  <2> QED
    BY <1>1, <1>8, <2>1, <2>2, <2>3 DEF Upstream
<1>12. Downstream'
  <2>1. Due' = Due
    BY PlanStands DEF Fixed
  <2>2. Pending' = Pending /\ Succeeded' = Succeeded
    BY <1>1 DEF Pending, Succeeded
  <2>3. Served' = Served
    BY <1>1, <1>8 DEF Served, Fixed
  <2>4. (\A i \in 1 .. Len(s2c) : \/ Right(s2c[i], Got + i)
                                  \/ i = Len(s2c) /\ Over /\ Wrong(s2c[i], Got + i))'
    BY <2>1, <1>1 DEF IInv, Downstream, Right, Wrong
  <2> QED
    BY <1>1, <1>8, <2>2, <2>3, <2>4 DEF IInv, Downstream
<1>13. Session' /\ Shape'
  BY SessionKept, ShapeKept DEF IInv
<1> QED
  BY <1>7, <1>11, <1>12, <1>13 DEF IInv

LEMMA SendHelloStep == ASSUME IInv, SendHello PROVE IInv'
<1>1. /\ cpc = "sendMethods" /\ ret' = ret /\ Same
      /\ cpc' = IF pipeline THEN "sendCreds" ELSE "readMethod"
  BY WriteIs DEF SendHello, Fails
<1>2. Fixed /\ ret = "none" /\ ret' = "none"
  BY <1>1 DEF Same, Fixed, IInv, Client
<1>3. Sent = 0 /\ Sent' = 1 /\ Got = 0 /\ Got' = 0
  BY <1>1, <1>2 DEF Sent, Got, Same
<1>4. HelloMsg \in UpMsgs /\ HelloMsg.kind = "hello" /\ HelloMsg = Plan[Sent + 1]
  BY <1>3, PlanIs DEF IInv
<1>5. Client'
  <2>1. cpc' = "sendCreds" \/ cpc' = "readMethod"
    BY <1>1
  <2>2. cpc' = "sendCreds" => pipeline'
    BY <1>1 DEF Same
  <2> QED
    BY <1>1, <1>2, <2>1, <2>2 DEF IInv, Client, Same, Early, Cli!Pcs, Cli!PeerWaits
<1>6. /\ UNCHANGED <<serverVars, link, s2c>>
      /\ bytes' = [bytes EXCEPT !["up"] = @ + WriteLen(HelloMsg)]
      /\ held' = Append(held, HelloMsg) /\ c2s' = c2s
  BY DEF SendHello, Count
<1>7. HelloMsg.kind # "request" /\ Sent' = Sent + 1 /\ Sent' <= N /\ Got' = Got
  BY <1>3, <1>4, Counts
<1> QED
  BY <1>2, <1>4, <1>5, <1>6, <1>7, SendStep

LEMMA SendCredsStep == ASSUME IInv, SendCreds PROVE IInv'
<1>1. /\ cpc = "sendCreds" /\ ret' = ret /\ Same
      /\ cpc' = IF pipeline THEN "sendRequest" ELSE "readCreds"
  BY WriteIs DEF SendCreds, Fails
<1>2. Fixed /\ ret = "none" /\ ret' = "none" /\ pipeline' = pipeline /\ N' = N
  BY <1>1 DEF Same, Fixed, IInv, Client, N
<1>3. ~pipeline => creds # NoLogin
  BY <1>1 DEF IInv, Client
<1>4. Client'
  <2>1. cpc' = "sendRequest" \/ cpc' = "readCreds"
    BY <1>1
  <2>2. cpc' = "readCreds" => creds' # NoLogin
    BY <1>1, <1>3 DEF Same
  <2> QED
    BY <1>1, <1>2, <2>1, <2>2 DEF IInv, Client, Same, Early, Cli!Pcs, Cli!PeerWaits
<1>5. Sent = 1 /\ Got' = Got
  <2>1. Sent = 1
    BY <1>1, <1>2 DEF Sent
  <2>2. Got' = Got
    BY <1>1, <1>2 DEF Got
  <2> QED
    BY <2>1, <2>2
<1>6. CASE creds = NoLogin
  <2>1. UNCHANGED <<serverVars, netVars>>
    BY <1>6 DEF SendCreds, netVars
  <2>2. Sent' = 1
    BY <1>1, <1>2, <1>3, <1>6 DEF Sent, N
  <2> QED
    BY <1>2, <1>4, <1>5, <2>1, <2>2, QuietKept, ShapeKept, NetworkKept DEF IInv
<1>7. CASE creds # NoLogin
  <2>1. Sent' = 2 /\ N = 3
    BY <1>1, <1>2, <1>7 DEF Sent, N
  <2>2. CredsMsg \in UpMsgs /\ CredsMsg.kind = "creds" /\ CredsMsg = Plan[Sent + 1]
    BY <1>5, <1>7, PlanIs DEF IInv
  <2>3. /\ UNCHANGED <<serverVars, link, s2c>>
        /\ bytes' = [bytes EXCEPT !["up"] = @ + WriteLen(CredsMsg)]
        /\ held' = Append(held, CredsMsg) /\ c2s' = c2s
    BY <1>7 DEF SendCreds, Count
  <2> QED
    <3>1. CredsMsg.kind # "request" /\ Sent' = Sent + 1 /\ Sent' <= N
      BY <1>5, <2>1, <2>2
    <3> QED
      BY <1>2, <1>4, <1>5, <2>2, <2>3, <3>1, SendStep
<1> QED
  BY <1>6, <1>7

LEMMA SendRequestStep == ASSUME IInv, SendRequest PROVE IInv'
<1>1. /\ cpc = "sendRequest" /\ ret' = ret /\ Same
      /\ cpc' = IF pipeline THEN "readMethod" ELSE "readResponse"
  BY WriteIs DEF SendRequest, Fails
<1>2. Fixed /\ ret = "none" /\ ret' = "none" /\ pipeline' = pipeline /\ N' = N
  BY <1>1 DEF Same, Fixed, IInv, Client, N
<1>3. Client'
  <2>1. cpc' = "readMethod" \/ cpc' = "readResponse"
    BY <1>1
  <2> QED
    BY <1>1, <1>2, <2>1 DEF IInv, Client, Same, Early, Cli!Pcs, Cli!PeerWaits
<1>4. Sent = N - 1 /\ Sent' = N /\ N \in {2, 3}
  <2>1. Sent = N - 1
    BY <1>1, <1>2 DEF Sent
  <2>2. Sent' = N
    BY <1>1, <1>2 DEF Sent
  <2> QED
    BY <2>1, <2>2, Counts
<1>5. Got' = Got
  BY <1>1, <1>2 DEF Got
<1>6. RequestMsg \in UpMsgs /\ RequestMsg = Plan[Sent + 1]
  <2>1. Sent + 1 = N
    BY <1>4
  <2> QED
    BY <2>1, PlanIs DEF IInv
<1>7. /\ UNCHANGED <<serverVars, link, s2c>>
      /\ bytes' = [bytes EXCEPT !["up"] = @ + WriteLen(RequestMsg)]
      /\ held' = <<>> /\ c2s' = c2s \o Append(held, RequestMsg)
  BY DEF SendRequest, Count
<1>8. Sent' = Sent + 1 /\ Sent' <= N
  BY <1>4
<1> QED
  BY <1>2, <1>3, <1>5, <1>6, <1>7, <1>8, SendStep

\* The kernel lets go of what it holds.
LEMMA FlushStep == ASSUME IInv, Flush PROVE IInv'
<1>1. /\ c2s' = c2s \o held /\ held' = <<>>
      /\ UNCHANGED <<link, s2c, bytes>> /\ UNCHANGED serverVars /\ UNCHANGED clientVars
  BY DEF Flush
<1>2. /\ Fixed /\ Sent' = Sent /\ Got' = Got /\ UNCHANGED <<ret, creds, ctype>>
  BY <1>1, ClientStays
<1>3. /\ N' = N /\ Plan' = Plan /\ UpTo' = UpTo
      /\ Over' = Over /\ OnTrack' = OnTrack /\ Taken' = Taken /\ Told' = Told /\ Known' = Known
      /\ UNCHANGED <<pc, type>>
  BY <1>1, <1>2, PlanStands, SessionStays DEF Fixed
<1>4. /\ Len(c2s) \in Nat /\ Len(held) \in Nat /\ held \in Seq(UpMsgs)
      /\ c2s \in Seq(UpMsgs) /\ Taken \in Nat
  BY Lens, Counts DEF IInv, Network
<1>5. /\ c2s' \in Seq(UpMsgs) /\ Len(c2s') = Len(c2s) + Len(held) /\ Len(held') = 0
  BY <1>1, <1>4, Join
<1>6. Network'
  <2>1. held' \in Seq({m \in UpMsgs : m.kind # "request"})
    BY <1>1, Nothing
  <2> QED
    BY <1>1, <1>5, <2>1 DEF IInv, Network
<1>7. OnTrack => Stands(c2s', Taken) /\ Stands(held', Taken + Len(c2s'))
  <2>1. OnTrack => Stands(c2s', Taken)
    BY <1>1, <1>4, StandsJoin DEF IInv, Upstream
  <2>2. Stands(held', Taken + Len(c2s'))
    BY <1>1 DEF Stands
  <2> QED
    BY <2>1, <2>2
<1>8. Upstream'
  <2>1. OnTrack => Stands(c2s, Taken)' /\ Stands(held, Taken + Len(c2s))'
    BY <1>3, <1>7 DEF Stands
  <2>2. Taken + Len(c2s') + Len(held') = Taken + Len(c2s) + Len(held)
    BY <1>4, <1>5
  <2> QED
    BY <1>1, <1>2, <1>3, <2>1, <2>2 DEF IInv, Upstream
<1>9. Served' = Served
  BY <1>1, <1>2, <1>3 DEF Served
<1>10. Downstream'
  BY <1>1, <1>2, <1>3, <1>9, DownKept DEF IInv, Downstream
<1> QED
  BY <1>1, <1>2, <1>6, <1>8, <1>10, ClientKept, SessionKept, ShapeKept DEF IInv

-----------------------------------------------------------------------------
(* The client reads.                                                        *)
LEMMA NextReply ==
    ASSUME IInv, ret # "failed", s2c # <<>>
    PROVE  /\ s2c[1] \in DownMsgs /\ Head(s2c) = s2c[1]
           /\ Len(s2c) \in Nat /\ Len(s2c) >= 1 /\ Got + 1 <= N
           /\ s2c[1].kind = Due[Got + 1].kind
           /\ \/ s2c[1].code = Due[Got + 1].code
              \/ s2c[1].code = 255
              \/ s2c[1].kind = "response"
<1>1. s2c[1] \in DownMsgs /\ Head(s2c) = s2c[1] /\ Len(s2c) \in Nat /\ Len(s2c) >= 1
  BY Shift DEF IInv, Network
<1>2. Got + Len(s2c) <= N /\ Got \in Nat /\ N \in Nat
  BY Counts DEF IInv, Downstream
<1>3. 1 \in 1 .. Len(s2c)
  BY <1>1
<1>4. Right(s2c[1], Got + 1) \/ Wrong(s2c[1], Got + 1)
  BY <1>3 DEF IInv, Downstream
<1> QED
  BY <1>1, <1>2, <1>4 DEF Right, Wrong

LEMMA PendingTail ==
    ASSUME NEW q \in Seq(DownMsgs), q # <<>>,
           Len(q) > 1 => q[1].kind # "response"
    PROVE  PendingIn(q) = WriteLen(q[1]) + PendingIn(Tail(q)) /\ PendingIn(Tail(q)) \in Nat
<1>1. /\ Tail(q) \in Seq(DownMsgs)
      /\ Len(q) \in Nat /\ Len(q) >= 1 /\ Len(Tail(q)) = Len(q) - 1
      /\ \A i \in 1 .. Len(q) - 1 : Tail(q)[i] = q[i + 1]
      /\ \A i \in 1 .. Len(q) : q[i] \in DownMsgs
  BY Shift, ElementOfSeq
<1>2. Tail(q) = <<>> <=> Len(Tail(q)) = 0
  BY <1>1, EmptySeq
<1>3. /\ WriteLen(q[1]) \in Nat /\ WriteLen(q[Len(q)]) \in Nat
      /\ q[1].kind # "response" => WriteLen(q[1]) = 2
  BY <1>1, Lengths
<1> DEFINE w(x) == WriteLen(x)
<1> SUFFICES ASSUME NEW r, r = Tail(q)
             PROVE  PendingIn(q) = w(q[1]) + PendingIn(r) /\ PendingIn(r) \in Nat
  OBVIOUS
<1>4. /\ Len(r) = Len(q) - 1 /\ (r = <<>> <=> Len(r) = 0)
      /\ \A i \in 1 .. Len(q) - 1 : r[i] = q[i + 1]
  BY <1>1, <1>2
<1>5. CASE Len(q) = 1
  <2>1. PendingIn(r) = 0
    BY <1>4, <1>5 DEF PendingIn
  <2>2. PendingIn(q) = w(q[1])
    BY <1>3, <1>5 DEF PendingIn
  <2> QED
    BY <1>3, <2>1, <2>2
<1>6. CASE Len(q) > 1
  <2>1. r # <<>> /\ Len(r) + 1 = Len(q) /\ r[Len(r)] = q[Len(q)]
    <3>1. Len(r) \in 1 .. Len(q) - 1 /\ Len(r) + 1 = Len(q)
      BY <1>1, <1>4, <1>6
    <3> QED
      BY <1>4, <3>1
  <2>2. PendingIn(q) = IF q[Len(q)].kind = "response"
                       THEN 2 * (Len(q) - 1) + w(q[Len(q)]) ELSE 2 * Len(q)
    BY DEF PendingIn
  <2>3. PendingIn(r) = IF q[Len(q)].kind = "response"
                       THEN 2 * (Len(r) - 1) + w(q[Len(q)]) ELSE 2 * Len(r)
    BY <2>1 DEF PendingIn
  <2>4. w(q[1]) = 2
    BY <1>3, <1>6
  <2>5. Len(r) = Len(q) - 1 /\ Len(q) \in Nat /\ w(q[Len(q)]) \in Nat
    BY <1>1, <1>3, <1>4
  <2> HIDE DEF w
  <2> QED
    BY <2>2, <2>3, <2>4, <2>5, <1>6
<1> QED
  BY <1>1, <1>5, <1>6

LEMMA TakeStep ==
    ASSUME IInv, ret = "none", s2c # <<>>, s2c' = Tail(s2c),
           bytes' = [bytes EXCEPT !["downRead"] = @ + ReadLen(Head(s2c))],
           UNCHANGED <<serverVars, link, held, c2s>>, Fixed, Client',
           ret' # "failed" => Sent' = Sent /\ Got' = Got + 1 /\ s2c[1].code = Due[Got + 1].code
    PROVE  IInv'
<1>1. /\ N' = N /\ Due' = Due /\ UpTo' = UpTo
      /\ Over' = Over /\ OnTrack' = OnTrack /\ Taken' = Taken /\ Told' = Told /\ Known' = Known
      /\ UNCHANGED <<pc, type>>
  BY PlanStands, SessionStays DEF Fixed
<1>2. /\ Tail(s2c) \in Seq(DownMsgs)
      /\ Len(s2c) \in Nat /\ Len(s2c) >= 1 /\ Len(Tail(s2c)) = Len(s2c) - 1
      /\ Head(s2c) = s2c[1] /\ s2c[1] \in DownMsgs
      /\ \A i \in 1 .. Len(s2c) - 1 : Tail(s2c)[i] = s2c[i + 1]
  BY Shift DEF IInv, Network
<1>3. /\ WriteLen(s2c[1]) \in Nat /\ ReadLen(Head(s2c)) = WriteLen(s2c[1])
      /\ s2c[1].kind # "response" => WriteLen(s2c[1]) = 2
  BY <1>2, Lengths
<1>4. /\ bytes'["up"] = bytes["up"] /\ bytes'["upRead"] = bytes["upRead"]
      /\ bytes'["down"] = bytes["down"]
      /\ bytes'["downRead"] = bytes["downRead"] + WriteLen(s2c[1])
      /\ bytes["down"] \in Nat /\ bytes["downRead"] \in Nat
      /\ bytes' \in [{"up", "upRead", "down", "downRead"} -> Nat]
  BY <1>3 DEF IInv, Network
<1>9. /\ s2c' \in Seq(DownMsgs) /\ Len(s2c') = Len(s2c) - 1
      /\ \A i \in 1 .. Len(s2c') : s2c'[i] = s2c[i + 1]
      /\ s2c' = <<>> <=> Len(s2c') = 0
  BY <1>2, EmptySeq
<1>5. Network'
  BY <1>2, <1>4 DEF IInv, Network
<1>6. Upstream'
  BY <1>1, <1>4, UpKept DEF IInv
<1>7. Downstream'
  <2> SUFFICES ASSUME ret' # "failed" PROVE Downstream'
    BY DEF Downstream
  <2>1. Got' = Got + 1 /\ Got \in Nat /\ N \in Nat /\ s2c[1].code = Due[Got + 1].code
    BY Counts
  <2>2. Got' + Len(s2c') = Got + Len(s2c)
    BY <1>2, <2>1
  <2>3. ASSUME NEW i \in 1 .. Len(s2c')
        PROVE  \/ Right(s2c[i], Got + i)'
               \/ i = Len(s2c') /\ Over' /\ Wrong(s2c[i], Got + i)'
    <3>1. i + 1 \in 1 .. Len(s2c) /\ s2c'[i] = s2c[i + 1] /\ Got' + i = Got + (i + 1)
      BY <1>2, <2>1
    <3>2. \/ Right(s2c[i + 1], Got + (i + 1))
          \/ i + 1 = Len(s2c) /\ Over /\ Wrong(s2c[i + 1], Got + (i + 1))
      BY <3>1 DEF IInv, Downstream
    <3>3. i + 1 = Len(s2c) => i = Len(s2c')
      <4>1. Len(s2c') = Len(s2c) - 1 /\ Len(s2c) \in Nat
        BY <1>2, <1>9
      <4>2. i \in Int /\ Len(s2c') \in Int /\ Len(s2c) \in Int
        BY <4>1
      <4>3. \A a, b, c \in Int : b = a - 1 /\ c + 1 = a => c = b
        OBVIOUS
      <4> QED
        BY <4>1, <4>2, <4>3, Zenon
    <3> QED
      BY <1>1, <3>1, <3>2, <3>3 DEF Right, Wrong
  <2>4. Succeeded' => Succeeded
    <3>1. CASE Len(s2c) = 1
      <4>1. Got + Len(s2c) = N => s2c[1].code = 0
        BY <2>1, <3>1, DueIs
      <4> QED
        BY <1>1, <2>2, <3>1, <4>1 DEF Succeeded, RepSucc
    <3>2. CASE Len(s2c) > 1
      <4>1. Len(s2c') \in 1 .. Len(s2c') /\ Len(s2c') + 1 = Len(s2c)
        BY <1>2, <1>9, <3>2
      <4>2. s2c'[Len(s2c')] = s2c[Len(s2c)]
        BY <1>9, <4>1
      <4>3. s2c' # <<>>
        BY <1>2, <1>9, <3>2
      <4> QED
        BY <1>1, <2>2, <4>2, <4>3 DEF Succeeded
    <3> QED
      BY <1>2, <3>1, <3>2
  <2>5. Served' = Served
    BY <1>1, <1>4 DEF Served, Fixed
  <2>6. Pending = WriteLen(s2c[1]) + Pending' /\ Pending' \in Nat
    <3>1. Len(s2c) > 1 => s2c[1].kind # "response"
      <4>1. s2c[1].kind = Due[Got + 1].kind
        BY NextReply
      <4>2. Got \in Nat /\ Len(s2c) \in Nat /\ N \in {2, 3} /\ Got + Len(s2c) <= N
        <5>1. Got + Len(s2c) <= N
          BY DEF IInv, Downstream
        <5> QED
          BY <5>1, <1>2, Counts
      <4>3. Len(s2c) > 1 => Got + 1 < N /\ Got + 1 \in 1 .. 3
        BY <4>2
      <4> QED
        BY <4>1, <4>3, DueIs
    <3>2. PendingIn(s2c) = WriteLen(s2c[1]) + PendingIn(Tail(s2c)) /\ PendingIn(Tail(s2c)) \in Nat
      BY <3>1, <1>2, <1>3, <1>9, PendingTail DEF IInv, Network
    <3> QED
      BY <3>2 DEF Pending
  <2>7. bytes'["down"] = bytes'["downRead"] + Pending'
    BY <1>3, <1>4, <2>6 DEF IInv, Downstream
  <2> QED
    BY <1>1, <2>1, <2>2, <2>3, <2>4, <2>5, <2>7 DEF IInv, Downstream
<1>8. Session' /\ Shape'
  BY SessionKept, ShapeKept DEF IInv
<1> QED
  BY <1>5, <1>6, <1>7, <1>8 DEF IInv

LEMMA ReadFails ==
    ASSUME IInv, cpc \in {"readMethod", "readCreds", "readResponse"}, ret = "none",
           s2c # <<>>, s2c' = Tail(s2c),
           bytes' = [bytes EXCEPT !["downRead"] = @ + ReadLen(Head(s2c))],
           UNCHANGED <<serverVars, link, held, c2s>>, Fails
    PROVE  IInv'
<1>1. Fixed /\ ret' = "failed"
  BY DEF Fails, Same, Fixed
<1>2. Client'
  BY DEF IInv, Client, Fails, Same, Early, Cli!Pcs
<1> QED
  BY <1>1, <1>2, TakeStep

\* What a read changes besides the client.
LEMMA TakesIs ==
    ASSUME NEW kind, ClientTakes(kind)
    PROVE  /\ s2c # <<>> /\ Head(s2c).kind = kind /\ s2c' = Tail(s2c)
           /\ bytes' = [bytes EXCEPT !["downRead"] = @ + ReadLen(Head(s2c))]
           /\ UNCHANGED <<serverVars, link, held, c2s>>
  BY DEF ClientTakes, Count

LEMMA GetMethodStep == ASSUME IInv, GetMethod PROVE IInv'
<1>1. /\ s2c # <<>> /\ s2c' = Tail(s2c)
      /\ bytes' = [bytes EXCEPT !["downRead"] = @ + ReadLen(Head(s2c))]
      /\ UNCHANGED <<serverVars, link, held, c2s>>
  BY TakesIs DEF GetMethod
<1>2. /\ cpc = "readMethod"
      /\ \/ /\ Head(s2c).code = 2 /\ ret' = ret /\ Same
            /\ cpc' = IF pipeline THEN "readCreds" ELSE "sendCreds"
         \/ /\ Head(s2c).code = 0 /\ ret' = ret /\ Same
            /\ cpc' = IF pipeline THEN "readResponse" ELSE "sendRequest"
         \/ Fails
  <2> DEFINE in == [got |-> "done", ver |-> Ver5, method |-> Head(s2c).code]
  <2>1. Cli!ReadAuthMethod(in) /\ in.got = "done" /\ in.method = Head(s2c).code
    BY DEF GetMethod
  <2> HIDE DEF in
  <2> QED
    BY <2>1, ReadAuthMethodGoes DEF MethodUser, MethodNone
<1>3. Fixed /\ pipeline' = pipeline /\ N' = N /\ ret = "none"
  BY <1>2 DEF Fails, Same, Fixed, IInv, Client, N
<1>4. Got = 0
  BY <1>2, <1>3 DEF Got
<1>5. Head(s2c) = s2c[1] /\ (s2c[1].code = Cli!Offer \/ s2c[1].code = 255)
  <2>1. /\ Head(s2c) = s2c[1] /\ s2c[1].kind = Due[1].kind
        /\ \/ s2c[1].code = Due[1].code
           \/ s2c[1].code = 255
           \/ s2c[1].kind = "response"
    BY <1>1, <1>3, <1>4, NextReply
  <2> QED
    BY <2>1, DueIs
<1>6. CASE Fails
  BY <1>6, <1>1, <1>2, <1>3, ReadFails
<1>7. CASE /\ Head(s2c).code = 2 /\ ret' = ret /\ Same
           /\ cpc' = IF pipeline THEN "readCreds" ELSE "sendCreds"
  <2>1. creds # NoLogin /\ s2c[1].code = Due[1].code
    BY <1>5, <1>7, DueIs
  <2>2. cpc' = "readCreds" \/ cpc' = "sendCreds"
    BY <1>7
  <2>3. Client'
    BY <1>2, <1>3, <1>7, <2>1, <2>2, <1>1 DEF IInv, Client, Same, Early, Cli!Pcs, Cli!PeerWaits
  <2>4. Sent' = Sent
    BY <1>2, <1>3, <1>7 DEF Sent
  <2>5. Got' = Got + 1
    BY <1>2, <1>3, <1>4, <1>7 DEF Got
  <2> QED
    BY <1>1, <1>3, <1>4, <2>1, <2>3, <2>4, <2>5, TakeStep
<1>8. CASE /\ Head(s2c).code = 0 /\ ret' = ret /\ Same
           /\ cpc' = IF pipeline THEN "readResponse" ELSE "sendRequest"
  <2>1. creds = NoLogin /\ s2c[1].code = Due[1].code
    BY <1>5, <1>8, DueIs
  <2>2. cpc' = "readResponse" \/ cpc' = "sendRequest"
    BY <1>8
  <2>3. Client'
    BY <1>2, <1>3, <1>8, <2>2, <1>1 DEF IInv, Client, Same, Early, Cli!Pcs, Cli!PeerWaits
  <2>4. Sent' = Sent
    BY <1>2, <1>3, <1>8, <2>1 DEF Sent, N
  <2>5. Got' = Got + 1
    BY <1>2, <1>3, <1>4, <1>8, <2>1 DEF Got, N
  <2> QED
    BY <1>1, <1>3, <1>4, <2>1, <2>3, <2>4, <2>5, TakeStep
<1> QED
  BY <1>2, <1>6, <1>7, <1>8

LEMMA GetAuthReplyStep == ASSUME IInv, GetAuthReply PROVE IInv'
<1>1. /\ s2c # <<>> /\ s2c' = Tail(s2c)
      /\ bytes' = [bytes EXCEPT !["downRead"] = @ + ReadLen(Head(s2c))]
      /\ UNCHANGED <<serverVars, link, held, c2s>>
  BY TakesIs DEF GetAuthReply
<1>2. /\ cpc = "readCreds"
      /\ \/ /\ Head(s2c).code = 0 /\ ret' = ret /\ Same
            /\ cpc' = IF pipeline THEN "readResponse" ELSE "sendRequest"
         \/ Fails
  <2> DEFINE in == [got |-> "done", ver |-> AuthVer1, rep |-> Head(s2c).code]
  <2>1. Cli!ReadAuthCreds(in) /\ in.rep = Head(s2c).code
    BY DEF GetAuthReply
  <2> HIDE DEF in
  <2> QED
    BY <2>1, ReadAuthCredsGoes DEF RepSucc
<1>3. Fixed /\ pipeline' = pipeline /\ N' = N /\ ret = "none" /\ creds # NoLogin /\ N = 3
  BY <1>2 DEF Fails, Same, Fixed, IInv, Client, N
<1>4. Got = 1
  BY <1>2, <1>3 DEF Got
<1>5. CASE Fails
  BY <1>5, <1>1, <1>2, <1>3, ReadFails
<1>6. CASE /\ Head(s2c).code = 0 /\ ret' = ret /\ Same
           /\ cpc' = IF pipeline THEN "readResponse" ELSE "sendRequest"
  <2>1. s2c[1].code = Due[Got + 1].code
    BY <1>1, <1>3, <1>4, <1>6, NextReply, DueIs
  <2>2. cpc' = "readResponse" \/ cpc' = "sendRequest"
    BY <1>6
  <2>3. Client'
    BY <1>2, <1>3, <1>6, <2>2, <1>1 DEF IInv, Client, Same, Early, Cli!Pcs, Cli!PeerWaits
  <2>4. Sent' = Sent
    BY <1>2, <1>3, <1>6 DEF Sent
  <2>5. Got' = Got + 1
    BY <1>2, <1>3, <1>4, <1>6 DEF Got
  <2> QED
    BY <1>1, <1>3, <2>1, <2>3, <2>4, <2>5, TakeStep
<1> QED
  BY <1>2, <1>5, <1>6

LEMMA GetResponseStep == ASSUME IInv, GetResponse PROVE IInv'
<1>1. /\ s2c # <<>> /\ s2c' = Tail(s2c)
      /\ bytes' = [bytes EXCEPT !["downRead"] = @ + ReadLen(Head(s2c))]
      /\ UNCHANGED <<serverVars, link, held, c2s>>
  BY TakesIs DEF GetResponse
<1>2. /\ cpc = "readResponse" /\ cpc' = "returned" /\ Same
      /\ \/ ret' = "ok" /\ Head(s2c).code = 0
         \/ ret' = "failed"
  <2> DEFINE in == [got |-> "done", rest |-> "done", ver |-> Ver5,
                    rep |-> Head(s2c).code, atype |-> Head(s2c).atype]
  <2>1. Cli!ReadResponse(in) /\ in.rep = Head(s2c).code
    BY DEF GetResponse
  <2> HIDE DEF in
  <2> QED
    BY <2>1, ReadResponseGoes DEF RepSucc
<1>3. Fixed /\ pipeline' = pipeline /\ N' = N /\ ret = "none"
  BY <1>2 DEF Same, Fixed, IInv, Client, N
<1>4. Got = N - 1 /\ N \in {2, 3} /\ Sent = N
  <2>1. Got = N - 1
    BY <1>2, <1>3 DEF Got
  <2>2. Sent = N
    BY <1>2 DEF Sent
  <2> QED
    BY <2>1, <2>2, Counts
<1>5. CASE ret' = "failed"
  BY <1>5, <1>1, <1>2, <1>3, ReadFails DEF Fails
<1>6. CASE ret' = "ok" /\ Head(s2c).code = 0
  <2>1. s2c[1].code = Due[Got + 1].code
    <3>1. Got + 1 = N
      BY <1>4
    <3> QED
      BY <1>1, <1>3, <3>1, <1>6, NextReply, DueIs
  <2>2. Client'
    BY <1>2, <1>3, <1>6, <1>1 DEF IInv, Client, Same, Early, Cli!Pcs
  <2>3. Sent' = Sent /\ Got' = Got + 1
    BY <1>3, <1>4, <1>6 DEF Sent, Got
  <2> QED
    BY <1>1, <1>3, <2>1, <2>2, <2>3, TakeStep
<1> QED
  BY <1>2, <1>5, <1>6

\* No message, or no send.
LEMMA ClientFailsStep == ASSUME IInv, ClientSendFails \/ GetNothing PROVE IInv'
<1>1. UNCHANGED <<serverVars, netVars>>
  BY DEF ClientSendFails, GetNothing
<1>2. cpc \in Cli!PeerWaits /\ Fails
  <2>1. CASE ClientSendFails
    <3>1. PICK o \in {"closed", "timer"} :
            Cli!WriteAuthMethods(o) \/ Cli!WriteAuthCreds(o) \/ Cli!WriteRequest(o)
      BY <2>1 DEF ClientSendFails
    <3> QED
      BY <3>1, WriteIs DEF Cli!PeerWaits
  <2>2. CASE GetNothing
    <3>1. PICK o \in {"closed", "timer"} :
            \/ \E in \in Cli!MethodReplies : in.got = o /\ Cli!ReadAuthMethod(in)
            \/ \E in \in Cli!AuthReplies : in.got = o /\ Cli!ReadAuthCreds(in)
            \/ \E in \in Cli!Responses : in.got = o /\ Cli!ReadResponse(in)
      BY <2>2 DEF GetNothing
    <3>2. ASSUME NEW in, in.got = o, Cli!ReadAuthMethod(in) PROVE cpc = "readMethod" /\ Fails
      BY <3>2, ReadAuthMethodGoes
    <3>3. ASSUME NEW in, in.got = o, Cli!ReadAuthCreds(in) PROVE cpc = "readCreds" /\ Fails
      BY <3>3, ReadAuthCredsGoes
    <3>4. ASSUME NEW in, in.got = o, Cli!ReadResponse(in) PROVE cpc = "readResponse" /\ Fails
      BY <3>4, ReadResponseGoes DEF Fails
    <3> QED
      BY <3>1, <3>2, <3>3, <3>4 DEF Cli!PeerWaits
  <2> QED
    BY <2>1, <2>2
<1> QED
  BY <1>1, <1>2, FailsStep

-----------------------------------------------------------------------------
(* The session's steps.                                                     *)
LEMMA ServerQuiet ==
    ASSUME IInv, UNCHANGED clientVars, UNCHANGED <<held, c2s, s2c, bytes>>,
           link' = link \/ (link = "up" /\ link' = "accepted"),
           Shape', Session',
           OnTrack' => OnTrack /\ Taken' = Taken,
           Over => Over', ~Over' => Told' = Told,
           ret # "failed" /\ pc'[s] = "fini" /\ Succeeded => Served'
    PROVE  IInv'
<1>1. Fixed /\ Sent' = Sent /\ Got' = Got /\ ret' = ret
  BY ClientStays
<1>2. Client'
  BY ClientKept DEF IInv
<1>3. Network'
  BY DEF IInv, Network
<1>4. Upstream'
  BY <1>1, UpKept DEF IInv
<1>5. Downstream'
  BY <1>1, DownKept DEF IInv
<1> QED
  BY <1>2, <1>3, <1>4, <1>5 DEF IInv

\* A session that still owes its response has not served anybody.
LEMMA NotServedYet ==
    ASSUME IInv, ret # "failed", ~Over, pc[s] \notin {"service", "splice"}
    PROVE  ~Succeeded
<1>1. Got + Len(s2c) = Told
  BY DEF IInv, Downstream
<1>2. Told < N
  BY Counts DEF Told
<1> QED
  BY <1>1, <1>2, Counts DEF Succeeded

\* What stays of the session's knowledge when the client does not move.
LEMMA KnownStays ==
    ASSUME UNCHANGED clientVars
    PROVE  /\ (Cli!Offer)' = Cli!Offer /\ (Cli!RequestCmd)' = Cli!RequestCmd
           /\ creds' = creds /\ ctype' = ctype /\ N' = N /\ N \in {2, 3}
           /\ obj'[s] = obj[s] => Known' = Known
<1>1. Fixed
  BY ClientStays
<1>2. /\ (Cli!Offer)' = Cli!Offer /\ (Cli!RequestCmd)' = Cli!RequestCmd
      /\ creds' = creds /\ ctype' = ctype /\ N' = N
  BY <1>1, PlanStands DEF Fixed
<1> QED
  BY <1>2, Counts DEF Known

LEMMA AcceptStep == ASSUME IInv, Accept PROVE IInv'
<1>1. PICK f \in Fds : Srv!New(s, f)
  BY DEF Accept
<1>2. /\ link = "up" /\ link' = "accepted" /\ UNCHANGED clientVars
      /\ UNCHANGED <<held, c2s, s2c, bytes>>
  BY DEF Accept
<1>3. pc[s] = "none" /\ pc'[s] = "new" /\ Shape'
  BY <1>1, OpeningIs DEF IInv
<1>4. Session'
  BY <1>2, <1>3 DEF Session
<1>5. ~Over /\ ~Over' /\ OnTrack /\ Taken' = Taken /\ Told' = Told
  BY <1>2, <1>3 DEF Over, OnTrack, Refusing, Taken, Told
<1> QED
  BY <1>2, <1>3, <1>4, <1>5, ServerQuiet

\* set_auth, run, and the end of the object.
LEMMA OpeningStep ==
    ASSUME IInv, UNCHANGED <<clientVars, netVars>>,
           Srv!SetAuth(s) \/ Srv!Run(s) \/ Srv!Destruct(s)
    PROVE  IInv'
<1>1. UNCHANGED clientVars /\ UNCHANGED <<held, c2s, s2c, bytes>> /\ link' = link
  BY DEF netVars
<1>2. Shape'
  BY OpeningIs DEF IInv
<1>3. \/ pc[s] = "new" /\ pc'[s] \in {"new", "readMethod"}
      \/ pc[s] \in {"new", "fini"} /\ pc'[s] = "none"
  BY OpeningIs DEF IInv
<1>4. pc[s] # "none" => link = "accepted"
  BY DEF IInv, Session
<1>5. Session'
  BY <1>1, <1>3, <1>4 DEF Session
<1>6. OnTrack' => OnTrack /\ Taken' = Taken
  BY <1>1, <1>3, <1>4 DEF OnTrack, Over, Refusing, Taken
<1>7. (Over => Over') /\ (~Over' => Told' = Told)
  BY <1>1, <1>3, <1>4 DEF Over, Told
<1> QED
  BY <1>1, <1>2, <1>3, <1>5, <1>6, <1>7, ServerQuiet

\* From the resolver's answer to the end of the command.
LEMMA CommandStep ==
    ASSUME IInv, UNCHANGED <<clientVars, netVars>>,
           \/ \E answer \in Families \cup {"none"} : Srv!Resolve(s, answer)
           \/ Srv!Dispatch(s)
           \/ Srv!Connected(s)
           \/ \E o \in Outcomes : Srv!ConnectFails(s, o)
    PROVE  IInv'
<1>1. UNCHANGED clientVars /\ UNCHANGED <<held, c2s, s2c, bytes>> /\ link' = link
  BY DEF netVars
<1> DEFINE Before == {"resolve", "dispatch", "connecting"}
<1> DEFINE Goes ==
      /\ pc[s] \in Before /\ obj' = obj /\ cmd' = cmd /\ Shape'
      /\ \/ pc[s] = "resolve" /\ pc'[s] = "dispatch" /\ reply' = reply
         \/ pc'[s] = "writeResponse" /\ reply'[s] \in Reps \ {0}
         \/ /\ pc[s] = "dispatch" /\ pc'[s] = "connecting" /\ cmd[s] = CmdConnect
            /\ reply' = reply
         \/ /\ pc[s] = "dispatch" /\ pc'[s] = "writeResponse" /\ reply' = reply
            /\ cmd[s] = CmdUdpAsc /\ type'[s] = "UDP_IN_UDP"
         \/ /\ pc[s] = "dispatch" /\ pc'[s] = "writeResponse" /\ reply' = reply
            /\ cmd[s] = CmdFwdUdp /\ type'[s] = "UDP_IN_TCP"
         \/ /\ pc[s] = "connecting" /\ pc'[s] = "writeResponse" /\ reply' = reply
            /\ type'[s] = "TCP"
<1>2. Goes
  <2>1. ASSUME NEW answer, Srv!Resolve(s, answer) PROVE Goes
    BY <2>1, ResolveIs DEF IInv
  <2>2. CASE Srv!Dispatch(s)
    BY <2>2, DispatchIs DEF IInv
  <2>3. CASE Srv!Connected(s)
    BY <2>3, ConnectIs DEF IInv
  <2>4. ASSUME NEW o, Srv!ConnectFails(s, o) PROVE Goes
    BY <2>4, ConnectIs DEF IInv
  <2> QED
    BY <2>1, <2>2, <2>3, <2>4
<1>3. /\ reply[s] = RepSucc /\ cmd[s] = Cli!RequestCmd /\ Known
      /\ (pc[s] = "connecting" => ctype = "TCP") /\ link = "accepted"
  BY <1>2 DEF IInv, Session
<1>4. /\ cmd[s] = CmdConnect => ctype = "TCP"
      /\ cmd[s] = CmdUdpAsc => ctype = "UDP_IN_UDP"
      /\ cmd[s] = CmdFwdUdp => ctype = "UDP_IN_TCP"
  BY <1>3 DEF IInv, Client, Cli!RequestCmd, CmdConnect, CmdUdpAsc, CmdFwdUdp, Cli!CmdConnect,
     Cli!CmdUdpAsc, Cli!CmdFwdUdp
<1>5. Known' /\ (Cli!RequestCmd)' = Cli!RequestCmd /\ ctype' = ctype /\ N' = N
  BY <1>1, <1>2, <1>3, KnownStays
<1>6. Session'
  BY <1>1, <1>2, <1>3, <1>4, <1>5 DEF Session, Reps, RepSucc
<1>7. OnTrack /\ Taken = N /\ Taken' = N /\ Told = N - 1 /\ Told' = N - 1 /\ ~Over /\ ~Over'
  BY <1>2, <1>5 DEF OnTrack, Over, Refusing, Taken, Told
<1> QED
  BY <1>1, <1>2, <1>5, <1>6, <1>7, ServerQuiet

\* A session that served its peer ends.
LEMMA ServiceStep ==
    ASSUME IInv, UNCHANGED <<clientVars, netVars>>, Srv!Service(s) \/ Srv!SpliceEnds(s)
    PROVE  IInv'
<1>1. /\ UNCHANGED clientVars /\ UNCHANGED <<held, c2s, s2c, bytes>> /\ link' = link
      /\ bytes' = bytes
  BY DEF netVars
<1>2. /\ pc[s] \in {"service", "splice"} /\ pc'[s] \in {"splice", "fini"} /\ Shape'
      /\ UNCHANGED <<obj, type>>
  BY ClosingIs DEF IInv, Keeps
<1>3. Known /\ type[s] = ctype /\ link = "accepted"
  BY <1>2 DEF IInv, Session
<1>4. Known' /\ ctype' = ctype /\ N' = N
  BY <1>1, <1>2, <1>3, KnownStays
<1>5. Session'
  BY <1>1, <1>2, <1>3, <1>4 DEF Session
<1>6. OnTrack /\ Taken = N /\ Told = N /\ ~Over
  BY <1>2 DEF OnTrack, Over, Refusing, Taken, Told
<1>7. OnTrack' => Taken' = Taken
  BY <1>1, <1>2, <1>3, <1>4, <1>6 DEF OnTrack, Over, Taken
<1>8. ~Over' => Told' = Told
  BY <1>1, <1>2, <1>3, <1>4, <1>6 DEF Over, Told
<1>9. UpTo' = UpTo
  BY <1>1, ClientStays, PlanStands DEF Fixed
<1>10. Served'
  <2>1. bytes["upRead"] = UpTo[N]
    BY <1>6 DEF IInv, Upstream
  <2> QED
    BY <1>1, <1>2, <1>3, <1>4, <1>9, <2>1 DEF Served
<1> QED
  BY <1>1, <1>2, <1>5, <1>6, <1>7, <1>8, <1>10, ServerQuiet

\* Nothing comes, or nothing goes out: the session is on its way to its end.
LEMMA GivesUpStep ==
    ASSUME IInv, TakeNothing \/ AnswerFails
    PROVE  IInv'
<1>1. UNCHANGED clientVars /\ UNCHANGED <<held, c2s, s2c, bytes>> /\ link' = link
  BY DEF TakeNothing, AnswerFails, netVars
<1> DEFINE Goes ==
      /\ Shape' /\ UNCHANGED <<obj, type, cmd>>
      /\ \/ pc[s] = "readMethod" /\ pc'[s] = "writeMethod" /\ reply'[s] = -1
         \/ pc[s] = "readUser" /\ pc'[s] = "writeUser" /\ reply'[s] = -1
         \/ /\ pc[s] \in {"readRequest", "writeMethod", "writeUser", "writeResponse"}
            /\ pc'[s] = "fini"
<1>2. Goes
  <2>1. CASE TakeNothing
    <3>1. PICK o \in {"closed", "timer"} :
            \/ \E in \in Srv!Hellos : in.got = o /\ Srv!ReadAuthMethod(s, in)
            \/ \E in \in Srv!Creds : in.got = o /\ Srv!ReadAuthUser(s, in)
            \/ \E in \in Srv!Requests : in.got = o /\ Srv!ReadRequest(s, in)
      BY <2>1 DEF TakeNothing
    <3>2. ASSUME NEW in, in.got = o, Srv!ReadAuthMethod(s, in) PROVE Goes
      BY <3>2, ReadAuthMethodIs DEF IInv
    <3>3. ASSUME NEW in, in.got = o, Srv!ReadAuthUser(s, in) PROVE Goes
      <4>1. \/ in.got = "done" /\ reply'[s] = 0 /\ obj'[s] = in.name /\ PassOf[in.name] = in.pass
            \/ reply'[s] = -1 /\ obj' = obj
        BY <3>3, ReadAuthUserIs DEF IInv
      <4> QED
        BY <3>3, <4>1, ReadAuthUserIs DEF IInv
    <3>4. ASSUME NEW in, in.got = o, Srv!ReadRequest(s, in) PROVE Goes
      <4>1. /\ pc[s] = "readRequest" /\ pc'[s] = "fini"
            /\ UNCHANGED <<type, obj, reply, cmd>>
        BY <3>4 DEF Srv!ReadRequest, Srv!LoseRequest, Srv!RefuseRequest, Srv!AcceptRequest,
           Srv!Goto, IInv, Shape
      <4>2. Shape'
        BY <3>4, <4>1 DEF Srv!ReadRequest, Srv!LoseRequest, Srv!RefuseRequest,
           Srv!AcceptRequest, Srv!Goto, IInv, Shape, Srv!Pcs
      <4> QED
        BY <4>1, <4>2
    <3> QED
      BY <3>1, <3>2, <3>3, <3>4
  <2>2. CASE AnswerFails
    <3>1. PICK o \in {"closed", "timer"} :
            \/ Srv!WriteAuthMethod(s, o) \/ Srv!WriteAuthUser(s, o) \/ Srv!WriteResponse(s, o)
      BY <2>2 DEF AnswerFails
    <3> QED
      BY <3>1, WriteAuthMethodIs, WriteAuthUserIs, ClosingIs DEF IInv, Keeps
  <2> QED
    BY <2>1, <2>2
<1>3. link = "accepted" /\ ~Over
  BY <1>2 DEF IInv, Session, Over
<1>4. Session'
  BY <1>1, <1>2, <1>3, KnownStays DEF IInv, Session
<1>5. ~OnTrack'
  BY <1>1, <1>2, <1>3 DEF OnTrack, Over, Refusing
<1>6. ~Over' => Told' = Told
  BY <1>1, <1>2, <1>3 DEF Over, Told
<1>7. ret # "failed" => ~Succeeded
  BY <1>2, <1>3, NotServedYet
<1> QED
  BY <1>1, <1>2, <1>3, <1>4, <1>5, <1>6, <1>7, ServerQuiet

\* The session takes the message it expects.
LEMMA Expects ==
    ASSUME IInv, c2s # <<>>, pc[s] \in {"readMethod", "readUser", "readRequest"}
    PROVE  /\ OnTrack /\ link = "accepted" /\ ~Over
           /\ Head(c2s) = Plan[Taken + 1] /\ Head(c2s) \in UpMsgs
           /\ pc[s] = "readMethod" => Taken = 0 /\ Head(c2s) = HelloMsg
           /\ pc[s] = "readUser" => Taken = 1 /\ Head(c2s) = CredsMsg /\ creds # NoLogin
           /\ pc[s] = "readRequest" => Taken = N - 1 /\ Head(c2s) = RequestMsg
<1>1. OnTrack /\ link = "accepted" /\ ~Over
  BY DEF IInv, Session, OnTrack, Over, Refusing
<1>2. c2s \in Seq(UpMsgs) /\ Taken \in Nat
  BY Counts DEF IInv, Network
<1>3. Head(c2s) = Plan[Taken + 1]
  BY <1>1, <1>2, StandsTail DEF IInv, Upstream
<1>4. Head(c2s) \in UpMsgs
  BY <1>2, Shift
<1>5. pc[s] = "readMethod" => Taken = 0 /\ Head(c2s) = HelloMsg
  BY <1>3, PlanIs DEF Taken, IInv
<1>6. pc[s] = "readUser" => Taken = 1 /\ Head(c2s) = CredsMsg /\ creds # NoLogin
  BY <1>3, PlanIs DEF Taken, IInv, Session
<1>7. pc[s] = "readRequest" => Taken = N - 1 /\ Head(c2s) = RequestMsg
  <2>1. pc[s] = "readRequest" => Taken = N - 1
    BY DEF Taken
  <2>2. N \in {2, 3}
    BY Counts
  <2>3. pc[s] = "readRequest" => Taken + 1 = N
    BY <2>1, <2>2
  <2> QED
    BY <1>3, <2>1, <2>3, PlanIs DEF IInv
<1> QED
  BY <1>1, <1>3, <1>4, <1>5, <1>6, <1>7

LEMMA ServerTakeStep ==
    ASSUME IInv, UNCHANGED clientVars, c2s # <<>>, c2s' = Tail(c2s), NEW n \in Nat,
           bytes' = [bytes EXCEPT !["upRead"] = @ + n],
           UNCHANGED <<link, held, s2c>>, Shape', Session',
           OnTrack, ~Over, ~Over', pc'[s] # "fini", Told' = Told,
           OnTrack' => Taken' = Taken + 1 /\ n = WriteLen(Plan[Taken + 1])
    PROVE  IInv'
<1>1. /\ Fixed /\ Sent' = Sent /\ Got' = Got /\ ret' = ret
      /\ N' = N /\ Plan' = Plan /\ UpTo' = UpTo /\ Due' = Due
  BY ClientStays, PlanStands DEF Fixed
<1>2. /\ c2s \in Seq(UpMsgs) /\ Tail(c2s) \in Seq(UpMsgs) /\ Len(c2s) \in Nat /\ Len(c2s) >= 1
      /\ Len(Tail(c2s)) = Len(c2s) - 1 /\ Taken \in 0 .. 3 /\ N \in {2, 3} /\ Len(held) \in Nat
  BY Shift, Counts, Lens DEF IInv, Network
<1>3. /\ bytes'["up"] = bytes["up"] /\ bytes'["upRead"] = bytes["upRead"] + n
      /\ bytes'["down"] = bytes["down"] /\ bytes'["downRead"] = bytes["downRead"]
      /\ bytes' \in [{"up", "upRead", "down", "downRead"} -> Nat]
  BY DEF IInv, Network
<1>4. Network'
  BY <1>2, <1>3 DEF IInv, Network
<1>5. Client'
  BY ClientKept DEF IInv
<1>6. /\ Taken + Len(c2s) + Len(held) <= N
      /\ Stands(c2s, Taken) /\ Stands(held, Taken + Len(c2s))
      /\ ret # "failed" => Taken + Len(c2s) + Len(held) = Sent
      /\ bytes["upRead"] = UpTo[Taken]
  BY DEF IInv, Upstream
<1>7. Upstream'
  <2>1. bytes'["up"] = bytes["up"]
    BY <1>3
  <2>2. ASSUME OnTrack'
        PROVE  /\ Taken' + Len(c2s') + Len(held') = Taken + Len(c2s) + Len(held)
               /\ Taken' + Len(c2s') = Taken + Len(c2s)
    BY <2>2, <1>2
  <2>3. ASSUME OnTrack' PROVE bytes'["upRead"] = UpTo'[Taken']
    <3>1. Taken \in 0 .. 2
      BY <1>2, <1>6
    <3>2. UpTo[Taken + 1] = UpTo[Taken] + WriteLen(Plan[Taken + 1])
      BY <3>1, Totals DEF IInv
    <3> QED
      BY <1>1, <1>3, <1>6, <2>3, <3>2
  <2>4. ASSUME OnTrack' PROVE Stands(c2s, Taken)' /\ Stands(held, Taken + Len(c2s))'
    <3>1. Stands(Tail(c2s), Taken + 1)
      BY <1>2, <1>6, StandsTail
    <3>2. Stands(Tail(c2s), Taken') /\ Stands(held, Taken' + Len(c2s'))
      BY <3>1, <2>2, <2>4, <1>6
    <3> QED
      BY <1>1, <3>2 DEF Stands
  <2>5. ret' # "failed" => bytes'["up"] = UpTo'[Sent']
    BY <1>1, <2>1 DEF IInv, Upstream
  <2> QED
    BY <1>1, <1>6, <2>2, <2>3, <2>4, <2>5 DEF Upstream
<1>8. Downstream'
  <2>1. Pending' = Pending
    BY DEF Pending
  <2>2. ret # "failed" => /\ Got + Len(s2c) <= N /\ Got + Len(s2c) = Told
                          /\ \A i \in 1 .. Len(s2c) : Right(s2c[i], Got + i)
                          /\ bytes["down"] = bytes["downRead"] + Pending
    BY DEF IInv, Downstream
  <2>3. ret # "failed" => (\A i \in 1 .. Len(s2c) : Right(s2c[i], Got + i))'
    BY <1>1, <2>2 DEF Right
  <2> QED
    BY <1>1, <1>3, <2>1, <2>2, <2>3 DEF Downstream
<1> QED
  BY <1>4, <1>5, <1>7, <1>8 DEF IInv

LEMMA TakeHelloStep == ASSUME IInv, TakeHello PROVE IInv'
<1>1. /\ c2s # <<>> /\ c2s' = Tail(c2s) /\ UNCHANGED clientVars
      /\ bytes' = [bytes EXCEPT !["upRead"] = @ + ReadLen(Head(c2s))]
      /\ UNCHANGED <<link, held, s2c>>
  BY DEF TakeHello, ServerTakes, Count
<1>2. /\ pc[s] = "readMethod" /\ pc'[s] = "writeMethod"
      /\ UNCHANGED <<obj, type, cmd>> /\ Shape'
      /\ reply'[s] = -1 \/ (reply'[s] = Srv!Wanted(s) /\ Srv!Wanted(s) \in Head(c2s).methods)
  <2> DEFINE in == [got |-> "done", ver |-> Ver5, methods |-> Head(c2s).methods]
  <2>1. Srv!ReadAuthMethod(s, in) /\ in.methods = Head(c2s).methods
    BY DEF TakeHello
  <2> HIDE DEF in
  <2> QED
    BY <2>1, ReadAuthMethodIs DEF IInv
<1>3. /\ OnTrack /\ link = "accepted" /\ ~Over /\ Taken = 0 /\ Head(c2s) = HelloMsg
      /\ Head(c2s) = Plan[Taken + 1] /\ Head(c2s) \in UpMsgs
  BY <1>1, <1>2, Expects
<1>4. HelloMsg.methods = {Cli!Offer}
  BY DEF HelloMsg
<1>5. \/ reply'[s] = -1
      \/ reply'[s] = Cli!Offer /\ (creds = NoLogin => obj[s] = NoObj)
  <2>1. CASE reply'[s] = -1
    BY <2>1
  <2>2. CASE reply'[s] = Srv!Wanted(s) /\ Srv!Wanted(s) \in Head(c2s).methods
    <3>1. Srv!Wanted(s) = Cli!Offer
      BY <1>3, <1>4, <2>2
    <3>2. Cli!Offer = 0 => obj[s] = NoObj
      BY <3>1 DEF Srv!Wanted, Srv!MethodNone, Srv!MethodUser
    <3> QED
      BY <2>2, <3>1, <3>2, DueIs
  <2> QED
    BY <1>2, <2>1, <2>2
<1>6. (Cli!Offer)' = Cli!Offer /\ creds' = creds /\ ctype' = ctype /\ N' = N
  BY <1>1, KnownStays
<1>7. Session'
  BY <1>1, <1>2, <1>3, <1>5, <1>6 DEF Session
<1>8. ~Over' /\ Told' = Told /\ Taken' = Taken + 1
  BY <1>2, <1>3, <1>6 DEF Over, Told, Taken
<1>9. ReadLen(Head(c2s)) \in Nat /\ ReadLen(Head(c2s)) = WriteLen(Plan[Taken + 1])
  BY <1>3, Lengths
<1>10. pc'[s] # "fini"
  BY <1>2
<1> DEFINE n == ReadLen(Head(c2s))
<1>11. n \in Nat /\ n = WriteLen(Plan[Taken + 1]) /\ bytes' = [bytes EXCEPT !["upRead"] = @ + n]
  BY <1>1, <1>9
<1> HIDE DEF n
<1> QED
  BY <1>1, <1>2, <1>3, <1>7, <1>8, <1>10, <1>11, ServerTakeStep

LEMMA TakeCredsStep == ASSUME IInv, TakeCreds PROVE IInv'
<1>1. /\ c2s # <<>> /\ c2s' = Tail(c2s) /\ UNCHANGED clientVars
      /\ bytes' = [bytes EXCEPT !["upRead"] = @ + ReadLen(Head(c2s))]
      /\ UNCHANGED <<link, held, s2c>>
  BY DEF TakeCreds, ServerTakes, Count
<1>2. /\ pc[s] = "readUser" /\ pc'[s] = "writeUser"
      /\ UNCHANGED <<type, cmd>> /\ Shape'
      /\ \/ /\ reply'[s] = 0 /\ obj'[s] = Head(c2s).name
            /\ PassOf[Head(c2s).name] = Head(c2s).pass
         \/ reply'[s] = -1 /\ obj' = obj
  <2> DEFINE in == [got |-> "done", ver |-> AuthVer1,
                    name |-> Head(c2s).name, pass |-> Head(c2s).pass]
  <2>1. Srv!ReadAuthUser(s, in) /\ in.name = Head(c2s).name /\ in.pass = Head(c2s).pass
    BY DEF TakeCreds
  <2> HIDE DEF in
  <2> QED
    BY <2>1, ReadAuthUserIs DEF IInv
<1>3. /\ OnTrack /\ link = "accepted" /\ ~Over /\ Taken = 1 /\ Head(c2s) = CredsMsg
      /\ Head(c2s) = Plan[Taken + 1] /\ Head(c2s) \in UpMsgs /\ creds # NoLogin
  BY <1>1, <1>2, Expects
<1>4. CredsMsg.name = creds.name /\ CredsMsg.pass = creds.pass
  BY DEF CredsMsg
<1>5. creds' = creds /\ ctype' = ctype /\ N' = N
  BY <1>1, KnownStays
<1>6. reply'[s] = -1 \/ (reply'[s] = 0 /\ Known')
  <2>1. CASE /\ reply'[s] = 0 /\ obj'[s] = Head(c2s).name
             /\ PassOf[Head(c2s).name] = Head(c2s).pass
    <3>1. obj'[s] = creds.name /\ PassOf[creds.name] = creds.pass
      BY <1>3, <1>4, <2>1
    <3> QED
      BY <1>3, <1>5, <2>1, <3>1 DEF Known
  <2> QED
    BY <1>2, <2>1
<1>7. Session'
  BY <1>1, <1>2, <1>3, <1>5, <1>6 DEF Session
<1>8. ~Over' /\ Told' = Told /\ Taken' = Taken + 1
  BY <1>2, <1>3, <1>5 DEF Over, Told, Taken
<1>10. pc'[s] # "fini"
  BY <1>2
<1> DEFINE n == ReadLen(Head(c2s))
<1>11. n \in Nat /\ n = WriteLen(Plan[Taken + 1]) /\ bytes' = [bytes EXCEPT !["upRead"] = @ + n]
  BY <1>1, <1>3, Lengths
<1> HIDE DEF n
<1> QED
  BY <1>1, <1>2, <1>3, <1>7, <1>8, <1>10, <1>11, ServerTakeStep

LEMMA TakeRequestStep == ASSUME IInv, TakeRequest PROVE IInv'
<1>1. PICK rest \in {"done", "timer"} :
        /\ ServerTakes("request", IF rest = "done" THEN ReadLen(Head(c2s)) ELSE 5)
        /\ Srv!ReadRequest(s, [got |-> "done", rest |-> rest, ver |-> Ver5,
                               cmd |-> Head(c2s).cmd, atype |-> Head(c2s).atype])
  BY DEF TakeRequest
<1> DEFINE n == IF rest = "done" THEN ReadLen(Head(c2s)) ELSE 5
<1>2. /\ c2s # <<>> /\ c2s' = Tail(c2s) /\ UNCHANGED clientVars
      /\ bytes' = [bytes EXCEPT !["upRead"] = @ + n]
      /\ UNCHANGED <<link, held, s2c>>
  BY <1>1 DEF ServerTakes, Count
<1> DEFINE in == [got |-> "done", rest |-> rest, ver |-> Ver5,
                  cmd |-> Head(c2s).cmd, atype |-> Head(c2s).atype]
<1>3. /\ Srv!ReadRequest(s, in) /\ in.got = "done" /\ in.rest = rest /\ in.cmd = Head(c2s).cmd
  BY <1>1
<1> HIDE DEF n, in
<1>4. pc[s] = "readRequest"
  BY <1>3 DEF Srv!ReadRequest, Srv!LoseRequest, Srv!RefuseRequest, Srv!AcceptRequest
<1>5. /\ OnTrack /\ link = "accepted" /\ ~Over /\ Taken = N - 1 /\ Head(c2s) = RequestMsg
      /\ Head(c2s) = Plan[Taken + 1] /\ Head(c2s) \in UpMsgs /\ Known
  BY <1>2, <1>4, Expects DEF IInv, Session
<1>6. Head(c2s).cmd = Cli!RequestCmd /\ Cli!RequestCmd \in Int
  <2>1. Cli!RequestCmd \in {CmdConnect, CmdUdpAsc, CmdFwdUdp}
    BY DEF Cli!RequestCmd, IInv, Client, CmdConnect, CmdUdpAsc, CmdFwdUdp, Cli!CmdConnect,
       Cli!CmdUdpAsc, Cli!CmdFwdUdp
  <2>2. Cli!RequestCmd \in Int
    BY <2>1 DEF CmdConnect, CmdUdpAsc, CmdFwdUdp
  <2>3. RequestMsg.cmd = Cli!RequestCmd
    BY DEF RequestMsg
  <2> QED
    BY <1>5, <2>2, <2>3
<1>7. /\ UNCHANGED <<obj, type>> /\ Shape'
      /\ \/ pc'[s] = "writeResponse" /\ reply'[s] \in Reps \ {0}
         \/ /\ pc'[s] \in {"resolve", "dispatch"}
            /\ rest = "done" /\ reply'[s] = 0 /\ cmd'[s] = Cli!RequestCmd
  BY <1>3, <1>6, ReadRequestIs DEF IInv
<1>8. (Cli!RequestCmd)' = Cli!RequestCmd /\ ctype' = ctype /\ N' = N /\ N \in {2, 3} /\ Known'
  BY <1>2, <1>5, <1>7, KnownStays
<1>9. Session'
  BY <1>2, <1>5, <1>7, <1>8 DEF Session, RepSucc
<1>10. /\ ~Over' /\ Told' = Told /\ pc'[s] # "fini"
       /\ OnTrack' => rest = "done"
  BY <1>4, <1>7, <1>8, <1>5 DEF Over, Told, OnTrack, Refusing, RepSucc
<1>11. Taken' = Taken + 1
  <2>1. Taken' = N
    BY <1>7, <1>8 DEF Taken
  <2> QED
    BY <1>5, <1>8, <2>1
<1>12. n \in Nat /\ (rest = "done" => n = WriteLen(Plan[Taken + 1]))
  BY <1>5, Lengths DEF n
<1> QED
  BY <1>2, <1>5, <1>7, <1>9, <1>10, <1>11, <1>12, ServerTakeStep

-----------------------------------------------------------------------------
(* The session answers.                                                     *)
LEMMA PendingAppend ==
    ASSUME NEW q \in Seq(DownMsgs), NEW m \in DownMsgs,
           q # <<>> => q[Len(q)].kind # "response"
    PROVE  PendingIn(Append(q, m)) = PendingIn(q) + WriteLen(m)
<1> DEFINE r == Append(q, m)
<1>1. /\ r # <<>> /\ Len(q) \in Nat /\ Len(r) = Len(q) + 1 /\ r[Len(r)] = m
  BY Add
<1>2. WriteLen(m) \in Nat /\ (m.kind # "response" => WriteLen(m) = 2)
  BY Lengths
<1>3. PendingIn(q) = 2 * Len(q)
  BY EmptySeq DEF PendingIn
<1>4. PendingIn(r) = IF m.kind = "response" THEN 2 * (Len(r) - 1) + WriteLen(m) ELSE 2 * Len(r)
  BY <1>1 DEF PendingIn
<1> HIDE DEF r
<1>5. PendingIn(r) = PendingIn(q) + WriteLen(m)
  BY <1>1, <1>2, <1>3, <1>4
<1> QED
  BY <1>5 DEF r

LEMMA SayStep ==
    ASSUME IInv, NEW m \in DownMsgs, s2c' = Append(s2c, m),
           bytes' = [bytes EXCEPT !["down"] = @ + WriteLen(m)],
           UNCHANGED clientVars, UNCHANGED <<link, held, c2s>>, Shape', Session',
           ~Over, Told < N, m.kind = Due[Told + 1].kind,
           OnTrack' => OnTrack /\ Taken' = Taken,
           \/ m.code = Due[Told + 1].code /\ Told' = Told + 1 /\ pc'[s] # "fini"
           \/ /\ m.code # Due[Told + 1].code /\ Over'
              /\ m.code = 255 \/ m.kind = "response"
    PROVE  IInv'
<1>1. /\ Fixed /\ Sent' = Sent /\ Got' = Got /\ ret' = ret
      /\ N' = N /\ Plan' = Plan /\ UpTo' = UpTo /\ Due' = Due
  BY ClientStays, PlanStands DEF Fixed
<1>2. /\ s2c' \in Seq(DownMsgs) /\ Len(s2c) \in Nat /\ Len(s2c') = Len(s2c) + 1
      /\ s2c' # <<>> /\ s2c'[Len(s2c) + 1] = m
      /\ \A i \in 1 .. Len(s2c) : s2c'[i] = s2c[i]
  BY Add DEF IInv, Network
<1>3. WriteLen(m) \in Nat
  BY Lengths
<1>4. /\ bytes'["up"] = bytes["up"] /\ bytes'["upRead"] = bytes["upRead"]
      /\ bytes'["down"] = bytes["down"] + WriteLen(m)
      /\ bytes'["downRead"] = bytes["downRead"]
      /\ bytes["down"] \in Nat /\ bytes["downRead"] \in Nat
      /\ bytes' \in [{"up", "upRead", "down", "downRead"} -> Nat]
  BY <1>3 DEF IInv, Network
<1>5. Network'
  BY <1>2, <1>4 DEF IInv, Network
<1>6. Client'
  BY ClientKept DEF IInv
<1>7. Upstream'
  BY <1>1, <1>4, UpKept DEF IInv
<1>8. Downstream'
  <2> SUFFICES ASSUME ret # "failed" PROVE Downstream'
    BY <1>1 DEF Downstream
  <2>1. /\ Got + Len(s2c) = Told
        /\ \A i \in 1 .. Len(s2c) : Right(s2c[i], Got + i)
        /\ bytes["down"] = bytes["downRead"] + Pending
    BY DEF IInv, Downstream
  <2>2. N \in {2, 3} /\ Got \in Nat /\ Told \in Nat
    BY Counts
  <2>3. Got' + Len(s2c') = Told + 1 /\ Told + 1 <= N
    BY <1>1, <1>2, <2>1, <2>2
  <2>4. ~Over' => Got' + Len(s2c') = Told'
    BY <2>3
  <2>5. Got + Len(s2c') = Told + 1
    BY <1>1, <2>3
  <2>6. \A i \in 1 .. Len(s2c') :
           \/ Right(s2c'[i], Got + i)
           \/ i = Len(s2c') /\ Over' /\ Wrong(s2c'[i], Got + i)
    <3> TAKE i \in 1 .. Len(s2c')
    <3>1. CASE i = Len(s2c')
      <4>1. s2c'[i] = m /\ Got + i = Told + 1
        BY <1>2, <2>5, <3>1
      <4> QED
        BY <3>1, <4>1 DEF Right, Wrong
    <3>2. CASE i # Len(s2c')
      <4>1. i \in 1 .. Len(s2c)
        BY <1>2, <3>2
      <4> QED
        BY <1>2, <2>1, <4>1
    <3> QED
      BY <3>1, <3>2
  <2>7. (\A i \in 1 .. Len(s2c) :
           \/ Right(s2c[i], Got + i)
           \/ i = Len(s2c) /\ Over /\ Wrong(s2c[i], Got + i))'
    BY <1>1, <2>6 DEF Right, Wrong
  <2>8. pc'[s] = "fini" => ~Succeeded'
    <3>1. Succeeded' => Told + 1 = N /\ m.code = 0
      BY <1>1, <1>2, <2>3 DEF Succeeded, RepSucc
    <3> QED
      BY <3>1, DueIs
  <2>9. Pending' = Pending + WriteLen(m) /\ Pending \in Nat
    <3>1. s2c # <<>> => s2c[Len(s2c)].kind # "response"
      <4> SUFFICES ASSUME s2c # <<>> PROVE s2c[Len(s2c)].kind # "response"
        OBVIOUS
      <4>1. Len(s2c) # 0
        BY EmptySeq DEF IInv, Network
      <4>2. Len(s2c) \in 1 .. Len(s2c) /\ Got + Len(s2c) = Told /\ Told \in 1 .. 3
        BY <1>2, <2>1, <2>2, <4>1
      <4>3. s2c[Len(s2c)].kind = Due[Told].kind
        BY <2>1, <4>2 DEF Right
      <4> QED
        BY <4>2, <4>3, DueIs
    <3>2. PendingIn(s2c) = 2 * Len(s2c)
      BY <3>1, <1>2, EmptySeq DEF PendingIn
    <3> QED
      BY <1>2, <3>1, <3>2, PendingAppend DEF Pending, IInv, Network
  <2>10. bytes'["down"] = bytes'["downRead"] + Pending'
    BY <1>3, <1>4, <2>1, <2>9
  <2> QED
    BY <1>1, <2>3, <2>4, <2>7, <2>8, <2>10 DEF Downstream
<1> QED
  BY <1>5, <1>6, <1>7, <1>8 DEF IInv

LEMMA Modulo == \A q \in Int : (256 * q + 255) % 256 = 255
  OBVIOUS

\* The codes on the wire.
LEMMA Codes ==
    /\ Srv!MethodReply(-1) = [kind |-> "method", code |-> 255]
    /\ \A n \in {0, 2} : Srv!MethodReply(n) = [kind |-> "method", code |-> n]
    /\ Srv!AuthReply(-1) = [kind |-> "auth", code |-> 255]
    /\ Srv!AuthReply(0) = [kind |-> "auth", code |-> 0]
    /\ \A r \in Reps : ToByte(r) = r /\ r \in Int
<1>1. (256 * (-1) + 255) % 256 = 255
  <2>1. -1 \in Int
    OBVIOUS
  <2> QED
    BY <2>1, Modulo
<1>2. -1 = 256 * (-1) + 255
  OBVIOUS
<1>3. Srv!ToByte(-1) = 255
  BY <1>1, <1>2, Zenon DEF Srv!ToByte
<1>4. ASSUME NEW n \in 0 .. 255 PROVE Srv!ToByte(n) = n /\ ToByte(n) = n
  BY DEF Srv!ToByte, ToByte
<1>5. Srv!MethodReply(-1) = [kind |-> "method", code |-> 255]
  BY <1>3, Zenon DEF Srv!MethodReply
<1>6. Srv!AuthReply(-1) = [kind |-> "auth", code |-> 255]
  BY <1>3, Zenon DEF Srv!AuthReply
<1>7. \A n \in {0, 2} : Srv!MethodReply(n) = [kind |-> "method", code |-> n]
  BY <1>4 DEF Srv!MethodReply
<1>8. Srv!AuthReply(0) = [kind |-> "auth", code |-> 0]
  BY <1>4 DEF Srv!AuthReply
<1>9. \A r \in Reps : ToByte(r) = r /\ r \in Int
  BY <1>4 DEF Reps, RepSucc, RepFail, RepHost, RepImpl, RepAddr
<1> QED
  BY <1>5, <1>6, <1>7, <1>8, <1>9

LEMMA AnswerMethodStep ==
    ASSUME IInv, Srv!WriteAuthMethod(s, "done"), ServerSends(Srv!MethodReply(reply[s]))
    PROVE  IInv'
<1> DEFINE m == Srv!MethodReply(reply[s])
<1>1. /\ s2c' = Append(s2c, m) /\ bytes' = [bytes EXCEPT !["down"] = @ + WriteLen(m)]
      /\ UNCHANGED clientVars /\ UNCHANGED <<link, held, c2s>>
  BY DEF ServerSends, Count
<1>2. /\ pc[s] = "writeMethod" /\ Keeps /\ Shape'
      /\ pc'[s] = IF reply[s] = 0 THEN "readRequest"
                  ELSE IF reply[s] = 2 THEN "readUser" ELSE "fini"
  BY WriteAuthMethodIs DEF IInv
<1>3. /\ link = "accepted"
      /\ \/ reply[s] = -1
         \/ reply[s] = Cli!Offer /\ (creds = NoLogin => obj[s] = NoObj)
  BY <1>2 DEF IInv, Session
<1>4. creds' = creds /\ N' = N /\ N \in {2, 3} /\ (Known' = Known) /\ reply' = reply /\ obj' = obj
  BY <1>1, <1>2, KnownStays DEF Keeps
<1>5. ~Over /\ Told = 0 /\ Taken = 1
  BY <1>2 DEF Over, Told, Taken
<1>6. Told + 1 = 1 /\ Told < N
  BY <1>4, <1>5
<1>7. CASE reply[s] = -1
  <2>1. m.kind = "method" /\ m.code = 255 /\ m \in DownMsgs
    BY <1>7, Codes DEF DownMsgs
  <2>2. pc'[s] = "fini"
    BY <1>2, <1>7
  <2>3. Session'
    BY <1>1, <1>3, <2>2 DEF Session
  <2>4. Over' /\ ~OnTrack'
    BY <1>1, <1>3, <2>2 DEF Over, OnTrack
  <2>5. m.kind = Due[Told + 1].kind /\ m.code # Due[Told + 1].code
    BY <1>6, <2>1, DueIs
  <2> HIDE DEF m
  <2> QED
    BY <1>1, <1>2, <1>5, <1>6, <2>1, <2>3, <2>4, <2>5, SayStep
<1>8. CASE reply[s] = Cli!Offer
  <2>1. m.kind = "method" /\ m.code = Cli!Offer /\ m \in DownMsgs
    BY <1>8, DueIs, Codes DEF DownMsgs
  <2>2. \/ creds = NoLogin /\ pc'[s] = "readRequest"
        \/ creds # NoLogin /\ pc'[s] = "readUser"
    BY <1>2, <1>8, DueIs
  <2>3. creds = NoLogin => Known /\ N = 2
    BY <1>3, <1>8, DueIs DEF Known, N
  <2>4. Session'
    BY <1>1, <1>3, <1>4, <2>2, <2>3 DEF Session
  <2>5. Told' = Told + 1 /\ Taken' = Taken /\ pc'[s] # "fini" /\ ~Over'
    <3>1. Told' = 1 /\ Taken' = 1
      BY <1>4, <2>2, <2>3 DEF Told, Taken
    <3> QED
      BY <1>5, <3>1, <2>2 DEF Over
  <2>6. OnTrack
    BY <1>2, <1>5, <1>8, DueIs DEF OnTrack, Refusing
  <2>7. m.kind = Due[Told + 1].kind /\ m.code = Due[Told + 1].code
    BY <1>6, <2>1, DueIs
  <2> HIDE DEF m
  <2> QED
    BY <1>1, <1>2, <1>5, <1>6, <2>1, <2>4, <2>5, <2>6, <2>7, SayStep
<1> QED
  BY <1>3, <1>7, <1>8

LEMMA AnswerUserStep ==
    ASSUME IInv, Srv!WriteAuthUser(s, "done"), ServerSends(Srv!AuthReply(reply[s]))
    PROVE  IInv'
<1> DEFINE m == Srv!AuthReply(reply[s])
<1>1. /\ s2c' = Append(s2c, m) /\ bytes' = [bytes EXCEPT !["down"] = @ + WriteLen(m)]
      /\ UNCHANGED clientVars /\ UNCHANGED <<link, held, c2s>>
  BY DEF ServerSends, Count
<1>2. /\ pc[s] = "writeUser" /\ Keeps /\ Shape'
      /\ pc'[s] = IF reply[s] = 0 THEN "readRequest" ELSE "fini"
  BY WriteAuthUserIs DEF IInv
<1>3. /\ link = "accepted" /\ creds # NoLogin
      /\ reply[s] = -1 \/ (reply[s] = 0 /\ Known)
  BY <1>2 DEF IInv, Session
<1>4. creds' = creds /\ N' = N /\ N = 3 /\ (Known' = Known) /\ reply' = reply /\ obj' = obj
  BY <1>1, <1>2, <1>3, KnownStays, Counts DEF Keeps
<1>5. ~Over /\ Told = 1 /\ Taken = 2
  BY <1>2 DEF Over, Told, Taken
<1>6. Told + 1 = 2 /\ Told < N
  BY <1>4, <1>5
<1>7. CASE reply[s] = -1
  <2>1. m.kind = "auth" /\ m.code = 255 /\ m \in DownMsgs
    BY <1>7, Codes DEF DownMsgs
  <2>2. pc'[s] = "fini"
    BY <1>2, <1>7
  <2>3. Session'
    BY <1>1, <1>3, <2>2 DEF Session
  <2>4. Over' /\ ~OnTrack'
    BY <1>1, <1>3, <2>2 DEF Over, OnTrack
  <2>5. m.kind = Due[Told + 1].kind /\ m.code # Due[Told + 1].code
    BY <1>3, <1>6, <2>1, DueIs
  <2> HIDE DEF m
  <2> QED
    BY <1>1, <1>2, <1>5, <1>6, <2>1, <2>3, <2>4, <2>5, SayStep
<1>8. CASE reply[s] = 0 /\ Known
  <2>1. m.kind = "auth" /\ m.code = 0 /\ m \in DownMsgs
    BY <1>8, Codes DEF DownMsgs
  <2>2. pc'[s] = "readRequest"
    BY <1>2, <1>8
  <2>3. Session'
    BY <1>1, <1>3, <1>4, <1>8, <2>2 DEF Session
  <2>4. Told' = Told + 1 /\ Taken' = Taken /\ pc'[s] # "fini" /\ ~Over'
    <3>1. Told' = 2 /\ Taken' = 2
      BY <1>4, <2>2 DEF Told, Taken
    <3> QED
      BY <1>5, <3>1, <2>2 DEF Over
  <2>5. OnTrack
    BY <1>2, <1>5, <1>8 DEF OnTrack, Refusing
  <2>6. m.kind = Due[Told + 1].kind /\ m.code = Due[Told + 1].code
    BY <1>3, <1>6, <2>1, DueIs
  <2> HIDE DEF m
  <2> QED
    BY <1>1, <1>2, <1>5, <1>6, <2>1, <2>3, <2>4, <2>5, <2>6, SayStep
<1> QED
  BY <1>3, <1>7, <1>8

LEMMA AnswerRequestStep ==
    ASSUME IInv, Srv!WriteResponse(s, "done"), NEW a \in {"v4", "v6"},
           ServerSends([kind |-> "response", code |-> ToByte(reply[s]), atype |-> a])
    PROVE  IInv'
<1> DEFINE m == [kind |-> "response", code |-> ToByte(reply[s]), atype |-> a]
<1>1. /\ s2c' = Append(s2c, m) /\ bytes' = [bytes EXCEPT !["down"] = @ + WriteLen(m)]
      /\ UNCHANGED clientVars /\ UNCHANGED <<link, held, c2s>>
  BY DEF ServerSends, Count
<1>2. /\ pc[s] = "writeResponse" /\ Keeps /\ Shape'
      /\ pc'[s] = IF reply[s] = 0 THEN "service" ELSE "fini"
  BY ClosingIs DEF IInv
<1>3. /\ link = "accepted" /\ Known /\ reply[s] \in Reps /\ (reply[s] = 0 => type[s] = ctype)
  BY <1>2 DEF IInv, Session, RepSucc
<1>4. /\ creds' = creds /\ ctype' = ctype /\ N' = N /\ N \in {2, 3} /\ (Known' = Known)
      /\ type' = type
  BY <1>1, <1>2, KnownStays DEF Keeps
<1>5. ~Over /\ Told = N - 1 /\ Taken = N
  BY <1>2 DEF Over, Told, Taken
<1>6. Told + 1 = N /\ Told < N
  BY <1>4, <1>5
<1>7. m.kind = "response" /\ m.code = reply[s] /\ m \in DownMsgs
  BY <1>3, Codes DEF DownMsgs
<1>8. m.kind = Due[Told + 1].kind /\ Due[Told + 1].code = 0
  BY <1>6, <1>7, DueIs
<1> HIDE DEF m
<1>9. CASE reply[s] # 0
  <2>1. pc'[s] = "fini"
    BY <1>2, <1>9
  <2>2. Session'
    BY <1>1, <1>3, <2>1 DEF Session
  <2>3. Over' /\ ~OnTrack'
    BY <1>1, <1>3, <2>1 DEF Over, OnTrack
  <2> QED
    BY <1>1, <1>2, <1>5, <1>6, <1>7, <1>8, <1>9, <2>2, <2>3, SayStep
<1>10. CASE reply[s] = 0
  <2>1. pc'[s] = "service"
    BY <1>2, <1>10
  <2>2. Session'
    BY <1>1, <1>3, <1>4, <1>10, <2>1 DEF Session
  <2>3. Told' = Told + 1 /\ Taken' = Taken /\ ~Over'
    <3>1. Told' = N /\ Taken' = N
      BY <1>4, <2>1 DEF Told, Taken
    <3> QED
      BY <1>5, <1>6, <3>1, <2>1 DEF Over
  <2>4. OnTrack
    BY <1>2, <1>5, <1>10 DEF OnTrack, Refusing, RepSucc
  <2> QED
    BY <1>1, <1>2, <1>5, <1>6, <1>7, <1>8, <1>10, <2>1, <2>2, <2>3, <2>4, SayStep
<1> QED
  BY <1>9, <1>10

-----------------------------------------------------------------------------
(* The invariant holds at the start, every step keeps it, hence always.     *)
LEMMA InitHolds == Init => IInv
<1> SUFFICES ASSUME Init PROVE IInv
  OBVIOUS
<1>1. /\ pc[s] = "none" /\ obj[s] = NoObj /\ link = "down" /\ cpc = "new" /\ creds = NoLogin
      /\ ret = "none" /\ c2s = <<>> /\ held = <<>> /\ s2c = <<>>
      /\ bytes = [up |-> 0, upRead |-> 0, down |-> 0, downRead |-> 0]
  BY DEF Init, Srv!Init, Cli!Init
<1>2. Client
  BY DEF Init, Cli!Init, Client, Early, Cli!Pcs, Cli!Types, Types, Cli!AddrTypes, AddrTypes
<1>3. Shape
  BY DEF Init, Srv!Init, Shape, Srv!Pcs, Types
<1>4. bytes \in [{"up", "upRead", "down", "downRead"} -> Nat]
  BY <1>1
<1>5. Network
  BY <1>1, <1>4, Nothing DEF Network
<1>6. Session
  BY <1>1 DEF Session
<1>7. /\ N \in {2, 3} /\ UpTo[0] = 0 /\ Sent = 0 /\ Got = 0 /\ Taken = 0 /\ Told = 0 /\ ~Over
      /\ Len(c2s) = 0 /\ Len(held) = 0 /\ Len(s2c) = 0
  BY <1>1 DEF N, UpTo, Sent, Got, Taken, Told, Over
<1>8. Upstream
  BY <1>1, <1>7 DEF Upstream, Stands
<1>9. Downstream
  BY <1>1, <1>7 DEF Downstream, Pending, PendingIn
<1> QED
  BY <1>2, <1>3, <1>5, <1>6, <1>8, <1>9 DEF IInv

LEMMA StutterStep == ASSUME IInv, UNCHANGED vars PROVE IInv'
<1>1. UNCHANGED serverVars /\ UNCHANGED clientVars /\ UNCHANGED netVars
  BY DEF vars
<1>2. UNCHANGED <<serverVars, netVars>> /\ link' = link
  BY <1>1 DEF netVars
<1>3. Fixed /\ Sent' = Sent /\ Got' = Got /\ ret' = ret
  BY <1>1, ClientStays
<1> QED
  BY <1>1, <1>2, <1>3, QuietKept, NetworkKept, ShapeKept, ClientKept DEF IInv

LEMMA ServerAloneStep == ASSUME IInv, ServerAlone PROVE IInv'
<1>1. UNCHANGED <<clientVars, netVars>>
  BY DEF ServerAlone
<1>2. CASE Srv!SetAuth(s) \/ Srv!Run(s) \/ Srv!Destruct(s)
  BY <1>1, <1>2, OpeningStep
<1>3. CASE \/ \E answer \in Families \cup {"none"} : Srv!Resolve(s, answer)
           \/ Srv!Dispatch(s)
           \/ Srv!Connected(s)
           \/ \E o \in Outcomes : Srv!ConnectFails(s, o)
  BY <1>1, <1>3, CommandStep
<1>4. CASE Srv!Service(s) \/ Srv!SpliceEnds(s)
  BY <1>1, <1>4, ServiceStep
<1> QED
  BY <1>2, <1>3, <1>4 DEF ServerAlone

LEMMA ClientAloneStep == ASSUME IInv, ClientAlone PROVE IInv'
<1>1. UNCHANGED <<serverVars, netVars>>
  BY DEF ClientAlone
<1>2. CASE ClientPrelude
  BY <1>1, <1>2, PreludeStep
<1>3. CASE Cli!Destruct
  BY <1>1, <1>3, DestructStep
<1> QED
  BY <1>2, <1>3 DEF ClientAlone, ClientPrelude

LEMMA AnswerStep == ASSUME IInv, Answer PROVE IInv'
  BY AnswerMethodStep, AnswerUserStep, AnswerRequestStep DEF Answer

LEMMA Inductive == IInv /\ [Next]_vars => IInv'
<1> SUFFICES ASSUME IInv, [Next]_vars PROVE IInv'
  OBVIOUS
<1>1. CASE UNCHANGED vars
  BY <1>1, StutterStep
<1>2. CASE ClientAlone
  BY <1>2, ClientAloneStep
<1>3. CASE ClientSteps
  BY <1>3, ConnectedStep, ClientFailsStep, SendHelloStep, SendCredsStep, SendRequestStep,
     GetMethodStep, GetAuthReplyStep, GetResponseStep DEF ClientSteps
<1>4. CASE Flush
  BY <1>4, FlushStep
<1>5. CASE ServerAlone
  BY <1>5, ServerAloneStep
<1>6. CASE ServerSteps
  BY <1>6, AcceptStep, TakeHelloStep, TakeCredsStep, TakeRequestStep, GivesUpStep, AnswerStep
     DEF ServerSteps
<1> QED
  BY <1>1, <1>2, <1>3, <1>4, <1>5, <1>6 DEF Next

LEMMA Invariance == Spec => []IInv
  BY InitHolds, Inductive, PTL DEF Spec

-----------------------------------------------------------------------------
(* The queues hold the messages that belong in them: nothing but replies     *)
(* goes down, and a request is never among the messages that the kernel of   *)
(* the client holds back for others to follow.                              *)
THEOREM LinkTypes == Spec => []LinkTypeOK
<1>1. IInv => LinkTypeOK
  <2> SUFFICES ASSUME IInv PROVE LinkTypeOK
    OBVIOUS
  <2>1. ASSUME NEW m \in UpMsgs PROVE m.kind \in {"hello", "creds", "request"}
    BY DEF UpMsgs
  <2>2. ASSUME NEW m \in DownMsgs PROVE m.kind \in {"method", "auth", "response"}
    BY DEF DownMsgs
  <2>3. /\ \A i \in DOMAIN held : held[i] \in UpMsgs /\ held[i].kind # "request"
        /\ \A i \in DOMAIN c2s : c2s[i] \in UpMsgs
        /\ \A i \in DOMAIN s2c : s2c[i] \in DownMsgs
    BY DEF IInv, Network
  <2> QED
    BY <2>1, <2>2, <2>3 DEF IInv, Network, LinkTypeOK
<1> QED
  BY <1>1, Invariance, PTL

(* Whatever the form of the handshake and the credentials, neither end ever *)
(* reads a message of another kind than the one it waits for.               *)
THEOREM EachSpeaksInTurn == Spec => []SpeakInTurn
<1>1. IInv => SpeakInTurn
  <2> SUFFICES ASSUME IInv PROVE SpeakInTurn
    OBVIOUS
  <2>1. ASSUME c2s # <<>> PROVE Head(c2s).kind \in Expected(pc[s])
    <3>1. Head(c2s) \in UpMsgs
      BY <2>1, Shift DEF IInv, Network
    <3>2. Head(c2s).kind \in {"hello", "creds", "request"}
      BY <3>1 DEF UpMsgs
    <3>3. CASE pc[s] \in {"readMethod", "readUser", "readRequest"}
      <4>1. /\ pc[s] = "readMethod" => Head(c2s).kind = "hello"
            /\ pc[s] = "readUser" => Head(c2s).kind = "creds"
            /\ pc[s] = "readRequest" => Head(c2s).kind = "request"
        BY <2>1, <3>3, Expects, PlanIs DEF IInv
      <4> QED
        BY <3>3, <4>1 DEF Expected
    <3>4. CASE pc[s] \notin {"readMethod", "readUser", "readRequest"}
      <4>1. pc[s] \notin {"readCreds", "readResponse"}
        BY DEF IInv, Shape, Srv!Pcs, Srv!PeerWaits
      <4> QED
        BY <3>2, <3>4, <4>1 DEF Expected
    <3> QED
      BY <3>3, <3>4
  <2>2. ASSUME s2c # <<>> PROVE Head(s2c).kind \in Expected(cpc)
    <3>1. Head(s2c) \in DownMsgs
      BY <2>2, Shift DEF IInv, Network
    <3>2. Head(s2c).kind \in {"method", "auth", "response"}
      BY <3>1 DEF DownMsgs
    <3>3. CASE cpc \in {"readMethod", "readCreds", "readResponse"}
      <4>1. ret = "none"
        BY <3>3 DEF IInv, Client
      <4>2. Head(s2c).kind = Due[Got + 1].kind
        BY <2>2, <4>1, NextReply
      <4>3. /\ cpc = "readMethod" => Got + 1 = 1
            /\ cpc = "readCreds" => Got + 1 = 2 /\ creds # NoLogin
            /\ cpc = "readResponse" => Got + 1 = N
        <5>1. cpc = "readResponse" => Got = N - 1 /\ N \in {2, 3}
          BY <4>1, Counts DEF Got
        <5> QED
          BY <4>1, <5>1 DEF Got, IInv, Client
      <4> QED
        BY <3>3, <4>2, <4>3, DueIs DEF Expected
    <3>4. CASE cpc \notin {"readMethod", "readCreds", "readResponse"}
      <4>1. cpc \notin {"readUser", "readRequest"}
        BY DEF IInv, Client, Cli!Pcs, Cli!PeerWaits
      <4> QED
        BY <3>2, <3>4, <4>1 DEF Expected
    <3> QED
      BY <3>3, <3>4
  <2> QED
    BY <2>1, <2>2 DEF SpeakInTurn
<1> QED
  BY <1>1, Invariance, PTL

(* Client and session never both wait to read with nothing under way, in    *)
(* the handshake of one message at a time as in the pipelined one.          *)
THEOREM NobodyWaitsForTheOther == Spec => []NoMutualWait
<1>1. IInv => NoMutualWait
  <2> SUFFICES ASSUME IInv, ClientReads, ServerReads, c2s = <<>>, held = <<>>, s2c = <<>>
               PROVE  FALSE
    BY DEF NoMutualWait
  <2>1. ret = "none"
    BY DEF IInv, Client, ClientReads
  <2>2. OnTrack /\ ~Over
    BY DEF ServerReads, OnTrack, Over, Refusing
  <2>3. N \in {2, 3} /\ (creds # NoLogin => N = 3) /\ Taken \in Nat /\ Got \in Nat
    BY Counts
  <2>4. Taken = Sent /\ Got = Told
    BY <2>1, <2>2, <2>3 DEF IInv, Upstream, Downstream
  <2>5. CASE cpc = "readMethod"
    <3>1. Got = 0 /\ Sent \in {1, 2, 3}
      BY <2>1, <2>3, <2>5 DEF Got, Sent
    <3>2. pc[s] = "readMethod"
      BY <2>3, <2>4, <3>1 DEF Told, ServerReads
    <3> QED
      BY <2>4, <3>1, <3>2 DEF Taken
  <2>6. CASE cpc = "readCreds"
    <3>1. Got = 1 /\ Sent \in {2, 3} /\ N = 3
      BY <2>1, <2>3, <2>6 DEF Got, Sent, IInv, Client
    <3>2. pc[s] = "readUser"
      BY <2>4, <3>1 DEF Told, ServerReads
    <3> QED
      BY <2>4, <3>1, <3>2 DEF Taken
  <2>7. CASE cpc = "readResponse"
    <3>1. Sent = N
      BY <2>7 DEF Sent
    <3>2. Taken < N
      BY <2>3 DEF Taken, ServerReads, IInv, Session
    <3> QED
      BY <2>3, <2>4, <3>1, <3>2
  <2> QED
    BY <2>5, <2>6, <2>7 DEF ClientReads
<1> QED
  BY <1>1, Invariance, PTL

\* What the invariant says once the client has returned success.
LEMMA WhenOk ==
    ASSUME IInv, ret = "ok"
    PROVE  /\ s2c = <<>> /\ Sent = N /\ Pending = 0 /\ link = "accepted"
           /\ pc[s] \in {"service", "splice", "fini", "none"}
           /\ pc[s] # "none" => Served
<1>1. Got = N /\ Sent = N /\ N \in {2, 3} /\ (creds # NoLogin => N = 3)
  BY Counts DEF Got, Sent
<1>2. Len(s2c) = 0 /\ s2c = <<>>
  <2>1. Len(s2c) \in Nat /\ Got + Len(s2c) <= N
    BY Lens DEF IInv, Downstream
  <2>2. Len(s2c) = 0
    BY <1>1, <2>1
  <2> QED
    BY <2>2, EmptySeq DEF IInv, Network
<1>3. Pending = 0
  BY <1>2 DEF Pending, PendingIn
<1>4. Over \/ pc[s] \in {"service", "splice"}
  <2> SUFFICES ASSUME ~Over PROVE pc[s] \in {"service", "splice"}
    OBVIOUS
  <2>1. Told = N
    BY <1>1, <1>2 DEF IInv, Downstream
  <2> QED
    BY <1>1, <2>1 DEF Told, IInv, Session
<1>5. link = "accepted" /\ pc[s] \in {"service", "splice", "fini", "none"}
  BY <1>4 DEF Over, IInv, Session
<1>6. CASE pc[s] = "fini"
  <2>1. Succeeded
    BY <1>1, <1>2 DEF Succeeded
  <2>2. Served
    BY <1>6, <2>1 DEF IInv, Downstream
  <2> QED
    BY <1>1, <1>2, <1>3, <1>5, <2>2
<1>7. CASE pc[s] \in {"service", "splice"}
  <2>1. OnTrack /\ Taken = N
    BY <1>7 DEF OnTrack, Over, Refusing, Taken
  <2>2. Served
    BY <1>7, <2>1 DEF Served, IInv, Session, Upstream
  <2> QED
    BY <1>1, <1>2, <1>3, <1>5, <2>2
<1> QED
  BY <1>1, <1>2, <1>3, <1>5, <1>6, <1>7

(* A client that returns success talks to a session of the type it asked    *)
(* for, and of the user whose credentials it gave.                          *)
THEOREM BothAgree == Spec => []Agreement
<1>1. IInv => Agreement
  BY WhenOk DEF Agreement, Served, Known
<1> QED
  BY <1>1, Invariance, PTL

(* A client that returns success has left no byte of the handshake in the   *)
(* connection, neither unread by the session nor unread by itself.          *)
THEOREM BothAreInStep == Spec => []InStep
<1>1. IInv => InStep
  <2> SUFFICES ASSUME IInv, ret = "ok", pc[s] # "none"
               PROVE  bytes["up"] = bytes["upRead"] /\ bytes["down"] = bytes["downRead"]
    BY DEF InStep
  <2>1. bytes["up"] = UpTo[N] /\ bytes["upRead"] = UpTo[N]
    BY WhenOk DEF IInv, Upstream, Served
  <2>2. bytes["down"] = bytes["downRead"] + 0 /\ bytes["downRead"] \in Nat
    BY WhenOk DEF IInv, Downstream, Network
  <2> QED
    BY <2>1, <2>2
<1> QED
  BY <1>1, Invariance, PTL
=============================================================================
