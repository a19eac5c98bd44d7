----------------------------- MODULE Socks5Link -----------------------------
(***************************************************************************)
(* A client of this library and a session of a server of this library, at  *)
(* the two ends of one TCP connection.  The actions of the two modules are *)
(* taken as they are; this module supplies what each end reads from what   *)
(* the other has sent.                                                     *)
(*                                                                         *)
(* The connection keeps the order of the bytes.  What the client sends     *)
(* with MSG_MORE the kernel may hold back until a send without it, or      *)
(* until a time of its own (Flush).  A closed end is seen once the         *)
(* messages before it are read, or at once if it closed with bytes unread  *)
(* (a reset, which drops what was under way).                              *)
(***************************************************************************)
EXTENDS Integers, Sequences, Socks5Base

CONSTANTS
    s,                           \* the server's session
    Fds, NoFd,                   \* of the server's process
    CFds,                        \* of the client's process
    Users, Passwords, PassOf, Names, Passes, Empty, NoObj, AuthObj,
    Logins, NoLogin,
    NameLen, PassLen, DomainLen, \* the lengths of the variable fields
    ConnectTimeout, TcpTimeout, UdpTimeout

ASSUME LengthAssumption ==
    /\ NameLen \in Nat
    /\ PassLen \in Nat
    /\ DomainLen \in Nat

VARIABLES
    \* the server's session
    pc, type, timeout, family, obj, fd, open, reply, cmd, out,
    \* the client
    cpc, ctype, target, pipeline, creds, ctimeout, cfamily, cfd, copen, addr, assoc, ret,
    \* the connection
    link,      \* "down", "up" when the client is connected, "accepted"
    held,      \* messages the client's kernel holds back
    c2s, s2c,  \* messages under way
    bytes      \* how many bytes each end has written and read

serverVars == <<pc, type, timeout, family, obj, fd, open, reply, cmd, out>>
clientVars == <<cpc, ctype, target, pipeline, creds, ctimeout, cfamily, cfd,
                copen, addr, assoc, ret>>
netVars == <<link, held, c2s, s2c, bytes>>
vars == <<serverVars, clientVars, netVars>>

Srv == INSTANCE Socks5Server WITH Sessions <- {s}

Cli == INSTANCE Socks5Client WITH
         Fds <- CFds, pc <- cpc, type <- ctype, timeout <- ctimeout,
         family <- cfamily, fd <- cfd, open <- copen

-----------------------------------------------------------------------------
(* Messages, and their lengths as the end that writes and the end that      *)
(* reads them compute them.                                                 *)
HelloMsg == [kind |-> "hello", methods |-> {Cli!Offer}]
CredsMsg == [kind |-> "creds", name |-> creds.name, pass |-> creds.pass]
RequestMsg == [kind |-> "request", cmd |-> Cli!RequestCmd, atype |-> Cli!RequestAddrType]

\* hev_socks5_addr_len and the switch of hev_socks5_client_write_request
AddrLen(atype) == CASE atype = "v4" -> 7 [] atype = "v6" -> 19 [] OTHER -> 4 + DomainLen

\* Mutant of RestLen: the byte of the port is one too few.
RestLenShort(atype) == CASE atype = "v4" -> 5 [] atype = "v6" -> 17 [] OTHER -> 1 + DomainLen

\* the bytes that hev_socks5_server_read_request still reads after five
RestLen(atype) == CASE atype = "v4" -> 5 [] atype = "v6" -> 17 [] OTHER -> 2 + DomainLen

\* the bytes that hev_socks5_client_read_response still reads after four
TailLen(atype) == IF atype = "v4" THEN 6 ELSE 18

WriteLen(m) == CASE m.kind = "hello" -> 3
                 [] m.kind = "creds" -> 2 + NameLen + 1 + PassLen
                 [] m.kind = "response" -> 3 + AddrLen(m.atype)
                 [] m.kind = "request" -> 3 + AddrLen(m.atype)
                 [] OTHER -> 2

ReadLen(m) == CASE m.kind = "hello" -> 2 + 1
                [] m.kind = "creds" -> 2 + (NameLen + 1) + PassLen
                [] m.kind = "response" -> 4 + TailLen(m.atype)
                [] m.kind = "request" -> 5 + RestLen(m.atype)
                [] OTHER -> 2

Count(what, n) == bytes' = [bytes EXCEPT ![what] = @ + n]

-----------------------------------------------------------------------------
ClientGone == cpc = "gone"
ServerGone == link = "accepted" /\ pc[s] = "none"

\* An end that is gone with bytes unread has reset the connection.
ClientSeesEnd == ServerGone /\ (s2c = <<>> \/ c2s # <<>> \/ held # <<>>)
ServerSeesEnd == ClientGone /\ ((c2s = <<>> /\ held = <<>>) \/ s2c # <<>>)

Init ==
    /\ Srv!Init
    /\ Cli!Init
    /\ link = "down"
    /\ held = <<>>
    /\ c2s = <<>>
    /\ s2c = <<>>
    /\ bytes = [up |-> 0, upRead |-> 0, down |-> 0, downRead |-> 0]

-----------------------------------------------------------------------------
(* The client's steps before the handshake, and its end.                    *)
ClientAlone ==
    /\ \/ \E c \in Logins : Cli!SetAuth(c)
       \/ Cli!Connect
       \/ \E found \in BOOLEAN : Cli!Resolve(found)
       \/ Cli!OpenSocketFails
       \/ \E f \in CFds : Cli!OpenSocket(f)
       \/ \E o \in Outcomes : Cli!ConnectFails(o)
       \/ \E p \in BOOLEAN : Cli!Handshake(p)
       \/ Cli!Destruct
    /\ UNCHANGED <<serverVars, netVars>>

ClientConnected ==
    /\ \E fam \in Families : Cli!Connected(fam)
    /\ link' = "up"
    /\ UNCHANGED <<serverVars, held, c2s, s2c, bytes>>

(* A send that fails: nobody is there any more, or there never was, or the  *)
(* timer fires.                                                             *)
ClientSendFails ==
    /\ \E o \in {"closed", "timer"} :
         /\ o = "closed" => ServerGone \/ cfd["ctl"] = NoFd
         /\ Cli!WriteAuthMethods(o) \/ Cli!WriteAuthCreds(o) \/ Cli!WriteRequest(o)
    /\ UNCHANGED <<serverVars, netVars>>

SendHello ==
    /\ Cli!WriteAuthMethods("done")
    /\ held' = Append(held, HelloMsg)
    /\ Count("up", WriteLen(HelloMsg))
    /\ UNCHANGED <<serverVars, link, c2s, s2c>>

SendCreds ==
    /\ Cli!WriteAuthCreds("done")
    /\ IF creds = NoLogin
       THEN UNCHANGED <<held, bytes>>
       ELSE held' = Append(held, CredsMsg) /\ Count("up", WriteLen(CredsMsg))
    /\ UNCHANGED <<serverVars, link, c2s, s2c>>

\* Mutant of SendRequest: the request is sent with MSG_MORE like the others.
SendRequestMore ==
    /\ Cli!WriteRequest("done")
    /\ held' = Append(held, RequestMsg)
    /\ Count("up", WriteLen(RequestMsg))
    /\ UNCHANGED <<serverVars, link, c2s, s2c>>

\* The one send without MSG_MORE.
SendRequest ==
    /\ Cli!WriteRequest("done")
    /\ c2s' = c2s \o Append(held, RequestMsg)
    /\ held' = <<>>
    /\ Count("up", WriteLen(RequestMsg))
    /\ UNCHANGED <<serverVars, link, s2c>>

Flush ==
    /\ held # <<>>
    /\ c2s' = c2s \o held
    /\ held' = <<>>
    /\ UNCHANGED <<serverVars, clientVars, link, s2c, bytes>>

ClientTakes(kind) ==
    /\ s2c # <<>>
    /\ Head(s2c).kind = kind
    /\ s2c' = Tail(s2c)
    /\ Count("downRead", ReadLen(Head(s2c)))
    /\ UNCHANGED <<serverVars, link, held, c2s>>

GetMethod ==
    /\ ClientTakes("method")
    /\ Cli!ReadAuthMethod([got |-> "done", ver |-> Ver5, method |-> Head(s2c).code])

GetAuthReply ==
    /\ ClientTakes("auth")
    /\ Cli!ReadAuthCreds([got |-> "done", ver |-> AuthVer1, rep |-> Head(s2c).code])

GetResponse ==
    /\ ClientTakes("response")
    /\ Cli!ReadResponse([got |-> "done", rest |-> "done", ver |-> Ver5,
                         rep |-> Head(s2c).code, atype |-> Head(s2c).atype])

GetNothing ==
    /\ \E o \in {"closed", "timer"} :
         /\ o = "closed" => ClientSeesEnd
         /\ \/ \E in \in Cli!MethodReplies : in.got = o /\ Cli!ReadAuthMethod(in)
            \/ \E in \in Cli!AuthReplies : in.got = o /\ Cli!ReadAuthCreds(in)
            \/ \E in \in Cli!Responses : in.got = o /\ Cli!ReadResponse(in)
    /\ UNCHANGED <<serverVars, netVars>>

-----------------------------------------------------------------------------
(* The server's steps.                                                      *)
Accept ==
    /\ link = "up"
    /\ \E f \in Fds : Srv!New(s, f)
    /\ link' = "accepted"
    /\ UNCHANGED <<clientVars, held, c2s, s2c, bytes>>

ServerAlone ==
    /\ \/ Srv!SetAuth(s)
       \/ Srv!Run(s)
       \/ \E answer \in Families \cup {"none"} : Srv!Resolve(s, answer)
       \/ Srv!Dispatch(s)
       \/ Srv!Connected(s)
       \/ \E o \in Outcomes : Srv!ConnectFails(s, o)
       \/ Srv!Service(s)
       \/ Srv!SpliceEnds(s)
       \/ Srv!Destruct(s)
    /\ UNCHANGED <<clientVars, netVars>>

ServerTakes(kind, n) ==
    /\ c2s # <<>>
    /\ Head(c2s).kind = kind
    /\ c2s' = Tail(c2s)
    /\ Count("upRead", n)
    /\ UNCHANGED <<clientVars, link, held, s2c>>

TakeHello ==
    /\ ServerTakes("hello", ReadLen(Head(c2s)))
    /\ Srv!ReadAuthMethod(s, [got |-> "done", ver |-> Ver5, methods |-> Head(c2s).methods])

TakeCreds ==
    /\ ServerTakes("creds", ReadLen(Head(c2s)))
    /\ Srv!ReadAuthUser(s, [got |-> "done", ver |-> AuthVer1,
                            name |-> Head(c2s).name, pass |-> Head(c2s).pass])

\* The timer may fire between the two reads of a request.
TakeRequest ==
    /\ c2s # <<>>
    /\ \E rest \in {"done", "timer"} :
         /\ ServerTakes("request", IF rest = "done" THEN ReadLen(Head(c2s)) ELSE 5)
         /\ Srv!ReadRequest(s, [got |-> "done", rest |-> rest, ver |-> Ver5,
                                cmd |-> Head(c2s).cmd, atype |-> Head(c2s).atype])

TakeNothing ==
    /\ \E o \in {"closed", "timer"} :
         /\ o = "closed" => ServerSeesEnd
         /\ \/ \E in \in Srv!Hellos : in.got = o /\ Srv!ReadAuthMethod(s, in)
            \/ \E in \in Srv!Creds : in.got = o /\ Srv!ReadAuthUser(s, in)
            \/ \E in \in Srv!Requests : in.got = o /\ Srv!ReadRequest(s, in)
    /\ UNCHANGED <<clientVars, netVars>>

ServerSends(m) ==
    /\ s2c' = Append(s2c, m)
    /\ Count("down", WriteLen(m))
    /\ UNCHANGED <<clientVars, link, held, c2s>>

Answer ==
    \/ Srv!WriteAuthMethod(s, "done") /\ ServerSends(Srv!MethodReply(reply[s]))
    \/ Srv!WriteAuthUser(s, "done") /\ ServerSends(Srv!AuthReply(reply[s]))
    \/ /\ Srv!WriteResponse(s, "done")
       /\ \E a \in {"v4", "v6"} :
            ServerSends([kind |-> "response", code |-> ToByte(reply[s]), atype |-> a])

AnswerFails ==
    /\ \E o \in {"closed", "timer"} :
         /\ o = "closed" => ClientGone
         /\ Srv!WriteAuthMethod(s, o) \/ Srv!WriteAuthUser(s, o) \/ Srv!WriteResponse(s, o)
    /\ UNCHANGED <<clientVars, netVars>>

-----------------------------------------------------------------------------
ClientSteps ==
    \/ ClientConnected \/ ClientSendFails
    \/ SendHello \/ SendCreds \/ SendRequest
    \/ GetMethod \/ GetAuthReply \/ GetResponse \/ GetNothing

ServerSteps ==
    \/ Accept
    \/ TakeHello \/ TakeCreds \/ TakeRequest \/ TakeNothing
    \/ Answer \/ AnswerFails

Next == ClientAlone \/ ClientSteps \/ Flush \/ ServerAlone \/ ServerSteps

Spec == Init /\ [][Next]_vars

(* Each end goes on while it can (its application calls run and handshake,  *)
(* resolver and upstream answer), and the kernel lets go of what it holds.  *)
FairSpec ==
    /\ Spec
    /\ WF_vars(ClientSteps \/ (ClientAlone /\ cpc' # "gone" /\ creds' = creds))
    /\ WF_vars(ServerSteps \/ (ServerAlone /\ pc'[s] # pc[s] /\ pc[s] # "splice"))
    /\ WF_vars(Flush)

-----------------------------------------------------------------------------
(* The connection carries each kind of message on its way, and holds back   *)
(* nothing but the messages that others follow: never a request, which the  *)
(* server must have before anything comes back.                             *)
LinkTypeOK ==
    /\ link \in {"down", "up", "accepted"}
    /\ \A i \in DOMAIN held : held[i].kind \in {"hello", "creds"}
    /\ \A i \in DOMAIN c2s : c2s[i].kind \in {"hello", "creds", "request"}
    /\ \A i \in DOMAIN s2c : s2c[i].kind \in {"method", "auth", "response"}
    /\ bytes \in [{"up", "upRead", "down", "downRead"} -> Nat]

(* Neither end ever reads a message as one of another kind, whatever the    *)
(* form of the handshake and the credentials: where the server expects      *)
(* credentials the client has sent credentials, and so on.                  *)
Expected(where) ==
    CASE where = "readMethod" -> {"hello", "method"}
      [] where \in {"readUser", "readCreds"} -> {"creds", "auth"}
      [] where \in {"readRequest", "readResponse"} -> {"request", "response"}
      [] OTHER -> {"hello", "creds", "request", "method", "auth", "response"}

SpeakInTurn ==
    /\ c2s # <<>> => Head(c2s).kind \in Expected(pc[s])
    /\ s2c # <<>> => Head(s2c).kind \in Expected(cpc)

(* A client that returns success talks to a session that serves it: of the  *)
(* type it asked for and, if the server is guarded, in the name of the user *)
(* whose credentials the client gave.                                       *)
Agreement ==
    ret = "ok" =>
      /\ link = "accepted"
      /\ pc[s] \in {"service", "splice", "fini", "none"}
      /\ pc[s] # "none" => type[s] = ctype
      /\ pc[s] # "none" /\ obj[s] # NoObj =>
           obj[s] = creds.name /\ PassOf[creds.name] = creds.pass

(* When both ends have come to their relays no byte of the handshake is     *)
(* left in the connection: it would be relayed as data.                     *)
InStep ==
    ret = "ok" /\ pc[s] # "none" =>
      bytes.up = bytes.upRead /\ bytes.down = bytes.downRead

(* The two ends never wait for each other, with nothing under way.          *)
ClientReads == cpc \in {"readMethod", "readCreds", "readResponse"}
ServerReads == pc[s] \in {"readMethod", "readUser", "readRequest"}

NoMutualWait ==
    ClientReads /\ ServerReads => c2s # <<>> \/ held # <<>> \/ s2c # <<>>

(* Without any timer the handshake still comes to its end at the client,    *)
(* even though what it sends may be held back.                              *)
ClientIsAnswered == cpc = "sendMethods" ~> ret # "none"

(* A session that has come to its relay has its client follow it, unless    *)
(* one of the two ends gives up in between.                                 *)
BothRelay ==
    pc[s] = "splice" /\ ret = "none" ~> ret = "ok" \/ (ret = "failed" /\ ctype = "UDP_IN_UDP")
                                          \/ pc[s] # "splice"
=============================================================================
