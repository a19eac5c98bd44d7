----------------------------- MODULE Socks5Base -----------------------------
(***************************************************************************)
(* What the client and the server share: the protocol's code points        *)
(* (hev-socks5-proto.h), the object types, the one rule by which an        *)
(* object's timeout changes (hev-socks5.c) and what a wait for the network *)
(* can end with (hev-socks5-misc.c, hev_socks5_task_io_yielder).           *)
(***************************************************************************)
EXTENDS Integers

Ver5 == 5                     \* HEV_SOCKS5_VERSION_5
AuthVer1 == 1                 \* HEV_SOCKS5_AUTH_VERSION_1

MethodNone == 0               \* HEV_SOCKS5_AUTH_METHOD_*
MethodUser == 2
MethodDeny == 255

CmdConnect == 1               \* HEV_SOCKS5_REQ_CMD_*
CmdUdpAsc == 3
CmdFwdUdp == 5

RepSucc == 0                  \* HEV_SOCKS5_RES_REP_*
RepFail == 1
RepHost == 4
RepImpl == 7
RepAddr == 8
Reps == {RepSucc, RepFail, RepHost, RepImpl, RepAddr}

\* HEV_SOCKS5_ADDR_TYPE_*, by name; "bad" stands for every other byte.
AddrTypes == {"v4", "v6", "name", "bad"}

\* HEV_SOCKS5_ADDR_FAMILY_*
Families == {"v4", "v6"}

\* HEV_SOCKS5_TYPE_*
Types == {"NONE", "TCP", "UDP_IN_TCP", "UDP_IN_UDP"}

\* What is left of an int stored in a uint8_t of a message.
ToByte(n) == n % 256

(***************************************************************************)
(* hev_socks5_set_timeout: zero is sticky, nothing replaces it.            *)
(***************************************************************************)
SetTimeout(current, t) == IF current = 0 THEN 0 ELSE t

(***************************************************************************)
(* The end of a wait of a task in a socket operation: the operation is     *)
(* done, the peer has closed or reset the connection, or the timer that    *)
(* the yielder armed has fired.  The yielder arms none when the object's   *)
(* timeout is negative.                                                    *)
(***************************************************************************)
Outcomes == {"done", "closed", "timer"}

MayEnd(outcome, timeout) == outcome = "timer" => timeout >= 0

=============================================================================
