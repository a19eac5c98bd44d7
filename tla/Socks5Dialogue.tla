--------------------------- MODULE Socks5Dialogue ---------------------------
(***************************************************************************)
(* What a SOCKS5 server promises the peer of each of its connections: the  *)
(* order of the replies and the gate they stand for, without descriptors,  *)
(* timers, parsing or failures of the network.                             *)
(*                                                                         *)
(*   - one method reply, that fits whether the server is guarded by an     *)
(*     authenticator or refuses;                                           *)
(*   - after a choice of user authentication, one reply to it;             *)
(*   - after the gate is passed, one response;                             *)
(*   - relaying after a response of success, and after nothing else;       *)
(*   - a dialogue that has begun ends, by relaying or by closing.          *)
(***************************************************************************)
EXTENDS Sequences, Socks5Base

CONSTANT Sessions

VARIABLES
    phase,     \* of each connection
    guarded,   \* an authenticator is set
    said       \* the replies sent to the peer

vars == <<phase, guarded, said>>

Phases == {"idle", "ready", "talking", "relaying", "closed"}

Method(m) == [kind |-> "method", code |-> m]
AuthStatus(r) == [kind |-> "auth", code |-> r]
Answer(r) == [kind |-> "response", code |-> r]

\* The peer has passed the gate once it has been told one of these.
Passed(g) == IF g THEN <<Method(MethodUser), AuthStatus(0)>> ELSE <<Method(MethodNone)>>

\* The replies that may follow what has been said to a peer.
MayFollow(g, sofar) ==
    CASE sofar = <<>> ->
           {Method(IF g THEN MethodUser ELSE MethodNone), Method(MethodDeny)}
      [] g /\ sofar = <<Method(MethodUser)>> -> {AuthStatus(0), AuthStatus(255)}
      [] sofar = Passed(g) -> {Answer(r) : r \in Reps}
      [] OTHER -> {}

Init ==
    /\ phase = [s \in Sessions |-> "idle"]
    /\ guarded = [s \in Sessions |-> FALSE]
    /\ said = [s \in Sessions |-> <<>>]

Accept(s) ==
    /\ phase[s] = "idle"
    /\ phase' = [phase EXCEPT ![s] = "ready"]
    /\ guarded' = [guarded EXCEPT ![s] = FALSE]
    /\ said' = [said EXCEPT ![s] = <<>>]

Guard(s) ==
    /\ phase[s] = "ready"
    /\ guarded' = [guarded EXCEPT ![s] = TRUE]
    /\ UNCHANGED <<phase, said>>

Begin(s) ==
    /\ phase[s] = "ready"
    /\ phase' = [phase EXCEPT ![s] = "talking"]
    /\ UNCHANGED <<guarded, said>>

\* The server may close after any reply, in the same step.
Tell(s, r) ==
    /\ phase[s] = "talking"
    /\ r \in MayFollow(guarded[s], said[s])
    /\ said' = [said EXCEPT ![s] = Append(@, r)]
    /\ \/ UNCHANGED phase
       \/ phase' = [phase EXCEPT ![s] = "closed"]
    /\ UNCHANGED guarded

Relay(s) ==
    /\ phase[s] = "talking"
    /\ said[s] = Append(Passed(guarded[s]), Answer(RepSucc))
    /\ phase' = [phase EXCEPT ![s] = "relaying"]
    /\ UNCHANGED <<guarded, said>>

Close(s) ==
    /\ phase[s] \in {"talking", "relaying"}
    /\ phase' = [phase EXCEPT ![s] = "closed"]
    /\ UNCHANGED <<guarded, said>>

\* The object is gone: nothing more is known of the connection.
Release(s) ==
    /\ phase[s] \in {"ready", "closed"}
    /\ phase' = [phase EXCEPT ![s] = "idle"]
    /\ guarded' = [guarded EXCEPT ![s] = FALSE]
    /\ said' = [said EXCEPT ![s] = <<>>]

Next ==
    \E s \in Sessions :
      \/ Accept(s) \/ Guard(s) \/ Begin(s) \/ Relay(s) \/ Close(s) \/ Release(s)
      \/ \E r \in MayFollow(guarded[s], said[s]) : Tell(s, r)

Safety == Init /\ [][Next]_vars

\* A dialogue that has begun does not stay open for ever without relaying.
Talks(s) ==
    \/ Relay(s)
    \/ phase[s] = "talking" /\ Close(s)
    \/ \E r \in MayFollow(guarded[s], said[s]) : Tell(s, r)

Spec == Safety /\ \A s \in Sessions : WF_vars(Talks(s))

(***************************************************************************)
(* A connection is relayed only when its peer was told so and, where the   *)
(* server is guarded, only after its credentials were accepted.            *)
(***************************************************************************)
RelayIsEarned ==
    \A s \in Sessions :
      phase[s] = "relaying" => said[s] = Append(Passed(guarded[s]), Answer(RepSucc))

=============================================================================
