--------------------------- MODULE Socks5Channel ----------------------------
(***************************************************************************)
(* What the UDP relay promises when no call on a socket fails and no timer *)
(* runs: two channels that keep the order and lose nothing in between.  A  *)
(* packet is its number.  Only the client's going away spoils a channel,   *)
(* and what it spoils is the last of it: a client that goes in the middle  *)
(* of a frame may have messages sent upstream that it never sent, and one  *)
(* that goes during an answer may be left with a part of it.               *)
(***************************************************************************)
EXTENDS Integers, Sequences

VARIABLES
    sent,      \* the number of packets of the client
    broken,    \* the client has gone in the middle of the last one
    up,        \* those passed on upstream
    answered,  \* the number of answers to it
    back       \* those passed on to the client

vars == <<sent, broken, up, answered, back>>

NoMessage == 0
Torn == 0

UpTo(n) == [i \in 1..n |-> i]

Init == sent = 0 /\ ~broken /\ up = <<>> /\ answered = 0 /\ back = <<>>

Send == ~broken /\ sent' = sent + 1 /\ UNCHANGED <<broken, up, answered, back>>

ClientBreaksOff ==
    /\ ~broken /\ sent > Len(up)
    /\ broken' = TRUE
    /\ UNCHANGED <<sent, up, answered, back>>

\* Nobody answers what did not come.
Answer == up # <<>> /\ answered' = answered + 1 /\ UNCHANGED <<sent, broken, up, back>>

\* The packets that are whole.
Complete == IF broken THEN sent - 1 ELSE sent

Pure == \A i \in DOMAIN up : up[i] # NoMessage

PassOn ==
    /\ Pure
    /\ \E n \in (Len(up) + 1)..Complete : up' = UpTo(n)
    /\ UNCHANGED <<sent, broken, answered, back>>

MakeUp ==
    /\ Pure /\ broken
    /\ \E n \in Len(up)..Complete :
         /\ Len(up') > n
         /\ up' = [i \in 1..Len(up') |-> IF i <= n THEN i ELSE NoMessage]
    /\ UNCHANGED <<sent, broken, answered, back>>

Whole == \A i \in DOMAIN back : back[i] # Torn

PassBack ==
    /\ Whole
    /\ \E n \in (Len(back) + 1)..answered : back' = UpTo(n)
    /\ UNCHANGED <<sent, broken, up, answered>>

BreakOff ==
    /\ Whole
    /\ \E n \in Len(back)..(answered - 1) : back' = Append(UpTo(n), Torn)
    /\ UNCHANGED <<sent, broken, up, answered>>

Next == Send \/ ClientBreaksOff \/ Answer \/ PassOn \/ MakeUp \/ PassBack \/ BreakOff

Spec == Init /\ [][Next]_vars
=============================================================================
