-------------------------- MODULE Socks5Directory ---------------------------
(***************************************************************************)
(* What an authenticator promises of its users                             *)
(* (hev-socks5-authenticator.h): a set of names, at most one user of each. *)
(* An operation is one step, and gives its answer in it.                   *)
(***************************************************************************)
CONSTANTS Names

VARIABLES
    names,     \* the names that have a user
    asked,     \* the last operation and the name it is about
    ok,        \* what it gave back: 0 or a user, not -1 or NULL
    clearing   \* hev_socks5_authenticator_clear is at work

vars == <<names, asked, ok, clearing>>

Init == names = {} /\ asked = <<>> /\ ok = TRUE /\ clearing = FALSE

Tell(op, n, done) == asked' = <<op, n>> /\ ok' = done

\* hev_socks5_authenticator_add: 0, or -1 for a name that has a user.
Add(n) ==
    /\ ~clearing
    /\ Tell("add", n, n \notin names)
    /\ names' = names \cup {n}
    /\ UNCHANGED clearing

\* hev_socks5_authenticator_del: 0, or -1 for a name that has none.
Del(n) ==
    /\ ~clearing
    /\ Tell("del", n, n \in names)
    /\ names' = names \ {n}
    /\ UNCHANGED clearing

\* hev_socks5_authenticator_get: the user, or NULL.
Get(n) ==
    /\ ~clearing
    /\ Tell("get", n, n \in names)
    /\ UNCHANGED <<names, clearing>>

\* hev_rbtree_replace: another user of a name takes the place of the one.
Replace(n) ==
    /\ ~clearing
    /\ Tell("replace", n, TRUE)
    /\ n \in names
    /\ UNCHANGED <<names, clearing>>

\* hev_socks5_authenticator_clear gives the users back one by one, and only it
\* is at work until none is left.
Clear ==
    /\ ~clearing
    /\ clearing' = TRUE
    /\ asked' = <<>> /\ ok' = TRUE
    /\ UNCHANGED names

Drop(n) ==
    /\ clearing
    /\ n \in names
    /\ names' = names \ {n}
    /\ UNCHANGED <<asked, ok, clearing>>

Cleared ==
    /\ clearing
    /\ names = {}
    /\ clearing' = FALSE
    /\ UNCHANGED <<names, asked, ok>>

Next ==
    \/ \E n \in Names : Add(n) \/ Del(n) \/ Get(n) \/ Replace(n) \/ Drop(n)
    \/ Clear
    \/ Cleared

Spec == Init /\ [][Next]_vars
=============================================================================
