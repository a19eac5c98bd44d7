---------------------------- MODULE MCSocks5Tree ----------------------------
(* A small instance of the tree: one user of each name, and a second one of *)
(* a name in the middle.  Ten names are as many as it takes before erasing  *)
(* one leaves a black node missing on two levels.                           *)
EXTENDS Socks5Tree

MCNames == {<<b>> : b \in 0..2} \cup ({0, 1} \X {0, 1})
             \cup {<<0, 0, b>> : b \in 0..2}

MCNameOf ==
    << <<0>>, <<1>>, <<2>>, <<0, 0>>, <<0, 1>>, <<1, 0>>, <<1, 1>>,
       <<0, 0, 0>>, <<0, 0, 1>>, <<0, 0, 2>>, <<0, 1>> >>

\* What a call has given back is written and never read: no later step depends
\* on it, and states that differ in it only are one.
Unanswered == <<tree, pc, cur, par, clearing>>
=============================================================================
