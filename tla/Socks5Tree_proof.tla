-------------------------- MODULE Socks5Tree_proof --------------------------
(***************************************************************************)
(* The red-black tree of hev-rbtree.c under the authenticator, for every   *)
(* number of nodes and every set of names.  The rounds of insert_color and *)
(* erase_color, the cases of erase and replace are each shown to lead from *)
(* a tree with one flaw at the loop's variables to one with the flaw       *)
(* further up or with none; IInv puts them together, and the invariants of *)
(* Socks5Tree and its implementation of Socks5Directory follow.            *)
(***************************************************************************)
EXTENDS Socks5TreeShape_proof

-----------------------------------------------------------------------------
(* The rounds of hev_rbtree_insert_color.                                  *)

\* A red-black tree with nothing left to repair.
Settled(t, D, h) == Shape(t, D) /\ Calm(t, D, Nil) /\ Even(t, D, h, Nil, "left")

\* n, below p, may be a red node below a red one.
Upset(t, D, h, n, p) ==
    /\ Shape(t, D) /\ Calm(t, D, n) /\ Even(t, D, h, Nil, "left")
    /\ n \in Inside(t, D) /\ t.red[n] /\ p = t.parent[n]

\* Paths from a node are as black as paths from its children, the child counted.
LEMMA EvenKid ==
  ASSUME NEW t, NEW D, Shape(t, D), NEW h, Even(t, D, h, Nil, "left"), NEW n \in Inside(t, D), NEW s \in Sides
  PROVE  /\ n \in Nodes /\ h \in [Nodes -> Nat] /\ h[n] \in Nat /\ h[n] = Weight(t, h, t.kid[n][s])
         /\ t.kid[n][s] \in Link
<1>1. n \in Nodes /\ n # Nil
  BY InsideNodes, LinkNode
<1>2. h \in [Nodes -> Nat] /\ h[n] = Weight(t, h, t.kid[n][s]) + Lack(n, s, Nil, "left")
  BY DEF Even
<1>3. t.kid[n][s] \in Link
  BY <1>1, ShapeIs, TreeLinks
<1>4. Weight(t, h, t.kid[n][s]) \in Nat
  BY <1>2, <1>3, ShapeIs, WeightNat
<1>5. Lack(n, s, Nil, "left") = 0
  BY <1>1 DEF Lack
<1> QED BY <1>1, <1>2, <1>3, <1>4, <1>5

\* Where that holds of every node, the tree is even.
LEMMA EvenNow ==
  ASSUME NEW t, NEW D, NEW h \in [Nodes -> Nat], Inside(t, D) \subseteq Nodes,
         \A n \in Inside(t, D) : \A s \in Sides : h[n] = Weight(t, h, t.kid[n][s])
  PROVE  Even(t, D, h, Nil, "left")
<1>1. ASSUME NEW n \in Inside(t, D), NEW s \in Sides
      PROVE  h[n] = Weight(t, h, t.kid[n][s]) + Lack(n, s, Nil, "left")
  <2>1. h[n] \in Nat /\ h[n] = Weight(t, h, t.kid[n][s]) /\ n # Nil
    BY LinkNode
  <2>2. Lack(n, s, Nil, "left") = 0
    BY <2>1 DEF Lack
  <2> QED BY <2>1, <2>2
<1> QED BY <1>1 DEF Even

\* A red node has a black parent.
LEMMA CalmUp ==
  ASSUME NEW t, NEW D, Shape(t, D), NEW x, Calm(t, D, x), NEW n \in Inside(t, D), t.red[n], n # x
  PROVE  /\ n # t.root /\ t.parent[n] \in Nodes /\ t.parent[n] \in Inside(t, D) /\ ~t.red[t.parent[n]]
         /\ t.parent[n] # Nil
<1>1. n \in Nodes
  BY InsideNodes
<1>2. n # t.root /\ ~t.red[t.parent[n]]
  BY DEF Calm
<1>3. t.parent[n] # Nil
  BY <1>1, <1>2, InsideLinked
<1>4. t.parent[n] \in Inside(t, D)
  BY <1>1, <1>3, InsideLinked
<1> QED BY <1>2, <1>3, <1>4, InsideNodes

\* A child with a black parent or an ancestor.
LEMMA CalmKid ==
  ASSUME NEW t, NEW D, Shape(t, D), NEW x, Calm(t, D, x), NEW n \in Inside(t, D), t.red[n],
         NEW s \in Sides, t.kid[n][s] # x
  PROVE  ~IsRed(t, t.kid[n][s])
<1>1. n \in Nodes
  BY InsideNodes
<1>2. CASE t.kid[n][s] = Nil
  BY <1>2 DEF IsRed
<1>3. CASE t.kid[n][s] # Nil
  <2>1. t.kid[n][s] \in Inside(t, D) /\ t.parent[t.kid[n][s]] = n
    BY <1>1, <1>3, KidBelow, InsideLinked
  <2> QED BY <2>1, CalmUp DEF IsRed
<1> QED BY <1>2, <1>3

\* The red node has become the root: it is made black, and all is repaired.
LEMMA AtRootRound ==
  ASSUME NEW t, NEW D, NEW h, NEW n, Upset(t, D, h, n, Nil)
  PROVE  /\ Settled(SetBlack(SetParent(t, n, Nil), n), D, h)
         /\ Inside(SetBlack(SetParent(t, n, Nil), n), D) = Inside(t, D)
<1> DEFINE v == SetParent(t, n, Nil)
           u == SetBlack(v, n)
<1>0. /\ Shape(t, D) /\ Calm(t, D, n) /\ Even(t, D, h, Nil, "left")
      /\ n \in Inside(t, D) /\ t.red[n] /\ t.parent[n] = Nil
  BY DEF Upset
<1>1. t \in TreeType /\ n \in Nodes /\ n = t.root /\ n # Nil /\ n \in Link /\ Nil \in Link
  BY <1>0, ShapeIs, InsideNodes, InsideLinked, LinkNode
<1>2. /\ v \in TreeType /\ v.root = t.root /\ v.kid = t.kid /\ v.red = t.red
      /\ \A m \in Nodes : v.parent[m] = t.parent[m]
  BY <1>0, <1>1, SetParentIs
<1>3. v.parent = t.parent
  BY <1>1, <1>2 DEF TreeType
<1> HIDE DEF v
<1>4. /\ u \in TreeType /\ u.root = v.root /\ u.kid = v.kid /\ u.parent = v.parent
      /\ \A m \in Nodes : u.red[m] = IF m = n THEN FALSE ELSE v.red[m]
  BY <1>1, <1>2, SetBlackIs
<1> HIDE DEF u
<1>5. Shape(u, D) /\ Inside(u, D) = Inside(t, D)
  BY <1>0, <1>2, <1>3, <1>4, ShapeRed
<1>6. Calm(u, D, Nil)
  <2>1. ASSUME NEW m \in Inside(t, D), u.red[m] PROVE m # u.root /\ ~u.red[u.parent[m]]
    <3>1. m \in Nodes /\ m # n /\ t.red[m]
      BY <1>0, <1>2, <1>4, <2>1, InsideNodes
    <3>2. t.parent[m] \in Nodes /\ ~t.red[t.parent[m]] /\ m # t.root
      BY <1>0, <3>1, CalmUp
    <3> QED BY <1>2, <1>3, <1>4, <3>2
  <2> QED BY <1>5, <2>1 DEF Calm
<1>7. Even(u, D, h, Nil, "left")
  <2>1. ASSUME NEW m \in Inside(t, D), NEW s \in Sides
        PROVE  h[m] = Weight(u, h, u.kid[m][s])
    <3>1. m \in Nodes /\ h[m] = Weight(t, h, t.kid[m][s]) /\ t.kid[m][s] \in Link
      BY <1>0, EvenKid
    <3>2. t.kid[m][s] # n
      BY <1>0, <1>1, <3>1, KidBelow, LinkNode
    <3>3. Weight(u, h, t.kid[m][s]) = Weight(t, h, t.kid[m][s])
      BY <1>2, <1>4, <3>1, <3>2, LinkNode DEF Weight
    <3> QED BY <1>2, <1>4, <3>1, <3>3
  <2>2. h \in [Nodes -> Nat] /\ Inside(u, D) \subseteq Nodes
    BY <1>0, <1>5, InsideNodes DEF Even
  <2> QED BY <1>5, <2>1, <2>2, EvenNow
<1> QED BY <1>5, <1>6, <1>7 DEF Settled, u, v

\* The red node's parent is black: all is repaired.
LEMMA BelowBlackRound ==
  ASSUME NEW t, NEW D, NEW h, NEW n, NEW p, Upset(t, D, h, n, p), p # Nil, ~t.red[p]
  PROVE  Settled(t, D, h)
<1>1. /\ Shape(t, D) /\ Calm(t, D, n) /\ Even(t, D, h, Nil, "left")
      /\ n \in Inside(t, D) /\ p = t.parent[n]
  BY DEF Upset
<1>2. n # t.root
  BY <1>1, InsideNodes, InsideLinked
<1>3. Calm(t, D, Nil)
  BY <1>1, <1>2 DEF Calm
<1> QED BY <1>1, <1>3 DEF Settled

\* Where the parent of the red node is red: what is around it.
LEMMA RedPair ==
  ASSUME NEW t, NEW D, NEW h, NEW n, NEW p, Upset(t, D, h, n, p), p # Nil, t.red[p],
         NEW s \in Sides, t.kid[t.parent[p]][s] = p
  PROVE  /\ t \in TreeType /\ n \in Nodes /\ p \in Nodes /\ p # n /\ p \in Inside(t, D)
         /\ t.parent[p] \in Nodes /\ t.parent[p] \in Inside(t, D) /\ ~t.red[t.parent[p]]
         /\ t.kid[t.parent[p]][s] # Nil /\ t.parent[n] = p /\ n # Nil
         /\ n = t.kid[p][s] \/ n = t.kid[p][Other(s)]
         /\ \A x \in Sides : t.kid[p][x] # n => ~IsRed(t, t.kid[p][x])
         /\ \A x \in Sides : ~IsRed(t, t.kid[n][x])
<1>1. /\ Shape(t, D) /\ Calm(t, D, n) /\ Even(t, D, h, Nil, "left")
      /\ n \in Inside(t, D) /\ t.red[n] /\ p = t.parent[n]
  BY DEF Upset
<1>2. n \in Nodes /\ n # Nil /\ p \in Inside(t, D)
  BY <1>1, InsideNodes, InsideLinked, LinkNode
<1>3. p \in Nodes /\ p # n
  <2>1. p \in Nodes
    BY <1>1, <1>2, InsideNodes
  <2>2. PICK x \in Sides : t.kid[p][x] = n
    BY <1>1, <1>2, <2>1 DEF Shape, Linked
  <2> QED BY <1>1, <1>2, <2>1, <2>2, KidBelow
<1>4. /\ t.parent[p] \in Nodes /\ t.parent[p] \in Inside(t, D) /\ ~t.red[t.parent[p]]
  BY <1>1, <1>2, <1>3, CalmUp
<1>5. n = t.kid[p][s] \/ n = t.kid[p][Other(s)]
  BY <1>1, <1>2, <1>3, KidSide
<1>6. \A x \in Sides : t.kid[p][x] # n => ~IsRed(t, t.kid[p][x])
  BY <1>1, <1>2, CalmKid
<1>7. \A x \in Sides : ~IsRed(t, t.kid[n][x])
  <2>1. \A x \in Sides : t.kid[n][x] # n
    BY <1>1, <1>2, KidBelow
  <2> QED BY <1>1, <2>1, CalmKid
<1> QED BY <1>1, <1>2, <1>3, <1>4, <1>5, <1>6, <1>7, ShapeIs, LinkNode

\* Parent and uncle become black, the grandparent red.
FlipTree(t, g, p, s) == [SetBlack(SetBlack(t, t.kid[g][Other(s)]), p) EXCEPT !.red[g] = TRUE]

\* Then the grandparent may be the red node below a red one: the next round's.
LEMMA FlipRound ==
  ASSUME NEW t, NEW D, NEW h, NEW n, NEW p, Upset(t, D, h, n, p), p # Nil, t.red[p],
         NEW s \in Sides, t.kid[t.parent[p]][s] = p,
         IsRed(t, t.kid[t.parent[p]][Other(s)])
  PROVE  /\ \E k : Upset(FlipTree(t, t.parent[p], p, s), D, k, t.parent[p], t.parent[t.parent[p]])
         /\ Inside(FlipTree(t, t.parent[p], p, s), D) = Inside(t, D)
<1> DEFINE g == t.parent[p]
           z == Other(s)
           o == t.kid[g][z]
           v == SetBlack(t, o)
           w == SetBlack(v, p)
           u == [w EXCEPT !.red[g] = TRUE]
           k == [h EXCEPT ![g] = h[g] + 1]
<1>0. /\ Shape(t, D) /\ Calm(t, D, n) /\ Even(t, D, h, Nil, "left")
      /\ n \in Inside(t, D) /\ t.red[n] /\ p = t.parent[n]
  BY DEF Upset
<1>1. /\ t \in TreeType /\ n \in Nodes /\ p \in Nodes /\ p # n /\ p \in Inside(t, D)
      /\ g \in Nodes /\ g \in Inside(t, D) /\ ~t.red[g] /\ t.parent[n] = p
      /\ t.kid[g][s] = p
  BY RedPair
<1>2. /\ z \in Sides /\ z # s /\ (\A x \in Sides : x = s \/ x = z)
      /\ o \in Nodes /\ t.red[o] /\ o # p /\ o # g /\ p # g /\ t.parent[o] = g /\ o # Nil /\ p # Nil
      /\ o \in Link /\ p \in Link /\ g # n /\ g # Nil
  <2>1. z \in Sides /\ z # s /\ (\A x \in Sides : x = s \/ x = z)
    BY OtherSide
  <2>2. o # Nil /\ t.red[o]
    BY DEF IsRed
  <2>3. o \in Nodes /\ t.parent[o] = g /\ o # g /\ o # p /\ p # g
    <3>1. Other(z) = s /\ p # Nil /\ o = t.kid[g][z]
      BY <1>1, OtherSide, LinkNode
    <3>2. Shape(t, D) /\ g \in Nodes /\ z \in Sides /\ t.kid[g][z] # Nil /\ t.kid[g][s] # Nil
      BY <1>0, <1>1, <2>1, <2>2, <3>1
    <3>3. t.kid[g][s] = p
      BY <1>1
    <3> HIDE DEF g, z, o
    <3>4. o \in Nodes /\ t.parent[o] = g /\ o # g /\ t.kid[g][Other(z)] # o
      BY <3>1, <3>2, KidBelow
    <3>5. p # g
      BY <3>2, <3>3, KidBelow
    <3> QED BY <3>1, <3>3, <3>4, <3>5
  <2>4. g # n
    BY <1>0, <1>1
  <2> QED BY <1>1, <2>1, <2>2, <2>3, <2>4, LinkNode
<1> HIDE DEF g, z, o
<1>3. /\ v \in TreeType /\ v.root = t.root /\ v.kid = t.kid /\ v.parent = t.parent
      /\ \A m \in Nodes : v.red[m] = IF m = o THEN FALSE ELSE t.red[m]
  BY <1>1, <1>2, SetBlackIs
<1> HIDE DEF v
<1>4. /\ w \in TreeType /\ w.root = v.root /\ w.kid = v.kid /\ w.parent = v.parent
      /\ \A m \in Nodes : w.red[m] = IF m = p THEN FALSE ELSE v.red[m]
  BY <1>2, <1>3, SetBlackIs
<1> HIDE DEF w
<1>5. /\ u \in TreeType /\ u.root = t.root /\ u.kid = t.kid /\ u.parent = t.parent
  BY <1>1, <1>3, <1>4 DEF TreeType
<1>6. \A m \in Nodes : u.red[m] = IF m = g THEN TRUE ELSE IF m = p \/ m = o THEN FALSE ELSE t.red[m]
  <2>1. \A m \in Nodes : u.red[m] = IF m = g THEN TRUE ELSE w.red[m]
    BY <1>1, <1>4 DEF TreeType
  <2> HIDE DEF u
  <2> QED BY <2>1, <1>3, <1>4
<1> HIDE DEF u
<1>7. Shape(u, D) /\ Inside(u, D) = Inside(t, D)
  BY <1>0, <1>5, ShapeRed
<1>8. h \in [Nodes -> Nat] /\ k \in [Nodes -> Nat] /\ k[g] = h[g] + 1 /\ h[g] \in Nat
      /\ \A m \in Nodes : m # g => k[m] = h[m]
  BY <1>0, <1>1 DEF Even
<1> HIDE DEF k
<1>9. Calm(u, D, g)
  <2>1. ASSUME NEW m \in Inside(t, D), u.red[m], m # g PROVE m # u.root /\ ~u.red[u.parent[m]]
    <3>1. m \in Nodes /\ m # p /\ m # o /\ t.red[m]
      BY <1>0, <1>1, <1>2, <1>6, <2>1, InsideNodes
    <3>2. CASE m = n
      <4>1. m # t.root
        BY <1>0, <1>1, <1>2, <3>2, InsideLinked
      <4>2. u.parent[m] = p /\ ~u.red[p]
        BY <1>1, <1>2, <1>5, <1>6, <3>2
      <4> QED BY <1>5, <4>1, <4>2
    <3>3. CASE m # n
      <4>1. t.parent[m] \in Nodes /\ ~t.red[t.parent[m]] /\ m # t.root
        BY <1>0, <3>1, <3>3, CalmUp
      <4>2. t.parent[m] # g
        <5>1. ASSUME t.parent[m] = g PROVE FALSE
          <6>1. m = t.kid[g][s] \/ m = t.kid[g][Other(s)]
            BY <1>0, <1>1, <3>1, <5>1, KidSide
          <6> QED BY <1>1, <3>1, <6>1 DEF o, z
        <5> QED BY <5>1
      <4> QED BY <1>5, <1>6, <4>1, <4>2
    <3> QED BY <3>2, <3>3
  <2> QED BY <1>7, <2>1 DEF Calm
<1>10. Even(u, D, k, Nil, "left")
  <2>1. ASSUME NEW m \in Inside(t, D), NEW x \in Sides PROVE k[m] = Weight(u, k, u.kid[m][x])
    <3>1. m \in Nodes /\ h[m] = Weight(t, h, t.kid[m][x]) /\ t.kid[m][x] \in Link /\ u.kid[m][x] = t.kid[m][x]
      BY <1>0, <1>5, EvenKid
    <3>2. CASE m = g
      <4>1. t.kid[m][x] = p \/ t.kid[m][x] = o
        BY <1>1, <1>2, <3>2 DEF o
      <4>2. h[g] = h[t.kid[m][x]] /\ h[t.kid[m][x]] \in Nat
        BY <1>0, <1>1, <1>2, <1>8, <3>1, <3>2, <4>1 DEF Weight
      <4>3. Weight(u, k, t.kid[m][x]) = k[t.kid[m][x]] + 1 /\ k[t.kid[m][x]] = h[t.kid[m][x]]
        BY <1>1, <1>2, <1>6, <1>8, <4>1 DEF Weight
      <4> QED BY <1>8, <3>1, <3>2, <4>2, <4>3
    <3>3. CASE m # g /\ t.kid[m][x] = g
      <4>1. Weight(t, h, g) = h[g] + 1 /\ Weight(u, k, g) = k[g]
        BY <1>1, <1>2, <1>6 DEF Weight
      <4> QED BY <1>8, <3>1, <3>3, <4>1
    <3>4. CASE m # g /\ t.kid[m][x] # g
      <4>1. t.kid[m][x] # p /\ t.kid[m][x] # o
        <5>1. t.parent[p] = g
          BY DEF g
        <5> QED BY <1>0, <1>2, <3>1, <3>4, <5>1, KidBelow
      <4>2. Weight(u, k, t.kid[m][x]) = Weight(t, h, t.kid[m][x])
        BY <1>6, <1>8, <3>1, <3>4, <4>1, LinkNode DEF Weight
      <4> QED BY <1>8, <3>1, <3>4, <4>2
    <3> QED BY <3>2, <3>3, <3>4
  <2>2. Inside(u, D) \subseteq Nodes
    BY <1>7, InsideNodes
  <2> QED BY <1>7, <1>8, <2>1, <2>2, EvenNow
<1>11. Upset(u, D, k, g, t.parent[g])
  BY <1>1, <1>5, <1>6, <1>7, <1>9, <1>10 DEF Upset
<1>12. FlipTree(t, g, p, s) = u
  BY DEF FlipTree, u, w, v, o, z
<1> QED BY <1>7, <1>11, <1>12 DEF g

\* A node on the outer side.
LEMMA OuterRound ==
  ASSUME NEW t, NEW D, NEW h, NEW n, NEW p, Upset(t, D, h, n, p), p # Nil, t.red[p],
         NEW s \in Sides, t.kid[t.parent[p]][s] = p,
         ~IsRed(t, t.kid[t.parent[p]][Other(s)]), t.kid[p][Other(s)] # n
  PROVE  LET g == t.parent[p]
         IN  /\ Settled(OuterTree(t, g, p, s), RotBelow(t, D, g, s), h)
             /\ Inside(OuterTree(t, g, p, s), RotBelow(t, D, g, s)) = Inside(t, D)
<1> DEFINE g == t.parent[p]
           z == Other(s)
           i == t.kid[p][z]
           u == OuterTree(t, g, p, s)
           E == RotBelow(t, D, g, s)
<1>0. /\ Shape(t, D) /\ Calm(t, D, n) /\ Even(t, D, h, Nil, "left")
      /\ n \in Inside(t, D) /\ t.red[n]
  BY DEF Upset
<1>1. /\ t \in TreeType /\ p \in Nodes /\ g \in Nodes /\ ~t.red[g]
      /\ t.kid[g][s] # Nil /\ t.kid[g][s] = p /\ n = t.kid[p][s] /\ ~IsRed(t, i) /\ z \in Sides
      /\ ~IsRed(t, t.kid[g][z])
  BY RedPair, OtherSide
<1> HIDE DEF g
<1>2. /\ u \in TreeType /\ IsRot(t, u, g, s)
      /\ \A m \in Nodes : u.red[m] = IF m = p THEN t.red[g] ELSE IF m = g THEN TRUE
                                     ELSE IF m = i THEN FALSE ELSE t.red[m]
  <2>1. /\ OuterTree(t, g, t.kid[g][s], s) \in TreeType
        /\ IsRot(t, OuterTree(t, g, t.kid[g][s], s), g, s)
        /\ OuterRed(t, OuterTree(t, g, t.kid[g][s], s), g, t.kid[g][s], t.kid[t.kid[g][s]][Other(s)])
    BY <1>0, <1>1, OuterRotation
  <2> QED BY <1>1, <2>1 DEF OuterRed
<1> HIDE DEF u
<1>3. \A m \in Nodes : u.red[m] = IF m = p THEN t.red[g] ELSE IF m = g THEN TRUE ELSE t.red[m]
  <2>1. i = Nil \/ (i \in Nodes /\ t.red[i] = FALSE)
    <3>1. i \in Link
      BY <1>1, TreeLinks
    <3> QED BY <1>1, <3>1, LinkNode DEF IsRed, TreeType
  <2> HIDE DEF i
  <2> QED BY <1>2, <2>1, LinkNode
<1>4. Shape(u, E) /\ Inside(u, E) = Inside(t, D)
  BY <1>0, <1>1, <1>2, RotShape
<1>5. g # Nil
  BY <1>1, LinkNode
<1>6. Calm(u, E, Nil)
  BY <1>0, <1>1, <1>2, <1>3, SwapCalm
<1>7. Even(u, E, h, Nil, "left")
  BY <1>0, <1>1, <1>2, <1>3, <1>5, SwapEven
<1> QED BY <1>4, <1>6, <1>7 DEF Settled, u, E, g

\* The links after the double rotation of an insert.
InnerTree(t, g, p, n, s) == RotateSetParents(InsertTurn(t, g, p, n, s), g, n, TRUE)

\* A node on the inner side.
LEMMA InnerRound ==
  ASSUME NEW t, NEW D, NEW h, NEW n, NEW p, Upset(t, D, h, n, p), p # Nil, t.red[p],
         NEW s \in Sides, t.kid[t.parent[p]][s] = p,
         ~IsRed(t, t.kid[t.parent[p]][Other(s)]), t.kid[p][Other(s)] = n
  PROVE  \E E : /\ Settled(InnerTree(t, t.parent[p], p, n, s), E, h)
                /\ Inside(InnerTree(t, t.parent[p], p, n, s), E) = Inside(t, D)
<1> DEFINE g == t.parent[p]
           z == Other(s)
           a == t.kid[n][s]
           b == t.kid[n][z]
           y == InsertTurn(t, g, p, n, s)
           u == RotateSetParents(y, g, n, TRUE)
           v == RotTree(t, p, z, t.red)
           E1 == RotBelow(t, D, p, z)
           E2 == RotBelow(v, E1, g, s)
<1>0. /\ Shape(t, D) /\ Calm(t, D, n) /\ Even(t, D, h, Nil, "left")
      /\ n \in Inside(t, D) /\ t.red[n]
  BY DEF Upset
<1>1. /\ t \in TreeType /\ n \in Nodes /\ p \in Nodes /\ g \in Nodes /\ ~t.red[g]
      /\ t.kid[g][s] = p /\ t.kid[g][s] # Nil /\ n # Nil
      /\ \A x \in Sides : ~IsRed(t, t.kid[n][x])
  BY RedPair
<1>2. z \in Sides /\ z # s /\ Other(z) = s /\ ~IsRed(t, t.kid[g][z]) /\ t.kid[p][z] = n
  BY OtherSide
<1>3. IsBend(t, g, s, p, z, n, a, b)
  <2>1. t.kid[t.kid[g][s]][Other(s)] # Nil
    BY <1>1
  <2>2. IsBend(t, g, s, t.kid[g][s], Other(s), t.kid[t.kid[g][s]][Other(s)],
               t.kid[t.kid[t.kid[g][s]][Other(s)]][s], t.kid[t.kid[t.kid[g][s]][Other(s)]][Other(s)])
    BY <1>0, <1>1, <2>1, BendNodes
  <2> QED BY <1>1, <1>2, <2>2
<1>4. IsSwings(t, y, g, p, n, s) /\ \A m \in Nodes : y.red[m] =
              IF m = a \/ m = b THEN FALSE ELSE IF m = p THEN TRUE ELSE t.red[m]
  <2> HIDE DEF g, a, b, z, y
  <2>1. IsSwings(t, y, g, p, n, s) /\ InsertRed(t, y, p, a, b)
    BY <1>1, <1>3, InsertSwings DEF z, y
  <2> QED BY <2>1 DEF InsertRed
<1>5. t.red \in [Nodes -> BOOLEAN]
  BY <1>1 DEF TreeType
<1> HIDE DEF g, y, v, E1
<1>6. /\ v.red = t.red /\ v \in TreeType /\ IsRot(t, v, p, z) /\ Shape(v, E1)
      /\ Inside(v, E1) = Inside(t, D) /\ v.kid[g][s] = n /\ IsSwing(v, y, g, n, s)
  <2>1. IsSwings(t, y, g, t.kid[g][s], t.kid[t.kid[g][s]][Other(s)], s)
    BY <1>1, <1>2, <1>4
  <2>2. IsTurned(t, D, g, s, t.kid[g][s], Other(s), t.kid[t.kid[g][s]][Other(s)], t.red,
                 RotTree(t, t.kid[g][s], Other(s), t.red), RotBelow(t, D, t.kid[g][s], Other(s)), y)
    BY <1>0, <1>1, <1>2, <1>5, <2>1, TwoSwings
  <2>3. IsTurned(t, D, g, s, p, z, n, t.red, v, E1, y)
    BY <1>1, <1>2, <2>2 DEF v, E1
  <2> QED BY <2>3 DEF IsTurned
<1>7. /\ p # n /\ t.parent[p] = g /\ t.parent[n] = p /\ g # n /\ p # g /\ g # Nil /\ p # Nil /\ t.root # p
      /\ a # g /\ b # g /\ a # n /\ b # n /\ b # p /\ a # p
      /\ (a # Nil => a \in Nodes) /\ (b # Nil => b \in Nodes)
  BY <1>1, <1>3, LinkNode DEF IsBend
<1>8. /\ u \in TreeType /\ IsRot(v, u, g, s)
      /\ \A m \in Nodes : u.red[m] = IF m = n THEN y.red[g] ELSE IF m = g THEN TRUE ELSE y.red[m]
  <2>1. \A r \in BOOLEAN : /\ RotateSetParents(y, g, n, r) \in TreeType
                           /\ IsRot(v, RotateSetParents(y, g, n, r), g, s)
                           /\ \A m \in Nodes : RotateSetParents(y, g, n, r).red[m] =
                                IF m = n THEN y.red[g] ELSE IF m = g THEN r ELSE y.red[m]
    BY <1>1, <1>6, RotateIs
  <2> QED BY <2>1, Zenon
<1> HIDE DEF u, z, a, b
<1>9. (a # Nil => ~t.red[a]) /\ (b # Nil => ~t.red[b])
  BY <1>1, <1>2 DEF a, b, IsRed
<1>10. \A m \in Nodes : u.red[m] = IF m = n THEN v.red[g] ELSE IF m = g THEN TRUE ELSE v.red[m]
  <2>1. y.red[g] = t.red[g]
    BY <1>1, <1>4, <1>7
  <2>2. \A m \in Nodes : m = a \/ m = b => t.red[m] = FALSE
    BY <1>5, <1>9, LinkNode
  <2>3. t.red[p] = TRUE
    BY <1>1, <1>5
  <2>4. \A m \in Nodes : y.red[m] = t.red[m]
    BY <1>4, <1>5, <2>2, <2>3
  <2> QED BY <1>6, <1>8, <2>1, <2>4
<1>11. /\ v.root = IF t.root = p THEN n ELSE t.root
       /\ \A m \in Nodes : \A x \in Sides :
            v.kid[m][x] = IF m = p /\ x = z THEN a
                          ELSE IF m = n /\ x = s THEN p
                          ELSE IF t.kid[m][x] = p THEN n ELSE t.kid[m][x]
       /\ \A m \in Nodes :
            v.parent[m] = IF m = n THEN g ELSE IF m = p THEN n
                          ELSE IF m = a THEN p ELSE t.parent[m]
  <2>1. t.kid[n][Other(z)] = a
    BY <1>2 DEF a
  <2> QED BY <1>2, <1>6, <1>7, <2>1 DEF IsRot
<1>12. Even(v, E1, h, Nil, "left")
  <2>1. \A m \in Nodes : v.red[m] = IF m = n THEN t.red[p] ELSE IF m = p THEN TRUE ELSE t.red[m]
    BY <1>0, <1>5, <1>6
  <2> QED BY ZenonT(60), <1>0, <1>1, <1>2, <1>6, <1>7, <2>1, SwapEven DEF E1
<1>13. Calm(v, E1, p)
  <2>1. ASSUME NEW m \in Inside(t, D), v.red[m], m # p PROVE m # v.root /\ ~v.red[v.parent[m]]
    <3>1. m \in Nodes /\ m # Nil /\ t.red[m]
      BY <1>0, <1>6, <2>1, InsideNodes, LinkNode
    <3>2. CASE m = n
      <4>1. m # t.root
        BY <1>0, <1>1, <1>7, <3>2, InsideLinked
      <4> QED BY <1>1, <1>6, <1>7, <1>11, <3>2, <4>1
    <3>3. CASE m # n
      <4>1. t.parent[m] \in Nodes /\ ~t.red[t.parent[m]] /\ m # t.root /\ m # a
        BY <1>0, <1>9, <3>1, <3>3, CalmUp
      <4> QED BY <1>6, <1>7, <1>11, <2>1, <3>1, <3>3, <4>1
    <3> QED BY <3>2, <3>3
  <2> QED BY <1>6, <2>1 DEF Calm
<1>14. v.kid[g][z] = t.kid[g][z] /\ v.kid[n][z] = b /\ v.kid[n][s] = p
  <2>1. t.kid[g][z] # p /\ t.kid[n][z] = b
    BY <1>0, <1>1, <1>2, KidBelow DEF b, z
  <2> QED BY <1>1, <1>2, <1>7, <1>11, <2>1
<1>15. Shape(u, E2) /\ Inside(u, E2) = Inside(t, D)
  BY <1>1, <1>6, <1>8, RotShape
<1>16. v.kid[g][s] # Nil /\ v.red[v.kid[g][s]] /\ ~v.red[g]
  BY <1>0, <1>1, <1>6
<1>17. Even(u, E2, h, Nil, "left")
  BY ZenonT(60), <1>1, <1>6, <1>7, <1>8, <1>10, <1>12, <1>16, SwapEven
<1>18. Calm(u, E2, Nil)
  <2>1. ~IsRed(v, v.kid[g][Other(s)]) /\ ~IsRed(v, v.kid[v.kid[g][s]][Other(s)])
    BY <1>2, <1>6, <1>9, <1>14 DEF IsRed, z
  <2>2. p = v.kid[v.kid[g][s]][s]
    BY <1>6, <1>14
  <2> QED BY <1>1, <1>6, <1>8, <1>10, <1>13, <1>16, <2>1, <2>2, SwapCalm
<1> HIDE DEF E2
<1>19. \E E : Settled(u, E, h) /\ Inside(u, E) = Inside(t, D)
  BY <1>15, <1>17, <1>18 DEF Settled
<1>20. InnerTree(t, g, p, n, s) = u
  BY DEF InnerTree, u, y
<1> QED BY <1>19, <1>20 DEF g

-----------------------------------------------------------------------------
(* The rounds of _hev_rbtree_erase_color.                                  *)

\* The side of p that n is on, as the code finds it.
Near(t, p, n) == IF t.kid[p].right # n THEN "left" ELSE "right"

\* A black node is missing below p on side d, where n is.
ShortAt(t, D, h, n, p, d) ==
    /\ Shape(t, D) /\ Calm(t, D, Nil) /\ Even(t, D, h, p, d)
    /\ p \in Inside(t, D) /\ d \in Sides /\ t.kid[p][d] = n /\ ~IsRed(t, n)

\* A black node is missing below p on the side of n.
Short(t, D, h, n, p) == ShortAt(t, D, h, n, p, Near(t, p, n))

\* Then n has a sibling, whose fields the code reads without looking whether it is there.
LEMMA ShortSibling ==
  ASSUME NEW t, NEW D, NEW h, NEW n, NEW p, NEW d, ShortAt(t, D, h, n, p, d)
  PROVE  /\ t \in TreeType /\ h \in [Nodes -> Nat] /\ p \in Nodes /\ d \in Sides /\ n \in Link
         /\ Other(d) \in Sides /\ Other(d) # d /\ Other(Other(d)) = d
         /\ t.kid[p][Other(d)] # Nil /\ t.kid[p][Other(d)] \in Nodes /\ t.kid[p][Other(d)] # n
         /\ h[p] = Weight(t, h, t.kid[p][Other(d)]) /\ h[p] = Weight(t, h, n) + 1
         /\ Weight(t, h, n) \in Nat
         /\ d = Near(t, p, n)
<1>1. /\ Shape(t, D) /\ Even(t, D, h, p, d)
      /\ p \in Inside(t, D) /\ d \in Sides /\ t.kid[p][d] = n
  BY DEF ShortAt
<1>2. /\ t \in TreeType /\ h \in [Nodes -> Nat] /\ p \in Nodes
      /\ Other(d) \in Sides /\ Other(d) # d /\ Other(Other(d)) = d
  BY <1>1, ShapeIs, InsideNodes, OtherSide DEF Even
<1>3. n \in Link /\ t.kid[p][Other(d)] \in Link
  BY <1>1, <1>2, TreeLinks
<1>4. Weight(t, h, n) \in Nat /\ Weight(t, h, t.kid[p][Other(d)]) \in Nat
  BY <1>2, <1>3, WeightNat
<1>5. h[p] = Weight(t, h, t.kid[p][Other(d)]) + 0 /\ h[p] = Weight(t, h, n) + 1
  <2>1. Lack(p, d, p, d) = 1 /\ Lack(p, Other(d), p, d) = 0
    BY <1>2 DEF Lack
  <2> QED BY <1>1, <1>2, <2>1 DEF Even
<1>6. t.kid[p][Other(d)] # Nil
  <2>1. Weight(t, h, Nil) = 0
    BY DEF Weight
  <2> QED BY <1>4, <1>5, <2>1
<1>7. t.kid[p][Other(d)] # n
  BY <1>4, <1>5
<1>8. d = Near(t, p, n)
  BY <1>1, <1>7 DEF Near, Sides, Other
<1> QED BY <1>1, <1>2, <1>3, <1>4, <1>5, <1>6, <1>7, <1>8, LinkNode

\* Case 1.
SiblingTree(t, p, c, s) == IF ~t.red[c] THEN t ELSE OuterTree(t, p, c, s)

\* Case 1: a red sibling is rotated over p, and n has a black sibling.
LEMMA SiblingRound ==
  ASSUME NEW t, NEW D, NEW h, NEW n, NEW p, NEW d, ShortAt(t, D, h, n, p, d)
  PROVE  \E u, E : /\ u = SiblingTree(t, p, t.kid[p][Other(d)], Other(d))
                   /\ ShortAt(u, E, h, n, p, d) /\ Inside(u, E) = Inside(t, D)
                   /\ ~u.red[u.kid[p][Other(d)]]
<1> DEFINE z == Other(d)
           c == t.kid[p][z]
           i == t.kid[c][d]
           u == SiblingTree(t, p, c, z)
           E == RotBelow(t, D, p, z)
<1>0. /\ Shape(t, D) /\ Calm(t, D, Nil) /\ Even(t, D, h, p, d)
      /\ p \in Inside(t, D) /\ d \in Sides /\ t.kid[p][d] = n /\ ~IsRed(t, n)
  BY DEF ShortAt
<1>1. /\ t \in TreeType /\ h \in [Nodes -> Nat] /\ p \in Nodes /\ n \in Link
      /\ z \in Sides /\ z # d /\ Other(z) = d
      /\ c # Nil /\ c \in Nodes /\ c # n
  BY ShortSibling
<1>2. CASE ~t.red[c]
  <2>1. u = t
    BY <1>2 DEF SiblingTree
  <2> QED BY <1>2, <2>1
<1>3. CASE t.red[c]
  <2>0. c = t.kid[p][z] /\ i = t.kid[c][Other(z)] /\ t.kid[p][Other(z)] = n
    BY <1>0, <1>1
  <2>1. /\ c # p /\ t.parent[c] = p /\ c \in Inside(t, D) /\ p # Nil
    BY <1>0, <1>1, KidBelow, InsideLinked, LinkNode
  <2>2. ~t.red[p]
    BY <1>0, <1>1, <1>3, <2>1, CalmUp
  <2>3. ~IsRed(t, i)
    <3>1. CASE i = Nil
      BY <3>1 DEF IsRed
    <3>2. CASE i # Nil
      BY <1>0, <1>1, <1>3, <2>1, <3>2, CalmKid
    <3> QED BY <3>1, <3>2
  <2>4. u = OuterTree(t, p, t.kid[p][z], z)
    BY <1>3 DEF SiblingTree
  <2> HIDE DEF u, E
  <2>5. /\ u \in TreeType /\ IsRot(t, u, p, z) /\ OuterRed(t, u, p, c, i)
    <3>1. /\ OuterTree(t, p, t.kid[p][z], z) \in TreeType
          /\ IsRot(t, OuterTree(t, p, t.kid[p][z], z), p, z)
          /\ OuterRed(t, OuterTree(t, p, t.kid[p][z], z), p, t.kid[p][z], t.kid[t.kid[p][z]][Other(z)])
      BY <1>0, <1>1, OuterRotation
    <3> QED BY <1>1, <2>4, <3>1
  <2> HIDE DEF c, i, z
  <2>6. \A m \in Nodes : u.red[m] = IF m = c THEN t.red[p] ELSE IF m = p THEN TRUE ELSE t.red[m]
    <3>1. i = Nil \/ (i \in Nodes /\ t.red[i] = FALSE)
      <4>1. i \in Link
        BY <1>0, <1>1, <2>0, TreeLinks
      <4> QED BY <1>1, <2>3, <4>1, LinkNode DEF IsRed, TreeType
    <3> QED BY <2>5, <3>1, LinkNode DEF OuterRed
  <2>7. Shape(u, E) /\ Inside(u, E) = Inside(t, D)
    BY <1>0, <1>1, <2>0, <2>5, RotShape DEF E
  <2>8. Even(u, E, h, p, d)
    BY <1>0, <1>1, <1>3, <2>0, <2>1, <2>5, <2>6, SwapEven DEF E
  <2>9. Calm(u, E, Nil)
    BY <1>0, <1>1, <1>3, <2>0, <2>2, <2>3, <2>5, <2>6, SwapCalm DEF E
  <2>10. n # c /\ n # p
    BY <1>0, <1>1, <2>1, KidBelow, LinkNode
  <2>11. u.kid[p][d] = n
    <3>1. u.kid[p][d] = IF n = p THEN c ELSE n
      <4>1. u.kid[p][d] = IF p = p /\ d = z THEN t.kid[t.kid[p][z]][Other(z)]
                          ELSE IF p = t.kid[p][z] /\ d = Other(z) THEN p
                          ELSE IF t.kid[p][d] = p THEN t.kid[p][z] ELSE t.kid[p][d]
        BY <1>0, <1>1, <2>5 DEF IsRot
      <4> QED BY <1>0, <1>1, <2>0, <2>1, <4>1
    <3> QED BY <2>10, <3>1
  <2>12. ~IsRed(u, n)
    BY <1>0, <1>1, <2>6, <2>10, LinkNode DEF IsRed
  <2>13. ShortAt(u, E, h, n, p, d)
    BY <1>0, <2>7, <2>8, <2>9, <2>11, <2>12 DEF ShortAt
  <2>14. ~u.red[u.kid[p][z]]
    <3>1. u.red[p] /\ p \in Inside(u, E)
      BY <1>0, <1>1, <2>1, <2>6, <2>7
    <3>2. u.kid[p][z] # Nil
      BY <2>13, ShortSibling DEF z
    <3> QED BY <1>1, <2>7, <2>9, <3>1, <3>2, CalmKid DEF IsRed
  <2>15. \E EE : ShortAt(u, EE, h, n, p, d) /\ Inside(u, EE) = Inside(t, D) /\ ~u.red[u.kid[p][z]]
    BY <2>7, <2>13, <2>14
  <2> QED BY <2>15 DEF u, c, z
<1> QED BY <1>2, <1>3

\* Case 2: where both children of the black sibling are black, it becomes red.
\* Then a red parent becomes black, or the black node is missing below it, too.
LEMMA ShortFlip ==
  ASSUME NEW t, NEW D, NEW h, NEW n, NEW p, NEW d, ShortAt(t, D, h, n, p, d),
         ~t.red[t.kid[p][Other(d)]],
         \A s \in Sides : ~IsRed(t, t.kid[t.kid[p][Other(d)]][s])
  PROVE  \E v, k :
           /\ v = [t EXCEPT !.red[t.kid[p][Other(d)]] = TRUE]
           /\ Inside(v, D) = Inside(t, D) /\ Inside(SetBlack(v, p), D) = Inside(t, D)
           /\ v.red[p] => Settled(SetBlack(v, p), D, k)
           /\ ~v.red[p] /\ v.parent[p] = Nil => Settled(v, D, k)
           /\ ~v.red[p] /\ v.parent[p] # Nil => Short(v, D, k, p, v.parent[p])
           /\ v.red[p] = t.red[p] /\ v.parent = t.parent
<1> DEFINE z == Other(d)
           c == t.kid[p][z]
           v == [t EXCEPT !.red[c] = TRUE]
           w == SetBlack(v, p)
           k == [h EXCEPT ![p] = h[p] - 1]
<1>0. /\ Shape(t, D) /\ Calm(t, D, Nil) /\ Even(t, D, h, p, d)
      /\ p \in Inside(t, D) /\ d \in Sides /\ t.kid[p][d] = n /\ ~IsRed(t, n)
  BY DEF ShortAt
<1>1. /\ t \in TreeType /\ h \in [Nodes -> Nat] /\ p \in Nodes /\ n \in Link
      /\ z \in Sides /\ z # d /\ Other(z) = d
      /\ c # Nil /\ c \in Nodes /\ c # n
      /\ h[p] = Weight(t, h, c) /\ h[p] = Weight(t, h, n) + 1 /\ Weight(t, h, n) \in Nat
      /\ \A x \in Sides : x = d \/ x = z
  BY ShortSibling, OtherSide
<1>2. /\ c # p /\ t.parent[c] = p /\ p # Nil /\ c \in Inside(t, D)
      /\ n # Nil => n \in Nodes /\ n # p
  BY <1>0, <1>1, KidBelow, InsideLinked, LinkNode
<1>3. ~t.red[c] /\ \A s \in Sides : ~IsRed(t, t.kid[c][s])
  OBVIOUS
<1>4. t.kid[p][z] = c /\ t.kid[p][d] = n
  BY <1>0
<1> HIDE DEF z, c
<1>5. /\ v \in TreeType /\ v.root = t.root /\ v.kid = t.kid /\ v.parent = t.parent
      /\ \A m \in Nodes : v.red[m] = IF m = c THEN TRUE ELSE t.red[m]
  BY <1>1 DEF TreeType
<1> HIDE DEF v
<1>6. /\ w \in TreeType /\ w.root = v.root /\ w.kid = v.kid /\ w.parent = v.parent
      /\ \A m \in Nodes : w.red[m] = IF m = p THEN FALSE ELSE v.red[m]
  BY ZenonT(60), <1>1, <1>2, <1>5, SetBlackIs, LinkNode
<1> HIDE DEF w
<1>7. /\ Shape(v, D) /\ Inside(v, D) = Inside(t, D)
      /\ Shape(w, D) /\ Inside(w, D) = Inside(t, D)
  BY <1>0, <1>5, <1>6, ShapeRed
<1>8. /\ k \in [Nodes -> Nat] /\ k[p] = h[p] - 1 /\ k[p] \in Nat /\ \A m \in Nodes : m # p => k[m] = h[m]
      /\ h[p] = h[c] + 1 /\ k[p] = h[c] /\ k[p] = Weight(t, h, n) /\ h[p] = k[p] + 1
  <2>1. h[p] = h[c] + 1 /\ h[p] \in Nat /\ h[c] \in Nat
    BY <1>1, <1>3 DEF Weight
  <2>2. h[p] - 1 = Weight(t, h, n) /\ h[p] - 1 \in Nat
    BY <1>1, <2>1
  <2> QED BY <1>1, <2>1, <2>2
<1> HIDE DEF k
<1>9. ASSUME NEW u \in TreeType, u.kid = t.kid,
             \A m \in Nodes : m # p => u.red[m] = v.red[m],
             NEW m \in Inside(t, D), NEW x \in Sides
      PROVE  /\ m \in Nodes /\ t.kid[m][x] \in Link
             /\ t.kid[m][x] # p => k[m] = Weight(u, k, u.kid[m][x])
             /\ t.kid[m][x] = p => k[m] = h[m] /\ h[m] = Weight(t, h, p) + 0
  <2>1. m \in Nodes /\ t.kid[m][x] \in Link
    BY <1>0, <1>1, InsideNodes, TreeLinks
  <2>2. h[m] = Weight(t, h, t.kid[m][x]) + Lack(m, x, p, d)
    BY <1>0 DEF Even
  <2>3. CASE m = p
    <3>1. t.kid[m][x] # p
      BY <1>1, <1>2, <1>4, <2>3, LinkNode
    <3>2. CASE x = d
      <4>1. Weight(u, k, n) = Weight(t, h, n)
        BY <1>1, <1>2, <1>5, <1>8, <1>9 DEF Weight
      <4> QED BY <1>4, <1>8, <1>9, <2>1, <2>3, <3>1, <3>2, <4>1
    <3>3. CASE x = z
      <4>1. Weight(u, k, c) = k[c] /\ k[c] = h[c]
        BY <1>1, <1>2, <1>5, <1>8, <1>9 DEF Weight
      <4> QED BY <1>4, <1>8, <1>9, <2>1, <2>3, <3>1, <3>3, <4>1
    <3> QED BY <1>1, <3>2, <3>3
  <2>4. CASE m # p
    <3>1. k[m] = h[m] /\ h[m] \in Nat /\ Lack(m, x, p, d) = 0
      BY <1>1, <1>8, <2>1, <2>4 DEF Lack
    <3>2. Weight(t, h, t.kid[m][x]) \in Nat
      BY <1>1, <2>1, WeightNat
    <3>3. t.kid[m][x] # c
      BY <1>0, <1>1, <1>2, <2>1, <2>4, KidBelow
    <3>4. t.kid[m][x] # p => Weight(u, k, t.kid[m][x]) = Weight(t, h, t.kid[m][x])
      BY <1>5, <1>8, <1>9, <2>1, <3>3, LinkNode DEF Weight
    <3> QED BY <1>9, <2>1, <2>2, <3>1, <3>2, <3>4
  <2> QED BY <2>3, <2>4
<1>10. \A m \in Inside(t, D) : m \in Nodes /\ (t.red[m] =>
          m # t.root /\ ~t.red[t.parent[m]] /\ t.parent[m] \in Nodes /\ t.parent[m] # c)
  <2>1. ASSUME NEW m \in Inside(t, D), t.red[m], t.parent[m] = c PROVE FALSE
    <3>1. m \in Nodes /\ m # Nil
      BY <1>0, InsideNodes, LinkNode
    <3>2. m = t.kid[c][d] \/ m = t.kid[c][z]
      BY <1>0, <1>1, <2>1, <3>1, KidSide DEF z
    <3> QED BY <1>0, <1>1, <1>3, <2>1, <3>1, <3>2 DEF IsRed
  <2>2. \A m \in Inside(t, D) : t.red[m] => m # Nil
    BY <1>0, InsideNodes, LinkNode
  <2> QED BY <1>0, <2>1, <2>2, CalmUp, InsideNodes, LinkNode
<1>11. ASSUME NEW m \in Inside(t, D), v.red[m], m # p
       PROVE  m # t.root /\ (t.parent[m] = p \/ ~v.red[t.parent[m]]) /\ t.parent[m] \in Nodes
  <2>1. CASE m = c
    BY <1>0, <1>1, <1>2, <2>1, InsideLinked, LinkNode
  <2>2. CASE m # c
    BY <1>5, <1>10, <1>11, <2>2
  <2> QED BY <2>1, <2>2
<1>12. v.red[p] = t.red[p]
  BY <1>1, <1>2, <1>5
<1>13. ASSUME t.red[p] PROVE Settled(w, D, k)
  <2>1. Calm(w, D, Nil)
    <3>1. ASSUME NEW m \in Inside(t, D), w.red[m] PROVE m # w.root /\ ~w.red[w.parent[m]]
      <4>1. m \in Nodes /\ m # p /\ v.red[m]
        BY <1>1, <1>6, <1>10, <3>1
      <4>2. m # t.root /\ (t.parent[m] = p \/ ~v.red[t.parent[m]]) /\ t.parent[m] \in Nodes
        BY <1>11, <4>1
      <4> QED BY <1>1, <1>5, <1>6, <4>2
    <3> QED BY <1>7, <3>1 DEF Calm
  <2>2. ASSUME NEW m \in Inside(t, D), NEW x \in Sides PROVE k[m] = Weight(w, k, w.kid[m][x])
    <3>1. w.kid = t.kid /\ \A y \in Nodes : y # p => w.red[y] = v.red[y]
      BY <1>5, <1>6
    <3>2. CASE t.kid[m][x] # p
      BY <1>6, <1>9, <3>1, <3>2
    <3>3. CASE t.kid[m][x] = p
      <4>1. k[m] = h[m] /\ h[m] = Weight(t, h, p) + 0
        BY <1>6, <1>9, <3>1, <3>3
      <4>2. Weight(t, h, p) = h[p] /\ Weight(w, k, p) = k[p] + 1
        BY <1>1, <1>2, <1>6, <1>13 DEF Weight
      <4>3. k[m] = k[p] + 1
        BY <1>8, <4>1, <4>2
      <4> QED BY <3>1, <3>3, <4>2, <4>3
    <3> QED BY <3>2, <3>3
  <2>3. Inside(w, D) \subseteq Nodes
    BY <1>7, InsideNodes
  <2>4. Even(w, D, k, Nil, "left")
    BY <1>7, <1>8, <2>2, <2>3, EvenNow
  <2> QED BY <1>7, <2>1, <2>4 DEF Settled
<1>14. ASSUME ~t.red[p] PROVE Calm(v, D, Nil)
  <2>1. ASSUME NEW m \in Inside(t, D), v.red[m] PROVE m # v.root /\ ~v.red[v.parent[m]]
    <3>1. m # p
      BY <1>12, <1>14, <2>1
    <3> QED BY <1>5, <1>11, <1>12, <1>14, <2>1, <3>1
  <2> QED BY <1>7, <2>1 DEF Calm
<1>15. ASSUME ~t.red[p], t.parent[p] = Nil PROVE Settled(v, D, k)
  <2>1. ASSUME NEW m \in Inside(t, D), NEW x \in Sides PROVE k[m] = Weight(v, k, v.kid[m][x])
    <3>1. t.kid[m][x] # p
      <4>1. m \in Nodes
        BY <1>10
      <4> QED BY <1>0, <1>2, <1>15, <4>1, KidBelow, LinkNode
    <3> QED BY <1>5, <1>9, <3>1
  <2>2. Inside(v, D) \subseteq Nodes
    BY <1>7, InsideNodes
  <2>3. Even(v, D, k, Nil, "left")
    BY <1>7, <1>8, <2>1, <2>2, EvenNow
  <2> QED BY <1>7, <1>14, <1>15, <2>3 DEF Settled
<1>16. ASSUME ~t.red[p], t.parent[p] # Nil PROVE Short(v, D, k, p, t.parent[p])
  <2> DEFINE g == t.parent[p]
  <2>1. g \in Inside(t, D) /\ g \in Nodes
    BY <1>0, <1>1, <1>16, InsideLinked, InsideNodes
  <2>2. PICK x \in Sides : t.kid[g][x] = p
    BY <1>0, <1>1, <1>16, <2>1 DEF Shape, Linked
  <2> HIDE DEF g
  <2>3. \A m \in Nodes : \A y \in Sides : t.kid[m][y] = p => m = g /\ y = x
    BY <1>0, <1>2, <2>1, <2>2, KidOnce
  <2>4. ASSUME NEW m \in Inside(t, D), NEW y \in Sides
        PROVE  k[m] = Weight(v, k, v.kid[m][y]) + Lack(m, y, g, x)
    <3>0. m \in Nodes /\ k[m] \in Nat
      BY <1>8, <1>10
    <3>1. CASE t.kid[m][y] = p
      <4>1. Lack(m, y, g, x) = 1
        BY <2>3, <3>0, <3>1 DEF Lack
      <4>2. k[m] = h[m] /\ h[m] = Weight(t, h, p) + 0
        BY <1>5, <1>9, <3>1
      <4>3. Weight(t, h, p) = h[p] + 1 /\ Weight(v, k, p) = k[p] + 1
        BY <1>1, <1>2, <1>12, <1>16 DEF Weight
      <4>4. k[m] = (k[p] + 1) + 1
        BY <1>8, <4>2, <4>3
      <4>5. v.kid[m][y] = p
        BY <1>5, <3>1
      <4> QED BY <4>1, <4>3, <4>4, <4>5
    <3>2. CASE t.kid[m][y] # p
      <4>1. Lack(m, y, g, x) = 0
        BY <2>2, <3>2 DEF Lack
      <4> QED BY <1>5, <1>9, <3>0, <3>2, <4>1
    <3> QED BY <3>1, <3>2
  <2>5. Even(v, D, k, g, x)
    BY <1>7, <1>8, <2>4 DEF Even
  <2>6. ShortAt(v, D, k, p, g, x)
    BY <1>5, <1>7, <1>12, <1>14, <1>16, <2>1, <2>2, <2>5 DEF ShortAt, IsRed
  <2>7. x = Near(v, g, p)
    BY <2>6, ShortSibling
  <2> QED BY <2>6, <2>7 DEF Short, g
<1>17. /\ Inside(v, D) = Inside(t, D) /\ Inside(w, D) = Inside(t, D)
       /\ v.red[p] => Settled(w, D, k)
       /\ ~v.red[p] /\ v.parent[p] = Nil => Settled(v, D, k)
       /\ ~v.red[p] /\ v.parent[p] # Nil => Short(v, D, k, p, v.parent[p])
       /\ v.red[p] = t.red[p] /\ v.parent = t.parent
  BY <1>5, <1>7, <1>12, <1>13, <1>15, <1>16
<1>18. v = [t EXCEPT !.red[t.kid[p][Other(d)]] = TRUE]
  BY DEF v, c, z
<1> QED BY <1>17, <1>18 DEF w

\* The links a rotation of _hev_rbtree_erase_color leaves to the last helper.
OuterTurn(t, p, c, o, s) == SetBlack(SetParent(Swing(t, p, c, s), o, c), o)

\* The links after the rotation of case 4.
OuterRise(t, p, c, o, s) == RotateSetParents(OuterTurn(t, p, c, o, s), p, c, FALSE)

\* Case 4: the outer child of the black sibling is red.
LEMMA OuterErase ==
  ASSUME NEW t, NEW D, NEW h, NEW n, NEW p, NEW d, ShortAt(t, D, h, n, p, d),
         ~t.red[t.kid[p][Other(d)]],
         IsRed(t, t.kid[t.kid[p][Other(d)]][Other(d)])
  PROVE  \E u, E, k, c :
           /\ c = t.kid[p][Other(d)]
           /\ u = OuterRise(t, p, c, t.kid[c][Other(d)], Other(d))
           /\ Settled(u, E, k) /\ Inside(u, E) = Inside(t, D)
<1> DEFINE z == Other(d)
           c == t.kid[p][z]
           o == t.kid[c][z]
           i == t.kid[c][d]
           w == Swing(t, p, c, z)
           v == SetParent(w, o, c)
           y == SetBlack(v, o)
           u == RotateSetParents(y, p, c, FALSE)
           E == RotBelow(t, D, p, z)
           k == [h EXCEPT ![p] = h[c], ![c] = h[p]]
<1>0. /\ Shape(t, D) /\ Calm(t, D, Nil) /\ Even(t, D, h, p, d)
      /\ p \in Inside(t, D) /\ d \in Sides /\ t.kid[p][d] = n
  BY DEF ShortAt
<1>1. /\ t \in TreeType /\ h \in [Nodes -> Nat] /\ p \in Nodes
      /\ z \in Sides /\ z # d /\ Other(z) = d
      /\ c # Nil /\ c \in Nodes
  BY ShortSibling
<1>2. o # Nil /\ t.red[o] /\ ~t.red[c]
  BY DEF IsRed
<1>3. t.kid[p][z] = c /\ t.kid[c][z] = o /\ t.kid[c][d] = i
  OBVIOUS
<1> HIDE DEF c, o, i, z
<1>4. /\ c # p /\ t.parent[c] = p /\ p # Nil
      /\ o \in Nodes /\ t.parent[o] = c /\ o # c /\ o # i /\ o \in Link /\ c \in Link
  BY <1>0, <1>1, <1>2, <1>3, KidBelow, LinkNode
<1>5. /\ w \in TreeType /\ w.root = t.root
      /\ \A m \in Nodes : \A x \in Sides :
           w.kid[m][x] = IF m = p /\ x = z THEN i ELSE IF m = c /\ x = d THEN p ELSE t.kid[m][x]
      /\ \A m \in Nodes : w.parent[m] = IF m = i THEN p ELSE t.parent[m]
      /\ \A m \in Nodes : w.red[m] = t.red[m]
  <2>1. IsPulled(t, w, p, c, z) /\ SameRed(t, w, Nil)
    BY <1>1, <1>4, SwingOf
  <2> HIDE DEF w
  <2>2. /\ w \in TreeType /\ w.root = t.root
        /\ \A m \in Nodes : \A x \in Sides :
             w.kid[m][x] = IF m = p /\ x = z THEN t.kid[c][Other(z)]
                           ELSE IF m = c /\ x = Other(z) THEN p ELSE t.kid[m][x]
        /\ \A m \in Nodes : w.parent[m] = IF m = t.kid[c][Other(z)] THEN p ELSE t.parent[m]
        /\ \A m \in Nodes : w.red[m] = IF m = Nil THEN FALSE ELSE t.red[m]
    BY <2>1 DEF IsPulled, SameRed
  <2>3. Other(z) = d /\ t.kid[c][Other(z)] = i /\ \A m \in Nodes : m # Nil
    BY <1>1, <1>3, LinkNode
  <2> QED BY <2>2, <2>3
<1> HIDE DEF w
<1>6. /\ v \in TreeType /\ v.root = w.root /\ v.kid = w.kid /\ v.red = w.red
      /\ \A m \in Nodes : v.parent[m] = IF m = o THEN c ELSE w.parent[m]
  BY <1>4, <1>5, SetParentIs
<1> HIDE DEF v
<1>7. /\ y \in TreeType /\ y.root = v.root /\ y.kid = v.kid /\ y.parent = v.parent
      /\ \A m \in Nodes : y.red[m] = IF m = o THEN FALSE ELSE v.red[m]
  BY <1>4, <1>6, SetBlackIs
<1> HIDE DEF y
<1>8. IsSwing(t, y, p, c, z)
  <2>1. /\ y.root = t.root
        /\ \A m \in Nodes : \A x \in Sides :
             y.kid[m][x] = IF m = p /\ x = z THEN i ELSE IF m = c /\ x = d THEN p ELSE t.kid[m][x]
    BY <1>5, <1>6, <1>7
  <2>2. \A m \in Nodes : y.parent[m] = IF m = i THEN p ELSE t.parent[m]
    BY <1>4, <1>5, <1>6, <1>7
  <2>3. Other(z) = d /\ t.kid[c][Other(z)] = i
    BY <1>1, <1>3
  <2> QED BY <1>7, <2>1, <2>2, <2>3 DEF IsSwing
<1>9. \A m \in Nodes : y.red[m] = IF m = o THEN FALSE ELSE t.red[m]
  BY ZenonT(60), <1>5, <1>6, <1>7
<1>10. /\ u \in TreeType /\ IsRot(t, u, p, z)
       /\ \A m \in Nodes : u.red[m] = IF m = c THEN y.red[p] ELSE IF m = p THEN FALSE ELSE y.red[m]
  <2>1. \A r \in BOOLEAN : /\ RotateSetParents(y, p, c, r) \in TreeType
                           /\ IsRot(t, RotateSetParents(y, p, c, r), p, z)
                           /\ \A m \in Nodes : RotateSetParents(y, p, c, r).red[m] =
                                IF m = c THEN y.red[p] ELSE IF m = p THEN r ELSE y.red[m]
    BY <1>0, <1>1, <1>3, <1>8, RotateIs
  <2> QED BY <2>1, Zenon
<1> HIDE DEF u
<1>11. \A m \in Nodes : u.red[m] = IF m = c THEN t.red[p] ELSE IF m = p \/ m = o THEN FALSE ELSE t.red[m]
  <2>1. o # p
    BY <1>0, <1>1, <1>2, <1>3, <1>4, BelowNodes, KidBelow
  <2> QED BY <1>1, <1>9, <1>10, <2>1
<1>12. Shape(u, E) /\ Inside(u, E) = Inside(t, D)
  BY <1>0, <1>1, <1>3, <1>10, RotShape
<1>13. Calm(u, E, Nil)
  BY <1>0, <1>1, <1>2, <1>3, <1>10, <1>11, OuterCalm
<1>14. Even(u, E, k, Nil, "left")
  <2>1. Even(t, D, h, p, Other(z))
    BY <1>0, <1>1
  <2>2. \A m \in Nodes : u.red[m] = IF m = t.kid[p][z] THEN t.red[p]
                                    ELSE IF m = p \/ m = t.kid[t.kid[p][z]][z] THEN FALSE
                                    ELSE t.red[m]
    BY <1>3, <1>11
  <2>3. /\ t.kid[p][z] # Nil /\ ~t.red[t.kid[p][z]]
        /\ t.kid[t.kid[p][z]][z] # Nil /\ t.red[t.kid[t.kid[p][z]][z]]
    BY <1>1, <1>2, <1>3
  <2>4. Even(u, RotBelow(t, D, p, z), [h EXCEPT ![p] = h[t.kid[p][z]], ![t.kid[p][z]] = h[p]], Nil, "left")
    BY <1>0, <1>1, <1>10, <2>1, <2>2, <2>3, OuterEven
  <2> QED BY <1>3, <2>4
<1> HIDE DEF E, k
<1>15. \E EE, kk : Settled(u, EE, kk) /\ Inside(u, EE) = Inside(t, D)
  BY <1>12, <1>13, <1>14 DEF Settled
<1>16. u = OuterRise(t, p, c, o, z)
  BY DEF u, y, v, w, OuterTurn, OuterRise
<1> QED BY <1>15, <1>16 DEF c, o, z

\* The links after the double rotation of case 3.
InnerRise(t, p, c, top, s) == RotateSetParents(EraseTurn(t, p, c, top, s), p, top, FALSE)

\* Case 3: the inner child of the black sibling alone is red.
LEMMA InnerErase ==
  ASSUME NEW t, NEW D, NEW h, NEW n, NEW p, NEW d, ShortAt(t, D, h, n, p, d),
         ~t.red[t.kid[p][Other(d)]],
         ~IsRed(t, t.kid[t.kid[p][Other(d)]][Other(d)]),
         IsRed(t, t.kid[t.kid[p][Other(d)]][d])
  PROVE  \E u, E, k, c, top :
           /\ c = t.kid[p][Other(d)] /\ top = t.kid[c][d]
           /\ u = InnerRise(t, p, c, top, Other(d))
           /\ Settled(u, E, k) /\ Inside(u, E) = Inside(t, D)
<1> DEFINE z == Other(d)
           c == t.kid[p][z]
           top == t.kid[c][d]
           a == t.kid[top][z]
           b == t.kid[top][d]
           r == [m \in Nodes |-> IF m = top THEN FALSE ELSE IF m = c THEN TRUE ELSE t.red[m]]
           y == EraseTurn(t, p, c, top, z)
           u == RotateSetParents(y, p, top, FALSE)
           v == RotTree(t, c, d, r)
           E1 == RotBelow(t, D, c, d)
           E2 == RotBelow(v, E1, p, z)
           k == [h EXCEPT ![p] = h[top], ![top] = h[p]]
<1>0. /\ Shape(t, D) /\ Calm(t, D, Nil) /\ Even(t, D, h, p, d)
      /\ p \in Inside(t, D) /\ d \in Sides /\ t.kid[p][d] = n
  BY DEF ShortAt
<1>1. /\ t \in TreeType /\ h \in [Nodes -> Nat] /\ p \in Nodes
      /\ z \in Sides /\ z # d /\ Other(z) = d
      /\ c # Nil /\ c \in Nodes
  BY ShortSibling
<1>2. top # Nil /\ t.red[top] /\ ~t.red[c] /\ ~IsRed(t, t.kid[c][z])
  BY DEF IsRed
<1>3. IsBend(t, p, z, c, d, top, a, b)
  <2>1. t.kid[t.kid[p][z]][Other(z)] # Nil
    BY <1>1, <1>2
  <2>2. IsBend(t, p, z, t.kid[p][z], Other(z), t.kid[t.kid[p][z]][Other(z)],
               t.kid[t.kid[t.kid[p][z]][Other(z)]][z], t.kid[t.kid[t.kid[p][z]][Other(z)]][Other(z)])
    BY <1>0, <1>1, <2>1, BendNodes
  <2> QED BY <1>1, <2>2
<1>4. IsSwings(t, y, p, c, top, z) /\ \A m \in Nodes : y.red[m] = IF m = a \/ m = c THEN FALSE ELSE t.red[m]
  <2> HIDE DEF c, top, a, b, z, y
  <2>1. IsSwings(t, y, p, c, top, z) /\ EraseRed(t, y, c, a)
    BY <1>1, <1>3, EraseSwings DEF y
  <2> QED BY <2>1 DEF EraseRed
<1>5. r \in [Nodes -> BOOLEAN]
  BY <1>1 DEF TreeType
<1>6. t.kid[p][z] = c /\ t.kid[c][d] = top
  OBVIOUS
<1> HIDE DEF y, v, E1, r
<1>7. /\ v.red = r /\ v \in TreeType /\ IsRot(t, v, c, d) /\ Shape(v, E1)
      /\ Inside(v, E1) = Inside(t, D) /\ v.kid[p][z] = top /\ IsSwing(v, y, p, top, z)
  <2>1. IsSwings(t, y, p, t.kid[p][z], t.kid[t.kid[p][z]][Other(z)], z)
    BY <1>1, <1>4
  <2>2. IsTurned(t, D, p, z, t.kid[p][z], Other(z), t.kid[t.kid[p][z]][Other(z)], r,
                 RotTree(t, t.kid[p][z], Other(z), r), RotBelow(t, D, t.kid[p][z], Other(z)), y)
    BY <1>0, <1>1, <1>2, <1>5, <2>1, TwoSwings
  <2>3. IsTurned(t, D, p, z, c, d, top, r, v, E1, y)
    BY <1>1, <2>2 DEF v, E1
  <2> QED BY <2>3 DEF IsTurned
<1>8. /\ c # top /\ t.parent[c] = p /\ t.parent[top] = c /\ p # top /\ c # p /\ p # Nil /\ c # Nil
      /\ a # p /\ b # p /\ a # top /\ b # top /\ a # c /\ b # c /\ top \in Nodes /\ t.root # c
      /\ (a # Nil => a \in Nodes) /\ t.kid[top][z] = a
  BY <1>1, <1>3, LinkNode DEF IsBend
<1>9. /\ u \in TreeType /\ IsRot(v, u, p, z)
      /\ \A m \in Nodes : u.red[m] = IF m = top THEN y.red[p] ELSE IF m = p THEN FALSE ELSE y.red[m]
  <2>1. \A q \in BOOLEAN : /\ RotateSetParents(y, p, top, q) \in TreeType
                           /\ IsRot(v, RotateSetParents(y, p, top, q), p, z)
                           /\ \A m \in Nodes : RotateSetParents(y, p, top, q).red[m] =
                                IF m = top THEN y.red[p] ELSE IF m = p THEN q ELSE y.red[m]
    <3> HIDE DEF top, c, z
    <3> QED BY <1>1, <1>2, <1>7, RotateIs
  <2> QED BY <2>1, Zenon
<1> HIDE DEF u, z, a, b, c, top
<1>10. top \in Inside(t, D) /\ c \in Inside(t, D)
  BY <1>0, <1>1, <1>2, <1>6, <1>8, KidBelow, InsideLinked
<1>11. ~IsRed(t, a)
  BY <1>0, <1>1, <1>2, <1>8, <1>10, CalmKid, LinkNode DEF IsRed
<1>12. \A m \in Nodes : v.red[m] = IF m = top THEN t.red[c] ELSE IF m = c THEN TRUE ELSE t.red[m]
  <2>1. t.red[c] = FALSE
    BY <1>1, <1>2 DEF TreeType
  <2> QED BY <1>7, <2>1 DEF r
<1>13. \A m \in Nodes : u.red[m] = IF m = top THEN v.red[p] ELSE IF m = p \/ m = c THEN FALSE ELSE v.red[m]
  <2>1. \A m \in Nodes : m = a => t.red[m] = FALSE
    BY <1>1, <1>11, LinkNode DEF IsRed, TreeType
  <2>2. y.red[p] = t.red[p]
    BY <1>1, <1>4, <1>8
  <2>3. v.red[p] = t.red[p]
    BY <1>1, <1>8, <1>12
  <2>4. \A m \in Nodes : y.red[m] = IF m = c THEN FALSE ELSE t.red[m]
    BY <1>4, <2>1
  <2> QED BY <1>8, <1>9, <1>12, <2>2, <2>3, <2>4
<1>14. Even(v, E1, h, p, d)
  BY <1>0, <1>1, <1>2, <1>6, <1>7, <1>8, <1>12, SwapEven DEF E1
<1>15. Calm(v, E1, Nil)
  <2>1. ~IsRed(t, t.kid[c][Other(d)]) /\ ~IsRed(t, t.kid[t.kid[c][d]][Other(d)])
    BY <1>2, <1>6, <1>8, <1>11 DEF z
  <2> QED BY <1>0, <1>1, <1>2, <1>6, <1>7, <1>12, <2>1, SwapCalm DEF E1
<1>16. v.kid[top][z] = c
  <2>1. v.kid[top][z] = IF top = c /\ z = d THEN t.kid[t.kid[c][d]][Other(d)]
                        ELSE IF top = t.kid[c][d] /\ z = Other(d) THEN c
                        ELSE IF t.kid[top][z] = c THEN t.kid[c][d] ELSE t.kid[top][z]
    BY <1>1, <1>7, <1>8 DEF IsRot
  <2> QED BY <1>1, <1>6, <1>8, <2>1 DEF z
<1>17. Shape(u, E2) /\ Inside(u, E2) = Inside(t, D)
  BY <1>1, <1>2, <1>7, <1>9, RotShape DEF E2
<1>18. /\ v.kid[p][z] # Nil /\ ~v.red[v.kid[p][z]]
       /\ v.kid[v.kid[p][z]][z] # Nil /\ v.red[v.kid[v.kid[p][z]][z]]
       /\ \A m \in Nodes : u.red[m] = IF m = v.kid[p][z] THEN v.red[p]
                                      ELSE IF m = p \/ m = v.kid[v.kid[p][z]][z] THEN FALSE
                                      ELSE v.red[m]
  <2>1. ~v.red[top] /\ v.red[c]
    BY <1>1, <1>2, <1>8, <1>12
  <2> QED BY <1>2, <1>7, <1>8, <1>13, <1>16, <2>1
<1>19. Even(u, E2, k, Nil, "left")
  <2>1. Even(v, E1, h, p, Other(z))
    BY <1>1, <1>14
  <2>2. Even(u, RotBelow(v, E1, p, z), [h EXCEPT ![p] = h[v.kid[p][z]], ![v.kid[p][z]] = h[p]], Nil, "left")
    BY <1>1, <1>7, <1>9, <1>18, <2>1, OuterEven
  <2> QED BY <1>7, <2>2 DEF E2
<1>20. Calm(u, E2, Nil)
  BY <1>1, <1>7, <1>9, <1>15, <1>18, OuterCalm DEF E2
<1> HIDE DEF E2, k
<1>21. \E E, kk : Settled(u, E, kk) /\ Inside(u, E) = Inside(t, D)
  BY <1>17, <1>19, <1>20 DEF Settled
<1>22. InnerRise(t, p, c, top, z) = u
  BY DEF u, y, InnerRise
<1> QED BY <1>21, <1>22 DEF z, c, top

-----------------------------------------------------------------------------
(* hev_rbtree_node_link.                                                   *)

\* A new node is red.
LeafRed(t, u, n) == \A m \in Nodes : u.red[m] = IF m = n THEN TRUE ELSE t.red[m]

\* hev_rbtree_node_link adds a red leaf.
LEMMA LinkIs ==
  ASSUME NEW t \in TreeType, NEW n \in Nodes, NEW p \in Link, p # n, NEW name
  PROVE  /\ NodeLink(t, n, p, name) \in TreeType
         /\ IsLeaf(t, NodeLink(t, n, p, name), n, p, Way(p, name))
         /\ LeafRed(t, NodeLink(t, n, p, name), n)
<1> DEFINE s == Way(p, name)
           v == [t EXCEPT !.parent[n] = p, !.red[n] = TRUE, !.kid[n] = NoKids]
           w == [v EXCEPT !.kid[p][s] = n]
           u == NodeLink(t, n, p, name)
<1>0. n \in Link /\ n # Nil /\ s \in Sides
  BY WaySide, LinkNode
<1> HIDE DEF s
<1>1. /\ v \in TreeType /\ v.root = t.root
      /\ \A m \in Nodes : \A x \in Sides : v.kid[m][x] = IF m = n THEN Nil ELSE t.kid[m][x]
      /\ \A m \in Nodes : v.parent[m] = IF m = n THEN p ELSE t.parent[m]
      /\ \A m \in Nodes : v.red[m] = IF m = n THEN TRUE ELSE t.red[m]
  <2>1. NoKids \in [Sides -> Link] /\ \A x \in Sides : NoKids[x] = Nil
    BY LinkNode DEF NoKids
  <2> QED BY <2>1 DEF TreeType
<1>2. u = IF p = Nil THEN [v EXCEPT !.root = n] ELSE w
  BY DEF NodeLink, s
<1> HIDE DEF v, u
<1>3. CASE p = Nil
  <2>1. u = [v EXCEPT !.root = n]
    BY <1>2, <1>3
  <2>2. /\ u \in TreeType /\ u.root = n /\ u.kid = v.kid /\ u.parent = v.parent /\ u.red = v.red
    BY <1>0, <1>1, <2>1 DEF TreeType
  <2>3. IsLeaf(t, u, n, p, s)
    BY <1>1, <1>3, <2>2, LinkNode DEF IsLeaf
  <2>4. LeafRed(t, u, n)
    BY <1>1, <2>2 DEF LeafRed
  <2> QED BY <2>2, <2>3, <2>4 DEF u, s
<1>4. CASE p # Nil
  <2>1. p \in Nodes /\ u = w
    BY <1>2, <1>4, LinkNode
  <2>2. /\ w \in TreeType /\ w.root = v.root /\ w.parent = v.parent /\ w.red = v.red
        /\ \A m \in Nodes : \A x \in Sides : w.kid[m][x] = IF m = p /\ x = s THEN n ELSE v.kid[m][x]
    <3>1. v \in TreeType /\ p \in Nodes /\ s \in Sides /\ n \in Link
      BY <1>0, <1>1, <2>1
    <3> QED BY <3>1, KidIs
  <2> HIDE DEF w
  <2>3. IsLeaf(t, u, n, p, s)
    <3>1. /\ u.root = IF p = Nil THEN n ELSE t.root
          /\ \A m \in Nodes : \A x \in Sides :
               u.kid[m][x] = IF m = n THEN Nil ELSE IF m = p /\ x = s THEN n ELSE t.kid[m][x]
          /\ \A m \in Nodes : u.parent[m] = IF m = n THEN p ELSE t.parent[m]
      BY <1>1, <1>4, <2>1, <2>2
    <3> QED BY <3>1 DEF IsLeaf
  <2>4. LeafRed(t, u, n)
    BY <1>1, <2>1, <2>2 DEF LeafRed
  <2> QED BY <2>1, <2>2, <2>3, <2>4 DEF u, s
<1> QED BY <1>3, <1>4

\* The search finds the one node of the name, if there is one.
LEMMA FoundIs ==
  ASSUME NEW t, NEW D, Shape(t, D), NEW name \in Seq(0 .. 255)
  PROVE  /\ Found(t, name) = Nil => \A a \in Inside(t, D) : NameOf[a] # name
         /\ Found(t, name) # Nil => /\ Found(t, name) \in Inside(t, D) /\ Found(t, name) \in Nodes
                                    /\ NameOf[Found(t, name)] = name
                                    /\ SearchEnd(t, name) = Found(t, name)
                                    /\ \A a \in Inside(t, D) : NameOf[a] = name => a = Found(t, name)
<1> DEFINE e == SearchEnd(t, name)
<1>1. CASE t.root = Nil
  <2>1. Inside(t, D) = {} /\ Found(t, name) = Nil
    BY <1>1, SearchIs DEF Inside, Sub, Found
  <2> QED BY <2>1
<1>2. CASE t.root # Nil
  <2>1. /\ Inside(t, D) = D[t.root] /\ SearchedTo(t, D, t.root, name, e)
        /\ t.root \in Nodes /\ D[t.root] \subseteq Nodes
    BY <1>2, SearchIs, InsideLinked, LinkNode, BelowNodes, ShapeIs DEF Inside, Sub, Sides
  <2> HIDE DEF e
  <2>2. e \in Inside(t, D) /\ e \in Nodes /\ e # Nil /\ \A a \in Inside(t, D) : NameOf[a] = name => a = e
    BY <2>1, LinkNode DEF SearchedTo
  <2>3. Compare(NameOf[e], name) = 0 <=> NameOf[e] = name
    BY <2>2, NameSeq, CompareOrder
  <2>4. Found(t, name) = IF NameOf[e] = name THEN e ELSE Nil
    BY <2>2, <2>3 DEF Found, e
  <2> QED BY <2>2, <2>4 DEF e
<1> QED BY <1>1, <1>2

\* It ends where the code may link the new node.
LEMMA LinkPlace ==
  ASSUME NEW t, NEW D, Shape(t, D), NEW n \in Nodes, Found(t, NameOf[n]) = Nil
  PROVE  /\ LeafPlace(t, D, n, SearchEnd(t, NameOf[n]), Way(SearchEnd(t, NameOf[n]), NameOf[n]))
         /\ SearchEnd(t, NameOf[n]) \in Link /\ SearchEnd(t, NameOf[n]) # n
<1> DEFINE name == NameOf[n]
           p == SearchEnd(t, name)
           s == Way(p, name)
<1>0. name \in Seq(0 .. 255) /\ n # Nil
  BY NameSeq, LinkNode
<1>1. \A a \in Inside(t, D) : NameOf[a] # name
  BY <1>0, FoundIs
<1>2. n \notin Inside(t, D)
  BY <1>1
<1>3. CASE t.root = Nil
  <2>1. p = Nil
    BY <1>0, <1>3, SearchIs
  <2> QED BY <1>0, <1>2, <1>3, <2>1, LinkNode DEF LeafPlace
<1>4. CASE t.root # Nil
  <2>1. /\ Inside(t, D) = D[t.root] /\ SearchedTo(t, D, t.root, name, p)
        /\ t.root \in Nodes /\ D[t.root] \subseteq Nodes
    BY <1>0, <1>4, SearchIs, LinkNode, BelowNodes, ShapeIs DEF Inside, Sub, Sides
  <2> HIDE DEF p, name
  <2>2. p \in Inside(t, D) /\ p \in Nodes /\ p # Nil /\ p \in Link /\ NameOf[p] # name
    BY <1>1, <2>1, LinkNode DEF SearchedTo
  <2>3. t.kid[p][s] = Nil /\ s \in Sides /\ Beyond(p, s, n)
    <3>1. Toward(p, Way(p, name), name) /\ Way(p, name) \in Sides
      BY <1>0, <2>2, TowardWay
    <3> QED BY <2>1, <2>2, <3>1 DEF SearchedTo, Beyond, name
  <2>4. ASSUME NEW a \in Inside(t, D), NEW x \in Sides, p \in Below(t, D, a, x)
        PROVE  Beyond(a, x, n)
    <3>1. a \in Nodes /\ NameOf[a] # name /\ x = Way(a, name)
      BY <2>1, <2>4 DEF SearchedTo
    <3> QED BY <1>0, <3>1, TowardWay DEF Beyond, name
  <2>5. LeafPlace(t, D, n, p, s) /\ p # n
    BY <1>2, <2>2, <2>3, <2>4 DEF LeafPlace
  <2> QED BY <2>2, <2>5 DEF p, name
<1> QED BY <1>3, <1>4

\* The new leaf is a red node that may be below a red one.
LEMMA LinkRound ==
  ASSUME NEW t, NEW D, NEW h, Settled(t, D, h), NEW n \in Nodes, Found(t, NameOf[n]) = Nil
  PROVE  LET p == SearchEnd(t, NameOf[n])
             u == NodeLink(t, n, p, NameOf[n])
         IN  \E E, k : Upset(u, E, k, n, p) /\ Inside(u, E) = Inside(t, D) \cup {n}
<1> DEFINE p == SearchEnd(t, NameOf[n])
           s == Way(p, NameOf[n])
           u == NodeLink(t, n, p, NameOf[n])
           E == LeafBelow(D, n, p)
           k == [h EXCEPT ![n] = 0]
<1>0. Shape(t, D) /\ Calm(t, D, Nil) /\ Even(t, D, h, Nil, "left") /\ t \in TreeType /\ h \in [Nodes -> Nat]
  BY ShapeIs DEF Settled, Even
<1>1. LeafPlace(t, D, n, p, s) /\ p \in Link /\ p # n /\ s \in Sides
  BY <1>0, LinkPlace, WaySide
<1> HIDE DEF p
<1>2. /\ u \in TreeType /\ IsLeaf(t, u, n, p, s)
      /\ \A m \in Nodes : u.red[m] = IF m = n THEN TRUE ELSE t.red[m]
  <2>1. u \in TreeType /\ IsLeaf(t, u, n, p, s) /\ LeafRed(t, u, n)
    BY <1>0, <1>1, LinkIs
  <2> HIDE DEF u
  <2> QED BY <2>1 DEF LeafRed
<1> HIDE DEF u, s, E
<1>3. Shape(u, E) /\ Inside(u, E) = Inside(t, D) \cup {n}
  BY <1>0, <1>1, <1>2, LeafShape DEF E
<1>4. /\ n \notin Inside(t, D) /\ n # Nil
      /\ p = Nil => t.root = Nil
      /\ p # Nil => t.kid[p][s] = Nil
  BY <1>1, LinkNode DEF LeafPlace
<1>5. /\ u.root = IF p = Nil THEN n ELSE t.root
      /\ \A m \in Nodes : \A x \in Sides :
           u.kid[m][x] = IF m = n THEN Nil ELSE IF m = p /\ x = s THEN n ELSE t.kid[m][x]
      /\ \A m \in Nodes : u.parent[m] = IF m = n THEN p ELSE t.parent[m]
  BY <1>2 DEF IsLeaf
<1>6. k \in [Nodes -> Nat] /\ k[n] = 0 /\ \A m \in Nodes : m # n => k[m] = h[m]
  BY <1>0
<1> HIDE DEF k
<1>7. Calm(u, E, n)
  <2>1. ASSUME NEW m \in Inside(t, D), u.red[m] PROVE m # u.root /\ ~u.red[u.parent[m]]
    <3>1. m \in Nodes /\ m # n /\ t.red[m] /\ m # Nil
      BY <1>0, <1>2, <1>4, <2>1, InsideNodes, LinkNode
    <3>2. m # t.root /\ t.parent[m] \in Nodes /\ ~t.red[t.parent[m]] /\ t.parent[m] \in Inside(t, D)
      BY <1>0, <3>1, CalmUp
    <3>3. u.parent[m] = t.parent[m] /\ t.parent[m] # n
      BY <1>4, <1>5, <3>1, <3>2
    <3>4. p # Nil
      BY <1>4, <3>1 DEF Inside, Sub
    <3>5. ~u.red[t.parent[m]]
      BY <1>2, <3>2, <3>3
    <3> QED BY <1>5, <3>2, <3>3, <3>4, <3>5
  <2> QED BY <1>3, <2>1 DEF Calm
<1>8. Even(u, E, k, Nil, "left")
  <2>1. ASSUME NEW m \in Inside(t, D), NEW x \in Sides PROVE k[m] = Weight(u, k, u.kid[m][x])
    <3>1. m \in Nodes /\ m # n /\ h[m] = Weight(t, h, t.kid[m][x]) /\ t.kid[m][x] \in Link /\ k[m] = h[m]
      BY <1>0, <1>4, <1>6, EvenKid
    <3>2. t.kid[m][x] # n
      BY <1>0, <1>4, <3>1, InsideLinked
    <3>3. CASE m = p /\ x = s
      <4>1. u.kid[m][x] = n /\ t.kid[m][x] = Nil
        BY <1>4, <1>5, <3>1, <3>3, LinkNode
      <4> QED BY <1>2, <1>4, <1>6, <3>1, <4>1 DEF Weight
    <3>4. CASE ~(m = p /\ x = s)
      <4>1. u.kid[m][x] = t.kid[m][x]
        BY <1>5, <3>1, <3>4
      <4>2. Weight(u, k, t.kid[m][x]) = Weight(t, h, t.kid[m][x])
        BY <1>2, <1>6, <3>1, <3>2, LinkNode DEF Weight
      <4> QED BY <3>1, <4>1, <4>2
    <3> QED BY <3>3, <3>4
  <2>2. ASSUME NEW x \in Sides PROVE k[n] = Weight(u, k, u.kid[n][x])
    BY <1>5, <1>6 DEF Weight
  <2>3. Inside(u, E) \subseteq Nodes
    BY <1>3, InsideNodes
  <2>4. ASSUME NEW m \in Inside(u, E), NEW x \in Sides PROVE k[m] = Weight(u, k, u.kid[m][x])
    BY <1>3, <2>1, <2>2
  <2> QED BY <1>6, <2>3, <2>4, EvenNow
<1>9. Upset(u, E, k, n, p)
  BY <1>2, <1>3, <1>5, <1>7, <1>8 DEF Upset
<1>10. \E EE, kk : Upset(u, EE, kk, n, p) /\ Inside(u, EE) = Inside(t, D) \cup {n}
  BY <1>3, <1>9
<1> QED BY <1>10 DEF u, p

-----------------------------------------------------------------------------
(* A node takes the place and the colour of another.                       *)

\* w has the colour of v.
PutRed(t, u, v, w) ==
    \A m \in Nodes : u.red[m] = IF m = v THEN TRUE ELSE IF m = w THEN t.red[v] ELSE t.red[m]

\* The links around w are those that v had.
LEMMA PutLinks ==
  ASSUME NEW t, NEW D, Shape(t, D), NEW v \in Inside(t, D), NEW w \in Nodes,
         w \notin Inside(t, D), NEW u, IsPut(t, u, v, w)
  PROVE  /\ t \in TreeType /\ v \in Nodes /\ v # Nil /\ w # Nil /\ v # w /\ t.root # w
         /\ u.root = IF t.root = v THEN w ELSE t.root
         /\ \A x \in Sides : u.kid[w][x] = t.kid[v][x] /\ t.kid[v][x] # v
         /\ u.parent[w] = t.parent[v]
         /\ \A m \in Nodes : m # v /\ m # w =>
              /\ \A x \in Sides : u.kid[m][x] = IF t.kid[m][x] = v THEN w ELSE t.kid[m][x]
              /\ u.parent[m] = IF t.parent[m] = v THEN w ELSE t.parent[m]
         /\ \A m \in Nodes : \A x \in Sides : t.kid[m][x] # w /\ t.parent[m] # w
<1>1. /\ t \in TreeType /\ v \in Nodes /\ v # Nil /\ w # Nil /\ v # w /\ t.root # w
  BY ShapeIs, InsideNodes, LinkNode, InsideLinked
<1>2. \A m \in Nodes : \A x \in Sides : t.kid[m][x] # w /\ t.parent[m] # w
  BY <1>1, InsideLinked
<1>3. \A x \in Sides : t.kid[v][x] # v
  BY <1>1, KidBelow
<1> QED BY <1>1, <1>2, <1>3 DEF IsPut

\* The paths are as black as they were,
LEMMA PutEven ==
  ASSUME NEW t, NEW D, Shape(t, D), NEW v \in Inside(t, D), NEW w \in Nodes,
         w \notin Inside(t, D), NEW u \in TreeType, IsPut(t, u, v, w), PutRed(t, u, v, w),
         Inside(u, PutBelow(D, v, w)) = (Inside(t, D) \ {v}) \cup {w},
         NEW h, NEW f, NEW d, Even(t, D, h, f, d), f # w
  PROVE  Even(u, PutBelow(D, v, w), [h EXCEPT ![w] = h[v]], IF f = v THEN w ELSE f, d)
<1> DEFINE k == [h EXCEPT ![w] = h[v]]
           g == IF f = v THEN w ELSE f
<1>1. /\ t \in TreeType /\ v \in Nodes /\ v # Nil /\ w # Nil /\ v # w
      /\ \A x \in Sides : u.kid[w][x] = t.kid[v][x] /\ t.kid[v][x] # v
      /\ \A m \in Nodes : m # v /\ m # w =>
           \A x \in Sides : u.kid[m][x] = IF t.kid[m][x] = v THEN w ELSE t.kid[m][x]
      /\ \A m \in Nodes : \A x \in Sides : t.kid[m][x] # w
  BY PutLinks
<1>2. \A m \in Nodes : u.red[m] = IF m = v THEN TRUE ELSE IF m = w THEN t.red[v] ELSE t.red[m]
  BY DEF PutRed
<1>3. h \in [Nodes -> Nat] /\ \A m \in Inside(t, D) : \A x \in Sides :
        h[m] = Weight(t, h, t.kid[m][x]) + Lack(m, x, f, d)
  BY DEF Even
<1>4. k \in [Nodes -> Nat] /\ k[w] = h[v] /\ \A m \in Nodes : m # w => k[m] = h[m]
  BY <1>1, <1>3
<1>5. /\ \A x \in Sides : Lack(w, x, g, d) = Lack(v, x, f, d)
      /\ \A m \in Nodes : \A x \in Sides : m # v /\ m # w => Lack(m, x, g, d) = Lack(m, x, f, d)
  BY <1>1 DEF Lack
<1> HIDE DEF k, g
<1>6. /\ Weight(u, k, w) = Weight(t, h, v)
      /\ \A x \in Link : x # v /\ x # w => Weight(u, k, x) = Weight(t, h, x)
  BY <1>1, <1>2, <1>4, LinkNode DEF Weight
<1>7. ASSUME NEW x \in Sides PROVE k[w] = Weight(u, k, u.kid[w][x]) + Lack(w, x, g, d)
  <2>1. t.kid[v][x] \in Link /\ h[v] = Weight(t, h, t.kid[v][x]) + Lack(v, x, f, d)
    BY <1>1, <1>3, TreeLinks
  <2>2. Weight(u, k, u.kid[w][x]) = Weight(t, h, t.kid[v][x])
    BY <1>1, <1>6, <2>1
  <2> QED BY <1>4, <1>5, <2>1, <2>2
<1>8. ASSUME NEW m \in Inside(t, D), m # v, NEW x \in Sides
      PROVE  k[m] = Weight(u, k, u.kid[m][x]) + Lack(m, x, g, d)
  <2>0. m \in Nodes /\ m # w
    BY InsideNodes
  <2>1. t.kid[m][x] \in Link /\ h[m] = Weight(t, h, t.kid[m][x]) + Lack(m, x, f, d)
    BY <1>1, <1>3, <2>0, TreeLinks
  <2>2. u.kid[m][x] = IF t.kid[m][x] = v THEN w ELSE t.kid[m][x]
    BY <1>1, <1>8, <2>0
  <2>3. Weight(u, k, u.kid[m][x]) = Weight(t, h, t.kid[m][x])
    BY <1>1, <1>6, <2>0, <2>1, <2>2
  <2> QED BY <1>4, <1>5, <1>8, <2>0, <2>1, <2>3
<1>9. Even(u, PutBelow(D, v, w), k, g, d)
  BY <1>4, <1>7, <1>8 DEF Even
<1> QED BY <1>9 DEF k, g

\* and no red node has got a red child.
LEMMA PutCalm ==
  ASSUME NEW t, NEW D, Shape(t, D), NEW v \in Inside(t, D), NEW w \in Nodes,
         w \notin Inside(t, D), NEW u \in TreeType, IsPut(t, u, v, w), PutRed(t, u, v, w),
         Inside(u, PutBelow(D, v, w)) = (Inside(t, D) \ {v}) \cup {w},
         Calm(t, D, Nil)
  PROVE  Calm(u, PutBelow(D, v, w), Nil)
<1>1. /\ t \in TreeType /\ v \in Nodes /\ v # Nil /\ w # Nil /\ v # w /\ t.root # w
      /\ u.root = IF t.root = v THEN w ELSE t.root
      /\ u.parent[w] = t.parent[v]
      /\ \A m \in Nodes : m # v /\ m # w => u.parent[m] = IF t.parent[m] = v THEN w ELSE t.parent[m]
      /\ \A m \in Nodes : t.parent[m] # w
  BY PutLinks DEF Sides
<1>2. \A m \in Nodes : u.red[m] = IF m = v THEN TRUE ELSE IF m = w THEN t.red[v] ELSE t.red[m]
  BY DEF PutRed
<1>3. ASSUME NEW m \in Inside(t, D), t.red[m]
      PROVE  m # t.root /\ t.parent[m] \in Nodes /\ ~t.red[t.parent[m]] /\ m \in Nodes
  BY <1>3, CalmUp, InsideNodes, LinkNode
<1>4. u.red[w] => w # u.root /\ ~u.red[u.parent[w]]
  BY <1>1, <1>2, <1>3
<1>5. ASSUME NEW m \in Inside(t, D), m # v, u.red[m] PROVE m # u.root /\ ~u.red[u.parent[m]]
  <2>1. m # w /\ m \in Nodes /\ t.red[m]
    BY <1>2, <1>5, InsideNodes
  <2>2. m # t.root /\ t.parent[m] \in Nodes /\ ~t.red[t.parent[m]]
    BY <1>3, <2>1
  <2>3. ~u.red[u.parent[m]]
    BY <1>1, <1>2, <1>5, <2>1, <2>2
  <2> QED BY <1>1, <2>1, <2>2, <2>3
<1> QED BY <1>4, <1>5 DEF Calm

\* The code's conditions on a node that is put in the place of another.
MayPut(t, D, v, w) ==
    /\ v \in Inside(t, D) /\ w \in Nodes /\ w \notin Inside(t, D)
    /\ \A a \in Inside(t, D) : \A x \in Sides : Beyond(a, x, v) => Beyond(a, x, w)

\* So a settled tree stays settled,
LEMMA PutRound ==
  ASSUME NEW t, NEW D, NEW h, NEW v, NEW w, Settled(t, D, h), MayPut(t, D, v, w),
         NEW u \in TreeType, IsPut(t, u, v, w), PutRed(t, u, v, w)
  PROVE  \E E, k : Settled(u, E, k) /\ Inside(u, E) = (Inside(t, D) \ {v}) \cup {w}
<1> DEFINE E == PutBelow(D, v, w)
           k == [h EXCEPT ![w] = h[v]]
<1>1. Shape(t, D) /\ Calm(t, D, Nil) /\ Even(t, D, h, Nil, "left")
  BY DEF Settled
<1>2. v \in Inside(t, D) /\ w \in Nodes /\ w \notin Inside(t, D) /\ v # Nil /\ w # Nil
  BY <1>1, InsideNodes, LinkNode DEF MayPut
<1>3. Shape(u, E) /\ Inside(u, E) = (Inside(t, D) \ {v}) \cup {w}
  BY <1>1, <1>2, PutShape DEF MayPut
<1>4. Calm(u, E, Nil)
  BY <1>1, <1>2, <1>3, PutCalm
<1>5. Even(u, E, k, Nil, "left")
  <2>1. Even(u, E, k, IF Nil = v THEN w ELSE Nil, "left")
    BY <1>1, <1>2, <1>3, PutEven
  <2> QED BY <1>2, <2>1
<1> HIDE DEF E, k
<1> QED BY <1>3, <1>4, <1>5 DEF Settled

\* and a missing black node stays the only flaw.
LEMMA PutShort ==
  ASSUME NEW t, NEW D, NEW h, NEW v, NEW w, NEW p, Short(t, D, h, Nil, p), MayPut(t, D, v, w),
         NEW u \in TreeType, IsPut(t, u, v, w), PutRed(t, u, v, w)
  PROVE  \E E, k : Short(u, E, k, Nil, IF p = v THEN w ELSE p) /\ Inside(u, E) = (Inside(t, D) \ {v}) \cup {w}
<1> DEFINE E == PutBelow(D, v, w)
           k == [h EXCEPT ![w] = h[v]]
           g == IF p = v THEN w ELSE p
           d == Near(t, p, Nil)
<1>1. /\ Shape(t, D) /\ Calm(t, D, Nil) /\ Even(t, D, h, p, d)
      /\ p \in Inside(t, D) /\ d \in Sides /\ t.kid[p][d] = Nil
  BY DEF Short, ShortAt
<1>2. v \in Inside(t, D) /\ w \in Nodes /\ w \notin Inside(t, D) /\ p # w /\ v \in Nodes /\ p \in Nodes
  BY <1>1, InsideNodes DEF MayPut
<1> HIDE DEF d
<1>3. Shape(u, E) /\ Inside(u, E) = (Inside(t, D) \ {v}) \cup {w}
  BY <1>1, <1>2, PutShape DEF MayPut
<1>4. Calm(u, E, Nil)
  BY <1>1, <1>2, <1>3, PutCalm
<1>5. Even(u, E, k, g, d)
  BY <1>1, <1>2, <1>3, PutEven
<1>6. u.kid[g][d] = Nil /\ g \in Inside(u, E)
  <2>1. /\ v # Nil
        /\ \A x \in Sides : u.kid[w][x] = t.kid[v][x]
        /\ \A m \in Nodes : m # v /\ m # w =>
             \A x \in Sides : u.kid[m][x] = IF t.kid[m][x] = v THEN w ELSE t.kid[m][x]
    BY <1>1, <1>2, PutLinks
  <2> QED BY <1>1, <1>2, <1>3, <2>1
<1> HIDE DEF E, k, g
<1>7. ShortAt(u, E, k, Nil, g, d)
  BY <1>1, <1>3, <1>4, <1>5, <1>6 DEF ShortAt, IsRed
<1>8. Short(u, E, k, Nil, g)
  BY <1>7, ShortSibling DEF Short
<1>9. \E EE, kk : Short(u, EE, kk, Nil, g) /\ Inside(u, EE) = (Inside(t, D) \ {v}) \cup {w}
  BY <1>3, <1>8
<1> QED BY <1>9 DEF g

-----------------------------------------------------------------------------
(* A node with one child at most is unlinked.                              *)

\* The child is black in the place of the node.
CutRed(t, u, n, c) ==
    \A m \in Nodes : u.red[m] = IF m = n THEN TRUE ELSE IF m = c THEN FALSE ELSE t.red[m]

\* The only child of a node is red, and the node is black.
LEMMA OnlyChild ==
  ASSUME NEW t, NEW D, NEW h, Settled(t, D, h), NEW n \in Inside(t, D), NEW s \in Sides,
         t.kid[n][Other(s)] = Nil
  PROVE  /\ h[n] = 0
         /\ t.kid[n][s] # Nil => /\ t.kid[n][s] \in Nodes /\ t.parent[t.kid[n][s]] = n
                                 /\ t.kid[n][s] # n
                                 /\ t.red[t.kid[n][s]] /\ ~t.red[n] /\ h[t.kid[n][s]] = 0
<1> DEFINE c == t.kid[n][s]
<1>1. Shape(t, D) /\ Calm(t, D, Nil) /\ Even(t, D, h, Nil, "left") /\ t \in TreeType
  BY ShapeIs DEF Settled
<1>2. /\ n \in Nodes /\ h \in [Nodes -> Nat] /\ h[n] = Weight(t, h, c) /\ c \in Link
      /\ h[n] = Weight(t, h, t.kid[n][Other(s)])
  BY <1>1, EvenKid, OtherSide
<1>3. h[n] = 0
  BY <1>2 DEF Weight
<1>4. ASSUME c # Nil PROVE c \in Nodes /\ t.parent[c] = n /\ c # n /\ t.red[c] /\ ~t.red[n] /\ h[c] = 0
  <2>1. c \in Nodes /\ t.parent[c] = n /\ c # n /\ c \in Inside(t, D)
    BY <1>1, <1>2, <1>4, KidBelow, InsideLinked
  <2> HIDE DEF c
  <2>2. h[c] \in Nat /\ Weight(t, h, c) = 0
    BY <1>2, <1>3, <2>1
  <2>3. t.red[c]
    BY <1>4, <2>2 DEF Weight
  <2>4. h[c] = 0
    BY <1>4, <2>2, <2>3 DEF Weight
  <2>5. ~t.red[n]
    BY <1>1, <2>1, <2>3, CalmUp, LinkNode
  <2> QED BY <2>1, <2>3, <2>4, <2>5
<1> QED BY <1>3, <1>4

\* A node with one child at most is taken out: no red node has a red child.
LEMMA CutCalm ==
  ASSUME NEW t, NEW D, NEW h, Settled(t, D, h), NEW n \in Inside(t, D), NEW s \in Sides,
         t.kid[n][Other(s)] = Nil, NEW u \in TreeType, IsCut(t, u, n, s), CutRed(t, u, n, t.kid[n][s])
  PROVE  /\ Shape(u, CutBelow(D, n)) /\ Inside(u, CutBelow(D, n)) = Inside(t, D) \ {n}
         /\ Calm(u, CutBelow(D, n), Nil)
<1> DEFINE c == t.kid[n][s]
           E == CutBelow(D, n)
<1>1. Shape(t, D) /\ Calm(t, D, Nil) /\ t \in TreeType /\ n \in Nodes /\ n # Nil
  BY ShapeIs, InsideNodes, LinkNode DEF Settled
<1>2. Shape(u, E) /\ Inside(u, E) = Inside(t, D) \ {n}
  BY <1>1, CutShape
<1>3. /\ u.root = IF t.root = n THEN c ELSE t.root
      /\ \A m \in Nodes : m # n /\ m # c => u.parent[m] = t.parent[m]
      /\ \A m \in Nodes : u.red[m] = IF m = n THEN TRUE ELSE IF m = c THEN FALSE ELSE t.red[m]
  BY DEF IsCut, CutRed
<1>4. \A m \in Nodes : t.parent[m] = n => m = c
  <2>1. ASSUME NEW m \in Nodes, t.parent[m] = n PROVE m = c
    <3>1. m = t.kid[n][s] \/ m = t.kid[n][Other(s)]
      BY <1>1, <2>1, KidSide
    <3> QED BY <3>1, LinkNode
  <2> QED BY <2>1
<1> HIDE DEF c, E
<1>5. ASSUME NEW m \in Inside(t, D), m # n, u.red[m] PROVE m # u.root /\ ~u.red[u.parent[m]]
  <2>1. m \in Nodes /\ m # c /\ t.red[m]
    BY <1>1, <1>3, <1>5, InsideNodes
  <2>2. m # t.root /\ t.parent[m] \in Nodes /\ ~t.red[t.parent[m]]
    BY <1>1, <2>1, CalmUp, LinkNode
  <2>3. u.parent[m] = t.parent[m] /\ t.parent[m] # n
    BY <1>3, <1>4, <1>5, <2>1
  <2>4. ~u.red[t.parent[m]]
    BY <1>3, <2>2, <2>3
  <2> QED BY <1>3, <2>1, <2>2, <2>3, <2>4
<1>6. Calm(u, E, Nil)
  BY <1>2, <1>5 DEF Calm
<1> QED BY <1>2, <1>6 DEF E

\* The other places weigh what they weighed.
LEMMA CutWeight ==
  ASSUME NEW t, NEW D, NEW h, Settled(t, D, h), NEW n \in Inside(t, D), NEW s \in Sides,
         t.kid[n][Other(s)] = Nil, NEW u \in TreeType, IsCut(t, u, n, s), CutRed(t, u, n, t.kid[n][s]),
         NEW m \in Inside(t, D), m # n, NEW x \in Sides
  PROVE  /\ t.kid[m][x] # n => h[m] = Weight(u, h, u.kid[m][x])
         /\ t.kid[m][x] = n => h[m] = Weight(t, h, n) /\ u.kid[m][x] = t.kid[n][s]
<1> DEFINE c == t.kid[n][s]
<1>1. /\ Shape(t, D) /\ Even(t, D, h, Nil, "left") /\ t \in TreeType /\ n \in Nodes /\ n # Nil
  BY ShapeIs, InsideNodes, LinkNode DEF Settled
<1>2. m \in Nodes /\ h[m] = Weight(t, h, t.kid[m][x]) /\ t.kid[m][x] \in Link
  BY <1>1, EvenKid
<1>3. u.kid[m][x] = IF t.kid[m][x] = n THEN c ELSE t.kid[m][x]
  BY <1>2 DEF IsCut
<1>4. c # Nil => t.kid[m][x] # c
  BY <1>1, <1>2, KidBelow
<1>5. \A q \in Nodes : u.red[q] = IF q = n THEN TRUE ELSE IF q = c THEN FALSE ELSE t.red[q]
  BY DEF CutRed
<1> HIDE DEF c
<1>6. CASE t.kid[m][x] # n
  <2>1. Weight(u, h, t.kid[m][x]) = Weight(t, h, t.kid[m][x])
    BY <1>2, <1>4, <1>5, <1>6, LinkNode DEF Weight
  <2> QED BY <1>2, <1>3, <1>6, <2>1
<1>7. CASE t.kid[m][x] = n
  BY <1>2, <1>3, <1>7 DEF c
<1> QED BY <1>6, <1>7

\* Where the node was red or had a child nothing is missing,
LEMMA CutRound ==
  ASSUME NEW t, NEW D, NEW h, Settled(t, D, h), NEW n \in Inside(t, D), NEW s \in Sides,
         t.kid[n][Other(s)] = Nil, NEW u \in TreeType, IsCut(t, u, n, s), CutRed(t, u, n, t.kid[n][s]),
         t.red[n] \/ t.kid[n][s] # Nil \/ t.parent[n] = Nil
  PROVE  Settled(u, CutBelow(D, n), h)
<1> DEFINE c == t.kid[n][s]
           E == CutBelow(D, n)
<1>1. /\ Shape(t, D) /\ Even(t, D, h, Nil, "left") /\ t \in TreeType /\ n \in Nodes /\ n # Nil
      /\ h \in [Nodes -> Nat]
  BY ShapeIs, InsideNodes, LinkNode DEF Settled, Even
<1>2. Shape(u, E) /\ Inside(u, E) = Inside(t, D) \ {n} /\ Calm(u, E, Nil)
  BY CutCalm
<1>3. h[n] = 0 /\ (c # Nil => c \in Nodes /\ c # n /\ ~t.red[n] /\ h[c] = 0)
  BY OnlyChild
<1>4. \A q \in Nodes : u.red[q] = IF q = n THEN TRUE ELSE IF q = c THEN FALSE ELSE t.red[q]
  BY DEF CutRed
<1>5. ASSUME NEW m \in Inside(t, D), m # n, NEW x \in Sides PROVE h[m] = Weight(u, h, u.kid[m][x])
  <2>1. CASE t.kid[m][x] # n
    BY <1>5, <2>1, CutWeight
  <2>2. CASE t.kid[m][x] = n
    <3>1. h[m] = Weight(t, h, n) /\ u.kid[m][x] = c
      BY <1>5, <2>2, CutWeight
    <3>2. t.parent[n] # Nil
      BY <1>1, <1>5, <2>2, InsideNodes, KidBelow, LinkNode
    <3> HIDE DEF c
    <3>3. CASE c = Nil
      <4>1. t.red[n]
        BY <3>2, <3>3 DEF c
      <4> QED BY <1>1, <1>3, <3>1, <3>3, <4>1 DEF Weight
    <3>4. CASE c # Nil
      <4>1. Weight(t, h, n) = 0 + 1
        BY <1>1, <1>3, <3>4 DEF Weight
      <4>2. Weight(u, h, c) = 0 + 1
        BY <1>3, <1>4, <3>4 DEF Weight
      <4> QED BY <3>1, <4>1, <4>2
    <3> QED BY <3>3, <3>4
  <2> QED BY <2>1, <2>2
<1> HIDE DEF E, c
<1>6. Even(u, E, h, Nil, "left")
  BY <1>1, <1>2, <1>5, InsideNodes, EvenNow
<1> QED BY <1>2, <1>6 DEF Settled, E

\* and otherwise a black node is missing below its parent.
LEMMA CutShort ==
  ASSUME NEW t, NEW D, NEW h, Settled(t, D, h), NEW n \in Inside(t, D), NEW s \in Sides,
         t.kid[n][Other(s)] = Nil, NEW u \in TreeType, IsCut(t, u, n, s), CutRed(t, u, n, t.kid[n][s]),
         ~t.red[n], t.kid[n][s] = Nil, t.parent[n] # Nil
  PROVE  Short(u, CutBelow(D, n), h, Nil, t.parent[n])
<1> DEFINE p == t.parent[n]
           E == CutBelow(D, n)
<1>1. /\ Shape(t, D) /\ Even(t, D, h, Nil, "left") /\ t \in TreeType /\ n \in Nodes /\ n # Nil
      /\ h \in [Nodes -> Nat]
  BY ShapeIs, InsideNodes, LinkNode DEF Settled, Even
<1>2. Shape(u, E) /\ Inside(u, E) = Inside(t, D) \ {n} /\ Calm(u, E, Nil)
  BY CutCalm
<1>3. p \in Nodes /\ p \in Inside(t, D) /\ \E x \in Sides : t.kid[p][x] = n
  <2>1. Linked(t)
    BY <1>1 DEF Shape
  <2> QED BY <1>1, <2>1, InsideLinked, InsideNodes DEF Linked
<1>4. PICK d \in Sides : t.kid[p][d] = n
  BY <1>3
<1>5. p # n
  BY <1>1, <1>3, <1>4, KidBelow
<1>6. Weight(t, h, n) = 0 + 1
  <2>1. h[n] = 0
    BY OnlyChild
  <2> QED BY <1>1, <2>1 DEF Weight
<1> HIDE DEF E, p
<1>7. ASSUME NEW m \in Inside(t, D), m # n, NEW x \in Sides
      PROVE  h[m] = Weight(u, h, u.kid[m][x]) + Lack(m, x, p, d)
  <2>0. m \in Nodes /\ h[m] \in Nat
    BY <1>1, InsideNodes
  <2>1. CASE t.kid[m][x] # n
    <3>1. h[m] = Weight(u, h, u.kid[m][x]) /\ Lack(m, x, p, d) = 0
      BY <1>4, <1>7, <2>1, CutWeight DEF Lack
    <3> QED BY <2>0, <3>1
  <2>2. CASE t.kid[m][x] = n
    <3>1. h[m] = 0 + 1 /\ u.kid[m][x] = Nil
      BY <1>6, <1>7, <2>2, CutWeight
    <3>2. m = p /\ x = d
      BY <1>1, <1>3, <1>4, <2>0, <2>2, KidOnce
    <3>3. Lack(m, x, p, d) = 1 /\ Weight(u, h, Nil) = 0
      BY <3>2 DEF Lack, Weight
    <3> QED BY <3>1, <3>3
  <2> QED BY <2>1, <2>2
<1>8. Even(u, E, h, p, d)
  BY <1>1, <1>2, <1>7 DEF Even
<1>9. u.kid[p][d] = Nil
  BY <1>3, <1>4, <1>5 DEF IsCut
<1>10. ShortAt(u, E, h, Nil, p, d)
  BY <1>2, <1>3, <1>5, <1>8, <1>9 DEF ShortAt, IsRed
<1>11. Short(u, E, h, Nil, p)
  BY <1>10, ShortSibling DEF Short
<1> QED BY <1>11 DEF E, p

-----------------------------------------------------------------------------
(* The code's ways of unlinking a node.                                    *)

\* The node's own fields are as the model keeps them outside the tree.
IsBlank(t, u, n) ==
    /\ u \in TreeType /\ u.root = t.root
    /\ \A m \in Nodes : \A x \in Sides : u.kid[m][x] = IF m = n THEN Nil ELSE t.kid[m][x]
    /\ \A m \in Nodes : u.parent[m] = IF m = n THEN Nil ELSE t.parent[m]
    /\ \A m \in Nodes : u.red[m] = IF m = n THEN TRUE ELSE t.red[m]

\* Blank does just that.
LEMMA BlankIs ==
  ASSUME NEW t \in TreeType, NEW n \in Nodes
  PROVE  IsBlank(t, Blank(t, n), n)
<1>1. NoKids \in [Sides -> Link] /\ (\A x \in Sides : NoKids[x] = Nil) /\ Nil \in Link
  BY LinkNode DEF NoKids
<1>2. /\ Blank(t, n) \in TreeType /\ Blank(t, n).root = t.root
      /\ \A m \in Nodes : \A x \in Sides : Blank(t, n).kid[m][x] = IF m = n THEN Nil ELSE t.kid[m][x]
      /\ \A m \in Nodes : Blank(t, n).parent[m] = IF m = n THEN Nil ELSE t.parent[m]
      /\ \A m \in Nodes : Blank(t, n).red[m] = IF m = n THEN TRUE ELSE t.red[m]
  BY <1>1 DEF TreeType, Blank
<1> QED BY <1>2 DEF IsBlank

\* The side of the only child.
OnlySide(t, n) == IF t.kid[n].left = Nil THEN "right" ELSE "left"

\* _hev_rbtree_erase takes out a node with one child at most.
LEMMA AloneIs ==
  ASSUME NEW t, NEW D, NEW h, Settled(t, D, h), NEW n \in Inside(t, D), Alone(t, n)
  PROVE  /\ OnlySide(t, n) \in Sides /\ t.kid[n][Other(OnlySide(t, n))] = Nil
         /\ Blank(UnlinkAlone(t, n), n) \in TreeType
         /\ IsCut(t, Blank(UnlinkAlone(t, n), n), n, OnlySide(t, n))
         /\ CutRed(t, Blank(UnlinkAlone(t, n), n), n, t.kid[n][OnlySide(t, n)])
<1> DEFINE s == OnlySide(t, n)
           c == t.kid[n][s]
           g == t.parent[n]
           u == ChangeChild(t, n, c, g)
           v == IF c = Nil THEN u ELSE [u EXCEPT !.parent[c] = g, !.red[c] = t.red[n]]
           w == Blank(v, n)
<1>0. /\ Shape(t, D) /\ t \in TreeType /\ n \in Nodes /\ n # Nil
  BY ShapeIs, InsideNodes, LinkNode DEF Settled
<1>1. s \in Sides /\ t.kid[n][Other(s)] = Nil
  BY DEF OnlySide, Sides, Other, Alone
<1>2. c = IF t.kid[n].left = Nil THEN t.kid[n].right ELSE t.kid[n].left
  BY DEF OnlySide
<1>3. UnlinkAlone(t, n) = v
  BY <1>2 DEF UnlinkAlone
<1> HIDE DEF s
<1>4. c # Nil => /\ c \in Nodes /\ t.parent[c] = n /\ c # n /\ t.red[c] /\ ~t.red[n]
  BY <1>1, OnlyChild
<1>5. c \in Link /\ g \in Link
  BY <1>0, <1>1, TreeLinks
<1> HIDE DEF c, g
<1>6. /\ u \in TreeType /\ u.root = IF g = Nil THEN c ELSE t.root
      /\ u.parent = t.parent /\ u.red = t.red
      /\ \A m \in Nodes : \A x \in Sides :
           u.kid[m][x] = IF m = g /\ x = SideOf(t, n, g) THEN c ELSE t.kid[m][x]
  BY <1>0, <1>5, ChangeChildIs
<1> HIDE DEF u
<1>7. /\ v \in TreeType /\ v.root = u.root /\ v.kid = u.kid
      /\ \A m \in Nodes : v.parent[m] = IF m = c THEN g ELSE t.parent[m]
      /\ \A m \in Nodes : v.red[m] = IF m = c THEN FALSE ELSE t.red[m]
  <2>0. t.red[n] \in BOOLEAN
    BY <1>0 DEF TreeType
  <2>1. CASE c = Nil
    BY <1>6, <2>1, LinkNode
  <2>2. CASE c # Nil
    BY <1>4, <1>5, <1>6, <2>0, <2>2 DEF TreeType
  <2> QED BY <2>1, <2>2
<1> HIDE DEF v
<1>8. /\ w \in TreeType /\ w.root = v.root
      /\ \A m \in Nodes : \A x \in Sides : w.kid[m][x] = IF m = n THEN Nil ELSE v.kid[m][x]
      /\ \A m \in Nodes : w.parent[m] = IF m = n THEN Nil ELSE v.parent[m]
      /\ \A m \in Nodes : w.red[m] = IF m = n THEN TRUE ELSE v.red[m]
  <2>1. IsBlank(v, w, n)
    BY <1>0, <1>7, BlankIs
  <2> HIDE DEF w
  <2> QED BY <2>1 DEF IsBlank
<1> HIDE DEF w
<1>9. \A m \in Nodes : \A x \in Sides : t.kid[m][x] = n <=> m = g /\ x = SideOf(t, n, g)
  BY <1>0, PlaceIs DEF g
<1>10. g = Nil <=> t.root = n
  BY <1>0, InsideLinked DEF g
<1>11. CutRed(t, w, n, c)
  BY <1>7, <1>8 DEF CutRed
<1>12. IsCut(t, w, n, s)
  <2>1. w.root = IF t.root = n THEN c ELSE t.root
    BY <1>6, <1>7, <1>8, <1>10
  <2>2. \A m \in Nodes : \A x \in Sides :
          w.kid[m][x] = IF m = n THEN Nil ELSE IF t.kid[m][x] = n THEN c ELSE t.kid[m][x]
    BY <1>6, <1>7, <1>8, <1>9
  <2>3. \A m \in Nodes : w.parent[m] = IF m = n THEN Nil ELSE IF m = c THEN g ELSE t.parent[m]
    BY <1>7, <1>8
  <2> QED BY <2>1, <2>2, <2>3 DEF IsCut, c, g
<1> QED BY <1>1, <1>3, <1>8, <1>11, <1>12 DEF w, c, s

\* The tree after a node is cut out, written down.
CutTree(t, n, s) ==
    LET c == t.kid[n][s]
    IN  [root |-> IF t.root = n THEN c ELSE t.root,
         kid |-> [m \in Nodes |-> [x \in Sides |->
                    IF m = n THEN Nil ELSE IF t.kid[m][x] = n THEN c ELSE t.kid[m][x]]],
         parent |-> [m \in Nodes |-> IF m = n THEN Nil ELSE IF m = c THEN t.parent[n] ELSE t.parent[m]],
         red |-> [m \in Nodes |-> IF m = n THEN TRUE ELSE IF m = c THEN FALSE ELSE t.red[m]]]

\* The tree with such a node taken out, written down.
LEMMA CutTreeIs ==
  ASSUME NEW t \in TreeType, NEW n \in Nodes, NEW s \in Sides
  PROVE  /\ CutTree(t, n, s) \in TreeType /\ IsCut(t, CutTree(t, n, s), n, s)
         /\ CutRed(t, CutTree(t, n, s), n, t.kid[n][s])
<1> DEFINE c == t.kid[n][s]
           u == CutTree(t, n, s)
<1>1. c \in Link /\ t.parent[n] \in Link /\ Nil \in Link /\ t.root \in Link
      /\ \A m \in Nodes : \A x \in Sides : t.kid[m][x] \in Link /\ t.parent[m] \in Link /\ t.red[m] \in BOOLEAN
  BY LinkNode DEF TreeType
<1> HIDE DEF c
<1>2. u = [root |-> IF t.root = n THEN c ELSE t.root,
         kid |-> [m \in Nodes |-> [x \in Sides |->
                    IF m = n THEN Nil ELSE IF t.kid[m][x] = n THEN c ELSE t.kid[m][x]]],
         parent |-> [m \in Nodes |-> IF m = n THEN Nil ELSE IF m = c THEN t.parent[n] ELSE t.parent[m]],
         red |-> [m \in Nodes |-> IF m = n THEN TRUE ELSE IF m = c THEN FALSE ELSE t.red[m]]]
  BY DEF CutTree, c
<1> HIDE DEF u
<1>3. /\ u.root = IF t.root = n THEN c ELSE t.root
      /\ \A m \in Nodes : \A x \in Sides :
           u.kid[m][x] = IF m = n THEN Nil ELSE IF t.kid[m][x] = n THEN c ELSE t.kid[m][x]
      /\ \A m \in Nodes :
           u.parent[m] = IF m = n THEN Nil ELSE IF m = c THEN t.parent[n] ELSE t.parent[m]
      /\ \A m \in Nodes : u.red[m] = IF m = n THEN TRUE ELSE IF m = c THEN FALSE ELSE t.red[m]
  BY <1>2
<1>4. /\ u.kid \in [Nodes -> [Sides -> Link]] /\ u.parent \in [Nodes -> Link]
      /\ u.red \in [Nodes -> BOOLEAN] /\ u.root \in Link
  BY <1>1, <1>2
<1>5. u \in TreeType
  <2>1. u = [root |-> u.root, kid |-> u.kid, parent |-> u.parent, red |-> u.red]
    BY <1>2
  <2> QED BY <1>4, <2>1 DEF TreeType
<1>6. IsCut(t, u, n, s)
  BY <1>3 DEF IsCut, c
<1>7. CutRed(t, u, n, c)
  BY <1>3 DEF CutRed
<1> QED BY <1>5, <1>6, <1>7 DEF u, c

\* The nodes around a node n with two children, l and r, and its successor s,
\* whose only child is c; p loses that child and g is above n.
IsFull(t, n, g, l, r, s, p, c) ==
    /\ n \in Nodes /\ s \in Nodes /\ p \in Nodes /\ l \in Nodes /\ r \in Nodes
    /\ g \in Link /\ c \in Link
    /\ s # n /\ l # s /\ l # n /\ l # r /\ r # n /\ c # n /\ c # s /\ c # l /\ c # r
    /\ g # n /\ g # s /\ g # p /\ p # n /\ s # Nil /\ n # Nil /\ l # Nil /\ r # Nil /\ p # Nil
    /\ t.kid[n].left = l /\ t.kid[n].right = r /\ t.kid[s].left = Nil /\ t.kid[s].right = c
    /\ t.parent[n] = g /\ t.parent[l] = n /\ t.parent[r] = n
    /\ s = r => p = s
    /\ s # r => p # s /\ t.parent[s] = p /\ t.kid[p].left = s
    /\ c # Nil => c \in Nodes /\ t.parent[c] = s
    /\ \A m \in Nodes : \A x \in Sides : t.kid[m][x] = s <=>
         IF s = r THEN m = n /\ x = "right" ELSE m = p /\ x = "left"
    /\ \A m \in Nodes : \A x \in Sides : t.kid[m][x] = n <=> m = g /\ x = SideOf(t, n, g)
    /\ \A m \in Nodes : (t.parent[m] = n <=> m = l \/ m = r) /\ (t.parent[m] = s => m = c)
    /\ t.root # s /\ (t.root = n <=> g = Nil)

\* The order of the successor.
LEMMA SuccessorIs ==
  ASSUME NEW t, NEW D, Shape(t, D), NEW n \in Inside(t, D), ~Alone(t, n)
  PROVE  /\ t.kid[n].right \in Nodes /\ t.kid[n].right # Nil /\ t.kid[n].left # Nil
         /\ EndOf(t, D, t.kid[n].right, "left", Successor(t, n))
         /\ Successor(t, n) \in Below(t, D, n, "right") /\ Successor(t, n) \in Nodes
         /\ Successor(t, n) \in Inside(t, D) /\ Successor(t, n) # n
         /\ n \notin D[Successor(t, n)]
<1>1. n \in Nodes /\ t.kid[n].left # Nil /\ t.kid[n].right # Nil
  BY InsideNodes DEF Alone, Sides
<1>2. t.kid[n].right \in Nodes /\ Below(t, D, n, "right") = D[t.kid[n].right]
  BY <1>1, KidBelow DEF Sides
<1>3. EndOf(t, D, t.kid[n].right, "left", Successor(t, n))
  BY <1>2, EndIs DEF Successor, Sides
<1>4. Successor(t, n) \in Below(t, D, n, "right")
  BY <1>2, <1>3 DEF EndOf
<1>5. Successor(t, n) \in Nodes /\ n \notin D[Successor(t, n)] /\ Successor(t, n) \in D[n]
  BY <1>1, <1>4, NestedBelow, BelowNodes DEF Sides
<1>6. Successor(t, n) # n /\ Successor(t, n) \in Inside(t, D)
  BY <1>1, <1>4, <1>5, BelowNodes, InsideLinked DEF Sides
<1> QED BY <1>1, <1>2, <1>3, <1>4, <1>5, <1>6

\* They are different nodes, but for the successor being the right child.
LEMMA FullNodes ==
  ASSUME NEW t, NEW D, Shape(t, D), NEW n \in Inside(t, D), ~Alone(t, n)
  PROVE  IsFull(t, n, t.parent[n], t.kid[n].left, t.kid[n].right, Successor(t, n),
                SuccessorParent(t, n), t.kid[Successor(t, n)].right)
<1> DEFINE l == t.kid[n].left
           r == t.kid[n].right
           s == Successor(t, n)
           p == SuccessorParent(t, n)
           c == t.kid[s].right
           g == t.parent[n]
<1>0. t \in TreeType /\ n \in Nodes /\ n # Nil /\ Linked(t)
  BY ShapeIs, InsideNodes, LinkNode DEF Shape
<1>1. /\ l # Nil /\ r # Nil /\ r \in Nodes /\ EndOf(t, D, r, "left", s)
      /\ s \in Nodes /\ s # n /\ n \notin D[s] /\ s \in Below(t, D, n, "right")
  BY SuccessorIs
<1> HIDE DEF s
<1>2. /\ l \in Nodes /\ t.parent[l] = n /\ l # n /\ t.parent[r] = n /\ r # n /\ l # r
      /\ n \notin D[r] /\ n \notin D[l] /\ D[r] = Below(t, D, n, "right") /\ D[l] = Below(t, D, n, "left")
      /\ r \in D[r] /\ l \in D[l]
  <2>1. "left" \in Sides /\ "right" \in Sides /\ Other("left") = "right" /\ Other("right") = "left"
    BY DEF Sides, Other
  <2> QED BY <1>0, <1>1, <2>1, KidBelow
<1>3. s \in D[r] /\ t.kid[s].left = Nil /\ (s # r => t.parent[s] # Nil /\ t.kid[t.parent[s]].left = s)
  BY <1>1 DEF EndOf
<1>4. l # s /\ l \notin D[r]
  <2>1. l \notin Below(t, D, n, "right")
    BY <1>0, <1>2, BelowNodes, OtherSide DEF Sides, Other
  <2> QED BY <1>2, <1>3, <2>1
<1>5. D[s] \subseteq D[r] /\ s \in D[s]
  BY <1>0, <1>1, <1>3, Nested, BelowNodes DEF Sides
<1>6. c \in Link /\ (c # Nil => c \in Nodes /\ t.parent[c] = s /\ c \in D[s] /\ c # s)
  <2>1. c \in Link
    BY <1>0, <1>1, TreeLinks DEF Sides
  <2>2. ASSUME c # Nil PROVE c \in Nodes /\ t.parent[c] = s /\ c \in D[s] /\ c # s
    <3>1. "right" \in Sides
      BY DEF Sides
    <3> QED BY <1>0, <1>1, <2>2, <3>1, KidBelow
  <2> QED BY <2>1, <2>2
<1> HIDE DEF c, l, r
<1>7. c # n /\ c # s /\ c # l
  BY <1>0, <1>1, <1>2, <1>4, <1>5, <1>6, LinkNode
<1>8. c # r
  <2>1. c = r => s = n
    BY <1>1, <1>2, <1>6
  <2> QED BY <1>1, <2>1
<1>9. g \in Link /\ (g # Nil => g \in Nodes /\ g \notin D[n])
  <2>1. g \in Link
    BY <1>0, TreeLinks DEF Sides
  <2>2. ASSUME g # Nil PROVE g \in Nodes /\ g \notin D[n]
    <3>1. g \in Nodes
      BY <2>1, <2>2, LinkNode
    <3>2. PICK x \in Sides : t.kid[g][x] = n
      BY <1>0, <2>2 DEF Linked
    <3> QED BY <1>0, <3>1, <3>2, KidBelow
  <2> QED BY <2>1, <2>2
<1>10. D[r] \subseteq D[n] /\ n \in D[n]
  BY <1>0, <1>2, BelowNodes DEF Sides
<1>11. p \in Nodes /\ p \in D[r] /\ (s = r => p = s) /\ (s # r => p = t.parent[s] /\ p # s /\ t.kid[p].left = s)
  <2>1. p = IF s = r THEN s ELSE t.parent[s]
    BY DEF SuccessorParent, s, r
  <2>2. CASE s = r
    BY <1>1, <1>3, <2>1, <2>2
  <2>3. CASE s # r
    <3>1. t.parent[s] \in D[r] /\ t.parent[s] # Nil
      BY <1>0, <1>1, <1>3, <2>3, Climb
    <3>2. t.parent[s] \in Nodes
      BY <1>1, <3>1, BelowNodes DEF Sides
    <3>3. t.parent[s] # s
      BY <1>0, <1>1, <1>3, <2>3, <3>2, KidBelow, LinkNode DEF Sides
    <3> QED BY <1>3, <2>1, <2>3, <3>1, <3>2, <3>3
  <2> QED BY <2>2, <2>3
<1> HIDE DEF p, g
<1>12. g # n /\ g # s /\ g # p /\ p # n
  BY <1>0, <1>1, <1>2, <1>3, <1>9, <1>10, <1>11, LinkNode
<1>13. \A m \in Nodes : \A x \in Sides : t.kid[m][x] = s <=>
         IF s = r THEN m = n /\ x = "right" ELSE m = p /\ x = "left"
  <2>1. CASE s = r
    <3>1. t.kid[n]["right"] = s /\ "right" \in Sides
      BY <2>1 DEF r, Sides
    <3>2. \A m \in Nodes : \A x \in Sides : t.kid[m][x] = s => m = n /\ x = "right"
      BY <1>0, <1>1, <3>1, KidOnce, LinkNode
    <3> QED BY <2>1, <3>1, <3>2
  <2>2. CASE s # r
    <3>1. t.kid[p]["left"] = s /\ "left" \in Sides
      BY <1>11, <2>2 DEF Sides
    <3>2. \A m \in Nodes : \A x \in Sides : t.kid[m][x] = s => m = p /\ x = "left"
      BY <1>0, <1>1, <1>11, <3>1, KidOnce, LinkNode
    <3> QED BY <2>2, <3>1, <3>2
  <2> QED BY <2>1, <2>2
<1>14. \A m \in Nodes : \A x \in Sides : t.kid[m][x] = n <=> m = g /\ x = SideOf(t, n, g)
  BY <1>0, PlaceIs DEF g
<1>15. \A m \in Nodes : (t.parent[m] = n <=> m = l \/ m = r) /\ (t.parent[m] = s => m = c)
  <2>1. "left" \in Sides /\ Other("left") = "right"
    BY DEF Sides, Other
  <2>2. \A m \in Nodes : t.parent[m] = n => m = l \/ m = r
    BY <1>0, <2>1, KidSide DEF l, r
  <2>3. \A m \in Nodes : t.parent[m] = s => m = t.kid[s].left \/ m = t.kid[s].right
    BY <1>0, <1>1, <2>1, KidSide
  <2>4. \A m \in Nodes : t.parent[m] = s => m = c
    BY <1>3, <2>3, LinkNode DEF c
  <2> QED BY <1>2, <2>2, <2>4
<1>16. t.root # s /\ (t.root = n <=> g = Nil)
  <2>1. t.root = s => t.parent[s] = Nil
    BY <1>1, ShapeIs, LinkNode
  <2>2. t.parent[s] # Nil
    BY <1>0, <1>2, <1>3
  <2> QED BY <1>0, <2>1, <2>2, InsideLinked DEF g
<1>17. /\ t.kid[n].left = l /\ t.kid[n].right = r /\ t.kid[s].right = c /\ t.parent[n] = g
       /\ s # Nil /\ p # Nil
  BY <1>1, <1>11, LinkNode DEF l, r, c, g
<1>18. IsFull(t, n, g, l, r, s, p, c)
  BY <1>0, <1>1, <1>2, <1>3, <1>4, <1>6, <1>7, <1>8, <1>9, <1>11, <1>12, <1>13, <1>14, <1>15, <1>16, <1>17 DEF IsFull
<1> QED BY <1>18 DEF g, l, r, s, p, c

\* The pointers the code writes, step by step.
Away(t, s, p, c, r) ==
    IF s = r THEN t
    ELSE SetParent([t EXCEPT !.kid[p].left = c, !.kid[s].right = r], r, s)

\* The successor takes the left child of the node,
TakeLeft(t, s, l) == SetParent([t EXCEPT !.kid[s].left = l], l, s)

\* its own child takes its place, and the node's parent links to it.
CloseGap(t, n, s, g, p, c) == SetBlack(SetParent(ChangeChild(t, n, s, g), c, p), c)

\* _hev_rbtree_erase of a node with two children in these steps.
LEMMA FullUnlink ==
  ASSUME NEW t, NEW n, ~Alone(t, n)
  PROVE  LET s == Successor(t, n)
             p == SuccessorParent(t, n)
             c == t.kid[s].right
             v == TakeLeft(Away(t, s, p, c, t.kid[n].right), s, t.kid[n].left)
         IN  Unlink(t, n) = [CloseGap(v, n, s, t.parent[n], p, c)
                               EXCEPT !.parent[s] = t.parent[n], !.red[s] = t.red[n]]
  BY DEF Unlink, UnlinkFull, Away, TakeLeft, CloseGap

\* The same as relations between trees.
IsParented(t, u, n, p) ==
    /\ u \in TreeType /\ u.root = t.root /\ u.kid = t.kid /\ u.red = t.red
    /\ \A m \in Nodes : u.parent[m] = IF m = n THEN p ELSE t.parent[m]

\* One link upwards was written.
LEMMA Parented ==
  ASSUME NEW t \in TreeType, NEW n \in Link, NEW p \in Link
  PROVE  IsParented(t, SetParent(t, n, p), n, p)
  BY SetParentIs DEF IsParented

\* The successor was taken from its place and has the node's right child;
IsAway(t, u, s, p, c, r) ==
    /\ u \in TreeType /\ u.root = t.root /\ u.red = t.red
    /\ \A m \in Nodes : \A x \in Sides :
         u.kid[m][x] = IF s # r /\ m = p /\ x = "left" THEN c
                       ELSE IF s # r /\ m = s /\ x = "right" THEN r ELSE t.kid[m][x]
    /\ \A m \in Nodes : u.parent[m] = IF s # r /\ m = r THEN s ELSE t.parent[m]

\* it has the left one;
IsLeftTaken(t, u, s, l) ==
    /\ u \in TreeType /\ u.root = t.root /\ u.red = t.red
    /\ \A m \in Nodes : \A x \in Sides :
         u.kid[m][x] = IF m = s /\ x = "left" THEN l ELSE t.kid[m][x]
    /\ \A m \in Nodes : u.parent[m] = IF m = l THEN s ELSE t.parent[m]

\* and it is in the node's place.
IsGapClosed(t, u, n, s, g, p, c) ==
    /\ u \in TreeType /\ u.root = IF g = Nil THEN s ELSE t.root
    /\ \A m \in Nodes : \A x \in Sides :
         u.kid[m][x] = IF m = g /\ x = SideOf(t, n, g) THEN s ELSE t.kid[m][x]
    /\ \A m \in Nodes : u.parent[m] = IF m = c THEN p ELSE t.parent[m]
    /\ \A m \in Nodes : u.red[m] = IF m = c THEN FALSE ELSE t.red[m]

\* The steps of the code are these relations:
LEMMA AwayIs ==
  ASSUME NEW t \in TreeType, NEW s \in Nodes, NEW p \in Nodes, NEW c \in Link, NEW r \in Nodes,
         s # r => p # s
  PROVE  IsAway(t, Away(t, s, p, c, r), s, p, c, r)
<1> DEFINE a == [t EXCEPT !.kid[p]["left"] = c]
           b == [a EXCEPT !.kid[s]["right"] = r]
           u == SetParent(b, r, s)
<1>0. "left" \in Sides /\ "right" \in Sides /\ r \in Link /\ s \in Link
  BY LinkNode DEF Sides
<1>1. CASE s = r
  BY <1>1 DEF Away, IsAway
<1>2. CASE s # r
  <2>1. /\ a \in TreeType /\ a.root = t.root /\ a.parent = t.parent /\ a.red = t.red
        /\ \A m \in Nodes : \A x \in Sides : a.kid[m][x] = IF m = p /\ x = "left" THEN c ELSE t.kid[m][x]
    BY <1>0, KidIs
  <2>2. /\ b \in TreeType /\ b.root = a.root /\ b.parent = a.parent /\ b.red = a.red
        /\ \A m \in Nodes : \A x \in Sides : b.kid[m][x] = IF m = s /\ x = "right" THEN r ELSE a.kid[m][x]
    <3> HIDE DEF a
    <3> QED BY <1>0, <2>1, KidIs
  <2>3. [t EXCEPT !.kid[p].left = c, !.kid[s].right = r] = b
    OBVIOUS
  <2> HIDE DEF b
  <2>4. /\ u \in TreeType /\ u.root = b.root /\ u.kid = b.kid /\ u.red = b.red
        /\ \A m \in Nodes : u.parent[m] = IF m = r THEN s ELSE b.parent[m]
    <3>1. IsParented(b, u, r, s)
      BY <1>0, <2>2, Parented
    <3> HIDE DEF u
    <3> QED BY <3>1 DEF IsParented
  <2>5. Away(t, s, p, c, r) = u
    BY <1>2, <2>3 DEF Away
  <2> HIDE DEF u, a
  <2>6. \A m \in Nodes : \A x \in Sides :
          u.kid[m][x] = IF m = p /\ x = "left" THEN c ELSE IF m = s /\ x = "right" THEN r ELSE t.kid[m][x]
    BY <1>2, <2>1, <2>2, <2>4
  <2>7. IsAway(t, u, s, p, c, r)
    BY <1>2, <2>1, <2>2, <2>4, <2>6 DEF IsAway
  <2> QED BY <2>5, <2>7
<1> QED BY <1>1, <1>2

\* the second,
LEMMA TakeLeftIs ==
  ASSUME NEW t \in TreeType, NEW s \in Nodes, NEW l \in Nodes
  PROVE  IsLeftTaken(t, TakeLeft(t, s, l), s, l)
<1> DEFINE a == [t EXCEPT !.kid[s]["left"] = l]
           u == SetParent(a, l, s)
<1>0. "left" \in Sides /\ l \in Link /\ s \in Link
  BY LinkNode DEF Sides
<1>1. /\ a \in TreeType /\ a.root = t.root /\ a.parent = t.parent /\ a.red = t.red
      /\ \A m \in Nodes : \A x \in Sides : a.kid[m][x] = IF m = s /\ x = "left" THEN l ELSE t.kid[m][x]
  BY <1>0, KidIs
<1>2. TakeLeft(t, s, l) = u
  BY DEF TakeLeft
<1> HIDE DEF a
<1>3. /\ u \in TreeType /\ u.root = a.root /\ u.kid = a.kid /\ u.red = a.red
      /\ \A m \in Nodes : u.parent[m] = IF m = l THEN s ELSE a.parent[m]
  <2>1. IsParented(a, u, l, s)
    BY <1>0, <1>1, Parented
  <2> HIDE DEF u
  <2> QED BY <2>1 DEF IsParented
<1> HIDE DEF u
<1>4. IsLeftTaken(t, u, s, l)
  BY <1>1, <1>3 DEF IsLeftTaken
<1> QED BY <1>2, <1>4

\* and the third.
LEMMA ClosedIs ==
  ASSUME NEW t \in TreeType, NEW n, NEW s \in Nodes, NEW g \in Link, NEW p \in Nodes, NEW c \in Link
  PROVE  IsGapClosed(t, CloseGap(t, n, s, g, p, c), n, s, g, p, c)
<1> DEFINE a == ChangeChild(t, n, s, g)
           b == SetParent(a, c, p)
           u == SetBlack(b, c)
<1>0. s \in Link /\ p \in Link
  BY LinkNode
<1>1. /\ a \in TreeType /\ a.root = IF g = Nil THEN s ELSE t.root
      /\ a.parent = t.parent /\ a.red = t.red
      /\ \A m \in Nodes : \A x \in Sides :
           a.kid[m][x] = IF m = g /\ x = SideOf(t, n, g) THEN s ELSE t.kid[m][x]
  BY <1>0, ChangeChildIs
<1> HIDE DEF a
<1>2. /\ b \in TreeType /\ b.root = a.root /\ b.kid = a.kid /\ b.red = a.red
      /\ \A m \in Nodes : b.parent[m] = IF m = c THEN p ELSE a.parent[m]
  <2>1. IsParented(a, b, c, p)
    BY <1>0, <1>1, Parented
  <2> HIDE DEF b
  <2> QED BY <2>1 DEF IsParented
<1> HIDE DEF b
<1>3. /\ u \in TreeType /\ u.root = b.root /\ u.kid = b.kid /\ u.parent = b.parent
      /\ \A m \in Nodes : u.red[m] = IF m = c THEN FALSE ELSE b.red[m]
  BY <1>2, SetBlackIs
<1>4. CloseGap(t, n, s, g, p, c) = u
  BY DEF CloseGap, a, b
<1> HIDE DEF u
<1>5. IsGapClosed(t, u, n, s, g, p, c)
  <2>1. u.kid = a.kid /\ u.parent = b.parent /\ u.root = a.root /\ u \in TreeType
    BY <1>2, <1>3
  <2>2. \A m \in Nodes : \A x \in Sides :
          u.kid[m][x] = IF m = g /\ x = SideOf(t, n, g) THEN s ELSE t.kid[m][x]
    BY <1>1, <2>1
  <2>3. \A m \in Nodes : u.parent[m] = IF m = c THEN p ELSE t.parent[m]
    BY <1>1, <1>2, <2>1
  <2>4. \A m \in Nodes : u.red[m] = IF m = c THEN FALSE ELSE t.red[m]
    BY <1>1, <1>2, <1>3
  <2> QED BY <1>1, <2>1, <2>2, <2>3, <2>4 DEF IsGapClosed
<1> QED BY <1>4, <1>5

\* Taking out a node with two children is to cut out its successor and to put
\* that in its place.
LEMMA FullIs ==
  ASSUME NEW t, NEW D, Shape(t, D), NEW n \in Inside(t, D), ~Alone(t, n)
  PROVE  LET s == Successor(t, n)
             X == CutTree(t, s, "right")
             R == Blank(Unlink(t, n), n)
         IN  R \in TreeType /\ IsPut(X, R, n, s) /\ PutRed(X, R, n, s)
<1> DEFINE l == t.kid[n].left
           r == t.kid[n].right
           s == Successor(t, n)
           p == SuccessorParent(t, n)
           c == t.kid[s].right
           g == t.parent[n]
           a == Away(t, s, p, c, r)
           v == TakeLeft(a, s, l)
           w == CloseGap(v, n, s, g, p, c)
           f == [w EXCEPT !.parent[s] = g, !.red[s] = t.red[n]]
           R == Blank(f, n)
           X == CutTree(t, s, "right")
<1>0. t \in TreeType
  BY ShapeIs
<1>1. IsFull(t, n, g, l, r, s, p, c)
  BY FullNodes
<1>2. Unlink(t, n) = f
  BY FullUnlink
<1> HIDE DEF l, r, s, p, c, g
<1>3. /\ n \in Nodes /\ s \in Nodes /\ p \in Nodes /\ l \in Nodes /\ r \in Nodes
      /\ g \in Link /\ c \in Link
      /\ s # n /\ l # s /\ l # n /\ l # r /\ r # n /\ c # n /\ c # s /\ c # l /\ c # r
      /\ g # n /\ g # s /\ g # p /\ p # n /\ s # Nil /\ n # Nil /\ l # Nil /\ r # Nil /\ p # Nil
      /\ t.kid[n].left = l /\ t.kid[n].right = r /\ t.kid[s].left = Nil /\ t.kid[s].right = c
      /\ t.parent[n] = g /\ t.parent[l] = n /\ t.parent[r] = n
      /\ s = r => p = s
      /\ s # r => p # s /\ t.parent[s] = p /\ t.kid[p].left = s
      /\ c # Nil => c \in Nodes /\ t.parent[c] = s
  BY <1>1 DEF IsFull
<1>4. /\ \A m \in Nodes : \A x \in Sides : t.kid[m][x] = s <=>
           IF s = r THEN m = n /\ x = "right" ELSE m = p /\ x = "left"
      /\ \A m \in Nodes : \A x \in Sides : t.kid[m][x] = n <=> m = g /\ x = SideOf(t, n, g)
      /\ \A m \in Nodes : (t.parent[m] = n <=> m = l \/ m = r) /\ (t.parent[m] = s => m = c)
      /\ t.root # s /\ (t.root = n <=> g = Nil)
  BY <1>1 DEF IsFull
<1>5. /\ a \in TreeType /\ a.root = t.root /\ a.red = t.red
      /\ \A m \in Nodes : \A x \in Sides :
           a.kid[m][x] = IF s # r /\ m = p /\ x = "left" THEN c
                         ELSE IF s # r /\ m = s /\ x = "right" THEN r ELSE t.kid[m][x]
      /\ \A m \in Nodes : a.parent[m] = IF s # r /\ m = r THEN s ELSE t.parent[m]
  <2>1. IsAway(t, a, s, p, c, r)
    BY <1>0, <1>3, AwayIs
  <2> HIDE DEF a
  <2> QED BY <2>1 DEF IsAway
<1> HIDE DEF a
<1>6. /\ v \in TreeType /\ v.root = a.root /\ v.red = a.red
      /\ \A m \in Nodes : \A x \in Sides : v.kid[m][x] = IF m = s /\ x = "left" THEN l ELSE a.kid[m][x]
      /\ \A m \in Nodes : v.parent[m] = IF m = l THEN s ELSE a.parent[m]
  <2>1. IsLeftTaken(a, v, s, l)
    BY <1>3, <1>5, TakeLeftIs
  <2> HIDE DEF v
  <2> QED BY <2>1 DEF IsLeftTaken
<1> HIDE DEF v
<1>7. /\ w \in TreeType /\ w.root = IF g = Nil THEN s ELSE v.root
      /\ \A m \in Nodes : \A x \in Sides :
           w.kid[m][x] = IF m = g /\ x = SideOf(v, n, g) THEN s ELSE v.kid[m][x]
      /\ \A m \in Nodes : w.parent[m] = IF m = c THEN p ELSE v.parent[m]
      /\ \A m \in Nodes : w.red[m] = IF m = c THEN FALSE ELSE v.red[m]
  <2>1. IsGapClosed(v, w, n, s, g, p, c)
    BY <1>3, <1>6, ClosedIs
  <2> HIDE DEF w
  <2> QED BY <2>1 DEF IsGapClosed
<1> HIDE DEF w
<1>8. /\ f \in TreeType /\ f.root = w.root /\ f.kid = w.kid
      /\ \A m \in Nodes : f.parent[m] = IF m = s THEN g ELSE w.parent[m]
      /\ \A m \in Nodes : f.red[m] = IF m = s THEN t.red[n] ELSE w.red[m]
  <2>1. t.red[n] \in BOOLEAN
    BY <1>0, <1>3 DEF TreeType
  <2> QED BY <1>3, <1>7, <2>1 DEF TreeType
<1> HIDE DEF f
<1>9. /\ R \in TreeType /\ R.root = f.root
      /\ \A m \in Nodes : \A x \in Sides : R.kid[m][x] = IF m = n THEN Nil ELSE f.kid[m][x]
      /\ \A m \in Nodes : R.parent[m] = IF m = n THEN Nil ELSE f.parent[m]
      /\ \A m \in Nodes : R.red[m] = IF m = n THEN TRUE ELSE f.red[m]
  <2>1. IsBlank(f, R, n)
    BY <1>3, <1>8, BlankIs
  <2> HIDE DEF R
  <2> QED BY <2>1 DEF IsBlank
<1>10. Blank(Unlink(t, n), n) = R
  BY <1>2
<1> HIDE DEF R
<1>11. "left" \in Sides /\ "right" \in Sides /\ \A x \in Sides : x = "left" \/ x = "right"
  BY DEF Sides
<1>12. /\ X.root = IF t.root = s THEN c ELSE t.root
       /\ \A m \in Nodes : \A x \in Sides :
            X.kid[m][x] = IF m = s THEN Nil ELSE IF t.kid[m][x] = s THEN c ELSE t.kid[m][x]
       /\ \A m \in Nodes :
            X.parent[m] = IF m = s THEN Nil ELSE IF m = c THEN t.parent[s] ELSE t.parent[m]
       /\ \A m \in Nodes : X.red[m] = IF m = s THEN TRUE ELSE IF m = c THEN FALSE ELSE t.red[m]
  <2>1. IsCut(t, X, s, "right") /\ CutRed(t, X, s, t.kid[s]["right"])
    BY <1>0, <1>3, <1>11, CutTreeIs
  <2> HIDE DEF X
  <2> QED BY <1>3, <2>1 DEF IsCut, CutRed
<1> HIDE DEF X
<1>13. g \in Nodes => SideOf(v, n, g) = SideOf(t, n, g)
  <2>1. g \in Nodes => v.kid[g]["left"] = t.kid[g]["left"]
    BY <1>3, <1>5, <1>6, <1>11
  <2> QED BY <2>1 DEF SideOf
<1>14. R.root = IF X.root = n THEN s ELSE X.root
  BY <1>4, <1>5, <1>6, <1>7, <1>8, <1>9, <1>12
<1>15. \A m \in Nodes : \A x \in Sides :
         R.kid[m][x] = IF m = n THEN Nil ELSE IF m = s THEN X.kid[n][x]
                       ELSE IF X.kid[m][x] = n THEN s ELSE X.kid[m][x]
  <2>1. ASSUME NEW x \in Sides PROVE R.kid[s][x] = X.kid[n][x]
    <3>1. R.kid[s][x] = v.kid[s][x]
      BY <1>3, <1>7, <1>8, <1>9
    <3>2. CASE x = "left"
      <4>1. R.kid[s][x] = l
        BY <1>3, <1>6, <3>1, <3>2
      <4>2. X.kid[n][x] = l
        BY <1>3, <1>11, <1>12, <3>2
      <4> QED BY <4>1, <4>2
    <3>3. CASE x = "right"
      <4>1. v.kid[s][x] = a.kid[s][x]
        BY <1>3, <1>6, <3>3
      <4>2. a.kid[s][x] = IF s # r THEN r ELSE c
        BY <1>3, <1>5, <3>3
      <4>3. X.kid[n][x] = IF r = s THEN c ELSE r
        BY <1>3, <1>12, <3>3
      <4> QED BY <3>1, <4>1, <4>2, <4>3
    <3> QED BY <1>11, <3>2, <3>3
  <2>2. ASSUME NEW m \in Nodes, NEW x \in Sides, m # n, m # s
        PROVE  R.kid[m][x] = IF X.kid[m][x] = n THEN s ELSE X.kid[m][x]
    <3>1. R.kid[m][x] = IF t.kid[m][x] = n THEN s ELSE v.kid[m][x]
      BY <1>3, <1>4, <1>7, <1>8, <1>9, <1>13, <2>2, LinkNode
    <3>2. v.kid[m][x] = IF s # r /\ m = p /\ x = "left" THEN c ELSE t.kid[m][x]
      BY <1>5, <1>6, <2>2
    <3>3. X.kid[m][x] = IF t.kid[m][x] = s THEN c ELSE t.kid[m][x]
      BY <1>12, <2>2
    <3>4. t.kid[m][x] = s <=> s # r /\ m = p /\ x = "left"
      BY <1>4, <2>2
    <3> QED BY <1>3, <3>1, <3>2, <3>3, <3>4
  <2>3. ASSUME NEW x \in Sides PROVE R.kid[n][x] = Nil
    BY <1>3, <1>9
  <2> QED BY <1>3, <2>1, <2>2, <2>3
<1>16. \A m \in Nodes : R.parent[m] = IF m = n THEN Nil ELSE IF m = s THEN X.parent[n]
                                      ELSE IF X.parent[m] = n THEN s ELSE X.parent[m]
  <2>1. R.parent[s] = X.parent[n]
    <3>1. R.parent[s] = g
      BY <1>3, <1>8, <1>9
    <3>2. X.parent[n] = g
      BY <1>3, <1>12
    <3> QED BY <3>1, <3>2
  <2>2. ASSUME NEW m \in Nodes, m # n, m # s
        PROVE  R.parent[m] = IF X.parent[m] = n THEN s ELSE X.parent[m]
    <3>1. R.parent[m] = IF m = c THEN p ELSE IF m = l THEN s ELSE IF s # r /\ m = r THEN s ELSE t.parent[m]
      BY <1>5, <1>6, <1>7, <1>8, <1>9, <2>2
    <3>2. X.parent[m] = IF m = c THEN t.parent[s] ELSE t.parent[m]
      BY <1>12, <2>2
    <3>3. CASE m = c
      <4>1. s = r => t.parent[s] = n /\ p = s
        BY <1>3
      <4> QED BY <1>3, <3>1, <3>2, <3>3, <4>1
    <3>4. CASE m # c
      <4>1. t.parent[m] = n <=> m = l \/ m = r
        BY <1>4
      <4> QED BY <2>2, <3>1, <3>2, <3>4, <4>1
    <3> QED BY <3>3, <3>4
  <2>3. R.parent[n] = Nil
    BY <1>3, <1>9
  <2> QED BY <1>3, <2>1, <2>2, <2>3
<1>17. \A m \in Nodes : R.red[m] = IF m = n THEN TRUE ELSE IF m = s THEN X.red[n] ELSE X.red[m]
  <2>1. X.red[n] = t.red[n]
    BY <1>3, <1>12
  <2>2. ASSUME NEW m \in Nodes, m # n, m # s PROVE R.red[m] = X.red[m]
    <3>1. R.red[m] = w.red[m]
      BY <1>8, <1>9, <2>2
    <3>2. v.red = t.red
      BY <1>5, <1>6
    <3>3. w.red[m] = IF m = c THEN FALSE ELSE t.red[m]
      BY <1>7, <3>2
    <3>4. X.red[m] = IF m = c THEN FALSE ELSE t.red[m]
      BY <1>12, <2>2
    <3> QED BY <3>1, <3>3, <3>4
  <2>3. R.red[s] = t.red[n] /\ R.red[n] = TRUE
    BY <1>3, <1>8, <1>9
  <2> QED BY <2>1, <2>2, <2>3
<1>18. IsPut(X, R, n, s) /\ PutRed(X, R, n, s)
  BY <1>14, <1>15, <1>16, <1>17 DEF IsPut, PutRed
<1> QED BY <1>9, <1>10, <1>18 DEF X, s

\* The successor may be put in the place of the node, as the order of the names
\* has nothing between them.
LEMMA SuccessorPlace ==
  ASSUME NEW t, NEW D, Shape(t, D), NEW n \in Inside(t, D), ~Alone(t, n),
         NEW a \in Inside(t, D), a # Successor(t, n), NEW x \in Sides, Beyond(a, x, n)
  PROVE  Beyond(a, x, Successor(t, n))
<1> DEFINE s == Successor(t, n)
           r == t.kid[n].right
<1>1. /\ r \in Nodes /\ EndOf(t, D, r, "left", s) /\ s \in Below(t, D, n, "right")
      /\ s \in Nodes /\ n \in Nodes /\ a \in Nodes /\ r # Nil
  BY SuccessorIs, InsideNodes
<1>2. /\ "left" \in Sides /\ "right" \in Sides /\ Other("left") = "right" /\ Other("right") = "left"
      /\ \A y \in Sides : y = "left" \/ y = "right"
  BY DEF Sides, Other
<1>3. Below(t, D, n, "right") = D[r] /\ s \in D[n]
  BY <1>1, <1>2, KidBelow, BelowNodes
<1> HIDE DEF s, r
<1>4. Beyond(n, "right", s)
  BY <1>1, <1>2 DEF Shape, Sorted
<1>5. a # n
  BY <1>1, BeyondOne
<1>6. CASE a \in Below(t, D, n, "right")
  <2>1. Beyond(a, "left", s)
    BY <1>1, <1>3, <1>6 DEF EndOf, s
  <2>2. Beyond(n, "right", a)
    BY <1>1, <1>2, <1>6 DEF Shape, Sorted
  <2>3. Beyond(a, "left", n)
    BY <1>2, <2>2, BeyondTurn
  <2>4. x = "left"
    BY <1>1, <1>2, <2>3, BeyondOne
  <2> QED BY <2>1, <2>4 DEF s
<1>7. CASE a \in Below(t, D, n, "left")
  <2>1. Beyond(n, "left", a)
    BY <1>1, <1>2, <1>7 DEF Shape, Sorted
  <2>2. Beyond(a, "right", n)
    BY <1>2, <2>1, BeyondTurn
  <2>3. x = "right"
    BY <1>1, <1>2, <2>2, BeyondOne
  <2>4. Beyond(a, "right", s)
    BY <1>1, <1>2, <1>4, <2>2, BeyondChain
  <2> QED BY <2>3, <2>4 DEF s
<1>8. CASE a \notin D[n]
  <2>1. Beyond(n, Other(x), a) /\ Other(x) \in Sides /\ Other(Other(x)) = x
    BY BeyondTurn, OtherSide
  <2>2. Beyond(s, Other(x), a)
    BY <1>3, <1>8, <2>1, Outside
  <2> QED BY <2>1, <2>2, BeyondTurn DEF s
<1>9. a \in D[n] => a \in Below(t, D, n, "right") \/ a \in Below(t, D, n, "left")
  BY <1>1, <1>2, <1>5, BelowNodes
<1> QED BY <1>6, <1>7, <1>8, <1>9 DEF s

\* It is as if the successor were cut out first and then put in the node's place.
LEMMA FullPut ==
  ASSUME NEW t, NEW D, NEW h, Settled(t, D, h), NEW n \in Inside(t, D), ~Alone(t, n)
  PROVE  LET s == Successor(t, n)
             X == CutTree(t, s, "right")
             E == CutBelow(D, s)
         IN  /\ X \in TreeType /\ IsCut(t, X, s, "right") /\ CutRed(t, X, s, t.kid[s]["right"])
             /\ s \in Inside(t, D) /\ s # n /\ s # t.root /\ t.kid[s]["left"] = Nil
             /\ Shape(X, E) /\ Inside(X, E) = Inside(t, D) \ {s}
             /\ MayPut(X, E, n, s) /\ s \in Nodes
<1> DEFINE s == Successor(t, n)
           X == CutTree(t, s, "right")
           E == CutBelow(D, s)
<1>0. Shape(t, D) /\ t \in TreeType /\ "right" \in Sides /\ Other("right") = "left"
  BY ShapeIs DEF Settled, Sides, Other
<1>1. /\ s \in Nodes /\ s \in Inside(t, D) /\ s # n /\ t.kid[s]["left"] = Nil /\ n \notin D[s]
      /\ n \in Nodes
  BY <1>0, SuccessorIs, InsideNodes DEF EndOf
<1>2. s # t.root
  <2>1. n \in D[t.root]
    BY <1>0, <1>1, InsideLinked, LinkNode
  <2> HIDE DEF s
  <2> QED BY <1>1, <2>1
<1>3. \A a \in Inside(t, D) : \A x \in Sides : a # s /\ Beyond(a, x, n) => Beyond(a, x, s)
  BY <1>0, SuccessorPlace
<1> HIDE DEF s
<1>4. X \in TreeType /\ IsCut(t, X, s, "right") /\ CutRed(t, X, s, t.kid[s]["right"])
  BY <1>0, <1>1, CutTreeIs
<1> HIDE DEF X
<1>5. Shape(X, E) /\ Inside(X, E) = Inside(t, D) \ {s}
  BY <1>0, <1>1, <1>4, CutShape
<1> HIDE DEF E
<1>6. MayPut(X, E, n, s)
  BY <1>1, <1>3, <1>5 DEF MayPut
<1> QED BY <1>1, <1>2, <1>4, <1>5, <1>6 DEF X, E, s

\* So hev_rbtree_erase leaves a tree without the node, settled or one black node
\* short: where the node has one child at most,
LEMMA EraseAlone ==
  ASSUME NEW t, NEW D, NEW h, Settled(t, D, h), NEW n \in Inside(t, D), Alone(t, n)
  PROVE  /\ Rebalance(t, n) = Nil =>
              \E E, k : /\ Settled(Blank(Unlink(t, n), n), E, k)
                        /\ Inside(Blank(Unlink(t, n), n), E) = Inside(t, D) \ {n}
         /\ Rebalance(t, n) # Nil =>
              \E E, k : /\ Short(Blank(Unlink(t, n), n), E, k, Nil, Rebalance(t, n))
                        /\ Inside(Blank(Unlink(t, n), n), E) = Inside(t, D) \ {n}
<1> DEFINE u == Blank(Unlink(t, n), n)
           s == OnlySide(t, n)
           E == CutBelow(D, n)
<1>1. Unlink(t, n) = UnlinkAlone(t, n)
  BY DEF Unlink
<1>2. /\ s \in Sides /\ t.kid[n][Other(s)] = Nil /\ u \in TreeType
      /\ IsCut(t, u, n, s) /\ CutRed(t, u, n, t.kid[n][s])
  BY <1>1, AloneIs
<1>3. Rebalance(t, n) = IF t.red[n] \/ t.kid[n] # NoKids THEN Nil ELSE t.parent[n]
  BY DEF Rebalance
<1>4. t.kid[n] = NoKids <=> t.kid[n][s] = Nil
  <2>1. t \in TreeType /\ n \in Nodes
    BY ShapeIs, InsideNodes DEF Settled
  <2>2. t.kid[n] = NoKids <=> \A x \in Sides : t.kid[n][x] = Nil
    BY <2>1 DEF TreeType, NoKids
  <2>3. \A x \in Sides : x = s \/ x = Other(s)
    BY <1>2, OtherSide
  <2> HIDE DEF s
  <2> QED BY <1>2, <2>2, <2>3
<1> HIDE DEF u, s, E
<1>5. Inside(u, E) = Inside(t, D) \ {n}
  BY <1>2, CutCalm DEF E
<1>6. ASSUME Rebalance(t, n) = Nil PROVE Settled(u, E, h)
  BY <1>2, <1>3, <1>4, <1>6, CutRound DEF E
<1>7. ASSUME Rebalance(t, n) # Nil PROVE Short(u, E, h, Nil, Rebalance(t, n))
  BY <1>2, <1>3, <1>4, <1>7, CutShort DEF E
<1> QED BY <1>5, <1>6, <1>7 DEF u

\* and where it has two.
LEMMA EraseFull ==
  ASSUME NEW t, NEW D, NEW h, Settled(t, D, h), NEW n \in Inside(t, D), ~Alone(t, n)
  PROVE  /\ Rebalance(t, n) = Nil =>
              \E E, k : /\ Settled(Blank(Unlink(t, n), n), E, k)
                        /\ Inside(Blank(Unlink(t, n), n), E) = Inside(t, D) \ {n}
         /\ Rebalance(t, n) # Nil =>
              \E E, k : /\ Short(Blank(Unlink(t, n), n), E, k, Nil, Rebalance(t, n))
                        /\ Inside(Blank(Unlink(t, n), n), E) = Inside(t, D) \ {n}
<1> DEFINE u == Blank(Unlink(t, n), n)
           s == Successor(t, n)
           X == CutTree(t, s, "right")
           E == CutBelow(D, s)
<1>0. Shape(t, D) /\ t \in TreeType /\ "right" \in Sides /\ Other("right") = "left" /\ n \in Nodes
  BY ShapeIs, InsideNodes DEF Settled, Sides, Other
<1>1. /\ X \in TreeType /\ IsCut(t, X, s, "right") /\ CutRed(t, X, s, t.kid[s]["right"])
      /\ s \in Inside(t, D) /\ s # n /\ s # t.root /\ t.kid[s]["left"] = Nil
      /\ Shape(X, E) /\ Inside(X, E) = Inside(t, D) \ {s}
      /\ MayPut(X, E, n, s) /\ s \in Nodes
  BY FullPut
<1>2. u \in TreeType /\ IsPut(X, u, n, s) /\ PutRed(X, u, n, s)
  BY <1>0, FullIs
<1>3. Rebalance(t, n) = IF t.red[s] \/ t.kid[s] # NoKids THEN Nil ELSE SuccessorParent(t, n)
  BY DEF Rebalance
<1>4. SuccessorParent(t, n) = IF t.parent[s] = n THEN s ELSE t.parent[s]
  <2>1. SuccessorParent(t, n) = IF s = t.kid[n].right THEN s ELSE t.parent[s]
    BY DEF SuccessorParent
  <2>2. IsFull(t, n, t.parent[n], t.kid[n].left, t.kid[n].right, s,
               SuccessorParent(t, n), t.kid[s].right)
    BY <1>0, FullNodes
  <2> HIDE DEF s
  <2>3. /\ t.parent[t.kid[n].right] = n
        /\ s # t.kid[n].right => t.parent[s] = SuccessorParent(t, n)
        /\ SuccessorParent(t, n) # n
    BY <2>2 DEF IsFull
  <2> QED BY <2>1, <2>3
<1> HIDE DEF u, X, E, s
<1>5. t.kid[s] = NoKids <=> t.kid[s]["right"] = Nil
  <2>1. t.kid[s] = NoKids <=> \A x \in Sides : t.kid[s][x] = Nil
    BY <1>0, <1>1 DEF TreeType, NoKids
  <2> QED BY <1>1, <2>1 DEF Sides
<1>6. t.parent[s] # Nil
  BY <1>0, <1>1, InsideLinked
<1>7. (Inside(X, E) \ {n}) \cup {s} = Inside(t, D) \ {n}
  BY <1>1
<1>8. ASSUME Rebalance(t, n) = Nil
      PROVE  \E F, k : Settled(u, F, k) /\ Inside(u, F) = Inside(t, D) \ {n}
  <2>1. t.red[s] \/ t.kid[s]["right"] # Nil
    <3>1. SuccessorParent(t, n) # Nil
      BY <1>1, <1>4, <1>6, LinkNode
    <3> QED BY <1>3, <1>5, <1>8, <3>1
  <2>2. Settled(X, E, h)
    BY <1>0, <1>1, <2>1, CutRound DEF E
  <2>3. \E F, k : Settled(u, F, k) /\ Inside(u, F) = (Inside(X, E) \ {n}) \cup {s}
    BY <1>1, <1>2, <2>2, PutRound
  <2> QED BY <1>7, <2>3
<1>9. ASSUME Rebalance(t, n) # Nil
      PROVE  \E F, k : Short(u, F, k, Nil, Rebalance(t, n)) /\ Inside(u, F) = Inside(t, D) \ {n}
  <2>1. ~t.red[s] /\ t.kid[s]["right"] = Nil
    BY <1>3, <1>5, <1>9
  <2>2. Short(X, E, h, Nil, t.parent[s])
    BY <1>0, <1>1, <1>6, <2>1, CutShort DEF E
  <2>3. \E F, k : /\ Short(u, F, k, Nil, IF t.parent[s] = n THEN s ELSE t.parent[s])
                  /\ Inside(u, F) = (Inside(X, E) \ {n}) \cup {s}
    BY <1>1, <1>2, <2>2, PutShort
  <2>4. Rebalance(t, n) = IF t.parent[s] = n THEN s ELSE t.parent[s]
    BY <1>3, <1>4, <1>9
  <2> QED BY <1>7, <2>3, <2>4
<1> QED BY <1>8, <1>9 DEF u

-----------------------------------------------------------------------------
(* hev_rbtree_replace.                                                     *)

\* The node with the links and the colour of the victim.
TakeFields(t, v, w) ==
    [t EXCEPT !.kid[w] = t.kid[v], !.parent[w] = t.parent[v], !.red[w] = t.red[v]]

\* hev_rbtree_replace, the old node's fields reset.
ReplaceTree(t, v, w) ==
    LET kids == t.kid[v]
        u == SetParent(SetParent(TakeFields(t, v, w), kids.left, w), kids.right, w)
    IN  Blank(ChangeChild(u, v, w, t.parent[v]), v)

\* The copy of the old node's fields.
LEMMA FieldsTaken ==
  ASSUME NEW t \in TreeType, NEW v \in Nodes, NEW w \in Nodes
  PROVE  /\ TakeFields(t, v, w) \in TreeType /\ TakeFields(t, v, w).root = t.root
         /\ \A m \in Nodes : \A x \in Sides :
              TakeFields(t, v, w).kid[m][x] = IF m = w THEN t.kid[v][x] ELSE t.kid[m][x]
         /\ \A m \in Nodes :
              TakeFields(t, v, w).parent[m] = IF m = w THEN t.parent[v] ELSE t.parent[m]
         /\ \A m \in Nodes : TakeFields(t, v, w).red[m] = IF m = w THEN t.red[v] ELSE t.red[m]
<1>1. t.kid[v] \in [Sides -> Link] /\ t.parent[v] \in Link /\ t.red[v] \in BOOLEAN
  BY DEF TreeType
<1> QED BY <1>1 DEF TakeFields, TreeType

\* hev_rbtree_replace puts the new node in the old one's place,
LEMMA ReplaceIs ==
  ASSUME NEW t, NEW D, Shape(t, D), NEW v \in Inside(t, D), NEW w \in Nodes, w \notin Inside(t, D)
  PROVE  /\ ReplaceTree(t, v, w) \in TreeType
         /\ IsPut(t, ReplaceTree(t, v, w), v, w) /\ PutRed(t, ReplaceTree(t, v, w), v, w)
<1> DEFINE l == t.kid[v].left
           r == t.kid[v].right
           g == t.parent[v]
           a == TakeFields(t, v, w)
           b == SetParent(a, l, w)
           c == SetParent(b, r, w)
           d == ChangeChild(c, v, w, g)
           u == Blank(d, v)
<1>0. /\ t \in TreeType /\ v \in Nodes /\ v # w /\ v # Nil /\ w # Nil /\ w \in Link
      /\ "left" \in Sides /\ "right" \in Sides
  BY ShapeIs, InsideNodes, LinkNode DEF Sides
<1>1. l \in Link /\ r \in Link /\ g \in Link
  BY <1>0, TreeLinks
<1>2. t.parent[w] = Nil /\ \A x \in Sides : t.kid[w][x] = Nil
  BY DEF Shape, Clean
<1>3. /\ a \in TreeType /\ a.root = t.root
      /\ \A m \in Nodes : \A x \in Sides : a.kid[m][x] = IF m = w THEN t.kid[v][x] ELSE t.kid[m][x]
      /\ \A m \in Nodes : a.parent[m] = IF m = w THEN g ELSE t.parent[m]
      /\ \A m \in Nodes : a.red[m] = IF m = w THEN t.red[v] ELSE t.red[m]
  BY <1>0, FieldsTaken
<1>4. l = t.kid[v]["left"] /\ r = t.kid[v]["right"]
  OBVIOUS
<1>5. ReplaceTree(t, v, w) = u
  BY DEF ReplaceTree
<1>6. \A m \in Nodes : t.parent[m] = v <=> m = l \/ m = r
  <2>1. ASSUME NEW m \in Nodes, t.parent[m] = v PROVE m = l \/ m = r
    <3>1. PICK s \in Sides : t.kid[v][s] = m
      BY <1>0, <2>1 DEF Shape, Linked
    <3> QED BY <3>1 DEF Sides
  <2>2. ASSUME NEW m \in Nodes, m = l \/ m = r PROVE t.parent[m] = v
    BY <1>0, <2>2, LinkNode DEF Shape, Linked
  <2> QED BY <2>1, <2>2
<1>7. g # w
  <2>1. ASSUME g = w PROVE FALSE
    <3>1. PICK s \in Sides : t.kid[g][s] = v
      BY <1>0, <2>1 DEF Shape, Linked
    <3> QED BY <1>0, <1>2, <2>1, <3>1
  <2> QED BY <2>1
<1>8. \A m \in Nodes : \A x \in Sides : t.kid[m][x] = v <=> m = g /\ x = SideOf(t, v, g)
  BY <1>0, PlaceIs DEF g
<1>9. g = Nil <=> t.root = v
  BY <1>0, InsideLinked DEF g
<1>10. g # v
  BY <1>0, <1>6, KidBelow, LinkNode
<1> HIDE DEF l, r, g, a
<1>11. b \in TreeType /\ b.root = t.root /\ b.kid = a.kid /\ b.red = a.red
       /\ \A m \in Nodes : b.parent[m] = IF m = l THEN w ELSE a.parent[m]
  <2>1. IsParented(a, b, l, w)
    BY <1>0, <1>1, <1>3, Parented
  <2> HIDE DEF b
  <2> QED BY <1>3, <2>1 DEF IsParented
<1> HIDE DEF b
<1>12. c \in TreeType /\ c.root = t.root /\ c.kid = a.kid /\ c.red = a.red
       /\ \A m \in Nodes : c.parent[m] = IF m = r THEN w ELSE b.parent[m]
  <2>1. IsParented(b, c, r, w)
    BY <1>0, <1>1, <1>11, Parented
  <2> HIDE DEF c
  <2> QED BY <1>11, <2>1 DEF IsParented
<1> HIDE DEF c
<1>13. /\ d \in TreeType /\ d.root = IF g = Nil THEN w ELSE c.root
       /\ d.parent = c.parent /\ d.red = c.red
       /\ \A m \in Nodes : \A x \in Sides :
            d.kid[m][x] = IF m = g /\ x = SideOf(c, v, g) THEN w ELSE c.kid[m][x]
  BY <1>0, <1>1, <1>12, ChangeChildIs
<1> HIDE DEF d
<1>14. IsBlank(d, u, v)
  BY <1>0, <1>13, BlankIs
<1> HIDE DEF u
<1>15. g # Nil => SideOf(c, v, g) = SideOf(t, v, g)
  <2>1. g # Nil => c.kid[g]["left"] = t.kid[g]["left"]
    BY <1>0, <1>1, <1>3, <1>7, <1>12, LinkNode
  <2> QED BY <2>1 DEF SideOf
<1>16. u \in TreeType
  BY <1>14 DEF IsBlank
<1>17. PutRed(t, u, v, w)
  <2>1. d.red = a.red
    BY <1>12, <1>13
  <2>2. \A m \in Nodes : u.red[m] = IF m = v THEN TRUE ELSE d.red[m]
    BY <1>14 DEF IsBlank
  <2> QED BY ZenonT(60), <1>3, <2>1, <2>2 DEF PutRed
<1>18. u.root = IF t.root = v THEN w ELSE t.root
  BY <1>9, <1>12, <1>13, <1>14 DEF IsBlank
<1>19. \A m \in Nodes : u.parent[m] = IF m = v THEN Nil ELSE IF m = w THEN g
                                      ELSE IF t.parent[m] = v THEN w ELSE t.parent[m]
  <2>1. w # l /\ w # r
    BY <1>0, <1>2, <1>6
  <2>2. \A m \in Nodes : d.parent[m] = IF m = r THEN w ELSE IF m = l THEN w
                                       ELSE IF m = w THEN g ELSE t.parent[m]
    BY <1>3, <1>11, <1>12, <1>13
  <2> QED BY <1>6, <1>14, <2>1, <2>2 DEF IsBlank
<1>20. \A m \in Nodes : \A x \in Sides :
         u.kid[m][x] = IF m = v THEN Nil ELSE IF m = w THEN t.kid[v][x]
                       ELSE IF t.kid[m][x] = v THEN w ELSE t.kid[m][x]
  <2>1. ASSUME NEW m \in Nodes, NEW x \in Sides
        PROVE  d.kid[m][x] = IF t.kid[m][x] = v THEN w ELSE IF m = w THEN t.kid[v][x] ELSE t.kid[m][x]
    <3>1. d.kid[m][x] = IF m = g /\ x = SideOf(t, v, g) THEN w ELSE c.kid[m][x]
      BY <1>0, <1>13, <1>15, LinkNode
    <3>2. c.kid[m][x] = IF m = w THEN t.kid[v][x] ELSE t.kid[m][x]
      BY <1>3, <1>12
    <3>3. t.kid[m][x] = v <=> m = g /\ x = SideOf(t, v, g)
      BY <1>8
    <3> QED BY <3>1, <3>2, <3>3
  <2>2. \A x \in Sides : t.kid[w][x] # v
    BY <1>0, <1>2
  <2> QED BY <1>0, <1>14, <2>1, <2>2 DEF IsBlank
<1>21. IsPut(t, u, v, w)
  BY <1>18, <1>19, <1>20 DEF IsPut, g
<1> QED BY <1>5, <1>16, <1>17, <1>21

\* so a node of the same name replaces the one in the tree.
LEMMA ReplaceRound ==
  ASSUME NEW t, NEW D, NEW h, Settled(t, D, h), NEW v \in Nodes, NEW w \in Nodes, w # v,
         NameOf[w] = NameOf[v], Found(t, NameOf[v]) = v
  PROVE  \E E, k : Settled(ReplaceTree(t, v, w), E, k)
                   /\ Inside(ReplaceTree(t, v, w), E) = (Inside(t, D) \ {v}) \cup {w}
<1>1. Shape(t, D) /\ v # Nil /\ NameOf[v] \in Seq(0 .. 255)
  BY LinkNode, NameSeq DEF Settled
<1>2. v \in Inside(t, D) /\ w \notin Inside(t, D)
  BY <1>1, FoundIs
<1>3. ReplaceTree(t, v, w) \in TreeType /\ IsPut(t, ReplaceTree(t, v, w), v, w)
      /\ PutRed(t, ReplaceTree(t, v, w), v, w)
  BY <1>1, <1>2, ReplaceIs
<1>4. MayPut(t, D, v, w)
  <2>1. ASSUME NEW a \in Inside(t, D), NEW x \in Sides, Beyond(a, x, v) PROVE Beyond(a, x, w)
    <3>1. a \in Nodes
      BY <1>1, InsideNodes
    <3> QED BY <2>1, <3>1, BeyondName
  <2> QED BY <1>2, <2>1 DEF MayPut
<1> QED BY <1>3, <1>4, PutRound

-----------------------------------------------------------------------------
(* The invariant, and the rounds of the loops.                             *)

\* The tree is as the loop at work expects it at the start of a round.
Poised(t, D, h, p, c, q) ==
    \/ p = "idle" /\ c = Nil /\ q = Nil /\ Settled(t, D, h)
    \/ p = "insert" /\ Upset(t, D, h, c, q)
    \/ p = "erase" /\ Short(t, D, h, c, q)

\* The nodes of such a tree are those of X.
Holds(t, p, c, q, X) == \E D, h : Poised(t, D, h, p, c, q) /\ Inside(t, D) = X

\* The inductive invariant: the tree is poised for the next step, with some set of nodes.
IInv == clearing \in BOOLEAN /\ \E X : Holds(tree, pc, cur, par, X)

\* A poised tree is a search tree.
LEMMA PoisedShape ==
  ASSUME NEW t, NEW D, NEW h, NEW p, NEW c, NEW q, Poised(t, D, h, p, c, q)
  PROVE  Shape(t, D)
  BY DEF Poised, Settled, Upset, Short, ShortAt

\* A settled tree is one at rest.
LEMMA AtRest ==
  ASSUME NEW t, NEW D, NEW h, NEW X, Settled(t, D, h), Inside(t, D) = X
  PROVE  Holds(t, "idle", Nil, Nil, X)
  BY DEF Holds, Poised

\* The side on which the code finds a node below its parent.
LEMMA NearSide ==
  ASSUME NEW t, NEW D, Shape(t, D), NEW p \in Nodes, t.parent[p] # Nil
  PROVE  /\ Near(t, t.parent[p], p) \in Sides /\ t.kid[t.parent[p]][Near(t, t.parent[p], p)] = p
         /\ t.parent[p] \in Nodes
<1>1. t.parent[p] \in Nodes
  BY ShapeIs, TreeLinks, LinkNode DEF Sides
<1>2. PICK s \in Sides : t.kid[t.parent[p]][s] = p
  BY DEF Shape, Linked
<1> QED BY <1>1, <1>2 DEF Near, Sides

\* The last round of hev_rbtree_insert_color at the root keeps what holds,
LEMMA InsertAtRootStep ==
  ASSUME NEW X, Holds(tree, pc, cur, par, X), InsertAtRoot
  PROVE  Holds(tree', pc', cur', par', X)
<1>1. PICK D, h : Poised(tree, D, h, pc, cur, par) /\ Inside(tree, D) = X
  BY DEF Holds
<1>2. Upset(tree, D, h, cur, Nil)
  BY <1>1 DEF Poised, InsertAtRoot
<1>3. Settled(tree', D, h) /\ Inside(tree', D) = X
  BY <1>1, <1>2, AtRootRound DEF InsertAtRoot
<1> QED BY <1>3, AtRest DEF InsertAtRoot, Rest

\* the one below a black node,
LEMMA InsertBelowBlackStep ==
  ASSUME NEW X, Holds(tree, pc, cur, par, X), InsertBelowBlack
  PROVE  Holds(tree', pc', cur', par', X)
<1>1. PICK D, h : Poised(tree, D, h, pc, cur, par) /\ Inside(tree, D) = X
  BY DEF Holds
<1>2. Upset(tree, D, h, cur, par) /\ par # Nil /\ ~tree.red[par]
  BY <1>1 DEF Poised, InsertBelowBlack
<1>3. Settled(tree, D, h)
  BY <1>2, BelowBlackRound
<1> QED BY <1>1, <1>3, AtRest DEF InsertBelowBlack, Rest

\* What the loop of insert_color finds above a red parent.
LEMMA RedParent ==
  ASSUME NEW D, NEW h, Upset(tree, D, h, cur, par), par # Nil, tree.red[par]
  PROVE  /\ ParentSide \in Sides /\ tree.kid[tree.parent[par]][ParentSide] = par
         /\ Gparent \in Nodes /\ tree \in TreeType
<1>1. Shape(tree, D) /\ Calm(tree, D, cur) /\ cur \in Inside(tree, D) /\ par = tree.parent[cur]
  BY DEF Upset
<1>2. tree \in TreeType /\ cur \in Nodes
  BY <1>1, ShapeIs, InsideNodes
<1>3. par \in Inside(tree, D) /\ par \in Nodes
  BY <1>1, <1>2, InsideLinked, InsideNodes
<1>4. par # cur
  BY <1>1, <1>2, <1>3, NearSide, KidBelow, LinkNode
<1>5. tree.parent[par] # Nil
  BY <1>1, <1>3, <1>4, CalmUp
<1>6. ParentSide = Near(tree, tree.parent[par], par)
  BY DEF ParentSide, Gparent, Near
<1> QED BY <1>1, <1>2, <1>3, <1>5, <1>6, NearSide DEF Gparent

\* the one with a red uncle,
LEMMA InsertFlipStep ==
  ASSUME NEW X, Holds(tree, pc, cur, par, X), InsertFlip
  PROVE  Holds(tree', pc', cur', par', X)
<1>1. PICK D, h : Poised(tree, D, h, pc, cur, par) /\ Inside(tree, D) = X
  BY DEF Holds
<1>2. Upset(tree, D, h, cur, par) /\ par # Nil /\ tree.red[par] /\ pc = "insert"
  BY <1>1 DEF Poised, InsertFlip
<1>3. ParentSide \in Sides /\ tree.kid[tree.parent[par]][ParentSide] = par
  BY <1>2, RedParent
<1>4. IsRed(tree, tree.kid[tree.parent[par]][Other(ParentSide)])
  BY DEF InsertFlip, Uncle, Gparent
<1>5. tree' = [SetBlack(SetBlack(tree, tree.kid[tree.parent[par]][Other(ParentSide)]), par)
                 EXCEPT !.red[tree.parent[par]] = TRUE]
  BY DEF InsertFlip, Uncle, Gparent
<1>6. cur' = tree.parent[par] /\ par' = tree.parent[tree.parent[par]] /\ pc' = "insert"
  BY <1>2 DEF InsertFlip, Gparent
<1> HIDE DEF ParentSide
<1>7. tree' = FlipTree(tree, tree.parent[par], par, ParentSide)
  BY <1>5 DEF FlipTree
<1>8. \E k : Upset(tree', D, k, cur', par') /\ Inside(tree', D) = X
  BY <1>1, <1>2, <1>3, <1>4, <1>6, <1>7, FlipRound
<1> QED BY <1>6, <1>8 DEF Holds, Poised

\* and the one that rotates.
LEMMA InsertRotateStep ==
  ASSUME NEW X, Holds(tree, pc, cur, par, X), InsertRotate
  PROVE  Holds(tree', pc', cur', par', X)
<1> DEFINE s == ParentSide
           g == tree.parent[par]
<1>1. PICK D, h : Poised(tree, D, h, pc, cur, par) /\ Inside(tree, D) = X
  BY DEF Holds
<1>2. Upset(tree, D, h, cur, par) /\ par # Nil /\ tree.red[par]
  BY <1>1 DEF Poised, InsertRotate
<1>3. s \in Sides /\ tree.kid[g][s] = par
  BY <1>2, RedParent
<1>4. ~IsRed(tree, tree.kid[g][Other(s)])
  BY DEF InsertRotate, Uncle, Gparent
<1>5. CASE tree.kid[par][Other(s)] = cur
  <2>1. tree' = InnerTree(tree, g, par, cur, s)
    BY <1>5 DEF InsertRotate, Outwards, InsertTurn, InnerTree, Gparent
  <2> HIDE DEF s
  <2>2. \E E : Settled(tree', E, h) /\ Inside(tree', E) = X
    BY <1>1, <1>2, <1>3, <1>4, <1>5, <2>1, InnerRound
  <2> QED BY <2>2, AtRest DEF InsertRotate, Rest
<1>6. CASE tree.kid[par][Other(s)] # cur
  <2>1. tree' = OuterTree(tree, g, par, s)
    BY <1>6 DEF InsertRotate, Outwards, OuterTree, Gparent
  <2> HIDE DEF s
  <2>2. \E E : Settled(tree', E, h) /\ Inside(tree', E) = X
    BY <1>1, <1>2, <1>3, <1>4, <1>6, <2>1, OuterRound
  <2> QED BY <2>2, AtRest DEF InsertRotate, Rest
<1> QED BY <1>5, <1>6

-----------------------------------------------------------------------------
(* The rounds of _hev_rbtree_erase_color keep what holds.                  *)

\* After the red sibling is rotated away.
Ready(u, E, h, X) ==
    /\ ShortAt(u, E, h, cur, par, NodeSide) /\ Inside(u, E) = X
    /\ u = SiblingBlack /\ u.kid[par][Other(NodeSide)] = Sibling
    /\ ~u.red[Sibling]

\* Case 1 of an erase round makes the tree ready for the others.
LEMMA SiblingReady ==
  ASSUME NEW X, Holds(tree, pc, cur, par, X), pc = "erase"
  PROVE  \E E, h : Ready(SiblingBlack, E, h, X)
<1> DEFINE d == NodeSide
           u == SiblingBlack
<1>1. PICK D, h : Poised(tree, D, h, pc, cur, par) /\ Inside(tree, D) = X
  BY DEF Holds
<1>2. Short(tree, D, h, cur, par)
  BY <1>1 DEF Poised
<1>3. d = Near(tree, par, cur)
  BY DEF NodeSide, Near
<1>4. u = SiblingTree(tree, par, tree.kid[par][Other(d)], Other(d))
  BY DEF SiblingBlack, SiblingTree, OuterTree
<1>5. Sibling = u.kid[par][Other(d)]
  BY DEF Sibling
<1> HIDE DEF d, u
<1>6. ShortAt(tree, D, h, cur, par, d)
  BY <1>2, <1>3 DEF Short
<1>7. \E E : /\ ShortAt(u, E, h, cur, par, d) /\ Inside(u, E) = Inside(tree, D)
             /\ ~u.red[u.kid[par][Other(d)]]
  BY <1>4, <1>6, SiblingRound
<1>8. \E E : ShortAt(u, E, h, cur, par, d) /\ Inside(u, E) = X /\ ~u.red[Sibling]
  BY <1>1, <1>5, <1>7
<1> QED BY <1>5, <1>8 DEF Ready, d, u

\* The rounds of an erase that change colours keep what holds,
LEMMA EraseFlipStep ==
  ASSUME NEW X, Holds(tree, pc, cur, par, X), EraseFlip
  PROVE  Holds(tree', pc', cur', par', X)
<1> DEFINE u == SiblingBlack
           d == NodeSide
           c == Sibling
<1>0. pc = "erase"
  BY DEF EraseFlip
<1>1. PICK E, h : Ready(u, E, h, X)
  BY <1>0, SiblingReady
<1>2. /\ ShortAt(u, E, h, cur, par, d) /\ Inside(u, E) = X
      /\ u.kid[par][Other(d)] = c /\ ~u.red[c]
  BY <1>1 DEF Ready
<1>3. \A s \in Sides : ~IsRed(u, u.kid[c][s])
  BY DEF EraseFlip, NephewsBlack, Nephew
<1>4. IF [u EXCEPT !.red[c] = TRUE].red[par]
      THEN tree' = SetBlack([u EXCEPT !.red[c] = TRUE], par) /\ Rest
      ELSE tree' = [u EXCEPT !.red[c] = TRUE] /\ Upwards
  BY DEF EraseFlip
<1>5. Upwards <=> IF u.parent[par] = Nil THEN Rest
                  ELSE cur' = par /\ par' = u.parent[par] /\ UNCHANGED pc
  BY DEF Upwards
<1> HIDE DEF u, d, c
<1>6. PICK v, k :
           /\ v = [u EXCEPT !.red[c] = TRUE]
           /\ Inside(v, E) = X /\ Inside(SetBlack(v, par), E) = X
           /\ v.red[par] => Settled(SetBlack(v, par), E, k)
           /\ ~v.red[par] /\ v.parent[par] = Nil => Settled(v, E, k)
           /\ ~v.red[par] /\ v.parent[par] # Nil => Short(v, E, k, par, v.parent[par])
           /\ v.red[par] = u.red[par] /\ v.parent = u.parent
  BY <1>2, <1>3, ShortFlip
<1>7. IF v.red[par] THEN tree' = SetBlack(v, par) /\ Rest ELSE tree' = v /\ Upwards
  BY <1>4, <1>6
<1>8. CASE v.red[par]
  <2>1. Settled(tree', E, k) /\ Inside(tree', E) = X
    BY <1>6, <1>7, <1>8
  <2> QED BY <1>7, <1>8, <2>1, AtRest DEF Rest
<1>9. CASE ~v.red[par] /\ u.parent[par] = Nil
  <2>1. Settled(tree', E, k) /\ Inside(tree', E) = X
    BY <1>6, <1>7, <1>9
  <2> QED BY <1>5, <1>7, <1>9, <2>1, AtRest DEF Rest
<1>10. CASE ~v.red[par] /\ u.parent[par] # Nil
  <2>1. Short(tree', E, k, par, u.parent[par]) /\ Inside(tree', E) = X
    BY <1>6, <1>7, <1>10
  <2>2. pc' = "erase" /\ cur' = par /\ par' = u.parent[par]
    BY <1>0, <1>5, <1>7, <1>10
  <2> QED BY <2>1, <2>2 DEF Holds, Poised
<1> QED BY <1>8, <1>9, <1>10

\* and those that rotate.
LEMMA EraseRotateStep ==
  ASSUME NEW X, Holds(tree, pc, cur, par, X), EraseRotate
  PROVE  Holds(tree', pc', cur', par', X)
<1> DEFINE u == SiblingBlack
           d == NodeSide
           c == Sibling
           z == Other(d)
           o == u.kid[c][z]
           i == u.kid[c][d]
<1>0. pc = "erase"
  BY DEF EraseRotate
<1>1. PICK E, h : Ready(u, E, h, X)
  BY <1>0, SiblingReady
<1>2. /\ ShortAt(u, E, h, cur, par, d) /\ Inside(u, E) = X
      /\ u.kid[par][z] = c /\ ~u.red[c]
  BY <1>1 DEF Ready
<1>3. \E s \in Sides : IsRed(u, u.kid[c][s])
  BY DEF EraseRotate, NephewsBlack, Nephew
<1>4. d \in Sides /\ z \in Sides /\ Other(z) = d /\ \A s \in Sides : s = d \/ s = z
  BY OtherSide DEF NodeSide, Sides
<1>5. IsRed(u, o) =>
        tree' = OuterRise(u, par, c, o, z)
  BY DEF EraseRotate, Nephew, OuterTurn, OuterRise
<1>6. ~IsRed(u, o) =>
        tree' = RotateSetParents(
                  SetBlack(SetParent(Swing([SwingBlack(u, c, i, d) EXCEPT !.kid[par][z] = i],
                                           par, i, z), c, i), c), par, i, FALSE)
  BY DEF EraseRotate, Nephew
<1>7. Rest
  BY DEF EraseRotate
<1> HIDE DEF u, d, c
<1>8. ~IsRed(u, o) => tree' = InnerRise(u, par, c, i, z)
  BY <1>4, <1>6 DEF EraseTurn, InnerRise
<1>9. CASE IsRed(u, o)
  <2>1. \E t, F, k, b :
           /\ b = u.kid[par][z]
           /\ t = OuterRise(u, par, b, u.kid[b][z], z)
           /\ Settled(t, F, k) /\ Inside(t, F) = X
    BY <1>2, <1>9, OuterErase
  <2>2. \E F, k : Settled(tree', F, k) /\ Inside(tree', F) = X
    BY <1>2, <1>5, <1>9, <2>1
  <2> QED BY <1>7, <2>2, AtRest DEF Rest
<1>10. CASE ~IsRed(u, o)
  <2>1. IsRed(u, i)
    BY <1>3, <1>4, <1>10
  <2>2. \E t, F, k, b, top :
           /\ b = u.kid[par][z] /\ top = u.kid[b][d]
           /\ t = InnerRise(u, par, b, top, z)
           /\ Settled(t, F, k) /\ Inside(t, F) = X
    BY <1>2, <1>10, <2>1, InnerErase
  <2>3. \E F, k : Settled(tree', F, k) /\ Inside(tree', F) = X
    BY <1>2, <1>8, <1>10, <2>2
  <2> QED BY <1>7, <2>3, AtRest DEF Rest
<1> QED BY <1>9, <1>10

-----------------------------------------------------------------------------
(* The operations, and the invariant.                                      *)

\* Between two calls the tree is settled.
LEMMA Idle ==
  ASSUME NEW X, Holds(tree, pc, cur, par, X), pc = "idle"
  PROVE  /\ cur = Nil /\ par = Nil
         /\ \E D, h : Settled(tree, D, h) /\ Shape(tree, D) /\ Inside(tree, D) = X
<1>1. PICK D, h : Poised(tree, D, h, pc, cur, par) /\ Inside(tree, D) = X
  BY DEF Holds
<1> QED BY <1>1, PoisedShape DEF Poised

\* The empty tree.
LEMMA InitHolds ==
  ASSUME Init
  PROVE  Holds(tree, pc, cur, par, {})
<1> DEFINE D == [n \in Nodes |-> {n}]
           h == [n \in Nodes |-> 0]
<1>1. /\ tree \in TreeType /\ tree.root = Nil
      /\ \A n \in Nodes : tree.parent[n] = Nil
      /\ \A n \in Nodes : \A s \in Sides : tree.kid[n][s] = Nil
  <2>1. NoKids \in [Sides -> Link] /\ (\A s \in Sides : NoKids[s] = Nil) /\ Nil \in Link
    BY LinkNode DEF NoKids
  <2> QED BY <2>1 DEF Init, TreeType
<1>2. Inside(tree, D) = {}
  BY <1>1 DEF Inside, Sub
<1>3. \A n \in Nodes : \A s \in Sides : Below(tree, D, n, s) = {}
  BY <1>1 DEF Below, Sub
<1>4. Shape(tree, D)
  <2>1. Linked(tree)
    BY <1>1 DEF Linked
  <2>2. Spread(tree, D)
    BY <1>3 DEF Spread
  <2>3. Sorted(tree, D)
    BY <1>3 DEF Sorted
  <2>4. Clean(tree, D)
    BY <1>1 DEF Clean
  <2> QED BY <1>1, <2>1, <2>2, <2>3, <2>4 DEF Shape
<1>5. Settled(tree, D, h)
  <2>1. Calm(tree, D, Nil)
    BY <1>2 DEF Calm
  <2>2. Even(tree, D, h, Nil, "left")
    BY <1>2 DEF Even
  <2> QED BY <1>4, <2>1, <2>2 DEF Settled
<1> QED BY <1>2, <1>5, AtRest DEF Init

\* hev_rbtree_erase takes the one node out before any round of its loop;
LEMMA EraseStep ==
  ASSUME NEW X, Holds(tree, pc, cur, par, X), pc = "idle", NEW n \in X, Erase(n)
  PROVE  Holds(tree', pc', cur', par', X \ {n})
<1>1. PICK D, h : Settled(tree, D, h) /\ Inside(tree, D) = X
  BY Idle
<1>2. tree' = Blank(Unlink(tree, n), n)
  BY DEF Erase
<1>3. IF Rebalance(tree, n) = Nil THEN Rest
      ELSE pc' = "erase" /\ cur' = Nil /\ par' = Rebalance(tree, n)
  BY DEF Erase
<1>4. CASE Rebalance(tree, n) = Nil
  <2>1. \E E, k : Settled(tree', E, k) /\ Inside(tree', E) = X \ {n}
    BY <1>1, <1>2, <1>4, EraseAlone, EraseFull
  <2> QED BY <1>3, <1>4, <2>1, AtRest DEF Rest
<1>5. CASE Rebalance(tree, n) # Nil
  <2>1. \E E, k : Short(tree', E, k, Nil, Rebalance(tree, n)) /\ Inside(tree', E) = X \ {n}
    BY <1>1, <1>2, <1>5, EraseAlone, EraseFull
  <2> QED BY <1>3, <1>5, <2>1 DEF Holds, Poised
<1> QED BY <1>4, <1>5

\* What a search of an authenticator at rest answers.
LEMMA SearchStep ==
  ASSUME NEW X, Holds(tree, pc, cur, par, X), pc = "idle", NEW name \in Names
  PROVE  /\ Found(tree, name) = Nil => \A a \in X : NameOf[a] # name
         /\ Found(tree, name) # Nil => /\ Found(tree, name) \in X /\ Found(tree, name) \in Nodes
                                       /\ NameOf[Found(tree, name)] = name
                                       /\ \A a \in X : NameOf[a] = name => a = Found(tree, name)
<1>1. PICK D, h : Shape(tree, D) /\ Inside(tree, D) = X
  BY Idle
<1>2. name \in Seq(0 .. 255)
  BY NamesAssumption
<1> QED BY <1>1, <1>2, FoundIs

\* add puts the user's node in, where the name was free;
LEMMA AddStep ==
  ASSUME NEW X, Holds(tree, pc, cur, par, X), NEW n \in Nodes, Add(n)
  PROVE  /\ Found(tree, NameOf[n]) # Nil => Holds(tree', pc', cur', par', X)
         /\ Found(tree, NameOf[n]) = Nil => Holds(tree', pc', cur', par', X \cup {n})
<1>1. PICK D, h : Settled(tree, D, h) /\ Inside(tree, D) = X
  BY Idle DEF Add
<1>2. CASE Found(tree, NameOf[n]) # Nil
  <2>1. tree' = tree /\ pc' = pc /\ cur' = cur /\ par' = par
    BY <1>2 DEF Add
  <2> QED BY <1>2, <2>1
<1>3. CASE Found(tree, NameOf[n]) = Nil
  <2> DEFINE p == SearchEnd(tree, NameOf[n])
             u == NodeLink(tree, n, p, NameOf[n])
  <2>1. tree' = u /\ pc' = "insert" /\ cur' = n /\ par' = p
    BY <1>3 DEF Add
  <2>2. \E E, k : Upset(u, E, k, n, p) /\ Inside(u, E) = X \cup {n}
    BY <1>1, <1>3, LinkRound
  <2> HIDE DEF u, p
  <2> QED BY <1>3, <2>1, <2>2 DEF Holds, Poised
<1> QED BY <1>2, <1>3

\* del takes out those of the name;
LEMMA DelStep ==
  ASSUME NEW X, Holds(tree, pc, cur, par, X), NEW name \in Names, Del(name)
  PROVE  Holds(tree', pc', cur', par', {a \in X : NameOf[a] # name})
<1>1. pc = "idle"
  BY DEF Del
<1>2. CASE Found(tree, name) = Nil
  <2>1. tree' = tree /\ pc' = pc /\ cur' = cur /\ par' = par
    BY <1>2 DEF Del
  <2>2. {a \in X : NameOf[a] # name} = X
    BY <1>1, <1>2, SearchStep
  <2> QED BY <2>1, <2>2
<1>3. CASE Found(tree, name) # Nil
  <2> DEFINE n == Found(tree, name)
  <2>1. Erase(n)
    BY <1>3 DEF Del
  <2>2. n \in X /\ {a \in X : NameOf[a] # name} = X \ {n}
    BY <1>1, <1>3, SearchStep
  <2> HIDE DEF n
  <2> QED BY <1>1, <2>1, <2>2, EraseStep
<1> QED BY <1>2, <1>3

\* replace exchanges two;
LEMMA ReplaceStep ==
  ASSUME NEW X, Holds(tree, pc, cur, par, X), NEW v \in Nodes, NEW n \in Nodes, Replace(v, n)
  PROVE  v \in X /\ Holds(tree', pc', cur', par', (X \ {v}) \cup {n})
<1>0. /\ pc = "idle" /\ n # v /\ NameOf[n] = NameOf[v] /\ Found(tree, NameOf[v]) = v
      /\ UNCHANGED <<pc, cur, par>>
  BY DEF Replace
<1>1. PICK D, h : Settled(tree, D, h) /\ Inside(tree, D) = X
  BY <1>0, Idle
<1>2. cur = Nil /\ par = Nil
  BY <1>0, Idle
<1>3. tree' = ReplaceTree(tree, v, n)
  BY DEF Replace, ReplaceTree, TakeFields
<1>4. \E E, k : Settled(tree', E, k) /\ Inside(tree', E) = (X \ {v}) \cup {n}
  BY <1>0, <1>1, <1>3, ReplaceRound
<1>5. NameOf[v] \in Names /\ v # Nil
  BY NamesAssumption, LinkNode
<1>6. v \in X
  BY <1>0, <1>5, SearchStep
<1> QED BY <1>0, <1>2, <1>4, <1>6, AtRest

\* hev_rbtree_first.
LEMMA FirstStep ==
  ASSUME NEW X, Holds(tree, pc, cur, par, X), pc = "idle"
  PROVE  /\ First(tree) = Nil <=> tree.root = Nil
         /\ First(tree) = Nil => X = {}
         /\ First(tree) # Nil => First(tree) \in X
<1>1. PICK D, h : Shape(tree, D) /\ Inside(tree, D) = X
  BY Idle
<1>2. CASE tree.root = Nil
  BY <1>1, <1>2 DEF First, Inside, Sub
<1>3. CASE tree.root # Nil
  <2>1. tree.root \in Nodes /\ D[tree.root] = X /\ X \subseteq Nodes /\ "left" \in Sides
    BY <1>1, <1>3, ShapeIs, LinkNode, InsideNodes DEF Inside, Sub, Sides
  <2>2. EndOf(tree, D, tree.root, "left", End(tree, tree.root, "left"))
    BY <1>1, <2>1, EndIs
  <2>3. First(tree) \in X
    BY <1>3, <2>1, <2>2 DEF EndOf, First
  <2> QED BY <1>3, <2>1, <2>3, LinkNode
<1> QED BY <1>2, <1>3

\* a round of clear takes out the first;
LEMMA ClearFirstStep ==
  ASSUME NEW X, Holds(tree, pc, cur, par, X), ClearFirst
  PROVE  First(tree) \in X /\ Holds(tree', pc', cur', par', X \ {First(tree)})
<1>1. pc = "idle" /\ First(tree) # Nil /\ Erase(First(tree))
  BY DEF ClearFirst
<1>2. First(tree) \in X
  BY <1>1, FirstStep
<1> QED BY <1>1, <1>2, EraseStep

\* the rounds of the loops keep the nodes;
LEMMA RebalancingStep ==
  ASSUME NEW X, Holds(tree, pc, cur, par, X), Rebalancing
  PROVE  Holds(tree', pc', cur', par', X)
<1>1. CASE InsertAtRoot
  BY <1>1, InsertAtRootStep
<1>2. CASE InsertBelowBlack
  BY <1>2, InsertBelowBlackStep
<1>3. CASE InsertFlip
  BY <1>3, InsertFlipStep
<1>4. CASE InsertRotate
  BY <1>4, InsertRotateStep
<1>5. CASE EraseFlip
  BY <1>5, EraseFlipStep
<1>6. CASE EraseRotate
  BY <1>6, EraseRotateStep
<1> QED BY <1>1, <1>2, <1>3, <1>4, <1>5, <1>6 DEF Rebalancing

\* and so does what leaves the tree alone.
LEMMA StillStep ==
  ASSUME NEW X, Holds(tree, pc, cur, par, X), UNCHANGED <<tree, pc, cur, par>>
  PROVE  Holds(tree', pc', cur', par', X)
  OBVIOUS

\* The empty authenticator has the invariant,
THEOREM InitIInv == Init => IInv
<1> SUFFICES ASSUME Init PROVE IInv
  OBVIOUS
<1>1. Holds(tree, pc, cur, par, {})
  BY InitHolds
<1>2. clearing \in BOOLEAN
  BY DEF Init
<1> QED BY <1>1, <1>2 DEF IInv

\* every call of the tree and every round of its loops keeps it,
THEOREM NextIInv == IInv /\ [Next]_vars => IInv'
<1> SUFFICES ASSUME IInv, [Next]_vars PROVE IInv'
  OBVIOUS
<1>1. PICK X : Holds(tree, pc, cur, par, X)
  BY DEF IInv
<1>2. \E Y : Holds(tree', pc', cur', par', Y)
  <2>1. ASSUME NEW n \in Nodes, Add(n) PROVE \E Y : Holds(tree', pc', cur', par', Y)
    BY <1>1, <2>1, AddStep
  <2>2. ASSUME NEW n \in Nodes, NEW v \in Nodes, Replace(v, n)
        PROVE  \E Y : Holds(tree', pc', cur', par', Y)
    BY <1>1, <2>2, ReplaceStep
  <2>3. ASSUME NEW name \in Names, Del(name) PROVE \E Y : Holds(tree', pc', cur', par', Y)
    BY <1>1, <2>3, DelStep
  <2>4. ASSUME NEW name \in Names, Get(name) PROVE \E Y : Holds(tree', pc', cur', par', Y)
    BY <1>1, <2>4, StillStep DEF Get
  <2>5. CASE Clear
    BY <1>1, <2>5, StillStep DEF Clear
  <2>6. CASE ClearFirst
    BY <1>1, <2>6, ClearFirstStep
  <2>7. CASE Cleared
    BY <1>1, <2>7, StillStep DEF Cleared
  <2>8. CASE Rebalancing
    BY <1>1, <2>8, RebalancingStep
  <2>9. CASE UNCHANGED vars
    BY <1>1, <2>9, StillStep DEF vars
  <2> QED BY <2>1, <2>2, <2>3, <2>4, <2>5, <2>6, <2>7, <2>8, <2>9 DEF Next, Clearing
<1>3. clearing' \in BOOLEAN
  <2>1. clearing \in BOOLEAN
    BY DEF IInv
  <2> QED BY <2>1 DEF Next, vars, Add, Replace, Del, Get, Clear, Clearing, ClearFirst, Cleared,
             Rebalancing, InsertAtRoot, InsertBelowBlack, InsertFlip, InsertRotate, EraseFlip, EraseRotate
<1> QED BY <1>2, <1>3 DEF IInv

\* so it always holds of the authenticator's tree: a search tree whose rounds of
\* repair each have one flaw, where the loop's variables say it is.
THEOREM Invariance == Spec => []IInv
  BY InitIInv, NextIInv, PTL DEF Spec

-----------------------------------------------------------------------------
(* What the invariant says of the tree.                                    *)

\* What the invariant says of the variables and of the nodes in the tree.
LEMMA HoldsIs ==
  ASSUME NEW t, NEW p, NEW c, NEW q, NEW X, Holds(t, p, c, q, X)
  PROVE  /\ t \in TreeType /\ X \subseteq Nodes /\ X = Reached({t.root}, KidsOf(t))
         /\ c \in Link /\ q \in Link
         /\ \/ p = "idle" /\ c = Nil /\ q = Nil
            \/ p = "insert" /\ c # Nil
            \/ p = "erase" /\ q # Nil
<1>1. PICK D, h : Poised(t, D, h, p, c, q) /\ Inside(t, D) = X
  BY DEF Holds
<1>2. Shape(t, D)
  BY <1>1, PoisedShape
<1>3. t \in TreeType /\ X \subseteq Nodes /\ X = Reached({t.root}, KidsOf(t))
  BY <1>1, <1>2, ShapeIs, InsideNodes, ReachedDown
<1>4. CASE p = "idle"
  BY <1>1, <1>3, <1>4, LinkNode DEF Poised
<1>5. CASE p = "insert"
  <2>1. c \in X /\ q = t.parent[c]
    BY <1>1, <1>5 DEF Poised, Upset
  <2>2. c \in Nodes /\ c # Nil /\ q \in Link
    BY <1>3, <2>1, LinkNode, TreeLinks DEF Sides
  <2> QED BY <1>3, <1>5, <2>2, LinkNode
<1>6. CASE p = "erase"
  <2>1. q \in X /\ \E d \in Sides : t.kid[q][d] = c
    BY <1>1, <1>6 DEF Poised, Short, ShortAt
  <2>2. q \in Nodes /\ q # Nil /\ c \in Link
    BY <1>3, <2>1, LinkNode, TreeLinks
  <2> QED BY <1>3, <1>6, <2>2, LinkNode
<1> QED BY <1>1, <1>4, <1>5, <1>6 DEF Poised

\* InTree are the nodes of the invariant,
LEMMA InTreeIs ==
  ASSUME NEW X, Holds(tree, pc, cur, par, X)
  PROVE  InTree = X
<1>1. Kids = KidsOf(tree)
  BY DEF Kids, KidsOf
<1> QED BY <1>1, HoldsIs DEF InTree

\* after a step, too.
LEMMA InTreeIsNext ==
  ASSUME NEW X, Holds(tree', pc', cur', par', X)
  PROVE  InTree' = X
<1>1. Kids' = KidsOf(tree')
  BY DEF Kids, KidsOf
<1>2. InTree' = Reached({tree'.root}, KidsOf(tree'))
  BY <1>1 DEF InTree
<1> QED BY <1>2, HoldsIs

\* The invariant has the type invariant,
LEMMA IInvType == IInv => TypeOK
  BY HoldsIs DEF IInv, TypeOK, TreeType

\* The variables keep their types: no link of the tree leads outside its nodes,
\* and the loops of insert_color and erase_color never go on from a null.
THEOREM TypeCorrect == Spec => []TypeOK
  BY Invariance, IInvType, PTL

\* it has the agreement of the links,
LEMMA IInvLinks == IInv => LinksAgree
<1> SUFFICES ASSUME IInv PROVE LinksAgree
  OBVIOUS
<1>1. PICK X : Holds(tree, pc, cur, par, X)
  BY DEF IInv
<1>2. PICK D, h : Poised(tree, D, h, pc, cur, par) /\ Inside(tree, D) = X
  BY <1>1 DEF Holds
<1>3. Shape(tree, D) /\ InTree \subseteq Nodes
  BY <1>1, <1>2, PoisedShape, InTreeIs, HoldsIs
<1>4. tree.root # Nil => tree.parent[tree.root] = Nil
  BY <1>3, ShapeIs
<1>5. \A n \in InTree : \A s \in Sides :
        tree.kid[n][s] # Nil => tree.parent[tree.kid[n][s]] = n /\ tree.kid[n][Other(s)] # tree.kid[n][s]
  BY <1>3, KidBelow
<1> QED BY <1>4, <1>5 DEF LinksAgree

\* At every round of every call a child's parent is the node it hangs on and no
\* node hangs twice: no rotation of the code drops or shares a subtree.
THEOREM LinksAlwaysAgree == Spec => []LinksAgree
  BY Invariance, IInvLinks, PTL
-----------------------------------------------------------------------------
(* The directory.                                                          *)

\* An empty tree is an empty directory.
LEMMA DirectoryInit == Init => Directory!Init
<1> SUFFICES ASSUME Init PROVE Directory!Init
  OBVIOUS
<1>1. InTree = {}
  BY InitHolds, InTreeIs
<1> QED BY <1>1 DEF Init, Directory!Init, NamesIn

\* The names of a set of nodes.
NamesOf(X) == {NameOf[a] : a \in X}

\* hev_socks5_authenticator_add adds the name's first user, and no other;
LEMMA DirectoryAdd ==
  ASSUME NEW X, Holds(tree, pc, cur, par, X), NEW n \in Nodes, Add(n)
  PROVE  Directory!Next
<1> DEFINE name == NameOf[n]
<1>1. InTree = X
  BY InTreeIs
<1>2. name \in Names
  BY NamesAssumption
<1>3. pc = "idle" /\ ~clearing /\ clearing' = clearing
  BY DEF Add
<1>4. CASE Found(tree, name) # Nil
  <2>1. InTree' = X
    BY <1>4, AddStep, InTreeIsNext
  <2>2. name \in NamesIn /\ NamesIn' = NamesIn
    BY <1>1, <1>2, <1>3, <1>4, <2>1, SearchStep DEF NamesIn
  <2>3. asked' = <<"add", name>> /\ ok' = FALSE
    BY <1>4 DEF Add, Tell
  <2> HIDE DEF name
  <2>4. Directory!Add(name)
    BY <1>3, <2>2, <2>3 DEF Directory!Add, Directory!Tell
  <2> QED BY <1>2, <2>4 DEF Directory!Next
<1>5. CASE Found(tree, name) = Nil
  <2>1. InTree' = X \cup {n}
    BY <1>5, AddStep, InTreeIsNext
  <2>2. name \notin NamesIn /\ NamesIn' = NamesIn \cup {name}
    BY <1>1, <1>2, <1>3, <1>5, <2>1, SearchStep DEF NamesIn
  <2>3. asked' = <<"add", name>> /\ ok' = TRUE
    BY <1>5 DEF Add, Tell
  <2> HIDE DEF name
  <2>4. Directory!Add(name)
    BY <1>3, <2>2, <2>3 DEF Directory!Add, Directory!Tell
  <2> QED BY <1>2, <2>4 DEF Directory!Next
<1> QED BY <1>4, <1>5

\* del deletes the name's user if there is one;
LEMMA DirectoryDel ==
  ASSUME NEW X, Holds(tree, pc, cur, par, X), NEW name \in Names, Del(name)
  PROVE  Directory!Next
<1>1. InTree = X /\ InTree' = {a \in X : NameOf[a] # name}
  BY InTreeIs, DelStep, InTreeIsNext
<1>2. pc = "idle" /\ ~clearing /\ clearing' = clearing
      /\ asked' = <<"del", name>> /\ ok' = (Found(tree, name) # Nil)
  BY DEF Del, Tell
<1>3. (Found(tree, name) # Nil) <=> name \in NamesIn
  BY <1>1, <1>2, SearchStep DEF NamesIn
<1>4. NamesIn' = NamesIn \ {name}
  BY <1>1 DEF NamesIn
<1>5. ok' = (name \in NamesIn)
  BY <1>2, <1>3
<1>6. Directory!Del(name)
  BY <1>2, <1>4, <1>5 DEF Directory!Del, Directory!Tell
<1> QED BY <1>6 DEF Directory!Next

\* get finds the name's user if there is one;
LEMMA DirectoryGet ==
  ASSUME NEW X, Holds(tree, pc, cur, par, X), NEW name \in Names, Get(name)
  PROVE  Directory!Next
<1>1. InTree = X /\ InTree' = X
  BY InTreeIs, StillStep, InTreeIsNext DEF Get
<1>2. pc = "idle" /\ ~clearing /\ clearing' = clearing
      /\ asked' = <<"get", name>> /\ ok' = (Found(tree, name) # Nil)
  BY DEF Get, Tell
<1>3. (Found(tree, name) # Nil) <=> name \in NamesIn
  BY <1>1, <1>2, SearchStep DEF NamesIn
<1>4. NamesIn' = NamesIn
  BY <1>1 DEF NamesIn
<1>5. ok' = (name \in NamesIn)
  BY <1>2, <1>3
<1>6. Directory!Get(name)
  BY <1>2, <1>4, <1>5 DEF Directory!Get, Directory!Tell
<1> QED BY <1>6 DEF Directory!Next

\* hev_rbtree_replace exchanges users of one name;
LEMMA DirectoryReplace ==
  ASSUME NEW X, Holds(tree, pc, cur, par, X), NEW n \in Nodes, NEW v \in Nodes, Replace(v, n)
  PROVE  Directory!Next
<1>1. InTree = X /\ v \in X /\ InTree' = (X \ {v}) \cup {n}
  BY InTreeIs, ReplaceStep, InTreeIsNext
<1>2. /\ ~clearing /\ clearing' = clearing /\ NameOf[n] = NameOf[v]
      /\ asked' = <<"replace", NameOf[v]>> /\ ok' = TRUE
  BY DEF Replace, Tell
<1>3. NameOf[v] \in NamesIn /\ NamesIn' = NamesIn
  BY <1>1, <1>2 DEF NamesIn
<1>4. Directory!Replace(NameOf[v])
  BY <1>2, <1>3 DEF Directory!Replace, Directory!Tell
<1>5. NameOf[v] \in Names
  BY NamesAssumption
<1> QED BY <1>4, <1>5 DEF Directory!Next

\* clear begins;
LEMMA DirectoryClear ==
  ASSUME NEW X, Holds(tree, pc, cur, par, X), Clear
  PROVE  Directory!Next
<1>1. InTree = X /\ InTree' = X
  BY InTreeIs, StillStep, InTreeIsNext DEF Clear
<1>2. NamesIn' = NamesIn
  BY <1>1 DEF NamesIn
<1>3. Directory!Clear
  BY <1>2 DEF Clear, Directory!Clear
<1> QED BY <1>3 DEF Directory!Next

\* drops one user after the other;
LEMMA DirectoryClearFirst ==
  ASSUME NEW X, Holds(tree, pc, cur, par, X), ClearFirst
  PROVE  Directory!Next
<1> DEFINE n == First(tree)
<1>1. n \in X /\ InTree = X /\ InTree' = X \ {n}
  BY InTreeIs, ClearFirstStep, InTreeIsNext
<1>2. pc = "idle" /\ clearing /\ UNCHANGED <<asked, ok, clearing>>
  BY DEF ClearFirst
<1> HIDE DEF n
<1>3. \A a \in X : NameOf[a] = NameOf[n] => a = n
  <2>1. PICK D, h : Shape(tree, D) /\ Inside(tree, D) = X
    BY <1>2, Idle
  <2>2. n \in Nodes
    BY <1>1, <2>1, InsideNodes
  <2>3. NameOf[n] \in Names
    BY <2>2, NamesAssumption
  <2> QED BY <1>1, <1>2, <2>3, SearchStep
<1>4. NameOf[n] \in NamesIn /\ NamesIn' = NamesIn \ {NameOf[n]}
  BY <1>1, <1>3 DEF NamesIn
<1>5. n \in Nodes
  BY <1>1, HoldsIs
<1>6. NameOf[n] \in Names
  BY <1>5, NamesAssumption
<1>7. Directory!Drop(NameOf[n])
  BY <1>2, <1>4 DEF Directory!Drop
<1> QED BY <1>6, <1>7 DEF Directory!Next

\* and ends with none left.
LEMMA DirectoryCleared ==
  ASSUME NEW X, Holds(tree, pc, cur, par, X), Cleared
  PROVE  Directory!Next
<1>1. InTree = X /\ InTree' = X
  BY InTreeIs, StillStep, InTreeIsNext DEF Cleared
<1>2. X = {}
  BY FirstStep DEF Cleared
<1>3. NamesIn = {} /\ NamesIn' = NamesIn
  BY <1>1, <1>2 DEF NamesIn
<1>4. Directory!Cleared
  BY <1>3 DEF Cleared, Directory!Cleared
<1> QED BY <1>4 DEF Directory!Next

\* The rounds of the loops are not seen by the directory.
LEMMA DirectoryStill ==
  ASSUME NEW X, Holds(tree, pc, cur, par, X), Rebalancing \/ UNCHANGED vars
  PROVE  UNCHANGED Directory!vars
<1>1. InTree = X /\ InTree' = X
  BY InTreeIs, StillStep, RebalancingStep, InTreeIsNext DEF vars
<1>2. NamesIn' = NamesIn
  BY <1>1 DEF NamesIn
<1>3. UNCHANGED <<asked, ok, clearing>>
  BY DEF Rebalancing, vars, InsertAtRoot, InsertBelowBlack, InsertFlip, InsertRotate,
         EraseFlip, EraseRotate
<1> QED BY <1>2, <1>3 DEF Directory!vars

\* Every step is a step of the directory or leaves it as it was.
LEMMA DirectoryNext == IInv /\ [Next]_vars => [Directory!Next]_(Directory!vars)
<1> SUFFICES ASSUME IInv, [Next]_vars PROVE [Directory!Next]_(Directory!vars)
  OBVIOUS
<1>1. PICK X : Holds(tree, pc, cur, par, X)
  BY DEF IInv
<1>2. ASSUME NEW n \in Nodes, Add(n) PROVE Directory!Next
  BY <1>1, <1>2, DirectoryAdd
<1>3. ASSUME NEW n \in Nodes, NEW v \in Nodes, Replace(v, n) PROVE Directory!Next
  BY <1>1, <1>3, DirectoryReplace
<1>4. ASSUME NEW name \in Names, Del(name) PROVE Directory!Next
  BY <1>1, <1>4, DirectoryDel
<1>5. ASSUME NEW name \in Names, Get(name) PROVE Directory!Next
  BY <1>1, <1>5, DirectoryGet
<1>6. CASE Clear
  BY <1>1, <1>6, DirectoryClear
<1>7. CASE ClearFirst
  BY <1>1, <1>7, DirectoryClearFirst
<1>8. CASE Cleared
  BY <1>1, <1>8, DirectoryCleared
<1>9. CASE Rebalancing \/ UNCHANGED vars
  BY <1>1, <1>9, DirectoryStill
<1> QED BY <1>2, <1>3, <1>4, <1>5, <1>6, <1>7, <1>8, <1>9 DEF Next, Clearing

\* The tree implements the directory: whatever the calls of the authenticator and
\* the names, the red-black tree of hev-rbtree.c finds, adds and drops users as a set of
\* names would, though its loops rebalance in between.
THEOREM DirectoryKept == Spec => KeepsDirectory
<1>1. Spec => Directory!Init /\ [][Directory!Next]_(Directory!vars)
  BY Invariance, DirectoryInit, DirectoryNext, PTL DEF Spec
<1> QED BY <1>1 DEF KeepsDirectory, Directory!Spec

-----------------------------------------------------------------------------
(* The balance: heights below the nodes against counts above them.         *)

\* The black nodes on the path from the root to x.
BlackOver(t, D, x) == {m \in Nodes : x \in D[m] /\ ~t.red[m]}

\* x is below the flaw.
Missed(t, D, f, d, x) == IF f # Nil /\ x \in Below(t, D, f, d) THEN 1 ELSE 0

\* They can be counted.
LEMMA BlackOverFinite ==
  ASSUME NEW t, NEW D, NEW x
  PROVE  /\ IsFiniteSet(BlackOver(t, D, x)) /\ Cardinality(BlackOver(t, D, x)) \in Nat
         /\ Cardinality(Nodes) \in Nat /\ Cardinality(BlackOver(t, D, x)) <= Cardinality(Nodes)
<1>1. BlackOver(t, D, x) \in SUBSET Nodes
  BY DEF BlackOver
<1> QED BY <1>1, FiniteNodes, FS_Subset, FS_CardinalityType

\* Over a child are the child and what is over its parent.
LEMMA OverKid ==
  ASSUME NEW t, NEW D, Shape(t, D), NEW p \in Nodes, NEW s \in Sides, t.kid[p][s] # Nil
  PROVE  \A m \in Nodes : t.kid[p][s] \in D[m] <=> m = t.kid[p][s] \/ p \in D[m]
<1> DEFINE x == t.kid[p][s]
<1>1. x \in Nodes /\ x \in D[x] /\ x \in D[p] /\ t.parent[x] = p
  BY KidBelow
<1> HIDE DEF x
<1>2. ASSUME NEW m \in Nodes, x \in D[m], m # x PROVE p \in D[m]
  BY <1>1, <1>2, Climb
<1>3. ASSUME NEW m \in Nodes, p \in D[m] PROVE x \in D[m]
  BY <1>1, <1>3, Nested
<1> QED BY <1>1, <1>2, <1>3 DEF x

\* Counting black nodes from the root down to a child,
LEMMA BlacksKid ==
  ASSUME NEW t, NEW D, Shape(t, D), NEW p \in Nodes, NEW s \in Sides, t.kid[p][s] # Nil
  PROVE  Cardinality(BlackOver(t, D, t.kid[p][s])) =
           Cardinality(BlackOver(t, D, p)) + (IF t.red[t.kid[p][s]] THEN 0 ELSE 1)
<1> DEFINE x == t.kid[p][s]
           P == BlackOver(t, D, p)
<1>1. x \in Nodes /\ p \notin D[x] /\ \A m \in Nodes : x \in D[m] <=> m = x \/ p \in D[m]
  BY KidBelow, OverKid
<1>2. x \notin P /\ IsFiniteSet(P) /\ Cardinality(P) \in Nat
  BY <1>1, BlackOverFinite DEF BlackOver
<1> HIDE DEF x
<1>3. CASE t.red[x]
  <2>1. BlackOver(t, D, x) = P
    BY <1>1, <1>3 DEF BlackOver
  <2> QED BY <1>2, <1>3, <2>1 DEF x
<1>4. CASE ~t.red[x]
  <2>1. BlackOver(t, D, x) = P \cup {x}
    BY <1>1, <1>4 DEF BlackOver
  <2> HIDE DEF P
  <2>2. Cardinality(P \cup {x}) = Cardinality(P) + 1
    BY <1>2, FS_AddElement
  <2> QED BY <1>4, <2>1, <2>2 DEF x, P
<1> QED BY <1>3, <1>4

\* and at the root.
LEMMA BlacksRoot ==
  ASSUME NEW t, NEW D, Shape(t, D), t.root # Nil
  PROVE  Cardinality(BlackOver(t, D, t.root)) = IF t.red[t.root] THEN 0 ELSE 1
<1> DEFINE r == t.root
<1>1. r \in Nodes /\ t.parent[r] = Nil /\ r \in D[r]
  BY ShapeIs, LinkNode, BelowNodes DEF Sides
<1>2. \A m \in Nodes : r \in D[m] => m = r
  BY <1>1, Climb
<1>3. CASE t.red[r]
  <2>1. BlackOver(t, D, r) = {}
    BY <1>2, <1>3 DEF BlackOver
  <2> QED BY <1>3, <2>1, FS_EmptySet
<1>4. CASE ~t.red[r]
  <2>1. BlackOver(t, D, r) = {} \cup {r}
    BY <1>1, <1>2, <1>4 DEF BlackOver
  <2> HIDE DEF r
  <2>2. Cardinality({} \cup {r}) = 0 + 1
    BY FS_EmptySet, FS_AddElement
  <2> QED BY <1>4, <2>1, <2>2 DEF r
<1> QED BY <1>3, <1>4

\* Nothing is missing above the root;
LEMMA MissedRoot ==
  ASSUME NEW t, NEW D, Shape(t, D), NEW f \in Link, NEW d \in Sides, t.root # Nil
  PROVE  Missed(t, D, f, d, t.root) = 0
<1>1. ASSUME f # Nil, t.root \in Below(t, D, f, d) PROVE FALSE
  <2>1. f \in Nodes
    BY <1>1, LinkNode
  <2>2. t.kid[f][d] # Nil /\ f \notin D[t.root]
    BY <1>1, <2>1, NestedBelow
  <2>3. f \in Inside(t, D)
    BY <2>1, <2>2, InsideLinked
  <2> QED BY <2>2, <2>3, InsideLinked, InsideNodes
<1> QED BY <1>1 DEF Missed

\* a child misses what its parent misses, and one more where the flaw is between.
LEMMA MissedKid ==
  ASSUME NEW t, NEW D, Shape(t, D), NEW f \in Link, NEW d \in Sides,
         NEW p \in Nodes, NEW s \in Sides, t.kid[p][s] # Nil
  PROVE  /\ Missed(t, D, f, d, t.kid[p][s]) = Missed(t, D, f, d, p) + Lack(p, s, f, d)
         /\ Missed(t, D, f, d, p) \in Nat
<1> DEFINE x == t.kid[p][s]
<1>1. x \in Nodes /\ t.parent[x] = p /\ x \in D[p] /\ p # Nil
  BY KidBelow, LinkNode
<1>2. CASE f = Nil
  BY <1>1, <1>2 DEF Missed, Lack
<1>3. CASE f # Nil
  <2>1. f \in Nodes
    BY <1>3, LinkNode
  <2>2. x \in Below(t, D, f, d) => p \in Below(t, D, f, d) \/ (p = f /\ s = d)
    <3>1. ASSUME x = t.kid[f][d] PROVE p = f /\ s = d
      <4>1. t.parent[t.kid[f][d]] = f
        BY <1>1, <2>1, <3>1, KidBelow, LinkNode
      <4>2. t.kid[p][Other(s)] # x
        BY <1>1, KidBelow
      <4> QED BY <1>1, <3>1, <4>1, <4>2, OtherSide
    <3>2. ASSUME x \in Below(t, D, f, d), x # t.kid[f][d] PROVE p \in Below(t, D, f, d)
      BY <1>1, <2>1, <3>2, ClimbBelow
    <3> QED BY <3>1, <3>2
  <2>3. p \in Below(t, D, f, d) => x \in Below(t, D, f, d)
    BY <1>1, <2>1, NestedBelow
  <2>4. p = f /\ s = d => x \in Below(t, D, f, d)
    BY KidBelow
  <2>5. p = f => p \notin Below(t, D, f, d)
    BY BelowNodes
  <2> HIDE DEF x
  <2> QED BY <1>3, <2>2, <2>3, <2>4, <2>5 DEF Missed, Lack, x
<1> QED BY <1>2, <1>3

\* What is counted above, below and missing is the same for every node.
LEMMA PathSum ==
  ASSUME NEW t, NEW D, Shape(t, D), NEW h, NEW f \in Link, NEW d \in Sides, Even(t, D, h, f, d)
  PROVE  \A x \in Inside(t, D) :
           /\ h[x] \in Nat /\ Missed(t, D, f, d, x) \in Nat
           /\ Cardinality(BlackOver(t, D, x)) + h[x] + Missed(t, D, f, d, x) = Weight(t, h, t.root)
<1> DEFINE Sum(x) == Cardinality(BlackOver(t, D, x)) + h[x] + Missed(t, D, f, d, x)
           B == {x \in Inside(t, D) : Sum(x) # Weight(t, h, t.root)}
<1>0. t \in TreeType /\ h \in [Nodes -> Nat] /\ Inside(t, D) \subseteq Nodes
  BY ShapeIs, InsideNodes DEF Even
<1>1. \A x \in Inside(t, D) : h[x] \in Nat /\ Missed(t, D, f, d, x) \in Nat
  BY <1>0 DEF Missed
<1>2. SUFFICES ASSUME B # {} PROVE FALSE
  BY <1>1
<1>3. PICK x \in B : \A m \in B : x \in D[m] => m = x
  <2>1. B \subseteq Nodes
    BY <1>0
  <2> HIDE DEF B
  <2> QED BY <1>2, <2>1, Highest
<1>4. x \in Nodes /\ x \in Inside(t, D) /\ Sum(x) # Weight(t, h, t.root)
  BY <1>0
<1>5. CASE x = t.root
  <2>1. /\ Cardinality(BlackOver(t, D, x)) = IF t.red[x] THEN 0 ELSE 1
        /\ Missed(t, D, f, d, x) = 0
    BY <1>4, <1>5, BlacksRoot, MissedRoot, LinkNode
  <2>2. Weight(t, h, x) = IF t.red[x] THEN h[x] ELSE h[x] + 1
    BY <1>4, LinkNode DEF Weight
  <2> QED BY <1>1, <1>4, <1>5, <2>1, <2>2
<1>6. CASE x # t.root
  <2> DEFINE p == t.parent[x]
  <2>1. p # Nil /\ p \in Nodes /\ p \in Inside(t, D)
    BY <1>0, <1>4, <1>6, InsideLinked
  <2>2. PICK s \in Sides : t.kid[p][s] = x
    BY <1>4, <2>1 DEF Shape, Linked
  <2>3. x \in D[p] /\ p # x /\ x # Nil
    BY <1>4, <2>1, <2>2, KidBelow, LinkNode
  <2>4. Sum(p) = Weight(t, h, t.root)
    BY <1>3, <2>1, <2>3
  <2>5. h[p] = Weight(t, h, x) + Lack(p, s, f, d)
    BY <2>1, <2>2 DEF Even
  <2>6. Weight(t, h, x) = h[x] + (IF t.red[x] THEN 0 ELSE 1)
    BY <1>1, <1>4, <2>3 DEF Weight
  <2>7. Cardinality(BlackOver(t, D, x)) = Cardinality(BlackOver(t, D, p)) + (IF t.red[x] THEN 0 ELSE 1)
    BY <2>1, <2>2, <2>3, BlacksKid
  <2>8. Missed(t, D, f, d, x) = Missed(t, D, f, d, p) + Lack(p, s, f, d)
    BY <2>1, <2>2, <2>3, MissedKid
  <2>9. /\ Cardinality(BlackOver(t, D, p)) \in Nat /\ h[x] \in Nat /\ h[p] \in Nat
        /\ Missed(t, D, f, d, p) \in Nat /\ Lack(p, s, f, d) \in Nat
    BY <1>1, <1>4, <2>1, BlackOverFinite DEF Lack
  <2>10. Sum(x) = Sum(p)
    <3> HIDE DEF p
    <3> QED BY <2>5, <2>6, <2>7, <2>8, <2>9
  <2> QED BY <1>4, <2>4, <2>10
<1> QED BY <1>5, <1>6

\* At the end of a path nothing is below.
LEMMA LeafSum ==
  ASSUME NEW t, NEW D, Shape(t, D), NEW h, NEW f \in Link, NEW d \in Sides, Even(t, D, h, f, d),
         NEW x \in Inside(t, D), NEW s \in Sides, t.kid[x][s] = Nil
  PROVE  /\ Cardinality(BlackOver(t, D, x)) + Lack(x, s, f, d) + Missed(t, D, f, d, x) = Weight(t, h, t.root)
         /\ Cardinality(BlackOver(t, D, x)) \in Nat /\ Lack(x, s, f, d) \in Nat
         /\ Missed(t, D, f, d, x) \in Nat
<1>1. h[x] = Weight(t, h, Nil) + Lack(x, s, f, d)
  BY DEF Even
<1>2. Weight(t, h, Nil) = 0 /\ Lack(x, s, f, d) \in Nat
  BY DEF Weight, Lack
<1>3. h[x] = Lack(x, s, f, d)
  BY <1>1, <1>2
<1> QED BY <1>2, <1>3, PathSum, BlackOverFinite

\* The paths that are not through the flaw have no more nodes than there are.
LEMMA WholePath ==
  ASSUME NEW t, NEW D, Shape(t, D), NEW h, NEW f \in Link, NEW d \in Sides, Even(t, D, h, f, d),
         f # Nil => t.kid[f][Other(d)] # Nil
  PROVE  Weight(t, h, t.root) \in 0 .. Cardinality(Nodes)
<1>0. t \in TreeType /\ "left" \in Sides /\ Other(d) \in Sides /\ Other(d) # d /\ Other(Other(d)) = d
  BY ShapeIs, OtherSide DEF Sides
<1>1. CASE t.root = Nil
  <2>1. Weight(t, h, t.root) = 0 /\ Cardinality(Nodes) \in Nat
    BY <1>1, FiniteNodes, FS_CardinalityType DEF Weight
  <2> QED BY <2>1
<1>2. CASE t.root # Nil
  <2>1. \E e \in Inside(t, D) :
          t.kid[e]["left"] = Nil /\ e # f /\ Missed(t, D, f, d, e) = 0
    <3>1. CASE f = Nil
      <4>1. t.root \in Nodes /\ Inside(t, D) = D[t.root]
        BY <1>2, LinkNode, ShapeIs DEF Inside, Sub
      <4>2. EndOf(t, D, t.root, "left", End(t, t.root, "left"))
        BY <1>0, <4>1, EndIs
      <4>3. End(t, t.root, "left") # Nil
        BY <4>1, <4>2, BelowNodes, LinkNode DEF EndOf, Sides
      <4> QED BY <3>1, <4>1, <4>2, <4>3 DEF EndOf, Missed
    <3>2. CASE f # Nil
      <4> DEFINE c == t.kid[f][Other(d)]
                 e == End(t, c, "left")
      <4>1. f \in Nodes /\ c # Nil
        BY <3>2, LinkNode
      <4>2. c \in Nodes /\ D[c] = Below(t, D, f, Other(d)) /\ c \in Inside(t, D) /\ f \notin D[c]
        BY <1>0, <4>1, KidBelow, InsideLinked
      <4> HIDE DEF c
      <4>3. EndOf(t, D, c, "left", e)
        BY <1>0, <4>2, EndIs
      <4> HIDE DEF e
      <4>4. e \in D[c] /\ t.kid[e]["left"] = Nil
        BY <4>3 DEF EndOf
      <4>5. e \in Inside(t, D) /\ e # f
        BY <4>2, <4>4, InsideLinked
      <4>6. e \notin Below(t, D, f, d)
        BY <1>0, <4>1, <4>2, <4>4, BelowNodes
      <4> QED BY <4>4, <4>5, <4>6 DEF Missed
    <3> QED BY <3>1, <3>2
  <2>2. PICK e \in Inside(t, D) : t.kid[e]["left"] = Nil /\ e # f /\ Missed(t, D, f, d, e) = 0
    BY <2>1
  <2>3. Lack(e, "left", f, d) = 0
    BY <2>2 DEF Lack
  <2>4. Cardinality(BlackOver(t, D, e)) + 0 + 0 = Weight(t, h, t.root)
    BY <1>0, <2>2, <2>3, LeafSum
  <2> QED BY <2>4, BlackOverFinite
<1> QED BY <1>1, <1>2

\* Above are the nodes that have the node below.
LEMMA AboveIs ==
  ASSUME NEW D, Shape(tree, D), NEW n \in Nodes
  PROVE  Above(n) = {m \in Nodes : n \in D[m]}
<1>1. Above(n) = Reached({n}, ParentOf(tree))
  BY DEF Above, ParentOf
<1> QED BY <1>1, ReachedUp

\* Blacks counts those that are black.
LEMMA BlacksAre ==
  ASSUME NEW D, Shape(tree, D), NEW x \in Nodes, NEW s \in Sides
  PROVE  Blacks(<<x, s>>) = Cardinality(BlackOver(tree, D, x))
<1>1. {n \in Above(x) : ~tree.red[n]} = BlackOver(tree, D, x)
  BY AboveIs DEF BlackOver
<1> QED BY <1>1 DEF Blacks

\* The flaw of the loop at work, as a place in the tree.
LEMMA FlawIs ==
  ASSUME NEW D, NEW h, Poised(tree, D, h, pc, cur, par)
  PROVE  \E f \in Link, d \in Sides :
           /\ Even(tree, D, h, f, d) /\ Calm(tree, D, IF pc = "insert" THEN cur ELSE Nil)
           /\ f # Nil => tree.kid[f][Other(d)] # Nil
           /\ pc = "erase" => f = par /\ f # Nil /\ d = NodeSide /\ tree.kid[f][d] = cur /\ ~IsRed(tree, cur)
           /\ pc # "erase" => f = Nil
<1>0. "left" \in Sides /\ Nil \in Link
  BY LinkNode DEF Sides
<1>1. CASE pc = "idle"
  <2>1. Even(tree, D, h, Nil, "left") /\ Calm(tree, D, Nil)
    BY <1>1 DEF Poised, Settled
  <2> QED BY <1>0, <1>1, <2>1
<1>2. CASE pc = "insert"
  <2>1. Even(tree, D, h, Nil, "left") /\ Calm(tree, D, cur)
    BY <1>2 DEF Poised, Upset
  <2> QED BY <1>0, <1>2, <2>1
<1>3. CASE pc = "erase"
  <2> DEFINE d == NodeSide
  <2>1. d = Near(tree, par, cur)
    BY DEF NodeSide, Near
  <2> HIDE DEF d
  <2>2. ShortAt(tree, D, h, cur, par, d)
    BY <1>3, <2>1 DEF Poised, Short
  <2>3. par \in Nodes /\ d \in Sides /\ tree.kid[par][Other(d)] # Nil
    BY <2>2, ShortSibling
  <2>4. Even(tree, D, h, par, d) /\ Calm(tree, D, Nil) /\ tree.kid[par][d] = cur /\ ~IsRed(tree, cur)
    BY <2>2 DEF ShortAt
  <2>5. par \in Link /\ par # Nil
    BY <2>3, LinkNode
  <2> QED BY <1>3, <2>3, <2>4, <2>5 DEF d
<1> QED BY <1>1, <1>2, <1>3 DEF Poised

\* The invariant has the balance of the tree,
LEMMA IInvBalanced == IInv => BalancedButForOneFlaw
<1> SUFFICES ASSUME IInv PROVE BalancedButForOneFlaw
  OBVIOUS
<1>1. PICK X : Holds(tree, pc, cur, par, X)
  BY DEF IInv
<1>2. PICK D, h : Poised(tree, D, h, pc, cur, par) /\ Inside(tree, D) = X
  BY <1>1 DEF Holds
<1>3. Shape(tree, D) /\ InTree = Inside(tree, D) /\ InTree \subseteq Nodes /\ tree \in TreeType
  BY <1>1, <1>2, PoisedShape, InTreeIs, HoldsIs
<1>4. PICK f \in Link, d \in Sides :
        /\ Even(tree, D, h, f, d) /\ Calm(tree, D, IF pc = "insert" THEN cur ELSE Nil)
        /\ f # Nil => tree.kid[f][Other(d)] # Nil
        /\ pc = "erase" => f = par /\ f # Nil /\ d = NodeSide /\ tree.kid[f][d] = cur /\ ~IsRed(tree, cur)
        /\ pc # "erase" => f = Nil
  BY <1>2, FlawIs
<1>5. \A n \in InTree : tree.red[n] =>
         \/ n # tree.root /\ ~tree.red[tree.parent[n]]
         \/ pc = "insert" /\ n = cur
  <2>1. \A n \in InTree : n # Nil
    BY <1>3, LinkNode
  <2> QED BY <1>3, <1>4, <2>1 DEF Calm
<1>6. pc = "insert" => tree.red[cur] /\ par = tree.parent[cur]
  BY <1>2 DEF Poised, Upset
<1>7. pc = "erase" => ~IsRed(tree, cur) /\ (cur # Nil => par = tree.parent[cur])
  BY <1>3, <1>4, KidBelow, LinkNode
<1>8. Weight(tree, h, tree.root) \in 0 .. Cardinality(Nodes)
  BY <1>3, <1>4, WholePath
<1>9. ASSUME NEW leaf \in Leaves
      PROVE  Blacks(leaf) = IF ThroughNode(leaf) THEN Weight(tree, h, tree.root) - 1
                            ELSE Weight(tree, h, tree.root)
  <2>1. PICK x \in InTree, s \in Sides : leaf = <<x, s>> /\ tree.kid[x][s] = Nil
    BY DEF Leaves
  <2>2. x \in Nodes /\ x \in Inside(tree, D) /\ x # Nil
    BY <1>3, LinkNode
  <2>3. Blacks(leaf) = Cardinality(BlackOver(tree, D, x))
    BY <1>3, <2>1, <2>2, BlacksAre
  <2> DEFINE b == Cardinality(BlackOver(tree, D, x))
             l == Lack(x, s, f, d)
             m == Missed(tree, D, f, d, x)
             w == Weight(tree, h, tree.root)
  <2>4. b + l + m = w /\ b \in Nat /\ l \in Nat /\ m \in Nat
    BY <1>3, <1>4, <2>1, <2>2, LeafSum
  <2>5. l + m = IF ThroughNode(leaf) THEN 1 ELSE 0
    <3>1. CASE pc # "erase"
      <4>1. l = 0 /\ m = 0
        BY <1>4, <2>2, <3>1 DEF Lack, Missed
      <4> QED BY <3>1, <4>1 DEF ThroughNode
    <3>2. CASE pc = "erase" /\ cur = Nil
      <4>1. m = 0
        BY <1>4, <3>2 DEF Missed, Below, Sub
      <4>2. ThroughNode(leaf) <=> x = f /\ s = d
        BY <1>4, <2>1, <3>2 DEF ThroughNode
      <4>3. l = IF x = f /\ s = d THEN 1 ELSE 0
        BY DEF Lack
      <4> HIDE DEF l, m
      <4> QED BY <4>1, <4>2, <4>3
    <3>3. CASE pc = "erase" /\ cur # Nil
      <4>1. l = 0
        BY <1>4, <2>1, <3>3 DEF Lack
      <4>2. f \in Nodes /\ cur \in Nodes /\ Below(tree, D, f, d) = D[cur]
        BY <1>3, <1>4, <3>3, LinkNode, KidBelow
      <4>3. ThroughNode(leaf) <=> cur \in Above(x)
        BY <2>1, <3>3 DEF ThroughNode
      <4>4. cur \in Above(x) <=> x \in D[cur]
        BY <1>3, <2>2, <4>2, AboveIs
      <4>5. m = IF x \in D[cur] THEN 1 ELSE 0
        BY <1>4, <3>3, <4>2 DEF Missed
      <4> HIDE DEF l, m
      <4> QED BY <4>1, <4>3, <4>4, <4>5
    <3> QED BY <3>1, <3>2, <3>3
  <2> HIDE DEF b, l, m, w
  <2>6. b = IF ThroughNode(leaf) THEN w - 1 ELSE w
    BY <2>4, <2>5
  <2> QED BY <2>3, <2>6 DEF b, w
<1>10. \E hh \in 0 .. Cardinality(Nodes) : \A leaf \in Leaves :
         Blacks(leaf) = IF ThroughNode(leaf) THEN hh - 1 ELSE hh
  BY <1>8, <1>9
<1> QED BY <1>5, <1>6, <1>7, <1>10 DEF BalancedButForOneFlaw

\* At every round of insert_color and erase_color the tree is a red-black tree but
\* for the one flaw the loop is about to mend, and between two calls it has none.
THEOREM AlwaysBalanced == Spec => []BalancedButForOneFlaw
  BY Invariance, IInvBalanced, PTL
-----------------------------------------------------------------------------
(* The neighbours.                                                         *)

\* The invariant has the order of the walks,
LEMMA IInvNeighbours == IInv => NeighboursAgree
<1> SUFFICES ASSUME IInv, pc = "idle" PROVE NeighboursAgree
  BY DEF NeighboursAgree
<1>1. PICK X : Holds(tree, pc, cur, par, X)
  BY DEF IInv
<1>2. PICK D, h : Shape(tree, D) /\ Inside(tree, D) = X
  BY <1>1, Idle
<1>3. InTree = Inside(tree, D)
  BY <1>1, <1>2, InTreeIs
<1>4. "left" \in Sides /\ "right" \in Sides /\ Other("left") = "right" /\ Other("right") = "left"
  BY DEF Sides, Other
<1>5. \A m, n : /\ Beyond(n, "left", m) <=> Compare(NameOf[m], NameOf[n]) > 0
                /\ Beyond(n, "right", m) <=> Compare(NameOf[n], NameOf[m]) > 0
  BY DEF Beyond, Toward
<1>6. \A n \in InTree : StepOf(tree, D, n, "right", Step(tree, n, "right"))
  BY <1>2, <1>3, <1>4, StepIs
<1>7. \A n \in InTree : StepOf(tree, D, n, "left", Step(tree, n, "left"))
  BY <1>2, <1>3, <1>4, StepIs
<1> DEFINE Before(m, n) == Compare(NameOf[m], NameOf[n]) > 0
           Neighbours(m, n) == Before(m, n) /\ \A k \in InTree : ~(Before(m, k) /\ Before(k, n))
           IsNext(n, m) == IF m = Nil THEN \A k \in InTree : ~Before(n, k)
                           ELSE m \in InTree /\ Neighbours(n, m)
           IsPrev(n, m) == IF m = Nil THEN \A k \in InTree : ~Before(k, n)
                           ELSE m \in InTree /\ Neighbours(m, n)
<1>8. ASSUME NEW n \in InTree PROVE IsNext(n, Step(tree, n, "right"))
  BY <1>3, <1>4, <1>5, <1>6 DEF StepOf
<1>9. ASSUME NEW n \in InTree PROVE IsPrev(n, Step(tree, n, "left"))
  BY <1>3, <1>4, <1>5, <1>7 DEF StepOf
<1>10. tree.root # Nil => IsPrev(First(tree), Nil) /\ IsNext(Last(tree), Nil)
  <2>1. ASSUME tree.root # Nil
        PROVE  /\ \A k \in Inside(tree, D) : ~Beyond(End(tree, tree.root, "left"), "left", k)
               /\ \A k \in Inside(tree, D) : ~Beyond(End(tree, tree.root, "right"), "right", k)
    BY <1>2, <1>4, <2>1, FarEnd
  <2> QED BY <1>3, <1>5, <2>1 DEF First, Last
<1> QED BY <1>8, <1>9, <1>10 DEF NeighboursAgree

\* Between two calls hev_rbtree_node_next and prev lead from every node to its
\* neighbours in the order of the names, and first and last are the ends of it.
THEOREM NeighboursAlwaysAgree == Spec => []NeighboursAgree
  BY Invariance, IInvNeighbours, PTL

-----------------------------------------------------------------------------
(* The loops end.                                                          *)

\* The nodes above parent: as many rounds as there are can follow.
Rounds == Cardinality(Above(par))

\* A round of insert_color or erase_color after which the loop goes on has moved
\* parent upwards.
Climbs == [][pc # "idle" /\ pc' # "idle" => Rounds' < Rounds /\ Rounds' \in Nat]_vars

\* Nothing is above no node.
LEMMA AboveNothing ==
  ASSUME NEW t \in TreeType
  PROVE  Reached({Nil}, ParentOf(t)) = {}
<1> DEFINE next == ParentOf(t)
<1>1. next \in [Nodes -> SUBSET Link]
  BY TreeLinks, LinkNode DEF ParentOf, Sides
<1>2. {Nil} \ {Nil} = {} /\ {} \in SUBSET Nodes
  OBVIOUS
<1>3. Step1(next, {}) = {}
  BY DEF Step1
<1>4. Reach(next, {}) = {}
  BY <1>3, StepIn, <1>1, <1>2 DEF Reach
<1> HIDE DEF next
<1>5. IsReach(next, CHOOSE r : IsReach(next, r))
  BY <1>1, ReachExists
<1>6. Reached({Nil}, next) = {}
  BY <1>1, <1>2, <1>4, <1>5, ReachOne, ReachedIs
<1> QED BY <1>6 DEF next

\* Where the links upwards stay, what is above a node's parent is less than what
\* is above the node or above one below it.
LEMMA HigherUp ==
  ASSUME NEW D, Shape(tree, D), par \in Nodes, NEW x \in Nodes, par \in D[x],
         tree'.parent = tree.parent, par' = tree.parent[x]
  PROVE  Rounds' < Rounds /\ Rounds' \in Nat
<1> DEFINE A == {m \in Nodes : par \in D[m]}
           H == Reached({par'}, ParentOf(tree))
<1>1. tree \in TreeType /\ D \in [Nodes -> SUBSET Nodes] /\ par \in D[par]
  BY ShapeIs, BelowNodes DEF Sides
<1>2. Above(par) = A
  BY AboveIs
<1>3. Above(par)' = H
  BY DEF Above, ParentOf
<1>4. H \subseteq A /\ par \notin H
  <2>1. CASE par' = Nil
    BY <1>1, <2>1, AboveNothing
  <2>2. CASE par' # Nil
    <3>1. par' \in Nodes
      BY <1>1, <2>2, TreeLinks, LinkNode DEF Sides, TreeType
    <3>2. PICK s \in Sides : tree.kid[par'][s] = x
      BY <2>2, <3>1 DEF Shape, Linked
    <3>3. D[x] \subseteq D[par'] /\ par' \notin D[x]
      BY <3>1, <3>2, LinkNode, KidBelow
    <3>4. H = {m \in Nodes : par' \in D[m]}
      BY <3>1, ReachedUp
    <3>5. ASSUME NEW m \in Nodes, par' \in D[m] PROVE par \in D[m]
      BY <3>1, <3>3, <3>5, Nested
    <3>6. par' \notin D[par]
      BY <3>3, Nested
    <3> QED BY <3>4, <3>5, <3>6
  <2> QED BY <2>1, <2>2
<1> HIDE DEF H
<1>5. IsFiniteSet(A) /\ A # H /\ H \in SUBSET A
  BY <1>1, <1>4, FiniteNodes, FS_Subset
<1>6. Cardinality(H) \in Nat /\ Cardinality(A) \in Nat /\ Cardinality(H) < Cardinality(A)
  <2>1. IsFiniteSet(H) /\ Cardinality(H) <= Cardinality(A) /\ Cardinality(H) # Cardinality(A)
    BY <1>5, FS_Subset
  <2>2. Cardinality(H) \in Nat /\ Cardinality(A) \in Nat
    BY <1>5, <2>1, FS_CardinalityType
  <2> QED BY <2>1, <2>2
<1> QED BY <1>2, <1>3, <1>6 DEF Rounds

\* A round with a red uncle,
LEMMA InsertFlipClimbs ==
  ASSUME NEW X, Holds(tree, pc, cur, par, X), InsertFlip
  PROVE  Rounds' < Rounds /\ Rounds' \in Nat
<1>1. PICK D, h : Poised(tree, D, h, pc, cur, par) /\ Inside(tree, D) = X
  BY DEF Holds
<1>2. Upset(tree, D, h, cur, par) /\ par # Nil /\ tree.red[par]
  BY <1>1 DEF Poised, InsertFlip
<1>3. Shape(tree, D) /\ par \in Link
  BY <1>2, InsideNodes, TreeLinks, ShapeIs DEF Upset, Sides
<1>4. /\ ParentSide \in Sides /\ tree.kid[Gparent][ParentSide] = par
      /\ Gparent \in Nodes /\ tree \in TreeType /\ par \in Nodes
  BY <1>2, <1>3, RedParent, LinkNode DEF Gparent
<1>5. Uncle \in Link
  BY <1>4, OtherSide, TreeLinks DEF Uncle
<1>6. par \in D[Gparent]
  BY <1>2, <1>3, <1>4, KidBelow
<1>7. tree'.parent = tree.parent
  <2>1. SetBlack(tree, Uncle) \in TreeType /\ SetBlack(tree, Uncle).parent = tree.parent
    BY <1>4, <1>5, SetBlackIs
  <2>2. SetBlack(SetBlack(tree, Uncle), par).parent = tree.parent
        /\ SetBlack(SetBlack(tree, Uncle), par) \in TreeType
    BY <1>3, <2>1, SetBlackIs
  <2>3. tree' = [SetBlack(SetBlack(tree, Uncle), par) EXCEPT !.red[Gparent] = TRUE]
    BY DEF InsertFlip
  <2> QED BY <2>2, <2>3 DEF TreeType
<1>8. par' = tree.parent[Gparent]
  BY DEF InsertFlip
<1> QED BY <1>3, <1>4, <1>6, <1>7, <1>8, HigherUp

\* and one without a red nephew; where the sibling was red parent is, and the
\* loop ends.
LEMMA EraseFlipClimbs ==
  ASSUME NEW X, Holds(tree, pc, cur, par, X), EraseFlip, pc' # "idle"
  PROVE  Rounds' < Rounds /\ Rounds' \in Nat
<1> DEFINE d == NodeSide
           c == tree.kid[par][Other(d)]
<1>1. PICK D, h : Poised(tree, D, h, pc, cur, par) /\ Inside(tree, D) = X
  BY DEF Holds
<1>2. Short(tree, D, h, cur, par)
  BY <1>1 DEF Poised, EraseFlip
<1>3. d = Near(tree, par, cur)
  BY DEF NodeSide, Near
<1> HIDE DEF d
<1>4. ShortAt(tree, D, h, cur, par, d)
  BY <1>2, <1>3 DEF Short
<1>5. /\ tree \in TreeType /\ par \in Nodes /\ d \in Sides /\ Other(d) \in Sides
      /\ Other(Other(d)) = d /\ c # Nil /\ c \in Nodes /\ Shape(tree, D) /\ par \in D[par]
  BY <1>4, ShortSibling, BelowNodes DEF ShortAt
<1>6. SiblingBlack = SiblingTree(tree, par, c, Other(d)) /\ Sibling = SiblingBlack.kid[par][Other(d)]
  BY DEF SiblingBlack, SiblingTree, OuterTree, Sibling, d
<1>7. PICK u, E : /\ u = SiblingTree(tree, par, c, Other(d)) /\ ShortAt(u, E, h, cur, par, d)
  BY <1>4, SiblingRound
<1>8. /\ u \in TreeType /\ u = SiblingBlack /\ Sibling \in Nodes /\ Sibling # par
      /\ Shape(u, E)
  <2>1. Shape(u, E) /\ u.kid[par][Other(d)] # Nil
    BY <1>7, ShortSibling DEF ShortAt
  <2> QED BY <1>5, <1>6, <1>7, <2>1, KidBelow, ShapeIs
<1>9. [SiblingBlack EXCEPT !.red[Sibling] = TRUE].red[par] = u.red[par]
  BY <1>5, <1>8 DEF TreeType
<1>10. /\ IF u.red[par] THEN pc' = "idle"
          ELSE tree' = [SiblingBlack EXCEPT !.red[Sibling] = TRUE] /\ Upwards
  BY <1>9 DEF EraseFlip, Rest
<1>11. ~u.red[par]
  BY <1>10
<1>12. u = tree
  <2>1. CASE tree.red[c]
    <3>1. u = OuterTree(tree, par, c, Other(d))
      BY <1>7, <2>1 DEF SiblingTree
    <3>2. u.red[par]
      <4>1. OuterRed(tree, u, par, c, tree.kid[c][d])
        BY <1>5, <3>1, OuterRotation
      <4>2. c # par
        BY <1>5, KidBelow
      <4> QED BY <1>5, <4>1, <4>2 DEF OuterRed
    <3> QED BY <1>11, <3>2
  <2>2. CASE ~tree.red[c]
    BY <1>7, <2>2 DEF SiblingTree
  <2> QED BY <2>1, <2>2
<1>13. tree'.parent = tree.parent /\ par' = tree.parent[par]
  <2>1. tree' = [tree EXCEPT !.red[Sibling] = TRUE] /\ Upwards /\ SiblingBlack = tree
    BY <1>8, <1>10, <1>11, <1>12
  <2> QED BY <1>5, <2>1 DEF Upwards, Rest, TreeType
<1> QED BY <1>5, <1>13, HigherUp

\* A step between two rounds of a loop is one of these two.
LEMMA RoundClimbs ==
  ASSUME IInv, [Next]_vars
  PROVE  [pc # "idle" /\ pc' # "idle" => Rounds' < Rounds /\ Rounds' \in Nat]_vars
<1>1. PICK X : Holds(tree, pc, cur, par, X)
  BY DEF IInv
<1>2. SUFFICES ASSUME Next, pc # "idle", pc' # "idle"
               PROVE  Rounds' < Rounds /\ Rounds' \in Nat
  OBVIOUS
<1>3. InsertFlip \/ EraseFlip
  <2>1. Rebalancing
    BY <1>2 DEF Next, Add, Replace, Del, Get, Clear, Clearing, ClearFirst, Cleared
  <2> QED BY <1>2, <2>1 DEF Rebalancing, InsertAtRoot, InsertBelowBlack, InsertRotate, EraseRotate, Rest
<1> QED BY <1>1, <1>2, <1>3, InsertFlipClimbs, EraseFlipClimbs

\* The loops of insert_color and erase_color climb: between one round and the next
\* the nodes above parent become fewer, so no call runs more rounds than the tree
\* is high, for trees of any size.
THEOREM LoopsClimb == Spec => Climbs
<1>1. IInv /\ [Next]_vars
      => [pc # "idle" /\ pc' # "idle" => Rounds' < Rounds /\ Rounds' \in Nat]_vars
  BY RoundClimbs
<1> QED BY <1>1, Invariance, PTL DEF Spec, Climbs

-----------------------------------------------------------------------------
(* Searches are short.                                                     *)

\* Between two calls a path from the root has at most 2 * k nodes, where the tree
\* has at least 2^k - 1.
ShortPaths ==
    pc = "idle" =>
      \A n \in InTree : \E k \in Nat :
        Cardinality(Above(n)) <= 2 * k /\ 2^k <= Cardinality(InTree) + 1

\* Powers of two, by counting subsets.
LEMMA TwoTo ==
  /\ 2^0 = 1
  /\ \A k \in Nat : 2^k \in Nat /\ 2^(k+1) = 2^k + 2^k
<1>1. \A k \in Nat : /\ IsFiniteSet(UpTo(k)) /\ Cardinality(UpTo(k)) = k
                     /\ IsFiniteSet(SUBSET UpTo(k)) /\ Cardinality(SUBSET UpTo(k)) = 2^k
                     /\ 2^k \in Nat
  <2> TAKE k \in Nat
  <2>1. IsFiniteSet(1 .. k) /\ Cardinality(1 .. k) = IF 1 > k THEN 0 ELSE k - 1 + 1
    BY FS_Interval
  <2>2. IsFiniteSet(UpTo(k)) /\ Cardinality(UpTo(k)) = k
    BY <2>1 DEF UpTo
  <2>3. IsFiniteSet(SUBSET UpTo(k)) /\ Cardinality(SUBSET UpTo(k)) = 2^Cardinality(UpTo(k))
    BY <2>2, FS_SUBSET
  <2>4. Cardinality(SUBSET UpTo(k)) \in Nat
    BY <2>3, FS_CardinalityType
  <2> QED BY <2>2, <2>3, <2>4
<1>2. 2^0 = 1
  <2>1. SUBSET UpTo(0) = {} \cup {{}}
    BY DEF UpTo
  <2>2. Cardinality({} \cup {{}}) = 0 + 1
    BY FS_EmptySet, FS_AddElement
  <2>3. Cardinality(SUBSET UpTo(0)) = 2^0
    BY <1>1
  <2> QED BY <2>1, <2>2, <2>3
<1>3. ASSUME NEW k \in Nat PROVE 2^(k+1) = 2^k + 2^k
  <2> DEFINE S == SUBSET UpTo(k)
             T == {A \in SUBSET UpTo(k+1) : k + 1 \in A}
             f == [A \in S |-> A \cup {k+1}]
  <2>1. UpTo(k+1) = UpTo(k) \cup {k+1} /\ k + 1 \notin UpTo(k)
    BY DEF UpTo
  <2>2. SUBSET UpTo(k+1) = S \cup T /\ S \cap T = {}
    BY <2>1
  <2>3. f \in Bijection(S, T)
    <3>1. f \in [S -> T]
      BY <2>1
    <3>2. \A A, B \in S : f[A] = f[B] => A = B
      BY <2>1
    <3>3. \A B \in T : B \ {k+1} \in S /\ f[B \ {k+1}] = B
      BY <2>1
    <3> QED BY <3>1, <3>2, <3>3 DEF Bijection, Injection, Surjection, IsInjective
  <2> HIDE DEF S, T, f
  <2>4. IsFiniteSet(S) /\ Cardinality(S) = 2^k
    BY <1>1 DEF S
  <2>5. IsFiniteSet(T) /\ Cardinality(T) = Cardinality(S)
    BY <2>3, <2>4, FS_Bijection DEF ExistsBijection
  <2>6. Cardinality(S \cup T) = Cardinality(S) + Cardinality(T) - Cardinality(S \cap T)
    BY <2>4, <2>5, FS_Union
  <2>7. Cardinality(S \cap T) = 0
    BY <2>2, FS_EmptySet
  <2> DEFINE j == k + 1
             a == 2^k
             b == 2^j
  <2>8. j \in Nat
    OBVIOUS
  <2> HIDE DEF j
  <2>9. Cardinality(SUBSET UpTo(j)) = b /\ a \in Nat
    BY <1>1, <2>8
  <2> HIDE DEF a, b
  <2>10. Cardinality(S) = a /\ Cardinality(S \cup T) = b
    BY <2>2, <2>4, <2>9 DEF a, j
  <2>11. b = a + a
    BY <2>5, <2>6, <2>7, <2>9, <2>10
  <2> QED BY <2>11 DEF a, b, j
<1> QED BY <1>1, <1>2, <1>3

\* A subtree with w black nodes on every path has at least 2^w - 1 nodes.
LEMMA WeightSize ==
  ASSUME NEW t, NEW D, Shape(t, D), NEW h, Even(t, D, h, Nil, "left")
  PROVE  \A x \in Inside(t, D) \cup {Nil} :
           /\ Weight(t, h, x) \in Nat
           /\ 2^Weight(t, h, x) <= Cardinality(Sub(D, x)) + 1
<1> DEFINE w(x) == Weight(t, h, x)
           c(x) == Cardinality(Sub(D, x))
           B == {x \in Inside(t, D) : ~(2^w(x) <= c(x) + 1)}
<1>0. t \in TreeType /\ h \in [Nodes -> Nat] /\ Inside(t, D) \subseteq Nodes /\ D \in [Nodes -> SUBSET Nodes]
  BY ShapeIs, InsideNodes DEF Even
<1>1. \A x \in Inside(t, D) \cup {Nil} : w(x) \in Nat /\ IsFiniteSet(Sub(D, x)) /\ c(x) \in Nat
  <2> TAKE x \in Inside(t, D) \cup {Nil}
  <2>1. x \in Link
    BY <1>0, LinkNode
  <2>2. Sub(D, x) \in SUBSET Nodes
    BY <1>0, <2>1, LinkNode DEF Sub
  <2> QED BY <1>0, <2>1, <2>2, WeightNat, FiniteNodes, FS_Subset, FS_CardinalityType
<1>2. 2^w(Nil) <= c(Nil) + 1
  <2>1. w(Nil) = 0 /\ c(Nil) = 0
    BY FS_EmptySet DEF Weight, Sub
  <2> QED BY <2>1, TwoTo
<1>3. B = {}
  <2>1. SUFFICES ASSUME B # {} PROVE FALSE
    OBVIOUS
  <2>2. PICK x \in B : \A m \in B : ~(D[m] \subseteq D[x] /\ x \notin D[m])
    <3>1. B \subseteq Nodes
      BY <1>0
    <3> HIDE DEF B
    <3> QED BY <2>1, <3>1, Lowest
  <2>3. x \in Inside(t, D) /\ x \in Nodes /\ x # Nil /\ ~(2^w(x) <= c(x) + 1)
    BY <1>0, <2>2, LinkNode
  <2> DEFINE l == t.kid[x]["left"]
             r == t.kid[x]["right"]
  <2>4. \A s \in Sides : LET y == t.kid[x][s] IN
           y \in Inside(t, D) \cup {Nil} /\ y \notin B /\ h[x] = w(y)
    <3> TAKE s \in Sides
    <3>1. h[x] = w(t.kid[x][s])
      BY <2>3, EvenKid
    <3>2. ASSUME t.kid[x][s] # Nil PROVE t.kid[x][s] \in Inside(t, D) /\ t.kid[x][s] \notin B
      BY <2>2, <2>3, <3>2, KidBelow, InsideLinked
    <3>3. Nil \notin B
      BY <1>0, LinkNode
    <3> QED BY <3>1, <3>2, <3>3
  <2>5. l \in Inside(t, D) \cup {Nil} /\ r \in Inside(t, D) \cup {Nil} /\ h[x] = w(l) /\ h[x] = w(r)
        /\ l \notin B /\ r \notin B
    BY <2>4 DEF Sides
  <2>6. 2^h[x] <= c(l) + 1 /\ 2^h[x] <= c(r) + 1
    BY <1>2, <2>5
  <2>7. c(x) = c(l) + c(r) + 1
    <3> DEFINE L == Sub(D, l)
               R == Sub(D, r)
    <3>1. L = Below(t, D, x, "left") /\ R = Below(t, D, x, "right") /\ Sub(D, x) = D[x]
          /\ Other("left") = "right" /\ "left" \in Sides /\ "right" \in Sides /\ Other("right") = "left"
      BY <2>3 DEF Below, Sides, Other, Sub
    <3> HIDE DEF L, R, l, r
    <3>2. D[x] = (L \cup R) \cup {x} /\ L \cap R = {} /\ x \notin L \cup R
      <4>1. L \subseteq D[x] /\ R \subseteq D[x] /\ x \in D[x] /\ x \notin L /\ x \notin R
        BY <2>3, <3>1, BelowNodes
      <4>2. \A m \in L : m \notin R
        BY <2>3, <3>1, BelowNodes
      <4>3. \A m \in D[x] : m = x \/ m \in L \/ m \in R
        BY <2>3, <3>1, BelowNodes
      <4> QED BY <4>1, <4>2, <4>3
    <3>3. IsFiniteSet(L) /\ IsFiniteSet(R) /\ Cardinality(L) \in Nat /\ Cardinality(R) \in Nat
      BY <1>1, <2>5 DEF L, R
    <3>4. IsFiniteSet(L \cup R) /\ Cardinality(L \cup R) = Cardinality(L) + Cardinality(R) - Cardinality(L \cap R)
      BY <3>3, FS_Union
    <3>5. Cardinality(L \cap R) = 0
      BY <3>2, FS_EmptySet
    <3>6. Cardinality((L \cup R) \cup {x}) = Cardinality(L \cup R) + 1
      BY <3>2, <3>4, FS_AddElement
    <3>7. Cardinality(D[x]) = Cardinality(L) + Cardinality(R) + 1
      BY <3>2, <3>3, <3>4, <3>5, <3>6
    <3> QED BY <3>1, <3>7 DEF L, R
  <2>8. h[x] \in Nat /\ w(x) = (IF t.red[x] THEN h[x] ELSE h[x] + 1)
    BY <1>0, <2>3 DEF Weight
  <2>9. 2^h[x] \in Nat /\ 2^(h[x]+1) = 2^h[x] + 2^h[x]
    BY <2>8, TwoTo
  <2>10. 2^w(x) = 2^h[x] \/ 2^w(x) = 2^(h[x]+1)
    BY <2>8
  <2>11. c(l) \in Nat /\ c(r) \in Nat
    BY <1>1, <2>5
  <2> DEFINE a == 2^h[x]
             b == 2^w(x)
             cl == c(l)
             cr == c(r)
             cx == c(x)
  <2>12. /\ a \in Nat /\ (b = a \/ b = a + a) /\ cl \in Nat /\ cr \in Nat
         /\ a <= cl + 1 /\ a <= cr + 1 /\ cx = cl + cr + 1 /\ ~(b <= cx + 1)
    BY <2>3, <2>6, <2>7, <2>9, <2>10, <2>11
  <2> HIDE DEF a, b, cl, cr, cx
  <2> QED BY <2>12
<1>4. ASSUME NEW x \in Inside(t, D) \cup {Nil} PROVE w(x) \in Nat /\ 2^w(x) <= c(x) + 1
  BY <1>1, <1>2, <1>3
<1> QED BY <1>4

\* On a path without two red nodes in turn no more nodes are red than black.
LEMMA HalfBlack ==
  ASSUME NEW t, NEW D, Shape(t, D), Calm(t, D, Nil), NEW x \in Inside(t, D)
  PROVE  LET A == {m \in Nodes : x \in D[m]}
         IN  Cardinality(A) \in Nat /\ Cardinality(A) <= 2 * Cardinality(BlackOver(t, D, x))
<1> DEFINE A == {m \in Nodes : x \in D[m]}
           P == BlackOver(t, D, x)
           Q == {m \in Nodes : x \in D[m] /\ t.red[m]}
           f == [m \in Q |-> t.parent[m]]
<1>1. t \in TreeType /\ x \in Nodes
  BY ShapeIs, InsideNodes
<1>2. A = P \cup Q /\ P \cap Q = {}
  BY DEF BlackOver
<1>3. ASSUME NEW m \in Q PROVE m \in Inside(t, D)
  <2>1. m \in Nodes /\ x \in D[m]
    OBVIOUS
  <2>2. CASE m # x
    <3>1. PICK s \in Sides : x \in Below(t, D, m, s)
      BY <2>1, <2>2, BelowNodes, OtherSide DEF Sides
    <3> QED BY <2>1, <3>1, NestedBelow, InsideLinked
  <2> QED BY <2>2
<1>4. ASSUME NEW m \in Q
      PROVE  /\ t.parent[m] \in P /\ t.parent[m] \in Nodes
             /\ \E s \in Sides : t.kid[t.parent[m]][s] = m /\ x \in Below(t, D, t.parent[m], s)
  <2>1. m \in Inside(t, D) /\ m \in Nodes /\ m # Nil /\ t.red[m] /\ x \in D[m]
    BY <1>3, LinkNode
  <2>2. t.parent[m] \in Nodes /\ ~t.red[t.parent[m]] /\ t.parent[m] # Nil
    BY <2>1, CalmUp
  <2>3. PICK s \in Sides : t.kid[t.parent[m]][s] = m
    BY <2>1, <2>2 DEF Shape, Linked
  <2>4. D[m] \subseteq D[t.parent[m]] /\ Below(t, D, t.parent[m], s) = D[m]
    BY <2>1, <2>2, <2>3, KidBelow
  <2> QED BY <2>1, <2>2, <2>3, <2>4 DEF BlackOver
<1>5. ASSUME NEW m \in Q, NEW n \in Q, t.parent[m] = t.parent[n] PROVE m = n
  <2> DEFINE p == t.parent[m]
  <2>1. p \in Nodes /\ t.parent[n] = p
    BY <1>4, <1>5
  <2>2. PICK s \in Sides : t.kid[p][s] = m /\ x \in Below(t, D, p, s)
    BY <1>4
  <2>3. PICK z \in Sides : t.kid[p][z] = n /\ x \in Below(t, D, p, z)
    BY <1>4, <2>1
  <2> HIDE DEF p
  <2>4. s = z
    <3>1. z # Other(s)
      BY <2>1, <2>2, <2>3, BelowNodes
    <3> QED BY <3>1 DEF Sides, Other
  <2> QED BY <2>2, <2>3, <2>4
<1>6. f \in Injection(Q, P)
  <2>1. f \in [Q -> P]
    BY <1>4
  <2>2. \A m, n \in Q : f[m] = f[n] => m = n
    BY <1>5
  <2> HIDE DEF f, Q, P
  <2> QED BY <2>1, <2>2 DEF Injection, IsInjective
<1> HIDE DEF f, P, Q, A
<1>7. IsFiniteSet(P) /\ Cardinality(P) \in Nat
  BY BlackOverFinite DEF P
<1>8. IsFiniteSet(Q) /\ Cardinality(Q) <= Cardinality(P)
  BY <1>6, <1>7, FS_Injection
<1>9. Cardinality(Q) \in Nat
  BY <1>8, FS_CardinalityType
<1>10. Cardinality(P \cup Q) = Cardinality(P) + Cardinality(Q) - Cardinality(P \cap Q)
  BY <1>7, <1>8, FS_Union
<1>11. Cardinality(P \cap Q) = 0
  BY <1>2, FS_EmptySet
<1>12. Cardinality(A) \in Nat /\ Cardinality(A) <= 2 * Cardinality(P)
  BY <1>2, <1>7, <1>8, <1>9, <1>10, <1>11
<1> QED BY <1>12 DEF A, P

\* The invariant has short paths.
LEMMA IInvShort == IInv => ShortPaths
<1> SUFFICES ASSUME IInv, pc = "idle", NEW n \in InTree
             PROVE  \E k \in Nat : Cardinality(Above(n)) <= 2 * k /\ 2^k <= Cardinality(InTree) + 1
  BY DEF ShortPaths
<1>1. PICK X : Holds(tree, pc, cur, par, X)
  BY DEF IInv
<1>2. PICK D, h : Settled(tree, D, h) /\ Shape(tree, D) /\ Inside(tree, D) = X
  BY <1>1, Idle
<1>3. Calm(tree, D, Nil) /\ Even(tree, D, h, Nil, "left") /\ InTree = Inside(tree, D)
  BY <1>1, <1>2, InTreeIs DEF Settled
<1> DEFINE k == Weight(tree, h, tree.root)
           b == Cardinality(BlackOver(tree, D, n))
           m == Missed(tree, D, Nil, "left", n)
<1>4. n \in Nodes /\ n \in Inside(tree, D) /\ tree.root \in Inside(tree, D)
  BY <1>2, <1>3, InsideNodes, InsideLinked
<1>5. k \in Nat /\ 2^k <= Cardinality(InTree) + 1
  BY <1>2, <1>3, <1>4, WeightSize DEF Inside
<1>6. Cardinality(Above(n)) \in Nat /\ Cardinality(Above(n)) <= 2 * b
  BY <1>2, <1>3, <1>4, HalfBlack, AboveIs
<1>7. b + h[n] + m = k /\ h[n] \in Nat /\ m \in Nat /\ b \in Nat
  <2>1. Nil \in Link /\ "left" \in Sides
    BY LinkNode DEF Sides
  <2> QED BY <1>2, <1>3, <1>4, <2>1, PathSum, BlackOverFinite
<1> HIDE DEF k, b, m
<1>8. Cardinality(Above(n)) <= 2 * k
  BY <1>5, <1>6, <1>7
<1> QED BY <1>5, <1>8

\* Between two calls the tree of n users is no higher than twice the logarithm of
\* n + 1: a search of hev_socks5_authenticator_get, add or del looks at no more
\* nodes, for any number of users.
THEOREM SearchesAreShort == Spec => []ShortPaths
  BY Invariance, IInvShort, PTL
=============================================================================
