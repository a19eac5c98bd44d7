----------------------- MODULE Socks5TreeShape_proof ------------------------
(***************************************************************************)
(* Facts about the operators of Socks5Tree, on trees of any size: the      *)
(* order of names, the walks along links, the shape of a binary search     *)
(* tree, and what rotations, new leaves, cuts and the exchange of nodes    *)
(* leave of it.  A tree t comes with the sets D[n] of the nodes from n     *)
(* downwards, which are unique but cannot be computed by the provers from  *)
(* the links alone: every lemma about a change of the tree says how the    *)
(* sets change with it.                                                    *)
(***************************************************************************)
EXTENDS Socks5Tree, FiniteSetTheorems, WellFoundedInduction, SequenceTheorems, TLAPS

-----------------------------------------------------------------------------
(* Least elements, and the order of names.                                 *)

\* Of sets that are ranked by sets below a finite one, one has a least rank.
LEMMA LeastRank ==
  ASSUME NEW S, NEW X, NEW R, NEW B,
         IsFiniteSet(S), R \in [X -> SUBSET S], B \subseteq X, B # {}
  PROVE  \E n \in B : \A m \in B : R[m] \subseteq R[n] => R[m] = R[n]
<1> DEFINE T == {R[n] : n \in B}
<1>1. IsWellFoundedOn(StrictSubsetOrdering(S), SUBSET S)
  BY FS_StrictSubsetOrderingWellFounded, FS_FiniteSubsetsOfFinite
<1>2. T \subseteq SUBSET S /\ T # {}
  OBVIOUS
<1>3. PICK x \in T : \A y \in T : ~ (<<y, x>> \in StrictSubsetOrdering(S))
  <2> HIDE DEF T
  <2> QED BY <1>1, <1>2, WFMin
<1>4. PICK n \in B : R[n] = x
  BY <1>3
<1>5. \A m \in B : R[m] \subseteq R[n] => R[m] = R[n]
  BY <1>3, <1>4 DEF StrictSubsetOrdering
<1> QED
  BY <1>5

\* The numbers up to k.
UpTo(k) == 1 .. k

\* A set of them that is not empty has a least member,
LEMMA LeastUpTo ==
  ASSUME NEW k, NEW A, k \in Nat, A \subseteq UpTo(k), A # {}
  PROVE  \E n \in A : \A m \in A : n <= m
<1> DEFINE R == [n \in UpTo(k) |-> UpTo(n)]
<1>1. IsFiniteSet(UpTo(k))
  BY FS_Interval DEF UpTo
<1>2. R \in [UpTo(k) -> SUBSET UpTo(k)]
  BY DEF UpTo
<1>3. PICK n \in A : \A m \in A : R[m] \subseteq R[n] => R[m] = R[n]
  <2> HIDE DEF R
  <2> QED BY <1>1, <1>2, LeastRank
<1>4. ASSUME NEW m \in A PROVE n <= m
  <2>1. SUFFICES ASSUME m < n PROVE FALSE
    BY DEF UpTo
  <2>2. R[m] \subseteq R[n]
    BY <2>1 DEF UpTo
  <2>3. n \in R[n] /\ n \notin R[m]
    BY <2>1 DEF UpTo
  <2> QED
    BY <1>3, <2>2, <2>3
<1> QED
  BY <1>4

\* and so has one written as an interval.
LEMMA LeastNat ==
  ASSUME NEW k \in Nat, NEW A \in SUBSET (1 .. k), A # {}
  PROVE  \E n \in A : \A m \in A : n <= m
  BY LeastUpTo DEF UpTo

-----------------------------------------------------------------------------

\* Names of n bytes.
Bytes(n) == [1 .. n -> Int]

\* The comparison of two names of one length.
Memcmp(a, b) ==
    LET differ == {i \in DOMAIN a : a[i] # b[i]}
    IN  IF differ = {} THEN 0
        ELSE LET i == CHOOSE j \in differ : \A k \in differ : j <= k IN a[i] - b[i]

\* The length decides first, then memcmp.
LEMMA CompareSplit ==
  ASSUME NEW a, NEW b
  PROVE  Compare(a, b) = IF Len(a) # Len(b) THEN Len(a) - Len(b) ELSE Memcmp(a, b)
  BY DEF Compare, Memcmp

\* A name equals itself;
LEMMA MemcmpEqual ==
  ASSUME NEW a
  PROVE  Memcmp(a, a) = 0
  BY DEF Memcmp

\* different names differ at a first byte, and its difference is the result;
LEMMA MemcmpFirst ==
  ASSUME NEW n \in Nat, NEW a \in Bytes(n), NEW b \in Bytes(n), a # b
  PROVE  \E i \in 1 .. n :
           /\ a[i] # b[i] /\ Memcmp(a, b) = a[i] - b[i]
           /\ \A k \in 1 .. n : k < i => a[k] = b[k]
<1> DEFINE differ == {i \in DOMAIN a : a[i] # b[i]}
<1>1. DOMAIN a = 1 .. n
  BY DEF Bytes
<1>2. differ # {} /\ differ \in SUBSET (1 .. n)
  BY <1>1 DEF Bytes
<1>3. \E m \in differ : \A k \in differ : m <= k
  <2> HIDE DEF differ
  <2> QED BY <1>2, LeastNat
<1> DEFINE i == CHOOSE j \in differ : \A k \in differ : j <= k
<1>4. i \in differ /\ \A k \in differ : i <= k
  <2> HIDE DEF differ
  <2> QED BY <1>3
<1>5. Memcmp(a, b) = a[i] - b[i]
  BY <1>2 DEF Memcmp
<1>6. i \in 1 .. n /\ a[i] # b[i]
  <2> HIDE DEF i
  <2> QED BY <1>1, <1>4
<1>7. \A k \in 1 .. n : k < i => a[k] = b[k]
  <2> HIDE DEF i
  <2> QED BY <1>1, <1>4
<1> QED
  <2> HIDE DEF i
  <2> QED BY <1>5, <1>6, <1>7

\* the result is zero only for equal names;
LEMMA MemcmpInt ==
  ASSUME NEW n \in Nat, NEW a \in Bytes(n), NEW b \in Bytes(n)
  PROVE  Memcmp(a, b) \in Int /\ (Memcmp(a, b) = 0 <=> a = b)
<1>1. CASE a = b
  BY <1>1, MemcmpEqual
<1>2. CASE a # b
  <2>1. PICK i \in 1 .. n : a[i] # b[i] /\ Memcmp(a, b) = a[i] - b[i]
    BY <1>2, MemcmpFirst
  <2>2. a[i] \in Int /\ b[i] \in Int
    BY DEF Bytes
  <2> QED BY <1>2, <2>1, <2>2
<1> QED BY <1>1, <1>2

\* the other way round it has the other sign;
LEMMA MemcmpTurn ==
  ASSUME NEW n \in Nat, NEW a \in Bytes(n), NEW b \in Bytes(n)
  PROVE  Memcmp(b, a) = 0 - Memcmp(a, b)
<1>1. CASE a = b
  BY <1>1, MemcmpEqual
<1>2. CASE a # b
  <2>1. PICK i \in 1 .. n :
           /\ a[i] # b[i] /\ Memcmp(a, b) = a[i] - b[i]
           /\ \A k \in 1 .. n : k < i => a[k] = b[k]
    BY <1>2, MemcmpFirst
  <2>2. PICK j \in 1 .. n :
           /\ b[j] # a[j] /\ Memcmp(b, a) = b[j] - a[j]
           /\ \A k \in 1 .. n : k < j => b[k] = a[k]
    BY <1>2, MemcmpFirst
  <2>3. i = j
    BY <2>1, <2>2
  <2>4. a[i] \in Int /\ b[i] \in Int
    BY DEF Bytes
  <2> QED BY <2>1, <2>2, <2>3, <2>4
<1> QED BY <1>1, <1>2

\* what is greater than a greater one is greater.
LEMMA MemcmpChain ==
  ASSUME NEW n \in Nat, NEW a \in Bytes(n), NEW b \in Bytes(n), NEW c \in Bytes(n),
         Memcmp(a, b) > 0, Memcmp(b, c) > 0
  PROVE  Memcmp(a, c) > 0
<1>1. a # b /\ b # c
  BY MemcmpEqual
<1>2. PICK i \in 1 .. n :
         /\ a[i] # b[i] /\ Memcmp(a, b) = a[i] - b[i]
         /\ \A k \in 1 .. n : k < i => a[k] = b[k]
  BY <1>1, MemcmpFirst
<1>3. PICK j \in 1 .. n :
         /\ b[j] # c[j] /\ Memcmp(b, c) = b[j] - c[j]
         /\ \A k \in 1 .. n : k < j => b[k] = c[k]
  BY <1>1, MemcmpFirst
<1>4. \A k \in 1 .. n : a[k] \in Int /\ b[k] \in Int /\ c[k] \in Int
  BY DEF Bytes
<1>5. a[i] > b[i] /\ b[j] > c[j]
  BY <1>2, <1>3, <1>4
<1>6. PICK m \in 1 .. n : a[m] > c[m] /\ \A k \in 1 .. n : k < m => a[k] = c[k]
  <2>1. CASE i < j
    BY <2>1, <1>2, <1>3, <1>4, <1>5
  <2>2. CASE j < i
    BY <2>2, <1>2, <1>3, <1>4, <1>5
  <2>3. CASE i = j
    BY <2>3, <1>2, <1>3, <1>4, <1>5
  <2> QED BY <2>1, <2>2, <2>3
<1>7. a # c
  BY <1>4, <1>6
<1>8. PICK l \in 1 .. n :
         /\ a[l] # c[l] /\ Memcmp(a, c) = a[l] - c[l]
         /\ \A k \in 1 .. n : k < l => a[k] = c[k]
  BY <1>7, MemcmpFirst
<1>9. l = m
  BY <1>4, <1>6, <1>8
<1> QED BY <1>4, <1>6, <1>8, <1>9

\* A function into a set is one into a greater set.
LEMMA Wider ==
  ASSUME NEW X, NEW S, NEW T, S \subseteq T, NEW a \in [X -> S]
  PROVE  a \in [X -> T]
  OBVIOUS

\* A name is made of as many bytes as it is long.
LEMMA NameBytes ==
  ASSUME NEW a \in Seq(0 .. 255)
  PROVE  Len(a) \in Nat /\ a \in Bytes(Len(a))
<1>1. Len(a) \in Nat /\ a \in [1 .. Len(a) -> 0 .. 255]
  BY LenProperties
<1>2. 0 .. 255 \subseteq Int
  OBVIOUS
<1>3. a \in [1 .. Len(a) -> Int]
  BY <1>1, <1>2, Wider, Zenon
<1> QED BY <1>1, <1>3, Zenon DEF Bytes

\* Names are ordered by Compare.
LEMMA CompareOrder ==
  ASSUME NEW a \in Seq(0 .. 255), NEW b \in Seq(0 .. 255)
  PROVE  /\ Compare(a, b) \in Int /\ Compare(b, a) = 0 - Compare(a, b)
         /\ Compare(a, b) = 0 <=> a = b
<1> DEFINE n == Len(a)
           m == Len(b)
<1>1. n \in Nat /\ m \in Nat /\ a \in Bytes(n) /\ b \in Bytes(m)
  BY NameBytes
<1>2. /\ Compare(a, b) = IF n # m THEN n - m ELSE Memcmp(a, b)
      /\ Compare(b, a) = IF m # n THEN m - n ELSE Memcmp(b, a)
  BY CompareSplit
<1>3. n # m => a # b
  OBVIOUS
<1> HIDE DEF n, m
<1>4. CASE n # m
  BY <1>1, <1>2, <1>3, <1>4
<1>5. CASE n = m
  <2>1. a \in Bytes(n) /\ b \in Bytes(n)
    BY <1>1, <1>5
  <2>2. Memcmp(a, b) \in Int /\ Memcmp(b, a) = 0 - Memcmp(a, b)
    BY <1>1, <2>1, MemcmpInt, MemcmpTurn
  <2>3. Memcmp(a, b) = 0 <=> a = b
    BY <1>1, <2>1, MemcmpInt
  <2> QED BY <1>2, <1>5, <2>2, <2>3
<1> QED BY <1>4, <1>5

\* hev_socks5_authenticator_compare orders names: it is transitive.
LEMMA CompareChain ==
  ASSUME NEW a \in Seq(0 .. 255), NEW b \in Seq(0 .. 255), NEW c \in Seq(0 .. 255),
         Compare(a, b) > 0, Compare(b, c) > 0
  PROVE  Compare(a, c) > 0
<1> DEFINE n == Len(a)
           m == Len(b)
           l == Len(c)
           ab == Memcmp(a, b)
           bc == Memcmp(b, c)
           ac == Memcmp(a, c)
<1>1. n \in Nat /\ m \in Nat /\ l \in Nat /\ a \in Bytes(n) /\ b \in Bytes(m) /\ c \in Bytes(l)
  BY NameBytes
<1>2. /\ Compare(a, b) = IF n # m THEN n - m ELSE ab
      /\ Compare(b, c) = IF m # l THEN m - l ELSE bc
      /\ Compare(a, c) = IF n # l THEN n - l ELSE ac
  BY CompareSplit
<1>3. n = m /\ m = l /\ ab > 0 /\ bc > 0 => ac > 0
  <2> HIDE DEF n, m, l
  <2> QED BY <1>1, MemcmpChain
<1> HIDE DEF n, m, l, ab, bc, ac
<1>4. n >= m /\ m >= l
  BY <1>1, <1>2
<1>5. CASE n # l
  BY <1>1, <1>2, <1>4, <1>5
<1>6. CASE n = l
  BY <1>1, <1>2, <1>3, <1>4, <1>6
<1> QED BY <1>5, <1>6
-----------------------------------------------------------------------------
(* The sides of a node.                                                    *)

\* The trees of the type invariant.
TreeType ==
    [root : Link, kid : [Nodes -> [Sides -> Link]],
     parent : [Nodes -> Link], red : [Nodes -> BOOLEAN]]

\* m belongs on side s of n: the greater names are on the left.
Toward(n, s, name) ==
    IF s = "left" THEN Compare(name, NameOf[n]) > 0
    ELSE Compare(NameOf[n], name) > 0

\* The name of m belongs on side s of n.
Beyond(n, s, m) == Toward(n, s, NameOf[m])

\* There are two sides, and each is the other of the other.
LEMMA OtherSide ==
  ASSUME NEW s \in Sides
  PROVE  /\ Other(s) \in Sides /\ Other(s) # s /\ Other(Other(s)) = s
         /\ \A x \in Sides : x = s \/ x = Other(s)
  BY DEF Sides, Other

\* Names are byte strings.
LEMMA NameSeq ==
  ASSUME NEW n \in Nodes
  PROVE  NameOf[n] \in Seq(0 .. 255)
<1>1. NameOf[n] \in Names
  BY NamesAssumption
<1> QED BY <1>1, NamesAssumption, Zenon

\* A number and its opposite have opposite signs.
LEMMA IntSign ==
  ASSUME NEW x \in Int, NEW y, y = 0 - x
  PROVE  /\ ~(x > 0 /\ y > 0)
         /\ x = 0 \/ x > 0 \/ y > 0
         /\ (x = 0) => ~(x > 0)
         /\ (x < 0) <=> (y > 0)
  OBVIOUS

\* A name other than a node's belongs on just one side of it;
LEMMA TowardOne ==
  ASSUME NEW n \in Nodes, NEW name \in Seq(0 .. 255), NEW s \in Sides
  PROVE  /\ ~(Toward(n, s, name) /\ Toward(n, Other(s), name))
         /\ name = NameOf[n] => ~Toward(n, s, name)
         /\ name # NameOf[n] => (Toward(n, s, name) \/ Toward(n, Other(s), name))
<1> DEFINE b == NameOf[n]
<1>1. /\ Compare(name, b) \in Int /\ Compare(b, name) = 0 - Compare(name, b)
      /\ Compare(name, b) = 0 <=> name = b
  BY NameSeq, CompareOrder
<1>2. /\ ~(Compare(name, b) > 0 /\ Compare(b, name) > 0)
      /\ Compare(name, b) = 0 \/ Compare(name, b) > 0 \/ Compare(b, name) > 0
  BY <1>1, IntSign
<1>3. name = b => ~(Compare(name, b) > 0) /\ ~(Compare(b, name) > 0)
  BY <1>1, IntSign
<1>4. CASE s = "left"
  BY <1>1, <1>2, <1>3, <1>4 DEF Toward, Other
<1>5. CASE s = "right"
  BY <1>1, <1>2, <1>3, <1>5 DEF Toward, Other
<1> QED BY <1>4, <1>5 DEF Sides

\* A search goes to the side where the name belongs.
LEMMA TowardWay ==
  ASSUME NEW n \in Nodes, NEW name \in Seq(0 .. 255), name # NameOf[n]
  PROVE  Way(n, name) \in Sides /\ Toward(n, Way(n, name), name)
<1> DEFINE b == NameOf[n]
<1>1. /\ Compare(b, name) \in Int /\ Compare(name, b) = 0 - Compare(b, name)
      /\ Compare(b, name) = 0 <=> b = name
  BY NameSeq, CompareOrder
<1>2. /\ Compare(b, name) < 0 <=> Compare(name, b) > 0
      /\ Compare(b, name) > 0 \/ Compare(name, b) > 0
  BY <1>1, IntSign
<1> QED BY <1>2 DEF Toward, Way, Sides

\* m is on one side of n when n is on the other side of m;
LEMMA BeyondTurn ==
  ASSUME NEW m, NEW n, NEW s \in Sides
  PROVE  Beyond(n, s, m) <=> Beyond(m, Other(s), n)
  BY DEF Beyond, Toward, Other, Sides

\* two nodes of different names are on one side of each other;
LEMMA BeyondOne ==
  ASSUME NEW m \in Nodes, NEW n \in Nodes, NEW s \in Sides
  PROVE  /\ ~(Beyond(n, s, m) /\ Beyond(n, Other(s), m))
         /\ NameOf[m] = NameOf[n] => ~Beyond(n, s, m)
         /\ NameOf[m] # NameOf[n] => (Beyond(n, s, m) \/ Beyond(n, Other(s), m))
  BY NameSeq, TowardOne DEF Beyond

\* what is beyond one beyond n is beyond n;
LEMMA BeyondChain ==
  ASSUME NEW m \in Nodes, NEW n \in Nodes, NEW k \in Nodes, NEW s \in Sides,
         Beyond(n, s, m), Beyond(m, s, k)
  PROVE  Beyond(n, s, k)
  BY NameSeq, CompareChain DEF Beyond, Toward, Sides

\* and nodes of one name have the same sides.
LEMMA BeyondName ==
  ASSUME NEW m \in Nodes, NEW n \in Nodes, NEW k \in Nodes, NEW s \in Sides,
         NameOf[m] = NameOf[n]
  PROVE  /\ Beyond(m, s, k) <=> Beyond(n, s, k)
         /\ Beyond(k, s, m) <=> Beyond(k, s, n)
  BY DEF Beyond, Toward

-----------------------------------------------------------------------------
(* The shape of a tree, with D[n] the nodes from n downwards.              *)

\* The nodes from x downwards, none where there is no x;
Sub(D, x) == IF x = Nil THEN {} ELSE D[x]

\* those on side s of n;
Below(t, D, n, s) == Sub(D, t.kid[n][s])

\* and those of the tree.
Inside(t, D) == Sub(D, t.root)

\* A child's parent is the node it is the child of, and nobody else has the child.
Linked(t) ==
    /\ t.root # Nil => t.parent[t.root] = Nil
    /\ \A n \in Nodes : \A s \in Sides :
         t.kid[n][s] # Nil => t.parent[t.kid[n][s]] = n
    /\ \A n \in Nodes :
         t.parent[n] # Nil => \E s \in Sides : t.kid[t.parent[n]][s] = n

\* What is below a node is the node and what is below its children, without overlap.
Spread(t, D) ==
    /\ D \in [Nodes -> SUBSET Nodes]
    /\ \A n \in Nodes : \A m \in Nodes :
         m \in D[n] <=> m = n \/ \E s \in Sides : m \in Below(t, D, n, s)

\* What is below a node on a side belongs there by its name.
Sorted(t, D) ==
    \A n \in Nodes : \A s \in Sides : \A m \in Below(t, D, n, s) : Beyond(n, s, m)

\* A node that is not in the tree has no links.
Clean(t, D) ==
    \A n \in Nodes \ Inside(t, D) :
      t.parent[n] = Nil /\ \A s \in Sides : t.kid[n][s] = Nil

\* A binary search tree.
Shape(t, D) == t \in TreeType /\ Linked(t) /\ Spread(t, D) /\ Sorted(t, D) /\ Clean(t, D)

\* Every link is a node or null.
LEMMA TreeLinks ==
  ASSUME NEW t \in TreeType, NEW n \in Nodes, NEW s \in Sides
  PROVE  t.root \in Link /\ t.kid[n][s] \in Link /\ t.parent[n] \in Link
  BY DEF TreeType

\* A node is not null.
LEMMA LinkNode ==
  ASSUME NEW x
  PROVE  /\ x \in Link <=> x \in Nodes \/ x = Nil
         /\ x \in Nodes => x # Nil
  BY NamesAssumption DEF Link

\* There are finitely many nodes.
LEMMA FiniteNodes == IsFiniteSet(Nodes)
  BY NamesAssumption, Zenon

\* What is below a node is split between the node and its two sides;
LEMMA BelowNodes ==
  ASSUME NEW t, NEW D, Shape(t, D), NEW n \in Nodes, NEW s \in Sides
  PROVE  /\ Below(t, D, n, s) \subseteq D[n] /\ D[n] \subseteq Nodes
         /\ n \in D[n] /\ n \notin Below(t, D, n, s)
         /\ \A m \in Below(t, D, n, s) : m \notin Below(t, D, n, Other(s))
         /\ \A m \in D[n] : m = n \/ m \in Below(t, D, n, s) \/ m \in Below(t, D, n, Other(s))
         /\ Inside(t, D) \subseteq Nodes
<1>1. D \in [Nodes -> SUBSET Nodes] /\ t \in TreeType
  BY DEF Shape, Spread
<1>2. Below(t, D, n, s) \subseteq Nodes /\ Inside(t, D) \subseteq Nodes
  BY <1>1, TreeLinks, LinkNode DEF Below, Sub, Inside
<1>3. Below(t, D, n, s) \subseteq D[n] /\ D[n] \subseteq Nodes /\ n \in D[n]
  BY <1>1, <1>2 DEF Shape, Spread
<1>4. n \notin Below(t, D, n, s)
  BY BeyondOne DEF Shape, Sorted
<1>5. \A m \in Below(t, D, n, s) : m \notin Below(t, D, n, Other(s))
  BY <1>2, BeyondOne, OtherSide DEF Shape, Sorted
<1>6. \A m \in D[n] : m = n \/ m \in Below(t, D, n, s) \/ m \in Below(t, D, n, Other(s))
  BY <1>3, OtherSide DEF Shape, Spread
<1> QED BY <1>2, <1>3, <1>4, <1>5, <1>6

\* what is in the tree are nodes.
LEMMA InsideNodes ==
  ASSUME NEW t, NEW D, Shape(t, D)
  PROVE  Inside(t, D) \subseteq Nodes
<1>1. t.root # Nil => t.root \in Nodes
  BY LinkNode DEF Shape, TreeType
<1> QED BY <1>1 DEF Inside, Sub, Shape, Spread

\* Of the nodes of a set, one has no other of it below it.
LEMMA Lowest ==
  ASSUME NEW t, NEW D, Shape(t, D), NEW B, B \subseteq Nodes, B # {}
  PROVE  \E n \in B : \A m \in B : ~(D[m] \subseteq D[n] /\ n \notin D[m])
<1>1. PICK n \in B : \A m \in B : D[m] \subseteq D[n] => D[m] = D[n]
  BY FiniteNodes, LeastRank DEF Shape, Spread
<1>2. n \in D[n]
  BY BelowNodes DEF Sides
<1> QED BY <1>1, <1>2

\* A child is below its parent, on its side, and is not the other child.
LEMMA KidBelow ==
  ASSUME NEW t, NEW D, Shape(t, D), NEW n \in Nodes, NEW s \in Sides,
         t.kid[n][s] # Nil
  PROVE  /\ t.kid[n][s] \in Nodes /\ t.parent[t.kid[n][s]] = n
         /\ Below(t, D, n, s) = D[t.kid[n][s]]
         /\ t.kid[n][s] \in D[t.kid[n][s]] /\ t.kid[n][s] \in Below(t, D, n, s)
         /\ D[t.kid[n][s]] \subseteq D[n] /\ n \notin D[t.kid[n][s]]
         /\ n # t.kid[n][s] /\ t.kid[n][Other(s)] # t.kid[n][s]
<1> DEFINE k == t.kid[n][s]
<1>1. k \in Nodes /\ t.parent[k] = n
  BY TreeLinks, LinkNode DEF Shape, Linked
<1>2. Below(t, D, n, s) = D[k]
  BY DEF Below, Sub
<1>3. k \in D[k] /\ D[k] \subseteq D[n] /\ n \notin D[k]
  BY <1>1, <1>2, BelowNodes
<1>4. t.kid[n][Other(s)] # k
  <2> HIDE DEF k
  <2>1. SUFFICES ASSUME t.kid[n][Other(s)] = k PROVE FALSE
    OBVIOUS
  <2>2. k \in Below(t, D, n, Other(s))
    BY <1>1, <1>3, <2>1, LinkNode DEF Below, Sub
  <2> QED BY <2>2, <1>2, <1>3, BelowNodes
<1> QED BY <1>1, <1>2, <1>3, <1>4

\* What is below a node below n is below n,
LEMMA Nested ==
  ASSUME NEW t, NEW D, Shape(t, D), NEW n \in Nodes, NEW m \in D[n]
  PROVE  D[m] \subseteq D[n]
<1> DEFINE B == {x \in Nodes : \E y \in D[x] : ~(D[y] \subseteq D[x])}
<1>1. SUFFICES ASSUME B # {} PROVE FALSE
  OBVIOUS
<1>2. PICK x \in B : \A z \in B : ~(D[z] \subseteq D[x] /\ x \notin D[z])
  <2>1. B \subseteq Nodes
    OBVIOUS
  <2> HIDE DEF B
  <2> QED BY <1>1, <2>1, Lowest
<1>3. PICK y \in D[x] : ~(D[y] \subseteq D[x])
  BY <1>2
<1>4. PICK s \in Sides : y \in Below(t, D, x, s)
  BY <1>3, BelowNodes, OtherSide DEF Sides
<1>5. t.kid[x][s] # Nil /\ y \in D[t.kid[x][s]]
  BY <1>4 DEF Below, Sub
<1>6. t.kid[x][s] \notin B
  BY <1>2, <1>5, KidBelow
<1>7. D[y] \subseteq D[t.kid[x][s]]
  BY <1>5, <1>6, KidBelow
<1> QED BY <1>3, <1>5, <1>7, KidBelow

\* and on the side of n that the node is on.
LEMMA NestedBelow ==
  ASSUME NEW t, NEW D, Shape(t, D), NEW n \in Nodes, NEW s \in Sides,
         NEW m \in Below(t, D, n, s)
  PROVE  /\ D[m] \subseteq Below(t, D, n, s) /\ n \notin D[m] /\ m \in Nodes
         /\ t.kid[n][s] # Nil /\ m \in D[t.kid[n][s]]
<1>1. t.kid[n][s] # Nil /\ m \in D[t.kid[n][s]]
  BY DEF Below, Sub
<1>2. D[m] \subseteq D[t.kid[n][s]]
  BY <1>1, KidBelow, Nested
<1> QED BY <1>1, <1>2, KidBelow, BelowNodes

\* Two nodes are not below each other.
LEMMA OneWay ==
  ASSUME NEW t, NEW D, Shape(t, D), NEW n \in Nodes, NEW m \in D[n], n \in D[m]
  PROVE  m = n
<1>1. ASSUME m # n PROVE FALSE
  <2>1. PICK s \in Sides : m \in Below(t, D, n, s)
    BY <1>1, BelowNodes, OtherSide DEF Sides
  <2> QED BY <2>1, NestedBelow
<1> QED BY <1>1

\* Going up from a node below n one stays below n until n is reached,
LEMMA Climb ==
  ASSUME NEW t, NEW D, Shape(t, D), NEW n \in Nodes, NEW m \in D[n], m # n
  PROVE  t.parent[m] \in D[n] /\ t.parent[m] # Nil
<1> DEFINE B == {x \in Nodes : \E y \in D[x] : y # x /\ t.parent[y] \notin D[x]}
<1>0. D[n] \subseteq Nodes
  BY BelowNodes DEF Sides
<1>1. SUFFICES ASSUME B # {} PROVE FALSE
  BY <1>0, LinkNode
<1>2. PICK x \in B : \A z \in B : ~(D[z] \subseteq D[x] /\ x \notin D[z])
  <2>1. B \subseteq Nodes
    OBVIOUS
  <2> HIDE DEF B
  <2> QED BY <1>1, <2>1, Lowest
<1>3. PICK y \in D[x] : y # x /\ t.parent[y] \notin D[x]
  BY <1>2
<1>4. PICK s \in Sides : y \in Below(t, D, x, s)
  BY <1>3, BelowNodes, OtherSide DEF Sides
<1>5. t.kid[x][s] # Nil /\ y \in D[t.kid[x][s]]
  BY <1>4 DEF Below, Sub
<1>6. t.kid[x][s] \notin B
  BY <1>2, <1>5, KidBelow
<1>7. CASE y = t.kid[x][s]
  BY <1>3, <1>5, <1>7, KidBelow, BelowNodes
<1>8. CASE y # t.kid[x][s]
  BY <1>3, <1>5, <1>6, <1>8, KidBelow
<1> QED BY <1>7, <1>8

\* and on its side until the child is reached.
LEMMA ClimbBelow ==
  ASSUME NEW t, NEW D, Shape(t, D), NEW n \in Nodes, NEW s \in Sides,
         NEW m \in Below(t, D, n, s), m # t.kid[n][s]
  PROVE  t.parent[m] \in Below(t, D, n, s)
  BY NestedBelow, KidBelow, Climb

\* What is linked is in the tree, from the root downwards.
LEMMA InsideLinked ==
  ASSUME NEW t, NEW D, Shape(t, D), NEW n \in Nodes
  PROVE  /\ \A s \in Sides : t.kid[n][s] # Nil =>
              n \in Inside(t, D) /\ t.kid[n][s] \in Inside(t, D)
         /\ t.parent[n] # Nil => n \in Inside(t, D) /\ t.parent[n] \in Inside(t, D)
         /\ n \in Inside(t, D) => D[n] \subseteq Inside(t, D)
         /\ n \in Inside(t, D) => t.root \in Nodes /\ t.root \in Inside(t, D)
         /\ n \in Inside(t, D) => (t.parent[n] = Nil <=> n = t.root)
         /\ t.root # Nil => t.root \in Nodes /\ t.root \in Inside(t, D) /\ Inside(t, D) = D[t.root]
<1>1. t.root # Nil => t.root \in Nodes /\ t.root \in Inside(t, D) /\ Inside(t, D) = D[t.root]
  <2>1. SUFFICES ASSUME t.root # Nil PROVE t.root \in Nodes /\ t.root \in D[t.root]
    BY DEF Inside, Sub
  <2>2. t.root \in Nodes
    BY <2>1, LinkNode DEF Shape, TreeType
  <2> QED BY <2>2, BelowNodes DEF Sides
<1>2. n \in Inside(t, D) => t.root \in Nodes /\ t.root \in Inside(t, D)
  BY <1>1 DEF Inside, Sub
<1>3. n \in Inside(t, D) => D[n] \subseteq Inside(t, D)
  BY <1>1, <1>2, Nested, LinkNode
<1>4. n \in Inside(t, D) => (t.parent[n] = Nil <=> n = t.root)
  BY <1>1, <1>2, Climb, LinkNode DEF Shape, Linked
<1>5. \A s \in Sides : t.kid[n][s] # Nil => n \in Inside(t, D) /\ t.kid[n][s] \in Inside(t, D)
  BY <1>3, KidBelow DEF Shape, Clean
<1>6. t.parent[n] # Nil => n \in Inside(t, D) /\ t.parent[n] \in Inside(t, D)
  <2>1. SUFFICES ASSUME t.parent[n] # Nil PROVE n \in Inside(t, D) /\ t.parent[n] \in Inside(t, D)
    OBVIOUS
  <2>2. n \in Inside(t, D)
    BY <2>1 DEF Shape, Clean
  <2> QED BY <1>1, <1>2, <1>4, <2>1, <2>2, Climb, LinkNode
<1> QED BY <1>1, <1>2, <1>3, <1>4, <1>5, <1>6
-----------------------------------------------------------------------------
(* What is reached along links.                                            *)

\* K has all that next leads to from it.
Closed(next, K) == \A n \in K : \A x \in next[n] : x # Nil => x \in K

\* What is in S or one step from it.
Step1(next, S) == S \cup ((UNION {next[n] : n \in S}) \ {Nil})

\* The function whose choice Reached is.
IsReach(next, r) ==
    r = [S \in SUBSET Nodes |-> IF Step1(next, S) = S THEN S ELSE r[Step1(next, S)]]

\* What is reached, as the least closed set.
Reach(next, S) ==
    {x \in Nodes : \A K \in SUBSET Nodes : S \subseteq K /\ Closed(next, K) => x \in K}

\* Reached applies a chosen function of its definition.
LEMMA ReachedIs ==
  ASSUME NEW from, NEW next
  PROVE  Reached(from, next) = (CHOOSE r : IsReach(next, r))[from \ {Nil}]
  BY DEF Reached, IsReach, Step1

\* A step stays within every closed set; one that adds nothing has closed it.
LEMMA StepIn ==
  ASSUME NEW next \in [Nodes -> SUBSET Link], NEW S \in SUBSET Nodes
  PROVE  /\ S \subseteq Step1(next, S) /\ Step1(next, S) \in SUBSET Nodes
         /\ Step1(next, S) = S <=> Closed(next, S)
         /\ \A K \in SUBSET Nodes : S \subseteq K /\ Closed(next, K) => Step1(next, S) \subseteq K
<1>1. \A x : x \in Step1(next, S) <=> x \in S \/ (x # Nil /\ \E n \in S : x \in next[n])
  <2>1. \A x : x \in UNION {next[n] : n \in S} <=> \E n \in S : x \in next[n]
    BY Zenon
  <2> DEFINE U == UNION {next[n] : n \in S}
  <2>2. Step1(next, S) = S \cup (U \ {Nil})
    BY DEF Step1
  <2>3. \A x : x \in U <=> \E n \in S : x \in next[n]
    BY <2>1, Zenon
  <2> HIDE DEF U
  <2>4. \A x : x \in S \cup (U \ {Nil}) <=> x \in S \/ (x # Nil /\ x \in U)
    OBVIOUS
  <2> QED BY <2>2, <2>3, <2>4, Zenon
<1>2. \A n \in S : next[n] \subseteq Link
  OBVIOUS
<1>3. S \subseteq Step1(next, S) /\ Step1(next, S) \in SUBSET Nodes
  BY <1>1, <1>2 DEF Link
<1>4. Step1(next, S) = S <=> Closed(next, S)
  BY <1>1 DEF Closed
<1>5. \A K \in SUBSET Nodes : S \subseteq K /\ Closed(next, K) => Step1(next, S) \subseteq K
  BY <1>1 DEF Closed
<1> QED BY <1>3, <1>4, <1>5

\* The least closed set fits the definition,
LEMMA ReachStep ==
  ASSUME NEW next \in [Nodes -> SUBSET Link], NEW S \in SUBSET Nodes
  PROVE  Reach(next, S) = IF Step1(next, S) = S THEN S ELSE Reach(next, Step1(next, S))
<1>1. CASE Step1(next, S) = S
  BY <1>1, StepIn DEF Reach
<1>2. CASE Step1(next, S) # S
  BY <1>2, StepIn DEF Reach
<1> QED BY <1>1, <1>2

\* so there is such a function,
LEMMA ReachExists ==
  ASSUME NEW next \in [Nodes -> SUBSET Link]
  PROVE  \E r : IsReach(next, r)
<1> DEFINE r == [S \in SUBSET Nodes |-> Reach(next, S)]
<1>1. \A S \in SUBSET Nodes : r[S] = IF Step1(next, S) = S THEN S ELSE r[Step1(next, S)]
  BY ReachStep, StepIn
<1>2. r = [S \in SUBSET Nodes |-> IF Step1(next, S) = S THEN S ELSE r[Step1(next, S)]]
  <2> DEFINE q == [S \in SUBSET Nodes |-> IF Step1(next, S) = S THEN S ELSE r[Step1(next, S)]]
  <2>1. \A S \in SUBSET Nodes : r[S] = q[S]
    BY <1>1
  <2>2. DOMAIN r = SUBSET Nodes /\ DOMAIN q = SUBSET Nodes
    OBVIOUS
  <2> QED BY <2>1, <2>2
<1> QED
  <2> HIDE DEF r
  <2> QED BY <1>2 DEF IsReach

\* and any such function gives it: S grows with every step and is finite.
LEMMA ReachOne ==
  ASSUME NEW next \in [Nodes -> SUBSET Link], NEW r, IsReach(next, r), NEW S \in SUBSET Nodes
  PROVE  r[S] = Reach(next, S)
<1> DEFINE B == {T \in SUBSET Nodes : r[T] # Reach(next, T)}
           R == [T \in SUBSET Nodes |-> Nodes \ T]
<1>1. SUFFICES ASSUME B # {} PROVE FALSE
  OBVIOUS
<1>2. R \in [SUBSET Nodes -> SUBSET Nodes] /\ B \subseteq SUBSET Nodes
  OBVIOUS
<1>3. PICK T \in B : \A U \in B : R[U] \subseteq R[T] => R[U] = R[T]
  <2> HIDE DEF B, R
  <2> QED BY <1>1, <1>2, FiniteNodes, LeastRank
<1>4. T \in SUBSET Nodes /\ r[T] # Reach(next, T)
  OBVIOUS
<1>5. r[T] = IF Step1(next, T) = T THEN T ELSE r[Step1(next, T)]
  BY <1>4 DEF IsReach
<1>6. Step1(next, T) # T
  BY <1>4, <1>5, ReachStep
<1>7. Step1(next, T) \in SUBSET Nodes /\ R[Step1(next, T)] \subseteq R[T] /\ R[Step1(next, T)] # R[T]
  <2> DEFINE U == Step1(next, T)
  <2>1. U \in SUBSET Nodes /\ T \subseteq U /\ U # T
    BY <1>4, <1>6, StepIn
  <2>2. R[U] = Nodes \ U /\ R[T] = Nodes \ T
    <3> HIDE DEF U
    <3> QED BY <2>1, <1>4
  <2> HIDE DEF U, R, B
  <2>3. R[U] \subseteq R[T] /\ R[U] # R[T]
    BY <2>1, <2>2, <1>4
  <2> QED BY <2>1, <2>3 DEF U
<1>8. Step1(next, T) \notin B
  <2> HIDE DEF B, R
  <2> QED BY <1>3, <1>7
<1> QED BY <1>4, <1>5, <1>6, <1>7, <1>8, ReachStep

\* Reached is the least set that holds the first nodes and what is next to it.
LEMMA ReachedLeast ==
  ASSUME NEW next \in [Nodes -> SUBSET Link], NEW from \in SUBSET Link, NEW X \in SUBSET Nodes,
         from \ {Nil} \subseteq X, Closed(next, X),
         \A K \in SUBSET Nodes : from \ {Nil} \subseteq K /\ Closed(next, K) => X \subseteq K
  PROVE  Reached(from, next) = X
<1> DEFINE f == from \ {Nil}
           r == CHOOSE q : IsReach(next, q)
<1>1. f \in SUBSET Nodes
  BY DEF Link
<1>2. IsReach(next, r)
  BY ReachExists
<1>3. r[f] = Reach(next, f)
  <2> HIDE DEF f, r
  <2> QED BY <1>1, <1>2, ReachOne
<1>4. Reach(next, f) = X
  BY DEF Reach
<1> QED BY <1>3, <1>4, ReachedIs

\* The links downwards of a tree, and the link upwards.
KidsOf(t) == [n \in Nodes |-> {t.kid[n][s] : s \in Sides}]

ParentOf(t) == [n \in Nodes |-> {t.parent[n]}]

\* Of the nodes of a set, one is below no other of it.
LEMMA Highest ==
  ASSUME NEW t, NEW D, Shape(t, D), NEW B, B \subseteq Nodes, B # {}
  PROVE  \E n \in B : \A m \in B : n \in D[m] => m = n
<1> DEFINE R == [n \in Nodes |-> Nodes \ D[n]]
<1>1. R \in [Nodes -> SUBSET Nodes]
  OBVIOUS
<1>2. PICK n \in B : \A m \in B : R[m] \subseteq R[n] => R[m] = R[n]
  <2> HIDE DEF R
  <2> QED BY <1>1, FiniteNodes, LeastRank
<1>3. ASSUME NEW m \in B, n \in D[m] PROVE m = n
  <2>1. D[n] \subseteq D[m] /\ m \in D[m] /\ D[m] \subseteq Nodes
    BY <1>3, Nested, BelowNodes DEF Sides
  <2>2. R[m] = R[n]
    BY <1>2, <2>1
  <2>3. m \in D[n]
    BY <2>1, <2>2
  <2> QED BY <1>3, <2>3, OneWay
<1> QED BY <1>3

\* What is reached from the root is what is below it.
LEMMA ReachedDown ==
  ASSUME NEW t, NEW D, Shape(t, D)
  PROVE  Reached({t.root}, KidsOf(t)) = Inside(t, D)
<1>0. t \in TreeType /\ Inside(t, D) \in SUBSET Nodes /\ t.root \in Link
  <2>1. t \in TreeType /\ t.root \in Link
    BY DEF Shape, TreeType
  <2>2. t.root # Nil => t.root \in Nodes
    BY <2>1, LinkNode
  <2> QED BY <2>1, <2>2, BelowNodes DEF Inside, Sub, Sides
<1>1. KidsOf(t) \in [Nodes -> SUBSET Link] /\ {t.root} \in SUBSET Link
  BY <1>0, TreeLinks DEF KidsOf
<1>2. {t.root} \ {Nil} \subseteq Inside(t, D)
  BY <1>0, InsideLinked, LinkNode
<1>3. Closed(KidsOf(t), Inside(t, D))
  BY <1>0, InsideLinked DEF Closed, KidsOf
<1>4. ASSUME NEW K \in SUBSET Nodes, {t.root} \ {Nil} \subseteq K, Closed(KidsOf(t), K)
      PROVE  Inside(t, D) \subseteq K
  <2> DEFINE B == {x \in Inside(t, D) : x \notin K}
  <2>1. SUFFICES ASSUME B # {} PROVE FALSE
    OBVIOUS
  <2>2. PICK x \in B : \A m \in B : x \in D[m] => m = x
    <3>1. B \subseteq Nodes
      BY <1>0
    <3> HIDE DEF B
    <3> QED BY <2>1, <3>1, Highest
  <2>3. x \in Nodes /\ x \in Inside(t, D) /\ x \notin K
    BY <1>0
  <2>4. x # t.root
    BY <1>0, <1>4, <2>3, LinkNode
  <2>5. t.parent[x] # Nil /\ t.parent[x] \in Inside(t, D) /\ t.parent[x] \in Nodes
    BY <1>0, <2>3, <2>4, InsideLinked
  <2>6. PICK s \in Sides : t.kid[t.parent[x]][s] = x
    BY <2>3, <2>5 DEF Shape, Linked
  <2>7. x \in D[t.parent[x]] /\ t.parent[x] # x
    BY <2>3, <2>5, <2>6, KidBelow, LinkNode
  <2>8. t.parent[x] \in K
    BY <2>2, <2>5, <2>7
  <2>9. x \in KidsOf(t)[t.parent[x]]
    BY <2>5, <2>6 DEF KidsOf
  <2> QED BY <1>4, <2>3, <2>8, <2>9, LinkNode DEF Closed
<1> QED BY <1>0, <1>1, <1>2, <1>3, <1>4, ReachedLeast

\* What is reached from a node upwards are the nodes it is below.
LEMMA ReachedUp ==
  ASSUME NEW t, NEW D, Shape(t, D), NEW n \in Nodes
  PROVE  Reached({n}, ParentOf(t)) = {m \in Nodes : n \in D[m]}
<1> DEFINE X == {m \in Nodes : n \in D[m]}
<1>0. t \in TreeType /\ {n} \ {Nil} = {n}
  BY LinkNode DEF Shape
<1>1. ParentOf(t) \in [Nodes -> SUBSET Link] /\ {n} \in SUBSET Link
  BY <1>0, TreeLinks, LinkNode DEF ParentOf, Sides
<1>2. {n} \ {Nil} \subseteq X
  BY <1>0, BelowNodes DEF Sides
<1>3. Closed(ParentOf(t), X)
  <2>1. SUFFICES ASSUME NEW m \in X, t.parent[m] # Nil PROVE t.parent[m] \in X
    BY DEF Closed, ParentOf
  <2>2. t.parent[m] \in Nodes
    BY <1>0, <2>1, TreeLinks, LinkNode DEF Sides
  <2>3. PICK s \in Sides : t.kid[t.parent[m]][s] = m
    BY <2>1 DEF Shape, Linked
  <2> QED BY <2>2, <2>3, KidBelow, LinkNode
<1>4. ASSUME NEW K \in SUBSET Nodes, {n} \ {Nil} \subseteq K, Closed(ParentOf(t), K)
      PROVE  X \subseteq K
  <2> DEFINE B == {x \in X : x \notin K}
  <2>1. SUFFICES ASSUME B # {} PROVE FALSE
    OBVIOUS
  <2>2. PICK x \in B : \A m \in B : ~(D[m] \subseteq D[x] /\ x \notin D[m])
    <3>1. B \subseteq Nodes
      OBVIOUS
    <3> HIDE DEF B
    <3> QED BY <2>1, <3>1, Lowest
  <2>3. x \in Nodes /\ n \in D[x] /\ x \notin K /\ x # n
    BY <1>0, <1>4
  <2>4. PICK s \in Sides : n \in Below(t, D, x, s)
    BY <2>3, BelowNodes, OtherSide DEF Sides
  <2>5. t.kid[x][s] # Nil /\ n \in D[t.kid[x][s]]
    BY <2>4 DEF Below, Sub
  <2>6. t.kid[x][s] \in K
    BY <2>2, <2>3, <2>5, KidBelow
  <2>7. x \in ParentOf(t)[t.kid[x][s]]
    BY <2>3, <2>5, KidBelow DEF ParentOf
  <2> QED BY <1>4, <2>3, <2>6, <2>7, LinkNode DEF Closed
<1> HIDE DEF X
<1> QED BY <1>0, <1>1, <1>2, <1>3, <1>4, ReachedLeast DEF X
-----------------------------------------------------------------------------
(* The walks along one link from each node.                                *)

\* A function that follows next to where it ends.
Follows(f, next, last) ==
    f = [n \in Nodes |-> IF next[n] = Nil THEN last[n] ELSE f[next[n]]]

\* The nodes on the way,
Path(next, n) == Reach([m \in Nodes |-> {next[m]}], {n})

\* and the last one.
Ends(next, n) == {e \in Path(next, n) : next[e] = Nil}

\* The member of a set of one.
Finish(S) == CHOOSE e : e \in S

\* The way from a node is the node and the way from the next one.
LEMMA PathStep ==
  ASSUME NEW next \in [Nodes -> Link], NEW n \in Nodes
  PROVE  /\ next[n] = Nil => Path(next, n) = {n}
         /\ next[n] # Nil => next[n] \in Nodes /\ Path(next, n) = {n} \cup Path(next, next[n])
<1> DEFINE nx == [m \in Nodes |-> {next[m]}]
           Shut(K) == \A y \in K : next[y] # Nil => next[y] \in K
<1>0. \A K \in SUBSET Nodes : Closed(nx, K) <=> Shut(K)
  BY DEF Closed
<1>1. \A m \in Nodes : \A x \in Nodes :
        x \in Path(next, m) <=> \A K \in SUBSET Nodes : m \in K /\ Shut(K) => x \in K
  <2>1. \A m \in Nodes : Path(next, m) = Reach(nx, {m})
    BY DEF Path
  <2> HIDE DEF nx, Shut
  <2>2. \A m \in Nodes : \A x \in Nodes :
        x \in Reach(nx, {m}) <=> \A K \in SUBSET Nodes : m \in K /\ Closed(nx, K) => x \in K
    BY DEF Reach
  <2>3. SUFFICES ASSUME NEW m \in Nodes, NEW x \in Nodes
                 PROVE  x \in Path(next, m)
                        <=> \A K \in SUBSET Nodes : m \in K /\ Shut(K) => x \in K
    BY Zenon
  <2>4. x \in Path(next, m) <=> \A K \in SUBSET Nodes : m \in K /\ Closed(nx, K) => x \in K
    <3>1. Path(next, m) = Reach(nx, {m})
      BY <2>1
    <3>2. x \in Reach(nx, {m}) <=> \A K \in SUBSET Nodes : m \in K /\ Closed(nx, K) => x \in K
      BY <2>2
    <3> QED BY <3>1, <3>2, Zenon
  <2>5. \A K \in SUBSET Nodes : Closed(nx, K) <=> Shut(K)
    BY <1>0
  <2> QED BY <2>4, <2>5, Zenon
<1>2. \A m \in Nodes : Path(next, m) \in SUBSET Nodes
  BY DEF Path, Reach
<1> HIDE DEF nx
<1>3. ASSUME next[n] = Nil PROVE Path(next, n) = {n}
  <2>1. n \in Path(next, n)
    BY <1>1
  <2>2. ASSUME NEW x \in Path(next, n) PROVE x \in {n}
    <3>1. {n} \in SUBSET Nodes /\ \A y \in {n} : next[y] # Nil => next[y] \in {n}
      BY <1>3
    <3> QED BY <1>1, <1>2, <2>2, <3>1
  <2> QED BY <2>1, <2>2
<1>4. ASSUME next[n] # Nil
      PROVE  next[n] \in Nodes /\ Path(next, n) = {n} \cup Path(next, next[n])
  <2>1. next[n] \in Nodes
    BY <1>4 DEF Link
  <2> DEFINE P == {n} \cup Path(next, next[n])
  <2>2. ASSUME NEW x \in P PROVE x \in Path(next, n)
    BY <1>1, <1>2, <1>4, <2>1, <2>2
  <2>3. ASSUME NEW x \in Path(next, n) PROVE x \in P
    <3>1. P \in SUBSET Nodes /\ n \in P
      BY <1>2, <2>1
    <3>2. ASSUME NEW y \in P, next[y] # Nil PROVE next[y] \in P
      <4>1. next[y] \in Nodes
        BY <3>1, <3>2 DEF Link
      <4>2. next[n] \in Path(next, next[n])
        BY <1>1, <2>1
      <4>3. y \in Path(next, next[n]) => next[y] \in Path(next, next[n])
        BY <1>1, <2>1, <3>1, <3>2, <4>1
      <4> QED BY <3>2, <4>2, <4>3
    <3> HIDE DEF P
    <3> QED BY <1>1, <1>2, <2>3, <3>1, <3>2
  <2> QED BY <2>1, <2>2, <2>3
<1> QED BY <1>3, <1>4

\* Such a function exists, whatever the links are: a way that does not end has no end.
LEMMA FollowExists ==
  ASSUME NEW next \in [Nodes -> Link], NEW last
  PROVE  \E f : Follows(f, next, last)
<1> DEFINE f == [n \in Nodes |-> last[Finish(Ends(next, n))]]
<1>1. ASSUME NEW n \in Nodes
      PROVE  f[n] = IF next[n] = Nil THEN last[n] ELSE f[next[n]]
  <2>1. CASE next[n] = Nil
    <3>1. Ends(next, n) = {n}
      BY <2>1, PathStep DEF Ends
    <3>2. Finish({n}) = n
      BY DEF Finish
    <3> QED BY <2>1, <3>1, <3>2
  <2>2. CASE next[n] # Nil
    <3>1. next[n] \in Nodes /\ Ends(next, n) = Ends(next, next[n])
      BY <2>2, PathStep DEF Ends
    <3> QED BY <2>2, <3>1
  <2> QED BY <2>1, <2>2
<1>2. f = [n \in Nodes |-> IF next[n] = Nil THEN last[n] ELSE f[next[n]]]
  <2> DEFINE q == [n \in Nodes |-> IF next[n] = Nil THEN last[n] ELSE f[next[n]]]
  <2>1. \A n \in Nodes : f[n] = q[n]
    BY <1>1
  <2>2. DOMAIN f = Nodes /\ DOMAIN q = Nodes
    OBVIOUS
  <2>3. f = [n \in Nodes |-> f[n]] /\ q = [n \in Nodes |-> q[n]]
    OBVIOUS
  <2> HIDE DEF f, q
  <2>4. [n \in Nodes |-> f[n]] = [n \in Nodes |-> q[n]]
    BY <2>1
  <2>5. f = q
    BY <2>3, <2>4
  <2> QED BY <2>5 DEF q
<1> QED
  <2> HIDE DEF f
  <2> QED BY <1>2 DEF Follows

\* Every step down a tree comes nearer to an end, and so does every step up:
\* where next leads down or up a property of the end holds for all, if it holds
\* where it ends.
LEMMA FollowDown ==
  ASSUME NEW t, NEW D, Shape(t, D), NEW next \in [Nodes -> Link], NEW B, B \subseteq Nodes,
         \A n \in Nodes : next[n] # Nil => \E s \in Sides : next[n] = t.kid[n][s],
         \A n \in B : next[n] # Nil /\ next[n] \in B
  PROVE  B = {}
<1>1. SUFFICES ASSUME B # {} PROVE FALSE
  OBVIOUS
<1>2. PICK n \in B : \A m \in B : ~(D[m] \subseteq D[n] /\ n \notin D[m])
  BY <1>1, Lowest
<1>3. PICK s \in Sides : next[n] = t.kid[n][s]
  OBVIOUS
<1> QED BY <1>2, <1>3, KidBelow

\* No nodes go up for ever, so there is no set of nodes where each leads up to one of it.
LEMMA FollowUp ==
  ASSUME NEW t, NEW D, Shape(t, D), NEW next \in [Nodes -> Link], NEW B, B \subseteq Nodes,
         \A n \in Nodes : next[n] # Nil => next[n] = t.parent[n],
         \A n \in B : next[n] # Nil /\ next[n] \in B
  PROVE  B = {}
<1>1. SUFFICES ASSUME B # {} PROVE FALSE
  OBVIOUS
<1>2. PICK n \in B : \A m \in B : n \in D[m] => m = n
  <2> HIDE DEF Shape
  <2> QED BY <1>1, Highest
<1>3. t.parent[n] \in Nodes /\ t.parent[n] \in B /\ t.parent[n] # Nil
  BY DEF Link
<1>4. PICK s \in Sides : t.kid[t.parent[n]][s] = n
  BY <1>3 DEF Shape, Linked
<1> QED BY <1>2, <1>3, <1>4, KidBelow, LinkNode

-----------------------------------------------------------------------------
(* The end of the tree below a node.                                       *)

\* The function of End.
IsEnd(f, t, s) ==
    f = [m \in Nodes |-> IF t.kid[m][s] = Nil THEN m ELSE f[t.kid[m][s]]]

\* End chooses it,
LEMMA EndChosen ==
  ASSUME NEW t, NEW n, NEW s
  PROVE  End(t, n, s) = (CHOOSE f : IsEnd(f, t, s))[n]
  BY DEF End, IsEnd

\* it exists,
LEMMA EndExists ==
  ASSUME NEW t \in TreeType, NEW s \in Sides
  PROVE  \E f : IsEnd(f, t, s)
<1> DEFINE next == [m \in Nodes |-> t.kid[m][s]]
           last == [m \in Nodes |-> m]
<1>1. next \in [Nodes -> Link]
  BY TreeLinks
<1>2. PICK f : Follows(f, next, last)
  <2> HIDE DEF next, last
  <2> QED BY <1>1, FollowExists
<1>3. f = [m \in Nodes |-> IF next[m] = Nil THEN last[m] ELSE f[next[m]]]
  <2> HIDE DEF next, last
  <2> QED BY <1>2 DEF Follows
<1>4. f = [m \in Nodes |-> IF t.kid[m][s] = Nil THEN m ELSE f[t.kid[m][s]]]
  BY <1>3
<1> QED BY <1>4 DEF IsEnd

\* e ends the tree below n on side s: nothing is beyond it there.
EndOf(t, D, n, s, e) ==
    /\ e \in D[n] /\ t.kid[e][s] = Nil
    /\ \A m \in D[n] : m = e \/ Beyond(m, s, e)
    /\ e # n => t.parent[e] # Nil /\ t.kid[t.parent[e]][s] = e

\* and it leads to the outermost node below n on side s.
LEMMA EndIs ==
  ASSUME NEW t, NEW D, Shape(t, D), NEW n \in Nodes, NEW s \in Sides
  PROVE  EndOf(t, D, n, s, End(t, n, s))
<1>0. t \in TreeType
  BY DEF Shape
<1> DEFINE f == CHOOSE g : IsEnd(g, t, s)
           B == {m \in Nodes : ~EndOf(t, D, m, s, f[m])}
           next == [m \in Nodes |-> t.kid[m][s]]
<1>1. IsEnd(f, t, s)
  BY <1>0, EndExists
<1>2. \A m \in Nodes : f[m] = IF t.kid[m][s] = Nil THEN m ELSE f[t.kid[m][s]]
  <2> HIDE DEF f
  <2> QED BY <1>1 DEF IsEnd
<1> HIDE DEF f
<1>3. ASSUME NEW m \in B PROVE t.kid[m][s] # Nil /\ t.kid[m][s] \in B
  <2>0. m \in Nodes /\ ~EndOf(t, D, m, s, f[m])
    OBVIOUS
  <2>1. CASE t.kid[m][s] = Nil
    <3>1. f[m] = m
      BY <1>2, <2>0, <2>1
    <3>2. \A x \in D[m] : x = m \/ x \in Below(t, D, m, Other(s))
      BY <2>0, <2>1, BelowNodes DEF Below, Sub
    <3>3. \A x \in Below(t, D, m, Other(s)) : Beyond(x, s, m)
      BY <2>0, OtherSide, BeyondTurn DEF Shape, Sorted
    <3> QED BY <2>0, <2>1, <3>1, <3>2, <3>3, BelowNodes DEF EndOf
  <2>2. CASE t.kid[m][s] # Nil /\ t.kid[m][s] \notin B
    <3> DEFINE k == t.kid[m][s]
               e == f[k]
    <3>1. f[m] = e /\ k \in Nodes /\ EndOf(t, D, k, s, e)
      BY <1>2, <2>0, <2>2, KidBelow
    <3>2. k # Nil /\ Below(t, D, m, s) = D[k] /\ D[k] \subseteq D[m] /\ t.parent[k] = m /\ m \notin D[k]
      BY <2>0, <2>2, KidBelow
    <3>3. e \in D[k] /\ t.kid[e][s] = Nil /\ e \in Below(t, D, m, s) /\ e # m /\ e \in Nodes
      BY <3>1, <3>2, <2>0, BelowNodes DEF EndOf
    <3>4. Beyond(m, s, e)
      BY <2>0, <3>3 DEF Shape, Sorted
    <3>5. ASSUME NEW x \in D[m] PROVE x = e \/ Beyond(x, s, e)
      <4>1. CASE x = m
        BY <4>1, <3>4
      <4>2. CASE x \in Below(t, D, m, s)
        BY <4>2, <3>1, <3>2 DEF EndOf
      <4>3. CASE x \in Below(t, D, m, Other(s))
        <5>1. Beyond(x, s, m) /\ x \in Nodes
          BY <2>0, <4>3, OtherSide, BelowNodes, BeyondTurn DEF Shape, Sorted
        <5> QED BY <2>0, <5>1, <3>3, <3>4, BeyondChain
      <4> QED BY <2>0, <4>1, <4>2, <4>3, BelowNodes
    <3>6. t.parent[e] # Nil /\ t.kid[t.parent[e]][s] = e
      <4>1. CASE e = k
        BY <4>1, <3>2, <2>0, LinkNode
      <4>2. CASE e # k
        BY <4>2, <3>1 DEF EndOf
      <4> QED BY <4>1, <4>2
    <3>7. EndOf(t, D, m, s, e)
      <4> HIDE DEF e, k
      <4> QED BY <3>2, <3>3, <3>5, <3>6 DEF EndOf
    <3> QED BY <2>0, <3>1, <3>7
  <2> QED BY <2>1, <2>2
<1>4. B = {}
  <2>1. next \in [Nodes -> Link] /\ B \subseteq Nodes
    BY <1>0, TreeLinks
  <2>2. \A m \in Nodes : next[m] # Nil => \E x \in Sides : next[m] = t.kid[m][x]
    OBVIOUS
  <2>3. \A m \in B : next[m] # Nil /\ next[m] \in B
    BY <1>3
  <2> HIDE DEF B, next
  <2> QED BY <2>1, <2>2, <2>3, FollowDown
<1> QED BY <1>4, EndChosen DEF f

-----------------------------------------------------------------------------
(* The search.                                                             *)

\* The function of SearchEnd, and the link it follows.
IsGo(f, t, name) ==
    f = [n \in Nodes |->
          IF \/ Compare(NameOf[n], name) = 0
             \/ t.kid[n][Way(n, name)] = Nil
          THEN n
          ELSE f[t.kid[n][Way(n, name)]]]

\* SearchEnd chooses it.
LEMMA GoChosen ==
  ASSUME NEW t, NEW name
  PROVE  SearchEnd(t, name) = IF t.root = Nil THEN Nil ELSE (CHOOSE f : IsGo(f, t, name))[t.root]
  BY DEF SearchEnd, IsGo

\* The link that the search follows, null where it stops.
GoNext(t, name) ==
    [n \in Nodes |-> IF Compare(NameOf[n], name) = 0 THEN Nil ELSE t.kid[n][Way(n, name)]]

\* The search turns left or right.
LEMMA WaySide ==
  ASSUME NEW n, NEW name
  PROVE  Way(n, name) \in Sides
  BY DEF Way, Sides

\* The function exists,
LEMMA GoExists ==
  ASSUME NEW t \in TreeType, NEW name
  PROVE  \E f : IsGo(f, t, name)
<1> DEFINE next == GoNext(t, name)
           last == [n \in Nodes |-> n]
<1>1. next \in [Nodes -> Link]
  BY TreeLinks, WaySide, LinkNode DEF GoNext
<1>2. PICK f : Follows(f, next, last)
  <2> HIDE DEF next, last
  <2> QED BY <1>1, FollowExists
<1>3. f = [n \in Nodes |-> IF next[n] = Nil THEN last[n] ELSE f[next[n]]]
  <2> HIDE DEF next, last
  <2> QED BY <1>2 DEF Follows
<1>4. f = [n \in Nodes |->
             IF Compare(NameOf[n], name) = 0 \/ t.kid[n][Way(n, name)] = Nil
             THEN n ELSE f[t.kid[n][Way(n, name)]]]
  <2>1. ASSUME NEW n \in Nodes
        PROVE  (IF next[n] = Nil THEN last[n] ELSE f[next[n]])
               = IF Compare(NameOf[n], name) = 0 \/ t.kid[n][Way(n, name)] = Nil
                 THEN n ELSE f[t.kid[n][Way(n, name)]]
    BY DEF GoNext
  <2> HIDE DEF next, last
  <2> QED BY <1>3, <2>1
<1> QED BY <1>4 DEF IsGo

\* The search for a name ends at e: on the way to it every node has another
\* name, and has e on the side where the name belongs.
SearchedTo(t, D, n, name, e) ==
    /\ e \in D[n]
    /\ NameOf[e] = name \/ t.kid[e][Way(e, name)] = Nil
    /\ \A a \in D[n] : \A s \in Sides :
         e \in Below(t, D, a, s) => NameOf[a] # name /\ s = Way(a, name)
    /\ \A a \in D[n] : NameOf[a] = name => a = e

\* and the search ends where the name is, or where it would have to be linked.
LEMMA GoIs ==
  ASSUME NEW t, NEW D, Shape(t, D), NEW n \in Nodes, NEW name \in Seq(0 .. 255),
         NEW f, IsGo(f, t, name)
  PROVE  SearchedTo(t, D, n, name, f[n])
<1>0. t \in TreeType
  BY DEF Shape
<1> DEFINE B == {m \in Nodes : ~SearchedTo(t, D, m, name, f[m])}
           next == GoNext(t, name)
<1>1. \A m \in Nodes : next[m] = IF NameOf[m] = name THEN Nil ELSE t.kid[m][Way(m, name)]
  BY NameSeq, CompareOrder DEF GoNext
<1>2. \A m \in Nodes : f[m] = IF next[m] = Nil THEN m ELSE f[next[m]]
  <2>1. \A m \in Nodes : f[m] = IF Compare(NameOf[m], name) = 0 \/ t.kid[m][Way(m, name)] = Nil
             THEN m ELSE f[t.kid[m][Way(m, name)]]
    BY DEF IsGo
  <2>2. \A m \in Nodes : Compare(NameOf[m], name) = 0 <=> NameOf[m] = name
    BY NameSeq, CompareOrder
  <2> HIDE DEF next
  <2> QED BY <1>1, <2>1, <2>2
<1> HIDE DEF next
<1>3. ASSUME NEW m \in B PROVE next[m] # Nil /\ next[m] \in B
  <2>0. m \in Nodes /\ ~SearchedTo(t, D, m, name, f[m])
    OBVIOUS
  <2>1. CASE next[m] = Nil
    <3>1. f[m] = m /\ m \in D[m]
      BY <1>2, <2>0, <2>1, BelowNodes DEF Sides
    <3>2. NameOf[m] = name \/ t.kid[m][Way(m, name)] = Nil
      BY <1>1, <2>0, <2>1
    <3>3. \A a \in D[m] : \A s \in Sides : m \notin Below(t, D, a, s)
      BY <2>0, NestedBelow, BelowNodes DEF Sides
    <3>4. ASSUME NEW a \in D[m], NameOf[a] = name PROVE a = m
      <4>1. SUFFICES ASSUME a # m PROVE FALSE
        OBVIOUS
      <4>2. a \in Nodes
        BY <2>0, BelowNodes DEF Sides
      <4>3. PICK s \in Sides : a \in Below(t, D, m, s)
        BY <2>0, <4>1, BelowNodes, OtherSide DEF Sides
      <4>4. Beyond(m, s, a)
        BY <2>0, <4>3 DEF Shape, Sorted
      <4>5. NameOf[m] # name
        BY <2>0, <4>2, <4>4, <3>4, BeyondOne
      <4>6. Toward(m, Way(m, name), name) /\ Way(m, name) \in Sides
        BY <2>0, <4>5, TowardWay
      <4>7. Toward(m, s, name)
        BY <2>0, <4>2, <4>4, <3>4 DEF Beyond
      <4>8. s = Way(m, name)
        BY <2>0, <4>6, <4>7, TowardOne, OtherSide
      <4> QED BY <3>2, <4>5, <4>8, <4>3 DEF Below, Sub
    <3> HIDE DEF B
    <3> QED BY <2>0, <3>1, <3>2, <3>3, <3>4 DEF SearchedTo
  <2>2. CASE next[m] # Nil /\ next[m] \notin B
    <3> DEFINE w == Way(m, name)
               k == t.kid[m][w]
               e == f[k]
    <3>1. next[m] = k /\ NameOf[m] # name /\ w \in Sides /\ k # Nil
      BY <1>1, <2>0, <2>2, WaySide
    <3>2. f[m] = e /\ k \in Nodes /\ SearchedTo(t, D, k, name, e)
      BY <1>2, <2>0, <2>2, <3>1, KidBelow
    <3>3. Below(t, D, m, w) = D[k] /\ D[k] \subseteq D[m]
      BY <2>0, <3>1, KidBelow
    <3>4. Toward(m, w, name)
      BY <2>0, <3>1, TowardWay
    <3> HIDE DEF e, k, w, B
    <3>5. e \in D[k] /\ e \in Below(t, D, m, w) /\ e # m
      BY <3>1, <3>2, <3>3, <2>0, BelowNodes DEF SearchedTo
    <3>6. ASSUME NEW a \in D[m], NEW s \in Sides, e \in Below(t, D, a, s)
          PROVE  NameOf[a] # name /\ s = Way(a, name)
      <4>0. a \in Nodes
        BY <2>0, BelowNodes DEF Sides
      <4>1. CASE a = m
        BY <4>1, <2>0, <3>1, <3>5, <3>6, BelowNodes, OtherSide DEF w
      <4>2. CASE a \in Below(t, D, m, w)
        BY <4>2, <3>2, <3>3, <3>6 DEF SearchedTo
      <4>3. CASE a \in Below(t, D, m, Other(w))
        <5>1. D[a] \subseteq Below(t, D, m, Other(w))
          BY <2>0, <3>1, <4>3, OtherSide, NestedBelow
        <5>2. e \in D[a]
          BY <4>0, <3>6, BelowNodes
        <5> QED BY <2>0, <3>1, <3>5, <5>1, <5>2, BelowNodes
      <4> QED BY <2>0, <3>1, <4>1, <4>2, <4>3, BelowNodes
    <3>7. ASSUME NEW a \in D[m], NameOf[a] = name PROVE a = e
      <4>0. a \in Nodes
        BY <2>0, BelowNodes DEF Sides
      <4>1. a # m
        BY <3>1, <3>7
      <4>2. CASE a \in Below(t, D, m, w)
        BY <4>2, <3>2, <3>3, <3>7 DEF SearchedTo
      <4>3. CASE a \in Below(t, D, m, Other(w))
        <5>1. Beyond(m, Other(w), a)
          BY <2>0, <3>1, <4>3, OtherSide DEF Shape, Sorted
        <5>2. Toward(m, Other(w), name)
          BY <2>0, <3>1, <4>0, <5>1, <3>7, OtherSide DEF Beyond
        <5> QED BY <2>0, <3>1, <3>4, <5>2, TowardOne
      <4> QED BY <2>0, <3>1, <4>1, <4>2, <4>3, BelowNodes
    <3>8. NameOf[e] = name \/ t.kid[e][Way(e, name)] = Nil
      BY <3>2 DEF SearchedTo
    <3>9. SearchedTo(t, D, m, name, e)
      BY <3>3, <3>5, <3>6, <3>7, <3>8 DEF SearchedTo
    <3> QED BY <2>0, <3>2, <3>9
  <2> QED BY <2>1, <2>2
<1>4. B = {}
  <2>1. next \in [Nodes -> Link] /\ B \subseteq Nodes
    BY <1>0, TreeLinks, WaySide, LinkNode DEF next, GoNext
  <2>2. \A m \in Nodes : next[m] # Nil => \E s \in Sides : next[m] = t.kid[m][s]
    BY <1>1, WaySide
  <2>3. \A m \in B : next[m] # Nil /\ next[m] \in B
    BY <1>3
  <2> HIDE DEF B
  <2> QED BY SMTT(20), <2>1, <2>2, <2>3, FollowDown
<1> QED BY <1>4

\* Where the search ends, and that a node of the name is found.
LEMMA SearchIs ==
  ASSUME NEW t, NEW D, Shape(t, D), NEW name \in Seq(0 .. 255)
  PROVE  /\ t.root = Nil => SearchEnd(t, name) = Nil
         /\ t.root # Nil => SearchedTo(t, D, t.root, name, SearchEnd(t, name))
<1>0. t \in TreeType
  BY DEF Shape
<1> DEFINE f == CHOOSE g : IsGo(g, t, name)
<1>1. IsGo(f, t, name)
  BY <1>0, GoExists
<1>2. SearchEnd(t, name) = IF t.root = Nil THEN Nil ELSE f[t.root]
  BY GoChosen
<1>3. t.root # Nil => t.root \in Nodes
  BY <1>0, LinkNode DEF TreeType
<1> HIDE DEF f
<1> QED BY <1>1, <1>2, <1>3, GoIs

-----------------------------------------------------------------------------
(* A rotation.                                                             *)

\* u is t after the child of p on side s was pulled over p.
IsRot(t, u, p, s) ==
    LET c == t.kid[p][s]
        i == t.kid[c][Other(s)]
    IN  /\ u.root = IF t.root = p THEN c ELSE t.root
        /\ \A n \in Nodes : \A x \in Sides :
             u.kid[n][x] = IF n = p /\ x = s THEN i
                           ELSE IF n = c /\ x = Other(s) THEN p
                           ELSE IF t.kid[n][x] = p THEN c ELSE t.kid[n][x]
        /\ \A n \in Nodes :
             u.parent[n] = IF n = c THEN t.parent[p] ELSE IF n = p THEN c
                           ELSE IF n = i THEN p ELSE t.parent[n]

\* What is below a node after a rotation.
RotBelow(t, D, p, s) ==
    LET c == t.kid[p][s]
    IN  [D EXCEPT ![p] = {p} \cup Below(t, D, c, Other(s)) \cup Below(t, D, p, Other(s)),
                  ![c] = D[p]]

\* The nodes a rotation moves are different ones and hang together as the code expects.
LEMMA RotNodes ==
  ASSUME NEW t, NEW D, Shape(t, D), NEW p \in Nodes, NEW s \in Sides,
         NEW c, c = t.kid[p][s], c # Nil,
         NEW i, i = t.kid[c][Other(s)],
         NEW o, o = t.kid[p][Other(s)],
         NEW q, q = t.kid[c][s]
  PROVE  /\ c \in Nodes /\ c # p /\ t.parent[c] = p /\ D[c] = Below(t, D, p, s)
         /\ i # Nil => i \in Nodes /\ t.parent[i] = c /\ i # p /\ i # c
         /\ o # Nil => o \in Nodes /\ t.parent[o] = p /\ o # p /\ o # c
         /\ q # Nil => q \in Nodes /\ t.parent[q] = c /\ q # p /\ q # c /\ q # i
         /\ p # Nil /\ p \in Inside(t, D) /\ c \in Inside(t, D)
         /\ t.parent[p] # p /\ t.parent[p] # c
         /\ t.parent[p] = Nil <=> t.root = p
         /\ t.root # c /\ t.root # i
<1>1. c \in Nodes /\ c # p /\ t.parent[c] = p /\ D[c] = Below(t, D, p, s) /\ D[c] \subseteq D[p] /\ p \notin D[c]
  BY KidBelow
<1>2. p # Nil /\ c # Nil /\ p \in Inside(t, D) /\ c \in Inside(t, D)
  BY InsideLinked, LinkNode
<1>3. i # Nil => i \in Nodes /\ t.parent[i] = c /\ i # c /\ i \in D[c]
  BY <1>1, KidBelow, OtherSide
<1>4. o # Nil => o \in Nodes /\ t.parent[o] = p /\ o # p /\ o # c
  BY KidBelow, OtherSide
<1>5. q # Nil => q \in Nodes /\ t.parent[q] = c /\ q # c /\ q # i /\ q \in D[c]
  BY <1>1, KidBelow
<1>6. t.parent[p] = Nil <=> t.root = p
  BY <1>2, InsideLinked
<1>7. t.parent[p] # p /\ t.parent[p] # c
  <2>1. ASSUME t.parent[p] \in {p, c} PROVE FALSE
    <3>1. t.parent[p] # Nil /\ t.parent[p] \in Nodes
      BY <1>1, <1>2, <2>1
    <3>2. PICK x \in Sides : t.kid[t.parent[p]][x] = p
      BY <3>1 DEF Shape, Linked
    <3>3. p # t.parent[p] /\ t.parent[p] \notin D[p]
      BY <3>1, <3>2, <1>2, KidBelow
    <3>4. p \in D[p] /\ c \in D[p]
      BY <1>1, BelowNodes
    <3> QED BY <2>1, <3>3, <3>4
  <2> QED BY <2>1
<1>8. t.root # c /\ t.root # i
  <2>1. t.root # Nil /\ t.parent[t.root] = Nil
    BY <1>2, InsideLinked, LinkNode DEF Shape, Linked
  <2> QED BY <1>1, <1>2, <1>3, <2>1, LinkNode
<1> QED BY <1>1, <1>2, <1>3, <1>4, <1>5, <1>6, <1>7, <1>8

\* A rotation keeps a search tree and its nodes.
LEMMA RotShape ==
  ASSUME NEW t, NEW D, Shape(t, D), NEW p \in Nodes, NEW s \in Sides, t.kid[p][s] # Nil,
         NEW u \in TreeType, IsRot(t, u, p, s)
  PROVE  Shape(u, RotBelow(t, D, p, s)) /\ Inside(u, RotBelow(t, D, p, s)) = Inside(t, D)
<1> DEFINE c == t.kid[p][s]
           z == Other(s)
           i == t.kid[c][z]
           o == t.kid[p][z]
           q == t.kid[c][s]
           E == RotBelow(t, D, p, s)
<1>0. t \in TreeType /\ D \in [Nodes -> SUBSET Nodes] /\ z \in Sides /\ z # s /\ Other(z) = s
  BY OtherSide DEF Shape, Spread
<1>1. /\ c \in Nodes /\ c # p /\ t.parent[c] = p /\ D[c] = Below(t, D, p, s)
      /\ i # Nil => i \in Nodes /\ t.parent[i] = c /\ i # p /\ i # c
      /\ o # Nil => o \in Nodes /\ t.parent[o] = p /\ o # p /\ o # c
      /\ q # Nil => q \in Nodes /\ t.parent[q] = c /\ q # p /\ q # c /\ q # i
      /\ p # Nil /\ p \in Inside(t, D) /\ c \in Inside(t, D)
      /\ t.parent[p] # p /\ t.parent[p] # c
      /\ t.parent[p] = Nil <=> t.root = p
      /\ t.root # c /\ t.root # i
  BY RotNodes
<1>2. E \in [Nodes -> SUBSET Nodes]
  BY <1>0, <1>1, BelowNodes DEF RotBelow
<1>3. /\ E[p] = {p} \cup Below(t, D, c, z) \cup Below(t, D, p, z)
      /\ E[c] = D[p]
      /\ \A n \in Nodes : n # p /\ n # c => E[n] = D[n]
  BY <1>0, <1>1 DEF RotBelow
<1>4. /\ u.root = IF t.root = p THEN c ELSE t.root
      /\ \A n \in Nodes : \A x \in Sides :
             u.kid[n][x] = IF n = p /\ x = s THEN i
                           ELSE IF n = c /\ x = z THEN p
                           ELSE IF t.kid[n][x] = p THEN c ELSE t.kid[n][x]
      /\ \A n \in Nodes :
             u.parent[n] = IF n = c THEN t.parent[p] ELSE IF n = p THEN c
                           ELSE IF n = i THEN p ELSE t.parent[n]
  BY DEF IsRot
<1>5. /\ u.kid[p][s] = i /\ u.kid[p][z] = o /\ u.kid[c][s] = q /\ u.kid[c][z] = p
  BY <1>0, <1>1, <1>4
<1>6. ASSUME NEW n \in Nodes, NEW x \in Sides, n # p, n # c
      PROVE  /\ u.kid[n][x] = IF t.kid[n][x] = p THEN c ELSE t.kid[n][x]
             /\ t.kid[n][x] # c /\ Below(u, E, n, x) = Below(t, D, n, x)
  <2>1. u.kid[n][x] = IF t.kid[n][x] = p THEN c ELSE t.kid[n][x]
    BY <1>4, <1>6
  <2>2. t.kid[n][x] # c
    BY <1>1, <1>6 DEF Shape, Linked
  <2>3. t.kid[n][x] = Nil \/ t.kid[n][x] \in Nodes
    BY <1>0, TreeLinks, LinkNode
  <2> QED BY <2>1, <2>2, <2>3, <1>1, <1>3, LinkNode DEF Below, Sub
<1>7. /\ Below(u, E, p, s) = Below(t, D, c, z)
      /\ Below(u, E, p, z) = Below(t, D, p, z)
      /\ Below(u, E, c, s) = Below(t, D, c, s)
      /\ Below(u, E, c, z) = E[p]
  BY <1>1, <1>3, <1>5 DEF Below, Sub
<1> HIDE DEF c, z, i, o, q, E
<1>8. Linked(u)
  <2>1. u.root # Nil => u.parent[u.root] = Nil
    <3>1. t.root # Nil => t.parent[t.root] = Nil /\ t.root \in Nodes
      BY <1>0, LinkNode DEF Shape, Linked, TreeType
    <3> QED BY <1>1, <1>4, <3>1
  <2>2. ASSUME NEW n \in Nodes, NEW x \in Sides, u.kid[n][x] # Nil
        PROVE  u.parent[u.kid[n][x]] = n
    <3>1. CASE n = p
      BY <1>0, <1>1, <1>4, <1>5, <2>2, <3>1, OtherSide
    <3>2. CASE n = c
      BY <1>0, <1>1, <1>4, <1>5, <2>2, <3>2, OtherSide
    <3>3. CASE n # p /\ n # c
      <4>1. CASE t.kid[n][x] = p
        BY <1>1, <1>4, <1>6, <3>3, <4>1 DEF Shape, Linked
      <4>2. CASE t.kid[n][x] # p
        <5>1. t.kid[n][x] \in Nodes /\ t.parent[t.kid[n][x]] = n /\ u.kid[n][x] = t.kid[n][x] /\ t.kid[n][x] # c
          BY <1>0, <1>6, <2>2, <3>3, <4>2, TreeLinks, LinkNode DEF Shape, Linked
        <5>2. t.kid[n][x] # i
          BY <1>1, <3>3, <5>1, LinkNode
        <5> QED BY <1>4, <4>2, <5>1, <5>2
      <4> QED BY <4>1, <4>2
    <3> QED BY <3>1, <3>2, <3>3
  <2>3. ASSUME NEW n \in Nodes, u.parent[n] # Nil
        PROVE  \E x \in Sides : u.kid[u.parent[n]][x] = n
    <3>1. CASE n = c
      <4>1. u.parent[n] = t.parent[p] /\ t.parent[p] \in Nodes
        BY <1>0, <1>1, <1>4, <2>3, <3>1, TreeLinks, LinkNode
      <4>2. PICK x \in Sides : t.kid[t.parent[p]][x] = p
        BY <2>3, <4>1 DEF Shape, Linked
      <4> QED BY <1>1, <1>6, <3>1, <4>1, <4>2
    <3>2. CASE n = p
      BY <1>0, <1>1, <1>4, <1>5, <3>2
    <3>3. CASE n = i /\ n # c /\ n # p
      BY <1>1, <1>4, <1>5, <3>3
    <3>4. CASE n # c /\ n # p /\ n # i
      <4>1. u.parent[n] = t.parent[n] /\ t.parent[n] \in Nodes
        BY <1>0, <1>4, <2>3, <3>4, TreeLinks, LinkNode
      <4>2. PICK x \in Sides : t.kid[t.parent[n]][x] = n
        BY <2>3, <4>1 DEF Shape, Linked
      <4>3. CASE t.parent[n] = p
        BY <1>0, <1>5, <3>4, <4>1, <4>2, <4>3, OtherSide DEF c, o
      <4>4. CASE t.parent[n] = c
        BY <1>0, <1>5, <3>4, <4>1, <4>2, <4>4, OtherSide DEF i, q
      <4>5. CASE t.parent[n] # p /\ t.parent[n] # c
        BY <1>6, <3>4, <4>1, <4>2, <4>5
      <4> QED BY <4>3, <4>4, <4>5
    <3> QED BY <3>1, <3>2, <3>3, <3>4
  <2> QED BY <2>1, <2>2, <2>3 DEF Linked
<1>9. Spread(u, E)
  <2>1. ASSUME NEW n \in Nodes, NEW m \in Nodes
        PROVE  m \in E[n] <=> m = n \/ m \in Below(u, E, n, s) \/ m \in Below(u, E, n, z)
    <3>0. /\ m \in D[n] <=> m = n \/ m \in Below(t, D, n, s) \/ m \in Below(t, D, n, z)
          /\ m \in D[p] <=> m = p \/ m \in Below(t, D, p, s) \/ m \in Below(t, D, p, z)
          /\ m \in D[c] <=> m = c \/ m \in Below(t, D, c, s) \/ m \in Below(t, D, c, z)
      BY <1>0, <1>1, BelowNodes DEF z
    <3>1. CASE n = p
      BY <1>3, <1>7, <3>1
    <3>2. CASE n = c
      BY <1>1, <1>3, <1>7, <3>0, <3>2
    <3>3. CASE n # p /\ n # c
      BY <1>0, <1>3, <1>6, <3>0, <3>3
    <3> QED BY <3>1, <3>2, <3>3
  <2>2. \A x \in Sides : x = s \/ x = z
    BY OtherSide DEF z
  <2> QED BY <1>0, <1>2, <2>1, <2>2 DEF Spread
<1>10. Sorted(u, E)
  <2>0. \A n \in Nodes : \A x \in Sides : \A m \in Below(t, D, n, x) : Beyond(n, x, m)
    BY DEF Shape, Sorted
  <2>1. ASSUME NEW n \in Nodes, NEW x \in Sides, NEW m \in Below(u, E, n, x)
        PROVE  Beyond(n, x, m)
    <3>1. CASE n # p /\ n # c
      BY <1>6, <2>0, <2>1, <3>1
    <3>2. CASE n = p /\ x = s
      <4>1. m \in D[c]
        BY <1>0, <1>1, <1>7, <2>1, <3>2, BelowNodes DEF z
      <4> QED BY <1>1, <2>0, <3>2, <4>1
    <3>3. CASE n = p /\ x = z
      BY <1>0, <1>7, <2>0, <2>1, <3>3
    <3>4. CASE n = c /\ x = s
      BY <1>1, <1>7, <2>0, <2>1, <3>4
    <3>5. CASE n = c /\ x = z
      <4>1. Beyond(c, z, p)
        <5>1. Beyond(p, s, c)
          BY <1>1, <2>0, BelowNodes
        <5> QED BY <5>1, BeyondTurn DEF z
      <4>2. m = p \/ m \in Below(t, D, c, z) \/ m \in Below(t, D, p, z)
        BY <1>3, <1>7, <2>1, <3>5
      <4>3. CASE m \in Below(t, D, p, z)
        <5>1. Beyond(p, z, m) /\ m \in Nodes
          BY <1>0, <2>0, <4>3, BelowNodes
        <5> QED BY <1>0, <1>1, <3>5, <4>1, <5>1, BeyondChain
      <4> QED BY <1>0, <1>1, <2>0, <3>5, <4>1, <4>2, <4>3
    <3> QED BY <3>1, <3>2, <3>3, <3>4, <3>5, OtherSide DEF z
  <2> QED BY <2>1 DEF Sorted
<1>11. Inside(u, E) = Inside(t, D)
  <2>1. CASE t.root = p
    BY <1>1, <1>3, <1>4, <2>1, LinkNode DEF Inside, Sub
  <2>2. CASE t.root # p
    <3>1. t.root = Nil \/ t.root \in Nodes
      BY <1>0, LinkNode DEF TreeType
    <3> QED BY <1>1, <1>3, <1>4, <2>2, <3>1 DEF Inside, Sub
  <2> QED BY <2>1, <2>2
<1>12. Clean(u, E)
  <2>1. SUFFICES ASSUME NEW n \in Nodes \ Inside(t, D)
                 PROVE  u.parent[n] = Nil /\ \A x \in Sides : u.kid[n][x] = Nil
    BY <1>11 DEF Clean
  <2>2. t.parent[n] = Nil /\ \A x \in Sides : t.kid[n][x] = Nil
    BY DEF Shape, Clean
  <2>3. n # p /\ n # c /\ n # i
    BY <1>1, <2>1, <2>2, LinkNode
  <2> QED BY <1>1, <1>4, <1>6, <2>2, <2>3
<1> QED BY <1>8, <1>9, <1>10, <1>11, <1>12 DEF Shape, E

-----------------------------------------------------------------------------
(* A new leaf.                                                             *)

\* u is t with the node n linked below p on side s, or as the root.
IsLeaf(t, u, n, p, s) ==
    /\ u.root = IF p = Nil THEN n ELSE t.root
    /\ \A m \in Nodes : \A x \in Sides :
         u.kid[m][x] = IF m = n THEN Nil ELSE IF m = p /\ x = s THEN n ELSE t.kid[m][x]
    /\ \A m \in Nodes : u.parent[m] = IF m = n THEN p ELSE t.parent[m]

\* What is below a node after a leaf was added.
LeafBelow(D, n, p) ==
    [a \in Nodes |-> IF a # n /\ p \in D[a] THEN D[a] \cup {n} ELSE D[a]]

\* n may be linked there.
LeafPlace(t, D, n, p, s) ==
    /\ n \notin Inside(t, D)
    /\ p = Nil => t.root = Nil
    /\ p # Nil => /\ p \in Inside(t, D) /\ s \in Sides /\ t.kid[p][s] = Nil /\ Beyond(p, s, n)
                  /\ \A a \in Inside(t, D) : \A x \in Sides :
                       p \in Below(t, D, a, x) => Beyond(a, x, n)

\* A leaf linked where its name belongs keeps the search tree.
LEMMA LeafShape ==
  ASSUME NEW t, NEW D, Shape(t, D), NEW n \in Nodes, NEW p \in Link, NEW s,
         LeafPlace(t, D, n, p, s), NEW u \in TreeType, IsLeaf(t, u, n, p, s)
  PROVE  /\ Shape(u, LeafBelow(D, n, p))
         /\ Inside(u, LeafBelow(D, n, p)) = Inside(t, D) \cup {n}
<1> DEFINE E == LeafBelow(D, n, p)
<1>0. t \in TreeType /\ D \in [Nodes -> SUBSET Nodes] /\ n # Nil
  BY LinkNode DEF Shape, Spread
<1>1. t.parent[n] = Nil /\ (\A x \in Sides : t.kid[n][x] = Nil) /\ n \notin Inside(t, D)
  BY DEF Shape, Clean, LeafPlace
<1>2. E \in [Nodes -> SUBSET Nodes] /\ \A a \in Nodes :
        E[a] = IF a # n /\ p \in D[a] THEN D[a] \cup {n} ELSE D[a]
  BY <1>0 DEF LeafBelow
<1>3. /\ u.root = IF p = Nil THEN n ELSE t.root
      /\ \A m \in Nodes : \A x \in Sides :
           u.kid[m][x] = IF m = n THEN Nil ELSE IF m = p /\ x = s THEN n ELSE t.kid[m][x]
      /\ \A m \in Nodes : u.parent[m] = IF m = n THEN p ELSE t.parent[m]
  BY DEF IsLeaf
<1>4. \A m \in Nodes : \A x \in Sides : t.kid[m][x] # n
  BY <1>0, <1>1, InsideLinked
<1>5. D[n] = {n} /\ \A x \in Sides : Below(t, D, n, x) = {} /\ Below(u, E, n, x) = {}
  <2>1. \A x \in Sides : Below(t, D, n, x) = {} /\ Below(u, E, n, x) = {}
    BY <1>1, <1>3 DEF Below, Sub
  <2>2. n \in D[n] /\ \A m \in D[n] : m = n
    BY <2>1, BelowNodes, OtherSide DEF Sides
  <2> QED BY <2>1, <2>2
<1>6. p # Nil => /\ p \in Nodes /\ p \in Inside(t, D) /\ p # n /\ s \in Sides
                 /\ t.kid[p][s] = Nil /\ Beyond(p, s, n)
                 /\ \A a \in Inside(t, D) : \A x \in Sides : p \in Below(t, D, a, x) => Beyond(a, x, n)
  BY LinkNode DEF LeafPlace
<1>7. ASSUME NEW a \in Nodes, a # n, NEW x \in Sides
      PROVE  Below(u, E, a, x) = IF p \in Below(t, D, a, x) \/ (a = p /\ x = s)
                                 THEN Below(t, D, a, x) \cup {n} ELSE Below(t, D, a, x)
  <2>1. u.kid[a][x] = IF a = p /\ x = s THEN n ELSE t.kid[a][x]
    BY <1>3, <1>7
  <2>2. CASE a = p /\ x = s
    <3>1. Below(t, D, a, x) = {} /\ E[n] = {n} /\ u.kid[a][x] = n
      BY <1>0, <1>2, <1>5, <1>6, <2>1, <2>2, LinkNode DEF Below, Sub
    <3> QED BY <1>0, <3>1, <2>2 DEF Below, Sub
  <2>3. CASE ~(a = p /\ x = s)
    <3>1. u.kid[a][x] = t.kid[a][x] /\ t.kid[a][x] # n
      BY <2>1, <2>3, <1>4
    <3>2. t.kid[a][x] = Nil \/ t.kid[a][x] \in Nodes
      BY <1>0, TreeLinks, LinkNode
    <3> QED BY <1>2, <2>3, <3>1, <3>2 DEF Below, Sub
  <2> QED BY <2>2, <2>3
<1>8. Inside(u, E) = Inside(t, D) \cup {n}
  <2>1. CASE p = Nil
    BY <1>0, <1>2, <1>3, <1>5, <2>1 DEF Inside, Sub, LeafPlace
  <2>2. CASE p # Nil
    BY <1>1, <1>2, <1>3, <1>6, <2>2, InsideLinked DEF Inside, Sub
  <2> QED BY <2>1, <2>2
<1> HIDE DEF E
<1>9. Linked(u)
  <2>0. Linked(t)
    BY DEF Shape
  <2>1. u.root # Nil => u.parent[u.root] = Nil
    <3>1. t.root # Nil => t.root \in Nodes /\ t.root # n /\ t.parent[t.root] = Nil
      BY <1>1, <2>0, InsideLinked DEF Linked
    <3> QED BY <1>3, <3>1
  <2>2. ASSUME NEW m \in Nodes, NEW x \in Sides, u.kid[m][x] # Nil
        PROVE  u.parent[u.kid[m][x]] = m
    <3>1. t.kid[m][x] # Nil => t.kid[m][x] \in Nodes /\ t.parent[t.kid[m][x]] = m
      BY <1>0, <2>0, TreeLinks, LinkNode DEF Linked
    <3> QED BY <1>3, <1>4, <2>2, <3>1
  <2>3. ASSUME NEW m \in Nodes, u.parent[m] # Nil
        PROVE  \E x \in Sides : u.kid[u.parent[m]][x] = m
    <3>1. CASE m = n
      BY <1>3, <1>6, <2>3, <3>1
    <3>2. CASE m # n
      <4>1. u.parent[m] = t.parent[m] /\ t.parent[m] \in Nodes
        BY <1>0, <1>3, <2>3, <3>2, TreeLinks, LinkNode DEF Sides
      <4>2. PICK x \in Sides : t.kid[t.parent[m]][x] = m
        BY <2>0, <2>3, <4>1 DEF Linked
      <4>3. m # Nil /\ t.parent[m] # n
        BY <1>1, <4>1, <4>2, LinkNode
      <4>4. ~(t.parent[m] = p /\ x = s)
        BY <1>6, <4>1, <4>2, <4>3, LinkNode
      <4> QED BY <1>3, <4>1, <4>2, <4>3, <4>4
    <3> QED BY <3>1, <3>2
  <2> QED BY <2>1, <2>2, <2>3 DEF Linked
<1>10. Spread(u, E)
  <2>1. ASSUME NEW a \in Nodes, NEW m \in Nodes
        PROVE  m \in E[a] <=> m = a \/ \E x \in Sides : m \in Below(u, E, a, x)
    <3>0. \A y \in Nodes : y \in D[a] <=> y = a \/ \E x \in Sides : y \in Below(t, D, a, x)
      BY DEF Shape, Spread
    <3>1. CASE a = n
      BY <1>2, <1>5, <3>1
    <3>2. CASE a # n /\ p \in D[a]
      <4>1. p \in Nodes
        BY <1>0, <3>2
      <4>2. p = a \/ \E x \in Sides : p \in Below(t, D, a, x)
        BY <3>0, <3>2, <4>1
      <4>3. \E x \in Sides : n \in Below(u, E, a, x)
        BY <1>6, <1>7, <3>2, <4>1, <4>2, LinkNode
      <4>4. m # n => \A x \in Sides : m \in Below(u, E, a, x) <=> m \in Below(t, D, a, x)
        BY <1>7, <3>2
      <4> QED BY <1>2, <3>0, <3>2, <4>3, <4>4
    <3>3. CASE a # n /\ p \notin D[a]
      <4>1. a # p /\ \A x \in Sides : p \notin Below(t, D, a, x)
        BY <3>3, BelowNodes DEF Sides
      <4> QED BY <1>2, <1>7, <3>0, <3>3, <4>1
    <3> QED BY <3>1, <3>2, <3>3
  <2> QED BY <1>2, <2>1 DEF Spread
<1>11. Sorted(u, E)
  <2>1. ASSUME NEW a \in Nodes, NEW x \in Sides, NEW m \in Below(u, E, a, x)
        PROVE  Beyond(a, x, m)
    <3>0. a # n
      BY <1>5, <2>1
    <3>1. CASE m \in Below(t, D, a, x)
      BY <3>1 DEF Shape, Sorted
    <3>2. CASE m \notin Below(t, D, a, x)
      <4>1. m = n /\ (p \in Below(t, D, a, x) \/ (a = p /\ x = s))
        BY <1>7, <2>1, <3>0, <3>2
      <4>2. p # Nil
        BY <4>1, BelowNodes, LinkNode
      <4>3. p \in Below(t, D, a, x) => a \in Inside(t, D)
        BY InsideLinked DEF Below, Sub
      <4> QED BY <1>6, <4>1, <4>2, <4>3
    <3> QED BY <3>1, <3>2
  <2> QED BY <2>1 DEF Sorted
<1>12. Clean(u, E)
  <2>1. SUFFICES ASSUME NEW m \in Nodes, m \notin Inside(t, D), m # n
                 PROVE  u.parent[m] = Nil /\ \A x \in Sides : u.kid[m][x] = Nil
    BY <1>8 DEF Clean
  <2>2. t.parent[m] = Nil /\ \A x \in Sides : t.kid[m][x] = Nil
    BY <2>1 DEF Shape, Clean
  <2>3. m # p
    BY <1>6, <2>1, LinkNode
  <2> QED BY <1>3, <2>1, <2>2, <2>3
<1> QED BY <1>8, <1>9, <1>10, <1>11, <1>12 DEF Shape, E

-----------------------------------------------------------------------------
(* A node with one child at most is taken out.                             *)

\* u is t without the node n, whose child c on side s, if any, is all it has.
IsCut(t, u, n, s) ==
    LET c == t.kid[n][s]
    IN  /\ u.root = IF t.root = n THEN c ELSE t.root
        /\ \A m \in Nodes : \A x \in Sides :
             u.kid[m][x] = IF m = n THEN Nil ELSE IF t.kid[m][x] = n THEN c ELSE t.kid[m][x]
        /\ \A m \in Nodes :
             u.parent[m] = IF m = n THEN Nil ELSE IF m = c THEN t.parent[n] ELSE t.parent[m]

\* What is below a node after n was taken out.
CutBelow(D, n) == [a \in Nodes |-> IF a = n THEN {n} ELSE D[a] \ {n}]

\* A node with one child at most is taken out by linking the child in its place.
LEMMA CutShape ==
  ASSUME NEW t, NEW D, Shape(t, D), NEW n \in Inside(t, D), NEW s \in Sides,
         t.kid[n][Other(s)] = Nil, NEW u \in TreeType, IsCut(t, u, n, s)
  PROVE  /\ Shape(u, CutBelow(D, n))
         /\ Inside(u, CutBelow(D, n)) = Inside(t, D) \ {n}
<1> DEFINE E == CutBelow(D, n)
           c == t.kid[n][s]
           z == Other(s)
<1>0. /\ t \in TreeType /\ D \in [Nodes -> SUBSET Nodes] /\ n \in Nodes /\ n # Nil
      /\ z \in Sides /\ z # s /\ \A x \in Sides : x = s \/ x = z
  BY LinkNode, InsideNodes, OtherSide DEF Shape, Spread
<1>1. E \in [Nodes -> SUBSET Nodes] /\ \A a \in Nodes : E[a] = IF a = n THEN {n} ELSE D[a] \ {n}
  BY <1>0 DEF CutBelow
<1>2. /\ u.root = IF t.root = n THEN c ELSE t.root
      /\ \A m \in Nodes : \A x \in Sides :
           u.kid[m][x] = IF m = n THEN Nil ELSE IF t.kid[m][x] = n THEN c ELSE t.kid[m][x]
      /\ \A m \in Nodes :
           u.parent[m] = IF m = n THEN Nil ELSE IF m = c THEN t.parent[n] ELSE t.parent[m]
  BY DEF IsCut
<1>3. c # Nil => /\ c \in Nodes /\ t.parent[c] = n /\ c # n /\ n \notin D[c] /\ D[c] \subseteq D[n]
                 /\ c \in Inside(t, D)
  BY <1>0, KidBelow, InsideLinked
<1>4. \A m \in Nodes : m \in D[n] <=> m = n \/ m \in Below(t, D, n, s)
  BY <1>0, BelowNodes DEF Below, Sub
<1>5. t.parent[n] \in Link /\ t.parent[n] # n /\ (c # Nil => t.parent[n] # c)
  <2>1. SUFFICES ASSUME t.parent[n] # Nil PROVE t.parent[n] # n /\ (c # Nil => t.parent[n] # c)
    BY <1>0, <1>3, TreeLinks, LinkNode
  <2>2. t.parent[n] \in Nodes
    BY <1>0, <2>1, TreeLinks, LinkNode
  <2>3. PICK x \in Sides : t.kid[t.parent[n]][x] = n
    BY <1>0, <2>1 DEF Shape, Linked
  <2>4. n # t.parent[n] /\ t.parent[n] \notin D[n]
    BY <1>0, <2>2, <2>3, KidBelow
  <2>5. c # Nil => c \in D[n]
    BY <1>3, BelowNodes
  <2> QED BY <2>4, <2>5
<1>6. ASSUME NEW a \in Nodes, a # n, NEW x \in Sides
      PROVE  Below(u, E, a, x) = Below(t, D, a, x) \ {n}
  <2>1. CASE t.kid[a][x] = n
    <3>1. u.kid[a][x] = c /\ Below(t, D, a, x) = D[n]
      BY <1>0, <1>2, <1>6, <2>1 DEF Below, Sub
    <3>2. D[n] \subseteq Nodes /\ (c # Nil => E[c] = D[c])
      <4> HIDE DEF c, E
      <4>1. c # Nil => D[c] \ {n} = D[c]
        BY <1>3
      <4> QED BY <1>0, <1>1, <1>3, <4>1
    <3>3. Below(t, D, n, s) = Below(u, E, a, x) /\ n \notin Below(t, D, n, s) /\ Below(t, D, n, s) \subseteq Nodes
      BY <1>0, <1>3, <3>1, <3>2, BelowNodes DEF Below, Sub
    <3> QED BY <1>4, <3>1, <3>2, <3>3
  <2>2. CASE t.kid[a][x] # n
    <3>1. u.kid[a][x] = t.kid[a][x]
      BY <1>2, <1>6, <2>2
    <3>2. t.kid[a][x] = Nil \/ t.kid[a][x] \in Nodes
      BY <1>0, TreeLinks, LinkNode
    <3> QED BY <1>1, <2>2, <3>1, <3>2 DEF Below, Sub
  <2> QED BY <2>1, <2>2
<1>7. \A x \in Sides : Below(u, E, n, x) = {}
  BY <1>0, <1>2 DEF Below, Sub
<1>8. Inside(u, E) = Inside(t, D) \ {n}
  <2>0. t.root \in Nodes /\ t.root # Nil /\ Inside(t, D) = D[t.root]
    BY <1>0, InsideLinked, LinkNode
  <2>1. CASE t.root = n
    <3>1. u.root = c /\ (c # Nil => E[c] = D[c]) /\ D[n] \subseteq Nodes
      <4> HIDE DEF c, E
      <4>1. c # Nil => D[c] \ {n} = D[c]
        BY <1>3
      <4> QED BY <1>0, <1>1, <1>2, <1>3, <2>1, <4>1
    <3>2. Below(t, D, n, s) = Inside(u, E) /\ n \notin Below(t, D, n, s) /\ Below(t, D, n, s) \subseteq Nodes
      BY <1>0, <1>3, <3>1, BelowNodes DEF Below, Sub, Inside
    <3> QED BY <1>4, <2>0, <2>1, <3>1, <3>2
  <2>2. CASE t.root # n
    BY <1>1, <1>2, <2>0, <2>2 DEF Inside, Sub
  <2> QED BY <2>1, <2>2
<1> HIDE DEF E, c, z
<1>9. Linked(u)
  <2>0. Linked(t)
    BY DEF Shape
  <2>1. u.root # Nil => u.parent[u.root] = Nil
    <3>1. t.root \in Nodes /\ t.parent[t.root] = Nil
      BY <1>0, <2>0, InsideLinked, LinkNode DEF Linked
    <3>2. CASE t.root = n
      BY <1>2, <1>3, <3>1, <3>2
    <3>3. CASE t.root # n
      <4>1. t.root # c
        BY <1>0, <1>3, <3>1, LinkNode
      <4> QED BY <1>2, <3>1, <3>3, <4>1
    <3> QED BY <3>2, <3>3
  <2>2. ASSUME NEW m \in Nodes, NEW x \in Sides, u.kid[m][x] # Nil
        PROVE  u.parent[u.kid[m][x]] = m
    <3>0. m # n
      BY <1>2, <2>2
    <3>1. t.kid[m][x] # Nil => t.kid[m][x] \in Nodes /\ t.parent[t.kid[m][x]] = m
      BY <1>0, <2>0, TreeLinks, LinkNode DEF Linked
    <3>2. CASE t.kid[m][x] = n
      BY <1>0, <1>2, <1>3, <2>2, <3>0, <3>1, <3>2
    <3>3. CASE t.kid[m][x] # n
      <4>1. u.kid[m][x] = t.kid[m][x] /\ t.kid[m][x] # Nil
        BY <1>2, <2>2, <3>0, <3>3
      <4>2. t.kid[m][x] # c
        BY <1>3, <3>0, <3>1, <4>1
      <4> QED BY <1>2, <3>1, <3>3, <4>1, <4>2
    <3> QED BY <3>2, <3>3
  <2>3. ASSUME NEW m \in Nodes, u.parent[m] # Nil
        PROVE  \E x \in Sides : u.kid[u.parent[m]][x] = m
    <3>0. m # n /\ m # Nil
      BY <1>2, <2>3, LinkNode
    <3>1. CASE m = c
      <4>1. u.parent[m] = t.parent[n] /\ t.parent[n] \in Nodes
        BY <1>2, <1>5, <2>3, <3>0, <3>1, LinkNode
      <4>2. PICK x \in Sides : t.kid[t.parent[n]][x] = n
        BY <1>0, <2>0, <2>3, <4>1 DEF Linked
      <4> QED BY <1>2, <1>5, <3>1, <4>1, <4>2
    <3>2. CASE m # c
      <4>1. u.parent[m] = t.parent[m] /\ t.parent[m] \in Nodes
        BY <1>0, <1>2, <2>3, <3>0, <3>2, TreeLinks, LinkNode
      <4>2. PICK x \in Sides : t.kid[t.parent[m]][x] = m
        BY <2>0, <2>3, <4>1 DEF Linked
      <4>3. t.parent[m] # n
        BY <1>0, <3>0, <3>2, <4>2 DEF c, z
      <4> QED BY <1>2, <3>0, <4>1, <4>2, <4>3
    <3> QED BY <3>1, <3>2
  <2> QED BY <2>1, <2>2, <2>3 DEF Linked
<1>10. Spread(u, E)
  <2>1. ASSUME NEW a \in Nodes, NEW m \in Nodes
        PROVE  m \in E[a] <=> m = a \/ \E x \in Sides : m \in Below(u, E, a, x)
    <3>0. m \in D[a] <=> m = a \/ \E x \in Sides : m \in Below(t, D, a, x)
      BY DEF Shape, Spread
    <3>1. CASE a = n
      BY <1>1, <1>7, <3>1
    <3>2. CASE a # n
      BY <1>1, <1>6, <3>0, <3>2
    <3> QED BY <3>1, <3>2
  <2> QED BY <1>1, <2>1 DEF Spread
<1>11. Sorted(u, E)
  <2>1. ASSUME NEW a \in Nodes, NEW x \in Sides, NEW m \in Below(u, E, a, x)
        PROVE  Beyond(a, x, m)
    <3>1. a # n /\ m \in Below(t, D, a, x)
      BY <1>6, <1>7, <2>1
    <3> QED BY <3>1 DEF Shape, Sorted
  <2> QED BY <2>1 DEF Sorted
<1>12. Clean(u, E)
  <2>1. SUFFICES ASSUME NEW m \in Nodes, m \notin Inside(t, D) \/ m = n
                 PROVE  u.parent[m] = Nil /\ \A x \in Sides : u.kid[m][x] = Nil
    BY <1>8 DEF Clean
  <2>2. CASE m = n
    BY <1>2, <2>2
  <2>3. CASE m # n
    <3>1. t.parent[m] = Nil /\ \A x \in Sides : t.kid[m][x] = Nil
      BY <2>1, <2>3 DEF Shape, Clean
    <3>2. m # c
      BY <1>3, <2>1, <2>3, LinkNode
    <3> QED BY <1>0, <1>2, <2>3, <3>1, <3>2
  <2> QED BY <2>2, <2>3
<1> QED BY <1>8, <1>9, <1>10, <1>11, <1>12 DEF Shape, E

-----------------------------------------------------------------------------
(* A node takes the place of another.                                      *)

\* u is t with w in the place of v.
IsPut(t, u, v, w) ==
    /\ u.root = IF t.root = v THEN w ELSE t.root
    /\ \A m \in Nodes : \A x \in Sides :
         u.kid[m][x] = IF m = v THEN Nil ELSE IF m = w THEN t.kid[v][x]
                       ELSE IF t.kid[m][x] = v THEN w ELSE t.kid[m][x]
    /\ \A m \in Nodes :
         u.parent[m] = IF m = v THEN Nil ELSE IF m = w THEN t.parent[v]
                       ELSE IF t.parent[m] = v THEN w ELSE t.parent[m]

\* What is below a node after w took the place of v.
PutBelow(D, v, w) ==
    [a \in Nodes |-> IF a = v THEN {v}
                     ELSE IF a = w THEN (D[v] \ {v}) \cup {w}
                     ELSE IF v \in D[a] THEN (D[a] \ {v}) \cup {w} ELSE D[a]]

\* A node takes another's place where its name fits as well.
LEMMA PutShape ==
  ASSUME NEW t, NEW D, Shape(t, D), NEW v \in Inside(t, D), NEW w \in Nodes,
         w \notin Inside(t, D), NEW u \in TreeType, IsPut(t, u, v, w),
         \A a \in Inside(t, D) : \A x \in Sides : Beyond(a, x, v) => Beyond(a, x, w)
  PROVE  /\ Shape(u, PutBelow(D, v, w))
         /\ Inside(u, PutBelow(D, v, w)) = (Inside(t, D) \ {v}) \cup {w}
<1> DEFINE E == PutBelow(D, v, w)
<1>0. /\ t \in TreeType /\ D \in [Nodes -> SUBSET Nodes] /\ v \in Nodes
      /\ v # Nil /\ w # Nil /\ v # w
  BY LinkNode, InsideNodes DEF Shape, Spread
<1>1. /\ E \in [Nodes -> SUBSET Nodes]
      /\ E[v] = {v} /\ E[w] = (D[v] \ {v}) \cup {w}
      /\ \A a \in Nodes : a # v /\ a # w =>
           E[a] = IF v \in D[a] THEN (D[a] \ {v}) \cup {w} ELSE D[a]
  BY <1>0 DEF PutBelow
<1>2. /\ u.root = IF t.root = v THEN w ELSE t.root
      /\ \A m \in Nodes : \A x \in Sides :
           u.kid[m][x] = IF m = v THEN Nil ELSE IF m = w THEN t.kid[v][x]
                         ELSE IF t.kid[m][x] = v THEN w ELSE t.kid[m][x]
      /\ \A m \in Nodes :
           u.parent[m] = IF m = v THEN Nil ELSE IF m = w THEN t.parent[v]
                         ELSE IF t.parent[m] = v THEN w ELSE t.parent[m]
  BY DEF IsPut
<1>3. t.parent[w] = Nil /\ \A x \in Sides : t.kid[w][x] = Nil
  BY DEF Shape, Clean
<1>4. \A m \in Nodes : \A x \in Sides :
        /\ t.kid[m][x] # w
        /\ t.kid[m][x] # Nil => t.kid[m][x] \in Nodes /\ t.parent[t.kid[m][x]] = m /\ t.kid[m][x] # m
  BY <1>0, InsideLinked, KidBelow
<1>5. \A m \in Nodes :
        /\ t.parent[m] # w
        /\ t.parent[m] # Nil => t.parent[m] \in Nodes /\ t.parent[m] # m
  BY <1>0, <1>3, <1>4, TreeLinks, LinkNode DEF Shape, Linked, Sides
<1>6. D[w] = {w} /\ \A a \in Nodes : a # w => w \notin D[a]
  <2>1. \A x \in Sides : Below(t, D, w, x) = {}
    BY <1>3 DEF Below, Sub
  <2>2. D[w] = {w}
    BY <2>1, BelowNodes, OtherSide DEF Sides
  <2>3. ASSUME NEW a \in Nodes, a # w, w \in D[a] PROVE FALSE
    <3>1. t.parent[w] # Nil
      BY <2>3, Climb
    <3> QED BY <1>3, <3>1
  <2> QED BY <2>2, <2>3
<1>7. ASSUME NEW a \in Nodes, a # v, a # w, NEW x \in Sides
      PROVE  Below(u, E, a, x) = IF v \in Below(t, D, a, x)
                                 THEN (Below(t, D, a, x) \ {v}) \cup {w} ELSE Below(t, D, a, x)
  <2>0. v \in D[v] /\ w \in Nodes
    BY <1>0, BelowNodes DEF Sides
  <2>1. CASE t.kid[a][x] = v
    <3>1. u.kid[a][x] = w /\ Below(t, D, a, x) = D[v]
      BY <1>0, <1>2, <1>7, <2>1 DEF Below, Sub
    <3> QED BY <1>0, <1>1, <2>0, <3>1 DEF Below, Sub
  <2>2. CASE t.kid[a][x] # v
    <3>1. u.kid[a][x] = t.kid[a][x]
      BY <1>2, <1>7, <2>2
    <3>2. t.kid[a][x] = Nil \/ (t.kid[a][x] \in Nodes /\ t.kid[a][x] # w)
      BY <1>0, <1>4, TreeLinks, LinkNode
    <3> QED BY <1>1, <2>2, <3>1, <3>2 DEF Below, Sub
  <2> QED BY <2>1, <2>2
<1>8. ASSUME NEW x \in Sides
      PROVE  Below(u, E, v, x) = {} /\ Below(u, E, w, x) = Below(t, D, v, x)
  <2>1. u.kid[v][x] = Nil /\ u.kid[w][x] = t.kid[v][x]
    BY <1>0, <1>2
  <2>2. t.kid[v][x] # Nil => /\ t.kid[v][x] \in Nodes /\ t.kid[v][x] # v /\ t.kid[v][x] # w
                             /\ v \notin D[t.kid[v][x]]
    BY <1>0, <1>4, KidBelow
  <2> QED BY <1>1, <2>1, <2>2 DEF Below, Sub
<1>9. Inside(u, E) = (Inside(t, D) \ {v}) \cup {w}
  <2>0. t.root \in Nodes /\ t.root # Nil /\ Inside(t, D) = D[t.root] /\ t.root # w
    BY <1>0, InsideLinked, LinkNode
  <2>1. CASE t.root = v
    BY <1>0, <1>1, <1>2, <2>0, <2>1 DEF Inside, Sub
  <2>2. CASE t.root # v
    BY <1>1, <1>2, <2>0, <2>2 DEF Inside, Sub
  <2> QED BY <2>1, <2>2
<1> HIDE DEF E
<1>10. Linked(u)
  <2>0. Linked(t)
    BY DEF Shape
  <2>1. u.root # Nil => u.parent[u.root] = Nil
    <3>1. t.root \in Nodes /\ t.parent[t.root] = Nil /\ t.root # w
      BY <1>0, <2>0, InsideLinked, LinkNode DEF Linked
    <3> QED BY <1>0, <1>2, <3>1
  <2>2. ASSUME NEW m \in Nodes, NEW x \in Sides, u.kid[m][x] # Nil
        PROVE  u.parent[u.kid[m][x]] = m
    <3>0. m # v
      BY <1>2, <2>2
    <3>1. CASE m = w
      <4>1. u.kid[m][x] = t.kid[v][x]
        BY <1>2, <3>0, <3>1
      <4> QED BY <1>0, <1>2, <1>4, <2>2, <3>1, <4>1
    <3>2. CASE m # w /\ t.kid[m][x] = v
      BY <1>0, <1>2, <1>4, <3>0, <3>2
    <3>3. CASE m # w /\ t.kid[m][x] # v
      <4>1. u.kid[m][x] = t.kid[m][x]
        BY <1>2, <3>0, <3>3
      <4> QED BY <1>2, <1>4, <2>2, <3>0, <3>3, <4>1
    <3> QED BY <3>1, <3>2, <3>3
  <2>3. ASSUME NEW m \in Nodes, u.parent[m] # Nil
        PROVE  \E x \in Sides : u.kid[u.parent[m]][x] = m
    <3>0. m # v
      BY <1>2, <2>3
    <3>1. CASE m = w
      <4>1. u.parent[m] = t.parent[v] /\ t.parent[v] \in Nodes /\ t.parent[v] # v /\ t.parent[v] # w
        BY <1>0, <1>2, <1>5, <2>3, <3>1
      <4>2. PICK x \in Sides : t.kid[t.parent[v]][x] = v
        BY <1>0, <2>0, <2>3, <4>1 DEF Linked
      <4> QED BY <1>2, <3>1, <4>1, <4>2
    <3>2. CASE m # w /\ t.parent[m] = v
      <4>1. PICK x \in Sides : t.kid[v][x] = m
        BY <1>0, <2>0, <3>2 DEF Linked
      <4> QED BY <1>0, <1>2, <3>0, <3>2, <4>1
    <3>3. CASE m # w /\ t.parent[m] # v
      <4>1. u.parent[m] = t.parent[m] /\ t.parent[m] \in Nodes /\ t.parent[m] # w
        BY <1>2, <1>5, <2>3, <3>0, <3>3
      <4>2. PICK x \in Sides : t.kid[t.parent[m]][x] = m
        BY <2>0, <2>3, <4>1 DEF Linked
      <4> QED BY <1>2, <3>0, <3>3, <4>1, <4>2
    <3> QED BY <3>1, <3>2, <3>3
  <2> QED BY <2>1, <2>2, <2>3 DEF Linked
<1>11. Spread(u, E)
  <2>1. ASSUME NEW a \in Nodes, NEW m \in Nodes
        PROVE  m \in E[a] <=> m = a \/ \E x \in Sides : m \in Below(u, E, a, x)
    <3>0. \A b, y \in Nodes : y \in D[b] <=> y = b \/ \E x \in Sides : y \in Below(t, D, b, x)
      BY DEF Shape, Spread
    <3>1. CASE a = v
      BY <1>1, <1>8, <3>1
    <3>2. CASE a = w
      <4>1. \A x \in Sides : v \notin Below(t, D, v, x)
        BY <1>0, BelowNodes
      <4>2. m \in D[v] <=> m = v \/ \E x \in Sides : m \in Below(t, D, v, x)
        BY <1>0, <3>0
      <4>3. m \in E[a] <=> m = w \/ (m # v /\ m \in D[v])
        BY <1>1, <3>2
      <4> QED BY <1>8, <3>2, <4>1, <4>2, <4>3
    <3>3. CASE a # v /\ a # w /\ v \in D[a]
      <4>1. PICK y \in Sides : v \in Below(t, D, a, y)
        BY <1>0, <3>0, <3>3
      <4>2. w \in Below(u, E, a, y)
        BY <1>7, <3>3, <4>1
      <4>3. \A x \in Sides : m # w /\ m # v => (m \in Below(u, E, a, x) <=> m \in Below(t, D, a, x))
        BY <1>7, <3>3
      <4>4. \A x \in Sides : v \notin Below(u, E, a, x)
        BY <1>0, <1>7, <3>3
      <4>5. m \in E[a] <=> m = w \/ (m # v /\ m \in D[a])
        BY <1>1, <3>3
      <4>6. m \in D[a] <=> m = a \/ \E x \in Sides : m \in Below(t, D, a, x)
        BY <3>0
      <4> QED BY <3>3, <4>2, <4>3, <4>4, <4>5, <4>6
    <3>4. CASE a # v /\ a # w /\ v \notin D[a]
      <4>1. \A x \in Sides : v \notin Below(t, D, a, x)
        BY <3>4, BelowNodes
      <4> QED BY <1>1, <1>7, <3>0, <3>4, <4>1
    <3> QED BY <3>1, <3>2, <3>3, <3>4
  <2> QED BY <1>1, <2>1 DEF Spread
<1>12. Sorted(u, E)
  <2>0. \A b \in Nodes : \A x \in Sides : \A y \in Below(t, D, b, x) : Beyond(b, x, y)
    BY DEF Shape, Sorted
  <2>1. ASSUME NEW a \in Nodes, NEW x \in Sides, NEW m \in Below(u, E, a, x)
        PROVE  Beyond(a, x, m)
    <3>0. a # v
      BY <1>8, <2>1
    <3>1. CASE a = w
      <4>1. m \in Below(t, D, v, x) /\ Beyond(v, x, m)
        BY <1>0, <1>8, <2>0, <2>1, <3>1
      <4>2. m \in Inside(t, D) /\ m \in Nodes
        BY <1>0, <4>1, BelowNodes, InsideLinked
      <4>3. Beyond(m, Other(x), v) /\ Other(x) \in Sides
        BY <4>1, BeyondTurn, OtherSide
      <4>4. Beyond(m, Other(x), w)
        BY <4>2, <4>3
      <4> QED BY <3>1, <4>4, BeyondTurn
    <3>2. CASE a # w /\ m \in Below(t, D, a, x)
      BY <2>0, <3>2
    <3>3. CASE a # w /\ m \notin Below(t, D, a, x)
      <4>1. m = w /\ v \in Below(t, D, a, x)
        BY <1>7, <2>1, <3>0, <3>3
      <4>2. a \in Inside(t, D)
        BY <4>1, InsideLinked DEF Below, Sub
      <4> QED BY <2>0, <4>1, <4>2
    <3> QED BY <3>1, <3>2, <3>3
  <2> QED BY <2>1 DEF Sorted
<1>13. Clean(u, E)
  <2>1. SUFFICES ASSUME NEW m \in Nodes, m # w, m \notin Inside(t, D) \/ m = v
                 PROVE  u.parent[m] = Nil /\ \A x \in Sides : u.kid[m][x] = Nil
    BY <1>9 DEF Clean
  <2>2. CASE m = v
    BY <1>2, <2>2
  <2>3. CASE m # v
    <3>1. t.parent[m] = Nil /\ \A x \in Sides : t.kid[m][x] = Nil
      BY <2>1, <2>3 DEF Shape, Clean
    <3> QED BY <1>0, <1>2, <2>1, <2>3, <3>1
  <2> QED BY <2>2, <2>3
<1> QED BY <1>9, <1>10, <1>11, <1>12, <1>13 DEF Shape, E

-----------------------------------------------------------------------------
(* What is not below a node lies on one side of all that is.               *)

\* What is outside the nodes below n, on side s of n, is on side s of all of them.
LEMMA Outside ==
  ASSUME NEW t, NEW D, Shape(t, D), NEW n \in Inside(t, D), NEW m \in Inside(t, D),
         m \notin D[n], NEW e \in D[n], NEW s \in Sides, Beyond(n, s, m)
  PROVE  Beyond(e, s, m)
<1>0. n \in Nodes /\ m \in Nodes /\ e \in Nodes
  BY InsideNodes, BelowNodes DEF Sides
<1> DEFINE B == {a \in Nodes : n \in D[a] /\ m \in D[a]}
<1>1. t.root \in B
  BY <1>0, InsideLinked, LinkNode
<1>2. PICK a \in B : \A b \in B : ~(D[b] \subseteq D[a] /\ a \notin D[b])
  <2>1. B \subseteq Nodes /\ B # {}
    BY <1>1
  <2> HIDE DEF B
  <2> QED BY <2>1, Lowest
<1>3. a \in Nodes /\ n \in D[a] /\ m \in D[a] /\ a # n
  OBVIOUS
<1>4. PICK x \in Sides : n \in Below(t, D, a, x)
  BY <1>3, BelowNodes, OtherSide DEF Sides
<1>5. e \in Below(t, D, a, x) /\ Beyond(a, x, n) /\ Beyond(a, x, e)
  BY <1>3, <1>4, NestedBelow DEF Shape, Sorted
<1>6. m \notin Below(t, D, a, x)
  <2>1. ASSUME m \in Below(t, D, a, x) PROVE FALSE
    <3>1. t.kid[a][x] # Nil /\ n \in D[t.kid[a][x]] /\ m \in D[t.kid[a][x]]
      BY <1>4, <2>1 DEF Below, Sub
    <3>2. t.kid[a][x] \in B /\ D[t.kid[a][x]] \subseteq D[a] /\ a \notin D[t.kid[a][x]]
      BY <1>3, <3>1, KidBelow
    <3> QED BY <1>2, <3>2
  <2> QED BY <2>1
<1>7. m = a \/ Beyond(a, Other(x), m)
  BY <1>3, <1>6, BelowNodes, OtherSide DEF Shape, Sorted
<1>8. Beyond(n, Other(x), m) /\ Beyond(e, Other(x), m)
  <2>1. Beyond(n, Other(x), a) /\ Beyond(e, Other(x), a)
    BY <1>5, BeyondTurn
  <2> QED BY <1>0, <1>3, <1>7, <2>1, OtherSide, BeyondChain
<1>9. s = Other(x)
  BY <1>0, <1>8, BeyondOne, OtherSide
<1> QED BY <1>8, <1>9

-----------------------------------------------------------------------------
(* What the code's helpers write.                                          *)

\* hev_rbtree's set_parent writes the parent alone;
LEMMA SetParentIs ==
  ASSUME NEW t \in TreeType, NEW n \in Link, NEW p \in Link
  PROVE  /\ SetParent(t, n, p) \in TreeType
         /\ SetParent(t, n, p).root = t.root /\ SetParent(t, n, p).kid = t.kid
         /\ SetParent(t, n, p).red = t.red
         /\ \A m \in Nodes : SetParent(t, n, p).parent[m] = IF m = n THEN p ELSE t.parent[m]
<1>1. CASE n = Nil
  BY <1>1, LinkNode DEF SetParent
<1>2. CASE n # Nil
  BY <1>2, LinkNode DEF SetParent, TreeType
<1> QED BY <1>1, <1>2

\* set_black the colour alone;
LEMMA SetBlackIs ==
  ASSUME NEW t \in TreeType, NEW n \in Link
  PROVE  /\ SetBlack(t, n) \in TreeType
         /\ SetBlack(t, n).root = t.root /\ SetBlack(t, n).kid = t.kid
         /\ SetBlack(t, n).parent = t.parent
         /\ \A m \in Nodes : SetBlack(t, n).red[m] = IF m = n THEN FALSE ELSE t.red[m]
<1>1. CASE n = Nil
  BY <1>1, LinkNode DEF SetBlack
<1>2. CASE n # Nil
  BY <1>2, LinkNode DEF SetBlack, TreeType
<1> QED BY <1>1, <1>2

\* The side of p that old is on.
SideOf(t, old, p) == IF t.kid[p].left = old THEN "left" ELSE "right"

\* an assignment to a child that child alone;
LEMMA KidIs ==
  ASSUME NEW t \in TreeType, NEW p \in Nodes, NEW s \in Sides, NEW k \in Link
  PROVE  /\ [t EXCEPT !.kid[p][s] = k] \in TreeType
         /\ [t EXCEPT !.kid[p][s] = k].root = t.root
         /\ [t EXCEPT !.kid[p][s] = k].parent = t.parent
         /\ [t EXCEPT !.kid[p][s] = k].red = t.red
         /\ \A m \in Nodes : \A x \in Sides :
              [t EXCEPT !.kid[p][s] = k].kid[m][x] = IF m = p /\ x = s THEN k ELSE t.kid[m][x]
  BY DEF TreeType

\* and __hev_rbtree_change_child the one link that led to the old child.
LEMMA ChangeChildIs ==
  ASSUME NEW t \in TreeType, NEW old, NEW new \in Link, NEW p \in Link
  PROVE  /\ ChangeChild(t, old, new, p) \in TreeType
         /\ ChangeChild(t, old, new, p).root = IF p = Nil THEN new ELSE t.root
         /\ ChangeChild(t, old, new, p).parent = t.parent
         /\ ChangeChild(t, old, new, p).red = t.red
         /\ \A m \in Nodes : \A x \in Sides :
              ChangeChild(t, old, new, p).kid[m][x] =
                IF m = p /\ x = SideOf(t, old, p) THEN new ELSE t.kid[m][x]
<1>1. CASE p = Nil
  <2>1. ChangeChild(t, old, new, p) = [t EXCEPT !.root = new]
    BY <1>1 DEF ChangeChild
  <2>2. \A m \in Nodes : m # p
    BY <1>1, LinkNode
  <2> QED BY <1>1, <2>1, <2>2 DEF TreeType
<1>2. CASE p # Nil
  <2>1. SideOf(t, old, p) \in Sides /\ p \in Nodes
    BY <1>2, LinkNode DEF SideOf, Sides
  <2>2. ChangeChild(t, old, new, p) = [t EXCEPT !.kid[p][SideOf(t, old, p)] = new]
    BY <1>2 DEF ChangeChild, SideOf
  <2> QED BY <1>2, <2>1, <2>2, KidIs
<1> QED BY <1>1, <1>2

\* The side on which the code finds a child.
LEMMA SideIs ==
  ASSUME NEW t, NEW old, NEW p, NEW s \in Sides, t.kid[p][s] = old, t.kid[p][Other(s)] # old
  PROVE  SideOf(t, old, p) = s
  BY DEF SideOf, Sides, Other

\* The swing of a rotation, without and with the colour of the inner child.
LEMMA SwingIs ==
  ASSUME NEW t \in TreeType, NEW p \in Nodes, NEW c \in Nodes, NEW s \in Sides, c # p
  PROVE  /\ Swing(t, p, c, s) \in TreeType
         /\ Swing(t, p, c, s).root = t.root
         /\ Swing(t, p, c, s).red = t.red
         /\ \A m \in Nodes : \A x \in Sides :
              Swing(t, p, c, s).kid[m][x] =
                IF m = p /\ x = s THEN t.kid[c][Other(s)]
                ELSE IF m = c /\ x = Other(s) THEN p ELSE t.kid[m][x]
         /\ \A m \in Nodes :
              Swing(t, p, c, s).parent[m] = IF m = t.kid[c][Other(s)] THEN p ELSE t.parent[m]
<1> DEFINE i == t.kid[c][Other(s)]
           u == [t EXCEPT !.kid[p][s] = i]
           v == [u EXCEPT !.kid[c][Other(s)] = p]
<1>0. i \in Link /\ p \in Link /\ Other(s) \in Sides
  BY TreeLinks, OtherSide, LinkNode
<1>1. /\ u \in TreeType /\ u.root = t.root /\ u.parent = t.parent /\ u.red = t.red
      /\ \A m \in Nodes : \A x \in Sides : u.kid[m][x] = IF m = p /\ x = s THEN i ELSE t.kid[m][x]
  <2> HIDE DEF i
  <2> QED BY <1>0, KidIs
<1>2. /\ v \in TreeType /\ v.root = t.root /\ v.parent = t.parent /\ v.red = t.red
      /\ \A m \in Nodes : \A x \in Sides :
           v.kid[m][x] = IF m = c /\ x = Other(s) THEN p ELSE u.kid[m][x]
  <2> HIDE DEF u
  <2> QED BY <1>0, <1>1, KidIs
<1>3. [t EXCEPT !.kid[p][s] = i, !.kid[c][Other(s)] = p] = v
  OBVIOUS
<1>4. Swing(t, p, c, s) = SetParent(v, i, p)
  BY <1>3 DEF Swing
<1> HIDE DEF u, v, i
<1>5. \A m \in Nodes : \A x \in Sides :
        v.kid[m][x] = IF m = p /\ x = s THEN i ELSE IF m = c /\ x = Other(s) THEN p ELSE t.kid[m][x]
  BY <1>1, <1>2
<1>6. p \in Link
  BY LinkNode
<1>7. /\ SetParent(v, i, p) \in TreeType
      /\ SetParent(v, i, p).root = v.root /\ SetParent(v, i, p).kid = v.kid
      /\ SetParent(v, i, p).red = v.red
      /\ \A m \in Nodes : SetParent(v, i, p).parent[m] = IF m = i THEN p ELSE v.parent[m]
  BY <1>0, <1>2, <1>6, SetParentIs
<1>8. i = t.kid[c][Other(s)]
  BY DEF i
<1> QED BY <1>2, <1>4, <1>5, <1>7, <1>8

\* The swing that makes the inner child black.
LEMMA SwingBlackIs ==
  ASSUME NEW t \in TreeType, NEW p \in Nodes, NEW c \in Nodes, NEW s \in Sides, c # p
  PROVE  /\ SwingBlack(t, p, c, s) \in TreeType
         /\ SwingBlack(t, p, c, s).root = Swing(t, p, c, s).root
         /\ SwingBlack(t, p, c, s).kid = Swing(t, p, c, s).kid
         /\ SwingBlack(t, p, c, s).parent = Swing(t, p, c, s).parent
         /\ \A m \in Nodes :
              SwingBlack(t, p, c, s).red[m] = IF m = t.kid[c][Other(s)] THEN FALSE ELSE t.red[m]
<1> DEFINE i == t.kid[c][Other(s)]
           v == Swing(t, p, c, s)
<1>1. i \in Link
  BY TreeLinks, OtherSide
<1>2. v \in TreeType /\ v.root = t.root /\ v.red = t.red
  BY SwingIs
<1>3. SwingBlack(t, p, c, s) = SetBlack(v, i)
  BY DEF SwingBlack
<1> HIDE DEF v, i
<1>4. /\ SetBlack(v, i) \in TreeType
      /\ SetBlack(v, i).root = v.root /\ SetBlack(v, i).kid = v.kid
      /\ SetBlack(v, i).parent = v.parent
      /\ \A m \in Nodes : SetBlack(v, i).red[m] = IF m = i THEN FALSE ELSE v.red[m]
  BY <1>1, <1>2, SetBlackIs
<1> QED BY <1>2, <1>3, <1>4 DEF v, i

\* __hev_rbtree_rotate_set_parents: new takes the parent and colour of old.
LEMMA RotateSetParentsIs ==
  ASSUME NEW t \in TreeType, NEW old \in Nodes, NEW new \in Nodes, NEW r \in BOOLEAN, old # new
  PROVE  /\ RotateSetParents(t, old, new, r) \in TreeType
         /\ RotateSetParents(t, old, new, r).root = IF t.parent[old] = Nil THEN new ELSE t.root
         /\ \A m \in Nodes : \A x \in Sides :
              RotateSetParents(t, old, new, r).kid[m][x] =
                IF m = t.parent[old] /\ x = SideOf(t, old, t.parent[old]) THEN new ELSE t.kid[m][x]
         /\ \A m \in Nodes :
              RotateSetParents(t, old, new, r).parent[m] =
                IF m = new THEN t.parent[old] ELSE IF m = old THEN new ELSE t.parent[m]
         /\ \A m \in Nodes :
              RotateSetParents(t, old, new, r).red[m] =
                IF m = new THEN t.red[old] ELSE IF m = old THEN r ELSE t.red[m]
<1> DEFINE u == [t EXCEPT !.parent[new] = t.parent[old], !.parent[old] = new,
                          !.red[new] = t.red[old], !.red[old] = r]
           g == t.parent[old]
<1>0. g \in Link /\ new \in Link
  BY TreeLinks, LinkNode DEF Sides
<1>1. u \in TreeType
  BY <1>0 DEF TreeType
<1>2. u.root = t.root /\ u.kid = t.kid
  BY DEF TreeType
<1>3. \A m \in Nodes :
         u.parent[m] = IF m = new THEN t.parent[old] ELSE IF m = old THEN new ELSE t.parent[m]
  BY <1>0 DEF TreeType
<1>4. \A m \in Nodes :
         u.red[m] = IF m = new THEN t.red[old] ELSE IF m = old THEN r ELSE t.red[m]
  BY <1>0 DEF TreeType
<1>5. RotateSetParents(t, old, new, r) = ChangeChild(u, old, new, g)
  BY DEF RotateSetParents
<1>6. SideOf(u, old, g) = SideOf(t, old, g)
  BY <1>2 DEF SideOf
<1> HIDE DEF u, g
<1> QED BY <1>0, <1>1, <1>2, <1>3, <1>4, <1>5, <1>6, ChangeChildIs DEF g

-----------------------------------------------------------------------------
(* The code's rotations are rotations.                                     *)

\* The one link to a node is that of its parent, on the side the code finds.
LEMMA PlaceIs ==
  ASSUME NEW t, NEW D, Shape(t, D), NEW n \in Nodes
  PROVE  \A m \in Nodes : \A x \in Sides :
           t.kid[m][x] = n <=> m = t.parent[n] /\ x = SideOf(t, n, t.parent[n])
<1> DEFINE g == t.parent[n]
<1>1. ASSUME NEW m \in Nodes, NEW x \in Sides, t.kid[m][x] = n
      PROVE  m = g /\ x = SideOf(t, n, g)
  BY <1>1, KidBelow, SideIs, LinkNode
<1>2. ASSUME NEW m \in Nodes, NEW x \in Sides, m = g, x = SideOf(t, n, g)
      PROVE  t.kid[m][x] = n
  <2>1. PICK y \in Sides : t.kid[m][y] = n
    BY <1>2, LinkNode DEF Shape, Linked
  <2> QED BY <1>1, <1>2, <2>1
<1> QED BY <1>1, <1>2

\* u has the links of t after a swing, the one up from c left aside.
IsSwing(t, u, p, c, s) ==
    /\ u \in TreeType /\ u.root = t.root
    /\ \A m \in Nodes : \A x \in Sides :
         u.kid[m][x] = IF m = p /\ x = s THEN t.kid[c][Other(s)]
                       ELSE IF m = c /\ x = Other(s) THEN p ELSE t.kid[m][x]
    /\ \A m \in Nodes :
         m # c => u.parent[m] = IF m = t.kid[c][Other(s)] THEN p ELSE t.parent[m]

\* A swing and the helper together are a rotation.
LEMMA RotateIs ==
  ASSUME NEW t, NEW D, Shape(t, D), NEW p \in Nodes, NEW s \in Sides,
         NEW c, c = t.kid[p][s], c # Nil, NEW u, IsSwing(t, u, p, c, s), NEW r \in BOOLEAN
  PROVE  /\ RotateSetParents(u, p, c, r) \in TreeType
         /\ IsRot(t, RotateSetParents(u, p, c, r), p, s)
         /\ \A m \in Nodes : RotateSetParents(u, p, c, r).red[m] =
              IF m = c THEN u.red[p] ELSE IF m = p THEN r ELSE u.red[m]
<1> DEFINE v == RotateSetParents(u, p, c, r)
           i == t.kid[c][Other(s)]
           g == t.parent[p]
<1>0. t \in TreeType /\ u \in TreeType /\ u.root = t.root
  BY DEF Shape, IsSwing
<1>1. /\ c \in Nodes /\ c # p /\ (i # Nil => i \in Nodes /\ i # p /\ i # c)
      /\ p # Nil /\ g # p /\ g # c /\ (g = Nil <=> t.root = p)
  BY RotNodes
<1>2. /\ \A m \in Nodes : \A x \in Sides :
           u.kid[m][x] = IF m = p /\ x = s THEN i
                         ELSE IF m = c /\ x = Other(s) THEN p ELSE t.kid[m][x]
      /\ \A m \in Nodes : m # c => u.parent[m] = IF m = i THEN p ELSE t.parent[m]
  BY DEF IsSwing
<1>3. u.parent[p] = g
  BY <1>1, <1>2, LinkNode
<1>4. /\ v \in TreeType
      /\ v.root = IF g = Nil THEN c ELSE t.root
      /\ \A m \in Nodes : \A x \in Sides :
           v.kid[m][x] = IF m = g /\ x = SideOf(u, p, g) THEN c ELSE u.kid[m][x]
      /\ \A m \in Nodes :
           v.parent[m] = IF m = c THEN g ELSE IF m = p THEN c ELSE u.parent[m]
      /\ \A m \in Nodes :
           v.red[m] = IF m = c THEN u.red[p] ELSE IF m = p THEN r ELSE u.red[m]
  <2>1. /\ v \in TreeType
        /\ v.root = IF u.parent[p] = Nil THEN c ELSE u.root
        /\ \A m \in Nodes : \A x \in Sides :
             v.kid[m][x] = IF m = u.parent[p] /\ x = SideOf(u, p, u.parent[p]) THEN c ELSE u.kid[m][x]
        /\ \A m \in Nodes :
             v.parent[m] = IF m = c THEN u.parent[p] ELSE IF m = p THEN c ELSE u.parent[m]
        /\ \A m \in Nodes :
             v.red[m] = IF m = c THEN u.red[p] ELSE IF m = p THEN r ELSE u.red[m]
    <3>1. c \in Nodes /\ p # c
      BY <1>1
    <3> QED BY SMTT(20), <1>0, <3>1, RotateSetParentsIs
  <2> HIDE DEF v, g
  <2> QED BY <2>1, <1>0, <1>3
<1>5. g \in Nodes => SideOf(u, p, g) = SideOf(t, p, g)
  <2>1. g \in Nodes => u.kid[g].left = t.kid[g].left
    BY <1>1, <1>2 DEF Sides
  <2> QED BY <2>1 DEF SideOf
<1>6. \A m \in Nodes : \A x \in Sides : t.kid[m][x] = p <=> m = g /\ x = SideOf(t, p, g)
  BY PlaceIs
<1> HIDE DEF v, i, g
<1>7. \A m \in Nodes : \A x \in Sides :
        v.kid[m][x] = IF m = p /\ x = s THEN i
                      ELSE IF m = c /\ x = Other(s) THEN p
                      ELSE IF t.kid[m][x] = p THEN c ELSE t.kid[m][x]
  BY <1>1, <1>2, <1>4, <1>5, <1>6
<1>8. \A m \in Nodes :
        v.parent[m] = IF m = c THEN g ELSE IF m = p THEN c ELSE IF m = i THEN p ELSE t.parent[m]
  BY <1>2, <1>4
<1>9. v.root = IF t.root = p THEN c ELSE t.root
  BY <1>1, <1>4
<1> QED BY <1>4, <1>7, <1>8, <1>9 DEF v, i, g, IsRot

\* The tree after a rotation, written down, with the colours r.
RotTree(t, p, s, r) ==
    LET c == t.kid[p][s]
        i == t.kid[c][Other(s)]
    IN  [root |-> IF t.root = p THEN c ELSE t.root,
         kid |-> [n \in Nodes |-> [x \in Sides |->
                    IF n = p /\ x = s THEN i
                    ELSE IF n = c /\ x = Other(s) THEN p
                    ELSE IF t.kid[n][x] = p THEN c ELSE t.kid[n][x]]],
         parent |-> [n \in Nodes |-> IF n = c THEN t.parent[p] ELSE IF n = p THEN c
                                     ELSE IF n = i THEN p ELSE t.parent[n]],
         red |-> r]

\* Every rotation of a tree that one writes down is one.
LEMMA RotTreeIs ==
  ASSUME NEW t, NEW D, Shape(t, D), NEW p \in Nodes, NEW s \in Sides, t.kid[p][s] # Nil,
         NEW r \in [Nodes -> BOOLEAN]
  PROVE  /\ RotTree(t, p, s, r) \in TreeType /\ IsRot(t, RotTree(t, p, s, r), p, s)
         /\ RotTree(t, p, s, r).red = r
<1> DEFINE c == t.kid[p][s]
           i == t.kid[c][Other(s)]
           v == RotTree(t, p, s, r)
<1>0. t \in TreeType /\ t.root \in Link /\ t.red \in [Nodes -> BOOLEAN]
  BY DEF Shape, TreeType
<1>1. c \in Nodes /\ p \in Link /\ c \in Link /\ i \in Link /\ t.parent[p] \in Link
  BY <1>0, RotNodes, OtherSide, TreeLinks, LinkNode
<1>2. \A m \in Nodes : t.parent[m] \in Link /\ \A x \in Sides : t.kid[m][x] \in Link
  BY <1>0, TreeLinks DEF Sides
<1> DEFINE K(n, x) == IF n = p /\ x = s THEN i
                      ELSE IF n = c /\ x = Other(s) THEN p
                      ELSE IF t.kid[n][x] = p THEN c ELSE t.kid[n][x]
           P(n) == IF n = c THEN t.parent[p] ELSE IF n = p THEN c
                   ELSE IF n = i THEN p ELSE t.parent[n]
           R == IF t.root = p THEN c ELSE t.root
<1>3. v = [root |-> R, kid |-> [n \in Nodes |-> [x \in Sides |-> K(n, x)]],
           parent |-> [n \in Nodes |-> P(n)], red |-> r]
  BY DEF RotTree
<1>4. R \in Link /\ \A n \in Nodes : P(n) \in Link /\ \A x \in Sides : K(n, x) \in Link
  <2> HIDE DEF c, i
  <2> QED BY <1>0, <1>1, <1>2
<1> HIDE DEF c, i, v
<1>5. /\ v.root = R /\ v.red = r /\ (\A n \in Nodes : v.parent[n] = P(n))
      /\ \A n \in Nodes : \A x \in Sides : v.kid[n][x] = K(n, x)
  <2> HIDE DEF K, P, R
  <2> QED BY <1>3
<1>6. v \in TreeType
  <2> HIDE DEF K, P, R
  <2> QED BY <1>0, <1>3, <1>4 DEF TreeType
<1> QED BY <1>5, <1>6 DEF IsRot, c, i, v
-----------------------------------------------------------------------------
(* Two swings, as the code writes them, and their rotations.               *)

\* u is t after a swing.
IsPulled(t, u, p, c, s) ==
    /\ u \in TreeType /\ u.root = t.root
    /\ \A m \in Nodes : \A x \in Sides :
         u.kid[m][x] = IF m = p /\ x = s THEN t.kid[c][Other(s)]
                       ELSE IF m = c /\ x = Other(s) THEN p ELSE t.kid[m][x]
    /\ \A m \in Nodes : u.parent[m] = IF m = t.kid[c][Other(s)] THEN p ELSE t.parent[m]

\* The colours are those of t but for i, which is black.
SameRed(t, u, i) == \A m \in Nodes : u.red[m] = IF m = i THEN FALSE ELSE t.red[m]

\* Both swings are swings.
LEMMA SwingOf ==
  ASSUME NEW t \in TreeType, NEW p \in Nodes, NEW c \in Nodes, NEW s \in Sides, c # p
  PROVE  /\ IsPulled(t, Swing(t, p, c, s), p, c, s) /\ IsSwing(t, Swing(t, p, c, s), p, c, s)
         /\ IsPulled(t, SwingBlack(t, p, c, s), p, c, s) /\ IsSwing(t, SwingBlack(t, p, c, s), p, c, s)
         /\ SameRed(t, Swing(t, p, c, s), Nil) /\ SameRed(t, SwingBlack(t, p, c, s), t.kid[c][Other(s)])
<1>1. /\ Swing(t, p, c, s) \in TreeType
      /\ Swing(t, p, c, s).root = t.root
      /\ \A m \in Nodes : \A x \in Sides :
           Swing(t, p, c, s).kid[m][x] =
             IF m = p /\ x = s THEN t.kid[c][Other(s)]
             ELSE IF m = c /\ x = Other(s) THEN p ELSE t.kid[m][x]
      /\ \A m \in Nodes :
           Swing(t, p, c, s).parent[m] = IF m = t.kid[c][Other(s)] THEN p ELSE t.parent[m]
  BY SwingIs
<1>2. /\ SwingBlack(t, p, c, s) \in TreeType
      /\ SwingBlack(t, p, c, s).root = Swing(t, p, c, s).root
      /\ SwingBlack(t, p, c, s).kid = Swing(t, p, c, s).kid
      /\ SwingBlack(t, p, c, s).parent = Swing(t, p, c, s).parent
  BY ZenonT(60), SwingBlackIs
<1>3. Swing(t, p, c, s).red = t.red
  BY SwingIs
<1>4. SameRed(t, Swing(t, p, c, s), Nil)
  BY <1>3, LinkNode DEF SameRed
<1>5. SameRed(t, SwingBlack(t, p, c, s), t.kid[c][Other(s)])
  BY ZenonT(60), SwingBlackIs DEF SameRed
<1>6. IsPulled(t, Swing(t, p, c, s), p, c, s)
  BY <1>1 DEF IsPulled
<1>7. IsPulled(t, SwingBlack(t, p, c, s), p, c, s)
  BY <1>1, <1>2 DEF IsPulled
<1>8. \A u : IsPulled(t, u, p, c, s) => IsSwing(t, u, p, c, s)
  BY DEF IsPulled, IsSwing
<1> QED BY <1>4, <1>5, <1>6, <1>7, <1>8

\* A search tree's types.
LEMMA ShapeIs ==
  ASSUME NEW t, NEW D, Shape(t, D)
  PROVE  /\ t \in TreeType /\ D \in [Nodes -> SUBSET Nodes]
         /\ t.root \in Link /\ (t.root # Nil => t.parent[t.root] = Nil)
  BY DEF Shape, Spread, Linked, TreeType

\* u has the links of t and its own colours.
OuterTree(t, p, c, s) == RotateSetParents(SwingBlack(t, p, c, s), p, c, TRUE)

\* c has the colour of p, p is red, and i is black.
OuterRed(t, u, p, c, i) ==
    \A m \in Nodes : u.red[m] = IF m = c THEN t.red[p] ELSE IF m = p THEN TRUE
                                 ELSE IF m = i THEN FALSE ELSE t.red[m]

\* A rotation whose inner child becomes black: the red sibling of
\* _hev_rbtree_erase_color, and the last of hev_rbtree_insert_color.
LEMMA OuterRotation ==
  ASSUME NEW t, NEW D, Shape(t, D), NEW p \in Nodes, NEW s \in Sides, t.kid[p][s] # Nil
  PROVE  /\ OuterTree(t, p, t.kid[p][s], s) \in TreeType
         /\ IsRot(t, OuterTree(t, p, t.kid[p][s], s), p, s)
         /\ OuterRed(t, OuterTree(t, p, t.kid[p][s], s), p, t.kid[p][s], t.kid[t.kid[p][s]][Other(s)])
<1> DEFINE c == t.kid[p][s]
           w == SwingBlack(t, p, c, s)
           i == t.kid[c][Other(s)]
           u == RotateSetParents(w, p, c, TRUE)
<1>0. t \in TreeType /\ p # Nil
  BY ShapeIs, LinkNode
<1>1. c \in Nodes /\ c # p /\ (i # Nil => i # p)
  BY RotNodes
<1>2. IsSwing(t, w, p, c, s)
  BY <1>0, <1>1, SwingOf
<1>3. \A m \in Nodes : w.red[m] = IF m = i THEN FALSE ELSE t.red[m]
  <2>1. SameRed(t, w, i)
    BY <1>0, <1>1, SwingOf
  <2> QED BY <2>1 DEF SameRed
<1> HIDE DEF w, i
<1>4. /\ u \in TreeType /\ IsRot(t, u, p, s)
      /\ \A m \in Nodes : u.red[m] = IF m = c THEN w.red[p] ELSE IF m = p THEN TRUE ELSE w.red[m]
  <2>1. \A r \in BOOLEAN : /\ RotateSetParents(w, p, c, r) \in TreeType
                           /\ IsRot(t, RotateSetParents(w, p, c, r), p, s)
                           /\ \A m \in Nodes : RotateSetParents(w, p, c, r).red[m] =
                                IF m = c THEN w.red[p] ELSE IF m = p THEN r ELSE w.red[m]
    BY <1>2, RotateIs
  <2> HIDE DEF c
  <2> QED BY <2>1, Zenon
<1>5. u = OuterTree(t, p, c, s)
  BY DEF OuterTree, w
<1> HIDE DEF u
<1>6. w.red[p] = t.red[p]
  BY <1>0, <1>1, <1>3
<1> HIDE DEF c
<1>7. /\ u \in TreeType /\ IsRot(t, u, p, s)
      /\ \A m \in Nodes : u.red[m] =
           IF m = c THEN t.red[p] ELSE IF m = p THEN TRUE
           ELSE IF m = i THEN FALSE ELSE t.red[m]
  BY <1>3, <1>4, <1>6
<1>8. OuterRed(t, u, p, c, i)
  BY <1>7 DEF OuterRed
<1> QED BY <1>5, <1>7, <1>8 DEF c, i

\* y has the links of t after two swings: c is pulled over p, its parent, and
\* over g, the parent of p on the other side.
IsSwings(t, y, g, p, c, s) ==
    LET z == Other(s)
        a == t.kid[c][s]
        b == t.kid[c][z]
    IN  /\ y \in TreeType /\ y.root = t.root
        /\ \A m \in Nodes : \A x \in Sides :
             y.kid[m][x] = IF m = g /\ x = s THEN b ELSE IF m = c /\ x = z THEN g
                           ELSE IF m = p /\ x = z THEN a ELSE IF m = c /\ x = s THEN p
                           ELSE t.kid[m][x]
        /\ \A m \in Nodes : m # c =>
             y.parent[m] = IF m = b THEN g ELSE IF m = p THEN c ELSE IF m = a THEN p
                           ELSE t.parent[m]

\* c below p below g in a bend, and the children of c.
IsBend(t, g, s, p, z, c, a, b) ==
    /\ p \in Nodes /\ p # g /\ t.parent[p] = g /\ c \in Nodes /\ c # p /\ c # g
    /\ t.parent[c] = p /\ g # Nil /\ p # Nil /\ c # Nil /\ t.root # p
    /\ a # Nil => a \in Nodes /\ t.parent[a] = c /\ a # p /\ a # c /\ a # g
    /\ b # Nil => b \in Nodes /\ t.parent[b] = c /\ b # p /\ b # c /\ b # g /\ b # a
    /\ \A m \in Nodes : \A x \in Sides : t.kid[m][x] = p => m = g /\ x = s
    /\ t.kid[g][s] = p /\ t.kid[p][z] = c /\ t.kid[c][s] = a /\ t.kid[c][z] = b

\* The nodes of a bend are different ones.
LEMMA BendNodes ==
  ASSUME NEW t, NEW D, Shape(t, D), NEW g \in Nodes, NEW s \in Sides,
         t.kid[g][s] # Nil, t.kid[t.kid[g][s]][Other(s)] # Nil
  PROVE  LET p == t.kid[g][s]
             c == t.kid[p][Other(s)]
         IN  IsBend(t, g, s, p, Other(s), c, t.kid[c][s], t.kid[c][Other(s)])
<1> DEFINE p == t.kid[g][s]
           z == Other(s)
           c == t.kid[p][z]
           a == t.kid[c][s]
           b == t.kid[c][z]
<1>1. t \in TreeType /\ z \in Sides /\ z # s /\ Other(z) = s
  BY OtherSide, ShapeIs
<1>2. /\ p \in Nodes /\ p # g /\ t.parent[p] = g /\ g # Nil /\ p # Nil
      /\ g \notin D[p]
  BY KidBelow, LinkNode
<1> HIDE DEF p
<1>3. c \in Nodes /\ c # p /\ t.parent[c] = p /\ c # Nil /\ D[c] \subseteq D[p] /\ c \in D[c] /\ p \notin D[c]
  BY <1>1, <1>2, KidBelow, LinkNode DEF p
<1> HIDE DEF c, z
<1>4. c # g
  BY <1>2, <1>3
<1>5. a # Nil => a \in Nodes /\ t.parent[a] = c /\ a # c /\ D[a] \subseteq D[c] /\ a \in D[a]
  BY <1>3, KidBelow
<1>6. b # Nil => b \in Nodes /\ t.parent[b] = c /\ b # c /\ D[b] \subseteq D[c] /\ b \in D[b] /\ b # a
  <2>1. b # Nil => b # t.kid[c][Other(z)]
    BY <1>1, <1>3, KidBelow
  <2> QED BY <1>1, <1>3, <2>1, KidBelow
<1> HIDE DEF a, b
<1>7. (a # Nil => a # p /\ a # g) /\ (b # Nil => b # p /\ b # g)
  BY <1>2, <1>3, <1>5, <1>6
<1>8. t.root # p
  BY <1>2, ShapeIs
<1>9. \A m \in Nodes : \A x \in Sides : t.kid[m][x] = p => m = g /\ x = s
  <2>1. ASSUME NEW m \in Nodes, NEW x \in Sides, t.kid[m][x] = p PROVE m = g /\ x = s
    <3>1. m = g
      BY <1>2, <2>1, KidBelow
    <3>2. t.kid[g][x] = p /\ t.kid[g][s] = p
      BY <2>1, <3>1 DEF p
    <3>3. x = s
      BY <1>2, <3>2, KidBelow, OtherSide
    <3> QED BY <3>1, <3>3
  <2> QED BY <2>1
<1>10. t.kid[g][s] = p /\ t.kid[p][z] = c /\ t.kid[c][s] = a /\ t.kid[c][z] = b
  BY DEF p, c, a, b
<1>11. IsBend(t, g, s, p, z, c, a, b)
  BY <1>2, <1>3, <1>4, <1>5, <1>6, <1>7, <1>8, <1>9, <1>10 DEF IsBend
<1> QED BY <1>11 DEF p, z, c, a, b

\* v and E are t and D after the first of two rotations, with the colours r, and
\* y has the links of v after the swing of the second.
IsTurned(t, D, g, s, p, z, c, r, v, E, y) ==
    /\ v.red = r /\ v \in TreeType /\ IsRot(t, v, p, z) /\ Shape(v, E)
    /\ Inside(v, E) = Inside(t, D) /\ v.kid[g][s] = c /\ IsSwing(v, y, g, c, s)

\* Two swings are what the first rotation leaves for the second.
LEMMA TwoSwings ==
  ASSUME NEW t, NEW D, Shape(t, D), NEW g \in Nodes, NEW s \in Sides,
         t.kid[g][s] # Nil, t.kid[t.kid[g][s]][Other(s)] # Nil,
         NEW y, IsSwings(t, y, g, t.kid[g][s], t.kid[t.kid[g][s]][Other(s)], s),
         NEW r \in [Nodes -> BOOLEAN]
  PROVE  IsTurned(t, D, g, s, t.kid[g][s], Other(s), t.kid[t.kid[g][s]][Other(s)], r,
                  RotTree(t, t.kid[g][s], Other(s), r), RotBelow(t, D, t.kid[g][s], Other(s)), y)
<1> DEFINE p == t.kid[g][s]
           z == Other(s)
           c == t.kid[p][z]
           a == t.kid[c][s]
           b == t.kid[c][z]
           v == RotTree(t, p, z, r)
           E == RotBelow(t, D, p, z)
<1>1. t \in TreeType /\ z \in Sides /\ z # s /\ Other(z) = s /\ c # Nil
  BY OtherSide, ShapeIs
<1>2. /\ p \in Nodes /\ p # g /\ t.parent[p] = g /\ c \in Nodes /\ c # p /\ c # g
      /\ t.parent[c] = p /\ g # Nil /\ p # Nil /\ c # Nil /\ t.root # p
      /\ a # Nil => a \in Nodes /\ t.parent[a] = c /\ a # p /\ a # c /\ a # g
      /\ b # Nil => b \in Nodes /\ t.parent[b] = c /\ b # p /\ b # c /\ b # g /\ b # a
      /\ \A m \in Nodes : \A x \in Sides : t.kid[m][x] = p => m = g /\ x = s
  <2>1. IsBend(t, g, s, p, z, c, a, b)
    BY BendNodes
  <2> HIDE DEF p, z, c, a, b
  <2> QED BY <2>1 DEF IsBend
<1> HIDE DEF p, z
<1>3. v \in TreeType /\ IsRot(t, v, p, z) /\ v.red = r
  BY <1>1, <1>2, RotTreeIs
<1> HIDE DEF v, E
<1>4. Shape(v, E) /\ Inside(v, E) = Inside(t, D)
  BY <1>1, <1>2, <1>3, RotShape DEF E
<1>5. /\ v.root = IF t.root = p THEN c ELSE t.root
      /\ \A m \in Nodes : \A x \in Sides :
             v.kid[m][x] = IF m = p /\ x = z THEN t.kid[c][Other(z)]
                           ELSE IF m = c /\ x = Other(z) THEN p
                           ELSE IF t.kid[m][x] = p THEN c ELSE t.kid[m][x]
      /\ \A m \in Nodes :
             v.parent[m] = IF m = c THEN t.parent[p] ELSE IF m = p THEN c
                           ELSE IF m = t.kid[c][Other(z)] THEN p ELSE t.parent[m]
  BY <1>3 DEF IsRot
<1>6. IsSwings(t, y, g, p, c, s)
  BY DEF p, z
<1>7. /\ y \in TreeType /\ y.root = t.root
      /\ \A m \in Nodes : \A x \in Sides :
           y.kid[m][x] = IF m = g /\ x = s THEN b ELSE IF m = c /\ x = z THEN g
                         ELSE IF m = p /\ x = z THEN a ELSE IF m = c /\ x = s THEN p
                         ELSE t.kid[m][x]
      /\ \A m \in Nodes : m # c =>
           y.parent[m] = IF m = b THEN g ELSE IF m = p THEN c ELSE IF m = a THEN p
                         ELSE t.parent[m]
  BY <1>6 DEF IsSwings, z
<1> HIDE DEF c
<1>8. t.kid[g][s] = p /\ t.kid[p][z] = c
  BY DEF p, c
<1> HIDE DEF a, b
<1>9. t.kid[c][s] = a /\ t.kid[c][z] = b
  BY DEF a, b
<1>10. v.kid[g][s] = c /\ v.kid[c][z] = b
  BY <1>1, <1>2, <1>5, <1>8, <1>9
<1>11. \A m \in Nodes : \A x \in Sides :
         y.kid[m][x] = IF m = g /\ x = s THEN b ELSE IF m = c /\ x = z THEN g ELSE v.kid[m][x]
  BY <1>1, <1>2, <1>5, <1>7, <1>8, <1>9
<1>12. \A m \in Nodes : m # c => y.parent[m] = IF m = b THEN g ELSE v.parent[m]
  BY <1>1, <1>2, <1>5, <1>7, <1>9
<1>13. v.root = y.root
  BY <1>2, <1>5, <1>7
<1>14. IsSwing(v, y, g, c, s)
  BY <1>7, <1>10, <1>11, <1>12, <1>13 DEF IsSwing, z
<1>15. IsTurned(t, D, g, s, p, z, c, r, v, E, y)
  BY <1>3, <1>4, <1>10, <1>14 DEF IsTurned
<1> QED BY <1>15 DEF p, z, c, v, E

-----------------------------------------------------------------------------
(* The walk: hev_rbtree_node_next and hev_rbtree_node_prev.                *)

\* m is the neighbour of n on side s, Nil if there is none.
StepOf(t, D, n, s, m) ==
    IF m = Nil THEN \A k \in Inside(t, D) : ~Beyond(n, s, k)
    ELSE /\ m \in Inside(t, D) /\ Beyond(n, s, m)
         /\ \A k \in Inside(t, D) : ~(Beyond(n, s, k) /\ Beyond(m, Other(s), k))

\* The first node above n that has n on the other side.
IsUp(f, t, s) ==
    f = [m \in Nodes |-> IF t.parent[m] # Nil /\ t.kid[t.parent[m]][s] = m THEN f[t.parent[m]]
                         ELSE t.parent[m]]

\* What it finds.
UpFrom(t, n, s) == (CHOOSE f : IsUp(f, t, s))[n]

\* hev_rbtree_node_next and prev go down where they can, else up.
LEMMA StepSplit ==
  ASSUME NEW t, NEW n, NEW s
  PROVE  Step(t, n, s) = IF t.parent[n] = n THEN Nil
                         ELSE IF t.kid[n][s] # Nil THEN End(t, t.kid[n][s], Other(s))
                         ELSE UpFrom(t, n, s)
  BY DEF Step, UpFrom, IsUp

\* The way up has an end,
LEMMA UpExists ==
  ASSUME NEW t \in TreeType, NEW s \in Sides
  PROVE  \E f : IsUp(f, t, s)
<1> DEFINE next == [m \in Nodes |-> IF t.parent[m] # Nil /\ t.kid[t.parent[m]][s] = m
                                    THEN t.parent[m] ELSE Nil]
           last == t.parent
<1>1. next \in [Nodes -> Link]
  BY TreeLinks, LinkNode
<1>2. PICK f : Follows(f, next, last)
  <2> HIDE DEF next, last
  <2> QED BY <1>1, FollowExists
<1>3. f = [m \in Nodes |-> IF next[m] = Nil THEN last[m] ELSE f[next[m]]]
  <2> HIDE DEF next, last
  <2> QED BY <1>2 DEF Follows
<1>4. \A m \in Nodes : (IF next[m] = Nil THEN last[m] ELSE f[next[m]])
                       = IF t.parent[m] # Nil /\ t.kid[t.parent[m]][s] = m THEN f[t.parent[m]]
                         ELSE t.parent[m]
  OBVIOUS
<1>5. f = [m \in Nodes |-> IF t.parent[m] # Nil /\ t.kid[t.parent[m]][s] = m THEN f[t.parent[m]]
                           ELSE t.parent[m]]
  <2> HIDE DEF next, last
  <2> QED BY <1>3, <1>4
<1> QED BY <1>5 DEF IsUp

\* goes on while one comes from side s,
LEMMA UpStep ==
  ASSUME NEW t \in TreeType, NEW s \in Sides, NEW n \in Nodes
  PROVE  UpFrom(t, n, s) = IF t.parent[n] # Nil /\ t.kid[t.parent[n]][s] = n
                           THEN UpFrom(t, t.parent[n], s) ELSE t.parent[n]
<1> DEFINE f == CHOOSE g : IsUp(g, t, s)
<1>1. IsUp(f, t, s)
  BY UpExists
<1> HIDE DEF f
<1>2. f[n] = IF t.parent[n] # Nil /\ t.kid[t.parent[n]][s] = n THEN f[t.parent[n]] ELSE t.parent[n]
  BY <1>1 DEF IsUp
<1>3. \A m : UpFrom(t, m, s) = f[m]
  BY DEF UpFrom, f
<1> QED BY <1>2, <1>3

\* What lies between a node and the one the way up ends at is below the node.
UpOf(t, D, n, s, e) ==
    IF e = Nil THEN \A k \in Inside(t, D) \ D[n] : ~Beyond(n, s, k)
    ELSE /\ e \in Inside(t, D) /\ n \in Below(t, D, e, Other(s))
         /\ \A k \in Inside(t, D) \ D[n] : ~(Beyond(n, s, k) /\ Beyond(e, Other(s), k))

\* is done where one does not,
LEMMA UpEnds ==
  ASSUME NEW t, NEW D, Shape(t, D), NEW s \in Sides, NEW n \in Inside(t, D),
         ~(t.parent[n] # Nil /\ t.kid[t.parent[n]][s] = n)
  PROVE  UpOf(t, D, n, s, t.parent[n])
<1>0. n \in Nodes /\ Other(s) \in Sides /\ Other(Other(s)) = s /\ \A x \in Sides : x = s \/ x = Other(s)
  BY InsideNodes, OtherSide
<1>1. CASE t.parent[n] = Nil
  <2>1. Inside(t, D) = D[n]
    BY <1>0, <1>1, InsideLinked, LinkNode
  <2> QED BY <1>1, <2>1 DEF UpOf
<1>2. CASE t.parent[n] # Nil
  <2> DEFINE p == t.parent[n]
  <2>1. p \in Nodes /\ p \in Inside(t, D)
    BY <1>0, <1>2, InsideLinked, InsideNodes
  <2>2. t.kid[p][Other(s)] = n
    <3>1. PICK x \in Sides : t.kid[p][x] = n
      BY <1>0, <1>2 DEF Shape, Linked
    <3> QED BY <1>0, <1>2, <3>1
  <2>3. Below(t, D, p, Other(s)) = D[n] /\ n \in Below(t, D, p, Other(s)) /\ n \in D[p]
    BY <1>0, <2>1, <2>2, KidBelow, LinkNode
  <2>4. ASSUME NEW k \in Inside(t, D) \ D[n], Beyond(n, s, k), Beyond(p, Other(s), k) PROVE FALSE
    <3>1. k \in Nodes
      BY InsideNodes
    <3>2. k # p
      BY <2>1, <2>4, <1>0, BeyondOne
    <3>3. k \notin Below(t, D, p, s)
      BY <1>0, <2>1, <2>4, <3>1, BeyondOne DEF Shape, Sorted
    <3>4. k \notin D[p]
      BY <1>0, <2>1, <2>3, <2>4, <3>2, <3>3, BelowNodes
    <3>5. Beyond(n, Other(s), k)
      BY <1>0, <2>1, <2>3, <2>4, <3>4, Outside
    <3> QED BY <1>0, <2>4, <3>1, <3>5, BeyondOne
  <2> QED BY <1>2, <2>1, <2>3, <2>4 DEF UpOf
<1> QED BY <1>1, <1>2

\* and otherwise is the way up from the parent.
LEMMA UpGoes ==
  ASSUME NEW t, NEW D, Shape(t, D), NEW s \in Sides, NEW n \in Inside(t, D), NEW e,
         t.parent[n] # Nil, t.kid[t.parent[n]][s] = n, UpOf(t, D, t.parent[n], s, e)
  PROVE  UpOf(t, D, n, s, e)
<1> DEFINE p == t.parent[n]
<1>0. n \in Nodes /\ Other(s) \in Sides /\ Other(Other(s)) = s /\ \A x \in Sides : x = s \/ x = Other(s)
  BY InsideNodes, OtherSide
<1>1. p \in Nodes /\ p \in Inside(t, D)
  BY <1>0, InsideLinked, InsideNodes
<1>2. Below(t, D, p, s) = D[n] /\ n \in Below(t, D, p, s) /\ n \in D[p]
  BY <1>0, <1>1, KidBelow, LinkNode
<1>3. Beyond(p, s, n)
  BY <1>1, <1>2 DEF Shape, Sorted
<1> HIDE DEF p
<1>4. ASSUME NEW k \in Inside(t, D) \ D[n], Beyond(n, s, k)
      PROVE  Beyond(p, s, k) /\ k \notin D[p]
  <2>1. k \in Nodes
    BY InsideNodes
  <2>2. Beyond(p, s, k)
    BY <1>0, <1>1, <1>3, <1>4, <2>1, BeyondChain
  <2>3. k # p
    BY <1>1, <2>2, BeyondOne
  <2>4. k \notin Below(t, D, p, Other(s))
    BY <1>0, <1>1, <2>1, <2>2, BeyondOne DEF Shape, Sorted
  <2> QED BY <1>0, <1>1, <1>2, <1>4, <2>2, <2>3, <2>4, BelowNodes
<1>5. e # Nil => n \in Below(t, D, e, Other(s))
  <2>1. ASSUME e # Nil PROVE n \in Below(t, D, e, Other(s))
    <3>1. e \in Inside(t, D) /\ p \in Below(t, D, e, Other(s))
      BY <2>1 DEF UpOf, p
    <3>2. e \in Nodes
      BY <3>1, InsideNodes
    <3> QED BY <1>0, <1>2, <3>1, <3>2, NestedBelow
  <2> QED BY <2>1
<1> QED BY <1>4, <1>5 DEF UpOf, p

\* So it ends at the nearest node above on the other side,
LEMMA UpIs ==
  ASSUME NEW t, NEW D, Shape(t, D), NEW s \in Sides, NEW n \in Inside(t, D)
  PROVE  UpOf(t, D, n, s, UpFrom(t, n, s))
<1> DEFINE B == {m \in Inside(t, D) : ~UpOf(t, D, m, s, UpFrom(t, m, s))}
<1>1. SUFFICES ASSUME B # {} PROVE FALSE
  OBVIOUS
<1>2. PICK m \in B : \A x \in B : m \in D[x] => x = m
  <2>1. B \subseteq Nodes
    BY InsideNodes
  <2> HIDE DEF B
  <2> QED BY <1>1, <2>1, Highest
<1>3. m \in Nodes /\ m \in Inside(t, D) /\ ~UpOf(t, D, m, s, UpFrom(t, m, s)) /\ t \in TreeType
  BY <1>2, InsideNodes, ShapeIs
<1>4. CASE ~(t.parent[m] # Nil /\ t.kid[t.parent[m]][s] = m)
  <2>1. UpFrom(t, m, s) = t.parent[m]
    BY <1>3, <1>4, UpStep
  <2> QED BY <1>3, <1>4, <2>1, UpEnds
<1>5. CASE t.parent[m] # Nil /\ t.kid[t.parent[m]][s] = m
  <2> DEFINE p == t.parent[m]
  <2>1. UpFrom(t, m, s) = UpFrom(t, p, s)
    BY <1>3, <1>5, UpStep
  <2>2. p \in Nodes /\ p \in Inside(t, D)
    BY <1>3, <1>5, InsideLinked, InsideNodes
  <2>3. m \in D[p] /\ p # m
    BY <1>3, <1>5, <2>2, KidBelow, LinkNode
  <2>4. p \notin B
    BY <1>2, <2>3
  <2>5. UpOf(t, D, p, s, UpFrom(t, p, s))
    BY <2>2, <2>4
  <2> QED BY <1>3, <1>5, <2>1, <2>5, UpGoes
<1> QED BY <1>4, <1>5

\* and next and prev find the nearest node in the order of the names.
LEMMA StepIs ==
  ASSUME NEW t, NEW D, Shape(t, D), NEW s \in Sides, NEW n \in Inside(t, D)
  PROVE  StepOf(t, D, n, s, Step(t, n, s))
<1>0. /\ n \in Nodes /\ t \in TreeType /\ Inside(t, D) \subseteq Nodes
      /\ Other(s) \in Sides /\ Other(Other(s)) = s /\ \A x \in Sides : x = s \/ x = Other(s)
  BY InsideNodes, OtherSide, ShapeIs
<1>1. t.parent[n] # n
  <2>1. ASSUME t.parent[n] = n PROVE FALSE
    <3>1. PICK x \in Sides : t.kid[n][x] = n
      BY <1>0, <2>1, LinkNode DEF Shape, Linked
    <3> QED BY <1>0, <3>1, KidBelow, LinkNode
  <2> QED BY <2>1
<1>2. CASE t.kid[n][s] # Nil
  <2> DEFINE c == t.kid[n][s]
             e == End(t, c, Other(s))
  <2>1. Step(t, n, s) = e
    BY <1>1, <1>2, StepSplit
  <2>2. c \in Nodes /\ Below(t, D, n, s) = D[c]
    BY <1>0, <1>2, KidBelow
  <2>3. EndOf(t, D, c, Other(s), e)
    BY <1>0, <2>2, EndIs
  <2> HIDE DEF e, c
  <2>4. /\ e \in Below(t, D, n, s) /\ e \in D[n] /\ e \in Nodes /\ e # Nil /\ e \in Inside(t, D)
        /\ \A m \in Below(t, D, n, s) : m = e \/ Beyond(m, Other(s), e)
    <3>1. e \in Below(t, D, n, s) /\ \A m \in Below(t, D, n, s) : m = e \/ Beyond(m, Other(s), e)
      BY <2>2, <2>3 DEF EndOf
    <3>2. e \in D[n] /\ e \in Nodes
      BY <1>0, <3>1, BelowNodes
    <3> QED BY <1>0, <3>1, <3>2, InsideLinked, LinkNode
  <2>5. Beyond(n, s, e)
    BY <1>0, <2>4 DEF Shape, Sorted
  <2>6. ASSUME NEW k \in Inside(t, D), Beyond(n, s, k), Beyond(e, Other(s), k) PROVE FALSE
    <3>1. k \in Nodes
      BY <1>0
    <3>2. k # n
      BY <1>0, <2>6, BeyondOne
    <3>3. k \notin Below(t, D, n, Other(s))
      BY <1>0, <2>6, <3>1, BeyondOne DEF Shape, Sorted
    <3>4. k \in Below(t, D, n, s) => FALSE
      <4>1. ASSUME k \in Below(t, D, n, s) PROVE FALSE
        <5>1. k # e
          BY <1>0, <2>4, <2>6, BeyondOne
        <5>2. Beyond(k, Other(s), e)
          BY <2>4, <4>1, <5>1
        <5>3. Beyond(k, s, e)
          BY <1>0, <2>6, BeyondTurn
        <5> QED BY <1>0, <2>4, <3>1, <5>2, <5>3, BeyondOne
      <4> QED BY <4>1
    <3>5. k \notin D[n]
      BY <1>0, <3>2, <3>3, <3>4, BelowNodes
    <3>6. Beyond(e, s, k)
      BY <1>0, <2>4, <2>6, <3>5, Outside
    <3> QED BY <1>0, <2>4, <2>6, <3>1, <3>6, BeyondOne
  <2> QED BY <2>1, <2>4, <2>5, <2>6 DEF StepOf
<1>3. CASE t.kid[n][s] = Nil
  <2> DEFINE e == UpFrom(t, n, s)
  <2>1. Step(t, n, s) = e
    BY <1>1, <1>3, StepSplit
  <2>2. UpOf(t, D, n, s, e)
    BY UpIs
  <2> HIDE DEF e
  <2>3. ASSUME NEW k \in Inside(t, D), Beyond(n, s, k) PROVE k \notin D[n]
    <3>1. k \in Nodes /\ Below(t, D, n, s) = {}
      BY <1>0, <1>3 DEF Below, Sub
    <3>2. k # n
      BY <1>0, <2>3, BeyondOne
    <3>3. k \notin Below(t, D, n, Other(s))
      BY <1>0, <2>3, <3>1, BeyondOne DEF Shape, Sorted
    <3> QED BY <1>0, <3>1, <3>2, <3>3, BelowNodes
  <2>4. CASE e = Nil
    BY <2>1, <2>2, <2>3, <2>4 DEF UpOf, StepOf
  <2>5. CASE e # Nil
    <3>1. e \in Inside(t, D) /\ n \in Below(t, D, e, Other(s))
      BY <2>2, <2>5 DEF UpOf
    <3>2. Beyond(e, Other(s), n)
      BY <1>0, <3>1 DEF Shape, Sorted
    <3>3. Beyond(n, s, e)
      BY <1>0, <3>2, BeyondTurn
    <3> QED BY <2>1, <2>2, <2>3, <2>5, <3>1, <3>3 DEF UpOf, StepOf
  <2> QED BY <2>4, <2>5
<1> QED BY <1>2, <1>3

\* The ends of the tree.
LEMMA FarEnd ==
  ASSUME NEW t, NEW D, Shape(t, D), NEW s \in Sides, t.root # Nil
  PROVE  \A k \in Inside(t, D) : ~Beyond(End(t, t.root, s), s, k)
<1> DEFINE e == End(t, t.root, s)
<1>1. t.root \in Nodes /\ Inside(t, D) = D[t.root] /\ Inside(t, D) \subseteq Nodes
  BY InsideNodes, ShapeIs, LinkNode DEF Inside, Sub
<1>2. EndOf(t, D, t.root, s, e)
  BY <1>1, EndIs
<1> HIDE DEF e
<1>3. e \in Nodes /\ \A m \in Inside(t, D) : m = e \/ Beyond(m, s, e)
  BY <1>1, <1>2 DEF EndOf
<1>4. ASSUME NEW k \in Inside(t, D), Beyond(e, s, k) PROVE FALSE
  <2>1. k \in Nodes /\ k # e
    BY <1>1, <1>3, <1>4, BeyondOne
  <2>2. Beyond(k, s, e)
    BY <1>3, <2>1
  <2>3. Beyond(k, Other(s), e)
    BY <1>4, BeyondTurn
  <2> QED BY <1>3, <2>1, <2>2, <2>3, BeyondOne
<1> QED BY <1>4 DEF e

-----------------------------------------------------------------------------
(* Colours.  h[n] is the number of black nodes on a path down from n, n not *)
(* counted.                                                                *)

\* The black nodes on a path down through x.
Weight(t, h, x) == IF x = Nil THEN 0 ELSE IF t.red[x] THEN h[x] ELSE h[x] + 1

\* One where a black node is missing: through the child of f on side d.
Lack(n, s, f, d) == IF n = f /\ s = d THEN 1 ELSE 0

\* All paths down have as many black nodes, but for those through the child of
\* f on side d, which have one too few.
Even(t, D, h, f, d) ==
    /\ h \in [Nodes -> Nat]
    /\ \A n \in Inside(t, D) : \A s \in Sides :
         h[n] = Weight(t, h, t.kid[n][s]) + Lack(n, s, f, d)

\* The root is black and no red node has a red parent, but for x.
Calm(t, D, x) ==
    \A n \in Inside(t, D) : t.red[n] /\ n # x => n # t.root /\ ~t.red[t.parent[n]]

\* Links are not changed by colours.
LEMMA ShapeRed ==
  ASSUME NEW t, NEW D, Shape(t, D), NEW u \in TreeType,
         u.root = t.root, u.kid = t.kid, u.parent = t.parent
  PROVE  Shape(u, D) /\ Inside(u, D) = Inside(t, D) /\ \A n, s : Below(u, D, n, s) = Below(t, D, n, s)
<1>1. Inside(u, D) = Inside(t, D) /\ \A n, s : Below(u, D, n, s) = Below(t, D, n, s)
  BY DEF Inside, Below, Sub
<1>2. Linked(u)
  BY DEF Shape, Linked
<1>3. Spread(u, D) /\ Sorted(u, D) /\ Clean(u, D)
  BY <1>1 DEF Shape, Spread, Sorted, Clean
<1> QED BY <1>1, <1>2, <1>3 DEF Shape

\* Weights are natural numbers.
LEMMA WeightNat ==
  ASSUME NEW t \in TreeType, NEW h \in [Nodes -> Nat], NEW x \in Link
  PROVE  /\ Weight(t, h, x) \in Nat
         /\ x # Nil => x \in Nodes /\ h[x] \in Nat /\ t.red[x] \in BOOLEAN
         /\ x # Nil /\ ~t.red[x] => Weight(t, h, x) = h[x] + 1
         /\ x # Nil /\ t.red[x] => Weight(t, h, x) = h[x]
         /\ x = Nil => Weight(t, h, x) = 0
  BY LinkNode DEF Weight, TreeType

\* A red child is pulled over its parent and takes its colour: the heights stay.
LEMMA SwapEven ==
  ASSUME NEW t, NEW D, Shape(t, D), NEW p \in Nodes, NEW s \in Sides, t.kid[p][s] # Nil,
         NEW u \in TreeType, IsRot(t, u, p, s),
         t.red[t.kid[p][s]],
         \A m \in Nodes : u.red[m] = IF m = t.kid[p][s] THEN t.red[p] ELSE IF m = p THEN TRUE ELSE t.red[m],
         NEW h, NEW f, NEW d, Even(t, D, h, f, d), f # t.kid[p][s], ~(f = p /\ d = s)
  PROVE  Even(u, RotBelow(t, D, p, s), h, f, d)
<1> DEFINE c == t.kid[p][s]
           z == Other(s)
           i == t.kid[c][z]
           o == t.kid[p][z]
           q == t.kid[c][s]
           E == RotBelow(t, D, p, s)
<1>0. t \in TreeType /\ z \in Sides /\ z # s
  BY OtherSide, ShapeIs
<1>1. /\ c \in Nodes /\ c # p
      /\ i # Nil => i \in Nodes /\ i # p /\ i # c
      /\ o # Nil => o \in Nodes /\ o # p /\ o # c
      /\ q # Nil => q \in Nodes /\ q # p /\ q # c /\ q # i
      /\ p # Nil /\ p \in Inside(t, D) /\ c \in Inside(t, D)
  BY RotNodes
<1>2. \A n \in Nodes : \A x \in Sides :
        /\ t.kid[n][x] \in Link
        /\ t.kid[n][x] = c => n = p /\ x = s
        /\ t.kid[n][x] = p => n # c /\ n # p
  <2>1. ASSUME NEW n \in Nodes, NEW x \in Sides, t.kid[n][x] = c PROVE n = p /\ x = s
    <3>1. n = p
      BY <1>1, <2>1, LinkNode, RotNodes, KidBelow
    <3> QED BY <2>1, <3>1, KidBelow, OtherSide
  <2>2. ASSUME NEW n \in Nodes, NEW x \in Sides, t.kid[n][x] = p PROVE n # c /\ n # p
    <3>1. t.parent[p] = n
      BY <1>1, <2>2, KidBelow
    <3> QED BY <3>1, RotNodes
  <2> QED BY <1>0, <2>1, <2>2, TreeLinks
<1>3. h \in [Nodes -> Nat]
  BY DEF Even
<1>4. \A n \in Inside(t, D) : n \in Nodes /\ \A x \in Sides : h[n] = Weight(t, h, t.kid[n][x]) + Lack(n, x, f, d)
  BY InsideNodes DEF Even
<1>5. Inside(u, E) = Inside(t, D)
  BY RotShape
<1>6. /\ \A n \in Nodes : \A x \in Sides :
           u.kid[n][x] = IF n = p /\ x = s THEN i
                         ELSE IF n = c /\ x = z THEN p
                         ELSE IF t.kid[n][x] = p THEN c ELSE t.kid[n][x]
  BY DEF IsRot
<1> HIDE DEF E
<1>7. c # Nil
  OBVIOUS
<1> HIDE DEF c
<1>8. t.red[c] /\ t.kid[p][s] = c /\ f # c /\ ~(f = p /\ d = s)
      /\ \A m \in Nodes : u.red[m] = IF m = c THEN t.red[p] ELSE IF m = p THEN TRUE ELSE t.red[m]
  BY DEF c
<1>10. Weight(u, h, p) = h[p] /\ Weight(t, h, c) = h[c] /\ h[p] \in Nat /\ h[c] \in Nat
  BY <1>1, <1>3, <1>7, <1>8 DEF Weight
<1>11. h[p] = h[c]
  <2>1. Lack(p, s, f, d) = 0
    BY <1>8 DEF Lack
  <2> QED BY <1>1, <1>4, <1>8, <1>10, <2>1
<1>9. Weight(u, h, c) = Weight(t, h, p)
      /\ \A x \in Link : x # c /\ x # p => Weight(u, h, x) = Weight(t, h, x)
  BY <1>1, <1>7, <1>8, <1>11, LinkNode DEF Weight
<1>12. /\ h[p] = Weight(u, h, u.kid[p][s]) + Lack(p, s, f, d)
       /\ h[c] = Weight(u, h, u.kid[c][z]) + Lack(c, z, f, d)
       /\ i # c /\ i # p /\ i \in Link
  <2>1. h[c] = Weight(t, h, i) + Lack(c, z, f, d)
    BY <1>0, <1>1, <1>4
  <2>2. i # c /\ i # p /\ i \in Link
    BY <1>1, <1>7, LinkNode
  <2>3. Lack(p, s, f, d) = 0 /\ Lack(c, z, f, d) = 0
    BY <1>8 DEF Lack
  <2>4. u.kid[p][s] = i /\ u.kid[c][z] = p
    BY <1>0, <1>1, <1>6
  <2>5. Weight(u, h, i) = Weight(t, h, i) /\ Weight(t, h, i) \in Nat
    BY <1>0, <1>3, <1>9, <2>2, WeightNat
  <2>6. Weight(u, h, u.kid[p][s]) = Weight(t, h, i)
    BY <2>4, <2>5
  <2>7. Weight(u, h, u.kid[c][z]) = h[p]
    BY <1>10, <2>4
  <2>8. h[c] = Weight(t, h, i)
    BY <2>1, <2>3, <2>5
  <2>9. h[p] = Weight(u, h, u.kid[p][s]) + Lack(p, s, f, d)
    BY <1>10, <1>11, <2>3, <2>5, <2>6, <2>8
  <2>10. h[c] = Weight(u, h, u.kid[c][z]) + Lack(c, z, f, d)
    BY <1>10, <1>11, <2>3, <2>7
  <2> QED BY <2>2, <2>9, <2>10
<1>13. ASSUME NEW n \in Inside(t, D), NEW x \in Sides, ~(n = p /\ x = s), ~(n = c /\ x = z)
       PROVE  h[n] = Weight(u, h, u.kid[n][x]) + Lack(n, x, f, d)
  <2>1. n \in Nodes /\ h[n] = Weight(t, h, t.kid[n][x]) + Lack(n, x, f, d)
    BY <1>4
  <2>2. u.kid[n][x] = IF t.kid[n][x] = p THEN c ELSE t.kid[n][x]
    BY <1>6, <1>13, <2>1
  <2>3. Weight(u, h, u.kid[n][x]) = Weight(t, h, t.kid[n][x])
    BY <1>2, <1>9, <1>13, <2>1, <2>2
  <2> QED BY <2>1, <2>3
<1> QED BY <1>3, <1>5, <1>12, <1>13 DEF Even, E

\* A node is the child of one node on one side.
LEMMA KidOnce ==
  ASSUME NEW t, NEW D, Shape(t, D), NEW n \in Nodes, NEW s \in Sides, t.kid[n][s] # Nil,
         NEW m \in Nodes, NEW x \in Sides, t.kid[m][x] = t.kid[n][s]
  PROVE  m = n /\ x = s
<1>1. m = n
  BY KidBelow
<1>2. x = s
  BY <1>1, KidBelow, OtherSide
<1> QED BY <1>1, <1>2

\* Who has the nodes of a rotation as a child.
LEMMA RotKids ==
  ASSUME NEW t, NEW D, Shape(t, D), NEW p \in Nodes, NEW s \in Sides, t.kid[p][s] # Nil
  PROVE  \A n \in Nodes : \A x \in Sides :
           /\ t.kid[n][x] \in Link
           /\ t.kid[n][x] = t.kid[p][s] => n = p /\ x = s
           /\ t.kid[n][x] = p => n # t.kid[p][s] /\ n # p
<1> DEFINE c == t.kid[p][s]
<1>1. ASSUME NEW n \in Nodes, NEW x \in Sides, t.kid[n][x] = c PROVE n = p /\ x = s
  BY <1>1, KidOnce
<1>2. ASSUME NEW n \in Nodes, NEW x \in Sides, t.kid[n][x] = p PROVE n # c /\ n # p
  <2>1. t.parent[p] = n
    BY <1>2, KidBelow, LinkNode
  <2> QED BY <2>1, RotNodes
<1>3. \A n \in Nodes : \A x \in Sides : t.kid[n][x] \in Link
  BY ShapeIs, TreeLinks
<1> QED BY <1>1, <1>2, <1>3

\* The black sibling c of the child that lacks a black node is pulled over p,
\* and its red outer child becomes black.
LEMMA OuterEven ==
  ASSUME NEW t, NEW D, Shape(t, D), NEW p \in Nodes, NEW s \in Sides, t.kid[p][s] # Nil,
         NEW u \in TreeType, IsRot(t, u, p, s),
         ~t.red[t.kid[p][s]], t.kid[t.kid[p][s]][s] # Nil, t.red[t.kid[t.kid[p][s]][s]],
         \A m \in Nodes : u.red[m] = IF m = t.kid[p][s] THEN t.red[p]
                                      ELSE IF m = p \/ m = t.kid[t.kid[p][s]][s] THEN FALSE
                                      ELSE t.red[m],
         NEW h, Even(t, D, h, p, Other(s))
  PROVE  Even(u, RotBelow(t, D, p, s),
              [h EXCEPT ![p] = h[t.kid[p][s]], ![t.kid[p][s]] = h[p]], Nil, "left")
<1> DEFINE c == t.kid[p][s]
           z == Other(s)
           i == t.kid[c][z]
           o == t.kid[p][z]
           q == t.kid[c][s]
           E == RotBelow(t, D, p, s)
           k == [h EXCEPT ![p] = h[c], ![c] = h[p]]
<1>0. t \in TreeType /\ z \in Sides /\ z # s
  BY OtherSide, ShapeIs
<1>1. /\ c \in Nodes /\ c # p
      /\ i # Nil => i \in Nodes /\ i # p /\ i # c
      /\ o # Nil => o \in Nodes /\ t.parent[o] = p /\ o # p /\ o # c
      /\ q # Nil => q \in Nodes /\ t.parent[q] = c /\ q # p /\ q # c /\ q # i
      /\ p # Nil /\ p \in Inside(t, D) /\ c \in Inside(t, D)
  BY RotNodes
<1>2. \A n \in Nodes : \A x \in Sides :
        /\ t.kid[n][x] \in Link
        /\ t.kid[n][x] = c => n = p /\ x = s
        /\ t.kid[n][x] = p => n # c /\ n # p
        /\ t.kid[n][x] = q => n = c /\ x = s
  <2>1. ASSUME NEW n \in Nodes, NEW x \in Sides, t.kid[n][x] = q PROVE n = c /\ x = s
    BY <1>1, <2>1, KidOnce
  <2> QED BY <2>1, RotKids
<1>3. h \in [Nodes -> Nat]
  BY DEF Even
<1>4. /\ \A n \in Inside(t, D) : n \in Nodes /\ \A x \in Sides :
           h[n] = Weight(t, h, t.kid[n][x]) + Lack(n, x, p, z)
      /\ c # Nil /\ q # Nil /\ ~t.red[c] /\ t.red[q]
  BY InsideNodes DEF Even
<1>5. Inside(u, E) = Inside(t, D)
  BY RotShape
<1>6. /\ \A n \in Nodes : \A x \in Sides :
           u.kid[n][x] = IF n = p /\ x = s THEN i
                         ELSE IF n = c /\ x = z THEN p
                         ELSE IF t.kid[n][x] = p THEN c ELSE t.kid[n][x]
      /\ \A m \in Nodes : u.red[m] = IF m = c THEN t.red[p] ELSE IF m = p \/ m = q THEN FALSE ELSE t.red[m]
  BY DEF IsRot
<1>7. /\ k \in [Nodes -> Nat] /\ k[p] = h[c] /\ k[c] = h[p]
      /\ \A n \in Nodes : n # p /\ n # c => k[n] = h[n]
  BY <1>1, <1>3
<1>8. t.kid[p][s] = c /\ t.kid[c][s] = q /\ t.kid[c][z] = i /\ t.kid[p][z] = o
  OBVIOUS
<1> HIDE DEF E, c, z, i, o, q, k
<1>9. /\ Lack(p, s, p, z) = 0 /\ Lack(p, z, p, z) = 1 /\ Lack(c, s, p, z) = 0 /\ Lack(c, z, p, z) = 0
      /\ \A n \in Nodes : \A x \in Sides : Lack(n, x, Nil, "left") = 0 /\ (n # p => Lack(n, x, p, z) = 0)
  BY <1>0, <1>1, LinkNode DEF Lack
<1>10. /\ Weight(u, k, c) = Weight(t, h, p)
       /\ \A x \in Link : x # c /\ x # p /\ x # q => Weight(u, k, x) = Weight(t, h, x)
  BY <1>1, <1>4, <1>6, <1>7, LinkNode DEF Weight
<1>11. /\ h[p] \in Nat /\ h[c] \in Nat /\ h[q] \in Nat /\ i \in Link /\ o \in Link
       /\ Weight(t, h, i) \in Nat /\ Weight(t, h, o) \in Nat
       /\ Weight(t, h, c) = h[c] + 1 /\ Weight(t, h, q) = h[q]
  BY <1>0, <1>1, <1>3, <1>4, WeightNat, LinkNode
<1>12. /\ h[p] = h[c] + 1 /\ h[c] = h[q] /\ h[c] = Weight(t, h, i) /\ h[p] = Weight(t, h, o) + 1
  <2>1. /\ h[p] = Weight(t, h, c) + 0 /\ h[c] = Weight(t, h, q) + 0
        /\ h[c] = Weight(t, h, i) + 0 /\ h[p] = Weight(t, h, o) + 1
    BY <1>0, <1>1, <1>4, <1>8, <1>9
  <2> QED BY <1>11, <2>1
<1>13. Weight(u, k, p) = h[p] /\ Weight(u, k, q) = h[p] /\ Weight(u, k, i) = k[p] /\ Weight(u, k, o) = k[p]
  <2>1. Weight(u, k, p) = k[p] + 1 /\ Weight(u, k, q) = k[q] + 1 /\ k[q] = h[q]
    BY <1>1, <1>4, <1>6, <1>7 DEF Weight
  <2>2. i # c /\ i # p /\ i # q /\ o # c /\ o # p /\ o # q
    BY <1>1, <1>4, LinkNode
  <2>3. Weight(u, k, i) = Weight(t, h, i) /\ Weight(u, k, o) = Weight(t, h, o)
    BY <1>10, <1>11, <2>2
  <2>4. Weight(u, k, p) = h[p] /\ Weight(u, k, q) = h[p]
    BY <1>7, <1>12, <2>1
  <2>5. Weight(u, k, i) = k[p]
    BY <1>7, <1>12, <2>3
  <2>6. Weight(t, h, o) = h[c]
    BY <1>11, <1>12
  <2> QED BY <1>7, <2>3, <2>4, <2>5, <2>6
<1>14. ASSUME NEW n \in Inside(t, D), NEW x \in Sides, n # p, n # c
       PROVE  k[n] = Weight(u, k, u.kid[n][x])
  <2>1. n \in Nodes /\ h[n] = Weight(t, h, t.kid[n][x]) + 0 /\ t.kid[n][x] \in Link
    BY <1>2, <1>4, <1>9, <1>14
  <2>2. u.kid[n][x] = IF t.kid[n][x] = p THEN c ELSE t.kid[n][x]
    BY <1>6, <1>14, <2>1
  <2>3. Weight(u, k, u.kid[n][x]) = Weight(t, h, t.kid[n][x])
    BY <1>2, <1>10, <1>14, <2>1, <2>2
  <2>4. Weight(t, h, t.kid[n][x]) \in Nat
    BY <1>0, <1>3, <2>1, WeightNat
  <2>5. k[n] = h[n]
    BY <1>7, <1>14, <2>1
  <2> QED BY <2>1, <2>3, <2>4, <2>5
<1>15. /\ u.kid[p][s] = i /\ u.kid[p][z] = o /\ u.kid[c][z] = p /\ u.kid[c][s] = q
  BY <1>0, <1>1, <1>2, <1>4, <1>6, <1>8
<1>16. ASSUME NEW n \in Inside(t, D), NEW x \in Sides
       PROVE  k[n] = Weight(u, k, u.kid[n][x]) + Lack(n, x, Nil, "left")
  <2>1. k[n] = Weight(u, k, u.kid[n][x])
    <3>1. x = s \/ x = z
      BY OtherSide DEF z
    <3> QED BY <1>7, <1>13, <1>14, <1>15, <3>1
  <2>2. n \in Nodes /\ k[n] \in Nat
    BY <1>4, <1>7
  <2> QED BY <1>9, <2>1, <2>2
<1>17. Even(u, E, k, Nil, "left")
  BY <1>5, <1>7, <1>16 DEF Even
<1> QED BY <1>17 DEF E, c, k

\* The children of a node are those whose parent it is.
LEMMA KidSide ==
  ASSUME NEW t, NEW D, Shape(t, D), NEW n \in Nodes, NEW m \in Nodes, t.parent[m] = n, NEW s \in Sides
  PROVE  m = t.kid[n][s] \/ m = t.kid[n][Other(s)]
<1>1. PICK x \in Sides : t.kid[n][x] = m
  BY LinkNode DEF Shape, Linked
<1> QED BY <1>1, OtherSide

\* A red child without a red sibling or a red inner child is pulled over its
\* black parent, and they change colours.
LEMMA SwapCalm ==
  ASSUME NEW t, NEW D, Shape(t, D), NEW p \in Nodes, NEW s \in Sides, t.kid[p][s] # Nil,
         NEW u \in TreeType, IsRot(t, u, p, s), ~t.red[p],
         ~IsRed(t, t.kid[p][Other(s)]), ~IsRed(t, t.kid[t.kid[p][s]][Other(s)]),
         \A m \in Nodes : u.red[m] = IF m = t.kid[p][s] THEN t.red[p] ELSE IF m = p THEN TRUE ELSE t.red[m],
         t.red[t.kid[p][s]],
         NEW x, Calm(t, D, x), x = Nil \/ x = t.kid[t.kid[p][s]][s]
  PROVE  Calm(u, RotBelow(t, D, p, s), Nil)
<1> DEFINE c == t.kid[p][s]
           z == Other(s)
           i == t.kid[c][z]
           o == t.kid[p][z]
           q == t.kid[c][s]
           E == RotBelow(t, D, p, s)
<1>0. t \in TreeType /\ z \in Sides /\ z # s
  BY OtherSide, ShapeIs
<1>1. /\ c \in Nodes /\ c # p /\ t.parent[c] = p
      /\ i # Nil => i \in Nodes /\ i # p /\ i # c
      /\ o # Nil => o \in Nodes /\ t.parent[o] = p /\ o # p /\ o # c
      /\ q # Nil => q \in Nodes /\ t.parent[q] = c /\ q # p /\ q # c /\ q # i
      /\ p # Nil /\ p \in Inside(t, D) /\ c \in Inside(t, D)
  BY RotNodes
<1>2. \A n \in Nodes : t.parent[n] = p => n = c \/ n = o
  BY KidSide
<1>3. \A n \in Inside(t, D) : n \in Nodes /\ (t.red[n] /\ n # x => n # t.root /\ ~t.red[t.parent[n]])
  BY InsideNodes DEF Calm
<1>4. \A n \in Inside(t, D) : n # t.root => t.parent[n] \in Nodes
  BY <1>0, <1>3, InsideLinked, TreeLinks, LinkNode
<1>5. Inside(u, E) = Inside(t, D)
  BY RotShape
<1>6. /\ u.root = IF t.root = p THEN c ELSE t.root
      /\ \A n \in Nodes : u.parent[n] = IF n = c THEN t.parent[p] ELSE IF n = p THEN c
                                        ELSE IF n = i THEN p ELSE t.parent[n]
  BY DEF IsRot
<1>7. /\ \A m \in Nodes : u.red[m] = IF m = c THEN t.red[p] ELSE IF m = p THEN TRUE ELSE t.red[m]
      /\ t.red[c] /\ ~t.red[p] /\ (i = Nil \/ ~t.red[i]) /\ (o = Nil \/ ~t.red[o]) /\ (x = Nil \/ x = q)
  BY DEF IsRed
<1>8. q # Nil => q # t.root
  BY <1>1, ShapeIs, LinkNode
<1> HIDE DEF E, c, z, i, o, q
<1>9. ASSUME NEW n \in Inside(t, D), u.red[n]
      PROVE  n # u.root /\ ~u.red[u.parent[n]]
  <2>1. n \in Nodes /\ n # Nil /\ n # c
    BY <1>3, <1>7, <1>9, LinkNode
  <2>2. CASE n = p
    BY ZenonT(60), <1>1, <1>6, <1>7, <2>2
  <2>3. CASE n # p /\ n = x
    <3>1. n = q /\ n # i /\ n # t.root /\ t.parent[n] = c
      BY <1>1, <1>7, <1>8, <2>1, <2>3
    <3>2. u.parent[n] = c /\ ~u.red[c] /\ n # u.root
      BY <1>1, <1>6, <1>7, <2>1, <2>3, <3>1
    <3> QED BY <3>2
  <2>4. CASE n # p /\ n # x
    <3>1. t.red[n] /\ n # t.root /\ ~t.red[t.parent[n]] /\ n # i /\ n # o
      BY <1>3, <1>7, <1>9, <2>1, <2>4
    <3>2. t.parent[n] \in Nodes /\ t.parent[n] # c /\ t.parent[n] # p /\ u.parent[n] = t.parent[n]
      BY <1>2, <1>4, <1>6, <1>7, <2>1, <2>4, <3>1
    <3> QED BY <1>6, <1>7, <2>1, <3>1, <3>2
  <2> QED BY <2>2, <2>3, <2>4
<1> QED BY <1>5, <1>9 DEF Calm, E

\* The last rotation of an erasure: the child c takes the colour of p, and p
\* and the outer child of c are black.
LEMMA OuterCalm ==
  ASSUME NEW t, NEW D, Shape(t, D), NEW p \in Nodes, NEW s \in Sides, t.kid[p][s] # Nil,
         NEW u \in TreeType, IsRot(t, u, p, s), ~t.red[t.kid[p][s]],
         \A m \in Nodes : u.red[m] = IF m = t.kid[p][s] THEN t.red[p]
                                      ELSE IF m = p \/ m = t.kid[t.kid[p][s]][s] THEN FALSE
                                      ELSE t.red[m],
         Calm(t, D, Nil)
  PROVE  Calm(u, RotBelow(t, D, p, s), Nil)
<1> DEFINE c == t.kid[p][s]
           z == Other(s)
           i == t.kid[c][z]
           q == t.kid[c][s]
           E == RotBelow(t, D, p, s)
<1>0. t \in TreeType
  BY ShapeIs
<1>1. /\ c \in Nodes /\ c # p /\ t.parent[c] = p
      /\ p # Nil /\ p \in Inside(t, D) /\ c \in Inside(t, D) /\ t.parent[p] # p /\ t.parent[p] # c
      /\ t.root # c
      /\ q # Nil => q \in Nodes /\ q # p /\ q # c
  BY RotNodes
<1>2. \A n \in Nodes : t.parent[n] = c => n = q \/ n = i
  BY <1>1, KidSide
<1>3. \A n \in Inside(t, D) : n \in Nodes /\ n # Nil /\ (t.red[n] => n # t.root /\ ~t.red[t.parent[n]])
  BY InsideNodes, LinkNode DEF Calm
<1>4. \A n \in Inside(t, D) : n # t.root => t.parent[n] \in Nodes
  BY <1>0, <1>3, InsideLinked, TreeLinks, LinkNode
<1>5. Inside(u, E) = Inside(t, D)
  BY RotShape
<1>6. /\ u.root = IF t.root = p THEN c ELSE t.root
      /\ \A n \in Nodes : u.parent[n] = IF n = c THEN t.parent[p] ELSE IF n = p THEN c
                                        ELSE IF n = i THEN p ELSE t.parent[n]
  BY DEF IsRot
<1>7. /\ \A m \in Nodes : u.red[m] = IF m = c THEN t.red[p] ELSE IF m = p \/ m = q THEN FALSE ELSE t.red[m]
      /\ ~t.red[c]
  OBVIOUS
<1> HIDE DEF E, c, z, i, q
<1>8. ~u.red[p] /\ (q # Nil => ~u.red[q])
  BY <1>1, <1>7
<1>9. ASSUME NEW n \in Inside(t, D), u.red[n]
      PROVE  n # u.root /\ ~u.red[u.parent[n]]
  <2>1. n \in Nodes /\ n # Nil /\ n # p /\ n # q
    BY <1>1, <1>3, <1>8, <1>9
  <2>2. CASE n = c
    <3>1. t.red[p] /\ p # t.root /\ ~t.red[t.parent[p]] /\ t.parent[p] \in Nodes
      BY <1>1, <1>3, <1>4, <1>7, <1>9, <2>2
    <3> QED BY <1>1, <1>6, <1>7, <2>1, <2>2, <3>1
  <2>3. CASE n # c
    <3>1. t.red[n] /\ n # t.root /\ ~t.red[t.parent[n]] /\ t.parent[n] \in Nodes
      BY <1>3, <1>4, <1>7, <1>9, <2>1, <2>3
    <3>2. n # u.root
      BY <1>6, <2>3, <3>1
    <3>3. CASE n = i
      BY <1>6, <1>8, <2>1, <2>3, <3>2, <3>3
    <3>4. CASE n # i
      BY ZenonT(60), <1>2, <1>6, <1>7, <2>1, <2>3, <3>1, <3>4
    <3> QED BY <3>2, <3>3, <3>4
  <2> QED BY <2>2, <2>3
<1> QED BY <1>5, <1>9 DEF Calm, E

-----------------------------------------------------------------------------
(* The double rotations of the code.                                       *)

\* The swings of hev_rbtree_insert_color for a node on the inner side.
InsertTurn(t, g, p, c, s) ==
    SwingBlack([SetParent(SwingBlack(t, p, c, Other(s)), p, c) EXCEPT !.red[p] = TRUE], g, c, s)

\* Those of _hev_rbtree_erase_color where the inner nephew alone is red.
EraseTurn(t, g, p, c, s) ==
    SetBlack(SetParent(Swing([SwingBlack(t, p, c, Other(s)) EXCEPT !.kid[g][s] = c],
                             g, c, s), p, c), p)

\* The inner swing of a double rotation,
LEMMA TurnSwing ==
  ASSUME NEW t \in TreeType, NEW g \in Nodes, NEW s \in Sides, NEW p, NEW z, NEW c, NEW a, NEW b,
         z = Other(s), IsBend(t, g, s, p, z, c, a, b)
  PROVE  IsPulled(t, SwingBlack(t, p, c, z), p, c, z) /\ SameRed(t, SwingBlack(t, p, c, z), a)
<1>1. p \in Nodes /\ c \in Nodes /\ c # p /\ t.kid[c][s] = a
  BY DEF IsBend
<1>2. z \in Sides /\ Other(z) = s
  BY OtherSide
<1>3. IsPulled(t, SwingBlack(t, p, c, z), p, c, z) /\ SameRed(t, SwingBlack(t, p, c, z), a)
  BY <1>1, <1>2, SwingOf
<1> QED BY <1>3

\* The colours after them.
InsertRed(t, u, p, a, b) ==
    \A m \in Nodes : u.red[m] = IF m = a \/ m = b THEN FALSE ELSE IF m = p THEN TRUE ELSE t.red[m]

\* The colours after the two swings of an erase.
EraseRed(t, u, p, a) ==
    \A m \in Nodes : u.red[m] = IF m = a \/ m = p THEN FALSE ELSE t.red[m]

\* both swings of an insert,
LEMMA InsertSwings ==
  ASSUME NEW t \in TreeType, NEW g \in Nodes, NEW s \in Sides, NEW p, NEW z, NEW c, NEW a, NEW b,
         z = Other(s), IsBend(t, g, s, p, z, c, a, b)
  PROVE  /\ IsSwings(t, InsertTurn(t, g, p, c, s), g, p, c, s)
         /\ InsertRed(t, InsertTurn(t, g, p, c, s), p, a, b)
<1> DEFINE w == SwingBlack(t, p, c, z)
           v == SetParent(w, p, c)
           o == [v EXCEPT !.red[p] = TRUE]
           y == SwingBlack(o, g, c, s)
<1>1. /\ p \in Nodes /\ c \in Nodes /\ g # c /\ p # c /\ p # g /\ p # Nil
      /\ p # a /\ p # b
      /\ t.kid[c][s] = a /\ t.kid[c][z] = b
      /\ z \in Sides /\ z # s /\ Other(z) = s
  BY OtherSide, LinkNode DEF IsBend
<1>2. /\ w \in TreeType /\ w.root = t.root
      /\ \A m \in Nodes : \A x \in Sides :
           w.kid[m][x] = IF m = p /\ x = z THEN a ELSE IF m = c /\ x = s THEN p ELSE t.kid[m][x]
      /\ \A m \in Nodes : w.parent[m] = IF m = a THEN p ELSE t.parent[m]
      /\ \A m \in Nodes : w.red[m] = IF m = a THEN FALSE ELSE t.red[m]
  <2>1. IsPulled(t, w, p, c, z) /\ SameRed(t, w, a)
    BY TurnSwing
  <2> HIDE DEF w
  <2>2. /\ w \in TreeType /\ w.root = t.root
        /\ \A m \in Nodes : \A k \in Sides :
             w.kid[m][k] = IF m = p /\ k = z THEN t.kid[c][Other(z)]
                           ELSE IF m = c /\ k = Other(z) THEN p ELSE t.kid[m][k]
        /\ \A m \in Nodes : w.parent[m] = IF m = t.kid[c][Other(z)] THEN p ELSE t.parent[m]
        /\ \A m \in Nodes : w.red[m] = IF m = a THEN FALSE ELSE t.red[m]
    BY <2>1 DEF IsPulled, SameRed
  <2>3. Other(z) = s /\ t.kid[c][Other(z)] = a
    BY <1>1
  <2> QED BY ZenonT(60), <2>2, <2>3
<1> HIDE DEF w
<1>3. /\ v \in TreeType /\ v.root = w.root /\ v.kid = w.kid /\ v.red = w.red
      /\ \A m \in Nodes : v.parent[m] = IF m = p THEN c ELSE w.parent[m]
  BY <1>1, <1>2, SetParentIs, LinkNode
<1> HIDE DEF v
<1>4. /\ o \in TreeType /\ o.root = v.root /\ o.kid = v.kid /\ o.parent = v.parent
      /\ \A m \in Nodes : o.red[m] = IF m = p THEN TRUE ELSE v.red[m]
  BY <1>1, <1>3 DEF TreeType
<1> HIDE DEF o
<1>5. o.kid[c][z] = b
  BY <1>1, <1>2, <1>3, <1>4
<1>6. IsPulled(o, y, g, c, s) /\ SameRed(o, y, b)
  BY <1>1, <1>4, <1>5, SwingOf
<1> HIDE DEF y
<1>7. /\ y \in TreeType /\ y.root = o.root
      /\ \A m \in Nodes : \A x \in Sides :
           y.kid[m][x] = IF m = g /\ x = s THEN b ELSE IF m = c /\ x = z THEN g ELSE o.kid[m][x]
      /\ \A m \in Nodes : y.parent[m] = IF m = b THEN g ELSE o.parent[m]
      /\ \A m \in Nodes : y.red[m] = IF m = b THEN FALSE ELSE o.red[m]
  BY <1>5, <1>6 DEF IsPulled, SameRed
<1>8. InsertTurn(t, g, p, c, s) = y
  BY DEF InsertTurn, y, o, v, w
<1>9. /\ y.root = t.root
      /\ \A m \in Nodes : \A x \in Sides :
           y.kid[m][x] = IF m = g /\ x = s THEN b ELSE IF m = c /\ x = z THEN g
                         ELSE IF m = p /\ x = z THEN a ELSE IF m = c /\ x = s THEN p
                         ELSE t.kid[m][x]
  BY <1>2, <1>3, <1>4, <1>5, <1>6, <1>7
<1>10. \A m \in Nodes : y.parent[m] = IF m = b THEN g ELSE IF m = p THEN c ELSE IF m = a THEN p
                                      ELSE t.parent[m]
  BY <1>2, <1>3, <1>4, <1>5, <1>6, <1>7
<1>11. \A m \in Nodes : y.red[m] = IF m = a \/ m = b THEN FALSE ELSE IF m = p THEN TRUE ELSE t.red[m]
  <2>1. \A m \in Nodes : v.red[m] = IF m = a THEN FALSE ELSE t.red[m]
    BY <1>2, <1>3
  <2>2. \A m \in Nodes : o.red[m] = IF m = p THEN TRUE ELSE IF m = a THEN FALSE ELSE t.red[m]
    BY <1>4, <2>1
  <2> QED BY <1>1, <1>7, <2>2
<1>12. IsSwings(t, y, g, p, c, s)
  BY <1>1, <1>7, <1>9, <1>10 DEF IsSwings
<1>13. InsertRed(t, y, p, a, b)
  BY <1>11 DEF InsertRed
<1> QED BY <1>8, <1>12, <1>13

\* and both swings of an erase.
LEMMA EraseSwings ==
  ASSUME NEW t \in TreeType, NEW g \in Nodes, NEW s \in Sides, NEW p, NEW z, NEW c, NEW a, NEW b,
         z = Other(s), IsBend(t, g, s, p, z, c, a, b)
  PROVE  /\ IsSwings(t, EraseTurn(t, g, p, c, s), g, p, c, s)
         /\ EraseRed(t, EraseTurn(t, g, p, c, s), p, a)
<1> DEFINE w == SwingBlack(t, p, c, z)
           v == [w EXCEPT !.kid[g][s] = c]
           o == Swing(v, g, c, s)
           y == SetParent(o, p, c)
           x == SetBlack(y, p)
<1>1. /\ p \in Nodes /\ c \in Nodes /\ g # c /\ p # c /\ p # g /\ p # Nil
      /\ p # a /\ p # b
      /\ t.kid[c][s] = a /\ t.kid[c][z] = b
      /\ z \in Sides /\ z # s /\ Other(z) = s
  BY OtherSide, LinkNode DEF IsBend
<1>2. /\ w \in TreeType /\ w.root = t.root
      /\ \A m \in Nodes : \A k \in Sides :
           w.kid[m][k] = IF m = p /\ k = z THEN a ELSE IF m = c /\ k = s THEN p ELSE t.kid[m][k]
      /\ \A m \in Nodes : w.parent[m] = IF m = a THEN p ELSE t.parent[m]
      /\ \A m \in Nodes : w.red[m] = IF m = a THEN FALSE ELSE t.red[m]
  <2>1. IsPulled(t, w, p, c, z) /\ SameRed(t, w, a)
    BY TurnSwing
  <2> HIDE DEF w
  <2>2. /\ w \in TreeType /\ w.root = t.root
        /\ \A m \in Nodes : \A k \in Sides :
             w.kid[m][k] = IF m = p /\ k = z THEN t.kid[c][Other(z)]
                           ELSE IF m = c /\ k = Other(z) THEN p ELSE t.kid[m][k]
        /\ \A m \in Nodes : w.parent[m] = IF m = t.kid[c][Other(z)] THEN p ELSE t.parent[m]
        /\ \A m \in Nodes : w.red[m] = IF m = a THEN FALSE ELSE t.red[m]
    BY <2>1 DEF IsPulled, SameRed
  <2>3. Other(z) = s /\ t.kid[c][Other(z)] = a
    BY <1>1
  <2> QED BY ZenonT(60), <2>2, <2>3
<1> HIDE DEF w
<1>3. /\ v \in TreeType /\ v.root = w.root /\ v.parent = w.parent /\ v.red = w.red
      /\ \A m \in Nodes : \A k \in Sides :
           v.kid[m][k] = IF m = g /\ k = s THEN c ELSE w.kid[m][k]
  BY SMTT(20), <1>1, <1>2, KidIs, LinkNode
<1> HIDE DEF v
<1>4. v.kid[c][z] = b
  BY <1>1, <1>2, <1>3
<1>5. /\ o \in TreeType /\ o.root = v.root
      /\ \A m \in Nodes : \A k \in Sides :
           o.kid[m][k] =
             IF m = g /\ k = s THEN v.kid[c][Other(s)]
             ELSE IF m = c /\ k = Other(s) THEN g ELSE v.kid[m][k]
      /\ \A m \in Nodes :
           o.parent[m] = IF m = v.kid[c][Other(s)] THEN g ELSE v.parent[m]
      /\ \A m \in Nodes : o.red[m] = v.red[m]
  <2>1. IsPulled(v, o, g, c, s) /\ SameRed(v, o, Nil)
    BY <1>1, <1>3, SwingOf
  <2> HIDE DEF o
  <2> QED BY <2>1, LinkNode DEF IsPulled, SameRed
<1> HIDE DEF o
<1>6. /\ y \in TreeType /\ y.root = o.root /\ y.kid = o.kid /\ y.red = o.red
      /\ \A m \in Nodes : y.parent[m] = IF m = p THEN c ELSE o.parent[m]
  BY <1>1, <1>5, SetParentIs, LinkNode
<1> HIDE DEF y
<1>7. /\ x \in TreeType /\ x.root = y.root /\ x.kid = y.kid /\ x.parent = y.parent
      /\ \A m \in Nodes : x.red[m] = IF m = p THEN FALSE ELSE y.red[m]
  BY <1>1, <1>6, SetBlackIs, LinkNode
<1>8. EraseTurn(t, g, p, c, s) = x
  BY DEF EraseTurn, x, y, o, v, w
<1> HIDE DEF x
<1>9. /\ x.root = t.root
      /\ \A m \in Nodes : \A k \in Sides :
           x.kid[m][k] = IF m = g /\ k = s THEN b ELSE IF m = c /\ k = z THEN g
                         ELSE IF m = p /\ k = z THEN a ELSE IF m = c /\ k = s THEN p
                         ELSE t.kid[m][k]
  BY <1>2, <1>3, <1>4, <1>5, <1>6, <1>7
<1>10. \A m \in Nodes : x.parent[m] = IF m = b THEN g ELSE IF m = p THEN c ELSE IF m = a THEN p
                                      ELSE t.parent[m]
  BY <1>1, <1>2, <1>3, <1>4, <1>5, <1>6, <1>7
<1>11. \A m \in Nodes : x.red[m] = IF m = a \/ m = p THEN FALSE ELSE t.red[m]
  <2>1. \A m \in Nodes : v.red[m] = IF m = a THEN FALSE ELSE t.red[m]
    BY <1>2, <1>3
  <2>2. \A m \in Nodes : y.red[m] = IF m = a THEN FALSE ELSE t.red[m]
    BY <1>5, <1>6, <2>1
  <2> QED BY <1>7, <2>2
<1>12. IsSwings(t, x, g, p, c, s)
  BY <1>1, <1>7, <1>9, <1>10 DEF IsSwings
<1>13. EraseRed(t, x, p, a)
  BY <1>11 DEF EraseRed
<1> QED BY <1>8, <1>12, <1>13
=============================================================================
