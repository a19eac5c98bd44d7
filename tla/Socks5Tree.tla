----------------------------- MODULE Socks5Tree -----------------------------
(***************************************************************************)
(* The red-black tree an authenticator keeps its users in                  *)
(* (hev-rbtree.c, hev-rbtree.h, hev-socks5-authenticator.c).               *)
(*                                                                         *)
(* The links and colours are those of the code.  An operation searches and *)
(* links or unlinks in one step; its rebalancing loop makes one step per   *)
(* round, so that what its comments say of a round can be checked.  What   *)
(* the code writes twice, for a node on the left and on the right, is      *)
(* written once, with the side as a parameter.                             *)
(***************************************************************************)
EXTENDS Integers, FiniteSets, Sequences

CONSTANTS
    Nodes,     \* the users that may be in the tree (HevSocks5User.node)
    Names,     \* their names, sequences of bytes
    NameOf,    \* NameOf[n] is the name of n; several may have the same
    Nil        \* NULL

ASSUME NamesAssumption ==
    /\ IsFiniteSet(Nodes) /\ Nil \notin Nodes
    /\ Names \subseteq Seq(0 .. 255)
    /\ NameOf \in [Nodes -> Names]

VARIABLES
    tree,      \* the root, and kid, parent and colour of each node
    pc,        \* "idle", or the loop of insert_color or erase_color
    cur, par,  \* node and parent in that loop
    clearing,  \* hev_socks5_authenticator_clear is at work
    asked, ok  \* the last operation and its name, and what it gives back

vars == <<tree, pc, cur, par, clearing, asked, ok>>

Sides == {"left", "right"}

Link == Nodes \cup {Nil}

Other(s) == IF s = "left" THEN "right" ELSE "left"

NoKids == [s \in Sides |-> Nil]

\* The fields of a node that is in no tree: the code leaves them as they were,
\* and nothing reads them until hev_rbtree_node_link writes all of them.
Blank(t, n) == [t EXCEPT !.kid[n] = NoKids, !.parent[n] = Nil, !.red[n] = TRUE]

Init ==
    /\ tree = [root |-> Nil,
               kid |-> [n \in Nodes |-> NoKids],
               parent |-> [n \in Nodes |-> Nil],
               red |-> [n \in Nodes |-> TRUE]]
    /\ pc = "idle" /\ cur = Nil /\ par = Nil
    /\ clearing = FALSE
    /\ asked = <<>> /\ ok = TRUE

-----------------------------------------------------------------------------
(* Links and colours.  t is a tree.                                         *)

IsRed(t, n) == n # Nil /\ t.red[n]

SetParent(t, n, p) == IF n = Nil THEN t ELSE [t EXCEPT !.parent[n] = p]

SetBlack(t, n) == IF n = Nil THEN t ELSE [t EXCEPT !.red[n] = FALSE]

\* Mutant of ChangeChild: always the left child.
ChangeLeftChild(t, old, new, p) ==
    IF p = Nil THEN [t EXCEPT !.root = new]
    ELSE [t EXCEPT !.kid[p].left = new]

ChangeChild(t, old, new, p) ==
    IF p = Nil THEN [t EXCEPT !.root = new]
    ELSE LET s == IF t.kid[p].left = old THEN "left" ELSE "right"
         IN  [t EXCEPT !.kid[p][s] = new]

\* new takes the place, the parent and the colour of old, and old is its child.
RotateSetParents(t, old, new, red) ==
    LET u == [t EXCEPT !.parent[new] = t.parent[old], !.parent[old] = new,
                       !.red[new] = t.red[old], !.red[old] = red]
    IN  ChangeChild(u, old, new, t.parent[old])

\* The pointers of a rotation that pulls c, the child of p on side s, over p:
\* the inner child of c is handed to p.
Swing(t, p, c, s) ==
    LET inner == t.kid[c][Other(s)]
    IN  SetParent([t EXCEPT !.kid[p][s] = inner, !.kid[c][Other(s)] = p], inner, p)

\* The same where the child that is handed over becomes black.
SwingBlack(t, p, c, s) == SetBlack(Swing(t, p, c, s), t.kid[c][Other(s)])

\* The end of the tree below n on side s, n itself if there is nothing.
End(t, n, s) ==
    LET end[m \in Nodes] == IF t.kid[m][s] = Nil THEN m ELSE end[t.kid[m][s]]
    IN  end[n]

\* Mutant of First: the root is never the first.
FirstBelow(t) ==
    IF t.root = Nil \/ t.kid[t.root].left = Nil THEN Nil ELSE End(t, t.root, "left")

First(t) == IF t.root = Nil THEN Nil ELSE End(t, t.root, "left")

Last(t) == IF t.root = Nil THEN Nil ELSE End(t, t.root, "right")

\* Mutant of Step: the way up ends at the first parent.
StepShort(t, n, s) ==
    IF t.parent[n] = n THEN Nil
    ELSE IF t.kid[n][s] # Nil THEN End(t, t.kid[n][s], Other(s))
    ELSE t.parent[n]

\* hev_rbtree_node_next for "right", hev_rbtree_node_prev for "left".
Step(t, n, s) ==
    LET up[m \in Nodes] ==
          IF t.parent[m] # Nil /\ t.kid[t.parent[m]][s] = m THEN up[t.parent[m]]
          ELSE t.parent[m]
    IN  IF t.parent[n] = n THEN Nil
        ELSE IF t.kid[n][s] # Nil THEN End(t, t.kid[n][s], Other(s))
        ELSE up[n]

-----------------------------------------------------------------------------
(* The search of the authenticator.                                         *)

\* Mutant of Compare: only the common beginning of two names is compared.
ComparePrefix(a, b) ==
    LET differ == {i \in DOMAIN a \cap DOMAIN b : a[i] # b[i]}
    IN  IF differ = {} THEN 0
        ELSE LET i == CHOOSE j \in differ : \A k \in differ : j <= k IN a[i] - b[i]

\* Shorter names come first, names of one length as memcmp has them.
Compare(a, b) ==
    LET differ == {i \in DOMAIN a : a[i] # b[i]}
    IN  IF Len(a) # Len(b) THEN Len(a) - Len(b)
        ELSE IF differ = {} THEN 0
        ELSE LET i == CHOOSE j \in differ : \A k \in differ : j <= k IN a[i] - b[i]

\* Where a search for a name goes from a node of another name: a node of a
\* smaller name has the greater ones on its left.
Way(n, name) == IF Compare(NameOf[n], name) < 0 THEN "left" ELSE "right"

\* The last node of a search: that of the name, or the one below which a node
\* of the name belongs; NULL in an empty tree.
SearchEnd(t, name) ==
    LET go[n \in Nodes] ==
          IF \/ Compare(NameOf[n], name) = 0
             \/ t.kid[n][Way(n, name)] = Nil
          THEN n
          ELSE go[t.kid[n][Way(n, name)]]
    IN  IF t.root = Nil THEN Nil ELSE go[t.root]

Found(t, name) ==
    LET n == SearchEnd(t, name)
    IN  IF n # Nil /\ Compare(NameOf[n], name) = 0 THEN n ELSE Nil

Tell(op, name, done) == asked' = <<op, name>> /\ ok' = done

\* A loop ends.
Rest == pc' = "idle" /\ cur' = Nil /\ par' = Nil

-----------------------------------------------------------------------------
(* hev_socks5_authenticator_add and hev_rbtree_insert_color.                *)

\* hev_rbtree_node_link
NodeLink(t, n, p, name) ==
    LET u == [t EXCEPT !.parent[n] = p, !.red[n] = TRUE, !.kid[n] = NoKids]
    IN  IF p = Nil THEN [u EXCEPT !.root = n]
        ELSE [u EXCEPT !.kid[p][Way(p, name)] = n]

Add(n) ==
    /\ pc = "idle" /\ ~clearing
    /\ LET name == NameOf[n]
           p == SearchEnd(tree, name)
       IN  IF Found(tree, name) # Nil
           THEN Tell("add", name, FALSE) /\ UNCHANGED <<tree, pc, cur, par>>
           ELSE /\ Tell("add", name, TRUE)
                /\ tree' = NodeLink(tree, n, p, name)
                /\ pc' = "insert" /\ cur' = n /\ par' = p
    /\ UNCHANGED clearing

InsertAtRoot ==
    /\ pc = "insert" /\ par = Nil
    /\ tree' = SetBlack(SetParent(tree, cur, Nil), cur)
    /\ Rest
    /\ UNCHANGED <<clearing, asked, ok>>

InsertBelowBlack ==
    /\ pc = "insert" /\ par # Nil /\ ~tree.red[par]
    /\ Rest
    /\ UNCHANGED <<tree, clearing, asked, ok>>

Gparent == tree.parent[par]

\* The side of gparent that parent is on.
ParentSide == IF tree.kid[Gparent].right # par THEN "left" ELSE "right"

Uncle == tree.kid[Gparent][Other(ParentSide)]

\* Case 1: node's uncle is red.
InsertFlip ==
    /\ pc = "insert" /\ par # Nil /\ tree.red[par]
    /\ IsRed(tree, Uncle)
    /\ tree' = [SetBlack(SetBlack(tree, Uncle), par) EXCEPT !.red[Gparent] = TRUE]
    /\ cur' = Gparent /\ par' = tree.parent[Gparent]
    /\ UNCHANGED <<pc, clearing, asked, ok>>

\* Case 2: a node on the inner side of parent changes places with it.
Outwards(t) ==
    LET s == Other(ParentSide)
        u == SwingBlack(t, par, cur, s)
    IN  IF t.kid[par][s] # cur THEN t
        ELSE [SetParent(u, par, cur) EXCEPT !.red[par] = TRUE]

\* Case 2 where it applies, then case 3: a rotation at gparent.
InsertRotate ==
    /\ pc = "insert" /\ par # Nil /\ tree.red[par]
    /\ ~IsRed(tree, Uncle)
    /\ LET s == ParentSide
           top == IF tree.kid[par][Other(s)] = cur THEN cur ELSE par
       IN  tree' = RotateSetParents(SwingBlack(Outwards(tree), Gparent, top, s),
                                    Gparent, top, TRUE)
    /\ Rest
    /\ UNCHANGED <<clearing, asked, ok>>

-----------------------------------------------------------------------------
(* hev_rbtree_erase.                                                        *)

Successor(t, n) == End(t, t.kid[n].right, "left")

\* The node that loses the child, where n has two.
SuccessorParent(t, n) ==
    LET s == Successor(t, n) IN IF s = t.kid[n].right THEN s ELSE t.parent[s]

Alone(t, n) == \E s \in Sides : t.kid[n][s] = Nil

\* Case 1: the only child, if any, takes the place and the colour of n.
UnlinkAlone(t, n) ==
    LET c == IF t.kid[n].left = Nil THEN t.kid[n].right ELSE t.kid[n].left
        u == ChangeChild(t, n, c, t.parent[n])
    IN  IF c = Nil THEN u
        ELSE [u EXCEPT !.parent[c] = t.parent[n], !.red[c] = t.red[n]]

\* Cases 2 and 3: the successor takes the place and the colour of n.
UnlinkFull(t, n) ==
    LET kids == t.kid[n]
        s == Successor(t, n)
        p == SuccessorParent(t, n)
        child == t.kid[s].right
        away == [t EXCEPT !.kid[p].left = child, !.kid[s].right = kids.right]
        u == IF s = kids.right THEN t ELSE SetParent(away, kids.right, s)
        v == SetParent([u EXCEPT !.kid[s].left = kids.left], kids.left, s)
        w == SetBlack(SetParent(ChangeChild(v, n, s, t.parent[n]), child, p), child)
    IN  [w EXCEPT !.parent[s] = t.parent[n], !.red[s] = t.red[n]]

\* _hev_rbtree_erase
Unlink(t, n) == IF Alone(t, n) THEN UnlinkAlone(t, n) ELSE UnlinkFull(t, n)

\* Mutant of Rebalance: the successor's colour is not looked at.
RebalanceAlone(t, n) ==
    IF Alone(t, n) /\ ~t.red[n] /\ t.kid[n] = NoKids THEN t.parent[n] ELSE Nil

\* What it returns: the node below which a black node is missing, or NULL.
Rebalance(t, n) ==
    LET gone == IF Alone(t, n) THEN n ELSE Successor(t, n)
    IN  IF t.red[gone] \/ t.kid[gone] # NoKids THEN Nil
        ELSE IF Alone(t, n) THEN t.parent[n] ELSE SuccessorParent(t, n)

Erase(n) ==
    /\ tree' = Blank(Unlink(tree, n), n)
    /\ IF Rebalance(tree, n) = Nil THEN Rest
       ELSE pc' = "erase" /\ cur' = Nil /\ par' = Rebalance(tree, n)

-----------------------------------------------------------------------------
(* A round of _hev_rbtree_erase_color.                                      *)

\* The side of parent that node is on.
NodeSide == IF tree.kid[par].right # cur THEN "left" ELSE "right"

\* Case 1: a red sibling is rotated over parent; its child is the next sibling.
SiblingBlack ==
    LET s == Other(NodeSide)
        sibling == tree.kid[par][s]
    IN  IF ~tree.red[sibling] THEN tree
        ELSE RotateSetParents(SwingBlack(tree, par, sibling, s), par, sibling, TRUE)

Sibling == SiblingBlack.kid[par][Other(NodeSide)]

Nephew(s) == SiblingBlack.kid[Sibling][s]

NephewsBlack == \A s \in Sides : ~IsRed(SiblingBlack, Nephew(s))

\* Mutant of Upwards: the loop goes on above the root.
UpwardsPastRoot ==
    /\ cur' = par /\ par' = SiblingBlack.parent[par] /\ UNCHANGED pc

\* The black node is missing below parent as well.
Upwards ==
    IF SiblingBlack.parent[par] = Nil THEN Rest
    ELSE cur' = par /\ par' = SiblingBlack.parent[par] /\ UNCHANGED pc

\* Case 2: the sibling becomes red.
EraseFlip ==
    /\ pc = "erase"
    /\ NephewsBlack
    /\ LET t == [SiblingBlack EXCEPT !.red[Sibling] = TRUE]
       IN  IF t.red[par] THEN tree' = SetBlack(t, par) /\ Rest
           ELSE tree' = t /\ Upwards
    /\ UNCHANGED <<clearing, asked, ok>>

\* Cases 3 and 4: the sibling, or its child on the side of node where the other
\* one is black, is rotated over parent.
EraseRotate ==
    /\ pc = "erase"
    /\ ~NephewsBlack
    /\ LET s == NodeSide
           turn == ~IsRed(SiblingBlack, Nephew(Other(s)))
           top == IF turn THEN Nephew(s) ELSE Sibling
           outer == IF turn THEN Sibling ELSE Nephew(Other(s))
           t == IF ~turn THEN SiblingBlack
                ELSE [SwingBlack(SiblingBlack, Sibling, top, s)
                        EXCEPT !.kid[par][Other(s)] = top]
           u == SetBlack(SetParent(Swing(t, par, top, Other(s)), outer, top), outer)
       IN  tree' = RotateSetParents(u, par, top, FALSE)
    /\ Rest
    /\ UNCHANGED <<clearing, asked, ok>>

-----------------------------------------------------------------------------
(* The other operations.                                                    *)

Del(name) ==
    /\ pc = "idle" /\ ~clearing
    /\ LET n == Found(tree, name)
       IN  /\ Tell("del", name, n # Nil)
           /\ IF n = Nil THEN UNCHANGED <<tree, pc, cur, par>> ELSE Erase(n)
    /\ UNCHANGED clearing

Get(name) ==
    /\ pc = "idle" /\ ~clearing
    /\ Tell("get", name, Found(tree, name) # Nil)
    /\ UNCHANGED <<tree, pc, cur, par, clearing>>

\* hev_rbtree_replace, which may be called for a node that is in no tree and
\* that a search would find where it finds the victim.
Replace(victim, new) ==
    /\ pc = "idle" /\ ~clearing
    /\ new # victim /\ NameOf[new] = NameOf[victim]
    /\ Found(tree, NameOf[victim]) = victim
    /\ LET kids == tree.kid[victim]
           t == [tree EXCEPT !.kid[new] = kids, !.parent[new] = tree.parent[victim],
                             !.red[new] = tree.red[victim]]
           u == SetParent(SetParent(t, kids.left, new), kids.right, new)
       IN  tree' = Blank(ChangeChild(u, victim, new, tree.parent[victim]), victim)
    /\ Tell("replace", NameOf[victim], TRUE)
    /\ UNCHANGED <<pc, cur, par, clearing>>

\* hev_socks5_authenticator_clear
Clear ==
    /\ pc = "idle" /\ ~clearing
    /\ clearing' = TRUE
    /\ asked' = <<>> /\ ok' = TRUE
    /\ UNCHANGED <<tree, pc, cur, par>>

ClearFirst ==
    /\ pc = "idle" /\ clearing
    /\ First(tree) # Nil
    /\ Erase(First(tree))
    /\ UNCHANGED <<clearing, asked, ok>>

Cleared ==
    /\ pc = "idle" /\ clearing
    /\ First(tree) = Nil
    /\ clearing' = FALSE
    /\ UNCHANGED <<tree, pc, cur, par, asked, ok>>

-----------------------------------------------------------------------------
Rebalancing ==
    \/ InsertAtRoot \/ InsertBelowBlack \/ InsertFlip \/ InsertRotate
    \/ EraseFlip \/ EraseRotate

Clearing == ClearFirst \/ Cleared

Next ==
    \/ \E n \in Nodes : Add(n) \/ \E v \in Nodes : Replace(v, n)
    \/ \E name \in Names : Del(name) \/ Get(name)
    \/ Clear
    \/ Clearing
    \/ Rebalancing

Spec == Init /\ [][Next]_vars

\* A call that has begun runs on, for nothing in it waits.  Outside "idle" every
\* step is one of Rebalancing, and each of those ends its loop or goes on from
\* another node, so this is the fairness of Rebalancing in a form that TLC can
\* look for cheaply.
Round ==
    /\ pc # "idle"
    /\ pc' \in {"idle", pc} /\ cur' \in Link /\ par' \in Link

FairSpec == Spec /\ WF_<<pc, cur, par>>(Round) /\ WF_vars(Clearing)

-----------------------------------------------------------------------------
(* What is in the tree.                                                     *)

\* The nodes reached from a set of nodes along next, a function from a node to
\* a set of links.
Reached(from, next) ==
    LET r[S \in SUBSET Nodes] ==
          LET T == S \cup ((UNION {next[n] : n \in S}) \ {Nil})
          IN  IF T = S THEN S ELSE r[T]
    IN  r[from \ {Nil}]

Kids == [n \in Nodes |-> {tree.kid[n][s] : s \in Sides}]

InTree == Reached({tree.root}, Kids)

\* n and the nodes above it.
Above(n) == Reached({n}, [m \in Nodes |-> {tree.parent[m]}])

NamesIn == {NameOf[n] : n \in InTree}

Directory == INSTANCE Socks5Directory WITH names <- NamesIn

-----------------------------------------------------------------------------
(* Type correctness.  The locals of the loops are those its code may follow:*)
(* node is there in insert_color, and parent in erase_color.                *)
TypeOK ==
    /\ tree \in [root : Link, kid : [Nodes -> [Sides -> Link]],
                 parent : [Nodes -> Link], red : [Nodes -> BOOLEAN]]
    /\ cur \in Link /\ par \in Link /\ clearing \in BOOLEAN
    /\ \/ pc = "idle" /\ cur = Nil /\ par = Nil
       \/ pc = "insert" /\ cur # Nil
       \/ pc = "erase" /\ par # Nil

(* The links up agree with the links down through every rotation and every  *)
(* erasure: the root has no parent, a node is the parent of its children,   *)
(* and nothing is linked twice.  With it the nodes are one tree, and each   *)
(* search and each climb in it ends.                                        *)
LinksAgree ==
    /\ tree.root # Nil => tree.parent[tree.root] = Nil
    /\ \A n \in InTree : \A s \in Sides :
         LET k == tree.kid[n][s]
         IN  k # Nil => tree.parent[k] = n /\ tree.kid[n][Other(s)] # k

\* The places where a path from the root ends.
Leaves == {leaf \in InTree \X Sides : tree.kid[leaf[1]][leaf[2]] = Nil}

\* The black nodes on the path to a place.
Blacks(leaf) == Cardinality({n \in Above(leaf[1]) : ~tree.red[n]})

\* The places that are reached through parent and node in erase_color.
ThroughNode(leaf) ==
    /\ pc = "erase"
    /\ IF cur = Nil THEN leaf = <<par, NodeSide>> ELSE cur \in Above(leaf[1])

(* The tree is balanced, but for the one flaw the loop at work is about to  *)
(* mend: a red node below a red parent in insert_color ("node is red"), one *)
(* black node too few on the paths through node in erase_color ("node is    *)
(* black (or NULL on first iteration)", "a black node count that is 1 lower *)
(* than other leaf paths").                                                 *)
BalancedButForOneFlaw ==
    /\ \A n \in InTree : tree.red[n] =>
         \/ n # tree.root /\ ~tree.red[tree.parent[n]]
         \/ pc = "insert" /\ n = cur
    /\ pc = "insert" => tree.red[cur] /\ par = tree.parent[cur]
    /\ pc = "erase" => ~IsRed(tree, cur) /\ (cur # Nil => par = tree.parent[cur])
    /\ \E h \in 0..Cardinality(Nodes) : \A leaf \in Leaves :
         Blacks(leaf) = IF ThroughNode(leaf) THEN h - 1 ELSE h

(* Walking the tree gives the users in the order of their names, from the   *)
(* greatest to the smallest and back: next and prev of a node are its       *)
(* neighbours in that order, first and last its ends, whatever rotations    *)
(* have moved the node.                                                     *)
NeighboursAgree ==
    pc = "idle" =>
      LET all == InTree
          Before(m, n) == Compare(NameOf[m], NameOf[n]) > 0
          Neighbours(m, n) ==
            Before(m, n) /\ \A k \in all : ~(Before(m, k) /\ Before(k, n))
          IsNext(n, m) == IF m = Nil THEN \A k \in all : ~Before(n, k)
                          ELSE m \in all /\ Neighbours(n, m)
          IsPrev(n, m) == IF m = Nil THEN \A k \in all : ~Before(k, n)
                          ELSE m \in all /\ Neighbours(m, n)
      IN  /\ \A n \in all :
               IsNext(n, Step(tree, n, "right")) /\ IsPrev(n, Step(tree, n, "left"))
          /\ tree.root # Nil =>
               IsPrev(First(tree), Nil) /\ IsNext(Last(tree), Nil)

(* The tree is a directory of names: every search answers what the set of   *)
(* names does, and an operation changes that set by its own name only, with *)
(* the rebalancing leaving it alone.                                        *)
KeepsDirectory == Directory!Spec

(* Every rebalancing ends, and clearing the authenticator gives every user  *)
(* back.                                                                    *)
Settles ==
    /\ pc # "idle" ~> pc = "idle"
    /\ clearing ~> tree.root = Nil
=============================================================================
