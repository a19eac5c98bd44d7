-------------------------- MODULE Socks5Users_proof --------------------------
(***************************************************************************)
(* Theorems about the reference counts, for every finite number of         *)
(* authenticators and sessions and any users.                              *)
(***************************************************************************)
EXTENDS Socks5Users, FiniteSetTheorems, TLAPS

-----------------------------------------------------------------------------
(* The holders of an object, one kind at a time.                            *)

BySession(o) == Cardinality({s \in Sessions : obj[s] = o})

ByLogin(o) == Cardinality({s \in Sessions : user[s] = o /\ pc[s] = "unref"})

ByTree(o) == Cardinality({a \in Auths : o \in tree[a]})

ByApp(o) == IF o \in app THEN 1 ELSE 0

\* Two subsets of a finite set that differ at most in x.
LEMMA OneChanges ==
    ASSUME NEW S, IsFiniteSet(S), NEW x \in S, NEW A \in SUBSET S, NEW B \in SUBSET S,
           A \ {x} = B \ {x}
    PROVE  /\ Cardinality(A) \in Nat
           /\ Cardinality(B) = Cardinality(A) + (IF x \in B THEN 1 ELSE 0)
                                 - (IF x \in A THEN 1 ELSE 0)
<1>1. IsFiniteSet(A) /\ IsFiniteSet(B)
  BY FS_Subset
<1>2. Cardinality(A) \in Nat /\ Cardinality(B) \in Nat
  BY <1>1, FS_CardinalityType
<1>3. Cardinality(A \ {x}) = IF x \in A THEN Cardinality(A) - 1 ELSE Cardinality(A)
  BY <1>1, FS_RemoveElement
<1>4. Cardinality(B \ {x}) = IF x \in B THEN Cardinality(B) - 1 ELSE Cardinality(B)
  BY <1>1, FS_RemoveElement
<1>5. Cardinality(A \ {x}) = Cardinality(B \ {x})
  BY Zenon
<1> QED
  BY <1>2, <1>3, <1>4, <1>5

\* A finite set: it has a size, and one that has a member has more than the
\* rest of it.
LEMMA Sizes ==
    ASSUME NEW S, IsFiniteSet(S), NEW A \in SUBSET S
    PROVE  /\ Cardinality(A) \in Nat
           /\ A # {} <=> Cardinality(A) > 0
           /\ \A x \in A : Cardinality(A) = 1 => A = {x}
<1>1. IsFiniteSet(A)
  BY FS_Subset
<1>2. Cardinality(A) \in Nat
  BY <1>1, FS_CardinalityType
<1>3. Cardinality(A) = 0 <=> A = {}
  BY <1>1, FS_EmptySet
<1>4. Cardinality(A) = 1 => \E y : A = {y}
  BY <1>1, FS_Singleton
<1> QED
  BY <1>2, <1>3, <1>4

LEMMA HoldersAre ==
    ASSUME NEW o
    PROVE  /\ Holders(o) = BySession(o) + ByLogin(o) + ByTree(o) + ByApp(o)
           /\ BySession(o) \in Nat /\ ByLogin(o) \in Nat /\ ByTree(o) \in Nat
           /\ ByApp(o) \in {0, 1}
<1>1. BySession(o) \in Nat /\ ByLogin(o) \in Nat
  BY FiniteAssumption, Sizes DEF BySession, ByLogin
<1>2. ByTree(o) \in Nat
  BY FiniteAssumption, Sizes DEF ByTree
<1> QED
  BY <1>1, <1>2 DEF Holders, BySession, ByLogin, ByTree, ByApp
\* What a step of one session makes of the sessions' references.
LEMMA SessionChanges ==
    ASSUME NEW s \in Sessions,
           \A t \in Sessions \ {s} :
             obj'[t] = obj[t] /\ user'[t] = user[t] /\ pc'[t] = pc[t],
           NEW o
    PROVE  /\ BySession(o)' = BySession(o) + (IF obj'[s] = o THEN 1 ELSE 0)
                                - (IF obj[s] = o THEN 1 ELSE 0)
           /\ ByLogin(o)' = ByLogin(o) + (IF user'[s] = o /\ pc'[s] = "unref" THEN 1 ELSE 0)
                              - (IF user[s] = o /\ pc[s] = "unref" THEN 1 ELSE 0)
<1>1. BySession(o)' = BySession(o) + (IF obj'[s] = o THEN 1 ELSE 0)
                        - (IF obj[s] = o THEN 1 ELSE 0)
  <2> DEFINE A == {t \in Sessions : obj[t] = o}
             B == {t \in Sessions : obj'[t] = o}
  <2>1. /\ A \in SUBSET Sessions /\ B \in SUBSET Sessions /\ A \ {s} = B \ {s}
        /\ s \in A <=> obj[s] = o
        /\ s \in B <=> obj'[s] = o
    OBVIOUS
  <2>2. BySession(o) = Cardinality(A) /\ BySession(o)' = Cardinality(B)
    BY DEF BySession
  <2> HIDE DEF A, B
  <2> QED
    BY <2>1, <2>2, OneChanges, FiniteAssumption
<1>2. ByLogin(o)' = ByLogin(o) + (IF user'[s] = o /\ pc'[s] = "unref" THEN 1 ELSE 0)
                      - (IF user[s] = o /\ pc[s] = "unref" THEN 1 ELSE 0)
  <2> DEFINE A == {t \in Sessions : user[t] = o /\ pc[t] = "unref"}
             B == {t \in Sessions : user'[t] = o /\ pc'[t] = "unref"}
  <2>1. /\ A \in SUBSET Sessions /\ B \in SUBSET Sessions /\ A \ {s} = B \ {s}
        /\ s \in A <=> user[s] = o /\ pc[s] = "unref"
        /\ s \in B <=> user'[s] = o /\ pc'[s] = "unref"
    OBVIOUS
  <2>2. ByLogin(o) = Cardinality(A) /\ ByLogin(o)' = Cardinality(B)
    BY DEF ByLogin
  <2> HIDE DEF A, B
  <2> QED
    BY <2>1, <2>2, OneChanges, FiniteAssumption
<1> QED
  BY <1>1, <1>2

\* What a change of one authenticator's tree makes of the trees' references.
LEMMA TreeChanges ==
    ASSUME NEW a \in Auths, \A b \in Auths \ {a} : tree'[b] = tree[b], NEW o
    PROVE  ByTree(o)' = ByTree(o) + (IF o \in tree'[a] THEN 1 ELSE 0)
                          - (IF o \in tree[a] THEN 1 ELSE 0)
<1> DEFINE A == {b \in Auths : o \in tree[b]}
           B == {b \in Auths : o \in tree'[b]}
<1>1. /\ A \in SUBSET Auths /\ B \in SUBSET Auths /\ A \ {a} = B \ {a}
      /\ a \in A <=> o \in tree[a]
      /\ a \in B <=> o \in tree'[a]
  OBVIOUS
<1>2. ByTree(o) = Cardinality(A) /\ ByTree(o)' = Cardinality(B)
  BY DEF ByTree
<1> HIDE DEF A, B
<1> QED
  BY <1>1, <1>2, OneChanges, FiniteAssumption

\* Nothing changes without a change of the variables.
LEMMA NothingChanges ==
    ASSUME NEW o
    PROVE  /\ UNCHANGED <<obj, user, pc>> =>
                BySession(o)' = BySession(o) /\ ByLogin(o)' = ByLogin(o)
           /\ (\A a \in Auths : tree'[a] = tree[a]) => ByTree(o)' = ByTree(o)
           /\ UNCHANGED app => ByApp(o)' = ByApp(o)
<1>1. (\A a \in Auths : tree'[a] = tree[a]) =>
         {a \in Auths : o \in tree[a]} = {a \in Auths : o \in tree'[a]}
  OBVIOUS
<1> QED
  BY <1>1 DEF BySession, ByLogin, ByTree, ByApp

\* What one reference given back takes from the trees.
LEMMA GivesBack ==
    ASSUME TypeOK, NEW b \in Objects,
           \A a \in Auths : tree'[a] = IF a = b THEN tree[a] \ Destroyed(b) ELSE tree[a],
           NEW o
    PROVE  ByTree(o)' = ByTree(o) - (IF o \in Destroyed(b) THEN 1 ELSE 0)
<1>1. CASE b \in Auths
  <2>1. ByTree(o)' = ByTree(o) + (IF o \in tree'[b] THEN 1 ELSE 0)
                       - (IF o \in tree[b] THEN 1 ELSE 0)
    BY <1>1, TreeChanges
  <2>2. tree'[b] = tree[b] \ Destroyed(b) /\ Destroyed(b) \subseteq tree[b]
    BY <1>1 DEF Destroyed
  <2>3. ByTree(o) \in Nat
    BY HoldersAre
  <2> QED
    BY <2>1, <2>2, <2>3
<1>2. CASE b \notin Auths
  <2>1. Destroyed(b) = {} /\ \A a \in Auths : tree'[a] = tree[a]
    BY <1>2 DEF Destroyed
  <2>2. ByTree(o)' = ByTree(o) /\ ByTree(o) \in Nat
    BY <2>1, NothingChanges, HoldersAre
  <2> QED
    BY <2>1, <2>2
<1> QED
  BY <1>1, <1>2
-----------------------------------------------------------------------------
(* The inductive invariant: the counts, where each login stands, and that   *)
(* an authenticator without references has no users.                        *)

Standing ==
    \A s \in Sessions :
      /\ pc[s] = "none" => obj[s] = NoObj
      /\ pc[s] = "new" => obj[s] \in Auths \cup {NoObj}
      /\ pc[s] \in {"get", "check", "ref", "unref"} => obj[s] \in Auths
      /\ pc[s] \in {"check", "ref"} => user[s] \in tree[obj[s]]
      /\ pc[s] = "unref" => user[s] \in Users
      /\ pc[s] \notin {"check", "ref", "unref"} => user[s] = NoObj

Emptied == \A a \in Auths : tree[a] # {} => count[a] > 0

IInv == TypeOK /\ CountsAreHolders /\ Standing /\ Emptied

\* The types, but for the counts, which CountsAreHolders keeps from going
\* below zero.
Shape ==
    /\ count \in [Objects -> Int]
    /\ tree \in [Auths -> SUBSET Users]
    /\ name \in [Users -> Names]
    /\ app \subseteq Objects
    /\ obj \in [Sessions -> Objects \cup {NoObj}]
    /\ user \in [Sessions -> Users \cup {NoObj}]
    /\ pc \in [Sessions -> {"none", "new", "get", "check", "ref", "unref", "fini"}]

LEMMA Initially == Init => IInv
<1> SUFFICES ASSUME Init PROVE IInv
  OBVIOUS
<1>1. TypeOK
  BY DEF Init, TypeOK
<1>2. CountsAreHolders
  <2> SUFFICES ASSUME NEW o \in Objects PROVE count[o] = Holders(o)
    BY DEF CountsAreHolders
  <2>1. BySession(o) = 0 /\ ByLogin(o) = 0
    <3>1. o # NoObj
      BY ObjAssumption DEF Objects
    <3>2. {s \in Sessions : obj[s] = o} = {}
      BY <3>1 DEF Init
    <3>3. {s \in Sessions : user[s] = o /\ pc[s] = "unref"} = {}
      BY <3>1 DEF Init
    <3> QED
      BY <3>2, <3>3, FS_EmptySet DEF BySession, ByLogin
  <2>2. ByTree(o) = 0
    <3>1. {a \in Auths : o \in tree[a]} = {}
      BY DEF Init
    <3> QED
      BY <3>1, FS_EmptySet DEF ByTree
  <2>3. ByApp(o) = 0 /\ count[o] = 0
    BY DEF Init, ByApp
  <2> QED
    BY <2>1, <2>2, <2>3, HoldersAre
<1>3. Standing /\ Emptied
  BY DEF Init, Standing, Emptied
<1> QED
  BY <1>1, <1>2, <1>3 DEF IInv

\* Whoever holds an object is in its count.
LEMMA Reached ==
    ASSUME TypeOK, CountsAreHolders, Standing
    PROVE  /\ NothingReachedIsFreed
           /\ \A s \in Sessions : \A o \in {obj[s], user[s]} \ {NoObj} :
                o \in Objects /\ count[o] > 0
<1>1. \A o \in app : o \in Objects /\ count[o] > 0
  BY HoldersAre DEF TypeOK, CountsAreHolders, ByApp
<1>2. ASSUME NEW a \in Auths, NEW u \in tree[a] PROVE u \in Objects /\ count[u] > 0
  <2>1. u \in Objects
    BY DEF TypeOK, Objects
  <2>2. {b \in Auths : u \in tree[b]} # {}
    OBVIOUS
  <2>3. ByTree(u) > 0
    BY <2>2, FiniteAssumption, Sizes DEF ByTree
  <2> QED
    BY <2>1, <2>3, HoldersAre DEF CountsAreHolders
<1>3. ASSUME NEW s \in Sessions, obj[s] # NoObj
      PROVE  obj[s] \in Objects /\ count[obj[s]] > 0
  <2> DEFINE o == obj[s]
  <2>1. o \in Objects
    BY <1>3 DEF TypeOK
  <2>2. {t \in Sessions : obj[t] = o} # {}
    OBVIOUS
  <2> HIDE DEF o
  <2>3. BySession(o) > 0
    BY <2>2, FiniteAssumption, Sizes DEF BySession
  <2>4. count[o] > 0
    BY <2>1, <2>3, HoldersAre DEF CountsAreHolders
  <2> QED
    BY <2>1, <2>4 DEF o
<1>4. ASSUME NEW s \in Sessions, user[s] # NoObj
      PROVE  user[s] \in Objects /\ count[user[s]] > 0
  <2>1. CASE pc[s] \in {"check", "ref"}
    BY <2>1, <1>2 DEF Standing
  <2>2. CASE pc[s] = "unref"
    <3> DEFINE o == user[s]
    <3>1. o \in Objects
      BY <2>2 DEF Standing, Objects
    <3>2. {t \in Sessions : user[t] = o /\ pc[t] = "unref"} # {}
      BY <2>2
    <3> HIDE DEF o
    <3>3. ByLogin(o) > 0
      BY <3>2, FiniteAssumption, Sizes DEF ByLogin
    <3>4. count[o] > 0
      BY <3>1, <3>3, HoldersAre DEF CountsAreHolders
    <3> QED
      BY <3>1, <3>4 DEF o
  <2> QED
    BY <1>4, <2>1, <2>2 DEF Standing
<1> QED
  BY <1>1, <1>2, <1>3, <1>4 DEF NothingReachedIsFreed

\* Who gives the last reference back is the only one that had it.
LEMMA LastHolder ==
    ASSUME TypeOK, CountsAreHolders, NEW b \in Objects, count[b] = 1
    PROVE  /\ b \in app => \A t \in Sessions : obj[t] # b
           /\ \A s, t \in Sessions : obj[s] = b /\ obj[t] = b => s = t
<1>1. BySession(b) + ByApp(b) <= 1 /\ BySession(b) \in Nat /\ ByApp(b) \in {0, 1}
  BY HoldersAre DEF CountsAreHolders
<1>2. {s \in Sessions : obj[s] = b} # {} => BySession(b) > 0
  BY FiniteAssumption, Sizes DEF BySession
<1>3. BySession(b) = 1 => \A s \in {t \in Sessions : obj[t] = b} :
                            {t \in Sessions : obj[t] = b} = {s}
  BY FiniteAssumption, Sizes DEF BySession
<1>4. ASSUME b \in app PROVE \A t \in Sessions : obj[t] # b
  <2>1. BySession(b) = 0
    BY <1>1, <1>4 DEF ByApp
  <2> QED
    BY <1>2, <2>1
<1>5. ASSUME NEW s \in Sessions, NEW t \in Sessions, obj[s] = b, obj[t] = b PROVE s = t
  <2>1. BySession(b) = 1
    BY <1>1, <1>2, <1>5
  <2>2. {r \in Sessions : obj[r] = b} = {s}
    BY <1>3, <1>5, <2>1
  <2> QED
    BY <1>5, <2>2
<1> QED
  BY <1>4, <1>5
-----------------------------------------------------------------------------
(* The steps.                                                               *)

LEMMA UnrefShape ==
    ASSUME TypeOK, NEW b, Unref(b)
    PROVE  count' \in [Objects -> Int] /\ tree' \in [Auths -> SUBSET Users]
  BY DEF TypeOK, Unref, Minus

LEMMA RefShape ==
    ASSUME NEW c \in [Objects -> Int], NEW o
    PROVE  Ref(c, o) \in [Objects -> Int]
<1>1. \A x \in Objects : Ref(c, o)[x] = IF x = o THEN c[x] + 1 ELSE c[x]
  BY DEF Ref
<1>2. \A x \in Objects : Ref(c, o)[x] \in Int
  BY <1>1
<1> QED
  BY <1>2 DEF Ref

LEMMA ShapeStep == ASSUME TypeOK, Standing, Next PROVE Shape'
<1> USE DEF TypeOK, Shape
<1>1. ASSUME NEW u \in Users, DropUser(u) \/ \E n \in Names : NewUser(u, n) PROVE Shape'
  <2>1. CASE DropUser(u)
    BY <2>1, UnrefShape DEF DropUser
  <2>2. ASSUME NEW n \in Names, NewUser(u, n) PROVE Shape'
    BY <2>2 DEF NewUser, Objects
  <2> QED
    BY <1>1, <2>1, <2>2
<1>2. ASSUME NEW a \in Auths,
             NewAuth(a) \/ Clear(a) \/ (\E n \in Names : DelUser(a, n))
      PROVE  Shape'
  BY <1>2 DEF NewAuth, Clear, DelUser, Minus, Objects
<1>3. ASSUME NEW a \in Auths, DropAuth(a) PROVE Shape'
  BY <1>3, UnrefShape DEF DropAuth
<1>4. ASSUME NEW a \in Auths, NEW u \in Users, AddUser(a, u) PROVE Shape'
  BY <1>4 DEF AddUser
<1>5. ASSUME NEW s \in Sessions, New(s) \/ Login(s) \/ (\E right \in BOOLEAN : Check(s, right))
      PROVE  Shape'
  BY <1>5 DEF New, Login, Check
<1>6. ASSUME NEW s \in Sessions, NEW a \in Auths, SetAuth(s, a) PROVE Shape'
  <2>1. Minus(count, {obj[s]} \cup Destroyed(obj[s])) \in [Objects -> Int]
    BY DEF Minus
  <2>2. count' \in [Objects -> Int]
    <3>1. count \in [Objects -> Int]
      OBVIOUS
    <3>2. PICK c \in [Objects -> Int] : count' = Ref(c, a)
      BY <1>6, <2>1, <3>1 DEF SetAuth
    <3> QED
      BY <3>2, RefShape
  <2>3. tree' \in [Auths -> SUBSET Users]
    BY <1>6 DEF SetAuth
  <2> QED
    BY <1>6, <2>2, <2>3 DEF SetAuth, Objects
<1>7. ASSUME NEW s \in Sessions, NEW n \in Names, Get(s, n) PROVE Shape'
  <2>1. tree[obj[s]] \subseteq Users
    BY <1>7 DEF Get, Standing
  <2>2. user' \in [Sessions -> Users \cup {NoObj}]
    BY <1>7, <2>1 DEF Get
  <2> QED
    BY <1>7, <2>2 DEF Get
<1>8. ASSUME NEW s \in Sessions, RefUser(s) PROVE Shape'
  BY <1>8, RefShape DEF RefUser
<1>9. ASSUME NEW s \in Sessions, UnrefAuth(s) PROVE Shape'
  BY <1>9, UnrefShape DEF UnrefAuth, Objects
<1>10. ASSUME NEW s \in Sessions, Destruct(s) PROVE Shape'
  BY <1>10, UnrefShape DEF Destruct
<1> QED
  BY <1>1, <1>2, <1>3, <1>4, <1>5, <1>6, <1>7, <1>8, <1>9, <1>10
  DEF Next, Application, Session

\* What Unref takes from the count and from the trees.
LEMMA UnrefCounts ==
    ASSUME TypeOK, NEW b \in Objects, Unref(b), NEW o \in Objects
    PROVE  /\ count'[o] = count[o] - (IF o = b THEN 1 ELSE 0)
                                   - (IF o \in Destroyed(b) THEN 1 ELSE 0)
           /\ ByTree(o)' = ByTree(o) - (IF o \in Destroyed(b) THEN 1 ELSE 0)
<1>1. Destroyed(b) \subseteq Users /\ (Destroyed(b) # {} => b \in Auths)
  BY DEF Destroyed, TypeOK
<1>2. b \notin Destroyed(b)
  BY <1>1, ObjAssumption
<1>3. \A a \in Auths : tree'[a] = IF a = b THEN tree[a] \ Destroyed(b) ELSE tree[a]
  BY DEF Unref
<1>4. ByTree(o)' = ByTree(o) - (IF o \in Destroyed(b) THEN 1 ELSE 0)
  BY <1>3, GivesBack
<1>5. count'[o] = IF o \in {b} \cup Destroyed(b) THEN count[o] - 1 ELSE count[o]
  BY DEF Unref, Minus
<1>6. count[o] \in Int
  BY DEF TypeOK
<1> QED
  BY <1>2, <1>4, <1>5, <1>6
\* The counts after the steps of the application.
LEMMA ApplicationCounts == ASSUME IInv, Application PROVE CountsAreHolders'
<1> SUFFICES ASSUME NEW o \in Objects PROVE count'[o] = Holders(o)'
  BY DEF CountsAreHolders
<1>0. /\ Holders(o)' = BySession(o)' + ByLogin(o)' + ByTree(o)' + ByApp(o)'
      /\ count[o] = BySession(o) + ByLogin(o) + ByTree(o) + ByApp(o)
      /\ BySession(o) \in Nat /\ ByLogin(o) \in Nat /\ ByTree(o) \in Nat /\ ByApp(o) \in {0, 1}
      /\ TypeOK
  <2>1. Holders(o)' = BySession(o)' + ByLogin(o)' + ByTree(o)' + ByApp(o)'
    BY DEF Holders, BySession, ByLogin, ByTree, ByApp
  <2> QED
    BY <2>1, HoldersAre DEF IInv, CountsAreHolders
<1>s. BySession(o)' = BySession(o) /\ ByLogin(o)' = ByLogin(o)
  <2>1. UNCHANGED <<obj, user, pc>>
    BY DEF Application, NewAuth, DropAuth, NewUser, AddUser, DropUser, DelUser, Clear
  <2> QED
    BY <2>1, NothingChanges
<1>1. ASSUME NEW a \in Auths, NewAuth(a) PROVE count'[o] = Holders(o)'
  <2>1. \A b \in Auths : tree'[b] = tree[b]
    <3>1. tree[a] = {}
      BY <1>1 DEF NewAuth, IInv, Emptied
    <3> QED
      BY <1>1, <3>1 DEF NewAuth, IInv, TypeOK
  <2>2. ByTree(o)' = ByTree(o)
    BY <2>1, NothingChanges
  <2>3. count'[o] = count[o] + (IF o = a THEN 1 ELSE 0)
    BY <1>0, <1>1 DEF NewAuth, TypeOK
  <2>4. ByApp(o)' = ByApp(o) + (IF o = a THEN 1 ELSE 0)
    BY <1>1 DEF NewAuth, ByApp
  <2> QED
    BY <1>0, <1>s, <2>2, <2>3, <2>4
<1>2. ASSUME NEW b \in Objects, b \in app, Unref(b), app' = app \ {b}
      PROVE  count'[o] = Holders(o)'
  <2>1. /\ count'[o] = count[o] - (IF o = b THEN 1 ELSE 0)
                                - (IF o \in Destroyed(b) THEN 1 ELSE 0)
        /\ ByTree(o)' = ByTree(o) - (IF o \in Destroyed(b) THEN 1 ELSE 0)
    BY <1>0, <1>2, UnrefCounts
  <2>2. ByApp(o)' = ByApp(o) - (IF o = b THEN 1 ELSE 0)
    BY <1>2 DEF ByApp
  <2> QED
    BY <1>0, <1>s, <2>1, <2>2
<1>3. ASSUME NEW u \in Users, NEW n \in Names, NewUser(u, n) PROVE count'[o] = Holders(o)'
  <2>1. ByTree(o)' = ByTree(o)
    BY <1>3, NothingChanges DEF NewUser
  <2>2. count'[o] = count[o] + (IF o = u THEN 1 ELSE 0)
    BY <1>0, <1>3 DEF NewUser, TypeOK
  <2>3. ByApp(o)' = ByApp(o) + (IF o = u THEN 1 ELSE 0)
    BY <1>3 DEF NewUser, ByApp
  <2> QED
    BY <1>0, <1>s, <2>1, <2>2, <2>3
<1>4. ASSUME NEW a \in Auths, NEW u \in Users, AddUser(a, u) PROVE count'[o] = Holders(o)'
  <2>1. count' = count
    BY <1>4 DEF AddUser
  <2>2. CASE Fits(a, u)
    <3>1. u \notin tree[a]
      BY <2>2 DEF Fits
    <3>2. /\ \A b \in Auths \ {a} : tree'[b] = tree[b]
          /\ tree'[a] = tree[a] \cup {u}
      BY <1>0, <1>4, <2>2 DEF AddUser, TypeOK
    <3>3. ByTree(o)' = ByTree(o) + (IF o = u THEN 1 ELSE 0)
      <4>1. ByTree(o)' = ByTree(o) + (IF o \in tree'[a] THEN 1 ELSE 0)
                           - (IF o \in tree[a] THEN 1 ELSE 0)
        BY <3>2, TreeChanges
      <4> QED
        BY <1>0, <3>1, <3>2, <4>1
    <3>4. ByApp(o)' = ByApp(o) - (IF o = u THEN 1 ELSE 0)
      BY <1>4, <2>2 DEF AddUser, ByApp
    <3> QED
      BY <1>0, <1>s, <2>1, <3>3, <3>4
  <2>3. CASE ~Fits(a, u)
    <3>1. ByTree(o)' = ByTree(o) /\ ByApp(o)' = ByApp(o)
      BY <1>4, <2>3, NothingChanges DEF AddUser
    <3> QED
      BY <1>0, <1>s, <2>1, <3>1
  <2> QED
    BY <2>2, <2>3
<1>5. ASSUME NEW a \in Auths, NEW us \in SUBSET tree[a],
             tree' = [tree EXCEPT ![a] = @ \ us], count' = Minus(count, us), UNCHANGED app
      PROVE  count'[o] = Holders(o)'
  <2>1. count'[o] = count[o] - (IF o \in us THEN 1 ELSE 0)
    BY <1>0, <1>5 DEF Minus
  <2>2. /\ \A b \in Auths \ {a} : tree'[b] = tree[b]
        /\ tree'[a] = tree[a] \ us
    BY <1>0, <1>5 DEF TypeOK
  <2>3. ByTree(o)' = ByTree(o) - (IF o \in us THEN 1 ELSE 0)
    <3>1. ByTree(o)' = ByTree(o) + (IF o \in tree'[a] THEN 1 ELSE 0)
                         - (IF o \in tree[a] THEN 1 ELSE 0)
      BY <2>2, TreeChanges
    <3> QED
      BY <1>0, <2>2, <3>1
  <2>4. ByApp(o)' = ByApp(o)
    BY <1>5, NothingChanges
  <2> QED
    BY <1>0, <1>s, <2>1, <2>3, <2>4
<1>6. ASSUME NEW a \in Auths, DropAuth(a) PROVE count'[o] = Holders(o)'
  BY <1>6, <1>2 DEF DropAuth, Objects
<1>7. ASSUME NEW u \in Users, DropUser(u) PROVE count'[o] = Holders(o)'
  BY <1>7, <1>2 DEF DropUser, Objects
<1>8. ASSUME NEW a \in Auths, NEW n \in Names, DelUser(a, n) PROVE count'[o] = Holders(o)'
  <2>1. PICK u \in tree[a] : /\ tree' = [tree EXCEPT ![a] = @ \ {u}]
                             /\ count' = Minus(count, {u})
    BY <1>8 DEF DelUser
  <2>2. UNCHANGED app /\ {u} \in SUBSET tree[a]
    BY <1>8 DEF DelUser
  <2> QED
    BY <1>5, <2>1, <2>2
<1>9. ASSUME NEW a \in Auths, Clear(a) PROVE count'[o] = Holders(o)'
  <2>1. /\ tree' = [tree EXCEPT ![a] = @ \ tree[a]] /\ count' = Minus(count, tree[a])
        /\ UNCHANGED app
    BY <1>9 DEF Clear
  <2> QED
    BY <1>5, <2>1
<1> QED
  BY <1>1, <1>3, <1>4, <1>6, <1>7, <1>8, <1>9 DEF Application
\* The counts after the steps of a session.
LEMMA SessionCounts ==
    ASSUME IInv, NEW s \in Sessions, Session(s)
    PROVE  CountsAreHolders'
<1> SUFFICES ASSUME NEW o \in Objects PROVE count'[o] = Holders(o)'
  BY DEF CountsAreHolders
<1>0. /\ Holders(o)' = BySession(o)' + ByLogin(o)' + ByTree(o)' + ByApp(o)'
      /\ count[o] = BySession(o) + ByLogin(o) + ByTree(o) + ByApp(o)
      /\ BySession(o) \in Nat /\ ByLogin(o) \in Nat /\ ByTree(o) \in Nat /\ ByApp(o) \in {0, 1}
      /\ TypeOK
      /\ o # NoObj
  <2>1. Holders(o)' = BySession(o)' + ByLogin(o)' + ByTree(o)' + ByApp(o)'
    BY DEF Holders, BySession, ByLogin, ByTree, ByApp
  <2> QED
    BY <2>1, HoldersAre, ObjAssumption DEF IInv, CountsAreHolders, Objects
<1>a. ByApp(o)' = ByApp(o)
  <2>1. UNCHANGED app
    BY DEF Session, New, SetAuth, Login, Get, Check, RefUser, UnrefAuth, Destruct
  <2> QED
    BY <2>1, NothingChanges
<1>t. (\A b \in Auths : tree'[b] = tree[b]) => ByTree(o)' = ByTree(o)
  BY NothingChanges
<1>s. /\ BySession(o)' = BySession(o) + (IF obj'[s] = o THEN 1 ELSE 0)
                           - (IF obj[s] = o THEN 1 ELSE 0)
      /\ ByLogin(o)' = ByLogin(o) + (IF user'[s] = o /\ pc'[s] = "unref" THEN 1 ELSE 0)
                         - (IF user[s] = o /\ pc[s] = "unref" THEN 1 ELSE 0)
  <2>1. \A t \in Sessions \ {s} : obj'[t] = obj[t] /\ user'[t] = user[t] /\ pc'[t] = pc[t]
    BY <1>0 DEF TypeOK, Session, New, SetAuth, Login, Get, Check, RefUser, UnrefAuth, Destruct
  <2> QED
    BY <2>1, SessionChanges
<1>1. ASSUME UNCHANGED <<count, tree, obj>>, pc[s] # "unref", pc'[s] # "unref"
      PROVE  count'[o] = Holders(o)'
  BY <1>0, <1>a, <1>t, <1>s, <1>1
<1>2. CASE New(s) \/ Login(s) \/ (\E n \in Names : Get(s, n))
             \/ (\E right \in BOOLEAN : Check(s, right))
  <2>1. UNCHANGED <<count, tree, obj>> /\ pc[s] # "unref" /\ pc'[s] # "unref"
    BY <1>0, <1>2 DEF TypeOK, New, Login, Get, Check
  <2> QED
    BY <1>1, <2>1
<1>3. ASSUME NEW a \in Auths, SetAuth(s, a) PROVE count'[o] = Holders(o)'
  <2>0. /\ pc[s] = "new" /\ UNCHANGED <<user, pc>> /\ obj'[s] = a
        /\ a \in Objects /\ obj[s] \in Auths \cup {NoObj}
    BY <1>0, <1>3 DEF SetAuth, TypeOK, Objects, IInv, Standing
  <2>1. CASE obj[s] = NoObj
    <3>1. count'[o] = count[o] + (IF o = a THEN 1 ELSE 0)
      BY <1>0, <1>3, <2>1 DEF SetAuth, Ref, TypeOK
    <3>2. tree' = tree
      BY <1>3, <2>1 DEF SetAuth
    <3> QED
      BY <1>0, <1>a, <1>t, <1>s, <2>0, <2>1, <3>1, <3>2
  <2>2. CASE obj[s] # NoObj
    <3> DEFINE b == obj[s]
               D == Destroyed(b)
               c == Minus(count, {b} \cup D)
    <3>1. b \in Auths /\ b \in Objects /\ b \notin D
      <4>1. b \in Auths
        BY <2>0, <2>2
      <4>2. D \subseteq Users
        BY <1>0, <4>1 DEF Destroyed, TypeOK
      <4> QED
        BY <4>1, <4>2, ObjAssumption DEF Objects
    <3>2. \A e \in Auths : tree'[e] = IF e = b THEN tree[e] \ D ELSE tree[e]
      BY <1>0, <1>3, <2>2 DEF SetAuth, TypeOK
    <3>3. ByTree(o)' = ByTree(o) - (IF o \in D THEN 1 ELSE 0)
      BY <1>0, <3>1, <3>2, GivesBack
    <3>4. c[o] = count[o] - (IF o = b THEN 1 ELSE 0) - (IF o \in D THEN 1 ELSE 0)
      <4>1. c[o] = IF o \in {b} \cup D THEN count[o] - 1 ELSE count[o]
        BY DEF Minus
      <4> HIDE DEF b, D, c
      <4> QED
        BY <1>0, <3>1, <4>1
    <3>5. count' = Ref(c, a) /\ DOMAIN c = Objects
      BY <1>3, <2>2 DEF SetAuth, Minus
    <3> HIDE DEF c, D
    <3>6. count'[o] = c[o] + (IF o = a THEN 1 ELSE 0)
      <4>1. count'[o] = IF o = a THEN c[o] + 1 ELSE c[o]
        BY <3>5 DEF Ref
      <4>2. c[o] \in Int
        BY <1>0, <3>4
      <4> QED
        BY <4>1, <4>2
    <3> QED
      BY <1>0, <1>a, <1>s, <2>0, <3>3, <3>4, <3>6
  <2> QED
    BY <2>1, <2>2
<1>4. CASE RefUser(s)
  <2>1. /\ pc[s] = "ref" /\ pc'[s] = "unref" /\ UNCHANGED <<tree, obj, user>>
    BY <1>0, <1>4 DEF RefUser, TypeOK
  <2>2. count'[o] = count[o] + (IF o = user[s] THEN 1 ELSE 0)
    BY <1>0, <1>4 DEF RefUser, Ref, TypeOK
  <2> QED
    BY <1>0, <1>a, <1>t, <1>s, <2>1, <2>2
<1>5. CASE UnrefAuth(s)
  <2>1. /\ pc[s] = "unref" /\ pc'[s] # "unref" /\ obj'[s] = user[s]
        /\ obj[s] \in Objects /\ Unref(obj[s])
    BY <1>0, <1>5 DEF UnrefAuth, TypeOK, IInv, Standing, Objects
  <2>2. /\ count'[o] = count[o] - (IF o = obj[s] THEN 1 ELSE 0)
                                - (IF o \in Destroyed(obj[s]) THEN 1 ELSE 0)
        /\ ByTree(o)' = ByTree(o) - (IF o \in Destroyed(obj[s]) THEN 1 ELSE 0)
    BY <1>0, <2>1, UnrefCounts
  <2> QED
    BY <1>0, <1>a, <1>s, <2>1, <2>2
<1>6. CASE Destruct(s)
  <2>1. pc[s] # "unref" /\ pc'[s] # "unref" /\ obj'[s] = NoObj
    BY <1>0, <1>6 DEF Destruct, TypeOK
  <2>2. CASE obj[s] = NoObj
    <3>1. UNCHANGED <<count, tree>>
      BY <1>6, <2>2 DEF Destruct
    <3> QED
      BY <1>0, <1>a, <1>t, <1>s, <2>1, <2>2, <3>1
  <2>3. CASE obj[s] # NoObj
    <3>1. obj[s] \in Objects /\ Unref(obj[s])
      BY <1>0, <1>6, <2>3 DEF Destruct, TypeOK
    <3>2. /\ count'[o] = count[o] - (IF o = obj[s] THEN 1 ELSE 0)
                                  - (IF o \in Destroyed(obj[s]) THEN 1 ELSE 0)
          /\ ByTree(o)' = ByTree(o) - (IF o \in Destroyed(obj[s]) THEN 1 ELSE 0)
      BY <1>0, <3>1, UnrefCounts
    <3> QED
      BY <1>0, <1>a, <1>s, <2>1, <3>2
  <2> QED
    BY <2>2, <2>3
<1> QED
  BY <1>2, <1>3, <1>4, <1>5, <1>6 DEF Session
\* A login keeps its user in the tree: its reference keeps the authenticator.
LEMMA LoginsKept ==
    ASSUME IInv, NEW b \in Objects, NEW t \in Sessions,
           pc[t] \in {"check", "ref"},
           count[b] = 1 => obj[t] # b,
           \A a \in Auths : tree'[a] = IF a = b THEN tree[a] \ Destroyed(a) ELSE tree[a]
    PROVE  user[t] \in tree'[obj[t]]
<1>1. obj[t] \in Auths /\ user[t] \in tree[obj[t]]
  BY DEF IInv, Standing
<1>2. CASE obj[t] = b
  BY <1>1, <1>2 DEF Destroyed
<1>3. CASE obj[t] # b
  BY <1>1, <1>3
<1> QED
  BY <1>2, <1>3

LEMMA ApplicationStanding == ASSUME IInv, Application PROVE Standing'
<1>0. UNCHANGED <<obj, user, pc>>
  BY DEF Application, NewAuth, DropAuth, NewUser, AddUser, DropUser, DelUser, Clear
<1> SUFFICES ASSUME NEW t \in Sessions, pc[t] \in {"check", "ref"}
             PROVE  user[t] \in tree'[obj[t]]
  BY <1>0 DEF IInv, Standing
<1>1. obj[t] \in Auths /\ user[t] \in tree[obj[t]] /\ TypeOK
  BY DEF IInv, Standing
<1>2. ASSUME NEW a \in Auths, NewAuth(a) PROVE user[t] \in tree'[obj[t]]
  <2>1. tree[a] = {}
    BY <1>2 DEF NewAuth, IInv, Emptied
  <2> QED
    BY <1>1, <1>2, <2>1 DEF NewAuth, TypeOK
<1>3. ASSUME NEW b \in Objects, b \in app, Unref(b) PROVE user[t] \in tree'[obj[t]]
  <2>1. count[b] = 1 => obj[t] # b
    BY <1>3, LastHolder DEF IInv
  <2> QED
    BY <1>3, <2>1, LoginsKept DEF Unref
<1>4. ASSUME NEW a \in Auths, DropAuth(a) PROVE user[t] \in tree'[obj[t]]
  BY <1>3, <1>4 DEF DropAuth, Objects
<1>5. ASSUME NEW u \in Users, DropUser(u) PROVE user[t] \in tree'[obj[t]]
  BY <1>3, <1>5 DEF DropUser, Objects
<1>6. ASSUME NEW u \in Users, NEW n \in Names, NewUser(u, n) PROVE user[t] \in tree'[obj[t]]
  BY <1>1, <1>6 DEF NewUser
<1>7. ASSUME NEW a \in Auths, NEW u \in Users, AddUser(a, u) PROVE user[t] \in tree'[obj[t]]
  BY <1>1, <1>7 DEF AddUser, TypeOK
<1>8. ASSUME NEW a \in Auths, Clear(a) \/ \E n \in Names : DelUser(a, n)
      PROVE  user[t] \in tree'[obj[t]]
  <2>1. Quiet(a) /\ \A b \in Auths \ {a} : tree'[b] = tree[b]
    BY <1>1, <1>8 DEF Clear, DelUser, TypeOK
  <2> QED
    BY <1>1, <2>1 DEF Quiet
<1> QED
  BY <1>2, <1>4, <1>5, <1>6, <1>7, <1>8 DEF Application

LEMMA SessionStanding ==
    ASSUME IInv, NEW s \in Sessions, Session(s)
    PROVE  Standing'
<1>0. TypeOK /\ Standing
  BY DEF IInv
<1>1. \A t \in Sessions \ {s} : obj'[t] = obj[t] /\ user'[t] = user[t] /\ pc'[t] = pc[t]
  BY <1>0 DEF TypeOK, Session, New, SetAuth, Login, Get, Check, RefUser, UnrefAuth, Destruct
<1> DEFINE OneStanding(t) ==
      /\ pc[t] = "none" => obj[t] = NoObj
      /\ pc[t] = "new" => obj[t] \in Auths \cup {NoObj}
      /\ pc[t] \in {"get", "check", "ref", "unref"} => obj[t] \in Auths
      /\ pc[t] \in {"check", "ref"} => user[t] \in tree[obj[t]]
      /\ pc[t] = "unref" => user[t] \in Users
      /\ pc[t] \notin {"check", "ref", "unref"} => user[t] = NoObj
<1>2. ASSUME NEW t \in Sessions \ {s}, pc[t] \in {"check", "ref"}
      PROVE  user[t] \in tree'[obj[t]]
  <2>1. obj[t] \in Auths /\ user[t] \in tree[obj[t]]
    BY <1>0, <1>2 DEF Standing
  <2>2. CASE UNCHANGED tree
    BY <2>1, <2>2
  <2>3. CASE /\ obj[s] \in Objects
             /\ \A a \in Auths : tree'[a] = IF a = obj[s] THEN tree[a] \ Destroyed(a) ELSE tree[a]
    <3>1. count[obj[s]] = 1 => obj[t] # obj[s]
      BY <1>2, <2>3, LastHolder DEF IInv
    <3> QED
      BY <1>2, <2>3, <3>1, LoginsKept
  <2>4. ASSUME NEW c \in Auths, SetAuth(s, c) PROVE user[t] \in tree'[obj[t]]
    <3>1. CASE obj[s] = NoObj
      BY <2>2, <2>4, <3>1 DEF SetAuth
    <3>2. CASE obj[s] # NoObj
      <4>1. obj[s] \in Objects
        BY <1>0, <3>2 DEF TypeOK
      <4>2. tree' = [tree EXCEPT ![obj[s]] = @ \ Destroyed(obj[s])]
        BY <2>4, <3>2 DEF SetAuth
      <4>3. \A a \in Auths :
              tree'[a] = IF a = obj[s] THEN tree[a] \ Destroyed(a) ELSE tree[a]
        BY <1>0, <4>2 DEF TypeOK
      <4> QED
        BY <2>3, <4>1, <4>3
    <3> QED
      BY <3>1, <3>2
  <2>5. CASE UnrefAuth(s)
    <3>1. obj[s] \in Objects
      BY <1>0, <2>5 DEF UnrefAuth, Standing, Objects
    <3> QED
      BY <2>3, <2>5, <3>1 DEF UnrefAuth, Unref
  <2>6. CASE Destruct(s)
    BY <1>0, <2>2, <2>3, <2>6 DEF Destruct, Unref, TypeOK
  <2>7. CASE New(s) \/ Login(s) \/ (\E n \in Names : Get(s, n))
               \/ (\E right \in BOOLEAN : Check(s, right)) \/ RefUser(s)
    BY <2>2, <2>7 DEF New, Login, Get, Check, RefUser
  <2> QED
    BY <2>4, <2>5, <2>6, <2>7 DEF Session
<1>3. ASSUME NEW t \in Sessions \ {s} PROVE OneStanding(t)'
  BY <1>0, <1>1, <1>2, <1>3 DEF Standing
<1>4. OneStanding(s)'
  <2>1. CASE New(s) \/ Login(s)
    <3>1. /\ \/ pc[s] = "none" /\ pc'[s] = "new"
             \/ pc[s] = "new" /\ pc'[s] = "get" /\ obj[s] \in Auths
          /\ UNCHANGED <<obj, user>>
      BY <1>0, <2>1 DEF New, Login, TypeOK
    <3> QED
      BY <1>0, <3>1 DEF Standing
  <2>2. ASSUME NEW a \in Auths, SetAuth(s, a) PROVE OneStanding(s)'
    BY <1>0, <2>2 DEF SetAuth, TypeOK, Standing
  <2>3. ASSUME NEW n \in Names, Get(s, n) PROVE OneStanding(s)'
    BY <1>0, <2>3 DEF Get, TypeOK, Standing
  <2>4. ASSUME NEW right \in BOOLEAN, Check(s, right) PROVE OneStanding(s)'
    BY <1>0, <2>4 DEF Check, TypeOK, Standing
  <2>5. CASE RefUser(s)
    <3>1. user[s] \in Users
      BY <1>0, <2>5 DEF RefUser, TypeOK, Standing
    <3> QED
      BY <1>0, <2>5, <3>1 DEF RefUser, TypeOK, Standing
  <2>6. CASE UnrefAuth(s) \/ Destruct(s)
    BY <1>0, <2>6 DEF UnrefAuth, Destruct, TypeOK, Standing
  <2> QED
    BY <2>1, <2>2, <2>3, <2>4, <2>5, <2>6 DEF Session
<1> QED
  BY <1>3, <1>4 DEF Standing

\* No authenticator keeps users without a reference to itself.
LEMMA EmptiedStep == ASSUME IInv, Next PROVE Emptied'
<1>0. TypeOK /\ Standing /\ Emptied /\ NothingReachedIsFreed
  BY Reached DEF IInv
<1> SUFFICES ASSUME NEW a \in Auths, tree'[a] # {} PROVE count'[a] > 0
  BY DEF Emptied
<1>1. a \in Objects /\ a \notin Users /\ count[a] \in Nat
  BY <1>0, ObjAssumption DEF Objects, TypeOK
<1>2. ASSUME NEW b \in Objects, Unref(b) PROVE count'[a] > 0
  <2>1. Destroyed(b) \subseteq Users
    BY <1>0 DEF Destroyed, TypeOK
  <2>2. count'[a] = IF a = b THEN count[a] - 1 ELSE count[a]
    BY <1>1, <1>2, <2>1 DEF Unref, Minus
  <2>3. tree'[a] = (IF a = b THEN tree[a] \ Destroyed(a) ELSE tree[a]) /\ count[a] > 0
    BY <1>0, <1>2 DEF Unref, Emptied
  <2>4. CASE a = b
    <3>1. count[a] # 1
      BY <2>3, <2>4 DEF Destroyed
    <3> QED
      BY <1>1, <2>2, <2>3, <2>4, <3>1
  <2> QED
    BY <2>2, <2>3, <2>4
<1>3. ASSUME NEW us \in SUBSET Users, count' = Minus(count, us), tree'[a] \subseteq tree[a]
      PROVE  count'[a] > 0
  <2>1. count'[a] = count[a]
    BY <1>1, <1>3 DEF Minus
  <2> QED
    BY <1>0, <1>3, <2>1 DEF Emptied
<1>4. CASE Application
  <2>1. ASSUME NEW b \in Auths, NewAuth(b) PROVE count'[a] > 0
    BY <1>0, <1>1, <2>1 DEF NewAuth, TypeOK, Emptied
  <2>2. ASSUME NEW b \in Auths, DropAuth(b) PROVE count'[a] > 0
    BY <1>2, <2>2 DEF DropAuth, Objects
  <2>3. ASSUME NEW u \in Users, DropUser(u) PROVE count'[a] > 0
    BY <1>2, <2>3 DEF DropUser, Objects
  <2>4. ASSUME NEW u \in Users, NEW n \in Names, NewUser(u, n) PROVE count'[a] > 0
    BY <1>0, <1>1, <2>4 DEF NewUser, TypeOK, Emptied
  <2>5. ASSUME NEW b \in Auths, NEW u \in Users, AddUser(b, u) PROVE count'[a] > 0
    BY <1>0, <2>5 DEF AddUser, TypeOK, Emptied, NothingReachedIsFreed
  <2>6. ASSUME NEW b \in Auths, Clear(b) PROVE count'[a] > 0
    <3>1. tree[b] \in SUBSET Users /\ tree'[a] \subseteq tree[a] /\ count' = Minus(count, tree[b])
      BY <1>0, <2>6 DEF Clear, TypeOK
    <3> QED
      BY <3>1, <1>3
  <2>7. ASSUME NEW b \in Auths, NEW n \in Names, DelUser(b, n) PROVE count'[a] > 0
    <3>1. PICK u \in tree[b] : /\ tree' = [tree EXCEPT ![b] = @ \ {u}]
                               /\ count' = Minus(count, {u})
      BY <2>7 DEF DelUser
    <3>2. {u} \in SUBSET Users /\ tree'[a] \subseteq tree[a]
      BY <1>0, <3>1 DEF TypeOK
    <3> QED
      BY <3>1, <3>2, <1>3
  <2> QED
    BY <1>4, <2>1, <2>2, <2>3, <2>4, <2>5, <2>6, <2>7 DEF Application
<1>5. ASSUME NEW s \in Sessions, Session(s) PROVE count'[a] > 0
  <2>1. CASE New(s) \/ Login(s) \/ (\E n \in Names : Get(s, n))
               \/ (\E right \in BOOLEAN : Check(s, right))
    BY <1>0, <2>1 DEF New, Login, Get, Check, Emptied
  <2>2. CASE RefUser(s)
    BY <1>0, <1>1, <2>2 DEF RefUser, Ref, TypeOK, Emptied
  <2>3. CASE UnrefAuth(s)
    BY <1>0, <1>2, <2>3 DEF UnrefAuth, Standing, Objects
  <2>4. CASE Destruct(s)
    <3>1. CASE obj[s] = NoObj
      BY <1>0, <2>4, <3>1 DEF Destruct, Emptied
    <3>2. CASE obj[s] # NoObj
      BY <1>0, <1>2, <2>4, <3>2 DEF Destruct, TypeOK
    <3> QED
      BY <3>1, <3>2
  <2>5. ASSUME NEW c \in Auths, SetAuth(s, c) PROVE count'[a] > 0
    <3>1. CASE obj[s] = NoObj
      BY <1>0, <1>1, <2>5, <3>1 DEF SetAuth, Ref, TypeOK, Emptied
    <3>2. CASE obj[s] # NoObj
      <4> DEFINE b == obj[s]
                 m == Minus(count, {b} \cup Destroyed(b))
      <4>1. b \in Auths /\ Destroyed(b) \subseteq Users
        BY <1>0, <2>5, <3>2 DEF SetAuth, Standing, Destroyed, TypeOK
      <4>2. /\ m[a] = IF a = b THEN count[a] - 1 ELSE count[a]
            /\ DOMAIN m = Objects
        BY <1>1, <4>1 DEF Minus
      <4>3. count' = Ref(m, c)
        BY <2>5, <3>2 DEF SetAuth
      <4>4. tree'[a] = (IF a = b THEN tree[a] \ Destroyed(a) ELSE tree[a])
        BY <1>0, <2>5, <3>2 DEF SetAuth, TypeOK
      <4>5. count[a] > 0 /\ (a = b => count[a] # 1)
        BY <1>0, <4>4 DEF Emptied, Destroyed
      <4> HIDE DEF m
      <4>6. count'[a] = IF a = c THEN m[a] + 1 ELSE m[a]
        BY <1>1, <4>2, <4>3 DEF Ref
      <4> QED
        BY <1>1, <4>2, <4>5, <4>6
    <3> QED
      BY <3>1, <3>2
  <2> QED
    BY <1>5, <2>1, <2>2, <2>3, <2>4, <2>5 DEF Session
<1> QED
  BY <1>4, <1>5 DEF Next

-----------------------------------------------------------------------------
LEMMA Inductive == IInv /\ [Next]_vars => IInv'
<1> SUFFICES ASSUME IInv, [Next]_vars PROVE IInv'
  OBVIOUS
<1>1. CASE Next
  <2>1. CountsAreHolders' /\ Standing'
    BY <1>1, ApplicationCounts, SessionCounts, ApplicationStanding, SessionStanding DEF Next
  <2>2. Shape'
    BY <1>1, ShapeStep DEF IInv
  <2>3. \A o \in Objects : count'[o] \in Nat
    <3>1. ASSUME NEW o \in Objects PROVE Holders(o)' \in Nat
      <4>1. /\ Cardinality({s \in Sessions : obj'[s] = o}) \in Nat
            /\ Cardinality({s \in Sessions : user'[s] = o /\ pc'[s] = "unref"}) \in Nat
        BY FiniteAssumption, Sizes
      <4>2. Cardinality({a \in Auths : o \in tree'[a]}) \in Nat
        BY FiniteAssumption, Sizes
      <4> QED
        BY <4>1, <4>2 DEF Holders
    <3> QED
      BY <2>1, <3>1 DEF CountsAreHolders
  <2>4. TypeOK'
    BY <2>2, <2>3 DEF Shape, TypeOK
  <2> QED
    BY <1>1, <2>1, <2>4, EmptiedStep DEF IInv
<1>2. CASE UNCHANGED vars
  BY <1>2 DEF vars, IInv, TypeOK, CountsAreHolders, Holders, Standing, Emptied
<1> QED
  BY <1>1, <1>2

(* The inductive invariant holds.                                           *)
THEOREM Invariance == Spec => []IInv
  BY Initially, Inductive, PTL DEF Spec

(* The variables keep their types; no count goes below zero.                *)
THEOREM TypeCorrect == Spec => []TypeOK
  BY Invariance, PTL DEF IInv

(* The count of an object is the number of its holders, however the steps   *)
(* of logins, of hev_socks5_server_set_auth, of the destructors and of the  *)
(* application are interleaved: nothing is leaked.                          *)
THEOREM CountsAreRight == Spec => []CountsAreHolders
  BY Invariance, PTL DEF IInv

(* No authenticator or user that can still be reached was destroyed.        *)
THEOREM NothingIsFreedEarly == Spec => []NothingReachedIsFreed
<1>1. IInv => NothingReachedIsFreed
  BY Reached DEF IInv
<1> QED
  BY <1>1, Invariance, PTL

(* The memory of a session's user is not reused while the session has it.   *)
THEOREM UsersStay == Spec => IdentityIsKept
<1> DEFINE Kept == \A s \in Sessions : \A u \in {user[s], obj[s]} \cap Users :
                     name'[u] = name[u]
<1>1. ASSUME IInv, [Next]_vars PROVE [Kept]_vars
  <2> SUFFICES ASSUME Next, NEW s \in Sessions, NEW u \in {user[s], obj[s]} \cap Users
               PROVE  name'[u] = name[u]
    BY <1>1
  <2>1. count[u] > 0 /\ TypeOK
    BY <1>1, Reached, ObjAssumption DEF IInv
  <2>2. ASSUME NEW v \in Users, NEW n \in Names, NewUser(v, n) PROVE name'[u] = name[u]
    BY <2>1, <2>2 DEF NewUser, TypeOK
  <2>3. CASE ~ \E v \in Users, n \in Names : NewUser(v, n)
    <3>1. UNCHANGED name
      BY <2>3 DEF Next, Application, Session, NewAuth, DropAuth, AddUser, DropUser, DelUser,
         Clear, New, SetAuth, Login, Get, Check, RefUser, UnrefAuth, Destruct
    <3> QED
      BY <3>1
  <2> QED
    BY <2>2, <2>3
<1> QED
  BY <1>1, Invariance, PTL DEF Spec, IdentityIsKept
=============================================================================
