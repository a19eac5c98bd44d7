---------------------------- MODULE Socks5Users -----------------------------
(***************************************************************************)
(* The reference counts of authenticators and users                        *)
(* (hev-socks5-authenticator.c, hev-socks5-user.c) and the sessions that   *)
(* use them (hev-socks5-server.c).                                         *)
(*                                                                         *)
(* The counts are atomic, so sessions of several threads may log in at the *)
(* same time and the application may let go of an authenticator meanwhile: *)
(* a login is one step per change of a count.  The tree of an              *)
(* authenticator has no lock: while a login is in it, it is not changed.   *)
(***************************************************************************)
EXTENDS Integers, FiniteSets

CONSTANTS
    Auths, Users,   \* the memory of such objects
    Names,          \* the names of users
    Sessions,
    NoObj           \* NULL

ASSUME ObjAssumption ==
    /\ NoObj \notin Auths \cup Users
    /\ Auths \cap Users = {}

ASSUME FiniteAssumption == IsFiniteSet(Auths) /\ IsFiniteSet(Sessions)

Objects == Auths \cup Users

VARIABLES
    count,    \* the references of each object; 0: it was destroyed
    tree,     \* the users in each authenticator
    name,     \* the name of each user
    app,      \* the authenticators and users the application holds a reference to
    obj,      \* self->obj of each session
    user,     \* the local variable user of a session in read_auth_user
    pc        \* of each session

vars == <<count, tree, name, app, obj, user, pc>>

Init ==
    /\ count = [o \in Objects |-> 0]
    /\ tree = [a \in Auths |-> {}]
    /\ name \in {[u \in Users |-> n] : n \in Names}
    /\ app = {}
    /\ obj = [s \in Sessions |-> NoObj]
    /\ user = [s \in Sessions |-> NoObj]
    /\ pc = [s \in Sessions |-> "none"]

-----------------------------------------------------------------------------
(* hev_object_ref and hev_object_unref; the last reference destroys, and an *)
(* authenticator then gives back its users (hev_socks5_authenticator_clear).*)

Ref(c, o) == [c EXCEPT ![o] = @ + 1]

Minus(c, os) == [o \in Objects |-> IF o \in os THEN c[o] - 1 ELSE c[o]]

\* Mutant of Destroyed: the destructor leaves the users.
DestroyedOnly(o) == {}

\* The users that go down with an object.
Destroyed(o) == IF o \in Auths /\ count[o] = 1 THEN tree[o] ELSE {}

Unref(o) ==
    /\ count' = Minus(count, {o} \cup Destroyed(o))
    /\ tree' = [a \in Auths |-> IF a = o THEN tree[a] \ Destroyed(a) ELSE tree[a]]

\* Nobody is in the tree of a.
Quiet(a) == \A s \in Sessions : ~(obj[s] = a /\ pc[s] \in {"get", "check", "ref"})

-----------------------------------------------------------------------------
(* The application.                                                         *)

NewAuth(a) ==
    /\ count[a] = 0 /\ a \notin app
    /\ count' = [count EXCEPT ![a] = 1]
    /\ tree' = [tree EXCEPT ![a] = {}]
    /\ app' = app \cup {a}
    /\ UNCHANGED <<name, obj, user, pc>>

DropAuth(a) ==
    /\ a \in app
    /\ Unref(a)
    /\ app' = app \ {a}
    /\ UNCHANGED <<name, obj, user, pc>>

Fits(a, u) == \A v \in tree[a] : name[v] # name[u]

\* hev_socks5_user_new, where the memory of a destroyed user may be had again.
NewUser(u, n) ==
    /\ count[u] = 0 /\ u \notin app
    /\ count' = [count EXCEPT ![u] = 1]
    /\ name' = [name EXCEPT ![u] = n]
    /\ app' = app \cup {u}
    /\ UNCHANGED <<tree, obj, user, pc>>

\* The authenticator takes the application's reference over; a user whose name
\* is taken stays the application's.
AddUser(a, u) ==
    /\ a \in app /\ u \in app /\ Quiet(a)
    /\ IF Fits(a, u)
       THEN tree' = [tree EXCEPT ![a] = @ \cup {u}] /\ app' = app \ {u}
       ELSE UNCHANGED <<tree, app>>
    /\ UNCHANGED <<count, name, obj, user, pc>>

DropUser(u) ==
    /\ u \in app
    /\ Unref(u)
    /\ app' = app \ {u}
    /\ UNCHANGED <<name, obj, user, pc>>

DelUser(a, n) ==
    /\ a \in app /\ Quiet(a)
    /\ \E u \in tree[a] :
         /\ name[u] = n
         /\ tree' = [tree EXCEPT ![a] = @ \ {u}]
         /\ count' = Minus(count, {u})
    /\ UNCHANGED <<name, app, obj, user, pc>>

Clear(a) ==
    /\ a \in app /\ Quiet(a)
    /\ tree' = [tree EXCEPT ![a] = {}]
    /\ count' = Minus(count, tree[a])
    /\ UNCHANGED <<name, app, obj, user, pc>>

-----------------------------------------------------------------------------
(* The sessions.                                                            *)

New(s) ==
    /\ pc[s] = "none"
    /\ pc' = [pc EXCEPT ![s] = "new"]
    /\ UNCHANGED <<count, tree, name, app, obj, user>>

\* Mutant of SetAuth: the reference is not taken.
SetAuthBorrows(s, a) ==
    /\ pc[s] = "new" /\ a \in app
    /\ obj[s] = NoObj
    /\ obj' = [obj EXCEPT ![s] = a]
    /\ UNCHANGED <<count, tree, name, app, user, pc>>

\* hev_socks5_server_set_auth: the old one is given back before the new one is
\* taken.
SetAuth(s, a) ==
    /\ pc[s] = "new" /\ a \in app
    /\ IF obj[s] = NoObj THEN count' = Ref(count, a) /\ UNCHANGED tree
       ELSE /\ tree' = [tree EXCEPT ![obj[s]] = @ \ Destroyed(obj[s])]
            /\ count' = Ref(Minus(count, {obj[s]} \cup Destroyed(obj[s])), a)
    /\ obj' = [obj EXCEPT ![s] = a]
    /\ UNCHANGED <<name, app, user, pc>>

\* The credentials have come: hev_socks5_authenticator_get begins.
Login(s) ==
    /\ pc[s] = "new" /\ obj[s] \in Auths
    /\ pc' = [pc EXCEPT ![s] = "get"]
    /\ UNCHANGED <<count, tree, name, app, obj, user>>

Get(s, n) ==
    /\ pc[s] = "get"
    /\ \/ \E u \in tree[obj[s]] :
            /\ name[u] = n
            /\ user' = [user EXCEPT ![s] = u]
            /\ pc' = [pc EXCEPT ![s] = "check"]
       \/ /\ \A u \in tree[obj[s]] : name[u] # n
          /\ pc' = [pc EXCEPT ![s] = "fini"]
          /\ UNCHANGED user
    /\ UNCHANGED <<count, tree, name, app, obj>>

Check(s, right) ==
    /\ pc[s] = "check"
    /\ IF right THEN pc' = [pc EXCEPT ![s] = "ref"] /\ UNCHANGED user
       ELSE pc' = [pc EXCEPT ![s] = "fini"] /\ user' = [user EXCEPT ![s] = NoObj]
    /\ UNCHANGED <<count, tree, name, app, obj>>

\* Mutant of RefUser: the authenticator is given back first.
RefUserLast(s) ==
    /\ pc[s] = "ref"
    /\ Unref(obj[s])
    /\ pc' = [pc EXCEPT ![s] = "unref"]
    /\ UNCHANGED <<name, app, obj, user>>

RefUser(s) ==
    /\ pc[s] = "ref"
    /\ count' = Ref(count, user[s])
    /\ pc' = [pc EXCEPT ![s] = "unref"]
    /\ UNCHANGED <<tree, name, app, obj, user>>

UnrefAuth(s) ==
    /\ pc[s] = "unref"
    /\ Unref(obj[s])
    /\ obj' = [obj EXCEPT ![s] = user[s]]
    /\ user' = [user EXCEPT ![s] = NoObj]
    /\ pc' = [pc EXCEPT ![s] = "fini"]
    /\ UNCHANGED <<name, app>>

\* hev_socks5_server_destruct, at the latest after the relay.
Destruct(s) ==
    /\ pc[s] \in {"new", "fini"}
    /\ IF obj[s] = NoObj THEN UNCHANGED <<count, tree>> ELSE Unref(obj[s])
    /\ obj' = [obj EXCEPT ![s] = NoObj]
    /\ pc' = [pc EXCEPT ![s] = "none"]
    /\ UNCHANGED <<name, app, user>>

-----------------------------------------------------------------------------
Session(s) ==
    \/ New(s) \/ (\E a \in Auths : SetAuth(s, a)) \/ Login(s)
    \/ (\E n \in Names : Get(s, n)) \/ (\E right \in BOOLEAN : Check(s, right))
    \/ RefUser(s) \/ UnrefAuth(s) \/ Destruct(s)

Application ==
    \/ \E u \in Users : DropUser(u) \/ \E n \in Names : NewUser(u, n)
    \/ \E a \in Auths :
      \/ NewAuth(a) \/ DropAuth(a) \/ Clear(a)
      \/ \E n \in Names : DelUser(a, n)
      \/ \E u \in Users : AddUser(a, u)

Next == Application \/ \E s \in Sessions : Session(s)

Spec == Init /\ [][Next]_vars

-----------------------------------------------------------------------------
(* Type correctness; a count never goes below zero.                         *)
TypeOK ==
    /\ count \in [Objects -> Nat]
    /\ tree \in [Auths -> SUBSET Users]
    /\ name \in [Users -> Names]
    /\ app \subseteq Objects
    /\ obj \in [Sessions -> Objects \cup {NoObj}]
    /\ user \in [Sessions -> Users \cup {NoObj}]
    /\ pc \in [Sessions -> {"none", "new", "get", "check", "ref", "unref", "fini"}]

(* Nothing that is destroyed is reached any more: by the application, a     *)
(* tree, a session, or a login that has looked its user up.                 *)
NothingReachedIsFreed ==
    /\ \A a \in app : count[a] > 0
    /\ \A a \in Auths : \A u \in tree[a] : count[u] > 0
    /\ \A s \in Sessions : obj[s] # NoObj => count[obj[s]] > 0
    /\ \A s \in Sessions : user[s] # NoObj => count[user[s]] > 0

(* The count of an object is the number of its holders: nothing is leaked,  *)
(* whatever order logins, swaps and destructions come in.                   *)
Holders(o) ==
    Cardinality({s \in Sessions : obj[s] = o})
      + Cardinality({s \in Sessions : user[s] = o /\ pc[s] = "unref"})
      + Cardinality({a \in Auths : o \in tree[a]})
      + (IF o \in app THEN 1 ELSE 0)

CountsAreHolders == \A o \in Objects : count[o] = Holders(o)

(* A session that looked a user up or logged in as it has that user until   *)
(* it is done, whatever is deleted, replaced and made meanwhile: the memory *)
(* of its user does not become another's.                                   *)
IdentityIsKept ==
    [][\A s \in Sessions : \A u \in {user[s], obj[s]} \cap Users :
         name'[u] = name[u]]_vars
=============================================================================
