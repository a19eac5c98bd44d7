# Specifications of hev-socks5-core

hev-socks5-core is a SOCKS5 library for programs built on hev-task-system: server
sessions, clients, the TCP and UDP relays, users and an authenticator. These
TLA+ modules model its protocol logic; TLC checks them on small instances and
TLAPS proves their safety for every value of the constants ("What is proved").
Paths below are relative to the repository; the code is under `src/`.

## The system

| part | state it keeps | operations | how it interacts |
|---|---|---|---|
| server session (`hev-socks5-server.c`) | type, timeout, address family, `obj` (none, authenticator, user), `fd`, `fds[0..1]` | new, set_auth, run (greeting, authentication, request, connect or bind, response, relay), destruct | one task per session; shares descriptors and the authenticator with the others |
| client (`hev-socks5-client.c`, `-client-tcp.c`, `-client-udp.c`) | type, timeout, family, `fd`, the UDP class's own `fd`, the target address, credentials | new, set_auth, connect, handshake (standard and pipelined), destruct | talks to a session over a TCP stream |
| base object (`hev-socks5.c`) | type, timeout, `fd`, `udp_associated` | construct, set_timeout, destruct, default binder | base class of both ends |
| UDP relay (`hev-socks5-udp.c`) | `res_f`, `res_b`, `bind`, copy buffers; `timeout`, `udp_associated` of the session | splicer, fwd_f, fwd_b, send and receive of message batches in two framings | runs at the end of a session; its yielder looks at the control connection |
| TCP relay (`hev-socks5-tcp.c`) | none | splicer: one call of `hev_task_io_splice` | as above |
| authenticator, users (`hev-socks5-authenticator.c`, `-user.c`) | a tree of users; reference counts | add, del, get, clear; check | referenced by sessions, changed by the application |
| red-black tree (`hev-rbtree.c`) | root; links and colour of each node | insert_color, erase, replace, first, last, next, prev | inside the authenticator, which searches it |
| task I/O and addresses (`hev-socks5-misc.c`) | the settings | yielder, socket, address conversion, resolution | called by all |
| logger, compiler macros | - | - | - |

hev-task-system and hev-object are submodules that are not in the repository.
Scheduling, socket I/O and reference counts are modelled from how the code calls
them and marked external in the map.

What makes it hard: every wait for the network may end with the data, with the
end of the connection or with the session's timer, and each exit has descriptors,
memory and a timer to put right; the two ends may each wait for the other, with
data held back in the kernel (`MSG_MORE`); the UDP relay runs two directions in
one task over edge-triggered events, with waits inside each direction; results
are numbers of bytes, numbers of messages or -1 with an `errno` that may be an
older call's; objects are shared by reference count between tasks and threads.
`PROJECT.json` lists these hazards by line, with the properties that watch each.

## Modules

`Socks5Base` - code points, the sticky-zero rule of `set_timeout`, and the
outcomes of a wait: done, closed, or (only when the timeout is not negative) timer.

`Socks5Server` - sessions over one descriptor table. A step is the code from one
wait, or one system call that takes or returns a descriptor, to the next; `pc`
names the wait. `fd[s]` has the slots `ctl` (`base.fd`), `fds0`, `fds1` and `conn`
(the local descriptor of `hev_socks5_server_connect` while it waits). `obj[s]`
is the union of authenticator and user. What a peer sends, and how each wait
ends, are parameters of the actions. `out` is a history of what was written.

`Socks5Dialogue` - the abstract specification: what a server promises each peer.
One method reply, one reply to credentials if the server is guarded, one response
once the gate is passed, a relay after a response of success and nothing else.
`Socks5Server` implements it with `phase` from `pc`, `guarded` from `obj` and
`said` from `out` (`KeepsToDialogue`).

`Socks5Client` - one client object of either class, in both forms of the
handshake; `addr` follows the memory of the request address. The application
calls connect and then handshake, once, and releases the object afterwards.

`Socks5Link` - the two composed (`INSTANCE`) over one connection: order of bytes,
bytes held back after `MSG_MORE`, end of stream and reset, and the number of
bytes each end wrote and read.

`Socks5UDP` - the splicer's loop as it runs in the server: one action per wait or
call. `wake` is an event not yet slept off; any wait within a direction may use it
up. A frame in the TCP stream is three pieces (some of the first five bytes, the
rest of the five, the body), so that it may be cut where the code waits. A result
of -1 that no system call set becomes -1 or 0 (`StaleErrno`), because the callers
read `errno`. Where a number of bytes is returned for a number of messages
(`ShortHeader`, `TakesForMessages`), the batch gets that many messages, and those
that no receive filled in are `Unset`: their address is what the stack left, so
`PassOn` may fail on it, end the process (`crash`) or go on, and the packet sent is
one the client never sent. So is a body read as a header. `ctl` counts the unread
bytes of the control connection of a client on UDP: nothing in the protocol puts
any there, but the yielder looks for the end by reading one of them
(`ControlClosed`). A wait within a direction may end only after many turns of the
yielder, so `WaitEnds` and `WaitFails` let it read any number of them.

`Socks5Channel` - the abstract specification of that relay when no call on a socket
fails and no timer runs: two channels that keep the order and lose nothing in
between. What the client's going away does to them is part of it. The end of the
connection may leave a part of an answer with the client, and then it is the last it
gets. A client that goes within a frame (`broken`) may have messages sent that
nobody sent (`MakeUp`): once, after whole packets in their order, and nothing
follows them. `Socks5UDP` implements it with `broken <- gone /\ rest # <<>>` and its
own `sent`, `up`, `answered` and `back` (`KeepsChannel`). A step of the channel
passes on any number of packets, for a batch is one call.

`Socks5Frame` - sender and receiver of UDP-in-TCP frames with the widths of the
fields, and the conversion of addresses to `sockaddr_in6` and back. An address is its
four or sixteen bytes; the conversions place and pick them as `memcpy` and
`memset` do, and tell the families apart by the twelve bytes of the mapped form.

`Socks5Users` - reference counts of authenticators and users. A login is one step
per change of a count; the tree has no lock, so the application is taken to change
it only while no login is in it, as the code requires, but may drop or replace
an authenticator at any time. A user is made (`NewUser`, also in the memory of a
destroyed one), handed to an authenticator or refused by it, in which case it
stays the application's (`AddUser`), and dropped (`DropUser`).

`Socks5Tree` - the tree of an authenticator: `tree` is the root and the links and
colours of `hev-rbtree.c`, node by node. An operation searches and links or
unlinks in one step; from there each round of the loop of `insert_color` or
`erase_color` is a step, with `cur` and `par` for its locals `node` and `parent`.
What the code writes twice, left and right, is written once with the side as a
parameter; the links that the two halves of a rotation write one after the other
are those left at its end. Names are sequences of bytes, compared by length
first as the authenticator does. `clearing` is `hev_socks5_authenticator_clear`,
which erases the first node until none is left.

`Socks5Directory` - the abstract specification of the authenticator: a set of
names, and operations that answer in one step. `Socks5Tree` implements it with
`names <- NamesIn`, the names of the nodes that the root reaches: the answer and
the change come with the search, and rebalancing is a stutter (`KeepsDirectory`).

`MCSocks5*` give the constants small values. `*_proof` hold the proofs.

## Runs

| run | instance | shows |
|---|---|---|
| server_safe | 2 sessions, 4 descriptors, 1 account, right and wrong names and passwords; symmetric | `FdOwnership`, `AuthGate`, `ReadyWhenTold`, `TimeoutFitsPhase`, `SessionsInv`, types |
| server_live | 1 session, fair | `HandshakeEnds`; the session implements `Socks5Dialogue`, its fairness included |
| client | 1 client, 3 descriptors, any server | `FdOwnership`, `AddressAtHand`, `AddressReleased`, `UsableWhenOk`, `HandshakeReturns` |
| link_patient | 1 client, 1 session, no timers | `NoMutualWait`, `ClientIsAnswered`, `BothRelay`, what may be held back |
| link_safe | the same with timers | `SpeakInTurn`, `Agreement`, `InStep` |
| udp_timed | both modes, 2 buffers, 2 packets of 5 kinds, 2 answers, cut and torn frames, an unread control byte, failures, timer | `AnswersHavePeer`, `RelayEnds`, what a receive fills in |
| udp_patient | 4 packets that fit, cut and torn frames, an unread control byte, no failures, no timer | the relay implements `Socks5Channel`; `DatagramTaken`, `AnswerDelivered`, `ControlEnds` |
| frame | 2 frames, all address types, IPv6 addresses around the mapped ones, shortest and longest header and payload | `FramesComeThrough`, `AnswersAreAddressed` |
| users | 2 authenticators, 3 users, 2 names, 2 sessions; symmetric | `NothingReachedIsFreed`, `CountsAreHolders`, `IdentityIsKept` |
| tree | 10 names, 11 users | the tree implements `Socks5Directory`; `LinksAgree`, `BalancedButForOneFlaw`, `NeighboursAgree`, `Settles` |
| udp_big, udp_short | small | each finds one disagreement, below |

Bounds. Two sessions and four descriptors fill the table (a UDP association takes
three), so closed descriptors come back as another session's. The code does the
same thing for every account. Two buffers and four packets make a batch that is
partial, full and followed by another; three or more repeat it. A header cut short
counts as up to four messages, a body as up to `MaxBytes` = 3: fewer than the two
buffers, as many, and more. One unread byte on the control connection (`MaxCtl`)
hides its end. Two authenticators and two sessions let one be replaced while the other is used.
Ten names are as many as it takes before an erasure leaves a black node missing on
two levels, so that every case of both loops is met in its second round too; all
trees that can be built with them are visited. The eleventh user shares a name
with another, for the refusal and for `hev_rbtree_replace`. The run has a `VIEW`
without `asked` and `ok`, the answer of the last operation: they are written and
never read, so states that differ in them only have the same future, and
`KeepsDirectory` is checked on every step from a state, not only on new ones.

Fairness. A task that can run is run, an armed timer fires, the resolver answers:
that is what hev-task-system does for every task. Nothing is assumed of a peer or
the application in `server_live` and `client`. In `link_patient` both ends' tasks
go on and the kernel lets go of held data. In `udp_patient` a client that has
begun a frame goes on with it, or closes, and reads its answers: there is no timer that would
otherwise end the wait; nothing makes it send, so `DatagramTaken` and
`AnswerDelivered` only speak of what has come. In `tree` a call that has begun
runs on, for nothing in it waits (`Round`: the loop ends or goes on from another
node, as each of its actions does), and the loop of clear is one call; that each loop
comes to an end is what `Settles` checks, not what the fairness says.
`CHECK_DEADLOCK FALSE` stands where a system really stops: a client returned, a relay done, counters used up.

## Findings

* `udp_big`. `recvmmsg_tcp` (`hev-socks5-udp.c:198`) refuses a message that does
  not fit its buffer after taking the five bytes of its header, with -1 and no
  `errno` of its own; `fwd_f` then finds an older `EAGAIN`, takes it for "nothing
  to read", and goes on in the middle of the frame.
* `udp_short`. When the client's stream ends within a frame, `recvmmsg_tcp` returns
  the bytes it got of the header (`hev-socks5-udp.c:183`) or of the body (217) and
  `fwd_f` (339-370) takes them for messages: it walks through entries of `svec` that
  nothing filled in, past the end of the array when there are more than buffers, and
  sends what it finds, if it does not fail or crash on it. No failing call and no
  timer is needed.

Observed and not a run: a send of answers that the timer ends within a frame gives
-1 with `errno` still `EAGAIN` (`hev-socks5-udp.c:94`, 418), and the direction goes
on after a torn frame. It has the same root as `udp_big`, an `errno` read after a
-1 that no call set; the model has it (`SendBStream` with `StaleErrno`), and
`KeepsChannel` is checked where no timer runs. The first field of a frame holds
the length of the data alone (`hev-socks5-udp.c:81`, `Datlen`), where the documentation
says the total length of the message (the repository's `README.md:189`). A header length of a name of 249 bytes
or more wraps its byte (`hev-socks5-udp.c:82`), so `frame` stops at 248. When a TCP client resets
its connection while an answer waits to be sent, the wait uses up the event of
what it had sent before, and the task sleeps over those bytes until its timer;
`DatagramTaken` leaves this case out. A failed send of a request takes the
address along (`AddressReleased` says exactly when). A datagram of length zero
or an unknown name ends the forward direction. A wait for the resolver is not
under the session's timer. After a failed connect the response that tells of it is
sent under the connect timer (`hev-socks5-server.c:382`). The end of a control
connection stays unseen behind bytes that nobody asked for (`hev-socks5-udp.c:37`):
the yielder reads one a turn and takes it for "still open", and the event of the
close may be spent by then. With a timer the relay still ends, and `RelayEnds`
covers it; without one it may wait for ever, so `ControlEnds` speaks of an end with
nothing unread before it.

## What is proved

Every invariant that the passing runs check is a theorem; the module of a theorem is
named here, `PROJECT.json` lists them one by one. Each
rests on the assumptions of its module (-1 is no descriptor, the account table is a
function, NULL and the authenticator are no users, timeouts are integers,
lengths are natural numbers, names and addresses are strings of bytes, there are finitely many
nodes) and on the ones named below, and on nothing else.

`Socks5Server_proof`: `TypeOK`, `FdOwnership`, `SessionsInv`, `AuthGate`,
`ReadyWhenTold`, for every number of sessions and descriptors, every account table
and all timeouts. `AuthGate` and `ReadyWhenTold` are not inductive: they
do not say what a session holds and has said while it is still on its way. The
induction goes over `TypeOK /\ FdOwnership /\ SessionsInv`, where `SessionsInv`
gives for each place of the code what is held, said and owed. `SessionsInv` is
local to a session: an action of another leaves it alone (lemma `Frame`), the
actions of one are taken group by group. `FdOwnership` is about all sessions:
a table step is one of taking, releasing or moving a descriptor, with a lemma each.
`TimeoutFitsPhase` (`TimersFit`) needs a connect and a TCP timeout other than
zero: `hev_socks5_set_timeout` does not leave a zero again, and then the
timers no longer follow the phases. It allows the connect timer in two places: the
connect, and the response after one that failed, where the code does not put the
other back. Its own induction (`PhaseTimers`) is about
the swap of the two timers around `connect`.

In the same module, `Socks5Dialogue`: every behaviour of the server is one of the
dialogue, in its safety part (`ServerKeepsToDialogue`); hence a relay only after the
peer was told so (`RelaysAreEarned`). Each action maps to a dialogue step or a
stutter, under the invariant above.

`Socks5Client_proof`: `TypeOK`, `FdOwnership`, `AddressAtHand`, `AddressReleased`
and, with a connect and a TCP timeout other than zero, `UsableWhenOk`. `AddressAtHand`
speaks of one place of the code; the induction (`ClientInv`) says for all of them
which descriptors are there (`Holdings`), where the memory of the address is
(`Address`) and what a result stands for (`Result`).

`Socks5Link_proof`: `Agreement`, `InStep`, `NoMutualWait`, `SpeakInTurn` and
`LinkTypeOK`, for both forms of the handshake, all accounts and logins, all lengths
of names, passwords and domains, all timeouts. What holds at one end depends on
what the other did some messages ago, so the invariant is stated over the
conversation as it is planned from the client's object: `Plan` is what it sends in
turn and `Due` the reply to each. `Sent`, `Got`, `Taken` and `Told` count how far
each end has come, by the place it stands at. `Upstream` says that, as long as the
session has not ended or decided to refuse, what is under way or held back is just
the part of the plan between `Taken` and `Sent`, and counts its bytes; `Downstream`
that the replies under way are those between `Got` and `Told`, the last of which
may be a refusal if the session is over. `Session` says whom a session knows and
what it is about to answer. The lemmas go from the two modules' actions (`...Is`,
`...Goes`) over what a step leaves alone (`UpKept`, `DownKept`, `QuietKept`) to one
step of each kind: a send, a read at either end, an answer, an end that gives up.
The proof covers the `Spec` in which either end may close at any time.

`Socks5Users_proof`: `CountsAreHolders`, `NothingReachedIsFreed`, `IdentityIsKept`
and `TypeOK`, for any finite number of authenticators and sessions and any set of
users. A count is a sum of cardinalities; each step adds or takes one holder
of one kind, and lemmas say what that does to each sum. The strengthening
is what a session stands on in the middle of a login (`Standing`) and that only
living authenticators have users (`Emptied`).

`Socks5Frame_proof`: `AnswersAreAddressed`, for all addresses, byte by byte: the
two layouts invert each other (`Mapped`, `IsMapped`), and an IPv6 address that is
not mapped is never taken for an IPv4 one; and
`FramesComeThrough` under `Fitting`: names of at most 248 bytes, lengths that fit
16 bits, frames that fit the buffer. Those are not idle hypotheses: a name of 249
bytes wraps its length byte (see Findings). The induction relates stream and queue item
by item, for any number of frames.

`Socks5UDP_proof`: `AnswersHavePeer` and `TypeOK`, for every number of buffers,
packets and kinds, with failures, cuts and timers. `PeerInv` says what an answer
depends on: whatever was sent upstream or waits there implies a bound socket and a
known client, and both are settled between the receive and the send of a batch.
`TypeInv` says how long a batch is at each wait, which of its messages were filled
in, and what the results may be. `TypeOK` bounds what a receive fills in; it does
not say that `fwd_f` stays within its array, which `udp_short` refutes.

In the same module, `Socks5Channel`: the relay implements it (`RelayIsTwoChannels`,
the whole property `KeepsChannel`) under `Calm`: packets fit their buffers, no
call on a socket fails, no timer runs. The client may close anywhere. `udp_big` shows
what becomes of the channel without the first, the remark on torn frames without the
last. The invariant (`Relay`) follows the packets of each direction through stream,
batch and result, in both framings and with a frame cut anywhere. For what goes
upstream it tells three stages apart: packets in order, a batch counted in bytes after
a frame broken off (`Misread`), and the stream used up after it was sent (`Spent`).
`Quiet` says that under `Calm` only the end of the connection makes a wait fail.
Each step of the loop then passes on a part of a queue, makes its messages up once,
or stutters.

`Socks5TreeShape_proof`, `Socks5Tree_proof`: `TypeOK`, `LinksAgree`,
`BalancedButForOneFlaw`, `NeighboursAgree` and the implementation of
`Socks5Directory` (`DirectoryKept`, the whole property `KeepsDirectory`), for every
finite set of users and every set of names. None of these is inductive, and they
need each other: `Add` keeps even the types only if a user that is in the
tree is found, so the tree has to be sorted; a rotation takes a sibling to be there,
so the links need the colours; and in the middle of a loop the colours are wrong in
one place, which has to be where the loop looks. The definitions of the
properties follow paths by recursive functions, which no step of a proof can
unfold to the end. So the invariant (`IInv`) is local: it says that there are two
tables, the set `D[n]` of the nodes from `n` downwards and the number `h[n]` of black
nodes on a path from there, in which each node's entry follows from those of its
children. With them the tree is a search tree (`Shape`), no red node has a red parent
(`Calm`), all paths are equally black (`Even`), with the one exception that the loop at
work is about to mend:

| `pc` | the exception | |
|---|---|---|
| idle | none | `Settled` |
| insert | `cur` may be a red node below a red one | `Upset` |
| erase | a black node is missing below `par`, on the side of `cur` | `Short` |

The proof has these parts.
`Compare` is an order (`CompareChain`). What a recursive function over the links
computes (`Reached`, `End`, `SearchEnd`, `Step`) is given by the tables, for every one
of them ends: going down the sets shrink, going up they grow, and there are finitely
many nodes (`FollowUp`, `ReachOne`, `EndIs`, `GoIs`, `StepIs`). Four changes of a tree
are described as relations and each shown to keep `Shape`, with the tables that belong
to the result: a rotation (`RotShape`), a new leaf (`LeafShape`), a node cut out
(`CutShape`), a node put in the place of another (`PutShape`). Every assignment
sequence of the code is one of them or two in turn: a double rotation
is two rotations, though the code never links the tree between them (`TwoSwings`), and
the erasure of a node with two children is its successor cut out and then put in its
place (`FullIs`). Over those go the rounds of the loops, case by case
(`FlipRound`, `OuterRound`, `InnerRound`; `SiblingRound`, `ShortFlip`, `OuterErase`,
`InnerErase`), and the calls (`LinkRound`, `EraseAlone`, `EraseFull`, `ReplaceRound`).
The properties then follow from the invariant: `InTree` is the table's set at the
root, the black nodes counted above a node and `h` below it always have the
same sum (`PathSum`), and a step changes the set of names as the directory does.
TLC checks those consequences on the tree's run; the invariant itself
asks for tables TLC would have to guess.

Two more theorems say what the balance is for. `LoopsClimb`: between two rounds of
a loop the nodes above `par` become fewer, so no call runs more rounds than the tree
is high; this is the safety half of `Settles`, for trees of any size.
`SearchesAreShort`: between two calls no path from the root has more than `2 * k`
nodes, where the tree has at least `2^k - 1`. A subtree with `w` black nodes on every
path has at least `2^w - 1` nodes (`WeightSize`), at most half of the nodes on a path
are red, since the parents of red nodes are black and all different (`HalfBlack`),
and the powers of two are counted as subsets (`TwoTo`).

Only model-checked: everything temporal (`HandshakeEnds`, `HandshakeReturns`,
`ClientIsAnswered`, `BothRelay`, `RelayEnds`, `ControlEnds`, `DatagramTaken`,
`AnswerDelivered`, `Settles`, the fairness in `KeepsToDialogue`), since liveness
is out of the provers' reach.

## What is abstracted

Sends to a stream are all or nothing outside `Socks5UDP`, although the code takes
a short positive send for success. Names, passwords and addresses are members of
small sets. Memory allocation does not fail. Settings are constants: the
application sets them before it starts. Byte layouts appear where a length decides
what is read next (`Socks5Link`, `Socks5Frame`). Log messages are left out.

## Not modelled

The logger and the macros of `hev-compiler.h`: no state of the protocol depends
on them. The tables of class methods: the modules have the methods they lead to.
The getters and setters of the settings in `hev-socks5-misc.c`: a setting is a
constant. The TCP relay's splice and everything below it is a call into
hev-task-system, which is not in the repository: a relay is one state that ends.
`hev_socks5_addr_into_str` formats for the log.

## Plan

1. Done: the two ends, their composition, the dialogue, the UDP relay and the
   channel it implements, frames, reference counts, the tree and the directory it
   implements.
2. Done: proofs of the safety of all of them; the refinements of the dialogue, the
   channel and the directory.
3. Left: liveness under the code's fairness is checked on small instances only; what
   of it is safety for the tree's loops is `LoopsClimb`.
