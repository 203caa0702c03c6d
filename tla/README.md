# A verification development of CeriosCluster

CeriosCluster is a Minecraft 1.8 server cut into two kinds of processes: a
*Client Gateway*, to which players connect over TCP, and *Client Server* nodes,
to which the gateway is meant to relay game packets over UDP. This directory
holds TLA+ models of the code under `src/`, the TLC configurations that check
them, and theorems about them that TLAPS checks.

Contents: 1 the system, 2 its parts and what makes them correct, 3 the modules,
4 how the models abstract, 5 the runs, 6 fairness, 7 the proofs, 8 what the
code does otherwise than it says, 9 what is not modelled, 10 the plan.

## 1. The system

```
 player --TCP--> Client (one object per connection)
                   |  owner: first Login (lobby), then ClientServer (roster)
                   v
   Login  --handoffClient--> ClientServer --MySQL--> players table
     |  asio io_service,        |
     |  N worker threads        +--UDP (InternalComms)--> Client Server nodes
   session server (HTTP)
```

One gateway process runs one asio `io_service` on several worker threads
(`Login::listen`). Every accept, read, write, timer wait and HTTP request is an
asynchronous operation whose handler runs on whichever worker is idle; two
handlers of *one* connection may therefore run at the same time, and nothing
but `clientMapMutex` (in `handleClient` and `handoffClient`) and the strand of
the write handlers orders them. A `Client` is held by `unique_ptr`, in the
lobby's `pendingClients` (keyed by socket handle) or the roster's `clients`
(keyed by userid), and its asynchronous handlers are bound to the raw `this`:
they still run after the object was destroyed. An exception that leaves a
handler is caught in the worker loop, which goes on.

## 2. The parts, their hard behaviour and what makes them correct

| part | state | operations | hard | correct when |
|---|---|---|---|---|
| Lobby, `Login` (`Client Gateway/LoginServer.cpp`) | `pendingClients`, `clientMapMutex`, the acceptor | `asyncClientAccept`, `handleClient`, `handoffClient`, `clientDisconnected`, `listen` | objects arm reads before they are stored; descriptors are reused; a slot is looked up under the handle of *now* | an object has one owner; a login is handed off; the acceptor comes back |
| Connection, `Client` (`Client Gateway/Client.cpp`) | socket, `alive`, `state`, `owner`, `userid`, `lastSeen`, `keepaliveTimer` | handlers of reads, writes, the timer, the session server; `disconnect` | handlers of one connection interleave; `cancel` reaches outstanding operations only; throwing in places outside the `try` | the read loop does not fork; a gone peer is noticed; a logged-in player is watched |
| Roster, `ClientServer` (`Client Gateway/ClientServer.cpp`) | `clients`, the `players` table over one MySQL connection | `addClient`, `clientDisconnected` | a second login destroys the first object; queries that fail look like no rows | a seat is its player's; one row per player; one user of the MySQL connection |
| Keep-alive | `lastSeen`, the wait | `keepAlive`, `onPlayerLogin`, `KeepAlivePacket` | late handlers, late answers, a read that completes as it is cancelled | a peer that answers is kept; silence is bounded |
| Framing and decryption | `buffer`, `encryptedBuffer`, cipher context | `onLengthReceive`, `decrypt`, `onHasJoinedPostComplete` | reads cut the stream anywhere; encryption begins mid-stream | frames come out whole, once, in order |
| Write path (`sendPacket`, `sendData`, `encrypt`) | cipher context, the socket's queue of writes | `encrypt`, `async_write`, its strand | two workers send to one connection; the kernel takes a write in part; the buffer dies before the write | the peer decrypts what it gets; frames are whole |
| Packets, VarInt, bit fields (`MCPacket/`) | the registry, byte vectors, a raw word | parse, serialise, `operator=`, `operator T` | an id means what the reader's side and state of that moment say; shifts at the width of a type | what is sent reads back, as the class it was sent as |
| Cluster link (UDP, `ClientServer` of the gateway, `InternalComms`) | `receiveSocket`, `clients` | `onDataReceived`, `handleMessage`, the relay of `MC_PACKET` | the roster is read without the lock that `addClient` holds; errors end the receive loop | node packets arrive in order, behind the join; the loop comes back |
| Client Server node | nothing that a message changes | its UDP loop | its message handler has no effect yet | - |
| Stop command | workers | `listen`, `string_compare` | main leaves while workers run | only `stop` stops |

`PROJECT.json` lists all components, the third-party and generated ones too, and
38 hazards at their lines; each names the properties that cover it, or why
none does yet.

## 3. The modules

| module | models | notes |
|---|---|---|
| `Gateway` | lobby, connection and roster together, with their worker threads, peers and kernel | they share objects, the lock and the worker threads and are one state machine in the code; a split would only duplicate state |
| `Roster` | *abstract*: what the gateway promises about the ownership of a connection object and its seat | `Gateway!ImplementsRoster` is the refinement mapping `Stage`, `seat <- clients` |
| `KeepAlive` | one logged-in connection with time | `Gateway` has the threads and no time, this has the time and no threads |
| `Framing` | the incoming bytes of one connection | positions in the peer's stream instead of bytes |
| `VarInt` | writing, measuring and reading the variable-length integers | operators only; a number is the set of its one bits |
| `BitField` | a union of `BitField`s over one word | exact widths: 8 or 64 bits, promoted to 32 |
| `Packets` | a session: the registry, what each packet writes and keeps, both ends' states, from the handshake to chat | `EXTENDS VarInt, BitField`: keep-alive ids go over the wire as VarInts, and the flags of `PlayerPositionAndLookPacket` are a union that its constructor fills while the session runs |
| `Sender` | the write path of the connections: `encrypt`, `async_write`, what the kernel takes, the life of the buffers | actions without a `Next`, composed by |
| `ClusterLink` | the UDP receive loop and the relay of node packets, beside `addClient`, keep-alives and disconnects on other workers, handlers of destroyed `Client`s among them | `EXTENDS Sender`: all of them end in `sendData` |
| `Delivery` | *abstract*: what a player's client is promised of the frames it gets, by `addClient` and from the nodes | `ClusterLink!ImplementsDelivery` is the refinement mapping `arrived <- received`, `open <- Open`, `seen <- Seen`: the frames that begin in the stream of a connection, without keep-alives |
| `MCGateway`, `MCFraming`, `MCPackets`, `MCClusterLink` | the instances TLC checks | `KeepAlive` has its constants in its `.cfg` |
| `GatewayProofs`, `RosterProofs`, `KeepAliveProofs`, `FramingProofs`, `BitFieldProofs`, `VarIntProofs`, `PacketsProofs`, `ClusterLinkProofs` | theorems and their proofs | section 7; `PacketsProofs` uses `VarIntProofs` and `BitFieldProofs` |

**Gateway and the code.** Each `VARIABLE` carries the name of the field it
stands for. A handler is a path through the program counters `pc[w]` of the
worker that runs it; it is cut where it touches state another handler can
change:

| `pc` | code |
|---|---|
| `store` | `handleClient` behind the construction of the `Client` |
| `message`, `rearm` | `receivedMessage`, then `startAsyncRead` at the end of `onLengthReceive` |
| `login` | `onPlayerLogin` |
| `handoff`, `detach` | `handoffClient` before and with the lock |
| `query`, `insert`, `add` | `ClientServer::addClient`, still with the lobby's lock |
| `close`, `release` | `Client::disconnect`, then the owner's `clientDisconnected` |
| `beat` | `keepAlive`, the branch that sends and renews |

`Dispatch` takes the handler of a completed operation, `Continue` is the next
step of a running one, `Environment` is peers and kernel. Faulty variants
(`UnlockForgotten`, `AddClientCaller`, ..., in the other modules too) are never used by `Next`: each is
a plausible slip of the code, swapped for the definition behind it by the
mutants of `PROJECT.json` to show that the property would notice.

**ClusterLink and the code.** Its handlers are step sequences too:

| `pc` | code |
|---|---|
| `find`, `call`, `return` | `handleMessage`: the lookups that test, those that call, its end |
| `rearm` | `startAsyncReceive` |
| `lock` | `handoffClient`, waiting for `clientMapMutex` |
| `send`, `write` | the two halves of `sendData`: `encrypt`, then `async_write` |
| `store` | the end of `addClient` |
| `reset` | the end of `keepAlive` |
| `clear`, `erase` | `disconnect` behind its test of `alive`, then the roster's `clientDisconnected` |

`due[c]` holds the handlers of a connection that are still to run; they are
bound to the raw `Client` and stay in it when that is destroyed. `HandlerEnds`
and `HandlerFails` run them, `Kernel` takes the writes.

## 4. How the models abstract

Gateway:
- a completed read carries at most one packet, of any kind the connection's
  state lets the registry parse; `IgnoreMessage` and `ParserThrows` stand for
  all that lead nowhere or throw. `MaxPackets` bounds completed reads;
- of a deleted object the field `alive` may read as anything (`AliveTest`): the
  memory was freed. The other fields keep their last value, and a new object
  never takes the place of an old one, so effects of *reused* memory are left
  out. A theorem about objects that exist is not weakened by this, a claim
  about what such a handler does to strangers would be;
- `close` is one step: `disconnect` clears `alive`, cancels the timer and the reads
  and closes the socket. Another handler either tests `alive` first, and then is done,
  or reads the handle, which changes once in it; a step in between shows neither
  more than a step before or after does;
- an accept that fails makes no `Client` and arms the acceptor again: a stutter;
- each map operation is one atomic step, although the roster's map and
  `pendingClients` in `clientDisconnected` are touched without the lock: the
  data race itself is below the grain of the model and listed as a hazard;
- `NoEndpoint`: `remote_endpoint()` throws for a closed or reset socket. Since
  `disconnect` closes first, the lobby's `clientDisconnected` throws before it
  erases, unless `shutdown` threw; such objects stay in the lobby for good
  (`SingleOwner` counts them as owned, which they are);
- each connection belongs to one `Account`; the name of a login is not empty; the
  session server is two counters, requests before and after their header,
  with every outcome the handlers distinguish;
- an encryption response may be accepted, although this build never serialises
  the body of the request it answers (run `request`, section 8);
- a MySQL query fails silently when `QueriesFail`: the connection is made with
  exceptions off (`LoginServer.cpp:24`);
- `keepAlive`'s branch for a state other than `PLAY` cannot be reached, since the
  first wait is set after `state` becomes `PLAY` and a handshake is only
  accepted in `HANDSHAKE`. It is left out.

KeepAlive counts seconds. `Delay` is the longest time from a keep-alive to its
handled answer for a *steady* peer; other peers answer when they like, because
`keepAliveId` is not compared. Read handlers run in the tick of their completion,
timer handlers up to `Lag` late.

Framing: a byte is its place in the stream, and a byte decrypted with the wrong
register is `Junk`. CFB8 (the patched block size 1, `AESCFBPatch.patch`)
decrypts a byte correctly exactly when the `Block` cipher bytes before it are
those before it in the stream. Junk where a length is expected yields every
outcome: wait, handle junk, throw. The peer encrypts once `LoginSuccess` told it
that the server does. `Block` is 3 instead of 16; no operator depends on more
than `Block > 0`. Compressed frames are not in it: the threshold stays -1.

BitField: a word is the set of its one bits. A signed overflow is taken as the
builds do it (bits lost), a shift by the width or more as both outcomes that
builds give. The union starts from any memory, as its constructor leaves it.

Packets: a value goes by its place in the body, as its bytes do, so that a parser
that reads fields in another order than they were written, or leaves one out,
gets the wrong one. Strings are their lengths, the byte order of numbers is left
out, and so is all that the gateway neither sends nor reads. The peer is a client
of the protocol, parsing `CLIENT_BOUND` with the same registry. After the encryption request the
remote login is in `Gateway`, the timeout of `keepAlive` in `KeepAlive`. A
handler is one step except that the login sends packet by packet, because the
timer may send in between. `SetCompression` is constructed with id 1 but registered under
3 and 70; it is never sent, so that this is noted only here.

Sender: the key stream is a count of the `encrypt` calls of a connection, and a frame carries
the count it was encrypted at; `encrypt` itself is atomic. A write outlives
`sendData` when the kernel does not take it at once; then its buffer is freed
when the `vector` of `sendData`, or the handler that built the packet, is gone,
and what is sent from it is `stale`. The histories of a closed connection are dropped.

ClusterLink:
- the UDP socket's buffer is merged into the reading: the next datagram is any
  that a well-formed node may send, which covers loss, repetition and
  reordering;
- each lookup of `clients` that lies between steps of others is a step: the first
  two, which test, are one, and the last two, which call, are one;
- a handler of a destroyed `Client` runs: what it reads of `alive` is anything
  (`AliveTest`), each of its steps may end the process (`fault`, as a call through
  a null pointer does) or go on, up to the erase of the seat of whoever sits
  there now. Nothing goes out on its socket, and its memory is not a new `Client`'s yet;
- each connection logs in once; one that is lost in the lobby, and what else the
  lobby does, is in `Gateway`. A keep-alive may come between `onPlayerLogin` and
  `addClient`, as the timer is already set;
- a slot that `operator[]` made for an unknown player holds `nullptr` and is not told
  from no slot; a message of another id takes the way of an unknown player;
- `getCompressionThreshold()` is `(size_t)-1`, so the branch that compresses is
  left out.

## 5. The runs

| run | instance | checks |
|---|---|---|
| `lobby2` | 2 local connections of one player, 2 workers, 2 handles, 2 packets each, symmetry | `TypeOK`, `SingleOwner`, `DbExclusive`, `NoDuplicateRow`, `PendingConsistent`, `AcceptLoopSingle`, `SeatsOwn`, `LoginDestroysOnlyDead`, and the refinement `ImplementsRoster` |
| `remote2` | 1 remote connection, 2 workers, 2 handles, 4 packets, failing queries, `FairSpec` | `ReadLoopSingle`, `Watched`, with several session requests, timers and reads in flight; `HandoffEnds`: two login chains of the connection may want the lock at once; `PeerGoneNoticed` |
| `keepalive` | the code's 4 and 10 seconds, `Lag` 1, `Delay` 5 | `TypeOK`, `SteadyKept`, `SilenceNoticed` |
| `framing` | 7 frames of 2 to 4 bytes, 4 in the clear, every way to cut the stream | `TypeOK`, `FramesInOrder`, `BufferIsStream`, `Backlog` |
| `packets` | a local or remote peer, names of 1 and 35 letters, keep-alive ids of 1, 2 and 5 bytes, 2 packets beyond the login, `FairSpec` | `TypeOK`, `Understood`, `SentReadsBack`, `FieldsKept`, `LoginCompletes` |
| `relay` | 1 encrypted connection, 2 workers, 2 datagrams, 1 keep-alive, 1 short write, 2 packets of `addClient`, `FairSpec` | `TypeOK`, `JoinFirst`, `ArrivalOrder`, `StreamReadable`, `WaitsAgain` |
| `roster` | 2 connections of one player, one encrypted, 2 workers, 2 datagrams, 1 keep-alive, no short write, 2 packets of `addClient`, symmetry | `LookupsSuffice`, and the refinement `ImplementsDelivery` |
| `handoff_race`, `cancel`, `encrypted_frames`, `request`, `chat` | as small as shows it | violated, see section 8 |

Why these bounds are enough to meet the interesting cases:
- two connections of *one* player give the second login that throws the first
  out of its seat, descriptor reuse and two owners racing; two workers give
  every pair of concurrent handlers, and since the code takes one lock, a third
  worker adds only waiting;
- two packets per connection are a handshake and a login; `remote2`'s four are
  handshake, login, an encryption response and a second one, so that two login
  chains of one connection overlap;
- in `framing`, lengths of one and two bytes and reads from 1 byte to the whole
  stream end inside a length, inside a body, on and over a boundary; decrypted
  reads are bounded by `MaxReads` = 2, the second being the first one wrong;
- in `keepalive`, `Delay + Period + Lag` is exactly `Limit`, the tightest legal
  value; `MaxSilence` = 20 lies beyond the bound 15 that is checked;
- in `packets`, 35 is the longest name that the test of `LoginSuccess` lets
  pass, the ids reach the last bit of a length of 1, 2 and 5 bytes, of the
  unknown ids one (8) is registered for the other side, and two free packets let
  a keep-alive or a chat message be under way while a state changes;
- in `relay`, two datagrams can be out of order, and one short write puts the
  handlers of the rest behind other writes; a handler of the datagrams, one that
  adds, drops or keeps alive, and the kernel are all there is to one connection's stream;
- in `roster`, the second connection replaces the first in its seat while a
  datagram for the player is between lookup and call, and the handlers of the
  first, destroyed, run on beside it. Two connections and short writes together
  are left to the theorems, and so are datagrams that must not be relayed or
  are for another player (`LinkDelivers`): in both runs all messages are of the id
  that is relayed.

What the invariants are stated for: `NoDuplicateRow` without
failing queries, which insert a player again (hazard at `ClientServer.cpp:134`), and
for local connections: the user id of a remote one may arrive from the session
server between another handler's SELECT and INSERT. `Watched` excepts a connection whose check
already found it silent; `Backlog` allows frames that one read brought
together, since the code handles one frame a read; `StreamReadable` promises
nothing of a connection on which two `sendData` crossed between `encrypt` and
`async_write`, nor whole frames where the kernel took less than it was offered:
these are the conditions on which the code relies without enforcing them.
`LookupsSuffice` likewise says what the unlocked lookups are good for, not that
they are safe: the gateway does fault when a player leaves between them.
`BitField` as `packets` uses it has fields of one bit. `Position`'s `y` = 64 is
shifted out of an `int` and sent as 0 (hazard at `Bitfield.hpp:45`).

All runs set `CHECK_DEADLOCK FALSE`: with a bounded number of connections,
packets, datagrams or reads the system comes to rest.

## 6. Fairness

`Gateway!FairSpec` assumes what the worker loop and asio give: a handler that started
takes its next step (weak fairness of `Continue(w)`); the completed operations
of a connection are served although the one worker is taken by others again and
again, since the `io_service` queue is first in, first out (strong fairness of
the handlers of reads, writes and the timer); the kernel reports a gone peer to an
outstanding read and an expired timer. Nothing is assumed of peers, nor of the
accept or the session server. `PeerGoneNoticed` excepts a connection that no one
reads (`Unread`): that a parser's exception ends the read loop is what the code
does, and is listed as a hazard.

`Packets!FairSpec`: the gateway's handlers run, and what it sent reaches a peer that
goes on reading (weak fairness of `Gateway` and `PeerReceives`). That the peer
*sends* anything is not assumed; `LoginCompletes` starts once the peer has asked.

`ClusterLink!FairSpec`: a handler that a worker runs takes its next step while
the process lives. No datagram, no room in a socket and no timer is
promised; `WaitsAgain` excepts an error of the socket, after which the code never
waits again (a hazard).

## 7. The proofs

TLAPS checks, for every value of the constants that satisfies the modules'
`ASSUME`s (which TLC evaluates in the runs):

| theorem | states | argument |
|---|---|---|
| `GatewayProofs!TypeCorrect` | `Spec => []TypeOK` | from `Ownership`, see below: that what a slot, a seat or a handler owns still exists (`Living`) needs that it has no second owner |
| `GatewayProofs!DbUsedByOne` | `Spec => []DbExclusive` | from `Control`: at the steps in `Locked` the worker is the holder of `clientMapMutex` |
| `GatewayProofs!ReadLoopNeverForks` | `Spec => []ReadLoopSingle` | `Fresh` is needed: before an object is constructed nothing is outstanding for it, so that the constructor's read is the first. Then each step either takes the completed read (`read = "none"`) or is the handler that arms the next |
| `GatewayProofs!LobbyKeepsHandles` | `Spec => []PendingConsistent` | `Ownership`, see below |
| `GatewayProofs!OneOwnerEach` | `Spec => []SingleOwner` | `OnePlace` and `Places` say where an object is, one place at a time; `CountAtMostOne` turns that into the sum of the cardinalities that `SingleOwner` counts |
| `GatewayProofs!LoginSparesTheLiving` | `Spec => LoginDestroysOnlyDead` | from `Places`: a handle that a live lobby object has open is nobody else's, so no slot of its own is overwritten |
| `GatewayProofs!GatewayImplementsRoster` | `Spec => ImplementsRoster` | step simulation: `StepPlaces` finds the stage of every object after a step, and `StepImplements` the abstract action, or a stutter |
| `GatewayProofs!PlayersStayWatched` | `Spec => []Watched` | `Tended`: of a connection with a user id a wait is to come back, or a worker is at a step that sets the timer or closes the connection |
| `GatewayProofs!AcceptorGoesOn` | `Spec => []AcceptLoopSingle` | from `Ownership`: who stores an accepted object, who has the lock and what is left to do with it |
| `GatewayProofs!SeatsAreOwn` | `Spec => []SeatsOwn`, whatever handler found the object | `OwnIds`: a connection's user id is its account's, or nobody's yet, and `Ownership`: what sits in the roster is owned by it |
| `RosterProofs!SeatsStayExclusive` | `Spec => []SeatsExclusive` of the abstract specification | seats and objects in the roster are in bijection, given that the null pointer is none of the connections |
| `KeepAliveProofs!SteadyPeersKept` | `Spec => []SteadyKept` | `SteadyBound` relates silence to the wait that is left, or to the age of a question still to be answered; `SteadyGone` covers a closed connection |
| `KeepAliveProofs!SilenceBounded` | `Spec => []SilenceNoticed` | `TimerBound`: silence plus what is left of the wait stays under `Limit + Period` while the timer is set |
| `KeepAliveProofs!KeepAliveTyped` | `Spec => []TypeOK` | from the same invariant |
| `FramingProofs!FramesHandledInOrder` | `Spec => []FramesInOrder` | `rounds <= 1` implies that the buffer stands at the boundary of some frame and holds the stream from there up to `Upto`, the last byte decrypted; the first round keeps it, because the register holds the cipher bytes before |
| `FramingProofs!BufferHoldsStream` | `Spec => []BufferIsStream` | from the same invariant, `Stands(k, Upto)` |
| `FramingProofs!FramingTyped` | `Spec => []TypeOK` | everything kept in the buffers is a position received or junk |
| `FramingProofs!BacklogBounded` | `Spec => []Backlog` | each read handles a frame if there is a whole one, so that complete frames behind it came with it |
| `BitFieldProofs!NarrowFieldsKept` | `Narrow => (Spec => []FieldsKept)` | for unions whose fields end below the sign of the promoted type; `Position` is not `Narrow` |
| `VarIntProofs!ReadsBack` | every number reads back from what was written, whatever follows it | the bytes of a number, shifted back, are a partition of its bits |
| `VarIntProofs!SizeIsWritten` | `getVarIntSize` is the number of bytes written, for lengths that are not negative | both find the first multiple of seven beyond the last bit |
| `VarIntProofs!PrefixWaits` | from a buffer that ends within a number nothing is taken | every byte but the last announces another |
| `PacketsProofs!SentPacketsReadBack` | `Spec => []SentReadsBack` | what is written and what is kept of each class are compared once, class by class (the `...Faithful` lemmas); `Streams` and `LoginTold` say what may be under way; numbers by `ReadsBack`; a name is shorter than the uuid |
| `PacketsProofs!PacketsTyped` | `Spec => []TypeOK` | `Phases`, `Greeting` and `Coming`: what may come from the peer in each state, so that `Received` has the fields that the handlers read |
| `PacketsProofs!PacketsUnderstood` | `Spec => []Understood` | `Apart`: how far apart the two ends can be. The gateway's state is the peer's, or it is in `HANDSHAKE`, with the greeting first in line, or it is in `PLAY` and the peer in `LOGIN`, with `LoginSuccess` first in line; a peer that logs in waits for the answer |
| `PacketsProofs!FlagsKept` | a session's flags read as set | `NarrowFieldsKept`'s lemmas under `Packets`' steps |
| `ClusterLinkProofs!LookupsAreEnough` | `Spec => []LookupsSuffice` | `HandlersKnow`: which `Client` or player each step of a handler is about; `SlotsOwn`: a seat holds a live object of its player; `LoginsOwn`: a login has its `Client` for itself; `FoundOrLeft`: what a handler of a datagram found is still there, or a `Client` was destroyed while it ran |
| `ClusterLinkProofs!JoinComesFirst` | `Spec => []JoinFirst` | `LinkInv`, see below; `JoinSoFar`: in the whole line of a connection the greeting comes first, and a worker in `addClient` has the rest of it still to send |
| `ClusterLinkProofs!ArrivalKept` | `Spec => []ArrivalOrder` | from `LinkInv`: one handler reads the UDP socket at a time, so that what it adds to a line is the last datagram read |
| `ClusterLinkProofs!LinkTypeOK` | `Spec => []TypeOK` | from `LinkInv`; `Budget` bounds the frames that wait for a connection |
| `ClusterLinkProofs!LinkDelivers` | `Spec => ImplementsDelivery` | step simulation: `Streams` says that a step leaves all streams, adds one piece to the stream of an open connection or ends one; `Addressed`, that a packet of a node is on a connection of the player its datagram names; `JoinFirst` and `ArrivalOrder` then make the piece a step of `Delivery` |

The invariant of ownership, `Ownership == Inv /\ ReadLoopSingle /\ Fresh /\
OnePlace /\ Places`, is the core of `GatewayProofs`. None of the properties is
inductive alone. That a slot of the lobby keeps the handle it was stored under
needs that an open handle belongs to one connection and that a closed one was
closed by its own disconnect. That an object has one owner needs in addition which
worker holds an object that is in no map, and that no other holds it too.
`CalmSteps` covers the actions that change none of these at once, so that the
proofs only look at the dozen that do.

`LinkInv == IInv /\ Roles /\ Sound /\ LinesInv` does the same for the cluster
link. What the kernel took from a connection says little about what it takes
next, so that none of the properties about streams is inductive. `LinkInv` is
about the *line* of a connection: the stream, then the writes that wait in asio.
The kernel's steps only move the boundary between the two (`WritableLines`,
`ResumeLines`), which leaves the order in a line to the calls of `async_write`,
and that to the handlers that may be there at once (`Roles`: one reader of the
UDP socket, one `addClient`, under the lock, and one keep-alive per connection). The properties
then carry over to the stream, a prefix of the line. Positions in a stream are
sets of numbers and an order among them is a cardinality (`Begun`, `Rank`), for
which `FiniteSetTheorems` has the facts; `AtRank` turns ranks back into the sequence that
`Delivery` speaks of.

The theorems of `ClusterLinkProofs` assume nothing of the constants but
`LinkAssumption` and `SenderAssumption`, which the runs `relay` and `roster` evaluate.

Only model-checked: liveness and everything under fairness (`HandoffEnds`,
`PeerGoneNoticed`, `LoginCompletes`, `WaitsAgain`), which is out of
this prover's reach; `NoDuplicateRow`, which is true only where all players are
local and no query fails, and `StreamReadable`, which excepts what the code does not
prevent: as theorems they would look like more than they are. Every other invariant, action property and
refinement of a passing run is the property of a theorem; `FieldsKept` under the
condition named above, without which it is false.

## 8. Where the code does otherwise than it says

| run | the code | says otherwise |
|---|---|---|
| `handoff_race` | the `Client` constructor arms the read before `handleClient` stores the object; a login in between finds no slot and stays in the lobby, in state `PLAY` | `LoginServer.hpp:63`, `Client.cpp:423` |
| `cancel` | `cancel()` after a ping, a refused login or a timeout finds no read outstanding (the handler itself is the read, or it has completed) and the connection goes on | `Client.cpp:197` |
| `encrypted_frames` | `encryptedBuffer` is never drained: the second read decrypts the first's bytes again | `Client.cpp:577`, `Client.cpp:404` |
| `request` | `getSide()` is `SERVER_BOUND` everywhere, and the key and token of the encryption request are written only `CLIENT_BOUND`: its body is empty | `EncryptionPacket.cpp:13`, `Client.cpp:253` |
| `chat` | `ClientServer::onPacketReceived` has other parameters than `ClientOwner`'s and does not override it: chat is read and dropped | `ClientServer.cpp:190`, `ClientServer.cpp:201` |

## 9. What is not modelled

The repository is mostly code that is not the project's own: `mysqlpp` and its
generated `ssqls.h` (23 117 lines alone), `packets.pb.cc` and its header, which
nothing includes, and the data of the Xcode projects. The project's own C++ is
about 3 300 lines, of which the definitions of these modules translate
about 930; the remainder is declarations, logging, includes, the text of HTTP requests and
SHA digests, and the parts below. No further *behaviour* is hidden in the vendored code:
what the gateway uses of MySQL is two queries that may fail.

- Data races inside a `std::unordered_map`, reused heap memory, a log line that
  reads a destroyed object: below the grain, listed as hazards.
- `Login::init`: straight-line start-up. That a failed MySQL connect returns
  before the acceptor is armed is visible at a glance.
- The stop command: `string_compare` is a `lexicographical_compare` whose order is
  equality, so that a line stops the gateway when one of its first four letters
  is `stop`'s at that place, or when it has fewer than four; at the end of the console the
  line is empty. `main` then leaves with the workers in `run()`. It is listed as
  a hazard; nothing is saved or handed over at the end.
- Compression: the threshold is -1 and nothing sets it.
- The node's message handler, `sendPacket` and `sendShutdownSignal` of the
  gateway's `ClientServer`, `onPacketReceived`: no effect or no caller.
- Datagrams shorter than their header or their announced payload
  (`InternalComms.cpp:43`): copying beyond their end has no outcome in the code.
- Protocol buffers, entities, `hexstring`, `RandomSelect`: generated code, data
  or pure helpers.

## 10. The plan

Built: `Gateway` with `Roster`; `KeepAlive`; `Framing`; `BitField`, `VarInt` and `Packets`;
`Sender` and `ClusterLink` with `Delivery`; the theorems of section 7.

Next, in order:
1. `StopCommand`: the console, the workers and the exit of `main`.
2. `Gateway` with memory that is reused, so that a stale handler acts on a
   stranger.
