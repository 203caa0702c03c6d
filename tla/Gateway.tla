------------------------------ MODULE Gateway ------------------------------
(***************************************************************************)
(* The connection life cycle inside one Client Gateway process: the        *)
(* acceptor and the lobby of LoginServer.cpp (class Login), the connection *)
(* object of Client.cpp (class Client) and the roster of players kept by   *)
(* ClientServer.cpp (class ClientServer of the gateway).                   *)
(*                                                                         *)
(* All of them run on one asio io_service served by several worker threads *)
(* (Login::listen).  A worker takes a completed asynchronous operation and *)
(* runs its handler; handlers of the same connection may run on different  *)
(* workers at the same time.  A handler is a sequence of steps pc[w], cut  *)
(* wherever it touches state that a handler on another worker can touch.   *)
(* An exception that leaves a handler is caught by the worker loop, which  *)
(* goes on with the next handler: here it is a jump to pc = "idle".        *)
(*                                                                         *)
(* Frames, packets and time are abstracted: a completed read carries at    *)
(* most one packet, of any kind the connection's state lets the registry   *)
(* parse, and a keep-alive check finds the peer silent or not.             *)
(***************************************************************************)
EXTENDS Naturals, FiniteSets

CONSTANTS
  Clients,     \* Client objects, one per accepted TCP connection
  Workers,     \* worker threads running io_service::run
  Handles,     \* native socket handles the kernel gives out, and reuses
  Invalid,     \* native_handle() of a closed socket
  Players,     \* player uuids
  Nobody,      \* the all-zero userid of a connection that has not logged in
  None,        \* the null unique_ptr, and "no worker"
  Loopback,    \* the connections that come from the local host
  Account,     \* the player behind each connection
  QueriesFail, \* whether MySQL queries may fail
  MaxPackets   \* bound: completed reads per connection

ASSUME ConstantsAssumption ==
  /\ Invalid \notin Handles
  /\ Nobody \notin Players
  /\ None \notin Clients \cup Workers
  /\ Loopback \subseteq Clients
  /\ Account \in [Clients -> Players]
  /\ QueriesFail \in BOOLEAN
  /\ MaxPackets \in Nat

ClientState == {"HANDSHAKE", "STATUS", "LOGIN", "PLAY"}
Keys == Handles \cup {Invalid}
Ids  == Players \cup {Nobody}

VARIABLES
  life,       \* whether the Client object exists yet, exists, or was deleted
  peer,       \* the remote end of the connection: up, closed (fin), reset
  packets,    \* completed reads so far (bounded by MaxPackets)
  alive,      \* Client::alive
  state,      \* Client::state
  owner,      \* Client::owner: the lobby (Login) or the roster (ClientServer)
  userid,     \* Client::userid
  named,      \* requestedUsername is not empty
  handle,     \* socket->native_handle()
  read,       \* the connection's async_read: not started, armed, completed
  write,      \* its async_writes, taken together
  armed,      \* waits outstanding on keepaliveTimer
  fired,      \* waits whose time has come, handler not run yet
  aborted,    \* cancelled waits, handler not run yet
  asking,     \* session server requests before their response header
  joining,    \* session server requests waiting for the response body
  pendingClients, \* Login::pendingClients
  clients,    \* ClientServer::clients
  rows,       \* rows of the players table, per uuid
  accepting,  \* an async_accept is outstanding
  mutex,      \* holder of Login::clientMapMutex
  pc, on,     \* each worker's next step and the Client it runs for
  src,        \* the kind of handler the worker runs
  held,       \* the unique_ptr local to handleClient and handoffClient
  cancelled   \* history: why socket->cancel() was called to drop the peer

peerVars   == <<peer, packets>>
objVars    == <<life, alive, state, owner, userid, named>>
ioVars     == <<handle, read, write>>
timerVars  == <<armed, fired, aborted>>
authVars   == <<asking, joining>>
mapVars    == <<pendingClients, clients, rows, mutex>>
workerVars == <<pc, on, src, held>>
vars == <<peerVars, objVars, ioVars, timerVars, authVars, mapVars,
          accepting, workerVars, cancelled>>

Steps == {"idle", "store", "message", "rearm", "login", "handoff", "detach",
          "query", "insert", "add", "beat", "close", "release"}

\* The steps of handoffClient and addClient that run with the lock held.
Locked == {"detach", "query", "insert", "add"}

FieldsOK ==
  /\ life \in [Clients -> {"unborn", "made", "deleted"}]
  /\ peer \in [Clients -> {"up", "fin", "rst"}]
  /\ packets \in [Clients -> Nat]
  /\ alive \in [Clients -> BOOLEAN]
  /\ state \in [Clients -> ClientState]
  /\ owner \in [Clients -> {"lobby", "roster"}]
  /\ userid \in [Clients -> Ids]
  /\ named \in [Clients -> BOOLEAN]
  /\ handle \in [Clients -> Keys]
  /\ read \in [Clients -> {"none", "armed", "ok", "err"}]
  /\ write \in [Clients -> {"none", "armed", "err"}]
  /\ armed \in [Clients -> Nat] /\ fired \in [Clients -> Nat]
  /\ aborted \in [Clients -> Nat]
  /\ asking \in [Clients -> Nat] /\ joining \in [Clients -> Nat]
  /\ pendingClients \in [Keys -> Clients \cup {None}]
  /\ clients \in [Ids -> Clients \cup {None}]
  /\ rows \in [Ids -> Nat]
  /\ accepting \in BOOLEAN
  /\ mutex \in Workers \cup {None}
  /\ pc \in [Workers -> Steps]
  /\ on \in [Workers -> Clients \cup {None}]
  /\ src \in [Workers -> {"none", "accept", "read", "auth", "timer", "write"}]
  /\ held \in [Workers -> Clients \cup {None}]
  /\ cancelled \in [Clients -> SUBSET {"ping", "refused", "timeout"}]

\* A unique_ptr, in a map or local to a handler, is null or owns an object that
\* exists, whichever handler destroyed, moved or replaced it last.
TypeOK ==
  /\ FieldsOK
  /\ \A k \in Keys : pendingClients[k] # None => life[pendingClients[k]] = "made"
  /\ \A p \in Ids : clients[p] # None => life[clients[p]] = "made"
  /\ \A w \in Workers : held[w] # None => life[held[w]] = "made"

Init ==
  /\ life = [c \in Clients |-> "unborn"]
  /\ peer = [c \in Clients |-> "up"]
  /\ packets = [c \in Clients |-> 0]
  /\ alive = [c \in Clients |-> FALSE]
  /\ state = [c \in Clients |-> "HANDSHAKE"]
  /\ owner = [c \in Clients |-> "lobby"]
  /\ userid = [c \in Clients |-> Nobody]
  /\ named = [c \in Clients |-> FALSE]
  /\ handle = [c \in Clients |-> Invalid]
  /\ read = [c \in Clients |-> "none"]
  /\ write = [c \in Clients |-> "none"]
  /\ armed = [c \in Clients |-> 0]
  /\ fired = [c \in Clients |-> 0]
  /\ aborted = [c \in Clients |-> 0]
  /\ asking = [c \in Clients |-> 0]
  /\ joining = [c \in Clients |-> 0]
  /\ pendingClients = [k \in Keys |-> None]
  /\ clients = [p \in Ids |-> None]
  /\ rows = [p \in Ids |-> 0]
  /\ accepting = TRUE
  /\ mutex = None
  /\ pc = [w \in Workers |-> "idle"]
  /\ on = [w \in Workers |-> None]
  /\ src = [w \in Workers |-> "none"]
  /\ held = [w \in Workers |-> None]
  /\ cancelled = [c \in Clients |-> {}]

-----------------------------------------------------------------------------
(* Workers.  Take runs a handler of c on an idle worker, Goto goes on to its
   next step, Return ends it, normally or with an exception that the loop of
   Login::listen catches; the handler's local unique_ptr goes with it. *)

Take(w, c, kind, step) ==
  /\ pc' = [pc EXCEPT ![w] = step]
  /\ on' = [on EXCEPT ![w] = c]
  /\ src' = [src EXCEPT ![w] = kind]
  /\ UNCHANGED held

Goto(w, step) ==
  /\ pc' = [pc EXCEPT ![w] = step]
  /\ UNCHANGED <<on, src, held>>

Return(w) ==
  /\ pc' = [pc EXCEPT ![w] = "idle"]
  /\ on' = [on EXCEPT ![w] = None]
  /\ src' = [src EXCEPT ![w] = "none"]
  /\ held' = [held EXCEPT ![w] = None]

\* What a test of alive can yield: the field, or anything once it was freed.
AliveTest(c) == IF life[c] = "deleted" THEN BOOLEAN ELSE {alive[c]}

\* The head of Client::disconnect, called by a handler that then returns.
Disconnect(w, c) ==
  \E a \in AliveTest(c) : IF a THEN Goto(w, "close") ELSE Return(w)

\* A handler that starts with the test of alive goes on to step or is over.
Begin(w, c, kind, step) ==
  \E a \in AliveTest(c) :
    IF a THEN Take(w, c, kind, step) ELSE UNCHANGED workerVars

-----------------------------------------------------------------------------
(* Sockets, timers and the objects that own them. *)

Closed(c) == handle[c] = Invalid

\* remote_endpoint() throws on a closed or a reset socket.
NoEndpoint(c) == Closed(c) \/ peer[c] = "rst"

\* What a cancelled or destroyed socket leaves of an outstanding operation.
Abort(op) == IF op = "armed" THEN "err" ELSE op

\* What the writes of c can be after Client::sendData.
Sent(c) ==
  {IF ~a THEN write[c]
   ELSE IF Closed(c) \/ write[c] = "err" THEN "err" ELSE "armed" : a \in AliveTest(c)}

SendData(c) == \E sent \in Sent(c) : write' = [write EXCEPT ![c] = sent]

\* socket->cancel(): on a closed socket it throws and cancels nothing.
CancelSocket(c, writes) ==
  /\ read' = [read EXCEPT ![c] = IF Closed(c) THEN @ ELSE Abort(@)]
  /\ write' = IF Closed(c) THEN writes ELSE [writes EXCEPT ![c] = Abort(@)]
  /\ UNCHANGED handle

\* keepaliveTimer.cancel() of each member of D, or its destructor.
CancelWaits(D) ==
  /\ aborted' = [c \in Clients |-> IF c \in D THEN aborted[c] + armed[c] ELSE aborted[c]]
  /\ armed' = [c \in Clients |-> IF c \in D THEN 0 ELSE armed[c]]
  /\ UNCHANGED fired

(* ~Client for each member of D: the socket and the timer go with the object,
   their handlers are still to run, bound to the deleted object.  The other
   fields keep their last value in the freed memory. *)
Destroy(D, writes) ==
  /\ life' = [c \in Clients |-> IF c \in D THEN "deleted" ELSE life[c]]
  /\ handle' = [c \in Clients |-> IF c \in D THEN Invalid ELSE handle[c]]
  /\ read' = [c \in Clients |-> IF c \in D THEN Abort(read[c]) ELSE read[c]]
  /\ write' = [c \in Clients |-> IF c \in D THEN Abort(writes[c]) ELSE writes[c]]
  /\ CancelWaits(D)

\* Faulty variants, each followed by the definition it spoils, show that the
\* properties below notice such a mistake.
OwnedByNobody(m, k) == {}

\* The object a map's slot owns, as a set.
Owned(m, k) == {m[k]} \ {None}

LockFreeAlways == TRUE
UnlockForgotten == UNCHANGED mutex

\* std::lock_guard on Login::clientMapMutex.
LockFree == mutex = None
Lock(w)  == mutex' = w
Unlock   == mutex' = None

-----------------------------------------------------------------------------
(* The lobby: Login::asyncClientAccept, handleClient, handoffClient. *)

(* The accept completes: the Client is constructed, and its constructor arms
   the first read while no map owns the object yet.  An accept that fails is
   armed again at once and changes nothing: a stuttering step. *)
HandleClient(w, c, h) ==
  /\ pc[w] = "idle" /\ accepting /\ life[c] = "unborn"
  /\ \A d \in Clients : handle[d] # h
  /\ accepting' = FALSE
  /\ life' = [life EXCEPT ![c] = "made"]
  /\ alive' = [alive EXCEPT ![c] = TRUE]
  /\ handle' = [handle EXCEPT ![c] = h]
  /\ read' = [read EXCEPT ![c] = "armed"]
  /\ pc' = [pc EXCEPT ![w] = "store"]
  /\ on' = [on EXCEPT ![w] = c]
  /\ src' = [src EXCEPT ![w] = "accept"]
  /\ held' = [held EXCEPT ![w] = c]
  /\ UNCHANGED <<peerVars, state, owner, userid, named, write, timerVars,
                 authVars, mapVars, cancelled>>

(* Under the lock the object goes to the slot of its handle, as it is by then,
   and the slot's previous object is destroyed; the acceptor is armed again. *)
StoreClient(w) ==
  LET c == on[w]  k == handle[c] IN
  /\ pc[w] = "store" /\ LockFree
  /\ pendingClients' = [pendingClients EXCEPT ![k] = c]
  /\ Destroy(Owned(pendingClients, k), write)
  /\ accepting' = TRUE
  /\ Return(w)
  /\ UNCHANGED <<peerVars, alive, state, owner, userid, named, authVars,
                 clients, rows, mutex, cancelled>>

AfterLoginReads(w) ==
  /\ pc' = [pc EXCEPT ![w] = "rearm"]
  /\ held' = [held EXCEPT ![w] = None]
  /\ UNCHANGED <<on, src>>

\* The end of a handler that called onPlayerLogin: onLengthReceive reads on.
AfterLogin(w) ==
  /\ pc' = [pc EXCEPT ![w] = IF src[w] = "read" THEN "rearm" ELSE "idle"]
  /\ on' = [on EXCEPT ![w] = IF src[w] = "read" THEN @ ELSE None]
  /\ src' = [src EXCEPT ![w] = IF @ = "read" THEN @ ELSE "none"]
  /\ held' = [held EXCEPT ![w] = None]

\* Nobody is in the slot of the caller's handle: the lock is let go again.
HandoffNothing(w) ==
  /\ pc[w] = "handoff" /\ LockFree /\ pendingClients[handle[on[w]]] = None
  /\ AfterLogin(w)
  /\ UNCHANGED <<peerVars, objVars, ioVars, timerVars, authVars, mapVars,
                 accepting, cancelled>>

\* The lock is taken and the slot of the caller's handle is moved out.
HandoffFind(w) ==
  LET k == handle[on[w]] IN
  /\ pc[w] = "handoff" /\ LockFree /\ pendingClients[k] # None
  /\ Lock(w)
  /\ held' = [held EXCEPT ![w] = pendingClients[k]]
  /\ pendingClients' = [pendingClients EXCEPT ![k] = None]
  /\ pc' = [pc EXCEPT ![w] = "detach"]
  /\ UNCHANGED <<peerVars, objVars, ioVars, timerVars, authVars, clients, rows,
                 accepting, on, src, cancelled>>

\* The entry of the found client's handle, as it is by then, is erased.
HandoffDetach(w) ==
  LET f == held[w]  k == handle[f] IN
  /\ pc[w] = "detach"
  /\ pendingClients' = [pendingClients EXCEPT ![k] = None]
  /\ Destroy(Owned(pendingClients, k), write)
  /\ owner' = [owner EXCEPT ![f] = "roster"]
  /\ Goto(w, "query")
  /\ UNCHANGED <<peerVars, alive, state, userid, named, authVars, clients, rows,
                 mutex, accepting, cancelled>>

-----------------------------------------------------------------------------
(* The roster: ClientServer::addClient, called with the lobby's lock held. *)

\* The SELECT returned a row.
KnownPlayer(p) == rows[p] > 0

(* The connection throws no exceptions: a SELECT that failed has no rows, and an
   INSERT that failed goes unnoticed. *)
QueryPlayer(w) ==
  /\ pc[w] = "query"
  /\ \/ Goto(w, IF KnownPlayer(userid[held[w]]) THEN "add" ELSE "insert")
     \/ QueriesFail /\ Goto(w, "insert")
  /\ UNCHANGED <<peerVars, objVars, ioVars, timerVars, authVars, mapVars,
                 accepting, cancelled>>

InsertPlayer(w) ==
  /\ pc[w] = "insert"
  /\ \/ rows' = [rows EXCEPT ![userid[held[w]]] = @ + 1]
     \/ QueriesFail /\ UNCHANGED rows
  /\ Goto(w, "add")
  /\ UNCHANGED <<peerVars, objVars, ioVars, timerVars, authVars, pendingClients,
                 clients, mutex, accepting, cancelled>>

\* As AddClient, with the seat of the connection whose login ran the handler.
AddClientCaller(w) ==
  LET f == held[w]  p == userid[on[w]] IN
  /\ pc[w] = "add"
  /\ clients' = [clients EXCEPT ![p] = f]
  /\ \E sent \in Sent(f) : Destroy(Owned(clients, p), [write EXCEPT ![f] = sent])
  /\ Unlock
  /\ AfterLogin(w)
  /\ UNCHANGED <<peerVars, alive, state, owner, userid, named, authVars,
                 pendingClients, rows, accepting, cancelled>>

(* Join game, spawn position, position and abilities are sent, the client takes
   the seat of its userid, whose previous object is destroyed; then the lock
   goes out of scope. *)
AddClient(w) ==
  LET f == held[w]  p == userid[f] IN
  /\ pc[w] = "add"
  /\ clients' = [clients EXCEPT ![p] = f]
  /\ \E sent \in Sent(f) : Destroy(Owned(clients, p), [write EXCEPT ![f] = sent])
  /\ Unlock
  /\ AfterLogin(w)
  /\ UNCHANGED <<peerVars, alive, state, owner, userid, named, authVars,
                 pendingClients, rows, accepting, cancelled>>

-----------------------------------------------------------------------------
(* The read loop: Client::onLengthReceive and receivedMessage. *)

ReadStepRetries(c) == IF read[c] = "ok" THEN "message" ELSE "rearm"

\* An error disconnects.
ReadStep(c) == IF read[c] = "ok" THEN "message" ELSE "close"

OnLengthReceive(w, c) ==
  /\ pc[w] = "idle" /\ read[c] \in {"ok", "err"}
  /\ read' = [read EXCEPT ![c] = "none"]
  /\ Begin(w, c, "read", ReadStep(c))
  /\ UNCHANGED <<peerVars, objVars, handle, write, timerVars, authVars, mapVars,
                 accepting, cancelled>>

(* No complete frame, no packet registered under its id, a packet nothing
   handles, a keep-alive answer (lastSeen), a rejected encryption response. *)
IgnoreMessage(w) ==
  /\ pc[w] = "message"
  /\ Goto(w, "rearm")
  /\ UNCHANGED <<peerVars, objVars, ioVars, timerVars, authVars, mapVars,
                 accepting, cancelled>>

\* The parser throws, outside the try of onLengthReceive: nothing reads on.
ParserThrows(w) ==
  /\ pc[w] = "message"
  /\ Return(w)
  /\ UNCHANGED <<peerVars, objVars, ioVars, timerVars, authVars, mapVars,
                 accepting, cancelled>>

\* The requested state is taken from the packet as it is.
Handshake(w, next) ==
  /\ pc[w] = "message" /\ state[on[w]] = "HANDSHAKE"
  /\ state' = [state EXCEPT ![on[w]] = next]
  /\ Goto(w, "rearm")
  /\ UNCHANGED <<peerVars, life, alive, owner, userid, named, ioVars, timerVars,
                 authVars, mapVars, accepting, cancelled>>

StatusRequest(w) ==
  /\ pc[w] = "message" /\ state[on[w]] = "STATUS"
  /\ SendData(on[w])
  /\ Goto(w, "rearm")
  /\ UNCHANGED <<peerVars, objVars, handle, read, timerVars, authVars, mapVars,
                 accepting, cancelled>>

(* The ping is sent back, then every outstanding operation of the socket is
   cancelled: a write may be through already, and no read is outstanding here.
   On a closed socket cancel() throws, which onLengthReceive catches. *)
StatusPing(w) ==
  LET c == on[w] IN
  /\ pc[w] = "message" /\ state[c] = "STATUS"
  /\ \E sent \in {write[c]} \cup Sent(c) :
       CancelSocket(c, [write EXCEPT ![c] = sent])
  /\ cancelled' = [cancelled EXCEPT ![c] = IF Closed(c) THEN @ ELSE @ \cup {"ping"}]
  /\ IF Closed(c) THEN Disconnect(w, c) ELSE Goto(w, "rearm")
  /\ UNCHANGED <<peerVars, objVars, timerVars, authVars, mapVars, accepting>>

\* remote_endpoint() of a connection that is gone throws into disconnect.
LoginStart(w) ==
  LET c == on[w] IN
  /\ pc[w] = "message" /\ state[c] = "LOGIN"
  /\ named' = [named EXCEPT ![c] = TRUE]
  /\ IF NoEndpoint(c)
       THEN Disconnect(w, c) /\ UNCHANGED <<userid, write>>
     ELSE IF c \in Loopback
       THEN /\ userid' = [userid EXCEPT ![c] = Account[c]]
            /\ Goto(w, "login")
            /\ UNCHANGED write
     ELSE /\ SendData(c)   \* encryption request
          /\ Goto(w, "rearm")
          /\ UNCHANGED userid
  /\ UNCHANGED <<peerVars, life, alive, state, owner, handle, read, timerVars,
                 authVars, mapVars, accepting, cancelled>>

\* A request to the session server is under way, or its resolver throws.
AuthWithMojang(w, c) ==
  \/ asking' = [asking EXCEPT ![c] = @ + 1] /\ Goto(w, "rearm")
  \/ Disconnect(w, c) /\ UNCHANGED asking

\* The verify token matches.
EncryptionResponse(w) ==
  LET c == on[w] IN
  /\ pc[w] = "message" /\ state[c] = "LOGIN" /\ named[c]
  /\ AuthWithMojang(w, c)
  /\ UNCHANGED <<peerVars, objVars, ioVars, timerVars, joining, mapVars,
                 accepting, cancelled>>

StartAsyncRead(w) ==
  LET c == on[w] IN
  /\ pc[w] = "rearm"
  /\ read' = [read EXCEPT ![c] = IF Closed(c) THEN "err" ELSE "armed"]
  /\ Return(w)
  /\ UNCHANGED <<peerVars, objVars, handle, write, timerVars, authVars, mapVars,
                 accepting, cancelled>>

\* owner->handoffClient, which the roster does not override.
AskHandoff(w, c) == IF owner[c] = "lobby" THEN Goto(w, "handoff") ELSE AfterLogin(w)

\* Client::onPlayerLogin: login success, PLAY, the first keep-alive wait.
OnPlayerLogin(w) ==
  LET c == on[w] IN
  /\ pc[w] = "login"
  /\ SendData(c)
  /\ state' = [state EXCEPT ![c] = "PLAY"]
  /\ armed' = [armed EXCEPT ![c] = @ + 1]
  /\ AskHandoff(w, c)
  /\ UNCHANGED <<peerVars, life, alive, owner, userid, named, handle, read, fired,
                 aborted, authVars, mapVars, accepting, cancelled>>

-----------------------------------------------------------------------------
(* Client::disconnect and the owners' clientDisconnected. *)

MarkDeadForgotten(c) == UNCHANGED alive

MarkDead(c) == alive' = [alive EXCEPT ![c] = FALSE]

(* alive is cleared, the timer's waits and the socket's operations cancelled,
   the socket shut down, which throws when the peer reset it, and closed. *)
Close(w) ==
  LET c == on[w] IN
  /\ pc[w] = "close"
  /\ MarkDead(c)
  /\ CancelWaits({c})
  /\ read' = [read EXCEPT ![c] = IF Closed(c) THEN @ ELSE Abort(@)]
  /\ write' = [write EXCEPT ![c] = IF Closed(c) THEN @ ELSE Abort(@)]
  /\ handle' = [handle EXCEPT ![c] = IF peer[c] = "rst" THEN @ ELSE Invalid]
  /\ Goto(w, "release")
  /\ UNCHANGED <<peerVars, life, state, owner, userid, named, authVars, mapVars,
                 accepting, cancelled>>

(* Login::clientDisconnected logs the endpoint first, which throws on a socket
   that is closed or reset, and erases the slot of the handle after that. *)
ReleaseLobby(w) ==
  LET c == on[w]
      erased == IF NoEndpoint(c) THEN {} ELSE {handle[c]}
  IN
  /\ pc[w] = "release" /\ owner[c] = "lobby"
  /\ pendingClients' = [k \in Keys |-> IF k \in erased THEN None ELSE pendingClients[k]]
  /\ Destroy(UNION {Owned(pendingClients, k) : k \in erased}, write)
  /\ Return(w)
  /\ UNCHANGED <<peerVars, alive, state, owner, userid, named, authVars, clients,
                 rows, mutex, accepting, cancelled>>

\* As ReleaseRoster, with the seat left to the destroyed object.
ReleaseRosterDangling(w) ==
  /\ pc[w] = "release" /\ owner[on[w]] = "roster"
  /\ Destroy(Owned(clients, userid[on[w]]), write)
  /\ Return(w)
  /\ UNCHANGED <<peerVars, alive, state, owner, userid, named, authVars, clients,
                 pendingClients, rows, mutex, accepting, cancelled>>

(* ClientServer::clientDisconnected erases the seat of the userid, whoever sits
   there; what its logging throws, it catches.  Neither takes the lock. *)
ReleaseRoster(w) ==
  LET c == on[w]  p == userid[c] IN
  /\ pc[w] = "release" /\ owner[c] = "roster"
  /\ clients' = [clients EXCEPT ![p] = None]
  /\ Destroy(Owned(clients, p), write)
  /\ Return(w)
  /\ UNCHANGED <<peerVars, alive, state, owner, userid, named, authVars,
                 pendingClients, rows, mutex, accepting, cancelled>>

\* Handlers of writes go through the strand writeLock, one at a time.
OnWriteComplete(w, c) ==
  /\ pc[w] = "idle" /\ write[c] = "err"
  /\ \A v \in Workers : ~(on[v] = c /\ src[v] = "write")
  /\ write' = [write EXCEPT ![c] = "none"]
  /\ Begin(w, c, "write", "close")
  /\ UNCHANGED <<peerVars, objVars, handle, read, timerVars, authVars, mapVars,
                 accepting, cancelled>>

-----------------------------------------------------------------------------
(* Client::keepAlive: a wait that was cancelled, a peer that was silent for too
   long, a peer that is sent a keep-alive and a timer that is set again. *)

KeepAliveAborted(w, c) ==
  /\ pc[w] = "idle" /\ aborted[c] > 0
  /\ aborted' = [aborted EXCEPT ![c] = @ - 1]
  /\ Begin(w, c, "timer", "close")
  /\ UNCHANGED <<peerVars, objVars, ioVars, armed, fired, authVars, mapVars,
                 accepting, cancelled>>

\* The timed-out connection's operations are cancelled, the wait is not renewed.
KeepAliveTimeout(w, c) ==
  /\ pc[w] = "idle" /\ fired[c] > 0 /\ TRUE \in AliveTest(c)
  /\ fired' = [fired EXCEPT ![c] = @ - 1]
  /\ CancelSocket(c, write)
  /\ cancelled' = [cancelled EXCEPT ![c] = IF Closed(c) THEN @
                                              ELSE @ \cup {"timeout"}]
  /\ UNCHANGED <<peerVars, objVars, armed, aborted, authVars, mapVars, accepting,
                 workerVars>>

KeepAlive(w, c) ==
  /\ pc[w] = "idle" /\ fired[c] > 0
  /\ fired' = [fired EXCEPT ![c] = @ - 1]
  /\ Begin(w, c, "timer", "beat")
  /\ UNCHANGED <<peerVars, objVars, ioVars, armed, aborted, authVars, mapVars,
                 accepting, cancelled>>

RenewForgotten(c) ==
  /\ aborted' = [aborted EXCEPT ![c] = @ + armed[c]]
  /\ armed' = [armed EXCEPT ![c] = 0]

\* expires_from_now cancels the waits that other handlers left on the timer.
Renew(c) ==
  /\ aborted' = [aborted EXCEPT ![c] = @ + armed[c]]
  /\ armed' = [armed EXCEPT ![c] = 1]

ResetTimer(w) ==
  LET c == on[w] IN
  /\ pc[w] = "beat"
  /\ SendData(c)
  /\ Renew(c)
  /\ Return(w)
  /\ UNCHANGED <<peerVars, objVars, handle, read, fired, authVars, mapVars,
                 accepting, cancelled>>

-----------------------------------------------------------------------------
(* The session server requests of a remote login, authWithMojang and on. *)

\* Every handler of the chain drops an error and leaves the connection as it is.
AuthDropped(w, c) ==
  /\ pc[w] = "idle"
  /\ \/ /\ asking[c] > 0
        /\ asking' = [asking EXCEPT ![c] = @ - 1] /\ UNCHANGED joining
     \/ /\ joining[c] > 0
        /\ joining' = [joining EXCEPT ![c] = @ - 1] /\ UNCHANGED asking
  /\ UNCHANGED <<peerVars, objVars, ioVars, timerVars, mapVars, accepting,
                 workerVars, cancelled>>

(* readHTTPHeader, status 200: the body is awaited. *)
ReadHTTPHeader(w, c) ==
  /\ pc[w] = "idle" /\ asking[c] > 0 /\ TRUE \in AliveTest(c)
  /\ asking' = [asking EXCEPT ![c] = @ - 1]
  /\ joining' = [joining EXCEPT ![c] = @ + 1]
  /\ UNCHANGED <<peerVars, objVars, ioVars, timerVars, mapVars, accepting,
                 workerVars, cancelled>>

(* readHTTPHeader, another status: the refusal is logged with the endpoint,
   which throws when it is gone, then the socket's operations are cancelled. *)
AuthRefused(w, c) ==
  /\ pc[w] = "idle" /\ asking[c] > 0 /\ TRUE \in AliveTest(c) /\ ~NoEndpoint(c)
  /\ asking' = [asking EXCEPT ![c] = @ - 1]
  /\ CancelSocket(c, write)
  /\ cancelled' = [cancelled EXCEPT ![c] = @ \cup {"refused"}]
  /\ UNCHANGED <<peerVars, objVars, timerVars, joining, mapVars, accepting,
                 workerVars>>

\* onHasJoinedPostComplete, which does not test alive.
HasJoined(w, c) ==
  /\ pc[w] = "idle" /\ joining[c] > 0
  /\ joining' = [joining EXCEPT ![c] = @ - 1]
  /\ userid' = [userid EXCEPT ![c] = Account[c]]
  /\ named' = [named EXCEPT ![c] = TRUE]
  /\ Take(w, c, "auth", "login")
  /\ UNCHANGED <<peerVars, life, alive, state, owner, ioVars, timerVars, asking,
                 mapVars, accepting, cancelled>>

-----------------------------------------------------------------------------
(* The peers and the kernel. *)

PeerSends(c) ==
  /\ read[c] = "armed" /\ peer[c] # "rst" /\ packets[c] < MaxPackets
  /\ read' = [read EXCEPT ![c] = "ok"]
  /\ packets' = [packets EXCEPT ![c] = @ + 1]
  /\ UNCHANGED <<peer, objVars, handle, write, timerVars, authVars, mapVars,
                 accepting, workerVars, cancelled>>

PeerCloses(c, how) ==
  /\ ~Closed(c) /\ peer[c] # "rst" /\ peer[c] # how
  /\ peer' = [peer EXCEPT ![c] = how]
  /\ UNCHANGED <<packets, objVars, ioVars, timerVars, authVars, mapVars, accepting,
                 workerVars, cancelled>>

ReadFails(c) ==
  /\ read[c] = "armed" /\ peer[c] # "up"
  /\ read' = [read EXCEPT ![c] = "err"]
  /\ UNCHANGED <<peerVars, objVars, handle, write, timerVars, authVars, mapVars,
                 accepting, workerVars, cancelled>>

WriteCompletes(c) ==
  /\ write[c] = "armed"
  /\ write' = [write EXCEPT ![c] = IF peer[c] = "rst" THEN "err" ELSE "none"]
  /\ UNCHANGED <<peerVars, objVars, handle, read, timerVars, authVars, mapVars,
                 accepting, workerVars, cancelled>>

TimerExpires(c) ==
  /\ armed[c] > 0
  /\ fired' = [fired EXCEPT ![c] = @ + armed[c]]
  /\ armed' = [armed EXCEPT ![c] = 0]
  /\ UNCHANGED <<peerVars, objVars, ioVars, aborted, authVars, mapVars, accepting,
                 workerVars, cancelled>>

-----------------------------------------------------------------------------
\* The next step of the handler worker w is in.
Message(w) ==
  \/ IgnoreMessage(w) \/ ParserThrows(w)
  \/ \E next \in ClientState : Handshake(w, next)
  \/ StatusRequest(w) \/ StatusPing(w) \/ LoginStart(w) \/ EncryptionResponse(w)

Continue(w) ==
  \/ Message(w)
  \/ StoreClient(w) \/ StartAsyncRead(w) \/ OnPlayerLogin(w)
  \/ HandoffNothing(w) \/ HandoffFind(w) \/ HandoffDetach(w)
  \/ QueryPlayer(w) \/ InsertPlayer(w) \/ AddClient(w)
  \/ Close(w) \/ ReleaseLobby(w) \/ ReleaseRoster(w) \/ ResetTimer(w)

\* Worker w takes the handler of a completed operation of c.
Timer(w, c) ==
  KeepAliveAborted(w, c) \/ KeepAliveTimeout(w, c) \/ KeepAlive(w, c)

Session(w, c) ==
  AuthDropped(w, c) \/ ReadHTTPHeader(w, c) \/ AuthRefused(w, c) \/ HasJoined(w, c)

Dispatch(w, c) ==
  \/ \E h \in Handles : HandleClient(w, c, h)
  \/ OnLengthReceive(w, c) \/ OnWriteComplete(w, c)
  \/ Timer(w, c) \/ Session(w, c)

Environment(c) ==
  \/ PeerSends(c) \/ ReadFails(c) \/ WriteCompletes(c) \/ TimerExpires(c)
  \/ \E how \in {"fin", "rst"} : PeerCloses(c, how)

Next ==
  \/ \E w \in Workers : Continue(w)
  \/ \E w \in Workers, c \in Clients : Dispatch(w, c)
  \/ \E c \in Clients : Environment(c)

Spec == Init /\ [][Next]_vars

(* The scheduling: a handler that started goes on; the io_service runs the
   completed operations of a connection and the accept in the order they
   completed, on whichever worker is idle next; the kernel reports the end of a
   connection and the expiry of a timer.  Nothing is assumed of the peers. *)
Fairness ==
  /\ \A w \in Workers : WF_vars(Continue(w))
  /\ \A c \in Clients :
       /\ SF_vars(\E w \in Workers : OnLengthReceive(w, c))
       /\ SF_vars(\E w \in Workers : OnWriteComplete(w, c))
       /\ SF_vars(\E w \in Workers : Timer(w, c))
       /\ WF_vars(ReadFails(c))
       /\ WF_vars(TimerExpires(c))

FairSpec == Spec /\ Fairness

-----------------------------------------------------------------------------
(* Safety. *)

Busy(c) == \E w \in Workers : on[w] = c

\* The read loop never forks: one async_read or one handler that will arm it.
ReadLoopSingle ==
  \A c \in Clients :
    /\ \A w \in Workers : on[w] = c /\ src[w] = "read" => read[c] = "none"
    /\ \A v, w \in Workers :
         on[v] = c /\ on[w] = c /\ src[v] = "read" /\ src[w] = "read" => v = w

Owners(c) ==
  Cardinality({k \in Keys : pendingClients[k] = c})
  + Cardinality({p \in Ids : clients[p] = c})
  + Cardinality({w \in Workers : held[w] = c})

\* Every Client object has one owner as long as it exists, and then none.
SingleOwner ==
  \A c \in Clients : Owners(c) = IF life[c] = "made" THEN 1 ELSE 0

\* The shared MySQL connection is used by one worker at a time.
DbExclusive ==
  \A v, w \in Workers :
    pc[v] \in {"query", "insert"} /\ pc[w] \in {"query", "insert"} => v = w

\* With local connections: the players table never gets a second row for a uuid, as
\* long as no query fails.  (The uuid of a remote one may change between the SELECT
\* and the INSERT.)
NoDuplicateRow == \A p \in Ids : rows[p] <= 1

\* A slot of the lobby holds a client that nobody handed off, under the handle
\* it had when it was stored; the handle differs only once the client is dead.
PendingConsistent ==
  \A k \in Keys, c \in Clients :
    pendingClients[k] = c =>
      /\ owner[c] = "lobby"
      /\ handle[c] = k \/ (handle[c] = Invalid /\ ~alive[c])

\* Reusing a descriptor number never destroys a lobby client that is alive.
LoginDestroysOnlyDead ==
  [][\A c \in Clients :
       life[c] = "made" /\ life'[c] = "deleted" /\ owner[c] = "lobby" => ~alive[c]]_vars

\* The accept loop neither ends nor forks: the accept is outstanding or one worker
\* has the connection in hand, and when that worker waits for clientMapMutex, the
\* lock is with a handoff that has steps to go, never with a handler that is over.
AcceptLoopSingle ==
  /\ accepting <=> \A w \in Workers : pc[w] # "store"
  /\ \A v, w \in Workers : pc[v] = "store" /\ pc[w] = "store" => v = w
  /\ mutex # None => pc[mutex] \in Locked

\* A seat is its player's own, whichever handler, for whichever connection, found
\* the object by a handle and gave it the seat.  (A connection that closed before
\* it logged in can be found, too: it gets the seat of Nobody.)
SeatsOwn ==
  \A p \in Players, c \in Clients :
    clients[p] = c => userid[c] = p /\ Account[c] = p /\ owner[c] = "roster"

\* LoginServer.hpp says of handoffClient that a login which succeeded is connected
\* to the game servers: whoever logged in and is alive sits in the roster once the
\* handler of the login is over.
HandedOff ==
  \A c \in Clients :
    life[c] = "made" /\ alive[c] /\ userid[c] # Nobody /\ ~Busy(c)
      => clients[userid[c]] = c

\* A player that logged in is watched: a wait of its keep-alive timer is still
\* to come back, unless the check already found it silent for too long.
Watched ==
  \A c \in Clients :
    life[c] = "made" /\ alive[c] /\ userid[c] # Nobody /\ ~Busy(c)
      => armed[c] + fired[c] + aborted[c] > 0 \/ "timeout" \in cancelled[c]

-----------------------------------------------------------------------------
(* The gateway implements Roster: the object a handoff holds, with the lock, is
   on its way from the lobby to the seat it is given. *)

Moving(c) ==
  \E w \in Workers : held[w] = c /\ pc[w] \in Locked

Stage(c) ==
  IF life[c] = "unborn" THEN "outside"
  ELSE IF life[c] = "deleted" THEN "gone"
  ELSE IF Moving(c) THEN "moving"
  ELSE IF \E p \in Ids : clients[p] = c THEN "roster" ELSE "lobby"

R == INSTANCE Roster WITH stage <- [c \in Clients |-> Stage(c)], seat <- clients

\* Whatever the interleaving of handlers, and however often one of them runs for
\* an object already deleted, an object is owned and destroyed as Roster says.
ImplementsRoster == R!Spec

-----------------------------------------------------------------------------
(* Liveness. *)

\* Nobody reads the connection any more: its parser threw.
Unread(c) == read[c] = "none" /\ ~Busy(c)

\* A connection whose peer is gone is disconnected, unless it is not read.
PeerGoneNoticed ==
  \A c \in Clients :
    life[c] = "made" /\ peer[c] # "up" ~> ~alive[c] \/ life[c] = "deleted" \/ Unread(c)

\* A login that waits for the lobby's lock gets it and its handler ends.
HandoffEnds == \A w \in Workers : pc[w] = "handoff" ~> pc[w] = "idle"

\* Client.cpp says that cancelling the socket's operations disconnects the client,
\* and relies on it after a status ping, a refused login and a timeout.
CancelDrops ==
  \A c \in Clients : cancelled[c] # {} ~> ~alive[c] \/ Unread(c)

=============================================================================
