---------------------------- MODULE ClusterLink ----------------------------
(***************************************************************************)
(* The link from the game nodes to the players: the UDP receive loop of    *)
(* the gateway's ClientServer, which passes the packets of the nodes on to *)
(* the players' connections, while other workers add players to the        *)
(* roster (addClient), send keep-alives and drop connections.              *)
(*                                                                         *)
(* A handler is a sequence of steps pc[w]; handleMessage looks its player  *)
(* up again at every use, without the lock that addClient runs under, so   *)
(* that the player may have left in between.  Calling through the null     *)
(* pointer that operator[] then returns ends the process.  A slot that     *)
(* operator[] made for an unknown player holds nullptr: no step tells it   *)
(* from no slot.                                                           *)
(*                                                                         *)
(* The handlers of a connection are bound to the raw Client, and run also  *)
(* when it was destroyed: what they read of alive there is anything, their *)
(* calls end the process or go on with what the freed memory held last.    *)
(* (That it is a new Client's by then is left out.)                        *)
(*                                                                         *)
(* The datagrams are those of well-formed nodes (InternalComms newPacket   *)
(* and serializeData), whole, and lost, repeated or out of order as UDP    *)
(* may have it.  What the lobby does before the login and around it is in  *)
(* Gateway, a connection that is lost in the lobby too.  The streams begin *)
(* behind the login success packet.                                        *)
(***************************************************************************)
EXTENDS Sender

CONSTANTS
  Players,       \* player ids, of 36 letters as formatUUID makes them
  Account,       \* the player of each connection
  Messages,      \* what the nodes send: an id and a player
  JoinKinds,     \* the packets that addClient sends, in order
  MaxDatagrams,  \* bound: datagrams that the gateway reads
  MaxKeepAlives  \* bound: keep-alives, of all connections

MessageID == {"ACK", "NAK", "ACCEPT_CLIENT", "MC_PACKET"}

ASSUME LinkAssumption ==
  /\ Account \in [Clients -> Players]
  /\ Messages \subseteq [id : MessageID, player : Players]
  /\ JoinKinds \in Seq(STRING) /\ JoinKinds # <<>>
  /\ \A i \in DOMAIN JoinKinds : JoinKinds[i] \notin {"KeepAlive", "relayed"}
  /\ MaxDatagrams \in Nat /\ MaxKeepAlives \in Nat

\* Frames: what addClient sends, in order; a keep-alive; a node's packet.
Named(kind) == [kind |-> kind, n |-> 0]
JoinFrames  == [i \in DOMAIN JoinKinds |-> Named(JoinKinds[i])]
Relayed(d)  == [kind |-> "relayed", n |-> d.n]

VARIABLES
  received,  \* datagrams read so far, in order
  waiting,   \* an async_wait of receiveSocket is outstanding
  failed,    \* the receive loop ended with an error
  clients,   \* ClientServer::clients
  place,     \* the Client object: in the lobby, in the roster, destroyed
  due,       \* the handlers of each connection that are still to run
  beats,     \* keep-alives so far (bounded by MaxKeepAlives)
  pc, task,  \* each worker's next step and the handler it runs
  msg, on,   \* the datagram it handles, the Client it calls
  toSend,    \* the frames its handler has yet to send to that Client
  mark,      \* the stamp of the frame encrypted and not yet written
  fault,     \* the worker that ended the process so, or None
  left       \* history: the workers in whose handler a Client was destroyed

linkVars == <<received, waiting, failed>>
rosterVars == <<clients, place>>
timerVars == <<due, beats>>
workerVars == <<pc, task, msg, on, toSend, mark>>
vars == <<senderVars, linkVars, rosterVars, timerVars, workerVars, fault, left>>

Steps == {"idle", "find", "call", "return", "rearm", "lock", "send", "write",
          "store", "clear", "erase", "reset"}

Places == {"lobby", "handoff", "adding", "roster", "destroyed"}

\* The outstanding async_read; the async_writes, taken together; the wait of the
\* keep-alive timer, which comes back as well when it is cancelled.
Handlers == {"read", "write", "timer"}
Tasks    == {"none", "receive", "add", "keepAlive"} \cup Handlers

TypeOK ==
  /\ alive \in [Clients -> BOOLEAN]
  /\ \A c \in Clients : Len(writes[c]) + Len(partial[c]) <= Len(JoinFrames) +
       MaxDatagrams + MaxKeepAlives
  /\ received \in Seq([n : Nat, id : MessageID, player : Players])
  /\ clients \in [Players -> Clients \cup {None}]
  /\ place \in [Clients -> Places]
  /\ due \in [Clients -> SUBSET Handlers]
  /\ \A p \in Players : clients[p] # None =>
       Account[clients[p]] = p /\ place[clients[p]] = "roster"
  /\ pc \in [Workers -> Steps]
  /\ task \in [Workers -> Tasks]
  /\ on \in [Workers -> Clients \cup {None}]
  /\ fault \in Workers \cup {None}
  /\ left \subseteq Workers

Init ==
  /\ SenderInit
  /\ received = <<>> /\ waiting = TRUE /\ failed = FALSE
  /\ clients = [p \in Players |-> None]
  /\ place = [c \in Clients |-> "lobby"]
  /\ due = [c \in Clients |-> IF c \in Encrypted THEN {"read"} ELSE {}]
  /\ beats = 0
  /\ pc = [w \in Workers |-> "idle"]
  /\ task = [w \in Workers |-> "none"]
  /\ msg = [w \in Workers |-> None]
  /\ on = [w \in Workers |-> None]
  /\ toSend = [w \in Workers |-> <<>>]
  /\ mark = [w \in Workers |-> None]
  /\ fault = None
  /\ left = {}

\* What a test of alive can yield: the field, or anything once it was freed.
AliveTest(c) == IF place[c] = "destroyed" THEN BOOLEAN ELSE {alive[c]}

Open(c) == alive[c] /\ place[c] # "destroyed"

-----------------------------------------------------------------------------
(* Workers *)

Take(w, kind, step, c, frames) ==
  /\ pc[w] = "idle"
  /\ pc' = [pc EXCEPT ![w] = step]
  /\ task' = [task EXCEPT ![w] = kind]
  /\ on' = [on EXCEPT ![w] = c]
  /\ toSend' = [toSend EXCEPT ![w] = frames]
  /\ UNCHANGED <<mark, left>>

Goto(w, step) ==
  /\ pc' = [pc EXCEPT ![w] = step]
  /\ UNCHANGED <<task, msg, on, toSend, mark>>

\* The handler ends, and the Clients of `gone` are destroyed, their sockets
\* closed; the buffers that the handler's packets held are freed.
Done(w, gone) ==
  /\ pc' = [pc EXCEPT ![w] = "idle"]
  /\ task' = [task EXCEPT ![w] = "none"]
  /\ msg' = [msg EXCEPT ![w] = None]
  /\ on' = [on EXCEPT ![w] = None]
  /\ Emptied(gone, w)
  /\ left' = IF gone = {} THEN left \ {w}
             ELSE {v \in Workers \ {w} : pc[v] # "idle"}
  /\ UNCHANGED <<alive, toSend, mark>>

Fault(w) ==
  /\ fault' = w
  /\ UNCHANGED <<senderVars, linkVars, rosterVars, timerVars, workerVars, left>>

-----------------------------------------------------------------------------
(* The receive loop *)

\* A datagram is ready: any a node may send, whatever was read before it.
Receive(w) ==
  /\ waiting /\ Len(received) < MaxDatagrams
  /\ Take(w, "receive", "find", None, <<>>)
  /\ \E m \in Messages :
       LET d == [n |-> Len(received) + 1, id |-> m.id, player |-> m.player]
       IN  /\ msg' = [msg EXCEPT ![w] = d]
           /\ received' = Append(received, d)
  /\ UNCHANGED <<senderVars, failed, rosterVars, timerVars, fault>>

\* As OnDataReceived, waiting for the next before the first is handled.
OnDataReceivedArmed(w) == Receive(w) /\ UNCHANGED waiting

OnDataReceived(w) == Receive(w) /\ waiting' = FALSE

\* An error of the wait or of receive_from: the handler returns.
ReceiveFails(w) ==
  /\ waiting /\ pc[w] = "idle"
  /\ waiting' = FALSE
  /\ failed' = TRUE
  /\ UNCHANGED <<senderVars, received, rosterVars, timerVars,
                 workerVars, fault, left>>

PresentAlways(w) == TRUE

\* clients[packet->getPlayerID()] is not nullptr.
Present(w) == clients[msg[w].player] # None

\* As Find, returning from onDataReceived as well for an unknown player.
FindEnds(w) ==
  /\ pc[w] = "find"
  /\ IF Present(w)
     THEN /\ Goto(w, IF msg[w].id = "MC_PACKET" THEN "call" ELSE "rearm")
          /\ UNCHANGED <<senderVars, left>>
     ELSE Done(w, {})
  /\ UNCHANGED <<linkVars, rosterVars, timerVars, fault>>

\* The first two lookups, which test, and the switch over the message's id.
Find(w) ==
  /\ pc[w] = "find"
  /\ Goto(w, IF Present(w) /\ msg[w].id = "MC_PACKET" THEN "call" ELSE "rearm")
  /\ UNCHANGED <<senderVars, linkVars, rosterVars, timerVars, fault, left>>

\* The last two, which call: getCompressionThreshold() is (size_t)-1, which
\* no payload reaches, and sendData, for which the worker keeps the address.
Call(w) ==
  /\ pc[w] = "call"
  /\ IF clients[msg[w].player] = None THEN Fault(w)
     ELSE /\ on' = [on EXCEPT ![w] = clients[msg[w].player]]
          /\ toSend' = [toSend EXCEPT ![w] = <<Relayed(msg[w])>>]
          /\ pc' = [pc EXCEPT ![w] = "send"]
          /\ UNCHANGED <<senderVars, linkVars, rosterVars, timerVars,
                         task, msg, mark, fault, left>>

\* handleMessage is over, and the packet and its payload with it.
Return(w) ==
  /\ pc[w] = "return"
  /\ Emptied({}, w)
  /\ Goto(w, "rearm")
  /\ UNCHANGED <<alive, linkVars, rosterVars, timerVars, fault, left>>

\* startAsyncReceive
Rearm(w) ==
  /\ pc[w] = "rearm"
  /\ waiting' = TRUE
  /\ Done(w, {})
  /\ UNCHANGED <<received, failed, rosterVars, timerVars, fault>>

-----------------------------------------------------------------------------
(* sendData, called by handleMessage, addClient and keepAlive *)

\* Where a handler goes on when it has sent its frames.
After(w) == CASE task[w] = "receive"   -> "return"
              [] task[w] = "add"       -> "store"
              [] task[w] = "keepAlive" -> "reset"

\* A frame is done with: the next one, or the handler's next step.
Sent(w) ==
  /\ toSend' = [toSend EXCEPT ![w] = Tail(@)]
  /\ pc' = [pc EXCEPT ![w] = IF Len(toSend[w]) > 1 THEN "send" ELSE After(w)]
  /\ UNCHANGED <<task, msg, on>>

\* The test of alive, then encrypt; nothing goes out on a destroyed Client.
Send(w) ==
  /\ pc[w] = "send"
  /\ IF Open(on[w])
     THEN /\ mark' = [mark EXCEPT ![w] = Stamp(on[w])]
          /\ Encrypt(on[w], {v \in Workers \ {w} : pc[v] = "write" /\ on[v] = on[w]})
          /\ pc' = [pc EXCEPT ![w] = "write"]
          /\ UNCHANGED <<task, msg, on, toSend>>
     ELSE /\ Sent(w)
          /\ UNCHANGED <<cipher, crossed, mark>>
  /\ UNCHANGED <<alive, writes, partial, stream, stalls, linkVars,
                 rosterVars, timerVars, fault, left>>

\* async_write, whose handler is onWriteComplete.
Write(w) ==
  /\ pc[w] = "write"
  /\ IF place[on[w]] = "destroyed" THEN UNCHANGED <<writes, partial, stream, stalls>>
     ELSE AsyncWrite(on[w], Head(toSend[w]), mark[w], w)
  /\ due' = [due EXCEPT ![on[w]] = @ \cup {"write"}]
  /\ mark' = [mark EXCEPT ![w] = None]
  /\ Sent(w)
  /\ UNCHANGED <<alive, cipher, crossed, linkVars, rosterVars, beats, fault, left>>

-----------------------------------------------------------------------------
(* The roster and the connections *)

\* The login is through: login success is sent, the keep-alive timer started, and
\* handoffClient waits for clientMapMutex.  Each connection logs in once here.
OnPlayerLogin(w, c) ==
  /\ place[c] = "lobby"
  /\ Take(w, "add", "lock", c, JoinFrames)
  /\ place' = [place EXCEPT ![c] = "handoff"]
  /\ due' = [due EXCEPT ![c] = @ \cup {"write", "timer"}]
  /\ UNCHANGED <<senderVars, linkVars, msg, clients, beats, fault>>

\* No other worker is in handoffClient with the lock.
LockFree(w) == \A v \in Workers \ {w} : task[v] = "add" => pc[v] = "lock"

\* As AddClient, in the roster before the first packet goes out.
AddClientStored(w) ==
  /\ pc[w] = "lock" /\ LockFree(w) /\ clients[Account[on[w]]] = None
  /\ place' = [place EXCEPT ![on[w]] = "roster"]
  /\ clients' = [clients EXCEPT ![Account[on[w]]] = on[w]]
  /\ Goto(w, "send")
  /\ UNCHANGED <<senderVars, linkVars, timerVars, fault, left>>

\* The connection goes to the roster: addClient, which runs under the lock.
AddClient(w) ==
  /\ pc[w] = "lock" /\ LockFree(w)
  /\ place' = [place EXCEPT ![on[w]] = "adding"]
  /\ Goto(w, "send")
  /\ UNCHANGED <<senderVars, linkVars, clients, timerVars, fault, left>>

\* clients[id] = std::move(client): it takes the place of an older one.  The
\* handler of a local login is a read's, which reads on.
Store(w) ==
  /\ pc[w] = "store"
  /\ LET c == on[w]
         old == {clients[Account[c]]} \ {None}
     IN  /\ clients' = [clients EXCEPT ![Account[c]] = c]
         /\ place' = [p \in Clients |-> IF p = c THEN "roster"
                        ELSE IF p \in old THEN "destroyed" ELSE place[p]]
         /\ due' = [due EXCEPT ![c] = @ \cup (IF c \in Encrypted THEN {} ELSE {"read"})]
         /\ Done(w, old)
  /\ UNCHANGED <<linkVars, beats, fault>>

\* A handler of c is run by an idle worker.
Ran(c, h) == h \in due[c] /\ due' = [due EXCEPT ![c] = @ \ {h}]

\* The timer: a keep-alive to a connection that is not silent.
KeepAlive(w, c) ==
  /\ Ran(c, "timer") /\ TRUE \in AliveTest(c)
  /\ beats < MaxKeepAlives
  /\ Take(w, "keepAlive", "send", c, <<Named("KeepAlive")>>)
  /\ beats' = beats + 1
  /\ UNCHANGED <<senderVars, linkVars, msg, rosterVars, fault>>

\* expires_from_now and async_wait
Reset(w) ==
  /\ pc[w] = "reset"
  /\ due' = [due EXCEPT ![on[w]] = @ \cup {"timer"}]
  /\ Done(w, {})
  /\ UNCHANGED <<linkVars, rosterVars, beats, fault>>

\* A handler finds alive cleared, or a write that went through.
HandlerEnds(w, c, h) ==
  /\ pc[w] = "idle"
  /\ Ran(c, h) /\ (h = "write" \/ FALSE \in AliveTest(c))
  /\ UNCHANGED <<senderVars, linkVars, rosterVars, beats, workerVars, fault, left>>

\* A read or a write reports an error, or the wait, which only a destructor
\* cancels without clearing alive first: disconnect, whose test of alive finds
\* it set.  Handlers of writes are in the strand, one at a time.
HandlerFails(w, c, h) ==
  /\ Ran(c, h) /\ TRUE \in AliveTest(c)
  /\ place[c] \notin {"lobby", "handoff"}
  /\ h = "timer" => place[c] = "destroyed"
  /\ h = "write" => \A v \in Workers : ~(task[v] = "write" /\ on[v] = c)
  /\ Take(w, h, "clear", c, <<>>)
  /\ UNCHANGED <<senderVars, linkVars, msg, rosterVars, beats, fault>>

\* As Clear, with the socket left open.
ClearUnclosed(w) ==
  /\ pc[w] = "clear"
  /\ alive' = [alive EXCEPT ![on[w]] = FALSE]
  /\ Goto(w, "erase")
  /\ UNCHANGED <<writes, partial, stream, cipher, crossed, stalls>>
  /\ UNCHANGED <<linkVars, rosterVars, timerVars, fault, left>>

\* disconnect goes on, though another worker may be there, too: alive is cleared,
\* the timer cancelled and the socket closed.
Clear(w) ==
  /\ pc[w] = "clear"
  /\ CloseSocket(on[w])
  /\ Goto(w, "erase")
  /\ UNCHANGED <<linkVars, rosterVars, timerVars, fault, left>>

\* As Erase, with the slot still there.
EraseForgets(w) ==
  /\ pc[w] = "erase"
  /\ LET old == {clients[Account[on[w]]]} \ {None}
     IN  /\ place' = [p \in Clients |-> IF p \in old THEN "destroyed" ELSE place[p]]
         /\ Done(w, old)
  /\ UNCHANGED <<clients, linkVars, timerVars, fault>>

\* clientDisconnected: clients.erase, by the player's id, whoever sits there.
Erase(w) ==
  /\ pc[w] = "erase"
  /\ LET player == Account[on[w]]
         old == {clients[player]} \ {None}
     IN  /\ clients' = [clients EXCEPT ![player] = None]
         /\ place' = [p \in Clients |-> IF p \in old THEN "destroyed" ELSE place[p]]
         /\ Done(w, old)
  /\ UNCHANGED <<linkVars, timerVars, fault>>

\* Any step on a destroyed Client may end the process instead.
UseFreed(w) ==
  /\ pc[w] \in {"send", "write", "clear", "erase", "reset"}
  /\ place[on[w]] = "destroyed"
  /\ Fault(w)

-----------------------------------------------------------------------------

Kernel(c) ==
  /\ Writable(c) \/ Resume(c)
  /\ UNCHANGED <<linkVars, rosterVars, timerVars, workerVars, fault, left>>

Step(w) == \/ Find(w) \/ Call(w) \/ Return(w) \/ Rearm(w)
           \/ AddClient(w) \/ Send(w) \/ Write(w) \/ Store(w) \/ Reset(w)
           \/ Clear(w) \/ Erase(w) \/ UseFreed(w)

Next ==
  /\ fault = None
  /\ \/ \E w \in Workers : Step(w) \/ OnDataReceived(w) \/ ReceiveFails(w)
     \/ \E w \in Workers, c \in Clients :
          \/ OnPlayerLogin(w, c) \/ KeepAlive(w, c)
          \/ \E h \in Handlers : HandlerEnds(w, c, h) \/ HandlerFails(w, c, h)
     \/ \E c \in Clients : Kernel(c)

Spec == Init /\ [][Next]_vars

\* A handler that a worker runs goes on.
FairSpec == Spec /\ \A w \in Workers : WF_vars(fault = None /\ Step(w))

-----------------------------------------------------------------------------
(* Properties *)

\* Where in the stream of a connection a frame begins, and how many have begun
\* there among those of a set of such places.
Begun(c) == {i \in DOMAIN stream[c] : stream[c][i].part # "rest"}
Rank(places, i) == Cardinality({j \in places : j <= i})

\* Those of addClient and of the nodes, and what they are.
Game(c) == {i \in Begun(c) : stream[c][i].frame.kind # "KeepAlive"}
Seen(c) ==
  LET places == Game(c)
  IN  [k \in 1 .. Cardinality(places) |->
         stream[c][CHOOSE i \in places : Rank(places, i) = k].frame]

\* A player's client sees the frames of addClient, in their order, before
\* any packet of a node, whatever else sends to it meanwhile and whatever
\* the kernel takes of each (addClient stores the connection last).
JoinFirst ==
  \A c \in Clients : \A i \in Game(c) :
    IF Rank(Game(c), i) <= Len(JoinFrames)
    THEN stream[c][i].frame = JoinFrames[Rank(Game(c), i)]
    ELSE stream[c][i].frame.kind = "relayed"

\* Packets of the nodes go out to a player in the order in which they
\* reached the gateway, each at most once: onDataReceived waits for the next
\* datagram only after handleMessage, so that no two workers handle one.
ArrivalOrder ==
  \A c \in Clients : \A i, j \in Begun(c) :
    /\ stream[c][i].frame.kind = "relayed"
    /\ stream[c][j].frame.kind = "relayed"
    /\ i < j
    => stream[c][i].frame.n < stream[c][j].frame.n

\* The peer can read what it gets: it decrypts with the next piece of the key
\* stream as long as no two sendData of the connection crossed between
\* encrypt and async_write, and every frame is whole and from a live buffer
\* as long as the kernel took each write at once.
StreamReadable ==
  \A c \in Clients :
    /\ c \in Encrypted /\ ~crossed[c] =>
         \A i \in Begun(c) : stream[c][i].stamp = Rank(Begun(c), i)
    /\ stalls[c] = 0 =>
         \A i \in DOMAIN stream[c] :
           stream[c][i].part = "all" /\ ~stream[c][i].stale

\* handleMessage calls a null or destroyed Client only if a connection left the
\* roster, or was replaced there, while it ran: its lookups suffice against all
\* that happened before, disconnects by handlers of Clients long destroyed
\* included.  addClient never does: what it was given nobody else destroys.
LookupsSuffice ==
  fault # None => /\ task[fault] = "receive" => fault \in left
                  /\ task[fault] # "add"

\* What the gateway promises of the frames on a connection: handleMessage
\* passes on only what asked for it, to a connection of the player it names,
\* and nothing goes out on a connection that disconnect closed, whatever the
\* workers that still send to it do.  A connection whose object was replaced
\* in the roster is closed with it.
D == INSTANCE Delivery WITH
       Greeting <- JoinFrames, arrived <- received,
       open <- [c \in Clients |-> Open(c)], seen <- [c \in Clients |-> Seen(c)]
ImplementsDelivery == D!Spec

\* The gateway always comes back to wait for the next datagram, unless the
\* process died or the receive loop ended with an error: every other way out
\* of handleMessage leads to startAsyncReceive.
WaitsAgain == []<>(waiting \/ failed \/ fault # None)
=============================================================================
