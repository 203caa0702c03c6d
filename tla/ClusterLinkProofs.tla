------------------------- MODULE ClusterLinkProofs -------------------------
(***************************************************************************)
(* The safety of the cluster link for any connections, workers, players,   *)
(* frames of addClient and bounds.                                         *)
(*                                                                         *)
(* LookupsSuffice: handleMessage calls a null or destroyed Client only if  *)
(* one was destroyed while it ran, addClient never does.  IInv says why:   *)
(* what a handler has looked up is there, or was taken away since it       *)
(* began, and a login has its Client for itself.                           *)
(*                                                                         *)
(* JoinFirst, ArrivalOrder and TypeOK are about what the kernel took from  *)
(* a connection, which is not inductive: what waits in asio, and what the  *)
(* handlers have still to send, decides what it takes next.  LinkInv is    *)
(* about the whole line of a connection, the stream and the writes that    *)
(* wait: the kernel only moves the boundary between the two, so that the   *)
(* order of a line is settled when async_write is called, by which         *)
(* handlers can be there at once (Roles).                                  *)
(*                                                                         *)
(* Last, the refinement: Streams says what one step may do to the streams, *)
(* Addressed that a node's packet is on a connection of its player, and    *)
(* with JoinFirst and ArrivalOrder each step is one of Delivery, or none.  *)
(***************************************************************************)
EXTENDS ClusterLink, TLAPS, FiniteSetTheorems

\* What each step of a handler knows of its player and its Client.
HandlersKnow ==
  \A w \in Workers :
    /\ pc[w] \in {"find", "call"} => task[w] = "receive" /\ msg[w].player \in Players
    /\ pc[w] \in {"lock", "send", "write", "store", "clear", "erase", "reset"} =>
         on[w] \in Clients
    /\ pc[w] \in {"send", "write"} => task[w] \in {"receive", "add", "keepAlive"}
    /\ task[w] = "receive" =>
         pc[w] \in {"find", "call", "send", "write", "return", "rearm"}
    /\ pc[w] \in {"lock", "store"} => task[w] = "add"

\* A slot of the roster is empty or owns a live Client, of its player.
SlotsOwn ==
  /\ clients \in [Players -> Clients \cup {None}]
  /\ \A p \in Players : clients[p] # None =>
       Account[clients[p]] = p /\ place[clients[p]] = "roster"

\* A login has its Client for itself, and the one with the lock is in addClient.
LoginsOwn ==
  \A w \in Workers : task[w] = "add" =>
    /\ on[w] \in Clients
    /\ \/ pc[w] = "lock" /\ place[on[w]] = "handoff"
       \/ pc[w] \in {"send", "write", "store"} /\ place[on[w]] = "adding"
    /\ \A v \in Workers \ {w} : task[v] = "add" => on[v] # on[w]

\* A handler of a datagram past its lookup finds what it looked up, or a Client left.
FoundOrLeft ==
  \A w \in Workers \ left :
    /\ pc[w] = "call" => clients[msg[w].player] # None
    /\ task[w] = "receive" /\ pc[w] \in {"send", "write"} => place[on[w]] # "destroyed"

IInv ==
  /\ pc \in [Workers -> Steps]
  /\ place \in [Clients -> Places]
  /\ task \in [Workers -> Tasks]
  /\ DOMAIN msg = Workers /\ msg = [w \in Workers |-> msg[w]]
  /\ on \in [Workers -> Clients \cup {None}]
  /\ left \subseteq Workers
  /\ fault \in Workers \cup {None}
  /\ HandlersKnow
  /\ SlotsOwn
  /\ LoginsOwn
  /\ FoundOrLeft
  /\ LookupsSuffice
-----------------------------------------------------------------------------
(* One lemma per step of a worker: the invariant outlives it. *)

\* A datagram's handler that calls a Client that is not there was raced.
LEMMA FaultKeeps ==
  ASSUME IInv, fault = None, NEW w \in Workers, Fault(w),
         task[w] = "receive" => w \in left, task[w] # "add"
  PROVE  IInv'
  BY DEF IInv, HandlersKnow, SlotsOwn, LoginsOwn, FoundOrLeft, LookupsSuffice,
    Fault, rosterVars, workerVars
\* The process ends on a destroyed Client.
LEMMA UseFreedKeeps ==
  ASSUME IInv, fault = None, NEW w \in Workers, UseFreed(w)
  PROVE  IInv'
<1>1. task[w] = "receive" => w \in left
  BY DEF IInv, HandlersKnow, FoundOrLeft, UseFreed
<1>2. task[w] # "add"
  BY DEF IInv, LoginsOwn, UseFreed
<1> QED
  BY <1>1, <1>2, FaultKeeps DEF UseFreed
\* The tests of handleMessage.
LEMMA FindKeeps ==
  ASSUME IInv, fault = None, NEW w \in Workers, Find(w)
  PROVE  IInv'
  BY DEF IInv, HandlersKnow, SlotsOwn, LoginsOwn, FoundOrLeft, LookupsSuffice,
    Steps, Tasks, Find, Goto, Present, rosterVars
\* Its calls.
LEMMA CallKeeps ==
  ASSUME IInv, fault = None, NEW w \in Workers, Call(w)
  PROVE  IInv'
<1>1. CASE clients[msg[w].player] = None
  <2>1. w \in left /\ task[w] = "receive" /\ Fault(w)
    BY <1>1 DEF IInv, HandlersKnow, FoundOrLeft, Call
  <2> QED
    BY <2>1, FaultKeeps
<1>2. CASE clients[msg[w].player] # None
  <2> DEFINE c == clients[msg[w].player]
  <2>1. c \in Clients /\ place[c] = "roster"
    BY <1>2 DEF IInv, HandlersKnow, SlotsOwn, Call
  <2>2. /\ pc[w] = "call" /\ pc' = [pc EXCEPT ![w] = "send"]
        /\ on' = [on EXCEPT ![w] = c]
        /\ UNCHANGED <<task, msg, clients, place, left, fault>>
    BY <1>2 DEF Call, rosterVars
  <2> HIDE DEF c
  <2> QED
    BY <2>1, <2>2 DEF IInv, HandlersKnow, SlotsOwn, LoginsOwn, FoundOrLeft,
      LookupsSuffice, Steps
<1> QED
  BY <1>1, <1>2
\* The end of handleMessage.
LEMMA ReturnKeeps ==
  ASSUME IInv, fault = None, NEW w \in Workers, Return(w)
  PROVE  IInv'
  BY DEF IInv, HandlersKnow, SlotsOwn, LoginsOwn, FoundOrLeft, LookupsSuffice,
    Steps, Return, Goto, rosterVars
\* The end of a datagram.
LEMMA RearmKeeps ==
  ASSUME IInv, fault = None, NEW w \in Workers, Rearm(w)
  PROVE  IInv'
  BY SenderAssumption DEF IInv, HandlersKnow, SlotsOwn, LoginsOwn, FoundOrLeft,
    LookupsSuffice, Steps, Tasks, Rearm, Done, rosterVars
\* Where a handler goes on behind its frames.
LEMMA AfterStep ==
  ASSUME IInv, NEW w \in Workers, pc[w] \in {"send", "write"}
  PROVE  /\ After(w) \in {"return", "store", "reset"}
         /\ task[w] = "receive" => After(w) = "return"
         /\ task[w] = "add" => After(w) = "store"
         /\ After(w) = "store" => task[w] = "add"
  BY DEF IInv, HandlersKnow, After
\* A frame is done with, or encrypted.
LEMMA FrameKeeps ==
  ASSUME IInv, fault = None, NEW w \in Workers, pc[w] \in {"send", "write"},
         NEW step \in {"send", "write", After(w)}, pc' = [pc EXCEPT ![w] = step],
         UNCHANGED <<task, msg, on, clients, place, left, fault>>
  PROVE  IInv'
  BY AfterStep DEF IInv, HandlersKnow, SlotsOwn, LoginsOwn, FoundOrLeft,
    LookupsSuffice, Steps
\* The test of alive and encrypt.
LEMMA SendKeeps ==
  ASSUME IInv, fault = None, NEW w \in Workers, Send(w)
  PROVE  IInv'
<1>1. pc[w] = "send" /\ UNCHANGED <<task, msg, on, clients, place, left, fault>>
  BY DEF Send, Sent, rosterVars
<1>2. PICK step \in {"send", "write", After(w)} : pc' = [pc EXCEPT ![w] = step]
  BY DEF Send, Sent
<1> QED
  BY <1>1, <1>2, FrameKeeps
\* async_write.
LEMMA WriteKeeps ==
  ASSUME IInv, fault = None, NEW w \in Workers, Write(w)
  PROVE  IInv'
<1>1. pc[w] = "write" /\ UNCHANGED <<task, msg, on, clients, place, left, fault>>
  BY DEF Write, Sent, rosterVars
<1>2. PICK step \in {"send", "write", After(w)} : pc' = [pc EXCEPT ![w] = step]
  BY DEF Write, Sent
<1> QED
  BY <1>1, <1>2, FrameKeeps
\* A login goes to handoffClient.
LEMMA LoginKeeps ==
  ASSUME IInv, fault = None, NEW w \in Workers, NEW c \in Clients, OnPlayerLogin(w, c)
  PROVE  IInv'
<1>1. /\ pc[w] = "idle" /\ pc' = [pc EXCEPT ![w] = "lock"]
      /\ task' = [task EXCEPT ![w] = "add"] /\ on' = [on EXCEPT ![w] = c]
      /\ place[c] = "lobby" /\ place' = [place EXCEPT ![c] = "handoff"]
      /\ UNCHANGED <<clients, left, fault, msg>>
  BY DEF OnPlayerLogin, Take
<1>2. LoginsOwn'
  BY <1>1 DEF IInv, LoginsOwn
<1> QED
  BY <1>1, <1>2 DEF IInv, HandlersKnow, SlotsOwn, FoundOrLeft, LookupsSuffice,
    Steps, Tasks, Places
\* It takes the lock.
LEMMA AddKeeps ==
  ASSUME IInv, fault = None, NEW w \in Workers, AddClient(w)
  PROVE  IInv'
<1>1. /\ pc[w] = "lock" /\ pc' = [pc EXCEPT ![w] = "send"]
      /\ place' = [place EXCEPT ![on[w]] = "adding"]
      /\ UNCHANGED <<task, on, clients, left, fault, msg>>
  BY DEF AddClient, Goto
<1>2. /\ on[w] \in Clients /\ place[on[w]] = "handoff" /\ task[w] = "add"
      /\ \A v \in Workers \ {w} : task[v] = "add" => on[v] # on[w]
  BY <1>1 DEF IInv, HandlersKnow, LoginsOwn
<1>3. LoginsOwn'
  BY <1>1, <1>2 DEF IInv, LoginsOwn
<1>4. SlotsOwn'
  BY <1>1, <1>2 DEF IInv, SlotsOwn
<1> QED
  BY <1>1, <1>2, <1>3, <1>4 DEF IInv, HandlersKnow, FoundOrLeft, LookupsSuffice,
    Steps, Places
\* Its Client takes the slot of its player.
LEMMA StoreKeeps ==
  ASSUME IInv, fault = None, NEW w \in Workers, Store(w)
  PROVE  IInv'
<1> DEFINE c == on[w]
           old == {clients[Account[c]]} \ {None}
<1>1. c \in Clients /\ Account[c] \in Players
  BY LinkAssumption DEF IInv, HandlersKnow, Store
<1>2. /\ pc[w] = "store" /\ pc' = [pc EXCEPT ![w] = "idle"]
      /\ task' = [task EXCEPT ![w] = "none"]
      /\ msg' = [msg EXCEPT ![w] = None] /\ on' = [on EXCEPT ![w] = None]
      /\ left' = IF old = {} THEN left \ {w} ELSE {v \in Workers \ {w} : pc[v] # "idle"}
      /\ clients' = [clients EXCEPT ![Account[c]] = c]
      /\ place' = [p \in Clients |-> IF p = c THEN "roster"
                    ELSE IF p \in old THEN "destroyed" ELSE place[p]]
      /\ fault' = fault
  BY DEF Store, Done
<1>3. None \notin Clients
  BY SenderAssumption
<1>4. \A v \in Workers \ {w} : task[v] = "add" => on[v] # c
  BY <1>2 DEF IInv, HandlersKnow, LoginsOwn
<1> HIDE DEF c
<1>5. SlotsOwn'
  BY <1>1, <1>2, <1>3 DEF IInv, SlotsOwn
<1>6. FoundOrLeft'
  BY <1>1, <1>2, <1>3 DEF IInv, SlotsOwn, FoundOrLeft, HandlersKnow, Steps
<1>7. LoginsOwn'
  <2>1. \A d \in old : place[d] = "roster"
    BY <1>1 DEF IInv, SlotsOwn
  <2>2. ASSUME NEW v \in Workers, task'[v] = "add"
        PROVE  /\ v # w /\ task[v] = "add" /\ on'[v] = on[v] /\ pc'[v] = pc[v]
               /\ on[v] \in Clients /\ place'[on[v]] = place[on[v]]
    BY <1>2, <1>4, <2>1, <2>2 DEF IInv, LoginsOwn
  <2> QED BY <2>2 DEF IInv, LoginsOwn
<1> QED
  BY <1>1, <1>2, <1>3, <1>5, <1>6, <1>7 DEF IInv, HandlersKnow, LookupsSuffice,
    Steps, Tasks, Places
\* The end of keepAlive.
LEMMA ResetKeeps ==
  ASSUME IInv, fault = None, NEW w \in Workers, Reset(w)
  PROVE  IInv'
<1>1. /\ pc[w] = "reset" /\ pc' = [pc EXCEPT ![w] = "idle"]
      /\ task' = [task EXCEPT ![w] = "none"]
      /\ msg' = [msg EXCEPT ![w] = None] /\ on' = [on EXCEPT ![w] = None]
      /\ left' = left \ {w} /\ UNCHANGED <<clients, place, fault>>
  BY DEF Reset, Done, rosterVars
<1>2. LoginsOwn'
  BY <1>1 DEF IInv, LoginsOwn
<1>3. FoundOrLeft'
  BY <1>1 DEF IInv, FoundOrLeft
<1> QED
  BY <1>1, <1>2, <1>3 DEF IInv, HandlersKnow, SlotsOwn, LookupsSuffice, Steps, Tasks
\* disconnect goes on.
LEMMA ClearKeeps ==
  ASSUME IInv, fault = None, NEW w \in Workers, Clear(w)
  PROVE  IInv'
<1>1. /\ pc[w] = "clear" /\ pc' = [pc EXCEPT ![w] = "erase"]
      /\ UNCHANGED <<task, msg, on, clients, place, left, fault>>
  BY DEF Clear, Goto, rosterVars
<1> QED
  BY <1>1 DEF IInv, HandlersKnow, SlotsOwn, LoginsOwn, FoundOrLeft,
    LookupsSuffice, Steps
\* The end of disconnect.
LEMMA EraseKeeps ==
  ASSUME IInv, fault = None, NEW w \in Workers, Erase(w)
  PROVE  IInv'
<1> DEFINE player == Account[on[w]]
           old == {clients[player]} \ {None}
<1>1. on[w] \in Clients /\ player \in Players
  BY LinkAssumption DEF IInv, HandlersKnow, Erase
<1>2. /\ pc[w] = "erase" /\ pc' = [pc EXCEPT ![w] = "idle"]
      /\ task' = [task EXCEPT ![w] = "none"]
      /\ msg' = [msg EXCEPT ![w] = None] /\ on' = [on EXCEPT ![w] = None]
      /\ left' = IF old = {} THEN left \ {w} ELSE {v \in Workers \ {w} : pc[v] # "idle"}
      /\ clients' = [clients EXCEPT ![player] = None]
      /\ place' = [p \in Clients |-> IF p \in old THEN "destroyed" ELSE place[p]]
      /\ fault' = fault
  BY DEF Erase, Done
<1>3. None \notin Clients
  BY SenderAssumption
<1> HIDE DEF player
<1>4. SlotsOwn'
  BY <1>1, <1>2, <1>3 DEF IInv, SlotsOwn
<1>5. FoundOrLeft'
  BY <1>1, <1>2, <1>3 DEF IInv, SlotsOwn, FoundOrLeft, HandlersKnow, Steps
<1>6. LoginsOwn'
  <2>1. \A d \in old : place[d] = "roster"
    BY <1>1 DEF IInv, SlotsOwn
  <2> QED BY <1>1, <1>2, <2>1 DEF IInv, LoginsOwn
<1> QED
  BY <1>1, <1>2, <1>3, <1>4, <1>5, <1>6 DEF IInv, HandlersKnow, LookupsSuffice,
    Steps, Tasks, Places
\* A datagram is read.
LEMMA ReceiveKeeps ==
  ASSUME IInv, fault = None, NEW w \in Workers, OnDataReceived(w)
  PROVE  IInv'
<1>1. PICK m \in Messages : msg' = [msg EXCEPT ![w] =
        [n |-> Len(received) + 1, id |-> m.id, player |-> m.player]]
  BY DEF OnDataReceived, Receive
<1>2. m.player \in Players
  BY LinkAssumption
<1>3. /\ pc[w] = "idle" /\ pc' = [pc EXCEPT ![w] = "find"]
      /\ task' = [task EXCEPT ![w] = "receive"] /\ on' = [on EXCEPT ![w] = None]
      /\ UNCHANGED <<clients, place, left, fault>>
  BY DEF OnDataReceived, Receive, Take, rosterVars
<1> QED
  BY <1>1, <1>2, <1>3 DEF IInv, HandlersKnow, SlotsOwn, LoginsOwn, FoundOrLeft,
    LookupsSuffice, Steps, Tasks
\* The receive loop ends.
LEMMA FailureKeeps ==
  ASSUME IInv, fault = None, NEW w \in Workers, ReceiveFails(w)
  PROVE  IInv'
  BY DEF IInv, HandlersKnow, SlotsOwn, LoginsOwn, FoundOrLeft, LookupsSuffice,
    ReceiveFails, rosterVars, workerVars
\* A handler of a connection starts, for a Client that is there or not.
LEMMA TakenKeeps ==
  ASSUME IInv, fault = None, NEW w \in Workers, NEW c \in Clients, NEW frames,
         NEW kind \in {"keepAlive"} \cup Handlers,
         NEW step \in {"send", "clear"}, step = "send" => kind = "keepAlive",
         Take(w, kind, step, c, frames), UNCHANGED <<clients, place, msg, fault>>
  PROVE  IInv'
<1>1. /\ pc[w] = "idle" /\ pc' = [pc EXCEPT ![w] = step]
      /\ task' = [task EXCEPT ![w] = kind] /\ on' = [on EXCEPT ![w] = c]
      /\ left' = left
  BY DEF Take
<1> QED
  BY <1>1 DEF IInv, HandlersKnow, SlotsOwn, LoginsOwn, FoundOrLeft,
    LookupsSuffice, Steps, Tasks, Handlers
-----------------------------------------------------------------------------

\* No step of the gateway, and no step of the kernel, breaks the invariant.
LEMMA NextKeeps ==
  ASSUME IInv, [Next]_vars
  PROVE  IInv'
<1>1. CASE UNCHANGED <<pc, place, task, msg, on, left, clients, fault>>
  BY <1>1 DEF IInv, HandlersKnow, SlotsOwn, LoginsOwn, FoundOrLeft, LookupsSuffice
<1>2. ASSUME Next PROVE IInv'
  <2>1. fault = None
    BY <1>2 DEF Next
  <2>2. ASSUME NEW w \in Workers, Step(w) PROVE IInv'
    BY <2>1, <2>2, FindKeeps, CallKeeps, ReturnKeeps, RearmKeeps, AddKeeps, SendKeeps,
      WriteKeeps, StoreKeeps, ResetKeeps, ClearKeeps, EraseKeeps, UseFreedKeeps DEF Step
  <2>3. ASSUME NEW w \in Workers, OnDataReceived(w) \/ ReceiveFails(w) PROVE IInv'
    BY <2>1, <2>3, ReceiveKeeps, FailureKeeps
  <2>4. ASSUME NEW w \in Workers, NEW c \in Clients, OnPlayerLogin(w, c) PROVE IInv'
    BY <2>1, <2>4, LoginKeeps
  <2>5. ASSUME NEW w \in Workers, NEW c \in Clients, KeepAlive(w, c) PROVE IInv'
    BY <2>1, <2>5, TakenKeeps DEF KeepAlive, rosterVars
  <2>6. ASSUME NEW w \in Workers, NEW c \in Clients, NEW h \in Handlers, HandlerFails(w, c, h)
        PROVE  IInv'
    BY <2>1, <2>6, TakenKeeps DEF HandlerFails, rosterVars
  <2>7. ASSUME NEW w \in Workers, NEW c \in Clients, NEW h \in Handlers, HandlerEnds(w, c, h)
        PROVE  IInv'
    BY <1>1, <2>7 DEF HandlerEnds, rosterVars, workerVars
  <2>8. ASSUME NEW c \in Clients, Kernel(c) PROVE IInv'
    BY <1>1, <2>8 DEF Kernel, rosterVars, workerVars
  <2> QED
    BY <1>2, <2>2, <2>3, <2>4, <2>5, <2>6, <2>7, <2>8 DEF Next
<1> QED
  BY <1>1, <1>2 DEF vars, rosterVars, workerVars

(* handleMessage, which looks its player up without the lock, calls a null or
   destroyed Client only if a connection left the roster or was replaced there while
   it ran; handlers of Clients destroyed before, which run on them and disconnect
   others, are among what may happen.  addClient never calls one. *)
THEOREM LookupsAreEnough == Spec => []LookupsSuffice
<1>1. Init => IInv
  BY SenderAssumption DEF Init, IInv, HandlersKnow, SlotsOwn, LoginsOwn, FoundOrLeft,
    LookupsSuffice, Steps, Tasks, Places
<1>2. IInv /\ [Next]_vars => IInv'
  BY NextKeeps
<1>3. IInv => LookupsSuffice
  BY DEF IInv
<1> QED
  BY <1>1, <1>2, <1>3, PTL DEF Spec
-----------------------------------------------------------------------------
(***************************************************************************)
(* The line of a connection: what the kernel took, then the writes that    *)
(* wait, each the start of a frame or the rest of one.  The kernel moves   *)
(* the boundary between the two; only async_write makes the line longer.   *)
(***************************************************************************)
Kinds  == {JoinKinds[k] : k \in DOMAIN JoinKinds} \cup {"KeepAlive", "relayed"}
Frames == [kind : Kinds, n : Nat]
Stamps == Nat \cup {None}
Ops    == [frame : Frames, stamp : Stamps, holder : Workers \cup {None}, begun : BOOLEAN]
Pieces == [frame : Frames, stamp : Stamps, part : {"all", "first", "rest"}, stale : BOOLEAN]
Items  == [frame : Frames, stamp : Stamps, is : {"start", "rest"}]

Item(frame, stamp, is) == [frame |-> frame, stamp |-> stamp, is |-> is]
OfPiece(p) == Item(p.frame, p.stamp, IF p.part = "rest" THEN "rest" ELSE "start")
OfOp(op)   == Item(op.frame, op.stamp, IF op.begun THEN "rest" ELSE "start")

Joined(s, t) ==
  [i \in 1 .. Len(s) + Len(t) |->
     IF i <= Len(s) THEN OfPiece(s[i]) ELSE OfOp(t[i - Len(s)])]
Line(c) == Joined(stream[c], writes[c])

\* Where frames begin in a line; those of addClient and the nodes; keep-alives.
Starts(line) == {i \in 1 .. Len(line) : line[i].is = "start"}
Games(line)  == {i \in Starts(line) : line[i].frame.kind # "KeepAlive"}
Beats(line)  == {i \in Starts(line) : line[i].frame.kind = "KeepAlive"}

\* A line gets longer by an item; two lines hold the same frames.
Longer(line, new, item) ==
  /\ Len(new) = Len(line) + 1
  /\ \A i \in 1 .. Len(line) : new[i] = line[i]
  /\ new[Len(line) + 1] = item
Alike(line, new) ==
  /\ Starts(new) = Starts(line)
  /\ \A i \in Starts(line) : new[i] = line[i]

\* The items of a line.
LEMMA JoinedType ==
  ASSUME NEW s \in Seq(Pieces), NEW t \in Seq(Ops)
  PROVE  /\ Joined(s, t) \in Seq(Items)
         /\ Len(Joined(s, t)) = Len(s) + Len(t)
         /\ \A i \in 1 .. Len(s) : Joined(s, t)[i] = OfPiece(s[i])
         /\ \A i \in 1 .. Len(t) : Joined(s, t)[Len(s) + i] = OfOp(t[i])
<1> DEFINE n == Len(s) + Len(t)
<1>1. n \in Nat
  OBVIOUS
<1>2. \A p \in Pieces : OfPiece(p) \in Items
  BY DEF Pieces, Items, OfPiece, Item
<1>3. \A op \in Ops : OfOp(op) \in Items
  BY DEF Ops, Items, OfOp, Item
<1>4. \A i \in 1 .. n :
        (IF i <= Len(s) THEN OfPiece(s[i]) ELSE OfOp(t[i - Len(s)])) \in Items
  BY <1>2, <1>3
<1>5. Joined(s, t) \in [1 .. n -> Items]
  BY <1>4 DEF Joined
<1>6. Joined(s, t) \in Seq(Items)
  BY <1>1, <1>5
<1>7. Len(Joined(s, t)) = n
  BY <1>1, <1>5
<1> QED
  BY <1>1, <1>6, <1>7 DEF Joined

\* async_write puts a write in line.
LEMMA QueuedLonger ==
  ASSUME NEW s \in Seq(Pieces), NEW t \in Seq(Ops), NEW op \in Ops
  PROVE  Longer(Joined(s, t), Joined(s, Append(t, op)), OfOp(op))
<1> DEFINE u == Append(t, op)
<1>1. u \in Seq(Ops) /\ Len(u) = Len(t) + 1 /\ u[Len(t) + 1] = op
      /\ \A i \in 1 .. Len(t) : u[i] = t[i]
  OBVIOUS
<1> HIDE DEF u
<1>2. \A i \in 1 .. Len(s) + Len(t) : i <= Len(s) \/ i - Len(s) \in 1 .. Len(t)
  OBVIOUS
<1> QED
  BY <1>1, <1>2, JoinedType DEF Longer, u, Joined
\* The kernel takes a write that need not wait.
LEMMA TakenLonger ==
  ASSUME NEW s \in Seq(Pieces), NEW t \in Seq(Ops), t = <<>>, NEW p \in Pieces
  PROVE  Longer(Joined(s, t), Joined(Append(s, p), t), OfPiece(p))
<1> DEFINE u == Append(s, p)
<1>1. u \in Seq(Pieces) /\ Len(u) = Len(s) + 1 /\ u[Len(s) + 1] = p
      /\ \A i \in 1 .. Len(s) : u[i] = s[i]
  OBVIOUS
<1>2. Len(t) = 0 /\ t \in Seq(Ops)
  OBVIOUS
<1> HIDE DEF u
<1>3. /\ Len(Joined(s, t)) = Len(s) + Len(t)
      /\ \A i \in 1 .. Len(s) : Joined(s, t)[i] = OfPiece(s[i])
  BY JoinedType
<1>4. /\ Len(Joined(u, t)) = Len(u) + Len(t)
      /\ \A i \in 1 .. Len(u) : Joined(u, t)[i] = OfPiece(u[i])
  BY <1>1, JoinedType
<1> QED
  BY <1>1, <1>2, <1>3, <1>4 DEF Longer, u
\* The kernel takes a write that waited.
LEMMA MovedSame ==
  ASSUME NEW s \in Seq(Pieces), NEW t \in Seq(Ops), t # <<>>, NEW p \in Pieces,
         OfPiece(p) = OfOp(Head(t))
  PROVE  Joined(Append(s, p), Tail(t)) = Joined(s, t)
<1> DEFINE u == Append(s, p)
           v == Tail(t)
<1>1. u \in Seq(Pieces) /\ Len(u) = Len(s) + 1 /\ u[Len(s) + 1] = p
      /\ \A i \in 1 .. Len(s) : u[i] = s[i]
  OBVIOUS
<1>2. v \in Seq(Ops) /\ Len(v) = Len(t) - 1 /\ Len(t) > 0 /\ Head(t) = t[1]
      /\ \A i \in 1 .. Len(v) : v[i] = t[i + 1]
  OBVIOUS
<1> HIDE DEF u, v
<1>3. \A i \in 1 .. Len(s) + Len(t) :
        (IF i <= Len(u) THEN OfPiece(u[i]) ELSE OfOp(v[i - Len(u)])) =
        (IF i <= Len(s) THEN OfPiece(s[i]) ELSE OfOp(t[i - Len(s)]))
  <2> SUFFICES ASSUME NEW i \in 1 .. Len(s) + Len(t)
               PROVE  (IF i <= Len(u) THEN OfPiece(u[i]) ELSE OfOp(v[i - Len(u)])) =
                      (IF i <= Len(s) THEN OfPiece(s[i]) ELSE OfOp(t[i - Len(s)]))
    OBVIOUS
  <2>1. CASE i <= Len(s)
    BY <2>1, <1>1
  <2>2. CASE i = Len(s) + 1
    BY <2>2, <1>1, <1>2
  <2>3. CASE i > Len(s) + 1
    <3>1. i - Len(u) \in 1 .. Len(v) /\ i - Len(u) + 1 = i - Len(s)
      BY <2>3, <1>1, <1>2
    <3>2. v[i - Len(u)] = t[i - Len(s)]
      BY <3>1, <1>2
    <3> QED
      BY <3>2, <2>3, <1>1
  <2> QED
    BY <2>1, <2>2, <2>3
<1>4. Len(u) + Len(v) = Len(s) + Len(t)
  BY <1>1, <1>2
<1> QED
  BY <1>3, <1>4 DEF Joined, u, v
\* The end of a handler changes who holds the buffers, and nothing else.
LEMMA FreedSame ==
  ASSUME NEW s \in Seq(Pieces), NEW t \in Seq(Ops), NEW u \in Seq(Ops),
         Len(u) = Len(t), \A i \in 1 .. Len(t) : OfOp(u[i]) = OfOp(t[i])
  PROVE  Joined(s, u) = Joined(s, t)
<1>1. \A i \in 1 .. Len(s) + Len(t) : i <= Len(s) \/ i - Len(s) \in 1 .. Len(t)
  OBVIOUS
<1> QED
  BY <1>1 DEF Joined
-----------------------------------------------------------------------------
(* Sets of places, and what a line counts. *)

\* The frames of addClient come first in a line, in their order.
JoinRule(line) ==
  \A i \in Games(line) :
    IF Rank(Games(line), i) <= Len(JoinFrames)
    THEN line[i].frame = JoinFrames[Rank(Games(line), i)]
    ELSE line[i].frame.kind = "relayed"

\* The packets of the nodes are in a line in the order of their arrival.
ArrivalRule(line) ==
  \A i, j \in Starts(line) :
    line[i].frame.kind = "relayed" /\ line[j].frame.kind = "relayed" /\ i < j =>
      line[i].frame.n < line[j].frame.n

\* Places up to n, and one more.
LEMMA Counted ==
  ASSUME NEW n \in Nat, NEW S \in SUBSET (1 .. n)
  PROVE  IsFiniteSet(S) /\ Cardinality(S) \in Nat
<1>1. IsFiniteSet(1 .. n)
  BY FS_Interval
<1> QED
  BY <1>1, FS_Subset, FS_CardinalityType
\* What one more place counts, and the ranks it leaves.
LEMMA OneMore ==
  ASSUME NEW n \in Nat, NEW S \in SUBSET (1 .. n)
  PROVE  /\ Cardinality(S \cup {n + 1}) = Cardinality(S) + 1
         /\ Rank(S \cup {n + 1}, n + 1) = Cardinality(S) + 1
         /\ \A i \in S : Rank(S \cup {n + 1}, i) = Rank(S, i)
         /\ \A i \in S : Rank(S, i) \in Nat /\ Rank(S, i) <= Cardinality(S)
<1>0. \A j \in S : j \in Nat /\ j <= n
  OBVIOUS
<1>1. IsFiniteSet(S) /\ Cardinality(S) \in Nat
  BY Counted
<1>n. n + 1 \notin S
  BY <1>0
<1>2. Cardinality(S \cup {n + 1}) = Cardinality(S) + 1
  BY <1>1, <1>n, FS_AddElement
<1>3. {j \in S \cup {n + 1} : j <= n + 1} = S \cup {n + 1}
  <2>1. \A j \in S \cup {n + 1} : j <= n + 1
    BY <1>0
  <2> QED
    BY <2>1
<1>4. ASSUME NEW i \in S
      PROVE  /\ Rank(S \cup {n + 1}, i) = Rank(S, i)
             /\ Rank(S, i) \in Nat /\ Rank(S, i) <= Cardinality(S)
  <2>1. {j \in S \cup {n + 1} : j <= i} = {j \in S : j <= i}
    BY <1>0
  <2>2. {j \in S : j <= i} \in SUBSET S
    OBVIOUS
  <2>3. IsFiniteSet({j \in S : j <= i}) /\ Cardinality({j \in S : j <= i}) <= Cardinality(S)
    BY <1>1, <2>2, FS_Subset
  <2> QED
    BY <2>1, <2>3, FS_CardinalityType DEF Rank
<1> QED
  BY <1>2, <1>3, <1>4 DEF Rank

\* What a line holds, frames apart from keep-alives.
LEMMA LineCounts ==
  ASSUME NEW line \in Seq(Items)
  PROVE  /\ Starts(line) \in SUBSET (1 .. Len(line)) /\ IsFiniteSet(Starts(line))
         /\ Games(line) \in SUBSET (1 .. Len(line)) /\ Beats(line) \in SUBSET (1 .. Len(line))
         /\ Cardinality(Starts(line)) \in Nat
         /\ Cardinality(Games(line)) \in Nat /\ Cardinality(Beats(line)) \in Nat
         /\ Cardinality(Starts(line)) = Cardinality(Games(line)) + Cardinality(Beats(line))
<1>1. /\ Starts(line) \in SUBSET (1 .. Len(line))
      /\ Games(line) \in SUBSET (1 .. Len(line)) /\ Beats(line) \in SUBSET (1 .. Len(line))
  BY DEF Starts, Games, Beats
<1>2. Len(line) \in Nat
  OBVIOUS
<1>3. /\ IsFiniteSet(Starts(line)) /\ Cardinality(Starts(line)) \in Nat
      /\ IsFiniteSet(Games(line)) /\ Cardinality(Games(line)) \in Nat
      /\ IsFiniteSet(Beats(line)) /\ Cardinality(Beats(line)) \in Nat
  BY <1>1, <1>2, Counted
<1>4. /\ Games(line) \cup Beats(line) = Starts(line)
      /\ Games(line) \cap Beats(line) = {}
  BY DEF Games, Beats
<1>5. Cardinality({}) = 0
  BY FS_EmptySet
<1>6. Cardinality(Games(line) \cup Beats(line)) = Cardinality(Games(line)) +
        Cardinality(Beats(line)) - Cardinality(Games(line) \cap Beats(line))
  BY <1>3, FS_Union
<1>7. Cardinality(Starts(line)) =
        Cardinality(Games(line)) + Cardinality(Beats(line)) - 0
  BY <1>4, <1>5, <1>6, Zenon
<1> QED
  BY <1>1, <1>3, <1>7

\* Where a frame begins.
LEMMA StartTyped ==
  ASSUME NEW line \in Seq(Items), NEW i \in Starts(line)
  PROVE  /\ line[i] \in Items /\ line[i].is = "start"
         /\ line[i].frame \in Frames /\ line[i].frame.n \in Nat
<1>1. line[i] \in Items /\ line[i].is = "start"
  BY DEF Starts
<1> QED
  BY <1>1 DEF Items, Frames

\* The rest of a frame counts for nothing.
LEMMA RestAlike ==
  ASSUME NEW line \in Seq(Items), NEW new \in Seq(Items), NEW item \in Items,
         Longer(line, new, item), item.is = "rest"
  PROVE  Alike(line, new)
  BY DEF Longer, Alike, Starts
\* The places of a frame that begins.
LEMMA StartPlaces ==
  ASSUME NEW line \in Seq(Items), NEW new \in Seq(Items), NEW item \in Items,
         Longer(line, new, item), item.is = "start"
  PROVE  /\ Starts(new) = Starts(line) \cup {Len(line) + 1}
         /\ item.frame.kind = "KeepAlive" => Games(new) = Games(line)
              /\ Beats(new) = Beats(line) \cup {Len(line) + 1}
         /\ item.frame.kind # "KeepAlive" => Beats(new) = Beats(line)
              /\ Games(new) = Games(line) \cup {Len(line) + 1}
<1>1. Starts(new) = Starts(line) \cup {Len(line) + 1}
  BY DEF Longer, Starts
<1>2. \A i \in Starts(line) : new[i] = line[i]
  BY DEF Longer, Starts
<1>3. new[Len(line) + 1] = item
  BY DEF Longer
<1> QED
  BY <1>1, <1>2, <1>3 DEF Games, Beats
\* Its counts.
LEMMA StartCounts ==
  ASSUME NEW line \in Seq(Items), NEW new \in Seq(Items), NEW item \in Items,
         Longer(line, new, item), item.is = "start"
  PROVE  /\ Cardinality(Starts(new)) = Cardinality(Starts(line)) + 1
         /\ item.frame.kind = "KeepAlive" =>
              /\ Cardinality(Games(new)) = Cardinality(Games(line))
              /\ Cardinality(Beats(new)) = Cardinality(Beats(line)) + 1
         /\ item.frame.kind # "KeepAlive" =>
              /\ Cardinality(Games(new)) = Cardinality(Games(line)) + 1
              /\ Cardinality(Beats(new)) = Cardinality(Beats(line))
<1>1. /\ Len(line) \in Nat /\ Starts(line) \in SUBSET (1 .. Len(line))
      /\ Games(line) \in SUBSET (1 .. Len(line)) /\ Beats(line) \in SUBSET (1 .. Len(line))
  BY LineCounts
<1>2. ASSUME NEW S \in SUBSET (1 .. Len(line))
      PROVE  Cardinality(S \cup {Len(line) + 1}) = Cardinality(S) + 1
  BY <1>1, OneMore
<1> QED
  BY <1>1, <1>2, StartPlaces
\* Lines that hold the same frames count the same.
LEMMA AlikeCounts ==
  ASSUME NEW line, NEW new, Alike(line, new)
  PROVE  Games(new) = Games(line) /\ Beats(new) = Beats(line) /\ Starts(new) = Starts(line)
  BY DEF Alike, Games, Beats
\* They keep the same rules.
LEMMA AlikeRules ==
  ASSUME NEW line, NEW new, Alike(line, new)
  PROVE  /\ JoinRule(line) => JoinRule(new)
         /\ ArrivalRule(line) => ArrivalRule(new)
<1>1. \A i \in Games(line) : new[i] = line[i]
  BY DEF Alike, Games
<1> QED
  BY <1>1, AlikeCounts DEF Alike, JoinRule, ArrivalRule

\* A frame that addClient or a node may send next keeps the order of joining.
LEMMA JoinGrows ==
  ASSUME NEW line \in Seq(Items), NEW new \in Seq(Items), NEW item \in Items,
         Longer(line, new, item), item.is = "start", JoinRule(line),
         item.frame.kind # "KeepAlive" =>
           IF Cardinality(Games(line)) + 1 <= Len(JoinFrames)
           THEN item.frame = JoinFrames[Cardinality(Games(line)) + 1]
           ELSE item.frame.kind = "relayed"
  PROVE  JoinRule(new)
<1>1. Len(line) \in Nat /\ Games(line) \in SUBSET (1 .. Len(line))
  BY LineCounts
<1>2. /\ \A i \in Games(line) : new[i] = line[i]
      /\ new[Len(line) + 1] = item
  BY <1>1 DEF Longer
<1>3. CASE item.frame.kind = "KeepAlive"
  BY <1>2, <1>3, StartPlaces DEF JoinRule
<1>4. CASE item.frame.kind # "KeepAlive"
  <2> DEFINE S == Games(line)
             T == Games(new)
  <2>1. /\ T = S \cup {Len(line) + 1}
        /\ Rank(T, Len(line) + 1) = Cardinality(S) + 1
        /\ \A i \in S : Rank(T, i) = Rank(S, i)
    <3>1. T = S \cup {Len(line) + 1}
      BY <1>4, StartPlaces
    <3> HIDE DEF S, T
    <3> QED
      BY <1>1, <3>1, OneMore DEF S
  <2>2. \A i \in S : IF Rank(S, i) <= Len(JoinFrames)
                     THEN line[i].frame = JoinFrames[Rank(S, i)]
                     ELSE line[i].frame.kind = "relayed"
    BY DEF JoinRule
  <2>3. IF Cardinality(S) + 1 <= Len(JoinFrames)
        THEN item.frame = JoinFrames[Cardinality(S) + 1]
        ELSE item.frame.kind = "relayed"
    BY <1>4
  <2> HIDE DEF S
  <2>4. \A i \in T : IF Rank(T, i) <= Len(JoinFrames)
                     THEN new[i].frame = JoinFrames[Rank(T, i)]
                     ELSE new[i].frame.kind = "relayed"
    <3> HIDE DEF T
    <3>1. \A i \in S : new[i] = line[i]
      BY <1>2 DEF S
    <3> QED
      BY <1>2, <2>1, <2>2, <2>3, <3>1
  <2> QED
    BY <2>4 DEF JoinRule
<1> QED
  BY <1>3, <1>4
\* A packet of a node that is the latest keeps the order of arrival.
LEMMA ArrivalGrows ==
  ASSUME NEW line \in Seq(Items), NEW new \in Seq(Items), NEW item \in Items,
         Longer(line, new, item), item.is = "start", ArrivalRule(line),
         item.frame.kind = "relayed" =>
           \A i \in Starts(line) : line[i].frame.kind = "relayed" =>
             line[i].frame.n < item.frame.n
  PROVE  ArrivalRule(new)
<1>1. Len(line) \in Nat /\ Starts(line) \in SUBSET (1 .. Len(line))
  BY LineCounts
<1>2. /\ \A i \in Starts(line) : new[i] = line[i]
      /\ new[Len(line) + 1] = item
  BY <1>1 DEF Longer
<1>3. Starts(new) = Starts(line) \cup {Len(line) + 1}
  BY StartPlaces
<1>4. \A i \in Starts(line) : ~(Len(line) + 1 < i)
  BY <1>1
<1>5. ASSUME NEW i \in Starts(new), NEW j \in Starts(new), i < j,
             new[i].frame.kind = "relayed", new[j].frame.kind = "relayed"
      PROVE  new[i].frame.n < new[j].frame.n
  <2>1. i \in Starts(line)
    BY <1>1, <1>3, <1>4, <1>5
  <2>2. CASE j \in Starts(line)
    BY <1>2, <1>5, <2>1, <2>2 DEF ArrivalRule
  <2>3. CASE j = Len(line) + 1
    BY <1>2, <1>5, <2>1, <2>3
  <2> QED
    BY <1>3, <2>2, <2>3
<1> QED
  BY <1>5 DEF ArrivalRule
\* Nothing is wrong with a line in which no frame begins.
LEMMA EmptyRules ==
  ASSUME NEW line, Starts(line) = {}
  PROVE  /\ JoinRule(line) /\ ArrivalRule(line)
         /\ Games(line) = {} /\ Beats(line) = {}
         /\ Cardinality(Starts(line)) = 0
         /\ Cardinality(Games(line)) = 0 /\ Cardinality(Beats(line)) = 0
  BY FS_EmptySet DEF JoinRule, ArrivalRule, Games, Beats
-----------------------------------------------------------------------------
(* The write path: what asio and the kernel do with the lines. *)

SenderTypes ==
  /\ alive \in [Clients -> BOOLEAN] /\ crossed \in [Clients -> BOOLEAN]
  /\ cipher \in [Clients -> Nat] /\ stalls \in [Clients -> Nat]
  /\ writes \in [Clients -> Seq(Ops)] /\ partial \in [Clients -> Seq(Ops)]
  /\ stream \in [Clients -> Seq(Pieces)]
  /\ \A c \in Clients : \A i \in 1 .. Len(partial[c]) : partial[c][i].begun

\* As long as the kernel takes every write at once, none waits and none is cut.
Whole ==
  \A c \in Clients : stalls[c] = 0 =>
    /\ writes[c] = <<>> /\ partial[c] = <<>>
    /\ \A i \in 1 .. Len(stream[c]) : stream[c][i].part = "all" /\ ~stream[c][i].stale

\* What waits, of a frame or of its rest, began in the line.
Room ==
  \A c \in Clients :
    Len(writes[c]) + Len(partial[c]) <= Cardinality(Starts(Line(c)))

\* A line is a sequence of items.
LEMMA LinesTyped ==
  ASSUME SenderTypes, NEW c \in Clients
  PROVE  Line(c) \in Seq(Items)
  BY JoinedType DEF SenderTypes, Line
\* A piece is what the kernel takes of a write: the same item.
LEMMA PieceTyped ==
  ASSUME NEW op \in Ops, NEW part \in {"all", "first", "rest"}
  PROVE  /\ Piece(op, part) \in Pieces
         /\ (part = "rest") = op.begun => OfPiece(Piece(op, part)) = OfOp(op)
  BY DEF Ops, Pieces, Piece, OfPiece, OfOp, Item
\* A write that outlives its buffer is the same item.
LEMMA OutlivesTyped ==
  ASSUME NEW c \in Clients, NEW op \in Ops
  PROVE  /\ Outlives(c, op) \in Ops /\ Outlives(c, op).begun = op.begun
         /\ OfOp(Outlives(c, op)) = OfOp(op)
         /\ [Outlives(c, op) EXCEPT !.begun = TRUE] \in Ops
         /\ [Outlives(c, op) EXCEPT !.begun = TRUE].begun
  BY DEF Ops, Outlives, OfOp, Item

\* async_write_some makes one line longer by the write it is given.
SomeDone(c, op, rest) ==
  /\ writes' \in [Clients -> Seq(Ops)] /\ partial' \in [Clients -> Seq(Ops)]
  /\ stream' \in [Clients -> Seq(Pieces)] /\ stalls' \in [Clients -> Nat]
  /\ \A b \in Clients \ {c} :
       /\ writes'[b] = writes[b] /\ partial'[b] = partial[b]
       /\ stream'[b] = stream[b] /\ stalls'[b] = stalls[b]
  /\ \A i \in 1 .. Len(partial'[c]) : partial'[c][i].begun
  /\ Longer(Line(c), Line(c)', OfOp(op))
  /\ Len(writes'[c]) + Len(partial'[c]) <= Len(writes[c]) + Len(rest) + 1
  /\ stalls'[c] = 0 => stalls[c] = 0
  /\ stalls'[c] = 0 /\ writes[c] = <<>> =>
       /\ writes'[c] = <<>> /\ partial'[c] = rest
       /\ stream'[c] = Append(stream[c], Piece(op, IF op.begun THEN "rest" ELSE "all"))

\* Sent at once, in part, or queued: the line is longer by the write.
LEMMA SomeSent ==
  ASSUME SenderTypes, NEW c \in Clients, NEW op \in Ops, NEW rest \in Seq(Ops),
         \A i \in 1 .. Len(rest) : rest[i].begun, SendSome(c, op, rest)
  PROVE  SomeDone(c, op, rest)
<1> DEFINE s == stream[c]
           t == writes[c]
<1>1. s \in Seq(Pieces) /\ t \in Seq(Ops) /\ stalls[c] \in Nat
  BY DEF SenderTypes
<1>2. CASE writes[c] = <<>> /\ TakenWhole(c, op, rest) /\ UNCHANGED writes
  <2> DEFINE p == Piece(op, IF op.begun THEN "rest" ELSE "all")
  <2>1. p \in Pieces /\ OfPiece(p) = OfOp(op)
    <3>1. CASE op.begun
      BY <3>1, PieceTyped
    <3>2. CASE ~op.begun
      BY <3>2, PieceTyped DEF Ops
    <3> QED
      BY <3>1, <3>2
  <2>2. /\ stream' = [stream EXCEPT ![c] = Append(s, p)]
        /\ partial' = [partial EXCEPT ![c] = rest]
        /\ UNCHANGED <<stalls, writes>>
    BY <1>2 DEF TakenWhole
  <2> HIDE DEF p
  <2>3. stream'[c] = Append(s, p) /\ writes'[c] = t
    BY <2>2 DEF SenderTypes
  <2>4. Longer(Line(c), Line(c)', OfOp(op))
    BY <1>1, <1>2, <2>1, <2>3, TakenLonger DEF Line
  <2>5. Append(s, p) \in Seq(Pieces)
    BY <1>1, <2>1
  <2>6. Len(rest) \in Nat /\ Len(t) \in Nat
    BY <1>1
  <2> QED
    BY <1>1, <1>2, <2>2, <2>3, <2>4, <2>5, <2>6 DEF SenderTypes, SomeDone, p
<1>3. CASE writes[c] = <<>> /\ TakenInPart(c, op, rest) /\ UNCHANGED writes
  <2> DEFINE p == Piece(op, "first")
             o == [Outlives(c, op) EXCEPT !.begun = TRUE]
             q == Append(rest, o)
  <2>0. ~op.begun
    BY <1>3 DEF TakenInPart
  <2>1. p \in Pieces /\ OfPiece(p) = OfOp(op) /\ o \in Ops /\ o.begun
    BY <2>0, PieceTyped, OutlivesTyped DEF Ops
  <2>2. /\ stream' = [stream EXCEPT ![c] = Append(s, p)]
        /\ partial' = [partial EXCEPT ![c] = q]
        /\ stalls' = [stalls EXCEPT ![c] = stalls[c] + 1]
        /\ UNCHANGED writes
    BY <1>3 DEF TakenInPart, Stalled
  <2>6. /\ q \in Seq(Ops) /\ Len(q) = Len(rest) + 1
        /\ \A i \in 1 .. Len(q) : q[i].begun
    <3> HIDE DEF o
    <3>1. \A i \in 1 .. Len(q) : q[i] = IF i <= Len(rest) THEN rest[i] ELSE o
      BY <2>1
    <3> QED
      BY <2>1, <3>1
  <2> HIDE DEF p, q
  <2>3. stream'[c] = Append(s, p) /\ writes'[c] = t /\ stalls'[c] # 0
    BY <1>1, <2>2 DEF SenderTypes
  <2>4. Longer(Line(c), Line(c)', OfOp(op))
    BY <1>1, <1>3, <2>1, <2>3, TakenLonger DEF Line
  <2>5. Append(s, p) \in Seq(Pieces)
    BY <1>1, <2>1
  <2>7. Len(rest) \in Nat /\ Len(t) \in Nat
    BY <1>1
  <2> QED
    BY <1>1, <2>2, <2>3, <2>4, <2>5, <2>6, <2>7 DEF SenderTypes, SomeDone
<1>4. ASSUME Waits(c, op, rest),
             (writes[c] = <<>> /\ Stalled(c)) \/ (writes[c] # <<>> /\ UNCHANGED stalls)
      PROVE  SomeDone(c, op, rest)
  <2> DEFINE o == Outlives(c, op)
             u == Append(t, o)
  <2>1. o \in Ops /\ OfOp(o) = OfOp(op)
    BY OutlivesTyped
  <2>2. /\ writes' = [writes EXCEPT ![c] = u]
        /\ partial' = [partial EXCEPT ![c] = rest]
        /\ UNCHANGED stream
    BY <1>4 DEF Waits
  <2> HIDE DEF o
  <2>3. u \in Seq(Ops) /\ Len(u) = Len(t) + 1
    BY <1>1, <2>1
  <2>4. Longer(Joined(s, t), Joined(s, u), OfOp(o))
    BY <1>1, <2>1, QueuedLonger
  <2> HIDE DEF u
  <2>5. stream'[c] = s /\ writes'[c] = u /\ partial'[c] = rest
    BY <2>2 DEF SenderTypes
  <2>6. Longer(Line(c), Line(c)', OfOp(op))
    BY <2>1, <2>4, <2>5 DEF Line
  <2>7. /\ stalls' \in [Clients -> Nat]
        /\ \A b \in Clients \ {c} : stalls'[b] = stalls[b]
        /\ stalls'[c] = 0 => stalls[c] = 0
        /\ ~(stalls'[c] = 0 /\ writes[c] = <<>>)
    BY <1>4 DEF SenderTypes, Stalled
  <2>8. Len(rest) \in Nat /\ Len(t) \in Nat
    BY <1>1
  <2>9. /\ writes' \in [Clients -> Seq(Ops)] /\ partial' \in [Clients -> Seq(Ops)]
        /\ stream' \in [Clients -> Seq(Pieces)]
        /\ \A b \in Clients \ {c} :
             /\ writes'[b] = writes[b] /\ partial'[b] = partial[b]
             /\ stream'[b] = stream[b]
    BY <2>2, <2>3 DEF SenderTypes
  <2>10. Len(writes'[c]) + Len(partial'[c]) <= Len(writes[c]) + Len(rest) + 1
    BY <2>3, <2>5, <2>8
  <2>11. \A i \in 1 .. Len(partial'[c]) : partial'[c][i].begun
    BY <2>5
  <2> QED
    BY <2>6, <2>7, <2>9, <2>10, <2>11 DEF SomeDone
<1> QED
  <2>1. CASE writes[c] = <<>> /\ Stalled(c) /\ Waits(c, op, rest)
    BY <2>1, <1>4
  <2>2. CASE writes[c] # <<>> /\ Waits(c, op, rest) /\ UNCHANGED stalls
    BY <2>2, <1>4
  <2> QED
    BY <1>2, <1>3, <2>1, <2>2 DEF SendSome
\* Nothing was sent on a connection, and nothing waits.
Idle(c) == stream[c] = <<>> /\ writes[c] = <<>> /\ partial[c] = <<>>

\* What the kernel does on its own leaves the frames of every line.
LEMMA IdleLine ==
  ASSUME SenderTypes, NEW c \in Clients, Idle(c)
  PROVE  Starts(Line(c)) = {}
<1>1. /\ stream[c] \in Seq(Pieces) /\ writes[c] \in Seq(Ops)
      /\ Len(stream[c]) = 0 /\ Len(writes[c]) = 0
  BY DEF SenderTypes, Idle
<1>2. Len(Line(c)) = 0
  BY <1>1, JoinedType DEF Line
<1> QED
  BY <1>2 DEF Starts
\* A line holds the frames that it holds.
LEMMA SameAlike ==
  ASSUME NEW line, NEW new, new = line
  PROVE  Alike(line, new)
  BY DEF Alike

\* The reactor performs the write at the head of those that wait.
LEMMA WritableLines ==
  ASSUME SenderTypes, Whole, Room, NEW c \in Clients, Writable(c)
  PROVE  /\ SenderTypes' /\ Whole' /\ Room'
         /\ \A b \in Clients : Alike(Line(b), Line(b)') /\ (Idle(b) => Idle(b)')
<1> DEFINE s == stream[c]
           t == writes[c]
           op == Head(t)
<1>1. s \in Seq(Pieces) /\ t \in Seq(Ops) /\ t # <<>> /\ partial[c] \in Seq(Ops)
      /\ \A i \in 1 .. Len(partial[c]) : partial[c][i].begun
  BY DEF SenderTypes, Writable
<1>2. op \in Ops /\ Tail(t) \in Seq(Ops) /\ Len(Tail(t)) = Len(t) - 1 /\ Len(t) > 0
  BY <1>1
<1>3. stalls[c] \in Nat /\ stalls[c] # 0
  BY <1>1 DEF SenderTypes, Whole
<1>4. PICK p \in Pieces, q \in Seq(Ops) :
        /\ OfPiece(p) = OfOp(op) /\ Len(q) <= Len(partial[c]) + 1
        /\ \A i \in 1 .. Len(q) : q[i].begun
        /\ stream' = [stream EXCEPT ![c] = Append(s, p)]
        /\ partial' = [partial EXCEPT ![c] = q]
        /\ stalls' \in [Clients -> Nat] /\ stalls'[c] # 0
        /\ \A b \in Clients \ {c} : stalls'[b] = stalls[b]
  <2>1. CASE TakenWhole(c, op, partial[c])
    <3> DEFINE p == Piece(op, IF op.begun THEN "rest" ELSE "all")
    <3>1. p \in Pieces /\ OfPiece(p) = OfOp(op)
      <4>1. CASE op.begun
        BY <1>2, <4>1, PieceTyped
      <4>2. CASE ~op.begun
        BY <1>2, <4>2, PieceTyped DEF Ops
      <4> QED
        BY <4>1, <4>2
    <3>2. /\ stream' = [stream EXCEPT ![c] = Append(s, p)]
          /\ partial' = [partial EXCEPT ![c] = partial[c]]
          /\ UNCHANGED stalls
      BY <2>1 DEF TakenWhole
    <3> HIDE DEF p, op, s
    <3>3. Len(partial[c]) <= Len(partial[c]) + 1
      BY <1>1
    <3> QED
      BY <1>1, <1>3, <3>1, <3>2, <3>3 DEF SenderTypes
  <2>2. CASE TakenInPart(c, op, partial[c])
    <3> DEFINE p == Piece(op, "first")
               o == [Outlives(c, op) EXCEPT !.begun = TRUE]
               q == Append(partial[c], o)
    <3>0. ~op.begun
      BY <2>2 DEF TakenInPart
    <3>1. p \in Pieces /\ OfPiece(p) = OfOp(op) /\ o \in Ops /\ o.begun
      BY <1>2, <3>0, PieceTyped, OutlivesTyped DEF Ops
    <3>2. /\ stream' = [stream EXCEPT ![c] = Append(s, p)]
          /\ partial' = [partial EXCEPT ![c] = q]
          /\ stalls' = [stalls EXCEPT ![c] = stalls[c] + 1]
      BY <2>2 DEF TakenInPart, Stalled
    <3>3. /\ q \in Seq(Ops) /\ Len(q) = Len(partial[c]) + 1
          /\ \A i \in 1 .. Len(q) : q[i].begun
      <4> HIDE DEF o
      <4>1. \A i \in 1 .. Len(q) : q[i] = IF i <= Len(partial[c]) THEN partial[c][i] ELSE o
        BY <1>1, <3>1
      <4> QED
        BY <1>1, <3>1, <4>1
    <3> HIDE DEF p, q, op, s
    <3>4. Len(q) <= Len(partial[c]) + 1
      BY <1>1, <3>3
    <3>5. /\ stalls' \in [Clients -> Nat] /\ stalls'[c] # 0
          /\ \A b \in Clients \ {c} : stalls'[b] = stalls[b]
      BY <1>3, <3>2 DEF SenderTypes
    <3> QED
      BY <3>1, <3>2, <3>3, <3>4, <3>5
  <2> QED
    BY <2>1, <2>2 DEF Writable
<1>5. writes' = [writes EXCEPT ![c] = Tail(t)] /\ UNCHANGED <<alive, cipher, crossed>>
  BY DEF Writable
<1>6. stream'[c] = Append(s, p) /\ writes'[c] = Tail(t) /\ partial'[c] = q
  BY <1>4, <1>5 DEF SenderTypes
<1>7. Line(c)' = Line(c)
  BY <1>1, <1>4, <1>6, MovedSame DEF Line
<1>8. \A b \in Clients \ {c} : /\ stream'[b] = stream[b] /\ writes'[b] = writes[b]
                               /\ partial'[b] = partial[b]
  BY <1>4, <1>5 DEF SenderTypes
<1>9. \A b \in Clients : Line(b)' = Line(b)
  BY <1>7, <1>8 DEF Line
<1>10. SenderTypes'
  <2>1. Append(s, p) \in Seq(Pieces)
    BY <1>1, <1>4
  <2> HIDE DEF s, t
  <2> QED
    BY <1>2, <1>4, <1>5, <1>6, <1>8, <2>1 DEF SenderTypes
<1>11. Whole'
  BY <1>4, <1>8 DEF Whole
<1>12. Room'
  <2>1. Len(writes'[c]) + Len(partial'[c]) <= Len(writes[c]) + Len(partial[c])
    <3>1. Len(writes'[c]) = Len(writes[c]) - 1 /\ Len(partial'[c]) <= Len(partial[c]) + 1
      BY <1>2, <1>4, <1>6
    <3>2. /\ Len(writes[c]) \in Nat /\ Len(partial[c]) \in Nat
          /\ Len(writes'[c]) \in Nat /\ Len(partial'[c]) \in Nat
      BY <1>1, <1>2, <1>4, <1>6
    <3>3. \A i, j, k, l \in Nat : k = i - 1 /\ l <= j + 1 => k + l <= i + j
      OBVIOUS
    <3> QED
      BY <3>1, <3>2, <3>3, Zenon
  <2>2. ASSUME NEW b \in Clients
        PROVE  Len(writes'[b]) + Len(partial'[b]) <= Cardinality(Starts(Line(b)))
    <3>1. Len(writes[b]) + Len(partial[b]) <= Cardinality(Starts(Line(b)))
          /\ Cardinality(Starts(Line(b))) \in Nat
      BY LinesTyped, LineCounts DEF Room
    <3>2. CASE b = c
      <4>1. Len(writes[c]) \in Nat /\ Len(partial[c]) \in Nat
        BY <1>1
      <4>2. Len(writes'[c]) \in Nat /\ Len(partial'[c]) \in Nat
        BY <1>2, <1>4, <1>6
      <4>3. Len(writes[c]) + Len(partial[c]) <= Cardinality(Starts(Line(b)))
        BY <3>1, <3>2, Zenon
      <4>4. Len(writes'[c]) + Len(partial'[c]) <= Cardinality(Starts(Line(b)))
        <5>1. \A i, j, k, l, m \in Nat : k + l <= i + j /\ i + j <= m => k + l <= m
          OBVIOUS
        <5> QED
          BY <2>1, <3>1, <4>1, <4>2, <4>3, <5>1, Zenon
      <4> QED
        BY <3>2, <4>4, Zenon
    <3>3. CASE b # c
      BY <3>1, <3>3, <1>8
    <3> QED
      BY <3>2, <3>3
  <2> QED
    BY <2>2, <1>9 DEF Room
<1>13. \A b \in Clients : Idle(b) => Idle(b)'
  BY <1>1, <1>8 DEF Idle
<1> QED
  BY <1>9, <1>10, <1>11, <1>12, <1>13, SameAlike
\* The handler of a write taken in part.
LEMMA ResumeLines ==
  ASSUME SenderTypes, Whole, Room, NEW c \in Clients, Resume(c)
  PROVE  /\ SenderTypes' /\ Whole' /\ Room'
         /\ \A b \in Clients : Alike(Line(b), Line(b)') /\ (Idle(b) => Idle(b)')
<1> DEFINE op == Head(partial[c])
           rest == Tail(partial[c])
<1>1. /\ partial[c] \in Seq(Ops) /\ partial[c] # <<>>
      /\ \A i \in 1 .. Len(partial[c]) : partial[c][i].begun
  BY DEF SenderTypes, Resume
<1>2. /\ op \in Ops /\ op = partial[c][1] /\ rest \in Seq(Ops)
      /\ Len(rest) = Len(partial[c]) - 1 /\ Len(partial[c]) > 0
      /\ \A i \in 1 .. Len(rest) : rest[i] = partial[c][i + 1]
  BY <1>1
<1>3. op.begun /\ \A i \in 1 .. Len(rest) : rest[i].begun
  <2>1. \A i \in 1 .. Len(rest) : i + 1 \in 1 .. Len(partial[c])
    BY <1>1, <1>2
  <2> HIDE DEF rest
  <2> QED
    BY <1>1, <1>2, <2>1
<1>4. SendSome(c, op, rest) /\ UNCHANGED <<alive, cipher, crossed>>
  BY DEF Resume
<1> HIDE DEF op, rest
<1>5. SomeDone(c, op, rest)
  BY <1>2, <1>3, <1>4, SomeSent
<1>p. /\ writes' \in [Clients -> Seq(Ops)] /\ partial' \in [Clients -> Seq(Ops)]
      /\ stalls' \in [Clients -> Nat]
      /\ \A b \in Clients \ {c} :
           /\ writes'[b] = writes[b] /\ partial'[b] = partial[b]
           /\ stream'[b] = stream[b] /\ stalls'[b] = stalls[b]
      /\ stalls'[c] = 0 => stalls[c] = 0
  BY <1>5 DEF SomeDone
<1>6. OfOp(op) \in Items /\ OfOp(op).is = "rest"
  BY <1>2, <1>3 DEF Ops, Items, OfOp, Item
<1>7. SenderTypes'
  BY <1>4, <1>5 DEF SenderTypes, SomeDone
<1>8. \A b \in Clients : Line(b) \in Seq(Items) /\ Line(b)' \in Seq(Items)
  <2> TAKE b \in Clients
  <2>1. Line(b) \in Seq(Items)
    BY LinesTyped
  <2>2. /\ stream'[b] \in Seq(Pieces) /\ writes'[b] \in Seq(Ops)
    BY <1>5 DEF SomeDone
  <2> QED
    BY <2>1, <2>2, JoinedType DEF Line
<1>9. \A b \in Clients : Alike(Line(b), Line(b)')
  <2>1. Alike(Line(c), Line(c)')
    <3>1. Longer(Line(c), Line(c)', OfOp(op))
      BY <1>5 DEF SomeDone
    <3> QED
      BY <1>6, <1>8, <3>1, RestAlike
  <2>2. ASSUME NEW b \in Clients, b # c PROVE Line(b)' = Line(b)
    BY <1>5, <2>2 DEF SomeDone, Line
  <2> QED
    BY <2>1, <2>2, SameAlike
<1>10. stalls[c] \in Nat /\ stalls[c] # 0
  BY <1>1 DEF SenderTypes, Whole
<1>11. Whole'
  <2> SUFFICES ASSUME NEW b \in Clients, stalls'[b] = 0
               PROVE  /\ writes'[b] = <<>> /\ partial'[b] = <<>>
                      /\ \A i \in 1 .. Len(stream'[b]) :
                           stream'[b][i].part = "all" /\ ~stream'[b][i].stale
    BY DEF Whole
  <2> QED
    BY <1>10, <1>p DEF Whole
<1>12. Room'
  <2> SUFFICES ASSUME NEW b \in Clients
               PROVE  Len(writes'[b]) + Len(partial'[b]) <= Cardinality(Starts(Line(b)'))
    BY DEF Room
  <2>1. /\ Cardinality(Starts(Line(b)')) = Cardinality(Starts(Line(b)))
        /\ Cardinality(Starts(Line(b))) \in Nat
        /\ Len(writes[b]) + Len(partial[b]) <= Cardinality(Starts(Line(b)))
    BY <1>8, <1>9, LineCounts, AlikeCounts DEF Room
  <2>2. CASE b = c
    <3>0. /\ writes[c] \in Seq(Ops) /\ partial[c] \in Seq(Ops) /\ rest \in Seq(Ops)
          /\ writes'[c] \in Seq(Ops) /\ partial'[c] \in Seq(Ops)
      BY <1>1, <1>2, <1>p DEF SenderTypes
    <3>1. /\ Len(writes[c]) \in Nat /\ Len(partial[c]) \in Nat /\ Len(rest) \in Nat
          /\ Len(writes'[c]) \in Nat /\ Len(partial'[c]) \in Nat
      BY <3>0
    <3>2. Len(writes'[c]) + Len(partial'[c]) <= Len(writes[c]) + Len(rest) + 1
      BY <1>5 DEF SomeDone
    <3> DEFINE i == Len(writes[c])
               j == Len(partial[c])
               k == Len(writes'[c])
               l == Len(partial'[c])
               m == Cardinality(Starts(Line(c)))
               n == Len(rest)
    <3>3. i \in Nat /\ j \in Nat /\ k \in Nat /\ l \in Nat /\ m \in Nat /\ n \in Nat
      BY <2>1, <2>2, <3>1
    <3>4. k + l <= i + n + 1 /\ n = j - 1 /\ i + j <= m
      BY <1>2, <2>1, <2>2, <3>2
    <3> HIDE DEF i, j, k, l, m, n
    <3>5. k + l <= m
      BY <3>3, <3>4
    <3> QED
      BY <2>1, <2>2, <3>5 DEF k, l, m
  <2>3. CASE b # c
    BY <1>5, <2>1, <2>3, Zenon DEF SomeDone
  <2> QED
    BY <2>2, <2>3
<1>13. \A b \in Clients : Idle(b) => Idle(b)'
  BY <1>1, <1>5 DEF Idle, SomeDone
<1> QED
  BY <1>7, <1>9, <1>11, <1>12, <1>13

\* async_write: one more frame in the line of a connection that is open.
LEMMA WriteLines ==
  ASSUME SenderTypes, Whole, Room, NEW c \in Clients, NEW frame \in Frames,
         NEW stamp \in Stamps, NEW w \in Workers,
         AsyncWrite(c, frame, stamp, w), UNCHANGED <<alive, cipher, crossed>>
  PROVE  /\ SenderTypes' /\ Whole' /\ Room'
         /\ \A b \in Clients \ {c} : Alike(Line(b), Line(b)') /\ (Idle(b) => Idle(b)')
         /\ alive[c] => Longer(Line(c), Line(c)', Item(frame, stamp, "start"))
         /\ ~alive[c] => Alike(Line(c), Line(c)') /\ (Idle(c) => Idle(c)')
<1>1. CASE ~alive[c]
  <2>1. UNCHANGED senderVars
    BY <1>1 DEF AsyncWrite, senderVars
  <2>2. SenderTypes' /\ Whole' /\ Room' /\ \A b \in Clients : Line(b)' = Line(b)
    BY <2>1 DEF senderVars, SenderTypes, Whole, Room, Line
  <2>3. \A b \in Clients : Idle(b) => Idle(b)'
    BY <2>1 DEF senderVars, Idle
  <2> QED
    BY <1>1, <2>2, <2>3, SameAlike
<1>2. CASE alive[c]
  <2> DEFINE op == [frame |-> frame, stamp |-> stamp, holder |-> w, begun |-> FALSE]
             rest == partial[c]
  <2>1. /\ partial[c] \in Seq(Ops)
        /\ \A i \in 1 .. Len(partial[c]) : partial[c][i].begun
    BY DEF SenderTypes
  <2>2. /\ op \in Ops /\ ~op.begun /\ op.holder = w
        /\ OfOp(op) = Item(frame, stamp, "start")
    BY DEF Ops, OfOp, Item
  <2>3. SendSome(c, op, rest)
    BY <1>2 DEF AsyncWrite
  <2> HIDE DEF op
  <2>4. SomeDone(c, op, rest)
    BY <2>1, <2>2, <2>3, SomeSent
  <2>p. /\ writes' \in [Clients -> Seq(Ops)] /\ partial' \in [Clients -> Seq(Ops)]
        /\ stalls' \in [Clients -> Nat]
        /\ \A b \in Clients \ {c} :
             /\ writes'[b] = writes[b] /\ partial'[b] = partial[b]
             /\ stream'[b] = stream[b] /\ stalls'[b] = stalls[b]
        /\ stalls'[c] = 0 => stalls[c] = 0
    BY <2>4 DEF SomeDone
  <2>5. SenderTypes'
    BY <2>4 DEF SenderTypes, SomeDone
  <2>6. \A b \in Clients : Line(b) \in Seq(Items) /\ Line(b)' \in Seq(Items)
    <3> TAKE b \in Clients
    <3>1. Line(b) \in Seq(Items)
      BY LinesTyped
    <3>2. /\ stream'[b] \in Seq(Pieces) /\ writes'[b] \in Seq(Ops)
      BY <2>4 DEF SomeDone
    <3> QED
      BY <3>1, <3>2, JoinedType DEF Line
  <2>7. Longer(Line(c), Line(c)', Item(frame, stamp, "start"))
    BY <2>2, <2>4 DEF SomeDone
  <2>8. ASSUME NEW b \in Clients, b # c PROVE Line(b)' = Line(b)
    BY <2>4, <2>8 DEF SomeDone, Line
  <2>9. Whole'
    <3> SUFFICES ASSUME NEW b \in Clients, stalls'[b] = 0
                 PROVE  /\ writes'[b] = <<>> /\ partial'[b] = <<>>
                        /\ \A i \in 1 .. Len(stream'[b]) :
                             stream'[b][i].part = "all" /\ ~stream'[b][i].stale
      BY DEF Whole
    <3>1. CASE b = c
      <4> DEFINE p == Piece(op, IF op.begun THEN "rest" ELSE "all")
      <4>1. stalls[c] = 0 /\ writes[c] = <<>> /\ partial[c] = <<>>
        BY <2>4, <3>1 DEF SomeDone, Whole
      <4>2. /\ writes'[c] = <<>> /\ partial'[c] = <<>>
            /\ stream'[c] = Append(stream[c], p)
        BY <2>4, <3>1, <4>1 DEF SomeDone
      <4>3. p.part = "all" /\ ~p.stale /\ p \in Pieces
        <5>1. w # None
          BY SenderAssumption
        <5>2. p \in Pieces
          BY <2>2, PieceTyped
        <5> QED
          BY <2>2, <5>1, <5>2 DEF Piece
      <4>4. \A i \in 1 .. Len(stream[c]) : stream[c][i].part = "all" /\ ~stream[c][i].stale
        BY <4>1 DEF Whole
      <4> HIDE DEF p
      <4>5. stream[c] \in Seq(Pieces)
        BY DEF SenderTypes
      <4>6. \A i \in 1 .. Len(Append(stream[c], p)) :
              Append(stream[c], p)[i] = IF i <= Len(stream[c]) THEN stream[c][i] ELSE p
        BY <4>3, <4>5
      <4>7. \A i \in 1 .. Len(stream'[c]) : stream'[c][i].part = "all" /\ ~stream'[c][i].stale
        BY <4>2, <4>3, <4>4, <4>5, <4>6
      <4> QED
        BY <3>1, <4>2, <4>7
    <3>2. CASE b # c
      BY <2>p, <3>2 DEF Whole
    <3> QED
      BY <3>1, <3>2
  <2>10. Room'
    <3> SUFFICES ASSUME NEW b \in Clients
                 PROVE  Len(writes'[b]) + Len(partial'[b]) <= Cardinality(Starts(Line(b)'))
      BY DEF Room
    <3>1. /\ Cardinality(Starts(Line(b))) \in Nat /\ Cardinality(Starts(Line(b)')) \in Nat
          /\ Len(writes[b]) + Len(partial[b]) <= Cardinality(Starts(Line(b)))
      BY <2>6, LineCounts DEF Room
    <3>2. CASE b = c
      <4>1. Item(frame, stamp, "start") \in Items /\ Item(frame, stamp, "start").is = "start"
        BY DEF Item, Items
      <4>2. Cardinality(Starts(Line(c)')) = Cardinality(Starts(Line(c))) + 1
        BY <2>6, <2>7, <4>1, StartCounts
      <4>3. /\ Len(writes[c]) \in Nat /\ Len(partial[c]) \in Nat
            /\ Len(writes'[c]) \in Nat /\ Len(partial'[c]) \in Nat
        BY <2>1, <2>p DEF SenderTypes
      <4>4. Len(writes'[c]) + Len(partial'[c]) <= Len(writes[c]) + Len(partial[c]) + 1
        BY <2>4 DEF SomeDone
      <4>5. \A i, j, k, l, m, n \in Nat :
              k + l <= i + j + 1 /\ n = m + 1 /\ i + j <= m => k + l <= n
        OBVIOUS
      <4> QED
        BY <3>1, <3>2, <4>2, <4>3, <4>4, <4>5, Zenon
    <3>3. CASE b # c
      BY <2>4, <2>8, <3>1, <3>3, Zenon DEF SomeDone
    <3> QED
      BY <3>2, <3>3
  <2>11. \A b \in Clients \ {c} : Idle(b) => Idle(b)'
    BY <2>4 DEF Idle, SomeDone
  <2>12. \A b \in Clients \ {c} : Alike(Line(b), Line(b)')
    BY <2>8, SameAlike
  <2> QED
    BY <1>2, <2>5, <2>7, <2>9, <2>10, <2>11, <2>12
<1> QED
  BY <1>1, <1>2
\* The end of a handler, and of the connections destroyed by it.
LEMMA EmptiedLines ==
  ASSUME SenderTypes, Whole, Room, NEW gone \in SUBSET Clients,
         NEW w \in Workers \cup {None}, Emptied(gone, w),
         alive' \in [Clients -> BOOLEAN]
  PROVE  /\ SenderTypes' /\ Whole' /\ Room'
         /\ \A b \in Clients \ gone : Alike(Line(b), Line(b)') /\ (Idle(b) => Idle(b)')
         /\ \A b \in gone : Idle(b)' /\ Starts(Line(b)') = {}
         /\ \A b \in Clients : /\ b \notin gone => cipher'[b] = cipher[b]
                               /\ (crossed[b] /\ b \notin gone) <=> crossed'[b]
                               /\ b \in gone => cipher'[b] = 0
<1> DEFINE freed(op) == IF op.holder = w THEN [op EXCEPT !.holder = None] ELSE op
           kept(ops) == [i \in DOMAIN ops |-> freed(ops[i])]
<1>1. /\ writes' = [c \in Clients |-> IF c \in gone THEN <<>> ELSE kept(writes[c])]
      /\ partial' = [c \in Clients |-> IF c \in gone THEN <<>> ELSE kept(partial[c])]
      /\ stream' = [c \in Clients |-> IF c \in gone THEN <<>> ELSE stream[c]]
      /\ cipher' = [c \in Clients |-> IF c \in gone THEN 0 ELSE cipher[c]]
      /\ crossed' = [c \in Clients |-> c \notin gone /\ crossed[c]]
      /\ stalls' = stalls
  BY DEF Emptied
<1>2. ASSUME NEW op \in Ops
      PROVE  freed(op) \in Ops /\ OfOp(freed(op)) = OfOp(op) /\ freed(op).begun = op.begun
  BY DEF Ops, OfOp, Item
<1>3. ASSUME NEW ops \in Seq(Ops)
      PROVE  /\ kept(ops) \in Seq(Ops) /\ Len(kept(ops)) = Len(ops)
             /\ \A i \in 1 .. Len(ops) : /\ OfOp(kept(ops)[i]) = OfOp(ops[i])
                                         /\ kept(ops)[i].begun = ops[i].begun
  <2> HIDE DEF freed
  <2>1. DOMAIN ops = 1 .. Len(ops) /\ Len(ops) \in Nat
    OBVIOUS
  <2>2. \A i \in 1 .. Len(ops) : ops[i] \in Ops
    OBVIOUS
  <2>3. \A i \in 1 .. Len(ops) : freed(ops[i]) \in Ops
    BY <1>2, <2>2
  <2>4. kept(ops) \in [1 .. Len(ops) -> Ops]
    BY <2>1, <2>3
  <2>5. kept(ops) \in Seq(Ops) /\ Len(kept(ops)) = Len(ops)
    BY <2>1, <2>4
  <2> QED
    BY <1>2, <2>1, <2>2, <2>5
<1>4. ASSUME NEW ops \in Seq(Ops), ops = <<>> PROVE kept(ops) = <<>>
  <2> HIDE DEF freed
  <2>1. kept(ops) \in Seq(Ops) /\ Len(kept(ops)) = 0
    BY <1>3, <1>4
  <2> HIDE DEF kept
  <2> QED
    BY <2>1
<1> HIDE DEF freed, kept
<1>5. /\ \A b \in Clients : writes[b] \in Seq(Ops) /\ partial[b] \in Seq(Ops)
      /\ \A b \in Clients : stream[b] \in Seq(Pieces)
      /\ \A b \in Clients : \A i \in 1 .. Len(partial[b]) : partial[b][i].begun
  BY DEF SenderTypes
<1>6. ASSUME NEW b \in Clients \ gone
      PROVE  /\ writes'[b] = kept(writes[b]) /\ partial'[b] = kept(partial[b])
             /\ stream'[b] = stream[b] /\ Line(b)' = Line(b)
             /\ Len(writes'[b]) = Len(writes[b]) /\ Len(partial'[b]) = Len(partial[b])
             /\ writes'[b] \in Seq(Ops) /\ partial'[b] \in Seq(Ops)
             /\ \A i \in 1 .. Len(partial'[b]) : partial'[b][i].begun
  <2>1. /\ writes'[b] = kept(writes[b]) /\ partial'[b] = kept(partial[b])
        /\ stream'[b] = stream[b]
    BY <1>1
  <2>2. Joined(stream[b], kept(writes[b])) = Joined(stream[b], writes[b])
    BY <1>3, <1>5, FreedSame
  <2>3. Line(b)' = Line(b)
    BY <2>1, <2>2, Zenon DEF Line
  <2>4. writes[b] \in Seq(Ops) /\ partial[b] \in Seq(Ops)
    BY <1>5
  <2>5. /\ kept(writes[b]) \in Seq(Ops) /\ Len(kept(writes[b])) = Len(writes[b])
        /\ kept(partial[b]) \in Seq(Ops) /\ Len(kept(partial[b])) = Len(partial[b])
        /\ \A i \in 1 .. Len(partial[b]) : kept(partial[b])[i].begun = partial[b][i].begun
    BY <1>3, <2>4
  <2>6. \A i \in 1 .. Len(partial[b]) : kept(partial[b])[i].begun
    BY <1>5, <2>5
  <2> QED
    BY <2>1, <2>3, <2>5, <2>6
<1>7. ASSUME NEW b \in gone
      PROVE  writes'[b] = <<>> /\ partial'[b] = <<>> /\ stream'[b] = <<>>
  BY <1>1
<1>e. <<>> \in Seq(Ops) /\ <<>> \in Seq(Pieces) /\ Len(<<>>) = 0
  OBVIOUS
<1>8. SenderTypes'
  <2>1. \A b \in Clients : /\ writes'[b] \in Seq(Ops) /\ partial'[b] \in Seq(Ops)
                            /\ stream'[b] \in Seq(Pieces)
    <3> TAKE b \in Clients
    <3>1. CASE b \in gone
      BY <1>7, <1>e, <3>1
    <3>2. CASE b \notin gone
      BY <1>5, <1>6, <3>2
    <3> QED
      BY <3>1, <3>2
  <2>2. /\ writes' \in [Clients -> Seq(Ops)] /\ partial' \in [Clients -> Seq(Ops)]
        /\ stream' \in [Clients -> Seq(Pieces)]
    BY <1>1, <2>1
  <2>3. \A b \in Clients : \A i \in 1 .. Len(partial'[b]) : partial'[b][i].begun
    BY <1>6, <1>7
  <2>4. /\ cipher' \in [Clients -> Nat] /\ crossed' \in [Clients -> BOOLEAN]
        /\ stalls' \in [Clients -> Nat]
    BY <1>1 DEF SenderTypes
  <2> QED
    BY <2>2, <2>3, <2>4 DEF SenderTypes
<1>9. ASSUME NEW b \in gone PROVE Idle(b)' /\ Starts(Line(b)') = {}
  <2>1. Idle(b)'
    BY <1>7, <1>9 DEF Idle
  <2>2. /\ stream'[b] \in Seq(Pieces) /\ writes'[b] \in Seq(Ops)
        /\ Len(stream'[b]) = 0 /\ Len(writes'[b]) = 0
    BY <1>7, <1>9, <1>e, Zenon
  <2>3. Len(Line(b)') = 0
    BY <2>2, JoinedType DEF Line
  <2> QED
    BY <2>1, <2>3 DEF Starts
<1>10. \A b \in Clients \ gone : Alike(Line(b), Line(b)')
  BY <1>6, SameAlike
<1>11. \A b \in Clients \ gone : Idle(b) => Idle(b)'
  BY <1>4, <1>5, <1>6 DEF Idle
<1>12. Whole'
  <2> SUFFICES ASSUME NEW b \in Clients, stalls'[b] = 0
               PROVE  /\ writes'[b] = <<>> /\ partial'[b] = <<>>
                      /\ \A i \in 1 .. Len(stream'[b]) :
                           stream'[b][i].part = "all" /\ ~stream'[b][i].stale
    BY DEF Whole
  <2>1. CASE b \in gone
    BY <1>7, <2>1
  <2>2. CASE b \notin gone
    BY <1>1, <1>4, <1>5, <1>6, <2>2 DEF Whole
  <2> QED
    BY <2>1, <2>2
<1>13. Room'
  <2> SUFFICES ASSUME NEW b \in Clients
               PROVE  Len(writes'[b]) + Len(partial'[b]) <= Cardinality(Starts(Line(b)'))
    BY DEF Room
  <2>1. CASE b \in gone
    <3>1. Len(writes'[b]) = 0 /\ Len(partial'[b]) = 0
      BY <1>7, <1>e, <2>1, Zenon
    <3>2. Cardinality(Starts(Line(b)')) = 0
      BY <1>9, <2>1, FS_EmptySet, Zenon
    <3> QED
      BY <3>1, <3>2
  <2>2. CASE b \notin gone
    BY <1>6, <2>2, Zenon DEF Room
  <2> QED
    BY <2>1, <2>2
<1>14. \A b \in Clients : /\ b \notin gone => cipher'[b] = cipher[b]
                          /\ (crossed[b] /\ b \notin gone) <=> crossed'[b]
                          /\ b \in gone => cipher'[b] = 0
  BY <1>1
<1> QED
  BY <1>8, <1>9, <1>10, <1>11, <1>12, <1>13, <1>14
-----------------------------------------------------------------------------
(* Which handlers run, and what each has still to send. *)

Datagrams == [n : Nat, id : MessageID, player : Players]

Sending(w) == pc[w] \in {"send", "write"}
Calling(w) == task[w] = "receive" /\ pc[w] \in {"find", "call", "send", "write"}
Adding(w)  == task[w] = "add"
Beating(w) == task[w] = "keepAlive" /\ pc[w] \in {"send", "write"}
Timed(c)   == "timer" \in due[c]

StepsFit ==
  \A w \in Workers :
    /\ task[w] = "none" => pc[w] = "idle"
    /\ task[w] = "receive" => pc[w] \in {"find", "call", "send", "write", "return", "rearm"}
    /\ task[w] = "add" => pc[w] \in {"lock", "send", "write", "store"}
    /\ task[w] = "keepAlive" => pc[w] \in {"send", "write", "reset"}
    /\ task[w] \in Handlers => pc[w] \in {"clear", "erase"}

\* No handler has a Client that still waits in the lobby, and none of a datagram
\* one that addClient is not done with.
TasksFit ==
  \A w \in Workers :
    /\ on[w] # None => place[on[w]] # "lobby"
    /\ task[w] = "receive" /\ Sending(w) => place[on[w]] \notin {"handoff", "adding"}

\* What addClient has still to send are the last of its frames.
LastJoin(frames) ==
  /\ Len(frames) <= Len(JoinFrames)
  /\ \A k \in 1 .. Len(frames) :
       frames[k] = JoinFrames[Len(JoinFrames) - Len(frames) + k]

ToSendFits ==
  \A w \in Workers :
    /\ pc[w] = "lock" \/ Sending(w) => toSend[w] # <<>>
    /\ task[w] = "receive" /\ Sending(w) => toSend[w] = <<Relayed(msg[w])>>
    /\ task[w] = "keepAlive" /\ Sending(w) => toSend[w] = <<Named("KeepAlive")>>
    /\ Adding(w) => LastJoin(toSend[w])
    /\ pc[w] = "store" => toSend[w] = <<>>

\* One datagram at a time, and one keep-alive of each connection.
OneEach ==
  /\ \A v, w \in Workers : task[v] = "receive" /\ task[w] = "receive" => v = w
  /\ \A v, w \in Workers :
       task[v] = "keepAlive" /\ task[w] = "keepAlive" /\ on[v] = on[w] => v = w
  /\ \A w \in Workers : task[w] = "receive" => ~waiting
  /\ \A w \in Workers : task[w] = "keepAlive" => ~Timed(on[w])
  /\ \A c \in Clients : place[c] = "lobby" => ~Timed(c)

LastRead ==
  \A w \in Workers : task[w] = "receive" =>
    msg[w] \in Datagrams /\ msg[w].n = Len(received) /\ Len(received) > 0

HandlerTypes ==
  /\ toSend \in [Workers -> Seq(Frames)]
  /\ mark \in [Workers -> Stamps]
  /\ received \in Seq(Datagrams) /\ Len(received) <= MaxDatagrams
  /\ beats \in 0 .. MaxKeepAlives
  /\ due \in [Clients -> SUBSET Handlers] /\ waiting \in BOOLEAN

Roles == StepsFit /\ TasksFit /\ ToSendFits /\ OneEach /\ LastRead /\ HandlerTypes

\* The frames of addClient.
LEMMA JoinTyped ==
  /\ JoinFrames \in Seq(Frames) /\ JoinFrames # <<>> /\ Len(JoinFrames) \in Nat
  /\ \A k \in 1 .. Len(JoinFrames) :
       JoinFrames[k] \in Frames /\ JoinFrames[k].kind \notin {"KeepAlive", "relayed"}
  /\ LastJoin(JoinFrames)
<1>1. /\ JoinKinds \in Seq(STRING) /\ JoinKinds # <<>>
      /\ \A k \in DOMAIN JoinKinds : JoinKinds[k] \notin {"KeepAlive", "relayed"}
  BY LinkAssumption
<1>2. DOMAIN JoinKinds = 1 .. Len(JoinKinds) /\ Len(JoinKinds) \in Nat /\ Len(JoinKinds) # 0
  BY <1>1
<1>3. \A k \in 1 .. Len(JoinKinds) : Named(JoinKinds[k]) \in Frames
  BY <1>2 DEF Named, Frames, Kinds
<1>4. /\ JoinFrames \in [1 .. Len(JoinKinds) -> Frames]
      /\ \A k \in 1 .. Len(JoinKinds) : JoinFrames[k] = Named(JoinKinds[k])
  BY <1>2, <1>3 DEF JoinFrames
<1>5. JoinFrames \in Seq(Frames) /\ Len(JoinFrames) = Len(JoinKinds)
  BY <1>2, <1>4
<1>6. \A k \in 1 .. Len(JoinFrames) :
        JoinFrames[k] \in Frames /\ JoinFrames[k].kind \notin {"KeepAlive", "relayed"}
  BY <1>1, <1>2, <1>3, <1>4, <1>5 DEF Named
<1>7. LastJoin(JoinFrames)
  BY <1>2, <1>5 DEF LastJoin
<1> QED
  BY <1>2, <1>5, <1>6, <1>7

\* A keep-alive, and the packet of a datagram.
LEMMA FramesTyped ==
  /\ Named("KeepAlive") \in Frames /\ <<Named("KeepAlive")>> \in Seq(Frames)
  /\ \A d \in Datagrams : Relayed(d) \in Frames /\ <<Relayed(d)>> \in Seq(Frames)
<1>1. Named("KeepAlive") \in Frames
  BY DEF Named, Frames, Kinds
<1>2. \A d \in Datagrams : Relayed(d) \in Frames
  BY DEF Relayed, Frames, Kinds, Datagrams
<1>3. \A f \in Frames : <<f>> \in Seq(Frames)
  OBVIOUS
<1> QED
  BY <1>1, <1>2, <1>3

\* The lookups.
LEMMA FindRoles ==
  ASSUME IInv, Roles, NEW w \in Workers, Find(w)
  PROVE  Roles'
<1>1. /\ pc[w] = "find" /\ (pc' = [pc EXCEPT ![w] = "call"] \/ pc' = [pc EXCEPT ![w] = "rearm"])
      /\ task[w] = "receive"
      /\ UNCHANGED <<task, msg, on, toSend, mark, received, waiting, place, due, beats>>
  BY DEF Find, Goto, IInv, HandlersKnow, linkVars, rosterVars, timerVars
<1> QED
  BY <1>1 DEF IInv, Roles, StepsFit, TasksFit, ToSendFits, OneEach, LastRead,
    HandlerTypes, Sending, Adding, Timed
\* Steps of the kernel, handlers that do nothing, and the end of the process.
LEMMA StillRoles ==
  ASSUME IInv, Roles, UNCHANGED <<workerVars, place, received, waiting, beats>>,
         due' \in [Clients -> SUBSET Handlers],
         \A c \in Clients : Timed(c)' => Timed(c)
  PROVE  Roles'
<1>1. \A w \in Workers : task[w] = "keepAlive" => "timer" \notin due'[on[w]]
  <2>1. \A w \in Workers : task[w] = "keepAlive" => on[w] \in Clients
    BY DEF IInv, HandlersKnow, Roles, StepsFit
  <2> QED
    BY <2>1 DEF Roles, OneEach, Timed
<1>2. \A c \in Clients : place[c] = "lobby" => "timer" \notin due'[c]
  BY DEF Roles, OneEach, Timed
<1>3. UNCHANGED <<pc, task, msg, on, toSend, mark, place, received, waiting, beats>>
  BY DEF workerVars
<1>4. OneEach'
  BY <1>1, <1>2, <1>3 DEF Roles, OneEach, Timed
<1> QED
  BY <1>3, <1>4 DEF Roles, StepsFit, TasksFit, ToSendFits, LastRead, HandlerTypes,
    Sending, Adding, LastJoin, Relayed
\* The process ends.
LEMMA FaultRoles ==
  ASSUME Roles, NEW w \in Workers, Fault(w)
  PROVE  Roles'
  BY DEF Fault, Roles, StepsFit, TasksFit, ToSendFits, OneEach, LastRead, HandlerTypes,
    Sending, Adding, Timed, workerVars, timerVars, rosterVars, linkVars
\* The call.
LEMMA CallRoles ==
  ASSUME IInv, Roles, NEW w \in Workers, Call(w)
  PROVE  Roles'
<1>1. CASE clients[msg[w].player] = None
  BY <1>1, FaultRoles DEF Call
<1>2. CASE clients[msg[w].player] # None
  <2> DEFINE c == clients[msg[w].player]
             f == <<Relayed(msg[w])>>
  <2>1. c \in Clients /\ place[c] = "roster" /\ task[w] = "receive"
    BY <1>2 DEF IInv, HandlersKnow, SlotsOwn, Call
  <2>2. f \in Seq(Frames) /\ f # <<>>
    BY <2>1, FramesTyped DEF Roles, LastRead
  <2>3. /\ pc[w] = "call" /\ pc' = [pc EXCEPT ![w] = "send"]
        /\ on' = [on EXCEPT ![w] = c] /\ toSend' = [toSend EXCEPT ![w] = f]
        /\ UNCHANGED <<task, msg, mark, received, waiting, place, due, beats>>
    BY <1>2 DEF Call, linkVars, rosterVars, timerVars
  <2>4. f = <<Relayed(msg[w])>>
    OBVIOUS
  <2> HIDE DEF c, f
  <2>5. StepsFit' /\ TasksFit' /\ OneEach' /\ LastRead' /\ HandlerTypes'
    BY <2>1, <2>2, <2>3 DEF IInv, Roles, StepsFit, TasksFit, OneEach, LastRead,
      HandlerTypes, Sending, Timed
  <2>6. ToSendFits'
    BY <2>1, <2>2, <2>3, <2>4 DEF IInv, Roles, HandlerTypes, ToSendFits, Sending,
      Adding, LastJoin, Relayed
  <2> QED
    BY <2>5, <2>6 DEF Roles
<1> QED
  BY <1>1, <1>2
\* The end of handleMessage, and the first steps of addClient and of disconnect.
LEMMA GoRoles ==
  ASSUME IInv, Roles, NEW w \in Workers, NEW step, Goto(w, step),
         pc[w] \in {"return", "lock", "clear"},
         pc[w] = "return" => step = "rearm", pc[w] = "lock" => step = "send",
         pc[w] = "clear" => step = "erase",
         UNCHANGED <<received, waiting, due, beats>>,
         \A c \in Clients :
           place'[c] = place[c] \/ (pc[w] = "lock" /\ c = on[w] /\ place'[c] = "adding")
  PROVE  Roles'
<1>1. /\ pc' = [pc EXCEPT ![w] = step] /\ UNCHANGED <<task, msg, on, toSend, mark>>
  BY DEF Goto
<1>2. pc[w] = "lock" => /\ task[w] = "add" /\ on[w] \in Clients
                        /\ place[on[w]] = "handoff"
  BY DEF IInv, HandlersKnow, LoginsOwn
<1>3. StepsFit' /\ LastRead' /\ HandlerTypes'
  BY <1>1, <1>2 DEF IInv, Roles, StepsFit, LastRead, HandlerTypes, Tasks
<1>6. OneEach'
  BY <1>1 DEF IInv, Roles, OneEach, Timed
<1>4. TasksFit'
  <2>1. \A v \in Workers : on[v] # None => place'[on[v]] # "lobby"
    BY DEF IInv, Roles, TasksFit
  <2>2. ASSUME NEW v \in Workers, task[v] = "receive", pc'[v] \in {"send", "write"}
        PROVE  place'[on[v]] \notin {"handoff", "adding"}
    <3>1. v # w /\ pc'[v] = pc[v]
      BY <1>1, <1>2, <2>2 DEF IInv, Roles, StepsFit
    <3>2. on[v] \in Clients /\ place[on[v]] \notin {"handoff", "adding"}
      BY <2>2, <3>1 DEF IInv, HandlersKnow, Roles, TasksFit, Sending
    <3> QED
      BY <1>2, <3>2
  <2> QED
    BY <1>1, <2>1, <2>2 DEF TasksFit, Sending
<1>5. ToSendFits'
  BY <1>1, <1>2 DEF IInv, Roles, ToSendFits, Sending, Adding, LastJoin, Relayed
<1> QED
  BY <1>3, <1>4, <1>5, <1>6 DEF Roles
\* The end of a handler, whatever it did to the roster, the timer or the loop.
LEMMA DoneRoles ==
  ASSUME IInv, Roles, NEW w \in Workers, NEW gone, Done(w, gone),
         UNCHANGED <<received, beats>>,
         waiting' \in BOOLEAN, waiting' => waiting \/ task[w] = "receive",
         due' \in [Clients -> SUBSET Handlers],
         \A c \in Clients : Timed(c)' => Timed(c) \/ (task[w] = "keepAlive" /\ c = on[w]),
         \A c \in Clients : place'[c] = "lobby" => place[c] = "lobby",
         \A v \in Workers : on[v] # None =>
           place'[on[v]] \notin {"handoff", "adding"} \/ place'[on[v]] = place[on[v]]
  PROVE  Roles'
<1>1. /\ pc' = [pc EXCEPT ![w] = "idle"] /\ task' = [task EXCEPT ![w] = "none"]
      /\ msg' = [msg EXCEPT ![w] = None] /\ on' = [on EXCEPT ![w] = None]
      /\ UNCHANGED <<toSend, mark>>
  BY DEF Done
<1>2. \A v \in Workers : task[v] = "receive" /\ Sending(v) => on[v] \in Clients
  BY DEF IInv, HandlersKnow, Sending
<1>3. None \notin Clients
  BY SenderAssumption
<1>4. StepsFit' /\ ToSendFits' /\ LastRead' /\ HandlerTypes'
  BY <1>1 DEF IInv, Roles, StepsFit, ToSendFits, LastRead, HandlerTypes,
    Sending, Adding, Handlers
<1>5. TasksFit'
  BY <1>1, <1>2, <1>3 DEF IInv, Roles, TasksFit, Sending
<1>6. OneEach'
  <2>1. \A v \in Workers : task[v] = "keepAlive" => on[v] \in Clients /\ place[on[v]] # "lobby"
    BY <1>3 DEF IInv, HandlersKnow, Roles, StepsFit, TasksFit
  <2>2. \A c \in Clients : place'[c] = "lobby" => ~Timed(c)'
    BY <2>1 DEF Roles, OneEach
  <2>3. \A v \in Workers : task'[v] = "keepAlive" =>
          v # w /\ task[v] = "keepAlive" /\ on'[v] = on[v] /\ on[v] \in Clients /\ ~Timed(on[v])
          /\ ~(task[w] = "keepAlive" /\ on[w] = on[v])
    BY <1>1, <2>1 DEF IInv, Roles, OneEach
  <2>4. \A v \in Workers : task'[v] = "keepAlive" => ~Timed(on[v])'
    BY <2>3
  <2>5. \A v \in Workers : task'[v] = "keepAlive" => "timer" \notin due'[on'[v]]
    BY <2>3, <2>4 DEF Timed
  <2> QED
    BY <1>1, <2>2, <2>3, <2>5 DEF IInv, Roles, OneEach, Timed
<1> QED
  BY <1>4, <1>5, <1>6 DEF Roles

\* The end of a datagram.
LEMMA RearmRoles ==
  ASSUME IInv, Roles, NEW w \in Workers, Rearm(w)
  PROVE  Roles'
<1>1. task[w] = "receive"
  BY DEF IInv, HandlersKnow, Roles, StepsFit, Rearm, Tasks, Handlers
<1>2. /\ Done(w, {}) /\ waiting' = TRUE
      /\ UNCHANGED <<received, place, due, beats>>
  BY DEF Rearm, rosterVars, timerVars
<1>3. due \in [Clients -> SUBSET Handlers]
  BY DEF Roles, HandlerTypes
<1> QED
  BY <1>1, <1>2, <1>3, DoneRoles DEF Timed
\* The end of addClient.
LEMMA StoreRoles ==
  ASSUME IInv, Roles, NEW w \in Workers, Store(w)
  PROVE  Roles'
<1> DEFINE c == on[w]
           old == {clients[Account[c]]} \ {None}
           more == IF c \in Encrypted THEN {} ELSE {"read"}
<1>1. task[w] = "add" /\ c \in Clients
  BY DEF IInv, HandlersKnow, Store
<1>2. /\ Done(w, old)
      /\ place' = [p \in Clients |-> IF p = c THEN "roster"
                    ELSE IF p \in old THEN "destroyed" ELSE place[p]]
      /\ due' = [due EXCEPT ![c] = @ \cup more]
      /\ UNCHANGED <<received, waiting, beats>>
  BY DEF Store, linkVars
<1>3. /\ due \in [Clients -> SUBSET Handlers] /\ waiting \in BOOLEAN
      /\ more \subseteq Handlers /\ "timer" \notin more
  BY DEF Roles, HandlerTypes, Handlers
<1>4. \A v \in Workers : on[v] # None => on[v] \in Clients
  BY DEF IInv
<1> HIDE DEF c, old, more
<1>5. due' \in [Clients -> SUBSET Handlers] /\ \A b \in Clients : Timed(b)' => Timed(b)
  BY <1>1, <1>2, <1>3 DEF Timed
<1>6. \A p \in Clients : place'[p] = "lobby" => place[p] = "lobby"
  BY <1>2
<1>7. \A v \in Workers : on[v] # None =>
        place'[on[v]] \notin {"handoff", "adding"} \/ place'[on[v]] = place[on[v]]
  BY <1>2, <1>4
<1> QED
  BY <1>2, <1>3, <1>5, <1>6, <1>7, DoneRoles
\* The end of disconnect.
LEMMA EraseRoles ==
  ASSUME IInv, Roles, NEW w \in Workers, Erase(w)
  PROVE  Roles'
<1> DEFINE old == {clients[Account[on[w]]]} \ {None}
<1>1. /\ Done(w, old)
      /\ place' = [p \in Clients |-> IF p \in old THEN "destroyed" ELSE place[p]]
      /\ UNCHANGED <<received, waiting, due, beats>>
  BY DEF Erase, linkVars, timerVars
<1>2. due \in [Clients -> SUBSET Handlers] /\ waiting \in BOOLEAN
  BY DEF Roles, HandlerTypes
<1>3. \A v \in Workers : on[v] # None => on[v] \in Clients
  BY DEF IInv
<1> HIDE DEF old
<1>4. \A p \in Clients : place'[p] = "lobby" => place[p] = "lobby"
  BY <1>1
<1>5. \A v \in Workers : on[v] # None =>
        place'[on[v]] \notin {"handoff", "adding"} \/ place'[on[v]] = place[on[v]]
  BY <1>1, <1>3
<1>6. \A b \in Clients : Timed(b)' => Timed(b)
  BY <1>1 DEF Timed
<1> QED
  BY <1>1, <1>2, <1>4, <1>5, <1>6, DoneRoles
\* The end of keepAlive.
LEMMA ResetRoles ==
  ASSUME IInv, Roles, NEW w \in Workers, Reset(w)
  PROVE  Roles'
<1>1. task[w] = "keepAlive" /\ on[w] \in Clients
  BY DEF IInv, HandlersKnow, Roles, StepsFit, Reset, Tasks, Handlers
<1>2. /\ Done(w, {}) /\ due' = [due EXCEPT ![on[w]] = @ \cup {"timer"}]
      /\ UNCHANGED <<received, waiting, place, beats>>
  BY DEF Reset, linkVars, rosterVars
<1>3. due \in [Clients -> SUBSET Handlers] /\ waiting \in BOOLEAN
  BY DEF Roles, HandlerTypes
<1>4. /\ due' \in [Clients -> SUBSET Handlers]
      /\ \A c \in Clients : Timed(c)' => Timed(c) \/ c = on[w]
  BY <1>1, <1>2, <1>3 DEF Timed, Handlers
<1> QED
  BY <1>1, <1>2, <1>3, <1>4, DoneRoles
\* The end of a frame: the next one, or what the handler does after the last.
LEMMA SentRoles ==
  ASSUME IInv, Roles, NEW w \in Workers, Sending(w), Sent(w),
         mark' \in [Workers -> Stamps],
         UNCHANGED <<place, received, waiting, beats>>,
         due' \in [Clients -> SUBSET Handlers],
         \A c \in Clients : Timed(c)' => Timed(c)
  PROVE  Roles'
<1>1. /\ task[w] \in {"receive", "add", "keepAlive"} /\ on[w] \in Clients
      /\ toSend[w] \in Seq(Frames) /\ toSend[w] # <<>>
  BY DEF IInv, HandlersKnow, Roles, ToSendFits, HandlerTypes, Sending
<1> DEFINE rest == Tail(toSend[w])
           next == IF Len(toSend[w]) > 1 THEN "send" ELSE After(w)
<1>2. /\ rest \in Seq(Frames) /\ Len(rest) = Len(toSend[w]) - 1 /\ Len(toSend[w]) > 0
      /\ \A k \in 1 .. Len(rest) : rest[k] = toSend[w][k + 1]
  BY <1>1
<1>3. (Len(toSend[w]) > 1 => rest # <<>>) /\ (~(Len(toSend[w]) > 1) => rest = <<>>)
  <2>1. \A s \in Seq(Frames) : Len(s) \in Nat /\ (Len(s) = 0 <=> s = <<>>)
    OBVIOUS
  <2>2. Len(toSend[w]) \in Nat
    BY <1>1
  <2> HIDE DEF rest
  <2> QED
    BY <1>2, <2>1, <2>2
<1>4. /\ task[w] = "receive" => next = "return"
      /\ task[w] = "keepAlive" => next = "reset"
      /\ task[w] = "add" => next = IF rest = <<>> THEN "store" ELSE "send"
  <2>1. task[w] = "receive" \/ task[w] = "keepAlive" => Len(toSend[w]) = 1
    <3>1. \A f : Len(<<f>>) = 1
      OBVIOUS
    <3>2. /\ task[w] = "receive" => toSend[w] = <<Relayed(msg[w])>>
          /\ task[w] = "keepAlive" => toSend[w] = <<Named("KeepAlive")>>
      BY DEF Roles, ToSendFits
    <3> QED
      BY <3>1, <3>2
  <2>2. ~(1 > 1)
    OBVIOUS
  <2>3. After(w) = CASE task[w] = "receive" -> "return" [] task[w] = "add" -> "store"
                     [] task[w] = "keepAlive" -> "reset"
    BY DEF After
  <2> HIDE DEF rest
  <2> QED
    BY <1>1, <1>3, <2>1, <2>2, <2>3
<1>5. /\ toSend' = [toSend EXCEPT ![w] = rest] /\ pc' = [pc EXCEPT ![w] = next]
      /\ UNCHANGED <<task, msg, on>>
  BY DEF Sent
<1>6. task[w] = "add" => LastJoin(rest)
  <2> SUFFICES ASSUME task[w] = "add" PROVE LastJoin(rest)
    OBVIOUS
  <2>1. LastJoin(toSend[w])
    BY DEF Roles, ToSendFits, Adding, Sending
  <2>2. Len(JoinFrames) \in Nat /\ Len(rest) \in Nat
    BY <1>2, JoinTyped
  <2>3. \A k \in 1 .. Len(rest) : /\ k + 1 \in 1 .. Len(toSend[w])
          /\ Len(JoinFrames) - Len(toSend[w]) + (k + 1) = Len(JoinFrames) - Len(rest) + k
    <3>1. Len(toSend[w]) = Len(rest) + 1
      BY <1>1, <1>2, <2>2
    <3> HIDE DEF rest
    <3> QED
      BY <2>2, <3>1
  <2>4. Len(rest) <= Len(JoinFrames)
    <3>1. Len(toSend[w]) \in Nat /\ Len(toSend[w]) <= Len(JoinFrames)
      BY <1>1, <2>1 DEF LastJoin
    <3> HIDE DEF rest
    <3> QED
      BY <1>2, <2>2, <3>1
  <2> HIDE DEF rest
  <2>5. ASSUME NEW k \in 1 .. Len(rest)
        PROVE  rest[k] = JoinFrames[Len(JoinFrames) - Len(rest) + k]
    <3>1. rest[k] = toSend[w][k + 1]
      BY <1>2
    <3>2. toSend[w][k + 1] = JoinFrames[Len(JoinFrames) - Len(toSend[w]) + (k + 1)]
      BY <2>1, <2>3 DEF LastJoin
    <3> QED
      BY <2>3, <3>1, <3>2
  <2> QED
    BY <2>4, <2>5 DEF LastJoin
<1> HIDE DEF rest, next
<1>7. StepsFit' /\ TasksFit' /\ LastRead' /\ HandlerTypes'
  BY <1>1, <1>2, <1>4, <1>5 DEF IInv, Roles, StepsFit, TasksFit, LastRead, HandlerTypes,
    Sending, Handlers
<1>10. OneEach'
  <2>1. \A v \in Workers : task[v] = "keepAlive" => on[v] \in Clients
    BY DEF IInv, HandlersKnow, Roles, StepsFit
  <2>2. \A v \in Workers : task[v] = "keepAlive" => "timer" \notin due'[on[v]]
    BY <2>1 DEF Roles, OneEach, Timed
  <2>3. \A c \in Clients : place[c] = "lobby" => "timer" \notin due'[c]
    BY DEF Roles, OneEach, Timed
  <2> QED
    BY <1>5, <2>2, <2>3 DEF Roles, OneEach, Timed
<1>8. ToSendFits'
  <2> SUFFICES ASSUME NEW v \in Workers
               PROVE  ( /\ pc[v] = "lock" \/ Sending(v) => toSend[v] # <<>>
                        /\ task[v] = "receive" /\ Sending(v) => toSend[v] = <<Relayed(msg[v])>>
                        /\ task[v] = "keepAlive" /\ Sending(v) => toSend[v] = <<Named("KeepAlive")>>
                        /\ Adding(v) => LastJoin(toSend[v])
                        /\ pc[v] = "store" => toSend[v] = <<>> )'
    BY DEF ToSendFits
  <2>1. CASE v = w
    BY <1>1, <1>2, <1>4, <1>5, <1>6, <2>1 DEF IInv, Roles, HandlerTypes, Sending, Adding
  <2>2. CASE v # w
    BY <1>5, <2>2 DEF IInv, Roles, HandlerTypes, ToSendFits, Sending, Adding
  <2> QED
    BY <2>1, <2>2
<1> QED
  BY <1>7, <1>8, <1>10 DEF Roles
\* encrypt, or a frame dropped.
LEMMA SendRoles ==
  ASSUME IInv, Roles, SenderTypes, NEW w \in Workers, Send(w)
  PROVE  Roles'
<1>1. CASE ~Open(on[w])
  <2>1. /\ Sending(w) /\ Sent(w)
        /\ UNCHANGED <<mark, place, received, waiting, due, beats>>
    BY <1>1 DEF Send, Sending, linkVars, rosterVars, timerVars
  <2>2. mark \in [Workers -> Stamps] /\ due \in [Clients -> SUBSET Handlers]
    BY DEF Roles, HandlerTypes
  <2> QED
    BY <2>1, <2>2, SentRoles DEF Timed
<1>2. CASE Open(on[w])
  <2>1. on[w] \in Clients /\ Stamp(on[w]) \in Stamps
    BY DEF IInv, HandlersKnow, Send, SenderTypes, Stamp, Stamps
  <2>2. /\ pc[w] = "send" /\ pc' = [pc EXCEPT ![w] = "write"]
        /\ mark' = [mark EXCEPT ![w] = Stamp(on[w])]
        /\ UNCHANGED <<task, msg, on, toSend, place, received, waiting, due, beats>>
    BY <1>2 DEF Send, linkVars, rosterVars, timerVars
  <2> QED
    BY <2>1, <2>2 DEF IInv, Roles, StepsFit, TasksFit, ToSendFits, OneEach,
      LastRead, HandlerTypes, Sending, Adding, Timed, Handlers
<1> QED
  BY <1>1, <1>2
\* async_write.
LEMMA WriteRoles ==
  ASSUME IInv, Roles, NEW w \in Workers, Write(w)
  PROVE  Roles'
<1>1. /\ Sending(w) /\ Sent(w) /\ mark' = [mark EXCEPT ![w] = None]
      /\ due' = [due EXCEPT ![on[w]] = @ \cup {"write"}]
      /\ UNCHANGED <<place, received, waiting, beats>>
  BY DEF Write, Sending, linkVars, rosterVars
<1>2. /\ mark' \in [Workers -> Stamps] /\ due' \in [Clients -> SUBSET Handlers]
      /\ \A c \in Clients : Timed(c)' => Timed(c)
  BY <1>1 DEF Roles, HandlerTypes, Stamps, Timed, Handlers
<1> QED
  BY <1>1, <1>2, SentRoles
\* A datagram is read: no other is handled.
LEMMA ReceiveRoles ==
  ASSUME IInv, Roles, NEW w \in Workers, OnDataReceived(w)
  PROVE  Roles'
<1>1. PICK m \in Messages : LET d == [n |-> Len(received) + 1, id |-> m.id, player |-> m.player]
        IN  msg' = [msg EXCEPT ![w] = d] /\ received' = Append(received, d)
  BY DEF OnDataReceived, Receive
<1> DEFINE d == [n |-> Len(received) + 1, id |-> m.id, player |-> m.player]
<1>2. received \in Seq(Datagrams) /\ Len(received) \in Nat
  BY DEF Roles, HandlerTypes
<1>3. d \in Datagrams /\ d.n = Len(received) + 1
  <2>1. m.id \in MessageID /\ m.player \in Players
    BY LinkAssumption
  <2> QED
    BY <1>2, <2>1 DEF Datagrams
<1>4. msg' = [msg EXCEPT ![w] = d] /\ received' = Append(received, d)
  BY <1>1
<1> HIDE DEF d
<1>5. /\ received' \in Seq(Datagrams) /\ Len(received') = Len(received) + 1
      /\ Len(received) < MaxDatagrams
  BY <1>2, <1>3, <1>4 DEF OnDataReceived, Receive
<1>6. /\ pc' = [pc EXCEPT ![w] = "find"] /\ task' = [task EXCEPT ![w] = "receive"]
      /\ on' = [on EXCEPT ![w] = None] /\ toSend' = [toSend EXCEPT ![w] = <<>>]
      /\ waiting /\ ~waiting'
      /\ UNCHANGED <<mark, place, due, beats>>
  BY DEF OnDataReceived, Receive, Take, rosterVars, timerVars
<1>7. None \notin Clients /\ <<>> \in Seq(Frames) /\ MaxDatagrams \in Nat
  BY SenderAssumption, LinkAssumption
<1>8. \A v \in Workers : task[v] # "receive"
  BY <1>6 DEF Roles, OneEach
<1>9. waiting' \in BOOLEAN
  BY DEF OnDataReceived
<1>10. StepsFit' /\ TasksFit' /\ LastRead'
  BY <1>2, <1>3, <1>4, <1>5, <1>6, <1>7, <1>8 DEF IInv, Roles, StepsFit, TasksFit, LastRead,
    HandlerTypes, Sending, Handlers
<1>11. OneEach'
  BY <1>6, <1>8 DEF IInv, Roles, OneEach, Timed
<1>12. ToSendFits'
  BY <1>4, <1>6, <1>8 DEF IInv, Roles, ToSendFits, HandlerTypes, Sending, Adding
<1>13. HandlerTypes'
  BY <1>2, <1>5, <1>6, <1>7, <1>9 DEF Roles, HandlerTypes
<1> QED
  BY <1>10, <1>11, <1>12, <1>13 DEF Roles
\* The receive loop ends.
LEMMA FailureRoles ==
  ASSUME Roles, NEW w \in Workers, ReceiveFails(w)
  PROVE  Roles'
  BY DEF ReceiveFails, Roles, StepsFit, TasksFit, ToSendFits, OneEach, LastRead,
    HandlerTypes, Sending, Adding, Timed, workerVars, timerVars, rosterVars
\* A login is through.
LEMMA LoginRoles ==
  ASSUME IInv, Roles, NEW w \in Workers, NEW c \in Clients, OnPlayerLogin(w, c)
  PROVE  Roles'
<1>1. /\ pc[w] = "idle" /\ pc' = [pc EXCEPT ![w] = "lock"]
      /\ task' = [task EXCEPT ![w] = "add"] /\ on' = [on EXCEPT ![w] = c]
      /\ toSend' = [toSend EXCEPT ![w] = JoinFrames]
      /\ place[c] = "lobby" /\ place' = [place EXCEPT ![c] = "handoff"]
      /\ due' = [due EXCEPT ![c] = @ \cup {"write", "timer"}]
      /\ UNCHANGED <<msg, mark, received, waiting, beats>>
  BY DEF OnPlayerLogin, Take, linkVars
<1>2. \A v \in Workers : on[v] # c
  BY <1>1, SenderAssumption DEF Roles, TasksFit
<1>3. StepsFit' /\ TasksFit' /\ LastRead'
  BY <1>1, <1>2 DEF IInv, Roles, StepsFit, TasksFit, LastRead, Sending, Handlers
<1>4. OneEach'
  BY <1>1, <1>2 DEF IInv, Roles, OneEach, HandlerTypes, Timed
<1>5. ToSendFits'
  BY <1>1, JoinTyped DEF IInv, Roles, ToSendFits, HandlerTypes, Sending, Adding
<1>6. HandlerTypes'
  BY <1>1, JoinTyped DEF Roles, HandlerTypes, Handlers
<1> QED
  BY <1>3, <1>4, <1>5, <1>6 DEF Roles
\* The timer fires.
LEMMA KeepAliveRoles ==
  ASSUME IInv, Roles, NEW w \in Workers, NEW c \in Clients, KeepAlive(w, c)
  PROVE  Roles'
<1> DEFINE f == <<Named("KeepAlive")>>
<1>1. /\ pc[w] = "idle" /\ pc' = [pc EXCEPT ![w] = "send"]
      /\ task' = [task EXCEPT ![w] = "keepAlive"] /\ on' = [on EXCEPT ![w] = c]
      /\ toSend' = [toSend EXCEPT ![w] = f]
      /\ Timed(c) /\ due' = [due EXCEPT ![c] = @ \ {"timer"}]
      /\ beats < MaxKeepAlives /\ beats' = beats + 1
      /\ UNCHANGED <<msg, mark, received, waiting, place>>
  BY DEF KeepAlive, Ran, Timed, Take, linkVars, rosterVars
<1>2. f \in Seq(Frames) /\ f # <<>> /\ f = <<Named("KeepAlive")>>
  BY FramesTyped
<1>3. place[c] # "lobby"
  BY <1>1 DEF Roles, OneEach
<1> HIDE DEF f
<1>4. StepsFit' /\ TasksFit' /\ LastRead'
  BY <1>1, <1>3 DEF IInv, Roles, StepsFit, TasksFit, LastRead, Sending, Handlers
<1>5. OneEach'
  BY <1>1 DEF IInv, Roles, OneEach, HandlerTypes, Timed
<1>6. ToSendFits'
  BY <1>1, <1>2 DEF IInv, Roles, ToSendFits, HandlerTypes, Sending, Adding
<1>7. HandlerTypes'
  BY <1>1, <1>2, LinkAssumption DEF Roles, HandlerTypes
<1> QED
  BY <1>4, <1>5, <1>6, <1>7 DEF Roles
\* A handler of a connection goes to disconnect.
LEMMA FailsRoles ==
  ASSUME IInv, Roles, NEW w \in Workers, NEW c \in Clients, NEW h \in Handlers,
         HandlerFails(w, c, h)
  PROVE  Roles'
<1>1. /\ pc[w] = "idle" /\ pc' = [pc EXCEPT ![w] = "clear"]
      /\ task' = [task EXCEPT ![w] = h] /\ on' = [on EXCEPT ![w] = c]
      /\ toSend' = [toSend EXCEPT ![w] = <<>>]
      /\ place[c] # "lobby" /\ due' = [due EXCEPT ![c] = @ \ {h}]
      /\ UNCHANGED <<msg, mark, received, waiting, place, beats>>
  BY DEF HandlerFails, Ran, Take, linkVars, rosterVars
<1>2. <<>> \in Seq(Frames) /\ h \notin {"none", "receive", "add", "keepAlive"}
  BY DEF Handlers
<1>3. StepsFit' /\ TasksFit' /\ LastRead'
  BY <1>1, <1>2 DEF IInv, Roles, StepsFit, TasksFit, LastRead, Sending
<1>4. OneEach'
  BY <1>1, <1>2 DEF IInv, Roles, OneEach, HandlerTypes, Timed
<1>5. ToSendFits'
  BY <1>1, <1>2 DEF IInv, Roles, ToSendFits, HandlerTypes, Sending, Adding
<1>6. HandlerTypes'
  BY <1>1, <1>2 DEF Roles, HandlerTypes
<1> QED
  BY <1>3, <1>4, <1>5, <1>6 DEF Roles
\* One runs and does nothing.
LEMMA EndsRoles ==
  ASSUME IInv, Roles, NEW w \in Workers, NEW c \in Clients, NEW h \in Handlers,
         HandlerEnds(w, c, h)
  PROVE  Roles'
<1>1. /\ due' = [due EXCEPT ![c] = @ \ {h}]
      /\ UNCHANGED <<workerVars, place, received, waiting, beats>>
  BY DEF HandlerEnds, Ran, linkVars, rosterVars
<1>2. due \in [Clients -> SUBSET Handlers]
  BY DEF Roles, HandlerTypes
<1>3. due' \in [Clients -> SUBSET Handlers] /\ \A b \in Clients : Timed(b)' => Timed(b)
  BY <1>1, <1>2 DEF Timed
<1> QED
  BY <1>1, <1>3, StillRoles
-----------------------------------------------------------------------------
(* What the lines hold, whatever the order of the handlers' steps. *)

\* A connection that has ended, or has not begun, has nothing under way.
Quiet ==
  \A c \in Clients :
    (~alive[c] \/ place[c] \in {"lobby", "destroyed"}) => Idle(c)

\* The frames of addClient come first; what it has not sent yet is the rest.
JoinSoFar ==
  /\ \A c \in Clients : JoinRule(Line(c))
  /\ \A w \in Workers, c \in Clients : Adding(w) /\ on[w] = c /\ alive[c] =>
       Cardinality(Games(Line(c))) + Len(toSend[w]) = Len(JoinFrames)
  /\ \A c \in Clients : alive[c] /\ place[c] = "roster" =>
       Len(JoinFrames) <= Cardinality(Games(Line(c)))

\* The datagram that a handler has not passed on yet is in no line.
Arrived ==
  /\ \A c \in Clients : ArrivalRule(Line(c))
  /\ \A c \in Clients : \A i \in Starts(Line(c)) : Line(c)[i].frame.kind = "relayed" =>
       /\ Line(c)[i].frame.n <= Len(received)
       /\ \A w \in Workers : Calling(w) => Line(c)[i].frame.n < Len(received)

\* What is in a line was read from a node, or fired by the timer, or joined.
Budget ==
  /\ \A c \in Clients : Cardinality(Games(Line(c))) <= Len(JoinFrames) + Len(received)
  /\ \A c \in Clients, w \in Workers : Calling(w) =>
       Cardinality(Games(Line(c))) < Len(JoinFrames) + Len(received)
  /\ \A c \in Clients : Cardinality(Beats(Line(c))) <= beats
  /\ \A w \in Workers, c \in Clients : Beating(w) /\ on[w] = c =>
       Cardinality(Beats(Line(c))) < beats

\* The connections of gone lose their lines, the others keep theirs.
Kept(gone) ==
  /\ \A b \in Clients \ gone : Alike(Line(b), Line(b)') /\ (Idle(b) => Idle(b)')
  /\ \A b \in gone : Idle(b)' /\ Starts(Line(b)') = {}

\* Nothing is under way on a connection that ended.
LEMMA QuietKept ==
  ASSUME Quiet, NEW gone \in SUBSET Clients, Kept(gone),
         \A c \in Clients \ gone : ~alive'[c] \/ place'[c] \in {"lobby", "destroyed"} =>
           ~alive[c] \/ place[c] \in {"lobby", "destroyed"}
  PROVE  Quiet'
<1> SUFFICES ASSUME NEW c \in Clients, ~alive'[c] \/ place'[c] \in {"lobby", "destroyed"}
             PROVE  Idle(c)'
  BY DEF Quiet
<1> QED
  BY DEF Quiet, Kept
\* The order of joining.
LEMMA JoinKept ==
  ASSUME JoinSoFar, NEW gone \in SUBSET Clients, Kept(gone),
         \A w \in Workers, c \in Clients : Adding(w)' /\ on'[w] = c /\ alive'[c] =>
           /\ c \notin gone
           /\ Cardinality(Games(Line(c))) + Len(toSend'[w]) = Len(JoinFrames),
         \A c \in Clients : alive'[c] /\ place'[c] = "roster" =>
           c \notin gone /\ Len(JoinFrames) <= Cardinality(Games(Line(c)))
  PROVE  JoinSoFar'
<1>1. ASSUME NEW c \in Clients PROVE JoinRule(Line(c)')
  BY AlikeRules, EmptyRules DEF JoinSoFar, Kept
<1>2. \A c \in Clients \ gone : Games(Line(c)') = Games(Line(c))
  BY AlikeCounts DEF Kept
<1>3. ASSUME NEW w \in Workers, NEW c \in Clients, Adding(w)', on'[w] = c, alive'[c]
      PROVE  Cardinality(Games(Line(c)')) + Len(toSend'[w]) = Len(JoinFrames)
  BY <1>2, <1>3
<1>4. ASSUME NEW c \in Clients, alive'[c], place'[c] = "roster"
      PROVE  Len(JoinFrames) <= Cardinality(Games(Line(c)'))
  BY <1>2, <1>4
<1> QED
  BY <1>1, <1>3, <1>4 DEF JoinSoFar
\* The order of arrival.
LEMMA ArrivedKept ==
  ASSUME Arrived, NEW gone \in SUBSET Clients, Kept(gone), UNCHANGED received,
         \A w \in Workers : Calling(w)' => \E v \in Workers : Calling(v)
  PROVE  Arrived'
<1>1. ASSUME NEW c \in Clients PROVE ArrivalRule(Line(c)')
  BY AlikeRules, EmptyRules DEF Arrived, Kept
<1>2. ASSUME NEW c \in Clients, NEW i \in Starts(Line(c)'),
             Line(c)'[i].frame.kind = "relayed"
      PROVE  /\ Line(c)'[i].frame.n <= Len(received)
             /\ \A w \in Workers : Calling(w)' => Line(c)'[i].frame.n < Len(received)
  <2>1. i \in Starts(Line(c)) /\ Line(c)'[i] = Line(c)[i]
    BY <1>2 DEF Kept, Alike
  <2> QED
    BY <1>2, <2>1 DEF Arrived
<1> QED
  BY <1>1, <1>2 DEF Arrived
\* The bound of a line.
LEMMA BudgetKept ==
  ASSUME Budget, HandlerTypes, SenderTypes, NEW gone \in SUBSET Clients, Kept(gone),
         UNCHANGED <<received, beats>>,
         \A w \in Workers : Calling(w)' => \E v \in Workers : Calling(v),
         \A w \in Workers : Beating(w)' => Beating(w) /\ on'[w] = on[w]
  PROVE  Budget'
<1>1. /\ Len(received) \in Nat /\ Len(JoinFrames) \in Nat /\ Len(JoinFrames) > 0 /\ beats \in Nat
  BY JoinTyped, LinkAssumption DEF HandlerTypes
<1>2. \A c \in Clients \ gone : Games(Line(c)') = Games(Line(c)) /\ Beats(Line(c)') = Beats(Line(c))
  BY AlikeCounts DEF Kept
<1>3. \A c \in gone : Cardinality(Games(Line(c)')) = 0 /\ Cardinality(Beats(Line(c)')) = 0
  BY EmptyRules DEF Kept
<1>4. ASSUME NEW c \in Clients
      PROVE  /\ Cardinality(Games(Line(c)')) <= Len(JoinFrames) + Len(received)
             /\ \A w \in Workers : Calling(w)' =>
                  Cardinality(Games(Line(c)')) < Len(JoinFrames) + Len(received)
             /\ Cardinality(Beats(Line(c)')) <= beats
  <2>1. CASE c \in gone
    BY <1>1, <1>3, <2>1
  <2>2. CASE c \notin gone
    BY <1>2, <2>2 DEF Budget
  <2> QED
    BY <2>1, <2>2
<1>5. ASSUME NEW w \in Workers, NEW c \in Clients, Beating(w)', on'[w] = c
      PROVE  Cardinality(Beats(Line(c)')) < beats
  <2>1. Beating(w) /\ on[w] = c
    BY <1>5
  <2>2. Cardinality(Beats(Line(c))) < beats /\ Cardinality(Beats(Line(c))) \in Nat
    BY <2>1, LinesTyped, LineCounts DEF Budget
  <2>3. CASE c \in gone
    BY <1>1, <1>3, <2>2, <2>3
  <2>4. CASE c \notin gone
    BY <1>2, <2>2, <2>4
  <2> QED
    BY <2>3, <2>4
<1> QED
  BY <1>4, <1>5 DEF Budget
Sound    == SenderTypes /\ Whole /\ Room
LinesInv == Quiet /\ JoinSoFar /\ Arrived /\ Budget
LinkInv  == IInv /\ Roles /\ Sound /\ LinesInv

\* No handler begins, and none sends.
Unsent ==
  \A w \in Workers :
    /\ Calling(w)' => Calling(w)
    /\ Beating(w)' => Beating(w) /\ on'[w] = on[w]
    /\ Adding(w)' => Adding(w) /\ on'[w] = on[w] /\ toSend'[w] = toSend[w]

\* A step that begins no handler and sends nothing.
LEMMA KeptLines ==
  ASSUME LinkInv, IInv', Roles', NEW gone \in SUBSET Clients, Kept(gone),
         UNCHANGED <<received, beats>>,
         \A c \in Clients \ gone :
           alive'[c] = alive[c] /\ (place'[c] = place[c] \/ place'[c] = "adding"),
         \A c \in gone : ~alive'[c] \/ place'[c] = "destroyed",
         Unsent
  PROVE  LinesInv'
<1>1. Quiet /\ JoinSoFar /\ Arrived /\ Budget /\ HandlerTypes /\ SenderTypes
  BY DEF LinkInv, LinesInv, Roles, Sound
<1>2. Quiet'
  BY <1>1, QuietKept
<1>u. /\ \A w \in Workers :
            /\ Calling(w)' => Calling(w)
            /\ Beating(w)' => Beating(w) /\ on'[w] = on[w]
            /\ Adding(w)' => Adding(w) /\ on'[w] = on[w] /\ toSend'[w] = toSend[w]
  BY DEF Unsent
<1>3. JoinSoFar'
  <2>1. ASSUME NEW w \in Workers, NEW c \in Clients, Adding(w)', on'[w] = c, alive'[c]
        PROVE  /\ c \notin gone
               /\ Cardinality(Games(Line(c))) + Len(toSend'[w]) = Len(JoinFrames)
    <3>1. c \notin gone
      BY <2>1 DEF IInv, LoginsOwn, Adding
    <3> QED
      BY <1>1, <1>u, <2>1, <3>1 DEF JoinSoFar
  <2>2. ASSUME NEW c \in Clients, alive'[c], place'[c] = "roster"
        PROVE  c \notin gone /\ Len(JoinFrames) <= Cardinality(Games(Line(c)))
    BY <1>1, <2>2 DEF JoinSoFar
  <2> QED
    BY <1>1, <2>1, <2>2, JoinKept
<1>4. Arrived'
  BY <1>1, <1>u, ArrivedKept
<1>6. Budget'
  BY <1>1, <1>u, BudgetKept
<1> QED
  BY <1>2, <1>3, <1>4, <1>6 DEF LinesInv

\* A step that leaves the connections as well.
LEMMA StillLines ==
  ASSUME LinkInv, IInv', Roles', Kept({}), Unsent,
         UNCHANGED <<received, beats, alive, place>>
  PROVE  LinesInv'
<1>1. {} \in SUBSET Clients
  OBVIOUS
<1> QED
  BY <1>1, KeptLines
\* Nothing happens to the lines.
LEMMA StillKept ==
  ASSUME Sound, UNCHANGED senderVars
  PROVE  Sound' /\ Kept({})
<1>1. SenderTypes' /\ Whole' /\ Room' /\ \A b \in Clients : Line(b)' = Line(b)
  BY DEF Sound, senderVars, SenderTypes, Whole, Room, Line
<1>2. \A b \in Clients : Idle(b) => Idle(b)'
  BY DEF senderVars, Idle
<1> QED
  BY <1>1, <1>2, SameAlike DEF Sound, Kept
\* The process ends.
LEMMA FaultLines ==
  ASSUME LinkInv, IInv', Roles', NEW w \in Workers, Fault(w)
  PROVE  Sound' /\ LinesInv'
<1>1. UNCHANGED <<senderVars, linkVars, rosterVars, timerVars, workerVars>>
  BY DEF Fault
<1>2. Sound' /\ Kept({})
  BY <1>1, StillKept DEF LinkInv
<1>3. UNCHANGED <<received, beats, alive, place>>
  BY <1>1 DEF senderVars, linkVars, rosterVars, timerVars, workerVars
<1>4. Unsent
  BY <1>1 DEF Unsent, workerVars, Calling, Beating, Adding
<1> QED
  BY <1>2, <1>3, <1>4, StillLines
\* The lookups.
LEMMA FindLines ==
  ASSUME LinkInv, IInv', Roles', NEW w \in Workers, Find(w)
  PROVE  Sound' /\ LinesInv'
<1>1. /\ UNCHANGED <<senderVars, received, place, beats, mark, task, on, toSend>>
      /\ pc[w] = "find" /\ task[w] = "receive"
      /\ pc' = [pc EXCEPT ![w] = "call"] \/ pc' = [pc EXCEPT ![w] = "rearm"]
  BY DEF Find, Goto, LinkInv, IInv, HandlersKnow, linkVars, rosterVars, timerVars
<1>2. Sound' /\ Kept({})
  BY <1>1, StillKept DEF LinkInv
<1>3. UNCHANGED alive
  BY <1>1 DEF senderVars
<1>4. Unsent
  BY <1>1 DEF Unsent, LinkInv, IInv, Calling, Beating, Adding
<1> QED
  BY <1>1, <1>2, <1>3, <1>4, StillLines
\* The call.
LEMMA CallLines ==
  ASSUME LinkInv, IInv', Roles', NEW w \in Workers, Call(w)
  PROVE  Sound' /\ LinesInv'
<1>1. CASE clients[msg[w].player] = None
  BY <1>1, FaultLines DEF Call
<1>2. CASE clients[msg[w].player] # None
  <2>1. /\ UNCHANGED <<senderVars, received, place, beats, mark, task>>
        /\ pc[w] = "call" /\ task[w] = "receive" /\ pc' = [pc EXCEPT ![w] = "send"]
        /\ \A v \in Workers \ {w} : on'[v] = on[v] /\ toSend'[v] = toSend[v]
    BY <1>2 DEF Call, LinkInv, IInv, HandlersKnow, Roles, HandlerTypes, linkVars,
      rosterVars, timerVars
  <2>2. Sound' /\ Kept({})
    BY <2>1, StillKept DEF LinkInv
  <2>3. UNCHANGED alive
    BY <2>1 DEF senderVars
  <2>4. Unsent
    BY <2>1 DEF Unsent, LinkInv, IInv, Calling, Beating, Adding
  <2> QED
    BY <2>1, <2>2, <2>3, <2>4, StillLines
<1> QED
  BY <1>1, <1>2
\* The receive loop ends.
LEMMA FailureLines ==
  ASSUME LinkInv, IInv', Roles', NEW w \in Workers, ReceiveFails(w)
  PROVE  Sound' /\ LinesInv'
<1>1. UNCHANGED <<senderVars, received, place, beats, workerVars>>
  BY DEF ReceiveFails, rosterVars, timerVars
<1>2. Sound' /\ Kept({})
  BY <1>1, StillKept DEF LinkInv
<1>3. UNCHANGED alive
  BY <1>1 DEF senderVars, workerVars
<1>4. Unsent
  BY <1>1 DEF Unsent, workerVars, Calling, Beating, Adding
<1> QED
  BY <1>1, <1>2, <1>3, <1>4, StillLines
\* The kernel moves the boundary, and no more.
LEMMA KernelLines ==
  ASSUME LinkInv, IInv', Roles', NEW c \in Clients, Kernel(c)
  PROVE  Sound' /\ LinesInv'
<1>1. /\ UNCHANGED <<received, place, beats, workerVars, alive, cipher, crossed>>
      /\ Writable(c) \/ Resume(c)
  BY DEF Kernel, Writable, Resume, linkVars, rosterVars, timerVars
<1>2. Sound' /\ Kept({})
  BY <1>1, WritableLines, ResumeLines DEF LinkInv, Sound, Kept
<1>3. Unsent
  BY <1>1 DEF Unsent, workerVars, Calling, Beating, Adding
<1> QED
  BY <1>1, <1>2, <1>3, StillLines
\* The end of a handler.
LEMMA DoneKept ==
  ASSUME LinkInv, NEW w \in Workers, NEW gone \in SUBSET Clients,
         pc[w] \notin {"send", "write"}, Done(w, gone)
  PROVE  Sound' /\ Kept(gone) /\ Unsent /\ UNCHANGED alive
<1>1. /\ pc' = [pc EXCEPT ![w] = "idle"] /\ task' = [task EXCEPT ![w] = "none"]
      /\ on' = [on EXCEPT ![w] = None]
      /\ UNCHANGED <<alive, toSend>> /\ Emptied(gone, w)
  BY DEF Done
<1>2. SenderTypes /\ Whole /\ Room
  BY DEF LinkInv, Sound
<1>3. alive' \in [Clients -> BOOLEAN]
  BY <1>1, <1>2 DEF SenderTypes
<1>4. /\ SenderTypes' /\ Whole' /\ Room'
      /\ \A b \in Clients \ gone : Alike(Line(b), Line(b)') /\ (Idle(b) => Idle(b)')
      /\ \A b \in gone : Idle(b)' /\ Starts(Line(b)') = {}
  BY <1>1, <1>2, <1>3, EmptiedLines
<1>5. Unsent
  BY <1>1 DEF Unsent, LinkInv, IInv, Calling, Beating, Adding
<1> QED
  BY <1>1, <1>4, <1>5 DEF Sound, Kept
\* A handler ends that has sent all it had.
LEMMA DoneLines ==
  ASSUME LinkInv, IInv', Roles', NEW w \in Workers, NEW gone \in SUBSET Clients,
         pc[w] \notin {"send", "write"}, Done(w, gone), UNCHANGED <<received, beats>>,
         \A c \in Clients \ gone : place'[c] = place[c],
         \A c \in gone : place'[c] = "destroyed"
  PROVE  Sound' /\ LinesInv'
  BY DoneKept, KeptLines
\* The end of a datagram.
LEMMA RearmLines ==
  ASSUME LinkInv, IInv', Roles', NEW w \in Workers, Rearm(w)
  PROVE  Sound' /\ LinesInv'
<1>1. /\ pc[w] = "rearm" /\ Done(w, {}) /\ UNCHANGED <<received, place, beats>>
      /\ {} \in SUBSET Clients
  BY DEF Rearm, rosterVars, timerVars
<1> QED
  BY <1>1, DoneLines
\* The end of keepAlive.
LEMMA ResetLines ==
  ASSUME LinkInv, IInv', Roles', NEW w \in Workers, Reset(w)
  PROVE  Sound' /\ LinesInv'
<1>1. /\ pc[w] = "reset" /\ Done(w, {}) /\ UNCHANGED <<received, place, beats>>
      /\ {} \in SUBSET Clients
  BY DEF Reset, linkVars, rosterVars
<1> QED
  BY <1>1, DoneLines
\* The end of disconnect, and of the Client in the slot.
LEMMA EraseLines ==
  ASSUME LinkInv, IInv', Roles', NEW w \in Workers, Erase(w)
  PROVE  Sound' /\ LinesInv'
<1> DEFINE player == Account[on[w]]
           old == {clients[player]} \ {None}
<1>1. player \in Players
  BY LinkAssumption DEF LinkInv, IInv, HandlersKnow, Erase
<1>2. /\ pc[w] = "erase" /\ Done(w, old)
      /\ place' = [p \in Clients |-> IF p \in old THEN "destroyed" ELSE place[p]]
      /\ UNCHANGED <<received, beats>>
  BY DEF Erase, linkVars, timerVars
<1>3. old \in SUBSET Clients
  BY <1>1 DEF LinkInv, IInv, SlotsOwn
<1> HIDE DEF player, old
<1>4. /\ \A c \in Clients \ old : place'[c] = place[c]
      /\ \A c \in old : place'[c] = "destroyed"
  BY <1>2, <1>3
<1> QED
  BY <1>2, <1>3, <1>4, DoneLines
\* Steps within a handler that close a connection or none, and send nothing.
LEMMA WithinLines ==
  ASSUME LinkInv, IInv', Roles', NEW w \in Workers, NEW holder \in Workers \cup {None},
         NEW gone \in SUBSET Clients, Emptied(gone, holder),
         pc[w] \in {"return", "clear"}, NEW step \in {"rearm", "erase"}, Goto(w, step),
         alive' \in [Clients -> BOOLEAN], \A c \in gone : ~alive'[c],
         \A c \in Clients \ gone : alive'[c] = alive[c],
         UNCHANGED <<received, beats, place>>
  PROVE  Sound' /\ LinesInv'
<1>1. SenderTypes /\ Whole /\ Room
  BY DEF LinkInv, Sound
<1>2. /\ SenderTypes' /\ Whole' /\ Room'
      /\ \A b \in Clients \ gone : Alike(Line(b), Line(b)') /\ (Idle(b) => Idle(b)')
      /\ \A b \in gone : Idle(b)' /\ Starts(Line(b)') = {}
  BY <1>1, EmptiedLines
<1>3. pc' = [pc EXCEPT ![w] = step] /\ UNCHANGED <<task, on, toSend>>
  BY DEF Goto
<1>4. Unsent
  BY <1>3 DEF Unsent, LinkInv, IInv, Calling, Beating, Adding
<1>5. Sound' /\ Kept(gone)
  BY <1>2 DEF Sound, Kept
<1> QED
  BY <1>4, <1>5, KeptLines
\* handleMessage is over.
LEMMA ReturnLines ==
  ASSUME LinkInv, IInv', Roles', NEW w \in Workers, Return(w)
  PROVE  Sound' /\ LinesInv'
<1>1. /\ pc[w] = "return" /\ Emptied({}, w) /\ Goto(w, "rearm") /\ {} \in SUBSET Clients
      /\ UNCHANGED <<alive, received, beats, place>>
  BY DEF Return, linkVars, rosterVars, timerVars
<1>2. alive' \in [Clients -> BOOLEAN]
  BY <1>1 DEF LinkInv, Sound, SenderTypes
<1> QED
  BY <1>1, <1>2, WithinLines
\* A connection ends: its line with it.
LEMMA ClearLines ==
  ASSUME LinkInv, IInv', Roles', NEW w \in Workers, Clear(w)
  PROVE  Sound' /\ LinesInv'
<1>1. /\ pc[w] = "clear" /\ Emptied({on[w]}, None) /\ Goto(w, "erase")
      /\ alive' = [alive EXCEPT ![on[w]] = FALSE]
      /\ UNCHANGED <<received, beats, place>>
  BY DEF Clear, CloseSocket, linkVars, rosterVars, timerVars
<1>2. {on[w]} \in SUBSET Clients
  BY <1>1 DEF LinkInv, IInv, HandlersKnow
<1>3. /\ alive' \in [Clients -> BOOLEAN] /\ \A c \in {on[w]} : ~alive'[c]
      /\ \A c \in Clients \ {on[w]} : alive'[c] = alive[c]
  BY <1>1, <1>2 DEF LinkInv, Sound, SenderTypes
<1>4. None \in Workers \cup {None}
  OBVIOUS
<1> DEFINE gone == {on[w]}
<1>5. gone \in SUBSET Clients /\ Emptied(gone, None)
      /\ (\A c \in gone : ~alive'[c]) /\ \A c \in Clients \ gone : alive'[c] = alive[c]
  BY <1>1, <1>2, <1>3
<1> HIDE DEF gone
<1> QED
  BY <1>1, <1>3, <1>4, <1>5, WithinLines
\* A login takes the lock.
LEMMA AddLines ==
  ASSUME LinkInv, IInv', Roles', NEW w \in Workers, AddClient(w)
  PROVE  Sound' /\ LinesInv'
<1>1. /\ pc[w] = "lock" /\ pc' = [pc EXCEPT ![w] = "send"]
      /\ place' = [place EXCEPT ![on[w]] = "adding"]
      /\ UNCHANGED <<senderVars, received, beats, task, on, toSend>>
  BY DEF AddClient, Goto, linkVars, timerVars
<1>2. task[w] = "add" /\ on[w] \in Clients
  BY <1>1 DEF LinkInv, IInv, HandlersKnow
<1>3. Sound' /\ Kept({}) /\ {} \in SUBSET Clients
  BY <1>1, StillKept DEF LinkInv
<1>4. UNCHANGED alive /\ \A c \in Clients : place'[c] = place[c] \/ place'[c] = "adding"
  BY <1>1, <1>2 DEF LinkInv, IInv, senderVars
<1>5. Unsent
  BY <1>1, <1>2 DEF Unsent, LinkInv, IInv, Calling, Beating, Adding
<1> QED
  BY <1>1, <1>3, <1>4, <1>5, KeptLines
\* A handler goes to disconnect, or does nothing.
LEMMA FailsLines ==
  ASSUME LinkInv, IInv', Roles', NEW w \in Workers, NEW c \in Clients, NEW h \in Handlers,
         HandlerFails(w, c, h) \/ HandlerEnds(w, c, h)
  PROVE  Sound' /\ LinesInv'
<1>1. UNCHANGED <<senderVars, received, beats, place>>
  BY DEF HandlerFails, HandlerEnds, linkVars, rosterVars
<1>2. Sound' /\ Kept({})
  BY <1>1, StillKept DEF LinkInv
<1>3. UNCHANGED alive
  BY <1>1 DEF senderVars
<1>4. CASE HandlerEnds(w, c, h)
  <2>1. UNCHANGED <<pc, task, on, toSend>>
    BY <1>4 DEF HandlerEnds, workerVars
  <2>2. Unsent
    BY <2>1 DEF Unsent, Calling, Beating, Adding
  <2> QED
    BY <1>1, <1>2, <1>3, <2>2, StillLines
<1>5. CASE HandlerFails(w, c, h)
  <2>1. /\ pc' = [pc EXCEPT ![w] = "clear"] /\ task' = [task EXCEPT ![w] = h]
        /\ on' = [on EXCEPT ![w] = c] /\ toSend' = [toSend EXCEPT ![w] = <<>>]
    BY <1>5 DEF HandlerFails, Take
  <2>2. Unsent
    BY <2>1 DEF Unsent, LinkInv, IInv, Calling, Beating, Adding, Handlers
  <2> QED
    BY <1>1, <1>2, <1>3, <2>2, StillLines
<1> QED
  BY <1>4, <1>5
\* The end of addClient: all of its frames are in the line.
LEMMA StoreLines ==
  ASSUME LinkInv, IInv', Roles', NEW w \in Workers, Store(w)
  PROVE  Sound' /\ LinesInv'
<1> DEFINE c == on[w]
           old == {clients[Account[c]]} \ {None}
<1>1. /\ c \in Clients /\ Account[c] \in Players
      /\ pc[w] = "store" /\ task[w] = "add" /\ toSend[w] = <<>> /\ place[c] = "adding"
  BY LinkAssumption DEF LinkInv, IInv, HandlersKnow, LoginsOwn, Roles, ToSendFits, Store
<1>2. /\ Done(w, old)
      /\ place' = [p \in Clients |-> IF p = c THEN "roster"
                    ELSE IF p \in old THEN "destroyed" ELSE place[p]]
      /\ UNCHANGED <<received, beats>>
  BY DEF Store, linkVars
<1>3. old \in SUBSET Clients /\ \A b \in old : place[b] = "roster"
  BY <1>1 DEF LinkInv, IInv, SlotsOwn
<1>4. /\ Quiet /\ JoinSoFar /\ Arrived /\ Budget /\ HandlerTypes
      /\ SenderTypes /\ TasksFit
  BY DEF LinkInv, LinesInv, Roles, Sound
<1>5. alive[c] => Len(JoinFrames) <= Cardinality(Games(Line(c)))
  <2> SUFFICES ASSUME alive[c] PROVE Len(JoinFrames) <= Cardinality(Games(Line(c)))
    OBVIOUS
  <2>1. Cardinality(Games(Line(c))) + Len(toSend[w]) = Len(JoinFrames)
    <3> HIDE DEF c
    <3> QED
      BY <1>1, <1>4 DEF JoinSoFar, Adding, c
  <2>2. Cardinality(Games(Line(c))) \in Nat /\ Len(toSend[w]) = 0
    BY <1>1, <1>4, LinesTyped, LineCounts
  <2> QED
    BY <2>1, <2>2
<1> HIDE DEF c, old
<1>6. Sound' /\ Kept(old) /\ Unsent /\ UNCHANGED alive
  BY <1>1, <1>2, <1>3, DoneKept
<1>7. c \notin old
  BY <1>1, <1>3
<1>8. /\ place'[c] = "roster" /\ \A b \in old : place'[b] = "destroyed"
      /\ \A b \in Clients \ old : b # c => place'[b] = place[b]
  BY <1>1, <1>2, <1>3, <1>7
<1>u. /\ \A v \in Workers :
            /\ Calling(v)' => Calling(v)
            /\ Beating(v)' => Beating(v) /\ on'[v] = on[v]
            /\ Adding(v)' => Adding(v) /\ on'[v] = on[v] /\ toSend'[v] = toSend[v]
  BY <1>6 DEF Unsent
<1>9. Quiet'
  BY <1>1, <1>3, <1>4, <1>6, <1>8, QuietKept
<1>10. JoinSoFar'
  <2>1. ASSUME NEW v \in Workers, NEW b \in Clients, Adding(v)', on'[v] = b, alive'[b]
        PROVE  /\ b \notin old
               /\ Cardinality(Games(Line(b))) + Len(toSend'[v]) = Len(JoinFrames)
    <3>1. b \notin old
      BY <1>3, <1>u, <2>1 DEF LinkInv, IInv, LoginsOwn, Adding
    <3> QED
      BY <1>4, <1>6, <1>u, <2>1, <3>1 DEF JoinSoFar
  <2>2. ASSUME NEW b \in Clients, alive'[b], place'[b] = "roster"
        PROVE  b \notin old /\ Len(JoinFrames) <= Cardinality(Games(Line(b)))
    <3>1. b \notin old
      BY <1>8, <2>2
    <3>2. CASE b = c
      BY <1>5, <1>6, <2>2, <3>1, <3>2
    <3>3. CASE b # c
      BY <1>4, <1>6, <1>8, <2>2, <3>1, <3>3 DEF JoinSoFar
    <3> QED
      BY <3>1, <3>2, <3>3
  <2> QED
    BY <1>3, <1>4, <1>6, <2>1, <2>2, JoinKept
<1>11. Arrived'
  BY <1>2, <1>3, <1>4, <1>6, <1>u, ArrivedKept
<1>13. Budget'
  BY <1>2, <1>3, <1>4, <1>6, <1>u, BudgetKept
<1> QED
  BY <1>6, <1>9, <1>10, <1>11, <1>13 DEF LinesInv
\* A keep-alive is due: it is in no line yet.
LEMMA KeepAliveLines ==
  ASSUME LinkInv, IInv', Roles', NEW w \in Workers, NEW c \in Clients, KeepAlive(w, c)
  PROVE  Sound' /\ LinesInv'
<1>1. /\ pc[w] = "idle" /\ pc' = [pc EXCEPT ![w] = "send"]
      /\ task' = [task EXCEPT ![w] = "keepAlive"] /\ on' = [on EXCEPT ![w] = c]
      /\ \A v \in Workers \ {w} : toSend'[v] = toSend[v]
      /\ beats' = beats + 1
      /\ UNCHANGED <<senderVars, mark, received, place>>
  BY DEF KeepAlive, Take, LinkInv, Roles, HandlerTypes, linkVars, rosterVars
<1>2. /\ Quiet /\ JoinSoFar /\ Arrived /\ Budget /\ HandlerTypes
      /\ SenderTypes /\ pc \in [Workers -> Steps] /\ beats \in Nat
      /\ task \in [Workers -> Tasks]
      /\ on \in [Workers -> Clients \cup {None}]
  BY DEF LinkInv, LinesInv, Roles, Sound, IInv, HandlerTypes
<1>3. Sound' /\ Kept({}) /\ {} \in SUBSET Clients
  BY <1>1, StillKept DEF LinkInv
<1>4. UNCHANGED alive
  BY <1>1 DEF senderVars
<1>5. /\ \A v \in Workers : Calling(v)' => Calling(v)
      /\ \A v \in Workers : Adding(v)' => Adding(v) /\ on'[v] = on[v] /\ toSend'[v] = toSend[v]
      /\ \A v \in Workers : Beating(v)' => (Beating(v) /\ on'[v] = on[v]) \/ v = w
  BY <1>1, <1>2 DEF Calling, Beating, Adding
<1>6. Quiet'
  BY <1>1, <1>2, <1>3, <1>4, QuietKept
<1>7. JoinSoFar'
  <2>1. ASSUME NEW v \in Workers, NEW b \in Clients, Adding(v)', on'[v] = b, alive'[b]
        PROVE  b \notin {} /\ Cardinality(Games(Line(b))) + Len(toSend'[v]) = Len(JoinFrames)
    BY <1>2, <1>4, <1>5, <2>1 DEF JoinSoFar
  <2>2. ASSUME NEW b \in Clients, alive'[b], place'[b] = "roster"
        PROVE  b \notin {} /\ Len(JoinFrames) <= Cardinality(Games(Line(b)))
    BY <1>1, <1>2, <1>4, <2>2 DEF JoinSoFar
  <2> QED
    BY <1>2, <1>3, <2>1, <2>2, JoinKept
<1>8. Arrived'
  BY <1>1, <1>2, <1>3, <1>5, ArrivedKept
<1>10. Budget'
  <2>1. \A b \in Clients : Games(Line(b)') = Games(Line(b)) /\ Beats(Line(b)') = Beats(Line(b))
    BY <1>3, AlikeCounts DEF Kept
  <2>2. \A b \in Clients : Cardinality(Beats(Line(b))) \in Nat
    BY <1>2, LinesTyped, LineCounts
  <2>3. ASSUME NEW b \in Clients
        PROVE  /\ Cardinality(Games(Line(b)')) <= Len(JoinFrames) + Len(received)
               /\ \A v \in Workers : Calling(v)' =>
                    Cardinality(Games(Line(b)')) < Len(JoinFrames) + Len(received)
    BY <1>2, <1>5, <2>1 DEF Budget
  <2>4. ASSUME NEW b \in Clients PROVE Cardinality(Beats(Line(b)')) < beats'
    <3>1. Cardinality(Beats(Line(b))) <= beats /\ Cardinality(Beats(Line(b))) \in Nat
      BY <1>2, <2>2 DEF Budget
    <3> QED
      BY <1>1, <1>2, <2>1, <3>1
  <2>5. \A b \in Clients : Cardinality(Beats(Line(b)')) <= beats'
    <3>1. \A b \in Clients : Cardinality(Beats(Line(b)')) \in Nat
      BY <2>1, <2>2
    <3>2. beats' \in Nat
      BY <1>1, <1>2
    <3> QED
      BY <2>4, <3>1, <3>2
  <2> QED
    BY <1>1, <2>3, <2>4, <2>5 DEF Budget
<1> QED
  BY <1>3, <1>6, <1>7, <1>8, <1>10 DEF LinesInv

\* A datagram is read: it is later than all that are in a line.
LEMMA ReceiveLines ==
  ASSUME LinkInv, IInv', Roles', NEW w \in Workers, OnDataReceived(w)
  PROVE  Sound' /\ LinesInv'
<1>1. /\ pc[w] = "idle" /\ pc' = [pc EXCEPT ![w] = "find"]
      /\ task' = [task EXCEPT ![w] = "receive"] /\ on' = [on EXCEPT ![w] = None]
      /\ \A v \in Workers \ {w} : toSend'[v] = toSend[v]
      /\ UNCHANGED <<senderVars, mark, beats, place>>
  BY DEF OnDataReceived, Receive, Take, LinkInv, Roles, HandlerTypes, rosterVars, timerVars
<1>2. /\ Quiet /\ JoinSoFar /\ Arrived /\ Budget /\ HandlerTypes
      /\ SenderTypes /\ pc \in [Workers -> Steps]
      /\ task \in [Workers -> Tasks]
      /\ on \in [Workers -> Clients \cup {None}]
  BY DEF LinkInv, LinesInv, Roles, Sound, IInv
<1>l. Len(received) \in Nat /\ Len(received') = Len(received) + 1
  <2>1. received \in Seq(Datagrams) /\ received' \in Seq(Datagrams)
    BY <1>2 DEF Roles, HandlerTypes
  <2>2. \E d : received' = Append(received, d)
    BY DEF OnDataReceived, Receive
  <2> QED
    BY <2>1, <2>2
<1>3. Sound' /\ Kept({}) /\ {} \in SUBSET Clients
  BY <1>1, StillKept DEF LinkInv
<1>4. UNCHANGED alive /\ \A b \in Clients : Line(b)' = Line(b)
  BY <1>1 DEF senderVars, Line
<1>5. /\ \A v \in Workers : Adding(v)' => Adding(v) /\ on'[v] = on[v] /\ toSend'[v] = toSend[v]
      /\ \A v \in Workers : Beating(v)' => Beating(v) /\ on'[v] = on[v]
  BY <1>1, <1>2 DEF Beating, Adding
<1>6. Quiet'
  BY <1>1, <1>2, <1>3, <1>4, QuietKept
<1>7. JoinSoFar'
  <2>1. ASSUME NEW v \in Workers, NEW b \in Clients, Adding(v)', on'[v] = b, alive'[b]
        PROVE  b \notin {} /\ Cardinality(Games(Line(b))) + Len(toSend'[v]) = Len(JoinFrames)
    BY <1>2, <1>4, <1>5, <2>1 DEF JoinSoFar
  <2>2. ASSUME NEW b \in Clients, alive'[b], place'[b] = "roster"
        PROVE  b \notin {} /\ Len(JoinFrames) <= Cardinality(Games(Line(b)))
    BY <1>1, <1>2, <1>4, <2>2 DEF JoinSoFar
  <2> QED
    BY <1>2, <1>3, <2>1, <2>2, JoinKept
<1>8. Arrived'
  <2>1. ASSUME NEW b \in Clients, NEW i \in Starts(Line(b)), Line(b)[i].frame.kind = "relayed"
        PROVE  Line(b)[i].frame.n < Len(received')
    <3>1. Line(b)[i].frame.n <= Len(received)
      BY <1>2, <2>1 DEF Arrived
    <3>2. Line(b)[i].frame.n \in Nat
      BY <1>2, <2>1, LinesTyped, StartTyped
    <3> QED
      BY <1>l, <3>1, <3>2
  <2>2. ASSUME NEW b \in Clients, NEW i \in Starts(Line(b)), Line(b)[i].frame.kind = "relayed"
        PROVE  Line(b)[i].frame.n <= Len(received')
    <3>1. Line(b)[i].frame.n \in Nat
      BY <1>2, <2>2, LinesTyped, StartTyped
    <3> QED
      BY <1>l, <2>1, <2>2, <3>1
  <2>3. \A b \in Clients : ArrivalRule(Line(b))
    BY <1>2 DEF Arrived
  <2> QED
    BY <1>4, <2>1, <2>2, <2>3 DEF Arrived
<1>10. Budget'
  <2>1. ASSUME NEW b \in Clients
        PROVE  Cardinality(Games(Line(b))) < Len(JoinFrames) + Len(received')
    <3>1. /\ Cardinality(Games(Line(b))) <= Len(JoinFrames) + Len(received)
          /\ Cardinality(Games(Line(b))) \in Nat /\ Len(JoinFrames) \in Nat
      BY <1>2, LinesTyped, LineCounts, JoinTyped DEF Budget
    <3> QED
      BY <1>l, <3>1
  <2>2. ASSUME NEW b \in Clients
        PROVE  Cardinality(Games(Line(b))) <= Len(JoinFrames) + Len(received')
    <3>1. Cardinality(Games(Line(b))) \in Nat /\ Len(JoinFrames) \in Nat
      BY <1>2, LinesTyped, LineCounts, JoinTyped
    <3> QED
      BY <1>l, <2>1, <3>1
  <2> QED
    BY <1>1, <1>2, <1>4, <1>5, <2>1, <2>2 DEF Budget
<1> QED
  BY <1>3, <1>6, <1>7, <1>8, <1>10 DEF LinesInv

\* A login is through, on a connection that nothing of the game was sent on.
LEMMA LoginLines ==
  ASSUME LinkInv, IInv', Roles', NEW w \in Workers, NEW c \in Clients, OnPlayerLogin(w, c)
  PROVE  Sound' /\ LinesInv'
<1>1. /\ pc[w] = "idle" /\ pc' = [pc EXCEPT ![w] = "lock"]
      /\ task' = [task EXCEPT ![w] = "add"] /\ on' = [on EXCEPT ![w] = c]
      /\ toSend' = [toSend EXCEPT ![w] = JoinFrames]
      /\ place[c] = "lobby" /\ place' = [place EXCEPT ![c] = "handoff"]
      /\ UNCHANGED <<senderVars, received, beats>>
  BY DEF OnPlayerLogin, Take, linkVars
<1>2. /\ Quiet /\ JoinSoFar /\ Arrived /\ Budget /\ HandlerTypes
      /\ SenderTypes /\ pc \in [Workers -> Steps]
      /\ task \in [Workers -> Tasks]
      /\ on \in [Workers -> Clients \cup {None}]
      /\ place \in [Clients -> Places]
  BY DEF LinkInv, LinesInv, Roles, Sound, IInv
<1>3. Sound' /\ Kept({}) /\ {} \in SUBSET Clients
  BY <1>1, StillKept DEF LinkInv
<1>4. UNCHANGED alive
  BY <1>1 DEF senderVars
<1>5. /\ \A v \in Workers : Calling(v)' => Calling(v)
      /\ \A v \in Workers : Adding(v)' =>
           (Adding(v) /\ on'[v] = on[v] /\ toSend'[v] = toSend[v]) \/ v = w
      /\ \A v \in Workers : Beating(v)' => Beating(v) /\ on'[v] = on[v]
  BY <1>1, <1>2 DEF Calling, Beating, Adding, HandlerTypes
<1>6. Quiet'
  BY <1>1, <1>2, <1>3, <1>4, QuietKept
<1>7. JoinSoFar'
  <2>1. ASSUME NEW v \in Workers, NEW b \in Clients, Adding(v)', on'[v] = b, alive'[b]
        PROVE  b \notin {} /\ Cardinality(Games(Line(b))) + Len(toSend'[v]) = Len(JoinFrames)
    <3>1. CASE v = w
      <4>1. b = c /\ toSend'[v] = JoinFrames /\ Idle(c)
        BY <1>1, <1>2, <2>1, <3>1 DEF HandlerTypes, Quiet
      <4>2. Cardinality(Games(Line(c))) = 0 /\ Len(JoinFrames) \in Nat
        BY <1>2, <4>1, IdleLine, EmptyRules, JoinTyped
      <4> QED
        BY <4>1, <4>2
    <3>2. CASE v # w
      BY <1>2, <1>4, <1>5, <2>1, <3>2 DEF JoinSoFar
    <3> QED
      BY <3>1, <3>2
  <2>2. ASSUME NEW b \in Clients, alive'[b], place'[b] = "roster"
        PROVE  b \notin {} /\ Len(JoinFrames) <= Cardinality(Games(Line(b)))
    BY <1>1, <1>2, <1>4, <2>2 DEF JoinSoFar
  <2> QED
    BY <1>2, <1>3, <2>1, <2>2, JoinKept
<1>8. Arrived'
  BY <1>1, <1>2, <1>3, <1>5, ArrivedKept
<1>10. Budget'
  BY <1>1, <1>2, <1>3, <1>5, BudgetKept
<1> QED
  BY <1>3, <1>6, <1>7, <1>8, <1>10 DEF LinesInv
\* encrypt sends nothing yet.
LEMMA EncryptLines ==
  ASSUME LinkInv, IInv', Roles', NEW w \in Workers, NEW c \in Clients, on[w] = c, Send(w),
         Open(c)
  PROVE  Sound' /\ LinesInv'
<1> DEFINE others == {v \in Workers \ {w} : pc[v] = "write" /\ on[v] = c}
<1>1. /\ pc[w] = "send" /\ pc' = [pc EXCEPT ![w] = "write"]
      /\ Encrypt(c, others)
      /\ UNCHANGED <<alive, writes, partial, stream, stalls, received, place, beats,
                     task, on, toSend>>
  BY DEF Send, linkVars, rosterVars, timerVars
<1>2. SenderTypes /\ Whole /\ Room
  BY DEF LinkInv, Sound
<1>3. /\ cipher' = [cipher EXCEPT ![c] = IF c \in Encrypted THEN cipher[c] + 1 ELSE cipher[c]]
      /\ crossed' = [crossed EXCEPT ![c] = crossed[c] \/ (c \in Encrypted /\ others # {})]
  BY <1>1 DEF Encrypt
<1>4. cipher' \in [Clients -> Nat] /\ crossed' \in [Clients -> BOOLEAN]
  BY <1>2, <1>3 DEF SenderTypes
<1>5. SenderTypes' /\ Whole' /\ Room' /\ \A b \in Clients : Line(b)' = Line(b)
  BY <1>1, <1>2, <1>4 DEF SenderTypes, Whole, Room, Line
<1>6. \A b \in Clients : Idle(b) => Idle(b)'
  BY <1>1 DEF Idle
<1>7. Sound' /\ Kept({})
  BY <1>5, <1>6, SameAlike DEF Sound, Kept
<1>8. Unsent
  BY <1>1 DEF Unsent, LinkInv, IInv, Calling, Beating, Adding
<1> QED
  BY <1>1, <1>7, <1>8, StillLines

\* What the end of a frame changes for the handlers.
LEMMA SentStep ==
  ASSUME LinkInv, NEW w \in Workers, Sending(w), Sent(w)
  PROVE  /\ on' = on /\ task' = task /\ pc'[w] \notin {"write", "find", "call"}
         /\ task[w] \in {"receive", "keepAlive"} => pc'[w] \in {"return", "reset"}
         /\ toSend'[w] = Tail(toSend[w]) /\ Len(toSend'[w]) = Len(toSend[w]) - 1
         /\ toSend[w] \in Seq(Frames) /\ toSend[w] # <<>> /\ Head(toSend[w]) = toSend[w][1]
         /\ \A v \in Workers \ {w} : toSend'[v] = toSend[v] /\ pc'[v] = pc[v]
         /\ \A v \in Workers : /\ Calling(v)' => Calling(v) /\ v # w
                               /\ Beating(v)' => Beating(v) /\ v # w
                               /\ Adding(v)' => Adding(v)
<1>1. /\ task[w] \in {"receive", "add", "keepAlive"}
      /\ toSend[w] \in Seq(Frames) /\ toSend[w] # <<>>
      /\ task[w] \in {"receive", "keepAlive"} => Len(toSend[w]) = 1
      /\ pc \in [Workers -> Steps] /\ toSend \in [Workers -> Seq(Frames)]
  <2>1. /\ task[w] \in {"receive", "add", "keepAlive"}
        /\ toSend \in [Workers -> Seq(Frames)] /\ toSend[w] # <<>>
        /\ pc \in [Workers -> Steps]
    BY DEF LinkInv, IInv, HandlersKnow, Roles, ToSendFits, HandlerTypes, Sending
  <2>2. \A f : Len(<<f>>) = 1
    OBVIOUS
  <2>3. /\ task[w] = "receive" => toSend[w] = <<Relayed(msg[w])>>
        /\ task[w] = "keepAlive" => toSend[w] = <<Named("KeepAlive")>>
    BY DEF LinkInv, Roles, ToSendFits
  <2> QED
    BY <2>1, <2>2, <2>3
<1>2. /\ toSend' = [toSend EXCEPT ![w] = Tail(toSend[w])]
      /\ pc' = [pc EXCEPT ![w] = IF Len(toSend[w]) > 1 THEN "send" ELSE After(w)]
      /\ UNCHANGED <<task, msg, on>>
  BY DEF Sent
<1>3. Len(Tail(toSend[w])) = Len(toSend[w]) - 1 /\ Head(toSend[w]) = toSend[w][1]
  BY <1>1
<1>4. pc'[w] \in {"send", "return", "store", "reset"}
  BY <1>1, <1>2 DEF After
<1>5. task[w] \in {"receive", "keepAlive"} => pc'[w] \in {"return", "reset"}
  BY <1>1, <1>2 DEF After
<1>6. \A v \in Workers \ {w} : toSend'[v] = toSend[v] /\ pc'[v] = pc[v]
  BY <1>1, <1>2
<1>7. \A v \in Workers : /\ Calling(v)' => Calling(v) /\ v # w
                         /\ Beating(v)' => Beating(v) /\ v # w
                         /\ Adding(v)' => Adding(v)
  BY <1>1, <1>2, <1>4, <1>5, <1>6 DEF Calling, Beating, Adding, Sending
<1> QED
  BY <1>1, <1>2, <1>3, <1>4, <1>5, <1>6, <1>7

\* sendData of a connection that is closed drops the frame.
LEMMA DropLines ==
  ASSUME LinkInv, IInv', Roles', NEW w \in Workers, Sending(w), Sent(w), ~Open(on[w]),
         UNCHANGED <<senderVars, received, place, beats>>
  PROVE  Sound' /\ LinesInv'
<1>1. /\ on' = on /\ task' = task /\ pc'[w] \notin {"write", "find", "call"}
      /\ \A v \in Workers \ {w} : toSend'[v] = toSend[v] /\ pc'[v] = pc[v]
      /\ \A v \in Workers : /\ Calling(v)' => Calling(v) /\ v # w
                            /\ Beating(v)' => Beating(v) /\ v # w
                            /\ Adding(v)' => Adding(v)
  BY SentStep
<1>2. /\ Quiet /\ JoinSoFar /\ Arrived /\ Budget /\ HandlerTypes /\ SenderTypes
  BY DEF LinkInv, LinesInv, Roles, Sound
<1>3. Sound' /\ Kept({}) /\ {} \in SUBSET Clients
  BY StillKept DEF LinkInv
<1>4. UNCHANGED alive
  BY DEF senderVars
<1>6. Quiet'
  BY <1>2, <1>3, <1>4, QuietKept
<1>7. JoinSoFar'
  <2>1. ASSUME NEW v \in Workers, NEW b \in Clients, Adding(v)', on'[v] = b, alive'[b]
        PROVE  b \notin {} /\ Cardinality(Games(Line(b))) + Len(toSend'[v]) = Len(JoinFrames)
    <3>1. v # w /\ Adding(v) /\ on[v] = b /\ alive[b]
      BY <1>1, <1>4, <2>1 DEF LinkInv, IInv, LoginsOwn, Adding, Open
    <3> QED
      BY <1>1, <1>2, <3>1 DEF JoinSoFar
  <2>2. ASSUME NEW b \in Clients, alive'[b], place'[b] = "roster"
        PROVE  b \notin {} /\ Len(JoinFrames) <= Cardinality(Games(Line(b)))
    BY <1>2, <1>4, <2>2 DEF JoinSoFar
  <2> QED
    BY <1>2, <1>3, <2>1, <2>2, JoinKept
<1>8. Arrived'
  BY <1>1, <1>2, <1>3, ArrivedKept
<1>10. Budget'
  BY <1>1, <1>2, <1>3, BudgetKept
<1> QED
  BY <1>3, <1>6, <1>7, <1>8, <1>10 DEF LinesInv
\* sendData up to encrypt.
LEMMA SendLines ==
  ASSUME LinkInv, IInv', Roles', NEW w \in Workers, Send(w)
  PROVE  Sound' /\ LinesInv'
<1>1. CASE ~Open(on[w])
  <2>1. /\ Sending(w) /\ Sent(w)
        /\ UNCHANGED <<senderVars, received, place, beats>>
    BY <1>1 DEF Send, Sending, senderVars, linkVars, rosterVars, timerVars
  <2> QED
    BY <1>1, <2>1, DropLines
<1>2. CASE Open(on[w])
  <2>1. on[w] \in Clients
    BY DEF LinkInv, IInv, HandlersKnow, Send
  <2> QED
    BY <1>2, <2>1, EncryptLines
<1> QED
  BY <1>1, <1>2
\* The frame that async_write puts in the line of an open connection is the
\* next of addClient, or a keep-alive, or the packet of the latest datagram.
LEMMA NextFrame ==
  ASSUME LinkInv, NEW w \in Workers, NEW c \in Clients, on[w] = c, Sending(w),
         place[c] # "destroyed", alive[c]
  PROVE  /\ Head(toSend[w]) \in Frames /\ mark[w] \in Stamps
         /\ task[w] \in {"receive", "add", "keepAlive"}
         /\ task[w] = "keepAlive" => Head(toSend[w]).kind = "KeepAlive"
         /\ task[w] = "add" =>
              /\ Cardinality(Games(Line(c))) + 1 <= Len(JoinFrames)
              /\ Head(toSend[w]) = JoinFrames[Cardinality(Games(Line(c))) + 1]
              /\ Head(toSend[w]).kind \notin {"KeepAlive", "relayed"}
         /\ task[w] = "receive" =>
              /\ Head(toSend[w]).kind = "relayed" /\ Head(toSend[w]).n = Len(received)
              /\ Len(JoinFrames) <= Cardinality(Games(Line(c)))
<1>1. /\ task[w] \in {"receive", "add", "keepAlive"}
      /\ toSend[w] \in Seq(Frames) /\ toSend[w] # <<>> /\ mark[w] \in Stamps
  BY DEF LinkInv, IInv, HandlersKnow, Roles, ToSendFits, HandlerTypes, Sending
<1>2. Head(toSend[w]) = toSend[w][1] /\ Head(toSend[w]) \in Frames /\ Len(toSend[w]) > 0
  BY <1>1
<1>3. ASSUME task[w] = "keepAlive" PROVE Head(toSend[w]).kind = "KeepAlive"
  <2>1. toSend[w] = <<Named("KeepAlive")>>
    BY <1>3 DEF LinkInv, Roles, ToSendFits
  <2> QED
    BY <2>1 DEF Named
<1>4. ASSUME task[w] = "add"
      PROVE  /\ Cardinality(Games(Line(c))) + 1 <= Len(JoinFrames)
             /\ Head(toSend[w]) = JoinFrames[Cardinality(Games(Line(c))) + 1]
             /\ Head(toSend[w]).kind \notin {"KeepAlive", "relayed"}
  <2> DEFINE g == Cardinality(Games(Line(c)))
  <2>1. Adding(w) /\ LastJoin(toSend[w])
    BY <1>4 DEF LinkInv, Roles, ToSendFits, Adding, Sending
  <2>2. g + Len(toSend[w]) = Len(JoinFrames)
    BY <2>1 DEF LinkInv, LinesInv, JoinSoFar
  <2>3. g \in Nat /\ Len(JoinFrames) \in Nat /\ Len(toSend[w]) \in Nat
    BY <1>1, LinesTyped, LineCounts, JoinTyped DEF LinkInv, Sound
  <2> HIDE DEF g
  <2>4. g + 1 \in 1 .. Len(JoinFrames) /\ Len(JoinFrames) - Len(toSend[w]) + 1 = g + 1
    <3>1. \A i, j, k \in Nat : i + j = k /\ j > 0 => i + 1 \in 1 .. k /\ k - j + 1 = i + 1
      OBVIOUS
    <3> QED
      BY <1>2, <2>2, <2>3, <3>1
  <2>5. 1 \in 1 .. Len(toSend[w])
    BY <1>2, <2>3
  <2>6. Head(toSend[w]) = JoinFrames[g + 1]
    BY <1>2, <2>1, <2>4, <2>5 DEF LastJoin
  <2>7. JoinFrames[g + 1].kind \notin {"KeepAlive", "relayed"}
    BY <2>4, JoinTyped
  <2>8. g + 1 <= Len(JoinFrames)
    BY <2>3, <2>4
  <2> QED
    BY <2>6, <2>7, <2>8 DEF g
<1>5. ASSUME task[w] = "receive"
      PROVE  /\ Head(toSend[w]).kind = "relayed" /\ Head(toSend[w]).n = Len(received)
             /\ Len(JoinFrames) <= Cardinality(Games(Line(c)))
  <2>1. toSend[w] = <<Relayed(msg[w])>> /\ msg[w].n = Len(received)
    BY <1>5 DEF LinkInv, Roles, ToSendFits, LastRead
  <2>2. Head(toSend[w]) = Relayed(msg[w])
    BY <2>1
  <2>3. place[c] = "roster"
    BY <1>5, SenderAssumption DEF LinkInv, IInv, Places, Roles, TasksFit
  <2> QED
    BY <2>1, <2>2, <2>3 DEF Relayed, LinkInv, LinesInv, JoinSoFar
<1> QED
  BY <1>1, <1>2, <1>3, <1>4, <1>5

\* async_write, of the frame that encrypt was given.
LEMMA FrameLines ==
  ASSUME LinkInv, IInv', Roles', NEW w \in Workers, NEW c \in Clients, on[w] = c, Write(w),
         place[c] # "destroyed", alive[c]
  PROVE  Sound' /\ LinesInv'
<1> DEFINE frame == Head(toSend[w])
           item == Item(frame, mark[w], "start")
           g == Cardinality(Games(Line(c)))
<1>1. /\ pc[w] = "write" /\ Sending(w) /\ Sent(w)
      /\ AsyncWrite(c, frame, mark[w], w)
      /\ UNCHANGED <<alive, cipher, crossed, received, place, beats>>
  BY DEF Write, Sending, linkVars, rosterVars
<1>2. /\ Quiet /\ JoinSoFar /\ Arrived /\ Budget /\ HandlerTypes
      /\ SenderTypes /\ Whole /\ Room /\ TasksFit /\ OneEach /\ on' = on
      /\ place[c] # "lobby" /\ mark \in [Workers -> Stamps]
  BY SentStep, <1>1, SenderAssumption DEF LinkInv, LinesInv, Roles, TasksFit, Sound,
    HandlerTypes
<1>3. /\ frame \in Frames /\ mark[w] \in Stamps
      /\ task[w] \in {"receive", "add", "keepAlive"}
      /\ task[w] = "keepAlive" => frame.kind = "KeepAlive"
      /\ task[w] = "add" => g + 1 <= Len(JoinFrames) /\ frame = JoinFrames[g + 1]
           /\ frame.kind \notin {"KeepAlive", "relayed"}
      /\ task[w] = "receive" => frame.kind = "relayed" /\ frame.n = Len(received)
           /\ Len(JoinFrames) <= g
  BY <1>1, NextFrame
<1>4. /\ task' = task /\ pc'[w] \notin {"write", "find", "call"}
      /\ task[w] \in {"receive", "keepAlive"} => pc'[w] \in {"return", "reset"}
      /\ Len(toSend'[w]) = Len(toSend[w]) - 1 /\ Len(toSend[w]) \in Nat
      /\ \A v \in Workers \ {w} : toSend'[v] = toSend[v] /\ pc'[v] = pc[v]
      /\ \A v \in Workers : /\ Calling(v)' => Calling(v) /\ v # w
                            /\ Beating(v)' => Beating(v) /\ v # w
                            /\ Adding(v)' => Adding(v)
  BY <1>1, SentStep
<1> HIDE DEF frame
<1>5. /\ SenderTypes' /\ Whole' /\ Room'
      /\ \A b \in Clients \ {c} : Alike(Line(b), Line(b)') /\ (Idle(b) => Idle(b)')
      /\ Longer(Line(c), Line(c)', item)
  BY <1>1, <1>2, <1>3, WriteLines
<1>6. /\ item \in Items /\ item.is = "start" /\ item.frame = frame /\ item.stamp = mark[w]
      /\ Line(c) \in Seq(Items) /\ Line(c)' \in Seq(Items)
  <2>1. Line(c)' \in Seq(Items)
    BY <1>5, JoinedType DEF SenderTypes, Line
  <2> QED
    BY <1>2, <1>3, <2>1, LinesTyped DEF Item, Items
<1> HIDE DEF item
<1>7. /\ g \in Nat /\ Cardinality(Beats(Line(c))) \in Nat /\ Cardinality(Starts(Line(c))) \in Nat
      /\ Len(JoinFrames) \in Nat /\ Len(received) \in Nat /\ beats \in Nat
      /\ Cardinality(Starts(Line(c)')) = Cardinality(Starts(Line(c))) + 1
      /\ frame.kind = "KeepAlive" => /\ Cardinality(Games(Line(c)')) = g
           /\ Cardinality(Beats(Line(c)')) = Cardinality(Beats(Line(c))) + 1
      /\ frame.kind # "KeepAlive" => /\ Cardinality(Games(Line(c)')) = g + 1
           /\ Cardinality(Beats(Line(c)')) = Cardinality(Beats(Line(c)))
  <2>1. Len(received) \in Nat /\ beats \in Nat
    BY <1>2, LinkAssumption DEF HandlerTypes
  <2> QED
    BY <1>5, <1>6, <2>1, StartCounts, LineCounts, JoinTyped
<1>8. \A b \in Clients \ {c} : /\ Games(Line(b)') = Games(Line(b))
                               /\ Beats(Line(b)') = Beats(Line(b))
                               /\ Starts(Line(b)') = Starts(Line(b))
  BY <1>5, AlikeCounts
<1>9. \A b \in Clients \ {c} : /\ JoinRule(Line(b)) => JoinRule(Line(b)')
                               /\ ArrivalRule(Line(b)) => ArrivalRule(Line(b)')
  BY <1>5, AlikeRules
<1>10. Quiet'
  <2> SUFFICES ASSUME NEW b \in Clients, ~alive[b] \/ place[b] \in {"lobby", "destroyed"}
               PROVE  Idle(b)'
    BY <1>1 DEF Quiet
  <2> QED
    BY <1>2, <1>5 DEF Quiet
<1>11. JoinSoFar'
  <2>1. JoinRule(Line(c)')
    <3>1. frame.kind # "KeepAlive" => IF g + 1 <= Len(JoinFrames)
             THEN frame = JoinFrames[g + 1] ELSE frame.kind = "relayed"
      BY <1>3, <1>7
    <3>2. JoinRule(Line(c))
      BY <1>2 DEF JoinSoFar
    <3> QED
      BY <1>5, <1>6, <3>1, <3>2, JoinGrows
  <2>2. \A b \in Clients : JoinRule(Line(b)')
    BY <1>2, <1>9, <2>1 DEF JoinSoFar
  <2>3. ASSUME NEW v \in Workers, NEW b \in Clients, Adding(v)', on'[v] = b, alive'[b]
        PROVE  Cardinality(Games(Line(b)')) + Len(toSend'[v]) = Len(JoinFrames)
    <3>1. Adding(v) /\ on[v] = b /\ alive[b] /\ task[v] = "add"
      BY <1>1, <1>2, <1>4, <2>3 DEF Adding
    <3>2. Cardinality(Games(Line(b))) + Len(toSend[v]) = Len(JoinFrames)
      BY <1>2, <3>1 DEF JoinSoFar
    <3>3. CASE v = w
      <4>1. b = c /\ task[w] = "add"
        BY <3>1, <3>3
      <4>2. Cardinality(Games(Line(c)')) = g + 1
        BY <1>3, <1>7, <4>1
      <4>3. g + Len(toSend[w]) = Len(JoinFrames)
        BY <3>2, <3>3, <4>1
      <4>4. Cardinality(Games(Line(c)')) + Len(toSend'[w]) = Len(JoinFrames)
        BY <1>4, <1>7, <4>2, <4>3
      <4> QED
        BY <3>3, <4>1, <4>4
    <3>4. CASE v # w /\ b = c
      <4>1. task[w] # "add"
        BY <3>1, <3>4 DEF LinkInv, IInv, LoginsOwn
      <4>2. task[w] # "receive"
        BY <1>1, <1>2, <3>1, <3>4 DEF LinkInv, IInv, LoginsOwn, TasksFit
      <4>3. Cardinality(Games(Line(c)')) = g
        BY <1>3, <1>7, <4>1, <4>2
      <4> QED
        BY <1>4, <3>2, <3>4, <4>3
    <3>5. CASE v # w /\ b # c
      BY <1>4, <1>8, <3>2, <3>5
    <3> QED
      BY <3>3, <3>4, <3>5
  <2>4. ASSUME NEW b \in Clients, alive'[b], place'[b] = "roster"
        PROVE  Len(JoinFrames) <= Cardinality(Games(Line(b)'))
    <3>1. Len(JoinFrames) <= Cardinality(Games(Line(b)))
      BY <1>1, <1>2, <2>4 DEF JoinSoFar
    <3>2. CASE b = c
      <4>1. Len(JoinFrames) <= g
        BY <3>1, <3>2
      <4>2. Cardinality(Games(Line(c)')) = g \/ Cardinality(Games(Line(c)')) = g + 1
        BY <1>7
      <4>3. Len(JoinFrames) <= Cardinality(Games(Line(c)'))
        BY <1>7, <4>1, <4>2
      <4> QED
        BY <3>2, <4>3
    <3>3. CASE b # c
      BY <1>8, <3>1, <3>3
    <3> QED
      BY <3>2, <3>3
  <2> QED
    BY <2>2, <2>3, <2>4 DEF JoinSoFar
<1>12. Arrived'
  <2>1. \A i \in Starts(Line(c)) : Line(c)[i].frame.kind = "relayed" =>
          /\ Line(c)[i].frame.n <= Len(received)
          /\ task[w] = "receive" => Line(c)[i].frame.n < Len(received)
    BY <1>1, <1>2 DEF Arrived, Calling, Sending
  <2>2. frame.kind = "relayed" => task[w] = "receive"
    BY <1>3
  <2>3. ArrivalRule(Line(c)')
    <3>1. frame.kind = "relayed" => \A i \in Starts(Line(c)) :
            Line(c)[i].frame.kind = "relayed" => Line(c)[i].frame.n < frame.n
      BY <1>3, <2>1, <2>2
    <3>2. ArrivalRule(Line(c))
      BY <1>2 DEF Arrived
    <3> QED
      BY <1>5, <1>6, <3>1, <3>2, ArrivalGrows
  <2>4. \A b \in Clients : ArrivalRule(Line(b)')
    BY <1>2, <1>9, <2>3 DEF Arrived
  <2>5. ASSUME NEW b \in Clients, b # c, NEW i \in Starts(Line(b)'),
               Line(b)'[i].frame.kind = "relayed"
        PROVE  /\ Line(b)'[i].frame.n <= Len(received)
               /\ \A v \in Workers : Calling(v)' => Line(b)'[i].frame.n < Len(received)
    <3>1. i \in Starts(Line(b)) /\ Line(b)'[i] = Line(b)[i]
      BY <1>5, <1>8, <2>5 DEF Alike
    <3> QED
      BY <1>2, <1>4, <2>5, <3>1 DEF Arrived
  <2>6. ASSUME NEW i \in Starts(Line(c)'), Line(c)'[i].frame.kind = "relayed"
        PROVE  /\ Line(c)'[i].frame.n <= Len(received)
               /\ \A v \in Workers : Calling(v)' => Line(c)'[i].frame.n < Len(received)
    <3>1. Starts(Line(c)') = Starts(Line(c)) \cup {Len(Line(c)) + 1}
      BY <1>5, <1>6, StartPlaces
    <3>2. CASE i \in Starts(Line(c))
      <4>1. Line(c)'[i] = Line(c)[i]
        BY <1>5, <3>2 DEF Longer, Starts
      <4> QED
        BY <1>2, <1>4, <2>6, <3>2, <4>1 DEF Arrived
    <3>3. CASE i = Len(Line(c)) + 1
      <4>1. Line(c)'[i] = item
        BY <1>5, <3>3 DEF Longer
      <4>2. task[w] = "receive" /\ frame.n = Len(received) /\ frame.kind = "relayed"
        BY <1>3, <1>6, <2>2, <2>6, <4>1
      <4>3. \A v \in Workers : ~Calling(v)'
        BY <1>2, <1>4, <4>2 DEF OneEach, Calling
      <4>4. Line(c)'[i].frame.n = Len(received)
        BY <1>6, <4>1, <4>2
      <4> QED
        BY <1>7, <4>3, <4>4
    <3> QED
      BY <3>1, <3>2, <3>3
  <2> QED
    BY <1>1, <2>4, <2>5, <2>6 DEF Arrived
<1>14. Budget'
  <2> DEFINE most == Len(JoinFrames) + Len(received)
  <2>1. most \in Nat
    BY <1>7
  <2>2. \A b \in Clients : /\ Cardinality(Games(Line(b))) <= most
                           /\ Cardinality(Beats(Line(b))) <= beats
    BY <1>2 DEF Budget
  <2>3. \A b \in Clients, v \in Workers : Calling(v) => Cardinality(Games(Line(b))) < most
    BY <1>2 DEF Budget
  <2>4. \A v \in Workers, b \in Clients : Beating(v) /\ on[v] = b =>
          Cardinality(Beats(Line(b))) < beats
    BY <1>2 DEF Budget
  <2>5. /\ task[w] = "receive" => Calling(w)
        /\ task[w] = "keepAlive" => Beating(w)
    BY <1>1 DEF Calling, Beating, Sending
  <2>c. /\ task[w] = "receive" => g < most
        /\ task[w] = "keepAlive" => Cardinality(Beats(Line(c))) < beats
    BY <2>3, <2>4, <2>5
  <2>l. Cardinality(Beats(Line(c))) <= beats
    BY <2>2
  <2>6. Cardinality(Games(Line(c)')) <= most
    <3>1. CASE task[w] = "receive"
      BY <1>3, <1>7, <2>1, <2>c, <3>1
    <3>2. CASE task[w] = "add"
      <4>1. Cardinality(Games(Line(c)')) = g + 1 /\ g + 1 <= Len(JoinFrames)
        BY <1>3, <1>7, <3>2
      <4> QED
        BY <1>7, <4>1
    <3>3. CASE task[w] = "keepAlive"
      BY <1>3, <1>7, <2>2, <3>3
    <3> QED
      BY <1>3, <3>1, <3>2, <3>3
  <2>7. Cardinality(Beats(Line(c)')) <= beats
    BY <1>3, <1>7, <2>c, <2>l
  <2>8. ASSUME NEW v \in Workers, Calling(v)' PROVE Cardinality(Games(Line(c)')) < most
    <3>1. Calling(v) /\ v # w
      BY <1>4, <2>8
    <3>2. task[w] # "receive"
      BY <1>2, <3>1 DEF OneEach, Calling
    <3>3. CASE task[w] = "keepAlive"
      BY <1>3, <1>7, <2>3, <3>1, <3>3
    <3>4. CASE task[w] = "add"
      <4>1. Cardinality(Games(Line(c)')) = g + 1 /\ g + 1 <= Len(JoinFrames)
        BY <1>3, <1>7, <3>4
      <4>2. Len(received) > 0
        BY <3>1 DEF LinkInv, Roles, LastRead, Calling
      <4> QED
        BY <1>7, <4>1, <4>2
    <3> QED
      BY <1>3, <3>2, <3>3, <3>4
  <2>9. ASSUME NEW v \in Workers, Beating(v)', on[v] = c
        PROVE  Cardinality(Beats(Line(c)')) < beats
    <3>1. Beating(v) /\ v # w
      BY <1>4, <2>9
    <3>2. task[w] # "keepAlive"
      BY <1>2, <2>9, <3>1 DEF OneEach, Beating
    <3>3. Cardinality(Beats(Line(c)')) = Cardinality(Beats(Line(c)))
      BY <1>3, <1>7, <3>2
    <3> QED
      BY <2>4, <2>9, <3>1, <3>3
  <2> HIDE DEF most
  <2>10. \A b \in Clients : /\ Cardinality(Games(Line(b)')) <= most
                            /\ Cardinality(Beats(Line(b)')) <= beats
    BY <1>8, <2>2, <2>6, <2>7
  <2>11. \A b \in Clients, v \in Workers : Calling(v)' => Cardinality(Games(Line(b)')) < most
    BY <1>4, <1>8, <2>3, <2>8
  <2>12. \A v \in Workers, b \in Clients : Beating(v)' /\ on[v] = b =>
           Cardinality(Beats(Line(b)')) < beats
    BY <1>4, <1>8, <2>4, <2>9
  <2> QED
    BY <1>1, <1>2, <2>10, <2>11, <2>12 DEF Budget, most
<1> QED
  BY <1>5, <1>10, <1>11, <1>12, <1>14 DEF Sound, LinesInv
\* sendData from encrypt on.
LEMMA WriteStepLines ==
  ASSUME LinkInv, IInv', Roles', NEW w \in Workers, Write(w)
  PROVE  Sound' /\ LinesInv'
<1>1. CASE Open(on[w])
  <2>1. on[w] \in Clients
    BY DEF LinkInv, IInv, HandlersKnow, Write
  <2> QED
    BY <1>1, <2>1, FrameLines DEF Open
<1>2. CASE ~Open(on[w])
  <2>1. /\ Sending(w) /\ Sent(w)
        /\ UNCHANGED <<senderVars, received, place, beats>>
    BY <1>2 DEF Write, AsyncWrite, Open, Sending, senderVars, linkVars, rosterVars
  <2> QED
    BY <1>2, <2>1, DropLines
<1> QED
  BY <1>1, <1>2

\* No step breaks what the lines hold.
LEMMA NextLink ==
  ASSUME LinkInv, [Next]_vars
  PROVE  LinkInv'
<1>1. IInv' /\ IInv /\ Roles /\ SenderTypes /\ due \in [Clients -> SUBSET Handlers]
  BY NextKeeps DEF LinkInv, Sound, Roles, HandlerTypes
<1>2. CASE UNCHANGED vars
  <2>1. Roles'
    BY <1>1, <1>2, StillRoles DEF vars, linkVars, rosterVars, timerVars, Timed
  <2>2. Sound' /\ Kept({})
    BY <1>2, StillKept DEF LinkInv, vars
  <2>3. UNCHANGED <<received, beats, alive, place>>
    BY <1>2 DEF vars, senderVars, linkVars, rosterVars, timerVars
  <2>4. Unsent
    BY <1>2 DEF vars, workerVars, Unsent, Calling, Beating, Adding
  <2> QED
    BY <1>1, <2>1, <2>2, <2>3, <2>4, StillLines DEF LinkInv
<1>3. ASSUME NEW w \in Workers, Step(w) PROVE Roles' /\ Sound' /\ LinesInv'
  <2>1. CASE Return(w) \/ AddClient(w) \/ Clear(w)
    <3>1. CASE Return(w)
      <4>1. pc[w] = "return" /\ Goto(w, "rearm") /\ UNCHANGED <<received, waiting, due, beats, place>>
        BY <3>1 DEF Return, linkVars, rosterVars, timerVars
      <4>2. Roles'
        BY <1>1, <4>1, GoRoles
      <4> QED
        BY <1>1, <3>1, <4>2, ReturnLines
    <3>2. CASE AddClient(w)
      <4>1. /\ pc[w] = "lock" /\ Goto(w, "send") /\ UNCHANGED <<received, waiting, due, beats>>
            /\ place' = [place EXCEPT ![on[w]] = "adding"]
        BY <3>2 DEF AddClient, linkVars, timerVars
      <4>2. \A c \in Clients : place'[c] = place[c] \/ (c = on[w] /\ place'[c] = "adding")
        BY <1>1, <4>1 DEF IInv
      <4>3. Roles'
        BY <1>1, <4>1, <4>2, GoRoles
      <4> QED
        BY <1>1, <3>2, <4>3, AddLines
    <3>3. CASE Clear(w)
      <4>1. pc[w] = "clear" /\ Goto(w, "erase") /\ UNCHANGED <<received, waiting, due, beats, place>>
        BY <3>3 DEF Clear, linkVars, rosterVars, timerVars
      <4>2. Roles'
        BY <1>1, <4>1, GoRoles
      <4> QED
        BY <1>1, <3>3, <4>2, ClearLines
    <3> QED
      BY <2>1, <3>1, <3>2, <3>3
  <2>2. CASE UseFreed(w)
    BY <1>1, <2>2, FaultRoles, FaultLines DEF UseFreed
  <2>3. CASE \/ Find(w) \/ Call(w) \/ Rearm(w) \/ Send(w) \/ Write(w)
             \/ Store(w) \/ Reset(w) \/ Erase(w)
    <3>1. Roles'
      BY <1>1, <2>3, FindRoles, CallRoles, RearmRoles, SendRoles, WriteRoles,
        StoreRoles, ResetRoles, EraseRoles
    <3> QED
      BY <1>1, <2>3, <3>1, FindLines, CallLines, RearmLines, SendLines, WriteStepLines,
        StoreLines, ResetLines, EraseLines
  <2> QED
    BY <1>3, <2>1, <2>2, <2>3 DEF Step
<1>4. ASSUME NEW w \in Workers, OnDataReceived(w) \/ ReceiveFails(w)
      PROVE  Roles' /\ Sound' /\ LinesInv'
  BY <1>1, <1>4, ReceiveRoles, FailureRoles, ReceiveLines, FailureLines
<1>5. ASSUME NEW w \in Workers, NEW c \in Clients, OnPlayerLogin(w, c) \/ KeepAlive(w, c)
      PROVE  Roles' /\ Sound' /\ LinesInv'
  BY <1>1, <1>5, LoginRoles, KeepAliveRoles, LoginLines, KeepAliveLines
<1>6. ASSUME NEW w \in Workers, NEW c \in Clients, NEW h \in Handlers,
             HandlerFails(w, c, h) \/ HandlerEnds(w, c, h)
      PROVE  Roles' /\ Sound' /\ LinesInv'
  BY <1>1, <1>6, FailsRoles, EndsRoles, FailsLines
<1>7. ASSUME NEW c \in Clients, Kernel(c) PROVE Roles' /\ Sound' /\ LinesInv'
  <2>1. Roles'
    BY <1>1, <1>7, StillRoles DEF Kernel, linkVars, rosterVars, timerVars, Timed
  <2> QED
    BY <1>1, <1>7, <2>1, KernelLines
<1> QED
  BY <1>1, <1>2, <1>3, <1>4, <1>5, <1>6, <1>7 DEF Next, LinkInv

\* Nothing is connected and nothing is sent.
LEMMA InitLink ==
  ASSUME Init
  PROVE  LinkInv
<1>1. IInv
  BY SenderAssumption DEF Init, IInv, HandlersKnow, SlotsOwn, LoginsOwn,
    FoundOrLeft, LookupsSuffice, Steps, Places, Tasks
<1>2. <<>> \in Seq(Ops) /\ <<>> \in Seq(Pieces) /\ <<>> \in Seq(Frames)
      /\ <<>> \in Seq(Datagrams) /\ Len(<<>>) = 0
  OBVIOUS
<1>3. SenderTypes /\ Whole
  BY <1>2 DEF Init, SenderInit, SenderTypes, Whole
<1>4. \A c \in Clients : Idle(c)
  BY DEF Init, SenderInit, Idle
<1>5. \A c \in Clients : Starts(Line(c)) = {}
  BY <1>3, <1>4, IdleLine
<1>6. \A c \in Clients :
        /\ JoinRule(Line(c)) /\ ArrivalRule(Line(c))
        /\ Cardinality(Starts(Line(c))) = 0
        /\ Cardinality(Games(Line(c))) = 0 /\ Cardinality(Beats(Line(c))) = 0
  BY <1>5, EmptyRules
<1>7. Room
  <2>1. \A c \in Clients : Len(writes[c]) = 0 /\ Len(partial[c]) = 0
    BY <1>2, <1>4, Zenon DEF Idle
  <2>2. 0 + 0 <= 0
    OBVIOUS
  <2> QED
    BY <1>6, <2>1, <2>2, Zenon DEF Room
<1>8. Roles
  <2>1. StepsFit /\ TasksFit /\ ToSendFits /\ OneEach /\ LastRead
    BY SenderAssumption DEF Init, StepsFit, TasksFit, ToSendFits, OneEach, LastRead,
      Sending, Adding, Timed, Handlers
  <2>2. HandlerTypes
    BY <1>2, LinkAssumption DEF Init, HandlerTypes, Stamps, Handlers
  <2> QED
    BY <2>1, <2>2 DEF Roles
<1>9. /\ \A w \in Workers : ~Calling(w) /\ ~Beating(w) /\ ~Adding(w)
      /\ \A c \in Clients : place[c] = "lobby"
      /\ Len(received) = 0 /\ beats = 0
  BY <1>2 DEF Init, SenderInit, Calling, Beating, Adding
<1>10. Quiet
  BY <1>4 DEF Quiet
<1>11. JoinSoFar
  BY <1>6, <1>9 DEF JoinSoFar
<1>12. Arrived
  BY <1>5, <1>6 DEF Arrived
<1>14. Budget
  BY <1>6, <1>9, JoinTyped DEF Budget
<1> QED
  BY <1>1, <1>3, <1>7, <1>8, <1>10, <1>11, <1>12, <1>14 DEF LinkInv, Sound, LinesInv

\* In every state of the link: the handlers, the roster and the lines.
LEMMA LinkAlways == Spec => []LinkInv
  BY InitLink, NextLink, PTL DEF Spec

\* What the kernel took is the first part of a line.
LEMMA BegunInLine ==
  ASSUME SenderTypes, NEW c \in Clients
  PROVE  /\ DOMAIN stream[c] = 1 .. Len(stream[c])
         /\ Begun(c) = {i \in Starts(Line(c)) : i <= Len(stream[c])}
         /\ \A i \in Begun(c) : /\ Line(c)[i].frame = stream[c][i].frame
                                /\ Line(c)[i].stamp = stream[c][i].stamp
<1>1. stream[c] \in Seq(Pieces) /\ writes[c] \in Seq(Ops)
  BY DEF SenderTypes
<1>2. /\ Len(Line(c)) = Len(stream[c]) + Len(writes[c])
      /\ \A i \in 1 .. Len(stream[c]) : Line(c)[i] = OfPiece(stream[c][i])
  BY <1>1, JoinedType DEF Line
<1>3. /\ Len(stream[c]) \in Nat /\ Len(writes[c]) \in Nat
      /\ DOMAIN stream[c] = 1 .. Len(stream[c])
  BY <1>1
<1>4. \A i \in 1 .. Len(stream[c]) : /\ Line(c)[i].frame = stream[c][i].frame
                                     /\ Line(c)[i].stamp = stream[c][i].stamp
                                     /\ (Line(c)[i].is = "start") = (stream[c][i].part # "rest")
  <2> TAKE i \in 1 .. Len(stream[c])
  <2>1. Line(c)[i] = OfPiece(stream[c][i])
    BY <1>2
  <2>2. CASE stream[c][i].part = "rest"
    BY <2>1, <2>2 DEF OfPiece, Item
  <2>3. CASE stream[c][i].part # "rest"
    BY <2>1, <2>3 DEF OfPiece, Item
  <2> QED
    BY <2>2, <2>3
<1>5. /\ \A i \in 1 .. Len(Line(c)) : i <= Len(stream[c]) => i \in 1 .. Len(stream[c])
      /\ \A i \in 1 .. Len(stream[c]) : i \in 1 .. Len(Line(c)) /\ i <= Len(stream[c])
  <2>1. \A m, n, l \in Nat : l = m + n =>
          /\ \A i \in 1 .. l : i <= m => i \in 1 .. m
          /\ \A i \in 1 .. m : i \in 1 .. l /\ i <= m
    OBVIOUS
  <2>2. Len(Line(c)) \in Nat
    BY LinesTyped
  <2> QED
    BY <1>2, <1>3, <2>1, <2>2, Zenon
<1>6. Begun(c) = {i \in Starts(Line(c)) : i <= Len(stream[c])}
  BY <1>3, <1>4, <1>5 DEF Begun, Starts
<1>7. Begun(c) \subseteq 1 .. Len(stream[c])
  BY <1>3 DEF Begun
<1> QED
  BY <1>3, <1>4, <1>6, <1>7
\* A place has the same rank in a set as in a first part of it.
LEMMA RankInPart ==
  ASSUME NEW n \in Nat, NEW m \in Nat, NEW S \in SUBSET (1 .. m),
         NEW i \in S, i <= n
  PROVE  Rank({j \in S : j <= n}, i) = Rank(S, i)
<1>1. \A j \in S : j <= i => j <= n
  OBVIOUS
<1>2. {j \in {k \in S : k <= n} : j <= i} = {j \in S : j <= i}
  BY <1>1
<1> QED
  BY <1>2 DEF Rank

\* A player's client sees the frames of addClient before any packet of a node.
THEOREM JoinComesFirst == Spec => []JoinFirst
<1>1. LinkInv => JoinFirst
  <2> SUFFICES ASSUME LinkInv, NEW c \in Clients, NEW i \in Game(c)
               PROVE  IF Rank(Game(c), i) <= Len(JoinFrames)
                      THEN stream[c][i].frame = JoinFrames[Rank(Game(c), i)]
                      ELSE stream[c][i].frame.kind = "relayed"
    BY DEF JoinFirst
  <2> DEFINE all == Games(Line(c))
             n == Len(stream[c])
  <2>1. SenderTypes /\ JoinRule(Line(c)) /\ Line(c) \in Seq(Items)
    BY LinesTyped DEF LinkInv, Sound, LinesInv, JoinSoFar
  <2>2. /\ Begun(c) = {j \in Starts(Line(c)) : j <= n}
        /\ \A j \in Begun(c) : Line(c)[j].frame = stream[c][j].frame
    BY <2>1, BegunInLine
  <2>3. Game(c) = {j \in all : j <= n}
    BY <2>2 DEF Games, Game
  <2>4. /\ all \in SUBSET (1 .. Len(Line(c))) /\ Len(Line(c)) \in Nat /\ n \in Nat
    BY <2>1, LineCounts DEF SenderTypes
  <2>5. i \in all /\ i <= n /\ stream[c][i].frame = Line(c)[i].frame
    BY <2>2, <2>3 DEF Game
  <2> HIDE DEF all, n
  <2>6. Rank(Game(c), i) = Rank(all, i)
    <3>1. Rank({j \in all : j <= n}, i) = Rank(all, i)
      BY <2>4, <2>5, RankInPart
    <3> QED
      BY <2>3, <3>1, Zenon
  <2> QED
    BY <2>1, <2>5, <2>6 DEF JoinRule, all
<1> QED
  BY <1>1, LinkAlways, PTL

\* Packets of the nodes go out to a player in the order of their arrival.
THEOREM ArrivalKept == Spec => []ArrivalOrder
<1>1. LinkInv => ArrivalOrder
  <2> SUFFICES ASSUME LinkInv, NEW c \in Clients, NEW i \in Begun(c), NEW j \in Begun(c),
                      stream[c][i].frame.kind = "relayed",
                      stream[c][j].frame.kind = "relayed", i < j
               PROVE  stream[c][i].frame.n < stream[c][j].frame.n
    BY DEF ArrivalOrder
  <2>1. SenderTypes /\ ArrivalRule(Line(c))
    BY DEF LinkInv, Sound, LinesInv, Arrived
  <2>2. /\ i \in Starts(Line(c)) /\ j \in Starts(Line(c))
        /\ stream[c][i].frame = Line(c)[i].frame /\ stream[c][j].frame = Line(c)[j].frame
    BY <2>1, BegunInLine
  <2> QED
    BY <2>1, <2>2 DEF ArrivalRule
<1> QED
  BY <1>1, LinkAlways, PTL

\* What waits to be written is bounded by what the link was given to send.
THEOREM LinkTypeOK == Spec => []TypeOK
<1>1. LinkInv => TypeOK
  <2> SUFFICES ASSUME LinkInv PROVE TypeOK
    OBVIOUS
  <2>1. IInv /\ SenderTypes /\ HandlerTypes /\ Room /\ Budget
    BY DEF LinkInv, Sound, Roles, LinesInv
  <2>2. ASSUME NEW c \in Clients
        PROVE  Len(writes[c]) + Len(partial[c]) <=
                 Len(JoinFrames) + MaxDatagrams + MaxKeepAlives
    <3> DEFINE s == Cardinality(Starts(Line(c)))
               g == Cardinality(Games(Line(c)))
               b == Cardinality(Beats(Line(c)))
    <3>1. s \in Nat /\ g \in Nat /\ b \in Nat /\ s = g + b
      BY <2>1, LinesTyped, LineCounts
    <3>2. Len(writes[c]) \in Nat /\ Len(partial[c]) \in Nat
      BY <2>1 DEF SenderTypes
    <3>3. Len(writes[c]) + Len(partial[c]) <= s
      BY <2>1 DEF Room
    <3>4. g <= Len(JoinFrames) + Len(received) /\ b <= beats
      BY <2>1 DEF Budget
    <3>5. /\ Len(received) \in Nat /\ Len(received) <= MaxDatagrams
          /\ beats \in Nat /\ beats <= MaxKeepAlives
          /\ MaxDatagrams \in Nat /\ MaxKeepAlives \in Nat /\ Len(JoinFrames) \in Nat
      BY <2>1, LinkAssumption, JoinTyped DEF HandlerTypes
    <3>6. \A i, j, k, l, m, o, p, q, r, t \in Nat :
            i + j <= k /\ k = l + m /\ l <= o + p /\ m <= q /\ p <= r /\ q <= t =>
              i + j <= o + r + t
      OBVIOUS
    <3> HIDE DEF s, g, b
    <3> QED
      BY <3>1, <3>2, <3>3, <3>4, <3>5, <3>6
  <2>3. fault \in Workers \cup {None}
    BY <2>1 DEF IInv
  <2>4. received \in Seq([n : Nat, id : MessageID, player : Players])
    BY <2>1 DEF HandlerTypes, Datagrams
  <2> QED
    BY <2>1, <2>2, <2>3, <2>4 DEF TypeOK, IInv, SlotsOwn, SenderTypes, HandlerTypes
<1> QED
  BY <1>1, LinkAlways, PTL

-----------------------------------------------------------------------------
(***************************************************************************)
(* Delivery: what a player's client got of addClient and of the nodes, as  *)
(* a sequence.  The frame at k is the one whose place has rank k.          *)
(***************************************************************************)

\* Later places have higher ranks.
LEMMA RanksDiffer ==
  ASSUME NEW n \in Nat, NEW S \in SUBSET (1 .. n), NEW i \in S, NEW j \in S, i < j
  PROVE  Rank(S, i) < Rank(S, j)
<1> DEFINE low  == {k \in S : k <= i}
           high == {k \in S : k <= j}
<1>1. i \in Nat /\ j \in Nat /\ S \subseteq Nat
  OBVIOUS
<1>2. low \in SUBSET high /\ high \in SUBSET (1 .. n) /\ j \in high /\ j \notin low
  <2>1. (\A k \in S : k <= i => k <= j) /\ j <= j /\ ~(j <= i)
    BY <1>1
  <2> QED
    BY <2>1
<1> HIDE DEF low, high
<1>3. IsFiniteSet(high) /\ Cardinality(high) \in Nat
  BY <1>2, Counted
<1>4. /\ IsFiniteSet(low) /\ Cardinality(low) <= Cardinality(high)
      /\ Cardinality(high) = Cardinality(low) => high = low
  BY <1>2, <1>3, FS_Subset
<1>5. Cardinality(low) \in Nat /\ Cardinality(low) # Cardinality(high)
  BY <1>2, <1>4, FS_CardinalityType
<1>6. Rank(S, i) = Cardinality(low) /\ Rank(S, j) = Cardinality(high)
  BY DEF Rank, low, high
<1> QED
  BY <1>3, <1>4, <1>5, <1>6

\* The place of a rank.
At(S, k) == CHOOSE i \in S : Rank(S, i) = k

\* Each rank has one: ranks of different places differ, and there are as many.
LEMMA AtRank ==
  ASSUME NEW n \in Nat, NEW S \in SUBSET (1 .. n), NEW k \in 1 .. Cardinality(S)
  PROVE  /\ At(S, k) \in S /\ Rank(S, At(S, k)) = k
         /\ \A i \in S : Rank(S, i) = k => i = At(S, k)
<1> DEFINE m == Cardinality(S)
           T == (1 .. m) \ {k}
           f == [i \in S |-> Rank(S, i)]
<1>0. S \subseteq Nat
  OBVIOUS
<1>1. IsFiniteSet(S) /\ m \in Nat /\ S \subseteq Nat
  BY <1>0, Counted
<1>2. \A i \in S : Rank(S, i) \in 1 .. m
  <2> TAKE i \in S
  <2>1. Rank(S, i) \in Nat /\ Rank(S, i) <= m
    BY OneMore
  <2>2. {j \in S : j <= i} \in SUBSET (1 .. n) /\ i \in {j \in S : j <= i}
    <3>1. i <= i
      BY <1>1
    <3> QED
      BY <3>1
  <2>3. Rank(S, i) # 0
    <3>1. IsFiniteSet({j \in S : j <= i})
      BY <2>2, Counted
    <3>2. Cardinality({j \in S : j <= i}) = 0 <=> {j \in S : j <= i} = {}
      BY <3>1, FS_EmptySet
    <3> QED
      BY <2>2, <3>2 DEF Rank
  <2> QED
    BY <1>1, <2>1, <2>3
<1>3. \A i, j \in S : Rank(S, i) = Rank(S, j) => i = j
  <2> SUFFICES ASSUME NEW i \in S, NEW j \in S, i # j PROVE Rank(S, i) # Rank(S, j)
    OBVIOUS
  <2>1. i < j \/ j < i
    BY <1>1
  <2>2. Rank(S, i) \in Nat /\ Rank(S, j) \in Nat
    BY <1>2
  <2>3. CASE i < j
    <3>1. Rank(S, i) < Rank(S, j)
      BY <2>3, RanksDiffer
    <3> QED
      BY <2>2, <3>1
  <2>4. CASE j < i
    <3>1. Rank(S, j) < Rank(S, i)
      BY <2>4, RanksDiffer
    <3> QED
      BY <2>2, <3>1
  <2> QED
    BY <2>1, <2>3, <2>4
<1>4. \E i \in S : Rank(S, i) = k
  <2> SUFFICES ASSUME \A i \in S : Rank(S, i) # k PROVE FALSE
    OBVIOUS
  <2>1. IsFiniteSet(1 .. m) /\ Cardinality(1 .. m) = m /\ k \in 1 .. m /\ m > 0
    BY <1>1, FS_Interval
  <2> HIDE DEF m
  <2>2. IsFiniteSet(T) /\ Cardinality(T) = m - 1
    BY <2>1, FS_RemoveElement
  <2>3. f \in [S -> T]
    BY <1>2
  <2>4. Cardinality(T) < Cardinality(S)
    BY <1>1, <2>2 DEF m
  <2> HIDE DEF T, f
  <2>5. \E i, j \in S : i # j /\ f[i] = f[j]
    BY <1>1, <2>2, <2>3, <2>4, FS_PigeonHole
  <2> QED
    BY <1>3, <2>5 DEF f
<1>5. At(S, k) \in S /\ Rank(S, At(S, k)) = k
  BY <1>4 DEF At
<1> QED
  BY <1>3, <1>5

\* The frames at some places of what the kernel took, in their order.
FramesAt(s, S) == [k \in 1 .. Cardinality(S) |-> s[At(S, k)].frame]

\* It is a sequence of frames, one per place.
LEMMA FramesAtTyped ==
  ASSUME NEW s \in Seq(Pieces), NEW S \in SUBSET (1 .. Len(s))
  PROVE  /\ FramesAt(s, S) \in Seq(Frames) /\ Len(FramesAt(s, S)) = Cardinality(S)
         /\ \A k \in 1 .. Cardinality(S) : FramesAt(s, S)[k] = s[At(S, k)].frame
<1>0. Len(s) \in Nat
  OBVIOUS
<1>1. Len(s) \in Nat /\ Cardinality(S) \in Nat
  BY <1>0, Counted
<1>2. \A k \in 1 .. Cardinality(S) : s[At(S, k)].frame \in Frames
  <2> TAKE k \in 1 .. Cardinality(S)
  <2>1. At(S, k) \in 1 .. Len(s)
    BY <1>1, AtRank
  <2> HIDE DEF At
  <2>2. s[At(S, k)] \in Pieces
    BY <2>1
  <2> QED
    BY <2>2 DEF Pieces
<1>3. FramesAt(s, S) \in [1 .. Cardinality(S) -> Frames]
  BY <1>2 DEF FramesAt
<1> QED
  BY <1>1, <1>3 DEF FramesAt

\* One more piece, and a frame that begins there or not.
LEMMA FramesAtGrow ==
  ASSUME NEW s \in Seq(Pieces), NEW p \in Pieces, NEW S \in SUBSET (1 .. Len(s))
  PROVE  /\ FramesAt(Append(s, p), S) = FramesAt(s, S)
         /\ FramesAt(Append(s, p), S \cup {Len(s) + 1}) = Append(FramesAt(s, S), p.frame)
<1> DEFINE n == Len(s)
           m == Cardinality(S)
           t == Append(s, p)
           R == S \cup {n + 1}
<1>0. Len(s) \in Nat
  OBVIOUS
<1>1. n \in Nat /\ m \in Nat
  BY <1>0, Counted
<1>2. /\ t \in Seq(Pieces) /\ Len(t) = n + 1 /\ t[n + 1] = p
      /\ \A i \in 1 .. n : t[i] = s[i]
  OBVIOUS
<1>3. /\ Cardinality(R) = m + 1 /\ Rank(R, n + 1) = m + 1
      /\ \A i \in S : Rank(R, i) = Rank(S, i)
  BY <1>1, OneMore
<1>4. R \in SUBSET (1 .. n + 1) /\ S \in SUBSET (1 .. n) /\ n + 1 \in Nat
  <2>1. S \in SUBSET (1 .. n)
    OBVIOUS
  <2>2. \A k \in 1 .. n : k \in 1 .. n + 1
    BY <1>1
  <2>3. n + 1 \in 1 .. n + 1 /\ n + 1 \in Nat
    BY <1>1
  <2> HIDE DEF n
  <2> QED
    BY <2>1, <2>2, <2>3
<1> HIDE DEF n, m, t, R
<1>5. \A k \in 1 .. m : At(S, k) \in S /\ t[At(S, k)] = s[At(S, k)] /\ At(R, k) = At(S, k)
  <2> TAKE k \in 1 .. m
  <2>1. At(S, k) \in S /\ Rank(S, At(S, k)) = k
    BY <1>1, <1>4, AtRank DEF m
  <2>2. At(S, k) \in R /\ Rank(R, At(S, k)) = k
    BY <1>3, <2>1 DEF R
  <2>3. k \in 1 .. Cardinality(R)
    BY <1>1, <1>3
  <2>4. At(S, k) = At(R, k)
    BY <1>4, <2>2, <2>3, AtRank
  <2> QED
    BY <1>2, <1>4, <2>1, <2>4
<1>6. At(R, m + 1) = n + 1
  <2>1. m + 1 \in 1 .. Cardinality(R) /\ n + 1 \in R
    BY <1>1, <1>3 DEF R
  <2> QED
    BY <1>3, <1>4, <2>1, AtRank
<1>7. FramesAt(t, S) = FramesAt(s, S)
  BY <1>5 DEF FramesAt, m
<1>8. FramesAt(t, R) = Append(FramesAt(s, S), p.frame)
  <2>1. /\ FramesAt(s, S) \in Seq(Frames) /\ Len(FramesAt(s, S)) = m
        /\ \A k \in 1 .. m : FramesAt(s, S)[k] = s[At(S, k)].frame
    BY <1>4, FramesAtTyped DEF n, m
  <2>2. /\ FramesAt(t, R) \in Seq(Frames) /\ Len(FramesAt(t, R)) = m + 1
        /\ \A k \in 1 .. m + 1 : FramesAt(t, R)[k] = t[At(R, k)].frame
    BY <1>2, <1>3, <1>4, FramesAtTyped
  <2>3. p.frame \in Frames
    BY DEF Pieces
  <2>4. \A k \in 1 .. m + 1 : FramesAt(t, R)[k] = Append(FramesAt(s, S), p.frame)[k]
    <3> TAKE k \in 1 .. m + 1
    <3>1. CASE k \in 1 .. m
      BY <1>5, <2>1, <2>2, <2>3, <3>1
    <3>2. CASE k = m + 1
      BY <1>2, <1>6, <2>1, <2>2, <2>3, <3>2
    <3>3. k \in 1 .. m \/ k = m + 1
      BY <1>1
    <3> QED
      BY <3>1, <3>2, <3>3
  <2>5. Append(FramesAt(s, S), p.frame) \in Seq(Frames)
        /\ Len(Append(FramesAt(s, S), p.frame)) = m + 1
    BY <2>1, <2>3
  <2> QED
    BY <1>1, <2>2, <2>4, <2>5
<1> QED
  BY <1>7, <1>8 DEF n, t, R

\* What one step may do to the streams: nothing; one piece more, on an open
\* connection; or the end of an open connection.
Same(c)  == stream'[c] = stream[c] /\ (Open(c)' <=> Open(c))
Rests    == \A c \in Clients : Same(c)
Gives(c) ==
  /\ Open(c) /\ Open(c)' /\ \A b \in Clients \ {c} : Same(b)
  /\ \E p \in Pieces : stream'[c] = Append(stream[c], p)
Ends(c)  ==
  /\ Open(c) /\ ~Open(c)' /\ stream'[c] = <<>>
  /\ \A b \in Clients \ {c} : Same(b)
Streams  == Rests \/ \E c \in Clients : Gives(c) \/ Ends(c)

\* A step that sends nothing.
LEMMA RestStreams ==
  ASSUME UNCHANGED <<stream, alive>>,
         \A c \in Clients : place'[c] = "destroyed" <=> place[c] = "destroyed"
  PROVE  Streams
  BY DEF Streams, Rests, Same, Open

\* A piece, if any, on an open connection.
LEMMA PieceStreams ==
  ASSUME SenderTypes, UNCHANGED <<alive, place>>, NEW c \in Clients, Open(c),
         stream' = stream \/ \E p \in Pieces :
           stream' = [stream EXCEPT ![c] = Append(stream[c], p)]
  PROVE  Streams
<1>1. \A b \in Clients : Open(b)' <=> Open(b)
  BY DEF Open
<1>2. CASE stream' = stream
  BY <1>1, <1>2 DEF Streams, Rests, Same
<1>3. ASSUME NEW p \in Pieces, stream' = [stream EXCEPT ![c] = Append(stream[c], p)]
      PROVE  Gives(c)
  <2>1. stream'[c] = Append(stream[c], p) /\ \A b \in Clients \ {c} : stream'[b] = stream[b]
    BY <1>3 DEF SenderTypes
  <2> QED
    BY <1>1, <2>1 DEF Gives, Same
<1> QED
  BY <1>2, <1>3 DEF Streams

\* What the kernel takes of a write is a piece.
LEMMA TakenStreams ==
  ASSUME NEW c, NEW op \in Ops, NEW line, TakenWhole(c, op, line) \/ TakenInPart(c, op, line)
  PROVE  \E p \in Pieces : stream' = [stream EXCEPT ![c] = Append(stream[c], p)]
<1>1. /\ Piece(op, "rest") \in Pieces /\ Piece(op, "all") \in Pieces
      /\ Piece(op, "first") \in Pieces
  BY PieceTyped
<1>2. CASE TakenWhole(c, op, line)
  BY <1>1, <1>2 DEF TakenWhole
<1>3. CASE TakenInPart(c, op, line)
  BY <1>1, <1>3 DEF TakenInPart
<1> QED
  BY <1>2, <1>3

\* A write that send_some tries at once sends one piece or waits.
LEMMA SomeStreams ==
  ASSUME NEW c, NEW op \in Ops, NEW line, SendSome(c, op, line)
  PROVE  stream' = stream \/ \E p \in Pieces :
           stream' = [stream EXCEPT ![c] = Append(stream[c], p)]
  BY TakenStreams DEF SendSome, Waits

\* The end of a handler that destroyed a Client of the roster, or none.
LEMMA GoneStreams ==
  ASSUME LinkInv, NEW w \in Workers, NEW gone \in SUBSET Clients, Done(w, gone),
         \A b, c \in gone : b = c,
         \A c \in gone : place'[c] = "destroyed",
         \A c \in Clients \ gone : place'[c] = "destroyed" <=> place[c] = "destroyed"
  PROVE  Streams
<1>1. /\ alive' = alive
      /\ stream' = [c \in Clients |-> IF c \in gone THEN <<>> ELSE stream[c]]
  BY DEF Done, Emptied
<1>2. \A c \in Clients \ gone : Same(c)
  BY <1>1 DEF Same, Open
<1>3. ASSUME NEW c \in gone PROVE stream'[c] = <<>> /\ ~Open(c)'
  BY <1>1 DEF Open
<1>4. CASE \A c \in gone : ~Open(c)
  <2>1. \A c \in gone : stream[c] = <<>>
    BY <1>4 DEF LinkInv, LinesInv, Quiet, Open, Idle
  <2> QED
    BY <1>2, <1>3, <1>4, <2>1 DEF Streams, Rests, Same
<1>5. ASSUME NEW c \in gone, Open(c) PROVE Ends(c)
  BY <1>2, <1>3, <1>5 DEF Ends
<1> QED
  BY <1>4, <1>5 DEF Streams

\* What ends with Clear and Return: the line of a connection, or none.
LEMMA WithinStreams ==
  ASSUME LinkInv, NEW gone \in SUBSET Clients, NEW w, Emptied(gone, w),
         \A b, c \in gone : b = c,
         alive' = [c \in Clients |-> IF c \in gone THEN FALSE ELSE alive[c]],
         UNCHANGED place
  PROVE  Streams
<1>1. stream' = [c \in Clients |-> IF c \in gone THEN <<>> ELSE stream[c]]
  BY DEF Emptied
<1>2. \A c \in Clients \ gone : Same(c)
  BY <1>1 DEF Same, Open
<1>3. ASSUME NEW c \in gone PROVE stream'[c] = <<>> /\ ~Open(c)'
  BY <1>1 DEF Open
<1>4. CASE \A c \in gone : ~Open(c)
  <2>1. \A c \in gone : stream[c] = <<>>
    BY <1>4 DEF LinkInv, LinesInv, Quiet, Open, Idle
  <2> QED
    BY <1>2, <1>3, <1>4, <2>1 DEF Streams, Rests, Same
<1>5. ASSUME NEW c \in gone, Open(c) PROVE Ends(c)
  BY <1>2, <1>3, <1>5 DEF Ends
<1> QED
  BY <1>4, <1>5 DEF Streams

\* The steps of a handler.
LEMMA StepStreams ==
  ASSUME LinkInv, NEW w \in Workers, Step(w)
  PROVE  Streams
<1> USE DEF linkVars, rosterVars, timerVars
<1>t. place \in [Clients -> Places] /\ alive \in [Clients -> BOOLEAN]
  BY DEF LinkInv, IInv, Sound, SenderTypes
<1>1. CASE Find(w) \/ Call(w) \/ UseFreed(w)
  BY <1>1, RestStreams DEF UseFreed, Fault, Find, Call, senderVars
<1>2. CASE Rearm(w) \/ Reset(w)
  <2>1. Done(w, {}) /\ UNCHANGED place /\ {} \in SUBSET Clients
    BY <1>2 DEF Rearm, Reset
  <2> QED
    BY <2>1, GoneStreams
<1>3. CASE Return(w)
  <2>1. Emptied({}, w) /\ UNCHANGED <<alive, place>> /\ {} \in SUBSET Clients
    BY <1>3 DEF Return
  <2>2. alive' = [c \in Clients |-> IF c \in {} THEN FALSE ELSE alive[c]]
    BY <1>t, <2>1
  <2> QED
    BY <2>1, <2>2, WithinStreams
<1>4. CASE Clear(w)
  <2> DEFINE gone == {on[w]}
  <2>1. /\ Emptied(gone, None) /\ alive' = [alive EXCEPT ![on[w]] = FALSE]
        /\ UNCHANGED place /\ on[w] \in Clients
    BY <1>4 DEF Clear, CloseSocket, LinkInv, IInv, HandlersKnow
  <2>2. alive' = [c \in Clients |-> IF c \in gone THEN FALSE ELSE alive[c]]
    BY <1>t, <2>1
  <2>3. gone \in SUBSET Clients /\ \A b, c \in gone : b = c
    BY <2>1
  <2> HIDE DEF gone
  <2> QED
    BY <2>1, <2>2, <2>3, WithinStreams
<1>5. CASE AddClient(w)
  <2>1. /\ UNCHANGED <<stream, alive>> /\ place' = [place EXCEPT ![on[w]] = "adding"]
        /\ pc[w] = "lock"
    BY <1>5 DEF AddClient, senderVars
  <2>2. on[w] \in Clients /\ place[on[w]] = "handoff"
    BY <2>1 DEF LinkInv, IInv, HandlersKnow, LoginsOwn
  <2>3. \A b \in Clients : place'[b] = "destroyed" <=> place[b] = "destroyed"
    BY <1>t, <2>1, <2>2
  <2> QED
    BY <2>1, <2>3, RestStreams
<1>6. CASE Send(w)
  BY <1>6, RestStreams DEF Send
<1>7. CASE Write(w)
  <2>1. CASE place[on[w]] = "destroyed" \/ ~alive[on[w]]
    BY <1>7, <2>1, RestStreams DEF Write, AsyncWrite
  <2>2. CASE place[on[w]] # "destroyed" /\ alive[on[w]]
    <3> DEFINE c == on[w]
               op == [frame |-> Head(toSend[w]), stamp |-> mark[w],
                      holder |-> w, begun |-> FALSE]
    <3>1. /\ SenderTypes /\ c \in Clients /\ toSend[w] \in Seq(Frames) /\ toSend[w] # <<>>
          /\ mark[w] \in Stamps
      BY <1>7 DEF LinkInv, Sound, IInv, HandlersKnow, Roles, HandlerTypes, ToSendFits,
        Sending, Write
    <3>2. op \in Ops
      BY <3>1 DEF Ops
    <3>3. SendSome(c, op, partial[c]) /\ UNCHANGED <<alive, place>>
      BY <1>7, <2>2 DEF Write, AsyncWrite
    <3> HIDE DEF op
    <3>4. stream' = stream \/ \E p \in Pieces :
            stream' = [stream EXCEPT ![c] = Append(stream[c], p)]
      BY <3>2, <3>3, SomeStreams
    <3>5. Open(c)
      BY <2>2 DEF Open
    <3> QED
      BY <3>1, <3>3, <3>4, <3>5, PieceStreams
  <2> QED
    BY <2>1, <2>2
<1>8. CASE Store(w)
  <2> DEFINE c == on[w]
             old == {clients[Account[c]]} \ {None}
  <2>1. c \in Clients /\ Account[c] \in Players /\ place[c] = "adding"
    BY <1>8, LinkAssumption DEF LinkInv, IInv, HandlersKnow, LoginsOwn, Store
  <2>2. /\ Done(w, old)
        /\ place' = [p \in Clients |-> IF p = c THEN "roster"
                      ELSE IF p \in old THEN "destroyed" ELSE place[p]]
    BY <1>8 DEF Store
  <2>3. old \in SUBSET Clients /\ \A b \in old : place[b] = "roster"
    BY <2>1 DEF LinkInv, IInv, SlotsOwn
  <2>4. \A a, b \in old : a = b
    OBVIOUS
  <2> HIDE DEF old, c
  <2>5. /\ \A b \in old : place'[b] = "destroyed"
        /\ \A b \in Clients \ old : place'[b] = "destroyed" <=> place[b] = "destroyed"
    BY <2>1, <2>2, <2>3
  <2> QED
    BY <2>2, <2>3, <2>4, <2>5, GoneStreams
<1>9. CASE Erase(w)
  <2> DEFINE old == {clients[Account[on[w]]]} \ {None}
  <2>1. Account[on[w]] \in Players
    BY <1>9, LinkAssumption DEF LinkInv, IInv, HandlersKnow, Erase
  <2>2. /\ Done(w, old)
        /\ place' = [p \in Clients |-> IF p \in old THEN "destroyed" ELSE place[p]]
    BY <1>9 DEF Erase
  <2>3. old \in SUBSET Clients /\ \A a, b \in old : a = b
    BY <2>1 DEF LinkInv, IInv, SlotsOwn
  <2> HIDE DEF old
  <2>4. /\ \A b \in old : place'[b] = "destroyed"
        /\ \A b \in Clients \ old : place'[b] = "destroyed" <=> place[b] = "destroyed"
    BY <2>2, <2>3
  <2> QED
    BY <2>2, <2>3, <2>4, GoneStreams
<1> QED
  BY <1>1, <1>2, <1>3, <1>4, <1>5, <1>6, <1>7, <1>8, <1>9 DEF Step

\* Every step.
LEMMA NextStreams ==
  ASSUME LinkInv, [Next]_vars
  PROVE  Streams
<1>1. CASE UNCHANGED vars
  BY <1>1, RestStreams DEF vars, senderVars, rosterVars
<1>2. ASSUME NEW w \in Workers, OnDataReceived(w) \/ ReceiveFails(w) PROVE Streams
  BY <1>2, RestStreams DEF OnDataReceived, Receive, ReceiveFails, senderVars, rosterVars
<1>3. ASSUME NEW w \in Workers, NEW c \in Clients, OnPlayerLogin(w, c)
      PROVE  Streams
  <2>1. /\ UNCHANGED <<stream, alive>>
        /\ place[c] = "lobby" /\ place' = [place EXCEPT ![c] = "handoff"]
    BY <1>3 DEF OnPlayerLogin, senderVars
  <2>2. \A b \in Clients : place'[b] = "destroyed" <=> place[b] = "destroyed"
    BY <2>1 DEF LinkInv, IInv
  <2> QED
    BY <2>1, <2>2, RestStreams
<1>4. ASSUME NEW w \in Workers, NEW c \in Clients, NEW h \in Handlers,
             KeepAlive(w, c) \/ HandlerEnds(w, c, h) \/ HandlerFails(w, c, h)
      PROVE  Streams
  BY <1>4, RestStreams DEF KeepAlive, HandlerEnds, HandlerFails, senderVars, rosterVars
<1>5. ASSUME NEW c \in Clients, Kernel(c) PROVE Streams
  <2>1. UNCHANGED <<alive, place>> /\ (Writable(c) \/ Resume(c))
    BY <1>5 DEF Kernel, Writable, Resume, rosterVars
  <2>2. SenderTypes /\ writes[c] \in Seq(Ops) /\ partial[c] \in Seq(Ops)
    BY DEF LinkInv, Sound, SenderTypes
  <2>3. Open(c)
    BY <2>1 DEF Writable, Resume, LinkInv, LinesInv, Quiet, Idle, Open
  <2>4. CASE Writable(c)
    <3>1. Head(writes[c]) \in Ops
      BY <2>2, <2>4 DEF Writable
    <3>2. \E p \in Pieces : stream' = [stream EXCEPT ![c] = Append(stream[c], p)]
      BY <2>4, <3>1, TakenStreams DEF Writable
    <3> QED
      BY <2>1, <2>2, <2>3, <3>2, PieceStreams
  <2>5. CASE Resume(c)
    <3>1. Head(partial[c]) \in Ops
      BY <2>2, <2>5 DEF Resume
    <3>2. stream' = stream \/ \E p \in Pieces :
            stream' = [stream EXCEPT ![c] = Append(stream[c], p)]
      BY <2>5, <3>1, SomeStreams DEF Resume
    <3> QED
      BY <2>1, <2>2, <2>3, <3>2, PieceStreams
  <2> QED
    BY <2>1, <2>4, <2>5
<1> QED
  BY <1>1, <1>2, <1>3, <1>4, <1>5, StepStreams DEF Next, Handlers

\* A packet of the nodes is on a connection of the player whom its datagram
\* names, and the datagram asked for it.
AddressedTo(c, n) ==
  /\ n \in 1 .. Len(received)
  /\ received[n].id = "MC_PACKET" /\ received[n].player = Account[c]
Handling(w) == task[w] = "receive" /\ pc[w] \in {"call", "send", "write"}
Passing(w)  == task[w] = "receive" /\ Sending(w)
Answers(w) ==
  /\ task[w] = "receive" => received[Len(received)] = msg[w]
  /\ Handling(w) => msg[w].id = "MC_PACKET"
  /\ Passing(w) => Account[on[w]] = msg[w].player
Addressed ==
  /\ \A w \in Workers : Answers(w)
  /\ \A c \in Clients : \A i \in Starts(Line(c)) :
       Line(c)[i].frame.kind = "relayed" => AddressedTo(c, Line(c)[i].frame.n)

\* What was read stays read.
LEMMA NextReceived ==
  ASSUME LinkInv, [Next]_vars
  PROVE  /\ Len(received) \in Nat /\ Len(received') \in Nat /\ Len(received) <= Len(received')
         /\ \A n \in 1 .. Len(received) : received'[n] = received[n]
         /\ \/ received' = received
            \/ /\ UNCHANGED <<senderVars, place>>
               /\ \E m \in Messages : received' =
                    Append(received, [n |-> Len(received) + 1, id |-> m.id, player |-> m.player])
<1>1. received \in Seq(Datagrams)
  BY DEF LinkInv, Roles, HandlerTypes
<1>2. CASE received' = received
  BY <1>1, <1>2
<1>3. ASSUME NEW w \in Workers, OnDataReceived(w)
      PROVE  /\ UNCHANGED <<senderVars, place>>
             /\ \E m \in Messages : received' =
                  Append(received, [n |-> Len(received) + 1, id |-> m.id, player |-> m.player])
  BY <1>3 DEF OnDataReceived, Receive, rosterVars
<1>4. received' = received \/ \E w \in Workers : OnDataReceived(w)
  BY DEF Next, Step, Find, Call, Return, Rearm, AddClient, Send, Write, Store, Reset,
    Clear, Erase, UseFreed, Fault, ReceiveFails, OnPlayerLogin, KeepAlive, HandlerEnds,
    HandlerFails, Kernel, vars, linkVars
<1>5. ASSUME NEW m \in Messages, received' =
               Append(received, [n |-> Len(received) + 1, id |-> m.id, player |-> m.player])
      PROVE  /\ Len(received) \in Nat /\ Len(received') \in Nat /\ Len(received) <= Len(received')
             /\ \A n \in 1 .. Len(received) : received'[n] = received[n]
  BY <1>1, <1>5
<1> QED
  BY <1>2, <1>3, <1>4, <1>5

\* A step that reads no datagram and passes none on.
LEMMA AnswersKept ==
  ASSUME \A w \in Workers : Answers(w), UNCHANGED received,
         \A w \in Workers : task'[w] = "receive" =>
           /\ task[w] = "receive" /\ msg'[w] = msg[w]
           /\ Handling(w)' => Handling(w)
           /\ Passing(w)' => Passing(w) /\ on'[w] = on[w]
  PROVE  \A w \in Workers : Answers(w)'
  BY DEF Answers, Handling, Passing

\* What a handler of the UDP socket knows stays true in every step.
LEMMA NextAnswers ==
  ASSUME LinkInv, \A w \in Workers : Answers(w), [Next]_vars
  PROVE  \A w \in Workers : Answers(w)'
<1> USE DEF Handling, Passing, Sending
<1>t. /\ pc \in [Workers -> Steps] /\ on \in [Workers -> Clients \cup {None}]
      /\ task \in [Workers -> Tasks]
      /\ msg = [w \in Workers |-> msg[w]] /\ received \in Seq(Datagrams)
  BY DEF LinkInv, IInv, Roles, HandlerTypes
<1>1. CASE UNCHANGED <<workerVars, received>>
  BY <1>1, AnswersKept DEF workerVars
<1>2. ASSUME NEW w \in Workers, NEW gone, Done(w, gone), UNCHANGED received
      PROVE  \A v \in Workers : Answers(v)'
  BY <1>t, <1>2, AnswersKept DEF Done
<1>3. ASSUME NEW w \in Workers, NEW kind, NEW step, NEW c, NEW frames,
             Take(w, kind, step, c, frames), kind # "receive", UNCHANGED <<msg, received>>
      PROVE  \A v \in Workers : Answers(v)'
  BY <1>t, <1>3, AnswersKept DEF Take
<1>4. ASSUME NEW w \in Workers, Sending(w), Sent(w), UNCHANGED received
      PROVE  \A v \in Workers : Answers(v)'
  BY <1>t, <1>4, AnswersKept DEF Sent
<1>5. ASSUME NEW w \in Workers, Find(w)
      PROVE  \A v \in Workers : Answers(v)'
  BY <1>t, <1>5 DEF Find, Goto, linkVars, Answers
<1>6. ASSUME NEW w \in Workers, Call(w)
      PROVE  \A v \in Workers : Answers(v)'
  <2>1. CASE clients[msg[w].player] = None
    BY <1>1, <1>6, <2>1 DEF Call, Fault, linkVars
  <2>2. CASE clients[msg[w].player] # None
    <3>1. task[w] = "receive" /\ msg[w].player \in Players
      BY <1>6 DEF Call, LinkInv, IInv, HandlersKnow
    <3>2. Account[clients[msg[w].player]] = msg[w].player
      BY <2>2, <3>1 DEF LinkInv, IInv, SlotsOwn
    <3>3. /\ pc[w] = "call" /\ pc' = [pc EXCEPT ![w] = "send"]
          /\ on' = [on EXCEPT ![w] = clients[msg[w].player]]
          /\ UNCHANGED <<task, msg, received>>
      BY <1>6, <2>2 DEF Call, linkVars
    <3> QED
      BY <1>t, <3>1, <3>2, <3>3 DEF Answers
  <2> QED
    BY <2>1, <2>2
<1>7. ASSUME NEW w \in Workers, Send(w)
      PROVE  \A v \in Workers : Answers(v)'
  <2>1. CASE ~Open(on[w])
    BY <1>4, <1>7, <2>1 DEF Send, linkVars
  <2>2. CASE Open(on[w])
    <3>1. /\ pc[w] = "send" /\ pc' = [pc EXCEPT ![w] = "write"]
          /\ UNCHANGED <<task, msg, on, received>>
      BY <1>7, <2>2 DEF Send, linkVars
    <3> QED
      BY <1>t, <3>1, AnswersKept
  <2> QED
    BY <2>1, <2>2
<1>8. ASSUME NEW w \in Workers, Write(w)
      PROVE  \A v \in Workers : Answers(v)'
  BY <1>4, <1>8 DEF Write, linkVars
<1>9. ASSUME NEW w \in Workers, Rearm(w) \/ Store(w) \/ Reset(w) \/ Erase(w)
      PROVE  \A v \in Workers : Answers(v)'
  BY <1>2, <1>9 DEF Rearm, Store, Reset, Erase, linkVars
<1>14. ASSUME NEW w \in Workers, UseFreed(w)
       PROVE  \A v \in Workers : Answers(v)'
  BY <1>1, <1>14 DEF UseFreed, Fault, linkVars
<1>15. ASSUME NEW w \in Workers, Return(w) \/ Clear(w)
       PROVE  \A v \in Workers : Answers(v)'
  <2>1. /\ pc[w] \in {"return", "clear"} /\ UNCHANGED <<task, msg, on, received>>
        /\ pc' = [pc EXCEPT ![w] = "rearm"] \/ pc' = [pc EXCEPT ![w] = "erase"]
    BY <1>15 DEF Return, Clear, Goto, linkVars
  <2> QED
    BY <1>t, <2>1, AnswersKept
<1>16. ASSUME NEW w \in Workers, AddClient(w)
       PROVE  \A v \in Workers : Answers(v)'
  <2>1. /\ pc[w] = "lock" /\ UNCHANGED <<task, msg, on, received>>
        /\ pc' = [pc EXCEPT ![w] = "send"]
    BY <1>16 DEF AddClient, Goto, linkVars
  <2>2. task[w] = "add"
    BY <2>1 DEF LinkInv, IInv, HandlersKnow
  <2> QED
    BY <1>t, <2>1, <2>2, AnswersKept
<1>10. ASSUME NEW w \in Workers, OnDataReceived(w)
       PROVE  \A v \in Workers : Answers(v)'
  <2>1. PICK m \in Messages :
          LET d == [n |-> Len(received) + 1, id |-> m.id, player |-> m.player]
          IN  msg' = [msg EXCEPT ![w] = d] /\ received' = Append(received, d)
    BY <1>10 DEF OnDataReceived, Receive
  <2> DEFINE d == [n |-> Len(received) + 1, id |-> m.id, player |-> m.player]
  <2>2. /\ pc' = [pc EXCEPT ![w] = "find"] /\ task' = [task EXCEPT ![w] = "receive"]
        /\ msg' = [msg EXCEPT ![w] = d] /\ received' = Append(received, d) /\ waiting
    BY <1>10, <2>1 DEF OnDataReceived, Receive, Take
  <2> HIDE DEF d
  <2>3. received'[Len(received')] = d
    BY <1>t, <2>2
  <2>4. \A v \in Workers : task[v] # "receive"
    BY <2>2 DEF LinkInv, Roles, OneEach
  <2>5. \A v \in Workers : task'[v] = "receive" => v = w
    BY <1>t, <2>2, <2>4
  <2>6. pc'[w] = "find" /\ msg'[w] = d
    BY <1>t, <2>2
  <2> QED
    BY <2>3, <2>5, <2>6 DEF Answers
<1>11. ASSUME NEW w \in Workers, ReceiveFails(w)
       PROVE  \A v \in Workers : Answers(v)'
  BY <1>1, <1>11 DEF ReceiveFails
<1>12. ASSUME NEW w \in Workers, NEW c \in Clients, NEW h \in Handlers,
              \/ OnPlayerLogin(w, c) \/ KeepAlive(w, c)
              \/ HandlerEnds(w, c, h) \/ HandlerFails(w, c, h)
       PROVE  \A v \in Workers : Answers(v)'
  BY <1>1, <1>3, <1>12 DEF OnPlayerLogin, KeepAlive, HandlerEnds, HandlerFails, Handlers,
    linkVars
<1>13. CASE UNCHANGED vars \/ \E c \in Clients : Kernel(c)
  BY <1>1, <1>13 DEF vars, Kernel, linkVars
<1> QED
  BY <1>5, <1>6, <1>7, <1>8, <1>9, <1>10, <1>11, <1>12, <1>13, <1>14, <1>15, <1>16
    DEF Next, Step, Handlers

\* What one step may do to a line: nothing that begins there changes, or the
\* line ends, or async_write puts the frame of a handler in it.
Settled(b) == Alike(Line(b), Line(b)') \/ Starts(Line(b)') = {}
Queues(w, b) ==
  /\ Sending(w) /\ on[w] = b /\ place[b] # "destroyed" /\ alive[b]
  /\ Longer(Line(b), Line(b)', Item(Head(toSend[w]), mark[w], "start"))

\* The end of a handler settles every line.
LEMMA KeptSettled ==
  ASSUME NEW gone \in SUBSET Clients, Kept(gone)
  PROVE  \A b \in Clients : Settled(b)
  BY DEF Kept, Settled

\* async_write on an open connection.
LEMMA WriteQueues ==
  ASSUME LinkInv, NEW w \in Workers, NEW c \in Clients, on[w] = c, Write(w),
         place[c] # "destroyed", alive[c]
  PROVE  \A b \in Clients : Settled(b) \/ Queues(w, b)
<1> DEFINE frame == Head(toSend[w])
           item == Item(frame, mark[w], "start")
<1>1. /\ Sending(w) /\ AsyncWrite(c, frame, mark[w], w)
      /\ UNCHANGED <<alive, cipher, crossed>>
  BY DEF Write, Sending
<1>2. SenderTypes /\ Whole /\ Room
  BY DEF LinkInv, Sound
<1>3. frame \in Frames /\ mark[w] \in Stamps
  BY <1>1, NextFrame
<1> HIDE DEF frame
<1>4. /\ \A b \in Clients \ {c} : Alike(Line(b), Line(b)')
      /\ Longer(Line(c), Line(c)', item)
  BY <1>1, <1>2, <1>3, WriteLines
<1>5. Queues(w, c)
  BY <1>1, <1>4 DEF Queues, frame
<1> QED
  BY <1>4, <1>5 DEF Settled

\* Every step settles every line, but for the one async_write adds to.
LEMMA NextSettled ==
  ASSUME LinkInv, [Next]_vars
  PROVE  \A b \in Clients : Settled(b) \/ \E w \in Workers : Queues(w, b)
<1>s. SenderTypes /\ Whole /\ Room /\ {} \in SUBSET Clients
  BY DEF LinkInv, Sound
<1>1. ASSUME UNCHANGED <<stream, writes>> PROVE \A b \in Clients : Settled(b)
  BY <1>1 DEF Settled, Alike, Line
<1>2. ASSUME NEW w \in Workers, NEW gone \in SUBSET Clients,
             pc[w] \notin {"send", "write"}, Done(w, gone)
      PROVE  \A b \in Clients : Settled(b)
  BY <1>2, DoneKept, KeptSettled
<1>3. ASSUME NEW w \in Workers,
             \/ Find(w) \/ Call(w) \/ AddClient(w) \/ Send(w) \/ UseFreed(w)
             \/ OnDataReceived(w) \/ ReceiveFails(w)
      PROVE  \A b \in Clients : Settled(b)
  BY <1>1, <1>3 DEF Find, Call, AddClient, Send, UseFreed, Fault, OnDataReceived, Receive,
    ReceiveFails, senderVars
<1>4. ASSUME NEW w \in Workers, Rearm(w) \/ Reset(w)
      PROVE  \A b \in Clients : Settled(b)
  BY <1>2, <1>4, <1>s DEF Rearm, Reset
<1>5. ASSUME NEW w \in Workers, Store(w) \/ Erase(w)
      PROVE  \A b \in Clients : Settled(b)
  <2> DEFINE old == {clients[Account[on[w]]]} \ {None}
  <2>1. pc[w] \in {"store", "erase"} /\ Done(w, old)
    BY <1>5 DEF Store, Erase
  <2>2. Account[on[w]] \in Players
    BY <2>1, LinkAssumption DEF LinkInv, IInv, HandlersKnow
  <2>3. old \in SUBSET Clients
    BY <2>2 DEF LinkInv, IInv, SlotsOwn
  <2> HIDE DEF old
  <2> QED
    BY <1>2, <2>1, <2>3
<1>6. ASSUME NEW w \in Workers, Write(w)
      PROVE  \A b \in Clients : Settled(b) \/ Queues(w, b)
  <2>1. CASE place[on[w]] = "destroyed" \/ ~alive[on[w]]
    BY <1>1, <1>6, <2>1 DEF Write, AsyncWrite
  <2>2. CASE place[on[w]] # "destroyed" /\ alive[on[w]]
    <3>1. on[w] \in Clients
      BY <1>6 DEF LinkInv, IInv, HandlersKnow, Write
    <3> QED
      BY <1>6, <2>2, <3>1, WriteQueues
  <2> QED
    BY <2>1, <2>2
<1>7. ASSUME NEW w \in Workers, NEW c \in Clients, NEW h \in Handlers,
             \/ OnPlayerLogin(w, c) \/ KeepAlive(w, c)
             \/ HandlerEnds(w, c, h) \/ HandlerFails(w, c, h)
      PROVE  \A b \in Clients : Settled(b)
  BY <1>1, <1>7 DEF OnPlayerLogin, KeepAlive, HandlerEnds, HandlerFails, senderVars
<1>8. ASSUME NEW w \in Workers, Return(w) \/ Clear(w)
      PROVE  \A b \in Clients : Settled(b)
  <2>1. PICK gone \in SUBSET Clients, holder \in Workers \cup {None} : Emptied(gone, holder)
    <3>1. CASE Return(w)
      BY <1>s, <3>1 DEF Return
    <3>2. CASE Clear(w)
      <4>1. on[w] \in Clients
        BY <3>2 DEF Clear, LinkInv, IInv, HandlersKnow
      <4> QED
        BY <3>2, <4>1 DEF Clear, CloseSocket
    <3> QED
      BY <1>8, <3>1, <3>2
  <2>2. alive' \in [Clients -> BOOLEAN]
    BY <1>8, <1>s DEF Return, Clear, CloseSocket, SenderTypes
  <2> QED
    BY <1>s, <2>1, <2>2, EmptiedLines DEF Settled
<1>9. ASSUME NEW c \in Clients, Kernel(c)
      PROVE  \A b \in Clients : Settled(b)
  BY <1>9, <1>s, WritableLines, ResumeLines DEF Kernel, Settled
<1>10. CASE UNCHANGED vars
  BY <1>1, <1>10 DEF vars, senderVars
<1> QED
  BY <1>3, <1>4, <1>5, <1>6, <1>7, <1>8, <1>9, <1>10 DEF Next, Step, Handlers

\* Every frame of a node is on a connection of its player.
LEMMA NextAddressed ==
  ASSUME LinkInv, LinkInv', Addressed, [Next]_vars
  PROVE  Addressed'
<1>1. \A w \in Workers : Answers(w)'
  BY NextAnswers DEF Addressed
<1>2. /\ Len(received) \in Nat /\ Len(received') \in Nat /\ Len(received) <= Len(received')
      /\ \A n \in 1 .. Len(received) : received'[n] = received[n]
      /\ received' = received \/ UNCHANGED senderVars
  BY NextReceived
<1>3. \A c \in Clients : \A n : AddressedTo(c, n) => AddressedTo(c, n)'
  BY <1>2 DEF AddressedTo
<1>4. ASSUME NEW c \in Clients, NEW i \in Starts(Line(c)'), NEW n,
             Line(c)'[i].frame.kind = "relayed", n = Line(c)'[i].frame.n
      PROVE  AddressedTo(c, n)'
  <2>1. CASE Settled(c)
    <3>1. i \in Starts(Line(c)) /\ Line(c)'[i] = Line(c)[i]
      BY <1>4, <2>1 DEF Settled, Alike
    <3> QED
      BY <1>3, <1>4, <3>1 DEF Addressed
  <2>2. ASSUME NEW w \in Workers, Queues(w, c), ~Settled(c)
        PROVE  AddressedTo(c, n)'
    <3> DEFINE item == Item(Head(toSend[w]), mark[w], "start")
    <3>1. Line(c) \in Seq(Items) /\ Line(c)' \in Seq(Items)
      <4>1. stream'[c] \in Seq(Pieces) /\ writes'[c] \in Seq(Ops)
        BY DEF LinkInv, Sound, SenderTypes
      <4> QED
        BY <4>1, LinesTyped, JoinedType DEF LinkInv, Sound, Line
    <3>2. /\ Head(toSend[w]) \in Frames /\ mark[w] \in Stamps
          /\ task[w] \in {"receive", "add", "keepAlive"}
          /\ task[w] \in {"add", "keepAlive"} => Head(toSend[w]).kind # "relayed"
          /\ task[w] = "receive" => Head(toSend[w]).n = Len(received)
      BY <2>2, NextFrame DEF Queues
    <3>3. item \in Items /\ item.is = "start" /\ item.frame = Head(toSend[w])
      BY <3>2 DEF Item, Items
    <3>4. Longer(Line(c), Line(c)', item)
      BY <2>2 DEF Queues
    <3> HIDE DEF item
    <3>5. Starts(Line(c)') = Starts(Line(c)) \cup {Len(Line(c)) + 1}
      BY <3>1, <3>3, <3>4, StartPlaces
    <3>6. CASE i \in Starts(Line(c))
      <4>1. Line(c)'[i] = Line(c)[i]
        BY <3>4, <3>6 DEF Longer, Starts
      <4> QED
        BY <1>3, <1>4, <3>6, <4>1 DEF Addressed
    <3>7. CASE i = Len(Line(c)) + 1
      <4>1. Line(c)'[i] = item
        BY <3>4, <3>7 DEF Longer
      <4>2. task[w] = "receive" /\ n = Len(received)
        BY <1>4, <3>2, <3>3, <4>1
      <4>3. /\ received[Len(received)] = msg[w] /\ msg[w].id = "MC_PACKET"
            /\ Account[c] = msg[w].player
        BY <2>2, <4>2 DEF Addressed, Answers, Handling, Passing, Queues, Sending
      <4>4. Len(received) \in 1 .. Len(received)
        BY <1>2, <4>2 DEF LinkInv, Roles, LastRead
      <4>5. AddressedTo(c, Len(received))
        BY <4>3, <4>4 DEF AddressedTo
      <4> QED
        BY <1>3, <4>2, <4>5
    <3> QED
      BY <1>4, <3>5, <3>6, <3>7
  <2> QED
    BY <2>1, <2>2, NextSettled
<1> QED
  BY <1>1, <1>4 DEF Addressed

\* At the start nothing is read and nothing sent.
LEMMA InitAddressed ==
  ASSUME Init
  PROVE  Addressed
<1>1. \A w \in Workers : task[w] = "none"
  BY DEF Init
<1>2. \A c \in Clients : Starts(Line(c)) = {}
  <2>1. SenderTypes
    BY InitLink DEF LinkInv, Sound
  <2>2. \A c \in Clients : Idle(c)
    BY DEF Init, SenderInit, Idle
  <2> QED
    BY <2>1, <2>2, IdleLine
<1> QED
  BY <1>1, <1>2 DEF Addressed, Answers, Handling, Passing

\* What the kernel took of a node's packets has reached their player.
Delivered ==
  \A c \in Clients : \A i \in Begun(c) :
    stream[c][i].frame.kind = "relayed" => AddressedTo(c, stream[c][i].frame.n)

\* The stream is the front of the line, so that Addressed speaks of it too.
LEMMA AddressedDelivered ==
  ASSUME LinkInv, Addressed
  PROVE  Delivered
<1> SUFFICES ASSUME NEW c \in Clients, NEW i \in Begun(c), stream[c][i].frame.kind = "relayed"
             PROVE  AddressedTo(c, stream[c][i].frame.n)
  BY DEF Delivered
<1>1. i \in Starts(Line(c)) /\ Line(c)[i].frame = stream[c][i].frame
  BY BegunInLine DEF LinkInv, Sound
<1> QED
  BY <1>1 DEF Addressed

\* Seen in terms of the frames at some places.
LEMMA SeenIs ==
  ASSUME NEW c
  PROVE  /\ Seen(c) = FramesAt(stream[c], Game(c))
         /\ Seen(c)' = FramesAt(stream[c]', Game(c)')
  BY DEF Seen, FramesAt, At

\* A stream that stays shows the same frames.
LEMMA SeenSame ==
  ASSUME NEW c, stream'[c] = stream[c]
  PROVE  Seen(c)' = Seen(c)
  BY DEF Seen, Game, Begun

\* An empty stream shows none.
LEMMA SeenNone ==
  ASSUME NEW c
  PROVE  /\ stream[c] = <<>> => Seen(c) = <<>>
         /\ stream'[c] = <<>> => Seen(c)' = <<>>
<1>1. DOMAIN <<>> = {} /\ Cardinality({}) = 0 /\ 1 .. 0 = {}
  BY FS_EmptySet
<1>2. ASSUME NEW f PROVE [k \in {} |-> f[k]] = <<>>
  OBVIOUS
<1>3. \A s : FramesAt(s, {}) = <<>>
  BY <1>1 DEF FramesAt
<1>4. stream[c] = <<>> => Game(c) = {}
  BY <1>1 DEF Game, Begun
<1>5. stream'[c] = <<>> => Game(c)' = {}
  BY <1>1 DEF Game, Begun
<1> QED
  BY <1>3, <1>4, <1>5, SeenIs

\* One more piece shows one more frame, or none.
LEMMA SeenGrows ==
  ASSUME SenderTypes, NEW c \in Clients, NEW p \in Pieces,
         stream'[c] = Append(stream[c], p)
  PROVE  /\ Game(c) \in SUBSET (1 .. Len(stream[c])) /\ Len(stream[c]) \in Nat
         /\ Seen(c) \in Seq(Frames) /\ Len(Seen(c)) = Cardinality(Game(c))
         /\ Len(stream[c]) + 1 \in DOMAIN stream'[c]
         /\ stream'[c][Len(stream[c]) + 1] = p
         /\ \A i \in Game(c) : stream'[c][i] = stream[c][i]
         /\ \A k \in 1 .. Len(Seen(c)) :
              /\ Seen(c)[k] = stream[c][At(Game(c), k)].frame
              /\ At(Game(c), k) \in Game(c) /\ Rank(Game(c), At(Game(c), k)) = k
         /\ p.part = "rest" \/ p.frame.kind = "KeepAlive" => Seen(c)' = Seen(c)
         /\ p.part # "rest" /\ p.frame.kind # "KeepAlive" =>
              /\ Seen(c)' = Append(Seen(c), p.frame)
              /\ Game(c)' = Game(c) \cup {Len(stream[c]) + 1}
<1> DEFINE s == stream[c]
           n == Len(s)
           t == Append(s, p)
<1>1. s \in Seq(Pieces) /\ n \in Nat /\ DOMAIN s = 1 .. n
  BY DEF SenderTypes
<1>2. /\ DOMAIN t = 1 .. n + 1 /\ t[n + 1] = p
      /\ \A i \in 1 .. n : t[i] = s[i]
  BY <1>1
<1>3. 1 .. n + 1 = (1 .. n) \cup {n + 1}
  BY <1>1
<1>4. Game(c) \in SUBSET (1 .. n)
  BY <1>1 DEF Game, Begun
<1>5. Game(c)' = {i \in 1 .. n + 1 : t[i].part # "rest" /\ t[i].frame.kind # "KeepAlive"}
  BY <1>2 DEF Game, Begun
<1>6. Game(c) = {i \in 1 .. n : s[i].part # "rest" /\ s[i].frame.kind # "KeepAlive"}
  BY <1>1 DEF Game, Begun
<1> HIDE DEF n, t
<1>7. /\ p.part = "rest" \/ p.frame.kind = "KeepAlive" => Game(c)' = Game(c)
      /\ p.part # "rest" /\ p.frame.kind # "KeepAlive" => Game(c)' = Game(c) \cup {n + 1}
  BY <1>2, <1>3, <1>5, <1>6
<1>8. /\ FramesAt(t, Game(c)) = FramesAt(s, Game(c))
      /\ FramesAt(t, Game(c) \cup {n + 1}) = Append(FramesAt(s, Game(c)), p.frame)
  BY <1>1, <1>4, FramesAtGrow DEF n, t
<1>9. /\ FramesAt(s, Game(c)) \in Seq(Frames)
      /\ Len(FramesAt(s, Game(c))) = Cardinality(Game(c))
      /\ \A k \in 1 .. Cardinality(Game(c)) :
           FramesAt(s, Game(c))[k] = s[At(Game(c), k)].frame
  BY <1>1, <1>4, FramesAtTyped DEF n
<1>10. \A k \in 1 .. Cardinality(Game(c)) :
         At(Game(c), k) \in Game(c) /\ Rank(Game(c), At(Game(c), k)) = k
  BY <1>1, <1>4, AtRank
<1>11. Seen(c) = FramesAt(s, Game(c)) /\ Seen(c)' = FramesAt(t, Game(c)')
  BY SeenIs DEF t
<1>12. n + 1 \in DOMAIN stream'[c] /\ stream'[c][n + 1] = p
       /\ \A i \in Game(c) : stream'[c][i] = stream[c][i]
  BY <1>2, <1>3, <1>4 DEF t
<1> QED
  BY <1>1, <1>4, <1>7, <1>8, <1>9, <1>10, <1>11, <1>12 DEF n

\* A piece that the kernel takes is the next frame of the greeting, a later
\* packet of a node for this player, or nothing that Delivery speaks of.
LEMMA PieceDelivers ==
  ASSUME LinkInv, JoinFirst, JoinFirst', ArrivalOrder', Delivered', UNCHANGED received,
         NEW c \in Clients, Gives(c)
  PROVE  [D!Next]_(D!vars)
<1> DEFINE all == [b \in Clients |-> Seen(b)]
           n == Len(stream[c]) + 1
           N == Len(JoinFrames)
<1>1. PICK p \in Pieces : stream'[c] = Append(stream[c], p)
  BY DEF Gives
<1>2. /\ \A b \in Clients : Open(b)' = Open(b)
      /\ \A b \in Clients \ {c} : Seen(b)' = Seen(b)
      /\ Open(c)
  <2>1. \A b \in Clients : Open(b)' <=> Open(b)
    BY DEF Gives, Same
  <2>2. \A b \in Clients \ {c} : Seen(b)' = Seen(b)
    BY SeenSame DEF Gives, Same
  <2> QED
    BY <2>1, <2>2 DEF Gives, Open
<1>3. [b \in Clients |-> Open(b)]' = [b \in Clients |-> Open(b)]
  BY <1>2
<1>4. SenderTypes
  BY DEF LinkInv, Sound
<1>5. /\ Game(c) \in SUBSET (1 .. Len(stream[c])) /\ Len(stream[c]) \in Nat
      /\ Seen(c) \in Seq(Frames) /\ Len(Seen(c)) = Cardinality(Game(c))
      /\ n \in DOMAIN stream'[c] /\ stream'[c][n] = p
      /\ \A i \in Game(c) : stream'[c][i] = stream[c][i]
      /\ \A k \in 1 .. Len(Seen(c)) :
           /\ Seen(c)[k] = stream[c][At(Game(c), k)].frame
           /\ At(Game(c), k) \in Game(c) /\ Rank(Game(c), At(Game(c), k)) = k
      /\ p.part = "rest" \/ p.frame.kind = "KeepAlive" => Seen(c)' = Seen(c)
      /\ p.part # "rest" /\ p.frame.kind # "KeepAlive" =>
           Seen(c)' = Append(Seen(c), p.frame) /\ Game(c)' = Game(c) \cup {n}
  BY <1>1, <1>4, SeenGrows
<1>6. CASE p.part = "rest" \/ p.frame.kind = "KeepAlive"
  <2>1. all' = all
    BY <1>2, <1>5, <1>6
  <2> QED
    BY <1>3, <2>1 DEF D!vars
<1>7. CASE p.part # "rest" /\ p.frame.kind # "KeepAlive"
  <2>1. all' = [all EXCEPT ![c] = Append(all[c], p.frame)]
    BY <1>2, <1>5, <1>7
  <2>2. /\ Cardinality(Game(c)) \in Nat /\ N \in Nat
        /\ Rank(Game(c) \cup {n}, n) = Cardinality(Game(c)) + 1
        /\ \A i \in Game(c) : Rank(Game(c) \cup {n}, i) = Rank(Game(c), i)
        /\ \A i \in Game(c) : i < n
    <3> DEFINE m == Len(stream[c])
               S == Game(c)
    <3>1. m \in Nat /\ S \in SUBSET (1 .. m)
      BY <1>5
    <3>2. N \in Nat
      BY JoinTyped
    <3> HIDE DEF m, S, N
    <3>3. Cardinality(S) \in Nat
      BY <3>1, Counted
    <3>4. /\ Rank(S \cup {m + 1}, m + 1) = Cardinality(S) + 1
          /\ \A i \in S : Rank(S \cup {m + 1}, i) = Rank(S, i)
      BY <3>1, OneMore
    <3>5. \A i \in S : i < m + 1
      BY <3>1
    <3> QED
      BY <3>2, <3>3, <3>4, <3>5 DEF m, S
  <2>3. n \in Game(c)' /\ Rank(Game(c)', n) = Len(Seen(c)) + 1
    BY <1>5, <1>7, <2>2
  <2>4. IF Len(Seen(c)) + 1 <= N THEN p.frame = JoinFrames[Len(Seen(c)) + 1]
        ELSE p.frame.kind = "relayed"
    BY <1>5, <2>3 DEF JoinFirst
  <2>5. all[c] = Seen(c) /\ Open(c) /\ p.frame \in Frames /\ Len(Seen(c)) \in Nat
    BY <1>2, <1>5 DEF Pieces
  <2>6. D!Get(c, p.frame)
    BY <1>2, <1>3, <2>1 DEF D!Get
  <2>7. CASE Len(Seen(c)) < N
    <3>1. p.frame = JoinFrames[Len(all[c]) + 1] /\ Len(all[c]) < N
      BY <2>2, <2>4, <2>5, <2>7
    <3>2. D!Greet(c)
      BY <2>6, <3>1 DEF D!Greet
    <3> QED
      BY <3>2 DEF D!Next
  <2>8. CASE Len(Seen(c)) >= N
    <3>1. p.frame.kind = "relayed"
      BY <2>2, <2>4, <2>5, <2>8
    <3>2. p.frame = [kind |-> "relayed", n |-> p.frame.n] /\ p.frame.n \in Nat
      BY <2>5, <3>1 DEF Frames
    <3>3. n \in Begun(c)'
      BY <2>3 DEF Game
    <3>4. /\ p.frame.n \in 1 .. Len(received)
          /\ received[p.frame.n].id = "MC_PACKET"
          /\ received[p.frame.n].player = Account[c]
      BY <1>5, <3>1, <3>3 DEF Delivered, AddressedTo
    <3>5. ASSUME NEW k \in N + 1 .. Len(Seen(c)) PROVE Seen(c)[k].n < p.frame.n
      <4> DEFINE i == At(Game(c), k)
      <4>1. k \in 1 .. Len(Seen(c)) /\ k > N
        BY <2>2, <2>5
      <4>2. Seen(c)[k] = stream[c][i].frame /\ i \in Game(c) /\ Rank(Game(c), i) = k
        BY <1>5, <4>1
      <4>3. stream[c][i].frame.kind = "relayed"
        BY <2>2, <4>1, <4>2 DEF JoinFirst
      <4>4. stream'[c][i] = stream[c][i] /\ i \in Begun(c)' /\ i < n
        BY <1>5, <1>7, <2>2, <4>2 DEF Game
      <4> HIDE DEF i
      <4>5. stream'[c][i].frame.n < stream'[c][n].frame.n
        BY <1>5, <3>1, <3>3, <4>3, <4>4 DEF ArrivalOrder
      <4> QED
        BY <1>5, <4>2, <4>4, <4>5
    <3>6. p.frame.n \in DOMAIN received
      BY <3>4 DEF LinkInv, Roles, HandlerTypes
    <3>7. D!Relay(c, p.frame.n)
      BY <2>5, <2>6, <2>8, <3>2, <3>4, <3>5 DEF D!Relay
    <3> QED
      BY <3>6, <3>7 DEF D!Next
  <2> QED
    BY <2>2, <2>5, <2>7, <2>8
<1> QED
  BY <1>6, <1>7

\* Every step delivers as Delivery says.
LEMMA StepDelivers ==
  ASSUME LinkInv, JoinFirst, JoinFirst', ArrivalOrder', Delivered', [Next]_vars
  PROVE  [D!Next]_(D!vars)
<1>1. Streams
  BY NextStreams
<1>2. \/ received' = received
      \/ /\ UNCHANGED <<senderVars, place>>
         /\ \E m \in Messages : received' =
              Append(received, [n |-> Len(received) + 1, id |-> m.id, player |-> m.player])
  BY NextReceived
<1>3. ASSUME Rests
      PROVE  /\ [b \in Clients |-> Seen(b)]' = [b \in Clients |-> Seen(b)]
             /\ [b \in Clients |-> Open(b)]' = [b \in Clients |-> Open(b)]
  <2>1. \A b \in Clients : Seen(b)' = Seen(b)
    BY <1>3, SeenSame DEF Rests, Same
  <2>2. \A b \in Clients : Open(b)' = Open(b)
    BY <1>3 DEF Rests, Same, Open
  <2> QED
    BY <2>1, <2>2
<1>4. CASE received' = received /\ Rests
  BY <1>3, <1>4 DEF D!vars
<1>5. ASSUME UNCHANGED <<senderVars, place>>, NEW m \in Messages, received' =
               Append(received, [n |-> Len(received) + 1, id |-> m.id, player |-> m.player])
      PROVE  D!Next
  <2>1. Rests
    BY <1>5 DEF Rests, Same, Open, senderVars
  <2>2. D!Arrive(m)
    BY <1>3, <1>5, <2>1 DEF D!Arrive
  <2> QED
    BY <2>2 DEF D!Next
<1>6. ASSUME received' = received, NEW c \in Clients, Gives(c)
      PROVE  [D!Next]_(D!vars)
  BY <1>6, PieceDelivers
<1>7. ASSUME received' = received, NEW c \in Clients, Ends(c)
      PROVE  D!Next
  <2> DEFINE all == [b \in Clients |-> Seen(b)]
             opens == [b \in Clients |-> Open(b)]
  <2>1. /\ Seen(c)' = <<>> /\ \A b \in Clients \ {c} : Seen(b)' = Seen(b)
        /\ Open(c) /\ Open(c)' = FALSE
    BY <1>7, SeenNone, SeenSame DEF Ends, Same
  <2>2. \A b \in Clients \ {c} : Open(b)' = Open(b)
    BY <1>7 DEF Ends, Same, Open
  <2>3. all' = [all EXCEPT ![c] = <<>>] /\ opens' = [opens EXCEPT ![c] = FALSE]
    BY <2>1, <2>2
  <2>4. D!Close(c)
    BY <1>7, <2>1, <2>3 DEF D!Close
  <2> QED
    BY <2>4 DEF D!Next
<1> QED
  BY <1>1, <1>2, <1>4, <1>5, <1>6, <1>7 DEF Streams

\* The gateway delivers what Delivery promises, whatever its workers, its
\* roster and the kernel do.
THEOREM LinkDelivers == Spec => ImplementsDelivery
<1>1. Init => Addressed /\ D!Init
  <2> SUFFICES ASSUME Init PROVE Addressed /\ D!Init
    OBVIOUS
  <2>1. \A c \in Clients : Seen(c) = <<>>
    BY SeenNone DEF Init, SenderInit
  <2>2. \A c \in Clients : Open(c) = TRUE
    BY DEF Init, SenderInit, Open
  <2> QED
    BY <2>1, <2>2, InitAddressed DEF Init, D!Init
<1>2. LinkInv /\ LinkInv' /\ Addressed /\ [Next]_vars => Addressed'
  BY NextAddressed
<1>3. LinkInv /\ Addressed => Delivered
  BY AddressedDelivered
<1>4. LinkInv /\ JoinFirst /\ JoinFirst' /\ ArrivalOrder' /\ Delivered' /\ [Next]_vars =>
        [D!Next]_(D!vars)
  BY StepDelivers
<1> QED
  BY <1>1, <1>2, <1>3, <1>4, LinkAlways, JoinComesFirst, ArrivalKept, PTL
    DEF Spec, ImplementsDelivery, D!Spec
=============================================================================
