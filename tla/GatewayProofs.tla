--------------------------- MODULE GatewayProofs ---------------------------
(***************************************************************************)
(* Proofs about Gateway, for any number of connections, workers, handles   *)
(* and players.                                                            *)
(*                                                                         *)
(* FieldsOK is not inductive alone: a step reads the object of on[w] or    *)
(* held[w], so Control says that these registers hold one whenever the     *)
(* program counter is at such a step, and who holds the lock.  The read    *)
(* loop adds Fresh: nothing runs for an object that is not constructed.    *)
(* Ownership adds OnePlace, where the objects are, and Places, what their  *)
(* fields say there; from it follow TypeOK, the owners, the lobby's slots  *)
(* and the refinement of Roster.  Tended is for the keep-alive timer,      *)
(* OwnIds for the seats of the roster.                                     *)
(***************************************************************************)
EXTENDS Gateway, FiniteSetTheorems, TLAPS

\* What a worker's program counter says of its other registers and of the lock.
Control ==
  /\ \A w \in Workers :
       /\ pc[w] # "idle" => on[w] \in Clients
       /\ pc[w] = "idle" => src[w] = "none" /\ on[w] = None
       /\ pc[w] \in {"message", "rearm"} => src[w] = "read"
       /\ pc[w] \in Locked => held[w] \in Clients /\ mutex = w
  /\ \A w \in Workers : mutex = w => pc[w] \in Locked

Inv == FieldsOK /\ Control

\* Nothing runs and nothing is outstanding for an object still to be made.
Fresh ==
  \A c \in Clients :
    life[c] = "unborn" =>
      /\ ~alive[c] /\ read[c] = "none" /\ write[c] = "none"
      /\ armed[c] = 0 /\ fired[c] = 0 /\ aborted[c] = 0
      /\ asking[c] = 0 /\ joining[c] = 0
      /\ \A w \in Workers : on[w] # c

\* sendData leaves the writes of a connection typed, whatever it finds of alive.
LEMMA SentTyped ==
  ASSUME NEW c \in Clients, write \in [Clients -> {"none", "armed", "err"}]
  PROVE  Sent(c) \subseteq {"none", "armed", "err"}
BY DEF Sent

LEMMA InitInv == Init => Inv
  BY ConstantsAssumption DEF Init, Inv, FieldsOK, Control, Keys, Ids, ClientState,
     Steps, Locked

LEMMA StepInv == Inv /\ [Next]_vars => Inv'
<1> SUFFICES ASSUME Inv, [Next]_vars PROVE Inv'
  OBVIOUS
<1> USE ConstantsAssumption
    DEF Inv, FieldsOK, Control, Locked, Keys, Ids, ClientState, Steps
<1>1. ASSUME NEW w \in Workers, IgnoreMessage(w) PROVE Inv'
  <2>1. FieldsOK'
    BY <1>1 DEF IgnoreMessage, Goto, peerVars, objVars, ioVars, timerVars,
       authVars, mapVars
  <2>2. Control'
    BY <1>1 DEF IgnoreMessage, Goto, peerVars, objVars, ioVars, timerVars,
       authVars, mapVars
  <2> QED BY <2>1, <2>2
<1>2. ASSUME NEW w \in Workers, ParserThrows(w) PROVE Inv'
  <2>1. FieldsOK'
    BY <1>2 DEF ParserThrows, Return, peerVars, objVars, ioVars, timerVars,
       authVars, mapVars
  <2>2. Control'
    BY <1>2 DEF ParserThrows, Return, peerVars, objVars, ioVars, timerVars,
       authVars, mapVars
  <2> QED BY <2>1, <2>2
<1>3. ASSUME NEW w \in Workers, StatusRequest(w) PROVE Inv'
  <2>1. FieldsOK'
    BY <1>3 DEF StatusRequest, Goto, Closed, Sent, SendData, AliveTest, peerVars, objVars,
       timerVars, authVars, mapVars
  <2>2. Control'
    BY <1>3 DEF StatusRequest, Goto, Closed, Sent, SendData, AliveTest, peerVars, objVars,
       timerVars, authVars, mapVars
  <2> QED BY <2>1, <2>2
<1>4. ASSUME NEW w \in Workers, StatusPing(w) PROVE Inv'
  <2>1. Goto(w, "rearm") \/ Goto(w, "close") \/ Return(w)
    BY <1>4 DEF StatusPing, Disconnect
  <2>2. /\ read' \in [Clients -> {"none", "armed", "ok", "err"}]
       /\ write' \in [Clients -> {"none", "armed", "err"}]
       /\ handle' = handle
    BY SMTT(60), <1>4 DEF StatusPing, CancelSocket, Abort, Sent, SendData, AliveTest
  <2>3. cancelled' \in [Clients -> SUBSET {"ping", "refused", "timeout"}]
    BY <1>4 DEF StatusPing
  <2>4. UNCHANGED <<peerVars, objVars, timerVars, authVars, mapVars, accepting>>
    BY <1>4 DEF StatusPing
  <2>5. FieldsOK'
    BY SMTT(60), <2>1, <2>2, <2>3, <2>4 DEF Goto, Return, peerVars, objVars, timerVars,
       authVars, mapVars
  <2>6. Control'
    BY <1>4, <2>1, <2>4 DEF StatusPing, Goto, Return, mapVars
  <2> QED BY <2>5, <2>6
<1>5. ASSUME NEW w \in Workers, LoginStart(w) PROVE Inv'
  <2>1. CASE NoEndpoint(on[w])
    <3>1. Goto(w, "close") \/ Return(w)
      BY <1>5, <2>1 DEF LoginStart, Disconnect
    <3>2. FieldsOK'
      BY SMTT(60), <1>5, <2>1, <3>1 DEF LoginStart, Goto, Return, NoEndpoint, peerVars,
         timerVars, authVars, mapVars
    <3>3. Control'
      BY <1>5, <2>1, <3>1 DEF LoginStart, Goto, Return, NoEndpoint, peerVars,
         timerVars, authVars, mapVars
    <3> QED BY <3>2, <3>3
  <2>2. CASE ~NoEndpoint(on[w]) /\ on[w] \in Loopback
    <3>1. FieldsOK'
      BY SMTT(60), <1>5, <2>2 DEF LoginStart, Goto, peerVars, timerVars, authVars,
         mapVars
    <3>2. Control'
      BY <1>5, <2>2 DEF LoginStart, Goto, peerVars, timerVars, authVars,
         mapVars
    <3> QED BY <3>1, <3>2
  <2>3. CASE ~NoEndpoint(on[w]) /\ on[w] \notin Loopback
    <3>3. write' \in [Clients -> {"none", "armed", "err"}]
      BY <1>5, <2>3 DEF LoginStart, Sent, SendData
    <3>4. /\ UNCHANGED <<peerVars, life, alive, state, owner, userid, handle, read, timerVars,
                        authVars, mapVars, accepting, cancelled, on, src, held>>
         /\ named' \in [Clients -> BOOLEAN]
         /\ pc' = [pc EXCEPT ![w] = "rearm"]
      BY <1>5, <2>3 DEF LoginStart, Goto
    <3>1. FieldsOK'
      BY <3>3, <3>4 DEF peerVars, timerVars, authVars, mapVars
    <3>2. Control'
      BY <1>5, <2>3 DEF LoginStart, Goto, Closed, Sent, SendData, AliveTest, peerVars, timerVars,
         authVars, mapVars
    <3> QED BY <3>1, <3>2
  <2> QED BY <2>1, <2>2, <2>3
<1>6. ASSUME NEW w \in Workers, EncryptionResponse(w) PROVE Inv'
  <2>1. Disconnect(w, on[w]) => Goto(w, "close") \/ Return(w)
    BY DEF Disconnect
  <2>2. FieldsOK'
    BY SMTT(60), <1>6, <2>1 DEF EncryptionResponse, Goto, Return, AuthWithMojang,
       peerVars, objVars, ioVars, timerVars, mapVars
  <2>3. Control'
    BY <1>6, <2>1 DEF EncryptionResponse, Goto, Return, AuthWithMojang,
       peerVars, objVars, ioVars, timerVars, mapVars
  <2> QED BY <2>2, <2>3
<1>7. ASSUME NEW w \in Workers, StoreClient(w) PROVE Inv'
  <2>1. FieldsOK'
    BY <1>7 DEF StoreClient, Return, Abort, CancelWaits, Destroy, Owned,
       LockFree, peerVars, authVars
  <2>2. Control'
    BY <1>7 DEF StoreClient, Return, Abort, CancelWaits, Destroy, Owned,
       LockFree, peerVars, authVars
  <2> QED BY <2>1, <2>2
<1>8. ASSUME NEW w \in Workers, StartAsyncRead(w) PROVE Inv'
  <2>1. FieldsOK'
    BY <1>8 DEF StartAsyncRead, Return, Closed, peerVars, objVars, timerVars,
       authVars, mapVars
  <2>2. Control'
    BY <1>8 DEF StartAsyncRead, Return, Closed, peerVars, objVars, timerVars,
       authVars, mapVars
  <2> QED BY <2>1, <2>2
<1>9. ASSUME NEW w \in Workers, OnPlayerLogin(w) PROVE Inv'
  <2>1. FieldsOK'
    BY SMTT(60), <1>9 DEF OnPlayerLogin, Goto, AfterLogin, Closed, Sent, SendData, AliveTest, AskHandoff,
       peerVars, authVars, mapVars
  <2>2. Control'
    BY <1>9 DEF OnPlayerLogin, Goto, AfterLogin, Closed, Sent, SendData, AliveTest, AskHandoff,
       peerVars, authVars, mapVars
  <2> QED BY <2>1, <2>2
<1>10. ASSUME NEW w \in Workers, HandoffNothing(w) PROVE Inv'
  <2>1. FieldsOK'
    BY <1>10 DEF HandoffNothing, AfterLogin, LockFree, peerVars, objVars,
       ioVars, timerVars, authVars, mapVars
  <2>2. Control'
    BY <1>10 DEF HandoffNothing, AfterLogin, LockFree, peerVars, objVars,
       ioVars, timerVars, authVars, mapVars
  <2> QED BY <2>1, <2>2
<1>11. ASSUME NEW w \in Workers, HandoffFind(w) PROVE Inv'
  <2>1. FieldsOK'
    BY <1>11 DEF HandoffFind, LockFree, Lock, peerVars, objVars, ioVars,
       timerVars, authVars
  <2>2. Control'
    BY <1>11 DEF HandoffFind, LockFree, Lock, peerVars, objVars, ioVars,
       timerVars, authVars
  <2> QED BY <2>1, <2>2
<1>12. ASSUME NEW w \in Workers, HandoffDetach(w) PROVE Inv'
  <2>1. FieldsOK'
    BY <1>12 DEF HandoffDetach, Goto, Abort, CancelWaits, Destroy, Owned,
       peerVars, authVars
  <2>2. Control'
    BY <1>12 DEF HandoffDetach, Goto, Abort, CancelWaits, Destroy, Owned,
       peerVars, authVars
  <2> QED BY <2>1, <2>2
<1>13. ASSUME NEW w \in Workers, QueryPlayer(w) PROVE Inv'
  <2>1. FieldsOK'
    BY <1>13 DEF QueryPlayer, Goto, peerVars, objVars, ioVars, timerVars,
       authVars, mapVars
  <2>2. Control'
    BY <1>13 DEF QueryPlayer, Goto, peerVars, objVars, ioVars, timerVars,
       authVars, mapVars
  <2> QED BY <2>1, <2>2
<1>14. ASSUME NEW w \in Workers, InsertPlayer(w) PROVE Inv'
  <2>1. FieldsOK'
    BY SMTT(60), <1>14 DEF InsertPlayer, Goto, peerVars, objVars, ioVars, timerVars,
       authVars
  <2>2. Control'
    BY <1>14 DEF InsertPlayer, Goto, peerVars, objVars, ioVars, timerVars,
       authVars
  <2> QED BY <2>1, <2>2
<1>15. ASSUME NEW w \in Workers, AddClient(w) PROVE Inv'
  <2>1. FieldsOK'
    BY <1>15 DEF AddClient, AfterLogin, Closed, Abort, Sent, SendData, AliveTest, CancelWaits,
       Destroy, Owned, Unlock, peerVars, authVars
  <2>2. Control'
    BY <1>15 DEF AddClient, AfterLogin, Closed, Abort, Sent, SendData, AliveTest, CancelWaits,
       Destroy, Owned, Unlock, peerVars, authVars
  <2> QED BY <2>1, <2>2
<1>16. ASSUME NEW w \in Workers, Close(w) PROVE Inv'
  <2>1. FieldsOK'
    BY <1>16 DEF Close, Goto, Closed, Abort, CancelWaits, MarkDead, peerVars,
       authVars, mapVars
  <2>2. Control'
    BY <1>16 DEF Close, Goto, Closed, Abort, CancelWaits, MarkDead, peerVars,
       authVars, mapVars
  <2> QED BY <2>1, <2>2
<1>17. ASSUME NEW w \in Workers, ReleaseLobby(w) PROVE Inv'
  <2>1. FieldsOK'
    BY <1>17 DEF ReleaseLobby, Return, Closed, NoEndpoint, Abort,
       CancelWaits, Destroy, Owned, peerVars, authVars
  <2>2. Control'
    BY <1>17 DEF ReleaseLobby, Return, Closed, NoEndpoint, Abort,
       CancelWaits, Destroy, Owned, peerVars, authVars
  <2> QED BY <2>1, <2>2
<1>18. ASSUME NEW w \in Workers, ReleaseRoster(w) PROVE Inv'
  <2>1. FieldsOK'
    BY <1>18 DEF ReleaseRoster, Return, Abort, CancelWaits, Destroy, Owned,
       peerVars, authVars
  <2>2. Control'
    BY <1>18 DEF ReleaseRoster, Return, Abort, CancelWaits, Destroy, Owned,
       peerVars, authVars
  <2> QED BY <2>1, <2>2
<1>19. ASSUME NEW w \in Workers, ResetTimer(w) PROVE Inv'
  <2>1. FieldsOK'
    BY <1>19 DEF ResetTimer, Return, Closed, Sent, SendData, AliveTest, Renew, peerVars, objVars,
       authVars, mapVars
  <2>2. Control'
    BY <1>19 DEF ResetTimer, Return, Closed, Sent, SendData, AliveTest, Renew, peerVars, objVars,
       authVars, mapVars
  <2> QED BY <2>1, <2>2
<1>20. ASSUME NEW w \in Workers, NEW next \in ClientState, Handshake(w, next) PROVE Inv'
  <2>1. FieldsOK'
    BY <1>20 DEF Handshake, Goto, peerVars, ioVars, timerVars, authVars,
       mapVars
  <2>2. Control'
    BY <1>20 DEF Handshake, Goto, peerVars, ioVars, timerVars, authVars,
       mapVars
  <2> QED BY <2>1, <2>2
<1>21. ASSUME NEW w \in Workers, NEW c \in Clients, NEW h \in Handles, HandleClient(w, c, h)
       PROVE Inv'
  <2>1. FieldsOK'
    BY <1>21 DEF HandleClient, peerVars, timerVars, authVars, mapVars
  <2>2. Control'
    BY <1>21 DEF HandleClient, peerVars, timerVars, authVars, mapVars
  <2> QED BY <2>1, <2>2
<1>22. ASSUME NEW w \in Workers, NEW c \in Clients, OnLengthReceive(w, c) PROVE Inv'
  <2>1. Take(w, c, "read", ReadStep(c)) \/ UNCHANGED workerVars
    BY <1>22 DEF OnLengthReceive, Begin
  <2>2. CASE Take(w, c, "read", ReadStep(c))
    BY <1>22, <2>2 DEF OnLengthReceive, Take, ReadStep, peerVars, objVars,
       timerVars, authVars, mapVars, workerVars
  <2>3. CASE UNCHANGED workerVars
    BY <1>22, <2>3 DEF OnLengthReceive, peerVars, objVars, timerVars,
       authVars, mapVars, workerVars
  <2> QED BY <2>1, <2>2, <2>3
<1>23. ASSUME NEW w \in Workers, NEW c \in Clients, OnWriteComplete(w, c) PROVE Inv'
  <2>1. Take(w, c, "write", "close") \/ UNCHANGED workerVars
    BY <1>23 DEF OnWriteComplete, Begin
  <2>2. CASE Take(w, c, "write", "close")
    BY <1>23, <2>2 DEF OnWriteComplete, Take, peerVars, objVars, timerVars,
       authVars, mapVars, workerVars
  <2>3. CASE UNCHANGED workerVars
    BY <1>23, <2>3 DEF OnWriteComplete, peerVars, objVars, timerVars,
       authVars, mapVars, workerVars
  <2> QED BY <2>1, <2>2, <2>3
<1>24. ASSUME NEW w \in Workers, NEW c \in Clients, KeepAliveAborted(w, c) PROVE Inv'
  <2>1. Take(w, c, "timer", "close") \/ UNCHANGED workerVars
    BY <1>24 DEF KeepAliveAborted, Begin
  <2>2. CASE Take(w, c, "timer", "close")
    BY <1>24, <2>2 DEF KeepAliveAborted, Take, peerVars, objVars, ioVars,
       authVars, mapVars, workerVars
  <2>3. CASE UNCHANGED workerVars
    BY <1>24, <2>3 DEF KeepAliveAborted, peerVars, objVars, ioVars, authVars,
       mapVars, workerVars
  <2> QED BY <2>1, <2>2, <2>3
<1>25. ASSUME NEW w \in Workers, NEW c \in Clients, KeepAliveTimeout(w, c) PROVE Inv'
  <2>1. FieldsOK'
    BY <1>25 DEF KeepAliveTimeout, Closed, Abort, CancelSocket, AliveTest,
       peerVars, objVars, authVars, mapVars, workerVars
  <2>2. Control'
    BY <1>25 DEF KeepAliveTimeout, Closed, Abort, CancelSocket, AliveTest,
       peerVars, objVars, authVars, mapVars, workerVars
  <2> QED BY <2>1, <2>2
<1>26. ASSUME NEW w \in Workers, NEW c \in Clients, KeepAlive(w, c) PROVE Inv'
  <2>1. Take(w, c, "timer", "beat") \/ UNCHANGED workerVars
    BY <1>26 DEF KeepAlive, Begin
  <2>2. CASE Take(w, c, "timer", "beat")
    BY <1>26, <2>2 DEF KeepAlive, Take, peerVars, objVars, ioVars, authVars,
       mapVars, workerVars
  <2>3. CASE UNCHANGED workerVars
    BY <1>26, <2>3 DEF KeepAlive, peerVars, objVars, ioVars, authVars,
       mapVars, workerVars
  <2> QED BY <2>1, <2>2, <2>3
<1>27. ASSUME NEW w \in Workers, NEW c \in Clients, AuthDropped(w, c) PROVE Inv'
  <2>1. FieldsOK'
    BY SMTT(60), <1>27 DEF AuthDropped, peerVars, objVars, ioVars, timerVars, mapVars,
       workerVars
  <2>2. Control'
    BY <1>27 DEF AuthDropped, peerVars, objVars, ioVars, timerVars, mapVars,
       workerVars
  <2> QED BY <2>1, <2>2
<1>28. ASSUME NEW w \in Workers, NEW c \in Clients, ReadHTTPHeader(w, c) PROVE Inv'
  <2>1. FieldsOK'
    BY <1>28 DEF ReadHTTPHeader, AliveTest, peerVars, objVars, ioVars,
       timerVars, mapVars, workerVars
  <2>2. Control'
    BY <1>28 DEF ReadHTTPHeader, AliveTest, peerVars, objVars, ioVars,
       timerVars, mapVars, workerVars
  <2> QED BY <2>1, <2>2
<1>29. ASSUME NEW w \in Workers, NEW c \in Clients, AuthRefused(w, c) PROVE Inv'
  <2>1. FieldsOK'
    BY <1>29 DEF AuthRefused, Closed, NoEndpoint, Abort, CancelSocket,
       AliveTest, peerVars, objVars, timerVars, mapVars, workerVars
  <2>2. Control'
    BY <1>29 DEF AuthRefused, Closed, NoEndpoint, Abort, CancelSocket,
       AliveTest, peerVars, objVars, timerVars, mapVars, workerVars
  <2> QED BY <2>1, <2>2
<1>30. ASSUME NEW w \in Workers, NEW c \in Clients, HasJoined(w, c) PROVE Inv'
  <2>1. FieldsOK'
    BY <1>30 DEF HasJoined, Take, peerVars, ioVars, timerVars, mapVars
  <2>2. Control'
    BY <1>30 DEF HasJoined, Take, peerVars, ioVars, timerVars, mapVars
  <2> QED BY <2>1, <2>2
<1>31. ASSUME NEW c \in Clients, PeerSends(c) PROVE Inv'
  <2>1. FieldsOK'
    BY <1>31 DEF PeerSends, objVars, timerVars, authVars, mapVars, workerVars
  <2>2. Control'
    BY <1>31 DEF PeerSends, objVars, timerVars, authVars, mapVars, workerVars
  <2> QED BY <2>1, <2>2
<1>32. ASSUME NEW c \in Clients, ReadFails(c) PROVE Inv'
  <2>1. FieldsOK'
    BY <1>32 DEF ReadFails, peerVars, objVars, timerVars, authVars, mapVars,
       workerVars
  <2>2. Control'
    BY <1>32 DEF ReadFails, peerVars, objVars, timerVars, authVars, mapVars,
       workerVars
  <2> QED BY <2>1, <2>2
<1>33. ASSUME NEW c \in Clients, WriteCompletes(c) PROVE Inv'
  <2>1. FieldsOK'
    BY <1>33 DEF WriteCompletes, peerVars, objVars, timerVars, authVars,
       mapVars, workerVars
  <2>2. Control'
    BY <1>33 DEF WriteCompletes, peerVars, objVars, timerVars, authVars,
       mapVars, workerVars
  <2> QED BY <2>1, <2>2
<1>34. ASSUME NEW c \in Clients, TimerExpires(c) PROVE Inv'
  <2>1. FieldsOK'
    BY <1>34 DEF TimerExpires, peerVars, objVars, ioVars, authVars, mapVars,
       workerVars
  <2>2. Control'
    BY <1>34 DEF TimerExpires, peerVars, objVars, ioVars, authVars, mapVars,
       workerVars
  <2> QED BY <2>1, <2>2
<1>35. ASSUME NEW c \in Clients, NEW how \in {"fin", "rst"}, PeerCloses(c, how) PROVE Inv'
  <2>1. FieldsOK'
    BY <1>35 DEF PeerCloses, Closed, objVars, ioVars, timerVars, authVars,
       mapVars, workerVars
  <2>2. Control'
    BY <1>35 DEF PeerCloses, Closed, objVars, ioVars, timerVars, authVars,
       mapVars, workerVars
  <2> QED BY <2>1, <2>2
<1>36. CASE UNCHANGED vars
  BY <1>36 DEF vars, peerVars, objVars, ioVars, timerVars, authVars, mapVars,
     workerVars
<1> HIDE DEF Inv
<1>37. QED
  BY <1>1, <1>2, <1>3, <1>4, <1>5, <1>6, <1>7, <1>8, <1>9, <1>10, <1>11,
     <1>12, <1>13, <1>14, <1>15, <1>16, <1>17, <1>18, <1>19, <1>20, <1>21,
     <1>22, <1>23, <1>24, <1>25, <1>26, <1>27, <1>28, <1>29, <1>30, <1>31,
     <1>32, <1>33, <1>34, <1>35, <1>36 DEF Next, Continue, Message, Dispatch,
     Timer, Session, Environment

\* ClientServer::addClient runs under clientMapMutex, so that the one MySQL
\* connection is never used by two workers at the same time.
THEOREM DbUsedByOne == Spec => []DbExclusive
<1>1. Inv => DbExclusive
  BY DEF Inv, Control, DbExclusive, Locked
<1> QED BY InitInv, StepInv, <1>1, PTL DEF Spec

(* A handler that goes on or ends, and leaves the outstanding reads alone, keeps
   the read loop single. *)
LEMMA SameLoop ==
  ASSUME FieldsOK, ReadLoopSingle, ConstantsAssumption, NEW w \in Workers, read' = read,
         (\E step : Goto(w, step)) \/ Return(w) \/ AfterLogin(w)
  PROVE  ReadLoopSingle'
<1>1. \A v \in Workers : src'[v] = "read" => src[v] = "read" /\ on'[v] \in {on[v], None}
  BY DEF FieldsOK, Goto, Return, AfterLogin
<1> QED
  BY <1>1 DEF ReadLoopSingle, ConstantsAssumption

LEMMA InitRead == Init => ReadLoopSingle /\ Fresh
  BY ConstantsAssumption DEF Init, ReadLoopSingle, Fresh

LEMMA StepRead ==
  Inv /\ ReadLoopSingle /\ Fresh /\ [Next]_vars => (ReadLoopSingle /\ Fresh)'
<1> DEFINE Goal == (ReadLoopSingle /\ Fresh)'
<1> SUFFICES ASSUME Inv, ReadLoopSingle, Fresh, [Next]_vars PROVE Goal
  OBVIOUS
<1> USE ConstantsAssumption
    DEF Inv, FieldsOK, Control, Locked, ReadLoopSingle, Fresh
<1>1. ASSUME NEW w \in Workers, IgnoreMessage(w) PROVE Goal
  <2>1. ReadLoopSingle'
    BY <1>1 DEF IgnoreMessage, Goto, peerVars, objVars, ioVars, timerVars,
       authVars, mapVars
  <2>2. Fresh'
    BY <1>1 DEF IgnoreMessage, Goto, peerVars, objVars, ioVars, timerVars,
       authVars, mapVars
  <2> QED BY <2>1, <2>2
<1>2. ASSUME NEW w \in Workers, ParserThrows(w) PROVE Goal
  <2>1. ReadLoopSingle'
    BY <1>2 DEF ParserThrows, Return, peerVars, objVars, ioVars, timerVars,
       authVars, mapVars
  <2>2. Fresh'
    BY <1>2 DEF ParserThrows, Return, peerVars, objVars, ioVars, timerVars,
       authVars, mapVars
  <2> QED BY <2>1, <2>2
<1>3. ASSUME NEW w \in Workers, StatusRequest(w) PROVE Goal
  <2>1. ReadLoopSingle'
    BY <1>3 DEF StatusRequest, Goto, Closed, Sent, SendData, AliveTest, peerVars, objVars,
       timerVars, authVars, mapVars
  <2>2. Fresh'
    BY <1>3 DEF StatusRequest, Goto, Closed, Sent, SendData, AliveTest, peerVars, objVars,
       timerVars, authVars, mapVars
  <2> QED BY <2>1, <2>2
<1>4. ASSUME NEW w \in Workers, StatusPing(w) PROVE Goal
  <2>1. (\E step : Goto(w, step)) \/ Return(w) \/ AfterLogin(w)
    BY <1>4 DEF StatusPing, Disconnect
  <2>2. read' = read
    BY <1>4 DEF StatusPing, Closed, Abort, CancelSocket
  <2>3. ReadLoopSingle'
    BY <2>1, <2>2, SameLoop
  <2>4. Fresh'
    BY <1>4, <2>1 DEF StatusPing, Goto, Return, Closed, Abort, Sent, SendData, AliveTest,
       CancelSocket, peerVars, objVars, timerVars, authVars, mapVars,
       AfterLogin
  <2> QED BY <2>3, <2>4
<1>5. ASSUME NEW w \in Workers, LoginStart(w) PROVE Goal
  <2>1. (\E step : Goto(w, step)) \/ Return(w) \/ AfterLogin(w)
    BY <1>5 DEF LoginStart, Disconnect
  <2>2. read' = read
    BY <1>5 DEF LoginStart, Closed
  <2>3. ReadLoopSingle'
    BY <2>1, <2>2, SameLoop
  <2>4. Fresh'
    BY <1>5, <2>1 DEF LoginStart, Goto, Return, Closed, NoEndpoint, Sent, SendData, AliveTest,
       peerVars, timerVars, authVars, mapVars, AfterLogin
  <2> QED BY <2>3, <2>4
<1>6. ASSUME NEW w \in Workers, EncryptionResponse(w) PROVE Goal
  <2>1. (\E step : Goto(w, step)) \/ Return(w) \/ AfterLogin(w)
    BY <1>6 DEF EncryptionResponse, AuthWithMojang, Disconnect
  <2>2. read' = read
    BY <1>6 DEF EncryptionResponse, ioVars
  <2>3. ReadLoopSingle'
    BY <2>1, <2>2, SameLoop
  <2>4. Fresh'
    BY <1>6, <2>1 DEF EncryptionResponse, Goto, Return, AuthWithMojang,
       peerVars, objVars, ioVars, timerVars, mapVars, AfterLogin
  <2> QED BY <2>3, <2>4
<1>7. ASSUME NEW w \in Workers, StoreClient(w) PROVE Goal
  <2>1. ReadLoopSingle'
    BY <1>7 DEF StoreClient, Return, Abort, CancelWaits, Destroy, Owned,
       LockFree, peerVars, authVars
  <2>2. Fresh'
    BY <1>7 DEF StoreClient, Return, Abort, CancelWaits, Destroy, Owned,
       LockFree, peerVars, authVars
  <2> QED BY <2>1, <2>2
<1>8. ASSUME NEW w \in Workers, StartAsyncRead(w) PROVE Goal
  <2>1. ReadLoopSingle'
    BY <1>8 DEF StartAsyncRead, Return, Closed, peerVars, objVars, timerVars,
       authVars, mapVars
  <2>2. Fresh'
    BY <1>8 DEF StartAsyncRead, Return, Closed, peerVars, objVars, timerVars,
       authVars, mapVars
  <2> QED BY <2>1, <2>2
<1>9. ASSUME NEW w \in Workers, OnPlayerLogin(w) PROVE Goal
  <2>1. (\E step : Goto(w, step)) \/ Return(w) \/ AfterLogin(w)
    BY <1>9 DEF OnPlayerLogin, AskHandoff
  <2>2. read' = read
    BY <1>9 DEF OnPlayerLogin, Closed
  <2>3. ReadLoopSingle'
    BY <2>1, <2>2, SameLoop
  <2>4. Fresh'
    BY <1>9, <2>1 DEF OnPlayerLogin, Goto, AfterLogin, Closed, Sent, SendData, AliveTest,
       peerVars, authVars, mapVars, Return
  <2> QED BY <2>3, <2>4
<1>10. ASSUME NEW w \in Workers, HandoffNothing(w) PROVE Goal
  <2>1. ReadLoopSingle'
    BY <1>10 DEF HandoffNothing, AfterLogin, LockFree, peerVars, objVars,
       ioVars, timerVars, authVars, mapVars
  <2>2. Fresh'
    BY <1>10 DEF HandoffNothing, AfterLogin, LockFree, peerVars, objVars,
       ioVars, timerVars, authVars, mapVars
  <2> QED BY <2>1, <2>2
<1>11. ASSUME NEW w \in Workers, HandoffFind(w) PROVE Goal
  <2>1. ReadLoopSingle'
    BY <1>11 DEF HandoffFind, LockFree, Lock, peerVars, objVars, ioVars,
       timerVars, authVars
  <2>2. Fresh'
    BY <1>11 DEF HandoffFind, LockFree, Lock, peerVars, objVars, ioVars,
       timerVars, authVars
  <2> QED BY <2>1, <2>2
<1>12. ASSUME NEW w \in Workers, HandoffDetach(w) PROVE Goal
  <2>1. ReadLoopSingle'
    BY <1>12 DEF HandoffDetach, Goto, Abort, CancelWaits, Destroy, Owned,
       peerVars, authVars
  <2>2. Fresh'
    BY <1>12 DEF HandoffDetach, Goto, Abort, CancelWaits, Destroy, Owned,
       peerVars, authVars
  <2> QED BY <2>1, <2>2
<1>13. ASSUME NEW w \in Workers, QueryPlayer(w) PROVE Goal
  <2>1. ReadLoopSingle'
    BY <1>13 DEF QueryPlayer, Goto, peerVars, objVars, ioVars, timerVars,
       authVars, mapVars
  <2>2. Fresh'
    BY <1>13 DEF QueryPlayer, Goto, peerVars, objVars, ioVars, timerVars,
       authVars, mapVars
  <2> QED BY <2>1, <2>2
<1>14. ASSUME NEW w \in Workers, InsertPlayer(w) PROVE Goal
  <2>1. ReadLoopSingle'
    BY <1>14 DEF InsertPlayer, Goto, peerVars, objVars, ioVars, timerVars,
       authVars
  <2>2. Fresh'
    BY <1>14 DEF InsertPlayer, Goto, peerVars, objVars, ioVars, timerVars,
       authVars
  <2> QED BY <2>1, <2>2
<1>15. ASSUME NEW w \in Workers, AddClient(w) PROVE Goal
  <2>1. ReadLoopSingle'
    BY <1>15 DEF AddClient, AfterLogin, Closed, Abort, Sent, SendData, AliveTest, CancelWaits,
       Destroy, Owned, Unlock, peerVars, authVars
  <2>2. Fresh'
    BY <1>15 DEF AddClient, AfterLogin, Closed, Abort, Sent, SendData, AliveTest, CancelWaits,
       Destroy, Owned, Unlock, peerVars, authVars
  <2> QED BY <2>1, <2>2
<1>16. ASSUME NEW w \in Workers, Close(w) PROVE Goal
  <2>1. ReadLoopSingle'
    BY <1>16 DEF Close, Goto, Closed, Abort, CancelWaits, MarkDead, peerVars,
       authVars, mapVars
  <2>2. Fresh'
    BY <1>16 DEF Close, Goto, Closed, Abort, CancelWaits, MarkDead, peerVars,
       authVars, mapVars
  <2> QED BY <2>1, <2>2
<1>17. ASSUME NEW w \in Workers, ReleaseLobby(w) PROVE Goal
  <2>1. ReadLoopSingle'
    BY <1>17 DEF ReleaseLobby, Return, Closed, NoEndpoint, Abort,
       CancelWaits, Destroy, Owned, peerVars, authVars
  <2>2. Fresh'
    BY <1>17 DEF ReleaseLobby, Return, Closed, NoEndpoint, Abort,
       CancelWaits, Destroy, Owned, peerVars, authVars
  <2> QED BY <2>1, <2>2
<1>18. ASSUME NEW w \in Workers, ReleaseRoster(w) PROVE Goal
  <2>1. ReadLoopSingle'
    BY <1>18 DEF ReleaseRoster, Return, Abort, CancelWaits, Destroy, Owned,
       peerVars, authVars
  <2>2. Fresh'
    BY <1>18 DEF ReleaseRoster, Return, Abort, CancelWaits, Destroy, Owned,
       peerVars, authVars
  <2> QED BY <2>1, <2>2
<1>19. ASSUME NEW w \in Workers, ResetTimer(w) PROVE Goal
  <2>1. ReadLoopSingle'
    BY <1>19 DEF ResetTimer, Return, Closed, Sent, SendData, AliveTest, Renew, peerVars, objVars,
       authVars, mapVars
  <2>2. Fresh'
    BY <1>19 DEF ResetTimer, Return, Closed, Sent, SendData, AliveTest, Renew, peerVars, objVars,
       authVars, mapVars
  <2> QED BY <2>1, <2>2
<1>20. ASSUME NEW w \in Workers, NEW next \in ClientState, Handshake(w, next) PROVE Goal
  <2>1. ReadLoopSingle'
    BY <1>20 DEF Handshake, Goto, peerVars, ioVars, timerVars, authVars,
       mapVars
  <2>2. Fresh'
    BY <1>20 DEF Handshake, Goto, peerVars, ioVars, timerVars, authVars,
       mapVars
  <2> QED BY <2>1, <2>2
<1>21. ASSUME NEW w \in Workers, NEW c \in Clients, NEW h \in Handles, HandleClient(w, c, h)
       PROVE Goal
  <2>1. ReadLoopSingle'
    BY <1>21 DEF HandleClient, peerVars, timerVars, authVars, mapVars
  <2>2. Fresh'
    BY <1>21 DEF HandleClient, peerVars, timerVars, authVars, mapVars
  <2> QED BY <2>1, <2>2
<1>22. ASSUME NEW w \in Workers, NEW c \in Clients, OnLengthReceive(w, c) PROVE Goal
  <2>1. Take(w, c, "read", ReadStep(c)) \/ UNCHANGED workerVars
    BY <1>22 DEF OnLengthReceive, Begin
  <2>2. CASE Take(w, c, "read", ReadStep(c))
    BY <1>22, <2>2 DEF OnLengthReceive, Take, ReadStep, peerVars, objVars,
       timerVars, authVars, mapVars, workerVars
  <2>3. CASE UNCHANGED workerVars
    BY <1>22, <2>3 DEF OnLengthReceive, peerVars, objVars, timerVars,
       authVars, mapVars, workerVars
  <2> QED BY <2>1, <2>2, <2>3
<1>23. ASSUME NEW w \in Workers, NEW c \in Clients, OnWriteComplete(w, c) PROVE Goal
  <2>1. Take(w, c, "write", "close") \/ UNCHANGED workerVars
    BY <1>23 DEF OnWriteComplete, Begin
  <2>2. CASE Take(w, c, "write", "close")
    BY <1>23, <2>2 DEF OnWriteComplete, Take, peerVars, objVars, timerVars,
       authVars, mapVars, workerVars
  <2>3. CASE UNCHANGED workerVars
    BY <1>23, <2>3 DEF OnWriteComplete, peerVars, objVars, timerVars,
       authVars, mapVars, workerVars
  <2> QED BY <2>1, <2>2, <2>3
<1>24. ASSUME NEW w \in Workers, NEW c \in Clients, KeepAliveAborted(w, c) PROVE Goal
  <2>1. Take(w, c, "timer", "close") \/ UNCHANGED workerVars
    BY <1>24 DEF KeepAliveAborted, Begin
  <2>2. CASE Take(w, c, "timer", "close")
    BY <1>24, <2>2 DEF KeepAliveAborted, Take, peerVars, objVars, ioVars,
       authVars, mapVars, workerVars
  <2>3. CASE UNCHANGED workerVars
    BY <1>24, <2>3 DEF KeepAliveAborted, peerVars, objVars, ioVars, authVars,
       mapVars, workerVars
  <2> QED BY <2>1, <2>2, <2>3
<1>25. ASSUME NEW w \in Workers, NEW c \in Clients, KeepAliveTimeout(w, c) PROVE Goal
  <2>1. ReadLoopSingle'
    BY <1>25 DEF KeepAliveTimeout, Closed, Abort, CancelSocket, AliveTest,
       peerVars, objVars, authVars, mapVars, workerVars
  <2>2. Fresh'
    BY <1>25 DEF KeepAliveTimeout, Closed, Abort, CancelSocket, AliveTest,
       peerVars, objVars, authVars, mapVars, workerVars
  <2> QED BY <2>1, <2>2
<1>26. ASSUME NEW w \in Workers, NEW c \in Clients, KeepAlive(w, c) PROVE Goal
  <2>1. Take(w, c, "timer", "beat") \/ UNCHANGED workerVars
    BY <1>26 DEF KeepAlive, Begin
  <2>2. CASE Take(w, c, "timer", "beat")
    BY <1>26, <2>2 DEF KeepAlive, Take, peerVars, objVars, ioVars, authVars,
       mapVars, workerVars
  <2>3. CASE UNCHANGED workerVars
    BY <1>26, <2>3 DEF KeepAlive, peerVars, objVars, ioVars, authVars,
       mapVars, workerVars
  <2> QED BY <2>1, <2>2, <2>3
<1>27. ASSUME NEW w \in Workers, NEW c \in Clients, AuthDropped(w, c) PROVE Goal
  <2>1. ReadLoopSingle'
    BY <1>27 DEF AuthDropped, peerVars, objVars, ioVars, timerVars, mapVars,
       workerVars
  <2>2. Fresh'
    BY <1>27 DEF AuthDropped, peerVars, objVars, ioVars, timerVars, mapVars,
       workerVars
  <2> QED BY <2>1, <2>2
<1>28. ASSUME NEW w \in Workers, NEW c \in Clients, ReadHTTPHeader(w, c) PROVE Goal
  <2>1. ReadLoopSingle'
    BY <1>28 DEF ReadHTTPHeader, AliveTest, peerVars, objVars, ioVars,
       timerVars, mapVars, workerVars
  <2>2. Fresh'
    BY <1>28 DEF ReadHTTPHeader, AliveTest, peerVars, objVars, ioVars,
       timerVars, mapVars, workerVars
  <2> QED BY <2>1, <2>2
<1>29. ASSUME NEW w \in Workers, NEW c \in Clients, AuthRefused(w, c) PROVE Goal
  <2>1. ReadLoopSingle'
    BY <1>29 DEF AuthRefused, Closed, NoEndpoint, Abort, CancelSocket,
       AliveTest, peerVars, objVars, timerVars, mapVars, workerVars
  <2>2. Fresh'
    BY <1>29 DEF AuthRefused, Closed, NoEndpoint, Abort, CancelSocket,
       AliveTest, peerVars, objVars, timerVars, mapVars, workerVars
  <2> QED BY <2>1, <2>2
<1>30. ASSUME NEW w \in Workers, NEW c \in Clients, HasJoined(w, c) PROVE Goal
  <2>1. ReadLoopSingle'
    BY <1>30 DEF HasJoined, Take, peerVars, ioVars, timerVars, mapVars
  <2>2. Fresh'
    BY <1>30 DEF HasJoined, Take, peerVars, ioVars, timerVars, mapVars
  <2> QED BY <2>1, <2>2
<1>31. ASSUME NEW c \in Clients, PeerSends(c) PROVE Goal
  <2>1. ReadLoopSingle'
    BY <1>31 DEF PeerSends, objVars, timerVars, authVars, mapVars, workerVars
  <2>2. Fresh'
    BY <1>31 DEF PeerSends, objVars, timerVars, authVars, mapVars, workerVars
  <2> QED BY <2>1, <2>2
<1>32. ASSUME NEW c \in Clients, ReadFails(c) PROVE Goal
  <2>1. ReadLoopSingle'
    BY <1>32 DEF ReadFails, peerVars, objVars, timerVars, authVars, mapVars,
       workerVars
  <2>2. Fresh'
    BY <1>32 DEF ReadFails, peerVars, objVars, timerVars, authVars, mapVars,
       workerVars
  <2> QED BY <2>1, <2>2
<1>33. ASSUME NEW c \in Clients, WriteCompletes(c) PROVE Goal
  <2>1. ReadLoopSingle'
    BY <1>33 DEF WriteCompletes, peerVars, objVars, timerVars, authVars,
       mapVars, workerVars
  <2>2. Fresh'
    BY <1>33 DEF WriteCompletes, peerVars, objVars, timerVars, authVars,
       mapVars, workerVars
  <2> QED BY <2>1, <2>2
<1>34. ASSUME NEW c \in Clients, TimerExpires(c) PROVE Goal
  <2>1. ReadLoopSingle'
    BY <1>34 DEF TimerExpires, peerVars, objVars, ioVars, authVars, mapVars,
       workerVars
  <2>2. Fresh'
    BY <1>34 DEF TimerExpires, peerVars, objVars, ioVars, authVars, mapVars,
       workerVars
  <2> QED BY <2>1, <2>2
<1>35. ASSUME NEW c \in Clients, NEW how \in {"fin", "rst"}, PeerCloses(c, how) PROVE Goal
  <2>1. ReadLoopSingle'
    BY <1>35 DEF PeerCloses, Closed, objVars, ioVars, timerVars, authVars,
       mapVars, workerVars
  <2>2. Fresh'
    BY <1>35 DEF PeerCloses, Closed, objVars, ioVars, timerVars, authVars,
       mapVars, workerVars
  <2> QED BY <2>1, <2>2
<1>36. CASE UNCHANGED vars
  BY <1>36 DEF vars, peerVars, objVars, ioVars, timerVars, authVars, mapVars,
     workerVars
<1> HIDE DEF Inv, Goal
<1>37. QED
  BY <1>1, <1>2, <1>3, <1>4, <1>5, <1>6, <1>7, <1>8, <1>9, <1>10, <1>11,
     <1>12, <1>13, <1>14, <1>15, <1>16, <1>17, <1>18, <1>19, <1>20, <1>21,
     <1>22, <1>23, <1>24, <1>25, <1>26, <1>27, <1>28, <1>29, <1>30, <1>31,
     <1>32, <1>33, <1>34, <1>35, <1>36 DEF Next, Continue, Message, Dispatch,
     Timer, Session, Environment

\* The chain of reads of a connection, onLengthReceive to startAsyncRead, never
\* forks, whatever handlers of the connection run beside it.
THEOREM ReadLoopNeverForks == Spec => []ReadLoopSingle
<1>1. Inv /\ ReadLoopSingle /\ Fresh /\ [Next]_vars => (Inv /\ ReadLoopSingle /\ Fresh)'
  BY StepInv, StepRead
<1> QED BY InitInv, InitRead, <1>1, PTL DEF Spec

-----------------------------------------------------------------------------
(* Ownership of the Client objects. *)

\* No two slots, seats or workers hold the same object, nor do two different
\* kinds of them.
Apart(pending, seats, hands) ==
  /\ \A j, k \in Keys : pending[j] = pending[k] /\ pending[j] # None => j = k
  /\ \A p, q \in Ids : seats[p] = seats[q] /\ seats[p] # None => p = q
  /\ \A v, w \in Workers : hands[v] = hands[w] /\ hands[v] # None => v = w
  /\ \A k \in Keys, p \in Ids : pending[k] = seats[p] => seats[p] = None
  /\ \A k \in Keys, w \in Workers : pending[k] = hands[w] => hands[w] = None
  /\ \A p \in Ids, w \in Workers : seats[p] = hands[w] => hands[w] = None

\* The objects in them are those that exist.
Living(c, pending, seats, hands) ==
  \/ \E k \in Keys : pending[k] = c
  \/ \E p \in Ids : seats[p] = c
  \/ \E w \in Workers : hands[w] = c

\* A worker holds an object from its construction or the lobby's slot on until
\* it is in the next place.
Holding ==
  \A w \in Workers :
    /\ held[w] # None => pc[w] \in Locked \cup {"store"}
    /\ pc[w] = "store" => held[w] = on[w]

OnePlace ==
  /\ Apart(pendingClients, clients, held)
  /\ \A c \in Clients : life[c] = "made" <=> Living(c, pendingClients, clients, held)
  /\ Holding

\* Whose field owner says what, and what an object's handle is.
Places ==
  /\ PendingConsistent
  /\ \A p \in Ids, c \in Clients : clients[p] = c => owner[c] = "roster"
  /\ \A w \in Workers :
       /\ pc[w] \in {"store", "detach"} => owner[held[w]] = "lobby"
       /\ pc[w] \in {"query", "insert", "add"} => owner[held[w]] = "roster"
       /\ pc[w] = "detach" => \/ Closed(held[w])
                              \/ pendingClients[handle[held[w]]] = None
       /\ pc[w] = "release" => ~alive[on[w]]
  /\ \A c \in Clients :
       /\ life[c] = "made" /\ alive[c] => ~Closed(c)
       /\ life[c] = "unborn" => owner[c] = "lobby" /\ Closed(c)
  /\ \A c, d \in Clients : handle[c] = handle[d] /\ ~Closed(c) => c = d

\* A step that moves and destroys no object.
Calm ==
  /\ UNCHANGED <<life, alive, owner, handle, pendingClients, clients, mutex, held>>
  /\ \A v \in Workers :
       /\ pc'[v] = "store" => pc[v] = "store" /\ on'[v] = on[v]
       /\ pc'[v] = "release" => pc[v] = "release" /\ on'[v] = on[v]
       /\ pc'[v] = "detach" => pc[v] = "detach"
       /\ pc'[v] \in Locked <=> pc[v] \in Locked
       /\ pc'[v] \in {"query", "insert", "add"} => pc[v] \in {"query", "insert", "add"}
       /\ pc[v] = "store" => pc'[v] = "store"

\* The steps of the handover and of the disconnect, and all others.
LEMMA CalmSteps ==
  ASSUME Inv, OnePlace, [Next]_vars
  PROVE  \/ Calm
         \/ \E w \in Workers, c \in Clients, h \in Handles : HandleClient(w, c, h)
         \/ \E w \in Workers :
              \/ StoreClient(w) \/ HandoffFind(w) \/ HandoffDetach(w) \/ AddClient(w)
              \/ Close(w) \/ ReleaseLobby(w) \/ ReleaseRoster(w)
<1> USE ConstantsAssumption DEF Inv, FieldsOK, Control, Locked, OnePlace, Holding, Calm
<1>1. ASSUME NEW w \in Workers,
             pc[w] \notin Locked \cup {"store"}, pc'[w] \notin Locked \cup {"store", "release"},
             (\E step : Goto(w, step)) \/ Return(w) \/ AfterLogin(w),
             UNCHANGED <<life, alive, owner, handle, mapVars>>
      PROVE  Calm
  BY <1>1 DEF Goto, Return, AfterLogin, mapVars
<1>2. ASSUME NEW w \in Workers, Message(w) PROVE Calm
  <2>1. pc[w] = "message" /\ UNCHANGED <<life, alive, owner, handle, mapVars>>
    BY <1>2 DEF Message, IgnoreMessage, ParserThrows, Handshake, StatusRequest,
       StatusPing,
       LoginStart, EncryptionResponse, CancelSocket, objVars, ioVars
  <2>2. (\E step : Goto(w, step) /\ step \in {"rearm", "close", "login"}) \/ Return(w)
    BY <1>2 DEF Message, IgnoreMessage, ParserThrows, Handshake, StatusRequest,
       StatusPing,
       LoginStart, EncryptionResponse, Disconnect, AuthWithMojang
  <2>3. pc'[w] \in {"rearm", "close", "login", "idle"}
    BY <2>2 DEF Goto, Return
  <2> QED BY <2>1, <2>2, <2>3, <1>1
<1>3. ASSUME NEW w \in Workers, StartAsyncRead(w) \/ ResetTimer(w) PROVE Calm
  <2>1. pc[w] \in {"rearm", "beat"} /\ UNCHANGED <<life, alive, owner, handle, mapVars>> /\ Return(w)
    BY <1>3 DEF StartAsyncRead, ResetTimer, objVars
  <2>2. pc'[w] = "idle"
    BY <2>1 DEF Return
  <2> QED BY <2>1, <2>2, <1>1, Zenon
<1>4. ASSUME NEW w \in Workers, OnPlayerLogin(w) \/ HandoffNothing(w) PROVE Calm
  <2>1. pc[w] \in {"login", "handoff"} /\ UNCHANGED <<life, alive, owner, handle, mapVars>>
    BY <1>4 DEF OnPlayerLogin, HandoffNothing, objVars, ioVars
  <2>2. Goto(w, "handoff") \/ AfterLogin(w)
    BY <1>4 DEF OnPlayerLogin, HandoffNothing, AskHandoff
  <2> QED BY <2>1, <2>2, <1>1 DEF Goto, AfterLogin
<1>5. ASSUME NEW w \in Workers, QueryPlayer(w) \/ InsertPlayer(w) PROVE Calm
  <2>1. pc[w] \in {"query", "insert"} /\ (Goto(w, "insert") \/ Goto(w, "add"))
    BY <1>5 DEF QueryPlayer, InsertPlayer
  <2>2. UNCHANGED <<life, alive, owner, handle, pendingClients, clients, mutex>>
    BY <1>5 DEF QueryPlayer, InsertPlayer, objVars, ioVars, mapVars
  <2> QED BY <2>1, <2>2 DEF Goto
<1>6. ASSUME NEW w \in Workers, NEW c \in Clients,
             OnLengthReceive(w, c) \/ OnWriteComplete(w, c) \/ Timer(w, c) \/ Session(w, c)
      PROVE  Calm
  <2>1. pc[w] = "idle" /\ UNCHANGED <<life, alive, owner, handle, mapVars>>
    BY <1>6 DEF OnLengthReceive, OnWriteComplete, Timer, Session, KeepAliveAborted,
       KeepAliveTimeout, KeepAlive, AuthDropped, ReadHTTPHeader, AuthRefused, HasJoined,
       CancelSocket, objVars, ioVars
  <2>2. \/ UNCHANGED workerVars
        \/ \E kind, step : step \in {"message", "close", "beat", "login"} /\ Take(w, c, kind, step)
    BY <1>6 DEF OnLengthReceive, OnWriteComplete, Timer, Session, KeepAliveAborted,
       KeepAliveTimeout, KeepAlive, AuthDropped, ReadHTTPHeader, AuthRefused, HasJoined,
       Begin, ReadStep
  <2>3. CASE UNCHANGED workerVars
    BY <2>1, <2>3 DEF workerVars, mapVars
  <2>4. CASE ~UNCHANGED workerVars
    <3>1. PICK kind, step : step \in {"message", "close", "beat", "login"} /\ Take(w, c, kind, step)
      BY <2>2, <2>4, Zenon
    <3> QED BY <2>1, <3>1 DEF Take, mapVars
  <2> QED BY <2>3, <2>4
<1>7. ASSUME NEW c \in Clients, Environment(c) PROVE Calm
  BY <1>7 DEF Environment, PeerSends, ReadFails, WriteCompletes, TimerExpires, PeerCloses,
     objVars, ioVars, mapVars, workerVars
<1>8. CASE UNCHANGED vars
  BY <1>8 DEF vars, objVars, ioVars, mapVars, workerVars
<1> HIDE DEF Inv, OnePlace, Calm
<1> QED
  BY <1>2, <1>3, <1>4, <1>5, <1>6, <1>7, <1>8 DEF Next, Continue, Dispatch

(* A step that destroys what a set of places holds, and empties them, keeps every
   object that is left in one place. *)
LEMMA StepOnePlace ==
  ASSUME Inv, Fresh, OnePlace, [Next]_vars
  PROVE  OnePlace'
<1> USE ConstantsAssumption DEF Inv, FieldsOK, Control, Locked
<1>1. ASSUME Calm PROVE OnePlace'
  BY <1>1 DEF Calm, OnePlace, Apart, Living, Holding
<1>2. ASSUME NEW w \in Workers, StoreClient(w) PROVE OnePlace'
  <2> DEFINE k == handle[on[w]]
  <2>1. k \in Keys /\ on[w] \in Clients /\ held[w] = on[w]
    BY <1>2 DEF StoreClient, OnePlace, Holding
  <2>2. \A j \in Keys : pendingClients'[j] = IF j = k THEN on[w] ELSE pendingClients[j]
    BY <1>2 DEF StoreClient
  <2>3. /\ clients' = clients
        /\ \A v \in Workers : held'[v] = IF v = w THEN None ELSE held[v]
    BY <1>2 DEF StoreClient, Return
  <2>4. \A c \in Clients : life'[c] = IF c = pendingClients[k] THEN "deleted" ELSE life[c]
    BY <1>2 DEF StoreClient, Destroy, Owned
  <2>5. Apart(pendingClients', clients', held')
    BY <2>1, <2>2, <2>3, <2>4 DEF OnePlace, Apart, Holding
  <2>6. \A c \in Clients :
          life'[c] = "made" <=> Living(c, pendingClients', clients', held')
    <3> SUFFICES ASSUME NEW c \in Clients
                 PROVE  life'[c] = "made" <=> Living(c, pendingClients', clients', held')
      OBVIOUS
    <3> HIDE DEF k, Inv, FieldsOK, Control
    <3>1. life[c] = "made" <=> Living(c, pendingClients, clients, held)
      BY DEF OnePlace
    <3>2. CASE c = on[w]
      BY <2>1, <2>2, <2>3, <2>4, <3>1, <3>2 DEF OnePlace, Apart, Living, Holding
    <3>3. CASE c = pendingClients[k]
      BY <2>1, <2>2, <2>3, <2>4, <3>1, <3>3 DEF OnePlace, Apart, Living, Holding
    <3>4. CASE c # on[w] /\ c # pendingClients[k]
      BY <2>1, <2>2, <2>3, <2>4, <3>1, <3>4 DEF OnePlace, Apart, Living, Holding
    <3> QED BY <3>2, <3>3, <3>4
  <2>7. Holding'
    BY <1>2, <2>1, <2>2, <2>3, <2>4 DEF StoreClient, Return, OnePlace, Holding
  <2> QED BY <2>5, <2>6, <2>7 DEF OnePlace, Apart, Living
<1>3. ASSUME NEW w \in Workers, HandoffFind(w) PROVE OnePlace'
  <2> DEFINE k == handle[on[w]]
  <2>1. k \in Keys /\ on[w] \in Clients /\ held[w] = None /\ pendingClients[k] \in Clients
    BY <1>3 DEF HandoffFind, OnePlace, Holding
  <2>2. \A j \in Keys : pendingClients'[j] = IF j = k THEN None ELSE pendingClients[j]
    BY <1>3 DEF HandoffFind
  <2>3. /\ clients' = clients
        /\ \A v \in Workers : held'[v] = IF v = w THEN pendingClients[k] ELSE held[v]
    BY <1>3 DEF HandoffFind
  <2>4. life' = life
    BY <1>3 DEF HandoffFind, objVars
  <2>5. Apart(pendingClients', clients', held')
    <3> DEFINE x == pendingClients[k]
    <3>1. x \in Clients /\ \A v \in Workers : held[v] # x
      BY <2>1 DEF OnePlace, Apart
    <3>2. \A p \in Ids : clients[p] # x
      BY <2>1 DEF OnePlace, Apart
    <3> HIDE DEF Inv, FieldsOK, Control, k
    <3>3. \A j \in Keys : pendingClients'[j] # x
      BY <2>1, <2>2, <3>1 DEF OnePlace, Apart
    <3> HIDE DEF x
    <3>4. \A v \in Workers : held'[v] = IF v = w THEN x ELSE held[v]
      BY <2>3 DEF x
    <3> QED BY <2>2, <2>3, <3>1, <3>2, <3>3, <3>4 DEF OnePlace, Apart
  <2>6. \A c \in Clients :
          life'[c] = "made" <=> Living(c, pendingClients', clients', held')
    <3> SUFFICES ASSUME NEW c \in Clients
                 PROVE  life'[c] = "made" <=> Living(c, pendingClients', clients', held')
      OBVIOUS
    <3> HIDE DEF k, Inv, FieldsOK, Control
    <3>1. life[c] = "made" <=> Living(c, pendingClients, clients, held)
      BY DEF OnePlace
    <3>2. CASE c = pendingClients[k]
      BY <2>1, <2>2, <2>3, <2>4, <3>1, <3>2 DEF OnePlace, Apart, Living, Holding
    <3>3. CASE c # pendingClients[k]
      BY <2>1, <2>2, <2>3, <2>4, <3>1, <3>3 DEF OnePlace, Apart, Living, Holding
    <3> QED BY <3>2, <3>3
  <2>7. Holding'
    BY <1>3, <2>1, <2>2, <2>3, <2>4 DEF HandoffFind, OnePlace, Holding
  <2> QED BY <2>5, <2>6, <2>7 DEF OnePlace, Apart, Living
<1>4. ASSUME NEW w \in Workers, HandoffDetach(w) PROVE OnePlace'
  <2> DEFINE k == handle[held[w]]
  <2>1. k \in Keys
    BY <1>4 DEF HandoffDetach
  <2>2. \A j \in Keys : pendingClients'[j] = IF j = k THEN None ELSE pendingClients[j]
    BY <1>4 DEF HandoffDetach
  <2>3. clients' = clients /\ held' = held
    BY <1>4 DEF HandoffDetach, Goto
  <2>4. \A c \in Clients : life'[c] = IF c = pendingClients[k] THEN "deleted" ELSE life[c]
    BY <1>4 DEF HandoffDetach, Destroy, Owned
  <2>5. Apart(pendingClients', clients', held')
    BY <2>1, <2>2, <2>3, <2>4 DEF OnePlace, Apart, Holding
  <2>6. \A c \in Clients :
          life'[c] = "made" <=> Living(c, pendingClients', clients', held')
    <3> SUFFICES ASSUME NEW c \in Clients
                 PROVE  life'[c] = "made" <=> Living(c, pendingClients', clients', held')
      OBVIOUS
    <3> HIDE DEF k, Inv, FieldsOK, Control
    <3>1. life[c] = "made" <=> Living(c, pendingClients, clients, held)
      BY DEF OnePlace
    <3>2. CASE c = pendingClients[k]
      BY <2>1, <2>2, <2>3, <2>4, <3>1, <3>2 DEF OnePlace, Apart, Living, Holding
    <3>3. CASE c # pendingClients[k]
      BY <2>1, <2>2, <2>3, <2>4, <3>1, <3>3 DEF OnePlace, Apart, Living, Holding
    <3> QED BY <3>2, <3>3
  <2>7. Holding'
    BY <1>4, <2>1, <2>2, <2>3, <2>4 DEF HandoffDetach, Goto, OnePlace, Holding
  <2> QED BY <2>5, <2>6, <2>7 DEF OnePlace, Apart, Living
<1>5. ASSUME NEW w \in Workers, AddClient(w) PROVE OnePlace'
  <2> DEFINE k == userid[held[w]]
  <2>1. k \in Ids /\ held[w] \in Clients
    BY <1>5 DEF AddClient
  <2>2. \A p \in Ids : clients'[p] = IF p = k THEN held[w] ELSE clients[p]
    BY <1>5 DEF AddClient
  <2>3. /\ pendingClients' = pendingClients
        /\ \A v \in Workers : held'[v] = IF v = w THEN None ELSE held[v]
    BY <1>5 DEF AddClient, AfterLogin
  <2>4. \A c \in Clients : life'[c] = IF c = clients[k] THEN "deleted" ELSE life[c]
    BY <1>5 DEF AddClient, Destroy, Owned
  <2>5. Apart(pendingClients', clients', held')
    BY <2>1, <2>2, <2>3, <2>4 DEF OnePlace, Apart, Holding
  <2>6. \A c \in Clients :
          life'[c] = "made" <=> Living(c, pendingClients', clients', held')
    <3> SUFFICES ASSUME NEW c \in Clients
                 PROVE  life'[c] = "made" <=> Living(c, pendingClients', clients', held')
      OBVIOUS
    <3> HIDE DEF k, Inv, FieldsOK, Control
    <3>1. life[c] = "made" <=> Living(c, pendingClients, clients, held)
      BY DEF OnePlace
    <3>2. CASE c = held[w]
      BY <2>1, <2>2, <2>3, <2>4, <3>1, <3>2 DEF OnePlace, Apart, Living, Holding
    <3>3. CASE c = clients[k]
      BY <2>1, <2>2, <2>3, <2>4, <3>1, <3>3 DEF OnePlace, Apart, Living, Holding
    <3>4. CASE c # held[w] /\ c # clients[k]
      BY <2>1, <2>2, <2>3, <2>4, <3>1, <3>4 DEF OnePlace, Apart, Living, Holding
    <3> QED BY <3>2, <3>3, <3>4
  <2>7. Holding'
    BY <1>5, <2>1, <2>2, <2>3, <2>4 DEF AddClient, AfterLogin, OnePlace, Holding
  <2> QED BY <2>5, <2>6, <2>7 DEF OnePlace, Apart, Living
<1>6. ASSUME NEW w \in Workers, ReleaseLobby(w) PROVE OnePlace'
  <2> DEFINE E == IF NoEndpoint(on[w]) THEN {} ELSE {handle[on[w]]}
  <2>1. \A j \in Keys : pendingClients'[j] = IF j \in E THEN None ELSE pendingClients[j]
    BY <1>6 DEF ReleaseLobby
  <2>2. /\ clients' = clients
        /\ \A v \in Workers : held'[v] = IF v = w THEN None ELSE held[v]
    BY <1>6 DEF ReleaseLobby, Return
  <2>3. held[w] = None
    BY <1>6 DEF ReleaseLobby, OnePlace, Holding
  <2>4. \A c \in Clients :
          life'[c] = IF \E j \in E : c = pendingClients[j] THEN "deleted" ELSE life[c]
    BY <1>6 DEF ReleaseLobby, Destroy, Owned
  <2>5. E \subseteq Keys
    BY <1>6 DEF ReleaseLobby
  <2>6. Apart(pendingClients', clients', held')
    BY <2>1, <2>2, <2>3, <2>4, <2>5 DEF OnePlace, Apart, Holding
  <2>7. \A c \in Clients :
          life'[c] = "made" <=> Living(c, pendingClients', clients', held')
    <3> SUFFICES ASSUME NEW c \in Clients
                 PROVE  life'[c] = "made" <=> Living(c, pendingClients', clients', held')
      OBVIOUS
    <3> HIDE DEF E, Inv, FieldsOK, Control
    <3>1. life[c] = "made" <=> Living(c, pendingClients, clients, held)
      BY DEF OnePlace
    <3>2. CASE \E j \in E : c = pendingClients[j]
      BY <2>1, <2>2, <2>3, <2>4, <2>5, <3>1, <3>2 DEF OnePlace, Apart, Living, Holding
    <3>3. CASE ~\E j \in E : c = pendingClients[j]
      BY <2>1, <2>2, <2>3, <2>4, <2>5, <3>1, <3>3 DEF OnePlace, Apart, Living, Holding
    <3> QED BY <3>2, <3>3
  <2>8. Holding'
    BY <1>6, <2>1, <2>2, <2>3, <2>4, <2>5 DEF ReleaseLobby, Return, OnePlace, Holding
  <2> QED BY <2>6, <2>7, <2>8 DEF OnePlace, Apart, Living
<1>7. ASSUME NEW w \in Workers, ReleaseRoster(w) PROVE OnePlace'
  <2> DEFINE k == userid[on[w]]
  <2>1. k \in Ids /\ held[w] = None
    BY <1>7 DEF ReleaseRoster, OnePlace, Holding
  <2>2. \A p \in Ids : clients'[p] = IF p = k THEN None ELSE clients[p]
    BY <1>7 DEF ReleaseRoster
  <2>3. /\ pendingClients' = pendingClients
        /\ \A v \in Workers : held'[v] = IF v = w THEN None ELSE held[v]
    BY <1>7 DEF ReleaseRoster, Return
  <2>4. \A c \in Clients : life'[c] = IF c = clients[k] THEN "deleted" ELSE life[c]
    BY <1>7 DEF ReleaseRoster, Destroy, Owned
  <2>5. Apart(pendingClients', clients', held')
    BY <2>1, <2>2, <2>3, <2>4 DEF OnePlace, Apart, Holding
  <2>6. \A c \in Clients :
          life'[c] = "made" <=> Living(c, pendingClients', clients', held')
    <3> SUFFICES ASSUME NEW c \in Clients
                 PROVE  life'[c] = "made" <=> Living(c, pendingClients', clients', held')
      OBVIOUS
    <3> HIDE DEF k, Inv, FieldsOK, Control
    <3>1. life[c] = "made" <=> Living(c, pendingClients, clients, held)
      BY DEF OnePlace
    <3>2. CASE c = clients[k]
      BY <2>1, <2>2, <2>3, <2>4, <3>1, <3>2 DEF OnePlace, Apart, Living, Holding
    <3>3. CASE c # clients[k]
      BY <2>1, <2>2, <2>3, <2>4, <3>1, <3>3 DEF OnePlace, Apart, Living, Holding
    <3> QED BY <3>2, <3>3
  <2>7. Holding'
    BY <1>7, <2>1, <2>2, <2>3, <2>4 DEF ReleaseRoster, Return, OnePlace, Holding
  <2> QED BY <2>5, <2>6, <2>7 DEF OnePlace, Apart, Living
<1>8. ASSUME NEW w \in Workers, Close(w) PROVE OnePlace'
  <2>1. UNCHANGED <<pendingClients, clients, held, life>>
    BY <1>8 DEF Close, Goto, mapVars
  <2>2. Holding'
    BY <1>8 DEF Close, Goto, OnePlace, Holding
  <2> HIDE DEF Inv, FieldsOK, Control
  <2> QED BY <2>1, <2>2 DEF OnePlace, Apart, Living
<1>9. ASSUME NEW w \in Workers, NEW c \in Clients, NEW h \in Handles, HandleClient(w, c, h)
      PROVE  OnePlace'
  <2>1. held[w] = None /\ life[c] = "unborn"
    BY <1>9 DEF HandleClient, OnePlace, Holding
  <2>2. clients' = clients /\ pendingClients' = pendingClients
    BY <1>9 DEF HandleClient, mapVars
  <2>3. \A v \in Workers : held'[v] = IF v = w THEN c ELSE held[v]
    BY <1>9 DEF HandleClient
  <2>4. \A d \in Clients : life'[d] = IF d = c THEN "made" ELSE life[d]
    BY <1>9 DEF HandleClient
  <2>5. ~Living(c, pendingClients, clients, held)
    BY <2>1 DEF OnePlace
  <2>6. Apart(pendingClients', clients', held')
    BY <2>1, <2>2, <2>3, <2>5 DEF OnePlace, Apart, Living
  <2>7. \A d \in Clients :
          life'[d] = "made" <=> Living(d, pendingClients', clients', held')
    <3> HIDE DEF Inv, FieldsOK, Control
    <3> QED BY <2>1, <2>2, <2>3, <2>4, <2>5 DEF OnePlace, Living
  <2>8. Holding'
    BY <1>9, <2>3 DEF HandleClient, OnePlace, Holding
  <2> QED BY <2>6, <2>7, <2>8 DEF OnePlace, Apart, Living
<1> HIDE DEF Inv
<1> QED
  BY CalmSteps, <1>1, <1>2, <1>3, <1>4, <1>5, <1>6, <1>7, <1>8, <1>9

(* A pointer moves only where the field owner and the handle say so: a slot of the
   lobby is the client's that was stored under it, or a dead one's. *)
LEMMA StepPlaces ==
  ASSUME Inv, Fresh, OnePlace, Places, [Next]_vars
  PROVE  Places'
<1> USE ConstantsAssumption DEF Inv, FieldsOK, Control, Locked, Closed
<1>1. ASSUME Calm PROVE Places'
  BY <1>1 DEF Calm, Places, PendingConsistent
<1>2. ASSUME NEW w \in Workers, StoreClient(w) PROVE Places'
  BY <1>2 DEF StoreClient, Destroy, Owned, Return, OnePlace, Apart, Living, Holding,
     Places, PendingConsistent
<1>3. ASSUME NEW w \in Workers, HandoffFind(w) PROVE Places'
  BY <1>3 DEF HandoffFind, objVars, ioVars, OnePlace, Apart, Living, Holding, Places,
     PendingConsistent
<1>4. ASSUME NEW w \in Workers, HandoffDetach(w) PROVE Places'
  BY <1>4 DEF HandoffDetach, Destroy, Owned, Goto, OnePlace, Apart, Living, Holding,
     Places, PendingConsistent
<1>5. ASSUME NEW w \in Workers, AddClient(w) PROVE Places'
  BY <1>5 DEF AddClient, Destroy, Owned, AfterLogin, OnePlace, Apart, Living, Holding,
     Places, PendingConsistent
<1>6. ASSUME NEW w \in Workers, ReleaseLobby(w) PROVE Places'
  BY <1>6 DEF ReleaseLobby, Destroy, Owned, Return, OnePlace, Apart, Living, Holding,
     Places, PendingConsistent
<1>7. ASSUME NEW w \in Workers, ReleaseRoster(w) PROVE Places'
  BY <1>7 DEF ReleaseRoster, Destroy, Owned, Return, OnePlace, Apart, Living, Holding,
     Places, PendingConsistent
<1>8. ASSUME NEW w \in Workers, Close(w) PROVE Places'
  BY <1>8 DEF Close, Goto, mapVars, MarkDead, Places, PendingConsistent
<1>9. ASSUME NEW w \in Workers, NEW c \in Clients, NEW h \in Handles, HandleClient(w, c, h)
      PROVE  Places'
  <2>1. /\ life[c] = "unborn" /\ ~alive[c] /\ \A v \in Workers : on[v] # c
        /\ owner[c] = "lobby" /\ Closed(c)
    BY <1>9 DEF HandleClient, Fresh, Places
  <2>2. ~Living(c, pendingClients, clients, held)
    BY <2>1 DEF OnePlace
  <2>3. \A d \in Clients : /\ (alive'[d] <=> d = c \/ alive[d])
                           /\ handle'[d] = IF d = c THEN h ELSE handle[d]
                           /\ life'[d] = IF d = c THEN "made" ELSE life[d]
    BY <1>9 DEF HandleClient
  <2>4. /\ UNCHANGED <<owner, pendingClients, clients>> /\ h \in Handles
        /\ \A d \in Clients : handle[d] # h
    BY <1>9 DEF HandleClient, mapVars
  <2>5. \A v \in Workers : /\ pc'[v] = IF v = w THEN "store" ELSE pc[v]
                           /\ on'[v] = IF v = w THEN c ELSE on[v]
                           /\ held'[v] = IF v = w THEN c ELSE held[v]
    BY <1>9 DEF HandleClient
  <2>6. PendingConsistent'
    <3> SUFFICES ASSUME NEW k \in Keys, NEW d \in Clients, pendingClients'[k] = d
                 PROVE  /\ owner'[d] = "lobby"
                        /\ handle'[d] = k \/ (handle'[d] = Invalid /\ ~alive'[d])
      BY DEF PendingConsistent
    <3>1. pendingClients[k] = d /\ d # c
      BY <2>2, <2>4 DEF Living
    <3> QED BY <2>3, <2>4, <3>1 DEF Places, PendingConsistent
  <2>7. ASSUME NEW v \in Workers
        PROVE  /\ pc'[v] \in {"store", "detach"} => owner'[held'[v]] = "lobby"
               /\ pc'[v] \in {"query", "insert", "add"} => owner'[held'[v]] = "roster"
               /\ pc'[v] = "detach" => \/ handle'[held'[v]] = Invalid
                                       \/ pendingClients'[handle'[held'[v]]] = None
               /\ pc'[v] = "release" => ~alive'[on'[v]]
    <3>1. CASE v = w
      BY <2>1, <2>4, <2>5, <3>1
    <3>2. CASE v # w
      <4>1. /\ pc[v] = pc'[v] /\ on[v] = on'[v] /\ held[v] = held'[v]
            /\ held[v] # c /\ on[v] # c
        BY <2>1, <2>2, <2>5, <3>2 DEF Living
      <4>2. /\ pc[v] \in Locked => held[v] \in Clients
            /\ pc[v] = "release" => on[v] \in Clients
        OBVIOUS
      <4> HIDE DEF Inv, FieldsOK, Control
      <4> QED BY <2>3, <2>4, <4>1, <4>2 DEF Places
    <3> QED BY <3>1, <3>2
  <2>9. \A d \in Clients :
          /\ life'[d] = "made" /\ alive'[d] => handle'[d] # Invalid
          /\ life'[d] = "unborn" => owner'[d] = "lobby" /\ handle'[d] = Invalid
    <3> HIDE DEF Inv, FieldsOK, Control
    <3> QED BY <2>3, <2>4 DEF Places
  <2>10. \A d, e \in Clients : handle'[d] = handle'[e] /\ handle'[d] # Invalid => d = e
    <3> SUFFICES ASSUME NEW d \in Clients, NEW e \in Clients,
                        handle'[d] = handle'[e], handle'[d] # Invalid
                 PROVE  d = e
      OBVIOUS
    <3> HIDE DEF Inv, FieldsOK, Control
    <3>0. handle[d] # Invalid /\ handle[d] = handle[e] => d = e
      BY DEF Places
    <3>1. CASE d = c
      BY <2>3, <2>4, <3>1
    <3>2. CASE e = c
      BY <2>3, <2>4, <3>2
    <3>3. CASE d # c /\ e # c
      BY <2>3, <2>4, <3>3, <3>0
    <3> QED BY <3>1, <3>2, <3>3
  <2>11. clients' = clients /\ owner' = owner
    BY <2>4
  <2> QED BY <2>6, <2>7, <2>9, <2>10, <2>11 DEF Places
<1> HIDE DEF Inv
<1> QED
  BY CalmSteps, <1>1, <1>2, <1>3, <1>4, <1>5, <1>6, <1>7, <1>8, <1>9

LEMMA InitPlaces == Init => OnePlace /\ Places
  BY ConstantsAssumption DEF Init, OnePlace, Apart, Living, Holding, Places,
     PendingConsistent, Closed, Locked

\* The strengthened invariant.
Ownership == Inv /\ ReadLoopSingle /\ Fresh /\ OnePlace /\ Places

LEMMA OwnershipHolds == Spec => []Ownership
<1>1. Init => Ownership
  BY InitInv, InitRead, InitPlaces DEF Ownership
<1>2. Ownership /\ [Next]_vars => Ownership'
  BY StepInv, StepRead, StepOnePlace, StepPlaces DEF Ownership
<1> QED BY <1>1, <1>2, PTL DEF Spec

(* Every variable keeps its type, and every unique_ptr of the lobby, of the roster
   and of a handler is null or owns an object that exists: disconnects, handoffs and
   accepts that replace an object, run for one destroyed before or cross another's,
   leave no owner behind. *)
THEOREM TypeCorrect == Spec => []TypeOK
<1>1. ASSUME Ownership PROVE TypeOK
  BY <1>1 DEF Ownership, Inv, FieldsOK, TypeOK, OnePlace, Living
<1> QED BY <1>1, OwnershipHolds, PTL

(* A slot of pendingClients holds a client that was not handed off, under the
   handle it was stored with, or a dead one: handoffClient and clientDisconnected,
   which look the slot up under the handle of now, never take a living stranger. *)
THEOREM LobbyKeepsHandles == Spec => []PendingConsistent
<1>1. Ownership => PendingConsistent
  BY DEF Ownership, Places
<1> QED BY <1>1, OwnershipHolds, PTL

\* What Owners counts.
LEMMA CountAtMostOne ==
  ASSUME NEW S, \A x, y \in S : x = y
  PROVE  Cardinality(S) = IF S = {} THEN 0 ELSE 1
<1>1. CASE S = {}
  BY <1>1, FS_EmptySet
<1>2. CASE S # {}
  <2>1. PICK x : x \in S
    BY <1>2
  <2>2. S = {x}
    BY <2>1
  <2> QED BY <1>2, <2>2, FS_Singleton
<1> QED BY <1>1, <1>2

(* A Client object is in one slot, one seat or one handler's unique_ptr as long as
   it exists, and in none before and after. *)
THEOREM OneOwnerEach == Spec => []SingleOwner
<1>1. ASSUME Ownership PROVE SingleOwner
  <2> SUFFICES ASSUME NEW c \in Clients
               PROVE  Owners(c) = IF life[c] = "made" THEN 1 ELSE 0
    BY DEF SingleOwner
  <2> DEFINE K == {k \in Keys : pendingClients[k] = c}
             P == {p \in Ids : clients[p] = c}
             W == {w \in Workers : held[w] = c}
  <2>1. c # None
    BY ConstantsAssumption
  <2>2. \A x, y \in K : x = y
    BY <1>1, <2>1 DEF Ownership, OnePlace, Apart
  <2>3. \A x, y \in P : x = y
    BY <1>1, <2>1 DEF Ownership, OnePlace, Apart
  <2>4. \A x, y \in W : x = y
    BY <1>1, <2>1 DEF Ownership, OnePlace, Apart
  <2>5. (K = {} \/ P = {}) /\ (K = {} \/ W = {}) /\ (P = {} \/ W = {})
    BY <1>1, <2>1 DEF Ownership, OnePlace, Apart
  <2>6. life[c] = "made" <=> K # {} \/ P # {} \/ W # {}
    BY <1>1 DEF Ownership, OnePlace, Living
  <2>7. Owners(c) = Cardinality(K) + Cardinality(P) + Cardinality(W)
    BY DEF Owners
  <2> HIDE DEF K, P, W
  <2>8. /\ Cardinality(K) = IF K = {} THEN 0 ELSE 1
        /\ Cardinality(P) = IF P = {} THEN 0 ELSE 1
        /\ Cardinality(W) = IF W = {} THEN 0 ELSE 1
    BY <2>2, <2>3, <2>4, CountAtMostOne
  <2> QED BY <2>5, <2>6, <2>7, <2>8
<1> QED BY <1>1, OwnershipHolds, PTL

(* handleClient and handoffClient, which overwrite slots of the lobby, and
   clientDisconnected, which erases one, destroy no lobby client that is alive. *)
THEOREM LoginSparesTheLiving == Spec => LoginDestroysOnlyDead
<1> DEFINE Dead == \A c \in Clients :
              life[c] = "made" /\ life'[c] = "deleted" /\ owner[c] = "lobby" => ~alive[c]
<1>1. ASSUME Ownership, [Next]_vars PROVE Dead
  <2> SUFFICES ASSUME NEW d \in Clients,
                      life[d] = "made", life'[d] = "deleted", owner[d] = "lobby", alive[d]
               PROVE  FALSE
    OBVIOUS
  <2> USE <1>1, ConstantsAssumption DEF Ownership, Inv, FieldsOK, Control, Locked
  <2>1. ~Closed(d) /\ \A k \in Keys : pendingClients[k] = d => handle[d] = k
    BY DEF Places, PendingConsistent
  <2>2. \A e \in Clients : handle[e] = handle[d] => e = d
    BY <2>1 DEF Places
  <2>3. \A p \in Ids : clients[p] # d
    BY DEF Places
  <2>4. CASE Calm
    BY <2>4 DEF Calm
  <2>5. ASSUME NEW w \in Workers, NEW c \in Clients, NEW h \in Handles, HandleClient(w, c, h)
        PROVE  FALSE
    BY <2>5 DEF HandleClient
  <2>6. ASSUME NEW w \in Workers, StoreClient(w) PROVE FALSE
    <3>1. on[w] \in Clients /\ held[w] = on[w] /\ pendingClients[handle[on[w]]] = d
      BY <2>6 DEF StoreClient, Destroy, Owned, OnePlace, Holding
    <3>2. on[w] = d
      BY <3>1, <2>1, <2>2
    <3> QED BY <3>1, <3>2 DEF OnePlace, Apart
  <2>7. ASSUME NEW w \in Workers, HandoffFind(w) \/ Close(w) PROVE FALSE
    BY <2>7 DEF HandoffFind, Close, objVars
  <2>8. ASSUME NEW w \in Workers, HandoffDetach(w) PROVE FALSE
    <3>1. /\ held[w] \in Clients /\ pendingClients[handle[held[w]]] = d
          /\ Closed(held[w]) \/ pendingClients[handle[held[w]]] = None
      BY <2>8 DEF HandoffDetach, Destroy, Owned, Places
    <3> QED BY <3>1, <2>1 DEF Closed
  <2>9. ASSUME NEW w \in Workers, AddClient(w) \/ ReleaseRoster(w) PROVE FALSE
    <3>1. \E p \in Ids : clients[p] = d
      BY <2>9 DEF AddClient, ReleaseRoster, Destroy, Owned
    <3> QED BY <3>1, <2>3
  <2>10. ASSUME NEW w \in Workers, ReleaseLobby(w) PROVE FALSE
    <3>1. on[w] \in Clients /\ pendingClients[handle[on[w]]] = d /\ ~alive[on[w]]
      BY <2>10 DEF ReleaseLobby, Destroy, Owned, Places
    <3> QED BY <3>1, <2>1, <2>2
  <2> HIDE DEF Ownership, Inv
  <2> QED
    BY CalmSteps, <2>4, <2>5, <2>6, <2>7, <2>8, <2>9, <2>10 DEF Ownership
<1>2. Ownership /\ [Next]_vars => [Dead]_vars
  BY <1>1
<1> QED BY <1>2, OwnershipHolds, PTL DEF Spec, LoginDestroysOnlyDead

-----------------------------------------------------------------------------
(* The refinement of Roster. *)

\* What Stage says of an object that is in one place.
LEMMA StageIs ==
  ASSUME Inv, OnePlace, NEW c \in Clients
  PROVE  /\ life[c] = "unborn" => Stage(c) = "outside"
         /\ life[c] = "deleted" => Stage(c) = "gone"
         /\ \A w \in Workers :
              held[w] = c => Stage(c) = IF pc[w] \in Locked THEN "moving" ELSE "lobby"
         /\ \A k \in Keys : pendingClients[k] = c => Stage(c) = "lobby"
         /\ \A p \in Ids : clients[p] = c => Stage(c) = "roster"
         /\ life[c] \in {"unborn", "made", "deleted"}
<1> USE ConstantsAssumption DEF Inv, FieldsOK
<1>1. life[c] = "made" <=> Living(c, pendingClients, clients, held)
  BY DEF OnePlace
<1>2. \A w \in Workers : held[w] = c => Stage(c) = IF pc[w] \in Locked THEN "moving" ELSE "lobby"
  BY <1>1 DEF Living, Stage, Moving, OnePlace, Apart, Locked
<1>3. \A k \in Keys : pendingClients[k] = c => Stage(c) = "lobby"
  BY <1>1 DEF Living, Stage, Moving, OnePlace, Apart, Locked
<1>4. \A p \in Ids : clients[p] = c => Stage(c) = "roster"
  BY <1>1 DEF Living, Stage, Moving, OnePlace, Apart, Locked
<1> QED BY <1>2, <1>3, <1>4 DEF Stage

\* An object that keeps its place keeps its stage.
LEMMA StageStays ==
  ASSUME Inv, OnePlace, NEW c \in Clients, life'[c] = life[c],
         \A p \in Ids : clients'[p] = c <=> clients[p] = c,
         \A w \in Workers : held'[w] = c /\ pc'[w] \in Locked <=> held[w] = c /\ pc[w] \in Locked
  PROVE  Stage(c)' = Stage(c)
BY DEF Stage, Moving, Locked

\* At most one object goes from the lobby, and is destroyed.
LEMMA DropStep ==
  ASSUME NEW x \in Clients \cup {None}, ConstantsAssumption, clients' = clients,
         \A d \in Clients : d # x => Stage(d)' = Stage(d),
         x \in Clients => Stage(x) = "lobby" /\ Stage(x)' = "gone"
  PROVE  [\E c \in Clients : R!Drop(c)]_(R!vars)
<1>1. CASE x \in Clients
  <2>1. R!Drop(x)
    BY <1>1 DEF R!Drop, R!Move
  <2> QED BY <1>1, <2>1
<1>2. CASE x \notin Clients
  <2>1. \A d \in Clients : Stage(d)' = Stage(d)
    BY <1>2
  <2> QED BY <2>1 DEF R!vars
<1> QED BY <1>1, <1>2

\* Every step of the gateway is a step of Roster or leaves its variables alone.
LEMMA StepImplements ==
  ASSUME Inv, Fresh, OnePlace, Places, [Next]_vars
  PROVE  [R!Next]_(R!vars)
<1> USE ConstantsAssumption DEF Inv, FieldsOK, Control
<1>1. CASE Calm
  <2>1. \A c \in Clients : Stage(c)' = Stage(c)
    BY <1>1, StageStays DEF Calm
  <2> QED BY <1>1, <2>1 DEF Calm, R!vars
<1>2. ASSUME NEW w \in Workers, NEW c \in Clients, NEW h \in Handles, HandleClient(w, c, h)
      PROVE  R!Arrive(c)
  <2>1. life[c] = "unborn" /\ held[w] = None /\ pc[w] = "idle" /\ clients' = clients
    BY <1>2 DEF HandleClient, mapVars, OnePlace, Holding, Locked
  <2>2. \A v \in Workers : /\ held'[v] = IF v = w THEN c ELSE held[v]
                           /\ pc'[v] = IF v = w THEN "store" ELSE pc[v]
    BY <1>2 DEF HandleClient
  <2>3. \A d \in Clients : life'[d] = IF d = c THEN "made" ELSE life[d]
    BY <1>2 DEF HandleClient
  <2>4. ~Living(c, pendingClients, clients, held)
    BY <2>1 DEF OnePlace
  <2>5. Stage(c) = "outside"
    BY <2>1 DEF Stage
  <2>6. Stage(c)' = "lobby"
    BY <2>1, <2>2, <2>3, <2>4 DEF Stage, Moving, Locked, Living
  <2>7. \A d \in Clients : d # c => Stage(d)' = Stage(d)
    BY <2>1, <2>2, <2>3 DEF Stage, Moving, Locked
  <2> HIDE DEF Inv, FieldsOK, Control
  <2> QED BY <2>1, <2>5, <2>6, <2>7 DEF R!Arrive, R!Move
<1>3. ASSUME NEW w \in Workers, StoreClient(w)
      PROVE  [\E c \in Clients : R!Drop(c)]_(R!vars)
  <2>0. PICK x : x = pendingClients[handle[on[w]]]
    OBVIOUS
  <2>1. /\ held[w] = on[w] /\ pc[w] = "store" /\ on[w] \in Clients /\ x \in Clients \cup {None}
        /\ clients' = clients
    BY <1>3, <2>0 DEF StoreClient, OnePlace, Holding
  <2>2. \A v \in Workers : /\ held'[v] = IF v = w THEN None ELSE held[v]
                           /\ pc'[v] = IF v = w THEN "idle" ELSE pc[v]
    BY <1>3 DEF StoreClient, Return
  <2>3. \A d \in Clients : life'[d] = IF d = x THEN "deleted" ELSE life[d]
    BY <1>3, <2>0 DEF StoreClient, Destroy, Owned
  <2>4. \A d \in Clients : d # x => Stage(d)' = Stage(d)
    BY <2>1, <2>2, <2>3 DEF Stage, Moving, Locked
  <2>5. ASSUME x \in Clients PROVE Stage(x) = "lobby"
    BY <2>0, <2>1, <2>5, StageIs
  <2>6. ASSUME x \in Clients PROVE Stage(x)' = "gone"
    BY <2>3, <2>6 DEF Stage
  <2> QED BY <2>1, <2>4, <2>5, <2>6, DropStep, Zenon
<1>4. ASSUME NEW w \in Workers, HandoffFind(w)
      PROVE  \E c \in Clients : R!TakeOut(c)
  <2>1. PICK x \in Clients : x = pendingClients[handle[on[w]]]
    BY <1>4 DEF HandoffFind
  <2>2. UNCHANGED <<life, clients>> /\ held[w] = None
    BY <1>4 DEF HandoffFind, objVars, OnePlace, Holding, Locked
  <2>3. \A v \in Workers : /\ held'[v] = IF v = w THEN x ELSE held[v]
                           /\ pc'[v] = IF v = w THEN "detach" ELSE pc[v]
    BY <1>4, <2>1 DEF HandoffFind
  <2>4. \A d \in Clients : d # x => Stage(d)' = Stage(d)
    BY <2>2, <2>3 DEF Stage, Moving, Locked
  <2>5. Stage(x) = "lobby" /\ on[w] \in Clients /\ life[x] = "made"
    BY <1>4, <2>1, StageIs DEF HandoffFind, OnePlace, Living
  <2>6. Stage(x)' = "moving"
    BY <2>2, <2>3, <2>5 DEF Stage, Moving, Locked
  <2>7. R!TakeOut(x)
    <3> HIDE DEF Inv, FieldsOK, Control
    <3> QED BY <2>2, <2>4, <2>5, <2>6 DEF R!TakeOut, R!Move
  <2> QED BY <2>7
<1>5. ASSUME NEW w \in Workers, HandoffDetach(w)
      PROVE  [\E c \in Clients : R!Drop(c)]_(R!vars)
  <2>1. PICK x : x = pendingClients[handle[held[w]]]
    OBVIOUS
  <2>2. /\ pc[w] = "detach" /\ held[w] \in Clients /\ x \in Clients \cup {None}
        /\ clients' = clients /\ held' = held
    BY <1>5, <2>1 DEF HandoffDetach, Goto, Locked
  <2>3. \A v \in Workers : pc'[v] = IF v = w THEN "query" ELSE pc[v]
    BY <1>5 DEF HandoffDetach, Goto
  <2>4. \A d \in Clients : life'[d] = IF d = x THEN "deleted" ELSE life[d]
    BY <1>5, <2>1 DEF HandoffDetach, Destroy, Owned
  <2>5. \A d \in Clients : d # x => Stage(d)' = Stage(d)
    BY <2>2, <2>3, <2>4 DEF Stage, Moving, Locked
  <2>6. ASSUME x \in Clients PROVE Stage(x) = "lobby"
    BY <2>1, <2>2, <2>6, StageIs
  <2>7. ASSUME x \in Clients PROVE Stage(x)' = "gone"
    BY <2>4, <2>7 DEF Stage
  <2> QED BY <2>2, <2>5, <2>6, <2>7, DropStep, Zenon
<1>6. ASSUME NEW w \in Workers, AddClient(w)
      PROVE  \E c \in Clients, p \in Ids : R!Sit(c, p)
  <2>1. PICK c \in Clients, p \in Ids : c = held[w] /\ p = userid[held[w]]
    BY <1>6 DEF AddClient, Locked
  <2>2. PICK x : x = clients[p]
    OBVIOUS
  <2>3. pc[w] = "add" /\ clients' = [clients EXCEPT ![p] = c]
    BY <1>6, <2>1 DEF AddClient
  <2>4. \A v \in Workers : /\ held'[v] = IF v = w THEN None ELSE held[v]
                           /\ v # w => pc'[v] = pc[v]
    BY <1>6 DEF AddClient, AfterLogin
  <2>5. \A d \in Clients : life'[d] = IF d = x THEN "deleted" ELSE life[d]
    BY <1>6, <2>1, <2>2 DEF AddClient, Destroy, Owned
  <2>6. Stage(c) = "moving" /\ c # x /\ life[c] = "made"
    <3>1. Stage(c) = "moving"
      BY <2>1, <2>3, StageIs DEF Locked
    <3>2. c # x
      BY <2>1, <2>2 DEF OnePlace, Apart
    <3>3. life[c] = "made"
      BY <2>1 DEF OnePlace, Living
    <3> QED BY <3>1, <3>2, <3>3
  <2>7. ASSUME NEW v \in Workers PROVE held'[v] # c
    <3>1. v # w => held[v] # c
      BY <2>1 DEF OnePlace, Apart
    <3> QED BY <2>1, <2>4, <3>1
  <2>8. Stage(c)' = "roster"
    BY <2>3, <2>5, <2>6, <2>7 DEF Stage, Moving, Locked
  <2>9. ASSUME NEW d \in Clients, d # c
        PROVE  Stage(d)' = IF d = x THEN "gone" ELSE Stage(d)
    <3>1. CASE d = x
      BY <2>5, <3>1 DEF Stage
    <3>2. CASE d # x
      <4>1. \A q \in Ids : clients'[q] = d <=> clients[q] = d
        BY <2>2, <2>3, <2>9, <3>2
      <4>2. Moving(d)' <=> Moving(d)
        BY <2>1, <2>4, <2>9 DEF Moving
      <4>3. life'[d] = life[d]
        BY <2>5, <3>2
      <4> HIDE DEF Inv, FieldsOK, Control
      <4> QED BY <3>2, <4>1, <4>2, <4>3 DEF Stage
    <3> QED BY <3>1, <3>2
  <2>10. [d \in Clients |-> Stage(d)]'
           = [d \in Clients |-> IF d = c THEN "roster"
                                ELSE IF d = clients[p] THEN "gone" ELSE Stage(d)]
    BY <2>2, <2>8, <2>9
  <2>11. R!Sit(c, p)
    <3> HIDE DEF Inv, FieldsOK, Control
    <3> QED BY <2>3, <2>6, <2>10 DEF R!Sit
  <2> QED BY <2>11
<1>7. ASSUME NEW w \in Workers, Close(w) PROVE UNCHANGED R!vars
  <2>1. /\ UNCHANGED <<life, clients, held>>
        /\ \A v \in Workers : pc'[v] = IF v = w THEN "release" ELSE pc[v]
    BY <1>7 DEF Close, Goto, mapVars
  <2>2. pc[w] = "close"
    BY <1>7 DEF Close
  <2>3. \A d \in Clients : Stage(d)' = Stage(d)
    BY <2>1, <2>2 DEF Stage, Moving, Locked
  <2> QED BY <2>1, <2>3 DEF R!vars
<1>8. ASSUME NEW w \in Workers, ReleaseLobby(w)
      PROVE  [\E c \in Clients : R!Drop(c)]_(R!vars)
  <2>1. PICK x : x = IF NoEndpoint(on[w]) THEN None ELSE pendingClients[handle[on[w]]]
    OBVIOUS
  <2>2. /\ pc[w] = "release" /\ on[w] \in Clients /\ x \in Clients \cup {None}
        /\ clients' = clients
    BY <1>8, <2>1 DEF ReleaseLobby
  <2>3. \A v \in Workers : /\ held'[v] = IF v = w THEN None ELSE held[v]
                           /\ pc'[v] = IF v = w THEN "idle" ELSE pc[v]
    BY <1>8 DEF ReleaseLobby, Return
  <2>4. \A d \in Clients : life'[d] = IF d = x THEN "deleted" ELSE life[d]
    BY <1>8, <2>1 DEF ReleaseLobby, Destroy, Owned
  <2>5. \A d \in Clients : d # x => Stage(d)' = Stage(d)
    BY <2>2, <2>3, <2>4 DEF Stage, Moving, Locked
  <2>6. ASSUME x \in Clients PROVE Stage(x) = "lobby"
    BY <2>1, <2>2, <2>6, StageIs
  <2>7. ASSUME x \in Clients PROVE Stage(x)' = "gone"
    BY <2>4, <2>7 DEF Stage
  <2> QED BY <2>2, <2>5, <2>6, <2>7, DropStep, Zenon
<1>9. ASSUME NEW w \in Workers, ReleaseRoster(w)
      PROVE  [\E p \in Ids : R!Vacate(p)]_(R!vars)
  <2>1. PICK p \in Ids : p = userid[on[w]]
    BY <1>9 DEF ReleaseRoster
  <2>2. PICK x \in Clients \cup {None} : x = clients[p]
    OBVIOUS
  <2>3. pc[w] = "release" /\ clients' = [clients EXCEPT ![p] = None]
    BY <1>9, <2>1 DEF ReleaseRoster
  <2>4. \A v \in Workers : /\ held'[v] = IF v = w THEN None ELSE held[v]
                           /\ pc'[v] = IF v = w THEN "idle" ELSE pc[v]
    BY <1>9 DEF ReleaseRoster, Return
  <2>5. \A d \in Clients : life'[d] = IF d = x THEN "deleted" ELSE life[d]
    BY <1>9, <2>1, <2>2 DEF ReleaseRoster, Destroy, Owned
  <2>6. \A d \in Clients : d # x => \A q \in Ids : clients'[q] = d <=> clients[q] = d
    BY <2>2, <2>3
  <2>7. \A d \in Clients : d # x => Stage(d)' = Stage(d)
    BY <2>3, <2>4, <2>5, <2>6 DEF Stage, Moving, Locked
  <2>8. CASE x = None
    <3>1. clients' = clients
      <4>1. /\ clients \in [Ids -> Clients \cup {None}]
            /\ clients' \in [Ids -> Clients \cup {None}]
        BY <2>3
      <4> HIDE DEF Inv, FieldsOK, Control
      <4>2. clients[p] = None
        BY <2>2, <2>8
      <4>3. \A q \in Ids : clients'[q] = clients[q]
        BY <2>3, <4>1, <4>2
      <4> QED BY <4>1, <4>3
    <3>2. \A d \in Clients : Stage(d)' = Stage(d)
      BY <2>7, <2>8
    <3> QED BY <3>1, <3>2 DEF R!vars
  <2>9. CASE x \in Clients
    <3>1. Stage(x)' = "gone"
      BY <2>5, <2>9 DEF Stage
    <3>2. R!Vacate(p)
      <4> HIDE DEF Inv, FieldsOK, Control
      <4> QED BY <2>2, <2>3, <2>7, <2>9, <3>1 DEF R!Vacate
    <3> QED BY <3>2
  <2> QED BY <2>8, <2>9
<1>10. [R!Next]_(R!vars)
  <2> HIDE DEF Inv
  <2> QED
    BY CalmSteps, <1>1, <1>2, <1>3, <1>4, <1>5, <1>6, <1>7, <1>8, <1>9 DEF R!Next
<1> QED BY <1>10

(* However the handlers interleave, and although they run on for deleted objects,
   the lobby and the roster own and destroy a Client as Roster promises. *)
THEOREM GatewayImplementsRoster == Spec => ImplementsRoster
<1>1. Init => R!Init
  BY DEF Init, R!Init, Stage
<1>2. Ownership /\ [Next]_vars => [R!Next]_(R!vars)
  BY StepImplements DEF Ownership
<1> QED BY <1>1, <1>2, OwnershipHolds, PTL DEF Spec, ImplementsRoster, R!Spec

-----------------------------------------------------------------------------
(* The keep-alive timer. *)

\* The steps of a handler that will set the timer or has taken its wait.
Tending == {"login", "beat", "close"}

Waits(c) == armed[c] + fired[c] + aborted[c]

\* Watched, with the handlers that are still to set the timer of a connection,
\* and nobody logged in before the connection is made.
Tended ==
  \A c \in Clients :
    /\ life[c] = "unborn" => userid[c] = Nobody
    /\ life[c] = "made" /\ alive[c] /\ userid[c] # Nobody =>
         \/ Waits(c) > 0 \/ "timeout" \in cancelled[c]
         \/ \E w \in Workers : on[w] = c /\ pc[w] \in Tending

\* Handlers of a connection that leave its login and its timer as they are, and
\* those that end elsewhere, destroying objects.
LEMMA StillTended ==
  ASSUME Inv, Tended,
         \A c \in Clients :
           /\ life'[c] \in {life[c], "deleted"}
           /\ userid'[c] = userid[c] /\ (alive'[c] => alive[c])
           /\ Waits(c)' = Waits(c) /\ cancelled[c] \subseteq cancelled'[c],
         \A w \in Workers :
           pc[w] \in Tending => pc'[w] = pc[w] /\ on'[w] = on[w]
  PROVE  Tended'
<1> SUFFICES ASSUME NEW c \in Clients
             PROVE  /\ life'[c] = "unborn" => userid'[c] = Nobody
                    /\ life'[c] = "made" /\ alive'[c] /\ userid'[c] # Nobody =>
                         \/ Waits(c)' > 0 \/ "timeout" \in cancelled'[c]
                         \/ \E w \in Workers : on'[w] = c /\ pc'[w] \in Tending
  BY DEF Tended
<1> QED BY DEF Tended

LEMMA InitTended == Init => Tended
  BY DEF Init, Tended

\* onPlayerLogin sets the timer, and each wait is renewed, ends in disconnect or
\* in the timeout.
LEMMA StepTended ==
  ASSUME Inv, Fresh, OnePlace, Places, Tended, [Next]_vars
  PROVE  Tended'
<1> USE ConstantsAssumption DEF Inv, FieldsOK, Control, Tending
<1>1. ASSUME NEW w \in Workers,
             IgnoreMessage(w) \/ ParserThrows(w) \/ StatusRequest(w)
             \/ EncryptionResponse(w)
             \/ StatusPing(w) \/ \E next \in ClientState : Handshake(w, next)
      PROVE  Tended'
  <2>1. pc[w] = "message" /\ ((\E step : Goto(w, step)) \/ Return(w))
    BY <1>1 DEF IgnoreMessage, ParserThrows, StatusRequest, EncryptionResponse,
       StatusPing,
       Handshake, AuthWithMojang, Disconnect
  <2>2. UNCHANGED <<life, userid, alive, timerVars>>
    BY <1>1 DEF IgnoreMessage, ParserThrows, StatusRequest, EncryptionResponse,
       StatusPing,
       Handshake, objVars
  <2>3. \A c \in Clients : cancelled[c] \subseteq cancelled'[c]
    BY <1>1 DEF IgnoreMessage, ParserThrows, StatusRequest, EncryptionResponse,
       StatusPing,
       Handshake
  <2> QED BY <2>1, <2>2, <2>3, StillTended DEF Goto, Return, Waits, timerVars
<1>2. ASSUME NEW w \in Workers, LoginStart(w) PROVE Tended'
  <2>1. CASE Goto(w, "login")
    <3>1. UNCHANGED <<life, alive, timerVars, cancelled>> /\ pc[w] = "message"
      BY <1>2 DEF LoginStart
    <3>2. \A c \in Clients : c # on[w] => userid'[c] = userid[c]
      BY <1>2 DEF LoginStart
    <3>3. on'[w] = on[w] /\ pc'[w] = "login" /\ life[on[w]] # "unborn"
      BY <1>2, <2>1 DEF LoginStart, Goto, Fresh
    <3>4. \A v \in Workers : pc[v] \in Tending => pc'[v] = pc[v] /\ on'[v] = on[v]
      BY <2>1, <3>1 DEF Goto
    <3> SUFFICES ASSUME NEW c \in Clients
                 PROVE  /\ life'[c] = "unborn" => userid'[c] = Nobody
                        /\ life'[c] = "made" /\ alive'[c] /\ userid'[c] # Nobody =>
                             \/ Waits(c)' > 0 \/ "timeout" \in cancelled'[c]
                             \/ \E v \in Workers : on'[v] = c /\ pc'[v] \in Tending
      BY DEF Tended
    <3>5. CASE c = on[w]
      BY <3>1, <3>3, <3>5
    <3>6. CASE c # on[w]
      BY <3>1, <3>2, <3>4, <3>6 DEF Tended, Waits, timerVars
    <3> QED BY <3>5, <3>6
  <2>2. CASE ~Goto(w, "login")
    <3>1. pc[w] = "message" /\ ((\E step : Goto(w, step)) \/ Return(w))
      BY <1>2 DEF LoginStart, Disconnect
    <3>2. UNCHANGED <<life, userid, alive, timerVars, cancelled>>
      BY <1>2, <2>2 DEF LoginStart
    <3> QED BY <3>1, <3>2, StillTended DEF Goto, Return, Waits, timerVars
  <2> QED BY <2>1, <2>2
<1>3. ASSUME NEW w \in Workers,
             StartAsyncRead(w) \/ HandoffNothing(w) \/ HandoffFind(w)
             \/ QueryPlayer(w) \/ InsertPlayer(w)
      PROVE  Tended'
  <2>1. pc[w] \in {"rearm", "handoff", "query", "insert"}
    BY <1>3 DEF StartAsyncRead, HandoffNothing, HandoffFind, QueryPlayer, InsertPlayer
  <2>2. \A v \in Workers : v # w => pc'[v] = pc[v] /\ on'[v] = on[v]
    BY <1>3 DEF StartAsyncRead, HandoffNothing, HandoffFind, QueryPlayer, InsertPlayer,
       Return,
       AfterLogin, Goto
  <2>3. UNCHANGED <<life, userid, alive, timerVars, cancelled>>
    BY <1>3 DEF StartAsyncRead, HandoffNothing, HandoffFind, QueryPlayer, InsertPlayer,
       objVars
  <2> QED BY <2>1, <2>2, <2>3, StillTended DEF Waits, timerVars
<1>4. ASSUME NEW w \in Workers,
             StoreClient(w) \/ HandoffDetach(w) \/ AddClient(w) \/ ReleaseLobby(w)
             \/ ReleaseRoster(w)
      PROVE  Tended'
  <2>1. pc[w] \in {"store", "detach", "add", "release"}
    BY <1>4 DEF StoreClient, HandoffDetach, AddClient, ReleaseLobby, ReleaseRoster
  <2>2. \A v \in Workers : v # w => pc'[v] = pc[v] /\ on'[v] = on[v]
    BY <1>4 DEF StoreClient, HandoffDetach, AddClient, ReleaseLobby, ReleaseRoster,
       Return,
       AfterLogin, Goto
  <2>3. UNCHANGED <<userid, alive, cancelled>>
    BY <1>4 DEF StoreClient, HandoffDetach, AddClient, ReleaseLobby, ReleaseRoster
  <2>4. \E D, writes : Destroy(D, writes)
    BY <1>4, Zenon DEF StoreClient, HandoffDetach, AddClient, ReleaseLobby, ReleaseRoster
  <2>5. \A c \in Clients : life'[c] \in {life[c], "deleted"} /\ Waits(c)' = Waits(c)
    <3>1. PICK D, writes : Destroy(D, writes)
      BY <2>4
    <3> QED BY <3>1 DEF Destroy, CancelWaits, Waits
  <2> QED BY <2>1, <2>2, <2>3, <2>5, StillTended
<1>5. ASSUME NEW w \in Workers, OnPlayerLogin(w) PROVE Tended'
  <2>1. /\ on[w] \in Clients /\ UNCHANGED <<life, alive, userid, fired, aborted, cancelled>>
        /\ armed' = [armed EXCEPT ![on[w]] = @ + 1]
    BY <1>5 DEF OnPlayerLogin
  <2>2. \A v \in Workers : v # w => pc'[v] = pc[v] /\ on'[v] = on[v]
    BY <1>5 DEF OnPlayerLogin, AskHandoff, Goto, AfterLogin
  <2> SUFFICES ASSUME NEW c \in Clients
               PROVE  /\ life'[c] = "unborn" => userid'[c] = Nobody
                      /\ life'[c] = "made" /\ alive'[c] /\ userid'[c] # Nobody =>
                           \/ Waits(c)' > 0 \/ "timeout" \in cancelled'[c]
                           \/ \E v \in Workers : on'[v] = c /\ pc'[v] \in Tending
    BY DEF Tended
  <2>3. CASE c = on[w]
    BY <2>1, <2>3 DEF Tended, Waits
  <2>4. CASE c # on[w]
    BY <2>1, <2>2, <2>4 DEF Tended, Waits
  <2> QED BY <2>3, <2>4
<1>6. ASSUME NEW w \in Workers, Close(w) PROVE Tended'
  <2>1. /\ on[w] \in Clients /\ UNCHANGED <<life, userid, cancelled>>
        /\ alive' = [alive EXCEPT ![on[w]] = FALSE]
    BY <1>6 DEF Close, MarkDead
  <2>2. \A v \in Workers : v # w => pc'[v] = pc[v] /\ on'[v] = on[v]
    BY <1>6 DEF Close, Goto
  <2>3. \A c \in Clients : Waits(c)' = Waits(c)
    BY <1>6 DEF Close, CancelWaits, Waits
  <2> SUFFICES ASSUME NEW c \in Clients
               PROVE  /\ life'[c] = "unborn" => userid'[c] = Nobody
                      /\ life'[c] = "made" /\ alive'[c] /\ userid'[c] # Nobody =>
                           \/ Waits(c)' > 0 \/ "timeout" \in cancelled'[c]
                           \/ \E v \in Workers : on'[v] = c /\ pc'[v] \in Tending
    BY DEF Tended
  <2>4. CASE c = on[w]
    BY <2>1, <2>4 DEF Tended
  <2>5. CASE c # on[w]
    BY <2>1, <2>2, <2>3, <2>5 DEF Tended
  <2> QED BY <2>4, <2>5
<1>7. ASSUME NEW w \in Workers, ResetTimer(w) PROVE Tended'
  <2>1. /\ on[w] \in Clients /\ UNCHANGED <<life, alive, userid, fired, cancelled>>
        /\ armed' = [armed EXCEPT ![on[w]] = 1]
        /\ aborted' = [aborted EXCEPT ![on[w]] = @ + armed[on[w]]]
    BY <1>7 DEF ResetTimer, Renew, objVars
  <2>2. \A v \in Workers : v # w => pc'[v] = pc[v] /\ on'[v] = on[v]
    BY <1>7 DEF ResetTimer, Return
  <2> SUFFICES ASSUME NEW c \in Clients
               PROVE  /\ life'[c] = "unborn" => userid'[c] = Nobody
                      /\ life'[c] = "made" /\ alive'[c] /\ userid'[c] # Nobody =>
                           \/ Waits(c)' > 0 \/ "timeout" \in cancelled'[c]
                           \/ \E v \in Workers : on'[v] = c /\ pc'[v] \in Tending
    BY DEF Tended
  <2>3. CASE c = on[w]
    BY <2>1, <2>3 DEF Tended, Waits
  <2>4. CASE c # on[w]
    BY <2>1, <2>2, <2>4 DEF Tended, Waits
  <2> QED BY <2>3, <2>4
<1>8. ASSUME NEW w \in Workers, NEW c \in Clients, NEW h \in Handles, HandleClient(w, c, h)
      PROVE  Tended'
  <2>1. /\ life[c] = "unborn" /\ pc[w] = "idle" /\ UNCHANGED <<userid, timerVars, cancelled>>
        /\ life' = [life EXCEPT ![c] = "made"] /\ alive' = [alive EXCEPT ![c] = TRUE]
    BY <1>8 DEF HandleClient
  <2>2. \A v \in Workers : v # w => pc'[v] = pc[v] /\ on'[v] = on[v]
    BY <1>8 DEF HandleClient
  <2> SUFFICES ASSUME NEW d \in Clients
               PROVE  /\ life'[d] = "unborn" => userid'[d] = Nobody
                      /\ life'[d] = "made" /\ alive'[d] /\ userid'[d] # Nobody =>
                           \/ Waits(d)' > 0 \/ "timeout" \in cancelled'[d]
                           \/ \E v \in Workers : on'[v] = d /\ pc'[v] \in Tending
    BY DEF Tended
  <2>3. CASE d = c
    BY <2>1, <2>3 DEF Tended
  <2>4. CASE d # c
    <3>1. /\ life'[d] = life[d] /\ (alive'[d] <=> alive[d]) /\ Waits(d)' = Waits(d)
          /\ userid' = userid /\ cancelled' = cancelled
      BY <2>1, <2>4 DEF Waits, timerVars
    <3>2. \A v \in Workers : pc[v] \in Tending => pc'[v] \in Tending /\ on'[v] = on[v]
      BY <2>1, <2>2
    <3> HIDE DEF Inv, FieldsOK, Control, Tending
    <3> QED BY <3>1, <3>2 DEF Tended
  <2> QED BY <2>3, <2>4
<1>9. ASSUME NEW w \in Workers, NEW c \in Clients,
             OnLengthReceive(w, c) \/ OnWriteComplete(w, c) \/ AuthDropped(w, c)
             \/ ReadHTTPHeader(w, c) \/ AuthRefused(w, c)
      PROVE  Tended'
  <2>1. pc[w] = "idle" /\ ((\E kind, step : Take(w, c, kind, step)) \/ UNCHANGED workerVars)
    BY <1>9, Zenon DEF OnLengthReceive, OnWriteComplete, AuthDropped, ReadHTTPHeader,
       AuthRefused,
       Begin
  <2>2. UNCHANGED <<life, userid, alive, timerVars>>
    BY <1>9 DEF OnLengthReceive, OnWriteComplete, AuthDropped, ReadHTTPHeader,
       AuthRefused,
       objVars
  <2>3. \A d \in Clients : cancelled[d] \subseteq cancelled'[d]
    <3>1. CASE AuthRefused(w, c)
      BY <3>1 DEF AuthRefused
    <3>2. CASE ~AuthRefused(w, c)
      BY <1>9, <3>2 DEF OnLengthReceive, OnWriteComplete, AuthDropped, ReadHTTPHeader
    <3> QED BY <3>1, <3>2
  <2>4. \A v \in Workers : v # w => pc'[v] = pc[v] /\ on'[v] = on[v]
    BY <2>1 DEF Take, workerVars
  <2> QED BY <2>1, <2>2, <2>3, <2>4, StillTended DEF Waits, timerVars
<1>10. ASSUME NEW w \in Workers, NEW c \in Clients, HasJoined(w, c) PROVE Tended'
  <2>1. /\ UNCHANGED <<life, alive, timerVars, cancelled>> /\ pc[w] = "idle" /\ joining[c] > 0
        /\ \A d \in Clients : d # c => userid'[d] = userid[d]
    BY <1>10 DEF HasJoined
  <2>2. /\ on'[w] = c /\ pc'[w] = "login" /\ life[c] # "unborn"
        /\ \A v \in Workers : v # w => pc'[v] = pc[v] /\ on'[v] = on[v]
    BY <1>10, <2>1 DEF HasJoined, Take, Fresh
  <2> SUFFICES ASSUME NEW d \in Clients
               PROVE  /\ life'[d] = "unborn" => userid'[d] = Nobody
                      /\ life'[d] = "made" /\ alive'[d] /\ userid'[d] # Nobody =>
                           \/ Waits(d)' > 0 \/ "timeout" \in cancelled'[d]
                           \/ \E v \in Workers : on'[v] = d /\ pc'[v] \in Tending
    BY DEF Tended
  <2>3. CASE d = c
    BY <2>1, <2>2, <2>3
  <2>4. CASE d # c
    BY <2>1, <2>2, <2>4 DEF Tended, Waits, timerVars
  <2> QED BY <2>3, <2>4
<1>11. ASSUME NEW w \in Workers, NEW c \in Clients, Timer(w, c) PROVE Tended'
  <2>1. /\ pc[w] = "idle" /\ UNCHANGED <<life, alive, userid>>
        /\ (\E kind, step : Take(w, c, kind, step)) \/ UNCHANGED workerVars
    BY <1>11, Zenon DEF Timer, KeepAliveAborted, KeepAliveTimeout, KeepAlive, Begin,
       objVars
  <2>2. \A v \in Workers : v # w => pc'[v] = pc[v] /\ on'[v] = on[v]
    BY <2>1 DEF Take, workerVars
  <2>6. ASSUME NEW d \in Clients, d # c PROVE Waits(d)' = Waits(d)
    <3>1. CASE KeepAliveAborted(w, c)
      BY <3>1, <2>6 DEF KeepAliveAborted, Waits
    <3>2. CASE KeepAliveTimeout(w, c)
      BY <3>2, <2>6 DEF KeepAliveTimeout, Waits
    <3>3. CASE KeepAlive(w, c)
      BY <3>3, <2>6 DEF KeepAlive, Waits
    <3> QED BY <1>11, <3>1, <3>2, <3>3 DEF Timer
  <2>7. ASSUME NEW d \in Clients PROVE cancelled[d] \subseteq cancelled'[d]
    <3>1. CASE KeepAliveTimeout(w, c)
      BY <3>1 DEF KeepAliveTimeout
    <3>2. CASE ~KeepAliveTimeout(w, c)
      BY <1>11, <3>2 DEF Timer, KeepAliveAborted, KeepAlive
    <3> QED BY <3>1, <3>2
  <2>3. ASSUME life[c] = "made", alive[c]
        PROVE  "timeout" \in cancelled'[c] \/ (on'[w] = c /\ pc'[w] \in Tending)
    <3>1. AliveTest(c) = {TRUE} /\ ~Closed(c)
      BY <2>3 DEF AliveTest, Places
    <3>2. CASE KeepAliveTimeout(w, c)
      BY <3>1, <3>2 DEF KeepAliveTimeout
    <3>3. CASE ~KeepAliveTimeout(w, c)
      BY <1>11, <3>1, <3>3 DEF Timer, KeepAliveAborted, KeepAlive, Begin, Take
    <3> QED BY <3>2, <3>3
  <2> SUFFICES ASSUME NEW d \in Clients
               PROVE  /\ life'[d] = "unborn" => userid'[d] = Nobody
                      /\ life'[d] = "made" /\ alive'[d] /\ userid'[d] # Nobody =>
                           \/ Waits(d)' > 0 \/ "timeout" \in cancelled'[d]
                           \/ \E v \in Workers : on'[v] = d /\ pc'[v] \in Tending
    BY DEF Tended
  <2>4. CASE d = c
    BY <2>1, <2>3, <2>4 DEF Tended
  <2>5. CASE d # c
    BY <2>1, <2>2, <2>5, <2>6, <2>7 DEF Tended
  <2> QED BY <2>4, <2>5
<1>12. ASSUME NEW c \in Clients, Environment(c) PROVE Tended'
  <2>1. UNCHANGED <<life, alive, userid, cancelled, workerVars>>
    BY <1>12 DEF Environment, PeerSends, ReadFails, WriteCompletes, TimerExpires,
       PeerCloses,
       objVars
  <2>2. \A d \in Clients : Waits(d)' = Waits(d)
    BY <1>12 DEF Environment, PeerSends, ReadFails, WriteCompletes, TimerExpires,
       PeerCloses,
       timerVars, Waits
  <2> QED BY <2>1, <2>2, StillTended DEF workerVars
<1>13. CASE UNCHANGED vars
  BY <1>13, StillTended DEF vars, objVars, timerVars, workerVars, Waits
<1> HIDE DEF Inv
<1>14. QED
  BY <1>1, <1>2, <1>3, <1>4, <1>5, <1>6, <1>7, <1>8, <1>9, <1>10, <1>11, <1>12, <1>13
     DEF Next, Continue, Message, Dispatch, Session

(* keepAlive always comes back for a player that logged in, unless it found the
   player silent, however logins, waits and disconnects of one connection cross. *)
THEOREM PlayersStayWatched == Spec => []Watched
<1>1. Ownership /\ Tended /\ [Next]_vars => Tended'
  BY StepTended DEF Ownership
<1>2. ASSUME Tended PROVE Watched
  BY <1>2 DEF Tended, Watched, Waits, Busy
<1> QED BY <1>1, <1>2, InitTended, OwnershipHolds, PTL DEF Spec

-----------------------------------------------------------------------------
(* The accept loop. *)

\* The steps that arm the acceptor or take its connection, and all others.
LEMMA StepAccept ==
  ASSUME Inv, OnePlace, AcceptLoopSingle, [Next]_vars
  PROVE  AcceptLoopSingle'
<1> DEFINE Stored(v) == pc[v] = "store"
           Loop == /\ accepting <=> \A v \in Workers : ~Stored(v)
                   /\ \A u, v \in Workers : Stored(u) /\ Stored(v) => u = v
<1>1. mutex' # None => pc'[mutex'] \in Locked
  BY StepInv DEF Inv, Control, FieldsOK
<1>2. Loop
  BY DEF AcceptLoopSingle
<1> SUFFICES Loop'
  BY <1>1 DEF AcceptLoopSingle
<1>3. ASSUME UNCHANGED accepting, \A v \in Workers : Stored(v)' <=> Stored(v)
      PROVE  Loop'
  BY <1>2, <1>3
<1>4. CASE \E w \in Workers, c \in Clients, h \in Handles : HandleClient(w, c, h)
  <2>1. PICK w \in Workers : /\ accepting /\ ~accepting'
                            /\ pc' = [pc EXCEPT ![w] = "store"]
    BY <1>4 DEF HandleClient
  <2>2. \A v \in Workers : Stored(v)' <=> v = w
    BY <1>2, <2>1 DEF Inv, FieldsOK
  <2> QED BY <2>1, <2>2
<1>5. ASSUME NEW w \in Workers, StoreClient(w) PROVE Loop'
  <2>1. pc[w] = "store" /\ accepting' /\ pc' = [pc EXCEPT ![w] = "idle"]
    BY <1>5 DEF StoreClient, Return
  <2>2. \A v \in Workers : ~Stored(v)'
    BY <1>2, <2>1 DEF Inv, FieldsOK
  <2> QED BY <2>1, <2>2
<1>6. ASSUME NEW w \in Workers,
             \/ HandoffFind(w) \/ HandoffDetach(w) \/ AddClient(w)
             \/ Close(w) \/ ReleaseLobby(w) \/ ReleaseRoster(w)
      PROVE  Loop'
  <2>1. UNCHANGED accepting /\ pc[w] # "store" /\ pc' = [pc EXCEPT ![w] = pc'[w]] /\ pc'[w] # "store"
    BY <1>6 DEF Inv, FieldsOK, HandoffFind, HandoffDetach, AddClient, Close, ReleaseLobby,
       ReleaseRoster, AfterLogin, Goto, Return
  <2> QED BY <2>1, <1>3 DEF Inv, FieldsOK
<1>7. CASE Calm /\ UNCHANGED accepting
  BY <1>3, <1>7 DEF Calm
<1>8. CASE Calm /\ accepting' # accepting
  <2>1. ASSUME NEW w \in Workers, Continue(w) PROVE StoreClient(w)
    BY <1>8, <2>1 DEF Continue, Message, IgnoreMessage, ParserThrows, Handshake,
       StatusRequest, StatusPing, LoginStart, EncryptionResponse, StartAsyncRead,
       OnPlayerLogin, HandoffNothing, HandoffFind, HandoffDetach, QueryPlayer,
       InsertPlayer, AddClient, Close, ReleaseLobby, ReleaseRoster, ResetTimer
  <2>2. ASSUME NEW w \in Workers, NEW c \in Clients, Dispatch(w, c)
        PROVE  \E h \in Handles : HandleClient(w, c, h)
    BY <1>8, <2>2 DEF Dispatch, Timer, Session, OnLengthReceive, OnWriteComplete,
       KeepAliveAborted, KeepAliveTimeout, KeepAlive, AuthDropped, ReadHTTPHeader,
       AuthRefused, HasJoined
  <2>3. ASSUME NEW c \in Clients, Environment(c) PROVE FALSE
    BY <1>8, <2>3 DEF Environment, PeerSends, ReadFails, WriteCompletes, TimerExpires,
       PeerCloses
  <2>4. Next
    BY <1>8 DEF vars
  <2> QED BY <2>1, <2>2, <2>3, <2>4, <1>4, <1>5 DEF Next
<1> QED
  BY <1>4, <1>5, <1>6, <1>7, <1>8, CalmSteps

(* handleClient, which waits for clientMapMutex before it arms the acceptor again,
   is always followed by the next accept, one at a time: the lock it waits for is
   never left with a handler that is over. *)
THEOREM AcceptorGoesOn == Spec => []AcceptLoopSingle
<1>1. Init => AcceptLoopSingle
  BY DEF Init, AcceptLoopSingle
<1>2. Ownership /\ AcceptLoopSingle /\ [Next]_vars => AcceptLoopSingle'
  BY StepAccept DEF Ownership
<1> QED BY <1>1, <1>2, OwnershipHolds, PTL DEF Spec

-----------------------------------------------------------------------------
(* The seats of the roster. *)

\* A connection is of its own player, or of nobody yet; so are the seats.
OwnIds ==
  /\ \A c \in Clients : userid[c] \in {Nobody, Account[c]}
  /\ \A p \in Players, c \in Clients : clients[p] = c => userid[c] = p

LEMMA StepOwnIds ==
  ASSUME Inv, OwnIds, [Next]_vars
  PROVE  OwnIds'
<1> USE ConstantsAssumption DEF Inv, FieldsOK, Keys, Ids
<1>1. ASSUME \A c \in Clients : userid'[c] \in {userid[c], Account[c]},
             \A p \in Players : clients'[p] \in {clients[p], None}
      PROVE  OwnIds'
  <2>1. ASSUME NEW c \in Clients PROVE userid'[c] \in {Nobody, Account[c]}
    BY <1>1 DEF OwnIds
  <2>2. ASSUME NEW p \in Players, NEW c \in Clients, clients'[p] = c PROVE userid'[c] = p
    <3>1. clients[p] = c
      BY <1>1, <2>2
    <3>2. userid[c] = p /\ p # Nobody
      BY <3>1 DEF OwnIds
    <3> QED BY <3>2, <1>1 DEF OwnIds
  <2> QED BY <2>1, <2>2 DEF OwnIds
<1>2. ASSUME NEW w \in Workers, AddClient(w) PROVE OwnIds'
  <2>1. /\ held[w] \in Clients /\ UNCHANGED userid
        /\ clients' = [clients EXCEPT ![userid[held[w]]] = held[w]]
    BY <1>2 DEF AddClient, Control, Locked
  <2> QED BY <2>1 DEF OwnIds
<1>3. ASSUME NEW w \in Workers, ReleaseRoster(w) PROVE OwnIds'
  <2>1. on[w] \in Clients /\ UNCHANGED userid /\ clients' = [clients EXCEPT ![userid[on[w]]] = None]
    BY <1>3 DEF ReleaseRoster, Control
  <2> QED BY <2>1, <1>1
<1>4. ASSUME NEW w \in Workers, LoginStart(w) PROVE OwnIds'
  <2>1. /\ on[w] \in Clients /\ UNCHANGED clients
        /\ userid' = userid \/ userid' = [userid EXCEPT ![on[w]] = Account[on[w]]]
    BY <1>4 DEF LoginStart, Control, mapVars
  <2> QED BY <2>1, <1>1
<1>5. ASSUME NEW w \in Workers, NEW c \in Clients, HasJoined(w, c) PROVE OwnIds'
  <2>1. UNCHANGED clients /\ userid' = [userid EXCEPT ![c] = Account[c]]
    BY <1>5 DEF HasJoined, mapVars
  <2> QED BY <2>1, <1>1
<1>6. CASE UNCHANGED <<userid, clients>>
  BY <1>6, <1>1
<1>7. ASSUME NEW w \in Workers, Continue(w) PROVE OwnIds'
  <2>1. \/ UNCHANGED <<userid, clients>>
        \/ AddClient(w) \/ ReleaseRoster(w) \/ LoginStart(w)
    BY <1>7 DEF Continue, Message, IgnoreMessage, ParserThrows, Handshake, StatusRequest,
       StatusPing, EncryptionResponse, StartAsyncRead, OnPlayerLogin, HandoffNothing,
       HandoffFind, HandoffDetach, QueryPlayer, InsertPlayer, StoreClient, Close,
       ReleaseLobby, ResetTimer, objVars, mapVars
  <2> QED BY <2>1, <1>2, <1>3, <1>4, <1>6
<1>8. ASSUME NEW w \in Workers, NEW c \in Clients, Dispatch(w, c) PROVE OwnIds'
  <2>1. UNCHANGED <<userid, clients>> \/ HasJoined(w, c)
    BY <1>8 DEF Dispatch, HandleClient, OnLengthReceive, OnWriteComplete, Timer,
       KeepAliveAborted, KeepAliveTimeout, KeepAlive, Session, AuthDropped,
       ReadHTTPHeader, AuthRefused, objVars, mapVars
  <2> QED BY <2>1, <1>5, <1>6
<1>9. ASSUME NEW c \in Clients, Environment(c) PROVE OwnIds'
  <2>1. UNCHANGED <<userid, clients>>
    BY <1>9 DEF Environment, PeerSends, ReadFails, WriteCompletes, TimerExpires,
       PeerCloses, objVars, mapVars
  <2> QED BY <2>1, <1>6
<1>10. CASE UNCHANGED vars
  BY <1>6, <1>10 DEF vars, objVars, mapVars
<1> QED BY <1>7, <1>8, <1>9, <1>10 DEF Next

(* Whichever handler hands a connection over, found by the handle of another or
   run for one that is gone, with however many workers, remote players and failing
   queries: a seat of the roster holds a connection of that player, handed off. *)
THEOREM SeatsAreOwn == Spec => []SeatsOwn
<1>1. Init => OwnIds
  BY ConstantsAssumption DEF Init, OwnIds, Ids
<1>2. Ownership /\ OwnIds /\ [Next]_vars => OwnIds'
  BY StepOwnIds DEF Ownership
<1>3. ASSUME Ownership, OwnIds PROVE SeatsOwn
  BY <1>3, ConstantsAssumption DEF Ownership, Places, OwnIds, SeatsOwn, Ids
<1> QED BY <1>1, <1>2, <1>3, OwnershipHolds, PTL DEF Spec

=============================================================================
