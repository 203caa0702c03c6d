------------------------------- MODULE Sender -------------------------------
(***************************************************************************)
(* The write path of a connection: Client::sendData and encrypt of         *)
(* Client.cpp, and what asio::async_write does with the bytes it is given. *)
(*                                                                         *)
(* Any worker may run sendData for a connection at any time: the strand    *)
(* writeLock orders the completion handlers, not the calls.  encrypt takes *)
(* the next piece of the connection's one key stream, here a stamp that    *)
(* counts the calls; async_write then sends at once what the kernel takes, *)
(* if no other write of the socket waits, and queues the rest.  A write    *)
(* that was taken in part goes on from a handler in the strand, behind the *)
(* writes queued by then, and from a buffer that sendData, or the handler  *)
(* that called it, may have freed.                                         *)
(***************************************************************************)
EXTENDS Naturals, Sequences, FiniteSets

CONSTANTS
  Clients,    \* Client objects
  Workers,    \* worker threads of the io_service
  Encrypted,  \* the connections that logged in through the session server
  None,       \* "no client", "no worker", "no stamp"
  MaxStalls   \* bound: times the kernel takes less than it is offered

ASSUME SenderAssumption ==
  /\ Encrypted \subseteq Clients
  /\ None \notin Clients \cup Workers \cup Nat
  /\ MaxStalls \in Nat

VARIABLES
  alive,    \* Client::alive
  cipher,   \* encrypt calls so far: the position of encryptCipherContext
  writes,   \* per socket, the async_write_some operations that wait for room
  partial,  \* per connection, writes taken in part whose handler is to run
  stream,   \* what the kernel took from each connection, in order
  stalls,   \* history: per connection, times the kernel took less than all
  crossed   \* history: an encrypt came between another's encrypt and write

senderVars == <<alive, cipher, writes, partial, stream, stalls, crossed>>

SenderInit ==
  /\ alive = [c \in Clients |-> TRUE]
  /\ cipher = [c \in Clients |-> 0]
  /\ writes = [c \in Clients |-> <<>>]
  /\ partial = [c \in Clients |-> <<>>]
  /\ stream = [c \in Clients |-> <<>>]
  /\ stalls = [c \in Clients |-> 0]
  /\ crossed = [c \in Clients |-> FALSE]

\* The next piece of the key stream, for a connection that has one.
Stamp(c) == IF c \in Encrypted THEN cipher[c] + 1 ELSE None

\* As Encrypt, of the whole buffer: the spare room for a block included.
EncryptAll(c, others) ==
  /\ cipher' = [cipher EXCEPT ![c] = IF c \in Encrypted THEN @ + 2 ELSE @]
  /\ crossed' = [crossed EXCEPT ![c] = @ \/ (c \in Encrypted /\ others # {})]

\* encrypt, while `others` are between their own encrypt and async_write.
Encrypt(c, others) ==
  /\ cipher' = [cipher EXCEPT ![c] = IF c \in Encrypted THEN @ + 1 ELSE @]
  /\ crossed' = [crossed EXCEPT ![c] = @ \/ (c \in Encrypted /\ others # {})]

-----------------------------------------------------------------------------
(* The kernel.  A write is a frame, its stamp, the worker whose handler still
   holds the buffer (None once it is freed) and whether its first half went
   out.  It is offered to the kernel, which takes it all, or its first half,
   or none of it; a piece read from a freed buffer is stale. *)

Stalled(c) ==
  /\ \A b \in Clients : stalls[b] < MaxStalls
  /\ stalls' = [stalls EXCEPT ![c] = @ + 1]

Piece(op, part) ==
  [frame |-> op.frame, stamp |-> op.stamp, part |-> part,
   stale |-> op.holder = None]

\* A write that did not go out at once outlives sendData, and with it the
\* vector that holds the encrypted bytes.
Outlives(c, op) ==
  IF c \in Encrypted THEN [op EXCEPT !.holder = None] ELSE op

\* What the kernel takes; `line` are the handlers of partial writes so far.
TakenWhole(c, op, line) ==
  /\ stream' = [stream EXCEPT ![c] =
       Append(@, Piece(op, IF op.begun THEN "rest" ELSE "all"))]
  /\ partial' = [partial EXCEPT ![c] = line]
  /\ UNCHANGED stalls

TakenInPart(c, op, line) ==
  /\ ~op.begun
  /\ Stalled(c)
  /\ stream' = [stream EXCEPT ![c] = Append(@, Piece(op, "first"))]
  /\ partial' = [partial EXCEPT ![c] =
       Append(line, [Outlives(c, op) EXCEPT !.begun = TRUE])]

Waits(c, op, line) ==
  /\ writes' = [writes EXCEPT ![c] = Append(@, Outlives(c, op))]
  /\ partial' = [partial EXCEPT ![c] = line]
  /\ UNCHANGED stream

\* async_write_some: a speculative send if nothing waits, else in line.
SendSome(c, op, line) ==
  \/ /\ writes[c] = <<>>
     /\ TakenWhole(c, op, line) \/ TakenInPart(c, op, line)
     /\ UNCHANGED writes
  \/ /\ writes[c] = <<>>
     /\ Stalled(c)
     /\ Waits(c, op, line)
  \/ /\ writes[c] # <<>>
     /\ Waits(c, op, line)
     /\ UNCHANGED stalls

\* async_write; on a socket that is closed it only fails.
AsyncWrite(c, frame, stamp, holder) ==
  IF alive[c]
  THEN SendSome(c, [frame |-> frame, stamp |-> stamp,
                    holder |-> holder, begun |-> FALSE], partial[c])
  ELSE UNCHANGED <<writes, partial, stream, stalls>>

\* The socket has room: the reactor performs the write at the head.
Writable(c) ==
  /\ writes[c] # <<>>
  /\ \/ TakenWhole(c, Head(writes[c]), partial[c])
     \/ TakenInPart(c, Head(writes[c]), partial[c])
  /\ writes' = [writes EXCEPT ![c] = Tail(@)]
  /\ UNCHANGED <<alive, cipher, crossed>>

\* In the strand, the handler of a write taken in part sends the rest.
Resume(c) ==
  /\ partial[c] # <<>>
  /\ SendSome(c, Head(partial[c]), Tail(partial[c]))
  /\ UNCHANGED <<alive, cipher, crossed>>

\* A handler of w ends, and with it the buffers its packets held; `gone` are
\* the connections destroyed by it.  A socket that is closed, by disconnect or
\* with its Client, fails its writes, and what it sent is no longer looked at.
Emptied(gone, w) ==
  LET freed(op) == IF op.holder = w THEN [op EXCEPT !.holder = None] ELSE op
      kept(ops) == [i \in DOMAIN ops |-> freed(ops[i])]
  IN  /\ writes' = [c \in Clients |-> IF c \in gone THEN <<>> ELSE kept(writes[c])]
      /\ partial' = [c \in Clients |-> IF c \in gone THEN <<>> ELSE kept(partial[c])]
      /\ stream' = [c \in Clients |-> IF c \in gone THEN <<>> ELSE stream[c]]
      /\ cipher' = [c \in Clients |-> IF c \in gone THEN 0 ELSE cipher[c]]
      /\ crossed' = [c \in Clients |-> c \notin gone /\ crossed[c]]
      /\ UNCHANGED stalls

CloseSocket(c) ==
  /\ alive' = [alive EXCEPT ![c] = FALSE]
  /\ Emptied({c}, None)
=============================================================================
