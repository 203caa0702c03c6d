----------------------------- MODULE KeepAlive -----------------------------
(***************************************************************************)
(* The keep-alive check of one connection that has logged in, with time:   *)
(* Client::onPlayerLogin sets the first wait, Client::keepAlive compares   *)
(* lastSeen with the clock, and Client::receivedMessage moves lastSeen.    *)
(*                                                                         *)
(* Gateway leaves the time out and keeps the threads; here one connection  *)
(* is left, with its clock, its timer, its peer's answers and its read.    *)
(* Time passes in ticks (Tick); the handlers of the timer and of the read  *)
(* run some time after what they wait for, the timer's at most Lag ticks.  *)
(***************************************************************************)
EXTENDS Integers

CONSTANTS
  Period,      \* keepaliveTimer.expires_from_now, 4 seconds
  Limit,       \* the longest silence that is tolerated, 10 seconds
  Lag,         \* how late a worker runs the handler of the timer
  Delay,       \* a steady peer's longest way from keep-alive to handled answer
  MaxSilence   \* bound: ticks without news from the peer

ASSUME PeriodAssumption  == Period \in Nat \ {0} /\ Limit \in Nat /\ Lag \in Nat
ASSUME DelayAssumption   == Delay \in Nat /\ Delay + Period + Lag <= Limit
ASSUME SilenceAssumption == MaxSilence \in Nat

VARIABLES
  alive,     \* Client::alive
  read,      \* the async_read: armed, completed with an answer, aborted
  watching,  \* a wait of keepaliveTimer is outstanding
  due,       \* ticks until it expires; negative when its handler is late
  silence,   \* ticks since lastSeen
  asked,     \* the ages of the keep-alives a steady peer has still to answer
  steady,    \* whether the peer answers everything within Delay, or as it likes
  dropped    \* history: keepAlive found the peer silent for too long

vars == <<alive, read, watching, due, silence, asked, steady, dropped>>

TypeOK ==
  /\ alive \in BOOLEAN /\ read \in {"armed", "answer", "aborted"}
  /\ watching \in BOOLEAN
  /\ due \in Int /\ -Lag <= due /\ due <= Period
  /\ silence \in Nat
  /\ asked \subseteq Nat
  /\ steady \in BOOLEAN /\ dropped \in BOOLEAN

\* The constructor set the timer, which may be anywhere in its period, or over.
Init ==
  /\ alive = TRUE /\ read = "armed" /\ watching = TRUE
  /\ due \in 0 .. Period
  /\ silence = 0 /\ asked = {}
  /\ steady \in BOOLEAN /\ dropped = FALSE

-----------------------------------------------------------------------------
(* Client::keepAlive. *)

\* Faulty variants show that the properties notice such a mistake.
ResetTimerLong ==
  /\ alive /\ watching /\ due <= 0 /\ silence <= Limit
  /\ asked' = IF steady THEN asked \cup {0} ELSE asked
  /\ due' = 2 * Period
  /\ UNCHANGED <<alive, read, watching, silence, steady, dropped>>

AnswerNotSeen ==
  /\ alive /\ read = "answer"
  /\ read' = "armed"
  /\ UNCHANGED <<alive, watching, due, silence, asked, steady, dropped>>

\* The test of lastSeen.
TooLong == silence > Limit

(* The peer was silent for too long: the socket's operations are cancelled, a
   read that already completed is not, and the timer is not set again. *)
Timeout ==
  /\ alive /\ watching /\ due <= 0 /\ TooLong
  /\ watching' = FALSE
  /\ dropped' = TRUE
  /\ read' = IF read = "armed" THEN "aborted" ELSE read
  /\ UNCHANGED <<alive, due, silence, asked, steady>>

\* Another keep-alive is sent and the timer set again.
ResetTimer ==
  /\ alive /\ watching /\ due <= 0 /\ ~TooLong
  /\ asked' = IF steady THEN asked \cup {0} ELSE asked
  /\ due' = Period
  /\ UNCHANGED <<alive, read, watching, silence, steady, dropped>>

(* onLengthReceive: a KeepAlivePacket moves lastSeen and the read is armed. *)
KeepAliveAnswered ==
  /\ alive /\ read = "answer"
  /\ silence' = 0
  /\ read' = "armed"
  /\ UNCHANGED <<alive, watching, due, asked, steady, dropped>>

\* onLengthReceive with an error: the connection is closed.
Disconnect ==
  /\ alive /\ read = "aborted"
  /\ alive' = FALSE /\ watching' = FALSE
  /\ UNCHANGED <<read, due, silence, asked, steady, dropped>>

-----------------------------------------------------------------------------
(* The peer and the clock. *)

(* A KeepAlivePacket arrives. A steady peer answers its oldest keep-alive; any
   other sends one when it likes: its keepAliveId is not looked at. *)
Answer ==
  /\ read = "armed"
  /\ IF steady THEN \E a \in asked : /\ \A b \in asked : b <= a
                                    /\ asked' = asked \ {a}
     ELSE UNCHANGED asked
  /\ read' = "answer"
  /\ UNCHANGED <<alive, watching, due, silence, steady, dropped>>

(* The handler of the timer is at most Lag late, that of the read is not, and
   what a steady peer answers is handled at most Delay after the question. *)
Tick ==
  /\ alive /\ silence < MaxSilence
  /\ watching => due > -Lag
  /\ read = "armed"
  /\ steady => \A a \in asked : a < Delay
  /\ due' = IF watching THEN due - 1 ELSE due
  /\ silence' = silence + 1
  /\ asked' = {a + 1 : a \in asked}
  /\ UNCHANGED <<alive, read, watching, steady, dropped>>

Next ==
  Timeout \/ ResetTimer \/ KeepAliveAnswered \/ Disconnect \/ Answer \/ Tick

Spec == Init /\ [][Next]_vars

-----------------------------------------------------------------------------
(* keepAlive never drops a peer whose answers are handled within Delay of the
   question, although a second question may be out before the first answer. *)
SteadyKept == steady => ~dropped

(* While the timer is set, no silence lasts longer than Limit, one Period and
   the Lag of the handler that notices it. *)
SilenceNoticed == alive /\ watching => silence <= Limit + Period + Lag
=============================================================================
