-------------------------- MODULE KeepAliveProofs --------------------------
(***************************************************************************)
(* What KeepAlive promises, for every Period, Limit, Lag and Delay that     *)
(* satisfy the module's assumptions.                                       *)
(***************************************************************************)
EXTENDS KeepAlive, TLAPS

(* How long a steady peer may have been silent: no longer than the timer runs
   while nothing is asked, and else no longer than one late Period before the
   oldest question; an answer that was read is about to end the silence. *)
SteadyBound ==
  steady /\ alive =>
    /\ watching /\ ~dropped /\ read \in {"armed", "answer"}
    /\ \A a \in asked : a <= Delay
    /\ IF read = "answer" THEN silence <= Limit
       ELSE silence <= Period - due \/ \E a \in asked : silence <= a + Period + Lag

\* A peer that is gone was not dropped either.
SteadyGone == steady /\ ~alive => ~dropped

\* The timer set at or before Limit of silence is still to run for due.
TimerBound == alive /\ watching => silence <= Limit + Period - due

Inv == TypeOK /\ SteadyBound /\ SteadyGone /\ TimerBound

USE PeriodAssumption, DelayAssumption, SilenceAssumption

(* The invariant holds when the player has just logged in. *)
LEMMA InvInit == Init => Inv
<1> SUFFICES ASSUME Init PROVE Inv
  OBVIOUS
<1>1. /\ due \in Int /\ -Lag <= due /\ due <= Period
      /\ silence <= Period - due /\ silence <= Limit + Period - due
  BY DEF Init
<1>2. TypeOK
  BY <1>1 DEF Init, TypeOK
<1>3. SteadyBound /\ SteadyGone
  BY <1>1 DEF Init, SteadyBound, SteadyGone
<1>4. TimerBound
  BY <1>1 DEF Init, TimerBound
<1> QED
  BY <1>2, <1>3, <1>4 DEF Inv

(* Every handler, answer and tick of keepAlive's clock keeps the types. *)
LEMMA TypeStep == TypeOK /\ [Next]_vars => TypeOK'
<1> SUFFICES ASSUME TypeOK, [Next]_vars PROVE TypeOK'
  OBVIOUS
<1>1. CASE Timeout
  BY <1>1 DEF TypeOK, Timeout
<1>2. CASE ResetTimer
  BY <1>2 DEF TypeOK, ResetTimer
<1>3. CASE KeepAliveAnswered
  BY <1>3 DEF TypeOK, KeepAliveAnswered
<1>4. CASE Disconnect
  BY <1>4 DEF TypeOK, Disconnect
<1>5. CASE Answer
  BY <1>5 DEF TypeOK, Answer
<1>6. CASE Tick
  BY <1>6 DEF TypeOK, Tick
<1>7. CASE UNCHANGED vars
  BY <1>7 DEF TypeOK, vars
<1> QED
  BY <1>1, <1>2, <1>3, <1>4, <1>5, <1>6, <1>7 DEF Next

(* A steady peer's silence keeps its bound, and keepAlive does not drop it. *)
LEMMA SteadyStep ==
  TypeOK /\ SteadyBound /\ SteadyGone /\ [Next]_vars => SteadyBound' /\ SteadyGone'
<1> SUFFICES ASSUME TypeOK, SteadyBound, SteadyGone, [Next]_vars
             PROVE  SteadyBound' /\ SteadyGone'
  OBVIOUS
<1>1. CASE Timeout
  <2>1. ~steady
    <3> SUFFICES ASSUME steady PROVE FALSE
      OBVIOUS
    <3>1. silence > Limit /\ due <= 0 /\ alive
      BY <1>1 DEF Timeout, TooLong
    <3>2. silence <= Limit
      BY <3>1 DEF SteadyBound, TypeOK
    <3> QED
      BY <3>1, <3>2 DEF TypeOK
  <2> QED
    BY <1>1, <2>1 DEF Timeout, SteadyBound, SteadyGone
<1>2. CASE ResetTimer
  <2>1. SteadyGone'
    BY <1>2 DEF ResetTimer, SteadyGone
  <2>2. SteadyBound'
    <3> SUFFICES ASSUME steady PROVE SteadyBound'
      BY <1>2 DEF ResetTimer, SteadyBound
    <3>1. /\ alive /\ silence <= Limit /\ asked' = asked \cup {0}
          /\ UNCHANGED <<alive, read, watching, silence, steady, dropped>>
      BY <1>2 DEF ResetTimer, TooLong, TypeOK
    <3>2. \A a \in asked' : a <= Delay
      BY <3>1 DEF SteadyBound
    <3>3. read # "answer" => \E a \in asked' : silence <= a + Period + Lag
      BY <3>1 DEF SteadyBound, TypeOK
    <3> QED
      BY <3>1, <3>2, <3>3 DEF SteadyBound
  <2> QED
    BY <2>1, <2>2
<1>3. CASE KeepAliveAnswered
  BY <1>3 DEF KeepAliveAnswered, SteadyBound, SteadyGone, TypeOK
<1>4. CASE Disconnect
  BY <1>4 DEF Disconnect, SteadyBound, SteadyGone
<1>5. CASE Answer
  <2>1. SteadyGone'
    BY <1>5 DEF Answer, SteadyGone
  <2>2. SteadyBound'
    <3> SUFFICES ASSUME steady, alive PROVE SteadyBound'
      BY <1>5 DEF Answer, SteadyBound
    <3>1. /\ read' = "answer" /\ asked' \subseteq asked /\ read # "answer"
          /\ UNCHANGED <<alive, watching, due, silence, steady, dropped>>
      BY <1>5 DEF Answer
    <3>2. silence <= Period - due \/ \E a \in asked : silence <= a + Period + Lag
      BY <3>1 DEF SteadyBound
    <3>3. silence <= Limit
      BY <3>2 DEF SteadyBound, TypeOK
    <3> QED
      BY <3>1, <3>3 DEF SteadyBound
  <2> QED
    BY <2>1, <2>2
<1>6. CASE Tick
  <2>1. SteadyGone'
    BY <1>6 DEF Tick, SteadyGone
  <2>2. SteadyBound'
    <3> SUFFICES ASSUME steady PROVE SteadyBound'
      BY <1>6 DEF Tick, SteadyBound
    <3>1. /\ alive /\ read = "armed" /\ \A a \in asked : a < Delay
          /\ silence' = silence + 1 /\ asked' = {a + 1 : a \in asked}
          /\ UNCHANGED <<alive, read, watching, steady, dropped>>
      BY <1>6 DEF Tick
    <3>2. watching /\ ~dropped /\ due' = due - 1
      BY <1>6, <3>1 DEF Tick, SteadyBound
    <3>3. \A a \in asked' : a <= Delay
      BY <3>1 DEF TypeOK
    <3>4. silence' <= Period - due' \/ \E a \in asked' : silence' <= a + Period + Lag
      <4>1. CASE silence <= Period - due
        BY <4>1, <3>1, <3>2 DEF TypeOK
      <4>2. ASSUME NEW a \in asked, silence <= a + Period + Lag
            PROVE  \E b \in asked' : silence' <= b + Period + Lag
        <5>1. a + 1 \in asked' /\ a \in Nat
          BY <3>1 DEF TypeOK
        <5>2. silence' <= (a + 1) + Period + Lag
          BY <4>2, <3>1, <5>1 DEF TypeOK
        <5> QED
          BY <5>1, <5>2
      <4> QED
        BY <4>1, <4>2, <3>1 DEF SteadyBound
    <3> QED
      BY <3>1, <3>2, <3>3, <3>4 DEF SteadyBound
  <2> QED
    BY <2>1, <2>2
<1>7. CASE UNCHANGED vars
  BY <1>7 DEF SteadyBound, SteadyGone, vars
<1> QED
  BY <1>1, <1>2, <1>3, <1>4, <1>5, <1>6, <1>7 DEF Next

(* keepAlive sets the timer only while the silence is tolerated. *)
LEMMA TimerStep == TypeOK /\ TimerBound /\ [Next]_vars => TimerBound'
<1> SUFFICES ASSUME TypeOK, TimerBound, [Next]_vars PROVE TimerBound'
  OBVIOUS
<1>1. CASE Timeout
  BY <1>1 DEF Timeout, TimerBound
<1>2. CASE ResetTimer
  BY <1>2 DEF ResetTimer, TooLong, TimerBound, TypeOK
<1>3. CASE KeepAliveAnswered
  BY <1>3 DEF KeepAliveAnswered, TimerBound, TypeOK
<1>4. CASE Disconnect
  BY <1>4 DEF Disconnect, TimerBound
<1>5. CASE Answer
  BY <1>5 DEF Answer, TimerBound
<1>6. CASE Tick
  BY <1>6 DEF Tick, TimerBound, TypeOK
<1>7. CASE UNCHANGED vars
  BY <1>7 DEF TimerBound, vars
<1> QED
  BY <1>1, <1>2, <1>3, <1>4, <1>5, <1>6, <1>7 DEF Next

LEMMA InvAlways == Spec => []Inv
<1>1. Inv /\ [Next]_vars => Inv'
  BY TypeStep, SteadyStep, TimerStep DEF Inv
<1> QED
  BY <1>1, InvInit, PTL DEF Spec

(* keepAlive never drops a peer whose answers are handled within Delay of the
   question, for every Delay that leaves one late Period within Limit. *)
THEOREM SteadyPeersKept == Spec => []SteadyKept
<1>1. Inv => SteadyKept
  BY DEF Inv, SteadyBound, SteadyGone, SteadyKept
<1> QED
  BY <1>1, InvAlways, PTL

(* While keepaliveTimer is set, a silence is noticed by Limit + Period + Lag. *)
THEOREM SilenceBounded == Spec => []SilenceNoticed
<1>1. Inv => SilenceNoticed
  BY DEF Inv, TypeOK, TimerBound, SilenceNoticed
<1> QED
  BY <1>1, InvAlways, PTL

(* lastSeen, the wait and the answers stay within the bounds of KeepAlive. *)
THEOREM KeepAliveTyped == Spec => []TypeOK
<1>1. Inv => TypeOK
  BY DEF Inv
<1> QED
  BY <1>1, InvAlways, PTL
=============================================================================
