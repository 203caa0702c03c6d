---------------------------- MODULE RosterProofs ----------------------------
(* The seats of Roster, for any connections and ids. *)
EXTENDS Roster, TLAPS

\* The null pointer is none of the connections.
NoneIsNoClient == None \notin Clients

Inv == TypeOK /\ SeatsExclusive

LEMMA SitInv ==
  ASSUME NoneIsNoClient, Inv, NEW c \in Clients, NEW p \in Ids, Sit(c, p)
  PROVE  Inv'
<1>1. \A d \in Clients, q \in Ids : seat'[q] = d <=> IF q = p THEN d = c ELSE seat[q] = d
  BY DEF Sit, Inv, TypeOK
<1>2. TypeOK'
  BY DEF Sit, Inv, TypeOK, Stages
<1>3. SeatsExclusive'
  BY <1>1 DEF NoneIsNoClient, Sit, Inv, TypeOK, SeatsExclusive
<1> QED BY <1>2, <1>3 DEF Inv

LEMMA VacateInv ==
  ASSUME NoneIsNoClient, Inv, NEW p \in Ids, Vacate(p)
  PROVE  Inv'
<1>1. TypeOK'
  BY DEF Vacate, Inv, TypeOK, Stages
<1>2. SeatsExclusive'
  BY DEF NoneIsNoClient, Vacate, Inv, TypeOK, SeatsExclusive
<1> QED BY <1>1, <1>2 DEF Inv

\* A seat's object is in the roster and sits under no second id; an object in the
\* roster has a seat, so that what erases the seat destroys the object.
THEOREM SeatsStayExclusive ==
  ASSUME NoneIsNoClient
  PROVE  Spec => []SeatsExclusive
<1> USE DEF NoneIsNoClient
<1>1. Init => Inv
  BY DEF Init, Inv, TypeOK, SeatsExclusive, Stages
<1>2. Inv /\ [Next]_vars => Inv'
  <2> SUFFICES ASSUME Inv, [Next]_vars PROVE Inv'
    OBVIOUS
  <2>1. ASSUME NEW c \in Clients, Arrive(c) \/ TakeOut(c) \/ Drop(c) PROVE Inv'
    BY <2>1
       DEF Arrive, TakeOut, Drop, Move, Inv, TypeOK, Stages, SeatsExclusive
  <2>2. CASE UNCHANGED vars
    BY <2>2 DEF vars, Inv, TypeOK, SeatsExclusive
  <2> QED BY <2>1, <2>2, SitInv, VacateInv DEF Next
<1>3. Inv => SeatsExclusive
  BY DEF Inv
<1> QED BY <1>1, <1>2, <1>3, PTL DEF Spec
=============================================================================
