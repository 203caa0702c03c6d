------------------------------- MODULE Roster -------------------------------
(***************************************************************************)
(* What the Client Gateway promises of a connection's object, without its  *)
(* sockets, locks and threads: it waits in the lobby, is taken out of it   *)
(* once, sits in the roster under one id, is destroyed once, and a seat is *)
(* given to its next player only by destroying the one who sits there.     *)
(***************************************************************************)
CONSTANTS Clients, Ids, None

VARIABLES
  stage,   \* where each connection's object is
  seat     \* the object that sits under each id

vars == <<stage, seat>>

Stages == {"outside", "lobby", "moving", "roster", "gone"}

TypeOK ==
  /\ stage \in [Clients -> Stages]
  /\ seat \in [Ids -> Clients \cup {None}]

Init ==
  /\ stage = [c \in Clients |-> "outside"]
  /\ seat = [p \in Ids |-> None]

Move(c, from, to) ==
  /\ stage[c] = from
  /\ stage' = [stage EXCEPT ![c] = to]
  /\ UNCHANGED seat

Arrive(c)  == Move(c, "outside", "lobby")
TakeOut(c) == Move(c, "lobby", "moving")
Drop(c)    == Move(c, "lobby", "gone")

Sit(c, p) ==
  /\ stage[c] = "moving"
  /\ seat' = [seat EXCEPT ![p] = c]
  /\ stage' = [d \in Clients |-> IF d = c THEN "roster"
                                 ELSE IF d = seat[p] THEN "gone" ELSE stage[d]]

Vacate(p) ==
  /\ seat[p] # None
  /\ seat' = [seat EXCEPT ![p] = None]
  /\ stage' = [stage EXCEPT ![seat[p]] = "gone"]

Next ==
  \/ \E c \in Clients :
       \/ Arrive(c) \/ TakeOut(c) \/ Drop(c)
       \/ \E p \in Ids : Sit(c, p)
  \/ \E p \in Ids : Vacate(p)

Spec == Init /\ [][Next]_vars

\* The seats and the objects in the roster are in bijection.
SeatsExclusive ==
  /\ \A c \in Clients : stage[c] = "roster" <=> \E p \in Ids : seat[p] = c
  /\ \A p, q \in Ids : seat[p] = seat[q] /\ seat[p] # None => p = q
=============================================================================
