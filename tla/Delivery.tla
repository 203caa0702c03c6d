------------------------------ MODULE Delivery ------------------------------
(***************************************************************************)
(* What the gateway promises a player's client of the frames it gets,      *)
(* without the gateway's workers, its roster and the kernel's writes: the  *)
(* greeting of addClient, whole and in order, then packets of the nodes,   *)
(* each one that reached the gateway, asked for relay and named this       *)
(* player, later ones behind earlier ones and none twice; and nothing once *)
(* the connection is closed.  Keep-alives come at any time and are left    *)
(* out.  Packets may be lost: a player who is not there, or not yet, does  *)
(* not get them.                                                           *)
(***************************************************************************)
EXTENDS Naturals, Sequences

CONSTANTS
  Clients,   \* connections
  Account,   \* the player of each connection
  Messages,  \* what the nodes send: an id and a player
  Greeting   \* the frames that addClient sends, in order

VARIABLES
  arrived,  \* the datagrams that reached the gateway, in order
  open,     \* the connection is open
  seen      \* per open connection, the frames the player's client got

vars == <<arrived, open, seen>>

Init ==
  /\ arrived = <<>>
  /\ open = [c \in Clients |-> TRUE]
  /\ seen = [c \in Clients |-> <<>>]

Arrive(m) ==
  /\ arrived' = Append(arrived,
       [n |-> Len(arrived) + 1, id |-> m.id, player |-> m.player])
  /\ UNCHANGED <<open, seen>>

Get(c, frame) ==
  /\ open[c] /\ UNCHANGED <<arrived, open>>
  /\ seen' = [seen EXCEPT ![c] = Append(@, frame)]

Greet(c) ==
  /\ Len(seen[c]) < Len(Greeting)
  /\ Get(c, Greeting[Len(seen[c]) + 1])

Relay(c, n) ==
  /\ Len(seen[c]) >= Len(Greeting)
  /\ arrived[n].id = "MC_PACKET" /\ arrived[n].player = Account[c]
  /\ \A i \in Len(Greeting) + 1 .. Len(seen[c]) : seen[c][i].n < n
  /\ Get(c, [kind |-> "relayed", n |-> n])

Close(c) ==
  /\ open[c]
  /\ open' = [open EXCEPT ![c] = FALSE]
  /\ seen' = [seen EXCEPT ![c] = <<>>]
  /\ UNCHANGED arrived

Next ==
  \/ \E m \in Messages : Arrive(m)
  \/ \E c \in Clients : \/ Greet(c) \/ Close(c)
                        \/ \E n \in DOMAIN arrived : Relay(c, n)

Spec == Init /\ [][Next]_vars
=============================================================================
