----------------------------- MODULE MCGateway -----------------------------
(* Instances of Gateway for TLC: two connections, of one player or of two,
   from the local host or remote, on one or two workers. *)
EXTENDS Gateway, TLC

CONSTANTS c1, c2, w1, w2, h1, h2, p1, p2, closed, zero, null

SamePlayer == [c \in Clients |-> p1]
\* Sound where the connections do not differ in Loopback and Account.
Symmetry == Permutations(Clients) \cup Permutations(Workers) \cup Permutations(Handles)
OwnPlayer  == [c \in Clients |-> IF c = c1 THEN p1 ELSE p2]
=============================================================================
