---------------------------- MODULE MCClusterLink ---------------------------
(* Instances of ClusterLink for TLC: one connection, or two of one player, of
   whom addClient sends two packets, on two workers. *)
EXTENDS ClusterLink, TLC

CONSTANTS c1, c2, w1, w2, p1, null

SamePlayer == [c \in Clients |-> p1]
\* Another id takes the way out that an unknown player takes.
ForPlayers == [id : {"MC_PACKET"}, player : Players]
JoinTwo    == <<"JoinGame", "Abilities">>
Symmetry   == Permutations(Workers)
=============================================================================
