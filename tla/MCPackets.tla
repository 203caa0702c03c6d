----------------------------- MODULE MCPackets -----------------------------
(* Packets with the flags of PlayerPositionAndLookPacket. *)
EXTENDS Packets, TLC

FlagNames == {"x", "y", "z", "yRotation", "xRotation"}
FlagIndex == [x |-> 0, y |-> 1, z |-> 2, yRotation |-> 3, xRotation |-> 4]
OneBit    == [f \in FlagNames |-> 1]
FlagValues == {{}, {0}}
\* Memory that is clear, set, or has every other bit.
SomeBytes == {{}, 0 .. 7, {1, 3, 5, 7}}

\* Lengths of names, and numbers at the ends of the lengths of a VarInt.
SomeNames == {1, 35}
SomeIds   == {{}, {7}, 0 .. 13, 0 .. 30}
=============================================================================
