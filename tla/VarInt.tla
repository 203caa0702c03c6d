------------------------------- MODULE VarInt -------------------------------
(***************************************************************************)
(* The variable-length integers of the packets (Packet.cpp): how they are   *)
(* written to a buffer, how many bytes they take, and how they are read from *)
(* a buffer that may end too early or hold more behind them.                *)
(*                                                                         *)
(* A number is the set of the places of its one bits, so that shifts keep    *)
(* their width; a byte the places 0 to 6 of its bits and 7, for another.    *)
(***************************************************************************)
EXTENDS Integers, Sequences

Number == SUBSET (0 .. 31)
Byte   == SUBSET (0 .. 7)

\* The most bytes that a VarInt may have.
MaxBytes == 5

\* input >> 7 * n, of an unsigned input or one that is not negative.
ShiftedDown(v, n) == {p \in 0 .. 31 : p + 7 * n \in v}

\* The loop of writeVarIntToBuffer ends at byte n: what is left has seven bits.
EndsAt(v, n) ==
  /\ ShiftedDown(v, n - 1) \subseteq 0 .. 6
  /\ \A i \in 1 .. n - 1 : ~(ShiftedDown(v, i - 1) \subseteq 0 .. 6)

\* A faulty variant shows that the properties notice such a mistake.
ByteUnshifted(v, i, n) == (v \cap 0 .. 6) \cup {p \in {7} : i < n}

ByteOf(v, i, n) == (ShiftedDown(v, i - 1) \cap 0 .. 6) \cup {p \in {7} : i < n}

(* writeVarIntToBuffer, and writeVarIntToFront, whose loop ends only for a
   number that is not negative. *)
Write(v) ==
  LET n == CHOOSE n \in 1 .. MaxBytes : EndsAt(v, n)
  IN  [i \in 1 .. n |-> ByteOf(v, i, n)]

\* getVarIntSize: the first of four lengths beyond which there is no bit, or five.
Size(v) ==
  IF \E n \in 1 .. 4 : v \subseteq 0 .. 7 * n - 1
  THEN CHOOSE n \in 1 .. 4 : /\ v \subseteq 0 .. 7 * n - 1
                             /\ \A i \in 1 .. n - 1 : ~(v \subseteq 0 .. 7 * i - 1)
  ELSE 5

-----------------------------------------------------------------------------
(* readVarIntFromBuffer. *)

\* Byte n is the first whose eighth bit is clear.
StopsAt(bytes, n) == 7 \notin bytes[n] /\ \A i \in 1 .. n - 1 : 7 \in bytes[i]

\* The bits of the first n bytes; what the last of five has beyond 31 is lost.
Value(bytes, n) ==
  {p \in 0 .. 31 : \E i \in 1 .. n : p - 7 * (i - 1) \in bytes[i] \cap 0 .. 6}

Short(bytes) == IF Len(bytes) < MaxBytes THEN Len(bytes) ELSE MaxBytes

(* The number of bytes read is 0 when the buffer ends before the number does;
   six bytes that all want another throw. *)
Throws(bytes) == Len(bytes) > MaxBytes /\ \A i \in 1 .. MaxBytes : 7 \in bytes[i]
Read(bytes) ==
  IF \E n \in 1 .. Short(bytes) : StopsAt(bytes, n)
  THEN LET n == CHOOSE n \in 1 .. Short(bytes) : StopsAt(bytes, n)
       IN  [size |-> n, value |-> Value(bytes, n)]
  ELSE [size |-> 0, value |-> Value(bytes, Short(bytes))]
=============================================================================
