---------------------------- MODULE VarIntProofs ----------------------------
(***************************************************************************)
(* What is written as a VarInt takes the bytes that getVarIntSize says, is   *)
(* read back whatever follows it in the buffer, and is not taken for         *)
(* complete as long as one of its bytes is missing.                         *)
(***************************************************************************)
EXTENDS VarInt, TLAPS

\* The number has no bit beyond its first n times seven.
Fits(v, n) == \A p \in v : p < 7 * n

LEMMA FitsWhat ==
  ASSUME NEW v \in Number, NEW n \in 1 .. 5
  PROVE  /\ ShiftedDown(v, n - 1) \subseteq 0 .. 6 <=> Fits(v, n)
         /\ v \subseteq 0 .. 7 * n - 1 <=> Fits(v, n)
<1>1. \A p \in v : p \in 0 .. 31
  BY DEF Number
<1>2. v \subseteq 0 .. 7 * n - 1 <=> Fits(v, n)
  BY <1>1 DEF Fits
<1>3. ASSUME ShiftedDown(v, n - 1) \subseteq 0 .. 6, NEW p \in v, p >= 7 * n PROVE FALSE
  <2> DEFINE q == p - 7 * (n - 1)
  <2>1. q \in 0 .. 31 /\ q + 7 * (n - 1) = p /\ q > 6
    BY <1>1, <1>3
  <2>2. q \in ShiftedDown(v, n - 1)
    BY <2>1 DEF ShiftedDown
  <2> QED
    BY <1>3, <2>1, <2>2
<1>4. ASSUME Fits(v, n), NEW q \in ShiftedDown(v, n - 1) PROVE q \in 0 .. 6
  BY <1>4 DEF Fits, ShiftedDown
<1> QED
  BY <1>1, <1>2, <1>3, <1>4 DEF Fits

\* There is one length at which the loop ends, the first that fits.
LEMMA OneEnd ==
  ASSUME NEW v \in Number
  PROVE  \E n \in 1 .. 5 : /\ EndsAt(v, n)
                           /\ Fits(v, n) /\ \A i \in 1 .. n - 1 : ~Fits(v, i)
                           /\ \A k \in 1 .. 5 : EndsAt(v, k) => k = n
<1>1. Fits(v, 5)
  BY DEF Fits, Number
<1>2. PICK n \in 1 .. 5 : Fits(v, n) /\ \A i \in 1 .. n - 1 : ~Fits(v, i)
  <2>1. CASE Fits(v, 1)
    BY <2>1
  <2>2. CASE ~Fits(v, 1) /\ Fits(v, 2)
    BY <2>2
  <2>3. CASE ~Fits(v, 1) /\ ~Fits(v, 2) /\ Fits(v, 3)
    BY <2>3
  <2>4. CASE ~Fits(v, 1) /\ ~Fits(v, 2) /\ ~Fits(v, 3) /\ Fits(v, 4)
    BY <2>4
  <2>5. CASE ~Fits(v, 1) /\ ~Fits(v, 2) /\ ~Fits(v, 3) /\ ~Fits(v, 4)
    BY <1>1, <2>5
  <2> QED
    BY <2>1, <2>2, <2>3, <2>4, <2>5
<1>3. \A k \in 1 .. 5 : EndsAt(v, k) <=> Fits(v, k) /\ \A i \in 1 .. k - 1 : ~Fits(v, i)
  <2> TAKE k \in 1 .. 5
  <2>1. \A i \in 1 .. k - 1 : i \in 1 .. 5
    OBVIOUS
  <2> QED
    BY <2>1, FitsWhat DEF EndsAt
<1>4. ASSUME NEW k \in 1 .. 5, EndsAt(v, k) PROVE k = n
  <2>1. ~(n < k) /\ ~(k < n)
    BY <1>2, <1>3, <1>4
  <2> QED
    BY <2>1
<1> QED
  BY <1>2, <1>3, <1>4

\* What Write yields, without its CHOOSE.
LEMMA WriteIs ==
  ASSUME NEW v \in Number
  PROVE  \E n \in 1 .. 5 : /\ EndsAt(v, n) /\ Fits(v, n)
                           /\ \A i \in 1 .. n - 1 : ~Fits(v, i)
                           /\ Write(v) = [i \in 1 .. n |-> ByteOf(v, i, n)]
                           /\ Write(v) \in Seq(Byte) /\ Len(Write(v)) = n
<1>1. PICK n \in 1 .. 5 : /\ EndsAt(v, n)
                          /\ Fits(v, n) /\ \A i \in 1 .. n - 1 : ~Fits(v, i)
                          /\ \A k \in 1 .. 5 : EndsAt(v, k) => k = n
  BY OneEnd
<1>2. Write(v) = [i \in 1 .. n |-> ByteOf(v, i, n)]
  BY <1>1 DEF Write, MaxBytes
<1>3. \A i \in 1 .. n : ByteOf(v, i, n) \in Byte
  BY DEF ByteOf, Byte
<1>4. Write(v) \in Seq(Byte) /\ Len(Write(v)) = n
  BY <1>2, <1>3
<1> QED
  BY <1>1, <1>2, <1>4

LEMMA ByteParts ==
  ASSUME NEW v, NEW i, NEW n
  PROVE  /\ ByteOf(v, i, n) \cap 0 .. 6 = ShiftedDown(v, i - 1) \cap 0 .. 6
         /\ 7 \in ByteOf(v, i, n) <=> i < n
BY DEF ByteOf

(* The byte that is read at i is the byte that was written, and the first n of
   them have the number's bits. *)
LEMMA ValueBack ==
  ASSUME NEW v \in Number, NEW n \in 1 .. 5, Fits(v, n),
         NEW bytes, \A i \in 1 .. n : bytes[i] = ByteOf(v, i, n)
  PROVE  Value(bytes, n) = v
<1>1. \A i \in 1 .. n, p \in 0 .. 31 :
        p - 7 * (i - 1) \in bytes[i] \cap 0 .. 6 <=> p \in v /\ 7 * (i - 1) <= p /\ p < 7 * i
  <2> TAKE i \in 1 .. n, p \in 0 .. 31
  <2> DEFINE q == p - 7 * (i - 1)
  <2>1. bytes[i] \cap 0 .. 6 = ShiftedDown(v, i - 1) \cap 0 .. 6
    BY ByteParts
  <2>2. q \in Int /\ q + 7 * (i - 1) = p /\ (q \in 0 .. 6 <=> 7 * (i - 1) <= p /\ p < 7 * i)
    OBVIOUS
  <2>3. q \in 0 .. 6 => q \in 0 .. 31
    OBVIOUS
  <2>4. q \in 0 .. 6 => (q \in ShiftedDown(v, i - 1) <=> p \in v)
    BY <2>2, <2>3 DEF ShiftedDown
  <2> QED
    BY <2>1, <2>2, <2>4
<1>2. \A p \in v : p \in 0 .. 31 /\ p < 7 * n
  BY DEF Number, Fits
<1>3. \A p \in 0 .. 31 : p < 7 * n =>
        \E i \in 1 .. n : 7 * (i - 1) <= p /\ p < 7 * i
  <2> SUFFICES ASSUME NEW p \in 0 .. 31, p < 7 * n
               PROVE  \E i \in 1 .. n : 7 * (i - 1) <= p /\ p < 7 * i
    OBVIOUS
  <2>1. CASE p < 7
    BY <2>1
  <2>2. CASE 7 <= p /\ p < 14
    <3>1. 2 \in 1 .. n
      BY <2>2
    <3> QED
      BY <2>2, <3>1
  <2>3. CASE 14 <= p /\ p < 21
    <3>1. 3 \in 1 .. n
      BY <2>3
    <3> QED
      BY <2>3, <3>1
  <2>4. CASE 21 <= p /\ p < 28
    <3>1. 4 \in 1 .. n
      BY <2>4
    <3> QED
      BY <2>4, <3>1
  <2>5. CASE 28 <= p
    <3>1. 5 \in 1 .. n
      BY <2>5
    <3> QED
      BY <2>5, <3>1
  <2> QED
    BY <2>1, <2>2, <2>3, <2>4, <2>5
<1> QED
  BY <1>1, <1>2, <1>3 DEF Value

(* Packet::writeVarIntToBuffer and readVarIntFromBuffer: the number is read back
   from as many bytes as were written, whatever comes behind them. *)
THEOREM ReadsBack ==
  ASSUME NEW v \in Number, NEW rest \in Seq(Byte)
  PROVE  /\ Read(Write(v) \o rest) = [size |-> Len(Write(v)), value |-> v]
         /\ ~Throws(Write(v) \o rest)
<1>1. PICK n \in 1 .. 5 : /\ Fits(v, n)
                          /\ Write(v) = [i \in 1 .. n |-> ByteOf(v, i, n)]
                          /\ Write(v) \in Seq(Byte) /\ Len(Write(v)) = n
  BY WriteIs
<1> DEFINE b == Write(v) \o rest
<1>2. b \in Seq(Byte) /\ Len(b) = n + Len(rest) /\ Len(rest) \in Nat
  BY <1>1
<1>3. \A i \in 1 .. n : b[i] = ByteOf(v, i, n)
  BY <1>1
<1> HIDE DEF b
<1>4. \A i \in 1 .. n : 7 \in b[i] <=> i < n
  BY <1>3, ByteParts
<1>5. n \in 1 .. Short(b)
  BY <1>2 DEF Short, MaxBytes
<1>6. StopsAt(b, n) /\ \A k \in 1 .. Short(b) : StopsAt(b, k) => k = n
  <2>1. StopsAt(b, n)
    BY <1>4 DEF StopsAt
  <2>2. ASSUME NEW k \in 1 .. Short(b), StopsAt(b, k) PROVE k = n
    <3>1. Short(b) \in Nat
      BY <1>2 DEF Short, MaxBytes
    <3>2. ~(k < n)
      BY <1>4, <2>2 DEF StopsAt
    <3>3. ~(n < k)
      BY <1>4, <2>2, <3>1 DEF StopsAt
    <3> QED
      BY <3>1, <3>2, <3>3
  <2> QED
    BY <2>1, <2>2
<1>7. Read(b) = [size |-> n, value |-> Value(b, n)]
  BY <1>5, <1>6 DEF Read
<1>8. Value(b, n) = v
  BY <1>1, <1>3, ValueBack
<1>9. ~Throws(b)
  BY <1>4 DEF Throws, MaxBytes
<1> QED
  BY <1>1, <1>7, <1>8, <1>9 DEF b

(* getVarIntSize says how many bytes are written: writeBufferLengthToFront
   refuses exactly the buffers whose length takes more than three. *)
THEOREM SizeIsWritten ==
  ASSUME NEW v \in Number
  PROVE  Size(v) = Len(Write(v)) /\ Len(Write(v)) \in 1 .. MaxBytes
<1>1. PICK n \in 1 .. 5 : /\ Fits(v, n) /\ \A i \in 1 .. n - 1 : ~Fits(v, i)
                          /\ Len(Write(v)) = n
  BY WriteIs
<1>2. \A k \in 1 .. 4 : /\ v \subseteq 0 .. 7 * k - 1 <=> Fits(v, k)
                        /\ \A i \in 1 .. k - 1 : i \in 1 .. 4
  BY FitsWhat
<1>3. CASE n = 5
  BY <1>1, <1>2, <1>3 DEF Size, MaxBytes
<1>4. CASE n \in 1 .. 4
  <2> DEFINE First(k) == /\ v \subseteq 0 .. 7 * k - 1
                         /\ \A i \in 1 .. k - 1 : ~(v \subseteq 0 .. 7 * i - 1)
  <2>1. First(n)
    BY <1>1, <1>2, <1>4
  <2>2. ASSUME NEW k \in 1 .. 4, First(k) PROVE k = n
    <3>1. Fits(v, k) /\ \A i \in 1 .. k - 1 : ~Fits(v, i)
      BY <1>2, <2>2
    <3>2. ~(k < n) /\ ~(n < k)
      BY <1>1, <3>1
    <3> QED
      BY <3>2
  <2>3. n = CHOOSE k \in 1 .. 4 : First(k)
    BY <1>4, <2>1, <2>2
  <2>4. \E k \in 1 .. 4 : v \subseteq 0 .. 7 * k - 1
    BY <1>4, <2>1
  <2>5. Size(v) = n
    BY <2>3, <2>4 DEF Size
  <2> QED
    BY <1>1, <2>5 DEF MaxBytes
<1> QED
  BY <1>3, <1>4

(* readVarIntFromBuffer yields 0 for every part of a number that lacks its last
   byte: onLengthReceive waits for the next read, however the length is cut. *)
THEOREM PrefixWaits ==
  ASSUME NEW v \in Number, NEW k \in Nat, k < Len(Write(v))
  PROVE  Read(SubSeq(Write(v), 1, k)).size = 0 /\ ~Throws(SubSeq(Write(v), 1, k))
<1>1. PICK n \in 1 .. 5 : /\ Write(v) = [i \in 1 .. n |-> ByteOf(v, i, n)]
                          /\ Write(v) \in Seq(Byte) /\ Len(Write(v)) = n
  BY WriteIs
<1> DEFINE b == SubSeq(Write(v), 1, k)
<1>2. Len(b) = k /\ \A i \in 1 .. k : b[i] = ByteOf(v, i, n)
  BY <1>1
<1>3. \A i \in 1 .. k : 7 \in b[i]
  BY <1>1, <1>2, ByteParts
<1>4. Short(b) = k
  BY <1>1, <1>2 DEF Short, MaxBytes
<1>5. ~\E i \in 1 .. Short(b) : StopsAt(b, i)
  BY <1>3, <1>4 DEF StopsAt
<1> QED
  BY <1>1, <1>2, <1>5 DEF Read, Throws, MaxBytes
=============================================================================
