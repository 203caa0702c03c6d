--------------------------- MODULE FramingProofs ---------------------------
(***************************************************************************)
(* Theorems about Framing, for any stream, any cut of it and any block.     *)
(***************************************************************************)
EXTENDS Framing, SequenceTheorems, FiniteSetTheorems, TLAPS

-----------------------------------------------------------------------------
(* Parts of the stream. *)

LEMMA BytesAre ==
  ASSUME NEW a \in Int, NEW b \in Int, a <= b
  PROVE  Bytes(a, b) \in Seq(Int) /\ Len(Bytes(a, b)) = b - a
<1>1. b - a \in Nat /\ Bytes(a, b) \in [1 .. b - a -> Int]
  BY DEF Bytes
<1> QED
  BY <1>1, SeqDef DEF Bytes

LEMMA BytesAt ==
  ASSUME NEW a \in Int, NEW b \in Int, NEW i \in 1 .. b - a
  PROVE  Bytes(a, b)[i] = a + i
  BY DEF Bytes

(* A sequence is a part of the stream if its bytes are. *)
LEMMA IsPart ==
  ASSUME NEW a \in Int, NEW b \in Int, a <= b, NEW s \in Seq(Int), Len(s) = b - a,
         \A i \in 1 .. b - a : s[i] = a + i
  PROVE  s = Bytes(a, b)
<1> DEFINE t == Bytes(a, b)
<1>1. t \in Seq(Int) /\ Len(t) = Len(s)
  BY BytesAre
<1>2. \A i \in 1 .. Len(s) : s[i] = t[i]
  BY BytesAt
<1> HIDE DEF t
<1>3. s = t
  BY <1>1, <1>2, SeqEqual
<1> QED
  BY <1>3 DEF t

LEMMA BytesJoin ==
  ASSUME NEW a \in Int, NEW b \in Int, NEW c \in Int, a <= b, b <= c
  PROVE  Bytes(a, b) \o Bytes(b, c) = Bytes(a, c)
<1> DEFINE s == Bytes(a, b)  t == Bytes(b, c)
<1>1. s \in Seq(Int) /\ Len(s) = b - a /\ t \in Seq(Int) /\ Len(t) = c - b
  BY BytesAre
<1>2. /\ \A i \in 1 .. b - a : s[i] = a + i
      /\ \A i \in 1 .. c - b : t[i] = b + i
  BY BytesAt
<1> HIDE DEF s, t
<1>3. s \o t \in Seq(Int) /\ Len(s \o t) = c - a
  <2>1. s \o t \in Seq(Int) /\ Len(s \o t) = Len(s) + Len(t)
    BY <1>1, ConcatProperties
  <2> QED
    BY <1>1, <2>1
<1>4. \A i \in 1 .. Len(s) + Len(t) :
           (s \o t)[i] = IF i <= Len(s) THEN s[i] ELSE t[i - Len(s)]
  BY <1>1, ConcatProperties
<1>5. \A i \in 1 .. c - a : (s \o t)[i] = a + i
  <2> TAKE i \in 1 .. c - a
  <2>1. CASE i <= b - a
    BY <1>1, <1>2, <1>4, <2>1
  <2>2. CASE ~(i <= b - a)
    <3>1. i - Len(s) \in 1 .. c - b /\ b + (i - Len(s)) = a + i
      BY <1>1, <2>2
    <3> QED
      BY <1>1, <1>2, <1>4, <2>2, <3>1
  <2> QED
    BY <2>1, <2>2
<1>6. a <= c
  OBVIOUS
<1>7. s \o t = Bytes(a, c)
  BY <1>3, <1>5, <1>6, IsPart
<1> QED
  BY <1>7 DEF s, t

LEMMA BytesPart ==
  ASSUME NEW a \in Int, NEW b \in Int, a <= b,
         NEW i \in 1 .. b - a + 1, NEW j \in i - 1 .. b - a
  PROVE  SubSeq(Bytes(a, b), i, j) = Bytes(a + i - 1, a + j)
<1> DEFINE s == Bytes(a, b)
           p == SubSeq(s, i, j)
           c == a + i - 1
           d == a + j
<1>1. \A k \in 1 .. b - a : s[k] = a + k
  BY BytesAt
<1>2. \A k \in i .. j : s[k] \in Int
  BY <1>1
<1> HIDE DEF s
<1>3. i \in Int /\ j \in Int
  OBVIOUS
<1>4. /\ p \in Seq(Int)
      /\ Len(p) = IF i <= j THEN j - i + 1 ELSE 0
      /\ \A k \in 1 .. j - i + 1 : p[k] = s[i + k - 1]
  BY <1>2, <1>3, SubSeqProperties
<1>5. c \in Int /\ d \in Int /\ c <= d /\ d - c = j - i + 1
  OBVIOUS
<1> HIDE DEF p
<1>6. Len(p) = d - c
  BY <1>4
<1>7. \A k \in 1 .. d - c : p[k] = c + k
  <2> TAKE k \in 1 .. d - c
  <2>1. i + k - 1 \in 1 .. b - a /\ a + (i + k - 1) = c + k
    OBVIOUS
  <2> QED
    BY <1>1, <1>4, <1>5, <2>1
<1> HIDE DEF c, d
<1>8. p = Bytes(c, d)
  BY <1>4, <1>5, <1>6, <1>7, IsPart
<1> QED
  BY <1>8 DEF p, s, c, d

LEMMA BytesDiffer ==
  ASSUME NEW a \in Int, NEW b \in Int, NEW c \in Int, NEW d \in Int,
         a < b, c < d, Bytes(a, b) = Bytes(c, d)
  PROVE  a = c
<1>1. Bytes(a, b)[1] = a + 1
  BY BytesAt
<1>2. Bytes(c, d)[1] = c + 1
  BY BytesAt
<1> QED
  BY <1>1, <1>2

-----------------------------------------------------------------------------
(* decrypt, of a read that follows the byte the register was left at. *)

LEMMA WholeBlocksAre ==
  ASSUME NEW e \in Nat, NEW r \in Nat, e <= r
  PROVE  /\ WholeBlocks(Bytes(e, r)) = Bytes(e, r - ((r - e) % Block))
         /\ (r - e) % Block \in 0 .. r - e
<1> DEFINE over == (r - e) % Block
<1>0. e \in Int /\ r \in Int /\ r - e \in Nat
  OBVIOUS
<1>1. Len(Bytes(e, r)) = r - e
  BY <1>0, BytesAre
<1>2. over \in 0 .. r - e
  BY <1>0, BlockAssumption
<1> DEFINE n == (r - e) - over
<1>3. 1 \in 1 .. r - e + 1 /\ n \in 1 - 1 .. r - e
      /\ e + 1 - 1 = e /\ e + n = r - over
  BY <1>0, <1>2
<1>4. WholeBlocks(Bytes(e, r)) = SubSeq(Bytes(e, r), 1, n)
  <2>1. Len(Bytes(e, r)) - (Len(Bytes(e, r)) % Block) = n
    BY <1>1, SMT
  <2> QED
    BY <2>1, Zenon DEF WholeBlocks
<1> HIDE DEF over, n
<1>5. SubSeq(Bytes(e, r), 1, n) = Bytes(e + 1 - 1, e + n)
  BY <1>0, <1>3, BytesPart
<1>6. WholeBlocks(Bytes(e, r)) = Bytes(e, r - over)
  BY <1>3, <1>4, <1>5, Zenon
<1> QED
  BY <1>2, <1>6, SMT DEF over

LEMMA Decrypts ==
  ASSUME NEW e \in Nat, NEW u \in Nat, e <= u, register = Bytes(e - Block, e)
  PROVE  decrypt(Bytes(e, u)) = Bytes(e, u)
<1> DEFINE a    == e - Block
           text == Bytes(e, u)
           fed  == register \o text
<1>0. e \in Int /\ u \in Int
  OBVIOUS
<1>1. text \in Seq(Int) /\ Len(text) = u - e
  BY <1>0, BytesAre
<1>2. \A i \in 1 .. u - e : text[i] = e + i
  BY BytesAt
<1>3. a \in Int /\ a <= e /\ Block \in Nat /\ Block >= 1
  BY BlockAssumption
<1> HIDE DEF a
<1>4. fed = Bytes(a, u)
  <2>1. Bytes(a, e) \o Bytes(e, u) = Bytes(a, u)
    BY <1>0, <1>3, BytesJoin
  <2> QED
    BY <2>1 DEF a
<1> HIDE DEF text, fed
<1>5. \A i \in 1 .. u - e :
        SubSeq(fed, i, i + Block - 1) = Bytes(text[i] - Block - 1, text[i] - 1)
  <2> SUFFICES ASSUME NEW i \in 1 .. u - e
               PROVE  SubSeq(fed, i, i + Block - 1) = Bytes(text[i] - Block - 1, text[i] - 1)
    OBVIOUS
  <2> DEFINE j == i + Block - 1
  <2>1. a + i - 1 = text[i] - Block - 1 /\ a + j = text[i] - 1
    BY <1>2, <1>3 DEF a
  <2>2. a <= u /\ i \in 1 .. u - a + 1 /\ j \in i - 1 .. u - a
    BY <1>0, <1>3 DEF a
  <2> HIDE DEF j
  <2>3. SubSeq(Bytes(a, u), i, j) = Bytes(a + i - 1, a + j)
    BY <1>0, <1>3, <2>2, BytesPart
  <2> QED
    BY <1>4, <2>1, <2>3 DEF j
<1>6. decrypt(text) = [i \in 1 .. Len(text) |-> text[i]]
  BY <1>1, <1>5 DEF decrypt, fed
<1>7. text = [i \in 1 .. Len(text) |-> text[i]]
  BY <1>1
<1> QED
  BY <1>6, <1>7 DEF text

-----------------------------------------------------------------------------
(* onLengthReceive, of a buffer that begins where a frame does. *)

LEMMA Ends ==
  /\ Frames \in Nat \ {0} /\ ClearFrames \in 1 .. Frames /\ End[0] = 0
  /\ \A f \in 0 .. Frames : End[f] \in Nat /\ End[f] \in Int
  /\ \A f, g \in 0 .. Frames : End[f] < End[g] <=> f < g
  /\ \A f, g \in 0 .. Frames : End[f] <= End[g] <=> f <= g
  /\ \A f \in 1 .. Frames : f - 1 \in 0 .. Frames /\ f \in 0 .. Frames
  /\ \A f \in 1 .. Frames : VarInt[f] \in Nat \ {0} /\ End[f - 1] < End[f]
<1>1. \A f \in 0 .. Frames : End[f] \in Nat
  BY FramesAssumption
<1>2. \A f, g \in 0 .. Frames : f < g => End[f] < End[g]
  BY FramesAssumption
<1>3. \A f, g \in 0 .. Frames : f < g \/ f = g \/ g < f
  BY FramesAssumption
<1>4. \A f, g \in 0 .. Frames :
        (End[f] < End[g] <=> f < g) /\ (End[f] <= End[g] <=> f <= g)
  <2> TAKE f, g \in 0 .. Frames
  <2>1. End[f] \in Nat /\ End[g] \in Nat /\ f \in Int /\ g \in Int
    BY <1>1
  <2>2. CASE f < g
    BY <1>2, <2>1, <2>2
  <2>3. CASE f = g
    BY <2>1, <2>3
  <2>4. CASE g < f
    BY <1>2, <2>1, <2>4
  <2> QED
    BY <1>3, <2>2, <2>3, <2>4
<1>5. \A f \in 1 .. Frames : f - 1 \in 0 .. Frames /\ f \in 0 .. Frames /\ f - 1 < f
  BY FramesAssumption
<1>6. \A f \in 1 .. Frames : End[f - 1] < End[f]
  BY <1>2, <1>5
<1> QED
  BY <1>1, <1>4, <1>5, <1>6, FramesAssumption

LEMMA AtNextFrame ==
  ASSUME NEW n \in 0 .. Frames, NEW b \in Int, End[n] < b, NEW f \in 1 .. Frames
  PROVE  AtFrame(Bytes(End[n], b), f) <=> f = n + 1
<1> DEFINE a    == End[n]
           c    == End[f - 1]
           buf  == Bytes(a, b)
           seen == IF Len(buf) < VarInt[f] THEN Len(buf) ELSE VarInt[f]
<1>1. a \in Int /\ c \in Int /\ VarInt[f] \in Nat \ {0} /\ n \in Int /\ f \in Int
  BY Ends
<1>2. a = c <=> f = n + 1
  <2>1. f - 1 \in 0 .. Frames
    BY Ends
  <2>2. a = c => n <= f - 1 /\ f - 1 <= n
    <3>1. a = c => a <= c /\ c <= a
      BY <1>1
    <3> QED
      BY <2>1, <3>1, Ends
  <2>3. f = n + 1 => f - 1 = n
    BY <1>1
  <2> QED
    BY <1>1, <2>2, <2>3
<1>3. AtFrame(buf, f) <=> seen > 0 /\ SubSeq(buf, 1, seen) = Bytes(c, c + seen)
  BY DEF AtFrame
<1> HIDE DEF a, c
<1>4. a < b
  BY DEF a
<1>5. Len(buf) = b - a
  BY <1>1, <1>4, BytesAre
<1> HIDE DEF buf
<1>6. seen \in Int /\ seen >= 1 /\ seen <= b - a
  BY <1>1, <1>4, <1>5
<1> HIDE DEF seen
<1>7. 1 \in 1 .. b - a + 1 /\ seen \in 1 - 1 .. b - a /\ a + 1 - 1 = a
      /\ a < a + seen /\ c < c + seen /\ a <= b /\ a + seen \in Int /\ c + seen \in Int
  BY <1>1, <1>4, <1>6
<1>8. SubSeq(Bytes(a, b), 1, seen) = Bytes(a + 1 - 1, a + seen)
  BY <1>1, <1>7, BytesPart
<1>9. SubSeq(buf, 1, seen) = Bytes(a, a + seen)
  BY <1>7, <1>8 DEF buf
<1>10. Bytes(a, a + seen) = Bytes(c, c + seen) => a = c
  BY <1>1, <1>7, BytesDiffer
<1>11. AtFrame(buf, f) <=> a = c
  BY <1>3, <1>6, <1>9, <1>10
<1> QED
  BY <1>2, <1>11 DEF a, c, buf

LEMMA FrameStep ==
  ASSUME NEW n \in 0 .. Frames, NEW b \in Int, End[n] <= b, b <= End[Frames],
         handled = [i \in 1 .. n |-> i], OneFrame(Bytes(End[n], b))
  PROVE  \E k \in {n, n + 1} :
            /\ k \in 0 .. Frames /\ End[k] <= b
            /\ handled' = [i \in 1 .. k |-> i]
            /\ buffer' = Bytes(End[k], b)
            /\ n < Frames /\ End[n + 1] <= b => k = n + 1
<1> DEFINE a   == End[n]
           buf == Bytes(a, b)
<1>1. n \in Int /\ n \in Nat /\ a \in Int /\ Len(buf) = b - a
  <2>1. n \in Nat /\ a \in Int /\ a <= b
    BY Ends
  <2> HIDE DEF a
  <2> QED
    BY <2>1, BytesAre
<1>2. CASE a = b
  <2>1. Len(buf) = 0 /\ buf \in Seq(Int)
    BY <1>1, <1>2, BytesAre
  <2>2. buf = <<>>
    BY <2>1, EmptySeq
  <2>3. \A f \in 1 .. Frames : ~AtFrame(buf, f)
    BY <2>1 DEF AtFrame
  <2>4. Keep(buf)
    BY <2>2, <2>3 DEF OneFrame
  <2>5. n < Frames => n + 1 \in 0 .. Frames /\ n < n + 1
    BY <1>1, Ends
  <2>6. n < Frames => ~(End[n + 1] <= b)
    <3>1. n < Frames => End[n] < End[n + 1] /\ End[n + 1] \in Int
      BY <2>5, Ends
    <3> QED
      BY <1>1, <1>2, <3>1
  <2> QED
    BY <2>4, <2>6 DEF Keep
<1>3. CASE a # b
  <2>1. a < b /\ buf # <<>>
    <3>1. a < b
      BY <1>1, <1>3
    <3>2. Len(buf) # 0
      BY <1>1, <3>1
    <3> QED
      BY <3>1, <3>2
  <2>2. n + 1 \in 1 .. Frames
    <3>1. Frames \in 0 .. Frames /\ End[n] < End[Frames]
      <4>1. Frames \in 0 .. Frames /\ End[Frames] \in Int
        BY Ends
      <4> QED
        BY <1>1, <2>1, <4>1
    <3>2. n < Frames
      BY <3>1, Ends
    <3> QED
      BY <1>1, <3>2, Ends
  <2>3. \A f \in 1 .. Frames : AtFrame(buf, f) <=> f = n + 1
    BY <2>1, AtNextFrame
  <2> HIDE DEF buf
  <2>4. IF Complete(buf, n + 1)
        THEN Take(buf, Size(n + 1), Content(buf, n + 1)) ELSE Keep(buf)
    BY <2>1, <2>2, <2>3 DEF OneFrame, buf
  <2> DEFINE d == End[n + 1]
  <2>5. /\ d \in Int /\ a < d /\ Size(n + 1) = d - a
        /\ Complete(buf, n + 1) <=> b - a >= d - a
        /\ Complete(buf, n + 1) <=> d <= b
    <3>1. (n + 1) - 1 = n /\ d \in Int /\ End[(n + 1) - 1] < End[n + 1]
      BY <1>1, <2>2, Ends
    <3>2. Size(n + 1) = d - a
      BY <3>1 DEF Size
    <3>3. Complete(buf, n + 1) <=> b - a >= d - a
      BY <1>1, <3>2 DEF Complete
    <3> QED
      BY <1>1, <3>1, <3>2, <3>3
  <2>6. CASE Complete(buf, n + 1)
    <3> DEFINE p == d - a
               q == p + 1
               l == b - a
    <3>0. a \in Int /\ b \in Int /\ d \in Int /\ a < d /\ d <= b
      BY <1>1, <2>1, <2>5, <2>6
    <3> HIDE DEF a, d
    <3>1. /\ d <= b /\ a <= b /\ 1 \in 1 .. b - a + 1 /\ p \in 1 - 1 .. b - a
          /\ q \in 1 .. b - a + 1 /\ l \in q - 1 .. b - a
          /\ a + 1 - 1 = a /\ a + p = d /\ a + q - 1 = d /\ a + l = b
      BY <3>0
    <3> HIDE DEF a, d, p, q, l
    <3>2. SubSeq(Bytes(a, b), 1, p) = Bytes(a + 1 - 1, a + p)
      BY <1>1, <3>1, BytesPart
    <3>3. SubSeq(Bytes(a, b), q, l) = Bytes(a + q - 1, a + l)
      BY <1>1, <3>1, BytesPart
    <3>4. (n + 1) - 1 = n
      BY <1>1
    <3>5. Content(buf, n + 1) = n + 1
      BY <2>5, <3>1, <3>2, <3>4 DEF Content, buf, a, d, p
    <3>6. buffer' = Bytes(d, b)
      BY <1>1, <2>4, <2>5, <2>6, <3>1, <3>3 DEF Take, buf, p, q, l
    <3>7. handled' = Append(handled, n + 1)
      BY <2>4, <2>6, <3>5 DEF Take
    <3>8. handled' = [i \in 1 .. n + 1 |-> i]
      BY <1>1, <3>7
    <3> QED
      BY <2>2, <3>1, <3>6, <3>8 DEF d
  <2>7. CASE ~Complete(buf, n + 1)
    BY <2>4, <2>5, <2>7 DEF Keep, buf
  <2> QED
    BY <2>6, <2>7
<1> QED
  BY <1>2, <1>3

-----------------------------------------------------------------------------
(* The inductive invariant. *)

\* How far the reads have brought the stream into the buffer.
Upto == received - (IF encrypted THEN (received - End[ClearFrames]) % Block ELSE 0)

(* The first k frames are handled, and the buffer has what follows up to b. *)
Stands(k, b) ==
  /\ k \in 0 .. Frames /\ End[k] <= b
  /\ handled = [i \in 1 .. k |-> i]
  /\ buffer = Bytes(End[k], b)

\* The bytes of the first ClearFrames frames come first.
Reads ==
  /\ received \in 0 .. End[Frames] /\ rounds \in Nat /\ encrypted \in BOOLEAN
  /\ ~encrypted => rounds = 0 /\ received <= End[ClearFrames]
  /\ encrypted => End[ClearFrames] <= received

\* Until something is decrypted, the register stands behind them.
NotDecrypted ==
  rounds = 0 =>
    /\ encryptedBuffer = <<>>
    /\ register = Bytes(End[ClearFrames] - Block, End[ClearFrames])
    /\ encrypted => received = End[ClearFrames]

Inv ==
  /\ Reads /\ NotDecrypted
  /\ rounds <= 1 => \E k \in 0 .. Frames : Stands(k, Upto)

LEMMA NoBytes == ASSUME NEW a \in Int PROVE Bytes(a, a) = <<>>
<1> DEFINE s == Bytes(a, a)
<1>1. s \in Seq(Int) /\ Len(s) = 0
  BY BytesAre
<1> HIDE DEF s
<1>2. s = <<>>
  BY <1>1, EmptySeq
<1> QED
  BY <1>2 DEF s

LEMMA NoRest == 0 % Block = 0
  BY BlockAssumption

LEMMA InitInv == Init => Inv
<1> SUFFICES ASSUME Init PROVE Inv
  OBVIOUS
<1>1. 0 \in 0 .. Frames /\ End[0] = 0 /\ End[ClearFrames] \in Nat /\ End[Frames] \in Nat
  BY Ends
<1>2. Upto = 0
  BY DEF Init, Upto
<1>3. handled = [i \in 1 .. 0 |-> i]
  BY DEF Init
<1>4. Stands(0, Upto)
  BY <1>1, <1>2, <1>3, NoBytes DEF Init, Stands
<1>5. Reads
  <2>1. received \in 0 .. End[Frames] /\ rounds \in Nat /\ received <= End[ClearFrames]
    BY <1>1 DEF Init
  <2> QED
    BY <2>1, Zenon DEF Init, Reads
<1>6. NotDecrypted
  BY DEF Init, NotDecrypted
<1> QED
  BY <1>1, <1>4, <1>5, <1>6 DEF Inv

LEMMA ReadClearKeeps ==
  ASSUME Inv, NEW n \in 1 .. End[Frames], ReadClear(n)
  PROVE  Inv'
<1> DEFINE b == received + n
<1>1. /\ rounds = 0 /\ encrypted = FALSE /\ b <= End[ClearFrames]
      /\ received' = b /\ encrypted' = FALSE /\ rounds' = 0
      /\ encryptedBuffer' = <<>> /\ register' = register
  BY DEF ReadClear, Inv, Reads, NotDecrypted
<1>2. /\ End[ClearFrames] \in Int /\ End[Frames] \in Int /\ End[ClearFrames] <= End[Frames]
      /\ ClearFrames \in 0 .. Frames
  BY Ends
<1>3. received \in Int /\ received <= b /\ b \in 0 .. End[Frames]
  BY <1>1, <1>2 DEF Inv, Reads, NotDecrypted
<1>4. PICK k \in 0 .. Frames : Stands(k, received)
  BY <1>1 DEF Inv, Reads, Upto
<1>5. /\ End[k] \in Int /\ End[k] <= received /\ End[k] <= b
      /\ handled = [i \in 1 .. k |-> i] /\ buffer = Bytes(End[k], received)
  BY <1>3, <1>4, Ends DEF Stands
<1>6. OneFrame(buffer \o Bytes(received, b))
  BY DEF ReadClear
<1> HIDE DEF b
<1>7. buffer \o Bytes(received, b) = Bytes(End[k], b)
  <2>1. b \in Int
    BY <1>3
  <2> QED
    BY <1>3, <1>5, <2>1, BytesJoin
<1>8. b \in Int /\ b <= End[Frames]
  BY <1>2, <1>3
<1>9. PICK j \in {k, k + 1} :
         /\ j \in 0 .. Frames /\ End[j] <= b
         /\ handled' = [i \in 1 .. j |-> i] /\ buffer' = Bytes(End[j], b)
  BY <1>5, <1>6, <1>7, <1>8, FrameStep
<1>10. Upto' = b
  BY <1>1, <1>8 DEF Upto
<1>11. Stands(j, Upto)'
  BY <1>9, <1>10 DEF Stands
<1>12. Reads'
  BY <1>1, <1>3 DEF Inv, Reads, NotDecrypted
<1>13. NotDecrypted'
  BY <1>1 DEF Inv, Reads, NotDecrypted
<1> QED
  BY <1>9, <1>11, <1>12, <1>13 DEF Inv, Reads, NotDecrypted

LEMMA HasJoinedKeeps == ASSUME Inv, HasJoined PROVE Inv'
<1> DEFINE e == End[ClearFrames]
<1>1. /\ rounds = 0 /\ ~encrypted /\ received <= e
      /\ received' = received /\ encrypted' /\ encrypted' = TRUE /\ rounds' = 0
      /\ encryptedBuffer' = <<>> /\ register' = register /\ handled' = handled
      /\ buffer' = <<>>
  BY DEF HasJoined, Inv, Reads, NotDecrypted
<1>2. e \in Int /\ ClearFrames \in 0 .. Frames
  BY Ends
<1>3. received \in Int
  BY <1>2, Ends DEF Inv, Reads, NotDecrypted
<1>4. PICK k \in 0 .. Frames : Stands(k, received)
  BY <1>1, <1>3 DEF Inv, Reads, Upto
<1>5. /\ End[k] \in Int /\ End[k] <= received
      /\ handled = [i \in 1 .. k |-> i]
  BY <1>4, Ends DEF Stands
<1>6. ClearFrames <= k
  <2>1. ClearFrames \in {handled[i] : i \in DOMAIN handled}
    BY DEF HasJoined
  <2>2. PICK i \in 1 .. k : handled[i] = ClearFrames
    BY <1>5, <2>1
  <2> QED
    BY <1>5, <2>2
<1>7. e <= End[k]
  BY <1>2, <1>6, Ends
<1>8. received = e /\ End[k] = e
  BY <1>1, <1>2, <1>3, <1>5, <1>7
<1>9. Upto' = e
  <2>1. received - e = 0
    BY <1>2, <1>8
  <2> QED
    BY <1>1, <1>2, <1>8, <2>1, NoRest DEF Upto
<1>10. buffer' = Bytes(End[k], e)
  BY <1>1, <1>2, <1>8, NoBytes
<1>11. Stands(k, Upto)'
  BY <1>1, <1>2, <1>5, <1>8, <1>9, <1>10 DEF Stands
<1>12. Reads'
  BY <1>1, <1>2, <1>8 DEF Inv, Reads, NotDecrypted
<1>13. NotDecrypted'
  BY <1>1, <1>8 DEF Inv, Reads, NotDecrypted
<1> QED
  BY <1>11, <1>12, <1>13 DEF Inv, Reads, NotDecrypted

LEMMA ReadEncryptedKeeps ==
  ASSUME Inv, NEW n \in 1 .. End[Frames], ReadEncrypted(n)
  PROVE  Inv'
<1> DEFINE e == End[ClearFrames]
           r == received + n
<1>1. /\ encrypted /\ encrypted' = encrypted /\ received' = r /\ r <= End[Frames]
      /\ rounds' = rounds + 1 /\ rounds \in Nat /\ received \in 0 .. End[Frames]
      /\ e <= received
  BY DEF ReadEncrypted, Inv, Reads
<1>2. e \in Nat /\ End[Frames] \in Nat /\ received \in Nat /\ r \in Nat /\ e <= r
  BY <1>1, Ends
<1>3. received' \in 0 .. End[Frames] /\ rounds' \in Nat /\ rounds' # 0
  BY <1>1, <1>2
<1>4. Reads' /\ NotDecrypted'
  BY <1>1, <1>2, <1>3 DEF Inv, Reads, NotDecrypted
<1>5. ASSUME rounds = 0 PROVE \E k \in 0 .. Frames : Stands(k, Upto)'
  <2> DEFINE u == r - ((r - e) % Block)
  <2>1. received = e /\ encryptedBuffer = <<>> /\ register = Bytes(e - Block, e)
    BY <1>1, <1>5 DEF Inv, Reads, NotDecrypted
  <2>2. encryptedBuffer' = Bytes(e, r)
    <3>1. encryptedBuffer' = <<>> \o Bytes(e, r)
      BY <2>1 DEF ReadEncrypted
    <3>2. Bytes(e, r) \in Seq(Int)
      <4>1. e \in Int /\ r \in Int
        BY <1>2
      <4> HIDE DEF e, r
      <4> QED
        BY <1>2, <4>1, BytesAre
    <3> HIDE DEF e, r
    <3> QED
      BY <3>1, <3>2, ConcatEmptySeq
  <2>3. OneFrame(buffer \o decrypt(WholeBlocks(Bytes(e, r))))
    BY <2>2 DEF ReadEncrypted
  <2>4. Upto' = u
    BY <1>1 DEF Upto
  <2>5. PICK k \in 0 .. Frames : Stands(k, Upto)
    BY <1>5 DEF Inv, Reads, NotDecrypted
  <2>6. Upto = e
    <3>1. received - e = 0
      BY <1>2, <2>1
    <3> QED
      BY <1>1, <1>2, <2>1, <3>1, NoRest DEF Upto
  <2>7. /\ End[k] \in Int /\ End[k] <= e /\ End[Frames] \in Int
        /\ handled = [i \in 1 .. k |-> i] /\ buffer = Bytes(End[k], e)
    BY <2>5, <2>6, Ends DEF Stands
  <2> HIDE DEF e, r
  <2>8. WholeBlocks(Bytes(e, r)) = Bytes(e, u) /\ (r - e) % Block \in 0 .. r - e
    BY <1>2, WholeBlocksAre
  <2>9. u \in Nat /\ u \in Int /\ e \in Int /\ e <= u /\ u <= r /\ u <= End[Frames]
        /\ End[k] <= u
    BY <1>1, <1>2, <2>7, <2>8
  <2> HIDE DEF u
  <2>10. decrypt(Bytes(e, u)) = Bytes(e, u)
    BY <1>2, <2>1, <2>9, Decrypts
  <2>11. buffer \o Bytes(e, u) = Bytes(End[k], u)
    BY <2>7, <2>9, BytesJoin
  <2>12. OneFrame(Bytes(End[k], u))
    BY <2>3, <2>8, <2>10, <2>11
  <2>13. PICK j \in {k, k + 1} :
           /\ j \in 0 .. Frames /\ End[j] <= u
           /\ handled' = [i \in 1 .. j |-> i] /\ buffer' = Bytes(End[j], u)
    BY <2>7, <2>9, <2>12, FrameStep
  <2>14. Stands(j, Upto)'
    BY <2>4, <2>13 DEF Stands
  <2> QED
    BY <2>13, <2>14
<1>6. rounds # 0 => ~(rounds' <= 1)
  BY <1>1
<1> QED
  BY <1>4, <1>5, <1>6 DEF Inv, Reads, NotDecrypted

LEMMA NextKeeps == Inv /\ [Next]_vars => Inv'
<1> SUFFICES ASSUME Inv, [Next]_vars PROVE Inv'
  OBVIOUS
<1>1. CASE Next
  BY <1>1, ReadClearKeeps, ReadEncryptedKeeps, HasJoinedKeeps DEF Next
<1>2. CASE UNCHANGED vars
  BY <1>2 DEF vars, Inv, Reads, NotDecrypted, Upto, Stands
<1> QED
  BY <1>1, <1>2

LEMMA InvIsOrder == Inv => FramesInOrder /\ BufferIsStream
<1> SUFFICES ASSUME Inv, rounds <= 1 PROVE InOrder /\ buffer = Bytes(End[Len(handled)], Upto)
  BY DEF FramesInOrder, BufferIsStream, Upto
<1>1. PICK k \in 0 .. Frames : Stands(k, Upto)
  BY DEF Inv, Reads, NotDecrypted
<1>2. handled = [i \in 1 .. k |-> i] /\ buffer = Bytes(End[k], Upto)
  BY <1>1 DEF Stands
<1>3. Len(handled) = k
  BY <1>2
<1> QED
  BY <1>2, <1>3 DEF InOrder

(* For any stream of frames, and however the reads cut it, onLengthReceive hands
   out the clear frames, and those of the first encrypted read, each once, whole
   and in their order. *)
THEOREM FramesHandledInOrder == Spec => []FramesInOrder
<1> QED
  BY InitInv, NextKeeps, InvIsOrder, PTL DEF Spec

(* And its buffer holds the stream from the last of them on, without a gap. *)
THEOREM BufferHoldsStream == Spec => []BufferIsStream
<1> QED
  BY InitInv, NextKeeps, InvIsOrder, PTL DEF Spec

-----------------------------------------------------------------------------
(* Types. *)

LEMMA OneFrameTyped ==
  ASSUME NEW buf \in Seq(Int), OneFrame(buf),
         handled \in Seq(0 .. Frames), armed \in BOOLEAN
  PROVE  buffer' \in Seq(Int) /\ handled' \in Seq(0 .. Frames) /\ armed' \in BOOLEAN
<1>1. CASE Keep(buf)
  BY <1>1 DEF Keep
<1>2. ASSUME NEW n \in Nat, NEW f \in 0 .. Frames, Take(buf, n, f)
      PROVE  buffer' \in Seq(Int) /\ handled' \in Seq(0 .. Frames) /\ armed' \in BOOLEAN
  <2> DEFINE m == n + 1
             l == Len(buf)
  <2>1. m \in Int /\ l \in Int /\ \A i \in m .. l : i \in 1 .. Len(buf)
    BY LenProperties
  <2>2. \A i \in m .. l : buf[i] \in Int
    BY <2>1, ElementOfSeq
  <2>3. buffer' = SubSeq(buf, m, l) /\ handled' = Append(handled, f) /\ armed' = TRUE
    BY <1>2 DEF Take
  <2> HIDE DEF m, l
  <2>4. SubSeq(buf, m, l) \in Seq(Int)
    BY <2>1, <2>2, SubSeqProperties
  <2> QED
    BY <2>3, <2>4
<1>3. ASSUME NEW f \in 1 .. Frames
      PROVE  Size(f) \in Nat /\ Content(buf, f) \in 0 .. Frames
  <2>1. End[f] \in Int /\ End[f - 1] \in Int /\ End[f - 1] < End[f]
    BY Ends
  <2>2. Size(f) \in Nat
    BY <2>1 DEF Size
  <2>3. Content(buf, f) \in {f, 0}
    BY DEF Content, Junk
  <2> QED
    BY <2>2, <2>3, Ends
<1>4. ASSUME NEW f \in 1 .. Frames,
             IF Complete(buf, f) THEN Take(buf, Size(f), Content(buf, f)) ELSE Keep(buf)
      PROVE  buffer' \in Seq(Int) /\ handled' \in Seq(0 .. Frames) /\ armed' \in BOOLEAN
  BY <1>1, <1>2, <1>3, <1>4
<1>5. ASSUME NEW n \in 1 .. Len(buf), Take(buf, n, Junk)
      PROVE  buffer' \in Seq(Int) /\ handled' \in Seq(0 .. Frames) /\ armed' \in BOOLEAN
  <2>1. n \in Nat /\ Junk \in 0 .. Frames
    BY Ends DEF Junk
  <2> QED
    BY <1>2, <1>5, <2>1
<1>6. CASE armed' = FALSE /\ buffer' = buf /\ UNCHANGED handled
  BY <1>6
<1> QED
  BY <1>1, <1>4, <1>5, <1>6 DEF OneFrame

LEMMA DecryptTyped ==
  ASSUME NEW text \in Seq(Int)
  PROVE  decrypt(text) \in Seq(Int)
<1>1. Len(text) \in Nat /\ \A i \in 1 .. Len(text) : text[i] \in Int
  BY LenProperties, ElementOfSeq
<1>2. decrypt(text) \in [1 .. Len(text) -> Int]
  BY <1>1 DEF decrypt, Junk
<1> QED
  BY <1>1, <1>2, SeqDef

LEMMA WholeBlocksTyped ==
  ASSUME NEW text \in Seq(Int)
  PROVE  WholeBlocks(text) \in Seq(Int)
<1> DEFINE l == Len(text) - (Len(text) % Block)
<1>1. Len(text) \in Nat /\ l \in Int /\ \A i \in 1 .. l : i \in 1 .. Len(text)
  BY LenProperties, BlockAssumption
<1>2. \A i \in 1 .. l : text[i] \in Int
  BY <1>1, ElementOfSeq
<1>3. WholeBlocks(text) = SubSeq(text, 1, l)
  BY DEF WholeBlocks
<1> HIDE DEF l
<1> QED
  BY <1>1, <1>2, <1>3, SubSeqProperties

(* The register stays full: what it was fed comes behind what it holds. *)
LEMMA LastTyped ==
  ASSUME NEW text \in Seq(Int), register \in [1 .. Block -> Int]
  PROVE  Last(register \o text) \in [1 .. Block -> Int]
<1> DEFINE s == register \o text
           l == Len(s)
           m == l - Block + 1
<1>1. register \in Seq(Int) /\ Len(register) = Block /\ Block \in Nat
  BY SeqDef, BlockAssumption
<1>2. Len(text) \in Nat
  BY LenProperties
<1>3. s \in Seq(Int)
  BY <1>1, ConcatProperties
<1>4. l = Block + Len(text)
  BY <1>1, ConcatProperties
<1>5. Last(s) = SubSeq(s, m, l)
  BY DEF Last
<1> HIDE DEF s
<1>6. m \in Int /\ l \in Int /\ (\A i \in m .. l : i \in 1 .. Len(s)) /\ l - m + 1 = Block
  BY <1>1, <1>2, <1>4
<1>7. \A i \in m .. l : s[i] \in Int
  BY <1>3, <1>6, ElementOfSeq
<1> HIDE DEF l, m
<1>8. /\ SubSeq(s, m, l) \in Seq(Int)
      /\ Len(SubSeq(s, m, l)) = IF m <= l THEN l - m + 1 ELSE 0
  BY <1>6, <1>7, SubSeqProperties
<1>9. Len(SubSeq(s, m, l)) = Block
  BY <1>1, <1>6, <1>8, BlockAssumption
<1>10. SubSeq(s, m, l) \in [1 .. Block -> Int]
  BY <1>8, <1>9, LenProperties
<1> QED
  BY <1>5, <1>10 DEF s

LEMMA ExtraTyped ==
  ASSUME NEW a, NEW b
  PROVE  /\ Extra(a, b) \in Nat
         /\ LET E == {f \in 1 .. Frames : a < End[f] /\ End[f] <= b}
            IN  /\ IsFiniteSet(E) /\ Cardinality(E) \in Nat
                /\ E # {} => Extra(a, b) = Cardinality(E) - 1
                /\ E = {} => Extra(a, b) = 0 /\ Cardinality(E) = 0
<1> DEFINE E == {f \in 1 .. Frames : a < End[f] /\ End[f] <= b}
           n == Cardinality(E)
<1>1. IsFiniteSet(1 .. Frames)
  BY FS_Interval, Ends
<1>2. IsFiniteSet(E)
  BY <1>1, FS_Subset
<1>3. n \in Nat /\ (n = 0 <=> E = {})
  BY <1>2, FS_CardinalityType, FS_EmptySet
<1>4. Extra(a, b) = IF n = 0 THEN 0 ELSE n - 1
  BY DEF Extra
<1> HIDE DEF E
<1> QED
  BY <1>2, <1>3, <1>4 DEF E

LEMMA TypedInit == Init => TypeOK
<1> SUFFICES ASSUME Init PROVE TypeOK
  OBVIOUS
<1>1. <<>> \in Seq(Int) /\ <<>> \in Seq(0 .. Frames)
  OBVIOUS
<1>2. End[Frames] \in Nat /\ End[ClearFrames] \in Int /\ End[ClearFrames] - Block \in Int
      /\ End[ClearFrames] - (End[ClearFrames] - Block) = Block
  BY Ends, BlockAssumption
<1>3. register \in [1 .. Block -> Int]
  BY <1>2 DEF Init, Bytes
<1>4. received \in 0 .. End[Frames] /\ rounds \in 0 .. MaxReads /\ merged \in Nat
  BY <1>2, BlockAssumption DEF Init
<1> QED
  BY <1>1, <1>3, <1>4, Zenon DEF Init, TypeOK

LEMMA TypedNext == Inv /\ TypeOK /\ [Next]_vars => TypeOK'
<1> SUFFICES ASSUME Inv, TypeOK, [Next]_vars PROVE TypeOK'
  OBVIOUS
<1>1. ASSUME NEW n \in 1 .. End[Frames], ReadClear(n) PROVE TypeOK'
  <2> DEFINE r == received + n
             buf == buffer \o Bytes(received, r)
             extra == Extra(received, r)
  <2>1. received \in Int /\ r \in Int /\ received <= r /\ r \in 0 .. End[Frames]
    <3>1. End[ClearFrames] \in Int /\ End[Frames] \in Int /\ End[ClearFrames] <= End[Frames]
      BY Ends
    <3> QED
      BY <1>1, <3>1 DEF ReadClear, TypeOK
  <2>2. Bytes(received, r) \in Seq(Int)
    BY <2>1, BytesAre
  <2>3. buf \in Seq(Int) /\ OneFrame(buf)
    BY <1>1, <2>2, ConcatProperties DEF TypeOK, ReadClear
  <2>4. extra \in Nat
    BY ExtraTyped
  <2>5. merged' \in Nat
    BY <1>1, <2>4 DEF ReadClear, TypeOK
  <2>6. received' \in 0 .. End[Frames]
    BY <1>1, <2>1 DEF ReadClear
  <2> HIDE DEF buf
  <2>7. buffer' \in Seq(Int) /\ handled' \in Seq(0 .. Frames) /\ armed' \in BOOLEAN
    BY <2>3, OneFrameTyped DEF TypeOK
  <2>8. UNCHANGED <<encrypted, encryptedBuffer, register, rounds>>
    BY <1>1 DEF ReadClear
  <2> QED
    BY <2>5, <2>6, <2>7, <2>8, Zenon DEF TypeOK
<1>2. ASSUME NEW n \in 1 .. End[Frames], ReadEncrypted(n) PROVE TypeOK'
  <2> DEFINE r == received + n
             text == WholeBlocks(encryptedBuffer')
             buf == buffer \o decrypt(text)
  <2>1. received \in Int /\ r \in Int /\ received <= r /\ r \in 0 .. End[Frames]
    <3>1. End[Frames] \in Int
      BY Ends
    <3> QED
      BY <1>2, <3>1 DEF ReadEncrypted, TypeOK
  <2>2. Bytes(received, r) \in Seq(Int)
    BY <2>1, BytesAre
  <2>3. encryptedBuffer' \in Seq(Int)
    BY <1>2, <2>2, ConcatProperties DEF ReadEncrypted, TypeOK
  <2>4. text \in Seq(Int)
    BY <2>3, WholeBlocksTyped
  <2>5. OneFrame(buf) /\ register' = Last(register \o text)
    BY <1>2 DEF ReadEncrypted
  <2> HIDE DEF text
  <2>6. buf \in Seq(Int)
    BY <2>4, DecryptTyped, ConcatProperties DEF TypeOK
  <2>7. register' \in [1 .. Block -> Int]
    BY <2>4, <2>5, LastTyped DEF TypeOK
  <2> HIDE DEF buf
  <2>8. buffer' \in Seq(Int) /\ handled' \in Seq(0 .. Frames) /\ armed' \in BOOLEAN
    BY <2>5, <2>6, OneFrameTyped DEF TypeOK
  <2>9. received' \in 0 .. End[Frames] /\ rounds' \in 0 .. MaxReads
    BY <1>2, <2>1, BlockAssumption DEF ReadEncrypted, TypeOK
  <2>10. UNCHANGED <<encrypted, merged>>
    BY <1>2 DEF ReadEncrypted
  <2> QED
    BY <2>3, <2>7, <2>8, <2>9, <2>10, Zenon DEF TypeOK
<1>3. CASE HasJoined
  <2>1. buffer' \in Seq(Int) /\ encrypted' \in BOOLEAN
    BY <1>3 DEF HasJoined
  <2> QED
    BY <1>3, <2>1, Zenon DEF TypeOK, HasJoined
<1>4. CASE UNCHANGED vars
  BY <1>4, Zenon DEF TypeOK, vars
<1> QED
  BY <1>1, <1>2, <1>3, <1>4 DEF Next

(* The variables of Framing keep their types for any stream and any reads, also
   when what was decrypted is junk. *)
THEOREM FramingTyped == Spec => []TypeOK
<1> QED
  BY InitInv, NextKeeps, TypedInit, TypedNext, PTL DEF Spec

-----------------------------------------------------------------------------
(* How many complete frames wait. *)

\* The clear frames that end up to byte b.
Ended(b) == {f \in 1 .. ClearFrames : End[f] <= b}

LEMMA BacklogInit == Init => Backlog
<1> SUFFICES ASSUME Init PROVE Backlog
  OBVIOUS
<1>1. Ended(0) = {}
  <2> SUFFICES ASSUME NEW f \in 1 .. ClearFrames, End[f] <= 0 PROVE FALSE
    BY DEF Ended
  <2>1. f \in 1 .. Frames
    BY Ends
  <2>2. End[f] \in Int /\ End[f - 1] \in Nat /\ End[f - 1] < End[f]
    BY <2>1, Ends
  <2> QED
    BY <2>2
<1>2. Cardinality(Ended(received)) = 0 /\ Len(handled) = 0 /\ merged = 0
  BY <1>1, FS_EmptySet DEF Init
<1>3. Cardinality(Ended(received)) - Len(handled) <= merged
  BY <1>2
<1> QED
  BY <1>3 DEF Backlog, Ended

LEMMA EndedGrows ==
  ASSUME NEW a \in Int, NEW b \in Int, a <= b, b <= End[ClearFrames]
  PROVE  LET E == {f \in 1 .. Frames : a < End[f] /\ End[f] <= b}
         IN  /\ Cardinality(Ended(a)) \in Nat
             /\ Cardinality(Ended(b)) = Cardinality(Ended(a)) + Cardinality(E)
<1> DEFINE E == {f \in 1 .. Frames : a < End[f] /\ End[f] <= b}
<1>1. IsFiniteSet(1 .. ClearFrames) /\ IsFiniteSet(E)
  <2>1. 1 \in Int /\ ClearFrames \in Int /\ Frames \in Int
    BY Ends
  <2>2. IsFiniteSet(1 .. ClearFrames)
    BY <2>1, FS_Interval
  <2>3. IsFiniteSet(1 .. Frames)
    BY <2>1, FS_Interval
  <2> QED
    BY <2>2, <2>3, FS_Subset
<1>2. IsFiniteSet(Ended(a)) /\ Cardinality(Ended(a)) \in Nat /\ Cardinality(E) \in Nat
  BY <1>1, FS_Subset, FS_CardinalityType DEF Ended
<1>3. \A f \in 1 .. Frames : End[f] \in Int /\ (End[f] <= b => f \in 1 .. ClearFrames)
  <2> TAKE f \in 1 .. Frames
  <2>1. End[f] \in Int /\ End[ClearFrames] \in Int
    BY Ends
  <2>2. End[f] <= b => f <= ClearFrames
    <3>1. End[f] <= b => End[f] <= End[ClearFrames]
      BY <2>1
    <3> QED
      BY <3>1, Ends
  <2> QED
    BY <2>1, <2>2, Ends
<1>4. 1 .. ClearFrames \subseteq 1 .. Frames
  BY Ends
<1>5. Ended(b) = Ended(a) \cup E /\ Ended(a) \cap E = {}
  BY <1>3, <1>4 DEF Ended
<1> HIDE DEF E
<1>6. Cardinality(Ended(a) \cup E)
        = Cardinality(Ended(a)) + Cardinality(E) - Cardinality(Ended(a) \cap E)
  BY <1>1, <1>2, FS_Union
<1>7. Cardinality(Ended(b)) = Cardinality(Ended(a)) + Cardinality(E)
  BY <1>2, <1>5, <1>6, FS_EmptySet
<1> QED
  BY <1>2, <1>7 DEF E

LEMMA BacklogStep == Inv /\ TypeOK /\ Backlog /\ [Next]_vars => Backlog'
<1> SUFFICES ASSUME Inv, TypeOK, Backlog, [Next]_vars PROVE Backlog'
  OBVIOUS
<1>1. ASSUME NEW n \in 1 .. End[Frames], ReadClear(n) PROVE Backlog'
  <2> DEFINE a == received
             b == received + n
             E == {f \in 1 .. Frames : a < End[f] /\ End[f] <= b}
             c == Cardinality(E)
  <2>1. /\ ~encrypted /\ encrypted' = encrypted /\ rounds = 0
        /\ b <= End[ClearFrames] /\ received' = b /\ merged' = merged + Extra(a, b)
        /\ a \in Int /\ b \in Int /\ a <= b /\ merged \in Nat
        /\ OneFrame(buffer \o Bytes(a, b))
    BY <1>1, Ends DEF ReadClear, TypeOK, Inv, Reads
  <2>2. PICK k \in 0 .. Frames : Stands(k, a)
    BY <2>1 DEF Inv, Upto
  <2>3. /\ End[k] \in Int /\ End[k] <= a /\ End[Frames] \in Int
        /\ End[ClearFrames] \in Int /\ End[ClearFrames] <= End[Frames]
        /\ handled = [i \in 1 .. k |-> i] /\ buffer = Bytes(End[k], a) /\ k \in Nat
    BY <2>2, Ends DEF Stands
  <2> HIDE DEF a, b
  <2>4. End[k] <= b /\ b <= End[Frames] /\ buffer \o Bytes(a, b) = Bytes(End[k], b)
    <3>1. End[k] <= b /\ b <= End[Frames]
      BY <2>1, <2>3
    <3>2. Bytes(End[k], a) \o Bytes(a, b) = Bytes(End[k], b)
      BY <2>1, <2>3, BytesJoin
    <3> QED
      BY <2>3, <3>1, <3>2
  <2>5. PICK j \in {k, k + 1} :
          /\ handled' = [i \in 1 .. j |-> i]
          /\ k < Frames /\ End[k + 1] <= b => j = k + 1
    BY <2>1, <2>3, <2>4, FrameStep
  <2>6. Len(handled) = k /\ Len(handled') = j /\ j \in Nat
    BY <2>3, <2>5
  <2>7. E # {} => j = k + 1
    <3> SUFFICES ASSUME NEW f \in E PROVE k < Frames /\ End[k + 1] <= b
      BY <2>5
    <3>0. f \in 1 .. Frames /\ a < End[f] /\ End[f] <= b
      OBVIOUS
    <3> HIDE DEF E
    <3>1. f \in 1 .. Frames /\ End[f] \in Int /\ End[k] < End[f] /\ End[f] <= b
      <4>1. End[f] \in Int
        BY <3>0, Ends
      <4> QED
        BY <2>1, <2>3, <3>0, <4>1
    <3>2. k < f
      BY <3>1, Ends
    <3>3. k + 1 \in 0 .. Frames /\ k + 1 <= f /\ k < Frames
      BY <2>3, <3>1, <3>2, Ends
    <3>4. End[k + 1] \in Int /\ End[k + 1] <= End[f]
      BY <3>1, <3>3, Ends
    <3> QED
      BY <2>1, <3>1, <3>3, <3>4
  <2>8. /\ c \in Nat /\ (E # {} => Extra(a, b) = c - 1)
        /\ (E = {} => Extra(a, b) = 0 /\ c = 0) /\ Extra(a, b) \in Nat
    BY ExtraTyped
  <2>9. /\ Cardinality(Ended(a)) \in Nat
        /\ Cardinality(Ended(b)) = Cardinality(Ended(a)) + c
    BY <2>1, EndedGrows
  <2>10. Cardinality(Ended(a)) - k <= merged
    BY <2>1, <2>6 DEF Backlog, Ended, a
  <2> HIDE DEF E, c
  <2>11. Cardinality(Ended(b)) - j <= merged + Extra(a, b)
    <3> DEFINE x == Cardinality(Ended(a))
               y == Cardinality(Ended(b))
               e == Extra(a, b)
    <3>1. /\ x \in Nat /\ c \in Nat /\ e \in Nat /\ k \in Nat /\ merged \in Nat
          /\ y = x + c /\ x - k <= merged
      BY <2>1, <2>3, <2>8, <2>9, <2>10
    <3>2. (j = k + 1 /\ e = c - 1) \/ (j \in {k, k + 1} /\ c = 0)
      BY <2>5, <2>7, <2>8
    <3> HIDE DEF x, y, e
    <3>3. y - j <= merged + e
      BY <3>1, <3>2
    <3> QED
      BY <3>3 DEF x, y, e
  <2> QED
    BY <2>1, <2>6, <2>11 DEF Backlog, Ended
<1>2. ASSUME NEW n \in 1 .. End[Frames], ReadEncrypted(n) PROVE Backlog'
  BY <1>2 DEF ReadEncrypted, Backlog
<1>3. CASE HasJoined
  BY <1>3 DEF HasJoined, Backlog
<1>4. CASE UNCHANGED vars
  BY <1>4 DEF Backlog, vars
<1> QED
  BY <1>1, <1>2, <1>3, <1>4 DEF Next

(* onLengthReceive handles one frame a read, and no more complete frames wait
   than reads brought beyond the first that each of them completed. *)
THEOREM BacklogBounded == Spec => []Backlog
<1> QED
  BY InitInv, NextKeeps, TypedInit, TypedNext, BacklogInit, BacklogStep, PTL DEF Spec
=============================================================================
