------------------------------ MODULE Framing ------------------------------
(***************************************************************************)
(* The incoming bytes of one connection: Client::onLengthReceive takes what *)
(* a read brought, decrypts it once the login is encrypted, and hands at    *)
(* most one frame to receivedMessage; onHasJoinedPostComplete switches the  *)
(* encryption on.                                                          *)
(*                                                                         *)
(* A byte is its place in the peer's stream, 1, 2, ..., and Junk stands for *)
(* one that was decrypted wrongly. Frame f is the bytes behind End[f - 1]   *)
(* up to End[f]; its first VarInt[f] bytes are the VarInt of its length. The  *)
(* peer sends ClearFrames frames in the clear, the rest encrypted, as soon  *)
(* as LoginSuccessPacket tells it that the server decrypts.                 *)
(***************************************************************************)
EXTENDS Integers, Sequences, FiniteSets

CONSTANTS
  Frames,       \* how many frames the peer sends
  End, VarInt,    \* their places in the stream
  ClearFrames,  \* how many of them it sends before the encryption
  Block,        \* the bytes of a cipher block, 16
  MaxReads      \* bound: reads that are decrypted

Junk == 0

ASSUME FramesAssumption ==
  /\ Frames \in Nat \ {0} /\ ClearFrames \in 1 .. Frames
  /\ End \in [0 .. Frames -> Nat] /\ End[0] = 0
  /\ VarInt \in [1 .. Frames -> Nat \ {0}]
  /\ \A f \in 1 .. Frames : End[f - 1] + VarInt[f] <= End[f]
  /\ \A f, g \in 0 .. Frames : f < g => End[f] < End[g]
ASSUME BlockAssumption == Block \in Nat \ {0} /\ MaxReads \in Nat

VARIABLES
  received,         \* how many bytes the reads have brought
  buffer,           \* Client::buffer
  encrypted,        \* Client::encrypted
  encryptedBuffer,  \* Client::encryptedBuffer
  register,         \* decryptCipherContext: the last Block bytes it was fed
  armed,            \* a read is outstanding
  handled,          \* history: the frames given to receivedMessage
  merged,           \* history: frames completed by a read beyond its first
  rounds            \* history: reads that were decrypted

vars == <<received, buffer, encrypted, encryptedBuffer, register, armed,
          handled, merged, rounds>>

\* The stream's bytes behind a, up to b.
Bytes(a, b) == [i \in 1 .. b - a |-> a + i]

\* A faulty variant shows that the properties notice such a mistake.
SizeBody(f) == End[f] - End[f - 1] - VarInt[f]

\* Frame f, its length's VarInt included.
Size(f) == End[f] - End[f - 1]

Init ==
  /\ received = 0 /\ buffer = <<>>
  /\ encrypted = FALSE /\ encryptedBuffer = <<>>
  /\ register = Bytes(End[ClearFrames] - Block, End[ClearFrames])
  /\ armed = TRUE
  /\ handled = <<>> /\ merged = 0 /\ rounds = 0

-----------------------------------------------------------------------------
(* Client::decrypt: AES-128 in CFB8. A byte comes out right when the Block
   bytes that were fed before it are those before it in the stream; the IV
   stands where the Block bytes before the first encrypted one would. *)

\* Faulty variants show that the properties notice such a mistake.
LastShort(s) == SubSeq(s, Len(s) - Block + 2, Len(s))

Last(s) == SubSeq(s, Len(s) - Block + 1, Len(s))

decrypt(text) ==
  LET fed == register \o text
  IN  [i \in 1 .. Len(text) |->
         IF SubSeq(fed, i, i + Block - 1) = Bytes(text[i] - Block - 1, text[i] - 1)
         THEN text[i] ELSE Junk]

\* The whole blocks of the bytes that were read since the encryption began.
WholeBlocks(text) == SubSeq(text, 1, Len(text) - (Len(text) % Block))

-----------------------------------------------------------------------------
(* Client::onLengthReceive, behind the read and the decryption: at most one
   frame of buf leaves it. *)

\* buf begins with the VarInt of frame f, or with a part of it.
AtFrame(buf, f) ==
  LET seen == IF Len(buf) < VarInt[f] THEN Len(buf) ELSE VarInt[f]
  IN  seen > 0 /\ SubSeq(buf, 1, seen) = Bytes(End[f - 1], End[f - 1] + seen)

CompleteStrict(buf, f) == Len(buf) > Size(f)

\* All bytes the VarInt announces are there.
Complete(buf, f) == Len(buf) >= Size(f)

\* What the parser makes of the first bytes, whether they are what was sent.
Content(buf, f) ==
  IF SubSeq(buf, 1, Size(f)) = Bytes(End[f - 1], End[f]) THEN f ELSE Junk

Keep(buf) == buffer' = buf /\ UNCHANGED <<handled, armed>>

Take(buf, n, f) ==
  /\ buffer' = SubSeq(buf, n + 1, Len(buf))
  /\ handled' = Append(handled, f)
  /\ armed' = TRUE

(* A frame that is announced and complete is handled, one that is not stays. A
   length of Junk may be any, and one of more than five bytes throws. *)
OneFrame(buf) ==
  \/ /\ buf = <<>> /\ Keep(buf)
  \/ \E f \in 1 .. Frames :
       /\ AtFrame(buf, f)
       /\ IF Complete(buf, f) THEN Take(buf, Size(f), Content(buf, f)) ELSE Keep(buf)
  \/ /\ buf # <<>> /\ \A f \in 1 .. Frames : ~AtFrame(buf, f)
     /\ \/ Keep(buf)
        \/ \E n \in 1 .. Len(buf) : Take(buf, n, Junk)
        \/ armed' = FALSE /\ buffer' = buf /\ UNCHANGED handled

-----------------------------------------------------------------------------
\* The frames that end behind byte a, up to b, without the first of them.
Extra(a, b) ==
  LET ended == Cardinality({f \in 1 .. Frames : a < End[f] /\ End[f] <= b})
  IN  IF ended = 0 THEN 0 ELSE ended - 1

ReadClearAfresh(n) ==
  /\ armed /\ ~encrypted
  /\ received + n <= End[ClearFrames]
  /\ received' = received + n
  /\ OneFrame(Bytes(received, received + n))
  /\ merged' = merged + Extra(received, received + n)
  /\ UNCHANGED <<encrypted, encryptedBuffer, register, rounds>>

\* A read of n bytes of clear text.
ReadClear(n) ==
  /\ armed /\ ~encrypted
  /\ received + n <= End[ClearFrames]
  /\ received' = received + n
  /\ OneFrame(buffer \o Bytes(received, received + n))
  /\ merged' = merged + Extra(received, received + n)
  /\ UNCHANGED <<encrypted, encryptedBuffer, register, rounds>>

(* A read of n bytes of cipher text: they join those of all reads before, whose
   whole blocks are decrypted behind what the buffer holds. *)
ReadEncrypted(n) ==
  /\ armed /\ encrypted /\ rounds < MaxReads
  /\ received + n <= End[Frames]
  /\ received' = received + n
  /\ encryptedBuffer' = encryptedBuffer \o Bytes(received, received + n)
  /\ LET text == WholeBlocks(encryptedBuffer')
     IN  /\ register' = Last(register \o text)
         /\ OneFrame(buffer \o decrypt(text))
  /\ rounds' = rounds + 1
  /\ UNCHANGED <<encrypted, merged>>

\* onHasJoinedPostComplete, some time after the last clear frame was handled.
HasJoined ==
  /\ ~encrypted /\ ClearFrames < Frames
  /\ ClearFrames \in {handled[i] : i \in DOMAIN handled}
  /\ encrypted' = TRUE
  /\ buffer' = <<>>
  /\ UNCHANGED <<received, encryptedBuffer, register, armed, handled, merged, rounds>>

Next ==
  \/ \E n \in 1 .. End[Frames] : ReadClear(n) \/ ReadEncrypted(n)
  \/ HasJoined

Spec == Init /\ [][Next]_vars

-----------------------------------------------------------------------------
TypeOK ==
  /\ received \in 0 .. End[Frames] /\ rounds \in 0 .. MaxReads
  /\ buffer \in Seq(Int) /\ encryptedBuffer \in Seq(Int)
  /\ register \in [1 .. Block -> Int]
  /\ encrypted \in BOOLEAN /\ armed \in BOOLEAN
  /\ handled \in Seq(0 .. Frames) /\ merged \in Nat

InOrder == handled = [i \in 1 .. Len(handled) |-> i]

(* However the reads cut the stream, the frames that are handled before the
   encryption, and by the first read after it, are those that were sent, in
   their order, each of them once and whole. *)
FramesInOrder == rounds <= 1 => InOrder

(* The buffer holds the stream without gap or overlap: what follows the last
   frame that was handled, up to what was read; of the first encrypted read up
   to its last whole block. *)
BufferIsStream ==
  rounds <= 1 =>
    buffer = Bytes(End[Len(handled)],
                   received - IF encrypted THEN (received - End[ClearFrames]) % Block
                              ELSE 0)

(* onLengthReceive handles one frame a read. A complete frame is left in the
   buffer only because one read brought the end of several. *)
Backlog ==
  ~encrypted =>
    Cardinality({f \in 1 .. ClearFrames : End[f] <= received}) - Len(handled) <= merged

(* decrypt yields the bytes that were sent, whatever number of reads brought
   them, so that the frames behind the encryption are handled in order too. *)
EncryptedInOrder == InOrder
=============================================================================
