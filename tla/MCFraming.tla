----------------------------- MODULE MCFraming -----------------------------
(* Framing with blocks of three bytes, and seven frames of two to four bytes:
   the second and the last have a length of two bytes, and the last three are
   encrypted. *)
EXTENDS Framing, TLC

MCEnd    == 0 :> 0 @@ 1 :> 2 @@ 2 :> 6 @@ 3 :> 9 @@ 4 :> 11 @@ 5 :> 14 @@ 6 :> 16 @@ 7 :> 20
MCVarInt == <<1, 2, 1, 1, 1, 1, 2>>
=============================================================================
