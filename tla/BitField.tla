------------------------------ MODULE BitField ------------------------------
(***************************************************************************)
(* A union of BitFields over one raw word, as the packets send it: Position *)
(* (x, y and z in 64 bits), RelativeFlags and the flags of                  *)
(* PlayerAbilitiesPacket (bits of a byte).                                  *)
(*                                                                         *)
(* A word, and a value, is the set of the places of its one bits. A value   *)
(* is masked and shifted in the type it is promoted to, an int of Promoted  *)
(* bits, and only then meets the word.                                     *)
(***************************************************************************)
EXTENDS Integers

CONSTANTS
  Fields,    \* the names of the union's fields
  Index, Bits,  \* BitField<Index, Bits> of each
  Word,      \* bits of the raw word
  Promoted,  \* bits of an int, 32
  Values,    \* the values that are assigned
  Raws       \* the words that memory may hold uninitialised

Places == 0 .. Word - 1

ASSUME LayoutAssumption ==
  /\ Word \in Nat /\ Promoted \in Nat \ {0}
  /\ Index \in [Fields -> Nat] /\ Bits \in [Fields -> Nat \ {0}]
  /\ \A f \in Fields : Index[f] + Bits[f] <= Word
  /\ \A f, g \in Fields :
       f # g => Index[f] + Bits[f] <= Index[g] \/ Index[g] + Bits[g] <= Index[f]
ASSUME ValuesAssumption ==
  Values \subseteq SUBSET Nat /\ Raws \subseteq SUBSET Places

VARIABLES
  word,   \* the raw word
  set,    \* history: the fields that were given a value
  given   \* history: the value each of them was last given

unionVars == <<word, set, given>>

Mask(f) == 0 .. Bits[f] - 1
Slice(f) == Index[f] .. Index[f] + Bits[f] - 1

\* BitField::operator T.
Get(w, f) == {b - Index[f] : b \in w \cap Slice(f)}

-----------------------------------------------------------------------------
\* The places shifted up by n in the promoted type; what leaves it is lost.
Shift(bits, n) == {b + n : b \in bits} \cap 0 .. Promoted - 1

\* The promoted value as the word sees it: the sign fills the places above.
Extend(bits) ==
  IF Promoted - 1 \in bits THEN bits \cup (Promoted .. Word - 1) ELSE bits

(* (value & Mask) << Index. What leaves the type is undefined for a signed one,
   and lost in the builds; so is a shift by the width or more, for which the
   builds give no bits, or shift by what is left of Index. *)
Shifted(bits, n) ==
  IF n < Promoted THEN {Extend(Shift(bits, n))}
  ELSE {{}, Extend(Shift(bits, n % Promoted))}

\* A faulty variant shows that the property notices such a mistake.
StoreAlone(w, f, bits) == bits \cap Places

\* The word with the field's places cleared and the shifted value put in.
Store(w, f, bits) == (w \ Slice(f)) \cup (bits \cap Places)

\* BitField::operator=.
Assign(f, value) ==
  /\ \E bits \in Shifted(value \cap Mask(f), Index[f]) : word' = Store(word, f, bits)
  /\ set' = set \cup {f}
  /\ given' = [given EXCEPT ![f] = value \cap Mask(f)]

\* The unions have no initializer.
UnionInit ==
  /\ word \in Raws
  /\ set = {} /\ given = [f \in Fields |-> {}]

UnionNext == \E f \in Fields, value \in Values : Assign(f, value)

UnionSpec == UnionInit /\ [][UnionNext]_unionVars

-----------------------------------------------------------------------------
WordOK ==
  /\ word \in SUBSET Places
  /\ set \subseteq Fields
  /\ given \in [Fields -> SUBSET Nat] /\ \A f \in set : given[f] \subseteq Mask(f)

(* Whatever was in memory, and whatever the other fields are assigned before and
   after, a field reads back as what operator= last gave it. *)
FieldsKept == \A f \in set : Get(word, f) = given[f]
=============================================================================
