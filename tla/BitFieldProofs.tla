--------------------------- MODULE BitFieldProofs ---------------------------
(***************************************************************************)
(* BitField keeps every field of a union whose fields all end below the     *)
(* sign of the promoted type: the flags of the packets, and of Position     *)
(* only x. (y and z of Position end above it: its y is lost.)        *)
(***************************************************************************)
EXTENDS BitField, TLAPS

\* Every field ends below the sign of the promoted type.
Narrow == \A f \in Fields : Index[f] + Bits[f] < Promoted

(* The shift of a masked value of a narrow field loses nothing, stays in the
   field's slice and has one outcome. *)
LEMMA NarrowShift ==
  ASSUME Narrow, NEW f \in Fields, NEW value \in SUBSET Mask(f)
  PROVE  /\ Shifted(value, Index[f]) = {{b + Index[f] : b \in value}}
         /\ {b + Index[f] : b \in value} \subseteq Slice(f)
<1> DEFINE up == {b + Index[f] : b \in value}
<1>1. /\ Index[f] \in Nat /\ Bits[f] \in Nat \ {0} /\ Promoted \in Nat \ {0}
      /\ Index[f] + Bits[f] < Promoted
  BY LayoutAssumption DEF Narrow
<1>2. up \subseteq Slice(f)
  BY <1>1 DEF Mask, Slice
<1>3. \A b \in up : b \in 0 .. Promoted - 1 /\ b # Promoted - 1
  <2>1. \A b \in Slice(f) : b \in Nat /\ b < Index[f] + Bits[f]
    BY <1>1 DEF Slice
  <2>2. \A b \in Nat : b < Index[f] + Bits[f] => b \in 0 .. Promoted - 1 /\ b # Promoted - 1
    BY <1>1
  <2> QED
    BY <1>2, <2>1, <2>2
<1>4. Shift(value, Index[f]) = up
  BY <1>3 DEF Shift
<1>5. Extend(up) = up
  BY <1>3 DEF Extend
<1>6. Index[f] < Promoted
  BY <1>1
<1> QED
  BY <1>2, <1>4, <1>5, <1>6 DEF Shifted

(* BitField::operator= and operator T: the field reads back as assigned. *)
LEMMA ReadBack ==
  ASSUME NEW f \in Fields, NEW w \in SUBSET Places, NEW value \in SUBSET Mask(f)
  PROVE  LET up == {b + Index[f] : b \in value}
         IN  up \subseteq Slice(f) => Get(Store(w, f, up), f) = value
<1> DEFINE up == {b + Index[f] : b \in value}
<1> SUFFICES ASSUME up \subseteq Slice(f) PROVE Get(Store(w, f, up), f) = value
  OBVIOUS
<1>1. /\ Index[f] \in Nat /\ Bits[f] \in Nat \ {0} /\ Word \in Nat
      /\ Index[f] + Bits[f] <= Word
  BY LayoutAssumption
<1>2. up \subseteq Places
  BY <1>1 DEF Slice, Places
<1>3. Store(w, f, up) \cap Slice(f) = up
  BY <1>2 DEF Store
<1>4. \A b \in value : b \in Int /\ (b + Index[f]) - Index[f] = b
  BY <1>1 DEF Mask
<1>5. {c - Index[f] : c \in up} = value
  BY <1>4
<1> QED
  BY <1>3, <1>5 DEF Get

(* BitField::operator= of one field leaves what the others read. *)
LEMMA OthersKept ==
  ASSUME NEW f \in Fields, NEW g \in Fields, f # g, NEW w, NEW up \in SUBSET Slice(f)
  PROVE  Get(Store(w, f, up), g) = Get(w, g)
<1>1. Slice(f) \cap Slice(g) = {}
  <2>1. /\ Index[f] \in Nat /\ Bits[f] \in Nat \ {0}
        /\ Index[g] \in Nat /\ Bits[g] \in Nat \ {0}
        /\ Index[f] + Bits[f] <= Index[g] \/ Index[g] + Bits[g] <= Index[f]
    BY LayoutAssumption
  <2> QED
    BY <2>1 DEF Slice
<1>2. Store(w, f, up) \cap Slice(g) = w \cap Slice(g)
  BY <1>1 DEF Store
<1> QED
  BY <1>2 DEF Get

LEMMA TypeStep == WordOK /\ [UnionNext]_unionVars => WordOK'
<1> SUFFICES ASSUME WordOK, [UnionNext]_unionVars PROVE WordOK'
  OBVIOUS
<1>1. ASSUME NEW f \in Fields, NEW value \in Values, Assign(f, value) PROVE WordOK'
  <2>1. word' \in SUBSET Places
    BY <1>1 DEF Assign, Store, WordOK
  <2>2. value \cap Mask(f) \subseteq Nat
    BY ValuesAssumption
  <2> QED
    BY <1>1, <2>1, <2>2 DEF Assign, WordOK
<1>2. CASE UNCHANGED unionVars
  BY <1>2 DEF WordOK, unionVars
<1> QED
  BY <1>1, <1>2 DEF UnionNext

LEMMA KeptStep == Narrow /\ WordOK /\ FieldsKept /\ [UnionNext]_unionVars => FieldsKept'
<1> SUFFICES ASSUME Narrow, WordOK, FieldsKept, [UnionNext]_unionVars PROVE FieldsKept'
  OBVIOUS
<1>1. ASSUME NEW f \in Fields, NEW value \in Values, Assign(f, value) PROVE FieldsKept'
  <2> DEFINE masked == value \cap Mask(f)
             up     == {b + Index[f] : b \in masked}
  <2>1. masked \in SUBSET Mask(f)
    OBVIOUS
  <2>2. Shifted(masked, Index[f]) = {up} /\ up \subseteq Slice(f)
    BY <2>1, NarrowShift
  <2>3. word' = Store(word, f, up)
    BY <1>1, <2>2 DEF Assign
  <2>4. Get(word', f) = masked
    <3>1. word \in SUBSET Places
      BY DEF WordOK
    <3> QED
      BY <2>1, <2>2, <2>3, <3>1, ReadBack
  <2>5. \A g \in Fields : g # f => Get(word', g) = Get(word, g)
    BY <2>2, <2>3, OthersKept
  <2>6. given' = [given EXCEPT ![f] = masked] /\ set' = set \cup {f}
    BY <1>1 DEF Assign
  <2> QED
    BY <2>4, <2>5, <2>6 DEF FieldsKept, WordOK
<1>2. CASE UNCHANGED unionVars
  BY <1>2 DEF FieldsKept, Get, unionVars
<1> QED
  BY <1>1, <1>2 DEF UnionNext

(* Where every field ends below the sign of the promoted type, each of them
   reads back as it was last given, whatever the layout and the values. *)
THEOREM NarrowFieldsKept ==
  ASSUME Narrow
  PROVE  UnionSpec => []FieldsKept
<1>1. UnionInit => WordOK /\ FieldsKept
  BY ValuesAssumption DEF UnionInit, WordOK, FieldsKept
<1>2. WordOK /\ FieldsKept /\ [UnionNext]_unionVars => (WordOK /\ FieldsKept)'
  BY TypeStep, KeptStep
<1> QED
  BY <1>1, <1>2, PTL DEF UnionSpec
=============================================================================
