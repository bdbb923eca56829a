------------------------------ MODULE EnumMeta ------------------------------
(* enum_meta.hpp: one int names a variant of an enum across the program.    *)
(* The enum's id fills the high bits and the variant's index the low bits of *)
(* an int of VariantIdBits + EnumIdBits bits (16 + 16 in the source).        *)
EXTENDS Integers

CONSTANTS VariantIdBits, EnumIdBits

ASSUME EnumMetaAssumption ==
  VariantIdBits \in Nat \ {0} /\ EnumIdBits \in Nat \ {0}

VariantIdMask == 2^VariantIdBits - 1
EnumIdMask == 2^EnumIdBits - 1

\* An int has as many bits as the two fields together: the shift may reach its
\* sign bit, and the result then reads as a negative number.
AsInt(n) ==
  IF n >= 2^(VariantIdBits + EnumIdBits - 1)
  THEN n - 2^(VariantIdBits + EnumIdBits)
  ELSE n

EncodeVariantId(enumId, variantId) ==
  IF \/ enumId < 0 \/ variantId < 0
     \/ enumId > EnumIdMask \/ variantId > VariantIdMask
  THEN -1
  ELSE AsInt(enumId * 2^VariantIdBits + variantId)

DecodeEnumId(id) ==
  IF id < 0 THEN -1 ELSE (id \div 2^VariantIdBits) % 2^EnumIdBits

DecodeVariantId(id) == IF id < 0 THEN -1 ELSE id % 2^VariantIdBits

\* What the generator puts in an instruction: the encoded id when there is one
\* and the variant's own index otherwise.
GlobalVariantId(enumId, variantId) ==
  LET encoded == EncodeVariantId(enumId, variantId) IN
  IF encoded >= 0 THEN encoded ELSE variantId
=============================================================================
