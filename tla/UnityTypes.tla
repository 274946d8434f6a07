----------------------------- MODULE UnityTypes -----------------------------
(***************************************************************************)
(* The integer types that Unity's assertions name (INT8, UINT, HEX16,      *)
(* ...), what it casts and prints values of these types to, and what the   *)
(* relations it asserts mean.  Modules UnityNumbers and UnityArrays share  *)
(* these definitions.                                                      *)
(*                                                                         *)
(* A byte has ByteBits bits, so that TLC can handle the largest type of    *)
(* all, of 8 bytes.                                                        *)
(***************************************************************************)
EXTENDS Integers

CONSTANT ByteBits   \* 8

WidthAssumption == ByteBits \in Nat \ {0}

-----------------------------------------------------------------------------
Bits(size) == size * ByteBits
Unsigned(bits, x) == x % 2 ^ bits
Signed(bits, x) == LET u == Unsigned(bits, x)
                   IN  IF u < 2 ^ (bits - 1) THEN u ELSE u - 2 ^ bits

UNITY_INT(x)  == Signed(Bits(8), x)
UNITY_UINT(x) == Unsigned(Bits(8), x)
UNITY_UINT32(x) == Unsigned(Bits(4), x)

SignedTypes   == {"INT", "INT8", "INT16", "INT32", "INT64", "CHAR"}
UnsignedTypes == {"UINT", "UINT8", "UINT16", "UINT32", "UINT64"}
HexTypes      == {"HEX8", "HEX16", "HEX32", "HEX64"}
Types         == SignedTypes \cup UnsignedTypes \cup HexTypes

(* UNITY_DISPLAY_STYLE_*, the size in its low bits.                        *)
Style(type) ==
  [size |-> CASE type \in {"INT8", "UINT8", "HEX8", "CHAR"} -> 1
              [] type \in {"INT16", "UINT16", "HEX16"} -> 2
              [] type \in {"INT64", "UINT64", "HEX64"} -> 8
              [] OTHER -> 4,
   range |-> IF type \in SignedTypes THEN "INT"
             ELSE IF type \in UnsignedTypes THEN "UINT" ELSE "HEX"]

(* The types a macro passes on without a cast to a narrower one.           *)
Whole == {"INT", "UINT", "INT64", "UINT64", "HEX64"}

Narrowed(type, signed, x) ==
  LET bits == Bits(Style(type).size)
  IN  IF type \in Whole THEN UNITY_INT(x)
      ELSE IF signed THEN Signed(bits, x) ELSE Unsigned(bits, x)

(* The number a reader sees: UnityPrintNumberByStyle.                      *)
Shown(type, x) ==
  IF type \in HexTypes THEN Unsigned(Bits(Style(type).size), x)
  ELSE IF type \in UnsignedTypes THEN UNITY_UINT(x) ELSE x

-----------------------------------------------------------------------------
(* What the assertions mean.                                               *)

(* The value of the named type that C makes of x; INT and UINT stand for   *)
(* the widest types of their kind.                                         *)
ValueOf(type, x) ==
  LET bits == IF type \in {"INT", "UINT"} THEN Bits(8)
              ELSE Bits(Style(type).size)
  IN  IF type \in SignedTypes THEN Signed(bits, x) ELSE Unsigned(bits, x)

Holds(family, expected, actual, delta) ==
  CASE family = "EQUAL"            -> actual = expected
    [] family = "NOT_EQUAL"        -> actual # expected
    [] family = "GREATER_THAN"     -> actual > expected
    [] family = "GREATER_OR_EQUAL" -> actual >= expected
    [] family = "SMALLER_THAN"     -> actual < expected
    [] family = "SMALLER_OR_EQUAL" -> actual <= expected
    [] family = "WITHIN"           -> actual - expected \in -delta..delta

(* The delta of an assertion that two values are near each other.          *)
DeltaValue(type, delta) ==
  Unsigned(IF type \in Whole THEN Bits(8) ELSE Bits(Style(type).size), delta)

=============================================================================
