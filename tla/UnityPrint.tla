----------------------------- MODULE UnityPrint -----------------------------
(***************************************************************************)
(* How Unity prints the numbers of a failure (src/unity/unity.c):          *)
(* UnityPrintNumberByStyle with UnityPrintNumber,                          *)
(* UnityPrintNumberUnsigned and UnityPrintNumberHex, and UnityPrintMask,   *)
(* digit by digit.  A behaviour prints one number.                         *)
(***************************************************************************)
EXTENDS Integers, Sequences

CONSTANTS
  IntBits,        \* the width of UNITY_INT and UNITY_UINT, 64
  MaskBits,       \* UNITY_INT_WIDTH, 32
  NibbleCounts,   \* the nibbles asked of UnityPrintNumberHex
  Numbers,        \* the values of UNITY_INT that are printed
  Masks           \* the values of UNITY_UINT that are masks

UNITY_INT == -(2 ^ (IntBits - 1))..2 ^ (IntBits - 1) - 1
UNITY_UINT == 0..2 ^ IntBits - 1
MaxNibbles == IntBits \div 4
CharType == -128..127

WidthAssumption == /\ IntBits \in Nat /\ IntBits >= 8 /\ IntBits % 4 = 0
                   /\ MaskBits \in 1..IntBits
                   /\ NibbleCounts \subseteq Nat
                   /\ Numbers \subseteq UNITY_INT
                   /\ Masks \subseteq UNITY_UINT

VARIABLES
  style,      \* how to print it, with the nibbles or the mask that go with it
  input,      \* the number to print
  number,     \* what is left of it, unsigned
  divisor,    \* the weight of a digit, or the bit of the mask
  nibbles,    \* the nibbles to print
  out,        \* the characters printed
  pc          \* "call", "scale", "digits", "hex", "mask" or "done"

vars == <<style, input, number, divisor, nibbles, out, pc>>

Wrapped(x) == x % 2 ^ IntBits

-----------------------------------------------------------------------------
(* UnityPrintNumber: what is printed of a number below zero is its         *)
(* complement plus 1, so that the smallest has an absolute value too.      *)
Absolute_complement(x) == IF x < 0 THEN 2 ^ IntBits - 1 - Wrapped(x)
                          ELSE Wrapped(x)
Absolute(x) == IF x < 0 THEN Wrapped(2 ^ IntBits - 1 - Wrapped(x) + 1)
               ELSE Wrapped(x)

StartUnsigned(n, sign) == /\ number' = n /\ divisor' = 1
                          /\ out' = sign
                          /\ pc' = "scale" /\ UNCHANGED nibbles

PrintNumber ==
  /\ pc = "call" /\ style.range = "INT"
  /\ \/ input < 0 /\ StartUnsigned(Absolute(input), <<45>>)
     \/ input >= 0 /\ StartUnsigned(Absolute(input), <<>>)
  /\ UNCHANGED <<style, input>>

PrintUnsigned ==
  /\ pc = "call" /\ style.range = "UINT"
  /\ StartUnsigned(Wrapped(input), <<>>)
  /\ UNCHANGED <<style, input>>

(* UnityPrintNumberUnsigned: the initial divisor ...                       *)
MoreDigits(n, d) == n \div d > 9

Raised_never(d) == d
Raised(d) == Wrapped(d * 10)

Scale ==
  /\ pc = "scale"
  /\ \/ /\ MoreDigits(number, divisor)
        /\ divisor' = Raised(divisor)
        /\ UNCHANGED pc
     \/ /\ ~ MoreDigits(number, divisor)
        /\ pc' = "digits"
        /\ UNCHANGED divisor
  /\ UNCHANGED <<style, input, number, nibbles, out>>

(* ... and then a digit for each power of ten down to 1.                   *)
PrintDigit ==
  /\ pc = "digits"
  /\ out' = Append(out, 48 + ((number \div divisor) % 10))
  /\ \/ divisor < 10 /\ divisor' = 0 /\ pc' = "done"
     \/ divisor >= 10 /\ divisor' = divisor \div 10 /\ UNCHANGED pc
  /\ UNCHANGED <<style, input, number, nibbles>>

(* UnityPrintNumberHex.                                                    *)
PrintHex ==
  /\ pc = "call" /\ style.range = "HEX"
  /\ number' = Wrapped(input)
  /\ nibbles' = IF style.nibbles > MaxNibbles THEN MaxNibbles
                                              ELSE style.nibbles
  /\ out' = <<48, 120>> /\ pc' = "hex"
  /\ UNCHANGED <<style, input, divisor>>

Digit(n) == IF n <= 9 THEN 48 + n ELSE 65 - 10 + n

PrintNibble ==
  /\ pc = "hex"
  /\ \/ /\ nibbles > 0
        /\ nibbles' = nibbles - 1
        /\ out' = Append(out, Digit((number \div 2 ^ (4 * nibbles')) % 16))
        /\ UNCHANGED pc
     \/ nibbles = 0 /\ pc' = "done" /\ UNCHANGED <<nibbles, out>>
  /\ UNCHANGED <<style, input, number, divisor>>

(* UNITY_DISPLAY_STYLE_CHAR.                                               *)
Escape(n) == CASE n \in 32..126 -> <<n>>
               [] n = 13 -> <<92, 114>>
               [] n = 10 -> <<92, 110>>
               [] OTHER  -> <<92, 120, Digit((n % 256) \div 16), Digit(n % 16)>>

PrintCharacter ==
  /\ pc = "call" /\ style.range = "CHAR"
  /\ out' = <<39>> \o Escape(input) \o <<39>>
  /\ pc' = "done"
  /\ UNCHANGED <<style, input, number, divisor, nibbles>>

(* UnityPrintMask, from the highest bit down; divisor is current_bit.      *)
StartMask ==
  /\ pc = "call" /\ style.range = "MASK"
  /\ number' = Wrapped(input) /\ divisor' = 2 ^ (MaskBits - 1)
  /\ out' = <<>> /\ pc' = "mask"
  /\ UNCHANGED <<style, input, nibbles>>

BitOf(n, bit) == (n \div bit) % 2

MaskDigit(mask, n, bit) == IF BitOf(mask, bit) = 0 THEN 88
                           ELSE 48 + BitOf(n, bit)

PrintMaskBit ==
  /\ pc = "mask"
  /\ \/ /\ Len(out) < MaskBits
        /\ out' = Append(out, MaskDigit(style.mask, number, divisor))
        /\ divisor' = divisor \div 2
        /\ UNCHANGED pc
     \/ Len(out) = MaskBits /\ pc' = "done" /\ UNCHANGED <<out, divisor>>
  /\ UNCHANGED <<style, input, number, nibbles>>

Next == PrintNumber \/ PrintUnsigned \/ Scale \/ PrintDigit \/ PrintHex
        \/ PrintNibble \/ PrintCharacter \/ StartMask \/ PrintMaskBit

Init ==
  /\ input \in Numbers
  /\ \/ style \in [range : {"INT", "UINT"}]
     \/ style \in [range : {"HEX"}, nibbles : NibbleCounts]
     \/ style \in [range : {"CHAR"}] /\ input \in CharType
     \/ style \in [range : {"MASK"}, mask : Masks]
  /\ number = 0 /\ divisor = 1 /\ nibbles = 0 /\ out = <<>> /\ pc = "call"

Spec == Init /\ [][Next]_vars /\ WF_vars(Next)

-----------------------------------------------------------------------------
(* Reading it back.                                                        *)
ValueOfDigit(c) == IF c \in 48..57 THEN c - 48 ELSE c - 55

ReadAs(base, digits) ==
  LET sum[k \in 0..Len(digits)] ==
        IF k = 0 THEN 0 ELSE sum[k - 1] * base + ValueOfDigit(digits[k])
  IN  sum[Len(digits)]

(* The types of the variables.                                             *)
TypeOK ==
  /\ pc \in {"call", "scale", "digits", "hex", "mask", "done"}
  /\ number \in UNITY_UINT /\ divisor \in UNITY_UINT
  /\ nibbles \in 0..MaxNibbles
  /\ out \in Seq(32..126)

(* The divisor neither overflows, however large the number, nor is zero    *)
(* when it divides.                                                        *)
DivisorFits ==
  /\ pc \in {"scale", "digits"} => divisor \in 1..(IF number = 0 THEN 1
                                                   ELSE number)
  /\ pc = "scale" /\ MoreDigits(number, divisor) =>
       divisor * 10 \in UNITY_UINT

(* What is printed of a number in decimal reads as that number, the        *)
(* smallest of all included, and begins with a zero only for zero.         *)
DecimalReadsBack ==
  pc = "done" /\ style.range \in {"INT", "UINT"} =>
    LET signed == style.range = "INT" /\ input < 0
        digits == SubSeq(out, IF signed THEN 2 ELSE 1, Len(out))
    IN  /\ ReadAs(10, digits) = IF signed THEN -input ELSE Wrapped(input)
        /\ signed => out[1] = 45
        /\ digits # <<>> /\ \A k \in DOMAIN digits : digits[k] \in 48..57
        /\ digits[1] = 48 => Len(digits) = 1

(* What is printed in hexadecimal reads as the low digits of the number,   *)
(* as many as were asked for and the type has.                             *)
HexReadsBack ==
  pc = "done" /\ style.range = "HEX" =>
    LET digits == SubSeq(out, 3, Len(out))
        asked == IF style.nibbles < MaxNibbles THEN style.nibbles
                                               ELSE MaxNibbles
    IN  /\ Len(digits) = asked
        /\ ReadAs(16, digits) = Wrapped(input) % 2 ^ (4 * asked)
        /\ \A k \in DOMAIN digits : digits[k] \in 48..57 \cup 65..70

(* The bits of a mask that are printed are those of the number where the   *)
(* mask has them, highest first: the low MaskBits ones, which are not all  *)
(* that UNITY_UINT has.                                                    *)
MaskReadsBack ==
  pc = "done" /\ style.range = "MASK" =>
    /\ Len(out) = MaskBits
    /\ \A k \in 1..MaskBits :
         LET bit == 2 ^ (MaskBits - k)
         IN  /\ out[k] = 88 <=> BitOf(style.mask, bit) = 0
             /\ out[k] \in {48, 49} => out[k] - 48 = BitOf(Wrapped(input), bit)

(* Every number is printed to its end.                                     *)
Terminates == <>(pc = "done")

=============================================================================
