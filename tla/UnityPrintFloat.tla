--------------------------- MODULE UnityPrintFloat ---------------------------
(***************************************************************************)
(* UnityPrintFloat of Unity (src/unity/unity.c): a float is scaled by      *)
(* powers of ten, rounded to sig_digits digits, and printed as those, with *)
(* a decimal point and an exponent where they are needed.                  *)
(*                                                                         *)
(* A number is m * 10^x, of whole m and x, m of at most nine digits: as    *)
(* many tell floats apart.  Products and quotients with powers of ten are  *)
(* rounded, each to any number that a rounding of its size may lead to.    *)
(* What else the code computes of floats is exact there too: twice a       *)
(* number, its integer part and what this leaves, the difference of a      *)
(* number and the nearest whole one, powers of ten up to 10^10.            *)
(***************************************************************************)
EXTENDS Integers, Sequences

CONSTANTS
  sig_digits,     \* 7
  BufSize,        \* the size of buf, 16
  FloatPrecision, \* 2^24: a product is off by one part in as many
  PrintedFloats   \* the numbers to print

(* The powers of ten.                                                      *)
TenTo[k \in Nat] == IF k = 0 THEN 1 ELSE 10 * TenTo[k - 1]

min_scaled == TenTo[sig_digits - 1]
max_scaled == TenTo[sig_digits]

Mantissa == 1..TenTo[9] - 1

(* Digits and buf are for the numbers there are: an exponent is printed in *)
(* as many digits as a mantissa at most.                                   *)
DigitsAssumption ==
  /\ sig_digits \in Nat /\ sig_digits >= 2
  /\ BufSize \in Nat /\ BufSize >= sig_digits + 4
  /\ FloatPrecision \in Nat \ {0}
  /\ PrintedFloats
       \subseteq [m : Mantissa, x : 11 - max_scaled..max_scaled - 11]

VARIABLES
  input,              \* what to print, and whether it is below zero
  number,             \* it, scaled
  factor,             \* the power of ten number is yet to be scaled by
  n_int, n,           \* the integer part, and the digits to print
  exponent, decimals,
  buf,                \* digits to print, last one first
  out,                \* the characters printed
  pc,
  value               \* only properties look at it: the number that number
                      \* is, scaled, after all roundings of products

vars == <<input, value, number, factor, n_int, n, exponent, decimals, buf, out,
          pc>>

-----------------------------------------------------------------------------
(* Decimal numbers.                                                        *)
Digits(k) == CHOOSE l \in 1..10 : k < TenTo[l] /\ (l = 1 \/ k >= TenTo[l - 1])

Scaled(v, k) == [v EXCEPT !.x = @ + k]

(* v < 10^k and v > 10^k                                                   *)
Below(v, k) == Digits(v.m) + v.x <= k
Above(v, k) == ~ Below(v, k) /\ ~ (/\ v.m = TenTo[Digits(v.m) - 1]
                                   /\ Digits(v.m) + v.x = k + 1)

(* The integer part of v, and what is left.                                *)
Truncated(v) == IF v.x >= 0 THEN v.m * TenTo[v.x]
                ELSE IF Below(v, 0) THEN 0 ELSE v.m \div TenTo[-v.x]
Fraction(v) == IF v.x >= 0 THEN [v EXCEPT !.m = 0]
               ELSE [v EXCEPT !.m = @ % TenTo[-v.x]]

(* v + v, and whether v is halfway between whole numbers.                  *)
Twice(v) == [v EXCEPT !.m = 2 * @]
Tie(v) == v.x < 0 /\ v.m % TenTo[-v.x] # 0 /\ Twice(v).m % TenTo[-v.x] = 0

(* What v * 10^k may be as a float, off by as many units of m as given.    *)
(* Rounding keeps the order of numbers, and 10^(sig_digits - 1) and        *)
(* 10^sig_digits are floats.                                               *)
Off(v) == v.m \div FloatPrecision

Products(v, k, off) ==
  {w \in {[m |-> v.m + d, x |-> v.x + k] :
             d \in IF k = 0 THEN {0} ELSE -off..off} :
     /\ w.m \in Mantissa \/ w.m = v.m
     /\ \A p \in {sig_digits - 1, sig_digits} :
          /\ Below(w, p) => Below(Scaled(v, k), p)
          /\ Above(w, p) => Above(Scaled(v, k), p)}

-----------------------------------------------------------------------------
To(label) == pc' = label

(* Zero, NaN and infinity have names; NaN is below nothing.                *)
Named == [zero |-> <<48>>, nan |-> <<110, 97, 110>>, inf |-> <<105, 110, 102>>]

Start ==
  /\ pc = "call"
  /\ LET sign == IF input.negative THEN <<45>> ELSE <<>>
     IN  \/ /\ input.kind # "number"
            /\ out' = sign \o Named[input.kind]
            /\ To("done")
         \/ /\ input.kind = "number"
            /\ out' = sign
            /\ To(IF Below(number, 0) THEN "up_by_10"
                  ELSE IF Above(number, sig_digits) THEN "down_by_10"
                  ELSE "split")
  /\ UNCHANGED <<input, value, number, factor, n_int, n, exponent, decimals,
                 buf>>

(* The loops that scale by BigStep digits at once, which rounds less often *)
(* than by one, and then find what factor or divisor there is left to.     *)
BigStep_single == 1
BigStep == 10

Rescale(k, off) == /\ number' \in Products(number, k, off)
                   /\ value' = [value EXCEPT !.m = @ + number'.m - number.m]

LeftToScale == Products(number, factor, Off(input.value))

Multiply ==
  /\ \/ /\ pc = "up_by_10" /\ Below(number, sig_digits - BigStep)
        /\ Rescale(BigStep, Off(input.value))
        /\ exponent' = exponent - BigStep
        /\ UNCHANGED <<factor, pc>>
     \/ /\ pc = "up_by_10" /\ ~ Below(number, sig_digits - BigStep)
        /\ To("up") /\ UNCHANGED <<value, number, factor, exponent>>
     \/ /\ pc = "up" /\ \E w \in LeftToScale : Below(w, sig_digits - 1)
        /\ factor' = factor + 1 /\ exponent' = exponent - 1
        /\ UNCHANGED <<value, number, pc>>
     \/ /\ pc = "up"
        /\ Rescale(factor, Off(input.value)) /\ ~ Below(number', sig_digits - 1)
        /\ To("round") /\ UNCHANGED <<factor, exponent>>
  /\ UNCHANGED <<input, n_int, n, decimals, buf, out>>

Divide ==
  /\ \/ /\ pc = "down_by_10" /\ Above(number, sig_digits - 1 + BigStep)
        /\ Rescale(-BigStep, Off(input.value))
        /\ exponent' = exponent + BigStep
        /\ UNCHANGED <<factor, pc>>
     \/ /\ pc = "down_by_10" /\ ~ Above(number, sig_digits - 1 + BigStep)
        /\ To("down") /\ UNCHANGED <<value, number, factor, exponent>>
     \/ /\ pc = "down" /\ \E w \in LeftToScale : Above(w, sig_digits)
        /\ factor' = factor - 1 /\ exponent' = exponent + 1
        /\ UNCHANGED <<value, number, pc>>
     \/ /\ pc = "down"
        /\ Rescale(factor, Off(input.value)) /\ ~ Above(number', sig_digits)
        /\ To("round") /\ UNCHANGED <<factor, exponent>>
  /\ UNCHANGED <<input, n_int, n, decimals, buf, out>>

(* From 1 to max_scaled the integer part is split off first, and only the  *)
(* fraction is rounded.  A fraction is less than one by more than that.    *)
Split ==
  /\ \/ /\ pc = "split"
        /\ n_int' = Truncated(number) /\ number' = Fraction(number)
        /\ To("fill") /\ UNCHANGED <<value, factor, exponent>>
     \/ /\ pc = "fill" /\ n_int < min_scaled
        /\ n_int' = n_int * 10
        /\ factor' = factor + 1 /\ exponent' = exponent - 1
        /\ UNCHANGED <<value, number, pc>>
     \/ /\ pc = "fill" /\ n_int >= min_scaled
        /\ Rescale(factor, Off(number))
        /\ Below(number, 0) => Below(number', factor)
        /\ To("round") /\ UNCHANGED <<factor, n_int, exponent>>
  /\ UNCHANGED <<input, n, decimals, buf, out>>

Rounded_down(v) == Truncated(v)
Rounded(v) == LET r == (Truncated(Twice(v)) + 1) \div 2
              IN  IF r % 2 = 1 /\ Tie(v) THEN r - 1 ELSE r

Carries(k) == k >= max_scaled

Plain == -(sig_digits + 3)..0

Round ==
  /\ pc = "round"
  /\ LET sum == Rounded(number) + n_int
         e == IF Carries(sum) THEN exponent + 1 ELSE exponent
     IN  /\ n' = IF Carries(sum) THEN min_scaled ELSE sum
         /\ decimals' = IF e \in Plain THEN -e ELSE sig_digits - 1
         /\ exponent' = e + decimals'
  /\ To("trim")
  /\ UNCHANGED <<input, value, number, factor, n_int, buf, out>>

Trim ==
  /\ pc = "trim"
  /\ \/ /\ decimals > 0 /\ n % 10 = 0
        /\ n' = n \div 10 /\ decimals' = decimals - 1
        /\ UNCHANGED pc
     \/ /\ decimals = 0 \/ n % 10 # 0
        /\ To("buffer") /\ UNCHANGED <<n, decimals>>
  /\ UNCHANGED <<input, value, number, factor, n_int, exponent, buf, out>>

-----------------------------------------------------------------------------
(* The digits of n, at least one before the point and those after it, or   *)
(* two of the exponent, into buf ...                                       *)
Least == IF pc = "buffer" THEN decimals + 1 ELSE 2

Buffer ==
  /\ pc \in {"buffer", "buffer_exponent"}
  /\ \/ /\ n # 0 \/ Len(buf) < Least
        /\ buf' = Append(buf, 48 + (n % 10))
        /\ n' = n \div 10
        /\ UNCHANGED pc
     \/ /\ n = 0 /\ Len(buf) >= Least
        /\ To(IF pc = "buffer" THEN "print" ELSE "print_exponent")
        /\ UNCHANGED <<buf, n>>
  /\ UNCHANGED <<input, value, number, factor, n_int, exponent, decimals, out>>

(* ... and out of it, backwards.                                           *)
Last(s) == s[Len(s)]
Unprinted(s) == SubSeq(s, 1, Len(s) - 1)

PrintDigit ==
  /\ pc \in {"print", "print_exponent"} /\ buf # <<>>
  /\ out' = out \o (IF pc = "print" /\ Len(buf) = decimals
                    THEN <<46, Last(buf)>> ELSE <<Last(buf)>>)
  /\ buf' = Unprinted(buf)
  /\ UNCHANGED <<input, value, number, factor, n_int, n, exponent, decimals,
                 pc>>

PrintEnds ==
  /\ pc \in {"print", "print_exponent"} /\ buf = <<>>
  /\ \/ /\ pc = "print" /\ exponent # 0
        /\ out' = out \o <<101, IF exponent < 0 THEN 45 ELSE 43>>
        /\ n' = IF exponent < 0 THEN -exponent ELSE exponent
        /\ To("buffer_exponent")
     \/ /\ pc = "print_exponent" \/ exponent = 0
        /\ To("done") /\ UNCHANGED <<out, n>>
  /\ UNCHANGED <<input, value, number, factor, n_int, exponent, decimals, buf>>

Next == Start \/ Multiply \/ Divide \/ Split \/ Round \/ Trim \/ Buffer
        \/ PrintDigit \/ PrintEnds

Init ==
  /\ number \in PrintedFloats /\ value = number
  /\ input \in [kind : {"number"}, negative : BOOLEAN, value : {number}]
               \cup [kind : {"inf"}, negative : BOOLEAN]
               \cup [kind : {"nan", "zero"}, negative : {FALSE}]
  /\ factor = 0 /\ n_int = 0 /\ n = 0 /\ exponent = 0 /\ decimals = 0
  /\ buf = <<>> /\ out = <<>> /\ pc = "call"

Spec == Init /\ [][Next]_vars

-----------------------------------------------------------------------------
(* Reading back what was printed.                                          *)
Find(c) == {k \in DOMAIN out : out[k] = c}

ReadDigits(first, last) ==
  LET sum[k \in first - 1..last] ==
        IF k = first - 1 THEN 0
        ELSE IF out[k] \in 48..57 THEN sum[k - 1] * 10 + (out[k] - 48)
        ELSE sum[k - 1]
  IN  sum[last]

Shown ==
  LET e == CHOOSE k \in Find(101) \cup {Len(out) + 1} :
             Find(101) = {} \/ k \in Find(101)
      point == IF Find(46) = {} THEN e - 1 ELSE CHOOSE k \in Find(46) : TRUE
      power == IF e > Len(out) THEN 0
               ELSE IF out[e + 1] = 45 THEN -ReadDigits(e + 2, Len(out))
               ELSE ReadDigits(e + 2, Len(out))
  IN  [m |-> ReadDigits(1, e - 1), x |-> power - (e - 1 - point)]

(* The unit of the last of sig_digits digits of value, and how far off     *)
(* what is shown is, in units of the last digit of either.                 *)
Unit == value.x + Digits(value.m) - sig_digits
LeastX == IF Shown.x < value.x THEN Shown.x ELSE value.x
Error == LET d == Shown.m * TenTo[Shown.x - LeastX]
                    - value.m * TenTo[value.x - LeastX]
         IN  IF d < 0 THEN -d ELSE d

(* How far value has come from the number given.                           *)
Size(k) == IF k < 0 THEN -k ELSE k
Drift == Size(value.m - input.value.m)

DoneWithNumber == pc = "done" /\ input.kind = "number"

(* The types of the variables.                                             *)
TypeOK ==
  /\ n \in 0..max_scaled - 1 /\ n_int \in 0..max_scaled
  /\ decimals \in Nat
  /\ number.m \in Nat /\ number.x \in Int /\ exponent \in Int
  /\ \A k \in DOMAIN buf : buf[k] \in 48..57
  /\ \A k \in DOMAIN out : out[k] \in 32..126

(* buf holds every digit, of the smallest numbers printed without an       *)
(* exponent too; the code does not test it.                                *)
BufferHolds == Len(buf) <= BufSize /\ Len(buf) <= sig_digits + 4

(* What is printed has at most sig_digits digits that count, also when     *)
(* rounding carries; no zero ends it after a point, and before an exponent *)
(* there is one digit before the point, which is not zero.                 *)
Canonical ==
  DoneWithNumber =>
    LET first == IF input.negative THEN 2 ELSE 1
        last == IF Find(101) = {} THEN Len(out)
                ELSE (CHOOSE k \in Find(101) : TRUE) - 1
    IN  /\ Shown.m < max_scaled
        /\ Find(46) # {} => out[last] # 48 /\ out[first] # 46
        /\ Find(101) # {} => /\ Find(46) = IF first = last THEN {}
                                            ELSE {first + 1}
                             /\ out[first] # 48

(* What is printed reads as value, to within half a unit of its last       *)
(* significant digit: exactly, where it has no more digits than that.      *)
ReadsBack ==
  DoneWithNumber =>
    /\ (out[1] = 45) = input.negative
    /\ IF Unit <= LeastX THEN Error = 0
       ELSE 2 * Error <= TenTo[Unit - LeastX]

(* And value is the number given but for one rounding in ten digits of its *)
(* exponent, and two for those of its mantissa and for the rest.           *)
Accurate ==
  input.kind = "number" =>
    /\ value.x = input.value.x
    /\ 10 * Drift <= (Size(value.x) + sig_digits + 20) * Off(input.value)

=============================================================================
