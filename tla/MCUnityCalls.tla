---------------------------- MODULE MCUnityCalls ----------------------------
(* A small instance of module UnityCalls.                                  *)
EXTENDS UnityCalls, SequencesExt

(* Numbers, printed ones and masks: the ends of every type.                *)
MCNumbers == {-32768, -129, -128, -9, -8, -2, -1, 0, 1, 2, 7, 8, 127, 128,
              255, 256, 32767, 32768, 65535}
MCDeltas  == {0, 1, 2, 3, 4, 255, 256, 32768, 65535}
MCMasks   == {0, 1, 128, 255, 256, 32768, 61680, 65535}

MCPrinted == {-32768, -32767, -10000, -9999} \cup -330..330
               \cup {9999, 10000, 10001, 20480, 32767}

(* Arrays of 0, 1, -1, the least and the greatest number of their type.    *)
AllOnes == 2 ^ ByteBits - 1
TopBit  == 2 ^ (ByteBits - 1)

Words(size) ==
  {[k \in 1..size |-> 0], [k \in 1..size |-> AllOnes],
   [k \in 1..size |-> IF k = 1 THEN 1 ELSE 0],
   [k \in 1..size |-> IF k = size THEN TopBit ELSE 0],
   [k \in 1..size |-> IF k = size THEN TopBit - 1 ELSE AllOnes]}

MCArrays(m, size) == {FlattenSeq(s) : s \in [1..m -> Words(size)]}

(* Strings of at most two characters, a letter, a line feed, a backslash   *)
(* or a char below zero, with and without terminator.                      *)
Chars == {65, 10, 92, -1}
Texts == UNION {[1..m -> Chars] : m \in 0..2}

MCStrings == {<<>>} \cup Texts \cup {Append(t, 0) : t \in Texts}
                    \cup {<<92, 110, 0>>, <<126, 127, 0>>, <<13, 0>>}
MCArrayStrings == {<<>>, <<0>>, <<65, 0>>, <<65, 10, 0>>, <<13, 0>>}

(* Floats, as elements of arrays and printed: digits at the edges of       *)
(* rounding, and magnitudes from the least float to the greatest.          *)
MCElements == {-MaxFloat, 0, 1, 4, MaxFloat, MaxFloat + 1, MaxFloat + 2}

Floats(mantissas, exponents) ==
  {f \in [m : mantissas, x : exponents] :
     \E l \in 1..9 : f.m \in 10^(l - 1)..10^l - 1 /\ l + f.x \in -44..38}

\* The first of these are scaled exactly; products of the others are off by
\* up to 1, 5 or 7 in their last digit.
MCPrintedFloats ==
  Floats({1, 10203, 9999999, 10000000, 10000005, 10000015, 12345651},
         -52..37)
    \cup Floats({30000010, 99999994, 99999995, 123456785},
                {-52, -41, -23, -12, -8, -7, -2, -1, 1, 9, 29})
    \cup {[m |-> 14012985, x |-> -52], [m |-> 34028235, x |-> 31]}

=============================================================================
