-------------------------- MODULE Base64RefProof --------------------------
(***************************************************************************)
(* Facts about the reference decoding of module Base64Ref, for strings of  *)
(* any length.                                                             *)
(***************************************************************************)
EXTENDS Base64Ref, FiniteSetTheorems, TLAPS

(* The positions of s that have nothing but digits up to them.             *)
DigitsFrom1(s) == {i \in 1..Len(s) : \A j \in 1..i : IsDigit(s[j])}

(* The entries of the table.                                               *)
LEMMA TableFact ==
  ASSUME NEW c \in 0..255
  PROVE  pr2six[c] \in 0..64
<1>1. pr2six[c] = CASE c = 45         -> 62
                    [] c \in 48..57  -> c + 4
                    [] c \in 65..90  -> c - 65
                    [] c = 95         -> 63
                    [] c \in 97..122 -> c - 71
                    [] OTHER         -> 64
  BY DEF pr2six
<1> QED
  BY <1>1

(* A byte of a string, its terminator included, has a value in the table.  *)
LEMMA SixFact ==
  ASSUME NEW s \in Seq(Char), NEW i \in Nat
  PROVE  /\ CharAt(s, i) \in 0..255
         /\ Six(s, i) \in 0..64
         /\ IsDigit(CharAt(s, i)) => Six(s, i) \in 0..63
         /\ IsDigit(CharAt(s, i)) => i < Len(s)
<1>1. CharAt(s, i) \in 0..255
  <2>1. CASE i < Len(s)
    <3>1. s[i + 1] \in Char
      BY <2>1
    <3> QED
      BY <3>1, <2>1 DEF CharAt, Char
  <2>2. CASE ~ (i < Len(s))
    BY <2>2 DEF CharAt
  <2> QED
    BY <2>1, <2>2
<1>2. Six(s, i) \in 0..64
  BY <1>1, TableFact DEF Six
<1>3. ~ IsDigit(0)
  BY DEF IsDigit, pr2six
<1> QED
  BY <1>1, <1>2, <1>3 DEF Six, IsDigit, CharAt

(* The positions with nothing but digits up to them are the first n, for   *)
(* some n: a set closed downwards has as many elements as its largest.     *)
LEMMA DigitsAreInterval ==
  ASSUME NEW s \in Seq(Char)
  PROVE  \E n \in 0..Len(s) : DigitsFrom1(s) = 1..n
<1> DEFINE D == DigitsFrom1(s)
           n == Cardinality(D)
<1>1. IsFiniteSet(1..Len(s)) /\ Cardinality(1..Len(s)) = Len(s)
  <2>1. Len(s) \in Nat
    OBVIOUS
  <2>2. IsFiniteSet(1..Len(s))
    BY <2>1, FS_Interval
  <2>3. Cardinality(1..Len(s)) = IF 1 > Len(s) THEN 0 ELSE Len(s) - 1 + 1
    BY <2>1, FS_Interval
  <2> QED
    BY <2>1, <2>2, <2>3
<1>2. D \subseteq 1..Len(s)
  BY DEF DigitsFrom1
<1>3. IsFiniteSet(D) /\ n \in Nat /\ n <= Len(s)
  BY <1>1, <1>2, FS_Subset, FS_CardinalityType
<1>4. D \subseteq 1..n
  <2> SUFFICES ASSUME NEW i \in D PROVE i <= n
    BY <1>2
  <2>1. 1..i \subseteq D
    BY <1>2 DEF DigitsFrom1
  <2>2. IsFiniteSet(1..i) /\ Cardinality(1..i) = i
    BY <1>2, FS_Interval
  <2> QED
    BY <2>1, <2>2, <1>2, <1>3, FS_Subset
<1>5. IsFiniteSet(1..n) /\ Cardinality(1..n) = n
  BY <1>3, FS_Interval
<1>6. D = 1..n
  BY <1>3, <1>4, <1>5, FS_Subset
<1> QED
  BY <1>3, <1>6

(* There is exactly one offset where the scan stops, and it is in s or at  *)
(* its terminator.                                                         *)
LEMMA PrefixLenFact ==
  ASSUME NEW s \in Seq(Char)
  PROVE  /\ PrefixLen(s) \in 0..Len(s)
         /\ IsPrefixLen(s, PrefixLen(s))
         /\ \A n \in Nat : IsPrefixLen(s, n) => n = PrefixLen(s)
<1>1. PICK n \in 0..Len(s) : DigitsFrom1(s) = 1..n
  BY DigitsAreInterval
<1>2. ASSUME NEW i \in 0..(n - 1) PROVE IsDigit(CharAt(s, i))
  <2>1. i + 1 \in DigitsFrom1(s)
    BY <1>1
  <2> QED
    BY <2>1, <1>1 DEF DigitsFrom1, CharAt
<1>3. ~ IsDigit(CharAt(s, n))
  <2>1. SUFFICES ASSUME IsDigit(CharAt(s, n)) PROVE FALSE
    OBVIOUS
  <2>2. n < Len(s) /\ CharAt(s, n) = s[n + 1]
    BY <2>1, SixFact DEF CharAt
  <2>3. \A j \in 1..n : IsDigit(s[j])
    BY <1>1 DEF DigitsFrom1
  <2>4. n + 1 \in DigitsFrom1(s)
    BY <2>1, <2>2, <2>3 DEF DigitsFrom1
  <2> QED
    BY <2>4, <1>1
<1>4. IsPrefixLen(s, n)
  BY <1>2, <1>3 DEF IsPrefixLen
<1>5. PrefixLen(s) \in 0..Len(s) /\ IsPrefixLen(s, PrefixLen(s))
  BY <1>4 DEF PrefixLen
<1>6. ASSUME NEW m \in Nat, NEW k \in Nat, IsPrefixLen(s, m), IsPrefixLen(s, k)
      PROVE  m <= k
  BY <1>6 DEF IsPrefixLen
<1> QED
  BY <1>5, <1>6

(* The decoding of s is a sequence of bytes, three for four digits.        *)
LEMMA DecodedFact ==
  ASSUME NEW s \in Seq(Char)
  PROVE  /\ DecodedLen(s) \in Nat
         /\ Decoded(s) \in Seq(Byte)
         /\ Len(Decoded(s)) = DecodedLen(s)
<1>1. PrefixLen(s) \in Nat /\ IsPrefixLen(s, PrefixLen(s))
  BY PrefixLenFact
<1>2. DecodedLen(s) \in Nat
  BY <1>1 DEF DecodedLen
<1>3. ASSUME NEW k \in 0..(DecodedLen(s) - 1) PROVE ByteAt(s, k) \in Byte
  <2> DEFINE q == 4 * (k \div 3)
             r == k % 3
  <2>1. q \in Nat /\ r \in 0..2 /\ q + r + 1 < PrefixLen(s)
    BY <1>1, <1>2 DEF DecodedLen
  <2> HIDE DEF q, r
  <2>2. ASSUME NEW j \in q..(q + r + 1) PROVE Six(s, j) \in 0..63
    <3>1. j \in Nat /\ j \in 0..(PrefixLen(s) - 1)
      BY <2>1, <1>1
    <3> QED
      BY <3>1, <1>1, SixFact DEF IsPrefixLen
  <2>3. CASE r = 0
    <3>1. Six(s, q) \in 0..63 /\ Six(s, q + 1) \in 0..63
      BY <2>1, <2>2, <2>3
    <3>2. PICK x \in 0..63, y \in 0..63 : x = Six(s, q) /\ y = Six(s, q + 1)
      BY <3>1, Zenon
    <3>3. ByteAt(s, k) = x * 4 + y \div 16
      BY <2>3, <3>2 DEF ByteAt, q, r
    <3> QED
      BY <3>3 DEF Byte
  <2>4. CASE r = 1
    <3>1. Six(s, q + 1) \in 0..63 /\ Six(s, q + 2) \in 0..63
      BY <2>1, <2>2, <2>4
    <3>2. PICK x \in 0..63, y \in 0..63 : x = Six(s, q + 1) /\ y = Six(s, q + 2)
      BY <3>1, Zenon
    <3>3. ByteAt(s, k) = (x % 16) * 16 + y \div 4
      BY <2>4, <3>2 DEF ByteAt, q, r
    <3> QED
      BY <3>3 DEF Byte
  <2>5. CASE r = 2
    <3>1. Six(s, q + 2) \in 0..63 /\ Six(s, q + 3) \in 0..63
      BY <2>1, <2>2, <2>5
    <3>2. PICK x \in 0..63, y \in 0..63 : x = Six(s, q + 2) /\ y = Six(s, q + 3)
      BY <3>1, Zenon
    <3>3. ByteAt(s, k) = (x % 4) * 64 + y
      BY <2>5, <3>2 DEF ByteAt, q, r
    <3> QED
      BY <3>3 DEF Byte
  <2> QED
    BY <2>1, <2>3, <2>4, <2>5
<1> QED
  BY <1>2, <1>3 DEF Decoded

=============================================================================
