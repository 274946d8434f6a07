------------------------ MODULE UnityAssertionsProof ------------------------
(***************************************************************************)
(* Assertions decide what they say and read nothing outside their          *)
(* arguments, and failures are explained: for bytes of any number of bits, *)
(* and so for types of any width, and for arrays and strings of any        *)
(* length.  The first part has the arithmetic they need: powers of two and *)
(* conversions between types.                                              *)
(***************************************************************************)
EXTENDS UnityCalls, FiniteSetTheorems, SequenceTheorems, WellFoundedInduction,
        TLAPS

-----------------------------------------------------------------------------
(* Powers of two, quotients and conversions                                *)

(* A set of numbers that is not empty has a least one.                     *)
LEMMA LeastNat ==
  ASSUME NEW T, T \subseteq Nat, T # {}
  PROVE  \E k \in T : \A l \in T : k <= l
<1>1. PICK k \in T : \A l \in T : ~ (<<l, k>> \in OpToRel(<, Nat))
  BY NatLessThanWellFounded, WFMin
<1>2. \A l \in T : ~ (l < k)
  BY <1>1 DEF OpToRel
<1> QED
  BY <1>2

(* Induction, on a set.                                                    *)
LEMMA NatSetInduction ==
  ASSUME NEW T, 0 \in T, \A k \in Nat : k \in T => k + 1 \in T
  PROVE  Nat \subseteq T
<1> DEFINE U == Nat \ T
<1>1. SUFFICES ASSUME U # {} PROVE FALSE
  OBVIOUS
<1>2. U \subseteq Nat
  OBVIOUS
<1>3. PICK k \in U : \A l \in U : k <= l
  <2> HIDE DEF U
  <2> QED
    BY <1>1, <1>2, LeastNat
<1>4. k # 0 /\ k \in Nat /\ k \notin T
  OBVIOUS
<1>5. k - 1 \in Nat /\ ~ (k <= k - 1)
  BY <1>4
<1>6. k - 1 \in T
  BY <1>3, <1>5
<1>7. k - 1 + 1 = k
  BY <1>4
<1> QED
  BY <1>4, <1>5, <1>6, <1>7

(* 2^k counts the subsets of a set of k elements: what is known of it.     *)
LEMMA TwoPowBase ==
  ASSUME NEW k \in Nat
  PROVE  IsFiniteSet(1..k) /\ Cardinality(1..k) = k
         /\ IsFiniteSet(SUBSET (1..k)) /\ Cardinality(SUBSET (1..k)) = 2 ^ k
<1>1. IsFiniteSet(1..k) /\ Cardinality(1..k) = k
  BY FS_Interval
<1> QED
  BY <1>1, FS_SUBSET

(* The powers of two.                                                      *)
LEMMA TwoPowNat ==
  ASSUME NEW k \in Nat
  PROVE  2 ^ k \in Nat /\ 2 ^ k > 0
<1>1. IsFiniteSet(SUBSET (1..k)) /\ Cardinality(SUBSET (1..k)) = 2 ^ k
  BY TwoPowBase
<1>2. {} \in SUBSET (1..k)
  OBVIOUS
<1> DEFINE Sub == SUBSET (1..k)
<1> HIDE DEF Sub
<1>3. Cardinality(Sub) \in Nat /\ Cardinality(Sub) # 0
  BY <1>1, <1>2, FS_CardinalityType, FS_EmptySet DEF Sub
<1> QED
  BY <1>1, <1>3 DEF Sub

(* 2^0 = 1.                                                                *)
LEMMA TwoPowZero == 2 ^ 0 = 1
<1>1. 1..0 = {} /\ SUBSET {} = {{}}
  OBVIOUS
<1>2. Cardinality(SUBSET (1..0)) = 2 ^ 0
  BY TwoPowBase
<1>3. Cardinality({{}}) = 1
  BY FS_Singleton
<1> QED
  BY <1>1, <1>2, <1>3

(* 2^(k + 1) is twice 2^k.                                                 *)
LEMMA TwoPowNext ==
  ASSUME NEW k \in Nat
  PROVE  2 ^ (k + 1) = 2 * 2 ^ k
<1> DEFINE Old == SUBSET (1..k)
           New == {s \cup {k + 1} : s \in Old}
           All == SUBSET (1..(k + 1))
<1>1. /\ IsFiniteSet(Old) /\ Cardinality(Old) = 2 ^ k
      /\ IsFiniteSet(All) /\ Cardinality(All) = 2 ^ (k + 1)
  <2>1. k + 1 \in Nat
    OBVIOUS
  <2> QED
    BY <2>1, TwoPowBase
<1>2. All = Old \cup New
  <2>1. 1..(k + 1) = (1..k) \cup {k + 1}
    OBVIOUS
  <2>2. ASSUME NEW s \in All PROVE s \in Old \cup New
    <3>1. CASE k + 1 \in s
      <4>1. s \ {k + 1} \in Old /\ s = (s \ {k + 1}) \cup {k + 1}
        BY <2>1, <3>1
      <4> QED
        BY <4>1
    <3>2. CASE k + 1 \notin s
      BY <2>1, <3>2
    <3> QED
      BY <3>1, <3>2
  <2>3. ASSUME NEW s \in Old \cup New PROVE s \in All
    BY <2>1
  <2> HIDE DEF All, Old, New
  <2> QED
    BY <2>2, <2>3
<1>3. Old \cap New = {}
  <2>1. k + 1 \notin 1..k
    OBVIOUS
  <2> QED
    BY <2>1
<1>4. ExistsBijection(Old, New)
  <2> DEFINE f == [s \in Old |-> s \cup {k + 1}]
  <2>1. \A s \in Old : k + 1 \notin s
    OBVIOUS
  <2>2. f \in Bijection(Old, New)
    <3>1. f \in [Old -> New]
      OBVIOUS
    <3>2. ASSUME NEW s \in Old, NEW t \in Old, f[s] = f[t] PROVE s = t
      <4>1. s \cup {k + 1} = t \cup {k + 1}
        BY <3>2
      <4> QED
        BY <2>1, <4>1
    <3>3. \A t \in New : \E s \in Old : f[s] = t
      OBVIOUS
    <3> HIDE DEF f, Old, New
    <3> QED
      BY <3>1, <3>2, <3>3 DEF Bijection, Injection, Surjection, IsInjective
  <2> HIDE DEF f, Old, New
  <2> QED
    BY <2>2 DEF ExistsBijection
<1> HIDE DEF Old, New, All
<1>5. IsFiniteSet(New) /\ Cardinality(New) = 2 ^ k
  BY <1>1, <1>4, FS_Bijection
<1>6. Cardinality(Old \cup New)
        = Cardinality(Old) + Cardinality(New) - Cardinality({})
  BY <1>1, <1>3, <1>5, FS_Union
<1>7. Cardinality({}) = 0
  BY FS_EmptySet
<1>8. 2 ^ (k + 1) = 2 ^ k + 2 ^ k - 0
  BY <1>1, <1>2, <1>5, <1>6, <1>7
<1> QED
  BY <1>8, TwoPowNat

(* 2^(k + l) is a product.                                                 *)
LEMMA TwoPowSum ==
  ASSUME NEW m \in Nat, NEW k \in Nat
  PROVE  2 ^ (m + k) = 2 ^ m * 2 ^ k
<1> DEFINE T == {l \in Nat : 2 ^ (m + l) = 2 ^ m * 2 ^ l}
<1>1. 0 \in T
  <2>1. m + 0 = m /\ 2 ^ m \in Nat
    BY TwoPowNat
  <2>2. 2 ^ m * 1 = 2 ^ m
    BY <2>1
  <2> QED
    BY <2>1, <2>2, TwoPowZero
<1>2. ASSUME NEW l \in Nat, l \in T PROVE l + 1 \in T
  <2> DEFINE a == 2 ^ m
             b == 2 ^ l
  <2>1. 2 ^ (m + l) = a * b
    BY <1>2
  <2>2. m + l \in Nat /\ m + (l + 1) = (m + l) + 1
    OBVIOUS
  <2>3. 2 ^ (m + (l + 1)) = 2 * (a * b) /\ 2 ^ (l + 1) = 2 * b
    BY <2>1, <2>2, TwoPowNext
  <2>4. a \in Nat /\ b \in Nat
    BY TwoPowNat
  <2> HIDE DEF a, b
  <2>5. 2 * (a * b) = a * (2 * b)
    BY <2>4
  <2>6. 2 ^ (m + (l + 1)) = a * 2 ^ (l + 1)
    BY <2>3, <2>5
  <2> QED
    BY <2>6 DEF a
<1> HIDE DEF T
<1>3. Nat \subseteq T
  BY <1>1, <1>2, NatSetInduction
<1> QED
  BY <1>3 DEF T

(* Powers of two are ordered as their exponents.                           *)
LEMMA TwoPowOrder ==
  ASSUME NEW m \in Nat, NEW k \in Nat, m <= k
  PROVE  /\ k - m \in Nat /\ 2 ^ k = 2 ^ m * 2 ^ (k - m)
         /\ 2 ^ m <= 2 ^ k
         /\ m < k => 2 * 2 ^ m <= 2 ^ k
<1>1. k - m \in Nat /\ m + (k - m) = k
  OBVIOUS
<1>2. 2 ^ k = 2 ^ m * 2 ^ (k - m)
  BY <1>1, TwoPowSum
<1>3. ASSUME m < k PROVE 2 * 2 ^ m <= 2 ^ k
  <2>1. m + 1 \in Nat /\ k - (m + 1) \in Nat /\ (m + 1) + (k - (m + 1)) = k
    BY <1>3
  <2>2. 2 ^ k = 2 ^ (m + 1) * 2 ^ (k - (m + 1)) /\ 2 ^ (m + 1) = 2 * 2 ^ m
    BY <2>1, TwoPowSum, TwoPowNext
  <2> DEFINE a == 2 ^ m
             b == 2 ^ (k - (m + 1))
  <2>3. a \in Nat /\ b \in Nat /\ b > 0 /\ 2 ^ k = (2 * a) * b
    BY <2>1, <2>2, TwoPowNat
  <2> HIDE DEF a, b
  <2>4. 2 * a <= (2 * a) * b
    BY <2>3
  <2> QED
    BY <2>3, <2>4 DEF a
<1>4. 2 ^ m <= 2 ^ k
  <2>1. 2 ^ m \in Nat
    BY TwoPowNat
  <2> QED
    BY <2>1, <1>3
<1> QED
  BY <1>1, <1>2, <1>3, <1>4

(* Quotient and remainder ...                                              *)
LEMMA DivMod ==
  ASSUME NEW x \in Int, NEW M \in Nat, M > 0
  PROVE  /\ x \div M \in Int /\ (x % M) \in 0..M - 1
         /\ x = M * (x \div M) + (x % M)
OBVIOUS

(* ... of which there is one pair.                                         *)
LEMMA DivModUnique ==
  ASSUME NEW x \in Int, NEW M \in Nat, M > 0, NEW q \in Int, NEW r \in 0..M - 1,
         x = M * q + r
  PROVE  x \div M = q /\ (x % M) = r
OBVIOUS

(* A remainder does not see multiples.                                     *)
LEMMA ModPlus ==
  ASSUME NEW x \in Int, NEW M \in Nat, M > 0, NEW q \in Int
  PROVE  ((x + M * q) % M) = (x % M)
<1>1. x = M * (x \div M) + (x % M) /\ x \div M \in Int /\ (x % M) \in 0..M - 1
  BY DivMod
<1> DEFINE d == x \div M
           r == x % M
<1>2. d \in Int /\ r \in 0..M - 1 /\ x + M * q = M * (d + q) + r
  BY <1>1
<1> HIDE DEF d, r
<1>3. x + M * q \in Int /\ d + q \in Int
  BY <1>2
<1>4. ((x + M * q) % M) = r
  BY <1>2, <1>3, DivModUnique
<1> QED
  BY <1>4 DEF r

(* The remainder of a remainder.                                           *)
LEMMA ModMod ==
  ASSUME NEW x \in Int, NEW M \in Nat, M > 0, NEW K \in Nat, K > 0
  PROVE  ((x % (M * K)) % M) = (x % M)
<1>1. M * K \in Nat /\ M * K > 0
  OBVIOUS
<1> DEFINE d == x \div (M * K)
           r == x % (M * K)
<1>2. d \in Int /\ r \in Int /\ x = (M * K) * d + r
  BY <1>1, DivMod
<1> HIDE DEF d, r
<1> DEFINE e == K * d
<1>3. x = r + M * e /\ e \in Int
  BY <1>2
<1> HIDE DEF e
<1>4. ((r + M * e) % M) = (r % M)
  BY <1>2, <1>3, ModPlus
<1>5. (x % M) = (r % M)
  BY <1>3, <1>4
<1> QED
  BY <1>5 DEF r

(* The quotient of a quotient.                                             *)
LEMMA DivDiv ==
  ASSUME NEW x \in Int, NEW M \in Nat, M > 0, NEW K \in Nat, K > 0
  PROVE  (x \div M) \div K = x \div (M * K)
<1>1. M * K \in Nat /\ M * K > 0
  OBVIOUS
<1> DEFINE d == x \div M
           r == x % M
           f == d \div K
           t == d % K
<1>2. d \in Int /\ r \in 0..M - 1 /\ x = M * d + r
  BY DivMod
<1> HIDE DEF d, r
<1>3. f \in Int /\ t \in 0..K - 1 /\ d = K * f + t
  BY <1>2, DivMod
<1> HIDE DEF f, t
<1>4. x = (M * K) * f + (M * t + r)
  BY <1>2, <1>3
<1>5. M * t + r \in 0..(M * K) - 1
  <2>1. M * t <= M * (K - 1)
    BY <1>3
  <2>2. M * (K - 1) = M * K - M
    OBVIOUS
  <2>3. M * t \in Nat
    BY <1>3
  <2> QED
    BY <1>1, <1>2, <2>1, <2>2, <2>3
<1>6. x \div (M * K) = f
  BY <1>1, <1>3, <1>4, <1>5, DivModUnique
<1> QED
  BY <1>6 DEF f, d

-----------------------------------------------------------------------------
(* What the casts do to numbers, of any width.                             *)
Ty == INSTANCE UnityTypes

(* A width is one more than that of what is below the sign bit.            *)
LEMMA WidthFact ==
  ASSUME NEW b \in Nat, b > 0
  PROVE  /\ 2 ^ (b - 1) \in Nat /\ 2 ^ (b - 1) > 0
         /\ 2 ^ b = 2 * 2 ^ (b - 1) /\ 2 ^ b \in Nat /\ 2 ^ b > 0
<1>1. b - 1 \in Nat /\ (b - 1) + 1 = b
  OBVIOUS
<1> QED
  BY <1>1, TwoPowNat, TwoPowNext

(* A conversion to an unsigned type of b bits: its range, the identity on  *)
(* that, and no more than the remainder.                                   *)
LEMMA UnsignedFact ==
  ASSUME NEW b \in Nat, b > 0, NEW x \in Int
  PROVE  /\ Ty!Unsigned(b, x) \in 0..2 ^ b - 1
         /\ x \in 0..2 ^ b - 1 => Ty!Unsigned(b, x) = x
         /\ \A y \in Int : Ty!Unsigned(b, x + 2 ^ b * y) = Ty!Unsigned(b, x)
         /\ x - Ty!Unsigned(b, x) \in Int
         /\ \E y \in Int : x = Ty!Unsigned(b, x) + 2 ^ b * y
<1> DEFINE M == 2 ^ b
<1>1. M \in Nat /\ M > 0
  BY WidthFact
<1>2. Ty!Unsigned(b, x) = (x % M)
  BY DEF Ty!Unsigned
<1>3. \A y \in Int : Ty!Unsigned(b, x + M * y) = ((x + M * y) % M)
  BY DEF Ty!Unsigned
<1> HIDE DEF M
<1>4. (x % M) \in 0..M - 1 /\ x \div M \in Int /\ x = M * (x \div M) + (x % M)
  BY <1>1, DivMod
<1>5. x \in 0..M - 1 => (x % M) = x
  BY <1>1
<1>6. \A y \in Int : ((x + M * y) % M) = (x % M)
  BY <1>1, ModPlus
<1>7. \E y \in Int : x = (x % M) + M * y
  <2> DEFINE r == x % M
             d == x \div M
  <2>1. r \in Int /\ d \in Int /\ x = M * d + r
    BY <1>1, <1>4
  <2> HIDE DEF r, d
  <2>2. x = r + M * d
    BY <1>1, <2>1
  <2> QED
    BY <2>1, <2>2 DEF r
<1>8. /\ Ty!Unsigned(b, x) \in 0..M - 1
      /\ x \in 0..M - 1 => Ty!Unsigned(b, x) = x
      /\ \A y \in Int : Ty!Unsigned(b, x + M * y) = Ty!Unsigned(b, x)
      /\ x - Ty!Unsigned(b, x) \in Int
      /\ \E y \in Int : x = Ty!Unsigned(b, x) + M * y
  <2> DEFINE r == x % M
  <2>1. r \in 0..M - 1
    BY <1>4
  <2> HIDE DEF r
  <2>2. x - r \in Int
    BY <1>1, <2>1
  <2> QED
    BY <1>2, <1>3, <1>4, <1>5, <1>6, <1>7, <2>2 DEF r
<1> QED
  BY <1>8 DEF M

(* The signed number and the unsigned one of the same bits.                *)
LEMMA SignedFact ==
  ASSUME NEW b \in Nat, b > 0, NEW x \in Int
  PROVE  /\ Ty!Signed(b, x) \in -(2 ^ (b - 1))..2 ^ (b - 1) - 1
         /\ x \in -(2 ^ (b - 1))..2 ^ (b - 1) - 1 => Ty!Signed(b, x) = x
         /\ Ty!Signed(b, x) \in {Ty!Unsigned(b, x), Ty!Unsigned(b, x) - 2 ^ b}
         /\ Ty!Unsigned(b, Ty!Signed(b, x)) = Ty!Unsigned(b, x)
<1> DEFINE M == 2 ^ b
           H == 2 ^ (b - 1)
           u == Ty!Unsigned(b, x)
           s == Ty!Signed(b, x)
<1>1. H \in Nat /\ H > 0 /\ M = 2 * H /\ M \in Nat
  BY WidthFact
<1>2. u \in 0..M - 1 /\ \E y \in Int : x = u + M * y
  BY UnsignedFact
<1>3. s = IF u < H THEN u ELSE u - M
  BY DEF Ty!Signed
<1>4. \A z \in Int : z \in 0..M - 1 => Ty!Unsigned(b, z) = z
  BY UnsignedFact
<1>5. \A z, y \in Int : Ty!Unsigned(b, z + M * y) = Ty!Unsigned(b, z)
  BY UnsignedFact
<1> HIDE DEF M, H, u, s
<1>6. s \in -H..H - 1 /\ s \in {u, u - M}
  BY <1>1, <1>2, <1>3
<1>7. x \in -H..H - 1 => s = x
  <2> SUFFICES ASSUME x \in -H..H - 1 PROVE s = x
    OBVIOUS
  <2>1. PICK y \in Int : x = u + M * y
    BY <1>2
  <2>2. y \in {-1, 0}
    <3>1. M * y \in -(H + M) + 1..H - 1
      BY <1>1, <1>2, <2>1
    <3>2. y >= 1 => M * y >= M
      BY <1>1
    <3>3. y <= -2 => M * y <= -2 * M
      BY <1>1
    <3> QED
      BY <1>1, <3>1, <3>2, <3>3
  <2> QED
    BY <1>1, <1>2, <1>3, <2>1, <2>2
<1>8. Ty!Unsigned(b, s) = u
  <2>1. Ty!Unsigned(b, u) = u
    BY <1>1, <1>2, <1>4
  <2>2. Ty!Unsigned(b, u + M * (-1)) = u
    BY <1>1, <1>2, <1>5, <2>1
  <2>3. u + M * (-1) = u - M
    BY <1>1, <1>2
  <2> QED
    BY <1>6, <2>1, <2>2, <2>3
<1>9. /\ s \in -H..H - 1
      /\ x \in -H..H - 1 => s = x
      /\ s \in {u, u - M} /\ Ty!Unsigned(b, s) = u
  BY <1>6, <1>7, <1>8
<1> QED
  BY <1>9 DEF M, H, u, s

(* Narrowing twice is narrowing once.                                      *)
LEMMA NarrowFact ==
  ASSUME NEW b \in Nat, b > 0, NEW c \in Nat, b <= c, NEW x \in Int
  PROVE  /\ Ty!Unsigned(b, Ty!Unsigned(c, x)) = Ty!Unsigned(b, x)
         /\ Ty!Unsigned(b, Ty!Signed(c, x)) = Ty!Unsigned(b, x)
         /\ Ty!Signed(b, Ty!Unsigned(c, x)) = Ty!Signed(b, x)
         /\ Ty!Signed(b, Ty!Signed(c, x)) = Ty!Signed(b, x)
         /\ Ty!Unsigned(c, Ty!Unsigned(b, x)) = Ty!Unsigned(b, x)
         /\ 2 ^ b <= 2 ^ c
<1> DEFINE M == 2 ^ b
           K == 2 ^ (c - b)
<1>1. c > 0 /\ c - b \in Nat /\ 2 ^ c = M * K /\ M <= 2 ^ c
      /\ M \in Nat /\ K \in Nat
  BY TwoPowOrder, TwoPowNat
<1>2. \A z, y \in Int : Ty!Unsigned(b, z + M * y) = Ty!Unsigned(b, z)
  BY UnsignedFact
<1>3. PICK y \in Int : x = Ty!Unsigned(c, x) + 2 ^ c * y
  BY <1>1, UnsignedFact
<1>4. Ty!Unsigned(c, x) \in Int /\ Ty!Unsigned(b, x) \in 0..M - 1
  BY <1>1, UnsignedFact
<1> HIDE DEF M, K
<1>5. Ty!Unsigned(b, Ty!Unsigned(c, x)) = Ty!Unsigned(b, x)
  <2> DEFINE u == Ty!Unsigned(c, x)
             z == K * y
  <2>1. u \in Int /\ z \in Int /\ x = u + M * z
    <3>1. (M * K) * y = M * (K * y) /\ K * y \in Int
      BY <1>1
    <3> QED
      BY <1>1, <1>3, <1>4, <3>1
  <2> HIDE DEF u, z
  <2> QED
    BY <1>2, <2>1 DEF u
<1>6. Ty!Unsigned(b, Ty!Signed(c, x)) = Ty!Unsigned(b, x)
  <2> DEFINE u == Ty!Unsigned(c, x)
             z == K * (-1)
  <2>1. z \in Int /\ u - 2 ^ c = u + M * z /\ u \in Int
    BY <1>1, <1>4
  <2>2. Ty!Signed(c, x) \in {u, u - 2 ^ c}
    BY <1>1, SignedFact
  <2> HIDE DEF u, z
  <2>3. Ty!Unsigned(b, u + M * z) = Ty!Unsigned(b, u)
    BY <1>2, <2>1
  <2> QED
    BY <1>5, <2>1, <2>2, <2>3 DEF u
<1>7. Ty!Unsigned(c, Ty!Unsigned(b, x)) = Ty!Unsigned(b, x)
  <2>1. Ty!Unsigned(b, x) \in 0..2 ^ c - 1
    <3>1. 2 ^ c \in Int
      BY TwoPowNat
    <3> QED
      BY <1>1, <1>4, <3>1
  <2> QED
    BY <1>1, <2>1, UnsignedFact
<1>8. \A z, w : Ty!Unsigned(b, z) = Ty!Unsigned(b, w)
                  => Ty!Signed(b, z) = Ty!Signed(b, w)
  BY DEF Ty!Signed
<1>9. M <= 2 ^ c
  BY <1>1
<1> QED
  BY <1>5, <1>6, <1>7, <1>8, <1>9 DEF M

(* Two numbers are the same signed when they are the same unsigned.        *)
LEMMA SignedSame ==
  ASSUME NEW b \in Nat, b > 0, NEW x \in Int, NEW y \in Int
  PROVE  Ty!Signed(b, x) = Ty!Signed(b, y)
           <=> Ty!Unsigned(b, x) = Ty!Unsigned(b, y)
<1>1. Ty!Signed(b, x) = Ty!Signed(b, y) =>
        Ty!Unsigned(b, x) = Ty!Unsigned(b, y)
  BY SignedFact
<1>2. Ty!Unsigned(b, x) = Ty!Unsigned(b, y) =>
        Ty!Signed(b, x) = Ty!Signed(b, y)
  BY DEF Ty!Signed
<1> QED
  BY <1>1, <1>2

-----------------------------------------------------------------------------
(* Assertions on numbers and bits                                          *)

(* The bits that a number of a type has.                                   *)
TypeBits(t) == Ty!Bits(IF t \in Ty!Whole THEN 8 ELSE Ty!Style(t).size)
TopBits == Ty!Bits(8)

(* A byte has bits.                                                        *)
LEMMA BytePositive == ByteBits \in Nat /\ ByteBits > 0
BY ConstantsAssumption DEF N!WidthAssumption

(* The sizes of the types, and which of them have a sign.                  *)
LEMMA StyleFact ==
  ASSUME NEW t \in Ty!Types
  PROVE  /\ Ty!Style(t).size \in {1, 2, 4, 8}
         /\ Ty!Style(t).range = "INT" <=> t \in Ty!SignedTypes
         /\ Ty!Style(t).range = "UINT" <=> t \in Ty!UnsignedTypes
         /\ t \in Ty!Whole =>
              Ty!Style(t).size = IF t \in {"INT", "UINT"} THEN 4 ELSE 8
<1>1. Ty!Style(t).size = CASE t \in {"INT8", "UINT8", "HEX8", "CHAR"} -> 1
              [] t \in {"INT16", "UINT16", "HEX16"} -> 2
              [] t \in {"INT64", "UINT64", "HEX64"} -> 8
              [] OTHER -> 4
  BY DEF Ty!Style
<1>2. Ty!Style(t).range = IF t \in Ty!SignedTypes THEN "INT"
             ELSE IF t \in Ty!UnsignedTypes THEN "UINT" ELSE "HEX"
  BY DEF Ty!Style
<1>3. \A x \in Ty!UnsignedTypes : x \notin Ty!SignedTypes
  BY DEF Ty!SignedTypes, Ty!UnsignedTypes
<1>4. /\ Ty!Style(t).range = "INT" <=> t \in Ty!SignedTypes
      /\ Ty!Style(t).range = "UINT" <=> t \in Ty!UnsignedTypes
  BY <1>2, <1>3
<1>5. Ty!Style(t).size \in {1, 2, 4, 8}
  BY <1>1
<1>6. t \in Ty!Whole =>
              Ty!Style(t).size = IF t \in {"INT", "UINT"} THEN 4 ELSE 8
  BY <1>1 DEF Ty!Whole
<1> QED
  BY <1>4, <1>5, <1>6

(* How many bits a type has, in terms of those of its style.               *)
LEMMA TypeBitsFact ==
  ASSUME NEW t \in Ty!Types
  PROVE  /\ TypeBits(t) \in Nat /\ TypeBits(t) > 0 /\ TypeBits(t) <= TopBits
         /\ TopBits \in Nat /\ TopBits > 0 /\ TopBits = 8 * ByteBits
         /\ t \in Ty!Whole => TypeBits(t) = TopBits
         /\ t \notin Ty!Whole => TypeBits(t) = Ty!Bits(Ty!Style(t).size)
         /\ t \in Ty!HexTypes => TypeBits(t) = Ty!Bits(Ty!Style(t).size)
         /\ t \notin {"INT", "UINT"} =>
              TypeBits(t) = Ty!Bits(Ty!Style(t).size)
<1>1. /\ Ty!Style(t).size \in {1, 2, 4, 8}
      /\ t \in Ty!Whole =>
              Ty!Style(t).size = IF t \in {"INT", "UINT"} THEN 4 ELSE 8
  BY StyleFact
<1>2. t \in Ty!HexTypes => t \notin {"INT", "UINT"}
  BY DEF Ty!HexTypes
<1>3. t \in Ty!Whole /\ t \notin {"INT", "UINT"} => Ty!Style(t).size = 8
  BY <1>1
<1> DEFINE size == Ty!Style(t).size
           w == IF t \in Ty!Whole THEN 8 ELSE size
<1>4. TypeBits(t) = w * ByteBits /\ TopBits = 8 * ByteBits
  BY DEF TypeBits, TopBits, Ty!Bits
<1>5. w \in {1, 2, 4, 8}
  BY <1>1
<1>6. /\ t \in Ty!Whole => w = 8
      /\ t \notin Ty!Whole => w = size
      /\ t \notin {"INT", "UINT"} => w = size
  BY <1>3
<1>7. Ty!Bits(size) = size * ByteBits
  BY DEF Ty!Bits
<1> HIDE DEF w, size
<1>8. /\ TypeBits(t) \in Nat /\ TypeBits(t) > 0 /\ TypeBits(t) <= TopBits
      /\ TopBits \in Nat /\ TopBits > 0
  BY <1>4, <1>5, BytePositive
<1>9. /\ t \in Ty!Whole => TypeBits(t) = TopBits
      /\ t \notin Ty!Whole => TypeBits(t) = Ty!Bits(size)
      /\ t \notin {"INT", "UINT"} => TypeBits(t) = Ty!Bits(size)
  BY <1>4, <1>6, <1>7
<1> QED
  BY <1>2, <1>4, <1>8, <1>9 DEF size

(* What a type makes of a number, and the casts, in terms of its bits.     *)
LEMMA ValueFact ==
  ASSUME NEW t \in Ty!Types, NEW x
  PROVE  /\ t \in Ty!SignedTypes =>
              Ty!ValueOf(t, x) = Ty!Signed(TypeBits(t), x)
         /\ t \notin Ty!SignedTypes =>
              Ty!ValueOf(t, x) = Ty!Unsigned(TypeBits(t), x)
         /\ Ty!DeltaValue(t, x) = Ty!Unsigned(TypeBits(t), x)
         /\ Ty!UNITY_UINT(x) = Ty!Unsigned(TopBits, x)
         /\ Ty!UNITY_INT(x) = Ty!Signed(TopBits, x)
<1>1. /\ t \in Ty!Whole => TypeBits(t) = TopBits
      /\ t \notin Ty!Whole => TypeBits(t) = Ty!Bits(Ty!Style(t).size)
      /\ t \notin {"INT", "UINT"} =>
              TypeBits(t) = Ty!Bits(Ty!Style(t).size)
  BY TypeBitsFact
<1>2. t \in {"INT", "UINT"} => t \in Ty!Whole
  BY DEF Ty!Whole
<1>3. (IF t \in {"INT", "UINT"} THEN Ty!Bits(8)
       ELSE Ty!Bits(Ty!Style(t).size)) = TypeBits(t)
  BY <1>1, <1>2 DEF TopBits
<1>4. (IF t \in Ty!Whole THEN Ty!Bits(8) ELSE Ty!Bits(Ty!Style(t).size))
        = TypeBits(t)
  BY <1>1 DEF TopBits
<1>5. Ty!ValueOf(t, x) = IF t \in Ty!SignedTypes
                         THEN Ty!Signed(TypeBits(t), x)
                         ELSE Ty!Unsigned(TypeBits(t), x)
  BY <1>3 DEF Ty!ValueOf
<1>6. Ty!DeltaValue(t, x) = Ty!Unsigned(TypeBits(t), x)
  BY <1>4 DEF Ty!DeltaValue
<1>7. /\ Ty!UNITY_UINT(x) = Ty!Unsigned(TopBits, x)
      /\ Ty!UNITY_INT(x) = Ty!Signed(TopBits, x)
  BY DEF Ty!UNITY_UINT, Ty!UNITY_INT, TopBits
<1> QED
  BY <1>5, <1>6, <1>7

(* UnityNumbers names the types as UnityTypes does.                        *)
LEMMA NumberTypes ==
  /\ N!Types = Ty!Types /\ N!SignedTypes = Ty!SignedTypes
  /\ N!UnsignedTypes = Ty!UnsignedTypes /\ N!HexTypes = Ty!HexTypes
  /\ N!Whole = Ty!Whole
  /\ \A t : N!Style(t) = Ty!Style(t)
  /\ \A b, x : N!Unsigned(b, x) = Ty!Unsigned(b, x)
  /\ \A b, x : N!Signed(b, x) = Ty!Signed(b, x)
  /\ \A x : N!UNITY_UINT(x) = Ty!UNITY_UINT(x)
  /\ \A x : N!UNITY_INT(x) = Ty!UNITY_INT(x)
  /\ \A t, x : N!Shown(t, x) = Ty!Shown(t, x)
  /\ \A t, x : N!ValueOf(t, x) = Ty!ValueOf(t, x)
  /\ \A t, x : N!DeltaValue(t, x) = Ty!DeltaValue(t, x)
<1>1. /\ N!SignedTypes = Ty!SignedTypes
      /\ N!UnsignedTypes = Ty!UnsignedTypes /\ N!HexTypes = Ty!HexTypes
      /\ N!Whole = Ty!Whole
  BY DEF N!SignedTypes, Ty!SignedTypes, N!UnsignedTypes, Ty!UnsignedTypes,
         N!HexTypes, Ty!HexTypes, N!Whole, Ty!Whole
<1>2. N!Types = Ty!Types
  BY <1>1 DEF N!Types, Ty!Types
<1>3. \A t : N!Style(t) = Ty!Style(t)
  BY <1>1 DEF N!Style, Ty!Style
<1>4. \A w : N!Bits(w) = Ty!Bits(w)
  BY DEF N!Bits, Ty!Bits
<1>5. \A b, x : N!Unsigned(b, x) = Ty!Unsigned(b, x)
  BY DEF N!Unsigned, Ty!Unsigned
<1>6. \A b, x : N!Signed(b, x) = Ty!Signed(b, x)
  BY <1>5 DEF N!Signed, Ty!Signed
<1>7. /\ \A x : N!UNITY_UINT(x) = Ty!UNITY_UINT(x)
      /\ \A x : N!UNITY_INT(x) = Ty!UNITY_INT(x)
  BY <1>4, <1>5, <1>6 DEF N!UNITY_UINT, Ty!UNITY_UINT, N!UNITY_INT, Ty!UNITY_INT
<1>8. \A t, x : N!Shown(t, x) = Ty!Shown(t, x)
  BY <1>1, <1>3, <1>4, <1>5, <1>7 DEF N!Shown, Ty!Shown
<1>9. \A t, x : N!ValueOf(t, x) = Ty!ValueOf(t, x)
  BY <1>1, <1>3, <1>4, <1>5, <1>6 DEF N!ValueOf, Ty!ValueOf
<1>10. \A t, x : N!DeltaValue(t, x) = Ty!DeltaValue(t, x)
  BY <1>1, <1>3, <1>4, <1>5 DEF N!DeltaValue, Ty!DeltaValue
<1> QED
  BY <1>1, <1>2, <1>3, <1>5, <1>6, <1>7, <1>8, <1>9, <1>10

(* The casts of the macros, in terms of the bits of the type.              *)
LEMMA CastForms ==
  ASSUME NEW t \in Ty!Types, NEW x
  PROVE  /\ t \in Ty!Whole =>
              /\ N!CastToEqual(t, x) = Ty!Signed(TopBits, x)
              /\ N!CastToCompare(t, x) = Ty!Signed(TopBits, x)
              /\ N!CastDelta(t, x)
                   = Ty!Unsigned(TopBits, Ty!Signed(TopBits, x))
         /\ t \notin Ty!Whole =>
              /\ t \in Ty!UnsignedTypes =>
                   N!CastToEqual(t, x) = Ty!Unsigned(TypeBits(t), x)
              /\ t \notin Ty!UnsignedTypes =>
                   N!CastToEqual(t, x) = Ty!Signed(TypeBits(t), x)
              /\ t \in Ty!SignedTypes =>
                   N!CastToCompare(t, x) = Ty!Signed(TypeBits(t), x)
              /\ t \notin Ty!SignedTypes =>
                   N!CastToCompare(t, x) = Ty!Unsigned(TypeBits(t), x)
              /\ N!CastDelta(t, x)
                   = Ty!Unsigned(TopBits, Ty!Unsigned(TypeBits(t), x))
         /\ N!CastToWithin(t, x) = N!CastToCompare(t, x)
<1>1. /\ t \notin Ty!Whole => TypeBits(t) = N!Bits(N!Style(t).size)
      /\ \A y : N!UNITY_INT(y) = Ty!Signed(TopBits, y)
      /\ \A y : N!UNITY_UINT(y) = Ty!Unsigned(TopBits, y)
  BY TypeBitsFact, NumberTypes, ValueFact DEF N!Bits, Ty!Bits
<1>2. /\ N!Narrowed(t, TRUE, x) = IF t \in Ty!Whole THEN Ty!Signed(TopBits, x)
                                  ELSE Ty!Signed(TypeBits(t), x)
      /\ N!Narrowed(t, FALSE, x) = IF t \in Ty!Whole THEN Ty!Signed(TopBits, x)
                                   ELSE Ty!Unsigned(TypeBits(t), x)
  BY <1>1, NumberTypes DEF N!Narrowed
<1>3. /\ t \in Ty!UnsignedTypes => N!CastToEqual(t, x) = N!Narrowed(t, FALSE, x)
      /\ t \notin Ty!UnsignedTypes =>
           N!CastToEqual(t, x) = N!Narrowed(t, TRUE, x)
      /\ t \in Ty!SignedTypes => N!CastToCompare(t, x) = N!Narrowed(t, TRUE, x)
      /\ t \notin Ty!SignedTypes =>
           N!CastToCompare(t, x) = N!Narrowed(t, FALSE, x)
  BY NumberTypes DEF N!CastToEqual, N!CastToCompare, N!Narrowed
<1>4. N!CastDelta(t, x) = Ty!Unsigned(TopBits, N!Narrowed(t, FALSE, x))
  BY <1>1 DEF N!CastDelta
<1>5. N!CastToWithin(t, x) = N!CastToCompare(t, x)
  BY DEF N!CastToWithin, N!CastToCompare
<1> QED
  BY <1>2, <1>3, <1>4, <1>5

(* The casts keep what the type makes of a number.                         *)
LEMMA CastFact ==
  ASSUME NEW t \in Ty!Types, NEW x \in Int, NEW y \in Int
  PROVE  /\ N!CastToEqual(t, x) = N!CastToEqual(t, y)
              <=> Ty!ValueOf(t, x) = Ty!ValueOf(t, y)
         /\ N!CastToCompare(t, x) = N!CastToCompare(t, y)
              <=> Ty!ValueOf(t, x) = Ty!ValueOf(t, y)
         /\ N!CastToCompare(t, x) \in Int
         /\ t \in Ty!SignedTypes =>
              /\ N!CastToCompare(t, x) = Ty!ValueOf(t, x)
              /\ Ty!ValueOf(t, x)
                   \in -(2 ^ (TopBits - 1))..2 ^ (TopBits - 1) - 1
         /\ t \notin Ty!SignedTypes =>
              /\ Ty!UNITY_UINT(N!CastToCompare(t, x)) = Ty!ValueOf(t, x)
              /\ Ty!ValueOf(t, x) \in 0..2 ^ TopBits - 1
         /\ N!CastDelta(t, x) = Ty!DeltaValue(t, x)
         /\ Ty!DeltaValue(t, x) \in Nat
         /\ Ty!Shown(t, N!CastToEqual(t, x)) = Ty!ValueOf(t, x)
         /\ Ty!Shown(t, N!CastToCompare(t, x)) = Ty!ValueOf(t, x)
<1> DEFINE b == TypeBits(t)
           c == TopBits
<1>1. b \in Nat /\ b > 0 /\ c \in Nat /\ c > 0 /\ b <= c
      /\ (t \in Ty!Whole => b = c)
      /\ (t \in Ty!HexTypes => b = Ty!Bits(Ty!Style(t).size))
  BY TypeBitsFact
<1>2. ASSUME NEW z \in Int
      PROVE  /\ t \in Ty!SignedTypes => Ty!ValueOf(t, z) = Ty!Signed(b, z)
             /\ t \notin Ty!SignedTypes => Ty!ValueOf(t, z) = Ty!Unsigned(b, z)
             /\ Ty!DeltaValue(t, z) = Ty!Unsigned(b, z)
             /\ Ty!UNITY_UINT(z) = Ty!Unsigned(c, z)
  BY ValueFact
<1>3. ASSUME NEW z \in Int
      PROVE  /\ Ty!Signed(b, z) \in Int /\ Ty!Unsigned(b, z) \in Nat
             /\ Ty!Signed(b, z) \in -(2 ^ (c - 1))..2 ^ (c - 1) - 1
             /\ Ty!Unsigned(b, z) \in 0..2 ^ c - 1
             /\ Ty!Unsigned(b, Ty!Signed(b, z)) = Ty!Unsigned(b, z)
             /\ Ty!Unsigned(b, Ty!Unsigned(b, z)) = Ty!Unsigned(b, z)
             /\ Ty!Unsigned(c, Ty!Unsigned(b, z)) = Ty!Unsigned(b, z)
             /\ Ty!Unsigned(c, Ty!Signed(c, z)) = Ty!Unsigned(c, z)
  <2>1. /\ Ty!Signed(b, z) \in -(2 ^ (b - 1))..2 ^ (b - 1) - 1
        /\ Ty!Unsigned(b, Ty!Signed(b, z)) = Ty!Unsigned(b, z)
    BY <1>1, SignedFact
  <2>2. Ty!Unsigned(b, z) \in 0..2 ^ b - 1
    BY <1>1, UnsignedFact
  <2>3. /\ Ty!Unsigned(c, Ty!Unsigned(b, z)) = Ty!Unsigned(b, z)
        /\ 2 ^ b <= 2 ^ c
    BY <1>1, NarrowFact
  <2>4. Ty!Unsigned(b, Ty!Unsigned(b, z)) = Ty!Unsigned(b, z)
    BY <1>1, NarrowFact
  <2>5. Ty!Unsigned(c, Ty!Signed(c, z)) = Ty!Unsigned(c, z)
    BY <1>1, SignedFact
  <2>6. /\ 2 ^ (b - 1) \in Nat /\ 2 ^ (c - 1) \in Nat
        /\ 2 ^ (b - 1) <= 2 ^ (c - 1)
        /\ 2 ^ b \in Nat /\ 2 ^ c \in Nat
    <3>1. b - 1 \in Nat /\ c - 1 \in Nat /\ b - 1 <= c - 1
      BY <1>1
    <3> QED
      BY <1>1, <3>1, TwoPowNat, TwoPowOrder
  <2> HIDE DEF b, c
  <2> QED
    BY <2>1, <2>2, <2>3, <2>4, <2>5, <2>6
<1>4. Ty!Signed(b, x) = Ty!Signed(b, y)
        <=> Ty!Unsigned(b, x) = Ty!Unsigned(b, y)
  BY <1>1, SignedSame
<1>5. ASSUME NEW z \in Int
      PROVE  /\ N!CastToEqual(t, z) \in {Ty!Signed(b, z), Ty!Unsigned(b, z)}
             /\ N!CastToCompare(t, z) \in {Ty!Signed(b, z), Ty!Unsigned(b, z)}
             /\ t \in Ty!SignedTypes => N!CastToEqual(t, z) = Ty!Signed(b, z)
             /\ t \in Ty!SignedTypes => N!CastToCompare(t, z) = Ty!Signed(b, z)
             /\ t \notin Ty!SignedTypes /\ t \notin Ty!Whole =>
                  N!CastToCompare(t, z) = Ty!Unsigned(b, z)
             /\ t \notin Ty!Whole =>
                  N!CastDelta(t, z) = Ty!Unsigned(c, Ty!Unsigned(b, z))
             /\ t \in Ty!Whole =>
                  /\ N!CastDelta(t, z) = Ty!Unsigned(c, Ty!Signed(c, z))
                  /\ N!CastToCompare(t, z) = Ty!Signed(c, z)
                  /\ N!CastToEqual(t, z) = Ty!Signed(c, z)
             /\ t \notin Ty!Whole /\ t \in Ty!UnsignedTypes =>
                  N!CastToEqual(t, z) = Ty!Unsigned(b, z)
  <2>1. t \in Ty!SignedTypes => t \notin Ty!UnsignedTypes
    BY DEF Ty!SignedTypes, Ty!UnsignedTypes
  <2> QED
    BY <1>1, <2>1, CastForms
<1>6. /\ \/ /\ N!CastToEqual(t, x) = Ty!Signed(b, x)
            /\ N!CastToEqual(t, y) = Ty!Signed(b, y)
         \/ /\ N!CastToEqual(t, x) = Ty!Unsigned(b, x)
            /\ N!CastToEqual(t, y) = Ty!Unsigned(b, y)
      /\ \/ /\ N!CastToCompare(t, x) = Ty!Signed(b, x)
            /\ N!CastToCompare(t, y) = Ty!Signed(b, y)
         \/ /\ N!CastToCompare(t, x) = Ty!Unsigned(b, x)
            /\ N!CastToCompare(t, y) = Ty!Unsigned(b, y)
  BY <1>1, CastForms
<1>7. /\ N!CastToEqual(t, x) = N!CastToEqual(t, y)
           <=> Ty!ValueOf(t, x) = Ty!ValueOf(t, y)
      /\ N!CastToCompare(t, x) = N!CastToCompare(t, y)
           <=> Ty!ValueOf(t, x) = Ty!ValueOf(t, y)
  BY <1>2, <1>4, <1>6
<1>8. N!CastToCompare(t, x) \in Int /\ Ty!Unsigned(b, x) \in Nat
  BY <1>3, <1>5
<1>9. t \in Ty!SignedTypes =>
        /\ N!CastToCompare(t, x) = Ty!ValueOf(t, x)
        /\ Ty!ValueOf(t, x) \in -(2 ^ (c - 1))..2 ^ (c - 1) - 1
  BY <1>2, <1>3, <1>5
<1>10. t \notin Ty!SignedTypes =>
        /\ Ty!UNITY_UINT(N!CastToCompare(t, x)) = Ty!ValueOf(t, x)
        /\ Ty!ValueOf(t, x) \in 0..2 ^ c - 1
  <2> SUFFICES ASSUME t \notin Ty!SignedTypes
               PROVE  /\ Ty!UNITY_UINT(N!CastToCompare(t, x)) = Ty!ValueOf(t, x)
                      /\ Ty!ValueOf(t, x) \in 0..2 ^ c - 1
    OBVIOUS
  <2>1. Ty!UNITY_UINT(N!CastToCompare(t, x))
          = Ty!Unsigned(c, N!CastToCompare(t, x))
    BY <1>2, <1>8
  <2>2. /\ Ty!ValueOf(t, x) = Ty!Unsigned(b, x)
        /\ Ty!Unsigned(b, x) \in 0..2 ^ c - 1
    BY <1>2, <1>3
  <2>3. CASE t \in Ty!Whole
    BY <1>1, <1>3, <1>5, <2>1, <2>2, <2>3
  <2>4. CASE t \notin Ty!Whole
    BY <1>1, <1>3, <1>5, <2>1, <2>2, <2>4
  <2> QED
    BY <2>2, <2>3, <2>4
<1>11. N!CastDelta(t, x) = Ty!DeltaValue(t, x) /\ Ty!DeltaValue(t, x) \in Nat
  BY <1>1, <1>2, <1>3, <1>5
<1>12. /\ Ty!Shown(t, N!CastToEqual(t, x)) = Ty!ValueOf(t, x)
       /\ Ty!Shown(t, N!CastToCompare(t, x)) = Ty!ValueOf(t, x)
  <2> DEFINE e == N!CastToEqual(t, x)
             g == N!CastToCompare(t, x)
  <2>1. /\ e \in {Ty!Signed(b, x), Ty!Unsigned(b, x)} /\ e \in Int
        /\ g \in {Ty!Signed(b, x), Ty!Unsigned(b, x)} /\ g \in Int
    BY <1>3, <1>5
  <2>2. /\ t \in Ty!HexTypes => t \notin Ty!SignedTypes
        /\ t \in Ty!UnsignedTypes => t \notin Ty!SignedTypes
        /\ t \in Ty!HexTypes => t \notin Ty!UnsignedTypes
        /\ t \notin Ty!HexTypes /\ t \notin Ty!UnsignedTypes =>
             t \in Ty!SignedTypes
    BY DEF Ty!HexTypes, Ty!SignedTypes, Ty!UnsignedTypes, Ty!Types
  <2>3. CASE t \in Ty!HexTypes
    <3>1. \A z : Ty!Shown(t, z) = Ty!Unsigned(b, z)
      BY <1>1, <2>3 DEF Ty!Shown
    <3> QED
      BY <1>2, <1>3, <2>1, <2>2, <2>3, <3>1
  <2>4. CASE t \in Ty!UnsignedTypes
    <3>1. \A z : Ty!Shown(t, z) = Ty!UNITY_UINT(z)
      BY <2>2, <2>4 DEF Ty!Shown
    <3>2. Ty!UNITY_UINT(e) = Ty!Unsigned(c, e)
      BY <1>2, <2>1
    <3>3. Ty!ValueOf(t, x) = Ty!Unsigned(b, x)
      BY <1>2, <2>2, <2>4
    <3>4. Ty!Unsigned(c, e) = Ty!Unsigned(b, x)
      <4>1. CASE t \in Ty!Whole
        BY <1>1, <1>3, <1>5, <4>1
      <4>2. CASE t \notin Ty!Whole
        BY <1>3, <1>5, <2>4, <4>2
      <4> QED
        BY <4>1, <4>2
    <3> QED
      BY <1>10, <2>2, <2>4, <3>1, <3>2, <3>3, <3>4
  <2>5. CASE t \in Ty!SignedTypes
    <3>1. \A z : Ty!Shown(t, z) = z
      BY <2>2, <2>5 DEF Ty!Shown
    <3> QED
      BY <1>2, <1>5, <2>5, <3>1
  <2> QED
    BY <2>2, <2>3, <2>4, <2>5
<1> QED
  BY <1>7, <1>8, <1>9, <1>10, <1>11, <1>12

-----------------------------------------------------------------------------
NumberCall ==
  \E e \in Int, a \in Int :
    \/ \E f \in N!NumberFamilies \ {"WITHIN"}, t \in N!Types :
         call = [family |-> f, type |-> t, expected |-> e, actual |-> a]
    \/ \E t \in N!Types, d \in Nat :
         call = [family |-> "WITHIN", type |-> t, delta |-> d,
                 expected |-> e, actual |-> a]
    \/ \E f \in {"BITS", "BITS_HIGH", "BITS_LOW"}, m \in Nat,
          withMessage \in BOOLEAN :
         call = [family |-> f, mask |-> m, message |-> withMessage,
                 expected |-> e, actual |-> a]
    \/ \E f \in {"BIT_HIGH", "BIT_LOW"}, b \in Nat, withMessage \in BOOLEAN :
         /\ b < TopBits /\ (withMessage => b < Ty!Bits(4))
         /\ call = [family |-> f, bit |-> b, message |-> withMessage,
                    expected |-> e, actual |-> a]

NumbersInv == NumberCall /\ N!TypeOK /\ N!VerdictCorrect /\ N!BitsCorrect

(* The kinds of assertions are told apart by their names.                  *)
LEMMA FamiliesApart ==
  /\ DOMAIN N!Comparison = {"NOT_EQUAL", "GREATER_THAN", "GREATER_OR_EQUAL",
                            "SMALLER_THAN", "SMALLER_OR_EQUAL"}
  /\ N!NumberFamilies = {"EQUAL", "WITHIN", "NOT_EQUAL", "GREATER_THAN",
                         "GREATER_OR_EQUAL", "SMALLER_THAN", "SMALLER_OR_EQUAL"}
  /\ N!BitFamilies \cap N!NumberFamilies = {}
<1>1. DOMAIN N!Comparison = {"NOT_EQUAL", "GREATER_THAN", "GREATER_OR_EQUAL",
                            "SMALLER_THAN", "SMALLER_OR_EQUAL"}
  BY DEF N!Comparison
<1>2. N!NumberFamilies = {"EQUAL", "WITHIN", "NOT_EQUAL", "GREATER_THAN",
                         "GREATER_OR_EQUAL", "SMALLER_THAN", "SMALLER_OR_EQUAL"}
  BY <1>1 DEF N!NumberFamilies
<1> QED
  BY <1>1, <1>2 DEF N!BitFamilies

(* The arguments of a call are numbers of the types it is about.           *)
LEMMA NumberCallFact ==
  ASSUME NumberCall
  PROVE  /\ call.expected \in Int /\ call.actual \in Int
         /\ call.family \in N!NumberFamilies \cup N!BitFamilies
         /\ call.family \in N!NumberFamilies => call.type \in Ty!Types
         /\ call.family = "WITHIN" => call.delta \in Nat
         /\ call.family \in N!BitFamilies => call.message \in BOOLEAN
         /\ call.family \in {"BITS", "BITS_HIGH", "BITS_LOW"} =>
              call.mask \in Nat
         /\ call.family \in {"BIT_HIGH", "BIT_LOW"} =>
              /\ call.bit \in Nat /\ call.bit < TopBits
              /\ call.message => call.bit < Ty!Bits(4)
<1>1. /\ N!Types = Ty!Types
      /\ N!NumberFamilies = {"EQUAL", "WITHIN", "NOT_EQUAL", "GREATER_THAN",
                         "GREATER_OR_EQUAL", "SMALLER_THAN", "SMALLER_OR_EQUAL"}
      /\ N!BitFamilies = {"BITS", "BITS_HIGH", "BITS_LOW", "BIT_HIGH",
                          "BIT_LOW"}
  BY FamiliesApart, NumberTypes DEF N!BitFamilies
<1>2. PICK e \in Int, a \in Int :
    \/ \E f \in N!NumberFamilies \ {"WITHIN"}, t \in N!Types :
         call = [family |-> f, type |-> t, expected |-> e, actual |-> a]
    \/ \E t \in N!Types, d \in Nat :
         call = [family |-> "WITHIN", type |-> t, delta |-> d,
                 expected |-> e, actual |-> a]
    \/ \E f \in {"BITS", "BITS_HIGH", "BITS_LOW"}, m \in Nat,
          withMessage \in BOOLEAN :
         call = [family |-> f, mask |-> m, message |-> withMessage,
                 expected |-> e, actual |-> a]
    \/ \E f \in {"BIT_HIGH", "BIT_LOW"}, b \in Nat, withMessage \in BOOLEAN :
         /\ b < TopBits /\ (withMessage => b < Ty!Bits(4))
         /\ call = [family |-> f, bit |-> b, message |-> withMessage,
                    expected |-> e, actual |-> a]
  BY DEF NumberCall
<1>3. CASE \E f \in N!NumberFamilies \ {"WITHIN"}, t \in N!Types :
         call = [family |-> f, type |-> t, expected |-> e, actual |-> a]
  BY <1>1, <1>3
<1>4. CASE \E t \in N!Types, d \in Nat :
         call = [family |-> "WITHIN", type |-> t, delta |-> d,
                 expected |-> e, actual |-> a]
  BY <1>1, <1>4
<1>5. CASE \E f \in {"BITS", "BITS_HIGH", "BITS_LOW"}, m \in Nat,
          withMessage \in BOOLEAN :
         call = [family |-> f, mask |-> m, message |-> withMessage,
                 expected |-> e, actual |-> a]
  BY <1>1, <1>5
<1>6. CASE \E f \in {"BIT_HIGH", "BIT_LOW"}, b \in Nat,
              withMessage \in BOOLEAN :
         /\ b < TopBits /\ (withMessage => b < Ty!Bits(4))
         /\ call = [family |-> f, bit |-> b, message |-> withMessage,
                    expected |-> e, actual |-> a]
  BY <1>1, <1>6
<1> QED
  BY <1>2, <1>3, <1>4, <1>5, <1>6

(* The relation that an assertion on numbers names, of what the type makes *)
(* of its arguments.                                                       *)
Meant == N!Holds(call.family, Ty!ValueOf(call.type, call.expected),
                 Ty!ValueOf(call.type, call.actual), N!DeltaOf(call))

(* A call that passes when what is meant holds keeps the invariant.        *)
LEMMA NumberEnds ==
  ASSUME NumbersInv, call.family \in N!NumberFamilies, call' = call,
         NEW good, good <=> Meant,
         outcome' = IF good THEN "passed" ELSE "failed",
         CurrentTestFailed' = IF good THEN 0 ELSE 1
  PROVE  NumbersInv'
<1>1. NumberCall'
  BY DEF NumbersInv, NumberCall
<1>2. N!TypeOK'
  BY DEF NumbersInv, N!TypeOK
<1>3. N!VerdictCorrect'
  <2>1. N!DeltaOf(call)' = N!DeltaOf(call)
    BY DEF N!DeltaOf
  <2>2. outcome' = "passed" <=>
          N!Holds(call'.family, N!ValueOf(call'.type, call'.expected),
                  N!ValueOf(call'.type, call'.actual), N!DeltaOf(call'))
    BY <2>1, NumberTypes DEF Meant
  <2> QED
    BY <2>2 DEF N!VerdictCorrect
<1>4. N!BitsCorrect'
  BY FamiliesApart DEF N!BitsCorrect
<1> QED
  BY <1>1, <1>2, <1>3, <1>4 DEF NumbersInv

(* UnityAssertEqualNumber decides equality.                                *)
LEMMA EqualStep ==
  ASSUME NumbersInv, N!UnityAssertEqualNumber
  PROVE  NumbersInv'
<1>1. call.family = "EQUAL" /\ call.family \in N!NumberFamilies
  BY FamiliesApart DEF N!UnityAssertEqualNumber, N!Called
<1>2. call.type \in Ty!Types /\ call.expected \in Int /\ call.actual \in Int
  BY <1>1, NumberCallFact DEF NumbersInv
<1> DEFINE good == N!CastToEqual(call.type, call.expected)
                     = N!CastToEqual(call.type, call.actual)
<1>3. /\ call' = call
      /\ outcome' = IF good THEN "passed" ELSE "failed"
      /\ CurrentTestFailed' = IF good THEN 0 ELSE 1
  BY DEF N!UnityAssertEqualNumber, N!Ends
<1>4. good <=> Meant
  <2>1. good <=> Ty!ValueOf(call.type, call.expected)
                   = Ty!ValueOf(call.type, call.actual)
    BY <1>2, CastFact
  <2>2. Meant <=> Ty!ValueOf(call.type, call.actual)
                    = Ty!ValueOf(call.type, call.expected)
    BY <1>1 DEF Meant, N!Holds
  <2> QED
    BY <2>1, <2>2
<1> HIDE DEF good
<1> QED
  BY <1>1, <1>3, <1>4, NumberEnds

(* UnityAssertGreaterOrLessOrEqualNumber decides order.                    *)
LEMMA ComparisonStep ==
  ASSUME NumbersInv, N!UnityAssertGreaterOrLessOrEqualNumber
  PROVE  NumbersInv'
<1>1. call.family \in DOMAIN N!Comparison /\ call.family \in N!NumberFamilies
  BY FamiliesApart DEF N!UnityAssertGreaterOrLessOrEqualNumber, N!Called
<1>2. call.type \in Ty!Types /\ call.expected \in Int /\ call.actual \in Int
  BY <1>1, NumberCallFact DEF NumbersInv
<1> DEFINE e == N!CastToCompare(call.type, call.expected)
           a == N!CastToCompare(call.type, call.actual)
           x == Ty!ValueOf(call.type, call.expected)
           y == Ty!ValueOf(call.type, call.actual)
           compare == N!Comparison[call.family]
           Wrong(v, w) == \/ w > v /\ "SMALLER" \in compare
                          \/ w < v /\ "GREATER" \in compare
           bad == \/ e = a /\ "EQUAL" \notin compare
                  \/ call.type \in Ty!SignedTypes /\ Wrong(e, a)
                  \/ /\ call.type \notin Ty!SignedTypes
                     /\ Wrong(Ty!UNITY_UINT(e), Ty!UNITY_UINT(a))
           good == ~ bad
<1>3. /\ call' = call
      /\ outcome' = IF good THEN "passed" ELSE "failed"
      /\ CurrentTestFailed' = IF good THEN 0 ELSE 1
  <2>1. N!Style(call.type).range = "INT" <=> call.type \in Ty!SignedTypes
    BY <1>2, StyleFact, NumberTypes
  <2>2. /\ N!UNITY_UINT(e) = Ty!UNITY_UINT(e)
        /\ N!UNITY_UINT(a) = Ty!UNITY_UINT(a)
    BY NumberTypes
  <2> QED
    BY <2>1, <2>2 DEF N!UnityAssertGreaterOrLessOrEqualNumber, N!Ends
<1>4. bad <=> (x = y /\ "EQUAL" \notin compare) \/ Wrong(x, y)
  <2>1. /\ e = a <=> x = y
        /\ call.type \in Ty!SignedTypes => e = x /\ a = y
        /\ call.type \notin Ty!SignedTypes =>
             Ty!UNITY_UINT(e) = x /\ Ty!UNITY_UINT(a) = y
    BY <1>2, CastFact
  <2> HIDE DEF e, a, x, y, compare
  <2> QED
    BY <2>1
<1>5. good <=> Meant
  <2>1. x \in Int /\ y \in Int
    <3>1. /\ 2 ^ TopBits \in Int /\ 2 ^ (TopBits - 1) \in Int
      BY <1>2, TypeBitsFact, WidthFact
    <3>2. \A z \in Int : Ty!ValueOf(call.type, z) \in Int
      BY <1>2, <3>1, CastFact
    <3> QED
      BY <1>2, <3>2
  <2>2. Meant <=> N!Holds(call.family, x, y, N!DeltaOf(call))
    BY DEF Meant
  <2> HIDE DEF x, y
  <2>3. CASE call.family = "NOT_EQUAL"
    BY <1>4, <2>1, <2>2, <2>3 DEF N!Holds, N!Comparison
  <2>4. CASE call.family = "GREATER_THAN"
    BY <1>4, <2>1, <2>2, <2>4 DEF N!Holds, N!Comparison
  <2>5. CASE call.family = "GREATER_OR_EQUAL"
    BY <1>4, <2>1, <2>2, <2>5 DEF N!Holds, N!Comparison
  <2>6. CASE call.family = "SMALLER_THAN"
    BY <1>4, <2>1, <2>2, <2>6 DEF N!Holds, N!Comparison
  <2>7. CASE call.family = "SMALLER_OR_EQUAL"
    BY <1>4, <2>1, <2>2, <2>7 DEF N!Holds, N!Comparison
  <2> QED
    BY <1>1, <2>3, <2>4, <2>5, <2>6, <2>7, FamiliesApart
<1> HIDE DEF good
<1> QED
  BY <1>1, <1>3, <1>5, NumberEnds

(* The difference of two numbers, the larger first, does not overflow.     *)
LEMMA DifferenceFact ==
  ASSUME NEW b \in Nat, b > 0, NEW l \in Int, NEW s \in Int
  PROVE  /\ l - s \in 0..2 ^ b - 1 =>
              Ty!Unsigned(b, Ty!Unsigned(b, l) - Ty!Unsigned(b, s)) = l - s
         /\ Ty!Unsigned(b, l) >= Ty!Unsigned(b, s) =>
              Ty!Unsigned(b, Ty!Unsigned(b, l) - Ty!Unsigned(b, s))
                = Ty!Unsigned(b, l) - Ty!Unsigned(b, s)
<1> DEFINE M == 2 ^ b
           u == Ty!Unsigned(b, l)
           v == Ty!Unsigned(b, s)
<1>1. M \in Nat /\ u \in 0..M - 1 /\ v \in 0..M - 1
  BY WidthFact, UnsignedFact
<1>2. PICK y \in Int : l = u + M * y
  BY UnsignedFact
<1>3. PICK z \in Int : s = v + M * z
  BY UnsignedFact
<1>4. /\ \A x \in Int : x \in 0..M - 1 => Ty!Unsigned(b, x) = x
      /\ \A x, w \in Int : Ty!Unsigned(b, x + M * w) = Ty!Unsigned(b, x)
  BY UnsignedFact
<1> HIDE DEF M, u, v
<1>5. l - s = (u - v) + M * (y - z)
  BY <1>1, <1>2, <1>3
<1>6. Ty!Unsigned(b, l - s) = Ty!Unsigned(b, u - v)
  <2>1. u - v \in Int /\ y - z \in Int
    BY <1>1
  <2> QED
    BY <1>4, <1>5, <2>1
<1>7. l - s \in 0..M - 1 => Ty!Unsigned(b, u - v) = l - s
  BY <1>4, <1>6
<1>8. u >= v => Ty!Unsigned(b, u - v) = u - v
  BY <1>1, <1>4
<1> QED
  BY <1>7, <1>8 DEF M, u, v

(* UnityAssertNumbersWithin decides whether numbers are within a delta.    *)
LEMMA WithinStep ==
  ASSUME NumbersInv, N!UnityAssertNumbersWithin
  PROVE  NumbersInv'
<1>1. call.family = "WITHIN" /\ call.family \in N!NumberFamilies
  BY FamiliesApart DEF N!UnityAssertNumbersWithin, N!Called
<1>2. call.type \in Ty!Types /\ call.expected \in Int /\ call.actual \in Int
      /\ call.delta \in Int
  BY <1>1, NumberCallFact DEF NumbersInv
<1> DEFINE e == N!CastToCompare(call.type, call.expected)
           a == N!CastToCompare(call.type, call.actual)
           x == Ty!ValueOf(call.type, call.expected)
           y == Ty!ValueOf(call.type, call.actual)
           d == Ty!DeltaValue(call.type, call.delta)
           Apart(l, s) == Ty!Unsigned(TopBits, Ty!Unsigned(TopBits, l)
                                                 - Ty!Unsigned(TopBits, s))
           signed == call.type \in Ty!SignedTypes
           larger == IF signed THEN a > e
                     ELSE Ty!Unsigned(TopBits, a) > Ty!Unsigned(TopBits, e)
           distance == IF larger THEN Apart(a, e) ELSE Apart(e, a)
           good == ~ (distance > d)
<1>3. /\ call' = call
      /\ outcome' = IF good THEN "passed" ELSE "failed"
      /\ CurrentTestFailed' = IF good THEN 0 ELSE 1
  <2>1. N!Style(call.type).range = "INT" <=> signed
    BY <1>2, StyleFact, NumberTypes
  <2>2. \A z : N!UNITY_UINT(z) = Ty!Unsigned(TopBits, z)
    BY <1>2, NumberTypes, ValueFact
  <2>3. \A l, s : N!Distance(l, s) = Apart(l, s)
    BY <2>2 DEF N!Distance
  <2>4. /\ N!CastToWithin(call.type, call.expected) = e
        /\ N!CastToWithin(call.type, call.actual) = a
    BY <1>2, CastForms
  <2>5. N!CastDelta(call.type, call.delta) = d
    BY <1>2, CastFact
  <2> HIDE DEF e, a, d, signed
  <2> QED
    BY <2>1, <2>2, <2>3, <2>4, <2>5 DEF N!UnityAssertNumbersWithin, N!Ends
<1>4. TopBits \in Nat /\ TopBits > 0
  BY <1>2, TypeBitsFact
<1>5. /\ e \in Int /\ a \in Int /\ d \in Nat
      /\ signed => /\ e = x /\ a = y
                   /\ x \in -(2 ^ (TopBits - 1))..2 ^ (TopBits - 1) - 1
                   /\ y \in -(2 ^ (TopBits - 1))..2 ^ (TopBits - 1) - 1
      /\ ~ signed => /\ Ty!Unsigned(TopBits, e) = x
                     /\ Ty!Unsigned(TopBits, a) = y
                     /\ x \in 0..2 ^ TopBits - 1 /\ y \in 0..2 ^ TopBits - 1
  <2>1. \A z : Ty!UNITY_UINT(z) = Ty!Unsigned(TopBits, z)
    BY <1>2, ValueFact
  <2> QED
    BY <1>2, <2>1, CastFact
<1>6. distance = IF y > x THEN y - x ELSE x - y
  <2>1. /\ 2 ^ TopBits = 2 * 2 ^ (TopBits - 1) /\ 2 ^ (TopBits - 1) \in Nat
    BY <1>4, WidthFact
  <2>2. /\ \A l, s \in Int : l - s \in 0..2 ^ TopBits - 1 => Apart(l, s) = l - s
        /\ \A l, s \in Int :
             Ty!Unsigned(TopBits, l) >= Ty!Unsigned(TopBits, s) =>
               Apart(l, s) = Ty!Unsigned(TopBits, l) - Ty!Unsigned(TopBits, s)
    BY <1>4, DifferenceFact
  <2> HIDE DEF e, a, d, signed, x, y, Apart
  <2>3. CASE signed
    BY <1>5, <2>1, <2>2, <2>3
  <2>4. CASE ~ signed
    BY <1>5, <2>1, <2>2, <2>4
  <2> QED
    BY <2>3, <2>4
<1>7. x \in Int /\ y \in Int
  <2>1. /\ 2 ^ TopBits \in Int /\ 2 ^ (TopBits - 1) \in Int
    BY <1>4, WidthFact
  <2> QED
    BY <1>5, <2>1
<1>8. good <=> Meant
  <2>1. Meant <=> y - x \in -d..d
    BY <1>1, NumberTypes DEF Meant, N!Holds, N!DeltaOf
  <2> HIDE DEF x, y, d, distance
  <2> QED
    BY <1>5, <1>6, <1>7, <2>1
<1> HIDE DEF good
<1> QED
  BY <1>1, <1>3, <1>8, NumberEnds

-----------------------------------------------------------------------------
(* Bits.                                                                   *)
BitSet(x, k) == ((x \div 2 ^ k) % 2) = 1

(* Every bit of 2^b - 1 is set below b ...                                 *)
LEMMA AllBitsSet ==
  ASSUME NEW b \in Nat, NEW k \in Nat, k < b
  PROVE  BitSet(2 ^ b - 1, k)
<1> DEFINE K == 2 ^ k
           J == 2 ^ (b - k - 1)
<1>1. b - k \in Nat /\ b - k > 0
  OBVIOUS
<1>2. 2 ^ b = K * 2 ^ (b - k) /\ 2 ^ (b - k) = 2 * J /\ K \in Nat /\ K > 0
      /\ J \in Nat /\ J > 0
  BY <1>1, TwoPowOrder, TwoPowNat, WidthFact
<1>3. (2 ^ b - 1) \div K = 2 * J - 1
  <2> HIDE DEF K, J
  <2> DEFINE x == 2 ^ b - 1
  <2>1. 2 ^ b = K * (2 * J)
    BY <1>2
  <2>2. x = K * (2 * J - 1) + (K - 1) /\ x \in Int
    <3>1. K * (2 * J - 1) = K * (2 * J) - K
      BY <1>2
    <3> QED
      BY <1>2, <2>1, <3>1
  <2>3. 2 * J - 1 \in Int /\ K - 1 \in 0..K - 1
    BY <1>2
  <2> HIDE DEF x
  <2>4. x \div K = 2 * J - 1
    BY <1>2, <2>2, <2>3, DivModUnique
  <2> QED
    BY <2>4 DEF x
<1>4. ((2 * J - 1) % 2) = 1
  <2> HIDE DEF J
  <2> QED
    BY <1>2
<1> QED
  BY <1>3, <1>4 DEF BitSet

(* ... and none of a number of b bits above.                               *)
LEMMA NoHighBits ==
  ASSUME NEW b \in Nat, NEW k \in Nat, b <= k, NEW x \in 0..2 ^ b - 1
  PROVE  ~ BitSet(x, k)
<1> DEFINE K == 2 ^ k
           M == 2 ^ b
<1>1. K \in Nat /\ K > 0 /\ M <= K /\ M \in Nat
  BY TwoPowNat, TwoPowOrder
<1>0. BitSet(x, k) <=> ((x \div K) % 2) = 1
  BY DEF BitSet
<1> HIDE DEF K, M
<1>2. x \in 0..K - 1
  BY <1>1 DEF M
<1>3. x \div K = 0
  BY <1>1, <1>2
<1> QED
  BY <1>0, <1>3

(* 2^b has bit b.                                                          *)
LEMMA OneBitSet ==
  ASSUME NEW b \in Nat, NEW k \in Nat
  PROVE  BitSet(2 ^ b, k) <=> k = b
<1> DEFINE K == 2 ^ k
           M == 2 ^ b
<1>1. K \in Nat /\ K > 0 /\ M \in Nat /\ M > 0
  BY TwoPowNat
<1>0. BitSet(2 ^ b, k) <=> ((M \div K) % 2) = 1
  BY DEF BitSet
<1>2. CASE k = b
  <2>1. K = M
    BY <1>2
  <2> HIDE DEF K, M
  <2>2. M \div K = 1
    BY <1>1, <2>1
  <2> QED
    BY <1>0, <1>2, <2>2
<1>3. CASE k < b
  <2> DEFINE J == 2 ^ (b - k - 1)
  <2>1. b - k \in Nat /\ b - k > 0
    BY <1>3
  <2>2. M = K * 2 ^ (b - k) /\ 2 ^ (b - k) = 2 * J /\ J \in Nat
    BY <1>3, <2>1, TwoPowOrder, WidthFact
  <2> HIDE DEF K, M, J
  <2>3. M = K * (2 * J) + 0 /\ 2 * J \in Int /\ 0 \in 0..K - 1
    BY <1>1, <2>2
  <2>4. M \div K = 2 * J
    BY <1>1, <2>3, DivModUnique
  <2>5. ((2 * J) % 2) = 0
    BY <2>2
  <2> QED
    BY <1>0, <1>3, <2>4, <2>5
<1>4. CASE k > b
  <2>1. M < K
    <3>1. 2 * M <= K
      BY <1>4, TwoPowOrder
    <3> HIDE DEF K, M
    <3> QED
      BY <1>1, <3>1
  <2> HIDE DEF K, M
  <2>2. M \div K = 0
    BY <1>1, <2>1
  <2> QED
    BY <1>0, <1>4, <2>2
<1> QED
  BY <1>2, <1>3, <1>4

(* The ones of a number are its bits as an unsigned one.                   *)
LEMMA OnesFact ==
  ASSUME NEW x \in Int
  PROVE  N!Ones(x) = {k \in 0..TopBits - 1 : BitSet(Ty!Unsigned(TopBits, x), k)}
<1>1. N!UNITY_UINT(x) = Ty!Unsigned(TopBits, x) /\ N!Bits(8) = TopBits
  BY DEF N!UNITY_UINT, N!Bits, N!Unsigned, Ty!Unsigned, TopBits, Ty!Bits
<1> QED
  BY <1>1 DEF N!Ones, BitSet

(* The masks and what is expected of them, by what their bits are.         *)
LEMMA OnesOf ==
  ASSUME NEW x \in Int
  PROVE  /\ N!Ones(N!UNITY_UINT(x)) = N!Ones(x)
         /\ N!Ones(0) = {}
         /\ N!Ones(N!UNITY_UINT(-1)) = 0..TopBits - 1
         /\ N!Ones(N!UNITY_UINT32(-1)) = 0..Ty!Bits(4) - 1
         /\ x \in Nat /\ N!UNITY_UINT32(x) = x =>
              N!Ones(x) \subseteq 0..Ty!Bits(4) - 1
         /\ \A b \in 0..TopBits - 1 : N!Ones(N!UNITY_UINT(2 ^ b)) = {b}
         /\ \A b \in 0..Ty!Bits(4) - 1 : N!Ones(N!UNITY_UINT32(2 ^ b)) = {b}
<1> DEFINE c == TopBits
           b4 == Ty!Bits(4)
<1>1. c \in Nat /\ b4 \in Nat /\ b4 > 0 /\ b4 <= c /\ c > 0
  BY BytePositive DEF TopBits, Ty!Bits
<1>2. \A z : /\ N!UNITY_UINT(z) = Ty!Unsigned(c, z)
             /\ N!UNITY_UINT32(z) = Ty!Unsigned(b4, z)
  BY DEF N!UNITY_UINT, N!UNITY_UINT32, N!Bits, N!Unsigned, Ty!Unsigned, TopBits,
         Ty!Bits
<1>3. \A z \in Int : N!Ones(z) = {k \in 0..c - 1 : BitSet(Ty!Unsigned(c, z), k)}
  BY OnesFact
<1> HIDE DEF c, b4
<1>4. /\ \A z \in Int : Ty!Unsigned(c, z) \in 0..2 ^ c - 1
      /\ \A z \in Int : z \in 0..2 ^ c - 1 => Ty!Unsigned(c, z) = z
      /\ \A z \in Int : Ty!Unsigned(b4, z) \in 0..2 ^ b4 - 1
      /\ \A z \in Int : z \in 0..2 ^ b4 - 1 => Ty!Unsigned(b4, z) = z
      /\ 2 ^ c \in Nat /\ 2 ^ b4 \in Nat /\ 2 ^ b4 <= 2 ^ c
      /\ 2 ^ c > 0 /\ 2 ^ b4 > 0
  BY <1>1, UnsignedFact, TwoPowNat, TwoPowOrder
<1>5. \A z \in 0..2 ^ c - 1 : N!Ones(z) = {k \in 0..c - 1 : BitSet(z, k)}
  BY <1>3, <1>4
<1>6. N!Ones(N!UNITY_UINT(x)) = N!Ones(x)
  <2>1. /\ Ty!Unsigned(c, x) \in Int
        /\ Ty!Unsigned(c, Ty!Unsigned(c, x)) = Ty!Unsigned(c, x)
    BY <1>4
  <2> QED
    BY <1>2, <1>3, <2>1
<1>7. N!Ones(0) = {}
  <2>1. N!Ones(0) = {k \in 0..c - 1 : BitSet(0, k)}
    BY <1>4, <1>5
  <2>2. \A k \in 0..c - 1 : ~ BitSet(0, k)
    <3> SUFFICES ASSUME NEW k \in 0..c - 1 PROVE ~ BitSet(0, k)
      OBVIOUS
    <3>1. 0 \in 0..2 ^ 0 - 1 /\ k \in Nat /\ 0 <= k
      BY TwoPowZero
    <3> QED
      BY <3>1, NoHighBits
  <2> QED
    BY <2>1, <2>2
<1>8. N!UNITY_UINT(-1) = 2 ^ c - 1 /\ N!UNITY_UINT32(-1) = 2 ^ b4 - 1
  <2>1. ASSUME NEW b \in Nat, b > 0 PROVE Ty!Unsigned(b, -1) = 2 ^ b - 1
    <3> DEFINE M == 2 ^ b
    <3>1. /\ M \in Nat /\ M > 0
          /\ \A z, y \in Int : Ty!Unsigned(b, z + M * y) = Ty!Unsigned(b, z)
          /\ \A z \in Int : z \in 0..M - 1 => Ty!Unsigned(b, z) = z
      BY <2>1, UnsignedFact, TwoPowNat
    <3> HIDE DEF M
    <3>2. (M - 1) + M * (-1) = -1 /\ M - 1 \in 0..M - 1 /\ -1 \in Int
      BY <3>1
    <3>3. Ty!Unsigned(b, (M - 1) + M * (-1)) = M - 1
      BY <3>1, <3>2
    <3> QED
      BY <3>2, <3>3 DEF M
  <2> QED
    BY <1>1, <1>2, <2>1
<1>9. N!Ones(2 ^ c - 1) = 0..c - 1
  <2>1. \A k \in 0..c - 1 : BitSet(2 ^ c - 1, k)
    BY <1>1, AllBitsSet
  <2>2. 2 ^ c - 1 \in 0..2 ^ c - 1
    BY <1>4
  <2> QED
    BY <1>5, <2>1, <2>2
<1>10. N!Ones(2 ^ b4 - 1) = 0..b4 - 1
  <2>1. \A k \in 0..b4 - 1 : BitSet(2 ^ b4 - 1, k)
    BY <1>1, AllBitsSet
  <2>2. 2 ^ b4 - 1 \in 0..2 ^ c - 1 /\ 2 ^ b4 - 1 \in 0..2 ^ b4 - 1
    BY <1>4
  <2>3. \A k \in 0..c - 1 : k >= b4 => ~ BitSet(2 ^ b4 - 1, k)
    BY <1>1, <2>2, NoHighBits
  <2>4. \A k \in 0..c - 1 : k \in 0..b4 - 1 <=> ~ (k >= b4)
    BY <1>1
  <2>5. 0..b4 - 1 \subseteq 0..c - 1
    BY <1>1
  <2>6. N!Ones(2 ^ b4 - 1) = {k \in 0..c - 1 : BitSet(2 ^ b4 - 1, k)}
    BY <1>5, <2>2
  <2> QED
    BY <2>1, <2>3, <2>4, <2>5, <2>6
<1>11. ASSUME x \in Nat, N!UNITY_UINT32(x) = x
       PROVE  N!Ones(x) \subseteq 0..b4 - 1
  <2>1. x \in 0..2 ^ b4 - 1 /\ x \in 0..2 ^ c - 1
    BY <1>2, <1>4, <1>11
  <2>2. \A k \in 0..c - 1 : k >= b4 => ~ BitSet(x, k)
    BY <1>1, <2>1, NoHighBits
  <2>3. \A k \in 0..c - 1 : k \in 0..b4 - 1 <=> ~ (k >= b4)
    BY <1>1
  <2> QED
    BY <1>5, <2>1, <2>2, <2>3
<1>12. ASSUME NEW b \in 0..c - 1
       PROVE  2 ^ b \in 0..2 ^ c - 1 /\ N!Ones(2 ^ b) = {b}
  <2>1. 2 ^ b \in 0..2 ^ c - 1
    <3>1. b \in Nat /\ b < c
      BY <1>1
    <3>2. 2 * 2 ^ b <= 2 ^ c /\ 2 ^ b \in Nat /\ 2 ^ b > 0
      BY <1>1, <3>1, TwoPowOrder, TwoPowNat
    <3> QED
      BY <1>4, <3>2
  <2>2. \A k \in 0..c - 1 : BitSet(2 ^ b, k) <=> k = b
    BY <1>1, OneBitSet
  <2> QED
    BY <1>5, <2>1, <2>2
<1>13. \A b \in 0..c - 1 : N!Ones(N!UNITY_UINT(2 ^ b)) = {b}
  BY <1>2, <1>4, <1>12
<1>14. \A b \in 0..b4 - 1 : N!Ones(N!UNITY_UINT32(2 ^ b)) = {b}
  <2> SUFFICES ASSUME NEW b \in 0..b4 - 1
               PROVE  N!Ones(N!UNITY_UINT32(2 ^ b)) = {b}
    OBVIOUS
  <2>1. b \in Nat /\ b < b4 /\ b \in 0..c - 1
    BY <1>1
  <2>2. 2 * 2 ^ b <= 2 ^ b4 /\ 2 ^ b \in Nat /\ 2 ^ b > 0
    BY <1>1, <2>1, TwoPowOrder, TwoPowNat
  <2>3. 2 ^ b \in 0..2 ^ b4 - 1
    BY <1>4, <2>2
  <2> QED
    BY <1>2, <1>4, <1>12, <2>1, <2>3
<1> QED
  BY <1>6, <1>7, <1>8, <1>9, <1>10, <1>11, <1>13, <1>14 DEF c, b4

(* The masked comparison of UnityAssertBits means what its macro says, but *)
(* for the cast to 32 bits in TEST_ASSERT_BITS_HIGH_MESSAGE.               *)
LEMMA BitsMeant ==
  ASSUME NumbersInv, call.family \in N!BitFamilies
  PROVE  \/ N!Ones(N!BitsMask(call)) \cap N!Ones(N!BitsExpected(call))
              = N!Ones(N!BitsMask(call)) \cap N!Ones(call.actual)
            <=> N!BitsHold(call)
         \/ /\ call.message /\ call.family = "BITS_HIGH"
            /\ N!UNITY_UINT32(call.mask) # call.mask
<1>1. /\ call.expected \in Int /\ call.actual \in Int
      /\ call.message \in BOOLEAN
      /\ call.family
           \in {"BITS", "BITS_HIGH", "BITS_LOW", "BIT_HIGH", "BIT_LOW"}
      /\ call.family \in {"BITS", "BITS_HIGH", "BITS_LOW"} => call.mask \in Nat
      /\ call.family \in {"BIT_HIGH", "BIT_LOW"} =>
           /\ call.bit \in 0..TopBits - 1
           /\ call.message => call.bit \in 0..Ty!Bits(4) - 1
  <2>1. TopBits \in Nat /\ Ty!Bits(4) \in Nat
    BY BytePositive DEF TopBits, Ty!Bits
  <2> QED
    BY <2>1, NumberCallFact DEF NumbersInv, N!BitFamilies
<1> DEFINE mask == N!Ones(N!BitsMask(call))
           want == N!Ones(N!BitsExpected(call))
           have == N!Ones(call.actual)
<1>2. \A z \in Int : N!Ones(N!UNITY_UINT(z)) = N!Ones(z)
                       /\ N!Ones(z) \subseteq 0..TopBits - 1
  BY OnesOf, OnesFact
<1>3. /\ N!Ones(0) = {} /\ N!Ones(N!UNITY_UINT(-1)) = 0..TopBits - 1
      /\ N!Ones(N!UNITY_UINT32(-1)) = 0..Ty!Bits(4) - 1
  <2>1. 0 \in Int
    OBVIOUS
  <2> QED
    BY <2>1, OnesOf
<1>4. have \subseteq 0..TopBits - 1
  BY <1>1, <1>2
<1>5. CASE call.family = "BITS"
  <2>1. mask = N!Ones(call.mask) /\ want = N!Ones(call.expected)
    BY <1>1, <1>2, <1>5 DEF N!BitsMask, N!BitsExpected
  <2>2. N!BitsHold(call) <=>
          \A k \in N!Ones(call.mask) :
            k \in N!Ones(call.expected) <=> k \in N!Ones(call.actual)
    BY <1>5 DEF N!BitsHold
  <2> QED
    BY <2>1, <2>2
<1>6. CASE call.family = "BITS_HIGH"
  <2>1. /\ mask = N!Ones(call.mask) /\ mask \subseteq 0..TopBits - 1
        /\ ~ call.message => want = 0..TopBits - 1
        /\ call.message => want = 0..Ty!Bits(4) - 1
    BY <1>1, <1>2, <1>3, <1>6 DEF N!BitsMask, N!BitsExpected
  <2>2. N!BitsHold(call) <=> N!Ones(call.mask) \subseteq have
    BY <1>6 DEF N!BitsHold
  <2>3. N!UNITY_UINT32(call.mask) = call.mask =>
          mask \subseteq 0..Ty!Bits(4) - 1
    BY <1>1, <1>6, <2>1, OnesOf
  <2> HIDE DEF mask, want, have
  <2>4. CASE mask \subseteq want
    BY <2>1, <2>2, <2>4 DEF mask, want, have
  <2> QED
    BY <1>1, <1>6, <2>1, <2>3, <2>4
<1>7. CASE call.family = "BITS_LOW"
  <2>1. mask = N!Ones(call.mask) /\ want = {}
    BY <1>1, <1>2, <1>3, <1>7 DEF N!BitsMask, N!BitsExpected
  <2>2. N!BitsHold(call) <=> N!Ones(call.mask) \cap N!Ones(call.actual) = {}
    BY <1>7 DEF N!BitsHold
  <2> QED
    BY <2>1, <2>2
<1>8. ASSUME call.family \in {"BIT_HIGH", "BIT_LOW"}
      PROVE  mask = {call.bit}
  BY <1>1, <1>8, OnesOf DEF N!BitsMask
<1>9. CASE call.family = "BIT_HIGH"
  <2>1. call.bit \in want
    BY <1>1, <1>3, <1>9 DEF N!BitsExpected
  <2>2. N!BitsHold(call) <=> call.bit \in N!Ones(call.actual)
    BY <1>9 DEF N!BitsHold
  <2>3. mask = {call.bit}
    BY <1>8, <1>9
  <2> QED
    BY <2>1, <2>2, <2>3
<1>10. CASE call.family = "BIT_LOW"
  <2>1. want = {}
    BY <1>3, <1>10 DEF N!BitsExpected
  <2>2. N!BitsHold(call) <=> call.bit \notin N!Ones(call.actual)
    BY <1>10 DEF N!BitsHold
  <2>3. mask = {call.bit}
    BY <1>8, <1>10
  <2> QED
    BY <2>1, <2>2, <2>3
<1> QED
  BY <1>1, <1>5, <1>6, <1>7, <1>9, <1>10

(* UnityAssertBits decides what is said of the bits.                       *)
LEMMA BitsStep ==
  ASSUME NumbersInv, N!UnityAssertBits
  PROVE  NumbersInv'
<1>1. call.family \in N!BitFamilies /\ call.family \notin N!NumberFamilies
  BY FamiliesApart DEF N!UnityAssertBits, N!Called
<1> DEFINE good == N!Ones(N!BitsMask(call)) \cap N!Ones(N!BitsExpected(call))
                     = N!Ones(N!BitsMask(call)) \cap N!Ones(call.actual)
<1>2. /\ call' = call
      /\ outcome' = IF good THEN "passed" ELSE "failed"
      /\ CurrentTestFailed' = IF good THEN 0 ELSE 1
  BY DEF N!UnityAssertBits, N!Ends
<1>3. \/ good <=> N!BitsHold(call)
      \/ /\ call.message /\ call.family = "BITS_HIGH"
         /\ N!UNITY_UINT32(call.mask) # call.mask
  BY <1>1, BitsMeant
<1> HIDE DEF good
<1>4. NumberCall' /\ N!TypeOK'
  BY <1>2 DEF NumbersInv, NumberCall, N!TypeOK
<1>5. N!VerdictCorrect'
  BY <1>1, <1>2 DEF N!VerdictCorrect
<1>6. N!BitsCorrect'
  <2>1. \/ outcome' = "passed" <=> N!BitsHold(call')
        \/ /\ call'.message /\ call'.family = "BITS_HIGH"
           /\ N!UNITY_UINT32(call'.mask) # call'.mask
    BY <1>2, <1>3
  <2> QED
    BY <2>1 DEF N!BitsCorrect
<1> QED
  BY <1>4, <1>5, <1>6 DEF NumbersInv

(* Each call begins with the invariant.                                    *)
LEMMA NumbersInit == N!Init => NumbersInv
<1> SUFFICES ASSUME N!Init PROVE NumbersInv
  OBVIOUS
<1>1. /\ Numbers \subseteq Int /\ Deltas \subseteq Nat /\ Masks \subseteq Nat
  <2> DEFINE Arguments == -(2 ^ (8 * ByteBits - 1)) .. 2 ^ (8 * ByteBits) - 1
  <2>1. /\ Numbers \subseteq Arguments /\ Deltas \subseteq Nat
        /\ Masks \subseteq Nat
    BY ConstantsAssumption DEF N!ArgumentsAssumption
  <2>2. 2 ^ (8 * ByteBits - 1) \in Nat /\ 2 ^ (8 * ByteBits) \in Nat
    <3>1. 8 * ByteBits - 1 \in Nat /\ 8 * ByteBits \in Nat
      BY BytePositive
    <3> QED
      BY <3>1, TwoPowNat
  <2>3. Arguments \subseteq Int
    BY <2>2
  <2> HIDE DEF Arguments
  <2> QED
    BY <2>1, <2>3
<1>2. outcome = "none" /\ CurrentTestFailed = 0
  BY DEF N!Init, N!Pending
<1>3. NumberCall
  <2>1. PICK e \in Numbers, a \in Numbers :
    \/ \E f \in N!NumberFamilies \ {"WITHIN"}, t \in N!Types :
         N!Pending([family |-> f, type |-> t, expected |-> e, actual |-> a])
    \/ \E t \in N!Types, d \in Deltas :
         N!Pending([family |-> "WITHIN", type |-> t, delta |-> d,
                 expected |-> e, actual |-> a])
    \/ \E f \in {"BITS", "BITS_HIGH", "BITS_LOW"}, m \in Masks,
          withMessage \in BOOLEAN :
         N!Pending([family |-> f, mask |-> m, message |-> withMessage,
                 expected |-> e, actual |-> a])
    \/ \E f \in {"BIT_HIGH", "BIT_LOW"}, b \in 0..N!Bits(8) - 1,
          withMessage \in BOOLEAN :
         /\ withMessage => b < N!Bits(4)
         /\ N!Pending([family |-> f, bit |-> b, message |-> withMessage,
                    expected |-> e, actual |-> a])
    BY DEF N!Init
  <2>2. e \in Int /\ a \in Int
    BY <1>1
  <2>3. CASE \E f \in N!NumberFamilies \ {"WITHIN"}, t \in N!Types :
         N!Pending([family |-> f, type |-> t, expected |-> e, actual |-> a])
    BY <2>2, <2>3 DEF NumberCall, N!Pending
  <2>4. CASE \E t \in N!Types, d \in Deltas :
         N!Pending([family |-> "WITHIN", type |-> t, delta |-> d,
                 expected |-> e, actual |-> a])
    BY <1>1, <2>2, <2>4 DEF NumberCall, N!Pending
  <2>5. CASE \E f \in {"BITS", "BITS_HIGH", "BITS_LOW"}, m \in Masks,
          withMessage \in BOOLEAN :
         N!Pending([family |-> f, mask |-> m, message |-> withMessage,
                 expected |-> e, actual |-> a])
    BY <1>1, <2>2, <2>5 DEF NumberCall, N!Pending
  <2>6. CASE \E f \in {"BIT_HIGH", "BIT_LOW"}, b \in 0..N!Bits(8) - 1,
          withMessage \in BOOLEAN :
         /\ withMessage => b < N!Bits(4)
         /\ N!Pending([family |-> f, bit |-> b, message |-> withMessage,
                    expected |-> e, actual |-> a])
    <3>1. PICK f \in {"BIT_HIGH", "BIT_LOW"}, b \in 0..N!Bits(8) - 1,
          withMessage \in BOOLEAN :
         /\ withMessage => b < N!Bits(4)
         /\ call = [family |-> f, bit |-> b, message |-> withMessage,
                    expected |-> e, actual |-> a]
      BY <2>6 DEF N!Pending
    <3>2. N!Bits(8) = TopBits /\ N!Bits(4) = Ty!Bits(4) /\ TopBits \in Nat
      BY BytePositive DEF N!Bits, TopBits, Ty!Bits
    <3>3. b \in Nat /\ b < TopBits /\ (withMessage => b < Ty!Bits(4))
      BY <3>1, <3>2
    <3> QED
      BY <2>2, <3>1, <3>3 DEF NumberCall
  <2> QED
    BY <2>1, <2>3, <2>4, <2>5, <2>6
<1>4. N!TypeOK
  BY <1>2, <1>3, NumberCallFact DEF N!TypeOK
<1> QED
  BY <1>2, <1>3, <1>4 DEF NumbersInv, N!VerdictCorrect, N!BitsCorrect

(* Each step keeps it.                                                     *)
LEMMA NumbersStep == NumbersInv /\ N!Next => NumbersInv'
BY EqualStep, ComparisonStep, WithinStep, BitsStep DEF N!Next

(* The numbers a failure shows differ, or are ordered or apart as what     *)
(* failed denies.                                                          *)
LEMMA NumbersExplained == NumbersInv => N!FailureExplained
<1> SUFFICES ASSUME NumbersInv, outcome = "failed",
                    call.family \in N!NumberFamilies
             PROVE  N!FailureExplained
  BY DEF N!FailureExplained
<1>1. call.type \in Ty!Types /\ call.expected \in Int /\ call.actual \in Int
  BY NumberCallFact DEF NumbersInv
<1> DEFINE Cast(x) == CASE call.family = "EQUAL"  -> N!CastToEqual(call.type, x)
                     [] call.family = "WITHIN" -> N!CastToWithin(call.type, x)
                     [] OTHER                  -> N!CastToCompare(call.type, x)
<1>2. ASSUME NEW x \in Int
      PROVE  N!Shown(call.type, Cast(x)) = N!ValueOf(call.type, x)
  <2>1. Cast(x) \in {N!CastToEqual(call.type, x), N!CastToCompare(call.type, x)}
    BY <1>1, CastForms
  <2>2. /\ Ty!Shown(call.type, N!CastToEqual(call.type, x))
             = Ty!ValueOf(call.type, x)
        /\ Ty!Shown(call.type, N!CastToCompare(call.type, x))
             = Ty!ValueOf(call.type, x)
    BY <1>1, CastFact
  <2> HIDE DEF Cast
  <2> QED
    BY <2>1, <2>2, NumberTypes
<1>3. ~ N!Holds(call.family, N!ValueOf(call.type, call.expected),
                N!ValueOf(call.type, call.actual), N!DeltaOf(call))
  BY DEF NumbersInv, N!VerdictCorrect
<1>4. ~ N!Holds(call.family, N!Shown(call.type, Cast(call.expected)),
                N!Shown(call.type, Cast(call.actual)), N!DeltaOf(call))
  BY <1>1, <1>2, <1>3
<1> QED
  BY <1>4 DEF N!FailureExplained

-----------------------------------------------------------------------------
(* Sums over sequences, and elements loaded from bytes                     *)

(* Where each value follows from the one before, there is a sequence of    *)
(* them ...                                                                *)
StartsAndFollows(g, size, base, next) ==
  g[0] = base /\ \A k \in 1..size : g[k] = next[<<k, g[k - 1]>>]

StepFunctions(size, V) == [(1..size) \X V -> V]

(* ... and one only.                                                       *)
LEMMA StepsExist ==
  ASSUME NEW size \in Nat, NEW V, NEW base \in V,
         NEW next \in StepFunctions(size, V)
  PROVE  \E g \in [0..size -> V] : StartsAndFollows(g, size, base, next)
<1> next \in [(1..size) \X V -> V]
  BY DEF StepFunctions
<1> DEFINE Good(g, m) == /\ g \in [0..m -> V] /\ g[0] = base
                         /\ \A k \in 1..m : g[k] = next[<<k, g[k - 1]>>]
           T == {m \in Nat : m <= size => \E g : Good(g, m)}
<1>1. 0 \in T
  <2> DEFINE g == [k \in 0..0 |-> base]
  <2>1. g \in [0..0 -> V] /\ g[0] = base /\ 1..0 = {}
    OBVIOUS
  <2> HIDE DEF g
  <2>2. Good(g, 0)
    BY <2>1
  <2> QED
    BY <2>2
<1>2. ASSUME NEW m \in Nat, m \in T PROVE m + 1 \in T
  <2>1. SUFFICES ASSUME m + 1 <= size PROVE \E g : Good(g, m + 1)
    OBVIOUS
  <2>2. PICK g : Good(g, m)
    BY <1>2, <2>1
  <2> DEFINE v == next[<<m + 1, g[m]>>]
             h == [k \in 0..m + 1 |-> IF k <= m THEN g[k] ELSE v]
  <2>3. g \in [0..m -> V] /\ g[m] \in V /\ m + 1 \in 1..size
    BY <2>1, <2>2
  <2>4. v \in V
    BY <2>3
  <2> HIDE DEF v
  <2>5. h \in [0..m + 1 -> V] /\ (\A k \in 0..m : h[k] = g[k]) /\ h[m + 1] = v
    BY <2>3, <2>4
  <2> HIDE DEF h
  <2>6. ASSUME NEW k \in 1..m + 1 PROVE h[k] = next[<<k, h[k - 1]>>]
    <3>1. CASE k = m + 1
      <4>1. k - 1 = m /\ h[m] = g[m]
        BY <2>5, <3>1
      <4> QED
        BY <2>5, <3>1, <4>1 DEF v
    <3>2. CASE k # m + 1
      <4>1. k \in 1..m /\ k \in 0..m /\ k - 1 \in 0..m
        BY <3>2
      <4>2. h[k] = g[k] /\ h[k - 1] = g[k - 1]
        BY <2>5, <4>1
      <4> QED
        BY <2>2, <4>1, <4>2
    <3> QED
      BY <3>1, <3>2
  <2>7. h[0] = base
    BY <2>2, <2>5
  <2>8. Good(h, m + 1)
    BY <2>5, <2>6, <2>7
  <2> QED
    BY <2>8
<1> HIDE DEF T
<1>3. size \in T
  <2>1. Nat \subseteq T
    BY <1>1, <1>2, NatSetInduction
  <2> QED
    BY <2>1
<1>4. PICK g : Good(g, size)
  BY <1>3 DEF T
<1> QED
  BY <1>4 DEF StartsAndFollows

(* ... and only one.                                                       *)
Together(g, h, size) ==
  g[0] = h[0] /\ \A k \in 1..size : g[k - 1] = h[k - 1] => g[k] = h[k]

(* Two such sequences are the same.                                        *)
LEMMA StepsUnique ==
  ASSUME NEW size \in Nat, NEW g, NEW h, Together(g, h, size)
  PROVE  \A k \in 0..size : g[k] = h[k]
<1> DEFINE T == {m \in Nat : m <= size => g[m] = h[m]}
<1>1. 0 \in T
  BY DEF Together
<1>2. ASSUME NEW m \in Nat, m \in T PROVE m + 1 \in T
  <2>1. SUFFICES ASSUME m + 1 <= size PROVE g[m + 1] = h[m + 1]
    OBVIOUS
  <2>2. m + 1 \in 1..size /\ (m + 1) - 1 = m
    BY <2>1
  <2> QED
    BY <1>2, <2>1, <2>2 DEF Together
<1> HIDE DEF T
<1>3. Nat \subseteq T
  BY <1>1, <1>2, NatSetInduction
<1>4. ASSUME NEW k \in 0..size PROVE g[k] = h[k]
  BY <1>3 DEF T
<1> QED
  BY <1>4

(* What Load adds up.                                                      *)
Loads(sum, block, p, size) ==
  /\ sum[0] = 0
  /\ \A k \in 1..size : sum[k] = sum[k - 1] + block[p + k] * 2 ^ A!Bits(k - 1)

Byte == 0..2 ^ ByteBits - 1

(* Loading an element adds its bytes up, one after the other.              *)
LEMMA LoadFact ==
  ASSUME NEW size \in Nat, NEW p \in Nat, NEW block,
         \A k \in 1..size : block[p + k] \in Byte
  PROVE  \E g \in [0..size -> Nat] :
           Loads(g, block, p, size) /\ A!Load(block, p, size) = g[size]
<1> DEFINE term == [k \in 1..size |-> block[p + k] * 2 ^ A!Bits(k - 1)]
           next == [w \in (1..size) \X Nat |-> w[2] + term[w[1]]]
           Body(sum) == [k \in 0..size |->
                           IF k = 0 THEN 0 ELSE sum[k - 1]
                             + block[p + k] * 2 ^ A!Bits(k - 1)]
           sum == CHOOSE f : f = Body(f)
<1>1. A!Load(block, p, size) = sum[size]
  BY DEF A!Load
<1>2. term \in [1..size -> Nat]
  <2>1. ASSUME NEW k \in 1..size PROVE block[p + k] * 2 ^ A!Bits(k - 1) \in Nat
    <3>1. A!Bits(k - 1) \in Nat
      BY BytePositive DEF A!Bits
    <3>2. 2 ^ A!Bits(k - 1) \in Nat /\ block[p + k] \in Nat
      BY <3>1, TwoPowNat DEF Byte
    <3> QED
      BY <3>2
  <2> QED
    BY <2>1
<1> HIDE DEF term
<1>3. next \in StepFunctions(size, Nat)
  BY <1>2 DEF StepFunctions
<1> HIDE DEF next
<1>4. PICK g \in [0..size -> Nat] :
        g[0] = 0 /\ \A k \in 1..size : g[k] = next[<<k, g[k - 1]>>]
  <2>1. 0 \in Nat
    OBVIOUS
  <2>2. \E g \in [0..size -> Nat] : StartsAndFollows(g, size, 0, next)
    BY <1>3, <2>1, StepsExist
  <2> QED
    BY <2>2 DEF StartsAndFollows
<1>5. \A k \in 1..size : g[k] = g[k - 1] + term[k]
  <2>1. \A k \in 1..size : <<k, g[k - 1]>> \in (1..size) \X Nat
    OBVIOUS
  <2> QED
    BY <1>4, <2>1 DEF next
<1>6. \A k \in 1..size : g[k] = g[k - 1] + block[p + k] * 2 ^ A!Bits(k - 1)
  BY <1>5 DEF term
<1>7. g = Body(g)
  BY <1>4, <1>6
<1>8. sum = Body(sum)
  BY <1>7, Zenon
<1> HIDE DEF sum
<1>9. sum[0] = 0 /\ \A k \in 1..size :
        sum[k] = sum[k - 1] + block[p + k] * 2 ^ A!Bits(k - 1)
  BY <1>8
<1>10. sum[size] = g[size]
  <2>1. sum[0] = g[0]
    BY <1>4, <1>9
  <2>2. \A k \in 1..size : sum[k - 1] = g[k - 1] => sum[k] = g[k]
    BY <1>6, <1>9, Zenon
  <2>3. Together(sum, g, size)
    BY <2>1, <2>2, Zenon DEF Together
  <2>4. \A k \in 0..size : sum[k] = g[k]
    BY <2>3, StepsUnique
  <2> QED
    BY <2>4
<1>11. Loads(g, block, p, size)
  BY <1>4, <1>6 DEF Loads
<1> QED
  BY <1>1, <1>10, <1>11

(* The bytes make a number of as many bits.                                *)
LEMMA LoadRange ==
  ASSUME NEW size \in Nat, NEW p \in Nat, NEW block,
         \A k \in 1..size : block[p + k] \in Byte
  PROVE  A!Load(block, p, size) \in 0..2 ^ A!Bits(size) - 1
<1>1. PICK g \in [0..size -> Nat] :
        Loads(g, block, p, size) /\ A!Load(block, p, size) = g[size]
  BY LoadFact
<1> DEFINE T == {m \in Nat : m <= size => g[m] < 2 ^ A!Bits(m)}
<1>2. 0 \in T
  <2>1. A!Bits(0) = 0
    BY BytePositive DEF A!Bits
  <2>2. g[0] = 0
    BY <1>1 DEF Loads
  <2> QED
    BY <2>1, <2>2, TwoPowZero, 0 < 1
<1>3. ASSUME NEW m \in Nat, m \in T PROVE m + 1 \in T
  <2>1. SUFFICES ASSUME m + 1 <= size PROVE g[m + 1] < 2 ^ A!Bits(m + 1)
    OBVIOUS
  <2> DEFINE M == 2 ^ A!Bits(m)
             B == 2 ^ ByteBits
             x == block[p + (m + 1)]
  <2>2. A!Bits(m) \in Nat /\ A!Bits(m + 1) = A!Bits(m) + ByteBits
    BY BytePositive DEF A!Bits
  <2>3. M \in Nat /\ B \in Nat /\ 2 ^ A!Bits(m + 1) = M * B
    BY <2>2, BytePositive, TwoPowNat, TwoPowSum
  <2>4. m + 1 \in 1..size /\ (m + 1) - 1 = m /\ m \in 0..size
    BY <2>1
  <2>5. g[m + 1] = g[m] + x * M /\ g[m] < M /\ g[m] \in Nat
    BY <1>1, <1>3, <2>1, <2>4 DEF Loads
  <2>6. x \in 0..B - 1
    BY <2>4 DEF Byte
  <2> HIDE DEF M, B, x
  <2>7. x * M <= (B - 1) * M
    BY <2>3, <2>6
  <2>8. (B - 1) * M = M * B - M
    BY <2>3
  <2>9. x * M \in Nat
    BY <2>3, <2>6
  <2> QED
    BY <2>3, <2>5, <2>7, <2>8, <2>9
<1> HIDE DEF T
<1>4. Nat \subseteq T
  BY <1>2, <1>3, NatSetInduction
<1>5. g[size] < 2 ^ A!Bits(size)
  BY <1>4 DEF T
<1>6. g[size] \in Nat /\ 2 ^ A!Bits(size) \in Nat
  <2>1. A!Bits(size) \in Nat
    BY BytePositive DEF A!Bits
  <2> QED
    BY <2>1, TwoPowNat
<1> QED
  BY <1>1, <1>5, <1>6

(* Only the bytes that are loaded count.                                   *)
Copied(other, q, block, p, size) ==
  \A k \in 1..size : block[p + k] \in Byte /\ other[q + k] = block[p + k]

(* A copy of an element loads as the same number.                          *)
LEMMA LoadSame ==
  ASSUME NEW size \in Nat, NEW p \in Nat, NEW block, NEW q \in Nat, NEW other,
         Copied(other, q, block, p, size)
  PROVE  A!Load(other, q, size) = A!Load(block, p, size)
<1>0. \A k \in 1..size : block[p + k] \in Byte /\ other[q + k] = block[p + k]
  BY DEF Copied
<1>1. PICK g \in [0..size -> Nat] :
        Loads(g, block, p, size) /\ A!Load(block, p, size) = g[size]
  BY <1>0, LoadFact
<1>2. \A k \in 1..size : other[q + k] \in Byte
  BY <1>0
<1>3. PICK h \in [0..size -> Nat] :
        Loads(h, other, q, size) /\ A!Load(other, q, size) = h[size]
  BY <1>2, LoadFact
<1>4. h[0] = g[0]
  BY <1>1, <1>3 DEF Loads
<1>5. \A k \in 1..size : h[k - 1] = g[k - 1] => h[k] = g[k]
  BY <1>0, <1>1, <1>3 DEF Loads
<1>6. Together(h, g, size)
  BY <1>4, <1>5, Zenon DEF Together
<1>7. \A k \in 0..size : h[k] = g[k]
  BY <1>6, StepsUnique
<1> QED
  BY <1>1, <1>3, <1>7

-----------------------------------------------------------------------------
(* Assertions on arrays and memory                                         *)

(* UnityArrays names the types as UnityTypes does.                         *)
LEMMA ArrayTypes ==
  /\ A!Types = Ty!Types /\ A!SignedTypes = Ty!SignedTypes
  /\ A!UnsignedTypes = Ty!UnsignedTypes /\ A!HexTypes = Ty!HexTypes
  /\ A!Whole = Ty!Whole
  /\ \A t : A!Style(t) = Ty!Style(t)
  /\ \A b, x : A!Unsigned(b, x) = Ty!Unsigned(b, x)
  /\ \A b, x : A!Signed(b, x) = Ty!Signed(b, x)
  /\ \A x : A!UNITY_UINT(x) = Ty!UNITY_UINT(x)
  /\ \A x : A!UNITY_INT(x) = Ty!UNITY_INT(x)
  /\ \A t, x : A!Shown(t, x) = Ty!Shown(t, x)
  /\ \A size : A!Bits(size) = Ty!Bits(size)
<1>1. /\ A!SignedTypes = Ty!SignedTypes
      /\ A!UnsignedTypes = Ty!UnsignedTypes /\ A!HexTypes = Ty!HexTypes
      /\ A!Whole = Ty!Whole
  BY Zenon DEF A!SignedTypes, Ty!SignedTypes, A!UnsignedTypes, Ty!UnsignedTypes,
     A!HexTypes, Ty!HexTypes, A!Whole, Ty!Whole
<1>2. A!Types = Ty!Types
  BY <1>1, Zenon DEF A!Types, Ty!Types
<1>3. \A size : A!Bits(size) = Ty!Bits(size)
  BY DEF A!Bits, Ty!Bits
<1>4. \A b, x : A!Unsigned(b, x) = Ty!Unsigned(b, x)
  BY DEF A!Unsigned, Ty!Unsigned
<1>5. \A b, x : A!Signed(b, x) = Ty!Signed(b, x)
  BY <1>4, Zenon DEF A!Signed, Ty!Signed
<1>6. \A t : A!Style(t) = Ty!Style(t)
  BY <1>1, Zenon DEF A!Style, Ty!Style
<1>7. \A x : A!UNITY_UINT(x) = Ty!UNITY_UINT(x)
  BY <1>3, <1>4, Zenon DEF A!UNITY_UINT, Ty!UNITY_UINT
<1>8. \A x : A!UNITY_INT(x) = Ty!UNITY_INT(x)
  BY <1>3, <1>5, Zenon DEF A!UNITY_INT, Ty!UNITY_INT
<1>9. \A t, x : A!Shown(t, x) = Ty!Shown(t, x)
  BY <1>1, <1>3, <1>4, <1>6, <1>7, Zenon DEF A!Shown, Ty!Shown
<1> QED
  BY <1>1, <1>2, <1>3, <1>4, <1>5, <1>6, <1>7, <1>8, <1>9, Zenon

(* The width of an element of type t, and the number its bytes are.        *)
Width(t) == Ty!Bits(Ty!Style(t).size)
NumberIn(t, u) == IF t \in Ty!SignedTypes THEN Ty!Signed(Width(t), u) ELSE u

(* What is loaded of it, and what is printed of that.                      *)
LoadedEqual(t, u) ==
  IF Ty!Style(t).range = "INT" \/ Ty!Style(t).size = 8
  THEN Ty!Signed(Width(t), u) ELSE Ty!Unsigned(Width(t), Ty!Signed(Width(t), u))
LoadedWithin(t, u) ==
  IF Ty!Style(t).range = "INT" THEN Ty!Signed(Width(t), u) ELSE Ty!UNITY_INT(u)
PrintedOf(t, x) ==
  Ty!Shown(t, IF Ty!Style(t).range = "UINT" /\ Ty!Style(t).size < 4
              THEN Ty!Unsigned(Width(t), x) ELSE x)

(* The width of a type is that of its style.                               *)
LEMMA WidthOf ==
  ASSUME NEW t \in Ty!Types
  PROVE  /\ Width(t) \in Nat /\ Width(t) > 0 /\ Width(t) <= TopBits
         /\ TopBits \in Nat /\ TopBits > 0 /\ TopBits = 8 * ByteBits
         /\ Ty!Style(t).size = 8 => Width(t) = TopBits
         /\ Ty!Style(t).size \in {1, 2, 4, 8}
         /\ Width(t) = Ty!Style(t).size * ByteBits
         /\ 2 ^ Width(t) <= 2 ^ TopBits
<1>1. Ty!Style(t).size \in {1, 2, 4, 8}
  BY StyleFact
<1>2. ByteBits \in Nat /\ ByteBits > 0
  BY BytePositive
<1>3. Width(t) = Ty!Style(t).size * ByteBits /\ TopBits = 8 * ByteBits
  BY DEF Width, TopBits, Ty!Bits
<1> DEFINE sz == Ty!Style(t).size
<1> HIDE DEF sz
<1>4. sz \in {1, 2, 4, 8} /\ Width(t) = sz * ByteBits
  BY <1>1, <1>3 DEF sz
<1>5. /\ Width(t) \in Nat /\ Width(t) > 0 /\ Width(t) <= TopBits
      /\ TopBits \in Nat /\ TopBits > 0 /\ (sz = 8 => Width(t) = TopBits)
  BY <1>2, <1>3, <1>4
<1>6. 2 ^ Width(t) <= 2 ^ TopBits
  BY <1>5, TwoPowOrder
<1> QED
  BY <1>3, <1>4, <1>5, <1>6 DEF sz

(* What is loaded to be compared for equality is equal exactly when the    *)
(* numbers are, and what is printed of it is the number.                   *)
LEMMA LoadedEqualFact ==
  ASSUME NEW t \in Ty!Types, NEW u \in 0..2 ^ Width(t) - 1,
         NEW v \in 0..2 ^ Width(t) - 1
  PROVE  /\ LoadedEqual(t, u) = LoadedEqual(t, v)
              <=> NumberIn(t, u) = NumberIn(t, v)
         /\ PrintedOf(t, LoadedEqual(t, u)) = NumberIn(t, u)
<1> DEFINE b == Width(t)
           s == Ty!Signed(b, u)
<1>1. /\ b \in Nat /\ b > 0 /\ b <= TopBits /\ TopBits \in Nat /\ TopBits > 0
      /\ (Ty!Style(t).size = 8 => b = TopBits)
      /\ Ty!Style(t).size \in {1, 2, 4, 8}
  BY WidthOf
<1>2. 2 ^ b \in Nat /\ 2 ^ b > 0
  BY <1>1, WidthFact
<1>3. u \in Int /\ v \in Int
  BY <1>2
<1> HIDE DEF b
<1>4. Ty!Unsigned(b, u) = u /\ Ty!Unsigned(b, v) = v
  BY <1>1, <1>3, UnsignedFact DEF b
<1>5. Ty!Unsigned(b, Ty!Signed(b, u)) = u /\ Ty!Unsigned(b, Ty!Signed(b, v)) = v
  BY <1>1, <1>3, <1>4, SignedFact
<1>6. Ty!Signed(b, u) = Ty!Signed(b, v) <=> u = v
  BY <1>5
<1>7. LoadedEqual(t, u) = LoadedEqual(t, v) <=> NumberIn(t, u) = NumberIn(t, v)
  <2>1. CASE t \in Ty!SignedTypes
    <3>1. Ty!Style(t).range = "INT"
      BY <2>1, StyleFact
    <3> QED
      BY <2>1, <3>1, Zenon DEF LoadedEqual, NumberIn, b
  <2>2. CASE t \notin Ty!SignedTypes
    <3>1. NumberIn(t, u) = u /\ NumberIn(t, v) = v
      BY <2>2 DEF NumberIn
    <3>2. Ty!Style(t).range # "INT"
      BY <2>2, StyleFact
    <3>3. CASE Ty!Style(t).size = 8
      <4>1. LoadedEqual(t, u) = Ty!Signed(b, u)
            /\ LoadedEqual(t, v) = Ty!Signed(b, v)
        BY <3>3, Zenon DEF LoadedEqual, b
      <4> QED
        BY <3>1, <4>1, <1>6
    <3>4. CASE Ty!Style(t).size # 8
      <4>1. LoadedEqual(t, u) = u /\ LoadedEqual(t, v) = v
        BY <3>2, <3>4, <1>5, Zenon DEF LoadedEqual, b
      <4> QED
        BY <3>1, <4>1
    <3> QED
      BY <3>3, <3>4
  <2> QED
    BY <2>1, <2>2
<1>8. PrintedOf(t, LoadedEqual(t, u)) = NumberIn(t, u)
  <2>1. CASE t \in Ty!SignedTypes
    <3>1. Ty!Style(t).range = "INT" /\ t \notin Ty!HexTypes
          /\ t \notin Ty!UnsignedTypes
      BY <2>1, StyleFact DEF Ty!SignedTypes, Ty!HexTypes, Ty!UnsignedTypes
    <3>2. Ty!Style(t).range # "UINT"
      BY <3>1
    <3>3. LoadedEqual(t, u) = Ty!Signed(b, u)
      BY <3>1, Zenon DEF LoadedEqual, b
    <3> QED
      BY <2>1, <3>1, <3>2, <3>3, Zenon DEF PrintedOf, Ty!Shown, NumberIn, b
  <2>2. CASE t \in Ty!HexTypes
    <3>1. t \notin Ty!SignedTypes /\ t \notin Ty!UnsignedTypes
      BY <2>2 DEF Ty!SignedTypes, Ty!HexTypes, Ty!UnsignedTypes
    <3>2. Ty!Style(t).range # "INT" /\ Ty!Style(t).range # "UINT"
      BY <3>1, StyleFact
    <3>3. LoadedEqual(t, u) \in {s, u}
      BY <3>2, <1>5, Zenon DEF LoadedEqual, b
    <3>4. PrintedOf(t, LoadedEqual(t, u)) = Ty!Unsigned(b, LoadedEqual(t, u))
      BY <2>2, <3>2, Zenon DEF PrintedOf, Ty!Shown, b, Width
    <3>5. Ty!Unsigned(b, LoadedEqual(t, u)) = u
      BY <3>3, <1>4, <1>5
    <3> QED
      BY <3>1, <3>4, <3>5, Zenon DEF NumberIn
  <2>3. CASE t \in Ty!UnsignedTypes
    <3>1. t \notin Ty!SignedTypes /\ t \notin Ty!HexTypes
      BY <2>3 DEF Ty!SignedTypes, Ty!HexTypes, Ty!UnsignedTypes
    <3>2. Ty!Style(t).range # "INT" /\ Ty!Style(t).range = "UINT"
      BY <2>3, <3>1, StyleFact
    <3>3. Ty!UNITY_UINT(u) = u
      <4>1. u \in 0..2 ^ TopBits - 1
        BY <1>1, WidthOf, TwoPowNat DEF b
      <4>2. Ty!Unsigned(TopBits, u) = u
        BY <1>1, <1>3, <4>1, UnsignedFact
      <4> QED
        BY <4>2 DEF Ty!UNITY_UINT, TopBits
    <3>4. CASE Ty!Style(t).size = 8
      <4>1. LoadedEqual(t, u) = Ty!Signed(b, u)
        BY <3>4, Zenon DEF LoadedEqual, b
      <4>2. ~ Ty!Style(t).size < 4
        BY <3>4
      <4>3. PrintedOf(t, LoadedEqual(t, u)) = Ty!UNITY_UINT(Ty!Signed(b, u))
        BY <4>1, <4>2, <3>1, <2>3, Zenon DEF PrintedOf, Ty!Shown
      <4>4. Ty!UNITY_UINT(Ty!Signed(b, u)) = u
        BY <1>1, <1>5, <3>4 DEF Ty!UNITY_UINT, TopBits
      <4> QED
        BY <3>1, <4>3, <4>4, Zenon DEF NumberIn
    <3>5. CASE Ty!Style(t).size # 8
      <4>1. LoadedEqual(t, u) = u
        BY <3>2, <3>5, <1>5, Zenon DEF LoadedEqual, b
      <4>2. PrintedOf(t, LoadedEqual(t, u)) = Ty!UNITY_UINT(u)
        BY <4>1, <3>1, <2>3, <1>4, Zenon DEF PrintedOf, Ty!Shown, b
      <4> QED
        BY <3>1, <3>3, <4>2, Zenon DEF NumberIn
    <3> QED
      BY <3>4, <3>5
  <2> QED
    BY <2>1, <2>2, <2>3, Zenon DEF Ty!Types
<1> QED
  BY <1>7, <1>8

(* What is loaded to be compared within a delta: a signed number as it is, *)
(* another one as UNITY_UINT reads it; and the number is what is printed.  *)
LEMMA LoadedWithinFact ==
  ASSUME NEW t \in Ty!Types, NEW u \in 0..2 ^ Width(t) - 1
  PROVE  /\ PrintedOf(t, LoadedWithin(t, u)) = NumberIn(t, u)
         /\ t \in Ty!SignedTypes => LoadedWithin(t, u) = NumberIn(t, u)
         /\ t \notin Ty!SignedTypes => Ty!UNITY_UINT(LoadedWithin(t, u)) = u
         /\ LoadedWithin(t, u) \in Int /\ NumberIn(t, u) \in Int
         /\ t \in Ty!SignedTypes =>
              NumberIn(t, u) \in -(2 ^ (TopBits - 1))..2 ^ (TopBits - 1) - 1
<1> DEFINE b == Width(t)
           s == Ty!Signed(b, u)
<1>1. /\ b \in Nat /\ b > 0 /\ b <= TopBits /\ TopBits \in Nat /\ TopBits > 0
      /\ 2 ^ b <= 2 ^ TopBits
  BY WidthOf
<1>2. 2 ^ b \in Nat /\ 2 ^ b > 0 /\ 2 ^ TopBits \in Nat
  BY <1>1, WidthFact
<1>3. u \in Int /\ u \in 0..2 ^ TopBits - 1
  BY <1>1, <1>2
<1> HIDE DEF b
<1>4. Ty!Unsigned(b, u) = u /\ Ty!Unsigned(TopBits, u) = u
  BY <1>1, <1>3, UnsignedFact DEF b
<1>5. Ty!Unsigned(TopBits, Ty!Signed(TopBits, u)) = u
  BY <1>1, <1>3, <1>4, SignedFact
<1>6. Ty!UNITY_INT(u) = Ty!Signed(TopBits, u)
      /\ \A x : Ty!UNITY_UINT(x) = Ty!Unsigned(TopBits, x)
  BY Zenon DEF Ty!UNITY_INT, Ty!UNITY_UINT, TopBits
<1>7. Ty!Unsigned(b, Ty!UNITY_INT(u)) = u
  BY <1>1, <1>3, <1>4, <1>6, NarrowFact
<1>8. CASE t \in Ty!SignedTypes
  <2>1. Ty!Style(t).range = "INT" /\ t \notin Ty!HexTypes
        /\ t \notin Ty!UnsignedTypes
    BY <1>8, StyleFact DEF Ty!SignedTypes, Ty!HexTypes, Ty!UnsignedTypes
  <2>2. Ty!Style(t).range # "UINT"
    BY <2>1
  <2>3. LoadedWithin(t, u) = s
    BY <2>1, Zenon DEF LoadedWithin, b
  <2>4. PrintedOf(t, LoadedWithin(t, u)) = NumberIn(t, u)
    BY <1>8, <2>1, <2>2, <2>3, Zenon DEF PrintedOf, Ty!Shown, NumberIn, b
  <2>5. NumberIn(t, u) = s
    BY <1>8, Zenon DEF NumberIn, b
  <2>6. s \in -(2 ^ (b - 1))..2 ^ (b - 1) - 1
    BY <1>1, <1>3, SignedFact
  <2>7. 2 ^ (b - 1) <= 2 ^ (TopBits - 1) /\ 2 ^ (b - 1) \in Nat
        /\ 2 ^ (TopBits - 1) \in Nat
    <3>1. b - 1 \in Nat /\ TopBits - 1 \in Nat /\ b - 1 <= TopBits - 1
      BY <1>1
    <3> QED
      BY <3>1, TwoPowOrder, TwoPowNat
  <2> HIDE DEF s
  <2>8. s \in -(2 ^ (TopBits - 1))..2 ^ (TopBits - 1) - 1 /\ s \in Int
    BY <2>6, <2>7
  <2> QED
    BY <1>8, <2>3, <2>4, <2>5, <2>8
<1>9. CASE t \notin Ty!SignedTypes
  <2>1. Ty!Style(t).range # "INT"
    BY <1>9, StyleFact
  <2>2. LoadedWithin(t, u) = Ty!UNITY_INT(u)
    BY <2>1, Zenon DEF LoadedWithin
  <2>3. NumberIn(t, u) = u
    BY <1>9, Zenon DEF NumberIn
  <2>4. Ty!UNITY_UINT(LoadedWithin(t, u)) = u
    BY <1>5, <1>6, <2>2
  <2>5. LoadedWithin(t, u) \in Int
    <3>1. Ty!Signed(TopBits, u)
            \in -(2 ^ (TopBits - 1))..2 ^ (TopBits - 1) - 1
      BY <1>1, <1>3, SignedFact
    <3>2. 2 ^ (TopBits - 1) \in Nat
      BY <1>1, WidthFact
    <3> QED
      BY <1>6, <2>2, <3>1, <3>2
  <2>6. CASE t \in Ty!HexTypes
    <3>1. t \notin Ty!UnsignedTypes
      BY <2>6 DEF Ty!HexTypes, Ty!UnsignedTypes
    <3>2. Ty!Style(t).range # "UINT"
      BY <3>1, StyleFact
    <3>3. PrintedOf(t, LoadedWithin(t, u)) = Ty!Unsigned(b, Ty!UNITY_INT(u))
      BY <2>2, <2>6, <3>2, Zenon DEF PrintedOf, Ty!Shown, b, Width
    <3>4. PrintedOf(t, LoadedWithin(t, u)) = u
      BY <3>3, <1>7
    <3> QED
      BY <1>9, <1>3, <2>3, <2>4, <2>5, <3>4
  <2>7. CASE t \notin Ty!HexTypes
    <3>1. t \in Ty!UnsignedTypes
      BY <1>9, <2>7, Zenon DEF Ty!Types
    <3>2. PrintedOf(t, LoadedWithin(t, u)) = Ty!UNITY_UINT(u)
          \/ PrintedOf(t, LoadedWithin(t, u))
               = Ty!UNITY_UINT(LoadedWithin(t, u))
      BY <2>2, <2>7, <3>1, <1>7, Zenon DEF PrintedOf, Ty!Shown, b
    <3>3. Ty!UNITY_UINT(u) = u
      BY <1>4, <1>6
    <3>4. PrintedOf(t, LoadedWithin(t, u)) = u
      BY <3>2, <3>3, <2>4
    <3> QED
      BY <1>9, <1>3, <2>3, <2>4, <2>5, <3>4
  <2> QED
    BY <2>6, <2>7
<1> QED
  BY <1>8, <1>9

(* The distance of what is loaded of two elements is that of the numbers.  *)
DistanceIn(t, e, a) ==
  LET larger == IF Ty!Style(t).range = "INT"
                THEN a > e ELSE Ty!UNITY_UINT(a) > Ty!UNITY_UINT(e)
  IN  Ty!UNITY_UINT(IF larger THEN Ty!UNITY_UINT(a) - Ty!UNITY_UINT(e)
                              ELSE Ty!UNITY_UINT(e) - Ty!UNITY_UINT(a))

(* The difference of two elements, computed without a sign, is above a     *)
(* delta exactly when that of their numbers is.                            *)
LEMMA DistanceFact ==
  ASSUME NEW t \in Ty!Types, NEW u \in 0..2 ^ Width(t) - 1,
         NEW v \in 0..2 ^ Width(t) - 1, NEW d \in Nat
  PROVE  DistanceIn(t, LoadedWithin(t, u), LoadedWithin(t, v)) > d
           <=> ~ (NumberIn(t, v) - NumberIn(t, u) \in -d..d)
<1> DEFINE e == LoadedWithin(t, u)
           a == LoadedWithin(t, v)
           x == NumberIn(t, u)
           y == NumberIn(t, v)
           U(w) == Ty!UNITY_UINT(w)
           big == IF Ty!Style(t).range = "INT" THEN a > e ELSE U(a) > U(e)
           dist == DistanceIn(t, e, a)
<1>1. TopBits \in Nat /\ TopBits > 0 /\ \A w : U(w) = Ty!Unsigned(TopBits, w)
  BY WidthOf DEF Ty!UNITY_UINT, TopBits
<1>2. /\ big => dist = U(U(a) - U(e))
      /\ ~ big => dist = U(U(e) - U(a))
  BY Zenon DEF DistanceIn
<1>3. e \in Int /\ a \in Int /\ x \in Int /\ y \in Int
  BY LoadedWithinFact
<1>4. x - y \in Int /\ y - x \in Int
  BY <1>3
<1>5. CASE t \in Ty!SignedTypes
  <2>1. e = x /\ a = y
    BY <1>5, LoadedWithinFact
  <2>2. Ty!Style(t).range = "INT"
    BY <1>5, StyleFact
  <2>3. big <=> y > x
    BY <2>1, <2>2
  <2> DEFINE H == 2 ^ (TopBits - 1)
             M == 2 ^ TopBits
  <2>4. H \in Nat /\ M = 2 * H
    BY <1>1, WidthFact
  <2>5. x \in -H..H - 1 /\ y \in -H..H - 1
    BY <1>5, LoadedWithinFact
  <2> HIDE DEF x, y, H, M
  <2>6. y > x => y - x \in 0..M - 1
    BY <2>4, <2>5
  <2>7. ~ (y > x) => x - y \in 0..M - 1
    BY <2>4, <2>5
  <2>8. y > x => dist = y - x
    <3> HAVE y > x
    <3>1. Ty!Unsigned(TopBits, Ty!Unsigned(TopBits, y)
             - Ty!Unsigned(TopBits, x)) = y - x
      BY <1>1, <1>3, <2>6, DifferenceFact DEF M
    <3> QED
      BY <1>1, <1>2, <2>1, <2>3, <3>1
  <2>9. ~ (y > x) => dist = x - y
    <3> HAVE ~ (y > x)
    <3>1. Ty!Unsigned(TopBits, Ty!Unsigned(TopBits, x)
             - Ty!Unsigned(TopBits, y)) = x - y
      BY <1>1, <1>3, <2>7, DifferenceFact DEF M
    <3> QED
      BY <1>1, <1>2, <2>1, <2>3, <3>1
  <2> HIDE DEF dist
  <2>10. dist > d <=> ~ (y - x \in -d..d)
    BY <1>3, <2>8, <2>9
  <2> QED
    BY <2>10 DEF dist, x, y
<1>6. CASE t \notin Ty!SignedTypes
  <2>1. U(e) = u /\ U(a) = v
    BY <1>6, LoadedWithinFact
  <2>2. Ty!Style(t).range # "INT"
    BY <1>6, StyleFact
  <2>3. x = u /\ y = v
    BY <1>6, Zenon DEF NumberIn
  <2>4. big <=> v > u
    BY <2>1, <2>2
  <2>5. u \in Int /\ v \in Int
    BY <1>3, <2>3
  <2>6. Ty!Unsigned(TopBits, e) = u /\ Ty!Unsigned(TopBits, a) = v
    BY <1>1, <2>1
  <2>7. v > u => dist = v - u
    <3> HAVE v > u
    <3>1. Ty!Unsigned(TopBits, a) >= Ty!Unsigned(TopBits, e)
      BY <2>5, <2>6
    <3>2. Ty!Unsigned(TopBits, Ty!Unsigned(TopBits, a)
            - Ty!Unsigned(TopBits, e))
            = Ty!Unsigned(TopBits, a) - Ty!Unsigned(TopBits, e)
      <4> HIDE DEF e, a
      <4> QED
        BY <1>1, <1>3, <3>1, DifferenceFact
    <3> QED
      BY <1>1, <1>2, <2>1, <2>4, <2>6, <3>2
  <2>8. ~ (v > u) => dist = u - v
    <3> HAVE ~ (v > u)
    <3>1. Ty!Unsigned(TopBits, e) >= Ty!Unsigned(TopBits, a)
      BY <2>5, <2>6
    <3>2. Ty!Unsigned(TopBits, Ty!Unsigned(TopBits, e)
            - Ty!Unsigned(TopBits, a))
            = Ty!Unsigned(TopBits, e) - Ty!Unsigned(TopBits, a)
      <4> HIDE DEF e, a
      <4> QED
        BY <1>1, <1>3, <3>1, DifferenceFact
    <3> QED
      BY <1>1, <1>2, <2>1, <2>4, <2>6, <3>2
  <2> HIDE DEF dist, x, y
  <2>9. dist > d <=> ~ (y - x \in -d..d)
    BY <2>3, <2>5, <2>7, <2>8
  <2> QED
    BY <2>9 DEF dist, x, y
<1> QED
  BY <1>5, <1>6

(* The calls.                                                              *)
ArrayCall ==
  /\ call.fn \in {"EqualIntArray", "NumbersArrayWithin", "EqualMemory"}
  /\ call.num_elements \in Nat /\ call.length \in Nat
  /\ call.flags \in {"ARRAY_TO_ARRAY", "ARRAY_TO_VAL"}
  /\ call.fn # "EqualMemory" =>
       call.type \in Ty!Types /\ call.length = Ty!Style(call.type).size
  /\ call.fn = "NumbersArrayWithin" => call.delta \in 0..2 ^ TopBits - 1
  /\ actual \in [1..call.num_elements * call.length -> Byte]
  /\ call.pointers = "distinct" =>
       expected \in [1..(IF call.flags = "ARRAY_TO_VAL" THEN 1
                         ELSE call.num_elements) * call.length -> Byte]
  /\ expected \in Seq(Byte)

(* Where element k begins, in each of the blocks.                          *)
ActualBase(k) == k * call.length
ExpectedBase(k) == IF call.flags = "ARRAY_TO_VAL" THEN 0 ELSE k * call.length

(* What it is for element k to be as it should.                            *)
RelatedNumbers(u, v) ==
  IF call.fn = "EqualIntArray"
  THEN NumberIn(call.type, v) = NumberIn(call.type, u)
  ELSE NumberIn(call.type, v) - NumberIn(call.type, u)
         \in -call.delta..call.delta

SameBytes(k) == \A w \in 1..call.length :
                  expected[ExpectedBase(k) + w] = actual[ActualBase(k) + w]

SameNumbers(k) ==
  RelatedNumbers(A!Load(expected, ExpectedBase(k), call.length),
                 A!Load(actual, ActualBase(k), call.length))

(* Where elements are: inside their arrays, one behind the other.          *)
LEMMA BasesFit ==
  ASSUME ArrayCall, call.pointers = "distinct", NEW k \in A!Indices
  PROVE  /\ k \in Nat /\ k < call.num_elements
         /\ ActualBase(k) \in Nat /\ ExpectedBase(k) \in Nat
         /\ ActualBase(k) + call.length <= Len(actual)
         /\ ExpectedBase(k) + call.length <= Len(expected)
         /\ Len(actual) \in Nat /\ Len(expected) \in Nat
         /\ Len(actual) = call.num_elements * call.length
         /\ actual \in [1..Len(actual) -> Byte]
         /\ expected \in [1..Len(expected) -> Byte]
         /\ ActualBase(k + 1) = ActualBase(k) + call.length
         /\ ExpectedBase(k + 1) = IF call.flags = "ARRAY_TO_VAL" THEN 0
                                  ELSE ExpectedBase(k) + call.length
<1> DEFINE num == call.num_elements
           len == call.length
<1>1. num \in Nat /\ len \in Nat /\ k \in Nat /\ k < num
  BY DEF ArrayCall, A!Indices
<1> HIDE DEF num, len
<1>2. /\ k * len \in Nat /\ (k + 1) * len = k * len + len
      /\ num * len \in Nat /\ 1 * len = len /\ 0 * len = 0
  BY <1>1
<1>3. k * len + len <= num * len
  <2>1. num - (k + 1) \in Nat
    BY <1>1
  <2> DEFINE r == num - (k + 1)
  <2>2. num = (k + 1) + r
    BY <1>1
  <2> HIDE DEF r
  <2>3. num * len = (k + 1) * len + r * len /\ r * len \in Nat
    BY <1>1, <2>1, <2>2 DEF r
  <2> QED
    BY <1>1, <1>2, <2>3
<1>4. actual \in [1..num * len -> Byte]
  BY DEF ArrayCall, num, len
<1>5. Len(actual) = num * len
  BY <1>2, <1>4, LenProperties, SeqDef
<1> DEFINE size == (IF call.flags = "ARRAY_TO_VAL" THEN 1 ELSE num) * len
<1>6. expected \in [1..size -> Byte]
  BY DEF ArrayCall, num, len
<1>7. size = IF call.flags = "ARRAY_TO_VAL" THEN len ELSE num * len
  BY <1>2
<1> HIDE DEF size
<1>8. size \in Nat
  BY <1>1, <1>2, <1>7
<1>9. Len(expected) = size
  BY <1>6, <1>8, LenProperties, SeqDef
<1>10. ActualBase(k) = k * len /\ ActualBase(k + 1) = (k + 1) * len
       /\ ExpectedBase(k) = (IF call.flags = "ARRAY_TO_VAL" THEN 0 ELSE k * len)
       /\ ExpectedBase(k + 1)
            = (IF call.flags = "ARRAY_TO_VAL" THEN 0 ELSE (k + 1) * len)
  BY DEF ActualBase, ExpectedBase, len
<1>11. /\ ActualBase(k) \in Nat /\ ExpectedBase(k) \in Nat
       /\ ActualBase(k) + len <= Len(actual)
       /\ ExpectedBase(k) + len <= Len(expected)
       /\ ActualBase(k + 1) = ActualBase(k) + len
       /\ ExpectedBase(k + 1) = IF call.flags = "ARRAY_TO_VAL" THEN 0
                                  ELSE ExpectedBase(k) + len
  <2>1. CASE call.flags = "ARRAY_TO_VAL"
    BY <2>1, <1>1, <1>2, <1>3, <1>5, <1>7, <1>9, <1>10
  <2>2. CASE call.flags # "ARRAY_TO_VAL"
    BY <2>2, <1>1, <1>2, <1>3, <1>5, <1>7, <1>9, <1>10
  <2> QED
    BY <2>1, <2>2
<1>12. /\ Len(actual) \in Nat /\ Len(expected) \in Nat
       /\ Len(actual) = num * len
       /\ actual \in [1..Len(actual) -> Byte]
       /\ expected \in [1..Len(expected) -> Byte]
  BY <1>2, <1>4, <1>5, <1>6, <1>8, <1>9
<1> QED
  BY <1>1, <1>11, <1>12 DEF num, len

(* A slice of an array of bytes.                                           *)
LEMMA SliceFact ==
  ASSUME NEW m \in Nat, NEW block \in [1..m -> Byte],
         NEW base \in Nat, NEW len \in Nat, base + len <= m
  PROVE  /\ SubSeq(block, base + 1, base + len) \in Seq(Byte)
         /\ Len(SubSeq(block, base + 1, base + len)) = len
         /\ \A w \in 1..len :
              /\ SubSeq(block, base + 1, base + len)[w] = block[base + w]
              /\ block[base + w] \in Byte
<1>1. block \in Seq(Byte) /\ Len(block) = m
  BY LenProperties, SeqDef
<1>2. /\ base + 1 \in 1..Len(block) + 1
      /\ base + len \in (base + 1) - 1..Len(block)
  BY <1>1
<1>3. /\ SubSeq(block, base + 1, base + len) \in Seq(Byte)
      /\ Len(SubSeq(block, base + 1, base + len)) = base + len - (base + 1) + 1
      /\ \A w \in 1..base + len - (base + 1) + 1 :
           SubSeq(block, base + 1, base + len)[w] = block[(base + 1) + w - 1]
  BY <1>1, <1>2, SubSeqProperties
<1>4. base + len - (base + 1) + 1 = len
  OBVIOUS
<1>5. ASSUME NEW w \in 1..len
      PROVE  (base + 1) + w - 1 = base + w /\ block[base + w] \in Byte
  <2>1. base + w \in 1..m /\ (base + 1) + w - 1 = base + w
    OBVIOUS
  <2> QED
    BY <2>1
<1> QED
  BY <1>3, <1>4, <1>5

(* An element by itself is the bytes from where it begins.                 *)
LEMMA ElementBytes ==
  ASSUME ArrayCall, call.pointers = "distinct", NEW k \in A!Indices
  PROVE  /\ A!At(actual, k)
              = SubSeq(actual, ActualBase(k) + 1, ActualBase(k) + call.length)
         /\ A!ExpectedAt(k)
              = SubSeq(expected, ExpectedBase(k) + 1,
                       ExpectedBase(k) + call.length)
<1> DEFINE len == call.length
<1>1. k \in Nat /\ len \in Nat
  BY BasesFit DEF ArrayCall
<1> HIDE DEF len
<1>2. (k + 1) * len = k * len + len /\ 0 * len = 0 /\ (0 + 1) * len = len
      /\ 0 + len = len
  BY <1>1
<1>3. A!At(actual, k)
        = SubSeq(actual, ActualBase(k) + 1, ActualBase(k) + len)
  BY <1>2 DEF A!At, ActualBase, len
<1>4. CASE call.flags = "ARRAY_TO_VAL"
  <2>1. ExpectedBase(k) = 0
    BY <1>4 DEF ExpectedBase
  <2>2. A!ExpectedAt(k) = A!At(expected, 0)
    BY <1>4, Zenon DEF A!ExpectedAt
  <2>3. A!At(expected, 0) = SubSeq(expected, 0 + 1, 0 + len)
    BY <1>2 DEF A!At, len
  <2> QED
    BY <1>3, <2>1, <2>2, <2>3 DEF len
<1>5. CASE call.flags # "ARRAY_TO_VAL"
  <2>1. ExpectedBase(k) = k * len
    BY <1>5 DEF ExpectedBase, len
  <2>2. A!ExpectedAt(k) = A!At(expected, k)
    BY <1>5, Zenon DEF A!ExpectedAt
  <2>3. A!At(expected, k) = SubSeq(expected, k * len + 1, k * len + len)
    BY <1>2 DEF A!At, len
  <2> QED
    BY <1>3, <2>1, <2>2, <2>3 DEF len
<1> QED
  BY <1>4, <1>5

(* The bytes of an element, as slices of both arrays.                      *)
LEMMA ElementSlices ==
  ASSUME ArrayCall, call.pointers = "distinct", NEW k \in A!Indices
  PROVE  /\ A!At(actual, k) \in Seq(Byte) /\ A!ExpectedAt(k) \in Seq(Byte)
         /\ Len(A!At(actual, k)) = call.length
         /\ Len(A!ExpectedAt(k)) = call.length
         /\ \A w \in 1..call.length :
              /\ A!At(actual, k)[w] = actual[ActualBase(k) + w]
              /\ A!ExpectedAt(k)[w] = expected[ExpectedBase(k) + w]
              /\ actual[ActualBase(k) + w] \in Byte
              /\ expected[ExpectedBase(k) + w] \in Byte
<1>1. call.length \in Nat
  BY DEF ArrayCall
<1>2. /\ ActualBase(k) \in Nat /\ ActualBase(k) + call.length <= Len(actual)
      /\ Len(actual) \in Nat /\ actual \in [1..Len(actual) -> Byte]
  BY BasesFit
<1>3. /\ ExpectedBase(k) \in Nat
      /\ ExpectedBase(k) + call.length <= Len(expected)
      /\ Len(expected) \in Nat /\ expected \in [1..Len(expected) -> Byte]
  BY BasesFit
<1>4. /\ A!At(actual, k) \in Seq(Byte)
      /\ Len(A!At(actual, k)) = call.length
      /\ \A w \in 1..call.length :
           /\ A!At(actual, k)[w] = actual[ActualBase(k) + w]
           /\ actual[ActualBase(k) + w] \in Byte
  <2> DEFINE slice ==
               SubSeq(actual, ActualBase(k) + 1, ActualBase(k) + call.length)
  <2>1. A!At(actual, k) = slice
    BY ElementBytes
  <2>2. /\ slice \in Seq(Byte) /\ Len(slice) = call.length
        /\ \A w \in 1..call.length : /\ slice[w] = actual[ActualBase(k) + w]
                                     /\ actual[ActualBase(k) + w] \in Byte
    BY <1>1, <1>2, SliceFact
  <2> HIDE DEF slice
  <2> QED
    BY <2>1, <2>2, Zenon
<1>5. /\ A!ExpectedAt(k) \in Seq(Byte)
      /\ Len(A!ExpectedAt(k)) = call.length
      /\ \A w \in 1..call.length :
           /\ A!ExpectedAt(k)[w] = expected[ExpectedBase(k) + w]
           /\ expected[ExpectedBase(k) + w] \in Byte
  <2> DEFINE slice == SubSeq(expected, ExpectedBase(k) + 1,
                             ExpectedBase(k) + call.length)
  <2>1. A!ExpectedAt(k) = slice
    BY ElementBytes
  <2>2. /\ slice \in Seq(Byte) /\ Len(slice) = call.length
        /\ \A w \in 1..call.length : /\ slice[w] = expected[ExpectedBase(k) + w]
                                     /\ expected[ExpectedBase(k) + w] \in Byte
    BY <1>1, <1>3, SliceFact
  <2> HIDE DEF slice
  <2> QED
    BY <2>1, <2>2, Zenon
<1> QED
  BY <1>4, <1>5

(* What it means that an element is as it should.                          *)
LEMMA SameMeans ==
  ASSUME ArrayCall, call.pointers = "distinct", NEW k \in A!Indices
  PROVE  /\ call.fn = "EqualMemory" => (A!Same(k) <=> SameBytes(k))
         /\ call.fn # "EqualMemory" => (A!Same(k) <=> SameNumbers(k))
         /\ A!Load(actual, ActualBase(k), call.length)
              \in 0..2 ^ A!Bits(call.length) - 1
         /\ A!Load(expected, ExpectedBase(k), call.length)
              \in 0..2 ^ A!Bits(call.length) - 1
<1> DEFINE len == call.length
           ab == ActualBase(k)
           eb == ExpectedBase(k)
           ae == A!At(actual, k)
           ee == A!ExpectedAt(k)
<1>1. len \in Nat /\ ab \in Nat /\ eb \in Nat /\ 0 \in Nat
  BY BasesFit DEF ArrayCall
<1>2. /\ ae \in Seq(Byte) /\ ee \in Seq(Byte)
      /\ Len(ae) = len /\ Len(ee) = len
  BY ElementSlices
<1>3. \A w \in 1..len :
        /\ ae[w] = actual[ab + w] /\ ee[w] = expected[eb + w]
        /\ actual[ab + w] \in Byte /\ expected[eb + w] \in Byte
  BY ElementSlices
<1>4. call.fn = "EqualMemory" => (A!Same(k) <=> SameBytes(k))
  <2> HAVE call.fn = "EqualMemory"
  <2>1. A!Same(k) <=> ee = ae
    BY Zenon DEF A!Same
  <2> HIDE DEF ae, ee, ab, eb, len
  <2>2. ee = ae <=> \A w \in 1..len : ee[w] = ae[w]
    BY <1>1, <1>2, SeqEqual
  <2>3. SameBytes(k) <=> \A w \in 1..len : expected[eb + w] = actual[ab + w]
    BY DEF SameBytes, eb, ab, len
  <2> QED
    BY <2>1, <2>2, <2>3, <1>3
<1> HIDE DEF ae, ee, ab, eb, len
<1>5. A!Load(ae, 0, len) = A!Load(actual, ab, len)
  <2>1. \A w \in 1..len : 0 + w = w
    BY <1>1
  <2>2. Copied(ae, 0, actual, ab, len)
    BY <1>3, <2>1 DEF Copied
  <2> QED
    BY <1>1, <2>2, LoadSame
<1>6. A!Load(ee, 0, len) = A!Load(expected, eb, len)
  <2>1. \A w \in 1..len : 0 + w = w
    BY <1>1
  <2>2. Copied(ee, 0, expected, eb, len)
    BY <1>3, <2>1 DEF Copied
  <2> QED
    BY <1>1, <2>2, LoadSame
<1>7. A!Load(actual, ab, len) \in 0..2 ^ A!Bits(len) - 1
  BY <1>1, <1>3, LoadRange
<1>8. A!Load(expected, eb, len) \in 0..2 ^ A!Bits(len) - 1
  BY <1>1, <1>3, LoadRange
<1>9. call.fn # "EqualMemory" => (A!Same(k) <=> SameNumbers(k))
  <2> HAVE call.fn # "EqualMemory"
  <2> DEFINE t == call.type
             Num(u) == NumberIn(t, u)
  <2>1. t \in Ty!Types /\ len = Ty!Style(t).size /\ A!Size = len
    BY ArrayTypes DEF ArrayCall, len, A!Size
  <2>2. A!Bits(A!Size) = Width(t)
    BY <2>1, ArrayTypes DEF Width
  <2>3. /\ (IF t \in A!SignedTypes
            THEN A!Signed(A!Bits(A!Size), A!Load(ee, 0, A!Size))
            ELSE A!Load(ee, 0, A!Size))
             = Num(A!Load(ee, 0, A!Size))
        /\ (IF t \in A!SignedTypes
            THEN A!Signed(A!Bits(A!Size), A!Load(ae, 0, A!Size))
            ELSE A!Load(ae, 0, A!Size))
             = Num(A!Load(ae, 0, A!Size))
    BY <2>2, ArrayTypes, Zenon DEF NumberIn
  <2>4. A!Same(k) <=>
          IF call.fn = "EqualIntArray"
          THEN A!Holds("EQUAL", Num(A!Load(ee, 0, A!Size)),
                       Num(A!Load(ae, 0, A!Size)), 0)
          ELSE A!Holds("WITHIN", Num(A!Load(ee, 0, A!Size)),
                       Num(A!Load(ae, 0, A!Size)), call.delta)
    BY <2>3, Zenon DEF A!Same, ee, ae
  <2>5. \A x, y : A!Holds("EQUAL", x, y, 0) <=> y = x
    BY Zenon DEF A!Holds
  <2>6. \A x, y, d : A!Holds("WITHIN", x, y, d) <=> y - x \in -d..d
    BY DEF A!Holds
  <2> HIDE DEF Num, t
  <2>7. A!Same(k) <=>
          IF call.fn = "EqualIntArray"
          THEN Num(A!Load(actual, ab, len)) = Num(A!Load(expected, eb, len))
          ELSE Num(A!Load(actual, ab, len)) - Num(A!Load(expected, eb, len))
                 \in -call.delta..call.delta
    <3>1. A!Load(ee, 0, A!Size) = A!Load(expected, eb, len)
          /\ A!Load(ae, 0, A!Size) = A!Load(actual, ab, len)
      BY <2>1, <1>5, <1>6
    <3> QED
      BY <3>1, <2>4, <2>5, <2>6
  <2> QED
    BY <2>7, Zenon DEF SameNumbers, RelatedNumbers, Num, t, ab, eb, len
<1> QED
  BY <1>4, <1>7, <1>8, <1>9 DEF ab, eb, len

(* The comparison of an element finds out whether it is as it should, and  *)
(* what it prints of it differs by as much.                                *)
LEMMA CompareMeans ==
  ASSUME ArrayCall, call.fn \in A!IntFunctions, call.pointers = "distinct",
         NEW k \in A!Indices, NEW e, NEW a,
         e = A!Value(expected, ExpectedBase(k)),
         a = A!Value(actual, ActualBase(k))
  PROVE  /\ A!Differ(e, a) <=> ~ A!Same(k)
         /\ A!Differ(e, a) =>
              IF call.fn = "NumbersArrayWithin"
              THEN ~ A!Holds("WITHIN", A!Masked(e), A!Masked(a), call.delta)
              ELSE A!Masked(e) # A!Masked(a)
<1> DEFINE t == call.type
           u == A!Load(expected, ExpectedBase(k), call.length)
           v == A!Load(actual, ActualBase(k), call.length)
           x == NumberIn(t, u)
           y == NumberIn(t, v)
<1>1. call.fn \in {"EqualIntArray", "NumbersArrayWithin"}
      /\ call.fn # "EqualMemory"
  BY DEF A!IntFunctions
<1>2. t \in Ty!Types /\ call.length = Ty!Style(t).size /\ A!Size = call.length
  BY <1>1, ArrayTypes DEF ArrayCall, A!Size
<1>3. A!Bits(A!Size) = Width(t) /\ A!Bits(call.length) = Width(t)
  BY <1>2, ArrayTypes DEF Width
<1>4. u \in 0..2 ^ Width(t) - 1 /\ v \in 0..2 ^ Width(t) - 1
  BY <1>3, SameMeans
<1>5. A!Same(k) <=> SameNumbers(k)
  BY <1>1, SameMeans
<1>6. /\ A!LoadEqual(expected, ExpectedBase(k)) = LoadedEqual(t, u)
      /\ A!LoadEqual(actual, ActualBase(k)) = LoadedEqual(t, v)
      /\ A!LoadWithin(expected, ExpectedBase(k)) = LoadedWithin(t, u)
      /\ A!LoadWithin(actual, ActualBase(k)) = LoadedWithin(t, v)
  <2>1. A!Load(expected, ExpectedBase(k), A!Size) = u
        /\ A!Load(actual, ActualBase(k), A!Size) = v
    BY <1>2
  <2>2. A!Style(call.type) = Ty!Style(t)
    BY ArrayTypes
  <2>3. A!Size = 8 <=> Ty!Style(t).size = 8
    BY <1>2
  <2> HIDE DEF u, v
  <2> QED
    BY <2>1, <2>2, <2>3, <1>3, ArrayTypes, Zenon
       DEF A!LoadEqual, A!LoadWithin, LoadedEqual, LoadedWithin
<1> HIDE DEF u, v
<1>7. \A w : A!Masked(w) = PrintedOf(t, w)
  <2>1. A!Style(call.type) = Ty!Style(t)
    BY ArrayTypes
  <2>2. A!Size < 4 <=> Ty!Style(t).size < 4
    BY <1>2
  <2> QED
    BY <2>1, <2>2, <1>3, ArrayTypes, Zenon DEF A!Masked, PrintedOf
<1>8. CASE call.fn = "EqualIntArray"
  <2>1. e = LoadedEqual(t, u) /\ a = LoadedEqual(t, v)
    BY <1>6, <1>8, Zenon DEF A!Value
  <2>2. A!Differ(e, a) <=> e # a
    BY <1>8, Zenon DEF A!Differ
  <2>3. A!Same(k) <=> y = x
    BY <1>5, <1>8, Zenon DEF SameNumbers, RelatedNumbers, u, v
  <2>4. e = a <=> x = y
    BY <1>2, <1>4, <2>1, LoadedEqualFact
  <2>5. A!Masked(e) = x /\ A!Masked(a) = y
    BY <1>2, <1>4, <1>7, <2>1, LoadedEqualFact
  <2> HIDE DEF x, y
  <2>6. call.fn # "NumbersArrayWithin"
    BY <1>8
  <2> QED
    BY <2>2, <2>3, <2>4, <2>5, <2>6
<1>9. CASE call.fn = "NumbersArrayWithin"
  <2> DEFINE d == call.delta
  <2>0. call.fn # "EqualIntArray"
    BY <1>9
  <2>1. e = LoadedWithin(t, u) /\ a = LoadedWithin(t, v)
    BY <1>6, <2>0, Zenon DEF A!Value
  <2>2. d \in 0..2 ^ TopBits - 1 /\ d \in Nat
    BY <1>9 DEF ArrayCall
  <2>3. A!UNITY_UINT(d) = d
    <3>1. TopBits \in Nat /\ TopBits > 0
      BY <1>2, WidthOf
    <3>2. Ty!Unsigned(TopBits, d) = d
      <4>1. d \in Int
        BY <2>2
      <4> HIDE DEF d
      <4> QED
        BY <2>2, <3>1, <4>1, UnsignedFact
    <3> QED
      BY <3>2, ArrayTypes DEF Ty!UNITY_UINT, TopBits
  <2>4. A!Distance(e, a) = DistanceIn(t, e, a)
    BY ArrayTypes, Zenon DEF A!Distance, DistanceIn
  <2>5. A!Differ(e, a) <=> DistanceIn(t, e, a) > d
    BY <2>0, <2>3, <2>4, Zenon DEF A!Differ
  <2>6. A!Same(k) <=> y - x \in -d..d
    BY <1>5, <2>0, Zenon DEF SameNumbers, RelatedNumbers, u, v
  <2>7. DistanceIn(t, e, a) > d <=> ~ (y - x \in -d..d)
    BY <1>2, <1>4, <2>1, <2>2, DistanceFact
  <2>8. A!Masked(e) = x /\ A!Masked(a) = y
    BY <1>2, <1>4, <1>7, <2>1, LoadedWithinFact
  <2> HIDE DEF x, y
  <2>9. A!Holds("WITHIN", x, y, d) <=> y - x \in -d..d
    BY DEF A!Holds
  <2> QED
    BY <1>9, <2>5, <2>6, <2>7, <2>8, <2>9
<1> QED
  BY <1>1, <1>8, <1>9

(* How far a call has come.                                                *)
Comparing == /\ call.num_elements > 0 /\ call.length > 0
             /\ call.pointers = "distinct" /\ report = A!Nothing

AllSameBefore(k) == \A w \in 0..k - 1 : A!Same(w)

Begun == pc = "call" =>
  /\ elements = call.num_elements /\ bytes = 0
  /\ ptr_exp = 0 /\ ptr_act = 0 /\ report = A!Nothing

AtElement == pc = "element" =>
  /\ Comparing
  /\ ptr_act = ActualBase(call.num_elements - elements)
  /\ ptr_exp = ExpectedBase(call.num_elements - elements)
  /\ AllSameBefore(call.num_elements - elements)

AtByte == pc = "byte" =>
  LET k    == call.num_elements - elements - 1
      done == call.length - bytes
  IN  /\ Comparing /\ call.fn = "EqualMemory" /\ k \in A!Indices
      /\ ptr_act = ActualBase(k) + done /\ ptr_exp = ExpectedBase(k) + done
      /\ AllSameBefore(k)
      /\ \A w \in 1..done :
           expected[ExpectedBase(k) + w] = actual[ActualBase(k) + w]

ArraysInv == /\ ArrayCall /\ A!TypeOK /\ Begun /\ AtElement /\ AtByte
             /\ A!VerdictCorrect /\ A!FailureLocated

(* No element or byte is read that is not there.                           *)
LEMMA ArrayBoundsProved == ArraysInv => A!InBounds
<1> SUFFICES ASSUME ArraysInv PROVE A!InBounds
  OBVIOUS
<1>1. ASSUME pc = "element", elements > 0
      PROVE  /\ ptr_exp + call.length <= Len(expected)
             /\ ptr_act + call.length <= Len(actual)
  <2> DEFINE k == call.num_elements - elements
  <2>1. k \in A!Indices
    BY <1>1 DEF ArraysInv, ArrayCall, A!TypeOK, A!Indices
  <2> HIDE DEF k
  <2>2. /\ ActualBase(k) + call.length <= Len(actual)
        /\ ExpectedBase(k) + call.length <= Len(expected)
    BY <1>1, <2>1, BasesFit DEF ArraysInv, AtElement, Comparing
  <2>3. ptr_act = ActualBase(k) /\ ptr_exp = ExpectedBase(k)
    BY <1>1 DEF ArraysInv, AtElement, k
  <2> QED
    BY <2>2, <2>3
<1>2. ASSUME pc = "byte"
      PROVE  /\ ptr_exp + bytes <= Len(expected)
             /\ ptr_act + bytes <= Len(actual)
  <2> DEFINE k == call.num_elements - elements - 1
             done == call.length - bytes
  <2>1. /\ Comparing /\ k \in A!Indices
        /\ ptr_act = ActualBase(k) + done /\ ptr_exp = ExpectedBase(k) + done
    BY <1>2 DEF ArraysInv, AtByte
  <2>2. bytes \in Nat /\ call.length \in Nat
    BY DEF ArraysInv, A!TypeOK, ArrayCall
  <2> HIDE DEF k
  <2>3. /\ ActualBase(k) + call.length <= Len(actual)
        /\ ExpectedBase(k) + call.length <= Len(expected)
        /\ ActualBase(k) \in Nat /\ ExpectedBase(k) \in Nat
        /\ Len(actual) \in Nat /\ Len(expected) \in Nat
    BY <2>1, BasesFit DEF ArraysInv, Comparing
  <2> QED
    BY <2>1, <2>2, <2>3
<1> QED
  BY <1>1, <1>2 DEF A!InBounds

(* A call that ends leaves what it has read where it was.                  *)
LEMMA ArrayEnds ==
  ASSUME ArraysInv, NEW r, A!Finish(r),
         A!VerdictCorrect', A!FailureLocated'
  PROVE  ArraysInv'
<1>1. /\ pc' = "returned" /\ report' = r /\ call' = call
      /\ expected' = expected /\ actual' = actual /\ ptr_exp' = ptr_exp
      /\ ptr_act' = ptr_act /\ elements' = elements /\ bytes' = bytes
  BY DEF A!Finish
<1>2. ArrayCall'
  BY <1>1 DEF ArraysInv, ArrayCall
<1>3. A!TypeOK'
  BY <1>1 DEF ArraysInv, A!TypeOK
<1>4. Begun' /\ AtElement' /\ AtByte'
  BY <1>1 DEF Begun, AtElement, AtByte
<1> QED
  BY <1>2, <1>3, <1>4 DEF ArraysInv

(* With nothing reported nothing is located wrongly.                       *)
LEMMA NothingFails ==
  ASSUME report = A!Nothing PROVE A!FailureLocated
BY DEF A!Nothing, A!FailureLocated

(* Where the values that an element is compared by are left alone, what it *)
(* is to be as it should is.                                               *)
LEMMA SameKept ==
  ASSUME call' = call, expected' = expected, actual' = actual, NEW k
  PROVE  A!Same(k)' <=> A!Same(k)
<1>1. A!Size' = A!Size
  BY Zenon DEF A!Size
<1>2. A!At(actual, k)' = A!At(actual, k)
  BY Zenon DEF A!At
<1>3. A!ExpectedAt(k)' = A!ExpectedAt(k)
  BY Zenon DEF A!ExpectedAt, A!At
<1> QED
  BY <1>1, <1>2, <1>3, Zenon DEF A!Same

(* Entry: null pointers, equal pointers and lengths of zero are decided,   *)
(* and otherwise the first element is next.                                *)
LEMMA EnterStep == ArraysInv /\ A!Enter => ArraysInv'
<1> SUFFICES ASSUME ArraysInv, A!Enter PROVE ArraysInv'
  OBVIOUS
<1>1. /\ pc = "call" /\ elements = call.num_elements /\ bytes = 0
      /\ ptr_exp = 0 /\ ptr_act = 0 /\ report = A!Nothing
  BY DEF ArraysInv, Begun, A!Enter
<1>2. call.num_elements \in Nat /\ call.length \in Nat
  BY DEF ArraysInv, ArrayCall
<1>3. ASSUME A!Pointless, A!Finish([why |-> "pointless"]) PROVE ArraysInv'
  <2>1. report' = [why |-> "pointless"] /\ call' = call
    BY <1>3 DEF A!Finish
  <2>2. report' # A!Nothing /\ report'.why # "differs"
    BY <2>1 DEF A!Nothing
  <2>3. ~ (call.num_elements > 0 /\ call.length > 0)
    BY <1>3 DEF A!Pointless
  <2>4. A!VerdictCorrect'
    BY <2>1, <2>2, <2>3 DEF A!VerdictCorrect, A!Nothing
  <2>5. A!FailureLocated'
    BY <2>2 DEF A!FailureLocated
  <2> QED
    BY <1>3, <2>4, <2>5, ArrayEnds
<1>4. ASSUME A!OneArrayNull, A!Finish([why |-> call.pointers]) PROVE ArraysInv'
  <2>1. report' = [why |-> call.pointers] /\ call' = call
    BY <1>4 DEF A!Finish
  <2>2. call.pointers = "expected_NULL" \/ call.pointers = "actual_NULL"
    BY <1>4 DEF A!OneArrayNull
  <2>3. report'.why = call.pointers
    BY <2>1
  <2>4. report' # A!Nothing /\ report'.why # "differs"
    BY <2>2, <2>3 DEF A!Nothing
  <2>5. ~ A!EqualPointers' /\ call'.pointers # "distinct"
    BY <2>1, <2>2 DEF A!EqualPointers
  <2>6. A!VerdictCorrect'
    BY <2>4, <2>5 DEF A!VerdictCorrect, A!Nothing
  <2>7. A!FailureLocated'
    BY <2>4 DEF A!FailureLocated
  <2> QED
    BY <1>4, <2>6, <2>7, ArrayEnds
<1>5. ASSUME ~ A!Pointless, A!EqualPointers, A!Finish(A!Nothing)
      PROVE  ArraysInv'
  <2>1. report' = A!Nothing /\ call' = call
    BY <1>5 DEF A!Finish
  <2>2. report' = A!Nothing'
    BY <2>1 DEF A!Nothing
  <2>3. call.num_elements > 0 /\ call.length > 0
    BY <1>2, <1>5 DEF A!Pointless
  <2>4. A!VerdictCorrect'
    BY <1>5, <2>1, <2>2, <2>3 DEF A!VerdictCorrect, A!EqualPointers
  <2>5. A!FailureLocated'
    BY <2>2 DEF A!FailureLocated, A!Nothing
  <2> QED
    BY <1>5, <2>4, <2>5, ArrayEnds
<1>6. ASSUME ~ A!Pointless, call.pointers = "distinct", pc' = "element",
             UNCHANGED <<call, expected, actual, ptr_exp, ptr_act, elements,
                         bytes, report>>
      PROVE  ArraysInv'
  <2>0. /\ call' = call /\ expected' = expected /\ actual' = actual
        /\ ptr_exp' = ptr_exp /\ ptr_act' = ptr_act /\ elements' = elements
        /\ bytes' = bytes /\ report' = report
    BY <1>6
  <2>1. ArrayCall'
    BY <2>0 DEF ArraysInv, ArrayCall
  <2>2. A!TypeOK'
    BY <1>6, <2>0 DEF ArraysInv, A!TypeOK
  <2>3. A!VerdictCorrect' /\ Begun' /\ AtByte'
    BY <1>6 DEF A!VerdictCorrect, Begun, AtByte
  <2>4. A!FailureLocated'
    BY <1>1, <2>0 DEF A!FailureLocated, A!Nothing
  <2>5. AtElement'
    <3>1. call.num_elements > 0 /\ call.length > 0
      BY <1>2, <1>6 DEF A!Pointless
    <3>2. Comparing'
      BY <1>1, <1>6, <2>0, <3>1 DEF Comparing, A!Nothing
    <3>3. call.num_elements - elements = 0 /\ 0 * call.length = 0
      BY <1>1, <1>2
    <3>4. ptr_act' = ActualBase(call.num_elements - elements)'
          /\ ptr_exp' = ExpectedBase(call.num_elements - elements)'
      BY <1>1, <2>0, <3>3 DEF ActualBase, ExpectedBase
    <3>5. AllSameBefore(call.num_elements - elements)'
      <4>1. (call.num_elements - elements)' = 0
        BY <2>0, <3>3
      <4> QED
        BY <4>1 DEF AllSameBefore
    <3> QED
      BY <3>2, <3>4, <3>5 DEF AtElement
  <2> QED
    BY <2>1, <2>2, <2>3, <2>4, <2>5 DEF ArraysInv
<1> QED
  BY <1>3, <1>4, <1>5, <1>6 DEF A!Enter

(* An element compared is the next one, and the first that differs ends    *)
(* the call.                                                               *)
LEMMA CompareElementStep == ArraysInv /\ A!CompareElement => ArraysInv'
<1> SUFFICES ASSUME ArraysInv, A!CompareElement PROVE ArraysInv'
  OBVIOUS
<1>0. PICK k : k = call.num_elements - elements
  OBVIOUS
<1> DEFINE e == A!Value(expected, ptr_exp)
           a == A!Value(actual, ptr_act)
           r == [why |-> "differs", element |-> A!Index(elements),
                 expected |-> A!Masked(e), actual |-> A!Masked(a)]
<1>1. pc = "element" /\ call.fn \in A!IntFunctions /\ elements > 0
  BY DEF A!CompareElement
<1>2. /\ Comparing /\ ptr_act = ActualBase(k) /\ ptr_exp = ExpectedBase(k)
      /\ AllSameBefore(k)
  BY <1>0, <1>1 DEF ArraysInv, AtElement
<1>3. /\ ArrayCall /\ elements \in 0..call.num_elements
      /\ call.num_elements \in Nat /\ call.length \in Nat
      /\ call.pointers = "distinct" /\ report = A!Nothing
      /\ call.num_elements > 0 /\ call.length > 0
  BY <1>2 DEF ArraysInv, ArrayCall, A!TypeOK, Comparing
<1>4. k \in A!Indices /\ k \in Nat /\ A!Index(elements) = k
  BY <1>0, <1>1, <1>3 DEF A!Indices, A!Index
<1>5. call.fn # "EqualMemory" /\ A!Size = call.length
  <2>1. call.fn # "EqualMemory"
    BY <1>1 DEF A!IntFunctions
  <2> QED
    BY <2>1, <1>3, ArrayTypes DEF ArrayCall, A!Size
<1>6. /\ A!Differ(e, a) <=> ~ A!Same(k)
      /\ A!Differ(e, a) =>
           IF call.fn = "NumbersArrayWithin"
           THEN ~ A!Holds("WITHIN", A!Masked(e), A!Masked(a), call.delta)
           ELSE A!Masked(e) # A!Masked(a)
  <2>1. e = A!Value(expected, ExpectedBase(k))
        /\ a = A!Value(actual, ActualBase(k))
    BY <1>2
  <2> HIDE DEF e, a
  <2> QED
    BY <1>1, <1>3, <1>4, <2>1, CompareMeans
<1>7. \/ A!Differ(e, a) /\ A!Finish(r)
      \/ /\ ~ A!Differ(e, a)
         /\ elements' = A!Left(elements)
         /\ ptr_exp' = ptr_exp + A!ExpectedStep(A!Size)
         /\ ptr_act' = ptr_act + A!Size
         /\ UNCHANGED <<call, expected, actual, bytes, pc, report>>
  BY Zenon DEF A!CompareElement
<1> HIDE DEF e, a, r
<1>8. ASSUME A!Differ(e, a), A!Finish(r) PROVE ArraysInv'
  <2>1. /\ report' = r /\ call' = call /\ expected' = expected
        /\ actual' = actual /\ pc' = "returned"
    BY <1>8 DEF A!Finish
  <2>2. /\ r.why = "differs" /\ r.element = k /\ r.expected = A!Masked(e)
        /\ r.actual = A!Masked(a)
    BY <1>4 DEF r
  <2>3. \A w : A!Same(w)' <=> A!Same(w)
    BY <2>1, SameKept
  <2>4. ~ A!Same(k)
    BY <1>6, <1>8
  <2>5. A!FailureLocated'
    <3>1. /\ report'.why = "differs" /\ report'.element = k
          /\ report'.expected = A!Masked(e) /\ report'.actual = A!Masked(a)
      BY <2>1, <2>2
    <3>2. A!Indices' = A!Indices
      BY <2>1 DEF A!Indices
    <3>3. ~ A!Same(k)' /\ \A w \in 0..k - 1 : A!Same(w)'
      BY <1>2, <2>3, <2>4 DEF AllSameBefore
    <3>4. call'.fn = "NumbersArrayWithin" =>
            ~ A!Holds("WITHIN", A!Masked(e), A!Masked(a), call'.delta)
      BY <1>6, <1>8, <2>1
    <3>5. call'.fn # "NumbersArrayWithin" => A!Masked(e) # A!Masked(a)
      BY <1>6, <1>8, <2>1
    <3>6. call'.fn # "EqualMemory"
      BY <1>5, <2>1
    <3>7. /\ (report.element \in A!Indices)'
          /\ (~ A!Same(report.element))'
          /\ (\A w \in 0..report.element - 1 : A!Same(w))'
      BY <1>4, <3>1, <3>2, <3>3
    <3> QED
      BY <3>1, <3>4, <3>5, <3>6, <3>7, Zenon DEF A!FailureLocated
  <2>6. A!VerdictCorrect'
    <3>1. report' # A!Nothing'
      <4>1. report'.why # A!Nothing'.why
        BY <2>1, <2>2 DEF A!Nothing
      <4> QED
        BY <4>1
    <3>2. ~ A!EqualPointers'
      BY <1>3, <2>1 DEF A!EqualPointers
    <3>3. ~ (\A w \in A!Indices : A!Same(w))'
      <4>1. A!Indices' = A!Indices
        BY <2>1 DEF A!Indices
      <4> QED
        BY <1>4, <2>3, <2>4, <4>1
    <3> QED
      BY <3>1, <3>2, <3>3, Zenon DEF A!VerdictCorrect
  <2> QED
    BY <1>8, <2>5, <2>6, ArrayEnds
<1>9. ASSUME ~ A!Differ(e, a), elements' = A!Left(elements),
             ptr_exp' = ptr_exp + A!ExpectedStep(A!Size),
             ptr_act' = ptr_act + A!Size,
             UNCHANGED <<call, expected, actual, bytes, pc, report>>
      PROVE  ArraysInv'
  <2>1. /\ call' = call /\ expected' = expected /\ actual' = actual
        /\ bytes' = bytes /\ pc' = "element" /\ report' = report
        /\ elements' = elements - 1
    BY <1>1, <1>9 DEF A!Left
  <2>2. /\ (call.num_elements - elements)' = k + 1
        /\ elements' \in 0..call.num_elements
    BY <1>0, <1>1, <1>3, <2>1
  <2>3. /\ k \in Nat /\ k < call.num_elements
        /\ ActualBase(k) \in Nat /\ ExpectedBase(k) \in Nat
        /\ ActualBase(k) + call.length <= Len(actual)
        /\ ExpectedBase(k) + call.length <= Len(expected)
        /\ Len(actual) \in Nat /\ Len(expected) \in Nat
        /\ ActualBase(k + 1) = ActualBase(k) + call.length
        /\ ExpectedBase(k + 1) = IF call.flags = "ARRAY_TO_VAL" THEN 0
                                 ELSE ExpectedBase(k) + call.length
    BY <1>3, <1>4, BasesFit
  <2>4. ptr_act' = ActualBase(k + 1)
    BY <1>2, <1>5, <1>9, <2>3
  <2>5. ptr_exp' = ExpectedBase(k + 1)
    <3>1. CASE call.flags = "ARRAY_TO_VAL"
      <4>1. ExpectedBase(k) = 0 /\ A!ExpectedStep(A!Size) = 0
        BY <3>1 DEF ExpectedBase, A!ExpectedStep
      <4> QED
        BY <1>2, <1>9, <2>3, <3>1, <4>1
    <3>2. CASE call.flags # "ARRAY_TO_VAL"
      <4>1. call.flags = "ARRAY_TO_ARRAY"
        BY <1>3, <3>2 DEF ArrayCall
      <4>2. A!ExpectedStep(A!Size) = call.length
        BY <1>5, <4>1 DEF A!ExpectedStep
      <4> QED
        BY <1>2, <1>9, <2>3, <3>2, <4>2
    <3> QED
      BY <3>1, <3>2
  <2>6. ArrayCall'
    BY <2>1 DEF ArraysInv, ArrayCall
  <2>7. A!TypeOK'
    <3>1. ptr_act' \in 0..Len(actual) /\ ptr_exp' \in 0..Len(expected)
      BY <2>3, <2>4, <2>5, <1>3
    <3> QED
      BY <3>1, <2>1, <2>2 DEF ArraysInv, A!TypeOK
  <2>8. Begun' /\ AtByte' /\ A!VerdictCorrect'
    BY <2>1 DEF Begun, AtByte, A!VerdictCorrect
  <2>9. A!FailureLocated'
    BY <1>3, <2>1 DEF A!FailureLocated, A!Nothing
  <2>10. AtElement'
    <3>1. Comparing'
      BY <1>2, <2>1 DEF Comparing, A!Nothing
    <3>2. ptr_act' = ActualBase(k + 1)' /\ ptr_exp' = ExpectedBase(k + 1)'
      BY <2>1, <2>4, <2>5 DEF ActualBase, ExpectedBase
    <3>3. AllSameBefore(k + 1)'
      <4>1. ASSUME NEW w \in 0..(k + 1) - 1 PROVE A!Same(w)
        BY <1>2, <1>4, <1>6, <1>9 DEF AllSameBefore
      <4>2. \A w : A!Same(w)' <=> A!Same(w)
        BY <2>1, SameKept
      <4> QED
        BY <4>1, <4>2 DEF AllSameBefore
    <3> QED
      BY <2>2, <3>1, <3>2, <3>3, Zenon DEF AtElement
  <2> QED
    BY <2>6, <2>7, <2>8, <2>9, <2>10 DEF ArraysInv
<1> QED
  BY <1>7, <1>8, <1>9

(* An element of memory begins with its first byte.                        *)
LEMMA MemoryElementStep == ArraysInv /\ A!MemoryElement => ArraysInv'
<1> SUFFICES ASSUME ArraysInv, A!MemoryElement PROVE ArraysInv'
  OBVIOUS
<1>0. PICK k : k = call.num_elements - elements
  OBVIOUS
<1>1. /\ pc = "element" /\ call.fn = "EqualMemory" /\ elements > 0
      /\ elements' = elements - 1 /\ bytes' = call.length /\ pc' = "byte"
      /\ call' = call /\ expected' = expected /\ actual' = actual
      /\ ptr_exp' = ptr_exp /\ ptr_act' = ptr_act /\ report' = report
  BY DEF A!MemoryElement, A!Left
<1>2. /\ Comparing /\ ptr_act = ActualBase(k) /\ ptr_exp = ExpectedBase(k)
      /\ AllSameBefore(k)
  BY <1>0, <1>1 DEF ArraysInv, AtElement
<1>3. /\ ArrayCall /\ elements \in 0..call.num_elements
      /\ call.num_elements \in Nat /\ call.length \in Nat
      /\ call.pointers = "distinct" /\ report = A!Nothing
      /\ call.num_elements > 0 /\ call.length > 0
  BY <1>2 DEF ArraysInv, ArrayCall, A!TypeOK, Comparing
<1>4. k \in A!Indices /\ k \in Nat /\ elements' \in 0..call.num_elements
  BY <1>0, <1>1, <1>3 DEF A!Indices
<1>5. (call.num_elements - elements - 1)' = k /\ (call.length - bytes)' = 0
  BY <1>0, <1>1, <1>3
<1>6. ArrayCall'
  BY <1>1 DEF ArraysInv, ArrayCall
<1>7. A!TypeOK'
  BY <1>1, <1>3, <1>4 DEF ArraysInv, A!TypeOK
<1>8. Begun' /\ AtElement' /\ A!VerdictCorrect'
  BY <1>1 DEF Begun, AtElement, A!VerdictCorrect
<1>9. A!FailureLocated'
  BY <1>1, <1>3 DEF A!FailureLocated, A!Nothing
<1>10. AtByte'
  <2>1. Comparing' /\ call'.fn = "EqualMemory" /\ (k \in A!Indices)'
    BY <1>1, <1>2, <1>4 DEF Comparing, A!Nothing, A!Indices
  <2>2. ActualBase(k) \in Nat /\ ExpectedBase(k) \in Nat
    BY <1>3, <1>4, BasesFit
  <2>3. ptr_act' = ActualBase(k) + 0 /\ ptr_exp' = ExpectedBase(k) + 0
    BY <1>1, <1>2, <2>2
  <2>4. ptr_act' = ActualBase(k)' + 0 /\ ptr_exp' = ExpectedBase(k)' + 0
    BY <1>1, <2>3 DEF ActualBase, ExpectedBase
  <2>5. \A w : A!Same(w)' <=> A!Same(w)
    BY <1>1, SameKept
  <2>6. AllSameBefore(k)'
    BY <1>2, <2>5 DEF AllSameBefore
  <2>7. \A w \in 1..0 :
          (expected[ExpectedBase(k) + w] = actual[ActualBase(k) + w])'
    OBVIOUS
  <2> QED
    BY <1>5, <2>1, <2>4, <2>6, <2>7, Zenon DEF AtByte
<1> QED
  BY <1>6, <1>7, <1>8, <1>9, <1>10 DEF ArraysInv

(* Where a call of UnityAssertEqualMemory is, in its inner loop.           *)
LEMMA ByteFacts ==
  ASSUME ArraysInv, pc = "byte", NEW k, NEW done,
         k = call.num_elements - elements - 1, done = call.length - bytes
  PROVE  /\ Comparing /\ call.fn = "EqualMemory" /\ k \in A!Indices
         /\ ptr_act = ActualBase(k) + done /\ ptr_exp = ExpectedBase(k) + done
         /\ AllSameBefore(k)
         /\ \A w \in 1..done :
              expected[ExpectedBase(k) + w] = actual[ActualBase(k) + w]
         /\ ArrayCall /\ elements \in 0..call.num_elements
         /\ call.num_elements \in Nat /\ call.length \in Nat
         /\ bytes \in 0..call.length /\ done \in 0..call.length
         /\ call.pointers = "distinct" /\ report = A!Nothing
         /\ call.num_elements > 0 /\ call.length > 0
         /\ ActualBase(k) \in Nat /\ ExpectedBase(k) \in Nat
<1>1. /\ Comparing /\ call.fn = "EqualMemory" /\ k \in A!Indices
      /\ ptr_act = ActualBase(k) + done /\ ptr_exp = ExpectedBase(k) + done
      /\ AllSameBefore(k)
      /\ \A w \in 1..done :
           expected[ExpectedBase(k) + w] = actual[ActualBase(k) + w]
  BY Zenon DEF ArraysInv, AtByte
<1>2. /\ ArrayCall /\ elements \in 0..call.num_elements
      /\ call.num_elements \in Nat /\ call.length \in Nat
      /\ bytes \in 0..call.length
  BY DEF ArraysInv, ArrayCall, A!TypeOK
<1>3. /\ call.pointers = "distinct" /\ report = A!Nothing
      /\ call.num_elements > 0 /\ call.length > 0
  BY <1>1 DEF Comparing
<1>4. ActualBase(k) \in Nat /\ ExpectedBase(k) \in Nat
  BY <1>1, <1>2, <1>3, BasesFit
<1>5. done \in 0..call.length
  BY <1>2
<1> QED
  BY <1>1, <1>2, <1>3, <1>4, <1>5

(* A byte compared is the next one of its element.                         *)
LEMMA MemoryByteStep == ArraysInv /\ A!MemoryByte => ArraysInv'
<1> SUFFICES ASSUME ArraysInv, A!MemoryByte PROVE ArraysInv'
  OBVIOUS
<1>0. PICK k, done : k = call.num_elements - elements - 1
                     /\ done = call.length - bytes
  OBVIOUS
<1> DEFINE e == expected[ptr_exp + 1]
           a == actual[ptr_act + 1]
           r == [why |-> "differs",
                 element |-> call.num_elements - elements - 1,
                 byte |-> call.length - (bytes - 1) - 1,
                 expected |-> e, actual |-> a]
<1>1. pc = "byte" /\ bytes > 0
  BY DEF A!MemoryByte
<1>2. /\ Comparing /\ call.fn = "EqualMemory" /\ k \in A!Indices
      /\ ptr_act = ActualBase(k) + done /\ ptr_exp = ExpectedBase(k) + done
      /\ AllSameBefore(k)
      /\ \A w \in 1..done :
           expected[ExpectedBase(k) + w] = actual[ActualBase(k) + w]
  BY <1>0, <1>1, ByteFacts
<1>3. /\ ArrayCall /\ elements \in 0..call.num_elements
      /\ call.num_elements \in Nat /\ call.length \in Nat
      /\ bytes \in 0..call.length /\ done \in 0..call.length
      /\ call.pointers = "distinct" /\ report = A!Nothing
      /\ call.num_elements > 0 /\ call.length > 0
      /\ ActualBase(k) \in Nat /\ ExpectedBase(k) \in Nat
  BY <1>0, <1>1, ByteFacts
<1>4. /\ e = expected[ExpectedBase(k) + (done + 1)]
      /\ a = actual[ActualBase(k) + (done + 1)]
      /\ done + 1 \in 1..call.length
  <2>1. ptr_exp + 1 = ExpectedBase(k) + (done + 1)
        /\ ptr_act + 1 = ActualBase(k) + (done + 1)
    BY <1>2, <1>3
  <2>2. done + 1 \in 1..call.length
    BY <1>0, <1>1, <1>3
  <2> QED
    BY <2>1, <2>2
<1>5. \/ e # a /\ A!Finish(r)
      \/ /\ e = a
         /\ bytes' = A!Left(bytes)
         /\ ptr_exp' = ptr_exp + 1 /\ ptr_act' = ptr_act + 1
         /\ UNCHANGED <<call, expected, actual, elements, pc, report>>
  BY Zenon DEF A!MemoryByte
<1>6. /\ r.why = "differs" /\ r.element = k /\ r.byte = done
      /\ r.expected = e /\ r.actual = a
  <2>1. call.length - (bytes - 1) - 1 = done
    BY <1>0, <1>3
  <2> QED
    BY <1>0, <2>1
<1> HIDE DEF e, a, r
<1>7. ASSUME e # a, A!Finish(r) PROVE ArraysInv'
  <2>1. /\ report' = r /\ call' = call /\ expected' = expected
        /\ actual' = actual /\ pc' = "returned"
    BY <1>7 DEF A!Finish
  <2>2. \A w : A!Same(w)' <=> A!Same(w)
    BY <2>1, SameKept
  <2>3. ~ SameBytes(k)
    BY <1>4, <1>7 DEF SameBytes
  <2>4. ~ A!Same(k)
    BY <1>2, <1>3, <2>3, SameMeans
  <2>5. \A w \in 1..call.length :
          /\ A!At(actual, k)[w] = actual[ActualBase(k) + w]
          /\ A!ExpectedAt(k)[w] = expected[ExpectedBase(k) + w]
    BY <1>2, <1>3, ElementSlices
  <2>6. /\ A!ExpectedAt(k)[done + 1] # A!At(actual, k)[done + 1]
        /\ \A w \in 1..done : A!ExpectedAt(k)[w] = A!At(actual, k)[w]
    <3>1. A!ExpectedAt(k)[done + 1] = e /\ A!At(actual, k)[done + 1] = a
      BY <1>4, <2>5
    <3>2. ASSUME NEW w \in 1..done
          PROVE  A!ExpectedAt(k)[w] = A!At(actual, k)[w]
      <4>1. w \in 1..call.length
        BY <1>3
      <4>2. A!At(actual, k)[w] = actual[ActualBase(k) + w]
            /\ A!ExpectedAt(k)[w] = expected[ExpectedBase(k) + w]
        BY <4>1, <2>5
      <4> QED
        BY <4>2, <1>2
    <3> QED
      BY <1>7, <3>1, <3>2
  <2>7. /\ report'.why = "differs" /\ report'.element = k
        /\ report'.byte = done /\ report'.expected = e /\ report'.actual = a
    BY <1>6, <2>1
  <2>8. A!FailureLocated'
    <3>1. A!ExpectedAt(k)' = A!ExpectedAt(k)
          /\ A!At(actual, k)' = A!At(actual, k)
      BY <2>1, Zenon DEF A!ExpectedAt, A!At
    <3>2. A!Indices' = A!Indices
      BY <2>1 DEF A!Indices
    <3>3. /\ (k \in A!Indices)' /\ ~ A!Same(k)'
          /\ \A w \in 0..k - 1 : A!Same(w)'
      BY <1>2, <2>2, <2>4, <3>2 DEF AllSameBefore
    <3>4. /\ (report.element \in A!Indices)'
          /\ (~ A!Same(report.element))'
          /\ (\A w \in 0..report.element - 1 : A!Same(w))'
      BY <2>7, <3>3, Zenon
    <3>5. call'.fn # "NumbersArrayWithin" /\ report'.expected # report'.actual
      BY <1>2, <1>7, <2>1, <2>7
    <3>6. /\ A!ExpectedAt(k)'[done + 1] # A!At(actual, k)'[done + 1]
          /\ \A w \in 1..done : A!ExpectedAt(k)'[w] = A!At(actual, k)'[w]
      BY <2>6, <3>1
    <3>7. /\ (A!ExpectedAt(report.element)[report.byte + 1]
                # A!At(actual, report.element)[report.byte + 1])'
          /\ (\A w \in 1..report.byte :
                A!ExpectedAt(report.element)[w]
                  = A!At(actual, report.element)[w])'
      BY <2>7, <3>6, Zenon
    <3> QED
      BY <3>4, <3>5, <3>7, Zenon DEF A!FailureLocated
  <2>9. A!VerdictCorrect'
    <3>1. report' # A!Nothing'
      <4>1. report'.why # A!Nothing'.why
        BY <2>7 DEF A!Nothing
      <4> QED
        BY <4>1
    <3>2. ~ A!EqualPointers'
      BY <1>3, <2>1 DEF A!EqualPointers
    <3>3. ~ (\A w \in A!Indices : A!Same(w))'
      <4>1. A!Indices' = A!Indices
        BY <2>1 DEF A!Indices
      <4> QED
        BY <1>2, <2>2, <2>4, <4>1
    <3> QED
      BY <3>1, <3>2, <3>3, Zenon DEF A!VerdictCorrect
  <2> QED
    BY <1>7, <2>8, <2>9, ArrayEnds
<1>8. ASSUME e = a, bytes' = A!Left(bytes), ptr_exp' = ptr_exp + 1,
             ptr_act' = ptr_act + 1,
             UNCHANGED <<call, expected, actual, elements, pc, report>>
      PROVE  ArraysInv'
  <2>1. /\ call' = call /\ expected' = expected /\ actual' = actual
        /\ elements' = elements /\ pc' = "byte" /\ report' = report
        /\ bytes' = bytes - 1
    BY <1>1, <1>8 DEF A!Left
  <2>2. /\ (call.num_elements - elements - 1)' = k
        /\ (call.length - bytes)' = done + 1
        /\ bytes' \in 0..call.length
    BY <1>0, <1>1, <1>3, <2>1
  <2>3. /\ ActualBase(k) + call.length <= Len(actual)
        /\ ExpectedBase(k) + call.length <= Len(expected)
        /\ Len(actual) \in Nat /\ Len(expected) \in Nat
    BY <1>2, <1>3, BasesFit
  <2>4. /\ ptr_act' = ActualBase(k) + (done + 1)
        /\ ptr_exp' = ExpectedBase(k) + (done + 1)
    BY <1>2, <1>3, <1>8
  <2>5. ptr_act' \in 0..Len(actual) /\ ptr_exp' \in 0..Len(expected)
    <3>1. done + 1 \in Nat /\ done + 1 <= call.length
      BY <1>3, <1>4
    <3>2. /\ ActualBase(k) \in Nat /\ ExpectedBase(k) \in Nat
          /\ call.length \in Nat
      BY <1>3
    <3> QED
      BY <2>3, <2>4, <3>1, <3>2
  <2>6. ArrayCall'
    BY <2>1 DEF ArraysInv, ArrayCall
  <2>7. A!TypeOK'
    BY <2>1, <2>2, <2>5 DEF ArraysInv, A!TypeOK
  <2>8. Begun' /\ AtElement' /\ A!VerdictCorrect'
    BY <2>1 DEF Begun, AtElement, A!VerdictCorrect
  <2>9. A!FailureLocated'
    BY <1>3, <2>1 DEF A!FailureLocated, A!Nothing
  <2>10. AtByte'
    <3>1. Comparing' /\ call'.fn = "EqualMemory" /\ (k \in A!Indices)'
      BY <1>2, <2>1 DEF Comparing, A!Nothing, A!Indices
    <3>2. /\ ptr_act' = ActualBase(k)' + (done + 1)
          /\ ptr_exp' = ExpectedBase(k)' + (done + 1)
      BY <2>1, <2>4 DEF ActualBase, ExpectedBase
    <3>3. \A w : A!Same(w)' <=> A!Same(w)
      BY <2>1, SameKept
    <3>4. AllSameBefore(k)'
      BY <1>2, <3>3 DEF AllSameBefore
    <3>5. ASSUME NEW w \in 1..done + 1
          PROVE  expected[ExpectedBase(k) + w] = actual[ActualBase(k) + w]
      <4>1. CASE w = done + 1
        BY <1>4, <1>8, <4>1
      <4>2. CASE w # done + 1
        <5>1. w \in 1..done
          BY <1>3, <4>2
        <5> QED
          BY <1>2, <5>1
      <4> QED
        BY <4>1, <4>2
    <3>6. \A w \in 1..done + 1 :
            (expected[ExpectedBase(k) + w] = actual[ActualBase(k) + w])'
      BY <2>1, <3>5 DEF ActualBase, ExpectedBase
    <3> QED
      BY <2>2, <3>1, <3>2, <3>4, <3>6, Zenon DEF AtByte
  <2> QED
    BY <2>6, <2>7, <2>8, <2>9, <2>10 DEF ArraysInv
<1> QED
  BY <1>5, <1>7, <1>8

(* An element of which no byte is left was the same.                       *)
LEMMA MemoryElementEndsStep == ArraysInv /\ A!MemoryElementEnds => ArraysInv'
<1> SUFFICES ASSUME ArraysInv, A!MemoryElementEnds PROVE ArraysInv'
  OBVIOUS
<1>0. PICK k, done : k = call.num_elements - elements - 1
                     /\ done = call.length - bytes
  OBVIOUS
<1>1. /\ pc = "byte" /\ bytes = 0 /\ pc' = "element"
      /\ ptr_exp' = (IF call.flags = "ARRAY_TO_VAL" THEN 0 ELSE ptr_exp)
      /\ call' = call /\ expected' = expected /\ actual' = actual
      /\ ptr_act' = ptr_act /\ elements' = elements /\ bytes' = bytes
      /\ report' = report
  BY DEF A!MemoryElementEnds
<1>2. /\ Comparing /\ call.fn = "EqualMemory" /\ k \in A!Indices
      /\ ptr_act = ActualBase(k) + done /\ ptr_exp = ExpectedBase(k) + done
      /\ AllSameBefore(k)
      /\ \A w \in 1..done :
           expected[ExpectedBase(k) + w] = actual[ActualBase(k) + w]
  BY <1>0, <1>1, ByteFacts
<1>3. /\ ArrayCall /\ elements \in 0..call.num_elements
      /\ call.num_elements \in Nat /\ call.length \in Nat
      /\ call.pointers = "distinct" /\ report = A!Nothing
      /\ call.num_elements > 0 /\ call.length > 0
      /\ ActualBase(k) \in Nat /\ ExpectedBase(k) \in Nat
  BY <1>0, <1>1, ByteFacts
<1>4. done = call.length
  BY <1>0, <1>1, <1>3
<1>5. (call.num_elements - elements)' = k + 1 /\ k \in Nat
  BY <1>0, <1>1, <1>2, <1>3 DEF A!Indices
<1>6. /\ ActualBase(k) + call.length <= Len(actual)
      /\ ExpectedBase(k) + call.length <= Len(expected)
      /\ Len(actual) \in Nat /\ Len(expected) \in Nat
      /\ ActualBase(k + 1) = ActualBase(k) + call.length
      /\ ExpectedBase(k + 1) = IF call.flags = "ARRAY_TO_VAL" THEN 0
                               ELSE ExpectedBase(k) + call.length
  BY <1>2, <1>3, BasesFit
<1>7. ptr_act' = ActualBase(k + 1)
  BY <1>1, <1>2, <1>4, <1>6
<1>8. ptr_exp' = ExpectedBase(k + 1)
  BY <1>1, <1>2, <1>4, <1>6
<1>9. ArrayCall'
  BY <1>1 DEF ArraysInv, ArrayCall
<1>10. A!TypeOK'
  <2>1. ptr_act' \in 0..Len(actual) /\ ptr_exp' \in 0..Len(expected)
    BY <1>3, <1>6, <1>7, <1>8
  <2> QED
    BY <2>1, <1>1 DEF ArraysInv, A!TypeOK
<1>11. Begun' /\ AtByte' /\ A!VerdictCorrect'
  BY <1>1 DEF Begun, AtByte, A!VerdictCorrect
<1>12. A!FailureLocated'
  BY <1>1, <1>3 DEF A!FailureLocated, A!Nothing
<1>13. AtElement'
  <2>1. Comparing'
    BY <1>1, <1>2 DEF Comparing, A!Nothing
  <2>2. ptr_act' = ActualBase(k + 1)' /\ ptr_exp' = ExpectedBase(k + 1)'
    BY <1>1, <1>7, <1>8 DEF ActualBase, ExpectedBase
  <2>3. A!Same(k)
    <3>1. SameBytes(k)
      BY <1>2, <1>4 DEF SameBytes
    <3> QED
      BY <1>2, <1>3, <3>1, SameMeans
  <2>4. AllSameBefore(k + 1)'
    <3>1. ASSUME NEW w \in 0..(k + 1) - 1 PROVE A!Same(w)
      BY <1>2, <1>5, <2>3 DEF AllSameBefore
    <3>2. \A w : A!Same(w)' <=> A!Same(w)
      BY <1>1, SameKept
    <3> QED
      BY <3>1, <3>2 DEF AllSameBefore
  <2> QED
    BY <1>5, <2>1, <2>2, <2>4, Zenon DEF AtElement
<1> QED
  BY <1>9, <1>10, <1>11, <1>12, <1>13 DEF ArraysInv

(* The call passes when every element was the same.                        *)
LEMMA ReturnStep == ArraysInv /\ A!Return => ArraysInv'
<1> SUFFICES ASSUME ArraysInv, A!Return PROVE ArraysInv'
  OBVIOUS
<1>1. pc = "element" /\ elements = 0 /\ A!Finish(A!Nothing)
  BY DEF A!Return
<1>2. /\ report' = A!Nothing /\ call' = call /\ expected' = expected
      /\ actual' = actual
  BY <1>1 DEF A!Finish
<1>3. report' = A!Nothing'
  BY <1>2 DEF A!Nothing
<1>4. Comparing /\ AllSameBefore(call.num_elements - elements)
  BY <1>1 DEF ArraysInv, AtElement
<1>5. call.num_elements - elements = call.num_elements
  BY <1>1 DEF ArraysInv, ArrayCall
<1>6. \A w \in A!Indices : A!Same(w)
  BY <1>4, <1>5 DEF AllSameBefore, A!Indices
<1>7. (\A w \in A!Indices : A!Same(w))'
  <2>1. \A w : A!Same(w)' <=> A!Same(w)
    BY <1>2, SameKept
  <2>2. A!Indices' = A!Indices
    BY <1>2 DEF A!Indices
  <2> QED
    BY <1>6, <2>1, <2>2
<1>8. A!VerdictCorrect'
  <2>1. call'.num_elements > 0 /\ call'.length > 0
        /\ call'.pointers = "distinct"
    BY <1>2, <1>4 DEF Comparing
  <2> QED
    BY <1>3, <1>7, <2>1, Zenon DEF A!VerdictCorrect
<1>9. A!FailureLocated'
  BY <1>3 DEF A!FailureLocated, A!Nothing
<1> QED
  BY <1>1, <1>8, <1>9, ArrayEnds

(* Each step of an assertion on arrays keeps the invariant.                *)
LEMMA ArraysStep == ArraysInv /\ A!Next => ArraysInv'
BY EnterStep, CompareElementStep, MemoryElementStep, MemoryByteStep,
   MemoryElementEndsStep, ReturnStep DEF A!Next

(* A delta that is cast is an unsigned number.                             *)
LEMMA DeltaFact ==
  ASSUME NEW t \in Ty!Types, NEW d \in Nat
  PROVE  A!DeltaCast(t, d) \in 0..2 ^ TopBits - 1
<1>1. TopBits \in Nat /\ TopBits > 0 /\ d \in Int
  BY WidthOf
<1>2. CASE t \in Ty!Whole
  <2>1. A!DeltaCast(t, d) = Ty!Unsigned(TopBits, d)
    <3>1. A!DeltaCast(t, d) = A!UNITY_UINT(d)
      <4>1. t # "UINT8"
        BY <1>2 DEF Ty!Whole
      <4> QED
        BY <1>2, <4>1, ArrayTypes DEF A!DeltaCast
    <3> QED
      BY <3>1, ArrayTypes DEF Ty!UNITY_UINT, TopBits
  <2> QED
    BY <1>1, <2>1, UnsignedFact
<1>3. CASE t \notin Ty!Whole
  <2>1. PICK size \in {1, 2, 4, 8} :
          A!DeltaCast(t, d) = Ty!Unsigned(Ty!Bits(size), d)
    <3>1. CASE t = "UINT8"
      <4>1. A!DeltaCast(t, d) = A!Unsigned(A!Bits(2), d)
        BY <1>3, <3>1, ArrayTypes DEF A!DeltaCast
      <4> QED
        BY <4>1, ArrayTypes
    <3>2. CASE t # "UINT8"
      <4>1. A!DeltaCast(t, d) = A!Unsigned(A!Bits(A!Style(t).size), d)
        BY <1>3, <3>2, ArrayTypes DEF A!DeltaCast
      <4>2. A!DeltaCast(t, d) = Ty!Unsigned(Ty!Bits(Ty!Style(t).size), d)
        BY <4>1, ArrayTypes
      <4> QED
        BY <4>2, StyleFact
    <3> QED
      BY <3>1, <3>2
  <2>2. /\ Ty!Bits(size) \in Nat /\ Ty!Bits(size) > 0
        /\ Ty!Bits(size) <= TopBits
    BY BytePositive DEF Ty!Bits, TopBits
  <2>3. 2 ^ Ty!Bits(size) <= 2 ^ TopBits /\ 2 ^ TopBits \in Nat
        /\ 2 ^ Ty!Bits(size) \in Nat
    BY <1>1, <2>2, TwoPowOrder, TwoPowNat
  <2>4. A!DeltaCast(t, d) \in 0..2 ^ Ty!Bits(size) - 1
    BY <1>1, <2>1, <2>2, UnsignedFact
  <2> QED
    BY <2>3, <2>4
<1> QED
  BY <1>2, <1>3

(* The arrays of a call are bytes, as many as it takes.                    *)
LEMMA BlockFact ==
  ASSUME NEW m \in 0..MaxElements \cup {1},
         NEW size \in {1, 2, 4, 8} \cup Lengths, NEW block \in Arrays(m, size)
  PROVE  /\ size \in Nat /\ m \in Nat
         /\ block \in [1..m * size -> Byte] /\ block \in Seq(Byte)
<1>1. A!BlocksAssumption /\ MaxElements \in Nat
  BY ConstantsAssumption
<1>2. Lengths \subseteq Nat
  BY <1>1 DEF A!BlocksAssumption
<1>3. Arrays(m, size) \subseteq [1..m * size -> 0..2 ^ ByteBits - 1]
  BY <1>1 DEF A!BlocksAssumption
<1>4. size \in Nat /\ m \in Nat
  BY <1>1, <1>2
<1>5. block \in [1..m * size -> Byte]
  BY <1>3 DEF Byte
<1>6. m * size \in Nat
  BY <1>4
<1>7. block \in Seq(Byte)
  BY <1>5, <1>6, SeqDef
<1> QED
  BY <1>4, <1>5, <1>7

(* A call of a family begins with the invariant.                           *)
LEMMA StartFact ==
  ASSUME NEW c, NEW size \in {1, 2, 4, 8} \cup Lengths, A!Start(c, size),
         c.fn \in {"EqualIntArray", "NumbersArrayWithin", "EqualMemory"},
         c.num_elements \in 0..MaxElements, c.length = size,
         c.flags \in {"ARRAY_TO_ARRAY", "ARRAY_TO_VAL"},
         c.fn # "EqualMemory" =>
           c.type \in Ty!Types /\ c.length = Ty!Style(c.type).size,
         c.fn = "NumbersArrayWithin" => c.delta \in 0..2 ^ TopBits - 1
  PROVE  ArraysInv
<1> DEFINE m == IF c.flags = "ARRAY_TO_ARRAY" THEN c.num_elements ELSE 1
<1>1. /\ call = c
      /\ actual \in Arrays(c.num_elements, size)
      /\ expected \in (IF c.pointers = "same" THEN {actual}
                       ELSE Arrays(m, size))
      /\ ptr_exp = 0 /\ ptr_act = 0 /\ elements = c.num_elements /\ bytes = 0
      /\ pc = "call" /\ report = A!Nothing
  BY DEF A!Start
<1>2. /\ m \in 0..MaxElements \cup {1}
      /\ c.num_elements \in 0..MaxElements \cup {1}
  OBVIOUS
<1>3. m = IF c.flags = "ARRAY_TO_VAL" THEN 1 ELSE c.num_elements
  OBVIOUS
<1> HIDE DEF m
<1>4. /\ size \in Nat /\ c.num_elements \in Nat
      /\ actual \in [1..c.num_elements * size -> Byte] /\ actual \in Seq(Byte)
  BY <1>1, <1>2, BlockFact
<1>5. c.pointers # "same" =>
        expected \in [1..m * size -> Byte] /\ expected \in Seq(Byte)
  BY <1>1, <1>2, BlockFact
<1>6. expected \in Seq(Byte)
  BY <1>1, <1>4, <1>5
<1>7. ArrayCall
  <2>1. call.pointers = "distinct" => call.pointers # "same"
    OBVIOUS
  <2> QED
    BY <1>1, <1>3, <1>4, <1>5, <1>6, <2>1 DEF ArrayCall
<1>8. A!TypeOK
  <2>1. Len(expected) \in Nat /\ Len(actual) \in Nat
    BY <1>4, <1>6, LenProperties
  <2> QED
    BY <1>1, <1>4, <2>1 DEF A!TypeOK
<1>9. Begun /\ AtElement /\ AtByte
  BY <1>1 DEF Begun, AtElement, AtByte
<1>10. A!VerdictCorrect /\ A!FailureLocated
  BY <1>1, NothingFails DEF A!VerdictCorrect
<1> QED
  BY <1>7, <1>8, <1>9, <1>10 DEF ArraysInv

(* They all do.                                                            *)
LEMMA ArraysInit == A!Init => ArraysInv
<1> SUFFICES ASSUME A!Init PROVE ArraysInv
  OBVIOUS
<1>1. PICK m \in 0..MaxElements, flags \in A!Flags :
        \/ \E t \in A!Types, p \in A!PointersOf("EqualIntArray", flags) :
             A!Start([fn |-> "EqualIntArray", type |-> t, num_elements |-> m,
                      length |-> A!Style(t).size, flags |-> flags,
                      pointers |-> p], A!Style(t).size)
        \/ \E t \in A!Types, d \in ArrayDeltas,
              p \in A!PointersOf("NumbersArrayWithin", flags) :
             /\ flags = "ARRAY_TO_ARRAY"
             /\ A!Start([fn |-> "NumbersArrayWithin", type |-> t,
                         num_elements |-> m, length |-> A!Style(t).size,
                         flags |-> flags, pointers |-> p,
                         delta |-> A!DeltaCast(t, d)], A!Style(t).size)
        \/ \E l \in Lengths, p \in A!PointersOf("EqualMemory", flags) :
             A!Start([fn |-> "EqualMemory", num_elements |-> m, length |-> l,
                      flags |-> flags, pointers |-> p], l)
  BY Zenon DEF A!Init
<1>2. flags \in {"ARRAY_TO_ARRAY", "ARRAY_TO_VAL"}
  BY DEF A!Flags
<1>3. ASSUME NEW t \in A!Types, NEW p,
             A!Start([fn |-> "EqualIntArray", type |-> t, num_elements |-> m,
                      length |-> A!Style(t).size, flags |-> flags,
                      pointers |-> p], A!Style(t).size)
      PROVE  ArraysInv
  <2> DEFINE size == A!Style(t).size
             c == [fn |-> "EqualIntArray", type |-> t, num_elements |-> m,
                   length |-> size, flags |-> flags, pointers |-> p]
  <2>1. t \in Ty!Types /\ size = Ty!Style(t).size /\ size \in {1, 2, 4, 8}
    BY ArrayTypes, StyleFact
  <2>2. A!Start(c, size)
    BY <1>3
  <2> HIDE DEF size
  <2>3. /\ c.fn = "EqualIntArray" /\ c.num_elements = m /\ c.length = size
        /\ c.flags = flags /\ c.type = t
    OBVIOUS
  <2> HIDE DEF c
  <2> QED
    BY <1>2, <2>1, <2>2, <2>3, StartFact
<1>4. ASSUME NEW t \in A!Types, NEW p, NEW d \in ArrayDeltas,
             A!Start([fn |-> "NumbersArrayWithin", type |-> t,
                      num_elements |-> m, length |-> A!Style(t).size,
                      flags |-> flags, pointers |-> p,
                      delta |-> A!DeltaCast(t, d)], A!Style(t).size)
      PROVE  ArraysInv
  <2> DEFINE size == A!Style(t).size
             delta == A!DeltaCast(t, d)
             c == [fn |-> "NumbersArrayWithin", type |-> t, num_elements |-> m,
                   length |-> size, flags |-> flags, pointers |-> p,
                   delta |-> delta]
  <2>1. t \in Ty!Types /\ size = Ty!Style(t).size /\ size \in {1, 2, 4, 8}
    BY ArrayTypes, StyleFact
  <2>2. A!Start(c, size)
    BY <1>4
  <2>3. delta \in 0..2 ^ TopBits - 1
    <3>1. d \in Nat
      BY ConstantsAssumption DEF A!BlocksAssumption
    <3> QED
      BY <2>1, <3>1, DeltaFact
  <2> HIDE DEF size, delta
  <2>4. /\ c.fn = "NumbersArrayWithin" /\ c.num_elements = m
        /\ c.length = size /\ c.flags = flags /\ c.type = t /\ c.delta = delta
    OBVIOUS
  <2> HIDE DEF c
  <2> QED
    BY <1>2, <2>1, <2>2, <2>3, <2>4, StartFact
<1>5. ASSUME NEW l \in Lengths, NEW p,
             A!Start([fn |-> "EqualMemory", num_elements |-> m, length |-> l,
                      flags |-> flags, pointers |-> p], l)
      PROVE  ArraysInv
  <2> DEFINE c == [fn |-> "EqualMemory", num_elements |-> m, length |-> l,
                   flags |-> flags, pointers |-> p]
  <2>1. A!Start(c, l)
    BY <1>5
  <2>2. /\ c.fn = "EqualMemory" /\ c.num_elements = m /\ c.length = l
        /\ c.flags = flags
    OBVIOUS
  <2> HIDE DEF c
  <2> QED
    BY <1>2, <2>1, <2>2, StartFact
<1> QED
  BY <1>1, <1>3, <1>4, <1>5

-----------------------------------------------------------------------------
(* Assertions on strings                                                   *)

Limited == call.fn = "EqualStringLen"

(* A string that can be compared: it ends, or is as long as it has to be.  *)
Readable(s) == /\ s \in Seq(S!CharType)
               /\ S!Terminated(s) \/ (Limited /\ Len(s) >= call.length)

(* Where what counts of a string ends.                                     *)
PrefixOf(s, m) == /\ m \in 0..Len(s)
                  /\ \A k \in 1..m : s[k] # 0
                  /\ Limited => m <= call.length
Ends(s, m) == /\ PrefixOf(s, m)
              /\ \/ m < Len(s) /\ s[m + 1] = 0
                 \/ Limited /\ m = call.length

StringArguments ==
  /\ call.num_elements \in Nat /\ call.length \in Nat
  /\ call.flags \in {"ARRAY_TO_ARRAY", "ARRAY_TO_VAL"}
  /\ call.pointers \in {"distinct", "same", "both_NULL", "expected_NULL",
                        "actual_NULL"}
  /\ \A k \in 1..call.num_elements :
        Readable(S!Expected(k)) /\ Readable(actual[k])

EqualBefore == \A k \in 1..j : S!Equal(S!Expected(k), actual[k])

(* The pair compared is one of arrays that are both there.                 *)
AtPair == /\ call.pointers = "distinct" /\ j \in 0..call.num_elements - 1
          /\ EqualBefore

NothingPrinted == line = <<>> /\ text = <<>>

(* What has been printed of the first m characters of s.                   *)
Printing(s, m, word) ==
  \E after \in [0..m -> Seq(32..126)] :
    /\ after[0] = <<>> /\ after[m] = word
    /\ \A k \in 1..m : after[k] = after[k - 1] \o S!UnityPrintChar(s[k])

PrintedAs(s, word) ==
  IF s = S!NULL THEN word = <<78, 85, 76, 76>>
  ELSE \E m \in Nat, w \in Seq(32..126) :
         /\ Ends(s, m) /\ Printing(s, m, w)
         /\ word = S!Quote \o w \o S!Quote

StringsInv ==
  /\ StringArguments
  /\ pc \in {"call", "pair", "char", "print", "returned"}
  /\ i \in Nat /\ j \in 0..call.num_elements
  /\ pc = "call" => j = 0 /\ CurrentTestFailed = 0 /\ NothingPrinted
  /\ pc \in {"pair", "char"} =>
       AtPair /\ CurrentTestFailed = 0 /\ NothingPrinted
  /\ pc = "char" =>
       /\ S!BothThere
       /\ PrefixOf(S!expd, i) /\ PrefixOf(S!act, i)
       /\ \A k \in 1..i : S!expd[k] = S!act[k]
  /\ pc = "print" =>
       /\ AtPair /\ CurrentTestFailed = 1 /\ ~ S!Equal(S!expd, S!act)
       /\ text = <<>> \/ \E w \in Seq(32..126) :
                            text = <<w>> /\ PrintedAs(S!expd, w)
       /\ IF S!InPrint = S!NULL THEN line = <<>>
          ELSE PrefixOf(S!InPrint, i) /\ Printing(S!InPrint, i, line)
  /\ pc = "returned" =>
       \/ /\ text = <<>> /\ CurrentTestFailed \in {0, 1}
          /\ CurrentTestFailed = 0 <=>
               /\ call.num_elements > 0
               /\ \/ S!EqualPointers
                  \/ call.pointers = "distinct" /\ S!AllEqual
          /\ line = <<>>
       \/ /\ AtPair /\ CurrentTestFailed = 1 /\ ~ S!Equal(S!expd, S!act)
          /\ line = <<>>
          /\ \E w1, w2 \in Seq(32..126) :
               /\ text = <<w1, w2>>
               /\ PrintedAs(S!expd, w1) /\ PrintedAs(S!act, w2)

-----------------------------------------------------------------------------
(* Two characters.                                                         *)
LEMMA AppendToOne ==
  ASSUME NEW a, NEW b
  PROVE  Append(<<a>>, b) = <<a, b>>
<1>1. /\ <<a>> \in Seq({a, b}) /\ Append(<<a>>, b) \in Seq({a, b})
      /\ <<a, b>> \in Seq({a, b})
  OBVIOUS
<1>2. Len(<<a>>) = 1 /\ Len(<<a, b>>) = 2 /\ Len(Append(<<a>>, b)) = 2
  BY <1>1
<1>3. \A k \in 1..2 : Append(<<a>>, b)[k] = <<a, b>>[k]
  <2>1. Append(<<a>>, b)[1] = a /\ Append(<<a>>, b)[2] = b
    BY <1>1, <1>2
  <2>2. <<a, b>>[1] = a /\ <<a, b>>[2] = b
    OBVIOUS
  <2>3. 1..2 = {1, 2}
    OBVIOUS
  <2> QED
    BY <2>1, <2>2, <2>3, Zenon
<1> DEFINE one == Append(<<a>>, b)
           two == <<a, b>>
<1>4. /\ one \in Seq({a, b}) /\ two \in Seq({a, b})
      /\ Len(one) = Len(two) /\ \A k \in 1..Len(one) : one[k] = two[k]
  BY <1>1, <1>2, <1>3
<1> HIDE DEF one, two
<1>5. one = two
  BY <1>4, SeqEqual
<1> QED
  BY <1>5 DEF one, two

(* The length and the elements of a sequence.                              *)
LEMMA ElementFact ==
  ASSUME NEW T, NEW s \in Seq(T)
  PROVE  /\ Len(s) \in Nat /\ DOMAIN s = 1..Len(s)
         /\ \A k \in 1..Len(s) : s[k] \in T
OBVIOUS

(* A sequence after another: its length, and where their elements are.     *)
LEMMA JoinFact ==
  ASSUME NEW T, NEW u \in Seq(T), NEW w \in Seq(T)
  PROVE  /\ u \o w \in Seq(T) /\ Len(u \o w) = Len(u) + Len(w)
         /\ \A q \in 1..Len(u) : (u \o w)[q] = u[q]
         /\ \A q \in 1..Len(w) : (u \o w)[Len(u) + q] = w[q]
<1>1. Len(u) \in Nat /\ Len(w) \in Nat
  BY ElementFact
<1>2. u \o w \in Seq(T) /\ Len(u \o w) = Len(u) + Len(w)
  BY ConcatProperties
<1>3. \A q \in 1..Len(u) + Len(w) :
        (u \o w)[q] = IF q <= Len(u) THEN u[q] ELSE w[q - Len(u)]
  BY ConcatProperties
<1>4. ASSUME NEW q \in 1..Len(u) PROVE (u \o w)[q] = u[q]
  BY <1>1, <1>3
<1>5. ASSUME NEW q \in 1..Len(w) PROVE (u \o w)[Len(u) + q] = w[q]
  <2>1. /\ Len(u) + q \in 1..Len(u) + Len(w) /\ ~ (Len(u) + q <= Len(u))
        /\ (Len(u) + q) - Len(u) = q
    BY <1>1
  <2> QED
    BY <1>3, <2>1
<1> QED
  BY <1>2, <1>4, <1>5

(* A string ends in one place.                                             *)
LEMMA EndsUnique ==
  ASSUME NEW s, Len(s) \in Nat, NEW k, NEW m, Ends(s, k), Ends(s, m),
         call.length \in Nat
  PROVE  k = m
BY DEF Ends, PrefixOf

(* What counts of a string is what precedes its end.                       *)
LEMMA ContentFact ==
  ASSUME NEW s, Readable(s), s # S!NULL, call.length \in Nat
  PROVE  \E m \in 0..Len(s) : Ends(s, m) /\ S!Content(s) = SubSeq(s, 1, m)
<1> DEFINE zeros == {k \in DOMAIN s : s[k] = 0}
           stop == IF zeros = {} THEN Len(s)
                   ELSE (CHOOSE k \in zeros : \A l \in zeros : k <= l) - 1
           m == IF Limited /\ call.length < stop THEN call.length ELSE stop
<1>1. Len(s) \in Nat /\ DOMAIN s = 1..Len(s)
  BY DEF Readable
<1>2. /\ stop \in 0..Len(s) /\ \A k \in 1..stop : s[k] # 0
      /\ stop < Len(s) => s[stop + 1] = 0
      /\ zeros # {} => stop < Len(s)
  <2>1. CASE zeros = {}
    BY <1>1, <2>1
  <2>2. CASE zeros # {}
    <3>1. zeros \in SUBSET Nat
      BY <1>1
    <3>2. PICK k \in zeros : \A l \in zeros : k <= l
      BY <2>2, <3>1, LeastNat
    <3> DEFINE first == CHOOSE x \in zeros : \A l \in zeros : x <= l
    <3>3. first \in zeros /\ \A l \in zeros : first <= l
      BY <3>2
    <3>4. stop = first - 1
      BY <2>2
    <3> HIDE DEF first, stop
    <3> QED
      BY <1>1, <2>2, <3>3, <3>4
  <2> QED
    BY <2>1, <2>2
<1>3. S!Content(s) = SubSeq(s, 1, m)
  BY DEF S!Content, Limited
<1>4. zeros = {} => Limited /\ call.length <= Len(s)
  <2>1. zeros = {} /\ S!Terminated(s) => s = S!NULL
    BY DEF S!Terminated
  <2> QED
    BY <1>1, <2>1 DEF Readable
<1> HIDE DEF zeros, stop
<1>5. m \in 0..Len(s) /\ Ends(s, m)
  BY <1>1, <1>2, <1>4 DEF Ends, PrefixOf
<1> QED
  BY <1>3, <1>5

(* Whether strings are equal, told from where they end.                    *)
LEMMA EqualFact ==
  ASSUME NEW e, NEW a, Readable(e), Readable(a), call.length \in Nat
  PROVE  /\ e = S!NULL \/ a = S!NULL => (S!Equal(e, a) <=> e = a)
         /\ e # S!NULL /\ a # S!NULL =>
              \E k \in 0..Len(e), m \in 0..Len(a) :
                /\ Ends(e, k) /\ Ends(a, m)
                /\ S!Equal(e, a) <=> k = m /\ \A x \in 1..k : e[x] = a[x]
<1>1. e = S!NULL \/ a = S!NULL => (S!Equal(e, a) <=> e = a)
  BY DEF S!Equal
<1>2. ASSUME e # S!NULL, a # S!NULL
      PROVE  \E k \in 0..Len(e), m \in 0..Len(a) :
                /\ Ends(e, k) /\ Ends(a, m)
                /\ S!Equal(e, a) <=> k = m /\ \A x \in 1..k : e[x] = a[x]
  <2>1. PICK k \in 0..Len(e) : Ends(e, k) /\ S!Content(e) = SubSeq(e, 1, k)
    BY <1>2, ContentFact
  <2>2. PICK m \in 0..Len(a) : Ends(a, m) /\ S!Content(a) = SubSeq(a, 1, m)
    BY <1>2, ContentFact
  <2>3. S!Equal(e, a) <=> SubSeq(e, 1, k) = SubSeq(a, 1, m)
    BY <1>2, <2>1, <2>2 DEF S!Equal
  <2>4. /\ Len(e) \in Nat /\ Len(a) \in Nat
        /\ SubSeq(e, 1, k) = [x \in 1..k |-> e[x]]
        /\ SubSeq(a, 1, m) = [x \in 1..m |-> a[x]]
    BY DEF Readable
  <2>5. SubSeq(e, 1, k) = SubSeq(a, 1, m)
          <=> k = m /\ \A x \in 1..k : e[x] = a[x]
    <3>1. ASSUME [x \in 1..k |-> e[x]] = [x \in 1..m |-> a[x]]
          PROVE  k = m /\ \A x \in 1..k : e[x] = a[x]
      <4>1. 1..k = 1..m
        BY <3>1
      <4>2. k = m
        BY <4>1
      <4> QED
        BY <3>1, <4>1, <4>2
    <3>2. ASSUME k = m, \A x \in 1..k : e[x] = a[x]
          PROVE  [x \in 1..k |-> e[x]] = [x \in 1..m |-> a[x]]
      BY <3>2
    <3> QED
      BY <3>1, <3>2, <2>4
  <2> QED
    BY <2>1, <2>2, <2>3, <2>5
<1> QED
  BY <1>1, <1>2

(* The strings of the pair that is compared.                               *)
LEMMA PairFact ==
  ASSUME StringArguments, j \in 0..call.num_elements - 1
  PROVE  /\ S!expd = S!Expected(j + 1) /\ S!act = actual[j + 1]
         /\ Readable(S!expd) /\ Readable(S!act)
<1>1. S!expd = S!Expected(j + 1) /\ S!act = actual[j + 1]
  BY DEF S!expd, S!act, S!Expected
<1>2. j + 1 \in 1..call.num_elements
  BY DEF StringArguments
<1> QED
  BY <1>1, <1>2 DEF StringArguments

(* A prefix that neither ends nor is as long as it may be goes on.         *)
LEMMA PrefixGoesOn ==
  ASSUME NEW s, Readable(s), s # S!NULL, call.length \in Nat,
         NEW m, PrefixOf(s, m), ~ (Limited /\ m >= call.length)
  PROVE  /\ m < Len(s) /\ s[m + 1] \in S!CharType
         /\ s[m + 1] # 0 => PrefixOf(s, m + 1)
<1>1. Len(s) \in Nat /\ DOMAIN s = 1..Len(s)
      /\ \A k \in 1..Len(s) : s[k] \in S!CharType
  BY DEF Readable
<1>2. m < Len(s)
  <2>1. m \in 0..Len(s)
    BY DEF PrefixOf
  <2>2. ASSUME m = Len(s) PROVE FALSE
    <3>1. ~ S!Terminated(s)
      BY <1>1, <2>2 DEF S!Terminated, PrefixOf
    <3> QED
      BY <1>1, <2>2, <3>1 DEF Readable
  <2>3. Len(s) \in Nat
    BY <1>1
  <2> QED
    BY <2>1, <2>2, <2>3
<1> QED
  BY <1>1, <1>2 DEF PrefixOf

(* No character is read behind the end of a string.                        *)
LEMMA StringBoundsProved == StringsInv => S!InBounds
<1> SUFFICES ASSUME StringsInv PROVE S!InBounds
  OBVIOUS
<1>1. /\ call.length \in Nat
      /\ S!LengthReached <=> Limited /\ i >= call.length
  BY DEF S!LengthReached, Limited, StringsInv, StringArguments
<1>2. ASSUME pc = "char", ~ S!LengthReached
      PROVE  i < Len(S!expd) /\ i < Len(S!act)
  BY <1>1, <1>2, PairFact, PrefixGoesOn DEF StringsInv, AtPair, S!BothThere
<1>3. ASSUME pc = "print", S!InPrint # S!NULL
      PROVE  i < Len(S!InPrint) \/ S!ReadsPastEnd
  <2>1. Readable(S!InPrint) /\ PrefixOf(S!InPrint, i)
    BY <1>3, PairFact DEF StringsInv, AtPair, S!InPrint
  <2>2. CASE ~ S!LengthReached
    BY <1>1, <1>3, <2>1, <2>2, PrefixGoesOn
  <2>3. CASE S!LengthReached
    <3>1. Limited /\ i = call.length /\ i \in 0..Len(S!InPrint)
      BY <1>1, <2>1, <2>3 DEF PrefixOf, StringsInv
    <3>2. ASSUME i = Len(S!InPrint) PROVE ~ S!Terminated(S!InPrint)
      <4>1. DOMAIN S!InPrint = 1..Len(S!InPrint)
        BY <2>1 DEF Readable
      <4> QED
        BY <1>3, <2>1, <3>2, <4>1 DEF S!Terminated, PrefixOf
    <3>3. Len(S!InPrint) \in Nat
      BY <2>1 DEF Readable
    <3> QED
      BY <3>1, <3>2, <3>3 DEF S!ReadsPastEnd, Limited
  <2> QED
    BY <2>2, <2>3
<1> QED
  BY <1>2, <1>3 DEF S!InBounds

-----------------------------------------------------------------------------
(* Each call begins with the invariant.                                    *)
LEMMA StringsInit == S!Init => StringsInv
<1> SUFFICES ASSUME S!Init PROVE StringsInv
  OBVIOUS
<1>0. /\ i = 0 /\ j = 0 /\ CurrentTestFailed = 0 /\ NothingPrinted
  BY DEF S!Init, NothingPrinted
<1>1. /\ Strings \subseteq Seq(S!CharType) /\ ArrayStrings \subseteq Strings
      /\ \A s \in ArrayStrings : S!Terminated(s)
      /\ 0..MaxElements \subseteq Nat /\ 0..MaxLength \subseteq Nat
  BY ConstantsAssumption DEF S!StringsAssumption
<1>2. CASE S!Single
  <2>1. PICK e \in Strings, a \in Strings,
             fn \in {"EqualString", "EqualStringLen"},
             length \in 0..MaxLength :
          /\ IF fn = "EqualString"
             THEN length = 0 /\ S!Terminated(e) /\ S!Terminated(a)
             ELSE \A s \in {e, a} : S!Terminated(s) \/ Len(s) >= length
          /\ call = [fn |-> fn, length |-> length, num_elements |-> 1,
                     flags |-> "ARRAY_TO_ARRAY", pointers |-> "distinct"]
          /\ expected = <<e>> /\ actual = <<a>>
          /\ pc = "pair"
    BY <1>2 DEF S!Single, S!One
  <2>2. /\ call.num_elements = 1 /\ call.length = length /\ call.fn = fn
        /\ call.flags = "ARRAY_TO_ARRAY" /\ call.pointers = "distinct"
    BY <2>1
  <2>3. Readable(e) /\ Readable(a)
    BY <1>1, <2>1, <2>2 DEF Readable, Limited
  <2>4. StringArguments
    <3>1. S!Expected(1) = e /\ actual[1] = a
      BY <2>1, <2>2 DEF S!Expected
    <3> QED
      BY <1>1, <2>2, <2>3, <3>1 DEF StringArguments
  <2>5. AtPair
    BY <1>0, <2>2 DEF AtPair, EqualBefore
  <2> QED
    BY <1>0, <2>1, <2>4, <2>5 DEF StringsInv
<1>3. CASE S!Array
  <2>1. PICK num \in 0..MaxElements,
             flags \in {"ARRAY_TO_ARRAY", "ARRAY_TO_VAL"},
             p \in {"distinct", "same", "both_NULL", "expected_NULL",
                    "actual_NULL"} :
          /\ call = [fn |-> "EqualStringArray", length |-> 0,
                     num_elements |-> num, flags |-> flags, pointers |-> p]
          /\ actual \in [1..num -> ArrayStrings]
          /\ IF flags = "ARRAY_TO_VAL"
             THEN expected \in {<<s>> : s \in ArrayStrings}
             ELSE expected \in [1..num -> ArrayStrings]
          /\ pc = "call"
    BY <1>3 DEF S!Array, S!One
  <2>2. /\ call.num_elements = num /\ call.length = 0
        /\ call.flags = flags /\ call.pointers = p
    BY <2>1
  <2>3. ASSUME NEW k \in 1..num
        PROVE  S!Expected(k) \in ArrayStrings /\ actual[k] \in ArrayStrings
    <3>1. CASE flags = "ARRAY_TO_VAL"
      BY <2>1, <2>2, <3>1 DEF S!Expected
    <3>2. CASE flags # "ARRAY_TO_VAL"
      BY <2>1, <2>2, <3>2 DEF S!Expected
    <3> QED
      BY <3>1, <3>2
  <2>4. \A s \in ArrayStrings : Readable(s)
    BY <1>1 DEF Readable
  <2>5. StringArguments
    BY <1>1, <2>1, <2>2, <2>3, <2>4 DEF StringArguments
  <2> QED
    BY <1>0, <2>1, <2>5 DEF StringsInv
<1> QED
  BY <1>2, <1>3 DEF S!Init

(* What depends on the arguments alone is the same after a step.           *)
LEMMA StringArgumentsKept ==
  ASSUME UNCHANGED <<call, expected, actual>>
  PROVE  /\ StringArguments' <=> StringArguments
         /\ Limited' <=> Limited
         /\ S!EqualPointers' <=> S!EqualPointers
         /\ S!AllEqual' <=> S!AllEqual
         /\ \A k : S!Expected(k)' = S!Expected(k)
         /\ \A s : S!Content(s)' = S!Content(s)
         /\ \A e, a : S!Equal(e, a)' <=> S!Equal(e, a)
         /\ \A s, m : PrefixOf(s, m)' <=> PrefixOf(s, m)
         /\ \A s, m : Ends(s, m)' <=> Ends(s, m)
         /\ \A s, w : PrintedAs(s, w)' <=> PrintedAs(s, w)
<1>1. \A k : S!Expected(k)' = S!Expected(k)
  BY DEF S!Expected
<1>2. \A s : S!Content(s)' = S!Content(s)
  BY DEF S!Content
<1>3. \A e, a : S!Equal(e, a)' <=> S!Equal(e, a)
  BY <1>2 DEF S!Equal
<1>4. S!AllEqual' <=> S!AllEqual
  BY <1>1, <1>3 DEF S!AllEqual, S!Positions
<1>5. Limited' <=> Limited
  BY DEF Limited
<1>6. \A s, m : PrefixOf(s, m)' <=> PrefixOf(s, m)
  BY <1>5 DEF PrefixOf
<1>7. \A s, m : Ends(s, m)' <=> Ends(s, m)
  BY <1>5, <1>6 DEF Ends
<1>8. \A s, w : PrintedAs(s, w)' <=> PrintedAs(s, w)
  BY <1>7 DEF PrintedAs
<1>9. StringArguments' <=> StringArguments
  BY <1>1, <1>5 DEF StringArguments, Readable
<1> QED
  BY <1>1, <1>2, <1>3, <1>4, <1>5, <1>6, <1>7, <1>8, <1>9 DEF S!EqualPointers

(* No step changes the arguments.                                          *)
LEMMA StringStepKeeps ==
  ASSUME S!Next
  PROVE  UNCHANGED <<call, expected, actual>>
BY DEF S!Next, S!Enter, S!ComparePair, S!CompareChar, S!PrintString,
       S!PairEqual, S!PairDiffers, S!Returned, S!arguments

(* A pair that is equal, and the last one makes a success.                 *)
LEMMA PairEqualFact ==
  ASSUME StringsInv, AtPair, CurrentTestFailed = 0, NothingPrinted,
         S!Equal(S!expd, S!act), S!PairEqual
  PROVE  StringsInv'
<1>1. UNCHANGED <<call, expected, actual, i, line, text>>
  BY DEF S!PairEqual, S!Returned, S!arguments, S!printed
<1>2. StringArguments /\ StringArguments' /\ call.num_elements \in Nat
  BY <1>1, StringArgumentsKept DEF StringsInv, StringArguments
<1>3. S!Equal(S!Expected(j + 1), actual[j + 1])
  BY <1>2, PairFact DEF AtPair
<1>4. \A k \in 1..j + 1 : S!Equal(S!Expected(k), actual[k])
  BY <1>2, <1>3 DEF AtPair, EqualBefore
<1>5. CASE j + 1 < call.num_elements
  <2>1. j' = j + 1 /\ pc' = "pair" /\ CurrentTestFailed' = 0
    BY <1>5 DEF S!PairEqual
  <2>2. EqualBefore'
    BY <1>1, <1>4, <2>1, StringArgumentsKept DEF EqualBefore
  <2>3. AtPair'
    BY <1>1, <1>2, <1>5, <2>1, <2>2 DEF AtPair
  <2>4. i' \in Nat /\ j' \in 0..call'.num_elements
    BY <1>1, <1>2, <1>5, <2>1 DEF AtPair, StringsInv
  <2> QED
    BY <1>1, <1>2, <2>1, <2>3, <2>4 DEF StringsInv, NothingPrinted
<1>6. CASE ~ (j + 1 < call.num_elements)
  <2>1. pc' = "returned" /\ CurrentTestFailed' = 0 /\ j' = j
    BY <1>6 DEF S!PairEqual, S!Returned
  <2>2. j + 1 = call.num_elements
    BY <1>2, <1>6 DEF AtPair
  <2>3. S!AllEqual /\ call.pointers = "distinct" /\ call.num_elements > 0
    BY <1>2, <1>4, <2>2 DEF S!AllEqual, S!Positions, AtPair
  <2> QED
    BY <1>1, <1>2, <2>1, <2>3, StringArgumentsKept
    DEF StringsInv, NothingPrinted
<1> QED
  BY <1>5, <1>6

(* Nothing has been printed of a string at first.                          *)
LEMMA NothingYet ==
  ASSUME NEW s
  PROVE  Printing(s, 0, <<>>)
<1> DEFINE after == [k \in 0..0 |-> <<>>]
<1>1. after \in [0..0 -> Seq(32..126)] /\ after[0] = <<>>
  OBVIOUS
<1>2. \A k \in 1..0 : after[k] = after[k - 1] \o S!UnityPrintChar(s[k])
  OBVIOUS
<1> HIDE DEF after
<1> QED
  BY <1>1, <1>2 DEF Printing

(* A pair that differs is printed.                                         *)
LEMMA PairDiffersFact ==
  ASSUME StringsInv, AtPair, NothingPrinted,
         ~ S!Equal(S!expd, S!act), S!PairDiffers
  PROVE  StringsInv'
<1>1. UNCHANGED <<call, expected, actual, j, line, text>> /\ i' = 0
      /\ pc' = "print" /\ CurrentTestFailed' = 1
  BY DEF S!PairDiffers, S!arguments, S!printed
<1>2. StringArguments' /\ call.length \in Nat /\ call.num_elements \in Nat
  BY <1>1, StringArgumentsKept DEF StringsInv, StringArguments
<1>3. AtPair' /\ S!expd' = S!expd /\ S!act' = S!act
  BY <1>1, StringArgumentsKept DEF AtPair, EqualBefore, S!expd, S!act
<1>4. ~ S!Equal(S!expd, S!act)'
  BY <1>1, <1>3, StringArgumentsKept
<1>5. S!InPrint' = S!expd
  BY <1>1, <1>3 DEF S!InPrint, NothingPrinted
<1>6. PrefixOf(S!expd, 0)
  <2>1. Len(S!expd) \in Nat
    BY PairFact DEF StringsInv, AtPair, Readable
  <2> QED
    BY <1>2, <2>1 DEF PrefixOf
<1>7. Printing(S!expd, 0, <<>>)
  BY NothingYet
<1>8. PrefixOf(S!InPrint, i)' /\ Printing(S!InPrint, i, line)'
  BY <1>1, <1>5, <1>6, <1>7, StringArgumentsKept DEF NothingPrinted, PrefixOf,
     Limited
<1> QED
  BY <1>1, <1>2, <1>3, <1>4, <1>5, <1>8 DEF StringsInv, NothingPrinted, AtPair

(* The tests before the first pair.                                        *)
LEMMA EnterFact == StringsInv /\ S!Enter => StringsInv'
<1> SUFFICES ASSUME StringsInv, S!Enter PROVE StringsInv'
  OBVIOUS
<1>1. UNCHANGED <<call, expected, actual, i, j, line, text>> /\ pc = "call"
  BY DEF S!Enter, S!Returned, S!arguments, S!printed
<1>2. /\ StringArguments /\ StringArguments' /\ call.num_elements \in Nat
      /\ j = 0 /\ CurrentTestFailed = 0 /\ line = <<>> /\ text = <<>>
  BY <1>1, StringArgumentsKept DEF StringsInv, StringArguments, NothingPrinted
<1>3. CASE /\ call.num_elements > 0 /\ call.pointers = "distinct"
  <2>1. pc' = "pair" /\ CurrentTestFailed' = CurrentTestFailed
    BY <1>3 DEF S!Enter, S!Returned, S!EqualPointers, S!OneArrayNull,
                S!arguments, S!printed
  <2>2. AtPair'
    BY <1>1, <1>2, <1>3 DEF AtPair, EqualBefore
  <2> QED
    BY <1>1, <1>2, <2>1, <2>2 DEF StringsInv, NothingPrinted
<1>4. CASE ~ (call.num_elements > 0 /\ call.pointers = "distinct")
  <2>1. /\ pc' = "returned" /\ CurrentTestFailed' \in {0, 1}
        /\ CurrentTestFailed' = 0 <=> call.num_elements > 0 /\ S!EqualPointers
    BY <1>2, <1>4 DEF S!Enter, S!Returned, S!EqualPointers, S!OneArrayNull
  <2> QED
    BY <1>1, <1>2, <1>4, <2>1, StringArgumentsKept DEF StringsInv
<1> QED
  BY <1>3, <1>4

(* A pair of characters compared is the next one.                          *)
LEMMA ComparePairFact == StringsInv /\ S!ComparePair => StringsInv'
<1> SUFFICES ASSUME StringsInv, S!ComparePair PROVE StringsInv'
  OBVIOUS
<1>1. /\ pc = "pair" /\ AtPair /\ StringArguments /\ NothingPrinted
      /\ CurrentTestFailed = 0 /\ call.length \in Nat
  BY DEF S!ComparePair, StringsInv, StringArguments
<1>2. Readable(S!expd) /\ Readable(S!act)
  BY <1>1, PairFact DEF AtPair
<1>3. CASE S!BothThere
  <2>1. /\ UNCHANGED <<call, expected, actual, j, CurrentTestFailed, line,
                       text>>
        /\ pc' = "char" /\ i' = 0
    BY <1>3 DEF S!ComparePair, S!arguments, S!printed
  <2>2. StringArguments' /\ AtPair' /\ S!expd' = S!expd /\ S!act' = S!act
    BY <1>1, <2>1, StringArgumentsKept DEF AtPair, EqualBefore, S!expd, S!act
  <2>3. PrefixOf(S!expd, 0) /\ PrefixOf(S!act, 0)
    <3>1. Len(S!expd) \in Nat /\ Len(S!act) \in Nat
      BY <1>2 DEF Readable
    <3> QED
      BY <1>1, <3>1 DEF PrefixOf
  <2>4. PrefixOf(S!expd, i)' /\ PrefixOf(S!act, i)'
    BY <2>1, <2>2, <2>3 DEF PrefixOf, Limited
  <2>5. S!BothThere'
    BY <1>3, <2>2 DEF S!BothThere, S!NULL
  <2> QED
    BY <1>1, <2>1, <2>2, <2>4, <2>5 DEF StringsInv, NothingPrinted
<1>4. CASE ~ S!BothThere
  <2>1. S!Equal(S!expd, S!act) <=> S!expd = S!act
    BY <1>1, <1>2, <1>4, EqualFact DEF S!BothThere
  <2> QED
    BY <1>1, <1>4, <2>1, PairEqualFact, PairDiffersFact DEF S!ComparePair
<1> QED
  BY <1>3, <1>4

(* The same for two single strings.                                        *)
LEMMA CompareCharFact == StringsInv /\ S!CompareChar => StringsInv'
<1> SUFFICES ASSUME StringsInv, S!CompareChar PROVE StringsInv'
  OBVIOUS
<1>1. /\ pc = "char" /\ AtPair /\ StringArguments /\ NothingPrinted
      /\ CurrentTestFailed = 0 /\ call.length \in Nat /\ S!BothThere
      /\ PrefixOf(S!expd, i) /\ PrefixOf(S!act, i) /\ i \in Nat
      /\ \A k \in 1..i : S!expd[k] = S!act[k]
  BY DEF S!CompareChar, StringsInv, StringArguments
<1>2. /\ Readable(S!expd) /\ Readable(S!act)
      /\ Len(S!expd) \in Nat /\ Len(S!act) \in Nat
      /\ S!expd # S!NULL /\ S!act # S!NULL
  BY <1>1, PairFact DEF AtPair, Readable, S!BothThere
<1>3. PICK k \in 0..Len(S!expd), m \in 0..Len(S!act) :
        /\ Ends(S!expd, k) /\ Ends(S!act, m)
        /\ S!Equal(S!expd, S!act)
              <=> k = m /\ \A x \in 1..k : S!expd[x] = S!act[x]
  BY <1>1, <1>2, EqualFact
<1>4. S!LengthReached <=> Limited /\ i >= call.length
  BY DEF S!LengthReached, Limited
<1>5. CASE S!LengthReached
  <2>1. Ends(S!expd, i) /\ Ends(S!act, i)
    BY <1>1, <1>4, <1>5 DEF Ends, PrefixOf
  <2>2. k = i /\ m = i
    BY <1>1, <1>2, <1>3, <2>1, EndsUnique
  <2>3. S!Equal(S!expd, S!act)
    BY <1>1, <1>3, <2>2
  <2> QED
    BY <1>1, <1>5, <2>3, PairEqualFact DEF S!CompareChar
<1>6. CASE ~ S!LengthReached
  <2>1. /\ i < Len(S!expd) /\ i < Len(S!act)
        /\ S!expd[i + 1] # 0 => PrefixOf(S!expd, i + 1)
        /\ S!act[i + 1] # 0 => PrefixOf(S!act, i + 1)
    BY <1>1, <1>2, <1>4, <1>6, PrefixGoesOn
  <2>2. S!Read(S!expd, i) = {S!expd[i + 1]} /\ S!Read(S!act, i) = {S!act[i + 1]}
    BY <2>1 DEF S!Read
  <2>3. CASE S!expd[i + 1] = 0 /\ S!act[i + 1] = 0
    <3>1. Ends(S!expd, i) /\ Ends(S!act, i)
      BY <1>1, <2>1, <2>3 DEF Ends
    <3>2. k = i /\ m = i
      BY <1>1, <1>2, <1>3, <3>1, EndsUnique
    <3>3. S!Equal(S!expd, S!act)
      BY <1>1, <1>3, <3>2
    <3>4. S!PairEqual
      BY <1>6, <2>2, <2>3 DEF S!CompareChar
    <3> QED
      BY <1>1, <3>3, <3>4, PairEqualFact
  <2>4. CASE S!expd[i + 1] # S!act[i + 1]
    <3>1. ~ S!Equal(S!expd, S!act)
      <4>1. SUFFICES ASSUME k = m, \A x \in 1..k : S!expd[x] = S!act[x]
                     PROVE  FALSE
        BY <1>3
      <4>2. k <= i
        BY <1>1, <1>2, <1>3, <2>4, <4>1
      <4>3. k = i
        <5>1. SUFFICES ASSUME k < i PROVE FALSE
          BY <1>1, <4>2
        <5>2. S!expd[k + 1] # 0
          BY <1>1, <1>3, <5>1 DEF PrefixOf
        <5>3. Limited /\ k = call.length
          BY <1>3, <5>2 DEF Ends
        <5> QED
          BY <1>1, <5>1, <5>3 DEF PrefixOf
      <4>4. ~ (Limited /\ k = call.length)
        BY <1>4, <1>6, <4>3, <1>1
      <4>5. S!expd[k + 1] = 0 /\ S!act[m + 1] = 0
        BY <1>3, <4>1, <4>4 DEF Ends
      <4> QED
        BY <2>4, <4>1, <4>3, <4>5
    <3>2. S!PairDiffers
      BY <1>6, <2>2, <2>4 DEF S!CompareChar
    <3> QED
      BY <1>1, <3>1, <3>2, PairDiffersFact
  <2>5. CASE S!expd[i + 1] = S!act[i + 1] /\ S!expd[i + 1] # 0
    <3>1. /\ UNCHANGED <<call, expected, actual, j, CurrentTestFailed, line,
                         text, pc>>
          /\ i' = i + 1
      BY <1>6, <2>2, <2>5 DEF S!CompareChar, S!Advanced, S!arguments, S!printed
    <3>2. StringArguments' /\ AtPair' /\ S!expd' = S!expd /\ S!act' = S!act
      BY <1>1, <3>1, StringArgumentsKept DEF AtPair, EqualBefore, S!expd, S!act
    <3>3. PrefixOf(S!expd, i)' /\ PrefixOf(S!act, i)'
      BY <2>1, <2>5, <3>1, <3>2 DEF PrefixOf, Limited
    <3>4. \A x \in 1..i' : S!expd[x] = S!act[x]
      BY <1>1, <2>5, <3>1
    <3>5. S!BothThere' /\ i' \in Nat
      BY <1>1, <3>1, <3>2 DEF S!BothThere, S!NULL
    <3> QED
      BY <1>1, <3>1, <3>2, <3>3, <3>4, <3>5 DEF StringsInv, NothingPrinted,
         AtPair
  <2> QED
    BY <2>3, <2>4, <2>5
<1> QED
  BY <1>5, <1>6

(* A character is printed as characters that fit on a line.                *)
LEMMA PrintCharFact ==
  ASSUME NEW c \in S!CharType
  PROVE  /\ S!UnityPrintChar(c) \in Seq(32..126)
         /\ S!UnityPrintChar(c) # <<>>
<1>1. CASE S!Printable(c)
  <2>1. S!UnityPrintChar(c) = <<c>> /\ c \in 32..126
    BY <1>1 DEF S!UnityPrintChar, S!Printable, S!CharType
  <2> QED
    BY <2>1
<1>2. CASE ~ S!Printable(c) /\ c = 13
  <2>1. S!UnityPrintChar(c) = <<92, 114>>
    BY <1>2 DEF S!UnityPrintChar, S!Backslash
  <2> QED
    BY <2>1
<1>3. CASE ~ S!Printable(c) /\ c = 10
  <2>1. S!UnityPrintChar(c) = <<92, 110>>
    BY <1>3 DEF S!UnityPrintChar, S!Backslash
  <2> QED
    BY <2>1
<1>4. CASE ~ S!Printable(c) /\ c # 13 /\ c # 10
  <2>1. S!UnityPrintChar(c) = <<92, 120, S!Digit((c % 256) \div 16),
                                        S!Digit(c % 16)>>
    BY <1>4 DEF S!UnityPrintChar, S!Backslash
  <2>2. (c % 256) \div 16 \in 0..15 /\ c % 16 \in 0..15
    BY DEF S!CharType
  <2>3. \A x \in 0..15 : S!Digit(x) \in 32..126
    BY DEF S!Digit
  <2>4. PICK x \in 32..126, y \in 32..126 :
          x = S!Digit((c % 256) \div 16) /\ y = S!Digit(c % 16)
    BY <2>2, <2>3
  <2> QED
    BY <2>1, <2>4
<1> QED
  BY <1>1, <1>2, <1>3, <1>4

(* One more character is printed.                                          *)
LEMMA PrintsOnFact ==
  ASSUME NEW s, NEW m \in Nat, NEW w, Printing(s, m, w),
         s[m + 1] \in S!CharType
  PROVE  Printing(s, m + 1, w \o S!UnityPrintChar(s[m + 1]))
<1>1. PICK after \in [0..m -> Seq(32..126)] :
        /\ after[0] = <<>> /\ after[m] = w
        /\ \A k \in 1..m : after[k] = after[k - 1] \o S!UnityPrintChar(s[k])
  BY DEF Printing
<1> DEFINE v == w \o S!UnityPrintChar(s[m + 1])
           then == [k \in 0..m + 1 |-> IF k <= m THEN after[k] ELSE v]
<1>2. w \in Seq(32..126)
  BY <1>1
<1>3. v \in Seq(32..126)
  BY <1>2, PrintCharFact
<1>4. /\ \A k \in 0..m : then[k] = after[k]
      /\ then[m + 1] = v
  OBVIOUS
<1>5. then \in [0..m + 1 -> Seq(32..126)]
  BY <1>3
<1>6. ASSUME NEW k \in 1..m + 1
      PROVE  then[k] = then[k - 1] \o S!UnityPrintChar(s[k])
  <2>1. CASE k <= m
    <3>1. k \in 1..m /\ k - 1 \in 0..m /\ k \in 0..m
      BY <2>1
    <3> HIDE DEF then
    <3> QED
      BY <1>1, <1>4, <3>1
  <2>2. CASE k = m + 1
    <3>1. k - 1 = m
      BY <2>2
    <3>2. then[k - 1] = w
      BY <1>1, <1>4, <3>1
    <3> HIDE DEF then
    <3> QED
      BY <1>4, <2>2, <3>2
  <2>3. k <= m \/ k = m + 1
    OBVIOUS
  <2> HIDE DEF then
  <2> QED
    BY <2>1, <2>2, <2>3
<1> HIDE DEF then, v
<1>7. then[0] = <<>> /\ then[m + 1] = v
  BY <1>1, <1>4
<1>8. Printing(s, m + 1, v)
  BY <1>5, <1>6, <1>7 DEF Printing
<1> QED
  BY <1>8 DEF v

(* What is being printed is printable.                                     *)
LEMMA PrintingType ==
  ASSUME NEW s, NEW m \in Nat, NEW w, Printing(s, m, w)
  PROVE  w \in Seq(32..126)
BY DEF Printing

(* Having printed one string, it goes on to the other, or returns.         *)
LEMMA PrintEndsFact ==
  ASSUME StringsInv, pc = "print",
         UNCHANGED <<call, expected, actual, j, CurrentTestFailed>>,
         NEW w \in Seq(32..126), PrintedAs(S!InPrint, w), S!PrintEnds(w)
  PROVE  StringsInv'
<1>1. /\ AtPair /\ CurrentTestFailed = 1 /\ ~ S!Equal(S!expd, S!act)
      /\ text = <<>> \/ \E x \in Seq(32..126) :
                            text = <<x>> /\ PrintedAs(S!expd, x)
      /\ StringArguments /\ call.length \in Nat
  BY DEF StringsInv, StringArguments
<1>2. /\ text' = Append(text, w) /\ line' = <<>> /\ i' = 0
      /\ pc' = IF text = <<>> THEN "print" ELSE "returned"
  BY DEF S!PrintEnds
<1>3. /\ StringArguments' /\ AtPair' /\ S!expd' = S!expd /\ S!act' = S!act
      /\ CurrentTestFailed' = 1 /\ j' \in 0..call'.num_elements
  BY <1>1, StringArgumentsKept
  DEF AtPair, EqualBefore, S!expd, S!act, StringsInv
<1>4. ~ S!Equal(S!expd, S!act)'
  BY <1>1, <1>3, StringArgumentsKept
<1>5. CASE text = <<>>
  <2>1. text' = <<w>> /\ pc' = "print" /\ PrintedAs(S!expd, w)
    BY <1>2, <1>5 DEF S!InPrint
  <2>2. S!InPrint' = S!act
    BY <1>3, <2>1 DEF S!InPrint
  <2>3. \E x \in Seq(32..126) : text' = <<x>> /\ PrintedAs(S!expd, x)'
    BY <1>3, <2>1, StringArgumentsKept
  <2>4. PrefixOf(S!act, 0)
    <3>1. Len(S!act) \in Nat
      BY <1>1, PairFact DEF AtPair, Readable
    <3> QED
      BY <1>1, <3>1 DEF PrefixOf
  <2>5. PrefixOf(S!InPrint, i)' /\ Printing(S!InPrint, i, line)'
    BY <1>2, <2>2, <2>4, NothingYet DEF PrefixOf, Limited
  <2> QED
    BY <1>2, <1>3, <1>4, <2>1, <2>3, <2>5 DEF StringsInv
<1>6. CASE text # <<>>
  <2>1. PICK x \in Seq(32..126) : text = <<x>> /\ PrintedAs(S!expd, x)
    BY <1>1, <1>6
  <2>2. text' = <<x, w>> /\ pc' = "returned"
    <3>1. Append(<<x>>, w) = <<x, w>>
      BY AppendToOne
    <3> QED
      BY <1>2, <1>6, <2>1, <3>1, Zenon
  <2>3. PrintedAs(S!act, w)
    BY <1>6 DEF S!InPrint
  <2>4. \E w1, w2 \in Seq(32..126) :
           text' = <<w1, w2>> /\ PrintedAs(S!expd, w1)' /\ PrintedAs(S!act, w2)'
    BY <1>3, <2>1, <2>2, <2>3, StringArgumentsKept
  <2> QED
    BY <1>2, <1>3, <1>4, <2>2, <2>4 DEF StringsInv
<1> QED
  BY <1>5, <1>6

(* The printing of a failure begins with the strings that differ.          *)
LEMMA PrintStringFact == StringsInv /\ S!PrintString => StringsInv'
<1> SUFFICES ASSUME StringsInv, S!PrintString PROVE StringsInv'
  OBVIOUS
<1>1. pc = "print" /\ UNCHANGED <<call, expected, actual, j, CurrentTestFailed>>
  BY DEF S!PrintString, S!arguments
<1>2. /\ AtPair /\ CurrentTestFailed = 1 /\ ~ S!Equal(S!expd, S!act)
      /\ text = <<>> \/ \E x \in Seq(32..126) :
                            text = <<x>> /\ PrintedAs(S!expd, x)
      /\ StringArguments /\ call.length \in Nat /\ i \in Nat
  BY <1>1 DEF StringsInv, StringArguments
<1>3. CASE S!InPrint = S!NULL
  <2>1. S!PrintEnds(<<78, 85, 76, 76>>)
    BY <1>3 DEF S!PrintString
  <2>2. PrintedAs(S!InPrint, <<78, 85, 76, 76>>)
    BY <1>3 DEF PrintedAs
  <2>3. <<78, 85, 76, 76>> \in Seq(32..126)
    OBVIOUS
  <2> QED
    BY <1>1, <2>1, <2>2, <2>3, PrintEndsFact
<1>4. CASE S!InPrint # S!NULL
  <2>1. PICK c \in S!Read(S!InPrint, i) :
          \/ /\ c = 0 \/ S!LengthReached
             /\ S!PrintEnds(S!Quote \o line \o S!Quote)
          \/ /\ c # 0 /\ ~ S!LengthReached
             /\ line' = line \o S!UnityPrintChar(c)
             /\ i' = S!Advanced(i)
             /\ UNCHANGED <<pc, text>>
    BY <1>4 DEF S!PrintString
  <2>2. PrefixOf(S!InPrint, i) /\ Printing(S!InPrint, i, line)
    BY <1>1, <1>4 DEF StringsInv
  <2>3. Readable(S!InPrint)
    BY <1>2, PairFact DEF AtPair, S!InPrint
  <2>4. S!LengthReached <=> Limited /\ i >= call.length
    BY DEF S!LengthReached, Limited
  <2>5. ASSUME ~ S!LengthReached
        PROVE  /\ i < Len(S!InPrint) /\ c = S!InPrint[i + 1]
               /\ c \in S!CharType
               /\ c # 0 => PrefixOf(S!InPrint, i + 1)
    <3>1. /\ i < Len(S!InPrint) /\ S!InPrint[i + 1] \in S!CharType
          /\ S!InPrint[i + 1] # 0 => PrefixOf(S!InPrint, i + 1)
      BY <1>2, <1>4, <2>2, <2>3, <2>4, <2>5, PrefixGoesOn
    <3> QED
      BY <3>1 DEF S!Read
  <2>6. CASE c = 0 \/ S!LengthReached
    <3>1. Ends(S!InPrint, i)
      <4>1. CASE S!LengthReached
        BY <1>2, <2>2, <2>4, <4>1 DEF Ends, PrefixOf
      <4>2. CASE ~ S!LengthReached
        BY <2>2, <2>5, <2>6, <4>2 DEF Ends
      <4> QED
        BY <4>1, <4>2
    <3>2. line \in Seq(32..126)
      BY <1>2, <2>2, PrintingType
    <3>3. PrintedAs(S!InPrint, S!Quote \o line \o S!Quote)
      BY <1>2, <1>4, <2>2, <3>1, <3>2 DEF PrintedAs
    <3>4. S!Quote \o line \o S!Quote \in Seq(32..126)
      <4>1. S!Quote \in Seq(32..126)
        BY DEF S!Quote
      <4> QED
        BY <3>2, <4>1
    <3>5. S!PrintEnds(S!Quote \o line \o S!Quote)
      BY <2>1, <2>6
    <3> QED
      BY <1>1, <3>3, <3>4, <3>5, PrintEndsFact
  <2>7. CASE ~ (c = 0 \/ S!LengthReached)
    <3>1. /\ line' = line \o S!UnityPrintChar(c) /\ i' = i + 1
          /\ UNCHANGED <<pc, text>>
      BY <2>1, <2>7 DEF S!Advanced
    <3>2. /\ StringArguments' /\ AtPair'
          /\ S!expd' = S!expd /\ S!act' = S!act /\ S!InPrint' = S!InPrint
      BY <1>1, <1>2, <3>1, StringArgumentsKept
      DEF AtPair, EqualBefore, S!expd, S!act, S!InPrint
    <3>3. /\ ~ S!Equal(S!expd, S!act)'
          /\ text' = <<>> \/ \E x \in Seq(32..126) :
                               text' = <<x>> /\ PrintedAs(S!expd, x)'
      BY <1>1, <1>2, <3>1, <3>2, StringArgumentsKept
    <3>4. PrefixOf(S!InPrint, i)'
      BY <1>1, <2>5, <2>7, <3>1, <3>2 DEF PrefixOf, Limited
    <3>5. Printing(S!InPrint, i, line)'
      <4>1. Printing(S!InPrint, i + 1, line \o S!UnityPrintChar(c))
        BY <1>2, <2>2, <2>5, <2>7, PrintsOnFact
      <4> QED
        BY <3>1, <3>2, <4>1
    <3>6. /\ i' \in Nat /\ j' \in 0..call'.num_elements
          /\ CurrentTestFailed' = 1 /\ pc' = "print"
      BY <1>1, <1>2, <3>1 DEF StringsInv
    <3>7. IF S!InPrint' = S!NULL' THEN line' = <<>>
          ELSE PrefixOf(S!InPrint, i)' /\ Printing(S!InPrint, i, line)'
      BY <1>4, <3>2, <3>4, <3>5 DEF S!NULL
    <3> QED
      BY <3>2, <3>3, <3>6, <3>7 DEF StringsInv
  <2> QED
    BY <2>6, <2>7
<1> QED
  BY <1>3, <1>4

(* Each step of an assertion on strings keeps the invariant.               *)
LEMMA StringsStep == StringsInv /\ S!Next => StringsInv'
BY EnterFact, ComparePairFact, CompareCharFact, PrintStringFact DEF S!Next

-----------------------------------------------------------------------------
(* An assertion on strings passes exactly when they are equal.             *)
LEMMA StringVerdictProved == StringsInv => S!VerdictCorrect
<1> SUFFICES ASSUME StringsInv, pc = "returned" PROVE S!VerdictCorrect
  BY DEF S!VerdictCorrect
<1>1. CASE text = <<>>
  BY <1>1 DEF StringsInv, S!VerdictCorrect
<1>2. CASE text # <<>>
  <2>1. AtPair /\ CurrentTestFailed = 1 /\ ~ S!Equal(S!expd, S!act)
        /\ StringArguments
    BY <1>2 DEF StringsInv
  <2>2. ~ S!AllEqual
    <3>1. j + 1 \in 1..call.num_elements
      BY <2>1 DEF AtPair, StringArguments
    <3>2. ~ S!Equal(S!Expected(j + 1), actual[j + 1])
      BY <2>1, PairFact DEF AtPair
    <3> QED
      BY <3>1, <3>2 DEF S!AllEqual, S!Positions
  <2>3. ~ S!EqualPointers
    BY <2>1 DEF AtPair, S!EqualPointers
  <2> QED
    BY <2>1, <2>2, <2>3 DEF S!VerdictCorrect
<1> QED
  BY <1>1, <1>2

(* What is printed of them has no control character.                       *)
LEMMA OneLineProved == StringsInv => S!OneLine
<1> SUFFICES ASSUME StringsInv, NEW w \in 1..Len(text)
             PROVE  \A k \in DOMAIN text[w] : text[w][k] \in 32..126
  BY DEF S!OneLine
<1>1. \/ text = <<>>
      \/ \E x \in Seq(32..126) : text = <<x>>
      \/ \E x, y \in Seq(32..126) : text = <<x, y>>
  BY DEF StringsInv, NothingPrinted
<1>2. PICK word \in Seq(32..126) : word = text[w]
  BY <1>1
<1>3. \A k \in DOMAIN word : word[k] \in 32..126
  BY ElementFact
<1> QED
  BY <1>2, <1>3

-----------------------------------------------------------------------------
(* Of two words of sequences of characters, that the one begins the other. *)
Begins(u, w) == /\ Len(u) <= Len(w)
                /\ \A q \in 1..Len(u) : w[q] = u[q]

(* What has been printed after each of the first m characters of s.        *)
Prints(after, s, m) ==
  /\ after \in [0..m -> Seq(32..126)] /\ after[0] = <<>>
  /\ \A k \in 1..m : after[k] = after[k - 1] \o S!UnityPrintChar(s[k])

(* No character but the backslash is printed as what begins another.       *)
LEMMA CharsApart ==
  ASSUME NEW c \in S!CharType, NEW d \in S!CharType, c # d,
         c # S!Backslash, d # S!Backslash
  PROVE  \E q \in 1..4 : /\ q <= Len(S!UnityPrintChar(c))
                         /\ q <= Len(S!UnityPrintChar(d))
                         /\ S!UnityPrintChar(c)[q] # S!UnityPrintChar(d)[q]
<1> DEFINE Hex(x) == <<92, 120, S!Digit((x % 256) \div 16), S!Digit(x % 16)>>
           Plain(x) == x >= 32 /\ x <= 126
<1>1. \A x \in S!CharType :
        /\ Plain(x) => S!UnityPrintChar(x) = <<x>>
        /\ x = 13 => S!UnityPrintChar(x) = <<92, 114>>
        /\ x = 10 => S!UnityPrintChar(x) = <<92, 110>>
        /\ ~ Plain(x) /\ x # 13 /\ x # 10 => S!UnityPrintChar(x) = Hex(x)
  BY DEF S!UnityPrintChar, S!Printable, S!Backslash, S!CharType
<1>2. c # 92 /\ d # 92
  BY DEF S!Backslash
<1>3. CASE Plain(c) \/ Plain(d)
  <2>1. /\ Len(S!UnityPrintChar(c)) >= 1 /\ Len(S!UnityPrintChar(d)) >= 1
        /\ S!UnityPrintChar(c)[1] = IF Plain(c) THEN c ELSE 92
        /\ S!UnityPrintChar(d)[1] = IF Plain(d) THEN d ELSE 92
    <3>1. \A x \in S!CharType :
            /\ Len(S!UnityPrintChar(x)) >= 1
            /\ S!UnityPrintChar(x)[1] = IF Plain(x) THEN x ELSE 92
      BY <1>1
    <3> QED
      BY <3>1
  <2>2. S!UnityPrintChar(c)[1] # S!UnityPrintChar(d)[1]
    BY <1>2, <1>3, <2>1
  <2> QED
    BY <2>1, <2>2
<1>4. CASE ~ Plain(c) /\ ~ Plain(d) /\ (c \in {10, 13} \/ d \in {10, 13})
  <2>1. \A x \in S!CharType :
          ~ Plain(x) =>
            /\ Len(S!UnityPrintChar(x)) >= 2
            /\ x = 13 => S!UnityPrintChar(x)[2] = 114
            /\ x = 10 => S!UnityPrintChar(x)[2] = 110
            /\ x # 10 /\ x # 13 => S!UnityPrintChar(x)[2] = 120
    <3> SUFFICES ASSUME NEW x \in S!CharType, ~ Plain(x)
                 PROVE  /\ Len(S!UnityPrintChar(x)) >= 2
                        /\ x = 13 => S!UnityPrintChar(x)[2] = 114
                        /\ x = 10 => S!UnityPrintChar(x)[2] = 110
                        /\ x # 10 /\ x # 13 => S!UnityPrintChar(x)[2] = 120
      OBVIOUS
    <3>1. CASE x = 13
      BY <1>1, <3>1
    <3>2. CASE x = 10
      BY <1>1, <3>2
    <3>3. CASE x # 13 /\ x # 10
      BY <1>1, <3>3
    <3> QED
      BY <3>1, <3>2, <3>3
  <2>2. S!UnityPrintChar(c)[2] # S!UnityPrintChar(d)[2]
    BY <1>4, <2>1
  <2> QED
    BY <1>4, <2>1, <2>2
<1>5. CASE ~ Plain(c) /\ ~ Plain(d) /\ ~ (c \in {10, 13} \/ d \in {10, 13})
  <2>1. ASSUME NEW x \in {c, d}
        PROVE  /\ Len(S!UnityPrintChar(x)) = 4
               /\ S!UnityPrintChar(x)[3] = S!Digit((x % 256) \div 16)
               /\ S!UnityPrintChar(x)[4] = S!Digit(x % 16)
    <3>1. S!UnityPrintChar(x) = Hex(x)
      BY <1>1, <1>5
    <3> QED
      BY <3>1
  <2>2. \A x \in {c, d} : (x % 256) \div 16 \in 0..15 /\ x % 16 \in 0..15
    BY DEF S!CharType
  <2>3. (c % 256) \div 16 # (d % 256) \div 16 \/ c % 16 # d % 16
    BY DEF S!CharType
  <2>4. \A x, y \in 0..15 : x # y => S!Digit(x) # S!Digit(y)
    BY DEF S!Digit
  <2>5. \/ S!UnityPrintChar(c)[3] # S!UnityPrintChar(d)[3]
        \/ S!UnityPrintChar(c)[4] # S!UnityPrintChar(d)[4]
    BY <2>1, <2>2, <2>3, <2>4
  <2>6. 3 \in 1..4 /\ 4 \in 1..4
    OBVIOUS
  <2>7. Len(S!UnityPrintChar(c)) = 4 /\ Len(S!UnityPrintChar(d)) = 4
    BY <2>1
  <2> QED
    BY <2>5, <2>6, <2>7
<1> QED
  BY <1>3, <1>4, <1>5

(* What has been printed begins all that is printed after it.              *)
LEMMA PrintedBegins ==
  ASSUME NEW s, NEW m \in Nat, \A k \in 1..m : s[k] \in S!CharType,
         NEW after, Prints(after, s, m), NEW k \in 0..m
  PROVE  /\ Begins(after[k], after[m])
         /\ k < m => Len(after[k]) < Len(after[m])
<1> USE DEF Prints
<1> DEFINE Fails(l) == ~ /\ Begins(after[k], after[l])
                         /\ k < l => Len(after[k]) < Len(after[l])
           T == {l \in k..m : Fails(l)}
<1>1. ASSUME NEW l \in T, \A x \in T : l <= x PROVE FALSE
  <2>1. after[k] \in Seq(32..126) /\ Len(after[k]) \in Nat /\ l \in k..m
    <3>1. after[k] \in Seq(32..126)
      OBVIOUS
    <3> QED
      BY <3>1, ElementFact
  <2>2. l # k
    <3>1. SUFFICES ASSUME l = k PROVE FALSE
      OBVIOUS
    <3>2. Fails(k)
      BY <3>1
    <3> QED
      BY <2>1, <3>2 DEF Begins
  <2>3. l - 1 \in k..m /\ l \in 1..m /\ l - 1 \in 0..m /\ ~ (l <= l - 1)
    BY <2>1, <2>2
  <2>4. ~ Fails(l - 1)
    BY <1>1, <2>3
  <2> DEFINE u == after[l - 1]
             v == S!UnityPrintChar(s[l])
  <2>5. u \in Seq(32..126) /\ v \in Seq(32..126) /\ v # <<>>
        /\ after[l] = u \o v
    BY <2>3, PrintCharFact
  <2>6. Fails(l)
    OBVIOUS
  <2>7. Begins(after[k], u)
    BY <2>4
  <2> HIDE DEF u, v
  <2>8. /\ Len(u) \in Nat /\ Len(v) \in Nat /\ Len(v) > 0
        /\ Len(u \o v) = Len(u) + Len(v)
        /\ \A q \in 1..Len(u) : (u \o v)[q] = u[q]
    <3>1. Len(u) \in Nat /\ Len(v) \in Nat
      BY <2>5, ElementFact
    <3>2. Len(v) # 0
      BY <2>5, EmptySeq
    <3> QED
      BY <2>5, <3>1, <3>2, JoinFact
  <2>9. Begins(after[k], u \o v) /\ Len(after[k]) < Len(u \o v)
    BY <2>1, <2>7, <2>8 DEF Begins
  <2> QED
    BY <2>5, <2>6, <2>9
<1>2. T = {}
  <2>1. T \subseteq Nat
    OBVIOUS
  <2> HIDE DEF T
  <2> QED
    BY <1>1, <2>1, LeastNat
<1>3. m \in k..m
  OBVIOUS
<1>4. ~ Fails(m)
  BY <1>2, <1>3
<1> QED
  BY <1>4

(* As long as the characters are the same, so is what is printed.          *)
LEMMA PrintedSame ==
  ASSUME NEW e, NEW a, NEW k \in Nat, NEW m \in Nat,
         NEW one, Prints(one, e, k), NEW two, Prints(two, a, m),
         NEW z \in Nat, z <= k, z <= m, \A x \in 1..z : e[x] = a[x]
  PROVE  one[z] = two[z]
<1> USE DEF Prints
<1> DEFINE T == {l \in 0..z : one[l] # two[l]}
<1>1. ASSUME NEW l \in T, \A x \in T : l <= x PROVE FALSE
  <2>1. l # 0
    OBVIOUS
  <2>2. /\ l - 1 \in 0..z /\ l \in 1..k /\ l \in 1..m /\ l \in 1..z
        /\ ~ (l <= l - 1)
    BY <2>1
  <2>3. one[l - 1] = two[l - 1]
    BY <1>1, <2>2
  <2>4. one[l] = two[l]
    BY <2>2, <2>3
  <2> QED
    BY <2>4
<1>2. T = {}
  <2>1. T \subseteq Nat
    OBVIOUS
  <2> HIDE DEF T
  <2> QED
    BY <1>1, <2>1, LeastNat
<1>3. z \in 0..z
  OBVIOUS
<1> QED
  BY <1>2, <1>3

(* What is printed of two strings that differ, neither with a backslash,   *)
(* differs: where a character does, or where one of them ends.             *)
LEMMA PrintedApart ==
  ASSUME NEW e, NEW a, NEW k \in Nat, NEW m \in Nat,
         \A x \in 1..k : e[x] \in S!CharType \ {S!Backslash},
         \A x \in 1..m : a[x] \in S!CharType \ {S!Backslash},
         NEW v, NEW w, Printing(e, k, v), Printing(a, m, w),
         ~ (k = m /\ \A x \in 1..k : e[x] = a[x])
  PROVE  v # w
<1>1. PICK one : Prints(one, e, k) /\ one[k] = v
  BY DEF Printing, Prints
<1>2. PICK two : Prints(two, a, m) /\ two[m] = w
  BY DEF Printing, Prints
<1>0. /\ \A x \in 0..k : one[x] \in Seq(32..126)
      /\ \A x \in 0..m : two[x] \in Seq(32..126)
  BY <1>1, <1>2 DEF Prints
<1> DEFINE T == {x \in 1..k : x <= m /\ e[x] # a[x]}
<1>3. CASE T = {}
  <2>0. \A x \in 1..k : x <= m => e[x] = a[x]
    BY <1>3
  <2>1. k # m
    BY <2>0
  <2>2. CASE k < m
    <3>0. \A x \in 1..k : e[x] = a[x]
      BY <2>0, <2>2
    <3>1. one[k] = two[k]
      BY <1>1, <1>2, <2>2, <3>0, PrintedSame
    <3>2. Len(two[k]) < Len(two[m])
      BY <1>2, <2>2, PrintedBegins
    <3>3. Len(two[k]) \in Nat
      <4>1. two[k] \in Seq(32..126)
        BY <1>0, <2>2
      <4> QED
        BY <4>1, ElementFact
    <3> QED
      BY <1>1, <1>2, <3>1, <3>2, <3>3
  <2>3. CASE m < k
    <3>0. \A x \in 1..m : e[x] = a[x]
      BY <2>0, <2>3
    <3>1. one[m] = two[m]
      BY <1>1, <1>2, <2>3, <3>0, PrintedSame
    <3>2. Len(one[m]) < Len(one[k])
      BY <1>1, <2>3, PrintedBegins
    <3>3. Len(one[m]) \in Nat
      <4>1. one[m] \in Seq(32..126)
        BY <1>0, <2>3
      <4> QED
        BY <4>1, ElementFact
    <3> QED
      BY <1>1, <1>2, <3>1, <3>2, <3>3
  <2> QED
    BY <2>1, <2>2, <2>3
<1>4. CASE T # {}
  <2>1. T \subseteq Nat
    OBVIOUS
  <2>2. PICK x \in T : \A l \in T : x <= l
    <3> HIDE DEF T
    <3> QED
      BY <1>4, <2>1, LeastNat
  <2>3. /\ x \in 1..k /\ x \in 1..m /\ e[x] # a[x]
        /\ x \in 0..k /\ x \in 0..m /\ x - 1 \in Nat /\ x - 1 \in 0..k
        /\ x - 1 <= k /\ x - 1 <= m
    OBVIOUS
  <2>4. \A l \in 1..x - 1 : e[l] = a[l]
    <3> SUFFICES ASSUME NEW l \in 1..x - 1, e[l] # a[l] PROVE FALSE
      OBVIOUS
    <3>1. l \in T /\ ~ (x <= l)
      BY <2>3
    <3> QED
      BY <2>2, <3>1
  <2>5. one[x - 1] = two[x - 1]
    <3> HIDE DEF T
    <3> QED
      BY <1>1, <1>2, <2>3, <2>4, PrintedSame
  <2> HIDE DEF T
  <2>6. Begins(one[x], v) /\ Begins(two[x], w)
    <3>1. Begins(one[x], v)
      BY <1>1, <2>3, PrintedBegins
    <3>2. Begins(two[x], w)
      BY <1>2, <2>3, PrintedBegins
    <3> QED
      BY <3>1, <3>2
  <2> DEFINE u == one[x - 1]
             c == S!UnityPrintChar(e[x])
             d == S!UnityPrintChar(a[x])
  <2>7. /\ u \in Seq(32..126) /\ c \in Seq(32..126) /\ d \in Seq(32..126)
    <3>1. u \in Seq(32..126)
      BY <1>0, <2>3
    <3>2. c \in Seq(32..126) /\ d \in Seq(32..126)
      BY <2>3, PrintCharFact
    <3> QED
      BY <3>1, <3>2
  <2>8. PICK q \in 1..4 : q <= Len(c) /\ q <= Len(d) /\ c[q] # d[q]
    BY <2>3, CharsApart
  <2>9. one[x] = u \o c /\ two[x] = u \o d
    BY <1>1, <1>2, <2>3, <2>5 DEF Prints
  <2> HIDE DEF u, c, d
  <2>10. /\ Len(u) \in Nat /\ Len(c) \in Nat /\ Len(d) \in Nat
         /\ Len(u \o c) = Len(u) + Len(c) /\ Len(u \o d) = Len(u) + Len(d)
         /\ (u \o c)[Len(u) + q] = c[q] /\ (u \o d)[Len(u) + q] = d[q]
    BY <2>7, <2>8
  <2>11. Len(u) + q \in 1..Len(u \o c) /\ Len(u) + q \in 1..Len(u \o d)
    BY <2>8, <2>10
  <2>12. v[Len(u) + q] = c[q] /\ w[Len(u) + q] = d[q]
    BY <2>6, <2>9, <2>10, <2>11 DEF Begins
  <2> QED
    BY <2>8, <2>12
<1> QED
  BY <1>3, <1>4

(* Quotes do not hide a difference, nor read as the word NULL.             *)
LEMMA QuotedApart ==
  ASSUME NEW v \in Seq(32..126), NEW w \in Seq(32..126)
  PROVE  /\ v # w => S!Quote \o v \o S!Quote # S!Quote \o w \o S!Quote
         /\ S!Quote \o v \o S!Quote # <<78, 85, 76, 76>>
<1>1. \A x \in Seq(32..126) :
        /\ Len(S!Quote \o x \o S!Quote) = Len(x) + 2
        /\ (S!Quote \o x \o S!Quote)[1] = 39
        /\ \A k \in 1..Len(x) : (S!Quote \o x \o S!Quote)[k + 1] = x[k]
  <2> SUFFICES ASSUME NEW x \in Seq(32..126)
               PROVE  /\ Len(S!Quote \o x \o S!Quote) = Len(x) + 2
                      /\ (S!Quote \o x \o S!Quote)[1] = 39
                      /\ \A k \in 1..Len(x) :
                           (S!Quote \o x \o S!Quote)[k + 1] = x[k]
    OBVIOUS
  <2>1. S!Quote \in Seq(32..126) /\ Len(S!Quote) = 1 /\ S!Quote[1] = 39
    BY DEF S!Quote
  <2>2. /\ S!Quote \o x \in Seq(32..126) /\ Len(S!Quote \o x) = 1 + Len(x)
        /\ (S!Quote \o x)[1] = 39
        /\ \A k \in 1..Len(x) : (S!Quote \o x)[k + 1] = x[k]
        /\ Len(x) \in Nat
    <3> DEFINE quote == S!Quote
    <3>1. quote \in Seq(32..126) /\ Len(quote) = 1 /\ quote[1] = 39
      BY <2>1
    <3> HIDE DEF quote
    <3>2. /\ quote \o x \in Seq(32..126)
          /\ Len(quote \o x) = Len(quote) + Len(x)
          /\ \A k \in 1..Len(quote) : (quote \o x)[k] = quote[k]
          /\ \A k \in 1..Len(x) : (quote \o x)[Len(quote) + k] = x[k]
      <4>1. ASSUME NEW T, quote \in Seq(T), x \in Seq(T)
            PROVE  /\ quote \o x \in Seq(T)
                   /\ Len(quote \o x) = Len(quote) + Len(x)
                   /\ \A k \in 1..Len(quote) : (quote \o x)[k] = quote[k]
                   /\ \A k \in 1..Len(x) :
                        (quote \o x)[Len(quote) + k] = x[k]
        BY <4>1, JoinFact
      <4> QED
        BY <3>1, <4>1
    <3>3. Len(x) \in Nat
      BY ElementFact
    <3>4. \A k \in 1..Len(x) : (quote \o x)[k + 1] = x[k]
      <4>1. \A k \in 1..Len(x) : 1 + k = k + 1
        BY <3>3
      <4> QED
        BY <3>1, <3>2, <4>1
    <3>5. (quote \o x)[1] = 39
      BY <3>1, <3>2
    <3>6. /\ quote \o x \in Seq(32..126) /\ Len(quote \o x) = 1 + Len(x)
          /\ (quote \o x)[1] = 39
          /\ \A k \in 1..Len(x) : (quote \o x)[k + 1] = x[k]
          /\ Len(x) \in Nat
      BY <3>1, <3>2, <3>3, <3>4, <3>5
    <3> QED
      BY <3>6 DEF quote
  <2> DEFINE y == S!Quote \o x
  <2> HIDE DEF y
  <2>3. /\ Len(y \o S!Quote) = Len(y) + 1
        /\ \A k \in 1..Len(y) : (y \o S!Quote)[k] = y[k]
    BY <2>1, <2>2, ConcatProperties DEF y
  <2> QED
    BY <2>2, <2>3 DEF y
<1>2. ASSUME S!Quote \o v \o S!Quote = S!Quote \o w \o S!Quote
      PROVE  v = w
  <2>1. Len(v) \in Nat /\ Len(w) \in Nat
    OBVIOUS
  <2>2. Len(v) = Len(w)
    BY <1>1, <1>2, <2>1
  <2>3. ASSUME NEW k \in 1..Len(v) PROVE v[k] = w[k]
    <3>1. (S!Quote \o v \o S!Quote)[k + 1] = v[k]
      BY <1>1
    <3>2. (S!Quote \o w \o S!Quote)[k + 1] = w[k]
      BY <1>1, <2>2
    <3> QED
      BY <1>2, <3>1, <3>2
  <2> QED
    BY <2>2, <2>3, SeqEqual
<1>3. <<78, 85, 76, 76>>[1] = 78
  OBVIOUS
<1>4. (S!Quote \o v \o S!Quote)[1] = 39
  BY <1>1
<1>5. S!Quote \o v \o S!Quote # <<78, 85, 76, 76>>
  <2> SUFFICES ASSUME S!Quote \o v \o S!Quote = <<78, 85, 76, 76>> PROVE FALSE
    OBVIOUS
  <2>1. (S!Quote \o v \o S!Quote)[1] = 78
    BY <1>3, Zenon
  <2> QED
    BY <1>4, <2>1
<1> QED
  BY <1>2, <1>5

(* Strings that are printed as different are, and are those that differ    *)
(* first.                                                                  *)
LEMMA StringsExplained == StringsInv => S!FailureExplained
<1> SUFFICES ASSUME StringsInv, Len(text) = 2
             PROVE  /\ ~ S!Equal(S!Expected(j + 1), actual[j + 1])
                    /\ \A k \in 1..j : S!Equal(S!Expected(k), actual[k])
                    /\ \/ text[1] # text[2]
                       \/ \E s \in {S!expd, S!act} :
                             \E k \in DOMAIN s : s[k] = S!Backslash
  BY DEF S!FailureExplained
<1>1. /\ AtPair /\ StringArguments /\ ~ S!Equal(S!expd, S!act)
      /\ \E w1, w2 \in Seq(32..126) :
            /\ text = <<w1, w2>>
            /\ PrintedAs(S!expd, w1) /\ PrintedAs(S!act, w2)
  <2>1. Len(<<>>) = 0 /\ \A w \in Seq(32..126) : Len(<<w>>) = 1
    OBVIOUS
  <2>2. text # <<>> /\ ~ \E w \in Seq(32..126) : text = <<w>>
    <3>1. ASSUME text = <<>> PROVE FALSE
      <4>1. Len(text) = 0
        BY <2>1, <3>1, Zenon
      <4> QED
        BY <4>1
    <3>2. ASSUME NEW w \in Seq(32..126), text = <<w>> PROVE FALSE
      <4>1. Len(text) = 1
        BY <2>1, <3>2, Zenon
      <4>2. 1 # 2
        OBVIOUS
      <4> QED
        BY <4>1, <4>2, Zenon
    <3> QED
      BY <3>1, <3>2
  <2> QED
    BY <2>2 DEF StringsInv, NothingPrinted
<1>2. /\ S!expd = S!Expected(j + 1) /\ S!act = actual[j + 1]
      /\ Readable(S!expd) /\ Readable(S!act) /\ call.length \in Nat
  BY <1>1, PairFact DEF AtPair, StringArguments
<1>3. PICK v \in Seq(32..126), w \in Seq(32..126) :
        text = <<v, w>> /\ PrintedAs(S!expd, v) /\ PrintedAs(S!act, w)
  BY <1>1
<1>4. ASSUME \A s \in {S!expd, S!act} : \A k \in DOMAIN s : s[k] # S!Backslash
      PROVE  v # w
  <2>1. ~ (S!expd = S!NULL /\ S!act = S!NULL)
    BY <1>1, <1>2, EqualFact
  <2>2. ASSUME NEW s, NEW word, PrintedAs(s, word), s # S!NULL
        PROVE  \E m \in Nat, x \in Seq(32..126) :
                 /\ Ends(s, m) /\ Printing(s, m, x)
                 /\ word = S!Quote \o x \o S!Quote
    BY <2>2 DEF PrintedAs
  <2>3. CASE S!expd = S!NULL
    BY <1>3, <2>1, <2>2, <2>3, QuotedApart DEF PrintedAs
  <2>4. CASE S!act = S!NULL
    BY <1>3, <2>1, <2>2, <2>4, QuotedApart DEF PrintedAs
  <2>5. CASE S!expd # S!NULL /\ S!act # S!NULL
    <3>1. PICK k \in Nat, x \in Seq(32..126) :
            /\ Ends(S!expd, k) /\ Printing(S!expd, k, x)
            /\ v = S!Quote \o x \o S!Quote
      BY <1>3, <2>5 DEF PrintedAs
    <3>2. PICK m \in Nat, y \in Seq(32..126) :
            /\ Ends(S!act, m) /\ Printing(S!act, m, y)
            /\ w = S!Quote \o y \o S!Quote
      BY <1>3, <2>5 DEF PrintedAs
    <3>3. /\ Len(S!expd) \in Nat /\ DOMAIN S!expd = 1..Len(S!expd)
          /\ \A z \in 1..Len(S!expd) : S!expd[z] \in S!CharType
          /\ Len(S!act) \in Nat /\ DOMAIN S!act = 1..Len(S!act)
          /\ \A z \in 1..Len(S!act) : S!act[z] \in S!CharType
      BY <1>2, ElementFact DEF Readable
    <3>4. ~ (k = m /\ \A z \in 1..k : S!expd[z] = S!act[z])
      <4>1. PICK k1 \in 0..Len(S!expd), m1 \in 0..Len(S!act) :
              /\ Ends(S!expd, k1) /\ Ends(S!act, m1)
              /\ S!Equal(S!expd, S!act)
                    <=> k1 = m1 /\ \A z \in 1..k1 : S!expd[z] = S!act[z]
        <5>1. Readable(S!expd) /\ Readable(S!act) /\ call.length \in Nat
          BY <1>2
        <5> QED
          BY <2>5, <5>1, EqualFact
      <4>2. k1 = k /\ m1 = m
        BY <1>2, <3>1, <3>2, <3>3, <4>1, EndsUnique
      <4> QED
        BY <1>1, <4>1, <4>2
    <3>5. /\ \A z \in 1..k : S!expd[z] \in S!CharType \ {S!Backslash}
          /\ \A z \in 1..m : S!act[z] \in S!CharType \ {S!Backslash}
      <4>1. k \in 0..Len(S!expd) /\ m \in 0..Len(S!act)
        BY <3>1, <3>2 DEF Ends, PrefixOf
      <4>2. /\ \A z \in 1..Len(S!expd) : S!expd[z] # S!Backslash
            /\ \A z \in 1..Len(S!act) : S!act[z] # S!Backslash
        BY <1>4, <3>3
      <4> QED
        BY <3>3, <4>1, <4>2
    <3>6. x # y
      BY <3>1, <3>2, <3>4, <3>5, PrintedApart
    <3> QED
      BY <3>1, <3>2, <3>6, QuotedApart
  <2> QED
    BY <2>3, <2>4, <2>5
<1>5. text[1] = v /\ text[2] = w
  BY <1>3
<1> QED
  BY <1>1, <1>2, <1>4, <1>5 DEF AtPair, EqualBefore

(* The types follow.                                                       *)
LEMMA StringTypesProved == StringsInv => S!TypeOK
<1> SUFFICES ASSUME StringsInv PROVE S!TypeOK
  OBVIOUS
<1>1. \A w \in Seq(32..126) : w \in Seq(S!CharType)
  BY DEF S!CharType
<1>2. /\ pc \in {"call", "pair", "char", "print", "returned"}
      /\ i \in Nat /\ j \in 0..call.num_elements
  BY DEF StringsInv
<1>3. CurrentTestFailed \in {0, 1}
  BY DEF StringsInv
<1>4. line \in Seq(S!CharType)
  <2>1. <<>> \in Seq(S!CharType)
    OBVIOUS
  <2>2. pc = "print" => line \in Seq(S!CharType)
    BY <1>1, <1>2, <2>1, PrintingType DEF StringsInv
  <2>3. pc # "print" => line = <<>>
    BY <1>2 DEF StringsInv, NothingPrinted
  <2> QED
    BY <2>1, <2>2, <2>3
<1>5. \/ text = <<>>
      \/ CurrentTestFailed = 1 /\ \E x \in Seq(32..126) : text = <<x>>
      \/ CurrentTestFailed = 1 /\ \E x, y \in Seq(32..126) : text = <<x, y>>
  BY <1>2 DEF StringsInv, NothingPrinted
<1>6. /\ text \in Seq(Seq(S!CharType)) /\ Len(text) <= 2
      /\ text # <<>> => CurrentTestFailed = 1
  <2> DEFINE Words == Seq(S!CharType)
  <2>1. Seq(32..126) \subseteq Words
    BY <1>1
  <2> HIDE DEF Words
  <2>2. CASE text = <<>>
    BY <2>2 DEF Words
  <2>3. CASE CurrentTestFailed = 1 /\ \E x \in Seq(32..126) : text = <<x>>
    <3>1. PICK x \in Words : text = <<x>>
      BY <2>1, <2>3
    <3> QED
      BY <2>3, <3>1 DEF Words
  <2>4. CASE CurrentTestFailed = 1 /\ \E x, y \in Seq(32..126) : text = <<x, y>>
    <3>1. PICK x \in Words, y \in Words : text = <<x, y>>
      BY <2>1, <2>4
    <3> QED
      BY <2>4, <3>1 DEF Words
  <2> QED
    BY <1>5, <2>2, <2>3, <2>4
<1> QED
  BY <1>2, <1>3, <1>4, <1>6 DEF S!TypeOK

-----------------------------------------------------------------------------
(* Assertions on floats                                                    *)

(* The floats of the array that are within the delta of what is expected.  *)
FloatElementWithin(k) ==
  LET e == expected[IF call.flags = "ARRAY_TO_VAL" THEN 1 ELSE k]
  IN  F!FloatsWithin(F!ElementDelta(e), e, actual[k])

FloatScalarArguments ==
  \E e, a \in F!UNITY_FLOAT :
    /\ expected = <<e>> /\ actual = <<a>>
    /\ \/ \E fn \in {"FloatsWithin", "FloatsNotWithin"},
             d \in F!UNITY_FLOAT, equal \in BOOLEAN :
            /\ equal => d = F!Scaled(e)
            /\ call = [fn |-> fn, equal |-> equal, delta |-> d]
       \/ \E order \in {"GREATER_THAN", "SMALLER_THAN"},
             or \in {{}, {"EQUAL_TO"}} :
            call = [fn |-> "GreaterOrLessFloat", compare |-> {order} \cup or]
       \/ \E s \in 0..7 :
            e = 0 /\ call = [fn |-> "FloatSpecial", style |-> s]

FloatScalarInv ==
  /\ FloatScalarArguments
  /\ pc \in {"call", "returned"}
  /\ pc = "returned" => report = IF F!Fails THEN F!Failure(0) ELSE F!Nothing

FloatArrayArguments ==
  \E num \in Nat, flags \in {"ARRAY_TO_ARRAY", "ARRAY_TO_VAL"},
     d \in F!UNITY_FLOAT,
     p \in {"distinct", "same", "both_NULL", "expected_NULL", "actual_NULL"} :
    /\ call = [fn |-> "WithinFloatArray", delta |-> d, num_elements |-> num,
               flags |-> flags, pointers |-> p]
    /\ actual \in [1..num -> F!UNITY_FLOAT]
    /\ expected \in [1..(IF flags = "ARRAY_TO_VAL" THEN 1 ELSE num)
                       -> F!UNITY_FLOAT]

FloatsExpected == IF call.flags = "ARRAY_TO_VAL" THEN 1
                  ELSE call.num_elements

FloatsCompared == call.num_elements - elements

FloatArrayInv ==
  /\ FloatArrayArguments
  /\ pc \in {"call", "element", "returned"}
  /\ pc # "returned" =>
       /\ report = F!Nothing
       /\ elements \in 0..call.num_elements
       /\ ptr_act = FloatsCompared
       /\ ptr_exp = IF call.flags = "ARRAY_TO_VAL" THEN 0 ELSE FloatsCompared
  /\ pc = "call" => FloatsCompared = 0
  /\ pc = "element" =>
       /\ ~ F!Pointless /\ ~ F!ForceEqual /\ call.pointers = "distinct"
       /\ \A k \in 1..FloatsCompared : FloatElementWithin(k)
  /\ pc = "returned" =>
       \/ F!Pointless /\ report = [why |-> "pointless"]
       \/ /\ ~ F!Pointless /\ (F!ForceEqual \/ F!EqualPointers)
          /\ report = F!Nothing
       \/ /\ ~ F!Pointless /\ ~ F!ForceEqual /\ F!OneArrayNull
          /\ report = [why |-> call.pointers]
       \/ /\ ~ F!Pointless /\ ~ F!ForceEqual /\ call.pointers = "distinct"
          /\ \/ /\ report = F!Nothing
                /\ \A k \in 1..call.num_elements : FloatElementWithin(k)
             \/ \E m \in 0..call.num_elements - 1 :
                  /\ report = F!Failure(m)
                  /\ ~ FloatElementWithin(m + 1)
                  /\ \A k \in 1..m : FloatElementWithin(k)

FloatsInv == IF call.fn = "WithinFloatArray" THEN FloatArrayInv
             ELSE FloatScalarInv

-----------------------------------------------------------------------------
(* The floats are integers in a range.                                     *)
LEMMA FloatRange ==
  /\ MaxFloat \in Nat /\ MaxFloat > 0 /\ Precision \in Nat /\ Precision > 0
  /\ F!UNITY_FLOAT = (-MaxFloat - 1)..(MaxFloat + 2)
  /\ Elements \subseteq F!UNITY_FLOAT
BY ConstantsAssumption DEF F!FloatAssumption, F!UNITY_FLOAT, F!Finite, F!Inf,
   F!NaN

(* The precision scales a finite float down.                               *)
LEMMA ScaledFact ==
  ASSUME NEW x \in F!UNITY_FLOAT
  PROVE  /\ F!Scaled(x) \in F!UNITY_FLOAT
         /\ F!isnan(F!Scaled(x)) <=> F!isnan(x)
         /\ x \in F!Finite =>
              /\ F!Scaled(x) \in F!Finite
              /\ F!Magnitude(F!Scaled(x)) <= F!Magnitude(x)
<1>1. ASSUME NEW y \in Nat PROVE y \div Precision \in 0..y
  BY FloatRange
<1> QED
  BY <1>1, FloatRange DEF F!Scaled, F!UNITY_FLOAT, F!Finite, F!Inf, F!NaN,
     F!isnan, F!Magnitude, F!Less, F!Negated

(* The delta of an element is NaN only with it.                            *)
LEMMA ElementDeltaFact ==
  ASSUME NEW d \in F!UNITY_FLOAT, NEW e \in F!UNITY_FLOAT, call.delta = d,
         ~ F!isnan(d)
  PROVE  /\ F!ElementDelta(e) \in F!UNITY_FLOAT
         /\ F!isnan(F!ElementDelta(e)) => F!isnan(e)
<1>1. PICK s \in F!UNITY_FLOAT : s = F!Scaled(e) /\ (F!isnan(s) <=> F!isnan(e))
  BY ScaledFact
<1>2. F!ElementDelta(e) = F!Plus(F!Magnitude(d), F!Magnitude(s))
  BY <1>1 DEF F!ElementDelta
<1> QED
  BY <1>1, <1>2, FloatRange DEF F!UNITY_FLOAT, F!Finite, F!Inf, F!NaN, F!isnan,
     F!isinf, F!Magnitude, F!Less, F!Negated, F!Plus, F!Minus

(* FloatsWithin decides nearness, when no delta is NaN.                    *)
LEMMA WithinFact ==
  ASSUME NEW d \in F!UNITY_FLOAT, NEW e \in F!UNITY_FLOAT,
         NEW a \in F!UNITY_FLOAT, F!isnan(d) => F!isnan(e)
  PROVE  F!FloatsWithin(d, e, a) <=> F!Near(d, e, a)
BY FloatRange DEF F!UNITY_FLOAT, F!Finite, F!Inf, F!NaN, F!isnan, F!isinf,
   F!Magnitude, F!Less, F!Negated, F!Minus, F!FloatsWithin, F!Near

(* The kinds of failure are told apart.                                    *)
LEMMA ReportsApart ==
  /\ F!Nothing.why = "none" /\ F!Nothing # [why |-> "pointless"]
  /\ \A m : F!Failure(m).why = "failed" /\ F!Failure(m).element = m
            /\ F!Failure(m) # F!Nothing
  /\ \A p \in {"expected_NULL", "actual_NULL"} :
        [why |-> p] # F!Nothing /\ [why |-> p].why = p
BY DEF F!Nothing, F!Failure

(* Each call begins with the invariant.                                    *)
LEMMA FloatsInit == F!Init => FloatsInv
<1> SUFFICES ASSUME F!Init PROVE FloatsInv
  OBVIOUS
<1>0. pc = "call" /\ report = F!Nothing /\ ptr_exp = 0 /\ ptr_act = 0
  BY DEF F!Init
<1>1. CASE F!ScalarCalls
  <2>1. FloatScalarArguments
    BY <1>1 DEF F!ScalarCalls, FloatScalarArguments
  <2>2. call.fn # "WithinFloatArray"
    BY <2>1 DEF FloatScalarArguments
  <2> QED
    BY <1>0, <2>1, <2>2 DEF FloatsInv, FloatScalarInv
<1>2. CASE F!ArrayCalls
  <2>0. Elements \subseteq F!UNITY_FLOAT /\ 0..MaxElements \subseteq Nat
    BY FloatRange, ConstantsAssumption
  <2>1. PICK num \in 0..MaxElements,
             flags \in {"ARRAY_TO_ARRAY", "ARRAY_TO_VAL"},
     d \in Elements,
     p \in {"distinct", "same", "both_NULL", "expected_NULL", "actual_NULL"} :
     /\ call = [fn |-> "WithinFloatArray", delta |-> d, num_elements |-> num,
               flags |-> flags, pointers |-> p]
     /\ actual \in [1..num -> Elements]
     /\ expected \in [1..(IF flags = "ARRAY_TO_VAL" THEN 1 ELSE num)
                        -> Elements]
     /\ elements = num
    BY <1>2 DEF F!ArrayCalls
  <2>2. FloatArrayArguments
    <3>1. num \in Nat /\ d \in F!UNITY_FLOAT
      BY <2>0
    <3>2. actual \in [1..num -> F!UNITY_FLOAT]
      BY <2>0, <2>1
    <3>3. expected \in [1..(IF flags = "ARRAY_TO_VAL" THEN 1 ELSE num)
                          -> F!UNITY_FLOAT]
      BY <2>0, <2>1
    <3> QED
      BY <2>1, <3>1, <3>2, <3>3 DEF FloatArrayArguments
  <2>3. call.fn = "WithinFloatArray" /\ call.num_elements = num /\ num \in Nat
    BY <2>0, <2>1
  <2>4. elements = num
    BY <2>1
  <2> QED
    BY <1>0, <2>2, <2>3, <2>4 DEF FloatsInv, FloatArrayInv, FloatsCompared
<1> QED
  BY <1>1, <1>2 DEF F!Init

(* The call and its arguments stay what they are.                          *)
LEMMA FloatsArgumentsKept ==
  ASSUME F!Next
  PROVE  UNCHANGED <<call, expected, actual>>
BY DEF F!Next, F!AssertScalar, F!EnterArray, F!CompareElement, F!Return,
   F!Finish, F!arguments

(* What is known of the arguments of a call about arrays.                  *)
LEMMA FloatArrayArgumentsFact ==
  ASSUME FloatArrayArguments
  PROVE  /\ call.num_elements \in Nat /\ call.delta \in F!UNITY_FLOAT
         /\ actual \in [1..call.num_elements -> F!UNITY_FLOAT]
         /\ call.flags = "ARRAY_TO_VAL" \/ call.flags = "ARRAY_TO_ARRAY"
         /\ expected \in [1..FloatsExpected -> F!UNITY_FLOAT]
         /\ call.pointers \in {"distinct", "same", "both_NULL",
                               "expected_NULL", "actual_NULL"}
<1>1. PICK num \in Nat, flags \in {"ARRAY_TO_ARRAY", "ARRAY_TO_VAL"},
        d \in F!UNITY_FLOAT,
        p \in {"distinct", "same", "both_NULL", "expected_NULL",
               "actual_NULL"} :
        /\ call = [fn |-> "WithinFloatArray", delta |-> d,
                   num_elements |-> num, flags |-> flags, pointers |-> p]
        /\ actual \in [1..num -> F!UNITY_FLOAT]
        /\ expected \in [1..(IF flags = "ARRAY_TO_VAL" THEN 1 ELSE num)
                           -> F!UNITY_FLOAT]
  BY DEF FloatArrayArguments
<1>2. /\ call.num_elements = num /\ call.delta = d /\ call.flags = flags
      /\ call.pointers = p
  BY <1>1
<1>3. FloatsExpected = IF flags = "ARRAY_TO_VAL" THEN 1 ELSE num
  BY <1>2 DEF FloatsExpected
<1>4. expected \in [1..FloatsExpected -> F!UNITY_FLOAT]
  BY <1>1, <1>3, Zenon
<1> QED
  BY <1>1, <1>2, <1>4

(* Each step keeps it.                                                     *)
LEMMA FloatsStep == FloatsInv /\ F!Next => FloatsInv'
<1> SUFFICES ASSUME FloatsInv, F!Next PROVE FloatsInv'
  OBVIOUS
<1>0. UNCHANGED <<call, expected, actual>>
  BY FloatsArgumentsKept
<1>1. CASE F!AssertScalar
  <2>1. call.fn # "WithinFloatArray" /\ FloatScalarInv
    BY <1>1 DEF F!AssertScalar, FloatsInv
  <2>2. FloatScalarArguments' /\ (F!Fails)' = F!Fails
    BY <1>0, <2>1 DEF FloatScalarInv, FloatScalarArguments, F!Fails,
       F!ComparisonFails, F!SpecialFails, F!Unordered
  <2>3. /\ pc' = "returned"
        /\ report' = IF F!Fails THEN F!Failure(0) ELSE F!Nothing
    BY <1>1 DEF F!AssertScalar, F!Finish
  <2> QED
    BY <1>0, <2>1, <2>2, <2>3 DEF FloatsInv, FloatScalarInv, F!Nothing,
       F!Failure
<1> SUFFICES ASSUME F!EnterArray \/ F!CompareElement \/ F!Return
             PROVE  FloatsInv'
  BY <1>1 DEF F!Next
<1>2. call.fn = "WithinFloatArray" /\ FloatArrayInv
  BY DEF F!EnterArray, F!CompareElement, F!Return, FloatsInv, FloatScalarInv
<1>3. FloatArrayArguments'
  BY <1>0, <1>2 DEF FloatArrayInv, FloatArrayArguments
<1>4. \A k : FloatElementWithin(k)' = FloatElementWithin(k)
  BY <1>0 DEF FloatElementWithin, F!ElementDelta
<1>5. /\ F!Pointless' = F!Pointless /\ F!ForceEqual' = F!ForceEqual
      /\ F!EqualPointers' = F!EqualPointers /\ F!OneArrayNull' = F!OneArrayNull
  BY <1>0 DEF F!Pointless, F!ForceEqual, F!EqualPointers, F!OneArrayNull
<1>6. /\ call.num_elements \in Nat
      /\ call.flags \in {"ARRAY_TO_ARRAY", "ARRAY_TO_VAL"}
  BY <1>2, FloatArrayArgumentsFact DEF FloatArrayInv
<1>7. FloatsInv' <=> FloatArrayInv'
  BY <1>0, <1>2 DEF FloatsInv
<1>8. CASE F!EnterArray
  <2>1. CASE F!Pointless
    <3>1. pc' = "returned" /\ report' = [why |-> "pointless"]
      BY <1>8, <2>1 DEF F!EnterArray, F!Finish
    <3> QED
      BY <3>1, <2>1, <1>3, <1>5, <1>7 DEF FloatArrayInv
  <2>2. CASE ~ F!Pointless /\ (F!ForceEqual \/ F!EqualPointers)
    <3>1. pc' = "returned" /\ report' = F!Nothing
      BY <1>8, <2>2 DEF F!EnterArray, F!Finish, F!EqualPointers, F!OneArrayNull
    <3> QED
      BY <3>1, <2>2, <1>3, <1>5, <1>7 DEF FloatArrayInv, F!Nothing
  <2>3. CASE ~ F!Pointless /\ ~ F!ForceEqual /\ F!OneArrayNull
    <3>1. pc' = "returned" /\ report' = [why |-> call.pointers]
      BY <1>8, <2>3 DEF F!EnterArray, F!Finish, F!EqualPointers, F!OneArrayNull
    <3> QED
      BY <3>1, <2>3, <1>0, <1>3, <1>5, <1>7 DEF FloatArrayInv
  <2>4. CASE ~ F!Pointless /\ ~ F!ForceEqual /\ call.pointers = "distinct"
    <3>1. pc' = "element" /\ UNCHANGED <<ptr_exp, ptr_act, elements, report>>
      BY <1>8, <2>4 DEF F!EnterArray, F!EqualPointers, F!OneArrayNull
    <3>2. FloatsCompared' = 0 /\ pc = "call"
      BY <3>1, <1>0, <1>2, <1>8 DEF FloatsCompared, FloatArrayInv, F!EnterArray
    <3> QED
      BY <3>1, <3>2, <2>4, <1>0, <1>2, <1>3, <1>5, <1>7 DEF FloatArrayInv,
         FloatsCompared, F!Nothing
  <2> QED
    BY <1>8, <2>1, <2>2, <2>3, <2>4 DEF F!EnterArray
<1>9. CASE F!CompareElement
  <2>0. /\ pc = "element" /\ elements > 0 /\ elements \in 0..call.num_elements
        /\ FloatsCompared \in 0..call.num_elements - 1
        /\ ptr_act = FloatsCompared
        /\ ptr_exp = IF call.flags = "ARRAY_TO_VAL" THEN 0 ELSE FloatsCompared
        /\ \A k \in 1..FloatsCompared : FloatElementWithin(k)
        /\ ~ F!Pointless /\ ~ F!ForceEqual /\ call.pointers = "distinct"
        /\ report = F!Nothing
    BY <1>9, <1>2, <1>6 DEF F!CompareElement, FloatArrayInv, FloatsCompared
  <2> DEFINE e == expected[ptr_exp + 1]
             within == F!FloatsWithin(F!ElementDelta(e), e, actual[ptr_act + 1])
  <2>1. within <=> FloatElementWithin(FloatsCompared + 1)
    <3>1. ptr_exp + 1 = IF call.flags = "ARRAY_TO_VAL" THEN 1
                        ELSE FloatsCompared + 1
      BY <2>0
    <3> QED
      BY <3>1, <2>0 DEF FloatElementWithin
  <2>2. CASE within
    <3>1. /\ elements' = elements - 1 /\ ptr_act' = ptr_act + 1
          /\ ptr_exp' = ptr_exp + F!ExpectedStep(1)
          /\ UNCHANGED <<pc, report>>
      BY <1>9, <2>2 DEF F!CompareElement, F!Left, F!Finish
    <3>2. FloatsCompared' = FloatsCompared + 1
      BY <3>1, <2>0, <1>0, <1>6 DEF FloatsCompared
    <3>3. \A k \in 1..FloatsCompared' : FloatElementWithin(k)
      BY <3>2, <2>0, <2>1, <2>2
    <3>4. ptr_exp' = IF call.flags = "ARRAY_TO_VAL" THEN 0 ELSE FloatsCompared'
      BY <3>1, <3>2, <2>0, <1>6 DEF F!ExpectedStep
    <3>5. elements' \in 0..call.num_elements /\ ptr_act' = FloatsCompared'
      BY <3>1, <3>2, <2>0, <1>6
    <3> QED
      BY <3>1, <3>3, <3>4, <3>5, <2>0, <1>0, <1>3, <1>4, <1>5,
         <1>7 DEF FloatArrayInv, F!Nothing
  <2>3. CASE ~ within
    <3>1. pc' = "returned" /\ report' = F!Failure(FloatsCompared)
      BY <1>9, <2>0, <2>3, <1>6 DEF F!CompareElement, F!Finish, FloatsCompared
    <3>2. \E m \in 0..call.num_elements - 1 :
              /\ report' = F!Failure(m)
              /\ ~ FloatElementWithin(m + 1)
              /\ \A k \in 1..m : FloatElementWithin(k)
      BY <3>1, <2>0, <2>1, <2>3
    <3> QED
      BY <3>1, <3>2, <2>0, <1>0, <1>3, <1>4, <1>5, <1>7 DEF FloatArrayInv,
         F!Failure
  <2> QED
    BY <2>2, <2>3
<1>10. CASE F!Return
  <2>1. /\ pc = "element" /\ elements = 0 /\ pc' = "returned"
        /\ report' = F!Nothing
    BY <1>10 DEF F!Return, F!Finish
  <2>2. FloatsCompared = call.num_elements
    BY <2>1, <1>6 DEF FloatsCompared
  <2> QED
    BY <2>1, <2>2, <1>0, <1>2, <1>3, <1>4, <1>5, <1>7 DEF FloatArrayInv,
       F!Nothing
<1> QED
  BY <1>8, <1>9, <1>10

-----------------------------------------------------------------------------
(* An assertion that floats are near passes exactly when they are.         *)
LEMMA NearnessProved == FloatsInv => F!NearnessCorrect
<1> SUFFICES ASSUME FloatsInv, pc = "returned",
                    call.fn \in {"FloatsWithin", "FloatsNotWithin"},
                    ~ F!isnan(call.delta)
             PROVE  report = F!Nothing <=>
                      (F!Near(call.delta, expected[1], actual[1])
                         <=> call.fn = "FloatsWithin")
  BY DEF F!NearnessCorrect
<1>1. FloatScalarInv
  BY DEF FloatsInv
<1>2. /\ call.delta \in F!UNITY_FLOAT /\ expected[1] \in F!UNITY_FLOAT
      /\ actual[1] \in F!UNITY_FLOAT
  BY <1>1 DEF FloatScalarInv, FloatScalarArguments
<1>3. F!FloatsWithin(call.delta, expected[1], actual[1])
        <=> F!Near(call.delta, expected[1], actual[1])
  BY <1>2, WithinFact
<1>4. report = F!Nothing <=> ~ F!Fails
  BY <1>1, ReportsApart DEF FloatScalarInv
<1> QED
  BY <1>3, <1>4 DEF F!Fails

(* Floats called equal are close to each other.                            *)
LEMMA EqualProved == FloatsInv => F!EqualMeansClose
<1> SUFFICES ASSUME FloatsInv, pc = "returned", call.fn = "FloatsWithin",
                    call.equal, report = F!Nothing
             PROVE  /\ actual[1] \in F!Finite <=> expected[1] \in F!Finite
                    /\ F!Less(expected[1], 0) => ~ F!Less(0, actual[1])
                    /\ expected[1] = 0 => actual[1] = 0
  BY DEF F!EqualMeansClose
<1>1. FloatScalarInv
  BY DEF FloatsInv
<1>2. PICK e, a \in F!UNITY_FLOAT :
        expected[1] = e /\ actual[1] = a /\ call.delta = F!Scaled(e)
  <2>1. PICK e, a \in F!UNITY_FLOAT :
          /\ expected = <<e>> /\ actual = <<a>>
          /\ \E fn \in {"FloatsWithin", "FloatsNotWithin"},
               d \in F!UNITY_FLOAT, equal \in BOOLEAN :
              /\ equal => d = F!Scaled(e)
              /\ call = [fn |-> fn, equal |-> equal, delta |-> d]
    BY <1>1 DEF FloatScalarInv, FloatScalarArguments
  <2>2. PICK fn \in {"FloatsWithin", "FloatsNotWithin"},
             d \in F!UNITY_FLOAT, equal \in BOOLEAN :
              /\ equal => d = F!Scaled(e)
              /\ call = [fn |-> fn, equal |-> equal, delta |-> d]
    BY <2>1
  <2>3. call.equal = equal /\ call.delta = d
    BY <2>2
  <2> QED
    BY <2>1, <2>2, <2>3
<1>3. PICK d \in F!UNITY_FLOAT :
        /\ d = F!Scaled(e)
        /\ F!isnan(d) <=> F!isnan(e)
        /\ e \in F!Finite => /\ d \in F!Finite
                             /\ F!Magnitude(d) <= F!Magnitude(e)
  BY ScaledFact
<1>4. ~ F!Fails
  BY <1>1, ReportsApart DEF FloatScalarInv
<1>5. F!FloatsWithin(d, e, a)
  BY <1>2, <1>3, <1>4 DEF F!Fails
<1>6. F!Near(d, e, a)
  BY <1>3, <1>5, WithinFact
<1> QED
  BY <1>2, <1>3, <1>6, FloatRange DEF F!Near, F!UNITY_FLOAT, F!Finite, F!Inf,
     F!NaN, F!isnan, F!Magnitude, F!Less, F!Negated

(* An assertion on their order passes exactly when it is so.               *)
LEMMA OrderProved == FloatsInv => F!OrderCorrect
<1> SUFFICES ASSUME FloatsInv, pc = "returned",
                    call.fn = "GreaterOrLessFloat"
             PROVE  F!OrderCorrect
  BY DEF F!OrderCorrect
<1>1. FloatScalarInv
  BY DEF FloatsInv
<1>2. PICK e, a \in F!UNITY_FLOAT, order \in {"GREATER_THAN", "SMALLER_THAN"},
           or \in {{}, {"EQUAL_TO"}} :
        /\ expected[1] = e /\ actual[1] = a
        /\ call.compare = {order} \cup or
  BY <1>1 DEF FloatScalarInv, FloatScalarArguments
<1>3. PICK d \in F!UNITY_FLOAT :
        /\ d = F!Scaled(e)
        /\ F!isnan(d) <=> F!isnan(e)
  BY ScaledFact
<1>4. F!FloatsWithin(d, e, a) <=> F!Near(d, e, a)
  BY <1>3, WithinFact
<1>5. report = F!Nothing <=> ~ F!ComparisonFails(call.compare, e, a)
  BY <1>1, <1>2, ReportsApart DEF FloatScalarInv, F!Fails
<1>6. F!ComparisonFails(call.compare, e, a) <=>
        /\ F!Unordered(call.compare, e, a)
        /\ ~ ("EQUAL_TO" \in call.compare /\ F!Near(d, e, a))
  BY <1>3, <1>4 DEF F!ComparisonFails
<1>7. ~ F!Unordered(call.compare, e, a) <=>
         /\ F!NaN \notin {e, a}
         /\ IF "GREATER_THAN" \in call.compare THEN a > e ELSE a < e
  BY <1>2, FloatRange DEF F!Unordered, F!Less, F!isnan, F!NaN
<1> QED
  BY <1>2, <1>3, <1>5, <1>6, <1>7 DEF F!OrderCorrect

(* So does one on infinity and NaN.                                        *)
LEMMA TraitsProved == FloatsInv => F!TraitsCorrect
<1> SUFFICES ASSUME FloatsInv, pc = "returned", call.fn = "FloatSpecial"
             PROVE  F!TraitsCorrect
  BY DEF F!TraitsCorrect
<1>1. FloatScalarInv
  BY DEF FloatsInv
<1>2. PICK a \in F!UNITY_FLOAT, s \in 0..7 :
        actual[1] = a /\ call.style = s
  BY <1>1 DEF FloatScalarInv, FloatScalarArguments
<1>3. report = F!Nothing <=> ~ F!SpecialFails(s, a)
  BY <1>1, <1>2, ReportsApart DEF FloatScalarInv, F!Fails
<1> DEFINE trait == <<{F!Inf}, {-F!Inf}, {F!NaN}, F!Finite>>[s \div 2 + 1]
<1>4. F!is_trait(s, a) <=> a \in trait
  <2>1. s \in {0,1,2,3,4,5,6,7}
    BY <1>2
  <2>2. s \div 2 \in {0, 1, 2, 3}
    BY <2>1
  <2>3. CASE s \div 2 = 0
    <3>1. trait = {F!Inf}
      BY <2>3
    <3>2. F!is_trait(s, a) = (F!isinf(a) /\ F!Less(0, a))
      BY <2>3 DEF F!is_trait
    <3>3. a \in trait <=> F!isinf(a) /\ F!Less(0, a)
      <4> HIDE DEF trait
      <4> QED
        BY <1>2, <3>1, FloatRange
        DEF F!UNITY_FLOAT, F!Finite, F!Inf, F!NaN, F!isinf, F!isnan, F!Less
    <3> QED
      BY <3>2, <3>3, Zenon
  <2>4. CASE s \div 2 = 1
    <3>1. trait = {-F!Inf}
      BY <2>4
    <3>2. F!is_trait(s, a) = (F!isinf(a) /\ F!Less(a, 0))
      BY <2>4 DEF F!is_trait
    <3>3. a \in trait <=> F!isinf(a) /\ F!Less(a, 0)
      <4> HIDE DEF trait
      <4> QED
        BY <1>2, <3>1, FloatRange
        DEF F!UNITY_FLOAT, F!Finite, F!Inf, F!NaN, F!isinf, F!isnan, F!Less
    <3> QED
      BY <3>2, <3>3, Zenon
  <2>5. CASE s \div 2 = 2
    <3>1. trait = {F!NaN}
      BY <2>5
    <3>2. F!is_trait(s, a) = (F!isnan(a))
      BY <2>5 DEF F!is_trait
    <3>3. a \in trait <=> F!isnan(a)
      <4> HIDE DEF trait
      <4> QED
        BY <1>2, <3>1, FloatRange
        DEF F!UNITY_FLOAT, F!Finite, F!Inf, F!NaN, F!isinf, F!isnan, F!Less
    <3> QED
      BY <3>2, <3>3, Zenon
  <2>6. CASE s \div 2 = 3
    <3>1. trait = F!Finite
      BY <2>6
    <3>2. F!is_trait(s, a) = (~ F!isinf(a) /\ ~ F!isnan(a))
      BY <2>6 DEF F!is_trait
    <3>3. a \in trait <=> ~ F!isinf(a) /\ ~ F!isnan(a)
      <4> HIDE DEF trait
      <4> QED
        BY <1>2, <3>1, FloatRange
        DEF F!UNITY_FLOAT, F!Finite, F!Inf, F!NaN, F!isinf, F!isnan, F!Less
    <3> QED
      BY <3>2, <3>3, Zenon
  <2> QED
    BY <2>2, <2>3, <2>4, <2>5, <2>6
<1>5. F!is_trait(s, a) \in BOOLEAN
  <2>1. s \div 2 \in {0, 1, 2, 3}
    BY <1>2
  <2> QED
    BY <2>1 DEF F!is_trait, F!isinf, F!isnan, F!Less
<1>6. report = F!Nothing <=> (F!is_trait(s, a) <=> s % 2 = 1)
  BY <1>3, <1>5 DEF F!SpecialFails
<1> QED
  BY <1>2, <1>4, <1>6 DEF F!TraitsCorrect

(* An assertion on arrays of floats passes exactly when each element is    *)
(* near.                                                                   *)
LEMMA ArraysProved == FloatsInv => F!ArraysCorrect
<1> SUFFICES ASSUME FloatsInv, pc = "returned", call.fn = "WithinFloatArray"
             PROVE  F!ArraysCorrect
  BY DEF F!ArraysCorrect
<1>1. FloatArrayInv
  BY DEF FloatsInv
<1>2. PICK num \in Nat, d \in F!UNITY_FLOAT :
        /\ call.num_elements = num /\ call.delta = d
        /\ actual \in [1..num -> F!UNITY_FLOAT]
        /\ call.flags = "ARRAY_TO_VAL" \/ call.flags = "ARRAY_TO_ARRAY"
        /\ expected \in [1..FloatsExpected -> F!UNITY_FLOAT]
        /\ call.pointers \in {"distinct", "same", "both_NULL",
                              "expected_NULL", "actual_NULL"}
  BY <1>1, FloatArrayArgumentsFact DEF FloatArrayInv
<1>3. ASSUME ~ F!Pointless, NEW k \in 1..num
      PROVE  FloatElementWithin(k) <=> F!IsElement(k)
  <2> DEFINE e == expected[IF call.flags = "ARRAY_TO_VAL" THEN 1 ELSE k]
  <2>1. e \in F!UNITY_FLOAT /\ actual[k] \in F!UNITY_FLOAT
    <3>1. (IF call.flags = "ARRAY_TO_VAL" THEN 1 ELSE k)
             \in 1..FloatsExpected
      BY <1>2 DEF FloatsExpected
    <3> QED
      BY <1>2, <3>1
  <2>2. ~ F!isnan(d)
    BY <1>2, <1>3 DEF F!Pointless
  <2>3. F!ElementDelta(e) \in F!UNITY_FLOAT
        /\ (F!isnan(F!ElementDelta(e)) => F!isnan(e))
    BY <2>1, <2>2, <1>2, ElementDeltaFact
  <2>4. F!FloatsWithin(F!ElementDelta(e), e, actual[k])
          <=> F!Near(F!ElementDelta(e), e, actual[k])
    BY <2>1, <2>3, WithinFact
  <2> QED
    BY <2>4 DEF FloatElementWithin, F!IsElement
<1>4. /\ F!Pointless <=> ~ (num > 0 /\ ~ F!isnan(d))
      /\ F!ForceEqual <=> F!isinf(d)
  <2>1. num = 0 <=> ~ (num > 0)
    BY <1>2
  <2>2. call.num_elements = num /\ call.delta = d
    BY <1>2
  <2> QED
    BY <2>1, <2>2 DEF F!Pointless, F!ForceEqual
<1>5. CASE F!Pointless
  <2>1. report = [why |-> "pointless"]
    BY <1>1, <1>5 DEF FloatArrayInv
  <2> QED
    BY <2>1, <1>2, <1>4, <1>5, ReportsApart DEF F!ArraysCorrect
<1>6. CASE ~ F!Pointless /\ (F!ForceEqual \/ F!EqualPointers)
  <2>1. report = F!Nothing
    BY <1>1, <1>6, ReportsApart DEF FloatArrayInv, F!EqualPointers,
       F!OneArrayNull
  <2> QED
    BY <2>1, <1>2, <1>4, <1>6, ReportsApart DEF F!ArraysCorrect
<1>7. CASE ~ F!Pointless /\ ~ F!ForceEqual /\ F!OneArrayNull
  <2>1. report = [why |-> call.pointers]
    BY <1>1, <1>7 DEF FloatArrayInv, F!EqualPointers, F!OneArrayNull
  <2>2. report # F!Nothing /\ report.why # "failed"
    BY <2>1, <1>7, ReportsApart DEF F!OneArrayNull
  <2> QED
    BY <2>2, <1>2, <1>4, <1>7 DEF F!ArraysCorrect, F!EqualPointers,
       F!OneArrayNull
<1>8. CASE ~ F!Pointless /\ ~ F!ForceEqual /\ call.pointers = "distinct"
  <2>1. ~ F!EqualPointers /\ ~ F!OneArrayNull
    BY <1>8 DEF F!EqualPointers, F!OneArrayNull
  <2>2. CASE report = F!Nothing
    <3>1. \A k \in 1..num : FloatElementWithin(k)
      BY <1>1, <1>2, <1>8, <2>1, <2>2, ReportsApart DEF FloatArrayInv
    <3> QED
      BY <3>1, <2>2, <1>2, <1>3, <1>4, <1>8, ReportsApart DEF F!ArraysCorrect
  <2>3. CASE report # F!Nothing
    <3>1. PICK m \in 0..num - 1 : /\ report = F!Failure(m)
                                /\ ~ FloatElementWithin(m + 1)
                                /\ \A k \in 1..m : FloatElementWithin(k)
      BY <1>1, <1>2, <1>8, <2>1, <2>3 DEF FloatArrayInv
    <3>2. ~ F!IsElement(m + 1) /\ \A k \in 1..m : F!IsElement(k)
      BY <3>1, <1>3, <1>8
    <3> QED
      BY <3>1, <3>2, <2>1, <2>3, <1>2, <1>4, <1>8,
         ReportsApart DEF F!ArraysCorrect
  <2> QED
    BY <2>2, <2>3
<1> QED
  BY <1>2, <1>5, <1>6, <1>7, <1>8 DEF F!EqualPointers, F!OneArrayNull

(* No element is read that is not there.                                   *)
LEMMA FloatBoundsProved == FloatsInv => F!InBounds
<1> SUFFICES ASSUME FloatsInv, pc = "element", elements > 0
             PROVE  ptr_exp < Len(expected) /\ ptr_act < Len(actual)
  BY DEF F!InBounds
<1>1. FloatArrayInv
  BY DEF FloatsInv, FloatScalarInv
<1>2. PICK num \in Nat :
        /\ call.num_elements = num
        /\ actual \in [1..num -> F!UNITY_FLOAT]
        /\ expected \in [1..FloatsExpected -> F!UNITY_FLOAT]
  BY <1>1, FloatArrayArgumentsFact DEF FloatArrayInv
<1>3. /\ Len(actual) = num
      /\ Len(expected) = IF call.flags = "ARRAY_TO_VAL" THEN 1 ELSE num
  BY <1>2 DEF FloatsExpected
<1> QED
  BY <1>1, <1>2, <1>3 DEF FloatArrayInv, FloatsCompared

(* The variables of an assertion on floats have their types: a step of     *)
(* both pointers stays inside the arrays.                                  *)
LEMMA FloatTypesInit == F!Init => F!TypeOK
<1> SUFFICES ASSUME F!Init PROVE F!TypeOK
  OBVIOUS
<1>1. ptr_exp = 0 /\ ptr_act = 0 /\ pc = "call" /\ report = F!Nothing
  BY DEF F!Init
<1>2. /\ elements \in 0..MaxElements
      /\ Len(expected) \in Nat /\ Len(actual) \in Nat
  <2>1. CASE F!ScalarCalls
    <3>1. PICK e \in F!UNITY_FLOAT, a \in F!UNITY_FLOAT :
            expected = <<e>> /\ actual = <<a>> /\ elements = 0
      BY <2>1 DEF F!ScalarCalls
    <3>2. MaxElements \in Nat
      BY ConstantsAssumption
    <3> QED
      BY <3>1, <3>2
  <2>2. CASE F!ArrayCalls
    <3>1. PICK num \in 0..MaxElements,
               flags \in {"ARRAY_TO_ARRAY", "ARRAY_TO_VAL"} :
            /\ actual \in [1..num -> Elements]
            /\ expected \in [1..(IF flags = "ARRAY_TO_VAL" THEN 1 ELSE num)
                               -> Elements]
            /\ elements = num
      BY <2>2 DEF F!ArrayCalls
    <3>2. num \in Nat
      OBVIOUS
    <3>3. PICK m \in Nat : m = IF flags = "ARRAY_TO_VAL" THEN 1 ELSE num
      BY <3>2
    <3>4. expected \in [1..m -> Elements]
      BY <3>1, <3>3
    <3>5. Len(expected) = m /\ Len(actual) = num
      BY <3>1, <3>2, <3>4
    <3> QED
      BY <3>1, <3>2, <3>5
  <2> QED
    BY <2>1, <2>2 DEF F!Init
<1>3. 0 \in 0..Len(expected) /\ 0 \in 0..Len(actual)
  BY <1>2
<1> QED
  BY <1>1, <1>2, <1>3 DEF F!TypeOK, F!Nothing

(* Each step keeps them.                                                   *)
LEMMA FloatTypesStep == FloatsInv /\ F!TypeOK /\ F!Next => F!TypeOK'
<1> SUFFICES ASSUME FloatsInv, F!TypeOK, F!Next PROVE F!TypeOK'
  OBVIOUS
<1>1. UNCHANGED <<call, expected, actual>>
  BY FloatsArgumentsKept
<1>2. ASSUME NEW r, F!Finish(r),
             r.why \in {"none", "failed", "pointless", "expected_NULL",
                        "actual_NULL"}
      PROVE  F!TypeOK'
  <2>1. /\ pc' = "returned" /\ report' = r
        /\ UNCHANGED <<call, expected, actual, ptr_exp, ptr_act, elements>>
    BY <1>1, <1>2 DEF F!Finish
  <2>2. report'.why \in {"none", "failed", "pointless", "expected_NULL",
                         "actual_NULL"}
    BY <1>2, <2>1
  <2> QED
    BY <2>1, <2>2 DEF F!TypeOK
<1>3. /\ F!Nothing.why = "none" /\ \A k : F!Failure(k).why = "failed"
  BY DEF F!Nothing, F!Failure
<1>4. CASE F!AssertScalar
  BY <1>2, <1>3, <1>4 DEF F!AssertScalar
<1>5. CASE F!EnterArray
  <2>1. CASE F!Finish([why |-> "pointless"])
    BY <1>2, <2>1
  <2>2. CASE F!Finish(F!Nothing)
    BY <1>2, <1>3, <2>2
  <2>3. CASE F!OneArrayNull /\ F!Finish([why |-> call.pointers])
    <3>1. call.pointers \in {"expected_NULL", "actual_NULL"}
      BY <2>3 DEF F!OneArrayNull
    <3> QED
      BY <1>2, <2>3, <3>1
  <2>4. CASE /\ pc' = "element"
             /\ UNCHANGED <<ptr_exp, ptr_act, elements, report>>
    BY <1>1, <2>4 DEF F!TypeOK
  <2> QED
    BY <1>5, <2>1, <2>2, <2>3, <2>4 DEF F!EnterArray
<1>6. CASE F!CompareElement
  <2>1. CASE F!Finish(F!Failure(call.num_elements - (elements - 1) - 1))
    BY <1>2, <1>3, <2>1
  <2>2. CASE /\ elements' = F!Left(elements)
             /\ ptr_exp' = ptr_exp + F!ExpectedStep(1)
             /\ ptr_act' = ptr_act + 1
             /\ UNCHANGED <<pc, report>>
    <3>1. pc = "element" /\ elements > 0
      BY <1>6 DEF F!CompareElement
    <3>2. ptr_exp < Len(expected) /\ ptr_act < Len(actual)
      BY <3>1, FloatBoundsProved DEF F!InBounds
    <3>3. /\ elements \in 0..MaxElements /\ MaxElements \in Nat
          /\ ptr_exp \in 0..Len(expected) /\ ptr_act \in 0..Len(actual)
      BY ConstantsAssumption DEF F!TypeOK
    <3>4. Len(expected) \in Nat /\ Len(actual) \in Nat
      <4>1. call.fn = "WithinFloatArray"
        BY <3>1 DEF FloatsInv, FloatScalarInv
      <4>2. PICK num \in Nat :
              /\ call.num_elements = num
              /\ actual \in [1..num -> F!UNITY_FLOAT]
              /\ expected \in [1..FloatsExpected -> F!UNITY_FLOAT]
        BY <4>1, FloatArrayArgumentsFact DEF FloatArrayInv, FloatsInv
      <4>3. PICK m \in Nat : m = FloatsExpected
        BY <4>2 DEF FloatsExpected
      <4> QED
        BY <4>2, <4>3
    <3>5. elements' \in 0..MaxElements
      BY <2>2, <3>1, <3>3 DEF F!Left
    <3>6. ptr_exp' = ptr_exp + 1 \/ ptr_exp' = ptr_exp + 0
      BY <2>2 DEF F!ExpectedStep
    <3>7. ptr_exp' \in 0..Len(expected) /\ ptr_act' \in 0..Len(actual)
      BY <2>2, <3>2, <3>3, <3>4, <3>6
    <3> QED
      BY <1>1, <2>2, <3>5, <3>7 DEF F!TypeOK
  <2> QED
    BY <1>6, <2>1, <2>2 DEF F!CompareElement
<1>7. CASE F!Return
  BY <1>2, <1>3, <1>7 DEF F!Return
<1> QED
  BY <1>4, <1>5, <1>6, <1>7 DEF F!Next

=============================================================================
