--------------------------- MODULE UnityCallsProof --------------------------
(***************************************************************************)
(* What a test may rely on, whatever it calls.  Integers are printed as    *)
(* what reads back as them, and floats as what reads back as them but for  *)
(* the roundings that scaled them and for half a unit of the last digit,   *)
(* with digits that fit their buffer.  The last part puts this together    *)
(* with what module UnityAssertionsProof shows of the assertions.          *)
(***************************************************************************)
EXTENDS UnityAssertionsProof

-----------------------------------------------------------------------------
(* Printing of integers                                                    *)

(* The powers of ten: what can be reached from 1 by factors of ten.        *)
ClosedByTen(T) == 1 \in T /\ \A w \in T : w * 10 \in T
Tens == {d \in Nat : \A T \in SUBSET Nat : ClosedByTen(T) => d \in T}

(* One is a power of ten; ten times a power is one; and each but one is    *)
(* ten times another.                                                      *)
LEMMA TensFact ==
  /\ 1 \in Tens /\ Tens \subseteq Nat
  /\ \A d \in Tens : d * 10 \in Tens
  /\ \A d \in Tens : d = 1 \/ \E e \in Tens : d = e * 10
  /\ \A d \in Tens : d >= 1
<1>1. Tens \subseteq Nat
  BY DEF Tens
<1>2. 1 \in Tens
  BY DEF Tens, ClosedByTen
<1>3. ASSUME NEW d \in Tens PROVE d * 10 \in Tens
  <2>1. d * 10 \in Nat
    BY <1>1
  <2>2. ASSUME NEW T \in SUBSET Nat, ClosedByTen(T) PROVE d * 10 \in T
    BY <2>2 DEF Tens, ClosedByTen
  <2> QED
    BY <2>1, <2>2 DEF Tens
<1> DEFINE U == {1} \cup {e * 10 : e \in Tens}
<1>4. U \in SUBSET Nat /\ U \subseteq Tens
  BY <1>1, <1>2, <1>3
<1>5. ClosedByTen(U)
  <2>1. \A w \in U : w * 10 \in U
    BY <1>4
  <2> QED
    BY <2>1 DEF ClosedByTen
<1>6. ASSUME NEW d \in Tens PROVE d \in U
  <2> HIDE DEF U
  <2> QED
    BY <1>4, <1>5 DEF Tens
<1>7. ASSUME NEW d \in Tens PROVE d >= 1
  <2> DEFINE V == Nat \ {0}
  <2>1. V \in SUBSET Nat /\ ClosedByTen(V)
    BY DEF ClosedByTen
  <2>2. d \in V
    <3> HIDE DEF V
    <3> QED
      BY <2>1 DEF Tens
  <2> QED
    BY <2>2
<1> QED
  BY <1>1, <1>2, <1>3, <1>6, <1>7

(* The characters of s that come after the first m.                        *)
After(s, m) == SubSeq(s, m + 1, Len(s))

(* What is left of a sequence without its first m elements.                *)
LEMMA AfterFact ==
  ASSUME NEW T, NEW s \in Seq(T), NEW m \in Nat, m <= Len(s)
  PROVE  /\ After(s, m) \in Seq(T) /\ Len(After(s, m)) = Len(s) - m
         /\ \A w \in 1..Len(s) - m : After(s, m)[w] = s[m + w]
<1>1. Len(s) \in Nat /\ \A w \in 1..Len(s) : s[w] \in T
  BY LenProperties
<1>2. /\ SubSeq(s, m + 1, Len(s)) \in Seq(T)
      /\ Len(SubSeq(s, m + 1, Len(s)))
           = IF m + 1 <= Len(s) THEN Len(s) - (m + 1) + 1 ELSE 0
      /\ \A w \in 1..Len(s) - (m + 1) + 1 :
           SubSeq(s, m + 1, Len(s))[w] = s[(m + 1) + w - 1]
  <2>1. m + 1 \in Int /\ Len(s) \in Int
    BY <1>1
  <2>2. \A w \in m + 1..Len(s) : s[w] \in T
    BY <1>1
  <2> QED
    BY <2>1, <2>2, SubSeqProperties
<1>3. Len(s) - (m + 1) + 1 = Len(s) - m
  BY <1>1
<1>4. \A w \in 1..Len(s) - m : (m + 1) + w - 1 = m + w
  BY <1>1
<1>5. (IF m + 1 <= Len(s) THEN Len(s) - (m + 1) + 1 ELSE 0) = Len(s) - m
  BY <1>1
<1> QED
  BY <1>2, <1>3, <1>4, <1>5 DEF After

(* Adding an element commutes with dropping the first ones.                *)
LEMMA AfterAppend ==
  ASSUME NEW T, NEW s \in Seq(T), NEW m \in Nat, m <= Len(s), NEW c \in T
  PROVE  After(Append(s, c), m) = Append(After(s, m), c)
<1> DEFINE u == Append(s, c)
           v == Append(After(s, m), c)
<1>1. /\ u \in Seq(T) /\ Len(u) = Len(s) + 1 /\ Len(s) \in Nat
      /\ \A w \in 1..Len(s) : u[w] = s[w]
      /\ u[Len(s) + 1] = c
  BY AppendProperties, LenProperties
<1>2. /\ After(s, m) \in Seq(T) /\ Len(After(s, m)) = Len(s) - m
      /\ \A w \in 1..Len(s) - m : After(s, m)[w] = s[m + w]
  BY AfterFact
<1>3. /\ v \in Seq(T) /\ Len(v) = Len(s) - m + 1
      /\ \A w \in 1..Len(s) - m : v[w] = After(s, m)[w]
      /\ v[Len(s) - m + 1] = c
  BY <1>2, AppendProperties
<1> HIDE DEF u, v
<1>4. /\ After(u, m) \in Seq(T) /\ Len(After(u, m)) = Len(u) - m
      /\ \A w \in 1..Len(u) - m : After(u, m)[w] = u[m + w]
  <2>1. m <= Len(u)
    BY <1>1
  <2>2. u \in Seq(T)
    BY <1>1
  <2> QED
    BY <2>1, <2>2, AfterFact
<1>5. Len(After(u, m)) = Len(v) /\ Len(v) = Len(s) - m + 1
  BY <1>1, <1>3, <1>4
<1>6. ASSUME NEW w \in 1..Len(v) PROVE After(u, m)[w] = v[w]
  <2>1. w \in 1..Len(u) - m
    BY <1>1, <1>5
  <2>2. After(u, m)[w] = u[m + w]
    BY <1>4, <2>1
  <2>3. CASE w = Len(s) - m + 1
    <3>1. m + w = Len(s) + 1
      BY <1>1, <2>3
    <3> QED
      BY <1>1, <1>3, <2>2, <2>3, <3>1
  <2>4. CASE w # Len(s) - m + 1
    <3>1. w \in 1..Len(s) - m /\ m + w \in 1..Len(s)
      BY <1>1, <1>5, <2>4
    <3> QED
      BY <1>1, <1>2, <1>3, <2>2, <3>1
  <2> QED
    BY <2>3, <2>4
<1>7. After(u, m) = v
  BY <1>3, <1>4, <1>5, <1>6, SeqEqual
<1> QED
  BY <1>7 DEF u, v

(* What ReadAs adds up.                                                    *)
Reads(sum, base, digits) ==
  /\ sum[0] = 0
  /\ \A k \in 1..Len(digits) :
       sum[k] = sum[k - 1] * base + P!ValueOfDigit(digits[k])

(* Reading digits as a number goes from one to the next.                   *)
LEMMA ReadFact ==
  ASSUME NEW base \in Int, NEW digits \in Seq(Int)
  PROVE  \E g \in [0..Len(digits) -> Int] :
           Reads(g, base, digits) /\ P!ReadAs(base, digits) = g[Len(digits)]
<1> DEFINE size == Len(digits)
           term == [k \in 1..size |-> P!ValueOfDigit(digits[k])]
           next == [w \in (1..size) \X Int |-> w[2] * base + term[w[1]]]
           Body(sum) == [k \in 0..size |->
                           IF k = 0 THEN 0 ELSE sum[k - 1] * base
                             + P!ValueOfDigit(digits[k])]
           sum == CHOOSE f : f = Body(f)
<1>1. P!ReadAs(base, digits) = sum[size]
  BY DEF P!ReadAs
<1>2. size \in Nat /\ term \in [1..size -> Int]
  <2>1. size \in Nat /\ \A k \in 1..size : digits[k] \in Int
    BY LenProperties
  <2>2. ASSUME NEW k \in 1..size PROVE P!ValueOfDigit(digits[k]) \in Int
    BY <2>1 DEF P!ValueOfDigit
  <2> QED
    BY <2>1, <2>2
<1> HIDE DEF size, term
<1>3. next \in StepFunctions(size, Int)
  BY <1>2 DEF StepFunctions
<1> HIDE DEF next
<1>4. PICK g \in [0..size -> Int] :
        g[0] = 0 /\ \A k \in 1..size : g[k] = next[<<k, g[k - 1]>>]
  <2>1. 0 \in Int
    OBVIOUS
  <2>2. \E g \in [0..size -> Int] : StartsAndFollows(g, size, 0, next)
    BY <1>2, <1>3, <2>1, StepsExist
  <2> QED
    BY <2>2 DEF StartsAndFollows
<1>5. \A k \in 1..size : g[k] = g[k - 1] * base + term[k]
  <2>1. \A k \in 1..size : <<k, g[k - 1]>> \in (1..size) \X Int
    BY <1>2
  <2> QED
    BY <1>4, <2>1 DEF next
<1>6. \A k \in 1..size : g[k] = g[k - 1] * base + P!ValueOfDigit(digits[k])
  BY <1>5 DEF term
<1>7. g = Body(g)
  BY <1>2, <1>4, <1>6
<1>8. sum = Body(sum)
  BY <1>7, Zenon
<1> HIDE DEF sum
<1>9. sum[0] = 0 /\ \A k \in 1..size :
        sum[k] = sum[k - 1] * base + P!ValueOfDigit(digits[k])
  BY <1>2, <1>8
<1>10. sum[size] = g[size]
  <2>1. sum[0] = g[0]
    BY <1>4, <1>9
  <2>2. \A k \in 1..size : sum[k - 1] = g[k - 1] => sum[k] = g[k]
    BY <1>6, <1>9, Zenon
  <2>3. Together(sum, g, size)
    BY <2>1, <2>2, Zenon DEF Together
  <2>4. \A k \in 0..size : sum[k] = g[k]
    BY <1>2, <2>3, StepsUnique
  <2> QED
    BY <1>2, <2>4
<1>11. Reads(g, base, digits)
  BY <1>4, <1>6 DEF Reads, size
<1> QED
  BY <1>1, <1>10, <1>11 DEF size

(* No digits read as zero.                                                 *)
LEMMA ReadEmpty ==
  ASSUME NEW base \in Int, NEW digits \in Seq(Int), Len(digits) = 0
  PROVE  P!ReadAs(base, digits) = 0
<1>1. PICK g \in [0..Len(digits) -> Int] :
        Reads(g, base, digits) /\ P!ReadAs(base, digits) = g[Len(digits)]
  BY ReadFact
<1> QED
  BY <1>1 DEF Reads

(* One digit more.                                                         *)
LEMMA ReadAppend ==
  ASSUME NEW base \in Int, NEW digits \in Seq(Int), NEW c \in Int
  PROVE  /\ P!ReadAs(base, Append(digits, c))
              = P!ReadAs(base, digits) * base + P!ValueOfDigit(c)
         /\ P!ReadAs(base, digits) \in Int
<1> DEFINE size == Len(digits)
           longer == Append(digits, c)
<1>1. PICK g \in [0..size -> Int] :
        Reads(g, base, digits) /\ P!ReadAs(base, digits) = g[size]
  BY ReadFact
<1>2. /\ longer \in Seq(Int) /\ Len(longer) = size + 1 /\ size \in Nat
      /\ \A k \in 1..size : longer[k] = digits[k]
      /\ longer[size + 1] = c
  BY AppendProperties, LenProperties
<1> HIDE DEF longer
<1>3. PICK h \in [0..Len(longer) -> Int] :
        Reads(h, base, longer) /\ P!ReadAs(base, longer) = h[Len(longer)]
  <2>1. longer \in Seq(Int)
    BY <1>2
  <2> QED
    BY <2>1, ReadFact
<1>4. /\ h[0] = 0
      /\ \A k \in 1..size + 1 :
           h[k] = h[k - 1] * base + P!ValueOfDigit(longer[k])
  BY <1>2, <1>3 DEF Reads
<1>5. /\ g[0] = 0
      /\ \A k \in 1..size : g[k] = g[k - 1] * base + P!ValueOfDigit(digits[k])
  BY <1>1 DEF Reads
<1> HIDE DEF size
<1>6. Together(h, g, size)
  <2>1. ASSUME NEW k \in 1..size, h[k - 1] = g[k - 1] PROVE h[k] = g[k]
    <3>1. k \in 1..size + 1
      BY <1>2
    <3>2. h[k] = h[k - 1] * base + P!ValueOfDigit(longer[k])
      BY <1>4, <3>1
    <3>3. g[k] = g[k - 1] * base + P!ValueOfDigit(digits[k])
      BY <1>5
    <3>4. longer[k] = digits[k]
      BY <1>2
    <3> QED
      BY <2>1, <3>2, <3>3, <3>4, Zenon
  <2> QED
    BY <1>4, <1>5, <2>1 DEF Together
<1>7. h[size] = g[size] /\ g[size] \in Int
  <2>0. size \in Nat
    BY <1>2
  <2>1. \A k \in 0..size : h[k] = g[k]
    BY <2>0, <1>6, StepsUnique
  <2> QED
    BY <1>1, <2>0, <2>1
<1>8. h[size + 1] = h[size] * base + P!ValueOfDigit(c)
  <2>1. size + 1 \in 1..size + 1 /\ (size + 1) - 1 = size
    BY <1>2
  <2>2. h[size + 1] = h[(size + 1) - 1] * base
                        + P!ValueOfDigit(longer[size + 1])
    BY <1>4, <2>1
  <2> QED
    BY <1>2, <2>1, <2>2
<1>9. P!ReadAs(base, longer) = h[size + 1]
  BY <1>2, <1>3
<1> QED
  BY <1>1, <1>7, <1>8, <1>9 DEF longer

(* The number that is printed, and what is printed before its digits.      *)
Signed == style.range = "INT" /\ input < 0
Magnitude == IF Signed THEN -input ELSE P!Wrapped(input)
Sign == IF Signed THEN <<45>> ELSE <<>>
Skip == IF Signed THEN 1 ELSE 0
Asked == IF style.nibbles < P!MaxNibbles THEN style.nibbles ELSE P!MaxNibbles
Char == 32..126

PrintCall ==
  /\ input \in P!UNITY_INT
  /\ style.range \in {"INT", "UINT", "HEX", "CHAR", "MASK"}
  /\ style.range = "HEX" => style.nibbles \in Nat
  /\ style.range = "MASK" => style.mask \in P!UNITY_UINT
  /\ style.range = "CHAR" => input \in P!CharType

Decimal == style.range \in {"INT", "UINT"}

(* What has been printed of number in decimal, before the digit that       *)
(* divisor is the weight of.                                               *)
DecimalSoFar(above) ==
  /\ Skip <= Len(out) /\ (Signed => out[1] = 45)
  /\ P!ReadAs(10, After(out, Skip)) = above
  /\ \A k \in 1..Len(After(out, Skip)) : After(out, Skip)[k] \in 48..57

NoLeadingZero == Len(out) > Skip => out[Skip + 1] # 48

Scaling == pc = "scale" =>
  /\ Decimal /\ number = Magnitude /\ divisor \in Tens
  /\ divisor <= (IF number = 0 THEN 1 ELSE number)
  /\ out = Sign

PrintingDigits == pc = "digits" =>
  /\ Decimal /\ number = Magnitude /\ divisor \in Tens
  /\ divisor <= (IF number = 0 THEN 1 ELSE number)
  /\ DecimalSoFar(number \div (divisor * 10))
  /\ NoLeadingZero

PrintingHex == pc = "hex" =>
  /\ style.range = "HEX" /\ number = P!Wrapped(input)
  /\ nibbles \in 0..Asked
  /\ Len(out) = 2 + (Asked - nibbles)
  /\ P!ReadAs(16, After(out, 2))
       = ((number \div 2 ^ (4 * nibbles)) % 2 ^ (4 * (Asked - nibbles)))
  /\ \A k \in 1..Len(After(out, 2)) : After(out, 2)[k] \in 48..57 \cup 65..70

MaskBit(k) == 2 ^ (4 * ByteBits - k)

MaskShown(k) ==
  /\ out[k] = 88 <=> P!BitOf(style.mask, MaskBit(k)) = 0
  /\ out[k] \in {48, 49} =>
       out[k] - 48 = P!BitOf(P!Wrapped(input), MaskBit(k))

PrintingMask == pc = "mask" =>
  /\ style.range = "MASK" /\ number = P!Wrapped(input)
  /\ Len(out) <= 4 * ByteBits
  /\ divisor = IF Len(out) < 4 * ByteBits THEN MaskBit(Len(out) + 1) ELSE 0
  /\ \A k \in 1..Len(out) : MaskShown(k)

PrintInv ==
  /\ PrintCall /\ P!TypeOK
  /\ Scaling /\ PrintingDigits /\ PrintingHex /\ PrintingMask
  /\ P!DecimalReadsBack /\ P!HexReadsBack /\ P!MaskReadsBack

(* The widths.                                                             *)
IntTop == 2 ^ (8 * ByteBits)

(* The ranges of the types that are printed.                               *)
LEMMA WidthsFact ==
  /\ IntTop \in Nat /\ IntTop >= 256 /\ P!UNITY_UINT = 0..IntTop - 1
  /\ \A x : P!Wrapped(x) = (x % IntTop)
  /\ \A x \in P!UNITY_INT :
       /\ x \in Int /\ -IntTop < x /\ x < IntTop /\ 2 * x < IntTop
       /\ -x <= IntTop - 1
  /\ P!MaxNibbles \in Nat /\ 4 * P!MaxNibbles = 8 * ByteBits
<1>1. ByteBits \in Nat /\ ByteBits > 0 /\ P!WidthAssumption
  BY ConstantsAssumption, BytePositive
<1>2. 8 * ByteBits \in Nat /\ 8 * ByteBits > 0 /\ 8 * ByteBits >= 8
  BY <1>1
<1>3. IntTop \in Nat /\ IntTop = 2 * 2 ^ (8 * ByteBits - 1)
      /\ 2 ^ (8 * ByteBits - 1) \in Nat /\ IntTop > 0
  BY <1>2, WidthFact DEF IntTop
<1>4. IntTop >= 256
  <2>1. 2 ^ 8 <= IntTop
    BY <1>2, TwoPowOrder DEF IntTop
  <2>2. 2 ^ 8 = 256
    OBVIOUS
  <2> QED
    BY <1>3, <2>1, <2>2
<1>5. P!UNITY_UINT = 0..IntTop - 1 /\ \A x : P!Wrapped(x) = (x % IntTop)
  BY DEF P!UNITY_UINT, P!Wrapped, IntTop
<1>6. P!UNITY_INT = -(2 ^ (8 * ByteBits - 1))..2 ^ (8 * ByteBits - 1) - 1
  BY DEF P!UNITY_INT
<1>7. P!MaxNibbles = (8 * ByteBits) \div 4
  BY DEF P!MaxNibbles
<1>8. (8 * ByteBits) \div 4 = 2 * ByteBits
  BY <1>1
<1> QED
  BY <1>1, <1>3, <1>4, <1>5, <1>6, <1>7, <1>8

(* What UnityPrintNumber makes of a number is what there is to print.      *)
LEMMA AbsoluteFact ==
  ASSUME input \in P!UNITY_INT
  PROVE  /\ style.range = "INT" => P!Absolute(input) = Magnitude
         /\ Magnitude \in P!UNITY_UINT /\ P!Wrapped(input) \in P!UNITY_UINT
         /\ Magnitude \in Nat /\ P!Wrapped(input) \in Nat
<1> DEFINE M == IntTop
<1>1. /\ M \in Nat /\ M >= 256 /\ P!UNITY_UINT = 0..M - 1
      /\ \A x : P!Wrapped(x) = (x % M)
      /\ input \in Int /\ -M < input /\ input < M
  BY WidthsFact
<1> HIDE DEF M
<1>2. (input % M) \in 0..M - 1
  BY <1>1, DivMod
<1>3. input < 0 => (input % M) = input + M
  <2> HAVE input < 0
  <2>1. input + M \in 0..M - 1 /\ input = M * (-1) + (input + M)
    BY <1>1
  <2>2. input + M \in 0..M - 1 /\ -1 \in Int /\ M > 0
    BY <1>1, <2>1
  <2> QED
    BY <1>1, <2>1, <2>2, DivModUnique
<1>4. \A x \in 0..M - 1 : (x % M) = x
  <2> TAKE x \in 0..M - 1
  <2>1. x = M * 0 + x /\ 0 \in Int /\ x \in Int /\ M > 0
    BY <1>1
  <2> QED
    BY <1>1, <2>1, DivModUnique
<1>5. CASE input < 0
  <2>1. P!Wrapped(input) = input + M
    BY <1>1, <1>3, <1>5
  <2>2. M - 1 - P!Wrapped(input) + 1 = -input
    BY <1>1, <2>1
  <2>3. -input \in 0..M - 1
    BY <1>1, <1>5
  <2>4. P!Wrapped(-input) = -input
    BY <1>1, <1>4, <2>3
  <2>5. P!Absolute(input) = P!Wrapped(M - 1 - P!Wrapped(input) + 1)
    BY <1>5 DEF P!Absolute, M, IntTop
  <2>6. P!Absolute(input) = -input
    BY <2>2, <2>4, <2>5
  <2>7. P!Wrapped(input) \in 0..M - 1
    BY <1>1, <1>2
  <2>8. style.range = "INT" => Magnitude = -input
    BY <1>5 DEF Magnitude, Signed
  <2>9. style.range # "INT" => Magnitude = P!Wrapped(input)
    BY DEF Magnitude, Signed
  <2> QED
    BY <1>1, <2>3, <2>6, <2>7, <2>8, <2>9
<1>6. CASE ~ (input < 0)
  <2>1. P!Absolute(input) = P!Wrapped(input) /\ Magnitude = P!Wrapped(input)
    BY <1>6 DEF P!Absolute, Magnitude, Signed
  <2> QED
    BY <1>1, <1>2, <2>1
<1> QED
  BY <1>5, <1>6

(* Sequences of characters.                                                *)
LEMMA CharSeq ==
  /\ <<>> \in Seq(Char) /\ Len(<<>>) = 0
  /\ \A c \in Char : <<c>> \in Seq(Char) /\ Len(<<c>>) = 1 /\ <<c>>[1] = c
  /\ \A s \in Seq(Char) : s \in Seq(Int)
<1>1. <<>> \in Seq(Char) /\ Len(<<>>) = 0
  BY EmptySeq
<1>2. ASSUME NEW c \in Char
      PROVE  <<c>> \in Seq(Char) /\ Len(<<c>>) = 1 /\ <<c>>[1] = c
  OBVIOUS
<1>3. ASSUME NEW s \in Seq(Char) PROVE s \in Seq(Int)
  <2>1. Len(s) \in Nat /\ s \in [1..Len(s) -> Char]
    BY LenProperties
  <2>2. s \in [1..Len(s) -> Int]
    <3>1. Char \subseteq Int
      BY DEF Char
    <3> HIDE DEF Char
    <3> QED
      BY <2>1, <3>1
  <2> QED
    BY <2>1, <2>2, SeqDef
<1> QED
  BY <1>1, <1>2, <1>3

(* A number begins to be printed in decimal.                               *)
LEMMA StartStep ==
  ASSUME PrintInv, Decimal, pc = "call", style' = style, input' = input,
         P!StartUnsigned(Magnitude, Sign)
  PROVE  PrintInv'
<1>1. /\ number' = Magnitude /\ divisor' = 1 /\ out' = Sign
      /\ pc' = "scale" /\ nibbles' = nibbles
  BY DEF P!StartUnsigned
<1>2. PrintCall /\ P!TypeOK /\ input \in P!UNITY_INT
  BY DEF PrintInv, PrintCall
<1>3. Magnitude \in P!UNITY_UINT /\ Magnitude \in Nat
  BY <1>2, AbsoluteFact
<1>4. PrintCall'
  BY <1>2 DEF PrintCall
<1>5. P!TypeOK'
  <2>1. Sign \in Seq(32..126)
    <3>1. <<45>> \in Seq(32..126) /\ <<>> \in Seq(32..126)
      BY CharSeq, 45 \in Char DEF Char
    <3> QED
      BY <3>1, Zenon DEF Sign
  <2>2. 1 \in P!UNITY_UINT
    BY WidthsFact
  <2> QED
    BY <1>1, <1>2, <1>3, <2>1, <2>2 DEF P!TypeOK
<1>6. Scaling'
  <2>1. Magnitude' = Magnitude /\ Sign' = Sign /\ Decimal'
    BY DEF Magnitude, Sign, Signed, Decimal
  <2> QED
    BY <1>1, <1>3, <2>1, TensFact DEF Scaling
<1>7. PrintingDigits' /\ PrintingHex' /\ PrintingMask'
      /\ P!DecimalReadsBack' /\ P!HexReadsBack' /\ P!MaskReadsBack'
  BY <1>1 DEF PrintingDigits, PrintingHex, PrintingMask, P!DecimalReadsBack,
     P!HexReadsBack, P!MaskReadsBack
<1> QED
  BY <1>4, <1>5, <1>6, <1>7 DEF PrintInv

(* UnityPrintNumber prints a sign and keeps the magnitude, the least       *)
(* number's too.                                                           *)
LEMMA PrintNumberStep == PrintInv /\ P!PrintNumber => PrintInv'
<1> SUFFICES ASSUME PrintInv, P!PrintNumber PROVE PrintInv'
  OBVIOUS
<1>1. pc = "call" /\ style.range = "INT" /\ style' = style /\ input' = input
  BY DEF P!PrintNumber
<1>2. P!Absolute(input) = Magnitude
  BY <1>1, AbsoluteFact DEF PrintInv, PrintCall
<1>3. input \in Int
  BY WidthsFact DEF PrintInv, PrintCall
<1>4. P!StartUnsigned(P!Absolute(input), Sign)
  BY <1>1, <1>3 DEF P!PrintNumber, Sign, Signed
<1> QED
  BY <1>1, <1>2, <1>4, StartStep DEF Decimal

(* UnityPrintNumberUnsigned starts with the divisor one.                   *)
LEMMA PrintUnsignedStep == PrintInv /\ P!PrintUnsigned => PrintInv'
<1> SUFFICES ASSUME PrintInv, P!PrintUnsigned PROVE PrintInv'
  OBVIOUS
<1>1. /\ pc = "call" /\ style.range = "UINT" /\ style' = style
      /\ input' = input /\ P!StartUnsigned(P!Wrapped(input), <<>>)
  BY DEF P!PrintUnsigned
<1>2. Magnitude = P!Wrapped(input) /\ Sign = <<>>
  BY <1>1 DEF Magnitude, Sign, Signed
<1> QED
  BY <1>1, <1>2, StartStep DEF Decimal

(* What is left of the arithmetic of a divisor.                            *)
LEMMA DivisorArithmetic ==
  ASSUME NEW m \in Nat, NEW d \in Nat, d >= 1
  PROVE  /\ m \div d \in Nat
         /\ m \div d > 9 => d * 10 <= m
         /\ ~ (m \div d > 9) => m \div (d * 10) = 0
         /\ (m \div d) \div 10 = m \div (d * 10) /\ m \div (d * 10) \in Nat
         /\ m \div d = 10 * (m \div (d * 10)) + ((m \div d) % 10)
         /\ ((m \div d) % 10) \in 0..9
         /\ d <= m => m \div d >= 1
         /\ m \div 1 = m
<1> DEFINE q == m \div d
           r == m % d
<1>1. q \in Int /\ r \in 0..d - 1 /\ m = d * q + r
  BY DivMod
<1> HIDE DEF q, r
<1>2. q \in Nat
  <2>1. SUFFICES ASSUME q <= -1 PROVE FALSE
    BY <1>1
  <2>2. d * q <= d * (-1)
    BY <1>1, <2>1
  <2> QED
    BY <1>1, <2>2
<1>3. q > 9 => d * 10 <= m
  <2> HAVE q > 9
  <2>1. d * 10 <= d * q
    BY <1>2
  <2> QED
    BY <1>1, <1>2, <2>1
<1>4. (m \div d) \div 10 = m \div (d * 10)
  <2>1. m \in Int /\ d > 0 /\ 10 \in Nat /\ 10 > 0
    OBVIOUS
  <2> QED
    BY <2>1, DivDiv
<1>5. /\ q \div 10 \in Int /\ (q % 10) \in 0..9
      /\ q = 10 * (q \div 10) + (q % 10)
  <2>1. q \in Int /\ 10 \in Nat /\ 10 > 0 /\ 10 - 1 = 9
    BY <1>2
  <2> QED
    BY <2>1, DivMod
<1>6. q \div 10 \in Nat /\ (~ (q > 9) => q \div 10 = 0)
  BY <1>2, <1>5
<1>7. d <= m => q >= 1
  <2> HAVE d <= m
  <2>1. SUFFICES ASSUME q = 0 PROVE FALSE
    BY <1>2
  <2>2. d * q = 0
    BY <2>1
  <2> QED
    BY <1>1, <2>2
<1>8. m \div 1 = m
  OBVIOUS
<1> QED
  BY <1>2, <1>3, <1>4, <1>5, <1>6, <1>7, <1>8 DEF q

(* Nothing but the sign is printed yet.                                    *)
LEMMA NothingRead ==
  ASSUME out = Sign
  PROVE  DecimalSoFar(0) /\ NoLeadingZero
<1>0. 45 \in Char
  BY DEF Char
<1>1. out \in Seq(Char) /\ Len(out) = Skip /\ (Signed => out[1] = 45)
  <2>1. CASE Signed
    <3>1. out = <<45>> /\ Skip = 1
      BY <2>1, Zenon DEF Sign, Skip
    <3> QED
      BY <1>0, <3>1, CharSeq, Zenon
  <2>2. CASE ~ Signed
    <3>1. out = <<>> /\ Skip = 0
      BY <2>2, Zenon DEF Sign, Skip
    <3> QED
      BY <2>2, <3>1, CharSeq, Zenon
  <2> QED
    BY <2>1, <2>2
<1>2. Skip \in Nat
  BY DEF Skip
<1>3. Skip <= Len(out)
  BY <1>1, <1>2
<1>4. /\ After(out, Skip) \in Seq(Char)
      /\ Len(After(out, Skip)) = Len(out) - Skip
  BY <1>1, <1>2, <1>3, AfterFact
<1>5. Len(After(out, Skip)) = 0
  BY <1>1, <1>2, <1>4
<1>6. After(out, Skip) \in Seq(Int)
  BY <1>4, CharSeq
<1>7. P!ReadAs(10, After(out, Skip)) = 0
  BY <1>5, <1>6, 10 \in Int, ReadEmpty
<1>8. NoLeadingZero
  BY <1>1, <1>2 DEF NoLeadingZero
<1> QED
  BY <1>1, <1>3, <1>5, <1>7, <1>8 DEF DecimalSoFar

(* One more digit is read after the others.                                *)
LEMMA DigitRead ==
  ASSUME out \in Seq(Char), NEW above \in Nat, DecimalSoFar(above),
         NEW digit \in 0..9, out' = Append(out, 48 + digit),
         style' = style, input' = input
  PROVE  /\ DecimalSoFar(above * 10 + digit)'
         /\ out' \in Seq(Char) /\ Len(out') = Len(out) + 1
         /\ Len(out) \in Nat /\ Skip \in Nat /\ Skip <= Len(out)
         /\ \A k \in 1..Len(out) : out'[k] = out[k]
         /\ out'[Len(out) + 1] = 48 + digit
         /\ Skip' = Skip
         /\ Len(After(out', Skip)) = Len(out) + 1 - Skip
         /\ After(out', Skip)[1] = out'[Skip + 1]
         /\ Len(out) = Skip => above = 0
<1> DEFINE c == 48 + digit
           s == After(out, Skip)
<1>1. Skip \in Nat /\ Skip <= Len(out) /\ Len(out) \in Nat
      /\ (Signed => Skip = 1)
  BY LenProperties DEF Skip, DecimalSoFar
<1>2. c \in Char /\ c \in 48..57 /\ P!ValueOfDigit(c) = digit /\ c \in Int
  BY DEF Char, P!ValueOfDigit
<1>3. Skip' = Skip /\ Signed' = Signed
  BY DEF Skip, Signed
<1> HIDE DEF c
<1>4. /\ out' \in Seq(Char) /\ Len(out') = Len(out) + 1
      /\ \A k \in 1..Len(out) : out'[k] = out[k]
      /\ out'[Len(out) + 1] = c
  BY <1>2, AppendProperties DEF c
<1>5. /\ s \in Seq(Char) /\ Len(s) = Len(out) - Skip
  BY <1>1, AfterFact
<1>6. After(out', Skip) = Append(s, c)
  <2>1. After(Append(out, c), Skip) = Append(s, c)
    BY <1>1, <1>2, AfterAppend
  <2> QED
    BY <2>1 DEF c
<1> HIDE DEF s
<1>7. s \in Seq(Int)
  BY <1>5, CharSeq
<1>8. P!ReadAs(10, Append(s, c)) = P!ReadAs(10, s) * 10 + P!ValueOfDigit(c)
  BY <1>2, <1>7, 10 \in Int, ReadAppend
<1>9. P!ReadAs(10, s) = above /\ \A k \in 1..Len(s) : s[k] \in 48..57
  BY DEF DecimalSoFar, s
<1>10. P!ReadAs(10, After(out', Skip)) = above * 10 + digit
  BY <1>2, <1>6, <1>8, <1>9
<1>11. /\ Len(Append(s, c)) = Len(s) + 1 /\ Len(s) \in Nat
       /\ \A k \in 1..Len(s) : Append(s, c)[k] = s[k]
       /\ Append(s, c)[Len(s) + 1] = c
  BY <1>2, <1>5, AppendProperties, LenProperties
<1>12. ASSUME NEW k \in 1..Len(Append(s, c))
       PROVE  Append(s, c)[k] \in 48..57
  <2>1. CASE k = Len(s) + 1
    BY <1>2, <1>11, <2>1
  <2>2. CASE k # Len(s) + 1
    <3>1. k \in 1..Len(s)
      BY <1>11, <2>2
    <3> QED
      BY <1>9, <1>11, <3>1
  <2> QED
    BY <2>1, <2>2
<1>13. \A k \in 1..Len(After(out', Skip)) : After(out', Skip)[k] \in 48..57
  BY <1>6, <1>12
<1>14. Signed => out'[1] = 45
  <2> HAVE Signed
  <2>1. 1 \in 1..Len(out) /\ out[1] = 45
    BY <1>1 DEF DecimalSoFar
  <2> QED
    BY <1>4, <2>1
<1>15. DecimalSoFar(above * 10 + digit)'
  <2>1. Skip <= Len(out')
    BY <1>1, <1>4
  <2> QED
    BY <1>3, <1>10, <1>13, <1>14, <2>1, Zenon DEF DecimalSoFar, After
<1>16. Len(After(out', Skip)) = Len(out) + 1 - Skip
  <2>1. Len(After(out', Skip)) = Len(s) + 1
    BY <1>6, <1>11
  <2> QED
    BY <1>1, <1>5, <2>1
<1>17. After(out', Skip)[1] = out'[Skip + 1]
  <2>1. Skip <= Len(out') /\ 1 \in 1..Len(out') - Skip
    BY <1>1, <1>4
  <2>2. out' \in Seq(Char)
    BY <1>4
  <2>3. \A w \in 1..Len(out') - Skip : After(out', Skip)[w] = out'[Skip + w]
    BY <1>1, <2>1, <2>2, AfterFact
  <2> QED
    BY <2>1, <2>3
<1>18. Len(out) = Skip => above = 0
  <2> HAVE Len(out) = Skip
  <2>1. Len(s) = 0
    BY <1>1, <1>5
  <2> QED
    BY <1>7, <1>9, <2>1, 10 \in Int, ReadEmpty
<1> QED
  BY <1>1, <1>3, <1>4, <1>15, <1>16, <1>17, <1>18 DEF c

(* What a decimal number is like while it is printed.                      *)
LEMMA DecimalFacts ==
  ASSUME PrintInv, pc \in {"scale", "digits"}
  PROVE  /\ Decimal /\ number = Magnitude /\ divisor \in Tens
         /\ divisor <= (IF number = 0 THEN 1 ELSE number)
         /\ number \in Nat /\ divisor \in Nat /\ divisor >= 1
         /\ number <= IntTop - 1 /\ IntTop \in Nat
         /\ P!UNITY_UINT = 0..IntTop - 1
         /\ out \in Seq(Char) /\ PrintCall /\ P!TypeOK
         /\ style.range # "HEX" /\ style.range # "MASK"
<1>1. /\ Decimal /\ number = Magnitude /\ divisor \in Tens
      /\ divisor <= (IF number = 0 THEN 1 ELSE number)
  BY DEF PrintInv, Scaling, PrintingDigits
<1>2. divisor \in Nat /\ divisor >= 1
  BY <1>1, TensFact
<1>3. PrintCall /\ P!TypeOK
  BY DEF PrintInv
<1>4. number \in P!UNITY_UINT /\ out \in Seq(Char)
  BY <1>3 DEF P!TypeOK, Char
<1>5. IntTop \in Nat /\ P!UNITY_UINT = 0..IntTop - 1
  BY WidthsFact
<1>6. style.range # "HEX" /\ style.range # "MASK"
  BY <1>1 DEF Decimal
<1> QED
  BY <1>1, <1>2, <1>3, <1>4, <1>5, <1>6

(* Scaling the divisor keeps it a power of ten that is not above the       *)
(* number.                                                                 *)
LEMMA ScaleStep == PrintInv /\ P!Scale => PrintInv'
<1> SUFFICES ASSUME PrintInv, P!Scale PROVE PrintInv'
  OBVIOUS
<1>1. /\ pc = "scale" /\ style' = style /\ input' = input
      /\ number' = number /\ nibbles' = nibbles /\ out' = out
      /\ \/ /\ number \div divisor > 9
            /\ divisor' = P!Wrapped(divisor * 10) /\ pc' = pc
         \/ /\ ~ (number \div divisor > 9)
            /\ pc' = "digits" /\ divisor' = divisor
  BY DEF P!Scale, P!MoreDigits, P!Raised
<1>2. /\ Decimal /\ number = Magnitude /\ divisor \in Tens
      /\ divisor <= (IF number = 0 THEN 1 ELSE number)
      /\ number \in Nat /\ divisor \in Nat /\ divisor >= 1
      /\ number <= IntTop - 1 /\ IntTop \in Nat
      /\ P!UNITY_UINT = 0..IntTop - 1 /\ PrintCall /\ P!TypeOK
      /\ out = Sign
  <2>1. out = Sign
    BY <1>1 DEF PrintInv, Scaling
  <2> QED
    BY <1>1, <2>1, DecimalFacts
<1>3. /\ number \div divisor > 9 => divisor * 10 <= number
      /\ ~ (number \div divisor > 9) => number \div (divisor * 10) = 0
  BY <1>2, DivisorArithmetic
<1>4. /\ Magnitude' = Magnitude /\ Sign' = Sign /\ Decimal' /\ Signed' = Signed
      /\ Skip' = Skip
  BY <1>1, <1>2 DEF Magnitude, Sign, Signed, Decimal, Skip
<1>5. PrintCall'
  BY <1>1, <1>2 DEF PrintCall
<1>6. CASE number \div divisor > 9
  <2>1. divisor' = P!Wrapped(divisor * 10) /\ pc' = "scale"
    BY <1>1, <1>6
  <2>2. divisor * 10 <= number /\ divisor * 10 \in Tens
    BY <1>2, <1>3, <1>6, TensFact
  <2>3. P!Wrapped(divisor * 10) = divisor * 10
    <3> DEFINE x == divisor * 10
               M == IntTop
    <3>1. x \in 0..M - 1 /\ M \in Nat /\ M > 0
      BY <1>2, <2>2
    <3> HIDE DEF x, M
    <3>2. x = M * 0 + x /\ 0 \in Int /\ x \in Int
      BY <3>1
    <3>3. (x % M) = x
      BY <3>1, <3>2, DivModUnique
    <3> QED
      BY <3>3, WidthsFact DEF x, M
  <2>4. divisor' = divisor * 10 /\ divisor' \in P!UNITY_UINT /\ number # 0
    BY <1>2, <2>1, <2>2, <2>3
  <2>5. P!TypeOK'
    BY <1>1, <1>2, <2>1, <2>4 DEF P!TypeOK
  <2>6. Scaling'
    BY <1>1, <1>2, <1>4, <2>1, <2>2, <2>4 DEF Scaling
  <2>7. PrintingDigits' /\ PrintingHex' /\ PrintingMask'
        /\ P!DecimalReadsBack' /\ P!HexReadsBack' /\ P!MaskReadsBack'
    BY <2>1 DEF PrintingDigits, PrintingHex, PrintingMask, P!DecimalReadsBack,
       P!HexReadsBack, P!MaskReadsBack
  <2> QED
    BY <1>5, <2>5, <2>6, <2>7 DEF PrintInv
<1>7. CASE ~ (number \div divisor > 9)
  <2>1. divisor' = divisor /\ pc' = "digits"
    BY <1>1, <1>7
  <2>2. number \div (divisor * 10) = 0
    BY <1>3, <1>7
  <2>3. P!TypeOK'
    BY <1>1, <1>2, <2>1 DEF P!TypeOK
  <2>4. DecimalSoFar(0) /\ NoLeadingZero
    BY <1>2, NothingRead
  <2>5. DecimalSoFar(0)' /\ NoLeadingZero'
    BY <1>1, <1>4, <2>4 DEF DecimalSoFar, NoLeadingZero, After
  <2>6. PrintingDigits'
    <3>1. (number \div (divisor * 10))' = 0
      BY <1>1, <2>1, <2>2
    <3> QED
      BY <1>1, <1>2, <1>4, <2>1, <2>5, <3>1 DEF PrintingDigits
  <2>7. Scaling' /\ PrintingHex' /\ PrintingMask'
        /\ P!DecimalReadsBack' /\ P!HexReadsBack' /\ P!MaskReadsBack'
    BY <2>1 DEF Scaling, PrintingHex, PrintingMask, P!DecimalReadsBack,
       P!HexReadsBack, P!MaskReadsBack
  <2> QED
    BY <1>5, <2>3, <2>6, <2>7 DEF PrintInv
<1> QED
  BY <1>6, <1>7

(* A digit printed is taken off what is yet to print.                      *)
LEMMA PrintDigitStep == PrintInv /\ P!PrintDigit => PrintInv'
<1> SUFFICES ASSUME PrintInv, P!PrintDigit PROVE PrintInv'
  OBVIOUS
<1>0. PICK digit, above : /\ digit = ((number \div divisor) % 10)
                          /\ above = number \div (divisor * 10)
  OBVIOUS
<1>1. /\ pc = "digits" /\ style' = style /\ input' = input
      /\ number' = number /\ nibbles' = nibbles
      /\ out' = Append(out, 48 + digit)
      /\ \/ divisor < 10 /\ divisor' = 0 /\ pc' = "done"
         \/ divisor >= 10 /\ divisor' = divisor \div 10 /\ pc' = pc
  BY <1>0 DEF P!PrintDigit
<1>2. /\ Decimal /\ number = Magnitude /\ divisor \in Tens
      /\ divisor <= (IF number = 0 THEN 1 ELSE number)
      /\ number \in Nat /\ divisor \in Nat /\ divisor >= 1
      /\ number <= IntTop - 1 /\ IntTop \in Nat
      /\ P!UNITY_UINT = 0..IntTop - 1 /\ PrintCall /\ P!TypeOK
      /\ out \in Seq(Char) /\ style.range # "HEX" /\ style.range # "MASK"
  BY <1>1, DecimalFacts
<1>3. DecimalSoFar(above) /\ NoLeadingZero
  BY <1>0, <1>1 DEF PrintInv, PrintingDigits
<1>4. /\ number \div divisor \in Nat /\ above \in Nat
      /\ number \div divisor = 10 * above + digit /\ digit \in 0..9
      /\ divisor <= number => number \div divisor >= 1
      /\ number \div 1 = number
  BY <1>0, <1>2, DivisorArithmetic
<1>5. /\ DecimalSoFar(above * 10 + digit)'
      /\ out' \in Seq(Char) /\ Len(out') = Len(out) + 1
      /\ Len(out) \in Nat /\ Skip \in Nat /\ Skip <= Len(out)
      /\ \A k \in 1..Len(out) : out'[k] = out[k]
      /\ out'[Len(out) + 1] = 48 + digit
      /\ Skip' = Skip
      /\ Len(After(out', Skip)) = Len(out) + 1 - Skip
      /\ After(out', Skip)[1] = out'[Skip + 1]
      /\ Len(out) = Skip => above = 0
  BY <1>1, <1>2, <1>3, <1>4, DigitRead
<1>6. /\ Magnitude' = Magnitude /\ Decimal' /\ Signed' = Signed
  BY <1>1, <1>2 DEF Magnitude, Signed, Decimal
<1>7. PrintCall'
  BY <1>1, <1>2 DEF PrintCall
<1>8. above * 10 + digit = number \div divisor
  BY <1>4
<1>9. number # 0 => out'[Skip + 1] # 48
  <2> HAVE number # 0
  <2>1. CASE Len(out) = Skip
    <3>1. number \div divisor >= 1 /\ above = 0
      BY <1>2, <1>4, <1>5, <2>1
    <3>2. digit >= 1
      BY <1>4, <3>1
    <3> QED
      BY <1>4, <1>5, <2>1, <3>2
  <2>2. CASE Len(out) # Skip
    <3>1. Skip + 1 \in 1..Len(out) /\ Len(out) > Skip
      BY <1>5, <2>2
    <3> QED
      BY <1>3, <1>5, <3>1 DEF NoLeadingZero
  <2> QED
    BY <2>1, <2>2
<1>10. CASE divisor < 10
  <2>1. divisor' = 0 /\ pc' = "done"
    BY <1>1, <1>2, <1>10
  <2>2. divisor = 1
    <3>1. \A w \in Tens : w \in Nat /\ w >= 1
      BY TensFact
    <3> QED
      BY <1>2, <1>10, <3>1, TensFact
  <2>3. above * 10 + digit = Magnitude
    BY <1>2, <1>4, <1>8, <2>2
  <2>4. P!TypeOK'
    <3>1. 0 \in P!UNITY_UINT
      BY WidthsFact
    <3> QED
      BY <1>1, <1>2, <1>5, <2>1, <3>1 DEF P!TypeOK, Char
  <2>5. P!DecimalReadsBack'
    <3> DEFINE ds == After(out', Skip)
    <3>1. SubSeq(out', IF style'.range = "INT" /\ input' < 0 THEN 2 ELSE 1,
                 Len(out')) = ds
      <4>1. CASE Signed
        <5>1. Skip + 1 = 2 /\ (IF style'.range = "INT" /\ input' < 0 THEN 2
                               ELSE 1) = 2
          BY <1>1, <4>1 DEF Skip, Signed
        <5> QED
          BY <5>1 DEF After
      <4>2. CASE ~ Signed
        <5>1. Skip + 1 = 1 /\ (IF style'.range = "INT" /\ input' < 0 THEN 2
                               ELSE 1) = 1
          BY <1>1, <4>2 DEF Skip, Signed
        <5> QED
          BY <5>1 DEF After
      <4> QED
        BY <4>1, <4>2
    <3>2. /\ P!ReadAs(10, ds) = Magnitude
          /\ \A k \in 1..Len(ds) : ds[k] \in 48..57
          /\ Signed => out'[1] = 45
      BY <1>5, <1>6, <2>3, Zenon DEF DecimalSoFar, After
    <3>3. ds \in Seq(Char) /\ Len(ds) = Len(out) + 1 - Skip
      <4>1. Skip <= Len(out')
        BY <1>5
      <4>2. out' \in Seq(Char) /\ Skip \in Nat
        BY <1>5
      <4>3. ds \in Seq(Char)
        BY <4>1, <4>2, AfterFact
      <4> QED
        BY <1>5, <4>3
    <3>4. ds[1] = 48 => Len(ds) = 1
      <4> HAVE ds[1] = 48
      <4>1. number = 0
        BY <1>5, <1>9
      <4>2. Len(out) = Skip
        <5>1. SUFFICES ASSUME Len(out) > Skip PROVE FALSE
          BY <1>5
        <5>2. out[Skip + 1] # 48 /\ Skip + 1 \in 1..Len(out)
          BY <1>3, <1>5, <5>1 DEF NoLeadingZero
        <5> QED
          BY <1>5, <5>2
      <4> QED
        BY <1>5, <3>3, <4>2
    <3>5. Len(ds) >= 1
      BY <1>5, <3>3
    <3>6. ds # <<>> /\ DOMAIN ds = 1..Len(ds)
      BY <3>3, <3>5, LenProperties, EmptySeq
    <3>7. Magnitude = IF style'.range = "INT" /\ input' < 0 THEN -input'
                      ELSE P!Wrapped(input')
      BY <1>1, Zenon DEF Magnitude, Signed
    <3>8. Signed <=> style'.range = "INT" /\ input' < 0
      BY <1>1, Zenon DEF Signed
    <3> HIDE DEF ds
    <3> QED
      BY <3>1, <3>2, <3>4, <3>6, <3>7, <3>8, Zenon DEF P!DecimalReadsBack
  <2>6. Scaling' /\ PrintingDigits' /\ PrintingHex' /\ PrintingMask'
        /\ P!HexReadsBack' /\ P!MaskReadsBack'
    BY <1>1, <1>2, <2>1 DEF Scaling, PrintingDigits, PrintingHex, PrintingMask,
       P!HexReadsBack, P!MaskReadsBack
  <2> QED
    BY <1>7, <2>4, <2>5, <2>6 DEF PrintInv
<1>11. CASE ~ (divisor < 10)
  <2>1. divisor' = divisor \div 10 /\ pc' = "digits"
    BY <1>1, <1>2, <1>11
  <2>2. PICK e \in Tens : divisor = e * 10
    BY <1>2, <1>11, TensFact
  <2>3. e \in Nat /\ e >= 1
    BY <2>2, TensFact
  <2>4. divisor' = e /\ divisor' <= divisor /\ number # 0
        /\ divisor' \in P!UNITY_UINT
    <3>1. (e * 10) \div 10 = e
      BY <2>3
    <3>2. divisor' = e
      BY <2>1, <2>2, <3>1
    <3>3. number # 0
      BY <1>2, <1>11
    <3> QED
      BY <1>2, <2>2, <2>3, <3>2, <3>3
  <2>5. P!TypeOK'
    BY <1>1, <1>2, <1>5, <2>1, <2>4 DEF P!TypeOK, Char
  <2>6. PrintingDigits'
    <3>1. (number \div (divisor * 10))' = above * 10 + digit
      BY <1>1, <1>8, <2>2, <2>4
    <3>2. DecimalSoFar(number \div (divisor * 10))'
      BY <1>5, <3>1, Zenon DEF DecimalSoFar
    <3>3. NoLeadingZero'
      BY <1>5, <1>9, <2>4 DEF NoLeadingZero
    <3>4. /\ Decimal' /\ number' = Magnitude' /\ divisor' \in Tens
          /\ divisor' <= (IF number' = 0 THEN 1 ELSE number')
      BY <1>1, <1>2, <1>6, <2>2, <2>3, <2>4
    <3> QED
      BY <3>2, <3>3, <3>4 DEF PrintingDigits
  <2>7. Scaling' /\ PrintingHex' /\ PrintingMask'
        /\ P!DecimalReadsBack' /\ P!HexReadsBack' /\ P!MaskReadsBack'
    BY <2>1 DEF Scaling, PrintingHex, PrintingMask, P!DecimalReadsBack,
       P!HexReadsBack, P!MaskReadsBack
  <2> QED
    BY <1>7, <2>5, <2>6, <2>7 DEF PrintInv
<1> QED
  BY <1>10, <1>11

(* So no divisor overflows.                                                *)
LEMMA DivisorFitsProved == PrintInv => P!DivisorFits
<1> SUFFICES ASSUME PrintInv, pc \in {"scale", "digits"}
             PROVE  /\ divisor \in 1..(IF number = 0 THEN 1 ELSE number)
                    /\ P!MoreDigits(number, divisor) =>
                         divisor * 10 \in P!UNITY_UINT
  BY DEF P!DivisorFits
<1>1. /\ divisor <= (IF number = 0 THEN 1 ELSE number)
      /\ number \in Nat /\ divisor \in Nat /\ divisor >= 1
      /\ number <= IntTop - 1 /\ IntTop \in Nat
      /\ P!UNITY_UINT = 0..IntTop - 1
  BY DecimalFacts
<1>2. number \div divisor > 9 => divisor * 10 <= number
  BY <1>1, DivisorArithmetic
<1> QED
  BY <1>1, <1>2 DEF P!MoreDigits

(* How many nibbles are printed.                                           *)
LEMMA AskedFact ==
  ASSUME PrintCall, style.range = "HEX"
  PROVE  /\ Asked \in Nat /\ Asked \in 0..P!MaxNibbles
         /\ Asked = IF style.nibbles > P!MaxNibbles THEN P!MaxNibbles
                                                    ELSE style.nibbles
BY WidthsFact DEF Asked, PrintCall

(* UnityPrintNumberHex starts with the nibbles asked for, as far as there  *)
(* are any.                                                                *)
LEMMA PrintHexStep == PrintInv /\ P!PrintHex => PrintInv'
<1> SUFFICES ASSUME PrintInv, P!PrintHex PROVE PrintInv'
  OBVIOUS
<1>1. /\ pc = "call" /\ style.range = "HEX" /\ style' = style
      /\ input' = input /\ divisor' = divisor
      /\ number' = P!Wrapped(input) /\ out' = <<48, 120>> /\ pc' = "hex"
      /\ nibbles' = IF style.nibbles > P!MaxNibbles THEN P!MaxNibbles
                                                    ELSE style.nibbles
  BY DEF P!PrintHex
<1>2. PrintCall /\ P!TypeOK /\ PrintCall'
  BY <1>1 DEF PrintInv, PrintCall
<1>3. Asked \in Nat /\ Asked \in 0..P!MaxNibbles /\ nibbles' = Asked
      /\ Asked' = Asked
  BY <1>1, <1>2, AskedFact DEF Asked
<1>4. P!Wrapped(input) \in P!UNITY_UINT /\ P!Wrapped(input) \in Nat
  BY <1>2, AbsoluteFact DEF PrintCall
<1>5. out' \in Seq(Char) /\ Len(out') = 2
  <2>1. 48 \in Char /\ 120 \in Char
    BY DEF Char
  <2> HIDE DEF Char
  <2> QED
    BY <1>1, <2>1
<1>6. P!TypeOK'
  <2>1. Char = 32..126
    BY DEF Char
  <2> QED
    BY <1>1, <1>2, <1>3, <1>4, <1>5, <2>1 DEF P!TypeOK
<1>7. After(out', 2) \in Seq(Char) /\ Len(After(out', 2)) = 0
  <2>1. out' \in Seq(Char) /\ 2 \in Nat /\ 2 <= Len(out')
    BY <1>5
  <2>2. /\ After(out', 2) \in Seq(Char)
        /\ Len(After(out', 2)) = Len(out') - 2
    BY <2>1, AfterFact
  <2> QED
    BY <1>5, <2>2
<1>8. P!ReadAs(16, After(out', 2)) = 0
  BY <1>7, CharSeq, 16 \in Int, ReadEmpty
<1>9. PrintingHex'
  <2> DEFINE M == 2 ^ (4 * Asked)
  <2>1. 2 ^ (4 * (Asked - Asked)) = 1
    <3>1. 4 * (Asked - Asked) = 0
      BY <1>3
    <3> QED
      BY <3>1, TwoPowZero
  <2>2. M \in Nat /\ M > 0
    BY <1>3, TwoPowNat
  <2> HIDE DEF M
  <2>3. P!Wrapped(input) \div M \in Int
    BY <1>4, <2>2, DivMod
  <2>4. ((P!Wrapped(input) \div M) % 1) = 0
    BY <2>3
  <2>5. ((number' \div 2 ^ (4 * nibbles')) % 2 ^ (4 * (Asked' - nibbles'))) = 0
    BY <1>1, <1>3, <2>1, <2>4 DEF M
  <2>6. number' = P!Wrapped(input') /\ nibbles' \in 0..Asked'
        /\ Len(out') = 2 + (Asked' - nibbles')
    BY <1>1, <1>3, <1>5
  <2>7. \A k \in 1..Len(After(out', 2)) :
          After(out', 2)[k] \in 48..57 \cup 65..70
    BY <1>7
  <2> QED
    BY <1>1, <1>8, <2>5, <2>6, <2>7, Zenon DEF PrintingHex, After
<1>10. Scaling' /\ PrintingDigits' /\ PrintingMask'
       /\ P!DecimalReadsBack' /\ P!HexReadsBack' /\ P!MaskReadsBack'
  BY <1>1 DEF Scaling, PrintingDigits, PrintingMask, P!DecimalReadsBack,
     P!HexReadsBack, P!MaskReadsBack
<1> QED
  BY <1>2, <1>6, <1>9, <1>10 DEF PrintInv

(* What is read of a nibble more.                                          *)
LEMMA NibbleArithmetic ==
  ASSUME NEW m \in Nat, NEW w \in Nat, w > 0, NEW asked \in Nat, w <= asked
  PROVE  /\ ((m \div 2 ^ (4 * (w - 1))) % 16) \in 0..15
         /\ ((m \div 2 ^ (4 * (w - 1))) % 2 ^ (4 * (asked - (w - 1))))
              = 16 * ((m \div 2 ^ (4 * w)) % 2 ^ (4 * (asked - w)))
                + ((m \div 2 ^ (4 * (w - 1))) % 16)
<1> DEFINE E == 2 ^ (4 * (w - 1))
           M == 2 ^ (4 * (asked - w))
           q == m \div E
           h == q \div 16
           r == q % 16
           a == h \div M
           s == h % M
<1>1. 4 * (w - 1) \in Nat /\ 4 * (asked - w) \in Nat
      /\ 4 * w = 4 * (w - 1) + 4
      /\ 4 * (asked - (w - 1)) = 4 * (asked - w) + 4
  OBVIOUS
<1>2. E \in Nat /\ E > 0 /\ M \in Nat /\ M > 0
  BY <1>1, TwoPowNat
<1>3. 2 ^ 4 = 16
  OBVIOUS
<1>4. 2 ^ (4 * w) = E * 16 /\ 2 ^ (4 * (asked - (w - 1))) = M * 16
  <2>1. 4 \in Nat
    OBVIOUS
  <2>2. 2 ^ (4 * (w - 1) + 4) = 2 ^ (4 * (w - 1)) * 2 ^ 4
    BY <1>1, <2>1, TwoPowSum
  <2>3. 2 ^ (4 * (asked - w) + 4) = 2 ^ (4 * (asked - w)) * 2 ^ 4
    BY <1>1, <2>1, TwoPowSum
  <2> QED
    BY <1>1, <1>3, <2>2, <2>3
<1> HIDE DEF E, M
<1>5. q \in Int
  BY <1>2, DivMod
<1>6. m \div (E * 16) = h
  <2>1. m \in Int /\ 16 \in Nat /\ 16 > 0
    OBVIOUS
  <2> QED
    BY <1>2, <2>1, DivDiv
<1> HIDE DEF q
<1>7. h \in Int /\ r \in 0..15 /\ q = 16 * h + r
  <2>1. 16 \in Nat /\ 16 > 0 /\ 16 - 1 = 15
    OBVIOUS
  <2> QED
    BY <1>5, <2>1, DivMod
<1> HIDE DEF h, r
<1>8. a \in Int /\ s \in 0..M - 1 /\ h = M * a + s
  BY <1>2, <1>7, DivMod
<1> HIDE DEF a, s
<1>9. (q % (M * 16)) = 16 * s + r
  <2>1. M * 16 \in Nat /\ M * 16 > 0 /\ 16 * s + r \in 0..M * 16 - 1
    BY <1>2, <1>7, <1>8
  <2>2. 16 * (M * a) = (M * 16) * a /\ M * a \in Int
    BY <1>2, <1>8
  <2>3. q = (M * 16) * a + (16 * s + r)
    BY <1>2, <1>7, <1>8, <2>2
  <2> QED
    BY <1>5, <1>8, <2>1, <2>3, DivModUnique
<1>10. r = (q % 16) /\ s = (h % M) /\ q = m \div E
  BY DEF r, s, q
<1> QED
  BY <1>4, <1>6, <1>7, <1>9, <1>10 DEF E, M

(* A hexadecimal digit reads as its value.                                 *)
LEMMA DigitFact ==
  ASSUME NEW w \in 0..15
  PROVE  /\ P!Digit(w) \in 48..57 \cup 65..70
         /\ P!Digit(w) \in Char /\ P!Digit(w) \in Int
         /\ P!ValueOfDigit(P!Digit(w)) = w
BY DEF P!Digit, P!ValueOfDigit, Char

(* A nibble printed is the next one of the number.                         *)
LEMMA PrintNibbleStep == PrintInv /\ P!PrintNibble => PrintInv'
<1> SUFFICES ASSUME PrintInv, P!PrintNibble PROVE PrintInv'
  OBVIOUS
<1>0. PICK w, asked, m : w = nibbles /\ asked = Asked /\ m = number
  OBVIOUS
<1>1. /\ pc = "hex" /\ style' = style /\ input' = input
      /\ number' = number /\ divisor' = divisor
      /\ \/ /\ nibbles > 0
            /\ nibbles' = nibbles - 1
            /\ out' = Append(out,
                             P!Digit((number \div 2 ^ (4 * nibbles')) % 16))
            /\ pc' = pc
         \/ nibbles = 0 /\ pc' = "done" /\ nibbles' = nibbles /\ out' = out
  BY DEF P!PrintNibble
<1>2. /\ style.range = "HEX" /\ m = P!Wrapped(input)
      /\ w \in 0..asked
      /\ Len(out) = 2 + (asked - w)
      /\ P!ReadAs(16, After(out, 2))
           = ((m \div 2 ^ (4 * w)) % 2 ^ (4 * (asked - w)))
      /\ \A k \in 1..Len(After(out, 2)) :
           After(out, 2)[k] \in 48..57 \cup 65..70
  BY <1>0, <1>1 DEF PrintInv, PrintingHex
<1>3. PrintCall /\ P!TypeOK /\ PrintCall' /\ Asked' = asked
  BY <1>0, <1>1 DEF PrintInv, PrintCall, Asked
<1>4. asked \in Nat /\ asked \in 0..P!MaxNibbles /\ P!MaxNibbles \in Nat
  BY <1>0, <1>2, <1>3, AskedFact, WidthsFact
<1>5. out \in Seq(Char) /\ m \in Nat /\ m \in P!UNITY_UINT
  BY <1>0, <1>3, WidthsFact DEF P!TypeOK, Char
<1>6. Len(out) \in Nat /\ 2 <= Len(out) /\ 2 \in Nat
  BY <1>2, <1>4
<1> DEFINE s == After(out, 2)
<1>7. s \in Seq(Char) /\ Len(s) = Len(out) - 2 /\ s \in Seq(Int)
  <2>1. s \in Seq(Char) /\ Len(s) = Len(out) - 2
    BY <1>5, <1>6, AfterFact
  <2> QED
    BY <2>1, CharSeq
<1>8. CASE nibbles > 0
  <2> DEFINE digit == (m \div 2 ^ (4 * (w - 1))) % 16
             c == P!Digit(digit)
             rest == (m \div 2 ^ (4 * w)) % 2 ^ (4 * (asked - w))
             more == (m \div 2 ^ (4 * (w - 1))) % 2 ^ (4 * (asked - (w - 1)))
  <2>1. /\ nibbles' = w - 1 /\ out' = Append(out, c) /\ pc' = "hex"
        /\ w > 0 /\ w \in Nat /\ w <= asked
    BY <1>0, <1>1, <1>2, <1>8
  <2>2. digit \in 0..15 /\ more = 16 * rest + digit
    BY <1>4, <1>5, <2>1, NibbleArithmetic
  <2> HIDE DEF digit, rest, more
  <2>3. /\ c \in 48..57 \cup 65..70 /\ c \in Char /\ c \in Int
        /\ P!ValueOfDigit(c) = digit
    BY <2>2, DigitFact
  <2> HIDE DEF c
  <2>4. out' \in Seq(Char) /\ Len(out') = Len(out) + 1
    BY <1>5, <2>1, <2>3, AppendProperties
  <2>5. After(out', 2) = Append(s, c)
    <3>1. After(Append(out, c), 2) = Append(s, c)
      BY <1>5, <1>6, <2>3, AfterAppend
    <3> QED
      BY <2>1, <3>1
  <2> HIDE DEF s
  <2>6. P!ReadAs(16, Append(s, c)) = P!ReadAs(16, s) * 16 + P!ValueOfDigit(c)
        /\ P!ReadAs(16, s) \in Int
    BY <1>7, <2>3, 16 \in Int, ReadAppend
  <2>7. P!ReadAs(16, s) = rest
    BY <1>2 DEF s, rest
  <2>8. P!ReadAs(16, After(out', 2)) = more
    <3>1. rest \in Int /\ rest * 16 = 16 * rest
      BY <2>6, <2>7
    <3>2. P!ReadAs(16, Append(s, c)) = rest * 16 + digit
      BY <2>3, <2>6, <2>7
    <3>3. P!ReadAs(16, Append(s, c)) = 16 * rest + digit
      BY <3>1, <3>2
    <3> QED
      BY <2>2, <2>5, <3>3
  <2>9. /\ Len(Append(s, c)) = Len(s) + 1 /\ Len(s) \in Nat
        /\ \A k \in 1..Len(s) : Append(s, c)[k] = s[k]
        /\ Append(s, c)[Len(s) + 1] = c
    BY <1>7, <2>3, AppendProperties, LenProperties
  <2>10. ASSUME NEW k \in 1..Len(Append(s, c))
         PROVE  Append(s, c)[k] \in 48..57 \cup 65..70
    <3>1. CASE k = Len(s) + 1
      BY <2>3, <2>9, <3>1
    <3>2. CASE k # Len(s) + 1
      <4>1. k \in 1..Len(s)
        BY <2>9, <3>2
      <4>2. s[k] \in 48..57 \cup 65..70
        BY <1>2, <4>1 DEF s
      <4> QED
        BY <2>9, <4>1, <4>2
    <3> QED
      BY <3>1, <3>2
  <2>11. \A k \in 1..Len(After(out', 2)) :
           After(out', 2)[k] \in 48..57 \cup 65..70
    BY <2>5, <2>10
  <2>12. P!TypeOK'
    <3>1. nibbles' \in 0..P!MaxNibbles
      BY <1>4, <2>1
    <3> QED
      BY <1>1, <1>3, <2>1, <2>4, <3>1 DEF P!TypeOK, Char
  <2>13. PrintingHex'
    <3>1. /\ style'.range = "HEX" /\ number' = P!Wrapped(input')
          /\ nibbles' \in 0..asked
          /\ Len(out') = 2 + (asked - nibbles')
      BY <1>0, <1>1, <1>2, <1>4, <2>1, <2>4
    <3>2. P!ReadAs(16, After(out', 2))
            = ((number' \div 2 ^ (4 * nibbles'))
                 % 2 ^ (4 * (asked - nibbles')))
      <4>1. number' = m
        BY <1>0, <1>1
      <4>2. nibbles' = w - 1
        BY <2>1
      <4> QED
        BY <2>8, <4>1, <4>2 DEF more
    <3> QED
      BY <1>3, <2>11, <3>1, <3>2, Zenon DEF PrintingHex, After
  <2>14. Scaling' /\ PrintingDigits' /\ PrintingMask'
         /\ P!DecimalReadsBack' /\ P!HexReadsBack' /\ P!MaskReadsBack'
    BY <2>1 DEF Scaling, PrintingDigits, PrintingMask, P!DecimalReadsBack,
       P!HexReadsBack, P!MaskReadsBack
  <2> QED
    BY <1>3, <2>12, <2>13, <2>14 DEF PrintInv
<1>9. CASE ~ (nibbles > 0)
  <2>1. /\ w = 0 /\ pc' = "done" /\ nibbles' = nibbles /\ out' = out
    BY <1>0, <1>1, <1>2, <1>9
  <2>2. P!ReadAs(16, s) = (m % 2 ^ (4 * asked)) /\ Len(s) = asked
    <3>1. 4 * w = 0 /\ 4 * (asked - w) = 4 * asked /\ asked - w = asked
      BY <1>4, <2>1
    <3>2. m \div 1 = m
      BY <1>5
    <3>3. P!ReadAs(16, s) = (m % 2 ^ (4 * asked))
      BY <1>2, <3>1, <3>2, TwoPowZero
    <3> QED
      BY <1>2, <1>4, <1>7, <3>1, <3>3
  <2>3. P!TypeOK'
    BY <1>1, <1>3, <2>1 DEF P!TypeOK
  <2>4. P!HexReadsBack'
    <3>1. SubSeq(out', 3, Len(out')) = s
      BY <2>1 DEF After
    <3>2. (IF style'.nibbles < P!MaxNibbles THEN style'.nibbles
           ELSE P!MaxNibbles) = asked
      BY <1>0, <1>1 DEF Asked
    <3>3. DOMAIN s = 1..Len(s)
      BY <1>7, LenProperties
    <3>4. \A k \in DOMAIN s : s[k] \in 48..57 \cup 65..70
      BY <1>2, <3>3
    <3>5. P!Wrapped(input') = m
      BY <1>1, <1>2
    <3> HIDE DEF s
    <3> QED
      BY <2>2, <3>1, <3>2, <3>4, <3>5, Zenon DEF P!HexReadsBack
  <2>5. Scaling' /\ PrintingDigits' /\ PrintingHex' /\ PrintingMask'
        /\ P!DecimalReadsBack' /\ P!MaskReadsBack'
    BY <1>1, <1>2, <2>1 DEF Scaling, PrintingDigits, PrintingHex, PrintingMask,
       P!DecimalReadsBack, P!MaskReadsBack
  <2> QED
    BY <1>3, <2>3, <2>4, <2>5 DEF PrintInv
<1> QED
  BY <1>8, <1>9

(* A character is printed behind its number.                               *)
LEMMA PrintCharacterStep == PrintInv /\ P!PrintCharacter => PrintInv'
<1> SUFFICES ASSUME PrintInv, P!PrintCharacter PROVE PrintInv'
  OBVIOUS
<1>1. /\ style.range = "CHAR" /\ style' = style /\ input' = input
      /\ number' = number /\ divisor' = divisor /\ nibbles' = nibbles
      /\ out' = <<39>> \o P!Escape(input) \o <<39>> /\ pc' = "done"
  BY DEF P!PrintCharacter
<1>2. PrintCall /\ P!TypeOK /\ PrintCall'
  BY <1>1 DEF PrintInv, PrintCall
<1>3. input \in -128..127
  BY <1>1, <1>2 DEF PrintCall, P!CharType
<1>4. ((input % 256) \div 16) \in 0..15 /\ (input % 16) \in 0..15
  BY <1>3
<1>5. P!Digit((input % 256) \div 16) \in Char /\ P!Digit(input % 16) \in Char
  BY <1>4, DigitFact
<1>6. /\ 39 \in Char /\ 92 \in Char /\ 114 \in Char /\ 110 \in Char
      /\ 120 \in Char /\ \A c \in 32..126 : c \in Char
  BY DEF Char
<1>7. P!Escape(input) \in Seq(Char)
  <2> DEFINE a == P!Digit((input % 256) \div 16)
             b == P!Digit(input % 16)
  <2>1. a \in Char /\ b \in Char
    BY <1>5
  <2> HIDE DEF a, b
  <2>2. /\ <<92, 120, a, b>> \in Seq(Char) /\ <<92, 114>> \in Seq(Char)
        /\ <<92, 110>> \in Seq(Char)
    <3> HIDE DEF Char
    <3> QED
      BY <1>6, <2>1
  <2>3. input \in 32..126 => <<input>> \in Seq(Char)
    BY <1>6, CharSeq
  <2>4. P!Escape(input)
          \in {<<input>>, <<92, 114>>, <<92, 110>>, <<92, 120, a, b>>}
        /\ (P!Escape(input) = <<input>> => input \in 32..126 \/
              P!Escape(input) \in {<<92, 114>>, <<92, 110>>, <<92, 120, a, b>>})
    <3>1. CASE input \in 32..126
      <4>1. P!Escape(input) = <<input>>
        BY <3>1 DEF P!Escape
      <4> QED
        BY <3>1, <4>1
    <3>2. CASE input = 13
      BY <3>2 DEF P!Escape
    <3>3. CASE input = 10
      BY <3>3 DEF P!Escape
    <3>4. CASE input \notin 32..126 /\ input # 13 /\ input # 10
      <4>1. P!Escape(input) = <<92, 120, a, b>>
        BY <3>4, Zenon DEF P!Escape, a, b
      <4> QED
        BY <4>1
    <3> QED
      BY <3>1, <3>2, <3>3, <3>4
  <2> QED
    BY <2>2, <2>3, <2>4
<1>8. out' \in Seq(Char)
  <2>1. <<39>> \in Seq(Char)
    BY <1>6, CharSeq
  <2>2. <<39>> \o P!Escape(input) \in Seq(Char)
    BY <1>7, <2>1, ConcatProperties
  <2>3. (<<39>> \o P!Escape(input)) \o <<39>> \in Seq(Char)
    BY <2>1, <2>2, ConcatProperties
  <2> QED
    BY <1>1, <2>3
<1>9. P!TypeOK'
  <2>1. Char = 32..126
    BY DEF Char
  <2> QED
    BY <1>1, <1>2, <1>8, <2>1 DEF P!TypeOK
<1>10. Scaling' /\ PrintingDigits' /\ PrintingHex' /\ PrintingMask'
       /\ P!DecimalReadsBack' /\ P!HexReadsBack' /\ P!MaskReadsBack'
  BY <1>1 DEF Scaling, PrintingDigits, PrintingHex, PrintingMask,
     P!DecimalReadsBack, P!HexReadsBack, P!MaskReadsBack
<1> QED
  BY <1>2, <1>9, <1>10 DEF PrintInv

(* Bits.                                                                   *)
LEMMA BitFact ==
  ASSUME NEW m \in Nat, NEW b \in Nat, b > 0
  PROVE  P!BitOf(m, b) \in {0, 1}
<1>1. m \div b \in Int
  BY DivMod
<1> QED
  BY <1>1 DEF P!BitOf

(* The bits of a mask, from the highest down.                              *)
LEMMA MaskBitFact ==
  ASSUME NEW k \in 1..4 * ByteBits
  PROVE  /\ MaskBit(k) \in Nat /\ MaskBit(k) > 0
         /\ MaskBit(k) <= IntTop - 1
         /\ MaskBit(k) \div 2 = IF k = 4 * ByteBits THEN 0 ELSE MaskBit(k + 1)
<1> DEFINE b == 4 * ByteBits - k
<1>1. ByteBits \in Nat /\ ByteBits > 0
  BY BytePositive
<1>2. b \in Nat /\ b < 8 * ByteBits /\ 8 * ByteBits \in Nat
  BY <1>1
<1>3. 2 ^ b \in Nat /\ 2 ^ b > 0 /\ 2 * 2 ^ b <= IntTop /\ MaskBit(k) = 2 ^ b
      /\ IntTop \in Nat
  BY <1>2, TwoPowNat, TwoPowOrder DEF IntTop, MaskBit
<1>4. CASE k = 4 * ByteBits
  <2>1. b = 0
    BY <1>1, <1>4
  <2>2. MaskBit(k) = 1
    BY <1>3, <2>1, TwoPowZero
  <2> QED
    BY <1>3, <1>4, <2>2
<1>5. CASE k # 4 * ByteBits
  <2>1. b - 1 \in Nat /\ (b - 1) + 1 = b /\ 4 * ByteBits - (k + 1) = b - 1
    BY <1>1, <1>5
  <2>2. 2 ^ b = 2 * 2 ^ (b - 1) /\ 2 ^ (b - 1) \in Nat
    BY <2>1, TwoPowNext, TwoPowNat
  <2>3. MaskBit(k + 1) = 2 ^ (b - 1)
    BY <2>1 DEF MaskBit
  <2>4. MaskBit(k) \div 2 = MaskBit(k + 1)
    BY <1>3, <2>2, <2>3
  <2> QED
    BY <1>3, <1>5, <2>4
<1> QED
  BY <1>4, <1>5

(* UnityPrintMask starts at the highest bit.                               *)
LEMMA StartMaskStep == PrintInv /\ P!StartMask => PrintInv'
<1> SUFFICES ASSUME PrintInv, P!StartMask PROVE PrintInv'
  OBVIOUS
<1>1. /\ style.range = "MASK" /\ style' = style /\ input' = input
      /\ nibbles' = nibbles /\ number' = P!Wrapped(input)
      /\ divisor' = 2 ^ (4 * ByteBits - 1) /\ out' = <<>> /\ pc' = "mask"
  BY DEF P!StartMask
<1>2. PrintCall /\ P!TypeOK /\ PrintCall'
  BY <1>1 DEF PrintInv, PrintCall
<1>3. P!Wrapped(input) \in P!UNITY_UINT
  BY <1>2, AbsoluteFact DEF PrintCall
<1>4. 1 \in 1..4 * ByteBits /\ 4 * ByteBits \in Nat /\ 4 * ByteBits > 0
  BY BytePositive
<1>5. divisor' = MaskBit(1) /\ MaskBit(1) \in P!UNITY_UINT
  <2>1. MaskBit(1) \in Nat /\ MaskBit(1) <= IntTop - 1
    BY <1>4, MaskBitFact
  <2> QED
    BY <1>1, <2>1, WidthsFact DEF MaskBit
<1>6. out' \in Seq(Char) /\ Len(out') = 0
  BY <1>1, CharSeq
<1>7. P!TypeOK'
  <2>1. Char = 32..126
    BY DEF Char
  <2> QED
    BY <1>1, <1>2, <1>3, <1>5, <1>6, <2>1 DEF P!TypeOK
<1>8. PrintingMask'
  <2>1. divisor' = IF Len(out') < 4 * ByteBits THEN MaskBit(Len(out') + 1)
                   ELSE 0
    BY <1>4, <1>5, <1>6
  <2>2. \A k \in 1..Len(out') : MaskShown(k)'
    BY <1>6
  <2> QED
    BY <1>1, <1>4, <1>6, <2>1, <2>2 DEF PrintingMask
<1>9. Scaling' /\ PrintingDigits' /\ PrintingHex'
      /\ P!DecimalReadsBack' /\ P!HexReadsBack' /\ P!MaskReadsBack'
  BY <1>1 DEF Scaling, PrintingDigits, PrintingHex, P!DecimalReadsBack,
     P!HexReadsBack, P!MaskReadsBack
<1> QED
  BY <1>2, <1>7, <1>8, <1>9 DEF PrintInv

(* A bit printed is the one under the mask, or an X.                       *)
LEMMA PrintMaskBitStep == PrintInv /\ P!PrintMaskBit => PrintInv'
<1> SUFFICES ASSUME PrintInv, P!PrintMaskBit PROVE PrintInv'
  OBVIOUS
<1>0. PICK len : len = Len(out)
  OBVIOUS
<1>1. /\ pc = "mask" /\ style' = style /\ input' = input
      /\ nibbles' = nibbles /\ number' = number
      /\ \/ /\ len < 4 * ByteBits
            /\ out' = Append(out, P!MaskDigit(style.mask, number, divisor))
            /\ divisor' = divisor \div 2 /\ pc' = pc
         \/ /\ len = 4 * ByteBits /\ pc' = "done" /\ out' = out
            /\ divisor' = divisor
  BY <1>0 DEF P!PrintMaskBit
<1>2. /\ style.range = "MASK" /\ number = P!Wrapped(input)
      /\ len <= 4 * ByteBits
      /\ divisor = IF len < 4 * ByteBits THEN MaskBit(len + 1) ELSE 0
      /\ \A k \in 1..len : MaskShown(k)
  BY <1>0, <1>1 DEF PrintInv, PrintingMask
<1>3. PrintCall /\ P!TypeOK /\ PrintCall'
  BY <1>1 DEF PrintInv, PrintCall
<1>4. /\ out \in Seq(Char) /\ len \in Nat /\ number \in Nat
      /\ style.mask \in Nat /\ P!Wrapped(input) \in Nat
      /\ ByteBits \in Nat
  <2>1. out \in Seq(Char) /\ number \in P!UNITY_UINT
    BY <1>3 DEF P!TypeOK, Char
  <2>2. style.mask \in P!UNITY_UINT
    BY <1>2, <1>3 DEF PrintCall
  <2>3. len \in Nat
    BY <1>0, <2>1, LenProperties
  <2> QED
    BY <1>2, <2>1, <2>2, <2>3, WidthsFact, BytePositive
<1>5. CASE len < 4 * ByteBits
  <2> DEFINE bit == MaskBit(len + 1)
             c == P!MaskDigit(style.mask, number, bit)
             here == P!BitOf(style.mask, bit)
             digit == P!BitOf(number, bit)
  <2>1. len + 1 \in 1..4 * ByteBits
    BY <1>4, <1>5
  <2>2. /\ bit \in Nat /\ bit > 0 /\ bit <= IntTop - 1 /\ divisor = bit
        /\ bit \div 2 = IF len + 1 = 4 * ByteBits THEN 0
                        ELSE MaskBit((len + 1) + 1)
    BY <1>2, <1>5, <2>1, MaskBitFact
  <2>3. out' = Append(out, c) /\ divisor' = bit \div 2 /\ pc' = "mask"
    <3>1. /\ out' = Append(out, P!MaskDigit(style.mask, number, divisor))
          /\ divisor' = divisor \div 2 /\ pc' = "mask"
      <4>1. ~ (len = 4 * ByteBits)
        BY <1>4, <1>5
      <4> QED
        BY <1>1, <4>1
    <3>2. divisor = bit
      BY <2>2
    <3> HIDE DEF bit
    <3> QED
      BY <3>1, <3>2
  <2> HIDE DEF bit
  <2>4. here \in {0, 1} /\ digit \in {0, 1}
    BY <1>4, <2>2, BitFact
  <2>5. c = IF here = 0 THEN 88 ELSE 48 + digit
    BY DEF P!MaskDigit
  <2> HIDE DEF c, here, digit
  <2>6. c \in Char
    BY <2>4, <2>5 DEF Char
  <2>7. /\ out' \in Seq(Char) /\ Len(out') = len + 1
        /\ \A k \in 1..len : out'[k] = out[k]
        /\ out'[len + 1] = c
    BY <1>0, <1>4, <2>3, <2>6, AppendProperties
  <2>8. bit \div 2 \in P!UNITY_UINT
    BY <2>2, WidthsFact
  <2>9. P!TypeOK'
    <3>1. Char = 32..126
      BY DEF Char
    <3> QED
      BY <1>1, <1>3, <2>3, <2>7, <2>8, <3>1 DEF P!TypeOK
  <2>10. ASSUME NEW k \in 1..len + 1 PROVE MaskShown(k)'
    <3>1. CASE k = len + 1
      <4>1. out'[k] = 88 <=> here = 0
        BY <2>4, <2>5, <2>7, <3>1
      <4>2. out'[k] \in {48, 49} => out'[k] - 48 = digit
        BY <2>4, <2>5, <2>7, <3>1
      <4>3. here = P!BitOf(style'.mask, MaskBit(k))
            /\ digit = P!BitOf(P!Wrapped(input'), MaskBit(k))
        BY <1>1, <1>2, <3>1 DEF here, digit, bit
      <4> QED
        BY <4>1, <4>2, <4>3, Zenon DEF MaskShown, MaskBit
    <3>2. CASE k # len + 1
      <4>1. k \in 1..len
        BY <1>4, <3>2
      <4>2. MaskShown(k) /\ out'[k] = out[k]
        BY <1>2, <2>7, <4>1
      <4> QED
        BY <1>1, <4>2 DEF MaskShown, MaskBit
    <3> QED
      BY <3>1, <3>2
  <2>11. PrintingMask'
    <3>1. divisor' = IF len + 1 < 4 * ByteBits THEN MaskBit((len + 1) + 1)
                     ELSE 0
      BY <1>4, <1>5, <2>2, <2>3
    <3>2. len + 1 <= 4 * ByteBits
      BY <1>4, <1>5
    <3> QED
      BY <1>1, <1>2, <2>7, <2>10, <3>1, <3>2 DEF PrintingMask, MaskBit
  <2>12. Scaling' /\ PrintingDigits' /\ PrintingHex'
         /\ P!DecimalReadsBack' /\ P!HexReadsBack' /\ P!MaskReadsBack'
    BY <2>3 DEF Scaling, PrintingDigits, PrintingHex, P!DecimalReadsBack,
       P!HexReadsBack, P!MaskReadsBack
  <2> QED
    BY <1>3, <2>9, <2>11, <2>12 DEF PrintInv
<1>6. CASE ~ (len < 4 * ByteBits)
  <2>1. /\ len = 4 * ByteBits /\ pc' = "done" /\ out' = out
        /\ divisor' = divisor
    BY <1>1, <1>4, <1>6
  <2>2. P!TypeOK'
    BY <1>1, <1>3, <2>1 DEF P!TypeOK
  <2>3. P!MaskReadsBack'
    <3>1. Len(out') = 4 * ByteBits
      BY <1>0, <2>1
    <3>2. ASSUME NEW k \in 1..4 * ByteBits
          PROVE  /\ out'[k] = 88
                      <=> P!BitOf(style'.mask, 2 ^ (4 * ByteBits - k)) = 0
                 /\ out'[k] \in {48, 49} =>
                      out'[k] - 48 = P!BitOf(P!Wrapped(input'),
                                             2 ^ (4 * ByteBits - k))
      <4>1. MaskShown(k)
        BY <1>2, <2>1
      <4> QED
        BY <1>1, <2>1, <4>1, Zenon DEF MaskShown, MaskBit
    <3> QED
      BY <3>1, <3>2, Zenon DEF P!MaskReadsBack
  <2>4. Scaling' /\ PrintingDigits' /\ PrintingHex' /\ PrintingMask'
        /\ P!DecimalReadsBack' /\ P!HexReadsBack'
    BY <1>1, <1>2, <2>1 DEF Scaling, PrintingDigits, PrintingHex, PrintingMask,
       P!DecimalReadsBack, P!HexReadsBack
  <2> QED
    BY <1>3, <2>2, <2>3, <2>4 DEF PrintInv
<1> QED
  BY <1>5, <1>6

(* Each step of the printing of an integer keeps the invariant.            *)
LEMMA PrintStep == PrintInv /\ P!Next => PrintInv'
BY PrintNumberStep, PrintUnsignedStep, ScaleStep, PrintDigitStep, PrintHexStep,
   PrintNibbleStep, PrintCharacterStep, StartMaskStep, PrintMaskBitStep
   DEF P!Next

(* It begins with it.                                                      *)
LEMMA PrintInit == P!Init => PrintInv
<1> SUFFICES ASSUME P!Init PROVE PrintInv
  OBVIOUS
<1>1. /\ input \in Printed
      /\ number = 0 /\ divisor = 1 /\ nibbles = 0 /\ out = <<>> /\ pc = "call"
  BY DEF P!Init
<1>2. /\ Printed \subseteq P!UNITY_INT /\ NibbleCounts \subseteq Nat
      /\ PrintedMasks \subseteq P!UNITY_UINT
  BY ConstantsAssumption DEF P!WidthAssumption
<1>3. PrintCall
  <2>1. input \in P!UNITY_INT
    BY <1>1, <1>2
  <2>2. CASE style \in [range : {"INT", "UINT"}]
    BY <2>1, <2>2 DEF PrintCall
  <2>3. CASE style \in [range : {"HEX"}, nibbles : NibbleCounts]
    BY <1>2, <2>1, <2>3 DEF PrintCall
  <2>4. CASE style \in [range : {"CHAR"}] /\ input \in P!CharType
    BY <2>1, <2>4 DEF PrintCall
  <2>5. CASE style \in [range : {"MASK"}, mask : PrintedMasks]
    BY <1>2, <2>1, <2>5 DEF PrintCall
  <2> QED
    BY <2>2, <2>3, <2>4, <2>5 DEF P!Init
<1>4. P!TypeOK
  BY <1>1, WidthsFact, CharSeq DEF P!TypeOK, Char
<1>5. /\ Scaling /\ PrintingDigits /\ PrintingHex /\ PrintingMask
      /\ P!DecimalReadsBack /\ P!HexReadsBack /\ P!MaskReadsBack
  BY <1>1 DEF Scaling, PrintingDigits, PrintingHex, PrintingMask,
     P!DecimalReadsBack, P!HexReadsBack, P!MaskReadsBack
<1> QED
  BY <1>3, <1>4, <1>5 DEF PrintInv

-----------------------------------------------------------------------------
(* Printing of floats: the phases and the buffer                           *)

(* The first powers of ten, as a sequence.                                 *)
Grows(g, size) == /\ g \in [0..size -> Nat] /\ g[0] = 1
                  /\ \A k \in 1..size : g[k] = 10 * g[k - 1]

(* The powers of ten begin with one, and each is ten times the one before. *)
LEMMA TenToFact ==
  /\ R!TenTo[0] = 1
  /\ \A k \in Nat : R!TenTo[k + 1] = 10 * R!TenTo[k]
<1>1. ASSUME NEW size \in Nat PROVE \E g : Grows(g, size)
  <2> DEFINE next == [w \in (1..size) \X Nat |-> 10 * w[2]]
  <2>1. next \in StepFunctions(size, Nat) /\ 1 \in Nat
    BY DEF StepFunctions
  <2>2. \A k \in 1..size, v \in Nat : next[<<k, v>>] = 10 * v
    OBVIOUS
  <2> HIDE DEF next
  <2>3. PICK g \in [0..size -> Nat] : StartsAndFollows(g, size, 1, next)
    BY <2>1, StepsExist
  <2>4. \A k \in 1..size : g[k - 1] \in Nat
    OBVIOUS
  <2>5. g[0] = 1 /\ \A k \in 1..size : g[k] = 10 * g[k - 1]
    BY <2>2, <2>3, <2>4 DEF StartsAndFollows
  <2> QED
    BY <2>5 DEF Grows
<1> DEFINE G(size) == CHOOSE g : Grows(g, size)
           h == [k \in Nat |-> G(k)[k]]
           Body(f) == [k \in Nat |-> IF k = 0 THEN 1 ELSE 10 * f[k - 1]]
<1>2. \A size \in Nat : Grows(G(size), size)
  BY <1>1
<1> HIDE DEF G
<1>3. h[0] = 1
  <2>1. G(0)[0] = 1
    BY <1>2 DEF Grows
  <2> QED
    BY <2>1
<1>4. ASSUME NEW k \in Nat PROVE h[k + 1] = 10 * h[k]
  <2>1. Grows(G(k), k) /\ Grows(G(k + 1), k + 1)
    BY <1>2
  <2>2. Together(G(k + 1), G(k), k)
    <3>1. \A l \in 1..k : l \in 1..k + 1
      OBVIOUS
    <3> QED
      BY <2>1, <3>1 DEF Grows, Together
  <2>3. G(k + 1)[k] = G(k)[k]
    BY <2>2, StepsUnique
  <2>4. k + 1 \in 1..k + 1 /\ (k + 1) - 1 = k
    OBVIOUS
  <2>5. G(k + 1)[k + 1] = 10 * G(k + 1)[k]
    BY <2>1, <2>4 DEF Grows
  <2> QED
    BY <2>3, <2>5
<1>5. h = Body(h)
  <2>1. ASSUME NEW k \in Nat, k # 0 PROVE h[k] = 10 * h[k - 1]
    <3>1. k - 1 \in Nat /\ (k - 1) + 1 = k
      BY <2>1
    <3> QED
      BY <1>4, <3>1
  <2>2. h = [k \in Nat |-> h[k]]
    OBVIOUS
  <2>3. \A k \in Nat : h[k] = IF k = 0 THEN 1 ELSE 10 * h[k - 1]
    BY <1>3, <2>1
  <2> HIDE DEF h
  <2> QED
    BY <2>2, <2>3
<1> DEFINE f == CHOOSE f : f = Body(f)
<1>6. f = Body(f)
  <2> HIDE DEF h, Body
  <2> QED
    BY <1>5
<1>7. R!TenTo = f
  BY DEF R!TenTo
<1> HIDE DEF f, h
<1>8. f[0] = 1 /\ \A k \in Nat : f[k + 1] = 10 * f[k]
  <2>1. ASSUME NEW k \in Nat PROVE f[k + 1] = 10 * f[k]
    <3>1. k + 1 \in Nat /\ k + 1 # 0 /\ (k + 1) - 1 = k
      OBVIOUS
    <3> QED
      BY <1>6, <3>1
  <2>2. f[0] = 1
    BY <1>6
  <2> QED
    BY <2>1, <2>2
<1> QED
  BY <1>7, <1>8

(* They are positive, and outgrow their exponents.                         *)
LEMMA TenToNat ==
  ASSUME NEW k \in Nat
  PROVE  R!TenTo[k] \in Nat /\ k < R!TenTo[k]
<1> DEFINE T == {l \in Nat : R!TenTo[l] \in Nat /\ l < R!TenTo[l]}
<1>1. 0 \in T
  BY TenToFact
<1>2. ASSUME NEW l \in Nat, l \in T PROVE l + 1 \in T
  <2>1. PICK t : t = R!TenTo[l]
    OBVIOUS
  <2>2. t \in Nat /\ l < t /\ R!TenTo[l + 1] = 10 * t
    BY <1>2, <2>1, TenToFact
  <2>3. 10 * t \in Nat /\ l + 1 < 10 * t
    BY <2>2
  <2> QED
    BY <2>2, <2>3
<1> HIDE DEF T
<1>3. Nat \subseteq T
  BY <1>1, <1>2, NatSetInduction
<1>4. k \in T
  BY <1>3
<1> QED
  BY <1>4 DEF T

(* A product of two is one ...                                             *)
LEMMA TenToSum ==
  ASSUME NEW k \in Nat, NEW m \in Nat
  PROVE  R!TenTo[k + m] = R!TenTo[k] * R!TenTo[m]
<1> DEFINE T == {l \in Nat : R!TenTo[k + l] = R!TenTo[k] * R!TenTo[l]}
<1>1. 0 \in T
  <2>1. k + 0 = k /\ R!TenTo[k] \in Nat
    BY TenToNat
  <2> QED
    BY <2>1, TenToFact
<1>2. ASSUME NEW l \in Nat, l \in T PROVE l + 1 \in T
  <2>1. PICK a : a = R!TenTo[k]
    OBVIOUS
  <2>2. PICK b : b = R!TenTo[l]
    OBVIOUS
  <2>3. a \in Nat /\ b \in Nat
    BY <2>1, <2>2, TenToNat
  <2>4. R!TenTo[k + l] = a * b
    BY <1>2, <2>1, <2>2
  <2>5. k + l \in Nat /\ (k + l) + 1 = k + (l + 1)
    OBVIOUS
  <2>6. R!TenTo[k + (l + 1)] = 10 * (a * b) /\ R!TenTo[l + 1] = 10 * b
    BY <2>2, <2>4, <2>5, TenToFact
  <2>7. 10 * (a * b) = a * (10 * b)
    BY <2>3
  <2> QED
    BY <2>1, <2>6, <2>7
<1> HIDE DEF T
<1>3. Nat \subseteq T
  BY <1>1, <1>2, NatSetInduction
<1>4. m \in T
  BY <1>3
<1> QED
  BY <1>4 DEF T

(* ... and they are ordered as their exponents.                            *)
LEMMA TenToOrder ==
  ASSUME NEW k \in Nat, NEW m \in Nat
  PROVE  /\ k <= m => R!TenTo[k] <= R!TenTo[m]
         /\ R!TenTo[k] < R!TenTo[m] => k < m
<1>1. ASSUME NEW a \in Nat, NEW b \in Nat, a <= b
      PROVE  R!TenTo[a] <= R!TenTo[b]
  <2>1. b - a \in Nat /\ a + (b - a) = b
    BY <1>1
  <2>2. PICK s : s = R!TenTo[a]
    OBVIOUS
  <2>3. PICK t : t = R!TenTo[b - a]
    OBVIOUS
  <2>4. s \in Nat /\ t \in Nat /\ t > 0
    BY <2>1, <2>2, <2>3, TenToNat
  <2>5. R!TenTo[b] = s * t
    BY <2>1, <2>2, <2>3, TenToSum
  <2>6. s <= s * t
    BY <2>4
  <2> QED
    BY <2>2, <2>5, <2>6
<1>2. R!TenTo[k] \in Nat /\ R!TenTo[m] \in Nat
  BY TenToNat
<1> QED
  BY <1>1, <1>2

(* Numbers below 10^10 ...                                                 *)
Short(k) == k \in Nat /\ \E l \in 1..10 : k < R!TenTo[l]

(* ... have the digits they have.                                          *)
LEMMA DigitsFact ==
  ASSUME NEW k, Short(k)
  PROVE  /\ R!Digits(k) \in 1..10 /\ k < R!TenTo[R!Digits(k)]
         /\ R!Digits(k) = 1 \/ k >= R!TenTo[R!Digits(k) - 1]
<1> DEFINE T == {l \in 1..10 : k < R!TenTo[l]}
<1>1. T # {} /\ T \subseteq Nat
  BY DEF Short
<1>2. PICK l \in T : \A m \in T : l <= m
  <2> HIDE DEF T
  <2> QED
    BY <1>1, LeastNat
<1>3. l = 1 \/ k >= R!TenTo[l - 1]
  <2>1. SUFFICES ASSUME l # 1 PROVE k >= R!TenTo[l - 1]
    OBVIOUS
  <2>2. l \in 1..10 /\ l - 1 \in 1..10 /\ l - 1 \in Nat /\ ~ (l <= l - 1)
    BY <2>1
  <2>3. ~ (k < R!TenTo[l - 1])
    BY <1>2, <2>2
  <2>4. R!TenTo[l - 1] \in Nat /\ k \in Nat
    BY <2>2, TenToNat DEF Short
  <2> QED
    BY <2>3, <2>4
<1>4. \E m \in 1..10 : k < R!TenTo[m] /\ (m = 1 \/ k >= R!TenTo[m - 1])
  BY <1>2, <1>3
<1> QED
  BY <1>4 DEF R!Digits

-----------------------------------------------------------------------------
(* The invariant: what every step keeps of the variables, and where each   *)
(* of the loops is.                                                        *)
ScaledNumber == [m : Nat, x : Int]

(* Numbers of at most nine digits, and exponents such as are printed.      *)
Nine(k) == k \in Nat /\ k < R!TenTo[9]
InRange(x) == x \in Int /\ 11 - R!max_scaled <= x /\ x <= R!max_scaled - 11

(* How many digits v has before its point.                                 *)
Power(v) == R!Digits(v.m) + v.x

FloatVariables ==
  /\ input.kind \in {"number", "inf", "nan", "zero"}
  /\ number \in ScaledNumber /\ factor \in Int /\ exponent \in Int
  /\ n \in 0..R!max_scaled - 1 /\ n_int \in 0..R!max_scaled
  /\ decimals \in 0..sig_digits + 3
  /\ buf \in Seq(48..57) /\ Len(buf) <= sig_digits + 4
  /\ out \in Seq(32..126)
  /\ pc \in {"call", "up_by_10", "up", "down_by_10", "down", "split", "fill",
             "round", "trim", "buffer", "print", "buffer_exponent",
             "print_exponent", "done"}

(* The number is still the one given, but for roundings and for a power of *)
(* ten that is in exponent.                                                *)
Given == /\ Nine(number.m) /\ number.m > 0
         /\ InRange(number.x + factor + exponent)

AtStart ==
  pc = "call" => /\ Given /\ factor = 0 /\ exponent = 0
                 /\ input.kind = "number" => Nine(input.value.m)

ScalingUp ==
  pc \in {"up_by_10", "up"} =>
    /\ Given /\ ~ R!Above(R!Scaled(number, factor), sig_digits)
    /\ Nine(input.value.m)
    /\ pc = "up_by_10" => factor = 0

ScalingDown ==
  pc \in {"down_by_10", "down"} =>
    /\ Given /\ ~ R!Below(R!Scaled(number, factor), sig_digits - 1)
    /\ Nine(input.value.m)
    /\ pc = "down_by_10" => factor = 0

AtSplit ==
  pc = "split" =>
    /\ Given /\ factor = 0 /\ exponent = 0
    /\ Power(number) >= 1 /\ ~ R!Above(number, sig_digits)

Filling ==
  pc = "fill" =>
    /\ factor \in 0..sig_digits - 1 /\ exponent + factor = 0
    /\ n_int >= R!TenTo[factor]

AtRound ==
  pc = "round" =>
    exponent + sig_digits - 1 \in 2 - R!max_scaled..R!max_scaled - 2

(* An exponent has no more digits than a mantissa.                         *)
ShortExponent ==
  pc \in {"trim", "buffer", "print"} =>
    exponent \in 1 - R!max_scaled..R!max_scaled - 1

(* What is left of n has as many digits as there are not in buf.           *)
Buffering ==
  IF pc \in {"buffer", "buffer_exponent"}
  THEN n = 0 \/ (Len(buf) < sig_digits
                  /\ n < R!TenTo[sig_digits - Len(buf)])
  ELSE pc \in {"print", "print_exponent"} \/ buf = <<>>

PrintFloatInv ==
  /\ FloatVariables
  /\ AtStart /\ ScalingUp /\ ScalingDown /\ AtSplit /\ Filling
  /\ AtRound /\ ShortExponent /\ Buffering

(* What DigitsAssumption gives.                                            *)
LEMMA DigitConstants ==
  /\ sig_digits \in Nat /\ sig_digits >= 2
  /\ R!max_scaled \in Nat /\ sig_digits < R!max_scaled
  /\ R!min_scaled \in Nat /\ R!min_scaled < R!max_scaled
  /\ R!max_scaled = R!TenTo[sig_digits]
  /\ R!min_scaled = R!TenTo[sig_digits - 1]
  /\ FloatPrecision \in Nat \ {0}
  /\ \A f \in PrintedFloats :
       f \in ScaledNumber /\ Nine(f.m) /\ f.m > 0 /\ InRange(f.x)
  /\ BufSize >= sig_digits + 4
<1>1. R!DigitsAssumption
  BY ConstantsAssumption
<1>2. sig_digits \in Nat /\ sig_digits >= 2 /\ BufSize >= sig_digits + 4
  BY <1>1 DEF R!DigitsAssumption
<1>3. /\ sig_digits - 1 \in Nat /\ (sig_digits - 1) + 1 = sig_digits
  BY <1>2
<1>4. PICK t : t = R!TenTo[sig_digits - 1]
  OBVIOUS
<1>5. PICK s : s = R!TenTo[sig_digits]
  OBVIOUS
<1>6. t \in Nat /\ t > 0 /\ s = 10 * t /\ sig_digits < s
  BY <1>2, <1>3, <1>4, <1>5, TenToFact, TenToNat
<1>7. R!min_scaled = t /\ R!max_scaled = s
  BY <1>4, <1>5 DEF R!min_scaled, R!max_scaled
<1>8. t \in Nat /\ t < s /\ s \in Nat
  BY <1>6
<1>9. ASSUME NEW f \in PrintedFloats
      PROVE  f \in ScaledNumber /\ Nine(f.m) /\ f.m > 0 /\ InRange(f.x)
  <2>1. f \in [m : R!Mantissa, x : 11 - s..s - 11]
    BY <1>1, <1>7 DEF R!DigitsAssumption
  <2>2. PICK c \in Nat : c = R!TenTo[9]
    BY TenToNat
  <2>3. f.m \in 1..c - 1
    BY <2>1, <2>2 DEF R!Mantissa
  <2>4. f.x \in 11 - s..s - 11
    BY <2>1
  <2>5. f.m \in Nat /\ f.m > 0 /\ f.m < c /\ f.x \in Int
    BY <1>8, <2>3, <2>4
  <2>6. f \in ScaledNumber
    BY <2>1, <2>5 DEF ScaledNumber
  <2>7. InRange(f.x)
    BY <1>7, <1>8, <2>4, <2>5 DEF InRange
  <2> QED
    BY <2>2, <2>5, <2>6, <2>7 DEF Nine
<1>10. FloatPrecision \in Nat \ {0}
  BY <1>1 DEF R!DigitsAssumption
<1> QED
  BY <1>2, <1>4, <1>5, <1>6, <1>7, <1>8, <1>9, <1>10

(* They and their doubles are shorter than Digits can count.               *)
LEMMA NineShort ==
  ASSUME NEW k, Nine(k)
  PROVE  k \in Nat /\ Short(k) /\ Short(2 * k)
<1>1. 9 \in Nat /\ 9 \in 1..10 /\ 10 \in 1..10 /\ 9 + 1 = 10
  OBVIOUS
<1>2. PICK c \in Nat : c = R!TenTo[9]
  BY <1>1, TenToNat
<1>3. R!TenTo[10] = 10 * c
  BY <1>1, <1>2, TenToFact
<1>4. k \in Nat /\ k < c /\ 2 * k \in Nat /\ 2 * k < 10 * c
  BY <1>2 DEF Nine
<1> QED
  BY <1>1, <1>2, <1>3, <1>4 DEF Short

(* Scaling moves the point.                                                *)
LEMMA ScaledByFact ==
  ASSUME NEW v \in ScaledNumber, NEW k \in Int
  PROVE  /\ R!Scaled(v, k) \in ScaledNumber
         /\ R!Scaled(v, k).m = v.m /\ R!Scaled(v, k).x = v.x + k
         /\ v.m \in Nat /\ v.x \in Int
BY DEF R!Scaled, ScaledNumber

(* Which power of ten a number is below or above.                          *)
LEMMA PowerFact ==
  ASSUME NEW v \in ScaledNumber, Short(v.m), NEW k \in Int
  PROVE  /\ R!Digits(v.m) \in 1..10 /\ Power(v) \in Int
         /\ R!Below(v, k) <=> Power(v) <= k
         /\ R!Above(v, k) => Power(v) > k
         /\ ~ R!Above(v, k) =>
              \/ Power(v) <= k
              \/ Power(v) = k + 1 /\ v.m = R!TenTo[R!Digits(v.m) - 1]
<1>1. R!Digits(v.m) \in 1..10 /\ v.x \in Int
  BY DigitsFact DEF ScaledNumber
<1> QED
  BY <1>1 DEF Power, R!Below, R!Above

(* How far off a product is is a natural number, at most its mantissa's    *)
(* share.                                                                  *)
LEMMA OffFact ==
  ASSUME NEW v, v.m \in Nat
  PROVE  R!Off(v) \in Nat
<1>1. PICK m \in Nat, q \in Nat : m = v.m /\ q = FloatPrecision /\ q > 0
  BY DigitConstants
<1>2. /\ m \div q \in Int /\ (m % q) \in 0..q - 1
      /\ m = q * (m \div q) + (m % q)
  <2>1. m \in Int
    OBVIOUS
  <2> QED
    BY <1>1, <2>1, DivMod
<1>3. PICK a \in Int, b \in 0..q - 1 : a = m \div q /\ m = q * a + b
  BY <1>2
<1>4. a >= 0
  <2>1. SUFFICES ASSUME a <= -1 PROVE FALSE
    BY <1>3
  <2>2. PICK c \in Nat : a = -1 - c
    <3>1. -1 - a \in Nat /\ a = -1 - (-1 - a)
      BY <2>1
    <3> QED
      BY <3>1
  <2>3. q * (-1 - c) = -q - q * c /\ q * c \in Nat
    OBVIOUS
  <2> QED
    BY <1>1, <1>3, <2>2, <2>3
<1> QED
  BY <1>1, <1>3, <1>4 DEF R!Off

(* A product keeps the order of numbers and of those its rounding keeps.   *)
LEMMA ProductFact ==
  ASSUME NEW v \in ScaledNumber, NEW k \in Int, NEW off \in Nat,
         NEW w \in R!Products(v, k, off)
  PROVE  /\ w \in ScaledNumber /\ w.x = v.x + k
         /\ Nine(v.m) => Nine(w.m)
         /\ v.m > 0 => w.m > 0
         /\ w.m - v.m \in -off..off
         /\ k = 0 => w.m = v.m
         /\ v.m = 0 /\ off = 0 => w.m = 0
         /\ \A p \in {sig_digits - 1, sig_digits} :
              /\ R!Below(w, p) => R!Below(R!Scaled(v, k), p)
              /\ R!Above(w, p) => R!Above(R!Scaled(v, k), p)
<1>1. v.m \in Nat /\ v.x \in Int
  BY DEF ScaledNumber
<1>2. PICK d \in IF k = 0 THEN {0} ELSE -off..off :
        w = [m |-> v.m + d, x |-> v.x + k]
  BY DEF R!Products
<1>3. d \in -off..off /\ d \in Int /\ (k = 0 => d = 0)
  BY <1>2
<1>4. w.m = v.m + d /\ w.x = v.x + k /\ v.m + d \in Int /\ v.x + k \in Int
  BY <1>1, <1>2, <1>3
<1>5. w.m \in R!Mantissa \/ w.m = v.m
  BY DEF R!Products
<1>6. PICK c \in Nat : c = R!TenTo[9]
  BY TenToNat
<1>7. w.m \in Nat /\ (Nine(v.m) => Nine(w.m)) /\ (v.m > 0 => w.m > 0)
  <2>1. CASE w.m \in R!Mantissa
    <3>1. w.m \in 1..c - 1
      BY <1>6, <2>1 DEF R!Mantissa
    <3>2. w.m \in Nat /\ w.m < c /\ w.m > 0
      BY <3>1
    <3> QED
      BY <1>6, <3>2 DEF Nine
  <2>2. CASE w.m = v.m
    BY <1>1, <2>2
  <2> QED
    BY <1>5, <2>1, <2>2
<1>8. w \in ScaledNumber
  BY <1>2, <1>4, <1>7 DEF ScaledNumber
<1>9. w.m - v.m = d
  BY <1>1, <1>3, <1>4
<1>10. k = 0 => w.m = v.m
  BY <1>1, <1>3, <1>4
<1>11. v.m = 0 /\ off = 0 => w.m = 0
  BY <1>3, <1>4
<1>12. \A p \in {sig_digits - 1, sig_digits} :
         /\ R!Below(w, p) => R!Below(R!Scaled(v, k), p)
         /\ R!Above(w, p) => R!Above(R!Scaled(v, k), p)
  BY DEF R!Products
<1> QED
  BY <1>3, <1>4, <1>7, <1>8, <1>9, <1>10, <1>11, <1>12

(* The invariant holds at the beginning.                                   *)
LEMMA PrintFloatInit == R!Init => PrintFloatInv
<1> SUFFICES ASSUME R!Init PROVE PrintFloatInv
  OBVIOUS
<1>1. number \in PrintedFloats
  BY DEF R!Init
<1>2. /\ factor = 0 /\ n_int = 0 /\ n = 0 /\ exponent = 0 /\ decimals = 0
      /\ buf = <<>> /\ out = <<>> /\ pc = "call"
  BY DEF R!Init
<1>3. number \in ScaledNumber /\ Nine(number.m) /\ number.m > 0
  BY <1>1, DigitConstants
<1>4. InRange(number.x + 0 + 0)
  <2>1. InRange(number.x) /\ number.x \in Int
    BY <1>1, DigitConstants DEF InRange
  <2>2. number.x + 0 + 0 = number.x
    BY <2>1
  <2> QED
    BY <2>1, <2>2
<1>5. input.kind \in {"number", "inf", "nan", "zero"}
  BY DEF R!Init
<1>6. FloatVariables
  <2>1. /\ buf \in Seq(48..57) /\ out \in Seq(32..126) /\ Len(buf) = 0
    BY <1>2, EmptySeq
  <2>2. 0 \in 0..R!max_scaled - 1 /\ 0 \in 0..R!max_scaled
    BY DigitConstants
  <2>3. 0 \in 0..sig_digits + 3 /\ 0 <= sig_digits + 4
    BY DigitConstants
  <2> QED
    BY <1>2, <1>3, <1>5, <2>1, <2>2, <2>3 DEF FloatVariables
<1>7. Given
  BY <1>2, <1>3, <1>4 DEF Given
<1>8. input.kind = "number" => Nine(input.value.m)
  <2>1. input \in [kind : {"number"}, negative : BOOLEAN, value : {number}]
                  \cup [kind : {"inf"}, negative : BOOLEAN]
                  \cup [kind : {"nan", "zero"}, negative : {FALSE}]
    BY DEF R!Init
  <2>2. input.kind = "number" => input.value = number
    BY <2>1
  <2> QED
    BY <1>3, <2>2
<1> QED
  BY <1>2, <1>6, <1>7, <1>8 DEF PrintFloatInv, AtStart, ScalingUp, ScalingDown,
     AtSplit, Filling, AtRound, ShortExponent, Buffering

(* The steps that write to the digits of neither n, buf nor out.           *)
LEMMA ScalingTypes ==
  ASSUME FloatVariables, UNCHANGED <<input, n, decimals, buf, out>>,
         number' \in ScaledNumber, factor' \in Int, exponent' \in Int,
         n_int' \in 0..R!max_scaled,
         pc' \in {"up_by_10", "up", "down_by_10", "down", "split", "fill",
                 "round", "done"}
  PROVE  FloatVariables'
BY DEF FloatVariables, R!max_scaled, ScaledNumber

(* Where the scaling starts.                                               *)
LEMMA FloatStartStep == PrintFloatInv /\ R!Start => PrintFloatInv'
<1> SUFFICES ASSUME PrintFloatInv, R!Start PROVE PrintFloatInv'
  OBVIOUS
<1>1. /\ pc = "call"
      /\ UNCHANGED <<input, number, factor, n_int, n, exponent, decimals, buf>>
  BY DEF R!Start
<1>2. FloatVariables /\ Given /\ factor = 0 /\ exponent = 0 /\ buf = <<>>
  BY <1>1 DEF PrintFloatInv, AtStart, Buffering
<1>3. number \in ScaledNumber /\ Short(number.m)
  BY <1>2, NineShort DEF FloatVariables, Given
<1>4. PICK sign : sign = IF input.negative THEN <<45>> ELSE <<>>
  OBVIOUS
<1>5. sign \in Seq(32..126)
  <2>1. <<45>> \in Seq(32..126) /\ <<>> \in Seq(32..126)
    OBVIOUS
  <2> QED
    BY <1>4, <2>1
<1>6. CASE input.kind # "number"
  <2>1. pc' = "done" /\ out' = sign \o R!Named[input.kind]
    BY <1>4, <1>6 DEF R!Start, R!To
  <2>2. R!Named[input.kind] \in Seq(32..126)
    <3>1. input.kind \in {"inf", "nan", "zero"}
      BY <1>2, <1>6 DEF FloatVariables
    <3>2. /\ R!Named["zero"] = <<48>> /\ R!Named["nan"] = <<110, 97, 110>>
          /\ R!Named["inf"] = <<105, 110, 102>>
      BY DEF R!Named
    <3>3. /\ <<48>> \in Seq(32..126) /\ <<110, 97, 110>> \in Seq(32..126)
          /\ <<105, 110, 102>> \in Seq(32..126)
      OBVIOUS
    <3>4. CASE input.kind = "inf"
      BY <3>2, <3>3, <3>4
    <3>5. CASE input.kind = "nan"
      <4>1. R!Named[input.kind] = R!Named["nan"]
        BY <3>5
      <4> QED
        BY <3>2, <3>3, <4>1
    <3>6. CASE input.kind = "zero"
      <4>1. R!Named[input.kind] = R!Named["zero"]
        BY <3>6
      <4> QED
        BY <3>2, <3>3, <4>1
    <3> QED
      BY <3>1, <3>4, <3>5, <3>6
  <2>3. out' \in Seq(32..126)
    BY <1>5, <2>1, <2>2, ConcatProperties
  <2>4. FloatVariables'
    BY <1>1, <1>2, <2>1, <2>3 DEF FloatVariables, R!max_scaled, ScaledNumber
  <2> QED
    BY <1>1, <1>2, <2>1, <2>4 DEF PrintFloatInv, AtStart, ScalingUp,
       ScalingDown, AtSplit, Filling, AtRound, ShortExponent, Buffering
<1>7. CASE input.kind = "number"
  <2>1. /\ out' = sign
        /\ pc' = IF R!Below(number, 0) THEN "up_by_10"
                 ELSE IF R!Above(number, sig_digits) THEN "down_by_10"
                 ELSE "split"
    BY <1>4, <1>7 DEF R!Start, R!To
  <2>2. FloatVariables'
    BY <1>1, <1>2, <1>5, <2>1 DEF FloatVariables, R!max_scaled, ScaledNumber
  <2>3. Given' /\ Nine(input.value.m)'
    <3>1. Nine(input.value.m)
      BY <1>1, <1>7 DEF PrintFloatInv, AtStart
    <3> QED
      BY <1>1, <1>2, <3>1 DEF Given, Nine, InRange, R!max_scaled
  <2>4. /\ sig_digits \in Int /\ sig_digits >= 2 /\ 0 \in Int
    BY DigitConstants
  <2>5. /\ Power(number) \in Int
        /\ R!Below(number, 0) <=> Power(number) <= 0
        /\ R!Above(number, sig_digits) => Power(number) > sig_digits
    BY <1>3, <2>4, PowerFact
  <2>6. Power(number)' = Power(number)
    BY <1>1 DEF Power, R!Digits
  <2>7. R!Above(number, sig_digits)' <=> R!Above(number, sig_digits)
    BY <1>1 DEF R!Above, R!Below, R!Digits
  <2>11. R!Scaled(number, factor)' = number
    <3>1. number.x + 0 = number.x
      BY <1>3 DEF ScaledNumber
    <3> QED
      BY <1>1, <1>2, <1>3, <3>1 DEF R!Scaled, ScaledNumber
  <2>8. CASE pc' = "up_by_10"
    <3>1. Power(number) <= 0
      BY <2>1, <2>5, <2>8
    <3>2. ~ R!Above(number, sig_digits)
      BY <2>4, <2>5, <3>1
    <3>3. ~ R!Above(R!Scaled(number, factor), sig_digits)'
      BY <1>1, <2>11, <3>2 DEF R!Above, R!Below, R!Digits
    <3> QED
      BY <1>1, <1>2, <2>2, <2>3, <2>8, <3>3
      DEF PrintFloatInv, AtStart, ScalingUp, ScalingDown, AtSplit, Filling,
          AtRound, ShortExponent, Buffering
  <2>9. CASE pc' = "down_by_10"
    <3>1. Power(number) > sig_digits
      BY <2>1, <2>5, <2>9
    <3>2. ~ R!Below(number, sig_digits - 1)
      <4>1. sig_digits - 1 \in Int /\ ~ (Power(number) <= sig_digits - 1)
        BY <2>4, <2>5, <3>1
      <4> QED
        BY <1>3, <4>1, PowerFact
    <3>3. ~ R!Below(R!Scaled(number, factor), sig_digits - 1)'
      BY <1>1, <2>11, <3>2 DEF R!Below, R!Digits
    <3> QED
      BY <1>1, <1>2, <2>2, <2>3, <2>9, <3>3
      DEF PrintFloatInv, AtStart, ScalingUp, ScalingDown, AtSplit, Filling,
          AtRound, ShortExponent, Buffering
  <2>10. CASE pc' = "split"
    <3>1. Power(number) >= 1 /\ ~ R!Above(number, sig_digits)
      BY <2>1, <2>5, <2>10
    <3> QED
      BY <1>1, <1>2, <2>2, <2>3, <2>4, <2>5, <2>6, <2>7, <2>10, <3>1
      DEF PrintFloatInv, AtStart, ScalingUp, ScalingDown, AtSplit, Filling,
          AtRound, ShortExponent, Buffering
  <2> QED
    BY <2>1, <2>8, <2>9, <2>10
<1> QED
  BY <1>6, <1>7

(* The exponent of a number of as many digits as are printed, or one more  *)
(* where it is a power of ten.                                             *)
LEMMA ExponentInRange ==
  ASSUME NEW d \in 1..10, NEW x \in Int, NEW e \in Int, InRange(x + e),
         d + x \in {sig_digits, sig_digits + 1}
  PROVE  e + sig_digits - 1 \in 2 - R!max_scaled..R!max_scaled - 2
<1>1. /\ x + e \in Int /\ 11 - R!max_scaled <= x + e
      /\ x + e <= R!max_scaled - 11
      /\ sig_digits \in Nat /\ R!max_scaled \in Nat
  BY DigitConstants DEF InRange
<1> QED
  BY <1>1

(* A number scaled enough, up or down, has sig_digits digits before its    *)
(* point, or is the first that has one more.                               *)
LEMMA ScaledToPower ==
  ASSUME NEW v \in ScaledNumber, Nine(v.m),
         ~ R!Below(v, sig_digits - 1), ~ R!Above(v, sig_digits)
  PROVE  /\ R!Digits(v.m) \in 1..10
         /\ R!Digits(v.m) + v.x \in {sig_digits, sig_digits + 1}
         /\ \/ Power(v) = sig_digits
            \/ Power(v) = sig_digits + 1 /\ v.m = R!TenTo[R!Digits(v.m) - 1]
<1>1. Short(v.m) /\ sig_digits \in Int /\ sig_digits - 1 \in Int
  BY NineShort, DigitConstants
<1>2. /\ R!Digits(v.m) \in 1..10 /\ Power(v) \in Int
      /\ ~ (Power(v) <= sig_digits - 1)
      /\ \/ Power(v) <= sig_digits
         \/ Power(v) = sig_digits + 1 /\ v.m = R!TenTo[R!Digits(v.m) - 1]
  BY <1>1, PowerFact
<1>3. Power(v) = R!Digits(v.m) + v.x
  BY DEF Power
<1> QED
  BY <1>1, <1>2, <1>3

(* One power of ten more or less.                                          *)
LEMMA ScaledPower ==
  ASSUME NEW v \in ScaledNumber, Nine(v.m), NEW k \in Int
  PROVE  /\ Power(v) \in Int /\ R!Scaled(v, k) \in ScaledNumber
         /\ Short(R!Scaled(v, k).m)
         /\ Power(R!Scaled(v, k)) = Power(v) + k
<1>1. Short(v.m) /\ v.x \in Int
  BY NineShort DEF ScaledNumber
<1>2. PICK d \in 1..10 : d = R!Digits(v.m)
  BY <1>1, DigitsFact
<1>3. /\ R!Scaled(v, k) \in ScaledNumber
      /\ R!Scaled(v, k).m = v.m /\ R!Scaled(v, k).x = v.x + k
  BY ScaledByFact
<1>4. Power(v) = d + v.x /\ Power(R!Scaled(v, k)) = d + (v.x + k)
  BY <1>2, <1>3 DEF Power
<1> QED
  BY <1>1, <1>3, <1>4

(* Scaling up, the number stays below 10^sig_digits, or comes to it.       *)
LEMMA MultiplyStep == PrintFloatInv /\ R!Multiply => PrintFloatInv'
<1> SUFFICES ASSUME PrintFloatInv, R!Multiply PROVE PrintFloatInv'
  OBVIOUS
<1>1. /\ pc \in {"up_by_10", "up"}
      /\ UNCHANGED <<input, n_int, n, decimals, buf, out>>
  BY DEF R!Multiply
<1>2. /\ FloatVariables /\ Given /\ Nine(input.value.m)
      /\ ~ R!Above(R!Scaled(number, factor), sig_digits)
      /\ pc = "up_by_10" => factor = 0
      /\ buf = <<>>
  BY <1>1 DEF PrintFloatInv, ScalingUp, Buffering
<1>3. /\ number \in ScaledNumber /\ Nine(number.m) /\ number.m > 0
      /\ factor \in Int /\ exponent \in Int /\ n_int \in 0..R!max_scaled
      /\ number.x \in Int /\ InRange(number.x + factor + exponent)
      /\ sig_digits \in Int /\ sig_digits - 1 \in Int
  BY <1>2, DigitConstants DEF FloatVariables, Given, ScaledNumber
<1>4. PICK off \in Nat : off = R!Off(input.value)
  BY <1>2, OffFact, NineShort
<1>5. n_int' \in 0..R!max_scaled /\ Nine(input.value.m)'
  BY <1>1, <1>2, <1>3 DEF Nine
<1>6. R!BigStep = 10
  BY DEF R!BigStep
<1>7. CASE /\ pc = "up_by_10" /\ R!Below(number, sig_digits - R!BigStep)
           /\ number' \in R!Products(number, R!BigStep, R!Off(input.value))
           /\ exponent' = exponent - R!BigStep
           /\ UNCHANGED <<factor, pc>>
  <2>1. PICK w \in R!Products(number, 10, off) : w = number'
    BY <1>4, <1>6, <1>7
  <2>2. /\ w \in ScaledNumber /\ Nine(w.m) /\ w.m > 0
        /\ w.x = number.x + 10
        /\ R!Above(w, sig_digits)
             => R!Above(R!Scaled(number, 10), sig_digits)
    <3>1. 10 \in Int
      OBVIOUS
    <3> QED
      BY <1>3, <3>1, ProductFact
  <2>3. ~ R!Above(w, sig_digits)
    <3>1. /\ Power(number) \in Int
          /\ R!Scaled(number, 10) \in ScaledNumber
          /\ Short(R!Scaled(number, 10).m)
          /\ Power(R!Scaled(number, 10)) = Power(number) + 10
      BY <1>3, ScaledPower
    <3>2. Power(number) <= sig_digits - 10
      <4>1. sig_digits - 10 \in Int /\ Short(number.m)
        BY <1>3, NineShort
      <4> QED
        BY <1>3, <1>6, <1>7, <4>1, PowerFact
    <3>3. ~ R!Above(R!Scaled(number, 10), sig_digits)
      <4>1. ~ (Power(R!Scaled(number, 10)) > sig_digits)
        BY <1>3, <3>1, <3>2
      <4> QED
        BY <1>3, <3>1, <4>1, PowerFact
    <3> QED
      BY <2>2, <3>3
  <2>4. Given'
    <3>1. number'.x + factor' + exponent' = number.x + factor + exponent
      <4>1. number'.x = number.x + 10 /\ exponent' = exponent - 10
        BY <1>6, <1>7, <2>1, <2>2
      <4> QED
        BY <1>3, <1>7, <4>1
    <3> QED
      BY <1>3, <2>1, <2>2, <3>1 DEF Given, Nine, InRange, R!max_scaled
  <2>5. ~ R!Above(R!Scaled(number, factor), sig_digits)'
    <3>1. R!Scaled(number, factor)' = w
      <4>1. factor' = 0 /\ w.x + 0 = w.x /\ w \in ScaledNumber
        BY <1>2, <1>7, <2>2 DEF ScaledNumber
      <4> QED
        BY <2>1, <4>1 DEF R!Scaled, ScaledNumber
    <3> QED
      BY <2>3, <3>1 DEF R!Above, R!Below, R!Digits
  <2>6. factor' = 0 /\ exponent' \in Int /\ pc' = "up_by_10"
    BY <1>2, <1>3, <1>6, <1>7
  <2>7. FloatVariables'
    BY <1>1, <1>2, <1>5, <2>1, <2>2, <2>6, ScalingTypes
  <2> QED
    BY <1>1, <1>2, <1>5, <2>4, <2>5, <2>6, <2>7 DEF PrintFloatInv, AtStart,
       ScalingUp, ScalingDown, AtSplit, Filling, AtRound, ShortExponent,
       Buffering
<1>8. CASE /\ pc = "up_by_10" /\ pc' = "up"
           /\ UNCHANGED <<number, factor, exponent>>
  <2>1. /\ Given'
        /\ (~ R!Above(R!Scaled(number, factor), sig_digits))'
    BY <1>2, <1>8 DEF Given, Nine, InRange, R!max_scaled, R!Scaled,
       R!Above, R!Below, R!Digits
  <2>2. FloatVariables'
    BY <1>1, <1>2, <1>3, <1>5, <1>8, ScalingTypes
  <2> QED
    BY <1>1, <1>2, <1>5, <1>8, <2>1, <2>2 DEF PrintFloatInv, AtStart,
       ScalingUp, ScalingDown, AtSplit, Filling, AtRound, ShortExponent,
       Buffering
<1>9. CASE /\ pc = "up"
           /\ \E w \in R!LeftToScale : R!Below(w, sig_digits - 1)
           /\ factor' = factor + 1 /\ exponent' = exponent - 1
           /\ UNCHANGED <<number, pc>>
  <2>1. PICK w \in R!Products(number, factor, off) : R!Below(w, sig_digits - 1)
    BY <1>4, <1>9 DEF R!LeftToScale
  <2>2. R!Below(R!Scaled(number, factor), sig_digits - 1)
    BY <1>3, <2>1, ProductFact
  <2>3. PICK k \in Int : k = factor + 1 /\ k = factor'
    BY <1>3, <1>9
  <2>4. /\ Power(number) \in Int
        /\ R!Scaled(number, factor) \in ScaledNumber
        /\ Short(R!Scaled(number, factor).m)
        /\ Power(R!Scaled(number, factor)) = Power(number) + factor
        /\ R!Scaled(number, k) \in ScaledNumber
        /\ Short(R!Scaled(number, k).m)
        /\ Power(R!Scaled(number, k)) = Power(number) + k
    BY <1>3, ScaledPower
  <2>5. Power(R!Scaled(number, factor)) <= sig_digits - 1
    BY <1>3, <2>2, <2>4, PowerFact
  <2>6. ~ (Power(R!Scaled(number, k)) > sig_digits)
    BY <1>3, <2>3, <2>4, <2>5
  <2>7. ~ R!Above(R!Scaled(number, k), sig_digits)
    BY <1>3, <2>4, <2>6, PowerFact
  <2>8. ~ R!Above(R!Scaled(number, factor), sig_digits)'
    <3>1. R!Scaled(number, factor)' = R!Scaled(number, k)
      BY <1>9, <2>3 DEF R!Scaled
    <3> QED
      BY <2>7, <3>1 DEF R!Above, R!Below, R!Digits
  <2>9. Given'
    <3>1. number'.x + factor' + exponent' = number.x + factor + exponent
      BY <1>3, <1>9
    <3> QED
      BY <1>3, <1>9, <3>1 DEF Given, Nine, InRange, R!max_scaled
  <2>10. factor' \in Int /\ exponent' \in Int /\ pc' = "up"
    BY <1>3, <1>9
  <2>11. FloatVariables'
    BY <1>1, <1>2, <1>3, <1>5, <1>9, <2>10, ScalingTypes
  <2> QED
    BY <1>1, <1>2, <1>5, <2>8, <2>9, <2>10, <2>11 DEF PrintFloatInv, AtStart,
       ScalingUp, ScalingDown, AtSplit, Filling, AtRound, ShortExponent,
       Buffering
<1>10. CASE /\ pc = "up"
            /\ number' \in R!Products(number, factor, R!Off(input.value))
            /\ ~ R!Below(number', sig_digits - 1)
            /\ pc' = "round" /\ UNCHANGED <<factor, exponent>>
  <2>1. PICK w \in R!Products(number, factor, off) : w = number'
    BY <1>4, <1>10
  <2>2. /\ w \in ScaledNumber /\ Nine(w.m)
        /\ w.x = number.x + factor
        /\ R!Above(w, sig_digits)
             => R!Above(R!Scaled(number, factor), sig_digits)
    BY <1>3, ProductFact
  <2>3. ~ R!Below(w, sig_digits - 1) /\ ~ R!Above(w, sig_digits)
    BY <1>2, <1>10, <2>1, <2>2
  <2>4. PICK d \in 1..10 : d + w.x \in {sig_digits, sig_digits + 1}
    BY <2>2, <2>3, ScaledToPower
  <2>5. InRange(w.x + exponent) /\ w.x \in Int
    <3>1. w.x + exponent = number.x + factor + exponent /\ w.x \in Int
      BY <1>3, <2>2
    <3> QED
      BY <1>3, <3>1
  <2>6. exponent + sig_digits - 1 \in 2 - R!max_scaled..R!max_scaled - 2
    BY <1>3, <2>4, <2>5, ExponentInRange
  <2>7. FloatVariables'
    BY <1>1, <1>2, <1>3, <1>5, <1>10, <2>1, <2>2, ScalingTypes
  <2> QED
    BY <1>1, <1>2, <1>10, <2>6, <2>7 DEF PrintFloatInv, AtStart,
       ScalingUp, ScalingDown, AtSplit, Filling, AtRound, ShortExponent,
       Buffering, R!max_scaled
<1> QED
  BY <1>7, <1>8, <1>9, <1>10 DEF R!Multiply, R!Rescale, R!To

(* Scaling down, it stays above 10^(sig_digits - 1), or comes to it.       *)
LEMMA DivideStep == PrintFloatInv /\ R!Divide => PrintFloatInv'
<1> SUFFICES ASSUME PrintFloatInv, R!Divide PROVE PrintFloatInv'
  OBVIOUS
<1>1. /\ pc \in {"down_by_10", "down"}
      /\ UNCHANGED <<input, n_int, n, decimals, buf, out>>
  BY DEF R!Divide
<1>2. /\ FloatVariables /\ Given /\ Nine(input.value.m)
      /\ ~ R!Below(R!Scaled(number, factor), sig_digits - 1)
      /\ pc = "down_by_10" => factor = 0
      /\ buf = <<>>
  BY <1>1 DEF PrintFloatInv, ScalingDown, Buffering
<1>3. /\ number \in ScaledNumber /\ Nine(number.m) /\ number.m > 0
      /\ factor \in Int /\ exponent \in Int /\ n_int \in 0..R!max_scaled
      /\ number.x \in Int /\ InRange(number.x + factor + exponent)
      /\ sig_digits \in Int /\ sig_digits - 1 \in Int
  BY <1>2, DigitConstants DEF FloatVariables, Given, ScaledNumber
<1>4. PICK off \in Nat : off = R!Off(input.value)
  BY <1>2, OffFact, NineShort
<1>5. n_int' \in 0..R!max_scaled /\ Nine(input.value.m)'
  BY <1>1, <1>2, <1>3 DEF Nine
<1>6. R!BigStep = 10
  BY DEF R!BigStep
<1>7. CASE /\ pc = "down_by_10" /\ R!Above(number, sig_digits - 1 + R!BigStep)
           /\ number' \in R!Products(number, -R!BigStep, R!Off(input.value))
           /\ exponent' = exponent + R!BigStep
           /\ UNCHANGED <<factor, pc>>
  <2>1. PICK w \in R!Products(number, -10, off) : w = number'
    BY <1>4, <1>6, <1>7
  <2>2. /\ w \in ScaledNumber /\ Nine(w.m) /\ w.m > 0
        /\ w.x = number.x + -10
        /\ R!Below(w, sig_digits - 1)
             => R!Below(R!Scaled(number, -10), sig_digits - 1)
    <3>1. -10 \in Int
      OBVIOUS
    <3> QED
      BY <1>3, <3>1, ProductFact
  <2>3. ~ R!Below(w, sig_digits - 1)
    <3>1. /\ Power(number) \in Int
          /\ R!Scaled(number, -10) \in ScaledNumber
          /\ Short(R!Scaled(number, -10).m)
          /\ Power(R!Scaled(number, -10)) = Power(number) + -10
      BY <1>3, ScaledPower
    <3>2. Power(number) > sig_digits - 1 + 10
      <4>1. sig_digits - 1 + 10 \in Int /\ Short(number.m)
        BY <1>3, NineShort
      <4> QED
        BY <1>3, <1>6, <1>7, <4>1, PowerFact
    <3>3. ~ R!Below(R!Scaled(number, -10), sig_digits - 1)
      <4>1. ~ (Power(R!Scaled(number, -10)) <= sig_digits - 1)
        BY <1>3, <3>1, <3>2
      <4> QED
        BY <1>3, <3>1, <4>1, PowerFact
    <3> QED
      BY <2>2, <3>3
  <2>4. Given'
    <3>1. number'.x + factor' + exponent' = number.x + factor + exponent
      <4>1. number'.x = number.x + -10 /\ exponent' = exponent + 10
        BY <1>6, <1>7, <2>1, <2>2
      <4> QED
        BY <1>3, <1>7, <4>1
    <3> QED
      BY <1>3, <2>1, <2>2, <3>1 DEF Given, Nine, InRange, R!max_scaled
  <2>5. ~ R!Below(R!Scaled(number, factor), sig_digits - 1)'
    <3>1. R!Scaled(number, factor)' = w
      <4>1. factor' = 0 /\ w.x + 0 = w.x /\ w \in ScaledNumber
        BY <1>2, <1>7, <2>2 DEF ScaledNumber
      <4> QED
        BY <2>1, <4>1 DEF R!Scaled, ScaledNumber
    <3> QED
      BY <2>3, <3>1 DEF R!Below, R!Digits
  <2>6. factor' = 0 /\ exponent' \in Int /\ pc' = "down_by_10"
    BY <1>2, <1>3, <1>6, <1>7
  <2>7. FloatVariables'
    BY <1>1, <1>2, <1>5, <2>1, <2>2, <2>6, ScalingTypes
  <2> QED
    BY <1>1, <1>2, <1>5, <2>4, <2>5, <2>6, <2>7 DEF PrintFloatInv, AtStart,
       ScalingUp, ScalingDown, AtSplit, Filling, AtRound, ShortExponent,
       Buffering
<1>8. CASE /\ pc = "down_by_10" /\ pc' = "down"
           /\ UNCHANGED <<number, factor, exponent>>
  <2>1. /\ Given'
        /\ (~ R!Below(R!Scaled(number, factor), sig_digits - 1))'
    BY <1>2, <1>8 DEF Given, Nine, InRange, R!max_scaled, R!Scaled,
       R!Below, R!Digits
  <2>2. FloatVariables'
    BY <1>1, <1>2, <1>3, <1>5, <1>8, ScalingTypes
  <2> QED
    BY <1>1, <1>2, <1>5, <1>8, <2>1, <2>2 DEF PrintFloatInv, AtStart,
       ScalingUp, ScalingDown, AtSplit, Filling, AtRound, ShortExponent,
       Buffering
<1>9. CASE /\ pc = "down"
           /\ \E w \in R!LeftToScale : R!Above(w, sig_digits)
           /\ factor' = factor - 1 /\ exponent' = exponent + 1
           /\ UNCHANGED <<number, pc>>
  <2>1. PICK w \in R!Products(number, factor, off) : R!Above(w, sig_digits)
    BY <1>4, <1>9 DEF R!LeftToScale
  <2>2. R!Above(R!Scaled(number, factor), sig_digits)
    BY <1>3, <2>1, ProductFact
  <2>3. PICK k \in Int : k = factor - 1 /\ k = factor'
    BY <1>3, <1>9
  <2>4. /\ Power(number) \in Int
        /\ R!Scaled(number, factor) \in ScaledNumber
        /\ Short(R!Scaled(number, factor).m)
        /\ Power(R!Scaled(number, factor)) = Power(number) + factor
        /\ R!Scaled(number, k) \in ScaledNumber
        /\ Short(R!Scaled(number, k).m)
        /\ Power(R!Scaled(number, k)) = Power(number) + k
    BY <1>3, ScaledPower
  <2>5. Power(R!Scaled(number, factor)) > sig_digits
    BY <1>3, <2>2, <2>4, PowerFact
  <2>6. ~ (Power(R!Scaled(number, k)) <= sig_digits - 1)
    BY <1>3, <2>3, <2>4, <2>5
  <2>7. ~ R!Below(R!Scaled(number, k), sig_digits - 1)
    BY <1>3, <2>4, <2>6, PowerFact
  <2>8. ~ R!Below(R!Scaled(number, factor), sig_digits - 1)'
    <3>1. R!Scaled(number, factor)' = R!Scaled(number, k)
      BY <1>9, <2>3 DEF R!Scaled
    <3> QED
      BY <2>7, <3>1 DEF R!Below, R!Digits
  <2>9. Given'
    <3>1. number'.x + factor' + exponent' = number.x + factor + exponent
      BY <1>3, <1>9
    <3> QED
      BY <1>3, <1>9, <3>1 DEF Given, Nine, InRange, R!max_scaled
  <2>10. factor' \in Int /\ exponent' \in Int /\ pc' = "down"
    BY <1>3, <1>9
  <2>11. FloatVariables'
    BY <1>1, <1>2, <1>3, <1>5, <1>9, <2>10, ScalingTypes
  <2> QED
    BY <1>1, <1>2, <1>5, <2>8, <2>9, <2>10, <2>11 DEF PrintFloatInv, AtStart,
       ScalingUp, ScalingDown, AtSplit, Filling, AtRound, ShortExponent,
       Buffering
<1>10. CASE /\ pc = "down"
            /\ number' \in R!Products(number, factor, R!Off(input.value))
            /\ ~ R!Above(number', sig_digits)
            /\ pc' = "round" /\ UNCHANGED <<factor, exponent>>
  <2>1. PICK w \in R!Products(number, factor, off) : w = number'
    BY <1>4, <1>10
  <2>2. /\ w \in ScaledNumber /\ Nine(w.m)
        /\ w.x = number.x + factor
        /\ R!Below(w, sig_digits - 1)
             => R!Below(R!Scaled(number, factor), sig_digits - 1)
    BY <1>3, ProductFact
  <2>3. ~ R!Below(w, sig_digits - 1) /\ ~ R!Above(w, sig_digits)
    BY <1>2, <1>10, <2>1, <2>2
  <2>4. PICK d \in 1..10 : d + w.x \in {sig_digits, sig_digits + 1}
    BY <2>2, <2>3, ScaledToPower
  <2>5. InRange(w.x + exponent) /\ w.x \in Int
    <3>1. w.x + exponent = number.x + factor + exponent /\ w.x \in Int
      BY <1>3, <2>2
    <3> QED
      BY <1>3, <3>1
  <2>6. exponent + sig_digits - 1 \in 2 - R!max_scaled..R!max_scaled - 2
    BY <1>3, <2>4, <2>5, ExponentInRange
  <2>7. FloatVariables'
    BY <1>1, <1>2, <1>3, <1>5, <1>10, <2>1, <2>2, ScalingTypes
  <2> QED
    BY <1>1, <1>2, <1>10, <2>6, <2>7 DEF PrintFloatInv, AtStart,
       ScalingUp, ScalingDown, AtSplit, Filling, AtRound, ShortExponent,
       Buffering, R!max_scaled
<1> QED
  BY <1>7, <1>8, <1>9, <1>10 DEF R!Divide, R!Rescale, R!To

(* The integer part of a number from 1 to max_scaled is one too.           *)
LEMMA TruncatedFact ==
  ASSUME NEW v \in ScaledNumber, Short(v.m), v.m > 0, Power(v) >= 1,
         ~ R!Above(v, sig_digits)
  PROVE  R!Truncated(v) \in 1..R!max_scaled
<1>1. /\ sig_digits \in Nat /\ R!max_scaled = R!TenTo[sig_digits]
      /\ v.m \in Nat /\ v.x \in Int /\ sig_digits \in Int
  BY DigitConstants DEF ScaledNumber
<1>2. PICK d \in 1..10 : /\ d = R!Digits(v.m) /\ v.m < R!TenTo[d]
                         /\ d = 1 \/ v.m >= R!TenTo[d - 1]
  BY DigitsFact
<1>3. Power(v) = d + v.x
  BY <1>2 DEF Power
<1>4. \/ d + v.x <= sig_digits
      \/ d + v.x = sig_digits + 1 /\ v.m = R!TenTo[d - 1]
  BY <1>1, <1>2, <1>3, PowerFact
<1>5. PICK k \in Nat : v.m <= R!TenTo[k] /\ k + v.x <= sig_digits
  <2>1. CASE d + v.x <= sig_digits
    <3>1. d \in Nat /\ R!TenTo[d] \in Nat
      BY TenToNat
    <3>2. v.m <= R!TenTo[d]
      BY <1>1, <1>2, <3>1
    <3> QED
      BY <2>1, <3>1, <3>2
  <2>2. CASE d + v.x = sig_digits + 1 /\ v.m = R!TenTo[d - 1]
    <3>1. d - 1 \in Nat /\ (d - 1) + v.x <= sig_digits /\ v.m <= v.m
      BY <1>1, <2>2
    <3> QED
      BY <2>2, <3>1
  <2> QED
    BY <1>4, <2>1, <2>2
<1>6. CASE v.x >= 0
  <2>1. v.x \in Nat /\ k + v.x \in Nat
    BY <1>1, <1>6
  <2>2. PICK a \in Nat : a = R!TenTo[v.x] /\ a > 0
    BY <2>1, TenToNat
  <2>3. PICK b \in Nat : b = R!TenTo[k]
    BY TenToNat
  <2>4. R!TenTo[k + v.x] = b * a /\ R!TenTo[k + v.x] <= R!max_scaled
    BY <1>1, <1>5, <2>1, <2>2, <2>3, TenToSum, TenToOrder
  <2>5. R!Truncated(v) = v.m * a
    BY <1>6, <2>2 DEF R!Truncated
  <2>6. v.m * a <= b * a /\ v.m * a \in Nat /\ v.m * a >= 1
    <3>1. v.m <= b
      BY <1>5, <2>3
    <3>2. PICK c \in Nat : b = v.m + c
      <4>1. b - v.m \in Nat /\ b = v.m + (b - v.m)
        BY <1>1, <3>1
      <4> QED
        BY <4>1
    <3>3. (v.m + c) * a = v.m * a + c * a /\ c * a \in Nat /\ v.m * a \in Nat
      BY <1>1
    <3>4. v.m * a >= 1
      BY <1>1, <2>2
    <3> QED
      BY <3>2, <3>3, <3>4
  <2>7. R!max_scaled \in Nat
    BY DigitConstants
  <2> QED
    BY <2>4, <2>5, <2>6, <2>7
<1>7. CASE v.x < 0
  <2>1. -v.x \in Nat /\ sig_digits - v.x \in Nat /\ sig_digits + -v.x \in Nat
        /\ sig_digits - v.x = sig_digits + -v.x
    BY <1>1, <1>7
  <2>2. ~ R!Below(v, 0)
    <3>1. 0 \in Int /\ ~ (Power(v) <= 0)
      BY <1>1, <1>3
    <3> QED
      BY <3>1, PowerFact
  <2>3. PICK a \in Nat : a = R!TenTo[-v.x] /\ a > 0
    BY <2>1, TenToNat
  <2>4. R!Truncated(v) = v.m \div a
    BY <1>1, <1>7, <2>2, <2>3 DEF R!Truncated
  <2>5. v.m >= a
    <3>1. d # 1 /\ d - 1 \in Nat /\ -v.x <= d - 1
      BY <1>1, <1>3, <1>7
    <3>2. a <= R!TenTo[d - 1] /\ R!TenTo[d - 1] \in Nat
      BY <2>1, <2>3, <3>1, TenToOrder, TenToNat
    <3> QED
      BY <1>1, <1>2, <3>1, <3>2
  <2>6. PICK s \in Nat : s = R!max_scaled
    BY DigitConstants
  <2>7. v.m <= s * a
    <3>1. k <= sig_digits + -v.x
      BY <1>1, <1>5
    <3>2. R!TenTo[k] <= R!TenTo[sig_digits + -v.x]
      BY <2>1, <3>1, TenToOrder
    <3>3. R!TenTo[sig_digits + -v.x] = s * a
      BY <1>1, <2>1, <2>3, <2>6, TenToSum
    <3>4. R!TenTo[k] \in Nat /\ s * a \in Nat
      BY TenToNat
    <3> QED
      BY <1>1, <1>5, <3>2, <3>3, <3>4
  <2>8. v.m \div a \in 1..s
    <3>1. PICK m \in Nat : m = v.m
      BY <1>1
    <3>2. /\ m \div a \in Int /\ (m % a) \in 0..a - 1
          /\ m = a * (m \div a) + (m % a)
      BY <2>3, DivMod
    <3>3. PICK q \in Int : /\ q = v.m \div a
                           /\ \E r \in 0..a - 1 : v.m = a * q + r
      BY <3>1, <3>2
    <3>4. q >= 1
      <4>1. SUFFICES ASSUME q <= 0 PROVE FALSE
        BY <3>3
      <4>2. a * q <= 0
        BY <2>3, <3>3, <4>1
      <4>3. PICK r \in 0..a - 1 : v.m = a * q + r
        BY <3>3
      <4> QED
        BY <1>1, <2>3, <2>5, <4>2, <4>3
    <3>5. q <= s
      <4>1. SUFFICES ASSUME q >= s + 1 PROVE FALSE
        BY <2>6, <3>3
      <4>2. PICK c \in Nat : q = s + 1 + c
        <5>1. q - (s + 1) \in Nat /\ q = s + 1 + (q - (s + 1))
          BY <3>3, <4>1
        <5> QED
          BY <5>1
      <4>3. a * (s + 1 + c) = s * a + a + a * c /\ a * c \in Nat
        OBVIOUS
      <4>4. PICK r \in 0..a - 1 : v.m = a * q + r
        BY <3>3
      <4>5. v.m = (s * a + a + a * c) + r
        BY <4>2, <4>3, <4>4
      <4>6. s * a \in Nat
        BY <2>6
      <4> QED
        BY <1>1, <2>3, <2>7, <4>3, <4>4, <4>5, <4>6
    <3> QED
      BY <3>3, <3>4, <3>5
  <2> QED
    BY <2>4, <2>6, <2>8
<1> QED
  BY <1>1, <1>6, <1>7

(* What is left of it is a number of that kind.                            *)
LEMMA FractionFact ==
  ASSUME NEW v \in ScaledNumber
  PROVE  R!Fraction(v) \in ScaledNumber
<1>1. v.m \in Nat /\ v.x \in Int
  BY DEF ScaledNumber
<1>2. CASE v.x >= 0
  BY <1>2 DEF R!Fraction, ScaledNumber
<1>3. CASE v.x < 0
  <2>1. -v.x \in Nat
    BY <1>1, <1>3
  <2>2. PICK a \in Nat : a = R!TenTo[-v.x] /\ a > 0
    BY <2>1, TenToNat
  <2>3. PICK r \in Nat : r = (v.m % a)
    <3>1. (v.m % a) \in 0..a - 1
      BY <1>1, <2>2, DivMod
    <3> QED
      BY <2>2, <3>1
  <2>4. R!Fraction(v) = [v EXCEPT !.m = r]
    <3>1. ~ (v.x >= 0)
      BY <1>1, <1>3
    <3> QED
      BY <2>2, <2>3, <3>1 DEF R!Fraction, ScaledNumber
  <2> QED
    BY <2>3, <2>4 DEF ScaledNumber
<1> QED
  BY <1>1, <1>2, <1>3

(* The integer part is multiplied by ten until it has all its digits.      *)
LEMMA SplitStep == PrintFloatInv /\ R!Split => PrintFloatInv'
<1> SUFFICES ASSUME PrintFloatInv, R!Split PROVE PrintFloatInv'
  OBVIOUS
<1>1. /\ pc \in {"split", "fill"}
      /\ UNCHANGED <<input, n, decimals, buf, out>>
  BY DEF R!Split
<1>2. FloatVariables /\ buf = <<>>
  BY <1>1 DEF PrintFloatInv, Buffering
<1>3. /\ number \in ScaledNumber /\ factor \in Int /\ exponent \in Int
      /\ n_int \in 0..R!max_scaled
  BY <1>2 DEF FloatVariables
<1>4. /\ sig_digits \in Nat /\ sig_digits >= 2 /\ R!max_scaled \in Nat
      /\ sig_digits < R!max_scaled /\ R!min_scaled \in Nat
      /\ R!max_scaled = 10 * R!min_scaled
  <2>1. sig_digits - 1 \in Nat /\ (sig_digits - 1) + 1 = sig_digits
    BY DigitConstants
  <2> QED
    BY <2>1, DigitConstants, TenToFact
<1>5. CASE /\ pc = "split" /\ n_int' = R!Truncated(number)
           /\ number' = R!Fraction(number)
           /\ pc' = "fill" /\ UNCHANGED <<factor, exponent>>
  <2>1. /\ Given /\ factor = 0 /\ exponent = 0
        /\ Power(number) >= 1 /\ ~ R!Above(number, sig_digits)
        /\ Short(number.m)
    BY <1>5, NineShort DEF PrintFloatInv, AtSplit, Given
  <2>2. n_int' \in 1..R!max_scaled
    BY <1>3, <1>5, <2>1, TruncatedFact DEF Given
  <2>3. number' \in ScaledNumber
    BY <1>3, <1>5, FractionFact
  <2>4. FloatVariables'
    <3>1. n_int' \in 0..R!max_scaled
      BY <1>4, <2>2
    <3> QED
      BY <1>1, <1>2, <1>3, <1>5, <2>3, <3>1, ScalingTypes
  <2>5. /\ factor' \in 0..sig_digits - 1 /\ exponent' + factor' = 0
        /\ n_int' >= R!TenTo[factor']
    <3>1. factor' = 0 /\ exponent' = 0
      BY <1>5, <2>1
    <3>2. R!TenTo[factor'] = 1
      BY <3>1, TenToFact
    <3>3. n_int' >= 1
      BY <1>4, <2>2
    <3>4. 0 \in 0..sig_digits - 1
      BY <1>4
    <3>5. factor' \in 0..sig_digits - 1 /\ exponent' + factor' = 0
      BY <3>1, <3>4
    <3> QED
      BY <3>2, <3>3, <3>5
  <2> QED
    BY <1>1, <1>2, <1>5, <2>4, <2>5 DEF PrintFloatInv, AtStart,
       ScalingUp, ScalingDown, AtSplit, Filling, AtRound, ShortExponent,
       Buffering, R!TenTo
<1>6. CASE /\ pc = "fill" /\ n_int < R!min_scaled /\ n_int' = n_int * 10
           /\ factor' = factor + 1 /\ exponent' = exponent - 1
           /\ UNCHANGED <<number, pc>>
  <2>1. /\ factor \in 0..sig_digits - 1 /\ exponent + factor = 0
        /\ n_int >= R!TenTo[factor]
    BY <1>6 DEF PrintFloatInv, Filling
  <2>2. PICK f \in Nat : f = factor
    BY <1>4, <2>1
  <2>3. PICK t \in Nat : t = R!TenTo[f]
    BY TenToNat
  <2>4. f < sig_digits - 1
    <3>1. t < R!min_scaled
      BY <1>3, <1>4, <1>6, <2>1, <2>2, <2>3
    <3>2. sig_digits - 1 \in Nat /\ R!min_scaled = R!TenTo[sig_digits - 1]
      BY <1>4, DigitConstants
    <3> QED
      BY <2>3, <3>1, <3>2, TenToOrder
  <2>5. n_int' \in 0..R!max_scaled
    BY <1>3, <1>4, <1>6
  <2>6. /\ factor' = f + 1 /\ f + 1 \in 0..sig_digits - 1
        /\ exponent' + factor' = 0
    BY <1>3, <1>4, <1>6, <2>1, <2>2, <2>4
  <2>7. n_int' >= R!TenTo[f + 1]
    BY <1>3, <1>6, <2>1, <2>2, <2>3, TenToFact
  <2>8. R!TenTo[factor]' = R!TenTo[f + 1]
    BY <2>6
  <2>9. FloatVariables'
    <3>1. factor' \in Int /\ exponent' \in Int
      BY <1>3, <1>6
    <3> QED
      BY <1>1, <1>2, <1>3, <1>6, <2>5, <3>1, ScalingTypes
  <2>10. Filling'
    BY <2>6, <2>7, <2>8 DEF Filling
  <2> QED
    BY <1>1, <1>2, <1>6, <2>9, <2>10 DEF PrintFloatInv, AtStart,
       ScalingUp, ScalingDown, AtSplit, AtRound, ShortExponent, Buffering
<1>7. CASE /\ pc = "fill" /\ n_int >= R!min_scaled
           /\ number' \in R!Products(number, factor, R!Off(number))
           /\ pc' = "round" /\ UNCHANGED <<factor, n_int, exponent>>
  <2>1. factor \in 0..sig_digits - 1 /\ exponent + factor = 0
    BY <1>7 DEF PrintFloatInv, Filling
  <2>2. exponent + sig_digits - 1 \in 2 - R!max_scaled..R!max_scaled - 2
    BY <1>3, <1>4, <2>1
  <2>3. number' \in ScaledNumber
    <3>1. R!Off(number) \in Nat
      BY <1>3, OffFact DEF ScaledNumber
    <3> QED
      BY <1>3, <1>7, <3>1, ProductFact
  <2>4. FloatVariables'
    BY <1>1, <1>2, <1>3, <1>7, <2>3, ScalingTypes
  <2> QED
    BY <1>1, <1>2, <1>7, <2>2, <2>4 DEF PrintFloatInv, AtStart,
       ScalingUp, ScalingDown, AtSplit, Filling, AtRound, ShortExponent,
       Buffering, R!max_scaled
<1> QED
  BY <1>5, <1>6, <1>7 DEF R!Split, R!Rescale, R!To

(* Truncating and rounding give natural numbers.                           *)
LEMMA TruncatedNat ==
  ASSUME NEW v \in ScaledNumber
  PROVE  R!Truncated(v) \in Nat
<1>1. v.m \in Nat /\ v.x \in Int
  BY DEF ScaledNumber
<1>2. CASE v.x >= 0
  <2>1. v.x \in Nat
    BY <1>1, <1>2
  <2>2. R!TenTo[v.x] \in Nat
    BY <2>1, TenToNat
  <2>3. v.m * R!TenTo[v.x] \in Nat
    BY <1>1, <2>2
  <2> QED
    BY <1>2, <2>3 DEF R!Truncated
<1>3. CASE ~ (v.x >= 0)
  <2>1. -v.x \in Nat
    BY <1>1, <1>3
  <2>2. PICK a \in Nat : a = R!TenTo[-v.x] /\ a > 0
    BY <2>1, TenToNat
  <2>3. v.m \div a \in Nat
    <3>1. PICK m \in Nat : m = v.m
      BY <1>1
    <3>2. m \in Int /\ a > 0
      BY <2>2
    <3>3. /\ m \div a \in Int /\ (m % a) \in 0..a - 1
          /\ m = a * (m \div a) + (m % a)
      BY <3>2, DivMod
    <3>4. PICK q \in Int, r \in 0..a - 1 : m \div a = q /\ m = a * q + r
      BY <3>3
    <3>5. q >= 0
      <4>1. SUFFICES ASSUME q <= -1 PROVE FALSE
        BY <3>4
      <4>2. PICK c \in Nat : q = -1 - c
        <5>1. -1 - q \in Nat /\ q = -1 - (-1 - q)
          BY <4>1
        <5> QED
          BY <5>1
      <4>3. a * (-1 - c) = -a - a * c /\ a * c \in Nat
        OBVIOUS
      <4> QED
        BY <2>2, <3>4, <4>2, <4>3
    <3> QED
      BY <3>1, <3>4, <3>5
  <2> QED
    BY <1>3, <2>2, <2>3 DEF R!Truncated
<1> QED
  BY <1>2, <1>3

(* So does rounding.                                                       *)
LEMMA RoundedNat ==
  ASSUME NEW v \in ScaledNumber
  PROVE  R!Rounded(v) \in Nat
<1>1. v.m \in Nat /\ v.x \in Int
  BY DEF ScaledNumber
<1>2. R!Twice(v) \in ScaledNumber
  BY <1>1 DEF R!Twice, ScaledNumber
<1>3. PICK t \in Nat : t = R!Truncated(R!Twice(v))
  BY <1>2, TruncatedNat
<1>4. PICK r \in Nat : r = (t + 1) \div 2
  OBVIOUS
<1>5. R!Rounded(v) = IF (r % 2) = 1 /\ R!Tie(v) THEN r - 1 ELSE r
  BY <1>3, <1>4 DEF R!Rounded
<1>6. (r % 2) = 1 => r - 1 \in Nat
  BY <1>4
<1> QED
  BY <1>5, <1>6

(* Rounding may carry into one digit more, which is cut.                   *)
LEMMA RoundStep == PrintFloatInv /\ R!Round => PrintFloatInv'
<1> SUFFICES ASSUME PrintFloatInv, R!Round PROVE PrintFloatInv'
  OBVIOUS
<1>1. /\ pc = "round" /\ pc' = "trim"
      /\ UNCHANGED <<input, number, factor, n_int, buf, out>>
  BY DEF R!Round, R!To
<1>2. /\ FloatVariables /\ buf = <<>>
      /\ exponent + sig_digits - 1 \in 2 - R!max_scaled..R!max_scaled - 2
  BY <1>1 DEF PrintFloatInv, AtRound, Buffering
<1>3. PICK sum : sum = R!Rounded(number) + n_int
  OBVIOUS
<1>4. PICK e : e = IF R!Carries(sum) THEN exponent + 1 ELSE exponent
  OBVIOUS
<1>5. /\ n' = IF R!Carries(sum) THEN R!min_scaled ELSE sum
      /\ decimals' = IF e \in R!Plain THEN -e ELSE sig_digits - 1
      /\ exponent' = e + decimals'
  BY <1>3, <1>4 DEF R!Round
<1>6. /\ number \in ScaledNumber /\ n_int \in 0..R!max_scaled
      /\ exponent \in Int
  BY <1>2 DEF FloatVariables
<1>7. /\ sig_digits \in Nat /\ sig_digits >= 2 /\ R!max_scaled \in Nat
      /\ sig_digits < R!max_scaled
      /\ R!min_scaled \in Nat /\ R!min_scaled < R!max_scaled
  BY DigitConstants
<1>8. sum \in Nat
  <2>1. R!Rounded(number) \in Nat
    BY <1>6, RoundedNat
  <2> QED
    BY <1>3, <1>6, <2>1
<1>9. n' \in 0..R!max_scaled - 1
  BY <1>5, <1>7, <1>8 DEF R!Carries
<1>10. /\ e \in Int /\ 2 - R!max_scaled <= e + sig_digits - 1
       /\ e + sig_digits - 1 <= R!max_scaled - 1
  BY <1>2, <1>4, <1>6, <1>7
<1>11. /\ decimals' \in 0..sig_digits + 3
       /\ exponent' \in 1 - R!max_scaled..R!max_scaled - 1
  <2>1. CASE e \in R!Plain
    <3>1. e \in -(sig_digits + 3)..0 /\ decimals' = -e
      BY <1>5, <2>1 DEF R!Plain
    <3>2. -e \in 0..sig_digits + 3 /\ e + -e = 0
      BY <1>7, <1>10, <3>1
    <3>3. 0 \in 1 - R!max_scaled..R!max_scaled - 1
      BY <1>7
    <3> QED
      BY <1>5, <3>1, <3>2, <3>3
  <2>2. CASE e \notin R!Plain
    <3>1. decimals' = sig_digits - 1 /\ exponent' = e + (sig_digits - 1)
      BY <1>5, <2>2
    <3> QED
      BY <1>7, <1>10, <3>1
  <2> QED
    BY <2>1, <2>2
<1>12. FloatVariables'
  <2>1. exponent' \in Int
    BY <1>7, <1>11
  <2> QED
    BY <1>1, <1>2, <1>9, <1>11, <2>1 DEF FloatVariables, R!max_scaled,
       ScaledNumber
<1> QED
  BY <1>1, <1>2, <1>11, <1>12 DEF PrintFloatInv, AtStart,
     ScalingUp, ScalingDown, AtSplit, Filling, AtRound, ShortExponent,
     Buffering, R!max_scaled

(* What a quotient by ten is.                                              *)
LEMMA TenthFact ==
  ASSUME NEW k \in Nat
  PROVE  /\ k \div 10 \in Nat /\ k \div 10 <= k
         /\ k # 0 => k \div 10 < k
         /\ 48 + (k % 10) \in 48..57
         /\ \A t \in Nat : k < 10 * t => k \div 10 < t
OBVIOUS

(* Zeros after the point go, and with each of them a digit after it.       *)
LEMMA TrimStep == PrintFloatInv /\ R!Trim => PrintFloatInv'
<1> SUFFICES ASSUME PrintFloatInv, R!Trim PROVE PrintFloatInv'
  OBVIOUS
<1>1. /\ pc = "trim"
      /\ UNCHANGED <<input, number, factor, n_int, exponent, buf, out>>
  BY DEF R!Trim
<1>2. /\ FloatVariables /\ buf = <<>>
      /\ exponent \in 1 - R!max_scaled..R!max_scaled - 1
  BY <1>1 DEF PrintFloatInv, ShortExponent, Buffering
<1>3. n \in 0..R!max_scaled - 1 /\ decimals \in 0..sig_digits + 3
  BY <1>2 DEF FloatVariables
<1>4. /\ sig_digits \in Nat /\ sig_digits >= 2 /\ R!max_scaled \in Nat
      /\ R!max_scaled = R!TenTo[sig_digits]
  BY DigitConstants
<1>5. CASE /\ decimals > 0 /\ n' = n \div 10 /\ decimals' = decimals - 1
           /\ UNCHANGED pc
  <2>1. n' \in 0..R!max_scaled - 1
    <3>1. n \in Nat
      BY <1>3
    <3>2. n \div 10 \in Nat /\ n \div 10 <= n
      BY <3>1, TenthFact
    <3> QED
      BY <1>3, <1>4, <1>5, <3>2
  <2>2. decimals' \in 0..sig_digits + 3
    BY <1>3, <1>4, <1>5
  <2>3. FloatVariables'
    BY <1>1, <1>2, <1>5, <2>1, <2>2 DEF FloatVariables, R!max_scaled,
       ScaledNumber
  <2> QED
    BY <1>1, <1>2, <1>5, <2>3 DEF PrintFloatInv, AtStart,
       ScalingUp, ScalingDown, AtSplit, Filling, AtRound, ShortExponent,
       Buffering, R!max_scaled
<1>6. CASE pc' = "buffer" /\ UNCHANGED <<n, decimals>>
  <2>1. n < R!TenTo[sig_digits] /\ Len(buf) = 0 /\ sig_digits - 0 = sig_digits
    BY <1>2, <1>3, <1>4
  <2>2. Len(buf) < sig_digits /\ n < R!TenTo[sig_digits - Len(buf)]
    BY <1>4, <2>1
  <2>3. FloatVariables'
    BY <1>1, <1>2, <1>6 DEF FloatVariables, R!max_scaled, ScaledNumber
  <2>4. Buffering'
    BY <1>1, <1>6, <2>2 DEF Buffering, R!TenTo
  <2> QED
    BY <1>1, <1>2, <1>6, <2>3, <2>4 DEF PrintFloatInv, AtStart,
       ScalingUp, ScalingDown, AtSplit, Filling, AtRound, ShortExponent,
       R!max_scaled
<1> QED
  BY <1>5, <1>6 DEF R!Trim, R!To

(* A digit goes from n to buf: n has one less, and buf one more.  Once n   *)
(* is 0 there are the zeros that decimals asks for.                        *)
LEMMA BufferStep == PrintFloatInv /\ R!Buffer => PrintFloatInv'
<1> SUFFICES ASSUME PrintFloatInv, R!Buffer PROVE PrintFloatInv'
  OBVIOUS
<1>1. /\ pc \in {"buffer", "buffer_exponent"}
      /\ UNCHANGED <<input, number, factor, n_int, exponent, decimals, out>>
  BY DEF R!Buffer
<1>2. /\ FloatVariables
      /\ pc = "buffer" => exponent \in 1 - R!max_scaled..R!max_scaled - 1
      /\ n = 0 \/ (Len(buf) < sig_digits
                    /\ n < R!TenTo[sig_digits - Len(buf)])
  BY <1>1 DEF PrintFloatInv, ShortExponent, Buffering
<1>3. /\ n \in 0..R!max_scaled - 1 /\ decimals \in 0..sig_digits + 3
      /\ buf \in Seq(48..57) /\ Len(buf) <= sig_digits + 4
  BY <1>2 DEF FloatVariables
<1>4. /\ sig_digits \in Nat /\ sig_digits >= 2 /\ R!max_scaled \in Nat
  BY DigitConstants
<1>5. PICK l \in Nat : l = Len(buf)
  BY <1>3, LenProperties
<1>6. CASE /\ n # 0 \/ Len(buf) < R!Least
           /\ buf' = Append(buf, 48 + (n % 10)) /\ n' = n \div 10
           /\ UNCHANGED pc
  <2>1. PICK k \in Nat : k = n
    BY <1>3
  <2>2. /\ k \div 10 \in Nat /\ k \div 10 <= k /\ 48 + (k % 10) \in 48..57
        /\ \A t \in Nat : k < 10 * t => k \div 10 < t
    BY TenthFact
  <2>3. PICK c \in 48..57 : buf' = Append(buf, c)
    BY <1>6, <2>1, <2>2
  <2>4. buf' \in Seq(48..57) /\ Len(buf') = l + 1
    BY <1>3, <1>5, <2>3, AppendProperties
  <2>5. n' \in 0..R!max_scaled - 1
    BY <1>3, <1>4, <1>6, <2>1, <2>2
  <2>6. Len(buf') <= sig_digits + 4
    <3>1. CASE n # 0
      BY <1>2, <1>4, <1>5, <2>4, <3>1
    <3>2. CASE Len(buf) < R!Least
      <4>1. R!Least = decimals + 1 \/ R!Least = 2
        BY DEF R!Least
      <4> QED
        BY <1>3, <1>4, <1>5, <2>4, <3>2, <4>1
    <3> QED
      BY <1>6, <3>1, <3>2
  <2>7. n' = 0 \/ (Len(buf') < sig_digits
                    /\ n' < R!TenTo[sig_digits - Len(buf')])
    <3>1. CASE n = 0
      BY <1>6, <3>1
    <3>2. CASE n # 0
      <4>1. l < sig_digits /\ n < R!TenTo[sig_digits - l]
        BY <1>2, <1>5, <3>2
      <4>2. /\ sig_digits - (l + 1) \in Nat
            /\ (sig_digits - (l + 1)) + 1 = sig_digits - l
        BY <1>4, <4>1
      <4>3. PICK t \in Nat : t = R!TenTo[sig_digits - (l + 1)]
        BY <4>2, TenToNat
      <4>4. R!TenTo[sig_digits - l] = 10 * t
        BY <4>2, <4>3, TenToFact
      <4>5. n' < t
        BY <1>6, <2>1, <2>2, <4>1, <4>4
      <4>6. CASE l + 1 < sig_digits
        BY <2>4, <4>3, <4>5, <4>6
      <4>7. CASE l + 1 = sig_digits
        <5>1. sig_digits - (l + 1) = 0
          BY <1>4, <4>7
        <5>2. t = 1
          BY <4>3, <5>1, TenToFact
        <5> QED
          BY <2>5, <1>4, <4>5, <5>2
      <4> QED
        BY <1>4, <4>1, <4>6, <4>7
    <3> QED
      BY <3>1, <3>2
  <2>8. FloatVariables'
    BY <1>1, <1>2, <1>6, <2>4, <2>5, <2>6 DEF FloatVariables, R!max_scaled,
       ScaledNumber
  <2>9. Buffering'
    <3>1. R!TenTo[sig_digits - Len(buf)]' = R!TenTo[sig_digits - Len(buf')]
      BY DEF R!TenTo
    <3> QED
      BY <1>1, <1>6, <2>7, <3>1 DEF Buffering
  <2> QED
    BY <1>1, <1>2, <1>6, <2>8, <2>9 DEF PrintFloatInv, AtStart,
       ScalingUp, ScalingDown, AtSplit, Filling, AtRound, ShortExponent,
       R!max_scaled
<1>7. CASE /\ pc' = IF pc = "buffer" THEN "print" ELSE "print_exponent"
           /\ UNCHANGED <<buf, n>>
  <2>1. FloatVariables'
    BY <1>1, <1>2, <1>7 DEF FloatVariables, R!max_scaled, ScaledNumber
  <2> QED
    BY <1>1, <1>2, <1>7, <2>1 DEF PrintFloatInv, AtStart, ScalingUp,
       ScalingDown, AtSplit, Filling, AtRound, ShortExponent, Buffering,
       R!max_scaled
<1> QED
  BY <1>6, <1>7 DEF R!Buffer, R!To

(* The last character of buf is printed, after a point where one is due.   *)
LEMMA FloatDigitStep == PrintFloatInv /\ R!PrintDigit => PrintFloatInv'
<1> SUFFICES ASSUME PrintFloatInv, R!PrintDigit PROVE PrintFloatInv'
  OBVIOUS
<1>1. /\ pc \in {"print", "print_exponent"} /\ buf # <<>>
      /\ buf' = R!Unprinted(buf)
      /\ out' = out \o (IF pc = "print" /\ Len(buf) = decimals
                        THEN <<46, R!Last(buf)>> ELSE <<R!Last(buf)>>)
      /\ UNCHANGED <<input, number, factor, n_int, n, exponent, decimals, pc>>
  BY DEF R!PrintDigit
<1>2. /\ FloatVariables
      /\ pc = "print" => exponent \in 1 - R!max_scaled..R!max_scaled - 1
  BY <1>1 DEF PrintFloatInv, ShortExponent
<1>3. /\ buf \in Seq(48..57) /\ Len(buf) <= sig_digits + 4
      /\ out \in Seq(32..126)
  BY <1>2 DEF FloatVariables
<1>4. PICK l \in Nat : l = Len(buf) /\ l > 0
  <2>1. Len(buf) \in Nat /\ Len(buf) # 0
    BY <1>1, <1>3, EmptySeq, LenProperties
  <2> QED
    BY <2>1
<1>5. sig_digits \in Nat
  BY DigitConstants
<1>6. R!Last(buf) \in 48..57
  <2>1. l \in 1..Len(buf) /\ R!Last(buf) = buf[l]
    BY <1>4 DEF R!Last
  <2> QED
    BY <1>3, <2>1, ElementOfSeq
<1>7. out' \in Seq(32..126)
  <2>1. PICK c \in 32..126 : c = R!Last(buf)
    BY <1>6
  <2>2. <<46, c>> \in Seq(32..126) /\ <<c>> \in Seq(32..126)
    OBVIOUS
  <2>3. PICK s \in Seq(32..126) : out' = out \o s
    BY <1>1, <2>1, <2>2
  <2> QED
    BY <1>3, <2>3, ConcatProperties
<1>8. buf' \in Seq(48..57) /\ Len(buf') <= sig_digits + 4
  <2>1. l - 1 \in 0..l /\ l - 1 \in Nat
    BY <1>4
  <2>2. buf' = SubSeq(buf, 1, l - 1)
    BY <1>1, <1>4 DEF R!Unprinted
  <2>3. \A k \in 1..l - 1 : buf[k] \in 48..57
    BY <1>3, <1>4
  <2>4. buf' \in Seq(48..57) /\ Len(buf') = l - 1
    BY <1>3, <1>4, <2>1, <2>2
  <2> QED
    BY <1>3, <1>4, <1>5, <2>4
<1>9. FloatVariables'
  BY <1>1, <1>2, <1>7, <1>8 DEF FloatVariables, R!max_scaled, ScaledNumber
<1> QED
  BY <1>1, <1>2, <1>9 DEF PrintFloatInv, AtStart, ScalingUp, ScalingDown,
     AtSplit, Filling, AtRound, ShortExponent, Buffering, R!max_scaled

(* After the digits there may be an exponent to print.                     *)
LEMMA FloatEndsStep == PrintFloatInv /\ R!PrintEnds => PrintFloatInv'
<1> SUFFICES ASSUME PrintFloatInv, R!PrintEnds PROVE PrintFloatInv'
  OBVIOUS
<1>1. /\ pc \in {"print", "print_exponent"} /\ buf = <<>>
      /\ UNCHANGED <<input, number, factor, n_int, exponent, decimals, buf>>
  BY DEF R!PrintEnds
<1>2. /\ FloatVariables
      /\ pc = "print" => exponent \in 1 - R!max_scaled..R!max_scaled - 1
  BY <1>1 DEF PrintFloatInv, ShortExponent
<1>3. out \in Seq(32..126) /\ exponent \in Int
  BY <1>2 DEF FloatVariables
<1>4. CASE /\ pc = "print"
           /\ out' = out \o <<101, IF exponent < 0 THEN 45 ELSE 43>>
           /\ n' = IF exponent < 0 THEN -exponent ELSE exponent
           /\ pc' = "buffer_exponent"
  <2>1. PICK c \in 32..126 : c = IF exponent < 0 THEN 45 ELSE 43
    <3>1. 45 \in 32..126 /\ 43 \in 32..126
      OBVIOUS
    <3> QED
      BY <3>1
  <2>2. <<101, c>> \in Seq(32..126)
    OBVIOUS
  <2>3. out' \in Seq(32..126)
    BY <1>3, <1>4, <2>1, <2>2, ConcatProperties
  <2>4. PICK m \in Nat : m = R!max_scaled
    BY DigitConstants
  <2>5. n' \in 0..m - 1
    <3>1. exponent \in 1 - m..m - 1
      BY <1>2, <1>4, <2>4
    <3> QED
      BY <1>3, <1>4, <3>1
  <2>6. FloatVariables'
    BY <1>1, <1>2, <1>4, <2>3, <2>4, <2>5 DEF FloatVariables,
       R!max_scaled, ScaledNumber
  <2>7. Buffering'
    <3>1. sig_digits \in Nat /\ sig_digits >= 2 /\ m = R!TenTo[sig_digits]
      BY <2>4, DigitConstants
    <3>2. Len(buf) = 0 /\ sig_digits - Len(buf) = sig_digits
      BY <1>1, <3>1
    <3>3. n' < R!TenTo[sig_digits - Len(buf)]
      BY <2>4, <2>5, <3>1, <3>2
    <3>4. n' < R!TenTo[sig_digits - Len(buf)]'
      BY <1>1, <3>3 DEF R!TenTo
    <3>5. Len(buf') < sig_digits
      BY <1>1, <3>1, <3>2
    <3> QED
      BY <1>4, <3>4, <3>5 DEF Buffering
  <2> QED
    BY <1>1, <1>4, <2>6, <2>7 DEF PrintFloatInv, AtStart,
       ScalingUp, ScalingDown, AtSplit, Filling, AtRound, ShortExponent
<1>5. CASE pc' = "done" /\ UNCHANGED <<out, n>>
  <2>1. FloatVariables'
    BY <1>1, <1>2, <1>5 DEF FloatVariables, R!max_scaled, ScaledNumber
  <2> QED
    BY <1>1, <1>5, <2>1 DEF PrintFloatInv, AtStart, ScalingUp, ScalingDown,
       AtSplit, Filling, AtRound, ShortExponent, Buffering
<1> QED
  BY <1>4, <1>5 DEF R!PrintEnds, R!To

(* Every step keeps the invariant ...                                      *)
LEMMA PrintFloatStep == PrintFloatInv /\ R!Next => PrintFloatInv'
BY FloatStartStep, MultiplyStep, DivideStep, SplitStep, RoundStep, TrimStep,
   BufferStep, FloatDigitStep, FloatEndsStep DEF R!Next

(* ... and with it the types of the variables and the bounds of buf.       *)
LEMMA PrintFloatProved == PrintFloatInv => R!TypeOK /\ R!BufferHolds
<1> SUFFICES ASSUME FloatVariables PROVE R!TypeOK /\ R!BufferHolds
  BY DEF PrintFloatInv
<1>1. /\ number.m \in Nat /\ number.x \in Int
  BY DEF FloatVariables, ScaledNumber
<1>2. \A k \in DOMAIN buf : buf[k] \in 48..57
  BY DEF FloatVariables
<1>3. \A k \in DOMAIN out : out[k] \in 32..126
  <2>1. PICK s \in Seq(32..126) : s = out
    BY DEF FloatVariables
  <2>2. \A k \in 1..Len(s) : s[k] \in 32..126
    BY ElementOfSeq
  <2>3. DOMAIN s = 1..Len(s)
    BY LenProperties
  <2> QED
    BY <2>1, <2>2, <2>3
<1>4. sig_digits \in Nat /\ BufSize \in Nat /\ BufSize >= sig_digits + 4
  BY ConstantsAssumption DEF R!DigitsAssumption
<1>5. decimals \in Nat
  <2>1. decimals \in 0..sig_digits + 3
    BY DEF FloatVariables
  <2> QED
    BY <2>1
<1>6. R!TypeOK
  BY <1>1, <1>2, <1>3, <1>5 DEF R!TypeOK, FloatVariables
<1>7. Len(buf) \in Nat /\ Len(buf) <= sig_digits + 4
  BY LenProperties DEF FloatVariables
<1>8. R!BufferHolds
  BY <1>4, <1>7 DEF R!BufferHolds
<1> QED
  BY <1>6, <1>8

-----------------------------------------------------------------------------
(* Printing of floats: what the digits are                                 *)

(* k, in units of b, is off m by half a unit at most.                      *)
HalfOff(m, b, k) == 2 * (b * k) <= 2 * m + b /\ 2 * m <= 2 * (b * k) + b

(* If m is a whole number of units, it is k of them.                       *)
LEMMA HalfOffExact ==
  ASSUME NEW a \in Nat, a > 0, NEW q \in Nat, NEW k \in Nat,
         HalfOff(a * q, a, k)
  PROVE  k = q
<1>1. 2 * (a * k) <= 2 * (a * q) + a /\ 2 * (a * q) <= 2 * (a * k) + a
  BY DEF HalfOff
<1>2. ASSUME NEW x \in Nat, NEW y \in Nat, x >= y + 1
      PROVE  a * x >= a * y + a
  <2>1. PICK c \in Nat : x = y + 1 + c
    <3>1. x - (y + 1) \in Nat /\ x = y + 1 + (x - (y + 1))
      BY <1>2
    <3> QED
      BY <3>1
  <2>2. a * (y + 1 + c) = a * y + a + a * c /\ a * c \in Nat
    OBVIOUS
  <2>3. a * y \in Nat
    OBVIOUS
  <2> QED
    BY <2>1, <2>2, <2>3
<1>3. a * k \in Nat /\ a * q \in Nat
  OBVIOUS
<1>4. ~ (k >= q + 1)
  <2>1. k >= q + 1 => a * k >= a * q + a
    BY <1>2
  <2> QED
    BY <1>1, <1>3, <2>1
<1>5. ~ (q >= k + 1)
  <2>1. q >= k + 1 => a * q >= a * k + a
    BY <1>2
  <2> QED
    BY <1>1, <1>3, <2>1
<1> QED
  BY <1>4, <1>5

(* Rounding a whole number changes nothing.                                *)
LEMMA RoundedWhole ==
  ASSUME NEW v \in ScaledNumber, v.x >= 0
  PROVE  R!Rounded(v) = v.m * R!TenTo[v.x]
<1>1. v.m \in Nat /\ v.x \in Nat
  BY DEF ScaledNumber
<1>2. PICK a \in Nat : a = R!TenTo[v.x]
  BY <1>1, TenToNat
<1>3. R!Twice(v).m = 2 * v.m /\ R!Twice(v).x = v.x
  BY DEF R!Twice, ScaledNumber
<1>4. R!Truncated(R!Twice(v)) = (2 * v.m) * a
  BY <1>2, <1>3 DEF R!Truncated
<1>5. PICK k \in Nat : k = v.m * a
  BY <1>1
<1>6. (2 * v.m) * a = 2 * k
  BY <1>1, <1>5
<1>7. (2 * k + 1) \div 2 = k
  OBVIOUS
<1>8. ~ R!Tie(v)
  BY <1>1 DEF R!Tie
<1> QED
  BY <1>2, <1>4, <1>5, <1>6, <1>7, <1>8 DEF R!Rounded

(* A number below 10^k is less than one, in units of 10^k.                 *)
LEMMA BelowOne ==
  ASSUME NEW v \in ScaledNumber, Short(v.m), v.x < 0
  PROVE  R!Truncated(v) = v.m \div R!TenTo[-v.x]
<1>1. v.m \in Nat /\ v.x \in Int /\ -v.x \in Nat
  BY DEF ScaledNumber
<1>2. PICK a \in Nat : a = R!TenTo[-v.x] /\ a > 0
  BY <1>1, TenToNat
<1>3. CASE R!Below(v, 0)
  <2>1. PICK d \in 1..10 : d = R!Digits(v.m) /\ v.m < R!TenTo[d]
    BY DigitsFact
  <2>2. d + v.x <= 0
    BY <1>3, <2>1 DEF R!Below
  <2>3. d \in Nat /\ d <= -v.x
    BY <1>1, <2>2
  <2>4. R!TenTo[d] <= a /\ R!TenTo[d] \in Nat
    BY <1>1, <1>2, <2>3, TenToOrder, TenToNat
  <2>5. PICK m \in Nat : m = v.m /\ m < a
    BY <1>1, <1>2, <2>1, <2>4
  <2>6. m \in 0..a - 1 /\ m = a * 0 + m
    BY <1>2, <2>5
  <2>7. m \div a = 0
    BY <1>2, <2>5, <2>6, DivModUnique
  <2> QED
    BY <1>1, <1>2, <1>3, <2>5, <2>7 DEF R!Truncated
<1>4. CASE ~ R!Below(v, 0)
  BY <1>1, <1>4 DEF R!Truncated
<1> QED
  BY <1>3, <1>4

(* Rounding a number with decimals is off by half a unit at most.          *)
LEMMA RoundedDecimal ==
  ASSUME NEW v \in ScaledNumber, Short(2 * v.m), v.x < 0
  PROVE  HalfOff(v.m, R!TenTo[-v.x], R!Rounded(v))
<1>1. v.m \in Nat /\ v.x \in Int /\ -v.x \in Nat
  BY DEF ScaledNumber
<1>2. PICK a \in Nat : a = R!TenTo[-v.x] /\ a > 0
  BY <1>1, TenToNat
<1>3. R!Twice(v).m = 2 * v.m /\ R!Twice(v).x = v.x
  BY DEF R!Twice, ScaledNumber
<1>4. R!Twice(v) \in ScaledNumber
  BY <1>1 DEF R!Twice, ScaledNumber
<1>5. R!Truncated(R!Twice(v)) = (2 * v.m) \div a
  BY <1>2, <1>3, <1>4, BelowOne
<1>6. PICK m \in Nat : m = v.m
  BY <1>1
<1>7. PICK t \in Nat, s \in Nat :
        /\ t = (2 * m) \div a /\ s = ((2 * m) % a)
        /\ 2 * m = a * t + s /\ s < a
  <2>1. R!Truncated(R!Twice(v)) \in Nat
    BY <1>4, TruncatedNat
  <2>2. (2 * m) \div a \in Nat
    BY <1>5, <1>6, <2>1
  <2>3. PICK l \in Nat : l = 2 * m
    OBVIOUS
  <2>4. (l % a) \in 0..a - 1 /\ l = a * (l \div a) + (l % a)
    <3>1. l \in Int
      OBVIOUS
    <3> QED
      BY <1>2, <3>1, DivMod
  <2>5. PICK t \in Nat : t = l \div a
    BY <2>2, <2>3
  <2>6. PICK s \in Nat : s = (l % a) /\ s < a
    BY <1>2, <2>4
  <2>7. l = a * t + s
    BY <2>4, <2>5, <2>6
  <2> QED
    BY <2>3, <2>5, <2>6, <2>7
<1>8. PICK r \in Nat : r = (t + 1) \div 2
  OBVIOUS
<1>9. R!Rounded(v) = IF (r % 2) = 1 /\ R!Tie(v) THEN r - 1 ELSE r
  BY <1>5, <1>6, <1>7, <1>8 DEF R!Rounded
<1>10. R!Tie(v) <=> (m % a) # 0 /\ s = 0
  BY <1>2, <1>3, <1>6, <1>7 DEF R!Tie
<1>11. \/ t = 2 * r
       \/ t = 2 * r - 1 /\ r > 0
  BY <1>8
<1>12. CASE t = 2 * r
  <2>0. a * t = a * (2 * r)
    BY <1>12
  <2>1. a * (2 * r) = 2 * (a * r) /\ a * r \in Nat
    OBVIOUS
  <2>11. 2 * m = 2 * (a * r) + s
    BY <1>7, <2>0, <2>1
  <2>12. s < a
    BY <1>7
  <2>2. HalfOff(m, a, r)
    BY <1>2, <2>1, <2>11, <2>12 DEF HalfOff
  <2>3. ~ R!Tie(v)
    <3>1. SUFFICES ASSUME s = 0 PROVE (m % a) = 0
      BY <1>10
    <3>2. m = a * r + 0 /\ 0 \in 0..a - 1
      BY <2>1, <2>11, <3>1, <1>2
    <3> QED
      BY <1>2, <3>2, DivModUnique, m \in Int, r \in Int
  <2> QED
    BY <1>2, <1>6, <1>9, <2>2, <2>3
<1>13. CASE t = 2 * r - 1 /\ r > 0
  <2>0. a * t = a * (2 * r - 1)
    BY <1>13
  <2>1. a * (2 * r - 1) = 2 * (a * r) - a /\ a * r \in Nat
    BY <1>13
  <2>11. 2 * m = 2 * (a * r) - a + s
    BY <1>7, <2>0, <2>1
  <2>12. s < a
    BY <1>7
  <2>2. HalfOff(m, a, r)
    BY <1>2, <2>1, <2>11, <2>12 DEF HalfOff
  <2>3. ASSUME R!Tie(v) PROVE HalfOff(m, a, r - 1)
    <3>1. s = 0
      BY <1>10, <2>3
    <3>2. a * (r - 1) = a * r - a
      OBVIOUS
    <3> QED
      BY <1>2, <2>1, <2>11, <3>1, <3>2 DEF HalfOff
  <2> QED
    BY <1>2, <1>6, <1>9, <2>2, <2>3
<1> QED
  BY <1>11, <1>12, <1>13

-----------------------------------------------------------------------------
(* The unit of the last digit of w that is printed, and whether k is w in  *)
(* that unit: exactly, or rounded.                                         *)
UnitOf(w) == w.x + R!Digits(w.m) - sig_digits

Close(w, k) ==
  /\ R!Digits(w.m) <= sig_digits =>
       k = w.m * R!TenTo[sig_digits - R!Digits(w.m)]
  /\ R!Digits(w.m) > sig_digits =>
       HalfOff(w.m, R!TenTo[R!Digits(w.m) - sig_digits], k)

(* The numbers that are printed.                                           *)
Printable(w) == w \in ScaledNumber /\ Nine(w.m) /\ w.m > 0

IsTenTo(w) == w.m = R!TenTo[R!Digits(w.m) - 1]

(* They and their doubles are shorter than Digits can count ...            *)
LEMMA PrintableShort ==
  ASSUME NEW w, Printable(w)
  PROVE  Short(w.m) /\ Short(2 * w.m)
BY NineShort DEF Printable

(* ... and they have as many digits as are counted.                        *)
LEMMA PrintableFact ==
  ASSUME NEW w, Printable(w)
  PROVE  /\ w.m \in Nat /\ w.x \in Int /\ R!Digits(w.m) \in 1..10
         /\ w.m < R!TenTo[R!Digits(w.m)]
         /\ R!TenTo[R!Digits(w.m) - 1] <= w.m
         /\ R!TenTo[R!Digits(w.m) - 1] \in Nat
         /\ R!TenTo[R!Digits(w.m)] = 10 * R!TenTo[R!Digits(w.m) - 1]
         /\ UnitOf(w) \in Int
<1>1. /\ w.m \in Nat /\ w.m > 0 /\ w.x \in Int /\ sig_digits \in Nat
  BY DigitConstants DEF Printable, ScaledNumber
<1>2. PICK d \in 1..10 : /\ d = R!Digits(w.m) /\ w.m < R!TenTo[d]
                         /\ d = 1 \/ w.m >= R!TenTo[d - 1]
  BY DigitsFact, PrintableShort
<1>3. d - 1 \in Nat /\ (d - 1) + 1 = d
  BY <1>2
<1>4. R!TenTo[d] = 10 * R!TenTo[d - 1] /\ R!TenTo[d - 1] \in Nat
  BY <1>3, TenToFact, TenToNat
<1>5. R!TenTo[d - 1] <= w.m
  <2>1. CASE d = 1
    <3>1. R!TenTo[d - 1] = 1
      BY <2>1, TenToFact
    <3> QED
      BY <1>1, <3>1
  <2>2. CASE w.m >= R!TenTo[d - 1]
    BY <1>1, <1>4, <2>2
  <2> QED
    BY <1>2, <2>1, <2>2
<1> QED
  BY <1>1, <1>2, <1>4, <1>5 DEF UnitOf

(* A power of ten is close to 10^(sig_digits - 1).                         *)
LEMMA CloseTenTo ==
  ASSUME NEW w, Printable(w), IsTenTo(w)
  PROVE  Close(w, R!min_scaled)
<1>1. PICK d \in 1..10 : d = R!Digits(w.m) /\ w.m = R!TenTo[d - 1]
  BY PrintableFact DEF IsTenTo
<1>2. /\ sig_digits \in Nat /\ sig_digits - 1 \in Nat /\ d - 1 \in Nat
      /\ R!min_scaled = R!TenTo[sig_digits - 1]
  BY DigitConstants
<1>3. ASSUME d <= sig_digits PROVE R!min_scaled = w.m * R!TenTo[sig_digits - d]
  <2>1. sig_digits - d \in Nat /\ (d - 1) + (sig_digits - d) = sig_digits - 1
    BY <1>2, <1>3
  <2> QED
    BY <1>1, <1>2, <2>1, TenToSum
<1>4. ASSUME d > sig_digits
      PROVE  HalfOff(w.m, R!TenTo[d - sig_digits], R!min_scaled)
  <2>1. d - sig_digits \in Nat /\ (d - sig_digits) + (sig_digits - 1) = d - 1
    BY <1>2, <1>4
  <2>2. PICK b \in Nat : b = R!TenTo[d - sig_digits]
    BY <2>1, TenToNat
  <2>3. PICK t \in Nat : t = R!min_scaled
    BY DigitConstants
  <2>4. w.m = b * t
    BY <1>1, <1>2, <2>1, <2>2, <2>3, TenToSum
  <2>5. b * t \in Nat
    OBVIOUS
  <2> QED
    BY <2>2, <2>3, <2>4, <2>5 DEF HalfOff
<1> QED
  BY <1>1, <1>3, <1>4 DEF Close

(* What is close to a number has sig_digits digits, or is 10^sig_digits.   *)
LEMMA CloseRange ==
  ASSUME NEW w, Printable(w), NEW k \in Nat, Close(w, k)
  PROVE  R!min_scaled <= k /\ k <= R!max_scaled
<1>1. PICK d \in 1..10, t \in Nat, m \in Nat :
        /\ d = R!Digits(w.m) /\ m = w.m /\ t = R!TenTo[d - 1]
        /\ m < R!TenTo[d] /\ t <= m /\ R!TenTo[d] = 10 * t
  BY PrintableFact
<1>2. PICK s \in Nat : s = R!min_scaled /\ R!max_scaled = 10 * s
  <2>1. sig_digits - 1 \in Nat /\ (sig_digits - 1) + 1 = sig_digits
    BY DigitConstants
  <2> QED
    BY <2>1, DigitConstants, TenToFact
<1>3. sig_digits \in Nat /\ sig_digits - 1 \in Nat /\ d - 1 \in Nat
      /\ R!min_scaled = R!TenTo[sig_digits - 1]
  BY DigitConstants
<1>4. CASE d <= sig_digits
  <2>1. sig_digits - d \in Nat /\ (d - 1) + (sig_digits - d) = sig_digits - 1
    BY <1>3, <1>4
  <2>2. PICK b \in Nat : b = R!TenTo[sig_digits - d]
    BY <2>1, TenToNat
  <2>23. R!TenTo[sig_digits - 1] = R!TenTo[d - 1] * R!TenTo[sig_digits - d]
    BY <1>3, <2>1, TenToSum
  <2>3. s = t * b
    BY <1>1, <1>2, <1>3, <2>2, <2>23
  <2>4. k = m * b
    BY <1>1, <1>4, <2>2 DEF Close
  <2>5. PICK c \in Nat : m = t + c
    <3>1. m - t \in Nat /\ m = t + (m - t)
      BY <1>1
    <3> QED
      BY <3>1
  <2>6. PICK e \in Nat : 10 * t = m + e
    <3>1. 10 * t - m \in Nat /\ 10 * t = m + (10 * t - m)
      BY <1>1
    <3> QED
      BY <3>1
  <2>7. (t + c) * b = t * b + c * b /\ c * b \in Nat /\ t * b \in Nat
    OBVIOUS
  <2>8. (m + e) * b = m * b + e * b /\ e * b \in Nat /\ m * b \in Nat
    OBVIOUS
  <2>9. (10 * t) * b = 10 * (t * b)
    OBVIOUS
  <2>10. s <= k
    BY <2>3, <2>4, <2>5, <2>7
  <2>11. k <= 10 * s
    BY <2>3, <2>4, <2>6, <2>8, <2>9
  <2> QED
    BY <1>2, <2>10, <2>11
<1>5. CASE d > sig_digits
  <2>1. d - sig_digits \in Nat /\ (d - sig_digits) + (sig_digits - 1) = d - 1
    BY <1>3, <1>5
  <2>2. PICK b \in Nat : b = R!TenTo[d - sig_digits] /\ b > 0
    BY <2>1, TenToNat
  <2>23. R!TenTo[d - 1] = R!TenTo[d - sig_digits] * R!TenTo[sig_digits - 1]
    BY <1>3, <2>1, TenToSum
  <2>3. t = b * s
    BY <1>1, <1>2, <1>3, <2>2, <2>23
  <2>4. 2 * (b * k) <= 2 * m + b /\ 2 * m <= 2 * (b * k) + b
    BY <1>1, <1>5, <2>2 DEF Close, HalfOff
  <2>5. s <= k
    <3>1. SUFFICES ASSUME k < s PROVE FALSE
      BY <1>2
    <3>2. PICK c \in Nat : s = k + 1 + c
      <4>1. s - (k + 1) \in Nat /\ s = k + 1 + (s - (k + 1))
        BY <3>1
      <4> QED
        BY <4>1
    <3>3. b * (k + 1 + c) = b * k + b + b * c /\ b * c \in Nat /\ b * k \in Nat
      OBVIOUS
    <3> QED
      BY <1>1, <2>2, <2>3, <2>4, <3>2, <3>3
  <2>6. k <= 10 * s
    <3>1. SUFFICES ASSUME k > 10 * s PROVE FALSE
      BY <1>2
    <3>2. PICK c \in Nat : k = 10 * s + 1 + c
      <4>1. k - (10 * s + 1) \in Nat /\ k = 10 * s + 1 + (k - (10 * s + 1))
        BY <3>1
      <4> QED
        BY <4>1
    <3>3. /\ b * (10 * s + 1 + c) = 10 * (b * s) + b + b * c
          /\ b * c \in Nat /\ b * s \in Nat
      OBVIOUS
    <3> QED
      BY <1>1, <2>2, <2>3, <2>4, <3>2, <3>3
  <2> QED
    BY <1>2, <2>5, <2>6
<1> QED
  BY <1>1, <1>3, <1>4, <1>5

(* What rounding gives: the digits, in the unit of the last, or one digit  *)
(* more, of a power of ten.                                                *)
RoundsTo(w, e, k) ==
  \/ e = UnitOf(w) /\ Close(w, k)
  \/ e = UnitOf(w) - 1 /\ IsTenTo(w) /\ k = R!max_scaled

(* A number that is scaled to sig_digits digits rounds to them.            *)
LEMMA ScaledRounds ==
  ASSUME NEW w, Printable(w), NEW v \in ScaledNumber, v.m = w.m,
         NEW e \in Int, v.x + e = w.x,
         \/ Power(v) = sig_digits
         \/ Power(v) = sig_digits + 1 /\ IsTenTo(w)
  PROVE  RoundsTo(w, e, R!Rounded(v))
<1>1. PICK d \in 1..10 : d = R!Digits(w.m)
  BY PrintableFact
<1>2. /\ w.m \in Nat /\ w.x \in Int /\ v.x \in Int /\ sig_digits \in Nat
      /\ UnitOf(w) = w.x + d - sig_digits /\ Power(v) = d + v.x
      /\ Short(2 * v.m) /\ d - 1 \in Nat
  BY <1>1, DigitConstants, PrintableFact, PrintableShort
  DEF ScaledNumber, UnitOf, Power
<1>3. CASE Power(v) = sig_digits
  <2>1. e = UnitOf(w) /\ v.x = sig_digits - d
    BY <1>2, <1>3
  <2>2. ASSUME d <= sig_digits
        PROVE  R!Rounded(v) = w.m * R!TenTo[sig_digits - d]
    <3>1. v.x >= 0
      BY <1>2, <2>1, <2>2
    <3> QED
      BY <2>1, <3>1, RoundedWhole
  <2>3. ASSUME d > sig_digits
        PROVE  HalfOff(w.m, R!TenTo[d - sig_digits], R!Rounded(v))
    <3>1. v.x < 0 /\ -v.x = d - sig_digits
      BY <1>2, <2>1, <2>3
    <3> QED
      BY <1>2, <3>1, RoundedDecimal
  <2> QED
    BY <1>1, <2>1, <2>2, <2>3 DEF RoundsTo, Close
<1>4. CASE Power(v) = sig_digits + 1 /\ IsTenTo(w)
  <2>1. e = UnitOf(w) - 1 /\ v.x = sig_digits + 1 - d
    BY <1>2, <1>4
  <2>2. v.m = R!TenTo[d - 1] /\ R!max_scaled = R!TenTo[sig_digits]
    BY <1>1, <1>4, DigitConstants DEF IsTenTo
  <2>3. CASE v.x >= 0
    <3>1. v.x \in Nat /\ (d - 1) + v.x = sig_digits
      BY <1>2, <2>1, <2>3
    <3>2. R!TenTo[sig_digits] = R!TenTo[d - 1] * R!TenTo[v.x]
      BY <1>2, <3>1, TenToSum
    <3>3. R!Rounded(v) = R!max_scaled
      BY <2>2, <2>3, <3>2, RoundedWhole
    <3> QED
      BY <1>4, <2>1, <3>3 DEF RoundsTo
  <2>4. CASE v.x < 0
    <3>1. -v.x \in Nat /\ -v.x + sig_digits = d - 1
      BY <1>2, <2>1, <2>4
    <3>2. PICK a \in Nat : a = R!TenTo[-v.x] /\ a > 0
      BY <3>1, TenToNat
    <3>3. PICK s \in Nat : s = R!max_scaled
      BY DigitConstants
    <3>4. v.m = a * s
      BY <1>2, <2>2, <3>1, <3>2, <3>3, TenToSum
    <3>5. PICK k \in Nat : k = R!Rounded(v)
      BY RoundedNat
    <3>6. HalfOff(a * s, a, k)
      BY <1>2, <2>4, <3>2, <3>4, <3>5, RoundedDecimal
    <3>7. k = s
      BY <3>2, <3>6, HalfOffExact
    <3> QED
      BY <1>4, <2>1, <3>3, <3>5, <3>7 DEF RoundsTo
  <2> QED
    BY <1>2, <2>3, <2>4
<1> QED
  BY <1>3, <1>4

(* k is the integer part of w, and rest what it leaves.                    *)
SplitInto(w, k, rest) ==
  /\ rest \in ScaledNumber /\ rest.x = w.x
  /\ w.x >= 0 => rest.m = 0 /\ k = w.m * R!TenTo[w.x]
  /\ w.x < 0 => rest.m < R!TenTo[-w.x] /\ w.m = R!TenTo[-w.x] * k + rest.m

(* Truncating splits it.                                                   *)
LEMMA SplitFact ==
  ASSUME NEW w, Printable(w)
  PROVE  /\ R!Truncated(w) \in Nat
         /\ SplitInto(w, R!Truncated(w), R!Fraction(w))
<1>1. w.m \in Nat /\ w.x \in Int /\ w \in ScaledNumber /\ Short(w.m)
  BY PrintableShort DEF Printable, ScaledNumber
<1>2. R!Truncated(w) \in Nat /\ R!Fraction(w) \in ScaledNumber
  BY <1>1, TruncatedNat, FractionFact
<1>3. R!Fraction(w).x = w.x
  BY <1>1 DEF R!Fraction, ScaledNumber
<1>4. ASSUME w.x >= 0
      PROVE  R!Fraction(w).m = 0 /\ R!Truncated(w) = w.m * R!TenTo[w.x]
  BY <1>1, <1>4 DEF R!Fraction, R!Truncated, ScaledNumber
<1>5. ASSUME w.x < 0
      PROVE  /\ R!Fraction(w).m < R!TenTo[-w.x]
             /\ w.m = R!TenTo[-w.x] * R!Truncated(w) + R!Fraction(w).m
  <2>1. -w.x \in Nat /\ ~ (w.x >= 0)
    BY <1>1, <1>5
  <2>2. PICK a \in Nat : a = R!TenTo[-w.x] /\ a > 0
    BY <2>1, TenToNat
  <2>3. PICK m \in Nat : m = w.m
    BY <1>1
  <2>4. m \in Int
    OBVIOUS
  <2>5. (m % a) \in 0..a - 1 /\ m = a * (m \div a) + (m % a)
    BY <2>2, <2>4, DivMod
  <2>6. R!Truncated(w) = m \div a
    BY <1>1, <1>5, <2>2, <2>3, BelowOne
  <2>7. R!Fraction(w).m = (m % a)
    BY <1>1, <2>1, <2>2, <2>3 DEF R!Fraction, ScaledNumber
  <2> QED
    BY <2>2, <2>3, <2>5, <2>6, <2>7
<1> QED
  BY <1>2, <1>3, <1>4, <1>5 DEF SplitInto

(* The integer part has as many digits as there are before the point.      *)
LEMMA SplitRange ==
  ASSUME NEW w, Printable(w), NEW k \in Nat, NEW rest, SplitInto(w, k, rest),
         Power(w) >= 1
  PROVE  R!TenTo[Power(w) - 1] <= k /\ k < R!TenTo[Power(w)]
<1>1. PICK d \in 1..10, t \in Nat, m \in Nat :
        /\ d = R!Digits(w.m) /\ m = w.m /\ t = R!TenTo[d - 1]
        /\ m < R!TenTo[d] /\ t <= m /\ R!TenTo[d] = 10 * t
  BY PrintableFact
<1>2. w.x \in Int /\ Power(w) = d + w.x /\ d - 1 \in Nat
  BY <1>1, PrintableFact DEF Power
<1>3. PICK p \in Nat : p = R!TenTo[Power(w) - 1] /\ R!TenTo[Power(w)] = 10 * p
  <2>1. Power(w) - 1 \in Nat /\ (Power(w) - 1) + 1 = Power(w)
    BY <1>2
  <2> QED
    BY <2>1, TenToFact, TenToNat
<1>4. CASE w.x >= 0
  <2>1. w.x \in Nat /\ (d - 1) + w.x = Power(w) - 1
    BY <1>2, <1>4
  <2>2. PICK a \in Nat : a = R!TenTo[w.x] /\ a > 0
    BY <2>1, TenToNat
  <2>3. p = t * a
    <3>1. R!TenTo[Power(w) - 1] = R!TenTo[d - 1] * R!TenTo[w.x]
      BY <1>2, <2>1, TenToSum
    <3> QED
      BY <1>1, <1>3, <2>2, <3>1
  <2>4. k = m * a
    BY <1>1, <1>4, <2>2 DEF SplitInto
  <2>5. PICK c \in Nat : m = t + c
    <3>1. m - t \in Nat /\ m = t + (m - t)
      BY <1>1
    <3> QED
      BY <3>1
  <2>6. PICK e \in Nat : 10 * t = m + 1 + e
    <3>1. 10 * t - (m + 1) \in Nat /\ 10 * t = m + 1 + (10 * t - (m + 1))
      BY <1>1
    <3> QED
      BY <3>1
  <2>7. (t + c) * a = t * a + c * a /\ c * a \in Nat /\ t * a \in Nat
    OBVIOUS
  <2>8. /\ (m + 1 + e) * a = m * a + a + e * a
        /\ e * a \in Nat /\ m * a \in Nat
    OBVIOUS
  <2>9. (10 * t) * a = 10 * (t * a)
    OBVIOUS
  <2>10. p <= k
    BY <2>3, <2>4, <2>5, <2>7
  <2>11. k < 10 * p
    <3>1. (10 * t) * a = (m + 1 + e) * a
      BY <2>6
    <3>2. 10 * p = k + a + e * a
      BY <2>3, <2>4, <2>8, <2>9, <3>1
    <3>3. k \in Nat /\ e * a \in Nat
      BY <2>8
    <3> QED
      BY <2>2, <3>2, <3>3
  <2> QED
    BY <1>3, <2>10, <2>11
<1>5. CASE w.x < 0
  <2>1. -w.x \in Nat /\ -w.x + (Power(w) - 1) = d - 1 /\ Power(w) - 1 \in Nat
    BY <1>2, <1>5
  <2>2. PICK a \in Nat : a = R!TenTo[-w.x] /\ a > 0
    BY <2>1, TenToNat
  <2>3. t = a * p
    <3>1. R!TenTo[d - 1] = R!TenTo[-w.x] * R!TenTo[Power(w) - 1]
      <4>1. PICK y \in Nat, z \in Nat : y = -w.x /\ z = Power(w) - 1
        BY <2>1
      <4>2. R!TenTo[y + z] = R!TenTo[y] * R!TenTo[z]
        BY TenToSum
      <4>3. y + z = d - 1
        BY <2>1, <4>1
      <4> QED
        BY <4>1, <4>2, <4>3
    <3> QED
      BY <1>1, <1>3, <2>2, <3>1
  <2>4. PICK r \in Nat : r < a /\ m = a * k + r
    BY <1>1, <1>5, <2>2 DEF SplitInto, ScaledNumber
  <2>5. p <= k
    <3>1. SUFFICES ASSUME k < p PROVE FALSE
      OBVIOUS
    <3>2. PICK c \in Nat : p = k + 1 + c
      <4>1. p - (k + 1) \in Nat /\ p = k + 1 + (p - (k + 1))
        BY <3>1
      <4> QED
        BY <4>1
    <3>3. a * (k + 1 + c) = a * k + a + a * c /\ a * c \in Nat /\ a * k \in Nat
      OBVIOUS
    <3>4. t <= m
      BY <1>1
    <3> QED
      BY <2>3, <2>4, <3>2, <3>3, <3>4
  <2>6. k < 10 * p
    <3>1. SUFFICES ASSUME k >= 10 * p PROVE FALSE
      OBVIOUS
    <3>2. PICK c \in Nat : k = 10 * p + c
      <4>1. k - 10 * p \in Nat /\ k = 10 * p + (k - 10 * p)
        BY <3>1
      <4> QED
        BY <4>1
    <3>3. /\ a * (10 * p + c) = 10 * (a * p) + a * c
          /\ a * c \in Nat /\ a * p \in Nat
      OBVIOUS
    <3>4. m < 10 * t
      BY <1>1
    <3> QED
      BY <2>3, <2>4, <3>2, <3>3, <3>4
  <2> QED
    BY <1>3, <2>5, <2>6
<1> QED
  BY <1>2, <1>4, <1>5

(* A number between two powers of ten has the digits of the first.         *)
LEMMA DigitsOf ==
  ASSUME NEW k \in Nat, NEW d \in 1..10, R!TenTo[d - 1] <= k, k < R!TenTo[d]
  PROVE  Short(k) /\ R!Digits(k) = d
<1>1. Short(k)
  BY DEF Short
<1>2. PICK e \in 1..10 : /\ e = R!Digits(k) /\ k < R!TenTo[e]
                         /\ e = 1 \/ k >= R!TenTo[e - 1]
  BY <1>1, DigitsFact
<1>3. /\ d - 1 \in Nat /\ e - 1 \in Nat /\ d \in Nat /\ e \in Nat
      /\ R!TenTo[d - 1] \in Nat /\ R!TenTo[e - 1] \in Nat
      /\ R!TenTo[d] \in Nat /\ R!TenTo[e] \in Nat
  <2>1. d - 1 \in Nat /\ e - 1 \in Nat /\ d \in Nat /\ e \in Nat
    OBVIOUS
  <2> QED
    BY <2>1, TenToNat
<1>4. d - 1 < e
  <2>1. R!TenTo[d - 1] < R!TenTo[e]
    BY <1>2, <1>3
  <2> QED
    BY <1>3, <2>1, TenToOrder
<1>5. e - 1 < d
  <2>1. CASE e = 1
    BY <2>1
  <2>2. CASE k >= R!TenTo[e - 1]
    <3>1. R!TenTo[e - 1] < R!TenTo[d]
      BY <1>3, <2>2
    <3> QED
      BY <1>3, <3>1, TenToOrder
  <2> QED
    BY <1>2, <2>1, <2>2
<1> QED
  BY <1>1, <1>2, <1>4, <1>5

(* What is left of a number may change, below one, and the number with it: *)
(* it keeps its integer part.                                              *)
LEMMA SplitMoves ==
  ASSUME NEW w, Printable(w), NEW k \in Nat, NEW rest, SplitInto(w, k, rest),
         Power(w) >= 1, w.x < 0,
         NEW t \in ScaledNumber, t.x = w.x, t.m < R!TenTo[-w.x],
         NEW u, u = [w EXCEPT !.m = w.m + t.m - rest.m]
  PROVE  Printable(u) /\ SplitInto(u, k, t) /\ Power(u) = Power(w)
<1>1. PICK d \in 1..10 :
        /\ d = R!Digits(w.m) /\ w.m < R!TenTo[d] /\ R!TenTo[d - 1] <= w.m
        /\ R!TenTo[d] = 10 * R!TenTo[d - 1]
  BY PrintableFact
<1>2. /\ w.m \in Nat /\ w.x \in Int /\ Power(w) = d + w.x /\ d - 1 \in Nat
      /\ w \in ScaledNumber
  BY <1>1, PrintableFact DEF Power, Printable
<1>3. PICK y \in Nat, z \in Nat : y = -w.x /\ z = Power(w) - 1
  <2>1. -w.x \in Nat /\ Power(w) - 1 \in Nat
    BY <1>2
  <2> QED
    BY <2>1
<1>4. PICK a \in Nat : a = R!TenTo[y] /\ a > 0
  BY TenToNat
<1>5. PICK p \in Nat : p = R!TenTo[z] /\ R!TenTo[Power(w)] = 10 * p
  <2>1. z + 1 = Power(w)
    BY <1>2, <1>3
  <2> QED
    BY <2>1, TenToFact, TenToNat
<1>6. R!TenTo[d - 1] = a * p
  <2>1. y + z = d - 1
    BY <1>2, <1>3
  <2> QED
    BY <1>4, <1>5, <2>1, TenToSum
<1>7. p <= k /\ k < 10 * p
  BY <1>3, <1>5, SplitRange
<1>8. PICK b \in Nat, c \in Nat :
        b = rest.m /\ b < a /\ w.m = a * k + b /\ c = t.m /\ c < a
  <2>1. rest.m \in Nat /\ t.m \in Nat
    BY DEF SplitInto, ScaledNumber
  <2>2. rest.m < a /\ w.m = a * k + rest.m /\ t.m < a
    BY <1>3, <1>4 DEF SplitInto
  <2> QED
    BY <2>1, <2>2
<1>9. PICK m \in Nat : m = a * k + c
  OBVIOUS
<1>10. u.m = m /\ u.x = w.x /\ u \in ScaledNumber
  <2>1. w.m + t.m - rest.m = m
    BY <1>2, <1>8, <1>9
  <2>2. u = [w EXCEPT !.m = m]
    BY <2>1
  <2> QED
    BY <1>2, <2>2 DEF ScaledNumber
<1>11. a * p <= m
  <2>1. PICK h \in Nat : k = p + h
    <3>1. k - p \in Nat /\ k = p + (k - p)
      BY <1>7
    <3> QED
      BY <3>1
  <2>2. a * (p + h) = a * p + a * h /\ a * h \in Nat /\ a * p \in Nat
    OBVIOUS
  <2> QED
    BY <1>9, <2>1, <2>2
<1>12. m < 10 * (a * p)
  <2>1. PICK h \in Nat : 10 * p = k + 1 + h
    <3>1. 10 * p - (k + 1) \in Nat /\ 10 * p = k + 1 + (10 * p - (k + 1))
      BY <1>7
    <3> QED
      BY <3>1
  <2>2. /\ a * (k + 1 + h) = a * k + a + a * h
        /\ a * h \in Nat /\ a * k \in Nat
    OBVIOUS
  <2>3. a * (10 * p) = 10 * (a * p)
    OBVIOUS
  <2>4. 10 * (a * p) = a * k + a + a * h
    BY <2>1, <2>2, <2>3
  <2> QED
    BY <1>8, <1>9, <2>2, <2>4
<1>13. R!Digits(m) = d
  BY <1>1, <1>6, <1>11, <1>12, DigitsOf
<1>14. Nine(m) /\ m > 0
  <2>1. /\ 9 \in Nat /\ d \in Nat /\ R!TenTo[9] \in Nat
        /\ R!TenTo[d] \in Nat /\ R!TenTo[d - 1] \in Nat
    <3>1. 9 \in Nat /\ d \in Nat
      OBVIOUS
    <3> QED
      BY <1>2, <3>1, TenToNat
  <2>2. w.m < R!TenTo[9]
    BY DEF Printable, Nine
  <2>3. R!TenTo[d - 1] < R!TenTo[9]
    BY <1>1, <1>2, <2>1, <2>2
  <2>4. d <= 9
    <3>1. d - 1 < 9
      BY <1>2, <2>1, <2>3, TenToOrder
    <3> QED
      BY <3>1
  <2>5. R!TenTo[d] <= R!TenTo[9]
    BY <2>1, <2>4, TenToOrder
  <2>6. m < R!TenTo[9]
    BY <1>1, <1>6, <1>12, <2>1, <2>5
  <2>7. R!TenTo[d - 1] > 0
    BY <1>2, TenToNat
  <2> QED
    BY <1>6, <1>11, <2>1, <2>6, <2>7 DEF Nine
<1>15. SplitInto(u, k, t)
  <2>1. ~ (u.x >= 0)
    BY <1>2, <1>10
  <2>2. t.m < R!TenTo[-u.x] /\ u.m = R!TenTo[-u.x] * k + t.m
    BY <1>3, <1>4, <1>8, <1>9, <1>10
  <2> QED
    BY <1>10, <2>1, <2>2 DEF SplitInto
<1> QED
  BY <1>2, <1>1, <1>10, <1>13, <1>14, <1>15 DEF Printable, Power

(* Numbers of k digits are those below 10^k.                               *)
LEMMA BelowFact ==
  ASSUME NEW v \in ScaledNumber, Nine(v.m), NEW k \in Nat
  PROVE  /\ v.m < R!TenTo[k] /\ k >= 1 => R!Digits(v.m) <= k
         /\ R!Digits(v.m) <= k => v.m < R!TenTo[k]
<1>1. v.m \in Nat /\ Short(v.m)
  BY NineShort
<1>2. PICK d \in 1..10 : /\ d = R!Digits(v.m) /\ v.m < R!TenTo[d]
                         /\ d = 1 \/ v.m >= R!TenTo[d - 1]
  BY <1>1, DigitsFact
<1>3. /\ d - 1 \in Nat /\ d \in Nat /\ R!TenTo[d - 1] \in Nat
      /\ R!TenTo[d] \in Nat /\ R!TenTo[k] \in Nat
  <2>1. d - 1 \in Nat /\ d \in Nat
    OBVIOUS
  <2> QED
    BY <2>1, TenToNat
<1>4. ASSUME v.m < R!TenTo[k], k >= 1 PROVE d <= k
  <2>1. CASE d = 1
    BY <1>4, <2>1
  <2>2. CASE v.m >= R!TenTo[d - 1]
    <3>1. R!TenTo[d - 1] < R!TenTo[k]
      BY <1>1, <1>3, <1>4, <2>2
    <3>2. d - 1 < k
      BY <1>3, <3>1, TenToOrder
    <3> QED
      BY <3>2
  <2> QED
    BY <1>2, <2>1, <2>2
<1>5. ASSUME d <= k PROVE v.m < R!TenTo[k]
  <2>1. R!TenTo[d] <= R!TenTo[k]
    BY <1>3, <1>5, TenToOrder
  <2> QED
    BY <1>1, <1>2, <1>3, <2>1
<1> QED
  BY <1>2, <1>4, <1>5

(* Multiplied by 10^f it has f more.                                       *)
LEMMA FilledRange ==
  ASSUME NEW w, Printable(w), NEW k \in Nat, NEW rest, SplitInto(w, k, rest),
         Power(w) >= 1, NEW f \in Nat
  PROVE  /\ Power(w) - 1 + f \in Nat /\ Power(w) + f \in Nat
         /\ R!TenTo[Power(w) - 1 + f] <= k * R!TenTo[f]
         /\ k * R!TenTo[f] < R!TenTo[Power(w) + f]
<1>1. PICK p \in Nat : p = Power(w) - 1 /\ Power(w) = p + 1
  <2>1. Power(w) \in Int
    BY PrintableFact DEF Power
  <2>2. Power(w) - 1 \in Nat /\ Power(w) = (Power(w) - 1) + 1
    BY <2>1
  <2> QED
    BY <2>2
<1>2. PICK a \in Nat : a = R!TenTo[p]
  BY TenToNat
<1>3. PICK b \in Nat : b = R!TenTo[f] /\ b > 0
  BY TenToNat
<1>4. R!TenTo[p + 1] = 10 * a
  BY <1>2, TenToFact
<1>5. a <= k /\ k < 10 * a
  BY <1>1, <1>2, <1>4, SplitRange
<1>6. R!TenTo[p + f] = a * b
  BY <1>2, <1>3, TenToSum
<1>7. R!TenTo[(p + 1) + f] = (10 * a) * b
  <2>1. p + 1 \in Nat
    OBVIOUS
  <2> QED
    BY <1>3, <1>4, <2>1, TenToSum
<1>8. PICK c \in Nat : k = a + c
  <2>1. k - a \in Nat /\ k = a + (k - a)
    BY <1>5
  <2> QED
    BY <2>1
<1>9. PICK e \in Nat : 10 * a = k + 1 + e
  <2>1. 10 * a - (k + 1) \in Nat /\ 10 * a = k + 1 + (10 * a - (k + 1))
    BY <1>5
  <2> QED
    BY <2>1
<1>10. (a + c) * b = a * b + c * b /\ c * b \in Nat /\ a * b \in Nat
  OBVIOUS
<1>11. (k + 1 + e) * b = k * b + b + e * b /\ e * b \in Nat /\ k * b \in Nat
  OBVIOUS
<1>12. a * b <= k * b
  BY <1>8, <1>10
<1>13. k * b < (10 * a) * b
  BY <1>3, <1>9, <1>11
<1>14. Power(w) - 1 + f = p + f /\ Power(w) + f = (p + 1) + f
  BY <1>1
<1> QED
  BY <1>3, <1>6, <1>7, <1>12, <1>13, <1>14

(* The integer part filled to sig_digits digits and the rest rounded to    *)
(* the same unit are the number rounded.                                   *)
LEMMA SplitRounds ==
  ASSUME NEW w, Printable(w), NEW k \in Nat, NEW rest, SplitInto(w, k, rest),
         NEW f \in Nat, NEW e \in Int, e + f = 0,
         Power(w) + f = sig_digits
  PROVE  RoundsTo(w, e, R!Rounded(R!Scaled(rest, f)) + k * R!TenTo[f])
<1>1. PICK d \in 1..10 : d = R!Digits(w.m)
  BY PrintableFact
<1>2. /\ w.m \in Nat /\ w.x \in Int /\ sig_digits \in Nat
      /\ UnitOf(w) = w.x + d - sig_digits /\ Power(w) = d + w.x
      /\ rest \in ScaledNumber /\ rest.m \in Nat /\ rest.x = w.x
  BY <1>1, DigitConstants, PrintableFact
  DEF ScaledNumber, UnitOf, Power, SplitInto
<1>3. e = UnitOf(w) /\ w.x + f = sig_digits - d
  BY <1>2
<1>4. PICK v \in ScaledNumber :
        v = R!Scaled(rest, f) /\ v.m = rest.m /\ v.x = sig_digits - d
  <2>1. f \in Int /\ rest.x + f = sig_digits - d
    BY <1>2, <1>3
  <2>2. /\ R!Scaled(rest, f) \in ScaledNumber
        /\ R!Scaled(rest, f).m = rest.m /\ R!Scaled(rest, f).x = rest.x + f
    BY <1>2, <2>1, ScaledByFact
  <2> QED
    BY <2>1, <2>2
<1>5. PICK q \in Nat : q = R!Rounded(v)
  BY RoundedNat
<1>6. PICK b \in Nat : b = R!TenTo[f]
  BY TenToNat
<1>7. CASE w.x >= 0
  <2>1. w.x \in Nat /\ d <= sig_digits /\ v.x >= 0
    BY <1>2, <1>3, <1>4, <1>7
  <2>2. rest.m = 0 /\ k = w.m * R!TenTo[w.x]
    BY <1>7 DEF SplitInto
  <2>3. PICK a \in Nat : a = R!TenTo[w.x]
    BY <2>1, TenToNat
  <2>4. v.x \in Nat
    BY <1>2, <1>4, <2>1
  <2>5. PICK c \in Nat : c = R!TenTo[v.x]
    BY <2>4, TenToNat
  <2>6. q = 0
    <3>1. q = 0 * c
      BY <1>4, <1>5, <2>1, <2>2, <2>5, RoundedWhole
    <3> QED
      BY <3>1
  <2>7. R!TenTo[sig_digits - d] = a * b
    BY <1>3, <1>6, <2>1, <2>3, TenToSum
  <2>8. k * b = w.m * (a * b)
    BY <1>2, <2>2, <2>3
  <2>9. q + k * b = w.m * R!TenTo[sig_digits - d]
    <3>1. k * b \in Nat
      OBVIOUS
    <3> QED
      BY <2>6, <2>7, <2>8, <3>1
  <2>10. ~ (d > sig_digits)
    BY <1>2, <2>1
  <2> QED
    BY <1>1, <1>3, <1>4, <1>5, <1>6, <2>9, <2>10 DEF RoundsTo, Close
<1>8. CASE w.x < 0
  <2>1. -w.x \in Nat
    BY <1>2, <1>8
  <2>2. PICK a \in Nat : a = R!TenTo[-w.x] /\ a > 0
    BY <2>1, TenToNat
  <2>3. PICK r \in Nat : r = rest.m /\ w.m = a * k + r
    BY <1>2, <1>8, <2>2 DEF SplitInto
  <2>4. ASSUME d <= sig_digits
        PROVE  q + k * b = w.m * R!TenTo[sig_digits - d]
    <3>1. PICK y \in Nat : y = sig_digits - d
      BY <1>2, <2>4
    <3>2. PICK c \in Nat : c = R!TenTo[y]
      BY TenToNat
    <3>3. v.x >= 0 /\ v.x = y
      BY <1>4, <3>1
    <3>4. q = r * c
      BY <1>4, <1>5, <2>3, <3>2, <3>3, RoundedWhole
    <3>5. f = -w.x + y
      BY <1>2, <1>3, <3>1
    <3>6. b = a * c
      BY <1>6, <2>1, <2>2, <3>2, <3>5, TenToSum
    <3>7. (a * k + r) * c = k * (a * c) + r * c
      OBVIOUS
    <3>8. k * b = k * (a * c) /\ w.m * c = (a * k + r) * c
      BY <2>3, <3>6
    <3>9. k * (a * c) \in Nat /\ r * c \in Nat
      OBVIOUS
    <3> QED
      BY <3>1, <3>2, <3>4, <3>7, <3>8, <3>9
  <2>5. ASSUME d > sig_digits
        PROVE  HalfOff(w.m, R!TenTo[d - sig_digits], q + k * b)
    <3>1. PICK y \in Nat : y = d - sig_digits
      BY <1>2, <2>5
    <3>2. PICK c \in Nat : c = R!TenTo[y]
      BY TenToNat
    <3>3. v.x < 0 /\ -v.x = y
      BY <1>2, <1>4, <2>5, <3>1
    <3>4. HalfOff(r, c, q)
      <4>1. Short(2 * r)
        <5>1. r <= w.m
          <6>1. a * k \in Nat
            OBVIOUS
          <6> QED
            BY <1>2, <2>3, <6>1
        <5>2. PICK m \in Nat : m = w.m
          BY <1>2
        <5>3. PICK l \in 1..10 : 2 * m < R!TenTo[l]
          BY <5>2, PrintableShort DEF Short
        <5>4. R!TenTo[l] \in Nat
          BY TenToNat
        <5>5. 2 * r \in Nat /\ 2 * r < R!TenTo[l]
          BY <5>1, <5>2, <5>3, <5>4
        <5> QED
          BY <5>5 DEF Short
      <4> QED
        BY <1>4, <1>5, <2>3, <3>2, <3>3, <4>1, RoundedDecimal
    <3>5. f + y = -w.x
      BY <1>2, <1>3, <3>1
    <3>6. a = b * c
      BY <1>6, <2>2, <3>2, <3>5, TenToSum
    <3>7. c * (q + k * b) = c * q + k * (b * c)
      OBVIOUS
    <3>8. PICK u \in Nat : u = k * (b * c) /\ w.m = u + r
      <4>1. k * (b * c) \in Nat /\ a * k = k * a
        OBVIOUS
      <4>2. k * a = k * (b * c)
        BY <3>6
      <4> QED
        BY <2>3, <4>1, <4>2
    <3>9. PICK z \in Nat : z = c * q /\ c * (q + k * b) = z + u
      <4>1. c * q \in Nat
        OBVIOUS
      <4> QED
        BY <3>7, <3>8, <4>1
    <3>10. 2 * z <= 2 * r + c /\ 2 * r <= 2 * z + c
      BY <3>4, <3>9 DEF HalfOff
    <3>11. /\ 2 * (z + u) <= 2 * (u + r) + c
           /\ 2 * (u + r) <= 2 * (z + u) + c
      BY <3>10
    <3> QED
      BY <3>1, <3>2, <3>8, <3>9, <3>11 DEF HalfOff
  <2>6. Close(w, q + k * b)
    BY <1>1, <2>4, <2>5 DEF Close
  <2> QED
    BY <1>3, <1>4, <1>5, <1>6, <2>6 DEF RoundsTo
<1> QED
  BY <1>2, <1>7, <1>8

(* So is 10^sig_digits, which has one digit more.                          *)
LEMMA SplitTop ==
  ASSUME NEW w, Printable(w), NEW k \in Nat, NEW rest, SplitInto(w, k, rest),
         NEW e \in Int, e = 0, Power(w) = sig_digits + 1, IsTenTo(w)
  PROVE  RoundsTo(w, e, R!Rounded(R!Scaled(rest, 0)) + k * R!TenTo[0])
<1>1. PICK d \in 1..10 : d = R!Digits(w.m) /\ d - 1 \in Nat
  BY PrintableFact
<1>2. /\ w.m \in Nat /\ w.x \in Int /\ sig_digits \in Nat
      /\ UnitOf(w) = w.x + d - sig_digits /\ Power(w) = d + w.x
      /\ rest \in ScaledNumber /\ rest.m \in Nat /\ rest.x = w.x
      /\ w.m = R!TenTo[d - 1]
  BY <1>1, DigitConstants, PrintableFact
  DEF ScaledNumber, UnitOf, Power, SplitInto, IsTenTo
<1>3. e = UnitOf(w) - 1 /\ (d - 1) + w.x = sig_digits
  BY <1>2
<1>4. PICK v \in ScaledNumber :
        v = R!Scaled(rest, 0) /\ v.m = rest.m /\ v.x = w.x
  <2>1. 0 \in Int /\ rest.x + 0 = w.x
    BY <1>2
  <2>2. /\ R!Scaled(rest, 0) \in ScaledNumber
        /\ R!Scaled(rest, 0).m = rest.m /\ R!Scaled(rest, 0).x = rest.x + 0
    BY <1>2, <2>1, ScaledByFact
  <2> QED
    BY <2>1, <2>2
<1>5. PICK q \in Nat : q = R!Rounded(v)
  BY RoundedNat
<1>6. PICK s \in Nat : s = R!max_scaled /\ s = R!TenTo[sig_digits]
  BY DigitConstants
<1>7. k = s /\ rest.m = 0
  <2>1. CASE w.x >= 0
    <3>1. w.x \in Nat
      BY <1>2, <2>1
    <3>2. R!TenTo[sig_digits] = R!TenTo[d - 1] * R!TenTo[w.x]
      BY <1>1, <1>3, <3>1, TenToSum
    <3> QED
      BY <1>2, <1>6, <2>1, <3>2 DEF SplitInto
  <2>2. CASE w.x < 0
    <3>1. -w.x \in Nat /\ -w.x + sig_digits = d - 1
      BY <1>2, <1>3, <2>2
    <3>2. PICK a \in Nat : a = R!TenTo[-w.x] /\ a > 0
      BY <3>1, TenToNat
    <3>3. w.m = a * s
      BY <1>2, <1>6, <3>1, <3>2, TenToSum
    <3>4. PICK r \in 0..a - 1 : r = rest.m /\ w.m = a * k + r
      BY <1>2, <2>2, <3>2 DEF SplitInto
    <3>5. PICK m \in Int : m = w.m
      BY <1>2
    <3>6. m \div a = k /\ (m % a) = r
      <4>1. m = a * k + r /\ k \in Int
        BY <3>4, <3>5
      <4> QED
        BY <3>2, <4>1, DivModUnique
    <3>7. m = a * s + 0 /\ 0 \in 0..a - 1
      BY <3>2, <3>3, <3>5
    <3>8. m \div a = s /\ (m % a) = 0
      <4>1. s \in Int
        OBVIOUS
      <4> QED
        BY <3>2, <3>7, <4>1, DivModUnique
    <3> QED
      BY <3>4, <3>6, <3>8
  <2> QED
    BY <1>2, <2>1, <2>2
<1>8. q = 0
  <2>1. CASE w.x >= 0
    <3>1. w.x \in Nat
      BY <1>2, <2>1
    <3>2. PICK c \in Nat : c = R!TenTo[w.x]
      BY <3>1, TenToNat
    <3>3. q = 0 * c
      BY <1>4, <1>5, <1>7, <2>1, <3>2, RoundedWhole
    <3> QED
      BY <3>3
  <2>2. CASE w.x < 0
    <3>1. -w.x \in Nat
      BY <1>2, <2>2
    <3>2. PICK a \in Nat : a = R!TenTo[-w.x] /\ a > 0
      BY <3>1, TenToNat
    <3>3. Short(2 * v.m)
      <4>1. 2 * v.m = 0 /\ 1 \in 1..10 /\ 1 \in Nat
        BY <1>4, <1>7
      <4>2. 0 < R!TenTo[1]
        BY TenToNat, <4>1
      <4> QED
        BY <4>1, <4>2 DEF Short
    <3>4. HalfOff(v.m, a, q)
      BY <1>4, <1>5, <2>2, <3>2, <3>3, RoundedDecimal
    <3>5. v.m = a * 0
      BY <1>4, <1>7
    <3>6. HalfOff(a * 0, a, q) /\ 0 \in Nat
      BY <3>4, <3>5
    <3> QED
      BY <3>2, <3>6, HalfOffExact
  <2> QED
    BY <1>2, <2>1, <2>2
<1>9. q + k * R!TenTo[0] = s
  BY <1>7, <1>8, TenToFact
<1> QED
  BY <1>3, <1>4, <1>5, <1>6, <1>9 DEF RoundsTo

(* k has at most sig_digits digits and is, in the unit 10^x, what w        *)
(* rounds to.                                                              *)
Fits(w, x, k) == /\ k \in 0..R!max_scaled - 1 /\ x >= UnitOf(w)
                 /\ Close(w, k * R!TenTo[x - UnitOf(w)])

(* Rounding that carries leaves a power of ten.                            *)
LEMMA RoundFits ==
  ASSUME NEW w, Printable(w), NEW e \in Int, NEW s \in Nat, RoundsTo(w, e, s),
         NEW x, x = IF R!Carries(s) THEN e + 1 ELSE e,
         NEW k, k = IF R!Carries(s) THEN R!min_scaled ELSE s
  PROVE  /\ Fits(w, x, k) /\ k \in Nat
         /\ R!min_scaled <= k /\ k < R!max_scaled
<1>1. PICK t \in Nat : t = R!min_scaled /\ R!max_scaled = 10 * t /\ t > 0
  <2>1. sig_digits - 1 \in Nat /\ (sig_digits - 1) + 1 = sig_digits
    BY DigitConstants
  <2> QED
    BY <2>1, DigitConstants, TenToFact, TenToNat
<1>2. UnitOf(w) \in Int
  BY PrintableFact
<1>3. CASE e = UnitOf(w) /\ Close(w, s)
  <2>1. t <= s /\ s <= 10 * t
    BY <1>1, <1>3, CloseRange
  <2>2. CASE R!Carries(s)
    <3>1. s = 10 * t
      BY <1>1, <2>1, <2>2 DEF R!Carries
    <3>2. k = t /\ x = UnitOf(w) + 1
      BY <1>1, <1>2, <1>3, <2>2
    <3>3. x - UnitOf(w) = 0 + 1 /\ x >= UnitOf(w)
      BY <1>2, <3>2
    <3>4. 0 \in Nat /\ R!TenTo[0 + 1] = 10 * 1
      BY TenToFact
    <3>5. k * R!TenTo[x - UnitOf(w)] = s
      BY <3>1, <3>2, <3>3, <3>4
    <3>6. k \in 0..R!max_scaled - 1
      BY <1>1, <3>2
    <3> QED
      BY <1>1, <1>3, <3>2, <3>3, <3>5, <3>6 DEF Fits
  <2>3. CASE ~ R!Carries(s)
    <3>1. k = s /\ x = UnitOf(w) /\ s < 10 * t
      BY <1>1, <1>3, <2>3 DEF R!Carries
    <3>2. x - UnitOf(w) = 0 /\ x >= UnitOf(w)
      BY <1>2, <3>1
    <3>3. k * R!TenTo[x - UnitOf(w)] = s
      BY <3>1, <3>2, TenToFact
    <3>4. k \in 0..R!max_scaled - 1
      BY <1>1, <3>1
    <3> QED
      BY <1>1, <1>3, <2>1, <3>1, <3>2, <3>3, <3>4 DEF Fits
  <2> QED
    BY <2>2, <2>3
<1>4. CASE e = UnitOf(w) - 1 /\ IsTenTo(w) /\ s = R!max_scaled
  <2>1. R!Carries(s)
    BY <1>1, <1>4 DEF R!Carries
  <2>2. k = t /\ x = UnitOf(w)
    BY <1>1, <1>2, <1>4, <2>1
  <2>3. x - UnitOf(w) = 0 /\ x >= UnitOf(w)
    BY <1>2, <2>2
  <2>4. k * R!TenTo[x - UnitOf(w)] = t
    BY <2>2, <2>3, TenToFact
  <2>5. k \in 0..R!max_scaled - 1
    BY <1>1, <2>2
  <2>6. Close(w, t)
    BY <1>1, <1>4, CloseTenTo
  <2> QED
    BY <1>1, <2>2, <2>3, <2>4, <2>5, <2>6 DEF Fits
<1> QED
  BY <1>3, <1>4 DEF RoundsTo

(* A zero less, in a unit ten times as large.                              *)
LEMMA TrimFits ==
  ASSUME NEW w, Printable(w), NEW x \in Int, NEW q \in Nat,
         Fits(w, x, 10 * q)
  PROVE  Fits(w, x + 1, q)
<1>1. UnitOf(w) \in Int /\ R!max_scaled \in Nat
  BY PrintableFact, DigitConstants
<1>2. PICK l \in Nat : l = x - UnitOf(w) /\ (x + 1) - UnitOf(w) = l + 1
  <2>1. x - UnitOf(w) \in Nat /\ (x + 1) - UnitOf(w) = (x - UnitOf(w)) + 1
    BY <1>1 DEF Fits
  <2> QED
    BY <2>1
<1>3. PICK a \in Nat : a = R!TenTo[l] /\ R!TenTo[l + 1] = 10 * a
  BY TenToFact, TenToNat
<1>4. (10 * q) * a = q * (10 * a)
  OBVIOUS
<1>5. q \in 0..R!max_scaled - 1 /\ x + 1 >= UnitOf(w)
  BY <1>1 DEF Fits
<1>6. Close(w, (10 * q) * a)
  BY <1>2, <1>3 DEF Fits
<1> QED
  BY <1>2, <1>3, <1>4, <1>5, <1>6 DEF Fits

(* Numbers that are the same multiplied by a power of ten are the same.    *)
LEMMA CancelTenTo ==
  ASSUME NEW p \in Nat, NEW q \in Nat, NEW a \in Nat, a > 0, p * a = q * a
  PROVE  p = q
<1>1. ASSUME NEW y \in Nat, NEW z \in Nat, y * a = z * a PROVE ~ (y > z)
  <2>1. SUFFICES ASSUME y > z PROVE FALSE
    OBVIOUS
  <2>2. PICK c \in Nat : y = z + 1 + c
    <3>1. y - (z + 1) \in Nat /\ y = z + 1 + (y - (z + 1))
      BY <2>1
    <3> QED
      BY <3>1
  <2>3. (z + 1 + c) * a = z * a + a + c * a /\ c * a \in Nat /\ z * a \in Nat
    OBVIOUS
  <2>4. (z + 1 + c) * a = z * a
    BY <1>1, <2>2
  <2> QED
    BY <2>3, <2>4
<1>2. ~ (p > q) /\ ~ (q > p)
  BY <1>1
<1> QED
  BY <1>2

(* What is shown, in the smaller unit of the two, is the number, or off by *)
(* half a unit of its last significant digit.                              *)
LEMMA FitsReadsBack ==
  ASSUME NEW w, Printable(w), NEW x \in Int, NEW k \in Nat, Fits(w, x, k),
         NEW l, l = IF x < w.x THEN x ELSE w.x,
         NEW d, d = k * R!TenTo[x - l] - w.m * R!TenTo[w.x - l]
  PROVE  /\ d \in Int
         /\ UnitOf(w) <= l => d = 0
         /\ ~ (UnitOf(w) <= l) => /\ 2 * d <= R!TenTo[UnitOf(w) - l]
                                  /\ 0 <= 2 * d + R!TenTo[UnitOf(w) - l]
<1>1. PICK c \in 1..10 : c = R!Digits(w.m)
  BY PrintableFact
<1>2. /\ w.m \in Nat /\ w.x \in Int /\ UnitOf(w) \in Int
      /\ sig_digits \in Nat /\ UnitOf(w) = w.x + c - sig_digits
  BY <1>1, DigitConstants, PrintableFact DEF UnitOf
<1>3. PICK u \in Int : u = UnitOf(w)
  BY <1>2
<1>4. PICK h \in Nat : h = x - u /\ Close(w, k * R!TenTo[h])
  <2>1. x - u \in Nat
    BY <1>3 DEF Fits
  <2> QED
    BY <1>3, <2>1 DEF Fits
<1>5. l \in Int /\ x - l \in Nat /\ w.x - l \in Nat
  BY <1>2
<1>6. PICK a \in Nat, b \in Nat : a = R!TenTo[x - l] /\ b = R!TenTo[w.x - l]
  BY <1>5, TenToNat
<1>7. PICK t \in Nat : t = R!TenTo[h]
  BY TenToNat
<1>8. d = k * a - w.m * b /\ k * a \in Nat /\ w.m * b \in Nat
  BY <1>2, <1>6
<1>9. CASE u <= w.x
  <2>1. c <= sig_digits /\ sig_digits - c = w.x - u /\ w.x - u \in Nat
    BY <1>2, <1>3, <1>9
  <2>2. u <= l
    BY <1>2, <1>4, <1>9
  <2>3. PICK z \in Nat : z = l - u
    BY <1>5, <2>2
  <2>4. PICK g \in Nat : g = R!TenTo[z] /\ g > 0
    BY TenToNat
  <2>5. t = a * g
    <3>1. PICK y \in Nat : y = x - l
      BY <1>5
    <3>2. h = y + z
      BY <1>4, <1>5, <2>3, <3>1
    <3> QED
      BY <1>6, <1>7, <2>4, <3>1, <3>2, TenToSum
  <2>6. R!TenTo[sig_digits - c] = b * g
    <3>1. PICK y \in Nat : y = w.x - l
      BY <1>5
    <3>2. sig_digits - c = y + z
      BY <1>2, <1>5, <2>1, <2>3, <3>1
    <3> QED
      BY <1>6, <2>4, <3>1, <3>2, TenToSum
  <2>7. k * t = w.m * (b * g)
    BY <1>1, <1>4, <1>7, <2>1, <2>6 DEF Close
  <2>8. PICK p \in Nat, q \in Nat : p = k * a /\ q = w.m * b
    BY <1>8
  <2>9. k * (a * g) = (k * a) * g /\ w.m * (b * g) = (w.m * b) * g
    BY <1>2
  <2>10. p * g = q * g
    BY <2>5, <2>7, <2>8, <2>9
  <2>11. p = q
    BY <2>4, <2>10, CancelTenTo
  <2> QED
    BY <1>3, <1>8, <2>2, <2>8, <2>11
<1>10. CASE u > w.x
  <2>1. c > sig_digits /\ c - sig_digits = u - w.x /\ u - w.x \in Nat
    BY <1>2, <1>3, <1>10
  <2>2. l = w.x /\ w.x - l = 0
    BY <1>2, <1>4, <1>10
  <2>3. b = 1
    BY <1>6, <2>2, TenToFact
  <2>4. PICK g \in Nat : g = R!TenTo[u - w.x]
    BY <2>1, TenToNat
  <2>5. a = t * g
    <3>1. PICK y \in Nat : y = u - w.x
      BY <2>1
    <3>2. x - l = h + y
      BY <1>2, <1>4, <2>2, <3>1
    <3> QED
      <4>1. R!TenTo[h + y] = R!TenTo[h] * R!TenTo[y]
        BY TenToSum
      <4> QED
        BY <1>6, <1>7, <2>4, <3>1, <3>2, <4>1
  <2>6. HalfOff(w.m, g, k * t)
    BY <1>1, <1>4, <1>7, <2>1, <2>4 DEF Close
  <2>7. PICK p \in Nat : p = k * a /\ p = g * (k * t)
    <3>1. k * (t * g) = g * (k * t) /\ k * a = k * (t * g)
      BY <2>5
    <3> QED
      BY <1>8, <3>1
  <2>8. PICK m \in Nat : m = w.m
    BY <1>2
  <2>9. 2 * p <= 2 * m + g /\ 2 * m <= 2 * p + g
    BY <2>6, <2>7, <2>8 DEF HalfOff
  <2>10. d = p - m
    BY <1>8, <2>3, <2>7, <2>8
  <2>11. ~ (u <= l) /\ u - l = u - w.x
    BY <1>2, <1>10, <2>2
  <2> QED
    BY <1>3, <2>4, <2>9, <2>10, <2>11
<1> QED
  BY <1>2, <1>9, <1>10

(* The digits of s, the last of them first, make v.                        *)
Adds(g, s, size) ==
  /\ g \in [0..size -> Nat] /\ g[0] = 0
  /\ \A k \in 1..size : g[k] = g[k - 1] + (s[k] - 48) * R!TenTo[k - 1]

Valued(s, v) == \E g : Adds(g, s, Len(s)) /\ g[Len(s)] = v

(* No digits make zero.                                                    *)
LEMMA ValuedEmpty ==
  ASSUME NEW s, Len(s) = 0
  PROVE  Valued(s, 0)
<1> DEFINE g == [k \in 0..0 |-> 0]
<1>1. g \in [0..0 -> Nat] /\ g[0] = 0 /\ 1..0 = {}
  OBVIOUS
<1> HIDE DEF g
<1> QED
  BY <1>1 DEF Valued, Adds

(* One digit more counts as much as its place.                             *)
LEMMA ValuedAppend ==
  ASSUME NEW s \in Seq(48..57), NEW v, Valued(s, v), NEW c \in 48..57
  PROVE  Valued(Append(s, c), v + (c - 48) * R!TenTo[Len(s)])
<1>1. PICK l \in Nat : l = Len(s)
  BY LenProperties
<1>2. PICK g : Adds(g, s, l) /\ g[l] = v
  BY <1>1 DEF Valued
<1>3. PICK u : u = Append(s, c)
  OBVIOUS
<1>4. Len(u) = l + 1 /\ u[l + 1] = c /\ \A k \in 1..l : u[k] = s[k]
  BY <1>1, <1>3, AppendProperties
<1>5. PICK a \in Nat : a = R!TenTo[l]
  BY TenToNat
<1>6. PICK w \in Nat : w = v + (c - 48) * a
  <2>1. g[l] \in Nat
    BY <1>2 DEF Adds
  <2>2. c - 48 \in Nat
    OBVIOUS
  <2>3. (c - 48) * a \in Nat
    BY <2>2
  <2> QED
    BY <1>2, <2>1, <2>3
<1> DEFINE h == [k \in 0..l + 1 |-> IF k = l + 1 THEN w ELSE g[k]]
<1>7. /\ h \in [0..l + 1 -> Nat] /\ h[l + 1] = w
      /\ \A k \in 0..l : h[k] = g[k]
  BY <1>2 DEF Adds
<1> HIDE DEF h
<1>8. ASSUME NEW k \in 1..l + 1
      PROVE  h[k] = h[k - 1] + (u[k] - 48) * R!TenTo[k - 1]
  <2>1. CASE k = l + 1
    <3>1. k - 1 = l /\ h[l] = v
      BY <1>2, <1>7, <2>1
    <3> QED
      BY <1>4, <1>5, <1>6, <1>7, <2>1, <3>1
  <2>2. CASE k # l + 1
    <3>1. k \in 1..l /\ k \in 0..l /\ k - 1 \in 0..l
      BY <2>2
    <3>2. g[k] = g[k - 1] + (s[k] - 48) * R!TenTo[k - 1]
      BY <1>2, <3>1 DEF Adds
    <3>3. h[k] = g[k] /\ h[k - 1] = g[k - 1] /\ u[k] = s[k]
      BY <1>4, <1>7, <3>1
    <3> QED
      BY <3>2, <3>3
  <2> QED
    BY <2>1, <2>2
<1>9. h[0] = 0
  BY <1>2, <1>7 DEF Adds
<1>10. Adds(h, u, l + 1)
  BY <1>7, <1>8, <1>9 DEF Adds
<1>11. Valued(u, w)
  BY <1>4, <1>7, <1>10 DEF Valued
<1> QED
  BY <1>1, <1>3, <1>5, <1>6, <1>11

(* So does the last one, which is taken away.                              *)
LEMMA ValuedFront ==
  ASSUME NEW s \in Seq(48..57), NEW v, Valued(s, v), Len(s) # 0,
         NEW u, u = R!Unprinted(s)
  PROVE  /\ u \in Seq(48..57) /\ Len(u) = Len(s) - 1
         /\ \A k \in 1..Len(s) - 1 : u[k] = s[k]
         /\ \E w \in Nat :
              /\ Valued(u, w)
              /\ v = w + (s[Len(s)] - 48) * R!TenTo[Len(s) - 1]
<1>1. PICK l \in Nat : l + 1 = Len(s) /\ l = Len(s) - 1
  <2>1. Len(s) \in Nat
    BY LenProperties
  <2>2. Len(s) - 1 \in Nat /\ (Len(s) - 1) + 1 = Len(s)
    BY <2>1
  <2> QED
    BY <2>2
<1>2. PICK g : Adds(g, s, l + 1) /\ g[l + 1] = v
  BY <1>1 DEF Valued
<1>3. u = SubSeq(s, 1, l)
  BY <1>1 DEF R!Unprinted
<1>4. /\ u \in Seq(48..57) /\ Len(u) = l
      /\ \A k \in 1..l : u[k] = s[k]
  BY <1>1, <1>3
<1> DEFINE h == [k \in 0..l |-> g[k]]
<1>5. g \in [0..l + 1 -> Nat]
  BY <1>2 DEF Adds
<1>6. h \in [0..l -> Nat] /\ \A k \in 0..l : h[k] = g[k]
  BY <1>5
<1> HIDE DEF h
<1>7. ASSUME NEW k \in 1..l
      PROVE  h[k] = h[k - 1] + (u[k] - 48) * R!TenTo[k - 1]
  <2>1. k \in 1..l + 1 /\ k \in 0..l /\ k - 1 \in 0..l
    OBVIOUS
  <2>2. g[k] = g[k - 1] + (s[k] - 48) * R!TenTo[k - 1]
    BY <1>2, <2>1 DEF Adds
  <2>3. h[k] = g[k] /\ h[k - 1] = g[k - 1] /\ u[k] = s[k]
    BY <1>4, <1>6, <2>1
  <2> QED
    BY <2>2, <2>3
<1>8. h[0] = 0
  BY <1>2, <1>6 DEF Adds
<1>9. Adds(h, u, l)
  BY <1>6, <1>7, <1>8 DEF Adds
<1>10. PICK w \in Nat : w = h[l]
  BY <1>6
<1>11. Valued(u, w)
  BY <1>4, <1>9, <1>10 DEF Valued
<1>12. v = w + (s[l + 1] - 48) * R!TenTo[l]
  <2>1. l + 1 \in 1..l + 1 /\ (l + 1) - 1 = l /\ l \in 0..l
    OBVIOUS
  <2>2. g[l + 1] = g[l] + (s[l + 1] - 48) * R!TenTo[l]
    BY <1>2, <2>1 DEF Adds
  <2> QED
    BY <1>2, <1>6, <1>10, <2>1, <2>2
<1> QED
  BY <1>1, <1>4, <1>11, <1>12

-----------------------------------------------------------------------------
(* Reading the size characters after position p gives v; what is not a     *)
(* digit is passed over.                                                   *)
DigitAdded(v, c) == IF c \in 48..57 THEN v * 10 + (c - 48) ELSE v

Passes(g, s, p, size) ==
  /\ g \in [0..size -> Nat] /\ g[0] = 0
  /\ \A k \in 1..size : g[k] = DigitAdded(g[k - 1], s[p + k])

Reading(s, p, size, v) == \E g : Passes(g, s, p, size) /\ g[size] = v

(* Nothing reads as zero.                                                  *)
LEMMA ReadingNone ==
  ASSUME NEW s, NEW p
  PROVE  Reading(s, p, 0, 0)
<1> DEFINE g == [k \in 0..0 |-> 0]
<1>1. g \in [0..0 -> Nat] /\ g[0] = 0 /\ 1..0 = {}
  OBVIOUS
<1> HIDE DEF g
<1> QED
  BY <1>1 DEF Reading, Passes

(* What is read is a number, and the same wherever the characters are.     *)
LEMMA ReadingSame ==
  ASSUME NEW s, NEW p, NEW size \in Nat, NEW v, Reading(s, p, size, v),
         NEW t, \A k \in 1..size : t[p + k] = s[p + k]
  PROVE  Reading(t, p, size, v) /\ v \in Nat
<1>1. PICK g : Passes(g, s, p, size) /\ g[size] = v
  BY DEF Reading
<1>2. Passes(g, t, p, size)
  BY <1>1 DEF Passes
<1>3. g[size] \in Nat
  BY <1>1 DEF Passes
<1> QED
  BY <1>1, <1>2, <1>3 DEF Reading

(* One character more.                                                     *)
LEMMA ReadingNext ==
  ASSUME NEW s, NEW p \in Nat, NEW size \in Nat, NEW v,
         Reading(s, p, size, v)
  PROVE  Reading(s, p, size + 1, DigitAdded(v, s[p + (size + 1)]))
<1>1. PICK g : Passes(g, s, p, size) /\ g[size] = v
  BY DEF Reading
<1>2. PICK c : c = s[p + (size + 1)]
  OBVIOUS
<1>3. v \in Nat
  BY <1>1 DEF Passes
<1>4. PICK w \in Nat : w = DigitAdded(v, c)
  BY <1>3 DEF DigitAdded
<1> DEFINE h == [k \in 0..size + 1 |-> IF k = size + 1 THEN w ELSE g[k]]
<1>5. /\ h \in [0..size + 1 -> Nat] /\ h[size + 1] = w
      /\ \A k \in 0..size : h[k] = g[k]
  BY <1>1 DEF Passes
<1> HIDE DEF h
<1>6. ASSUME NEW k \in 1..size + 1
      PROVE  h[k] = DigitAdded(h[k - 1], s[p + k])
  <2>1. CASE k = size + 1
    <3>1. k - 1 = size /\ h[size] = v
      BY <1>1, <1>5, <2>1
    <3> QED
      BY <1>2, <1>4, <1>5, <2>1, <3>1
  <2>2. CASE k # size + 1
    <3>1. k \in 1..size /\ k \in 0..size /\ k - 1 \in 0..size
      BY <2>2
    <3> QED
      BY <1>1, <1>5, <3>1 DEF Passes
  <2> QED
    BY <2>1, <2>2
<1>7. h[0] = 0
  BY <1>1, <1>5 DEF Passes
<1>8. Passes(h, s, p, size + 1)
  BY <1>5, <1>6, <1>7 DEF Passes
<1> QED
  BY <1>2, <1>4, <1>5, <1>8 DEF Reading

(* This is what ReadDigits reads.                                          *)
LEMMA ReadingFact ==
  ASSUME NEW p \in Nat, NEW size \in Nat, NEW v, Reading(out, p, size, v)
  PROVE  R!ReadDigits(p + 1, p + size) = v
<1> DEFINE Body(sum) == [k \in (p + 1) - 1..p + size |->
                           IF k = (p + 1) - 1 THEN 0
                           ELSE IF out[k] \in 48..57
                                THEN sum[k - 1] * 10 + (out[k] - 48)
                           ELSE sum[k - 1]]
           sum == CHOOSE f : f = Body(f)
<1>1. R!ReadDigits(p + 1, p + size) = sum[p + size]
  BY DEF R!ReadDigits
<1>2. PICK g : Passes(g, out, p, size) /\ g[size] = v
  BY DEF Reading
<1>3. g[0] = 0 /\ \A k \in 1..size : g[k] = DigitAdded(g[k - 1], out[p + k])
  BY <1>2 DEF Passes
<1> DEFINE h == [k \in p..p + size |-> g[k - p]]
<1>4. \A k \in p..p + size : h[k] = g[k - p]
  OBVIOUS
<1>5. (p + 1) - 1 = p
  OBVIOUS
<1>6. h = Body(h)
  <2>1. ASSUME NEW k \in p..p + size
        PROVE  h[k] = IF k = p THEN 0
                      ELSE IF out[k] \in 48..57
                           THEN h[k - 1] * 10 + (out[k] - 48)
                      ELSE h[k - 1]
    <3>1. CASE k = p
      <4>1. k - p = 0
        BY <3>1
      <4> QED
        BY <1>3, <1>4, <3>1, <4>1
    <3>2. CASE k # p
      <4>1. k - p \in 1..size /\ p + (k - p) = k /\ k - 1 \in p..p + size
            /\ (k - p) - 1 = (k - 1) - p
        BY <3>2
      <4>2. g[k - p] = DigitAdded(g[(k - 1) - p], out[k])
        BY <1>3, <4>1
      <4>3. h[k] = g[k - p] /\ h[k - 1] = g[(k - 1) - p]
        BY <1>4, <4>1
      <4> QED
        BY <3>2, <4>2, <4>3 DEF DigitAdded
    <3> QED
      BY <3>1, <3>2
  <2>2. h = [k \in p..p + size |-> h[k]]
    OBVIOUS
  <2> HIDE DEF h
  <2> QED
    BY <1>5, <2>1, <2>2
<1> HIDE DEF h
<1>7. sum = Body(sum)
  BY <1>6, Zenon
<1> HIDE DEF sum
<1>8. ASSUME NEW k \in 1..size
      PROVE  sum[p + k] = DigitAdded(sum[p + (k - 1)], out[p + k])
  <2>1. p + k \in (p + 1) - 1..p + size /\ p + k # (p + 1) - 1
        /\ (p + k) - 1 = p + (k - 1)
    OBVIOUS
  <2> QED
    BY <1>7, <2>1 DEF DigitAdded
<1>9. sum[p] = 0
  <2>1. p \in (p + 1) - 1..p + size
    OBVIOUS
  <2> QED
    BY <1>5, <1>7, <2>1
<1> DEFINE e == [k \in 0..size |-> sum[p + k]]
<1>10. \A k \in 0..size : e[k] = sum[p + k]
  OBVIOUS
<1> HIDE DEF e
<1>11. Together(e, g, size)
  <2>1. ASSUME NEW k \in 1..size, e[k - 1] = g[k - 1] PROVE e[k] = g[k]
    <3>1. k \in 0..size /\ k - 1 \in 0..size
      OBVIOUS
    <3>2. e[k] = sum[p + k] /\ e[k - 1] = sum[p + (k - 1)]
      BY <1>10, <3>1
    <3>3. g[k] = DigitAdded(g[k - 1], out[p + k])
      BY <1>3
    <3> QED
      BY <1>8, <2>1, <3>2, <3>3
  <2>2. e[0] = g[0]
    <3>1. 0 \in 0..size /\ p + 0 = p
      OBVIOUS
    <3> QED
      BY <1>3, <1>9, <1>10, <3>1
  <2> QED
    BY <2>1, <2>2 DEF Together
<1>12. e[size] = g[size]
  <2>1. size \in 0..size
    OBVIOUS
  <2> QED
    BY <1>11, <2>1, StepsUnique
<1> QED
  BY <1>1, <1>2, <1>10, <1>12

(* The first l characters of s are the sign, of which there are skip, and  *)
(* digits, with a point dec digits before the end if there were left more: *)
(* never the first of them.  Before an exponent e there is one digit in    *)
(* front of the point, which is not zero.                                  *)
LaidOut(s, l, left, skip, dec, e) ==
  /\ l \in Nat /\ skip <= l /\ l <= Len(s)
  /\ skip = 1 => s[1] = 45
  /\ \A k \in skip + 1..l : s[k] \in 48..57 \/ s[k] = 46
  /\ \A k \in 1..l : s[k] = 46 <=> left < dec /\ k = l - (dec - left)
  /\ left < dec => l - (dec - left) > skip + 1
  /\ l = skip => left > dec
  /\ e # 0 => /\ l + left = skip + dec + 1 + (IF left < dec THEN 1 ELSE 0)
              /\ l > skip => s[skip + 1] # 48

Skips == {0, 1}
SignOf(skip) == IF skip = 1 THEN <<45>> ELSE <<>>

(* The sign alone.                                                         *)
LEMMA LaidSign ==
  ASSUME NEW skip \in Skips, NEW dec \in Nat, NEW left \in Nat, left > dec,
         NEW e \in Int, e # 0 => left = dec + 1
  PROVE  LaidOut(SignOf(skip), skip, left, skip, dec, e)
<1>1. SignOf(skip) \in Seq(Int) /\ Len(SignOf(skip)) = skip
  <2>1. <<45>> \in Seq(Int) /\ <<>> \in Seq(Int)
    OBVIOUS
  <2>2. Len(<<45>>) = 1 /\ Len(<<>>) = 0
    OBVIOUS
  <2> QED
    BY <2>1, <2>2 DEF SignOf, Skips
<1>2. skip = 1 => SignOf(skip)[1] = 45
  BY DEF SignOf
<1>3. skip = 0 \/ skip = 1
  BY DEF Skips
<1>4. \A k \in skip + 1..skip : FALSE
  BY <1>3
<1>5. \A k \in 1..skip : skip = 1 /\ k = 1
  BY <1>3
<1>6. ~ (left < dec)
  OBVIOUS
<1> QED
  BY <1>1, <1>2, <1>3, <1>4, <1>5, <1>6 DEF LaidOut

(* Another digit of those left, where no point is due.                     *)
LEMMA LaidDigit ==
  ASSUME NEW skip \in Skips, NEW dec \in Nat, NEW left \in Nat, left > 0,
         NEW e \in Int, NEW s \in Seq(32..126), NEW c \in 48..57,
         NEW l, l = Len(s), LaidOut(s, l, left, skip, dec, e), left # dec,
         e # 0 /\ l = skip => c # 48,
         NEW t, t = s \o <<c>>
  PROVE  LaidOut(t, l + 1, left - 1, skip, dec, e)
<1>1. l \in Nat /\ skip \in Nat /\ skip <= l
  BY DEF LaidOut, Skips
<1>2. <<c>> \in Seq(32..126) /\ Len(<<c>>) = 1 /\ <<c>>[1] = c
  OBVIOUS
<1>3. Len(t) = l + 1 /\ t[l + 1] = c /\ \A k \in 1..l : t[k] = s[k]
  BY <1>1, <1>2, ConcatProperties
<1>4. skip = 1 => t[1] = 45
  <2>1. skip = 1 => 1 \in 1..l /\ s[1] = 45
    BY <1>1 DEF LaidOut
  <2> QED
    BY <1>3, <2>1
<1>5. ASSUME NEW k \in skip + 1..l + 1 PROVE t[k] \in 48..57 \/ t[k] = 46
  <2>1. k = l + 1 \/ (k \in skip + 1..l /\ k \in 1..l)
    BY <1>1
  <2> QED
    BY <1>3, <2>1 DEF LaidOut
<1>6. left - 1 < dec <=> left < dec
  OBVIOUS
<1>7. ASSUME NEW k \in 1..l + 1
      PROVE  t[k] = 46 <=> left - 1 < dec /\ k = (l + 1) - (dec - (left - 1))
  <2>1. (l + 1) - (dec - (left - 1)) = l - (dec - left)
    BY <1>1
  <2>2. CASE k = l + 1
    <3>1. left < dec => k # l - (dec - left)
      BY <1>1, <2>2
    <3> QED
      BY <1>3, <1>6, <2>1, <2>2, <3>1
  <2>3. CASE k # l + 1
    <3>1. k \in 1..l
      BY <1>1, <2>3
    <3>2. s[k] = 46 <=> left < dec /\ k = l - (dec - left)
      BY <3>1 DEF LaidOut
    <3> QED
      BY <1>3, <1>6, <2>1, <3>1, <3>2
  <2> QED
    BY <2>2, <2>3
<1>8. left - 1 < dec => (l + 1) - (dec - (left - 1)) > skip + 1
  BY <1>1, <1>6 DEF LaidOut
<1>9. l + 1 # skip /\ skip <= l + 1
  BY <1>1
<1>10. ASSUME e # 0
       PROVE  /\ (l + 1) + (left - 1)
                   = skip + dec + 1 + (IF left - 1 < dec THEN 1 ELSE 0)
              /\ t[skip + 1] # 48
  <2>1. PICK z \in {0, 1} : /\ z = IF left < dec THEN 1 ELSE 0
                            /\ z = IF left - 1 < dec THEN 1 ELSE 0
    BY <1>6
  <2>2. l + left = skip + dec + 1 + z
    BY <1>10, <2>1 DEF LaidOut
  <2>3. (l + 1) + (left - 1) = skip + dec + 1 + z
    BY <1>1, <2>2
  <2>4. t[skip + 1] # 48
    <3>1. CASE l = skip
      BY <1>3, <1>10, <3>1
    <3>2. CASE l # skip
      <4>1. l > skip /\ skip + 1 \in 1..l
        BY <1>1, <3>2
      <4>2. s[skip + 1] # 48
        BY <1>10, <4>1 DEF LaidOut
      <4> QED
        BY <1>3, <4>1, <4>2
    <3> QED
      BY <3>1, <3>2
  <2> QED
    BY <2>1, <2>3, <2>4
<1>11. /\ l + 1 \in Nat /\ l + 1 <= Len(t)
       /\ l + 1 = skip => left - 1 > dec
  BY <1>1, <1>3, <1>9
<1> QED
  BY <1>4, <1>5, <1>7, <1>8, <1>9, <1>10, <1>11 DEF LaidOut

(* Another digit, behind the point.                                        *)
LEMMA LaidPoint ==
  ASSUME NEW skip \in Skips, NEW dec \in Nat, NEW left \in Nat, left > 0,
         NEW e \in Int, NEW s \in Seq(32..126), NEW c \in 48..57,
         NEW l, l = Len(s), LaidOut(s, l, left, skip, dec, e), left = dec,
         NEW t, t = s \o <<46, c>>
  PROVE  LaidOut(t, l + 2, left - 1, skip, dec, e)
<1>1. l \in Nat /\ skip \in Nat /\ skip < l
  <2>1. l \in Nat /\ skip <= l /\ l # skip /\ skip \in Nat
    BY DEF LaidOut, Skips
  <2> QED
    BY <2>1
<1>2. /\ <<46, c>> \in Seq(32..126) /\ Len(<<46, c>>) = 2
      /\ <<46, c>>[1] = 46 /\ <<46, c>>[2] = c
  OBVIOUS
<1>3. /\ Len(t) = l + 2 /\ t[l + 1] = 46 /\ t[l + 2] = c
      /\ \A k \in 1..l : t[k] = s[k]
  <2>1. PICK u \in Seq(32..126) : u = <<46, c>>
    BY <1>2
  <2>2. Len(u) = 2 /\ u[1] = 46 /\ u[2] = c
    BY <1>2, <2>1
  <2>3. /\ Len(s \o u) = l + 2
        /\ \A k \in 1..l + 2 : (s \o u)[k] = IF k <= l THEN s[k] ELSE u[k - l]
    <3>1. /\ Len(s \o u) = Len(s) + Len(u)
          /\ \A k \in 1..Len(s) + Len(u) :
               (s \o u)[k] = IF k <= Len(s) THEN s[k] ELSE u[k - Len(s)]
      BY <2>1, ConcatProperties
    <3> QED
      BY <2>2, <3>1
  <2>4. /\ l + 1 \in 1..l + 2 /\ l + 2 \in 1..l + 2
        /\ (l + 1) - l = 1 /\ (l + 2) - l = 2
        /\ \A k \in 1..l : k \in 1..l + 2 /\ k <= l
    BY <1>1
  <2>5. ~ (l + 1 <= l) /\ ~ (l + 2 <= l)
    BY <1>1
  <2> QED
    BY <2>1, <2>2, <2>3, <2>4, <2>5
<1>4. skip = 1 => t[1] = 45
  <2>1. skip = 1 => 1 \in 1..l /\ s[1] = 45
    BY <1>1 DEF LaidOut
  <2> QED
    BY <1>3, <2>1
<1>5. ASSUME NEW k \in skip + 1..l + 2 PROVE t[k] \in 48..57 \/ t[k] = 46
  <2>1. k = l + 1 \/ k = l + 2 \/ (k \in skip + 1..l /\ k \in 1..l)
    BY <1>1
  <2>2. k \in skip + 1..l => s[k] \in 48..57 \/ s[k] = 46
    BY DEF LaidOut
  <2> QED
    BY <1>3, <2>1, <2>2
<1>6. left - 1 < dec /\ (l + 2) - (dec - (left - 1)) = l + 1 /\ ~ (left < dec)
  BY <1>1
<1>7. ASSUME NEW k \in 1..l + 2 PROVE t[k] = 46 <=> k = l + 1
  <2>1. CASE k \in 1..l
    <3>1. s[k] # 46
      BY <1>6, <2>1 DEF LaidOut
    <3> QED
      BY <1>1, <1>3, <2>1, <3>1
  <2>2. CASE k \notin 1..l
    <3>1. k = l + 1 \/ k = l + 2
      BY <1>1, <2>2
    <3> QED
      BY <1>1, <1>3, <3>1
  <2> QED
    BY <2>1, <2>2
<1>8. l + 1 > skip + 1 /\ skip <= l + 2 /\ l + 2 # skip
  BY <1>1
<1>9. ASSUME e # 0
      PROVE  /\ (l + 2) + (left - 1)
                  = skip + dec + 1 + (IF left - 1 < dec THEN 1 ELSE 0)
             /\ t[skip + 1] # 48
  <2>1. l + left = skip + dec + 1 + (IF left < dec THEN 1 ELSE 0)
    BY <1>9 DEF LaidOut
  <2>2. l + left = skip + dec + 1 + 0
    BY <1>6, <2>1
  <2>3. (l + 2) + (left - 1) = skip + dec + 1 + 1
    BY <1>1, <2>2
  <2>4. s[skip + 1] # 48
    BY <1>1, <1>9 DEF LaidOut
  <2>5. skip + 1 \in 1..l
    BY <1>1
  <2> QED
    BY <1>3, <1>6, <2>3, <2>4, <2>5
<1>10. /\ l + 2 \in Nat /\ l + 2 <= Len(t)
       /\ l + 2 = skip => left - 1 > dec
       /\ left - 1 < dec => (l + 2) - (dec - (left - 1)) > skip + 1
  BY <1>1, <1>3, <1>6, <1>8
<1>11. ASSUME NEW k \in 1..l + 2
       PROVE  t[k] = 46 <=> left - 1 < dec /\ k = (l + 2) - (dec - (left - 1))
  BY <1>6, <1>7
<1> QED
  BY <1>4, <1>5, <1>8, <1>9, <1>10, <1>11 DEF LaidOut

(* What is behind it does not matter.                                      *)
LEMMA LaidKept ==
  ASSUME NEW skip \in Skips, NEW dec \in Nat, NEW left \in Nat,
         NEW e \in Int, NEW s, NEW l, LaidOut(s, l, left, skip, dec, e),
         NEW t, Len(t) \in Nat, l <= Len(t), \A k \in 1..l : t[k] = s[k]
  PROVE  LaidOut(t, l, left, skip, dec, e)
<1>1. l \in Nat /\ skip \in Nat /\ skip <= l /\ (l = skip => left > dec)
  BY DEF LaidOut, Skips
<1>2. skip = 1 => t[1] = 45
  <2>1. skip = 1 => 1 \in 1..l /\ s[1] = 45
    BY <1>1 DEF LaidOut
  <2> QED
    BY <2>1
<1>3. ASSUME NEW k \in skip + 1..l PROVE t[k] \in 48..57 \/ t[k] = 46
  <2>1. k \in 1..l
    BY <1>1
  <2> QED
    BY <2>1 DEF LaidOut
<1>4. l > skip => t[skip + 1] = s[skip + 1]
  <2>1. l > skip => skip + 1 \in 1..l
    BY <1>1
  <2> QED
    BY <2>1
<1> QED
  BY <1>1, <1>2, <1>3, <1>4 DEF LaidOut

(* The digits k that are left when dec of them come after the point, and   *)
(* an exponent e is printed if it is not zero: they are those of w, and    *)
(* before an exponent they are as many as decimals asks for.               *)
Trimming(w, e, dec, k) ==
  /\ Fits(w, e - dec, k)
  /\ e # 0 => R!TenTo[dec] <= k /\ k < R!TenTo[dec + 1]

(* s has the last of them, and the last one is not zero after a point.     *)
BufferingDigits(w, e, dec, k, s) ==
  /\ \E v : Valued(s, v) /\ Fits(w, e - dec, k * R!TenTo[Len(s)] + v)
  /\ dec > 0 => IF s = <<>> THEN (k % 10) # 0 ELSE s[1] # 48
  /\ e # 0 => \/ /\ Len(s) <= dec
                 /\ R!TenTo[dec - Len(s)] <= k
                 /\ k < R!TenTo[(dec - Len(s)) + 1]
              \/ k = 0 /\ Len(s) = dec + 1 /\ s[dec + 1] # 48

(* o shows the first of them, and s has the others.                        *)
PrintingSignificand(w, e, dec, skip, o, s) ==
  /\ \E r, v : /\ Reading(o, 0, Len(o), r) /\ Valued(s, v)
               /\ Fits(w, e - dec, r * R!TenTo[Len(s)] + v)
  /\ LaidOut(o, Len(o), Len(s), skip, dec, e)
  /\ dec > 0 => IF s = <<>> THEN o[Len(o)] # 48 ELSE s[1] # 48
  /\ e # 0 /\ Len(o) = skip => s[Len(s)] # 48

(* The first l characters of o are what w is printed as, but for e.        *)
Significand(w, e, dec, skip, o, l) ==
  /\ \E r : Reading(o, 0, l, r) /\ Fits(w, e - dec, r)
  /\ LaidOut(o, l, 0, skip, dec, e)
  /\ dec > 0 => o[l] # 48

(* A zero is trimmed.                                                      *)
LEMMA TrimZero ==
  ASSUME NEW w, Printable(w), NEW e \in Int, NEW dec \in Nat, dec > 0,
         NEW k \in Nat, Trimming(w, e, dec, k), (k % 10) = 0
  PROVE  Trimming(w, e, dec - 1, k \div 10)
<1>1. PICK q \in Nat : q = k \div 10 /\ k = 10 * q
  <2>1. k \div 10 \in Nat /\ k = 10 * (k \div 10)
    OBVIOUS
  <2> QED
    BY <2>1
<1>2. Fits(w, e - (dec - 1), q)
  <2>1. e - dec \in Int /\ (e - dec) + 1 = e - (dec - 1)
    OBVIOUS
  <2>2. Fits(w, e - dec, 10 * q)
    BY <1>1 DEF Trimming
  <2>3. Fits(w, (e - dec) + 1, q)
    BY <2>1, <2>2, TrimFits
  <2> QED
    BY <2>1, <2>3
<1>3. ASSUME e # 0
      PROVE  R!TenTo[dec - 1] <= q /\ q < R!TenTo[(dec - 1) + 1]
  <2>1. dec - 1 \in Nat /\ (dec - 1) + 1 = dec
    OBVIOUS
  <2>2. PICK t \in Nat : t = R!TenTo[dec - 1] /\ R!TenTo[dec] = 10 * t
    BY <2>1, TenToFact, TenToNat
  <2>3. R!TenTo[dec + 1] = 10 * R!TenTo[dec]
    BY TenToFact
  <2>4. 10 * t <= 10 * q /\ 10 * q < 10 * (10 * t)
    BY <1>1, <1>3, <2>2, <2>3 DEF Trimming
  <2>5. t <= q /\ q < 10 * t
    BY <2>4
  <2> QED
    BY <2>1, <2>2, <2>5
<1> QED
  BY <1>1, <1>2, <1>3 DEF Trimming

(* None is left, and buf is empty.                                         *)
LEMMA BufferingBegins ==
  ASSUME NEW w, NEW e \in Int, NEW dec \in Nat, NEW k \in Nat,
         Trimming(w, e, dec, k), dec = 0 \/ (k % 10) # 0,
         NEW s, s = <<>>
  PROVE  BufferingDigits(w, e, dec, k, s)
<1>1. Len(s) = 0 /\ Valued(s, 0)
  <2>1. Len(s) = 0
    OBVIOUS
  <2> QED
    BY <2>1, ValuedEmpty
<1>2. k * R!TenTo[Len(s)] + 0 = k
  <2>1. R!TenTo[Len(s)] = 1
    BY <1>1, TenToFact
  <2> QED
    BY <2>1
<1>3. dec - Len(s) = dec /\ Len(s) <= dec
  BY <1>1
<1> QED
  BY <1>1, <1>2, <1>3 DEF Trimming, BufferingDigits

(* One digit goes into the buffer.                                         *)
LEMMA BufferDigit ==
  ASSUME NEW w, NEW e \in Int, NEW dec \in Nat, NEW k \in Nat,
         NEW s \in Seq(48..57), BufferingDigits(w, e, dec, k, s),
         k # 0 \/ Len(s) < dec + 1
  PROVE  BufferingDigits(w, e, dec, k \div 10, Append(s, 48 + (k % 10)))
<1>1. PICK l \in Nat : l = Len(s)
  BY LenProperties
<1>2. PICK q \in Nat, c \in 48..57 :
        q = k \div 10 /\ c = 48 + (k % 10) /\ k = 10 * q + (c - 48)
  <2>1. /\ k \div 10 \in Nat /\ 48 + (k % 10) \in 48..57
        /\ k = 10 * (k \div 10) + ((48 + (k % 10)) - 48)
    OBVIOUS
  <2> QED
    BY <2>1
<1>3. PICK u : u = Append(s, c)
  OBVIOUS
<1>4. /\ u \in Seq(48..57) /\ Len(u) = l + 1 /\ u[l + 1] = c
      /\ \A m \in 1..l : u[m] = s[m]
  BY <1>1, <1>3, AppendProperties
<1>5. PICK a \in Nat : a = R!TenTo[l] /\ R!TenTo[l + 1] = 10 * a
  BY TenToFact, TenToNat
<1>6. PICK v : Valued(s, v) /\ Fits(w, e - dec, k * a + v)
  BY <1>1, <1>5 DEF BufferingDigits
<1>7. v \in Nat
  BY <1>1, <1>6 DEF Valued, Adds
<1>8. Valued(u, v + (c - 48) * a)
  BY <1>1, <1>3, <1>5, <1>6, ValuedAppend
<1>9. q * (10 * a) + (v + (c - 48) * a) = k * a + v
  <2>1. PICK m \in Nat : m = c - 48
    OBVIOUS
  <2>2. (10 * q + m) * a = q * (10 * a) + m * a
    OBVIOUS
  <2>3. k * a = (10 * q + m) * a
    BY <1>2, <2>1
  <2>4. q * (10 * a) \in Nat /\ m * a \in Nat
    OBVIOUS
  <2> QED
    BY <1>7, <2>1, <2>2, <2>3, <2>4
<1>10. ASSUME dec > 0 PROVE u # <<>> /\ u[1] # 48
  <2>1. u # <<>>
    <3>1. Len(u) # 0
      BY <1>4
    <3> QED
      BY <3>1
  <2>2. CASE l = 0
    <3>1. s = <<>>
      BY <1>1, <2>2, EmptySeq
    <3>2. (k % 10) # 0
      BY <1>10, <3>1 DEF BufferingDigits
    <3>3. c # 48
      BY <1>2, <3>2
    <3> QED
      BY <1>4, <2>1, <2>2, <3>3
  <2>3. CASE l # 0
    <3>1. s # <<>>
      <4>1. Len(s) # 0
        BY <1>1, <2>3
      <4> QED
        BY <4>1
    <3>2. 1 \in 1..l
      BY <2>3
    <3> QED
      BY <1>4, <1>10, <2>1, <3>1, <3>2 DEF BufferingDigits
  <2> QED
    BY <2>2, <2>3
<1>11. ASSUME e # 0
       PROVE  \/ /\ Len(u) <= dec
                 /\ R!TenTo[dec - Len(u)] <= q
                 /\ q < R!TenTo[(dec - Len(u)) + 1]
              \/ q = 0 /\ Len(u) = dec + 1 /\ u[dec + 1] # 48
  <2>1. /\ l <= dec /\ R!TenTo[dec - l] <= k
        /\ k < R!TenTo[(dec - l) + 1]
    BY <1>1, <1>11 DEF BufferingDigits
  <2>2. PICK z \in Nat : z = dec - l
    BY <2>1
  <2>3. PICK t \in Nat : /\ t = R!TenTo[z] /\ t <= k /\ k < 10 * t
    BY <2>1, <2>2, TenToFact, TenToNat
  <2>4. CASE z = 0
    <3>1. t = 1
      BY <2>3, <2>4, TenToFact
    <3>2. q = 0 /\ c # 48
      BY <1>2, <2>3, <3>1
    <3>3. l = dec
      BY <2>1, <2>2, <2>4
    <3> QED
      BY <1>4, <3>2, <3>3
  <2>5. CASE z # 0
    <3>1. z - 1 \in Nat /\ (z - 1) + 1 = z
      BY <2>5
    <3>2. PICK y \in Nat : y = R!TenTo[z - 1] /\ t = 10 * y
      BY <2>3, <3>1, TenToFact, TenToNat
    <3>3. y <= q /\ q < t
      BY <1>2, <2>3, <3>2
    <3>4. /\ dec - Len(u) = z - 1 /\ (dec - Len(u)) + 1 = z
          /\ Len(u) <= dec
      BY <1>4, <2>2, <2>5
    <3> QED
      BY <2>3, <3>2, <3>3, <3>4
  <2> QED
    BY <2>4, <2>5
<1>12. q * R!TenTo[Len(u)] + (v + (c - 48) * a) = k * a + v
  BY <1>4, <1>5, <1>9
<1>13. BufferingDigits(w, e, dec, q, u)
  <2>1. \E x : Valued(u, x) /\ Fits(w, e - dec, q * R!TenTo[Len(u)] + x)
    BY <1>6, <1>8, <1>12
  <2> QED
    BY <1>10, <1>11, <2>1 DEF BufferingDigits
<1> QED
  BY <1>2, <1>3, <1>13

(* All digits are in the buffer.                                           *)
LEMMA PrintingBegins ==
  ASSUME NEW w, NEW e \in Int, NEW dec \in Nat, NEW skip \in Skips,
         NEW s \in Seq(48..57), BufferingDigits(w, e, dec, 0, s),
         Len(s) >= dec + 1
  PROVE  PrintingSignificand(w, e, dec, skip, SignOf(skip), s)
<1>1. PICK o : o = SignOf(skip)
  OBVIOUS
<1>2. PICK l \in Nat : l = Len(s)
  BY LenProperties
<1>3. e # 0 => l = dec + 1 /\ s[l] # 48
  <2>1. ASSUME e # 0, R!TenTo[dec - l] <= 0, l <= dec PROVE FALSE
    BY <1>2, <2>1
  <2> QED
    BY <1>2, <2>1 DEF BufferingDigits
<1>4. LaidOut(o, skip, l, skip, dec, e)
  BY <1>1, <1>2, <1>3, LaidSign
<1>5. Len(o) = skip /\ Reading(o, 0, skip, 0)
  <2>1. CASE skip = 0
    <3>1. Len(o) = 0
      BY <1>1, <2>1 DEF SignOf
    <3> QED
      BY <2>1, <3>1, ReadingNone
  <2>2. CASE skip = 1
    <3>1. Len(o) = 1 /\ o[1] = 45
      BY <1>1, <2>2 DEF SignOf
    <3>2. Reading(o, 0, 0, 0) /\ 0 \in Nat /\ 0 + 1 = 1 /\ 0 + (0 + 1) = 1
      BY ReadingNone
    <3>3. Reading(o, 0, 0 + 1, DigitAdded(0, o[0 + (0 + 1)]))
      BY <3>2, ReadingNext
    <3>4. DigitAdded(0, o[1]) = 0
      BY <3>1 DEF DigitAdded
    <3> QED
      BY <2>2, <3>1, <3>2, <3>3, <3>4
  <2> QED
    BY <2>1, <2>2 DEF Skips
<1>6. PICK v : Valued(s, v) /\ Fits(w, e - dec, 0 * R!TenTo[l] + v)
  BY <1>2 DEF BufferingDigits
<1>7. s # <<>>
  <2>1. Len(s) # 0
    BY <1>2
  <2> QED
    BY <2>1
<1>8. dec > 0 => s[1] # 48
  BY <1>7 DEF BufferingDigits
<1>9. PrintingSignificand(w, e, dec, skip, o, s)
  BY <1>2, <1>3, <1>4, <1>5, <1>6, <1>7, <1>8 DEF PrintingSignificand
<1> QED
  BY <1>1, <1>9

(* A digit more of characters that read as r, and all of which do.         *)
LEMMA ReadingDigit ==
  ASSUME NEW o \in Seq(32..126), NEW r, Reading(o, 0, Len(o), r),
         NEW c \in 48..57, NEW t, t = o \o <<c>>
  PROVE  /\ t \in Seq(32..126) /\ Len(t) = Len(o) + 1 /\ t[Len(t)] = c
         /\ r \in Nat /\ Reading(t, 0, Len(t), r * 10 + (c - 48))
<1>1. PICK l \in Nat : l = Len(o)
  BY LenProperties
<1>2. <<c>> \in Seq(32..126) /\ Len(<<c>>) = 1 /\ <<c>>[1] = c
  OBVIOUS
<1>3. /\ t \in Seq(32..126) /\ Len(t) = l + 1 /\ t[l + 1] = c
      /\ \A k \in 1..l : t[k] = o[k]
  BY <1>1, <1>2, ConcatProperties
<1>4. Reading(t, 0, l, r) /\ r \in Nat
  <2>1. \A k \in 1..l : 0 + k = k
    OBVIOUS
  <2>2. \A k \in 1..l : t[0 + k] = o[0 + k]
    BY <1>3, <2>1
  <2>3. Reading(o, 0, l, r)
    BY <1>1
  <2> QED
    BY <2>2, <2>3, ReadingSame
<1>5. Reading(t, 0, l + 1, DigitAdded(r, c))
  <2>1. 0 \in Nat /\ 0 + (l + 1) = l + 1
    OBVIOUS
  <2>2. Reading(t, 0, l + 1, DigitAdded(r, t[0 + (l + 1)]))
    BY <1>4, <2>1, ReadingNext
  <2> QED
    BY <1>3, <2>1, <2>2
<1>6. DigitAdded(r, c) = r * 10 + (c - 48)
  BY DEF DigitAdded
<1> QED
  BY <1>1, <1>3, <1>4, <1>5, <1>6

(* So does a point, which reads as nothing, and a digit.                   *)
LEMMA ReadingPoint ==
  ASSUME NEW o \in Seq(32..126), NEW r, Reading(o, 0, Len(o), r),
         NEW c \in 48..57, NEW t, t = o \o <<46, c>>
  PROVE  /\ t \in Seq(32..126) /\ Len(t) = Len(o) + 2 /\ t[Len(t)] = c
         /\ r \in Nat /\ Reading(t, 0, Len(t), r * 10 + (c - 48))
<1>1. PICK l \in Nat : l = Len(o)
  BY LenProperties
<1>2. PICK u \in Seq(32..126) : /\ u = <<46, c>> /\ Len(u) = 2
                                /\ u[1] = 46 /\ u[2] = c
  <2>1. /\ <<46, c>> \in Seq(32..126) /\ Len(<<46, c>>) = 2
        /\ <<46, c>>[1] = 46 /\ <<46, c>>[2] = c
    OBVIOUS
  <2> QED
    BY <2>1
<1>3. /\ t \in Seq(32..126) /\ Len(t) = l + 2
      /\ \A k \in 1..l + 2 : t[k] = IF k <= l THEN o[k] ELSE u[k - l]
  <2>1. /\ o \o u \in Seq(32..126) /\ Len(o \o u) = Len(o) + Len(u)
        /\ \A k \in 1..Len(o) + Len(u) :
             (o \o u)[k] = IF k <= Len(o) THEN o[k] ELSE u[k - Len(o)]
    BY <1>2, ConcatProperties
  <2> QED
    BY <1>1, <1>2, <2>1
<1>4. /\ l + 1 \in 1..l + 2 /\ l + 2 \in 1..l + 2
      /\ (l + 1) - l = 1 /\ (l + 2) - l = 2
      /\ ~ (l + 1 <= l) /\ ~ (l + 2 <= l)
      /\ \A k \in 1..l : k \in 1..l + 2 /\ k <= l
  OBVIOUS
<1>5. t[l + 1] = 46 /\ t[l + 2] = c /\ \A k \in 1..l : t[k] = o[k]
  BY <1>2, <1>3, <1>4
<1>6. Reading(t, 0, l, r) /\ r \in Nat
  <2>1. \A k \in 1..l : 0 + k \in 1..l /\ 0 + k = k
    OBVIOUS
  <2>2. \A k \in 1..l : t[0 + k] = o[0 + k]
    BY <1>5, <2>1
  <2>3. Reading(o, 0, l, r)
    BY <1>1
  <2> QED
    BY <2>2, <2>3, ReadingSame
<1>7. Reading(t, 0, l + 1, r)
  <2>1. 0 \in Nat /\ 0 + (l + 1) = l + 1
    OBVIOUS
  <2>2. Reading(t, 0, l + 1, DigitAdded(r, t[0 + (l + 1)]))
    BY <1>6, <2>1, ReadingNext
  <2>3. DigitAdded(r, 46) = r
    BY DEF DigitAdded
  <2> QED
    BY <1>5, <2>1, <2>2, <2>3
<1>8. Reading(t, 0, l + 2, DigitAdded(r, c))
  <2>1. /\ 0 \in Nat /\ l + 1 \in Nat
        /\ (l + 1) + 1 = l + 2 /\ 0 + ((l + 1) + 1) = l + 2
    OBVIOUS
  <2>2. Reading(t, 0, (l + 1) + 1, DigitAdded(r, t[0 + ((l + 1) + 1)]))
    BY <1>7, <2>1, ReadingNext
  <2> QED
    BY <1>5, <2>1, <2>2
<1>9. DigitAdded(r, c) = r * 10 + (c - 48)
  BY DEF DigitAdded
<1> QED
  BY <1>1, <1>3, <1>5, <1>6, <1>8, <1>9

(* t is o with the last digit of s behind it.                              *)
Lengthens(t, o, s, dec) ==
  t = o \o (IF Len(s) = dec THEN <<46, R!Last(s)>> ELSE <<R!Last(s)>>)

(* A digit is shown, and a point before it where dec digits are left.      *)
LEMMA PrintOne ==
  ASSUME NEW w, NEW e \in Int, NEW dec \in Nat, NEW skip \in Skips,
         NEW o \in Seq(32..126), NEW s \in Seq(48..57), Len(s) # 0,
         PrintingSignificand(w, e, dec, skip, o, s),
         NEW t, Lengthens(t, o, s, dec), NEW u, u = R!Unprinted(s)
  PROVE  PrintingSignificand(w, e, dec, skip, t, u)
<1>0. Len(s) \in Nat /\ Len(s) # 0
  BY LenProperties, EmptySeq
<1>1. PICK l \in Nat : l + 1 = Len(s) /\ l = Len(s) - 1
  <2>2. Len(s) - 1 \in Nat /\ (Len(s) - 1) + 1 = Len(s)
    BY <1>0
  <2> QED
    BY <2>2
<1>2. PICK c \in 48..57 : c = R!Last(s) /\ c = s[l + 1]
  <2>1. Len(s) \in 1..Len(s)
    BY <1>0
  <2>2. R!Last(s) = s[Len(s)]
    BY DEF R!Last
  <2> QED
    BY <1>1, <2>1, <2>2, ElementOfSeq
<1>2a. PICK r \in Nat : \E v :
        /\ Reading(o, 0, Len(o), r) /\ Valued(s, v)
        /\ Fits(w, e - dec, r * R!TenTo[l + 1] + v)
  <2>1. PICK r, v : /\ Reading(o, 0, Len(o), r) /\ Valued(s, v)
                    /\ Fits(w, e - dec, r * R!TenTo[l + 1] + v)
    BY <1>1 DEF PrintingSignificand
  <2>2. Len(o) \in Nat
    BY LenProperties
  <2>3. r \in Nat
    BY <2>1, <2>2, ReadingSame
  <2> QED
    BY <2>1, <2>3
<1>3. PICK v : /\ Reading(o, 0, Len(o), r) /\ Valued(s, v)
               /\ Fits(w, e - dec, r * R!TenTo[l + 1] + v)
  BY <1>2a
<1>4. /\ u \in Seq(48..57) /\ Len(u) = l /\ \A k \in 1..l : u[k] = s[k]
      /\ \E x \in Nat : /\ Valued(u, x)
                        /\ v = x + (s[Len(s)] - 48) * R!TenTo[Len(s) - 1]
  <2>1. Len(s) # 0
    BY <1>0
  <2>2. Valued(s, v)
    BY <1>3
  <2>3. /\ u \in Seq(48..57) /\ Len(u) = Len(s) - 1
        /\ \A k \in 1..Len(s) - 1 : u[k] = s[k]
        /\ \E x \in Nat : /\ Valued(u, x)
                          /\ v = x + (s[Len(s)] - 48) * R!TenTo[Len(s) - 1]
    BY <2>1, <2>2, ValuedFront
  <2> QED
    BY <1>1, <2>3
<1>5. PICK x \in Nat : Valued(u, x) /\ v = x + (c - 48) * R!TenTo[l]
  BY <1>1, <1>2, <1>4
<1>6. PICK y \in Nat : y = r * 10 + (c - 48)
  <2>1. r * 10 + (c - 48) \in Nat
    OBVIOUS
  <2> QED
    BY <2>1
<1>7. PICK z \in Nat : z = Len(o)
  BY LenProperties
<1>8. LaidOut(o, z, l + 1, skip, dec, e)
  BY <1>1, <1>7 DEF PrintingSignificand
<1>9. /\ Len(t) \in Nat /\ Len(t) > z /\ t[Len(t)] = c /\ r \in Nat
      /\ Reading(t, 0, Len(t), y)
      /\ LaidOut(t, Len(t), l, skip, dec, e)
  <2>1. CASE l + 1 = dec
    <3>1. t = o \o <<46, c>>
      BY <1>1, <1>2, <2>1 DEF Lengthens
    <3>2. /\ Len(t) = z + 2 /\ t[Len(t)] = c /\ r \in Nat
          /\ Reading(t, 0, Len(t), y)
      <4>1. Reading(o, 0, Len(o), r)
        BY <1>3
      <4>2. /\ Len(t) = Len(o) + 2 /\ t[Len(t)] = c /\ r \in Nat
            /\ Reading(t, 0, Len(t), r * 10 + (c - 48))
        BY <3>1, <4>1, ReadingPoint
      <4> QED
        BY <1>6, <1>7, <4>2
    <3>3. LaidOut(t, z + 2, (l + 1) - 1, skip, dec, e)
      <4>1. l + 1 \in Nat /\ l + 1 > 0
        OBVIOUS
      <4> QED
        BY <1>7, <1>8, <2>1, <3>1, <4>1, LaidPoint
    <3>4. (l + 1) - 1 = l
      OBVIOUS
    <3>5. LaidOut(t, Len(t), l, skip, dec, e)
      BY <3>2, <3>3, <3>4
    <3>6. Len(t) \in Nat /\ Len(t) > z
      BY <3>2
    <3> QED
      BY <3>2, <3>5, <3>6
  <2>2. CASE l + 1 # dec
    <3>1. t = o \o <<c>>
      BY <1>1, <1>2, <2>2 DEF Lengthens
    <3>2. /\ Len(t) = z + 1 /\ t[Len(t)] = c /\ r \in Nat
          /\ Reading(t, 0, Len(t), y)
      <4>1. Reading(o, 0, Len(o), r)
        BY <1>3
      <4>2. /\ Len(t) = Len(o) + 1 /\ t[Len(t)] = c /\ r \in Nat
            /\ Reading(t, 0, Len(t), r * 10 + (c - 48))
        BY <3>1, <4>1, ReadingDigit
      <4> QED
        BY <1>6, <1>7, <4>2
    <3>3. LaidOut(t, z + 1, (l + 1) - 1, skip, dec, e)
      <4>1. l + 1 \in Nat /\ l + 1 > 0
        OBVIOUS
      <4>2. e # 0 /\ z = skip => c # 48
        BY <1>1, <1>2, <1>7 DEF PrintingSignificand
      <4> QED
        BY <1>7, <1>8, <2>2, <3>1, <4>1, <4>2, LaidDigit
    <3>4. (l + 1) - 1 = l
      OBVIOUS
    <3>5. LaidOut(t, Len(t), l, skip, dec, e)
      BY <3>2, <3>3, <3>4
    <3>6. Len(t) \in Nat /\ Len(t) > z
      BY <3>2
    <3> QED
      BY <3>2, <3>5, <3>6
  <2> QED
    BY <2>1, <2>2
<1>10. Fits(w, e - dec, y * R!TenTo[Len(u)] + x)
  <2>1. y * R!TenTo[l] + x = r * R!TenTo[l + 1] + v
    <3>1. PICK d \in Nat : d = c - 48
      OBVIOUS
    <3>2. PICK a \in Nat : a = R!TenTo[l] /\ R!TenTo[l + 1] = 10 * a
      BY TenToFact, TenToNat
    <3>3. (r * 10 + d) * a = r * (10 * a) + d * a
      OBVIOUS
    <3>4. r * (10 * a) \in Nat /\ d * a \in Nat
      OBVIOUS
    <3>5. (r * 10 + d) * a + x = r * (10 * a) + (x + d * a)
      BY <3>3, <3>4
    <3>6. v = x + d * a /\ y = r * 10 + d
      BY <1>5, <1>6, <3>1, <3>2
    <3> QED
      BY <3>2, <3>5, <3>6
  <2> QED
    BY <1>3, <1>4, <2>1
<1>11. ASSUME dec > 0
       PROVE  IF u = <<>> THEN t[Len(t)] # 48 ELSE u[1] # 48
  <2>1. s[1] # 48
    BY <1>11 DEF PrintingSignificand
  <2>2. CASE l = 0
    <3>1. u = <<>> /\ c = s[1]
      BY <1>2, <1>4, <2>2, EmptySeq
    <3> QED
      BY <1>9, <2>1, <3>1
  <2>3. CASE l # 0
    <3>1. u # <<>>
      <4>1. Len(u) # 0
        BY <1>4, <2>3
      <4> QED
        BY <4>1
    <3>2. u[1] = s[1]
      <4>1. 1 \in 1..l
        BY <2>3
      <4> QED
        BY <1>4, <4>1
    <3> QED
      BY <2>1, <3>1, <3>2
  <2> QED
    BY <2>2, <2>3
<1>12. Len(t) # skip
  <2>1. skip <= z
    BY <1>8 DEF LaidOut
  <2>2. skip \in Nat
    BY DEF Skips
  <2> QED
    BY <1>9, <2>1, <2>2
<1> QED
  BY <1>4, <1>5, <1>9, <1>10, <1>11, <1>12 DEF PrintingSignificand

(* When all of them are shown, the significand is.                         *)
LEMMA SignificandShown ==
  ASSUME NEW w, NEW e \in Int, NEW dec \in Nat, NEW skip \in Skips,
         NEW o \in Seq(32..126), NEW s, s = <<>>,
         PrintingSignificand(w, e, dec, skip, o, s)
  PROVE  Significand(w, e, dec, skip, o, Len(o))
<1>1. Len(s) = 0
  OBVIOUS
<1>2. PICK r, v : /\ Reading(o, 0, Len(o), r) /\ Valued(s, v)
                  /\ Fits(w, e - dec, r * R!TenTo[0] + v)
  BY <1>1 DEF PrintingSignificand
<1>3. v = 0
  BY <1>1, <1>2 DEF Valued, Adds
<1>4. r \in Nat
  <2>1. Len(o) \in Nat
    BY LenProperties
  <2> QED
    BY <1>2, <2>1, ReadingSame
<1>5. r * R!TenTo[0] + v = r
  <2>1. R!TenTo[0] = 1
    BY TenToFact
  <2> QED
    BY <1>3, <1>4, <2>1
<1>6. Fits(w, e - dec, r)
  BY <1>2, <1>5
<1> QED
  BY <1>1, <1>2, <1>6 DEF PrintingSignificand, Significand

(* It stays where it is.                                                   *)
LEMMA SignificandKept ==
  ASSUME NEW w, NEW e \in Int, NEW dec \in Nat, NEW skip \in Skips,
         NEW o, NEW l, Significand(w, e, dec, skip, o, l),
         NEW t, Len(t) \in Nat, l <= Len(t), \A k \in 1..l : t[k] = o[k]
  PROVE  Significand(w, e, dec, skip, t, l)
<1>1. PICK r : Reading(o, 0, l, r) /\ Fits(w, e - dec, r)
  BY DEF Significand
<1>2. LaidOut(o, l, 0, skip, dec, e) /\ l \in Nat /\ l > 0
  <2>1. /\ LaidOut(o, l, 0, skip, dec, e) /\ l \in Nat /\ skip <= l
        /\ l = skip => 0 > dec
    BY DEF Significand, LaidOut
  <2> QED
    BY <2>1 DEF Skips
<1>3. Reading(t, 0, l, r)
  <2>1. \A k \in 1..l : 0 + k = k
    BY <1>2
  <2>2. \A k \in 1..l : t[0 + k] = o[0 + k]
    BY <2>1
  <2> QED
    BY <1>1, <1>2, <2>2, ReadingSame
<1>4. LaidOut(t, l, 0, skip, dec, e)
  <2>1. 0 \in Nat
    OBVIOUS
  <2> QED
    BY <1>2, <2>1, LaidKept
<1>5. t[l] = o[l]
  BY <1>2
<1> QED
  BY <1>1, <1>3, <1>4, <1>5 DEF Significand

-----------------------------------------------------------------------------
(* Printing of floats: the exponent, and how it reads back                 *)

(* An exponent e is printed with its sign, after the letter e.             *)
SizeOf(e) == IF e < 0 THEN -e ELSE e
SignCode(e) == IF e < 0 THEN 45 ELSE 43

(* Position p of o has the sign; what is behind it are digits that read    *)
(* as q.                                                                   *)
TailIs(o, p, q, e) ==
  /\ p \in Nat /\ p >= 2 /\ p <= Len(o) /\ o[p - 1] = 101 /\ o[p] = SignCode(e)
  /\ \A k \in p + 1..Len(o) : o[k] \in 48..57
  /\ \E size \in Nat : p + size = Len(o) /\ Reading(o, p, size, q)

(* k and the digits in s are the exponent; its sign is printed.            *)
BufferingExponent(w, e, dec, skip, o, k, s) ==
  /\ e # 0
  /\ \E p : p = Len(o) /\ Significand(w, e, dec, skip, o, p - 2)
            /\ TailIs(o, p, 0, e)
  /\ \E v : Valued(s, v) /\ SizeOf(e) = k * R!TenTo[Len(s)] + v

(* So are some of its digits, and s has the others.                        *)
PrintingExponent(w, e, dec, skip, o, s) ==
  /\ e # 0
  /\ \E p \in Nat, q \in Nat :
       /\ Significand(w, e, dec, skip, o, p - 2) /\ TailIs(o, p, q, e)
       /\ \E v : Valued(s, v) /\ SizeOf(e) = q * R!TenTo[Len(s)] + v

(* o is what w is printed as.                                              *)
AllPrinted(w, e, dec, skip, o) ==
  IF e = 0 THEN Significand(w, e, dec, skip, o, Len(o))
  ELSE \E p : /\ Significand(w, e, dec, skip, o, p - 2)
              /\ TailIs(o, p, SizeOf(e), e)

(* The letter and the sign.                                                *)
LEMMA ExponentBegins ==
  ASSUME NEW w, NEW e \in Int, NEW dec \in Nat, NEW skip \in Skips,
         NEW o \in Seq(32..126), e # 0,
         Significand(w, e, dec, skip, o, Len(o)),
         NEW t, t = o \o <<101, SignCode(e)>>,
         NEW k, k = SizeOf(e), NEW s, s = <<>>
  PROVE  BufferingExponent(w, e, dec, skip, t, k, s)
<1>1. PICK l \in Nat : l = Len(o)
  BY LenProperties
<1>2. PICK c \in 32..126 : c = SignCode(e)
  <2>1. 45 \in 32..126 /\ 43 \in 32..126
    OBVIOUS
  <2> QED
    BY <2>1 DEF SignCode
<1>3. PICK u \in Seq(32..126) : /\ u = <<101, c>> /\ Len(u) = 2
                                /\ u[1] = 101 /\ u[2] = c
  <2>1. /\ <<101, c>> \in Seq(32..126) /\ Len(<<101, c>>) = 2
        /\ <<101, c>>[1] = 101 /\ <<101, c>>[2] = c
    OBVIOUS
  <2> QED
    BY <2>1
<1>4. /\ t \in Seq(32..126) /\ Len(t) = l + 2
      /\ \A m \in 1..l + 2 : t[m] = IF m <= l THEN o[m] ELSE u[m - l]
  <2>1. /\ o \o u \in Seq(32..126) /\ Len(o \o u) = Len(o) + Len(u)
        /\ \A m \in 1..Len(o) + Len(u) :
             (o \o u)[m] = IF m <= Len(o) THEN o[m] ELSE u[m - Len(o)]
    BY <1>3, ConcatProperties
  <2> QED
    BY <1>1, <1>2, <1>3, <2>1
<1>5. /\ l + 1 \in 1..l + 2 /\ l + 2 \in 1..l + 2
      /\ (l + 1) - l = 1 /\ (l + 2) - l = 2
      /\ ~ (l + 1 <= l) /\ ~ (l + 2 <= l)
      /\ \A m \in 1..l : m \in 1..l + 2 /\ m <= l
  OBVIOUS
<1>6. t[l + 1] = 101 /\ t[l + 2] = c
  <2>1. t[l + 1] = u[(l + 1) - l] /\ t[l + 2] = u[(l + 2) - l]
    BY <1>4, <1>5
  <2> QED
    BY <1>3, <1>5, <2>1
<1>14. \A m \in 1..l : t[m] = o[m]
  BY <1>4, <1>5
<1>7. Significand(w, e, dec, skip, t, l)
  <2>1. Significand(w, e, dec, skip, o, l)
    BY <1>1
  <2>2. Len(t) \in Nat /\ l <= Len(t)
    BY <1>4
  <2> QED
    BY <1>14, <2>1, <2>2, SignificandKept
<1>8. PICK p \in Nat : p = l + 2 /\ p - 2 = l /\ p - 1 = l + 1
  <2>1. l + 2 \in Nat /\ (l + 2) - 2 = l /\ (l + 2) - 1 = l + 1
    OBVIOUS
  <2> QED
    BY <2>1
<1>9. TailIs(t, p, 0, e)
  <2>1. Reading(t, p, 0, 0)
    BY ReadingNone
  <2>2. 0 \in Nat /\ p + 0 = Len(t)
    BY <1>4, <1>8
  <2>3. p >= 2 /\ p <= Len(t) /\ \A m \in p + 1..Len(t) : FALSE
    BY <1>4, <1>8
  <2>4. t[p - 1] = 101 /\ t[p] = SignCode(e)
    BY <1>2, <1>6, <1>8
  <2> QED
    BY <2>1, <2>2, <2>3, <2>4 DEF TailIs
<1>10. Valued(s, 0) /\ k * R!TenTo[Len(s)] + 0 = k
  <2>1. Len(s) = 0
    OBVIOUS
  <2>2. k \in Nat
    BY DEF SizeOf
  <2>3. R!TenTo[Len(s)] = 1
    BY <2>1, TenToFact
  <2> QED
    BY <2>1, <2>2, <2>3, ValuedEmpty
<1>11. p = Len(t)
  BY <1>4, <1>8
<1>12. SizeOf(e) = k * R!TenTo[Len(s)] + 0
  BY <1>10
<1>13. Significand(w, e, dec, skip, t, p - 2)
  BY <1>7, <1>8
<1> QED
  BY <1>9, <1>10, <1>11, <1>12, <1>13 DEF BufferingExponent

(* A digit of it goes into the buffer.                                     *)
LEMMA ExponentDigit ==
  ASSUME NEW w, NEW e \in Int, NEW dec, NEW skip, NEW o, NEW k \in Nat,
         NEW s \in Seq(48..57), BufferingExponent(w, e, dec, skip, o, k, s)
  PROVE  BufferingExponent(w, e, dec, skip, o, k \div 10,
                           Append(s, 48 + (k % 10)))
<1>1. PICK l \in Nat : l = Len(s)
  BY LenProperties
<1>2. PICK q \in Nat, c \in 48..57 :
        q = k \div 10 /\ c = 48 + (k % 10) /\ k = 10 * q + (c - 48)
  <2>1. /\ k \div 10 \in Nat /\ 48 + (k % 10) \in 48..57
        /\ k = 10 * (k \div 10) + ((48 + (k % 10)) - 48)
    OBVIOUS
  <2> QED
    BY <2>1
<1>3. PICK u : u = Append(s, c)
  OBVIOUS
<1>4. u \in Seq(48..57) /\ Len(u) = l + 1
  BY <1>1, <1>3, AppendProperties
<1>5. PICK a \in Nat : a = R!TenTo[l] /\ R!TenTo[l + 1] = 10 * a
  BY TenToFact, TenToNat
<1>6. PICK v : Valued(s, v) /\ SizeOf(e) = k * a + v
  BY <1>1, <1>5 DEF BufferingExponent
<1>7. v \in Nat
  BY <1>1, <1>6 DEF Valued, Adds
<1>8. Valued(u, v + (c - 48) * a)
  BY <1>1, <1>3, <1>5, <1>6, ValuedAppend
<1>9. q * (10 * a) + (v + (c - 48) * a) = k * a + v
  <2>1. PICK m \in Nat : m = c - 48
    OBVIOUS
  <2>2. (10 * q + m) * a = q * (10 * a) + m * a
    OBVIOUS
  <2>3. k * a = (10 * q + m) * a
    BY <1>2, <2>1
  <2>4. q * (10 * a) \in Nat /\ m * a \in Nat
    OBVIOUS
  <2> QED
    BY <1>7, <2>1, <2>2, <2>3, <2>4
<1>10. SizeOf(e) = q * R!TenTo[Len(u)] + (v + (c - 48) * a)
  BY <1>4, <1>5, <1>6, <1>9
<1>11. BufferingExponent(w, e, dec, skip, o, q, u)
  BY <1>8, <1>10 DEF BufferingExponent
<1> QED
  BY <1>2, <1>3, <1>11

(* All of them are there.                                                  *)
LEMMA ExponentPrints ==
  ASSUME NEW w, NEW e, NEW dec, NEW skip, NEW o, NEW s,
         BufferingExponent(w, e, dec, skip, o, 0, s)
  PROVE  PrintingExponent(w, e, dec, skip, o, s)
<1>1. 0 \in Nat
  OBVIOUS
<1> QED
  BY <1>1 DEF BufferingExponent, PrintingExponent

(* The significand, and as much of the exponent as reads as q.             *)
Parts(w, e, dec, skip, o, q) ==
  \E p \in Nat : Significand(w, e, dec, skip, o, p - 2) /\ TailIs(o, p, q, e)

(* A digit more of the exponent.                                           *)
LEMMA PartsDigit ==
  ASSUME NEW w, NEW e \in Int, NEW dec \in Nat, NEW skip \in Skips,
         NEW o \in Seq(32..126), NEW q, Parts(w, e, dec, skip, o, q),
         NEW c \in 48..57, NEW t, t = o \o <<c>>
  PROVE  Parts(w, e, dec, skip, t, q * 10 + (c - 48))
<1>1. PICK p \in Nat : /\ Significand(w, e, dec, skip, o, p - 2)
                       /\ TailIs(o, p, q, e)
  BY DEF Parts
<1>2. PICK z \in Nat : z = Len(o)
  BY LenProperties
<1>3. <<c>> \in Seq(32..126) /\ Len(<<c>>) = 1 /\ <<c>>[1] = c
  OBVIOUS
<1>4. /\ t \in Seq(32..126) /\ Len(t) = z + 1 /\ t[z + 1] = c
      /\ \A k \in 1..z : t[k] = o[k]
  BY <1>2, <1>3, ConcatProperties
<1>5. TailIs(t, p, q * 10 + (c - 48), e) /\ p <= z
  <2>1. PICK size \in Nat : p + size = z /\ Reading(o, p, size, q)
    BY <1>1, <1>2 DEF TailIs
  <2>2. /\ p >= 2 /\ p <= z /\ o[p - 1] = 101 /\ o[p] = SignCode(e)
        /\ \A k \in p + 1..z : o[k] \in 48..57
    BY <1>1, <1>2 DEF TailIs
  <2>3. Reading(t, p, size, q)
    <3>1. \A k \in 1..size : p + k \in 1..z
      BY <2>1, <2>2
    <3>2. \A k \in 1..size : t[p + k] = o[p + k]
      BY <1>4, <3>1
    <3> QED
      BY <2>1, <3>2, ReadingSame
  <2>4. Reading(t, p, size + 1, DigitAdded(q, c))
    <3>1. Reading(t, p, size + 1, DigitAdded(q, t[p + (size + 1)]))
      BY <2>3, ReadingNext
    <3>2. p + (size + 1) = z + 1
      BY <2>1, <2>2
    <3> QED
      BY <1>4, <3>1, <3>2
  <2>5. DigitAdded(q, c) = q * 10 + (c - 48)
    BY DEF DigitAdded
  <2>6. size + 1 \in Nat /\ p + (size + 1) = Len(t) /\ p <= Len(t)
    BY <1>4, <2>1, <2>2
  <2>7. ASSUME NEW k \in p + 1..Len(t) PROVE t[k] \in 48..57
    <3>1. k = z + 1 \/ (k \in p + 1..z /\ k \in 1..z)
      BY <1>4, <2>2
    <3> QED
      BY <1>4, <2>2, <3>1
  <2>8. t[p - 1] = 101 /\ t[p] = SignCode(e)
    <3>1. p \in 1..z /\ p - 1 \in 1..z
      BY <2>2
    <3> QED
      BY <1>4, <2>2, <3>1
  <2> QED
    BY <2>2, <2>4, <2>5, <2>6, <2>7, <2>8 DEF TailIs
<1>6. Significand(w, e, dec, skip, t, p - 2)
  <2>1. PICK m \in Int : m = p - 2
    OBVIOUS
  <2>2. Significand(w, e, dec, skip, o, m)
    BY <1>1, <2>1
  <2>3. Len(t) \in Nat /\ m <= Len(t)
    BY <1>4, <1>5, <2>1
  <2>4. \A k \in 1..m : k \in 1..z
    BY <1>5, <2>1
  <2>5. \A k \in 1..m : t[k] = o[k]
    BY <1>4, <2>4
  <2>6. Significand(w, e, dec, skip, t, m)
    BY <2>2, <2>3, <2>5, SignificandKept
  <2> QED
    BY <2>1, <2>6
<1> QED
  BY <1>5, <1>6 DEF Parts

(* t is o with the last character of s behind it.                          *)
Extends(t, o, s) == t = o \o <<R!Last(s)>>

(* A digit of the exponent is shown.                                       *)
LEMMA ExponentShows ==
  ASSUME NEW w, NEW e \in Int, NEW dec \in Nat, NEW skip \in Skips,
         NEW o \in Seq(32..126), NEW s \in Seq(48..57), Len(s) # 0,
         PrintingExponent(w, e, dec, skip, o, s),
         NEW t, Extends(t, o, s), NEW u, u = R!Unprinted(s)
  PROVE  PrintingExponent(w, e, dec, skip, t, u)
<1>1. PICK l \in Nat : l + 1 = Len(s) /\ l = Len(s) - 1
  <2>1. Len(s) \in Nat /\ Len(s) # 0
    BY LenProperties, EmptySeq
  <2>2. Len(s) - 1 \in Nat /\ (Len(s) - 1) + 1 = Len(s)
    BY <2>1
  <2> QED
    BY <2>2
<1>2. PICK c \in 48..57 : c = R!Last(s) /\ c = s[l + 1]
  <2>1. Len(s) \in 1..Len(s)
    BY <1>1
  <2>2. R!Last(s) = s[Len(s)]
    BY DEF R!Last
  <2> QED
    BY <1>1, <2>1, <2>2, ElementOfSeq
<1>0. PICK p \in Nat, q \in Nat :
        /\ Significand(w, e, dec, skip, o, p - 2) /\ TailIs(o, p, q, e)
        /\ \E v : Valued(s, v) /\ SizeOf(e) = q * R!TenTo[l + 1] + v
  BY <1>1 DEF PrintingExponent
<1>3. PICK v : Valued(s, v) /\ SizeOf(e) = q * R!TenTo[l + 1] + v
  BY <1>0
<1>4. /\ u \in Seq(48..57) /\ Len(u) = l
      /\ \E x \in Nat : /\ Valued(u, x)
                        /\ v = x + (s[Len(s)] - 48) * R!TenTo[Len(s) - 1]
  <2>1. Len(s) # 0
    BY <1>1
  <2>2. Valued(s, v)
    BY <1>3
  <2>3. /\ u \in Seq(48..57) /\ Len(u) = Len(s) - 1
        /\ \A k \in 1..Len(s) - 1 : u[k] = s[k]
        /\ \E x \in Nat : /\ Valued(u, x)
                          /\ v = x + (s[Len(s)] - 48) * R!TenTo[Len(s) - 1]
    BY <2>1, <2>2, ValuedFront
  <2> QED
    BY <1>1, <2>3
<1>5. PICK x \in Nat : Valued(u, x) /\ v = x + (c - 48) * R!TenTo[l]
  BY <1>1, <1>2, <1>4
<1>6. t = o \o <<c>>
  BY <1>2 DEF Extends
<1>7. Parts(w, e, dec, skip, o, q)
  BY <1>0 DEF Parts
<1>8. Parts(w, e, dec, skip, t, q * 10 + (c - 48))
  BY <1>6, <1>7, PartsDigit
<1>9. PICK y \in Nat : y = q * 10 + (c - 48)
  <2>1. q * 10 + (c - 48) \in Nat
    OBVIOUS
  <2> QED
    BY <2>1
<1>10. Parts(w, e, dec, skip, t, y)
  BY <1>8, <1>9
<1>12. SizeOf(e) = y * R!TenTo[Len(u)] + x
  <2>1. PICK d \in Nat : d = c - 48
    OBVIOUS
  <2>2. PICK a \in Nat : a = R!TenTo[l] /\ R!TenTo[l + 1] = 10 * a
    BY TenToFact, TenToNat
  <2>3. (q * 10 + d) * a = q * (10 * a) + d * a
    OBVIOUS
  <2>4. q * (10 * a) \in Nat /\ d * a \in Nat
    OBVIOUS
  <2>5. (q * 10 + d) * a + x = q * (10 * a) + (x + d * a)
    BY <2>3, <2>4
  <2>6. v = x + d * a /\ y = q * 10 + d
    BY <1>5, <1>9, <2>1, <2>2
  <2>7. SizeOf(e) = q * (10 * a) + v
    BY <1>3, <2>2
  <2>8. R!TenTo[Len(u)] = a
    BY <1>4, <2>2
  <2> QED
    BY <2>5, <2>6, <2>7, <2>8
<1> QED
  BY <1>0, <1>5, <1>10, <1>12 DEF PrintingExponent, Parts

(* Once all of it is, everything is.                                       *)
LEMMA ExponentEnds ==
  ASSUME NEW w, NEW e \in Int, NEW dec, NEW skip, NEW o, NEW s, s = <<>>,
         PrintingExponent(w, e, dec, skip, o, s)
  PROVE  AllPrinted(w, e, dec, skip, o)
<1>1. Len(s) = 0
  OBVIOUS
<1>2. PICK p \in Nat, q \in Nat :
        /\ Significand(w, e, dec, skip, o, p - 2) /\ TailIs(o, p, q, e)
        /\ \E v : Valued(s, v) /\ SizeOf(e) = q * R!TenTo[0] + v
  BY <1>1 DEF PrintingExponent
<1>3. SizeOf(e) = q * R!TenTo[0] + 0
  BY <1>1, <1>2 DEF Valued, Adds
<1>4. SizeOf(e) = q
  <2>1. R!TenTo[0] = 1
    BY TenToFact
  <2> QED
    BY <1>3, <2>1
<1> QED
  BY <1>2, <1>4 DEF PrintingExponent, AllPrinted

(* Where the letter e and the point are.                                   *)
LEMMA WhereFound ==
  ASSUME out \in Seq(32..126), NEW w, NEW e \in Int, NEW dec \in Nat,
         NEW skip \in Skips, AllPrinted(w, e, dec, skip, out)
  PROVE  \E l \in Nat :
           /\ Significand(w, e, dec, skip, out, l)
           /\ e = 0 => l = Len(out) /\ R!Find(101) = {}
           /\ e # 0 => TailIs(out, l + 2, SizeOf(e), e) /\ R!Find(101) = {l + 1}
           /\ R!Find(46) = IF dec > 0 THEN {l - dec} ELSE {}
<1>1. PICK z \in Nat : z = Len(out) /\ DOMAIN out = 1..z
  BY LenProperties
<1>2. PICK l \in Nat :
        /\ Significand(w, e, dec, skip, out, l)
        /\ e = 0 => l = z
        /\ e # 0 => \E p \in Nat : l = p - 2 /\ TailIs(out, p, SizeOf(e), e)
  <2>1. CASE e = 0
    BY <1>1, <2>1 DEF AllPrinted
  <2>2. CASE e # 0
    <3>1. PICK p : /\ Significand(w, e, dec, skip, out, p - 2)
                   /\ TailIs(out, p, SizeOf(e), e)
      BY <2>2 DEF AllPrinted
    <3>2. p \in Nat /\ p - 2 \in Nat
      BY <3>1 DEF TailIs
    <3> QED
      BY <2>2, <3>1, <3>2
  <2> QED
    BY <2>1, <2>2
<1>3. /\ l \in Nat /\ skip \in Nat /\ skip < l /\ l <= z
      /\ \A k \in skip + 1..l : out[k] \in 48..57 \/ out[k] = 46
      /\ \A k \in 1..l : out[k] = 46 <=> 0 < dec /\ k = l - dec
      /\ 0 < dec => l - dec > skip + 1
      /\ skip = 1 => out[1] = 45
  <2>1. LaidOut(out, l, 0, skip, dec, e)
    BY <1>2 DEF Significand
  <2>2. /\ l \in Nat /\ skip <= l /\ l <= z
        /\ \A k \in skip + 1..l : out[k] \in 48..57 \/ out[k] = 46
        /\ 0 < dec => l - dec > skip + 1
        /\ l = skip => 0 > dec
        /\ skip = 1 => out[1] = 45
    BY <1>1, <2>1 DEF LaidOut
  <2>3. \A k \in 1..l : out[k] = 46 <=> 0 < dec /\ k = l - (dec - 0)
    BY <2>1 DEF LaidOut
  <2>4. skip \in Nat /\ dec - 0 = dec /\ ~ (0 > dec)
    BY DEF Skips
  <2>5. skip < l
    BY <2>2, <2>4
  <2> QED
    BY <2>2, <2>3, <2>4, <2>5
<1>4. \A k \in 1..l : out[k] # 101
  <2>1. ASSUME NEW k \in 1..l PROVE out[k] # 101
    <3>1. CASE k \in skip + 1..l
      <4>1. out[k] \in 48..57 \/ out[k] = 46
        BY <1>3, <3>1
      <4> QED
        BY <4>1
    <3>2. CASE k \notin skip + 1..l
      <4>1. skip = 1 /\ k = 1
        BY <1>3, <3>2 DEF Skips
      <4> QED
        BY <1>3, <4>1
    <3> QED
      BY <3>1, <3>2
  <2> QED
    BY <2>1
<1>5. CASE e = 0
  <2>1. l = z
    BY <1>2, <1>5
  <2>2. R!Find(101) = {}
    BY <1>1, <1>4, <2>1 DEF R!Find
  <2>3. R!Find(46) = IF dec > 0 THEN {l - dec} ELSE {}
    <3>1. dec > 0 => l - dec \in 1..l
      BY <1>3
    <3> QED
      BY <1>1, <1>3, <2>1, <3>1 DEF R!Find
  <2> QED
    BY <1>1, <1>2, <1>3, <1>5, <2>1, <2>2, <2>3
<1>6. CASE e # 0
  <2>1. PICK p \in Nat : l = p - 2 /\ TailIs(out, p, SizeOf(e), e)
    BY <1>2, <1>6
  <2>2. p = l + 2 /\ p - 1 = l + 1
    BY <1>3, <2>1
  <2>3. TailIs(out, l + 2, SizeOf(e), e)
    BY <2>1, <2>2
  <2>4. /\ l + 2 <= z /\ out[l + 1] = 101 /\ out[l + 2] \in {45, 43}
        /\ \A k \in l + 3..z : out[k] \in 48..57
    <3>1. /\ p <= z /\ out[p - 1] = 101 /\ out[p] = SignCode(e)
          /\ \A k \in p + 1..z : out[k] \in 48..57
      BY <1>1, <2>1 DEF TailIs
    <3>2. p + 1 = l + 3
      BY <2>2
    <3> QED
      BY <2>2, <3>1, <3>2 DEF SignCode
  <2>5. \A k \in 1..z : k \in 1..l \/ k = l + 1 \/ k = l + 2 \/ k \in l + 3..z
    BY <1>3
  <2>6. /\ l + 1 \in 1..z /\ l + 1 \notin 1..l /\ l + 2 \notin 1..l
        /\ \A k \in l + 3..z : k \notin 1..l
        /\ \A k \in 1..l : k \in 1..z /\ k # l + 1
    BY <1>3, <2>4
  <2>7. R!Find(101) = {l + 1}
    <3>1. ASSUME NEW k \in 1..z PROVE out[k] = 101 <=> k = l + 1
      <4>1. CASE k \in 1..l
        BY <1>4, <2>6, <4>1
      <4>2. CASE k = l + 1
        BY <2>4, <4>2
      <4>3. CASE k = l + 2
        BY <2>4, <4>3
      <4>4. CASE k \in l + 3..z
        <5>1. out[k] \in 48..57
          BY <2>4, <4>4
        <5>2. k # l + 1
          BY <4>4
        <5> QED
          BY <5>1, <5>2
      <4> QED
        BY <2>5, <4>1, <4>2, <4>3, <4>4
    <3> QED
      BY <1>1, <2>6, <3>1 DEF R!Find
  <2>8. R!Find(46) = IF dec > 0 THEN {l - dec} ELSE {}
    <3>1. ASSUME NEW k \in 1..z, out[k] = 46 PROVE k \in 1..l
      <4>1. k # l + 1 /\ k # l + 2
        BY <2>4, <3>1
      <4>2. ASSUME k \in l + 3..z PROVE FALSE
        <5>1. out[k] \in 48..57
          BY <2>4, <4>2
        <5> QED
          BY <3>1, <5>1
      <4> QED
        BY <2>5, <4>1, <4>2
    <3>2. dec > 0 => l - dec \in 1..l
      BY <1>3
    <3>3. \A k \in 1..z : out[k] = 46 <=> 0 < dec /\ k = l - dec
      BY <1>3, <2>6, <3>1, <3>2
    <3>4. dec > 0 => l - dec \in 1..z
      BY <2>6, <3>2
    <3> QED
      BY <1>1, <3>3, <3>4 DEF R!Find
  <2> QED
    BY <1>2, <1>3, <1>6, <2>3, <2>7, <2>8
<1> QED
  BY <1>5, <1>6

(* The number that is shown has the digits of the significand, in the      *)
(* unit of the last of them.                                               *)
LEMMA ShownFact ==
  ASSUME out \in Seq(32..126), NEW w, NEW e \in Int, NEW dec \in Nat,
         NEW skip \in Skips, NEW l \in Nat,
         Significand(w, e, dec, skip, out, l),
         e = 0 => l = Len(out) /\ R!Find(101) = {},
         e # 0 => TailIs(out, l + 2, SizeOf(e), e) /\ R!Find(101) = {l + 1},
         R!Find(46) = IF dec > 0 THEN {l - dec} ELSE {}
  PROVE  /\ R!Shown.x = e - dec /\ R!Shown.m \in Nat
         /\ Fits(w, e - dec, R!Shown.m)
<1>1. PICK z \in Nat : z = Len(out)
  BY LenProperties
<1>2. PICK r : Reading(out, 0, l, r) /\ Fits(w, e - dec, r)
  BY DEF Significand
<1>3. R!ReadDigits(1, l) = r /\ r \in Nat
  <2>1. 0 \in Nat /\ 0 + 1 = 1 /\ 0 + l = l
    OBVIOUS
  <2>2. R!ReadDigits(0 + 1, 0 + l) = r
    BY <1>2, <2>1, ReadingFact
  <2>3. r \in Nat
    BY <1>2, ReadingSame
  <2> QED
    BY <2>1, <2>2, <2>3
<1> DEFINE at == CHOOSE k \in R!Find(101) \cup {Len(out) + 1} :
                   R!Find(101) = {} \/ k \in R!Find(101)
           point == IF R!Find(46) = {} THEN at - 1
                    ELSE CHOOSE k \in R!Find(46) : TRUE
           power == IF at > Len(out) THEN 0
                    ELSE IF out[at + 1] = 45
                         THEN -R!ReadDigits(at + 2, Len(out))
                    ELSE R!ReadDigits(at + 2, Len(out))
<1>4. R!Shown = [m |-> R!ReadDigits(1, at - 1),
                 x |-> power - (at - 1 - point)]
  BY DEF R!Shown
<1>5. at = l + 1
  <2>1. CASE e = 0
    <3>1. R!Find(101) = {} /\ Len(out) + 1 = l + 1
      BY <2>1
    <3>2. \A k : k \in R!Find(101) \cup {Len(out) + 1} <=> k = l + 1
      BY <3>1
    <3> QED
      BY <3>1, <3>2
  <2>2. CASE e # 0
    <3>1. R!Find(101) = {l + 1}
      BY <2>2
    <3>2. \A k : k \in R!Find(101) <=> k = l + 1
      BY <3>1
    <3> QED
      BY <3>2
  <2> QED
    BY <2>1, <2>2
<1> HIDE DEF at
<1>6. at - 1 = l /\ at + 1 = l + 2 /\ at + 2 = (l + 2) + 1
  BY <1>5
<1>7. point = l - dec
  <2>1. CASE dec > 0
    <3>1. R!Find(46) = {l - dec}
      BY <2>1
    <3>2. R!Find(46) # {} /\ \A k : k \in R!Find(46) <=> k = l - dec
      BY <3>1
    <3> QED
      BY <3>2
  <2>2. CASE ~ (dec > 0)
    <3>1. R!Find(46) = {} /\ dec = 0
      BY <2>2
    <3> QED
      BY <1>6, <3>1
  <2> QED
    BY <2>1, <2>2
<1> HIDE DEF point
<1>8. power = e
  <2>1. CASE e = 0
    <3>1. at > Len(out)
      BY <1>1, <1>5, <2>1
    <3> QED
      BY <2>1, <3>1
  <2>2. CASE e # 0
    <3>1. TailIs(out, l + 2, SizeOf(e), e)
      BY <2>2
    <3>2. PICK p \in Nat : p = l + 2
      OBVIOUS
    <3>3. TailIs(out, p, SizeOf(e), e)
      BY <3>1, <3>2
    <3>4. PICK size \in Nat : /\ p + size = z
                              /\ Reading(out, p, size, SizeOf(e))
      BY <1>1, <3>3 DEF TailIs
    <3>5. R!ReadDigits(p + 1, p + size) = SizeOf(e)
      BY <3>4, ReadingFact
    <3>6. R!ReadDigits(at + 2, Len(out)) = SizeOf(e)
      BY <1>1, <1>6, <3>2, <3>4, <3>5
    <3>7. out[at + 1] = SignCode(e) /\ ~ (at > Len(out))
      <4>1. p <= z /\ out[p] = SignCode(e)
        BY <1>1, <3>3 DEF TailIs
      <4> QED
        BY <1>1, <1>5, <1>6, <3>2, <4>1
    <3>8. SizeOf(e) = IF e < 0 THEN -e ELSE e
      BY DEF SizeOf
    <3>9. SignCode(e) = IF e < 0 THEN 45 ELSE 43
      BY DEF SignCode
    <3>10. CASE e < 0
      <4>1. power = -SizeOf(e)
        BY <3>6, <3>7, <3>9, <3>10
      <4>2. SizeOf(e) = -e /\ -(-e) = e
        BY <3>8, <3>10
      <4> QED
        BY <4>1, <4>2
    <3>11. CASE ~ (e < 0)
      <4>1. power = SizeOf(e)
        BY <3>6, <3>7, <3>9, <3>11
      <4> QED
        BY <3>8, <3>11, <4>1
    <3> QED
      BY <3>10, <3>11
  <2> QED
    BY <2>1, <2>2
<1> HIDE DEF power
<1>9. R!Shown.m = r /\ R!Shown.x = power - (at - 1 - point)
  BY <1>3, <1>4, <1>6
<1>10. power - (at - 1 - point) = e - dec
  BY <1>5, <1>7, <1>8
<1> QED
  BY <1>2, <1>3, <1>9, <1>10

(* The sign is there for numbers below zero.                               *)
FloatSkip == IF input.negative THEN 1 ELSE 0

(* What is printed reads as the number ...                                 *)
LEMMA PrintedReadsBack ==
  ASSUME out \in Seq(32..126), Printable(value),
         NEW e \in Int, NEW dec \in Nat, input.negative \in BOOLEAN,
         AllPrinted(value, e, dec, FloatSkip, out)
  PROVE  R!ReadsBack
<1> DEFINE w == value
<1>1. FloatSkip \in Skips
  BY DEF FloatSkip, Skips
<1>2. PICK l \in Nat :
        /\ Significand(w, e, dec, FloatSkip, out, l)
        /\ e = 0 => l = Len(out) /\ R!Find(101) = {}
        /\ e # 0 => TailIs(out, l + 2, SizeOf(e), e) /\ R!Find(101) = {l + 1}
        /\ R!Find(46) = IF dec > 0 THEN {l - dec} ELSE {}
  BY <1>1, WhereFound
<1>3. /\ R!Shown.x = e - dec /\ R!Shown.m \in Nat
      /\ Fits(w, e - dec, R!Shown.m)
  BY <1>1, <1>2, ShownFact
<1>4. (out[1] = 45) = input.negative
  <2>1. LaidOut(out, l, 0, FloatSkip, dec, e)
    BY <1>2 DEF Significand
  <2>2. CASE input.negative
    <3>1. FloatSkip = 1
      BY <2>2 DEF FloatSkip
    <3>2. out[1] = 45
      BY <2>1, <3>1 DEF LaidOut
    <3> QED
      BY <2>2, <3>2
  <2>3. CASE ~ input.negative
    <3>1. FloatSkip = 0
      BY <2>3 DEF FloatSkip
    <3>2. 0 <= l /\ (l = 0 => 0 > dec)
      BY <2>1, <3>1 DEF LaidOut
    <3>3. 1 \in 0 + 1..l
      BY <3>2
    <3>4. out[1] \in 48..57 \/ out[1] = 46
      BY <2>1, <3>1, <3>3 DEF LaidOut
    <3>5. out[1] # 45
      BY <3>4
    <3> QED
      BY <2>3, <3>5
  <2> QED
    BY <2>2, <2>3
<1>5. PICK x \in Int : x = R!Shown.x
  BY <1>3
<1>6. PICK k \in Nat : k = R!Shown.m
  BY <1>3
<1>7. Fits(w, x, k)
  BY <1>3, <1>5, <1>6
<1>8. PICK y : y = IF x < w.x THEN x ELSE w.x
  OBVIOUS
<1>9. PICK d : d = k * R!TenTo[x - y] - w.m * R!TenTo[w.x - y]
  OBVIOUS
<1>10. /\ d \in Int
       /\ UnitOf(w) <= y => d = 0
       /\ ~ (UnitOf(w) <= y) => /\ 2 * d <= R!TenTo[UnitOf(w) - y]
                                /\ 0 <= 2 * d + R!TenTo[UnitOf(w) - y]
  BY <1>7, <1>8, <1>9, FitsReadsBack
<1>11. R!LeastX = y /\ R!Unit = UnitOf(w)
  BY <1>5, <1>8 DEF R!LeastX, R!Unit, UnitOf
<1>12. R!Error = IF d < 0 THEN -d ELSE d
  BY <1>5, <1>6, <1>9, <1>11 DEF R!Error
<1>13. R!Unit <= R!LeastX => R!Error = 0
  BY <1>10, <1>11, <1>12
<1>14. ASSUME ~ (R!Unit <= R!LeastX)
       PROVE  2 * R!Error <= R!TenTo[R!Unit - R!LeastX]
  <2>1. UnitOf(w) - y \in Nat
    <3>1. UnitOf(w) \in Int /\ y \in Int
      BY <1>8, PrintableFact
    <3> QED
      BY <1>11, <1>14, <3>1
  <2>2. PICK t \in Nat : t = R!TenTo[UnitOf(w) - y]
    BY <2>1, TenToNat
  <2>3. 2 * d <= t /\ 0 <= 2 * d + t
    BY <1>10, <1>11, <1>14, <2>2
  <2>4. 2 * (IF d < 0 THEN -d ELSE d) <= t
    BY <1>10, <2>3
  <2> QED
    BY <1>11, <1>12, <2>2, <2>4
<1> QED
  BY <1>4, <1>13, <1>14 DEF R!ReadsBack

(* ... and has no digits that are not due.                                 *)
LEMMA PrintedCanonical ==
  ASSUME out \in Seq(32..126), Printable(value),
         NEW e \in Int, NEW dec \in Nat,
         AllPrinted(value, e, dec, FloatSkip, out)
  PROVE  R!Canonical
<1> DEFINE w == value
           first == IF input.negative THEN 2 ELSE 1
           last == IF R!Find(101) = {} THEN Len(out)
                   ELSE (CHOOSE k \in R!Find(101) : TRUE) - 1
<1>1. FloatSkip \in Skips /\ first = FloatSkip + 1
  BY DEF FloatSkip, Skips
<1>2. PICK l \in Nat :
        /\ Significand(w, e, dec, FloatSkip, out, l)
        /\ e = 0 => l = Len(out) /\ R!Find(101) = {}
        /\ e # 0 => TailIs(out, l + 2, SizeOf(e), e) /\ R!Find(101) = {l + 1}
        /\ R!Find(46) = IF dec > 0 THEN {l - dec} ELSE {}
  BY <1>1, WhereFound
<1>3. R!Shown.m \in Nat /\ Fits(w, e - dec, R!Shown.m)
  BY <1>1, <1>2, ShownFact
<1>4. R!Shown.m < R!max_scaled
  BY <1>3, DigitConstants DEF Fits
<1>5. last = l
  <2>1. CASE e = 0
    BY <1>2, <2>1
  <2>2. CASE e # 0
    <3>1. R!Find(101) = {l + 1}
      BY <1>2, <2>2
    <3>2. R!Find(101) # {} /\ \A k : k \in R!Find(101) <=> k = l + 1
      BY <3>1
    <3>3. (CHOOSE k \in R!Find(101) : TRUE) = l + 1
      BY <3>2
    <3> QED
      BY <3>2, <3>3
  <2> QED
    BY <2>1, <2>2
<1> HIDE DEF first, last
<1>6. LaidOut(out, l, 0, FloatSkip, dec, e)
  BY <1>2 DEF Significand
<1>7. PICK skip \in Nat : skip = FloatSkip /\ first = skip + 1
  BY <1>1 DEF Skips
<1>8. /\ skip < l /\ (0 < dec => l - dec > skip + 1)
      /\ out[skip + 1] = 46 <=> 0 < dec /\ skip + 1 = l - dec
  <2>1. /\ skip <= l /\ (l = skip => 0 > dec)
        /\ 0 < dec => l - (dec - 0) > skip + 1
    BY <1>6, <1>7 DEF LaidOut
  <2>2. \A k \in 1..l : out[k] = 46 <=> 0 < dec /\ k = l - (dec - 0)
    BY <1>6 DEF LaidOut
  <2>3. skip < l /\ skip + 1 \in 1..l /\ dec - 0 = dec
    BY <2>1
  <2> QED
    BY <2>1, <2>2, <2>3
<1>9. R!Find(46) # {} => out[last] # 48 /\ out[first] # 46
  <2>1. SUFFICES ASSUME dec > 0 PROVE out[last] # 48 /\ out[first] # 46
    BY <1>2
  <2>2. out[l] # 48
    BY <1>2, <2>1 DEF Significand
  <2>3. out[skip + 1] # 46
    BY <1>8, <2>1
  <2> QED
    BY <1>5, <1>7, <2>2, <2>3
<1>10. ASSUME R!Find(101) # {}
       PROVE  /\ R!Find(46) = IF first = last THEN {} ELSE {first + 1}
              /\ out[first] # 48
  <2>1. e # 0
    BY <1>2, <1>10
  <2>2. /\ l + 0 = skip + dec + 1 + (IF 0 < dec THEN 1 ELSE 0)
        /\ l > skip => out[skip + 1] # 48
    BY <1>6, <1>7, <2>1 DEF LaidOut
  <2>3. out[first] # 48
    BY <1>7, <1>8, <2>2
  <2>4. CASE dec > 0
    <3>1. l - dec = first + 1 /\ first # last
      BY <1>5, <1>7, <2>2, <2>4
    <3> QED
      BY <1>2, <2>3, <2>4, <3>1
  <2>5. CASE ~ (dec > 0)
    <3>1. first = last
      BY <1>5, <1>7, <2>2, <2>5
    <3> QED
      BY <1>2, <2>3, <2>5, <3>1
  <2> QED
    BY <2>4, <2>5
<1> QED
  BY <1>4, <1>9, <1>10 DEF R!Canonical, first, last

-----------------------------------------------------------------------------
(* Printing of floats: the value in each phase                             *)

(* The invariant: what is left of the number in each of the phases.        *)
TheNumber == input.negative \in BOOLEAN /\ Printable(value)

Unscaled == /\ number.m = value.m /\ n_int = 0
            /\ number.x + factor + exponent = value.x

Filled ==
  \E k \in Nat :
    /\ n_int = k * R!TenTo[factor] /\ SplitInto(value, k, number)
    /\ Power(value) >= 1
    /\ \/ Power(value) + factor <= sig_digits
       \/ /\ factor = 0 /\ Power(value) = sig_digits + 1
          /\ IsTenTo(value)

Rounding == RoundsTo(value, exponent, R!Rounded(number) + n_int)
Trimmed == Trimming(value, exponent, decimals, n)
Buffered == BufferingDigits(value, exponent, decimals, n, buf)
Showing ==
  PrintingSignificand(value, exponent, decimals, FloatSkip, out, buf)
BufferedExponent ==
  BufferingExponent(value, exponent, decimals, FloatSkip, out, n, buf)
ShowingExponent ==
  PrintingExponent(value, exponent, decimals, FloatSkip, out, buf)
Shows == AllPrinted(value, exponent, decimals, FloatSkip, out)

OnlySign == out = SignOf(FloatSkip)

FloatValueInv ==
  input.kind = "number" =>
    /\ TheNumber
    /\ pc = "call" => out = <<>>
    /\ pc \in {"up_by_10", "up", "down_by_10", "down", "split", "fill",
               "round", "trim", "buffer"} => OnlySign
    /\ pc \in {"call", "up_by_10", "up", "down_by_10", "down", "split"} =>
         Unscaled
    /\ pc = "fill" => Filled
    /\ pc = "round" => Rounding
    /\ pc = "trim" => Trimmed
    /\ pc = "buffer" => Buffered
    /\ pc = "print" => Showing
    /\ pc = "buffer_exponent" => BufferedExponent
    /\ pc = "print_exponent" => ShowingExponent
    /\ pc = "done" => Shows

(* What it says after a step, of the variables after it.                   *)
LEMMA TheNumberNext ==
  ASSUME TheNumber, UNCHANGED <<input, value>>
  PROVE  TheNumber'
BY DEF TheNumber, Printable, ScaledNumber, Nine, R!TenTo

(* Also if a rounding has changed it to another that can be printed.       *)
LEMMA RoundedNumberNext ==
  ASSUME TheNumber, UNCHANGED input, Printable(value')
  PROVE  TheNumber'
BY DEF TheNumber, Printable, ScaledNumber, Nine, R!TenTo

(* Nothing but the sign is printed yet.                                    *)
LEMMA OnlySignNext ==
  ASSUME UNCHANGED input, out' = SignOf(FloatSkip)
  PROVE  OnlySign'
BY DEF OnlySign, SignOf, FloatSkip

(* The exponents of what is left of the number and of what is printed add  *)
(* up to that of the number.                                               *)
LEMMA UnscaledNext ==
  ASSUME number'.m = value'.m, n_int' = 0,
         number'.x + factor' + exponent' = value'.x
  PROVE  Unscaled'
BY DEF Unscaled

(* The integer part is filled up with zeros, and the rest of the number is *)
(* what is left.                                                           *)
LEMMA FilledNext ==
  ASSUME UNCHANGED <<input, value>>, NEW k \in Nat,
         n_int' = k * R!TenTo[factor'], SplitInto(value, k, number'),
         Power(value) >= 1,
         \/ Power(value) + factor' <= sig_digits
         \/ /\ factor' = 0 /\ Power(value) = sig_digits + 1
            /\ IsTenTo(value)
  PROVE  Filled'
<1>1. SplitInto(value, k, number)' = SplitInto(value', k, number')
  BY DEF SplitInto, ScaledNumber, R!TenTo
<1>2. Power(value)' = Power(value')
  BY DEF Power, R!Digits, R!TenTo
<1>3. IsTenTo(value)' = IsTenTo(value')
  BY DEF IsTenTo, R!Digits, R!TenTo
<1>4. R!TenTo[factor]' = R!TenTo[factor']
  BY DEF R!TenTo
<1> QED
  BY <1>1, <1>2, <1>3, <1>4 DEF Filled

(* What n and the number are rounded to is the digits to print.            *)
LEMMA RoundingNext ==
  ASSUME RoundsTo(value', exponent', R!Rounded(number') + n_int')
  PROVE  Rounding'
<1>1. (R!Rounded(number) + n_int)' = R!Rounded(number') + n_int'
  BY DEF R!Rounded, R!Truncated, R!Twice, R!Tie, R!Below, R!Digits, R!TenTo
<1>2. RoundsTo(value, exponent, R!Rounded(number) + n_int)'
        = RoundsTo(value', exponent', (R!Rounded(number) + n_int)')
  BY DEF RoundsTo, UnitOf, Close, HalfOff, IsTenTo, R!max_scaled, R!Digits,
     R!TenTo
<1> QED
  BY <1>1, <1>2 DEF Rounding

(* n is the digits to print, the decimals among them counted.              *)
LEMMA TrimmedNext ==
  ASSUME UNCHANGED <<input, value>>, Trimming(value, exponent', decimals', n')
  PROVE  Trimmed'
<1>1. Trimming(value, exponent, decimals, n)'
        = Trimming(value', exponent', decimals', n')
  BY DEF Trimming, Fits, UnitOf, Close, HalfOff, R!max_scaled, R!Digits,
     R!TenTo
<1> QED
  BY <1>1 DEF Trimmed

(* n and buf together are these digits.                                    *)
LEMMA BufferedNext ==
  ASSUME UNCHANGED <<input, value>>,
         BufferingDigits(value, exponent', decimals', n', buf')
  PROVE  Buffered'
<1>1. BufferingDigits(value, exponent, decimals, n, buf)'
        = BufferingDigits(value', exponent', decimals', n', buf')
  BY DEF BufferingDigits, Valued, Adds, Fits, UnitOf, Close, HalfOff,
     R!max_scaled, R!Digits, R!TenTo
<1> QED
  BY <1>1 DEF Buffered

(* So are out and buf.                                                     *)
LEMMA ShowingNext ==
  ASSUME UNCHANGED <<input, value>>,
         PrintingSignificand(value, exponent', decimals', FloatSkip,
                             out', buf')
  PROVE  Showing'
<1>1. FloatSkip' = FloatSkip
  BY DEF FloatSkip
<1>2. PrintingSignificand(value, exponent, decimals, FloatSkip, out, buf)'
        = PrintingSignificand(value', exponent', decimals', FloatSkip',
                              out', buf')
  BY DEF PrintingSignificand, LaidOut, Reading, Passes, DigitAdded, Valued,
     Adds, Fits, UnitOf, Close, HalfOff, R!max_scaled, R!Digits, R!TenTo
<1> QED
  BY <1>1, <1>2 DEF Showing

(* The digits are printed; n and buf together are those of the exponent.   *)
LEMMA BufferedExponentNext ==
  ASSUME UNCHANGED <<input, value>>,
         BufferingExponent(value, exponent', decimals', FloatSkip, out',
                           n', buf')
  PROVE  BufferedExponent'
<1>1. FloatSkip' = FloatSkip
  BY DEF FloatSkip
<1>2. BufferingExponent(value, exponent, decimals, FloatSkip, out, n,
                        buf)'
        = BufferingExponent(value', exponent', decimals', FloatSkip',
                            out', n', buf')
  BY DEF BufferingExponent, Significand, TailIs, SizeOf, SignCode, LaidOut,
     Reading, Passes, DigitAdded, Valued, Adds, Fits, UnitOf, Close, HalfOff,
     R!max_scaled, R!Digits, R!TenTo
<1> QED
  BY <1>1, <1>2 DEF BufferedExponent

(* So are out and buf.                                                     *)
LEMMA ShowingExponentNext ==
  ASSUME UNCHANGED <<input, value>>,
         PrintingExponent(value, exponent', decimals', FloatSkip, out',
                          buf')
  PROVE  ShowingExponent'
<1>1. FloatSkip' = FloatSkip
  BY DEF FloatSkip
<1>2. PrintingExponent(value, exponent, decimals, FloatSkip, out, buf)'
        = PrintingExponent(value', exponent', decimals', FloatSkip',
                           out', buf')
  BY DEF PrintingExponent, Significand, TailIs, SizeOf, SignCode, LaidOut,
     Reading, Passes, DigitAdded, Valued, Adds, Fits, UnitOf, Close, HalfOff,
     R!max_scaled, R!Digits, R!TenTo
<1> QED
  BY <1>1, <1>2 DEF ShowingExponent

(* All is printed.                                                         *)
LEMMA ShowsNext ==
  ASSUME UNCHANGED <<input, value>>,
         AllPrinted(value, exponent', decimals', FloatSkip, out')
  PROVE  Shows'
<1>1. FloatSkip' = FloatSkip
  BY DEF FloatSkip
<1>2. AllPrinted(value, exponent, decimals, FloatSkip, out)'
        = AllPrinted(value', exponent', decimals', FloatSkip', out')
  BY DEF AllPrinted, Significand, TailIs, SizeOf, SignCode, LaidOut, Reading,
     Passes, DigitAdded, Fits, UnitOf, Close, HalfOff, R!max_scaled,
     R!Digits, R!TenTo
<1> QED
  BY <1>1, <1>2 DEF Shows

(* It holds at the beginning.                                              *)
LEMMA FloatValueInit == R!Init => FloatValueInv
<1> SUFFICES ASSUME R!Init, input.kind = "number" PROVE FloatValueInv
  BY DEF FloatValueInv
<1>1. number \in PrintedFloats /\ value = number
  BY DEF R!Init
<1>2. /\ factor = 0 /\ n_int = 0 /\ exponent = 0 /\ out = <<>> /\ pc = "call"
  BY DEF R!Init
<1>3. input.negative \in BOOLEAN
  <2>1. input \in [kind : {"number"}, negative : BOOLEAN, value : {number}]
                  \cup [kind : {"inf"}, negative : BOOLEAN]
                  \cup [kind : {"nan", "zero"}, negative : {FALSE}]
    BY DEF R!Init
  <2>2. input \in [kind : {"number"}, negative : BOOLEAN, value : {number}]
    BY <2>1
  <2> QED
    BY <2>2
<1>4. number \in ScaledNumber /\ Nine(number.m) /\ number.m > 0
  BY <1>1, DigitConstants
<1>6. TheNumber
  BY <1>1, <1>3, <1>4 DEF TheNumber, Printable
<1>7. Unscaled
  <2>1. number.x + 0 + 0 = number.x
    BY <1>4 DEF ScaledNumber
  <2> QED
    BY <1>1, <1>2, <2>1 DEF Unscaled
<1> QED
  BY <1>2, <1>6, <1>7 DEF FloatValueInv

(* The sign is printed, and the number is scaled up, down or not at all.   *)
LEMMA FloatValueStart ==
  PrintFloatInv /\ FloatValueInv /\ R!Start => FloatValueInv'
<1> SUFFICES ASSUME FloatValueInv, R!Start, input'.kind = "number"
             PROVE  FloatValueInv'
  BY DEF FloatValueInv
<1>1. /\ pc = "call"
      /\ UNCHANGED <<input, value, number, factor, n_int, n, exponent>>
      /\ UNCHANGED <<decimals, buf>>
  BY DEF R!Start
<1>2. TheNumber /\ Unscaled
  BY <1>1 DEF FloatValueInv
<1>3. /\ out' = IF input.negative THEN <<45>> ELSE <<>>
      /\ pc' \in {"up_by_10", "down_by_10", "split"}
  BY <1>1 DEF R!Start, R!To
<1>4. OnlySign'
  <2>1. out' = SignOf(FloatSkip)
    BY <1>3 DEF SignOf, FloatSkip
  <2> QED
    BY <1>1, <2>1, OnlySignNext
<1>5. Unscaled' /\ TheNumber'
  BY <1>1, <1>2, TheNumberNext DEF Unscaled
<1> QED
  BY <1>3, <1>4, <1>5 DEF FloatValueInv

(* The number that a rounded product is, scaled.                           *)
LEMMA Rescaled ==
  ASSUME Printable(value), NEW w \in ScaledNumber, Nine(w.m), w.m > 0,
         number.m = value.m, number' = w,
         value' = [value EXCEPT !.m = value.m + number'.m - number.m]
  PROVE  Printable(value') /\ value'.m = w.m /\ value'.x = value.x
<1>1. PICK m \in Nat, l \in Nat : m = value.m /\ l = w.m
  BY DEF Printable, ScaledNumber
<1>2. m + l - m = l
  OBVIOUS
<1>3. value' = [value EXCEPT !.m = l]
  BY <1>1, <1>2
<1> QED
  BY <1>1, <1>3 DEF Printable, ScaledNumber

(* A number scaled enough rounds to its digits.                            *)
LEMMA ScaledEnough ==
  ASSUME NEW w \in ScaledNumber, Nine(w.m),
         ~ R!Below(w, sig_digits - 1), ~ R!Above(w, sig_digits),
         number' = w, Printable(value'), value'.m = w.m,
         exponent \in Int, w.x + exponent = value'.x, n_int = 0,
         UNCHANGED <<exponent, n_int>>
  PROVE  Rounding'
<1>1. PICK z : z = value'
  OBVIOUS
<1>2. Printable(z) /\ z.m = w.m /\ w.x + exponent = z.x
  BY <1>1
<1>3. \/ Power(w) = sig_digits
      \/ Power(w) = sig_digits + 1 /\ IsTenTo(z)
  <2>1. \/ Power(w) = sig_digits
        \/ Power(w) = sig_digits + 1 /\ w.m = R!TenTo[R!Digits(w.m) - 1]
    BY ScaledToPower
  <2> QED
    BY <1>2, <2>1 DEF IsTenTo
<1>4. RoundsTo(z, exponent, R!Rounded(w))
  BY <1>2, <1>3, ScaledRounds
<1>5. R!Rounded(w) + 0 = R!Rounded(w)
  BY RoundedNat
<1>6. RoundsTo(value', exponent', R!Rounded(number') + n_int')
  BY <1>1, <1>4, <1>5
<1> QED
  BY <1>6, RoundingNext

(* Scaling up ...                                                          *)
LEMMA FloatValueMultiply ==
  PrintFloatInv /\ FloatValueInv /\ R!Multiply => FloatValueInv'
<1> SUFFICES ASSUME PrintFloatInv, FloatValueInv, R!Multiply,
                    input'.kind = "number"
             PROVE  FloatValueInv'
  BY DEF FloatValueInv
<1>1. /\ pc \in {"up_by_10", "up"}
      /\ UNCHANGED <<input, n_int, n, decimals, buf, out>>
  BY DEF R!Multiply
<1>2. TheNumber /\ Unscaled /\ OnlySign
  BY <1>1 DEF FloatValueInv
<1>3. /\ number \in ScaledNumber /\ factor \in Int /\ exponent \in Int
      /\ Nine(number.m) /\ number.m > 0 /\ number.x \in Int
      /\ ~ R!Above(R!Scaled(number, factor), sig_digits)
      /\ Printable(value) /\ value.x \in Int
      /\ pc = "up_by_10" => factor = 0
  BY <1>1, <1>2, PrintableFact
  DEF PrintFloatInv, FloatVariables, ScalingUp, Given, ScaledNumber,
      TheNumber
<1>4. PICK off \in Nat : off = R!Off(input.value)
  <2>1. Nine(input.value.m)
    BY <1>1 DEF PrintFloatInv, ScalingUp
  <2> QED
    BY <2>1, OffFact, NineShort
<1>5. /\ number.m = value.m /\ n_int = 0
      /\ number.x + factor + exponent = value.x
  BY <1>2 DEF Unscaled
<1>6. OnlySign'
  <2>1. out' = SignOf(FloatSkip) /\ input' = input
    BY <1>1, <1>2 DEF OnlySign
  <2> QED
    BY <2>1, OnlySignNext
<1>7. CASE /\ number' \in R!Products(number, R!BigStep, R!Off(input.value))
           /\ value' = [value EXCEPT !.m = value.m + number'.m - number.m]
           /\ exponent' = exponent - R!BigStep
           /\ UNCHANGED <<factor, pc>>
  <2>1. R!BigStep = 10 /\ 10 \in Int
    BY DEF R!BigStep
  <2>2. PICK w \in R!Products(number, 10, off) : w = number'
    BY <1>4, <1>7, <2>1
  <2>3. /\ w \in ScaledNumber /\ Nine(w.m) /\ w.m > 0
        /\ w.x = number.x + 10
    BY <1>3, <2>1, ProductFact
  <2>4. Printable(value') /\ value'.m = w.m /\ value'.x = value.x
    BY <1>3, <1>5, <1>7, <2>2, <2>3, Rescaled
  <2>5. number'.x + factor' + exponent' = value'.x
    <3>1. number'.x = number.x + 10 /\ exponent' = exponent - 10
      BY <1>7, <2>1, <2>2, <2>3
    <3> QED
      BY <1>3, <1>5, <1>7, <2>4, <3>1
  <2>6. Unscaled' /\ TheNumber'
    BY <1>1, <1>2, <1>5, <2>2, <2>4, <2>5, UnscaledNext, RoundedNumberNext
  <2> QED
    BY <1>1, <1>6, <1>7, <2>6 DEF FloatValueInv
<1>8. CASE pc' = "up" /\ UNCHANGED <<value, number, factor, exponent>>
  <2>1. Unscaled' /\ TheNumber'
    BY <1>1, <1>2, <1>5, <1>8, TheNumberNext DEF Unscaled
  <2> QED
    BY <1>6, <1>8, <2>1 DEF FloatValueInv
<1>9. CASE /\ factor' = factor + 1 /\ exponent' = exponent - 1
           /\ UNCHANGED <<value, number, pc>>
  <2>1. number'.x + factor' + exponent' = value'.x
    BY <1>3, <1>5, <1>9
  <2>2. Unscaled' /\ TheNumber'
    BY <1>1, <1>2, <1>5, <1>9, <2>1, UnscaledNext, TheNumberNext
  <2> QED
    BY <1>1, <1>6, <1>9, <2>2 DEF FloatValueInv
<1>10. CASE /\ number' \in R!Products(number, factor, R!Off(input.value))
            /\ value' = [value EXCEPT !.m = value.m + number'.m - number.m]
            /\ ~ R!Below(number', sig_digits - 1)
            /\ pc' = "round" /\ UNCHANGED <<factor, exponent>>
  <2>1. PICK w \in R!Products(number, factor, off) : w = number'
    BY <1>4, <1>10
  <2>2. /\ w \in ScaledNumber /\ Nine(w.m) /\ w.m > 0
        /\ w.x = number.x + factor
        /\ R!Above(w, sig_digits)
             => R!Above(R!Scaled(number, factor), sig_digits)
    BY <1>3, ProductFact
  <2>3. ~ R!Below(w, sig_digits - 1) /\ ~ R!Above(w, sig_digits)
    BY <1>3, <1>10, <2>1, <2>2
  <2>4. Printable(value') /\ value'.m = w.m /\ value'.x = value.x
    BY <1>3, <1>5, <1>10, <2>1, <2>2, Rescaled
  <2>5. w.x + exponent = value'.x
    BY <1>3, <1>5, <2>2, <2>4
  <2>6. Rounding'
    BY <1>1, <1>3, <1>5, <1>10, <2>1, <2>2, <2>3, <2>4, <2>5, ScaledEnough
  <2>7. TheNumber'
    BY <1>1, <1>2, <2>4, RoundedNumberNext
  <2> QED
    BY <1>6, <1>10, <2>6, <2>7 DEF FloatValueInv
<1> QED
  BY <1>7, <1>8, <1>9, <1>10 DEF R!Multiply, R!Rescale, R!To

(* ... and down.                                                           *)
LEMMA FloatValueDivide ==
  PrintFloatInv /\ FloatValueInv /\ R!Divide => FloatValueInv'
<1> SUFFICES ASSUME PrintFloatInv, FloatValueInv, R!Divide,
                    input'.kind = "number"
             PROVE  FloatValueInv'
  BY DEF FloatValueInv
<1>1. /\ pc \in {"down_by_10", "down"}
      /\ UNCHANGED <<input, n_int, n, decimals, buf, out>>
  BY DEF R!Divide
<1>2. TheNumber /\ Unscaled /\ OnlySign
  BY <1>1 DEF FloatValueInv
<1>3. /\ number \in ScaledNumber /\ factor \in Int /\ exponent \in Int
      /\ Nine(number.m) /\ number.m > 0 /\ number.x \in Int
      /\ ~ R!Below(R!Scaled(number, factor), sig_digits - 1)
      /\ Printable(value) /\ value.x \in Int
      /\ pc = "down_by_10" => factor = 0
  BY <1>1, <1>2, PrintableFact
  DEF PrintFloatInv, FloatVariables, ScalingDown, Given, ScaledNumber,
      TheNumber
<1>4. PICK off \in Nat : off = R!Off(input.value)
  <2>1. Nine(input.value.m)
    BY <1>1 DEF PrintFloatInv, ScalingDown
  <2> QED
    BY <2>1, OffFact, NineShort
<1>5. /\ number.m = value.m /\ n_int = 0
      /\ number.x + factor + exponent = value.x
  BY <1>2 DEF Unscaled
<1>6. OnlySign'
  <2>1. out' = SignOf(FloatSkip) /\ input' = input
    BY <1>1, <1>2 DEF OnlySign
  <2> QED
    BY <2>1, OnlySignNext
<1>7. CASE /\ number' \in R!Products(number, -R!BigStep, R!Off(input.value))
           /\ value' = [value EXCEPT !.m = value.m + number'.m - number.m]
           /\ exponent' = exponent + R!BigStep
           /\ UNCHANGED <<factor, pc>>
  <2>1. R!BigStep = 10 /\ -10 \in Int
    BY DEF R!BigStep
  <2>2. PICK w \in R!Products(number, -10, off) : w = number'
    BY <1>4, <1>7, <2>1
  <2>3. /\ w \in ScaledNumber /\ Nine(w.m) /\ w.m > 0
        /\ w.x = number.x + -10
    BY <1>3, <2>1, ProductFact
  <2>4. Printable(value') /\ value'.m = w.m /\ value'.x = value.x
    BY <1>3, <1>5, <1>7, <2>2, <2>3, Rescaled
  <2>5. number'.x + factor' + exponent' = value'.x
    <3>1. number'.x = number.x + -10 /\ exponent' = exponent + 10
      BY <1>7, <2>1, <2>2, <2>3
    <3> QED
      BY <1>3, <1>5, <1>7, <2>4, <3>1
  <2>6. Unscaled' /\ TheNumber'
    BY <1>1, <1>2, <1>5, <2>2, <2>4, <2>5, UnscaledNext, RoundedNumberNext
  <2> QED
    BY <1>1, <1>6, <1>7, <2>6 DEF FloatValueInv
<1>8. CASE pc' = "down" /\ UNCHANGED <<value, number, factor, exponent>>
  <2>1. Unscaled' /\ TheNumber'
    BY <1>1, <1>2, <1>5, <1>8, TheNumberNext DEF Unscaled
  <2> QED
    BY <1>6, <1>8, <2>1 DEF FloatValueInv
<1>9. CASE /\ factor' = factor - 1 /\ exponent' = exponent + 1
           /\ UNCHANGED <<value, number, pc>>
  <2>1. number'.x + factor' + exponent' = value'.x
    BY <1>3, <1>5, <1>9
  <2>2. Unscaled' /\ TheNumber'
    BY <1>1, <1>2, <1>5, <1>9, <2>1, UnscaledNext, TheNumberNext
  <2> QED
    BY <1>1, <1>6, <1>9, <2>2 DEF FloatValueInv
<1>10. CASE /\ number' \in R!Products(number, factor, R!Off(input.value))
            /\ value' = [value EXCEPT !.m = value.m + number'.m - number.m]
            /\ ~ R!Above(number', sig_digits)
            /\ pc' = "round" /\ UNCHANGED <<factor, exponent>>
  <2>1. PICK w \in R!Products(number, factor, off) : w = number'
    BY <1>4, <1>10
  <2>2. /\ w \in ScaledNumber /\ Nine(w.m) /\ w.m > 0
        /\ w.x = number.x + factor
        /\ R!Below(w, sig_digits - 1)
             => R!Below(R!Scaled(number, factor), sig_digits - 1)
    BY <1>3, ProductFact
  <2>3. ~ R!Below(w, sig_digits - 1) /\ ~ R!Above(w, sig_digits)
    BY <1>3, <1>10, <2>1, <2>2
  <2>4. Printable(value') /\ value'.m = w.m /\ value'.x = value.x
    BY <1>3, <1>5, <1>10, <2>1, <2>2, Rescaled
  <2>5. w.x + exponent = value'.x
    BY <1>3, <1>5, <2>2, <2>4
  <2>6. Rounding'
    BY <1>1, <1>3, <1>5, <1>10, <2>1, <2>2, <2>3, <2>4, <2>5, ScaledEnough
  <2>7. TheNumber'
    BY <1>1, <1>2, <2>4, RoundedNumberNext
  <2> QED
    BY <1>6, <1>10, <2>6, <2>7 DEF FloatValueInv
<1> QED
  BY <1>7, <1>8, <1>9, <1>10 DEF R!Divide, R!Rescale, R!To

(* What z has left above k is t, after a product with 10^f that rounded    *)
(* what w had left.                                                        *)
RoundedSplit(w, k, f, z, t) ==
  /\ Printable(z) /\ SplitInto(z, k, t) /\ Power(z) = Power(w)
  /\ f = 0 => z = w

(* Rounding what is left of a number leaves its integer part as it is.     *)
LEMMA SplitProduct ==
  ASSUME NEW w, Printable(w), Power(w) >= 1, NEW k \in Nat, NEW f \in Nat,
         NEW rest, SplitInto(w, k, rest),
         NEW u \in R!Products(rest, f, R!Off(rest)),
         R!Below(rest, 0) => R!Below(u, f),
         NEW z, z = [w EXCEPT !.m = w.m + u.m - rest.m]
  PROVE  \E t \in ScaledNumber :
           u = R!Scaled(t, f) /\ RoundedSplit(w, k, f, z, t)
<1>1. /\ rest \in ScaledNumber /\ rest.x = w.x /\ f \in Int
      /\ w \in ScaledNumber
  BY DEF SplitInto, Printable
<1>2. PICK m \in Nat, r \in Nat : m = w.m /\ r = rest.m
  BY <1>1 DEF ScaledNumber
<1>3. w.x \in Int
  BY <1>1 DEF ScaledNumber
<1>4. R!Off(rest) \in Nat
  BY <1>2, OffFact
<1>5. /\ u \in ScaledNumber /\ u.x = rest.x + f
      /\ Nine(rest.m) => Nine(u.m)
      /\ f = 0 => u.m = rest.m
  BY <1>1, <1>4, ProductFact
<1>6. PICK l \in Nat : l = u.m
  BY <1>5 DEF ScaledNumber
<1>7. PICK t : t = [m |-> l, x |-> w.x]
  OBVIOUS
<1>8. t \in ScaledNumber /\ t.m = l /\ t.x = w.x
  BY <1>3, <1>7 DEF ScaledNumber
<1>9. u = R!Scaled(t, f)
  <2>1. u.m = l /\ u.x = w.x + f
    BY <1>1, <1>5, <1>6
  <2> QED
    BY <1>5, <1>7, <2>1 DEF R!Scaled, ScaledNumber
<1>10. ASSUME l = r PROVE RoundedSplit(w, k, f, z, t)
  <2>1. t = rest
    BY <1>1, <1>2, <1>7, <1>10 DEF ScaledNumber
  <2>2. w.m + u.m - rest.m = w.m
    BY <1>2, <1>6, <1>10
  <2>3. z = w
    BY <1>1, <2>2 DEF ScaledNumber
  <2> QED
    BY <2>1, <2>3 DEF RoundedSplit
<1>11. CASE f = 0
  BY <1>2, <1>5, <1>6, <1>8, <1>9, <1>10, <1>11
<1>12. CASE r = 0
  <2>1. R!Off(rest) = 0
    <3>1. PICK q \in Nat : q = FloatPrecision /\ q > 0
      BY DigitConstants
    <3>2. 0 = q * 0 + 0 /\ 0 \in 0..q - 1 /\ 0 \in Int
      BY <3>1
    <3>3. 0 \div q = 0
      BY <3>1, <3>2, DivModUnique
    <3> QED
      BY <1>2, <1>12, <3>1, <3>3 DEF R!Off
  <2>2. u.m = 0
    <3>1. PICK off \in Nat : off = R!Off(rest) /\ off = 0
      BY <1>4, <2>1
    <3>2. u \in R!Products(rest, f, off) /\ rest.m = 0
      BY <1>2, <1>12, <3>1
    <3> QED
      BY <1>1, <3>1, <3>2, ProductFact
  <2> QED
    BY <1>6, <1>8, <1>9, <1>10, <1>12, <2>2
<1>13. CASE f # 0 /\ r # 0
  <2>1. w.x < 0
    BY <1>2, <1>3, <1>13 DEF SplitInto
  <2>2. PICK y \in Nat : y = -w.x /\ y >= 1
    <3>1. -w.x \in Nat /\ -w.x >= 1
      BY <1>3, <2>1
    <3> QED
      BY <3>1
  <2>3. PICK a \in Nat : a = R!TenTo[y]
    BY TenToNat
  <2>4. r < a /\ m = a * k + r
    BY <1>2, <1>3, <2>1, <2>2, <2>3 DEF SplitInto
  <2>5. Nine(rest.m)
    <3>1. r <= m
      <4>1. a * k \in Nat
        OBVIOUS
      <4> QED
        BY <2>4, <4>1
    <3>2. PICK c \in Nat : c = R!TenTo[9]
      BY TenToNat
    <3>3. m < c
      BY <1>2, <3>2 DEF Printable, Nine
    <3>4. r < c
      BY <3>1, <3>3
    <3> QED
      BY <1>2, <3>2, <3>4 DEF Nine
  <2>6. R!Digits(rest.m) \in Int /\ R!Digits(u.m) \in Int
    <3>1. Short(rest.m) /\ Short(u.m)
      BY <1>5, <2>5, NineShort
    <3> QED
      BY <3>1, DigitsFact
  <2>7. R!Digits(rest.m) <= y
    BY <1>1, <1>2, <2>2, <2>3, <2>4, <2>5, BelowFact
  <2>8. R!Below(rest, 0)
    BY <1>1, <1>3, <2>2, <2>6, <2>7 DEF R!Below
  <2>9. R!Digits(u.m) + (w.x + f) <= f
    BY <1>1, <1>5, <2>8 DEF R!Below
  <2>10. R!Digits(u.m) <= y
    BY <1>3, <2>2, <2>6, <2>9
  <2>11. u.m < R!TenTo[y]
    BY <1>5, <2>5, <2>10, BelowFact
  <2>12. /\ t.m < R!TenTo[-w.x]
         /\ z = [w EXCEPT !.m = w.m + t.m - rest.m]
    BY <1>6, <1>8, <2>2, <2>11
  <2>13. Printable(z) /\ SplitInto(z, k, t) /\ Power(z) = Power(w)
    BY <1>8, <2>1, <2>12, SplitMoves
  <2> QED
    BY <1>8, <1>9, <1>13, <2>13 DEF RoundedSplit
<1> QED
  BY <1>11, <1>12, <1>13

(* Splitting off the integer part, and filling it up.                      *)
LEMMA FloatValueSplit ==
  PrintFloatInv /\ FloatValueInv /\ R!Split => FloatValueInv'
<1> SUFFICES ASSUME PrintFloatInv, FloatValueInv, R!Split,
                    input'.kind = "number"
             PROVE  FloatValueInv'
  BY DEF FloatValueInv
<1>1. pc \in {"split", "fill"} /\ UNCHANGED <<input, n, decimals, buf, out>>
  BY DEF R!Split
<1>2. TheNumber /\ OnlySign
  BY <1>1 DEF FloatValueInv
<1>3. OnlySign'
  <2>1. out' = SignOf(FloatSkip) /\ input' = input
    BY <1>1, <1>2 DEF OnlySign
  <2> QED
    BY <2>1, OnlySignNext
<1>4. PICK w : w = value
  OBVIOUS
<1>5. Printable(w) /\ w \in ScaledNumber /\ Power(w) \in Int
  <2>1. Printable(w)
    BY <1>2, <1>4 DEF TheNumber
  <2> QED
    BY <2>1, PrintableFact DEF Printable, Power
<1>6. /\ sig_digits \in Nat /\ sig_digits >= 2 /\ sig_digits - 1 \in Nat
      /\ R!min_scaled = R!TenTo[sig_digits - 1]
  BY DigitConstants
<1>7. CASE /\ pc = "split"
           /\ n_int' = R!Truncated(number) /\ number' = R!Fraction(number)
           /\ pc' = "fill" /\ UNCHANGED <<value, factor, exponent>>
  <2>1. /\ factor = 0 /\ exponent = 0 /\ number \in ScaledNumber
        /\ Power(number) >= 1 /\ ~ R!Above(number, sig_digits)
        /\ Short(number.m)
    BY <1>7, NineShort DEF PrintFloatInv, FloatVariables, AtSplit, Given
  <2>2. number = w
    <3>1. Unscaled
      BY <1>1, <1>7 DEF FloatValueInv
    <3>2. number.m = w.m /\ number.x + 0 + 0 = w.x
      BY <1>4, <2>1, <3>1 DEF Unscaled
    <3>3. number.x = w.x
      BY <2>1, <3>2 DEF ScaledNumber
    <3> QED
      BY <1>5, <2>1, <3>2, <3>3 DEF ScaledNumber
  <2>3. PICK k \in Nat : k = n_int' /\ SplitInto(w, k, number')
    BY <1>5, <1>7, <2>2, SplitFact
  <2>4. n_int' = k * R!TenTo[factor']
    BY <1>7, <2>1, <2>3, TenToFact
  <2>5. \/ Power(w) + factor' <= sig_digits
        \/ factor' = 0 /\ Power(w) = sig_digits + 1 /\ IsTenTo(w)
    <3>1. \/ Power(w) <= sig_digits
          \/ Power(w) = sig_digits + 1 /\ w.m = R!TenTo[R!Digits(w.m) - 1]
      BY <1>6, <2>1, <2>2, PowerFact
    <3>2. factor' = 0 /\ Power(w) + 0 = Power(w)
      BY <1>5, <1>7, <2>1
    <3> QED
      BY <3>1, <3>2 DEF IsTenTo
  <2>6. Filled'
    BY <1>1, <1>4, <1>7, <2>1, <2>2, <2>3, <2>4, <2>5, FilledNext
  <2>7. TheNumber'
    BY <1>1, <1>2, <1>7, TheNumberNext
  <2> QED
    BY <1>3, <1>7, <2>6, <2>7 DEF FloatValueInv
<1>8. ASSUME pc = "fill"
      PROVE  /\ factor \in Nat /\ exponent \in Int /\ exponent + factor = 0
             /\ \E k \in Nat :
                  /\ n_int = k * R!TenTo[factor] /\ SplitInto(w, k, number)
                  /\ Power(w) >= 1
                  /\ \/ Power(w) + factor <= sig_digits
                     \/ factor = 0 /\ Power(w) = sig_digits + 1 /\ IsTenTo(w)
                  /\ Power(w) - 1 + factor \in Nat /\ Power(w) + factor \in Nat
                  /\ R!TenTo[Power(w) - 1 + factor] <= n_int
                  /\ n_int < R!TenTo[Power(w) + factor]
  <2>1. factor \in 0..sig_digits - 1 /\ exponent + factor = 0
    BY <1>8 DEF PrintFloatInv, Filling
  <2>2. exponent \in Int
    BY DEF PrintFloatInv, FloatVariables
  <2>3. factor \in Nat
    BY <2>1
  <2>4. Filled
    BY <1>1, <1>8 DEF FloatValueInv
  <2>5. PICK k \in Nat :
          /\ n_int = k * R!TenTo[factor] /\ SplitInto(w, k, number)
          /\ Power(w) >= 1
          /\ \/ Power(w) + factor <= sig_digits
             \/ factor = 0 /\ Power(w) = sig_digits + 1 /\ IsTenTo(w)
    BY <1>4, <2>4 DEF Filled
  <2>6. PICK f \in Nat : f = factor
    BY <2>3
  <2>7. /\ Power(w) - 1 + f \in Nat /\ Power(w) + f \in Nat
        /\ R!TenTo[Power(w) - 1 + f] <= k * R!TenTo[f]
        /\ k * R!TenTo[f] < R!TenTo[Power(w) + f]
    BY <1>5, <2>5, FilledRange
  <2> QED
    BY <2>1, <2>2, <2>3, <2>5, <2>6, <2>7
<1>9. CASE /\ pc = "fill" /\ n_int < R!min_scaled
           /\ n_int' = n_int * 10
           /\ factor' = factor + 1 /\ exponent' = exponent - 1
           /\ UNCHANGED <<value, number, pc>>
  <2>1. /\ factor \in Nat /\ exponent \in Int /\ exponent + factor = 0
    BY <1>8, <1>9
  <2>2. PICK k \in Nat :
          /\ n_int = k * R!TenTo[factor] /\ SplitInto(w, k, number)
          /\ Power(w) >= 1
          /\ Power(w) - 1 + factor \in Nat
          /\ R!TenTo[Power(w) - 1 + factor] <= n_int
    BY <1>8, <1>9
  <2>3. Power(w) + (factor + 1) <= sig_digits
    <3>1. PICK a \in Nat : a = Power(w) - 1 + factor
      BY <2>2
    <3>2. PICK b \in Nat : b = sig_digits - 1
      BY <1>6
    <3>3. R!TenTo[a] \in Nat /\ R!TenTo[b] \in Nat /\ n_int \in Nat
      <4>1. R!TenTo[factor] \in Nat
        BY <2>1, TenToNat
      <4> QED
        BY <2>2, <4>1, TenToNat
    <3>4. R!TenTo[a] <= n_int /\ n_int < R!TenTo[b]
      BY <1>6, <1>9, <2>2, <3>1, <3>2
    <3>5. R!TenTo[a] < R!TenTo[b]
      BY <3>3, <3>4
    <3>6. a < b
      BY <3>5, TenToOrder
    <3> QED
      BY <1>5, <1>6, <2>1, <3>1, <3>2, <3>6
  <2>4. n_int' = k * R!TenTo[factor']
    <3>1. PICK t \in Nat : t = R!TenTo[factor] /\ R!TenTo[factor + 1] = 10 * t
      BY <2>1, TenToFact, TenToNat
    <3>2. (k * t) * 10 = k * (10 * t)
      OBVIOUS
    <3> QED
      BY <1>9, <2>2, <3>1, <3>2
  <2>5. SplitInto(w, k, number')
    BY <1>9, <2>2
  <2>6. Power(w) + factor' <= sig_digits
    BY <1>9, <2>3
  <2>7. Filled'
    BY <1>1, <1>4, <1>9, <2>2, <2>4, <2>5, <2>6, FilledNext
  <2>8. TheNumber'
    BY <1>1, <1>2, <1>9, TheNumberNext
  <2> QED
    BY <1>3, <1>9, <2>7, <2>8 DEF FloatValueInv
<1>10. CASE /\ pc = "fill" /\ n_int >= R!min_scaled
            /\ number' \in R!Products(number, factor, R!Off(number))
            /\ value' = [value EXCEPT !.m = value.m + number'.m - number.m]
            /\ R!Below(number, 0) => R!Below(number', factor)
            /\ pc' = "round" /\ UNCHANGED <<factor, n_int, exponent>>
  <2>1. /\ factor \in Nat /\ exponent \in Int /\ exponent + factor = 0
    BY <1>8, <1>10
  <2>2. PICK k \in Nat :
          /\ n_int = k * R!TenTo[factor] /\ SplitInto(w, k, number)
          /\ Power(w) >= 1
          /\ \/ Power(w) + factor <= sig_digits
             \/ factor = 0 /\ Power(w) = sig_digits + 1 /\ IsTenTo(w)
          /\ Power(w) + factor \in Nat
          /\ n_int < R!TenTo[Power(w) + factor]
    BY <1>8, <1>10
  <2>3. PICK f \in Nat : f = factor
    BY <2>1
  <2>4. PICK z : z = value'
    OBVIOUS
  <2>5. PICK t \in ScaledNumber :
          number' = R!Scaled(t, f) /\ RoundedSplit(w, k, f, z, t)
    <3>1. /\ number' \in R!Products(number, f, R!Off(number))
          /\ R!Below(number, 0) => R!Below(number', f)
          /\ z = [w EXCEPT !.m = w.m + number'.m - number.m]
      BY <1>4, <1>10, <2>3, <2>4
    <3> QED
      BY <1>5, <2>2, <3>1, SplitProduct
  <2>6. RoundsTo(z, exponent, R!Rounded(number') + n_int')
    <3>1. CASE Power(w) + f <= sig_digits
      <4>1. PICK a \in Nat : a = Power(w) + f
        BY <2>2, <2>3
      <4>2. PICK b \in Nat : b = sig_digits - 1
        BY <1>6
      <4>3. R!TenTo[a] \in Nat /\ R!TenTo[b] \in Nat /\ n_int \in Nat
        <5>1. R!TenTo[factor] \in Nat
          BY <2>1, TenToNat
        <5> QED
          BY <2>2, <5>1, TenToNat
      <4>4. R!TenTo[b] <= n_int /\ n_int < R!TenTo[a]
        BY <1>6, <1>10, <2>2, <2>3, <4>1, <4>2, <4>3
      <4>5. R!TenTo[b] < R!TenTo[a]
        BY <4>3, <4>4
      <4>6. b < a
        BY <4>5, TenToOrder
      <4>7. Power(w) + f = sig_digits
        BY <1>5, <1>6, <3>1, <4>1, <4>2, <4>6
      <4>8. exponent + f = 0 /\ Power(z) + f = sig_digits
        BY <2>1, <2>3, <2>5, <4>7 DEF RoundedSplit
      <4>9. RoundsTo(z, exponent, R!Rounded(R!Scaled(t, f)) + k * R!TenTo[f])
        BY <2>1, <2>5, <4>8, SplitRounds DEF RoundedSplit
      <4> QED
        BY <1>10, <2>2, <2>3, <2>5, <4>9
    <3>2. CASE f = 0 /\ Power(w) = sig_digits + 1 /\ IsTenTo(w)
      <4>1. exponent = 0 /\ z = w
        BY <2>1, <2>3, <2>5, <3>2 DEF RoundedSplit
      <4>2. RoundsTo(z, exponent, R!Rounded(R!Scaled(t, 0)) + k * R!TenTo[0])
        BY <1>5, <2>1, <2>5, <3>2, <4>1, SplitTop DEF RoundedSplit
      <4> QED
        BY <1>10, <2>2, <2>3, <2>5, <3>2, <4>2
    <3> QED
      BY <2>2, <2>3, <3>1, <3>2
  <2>7. Rounding'
    BY <1>10, <2>4, <2>6, RoundingNext
  <2>8. TheNumber'
    BY <1>1, <1>2, <2>4, <2>5, RoundedNumberNext DEF RoundedSplit
  <2> QED
    BY <1>3, <1>10, <2>7, <2>8 DEF FloatValueInv
<1> QED
  BY <1>7, <1>9, <1>10 DEF R!Split, R!Rescale, R!To

(* Rounding, from which the digits to print come.                          *)
LEMMA FloatValueRound ==
  PrintFloatInv /\ FloatValueInv /\ R!Round => FloatValueInv'
<1> SUFFICES ASSUME PrintFloatInv, FloatValueInv, R!Round,
                    input'.kind = "number"
             PROVE  FloatValueInv'
  BY DEF FloatValueInv
<1>1. /\ pc = "round" /\ pc' = "trim"
      /\ UNCHANGED <<input, value, number, factor, n_int, buf, out>>
  BY DEF R!Round, R!To
<1>2. TheNumber /\ OnlySign /\ Rounding
  BY <1>1 DEF FloatValueInv
<1>3. TheNumber' /\ OnlySign'
  <2>1. out' = SignOf(FloatSkip)
    BY <1>1, <1>2 DEF OnlySign
  <2> QED
    BY <1>1, <1>2, <2>1, TheNumberNext, OnlySignNext
<1>4. PICK w : w = value
  OBVIOUS
<1>5. Printable(w)
  BY <1>2, <1>4 DEF TheNumber
<1>6. exponent \in Int /\ number \in ScaledNumber /\ n_int \in Nat
  <2>1. exponent \in Int /\ number \in ScaledNumber
        /\ n_int \in 0..R!max_scaled /\ R!max_scaled \in Nat
    BY DigitConstants DEF PrintFloatInv, FloatVariables
  <2> QED
    BY <2>1
<1>7. PICK s \in Nat : s = R!Rounded(number) + n_int
  <2>1. R!Rounded(number) \in Nat
    BY <1>6, RoundedNat
  <2>2. R!Rounded(number) + n_int \in Nat
    BY <1>6, <2>1
  <2> QED
    BY <2>2
<1>8. PICK x \in Int : x = IF R!Carries(s) THEN exponent + 1 ELSE exponent
  <2>1. (IF R!Carries(s) THEN exponent + 1 ELSE exponent) \in Int
    BY <1>6
  <2> QED
    BY <2>1
<1>9. /\ n' = IF R!Carries(s) THEN R!min_scaled ELSE s
      /\ decimals' = IF x \in R!Plain THEN -x ELSE sig_digits - 1
      /\ exponent' = x + decimals'
  BY <1>7, <1>8 DEF R!Round
<1>10. RoundsTo(w, exponent, s)
  BY <1>2, <1>4, <1>7 DEF Rounding
<1>11. /\ Fits(w, x, n') /\ R!min_scaled <= n' /\ n' < R!max_scaled
  BY <1>5, <1>6, <1>8, <1>9, <1>10, RoundFits
<1>12. /\ sig_digits \in Nat /\ sig_digits >= 2
       /\ R!min_scaled = R!TenTo[sig_digits - 1]
       /\ R!max_scaled = R!TenTo[sig_digits]
  BY DigitConstants
<1>13. Trimming(w, exponent', decimals', n')
  <2>1. CASE x \in R!Plain
    <3>1. decimals' = -x /\ exponent' = 0 /\ exponent' - decimals' = x
      BY <1>9, <2>1
    <3> QED
      BY <1>11, <3>1 DEF Trimming
  <2>2. CASE x \notin R!Plain
    <3>1. decimals' = sig_digits - 1 /\ exponent' = x + (sig_digits - 1)
      BY <1>9, <2>2
    <3>2. exponent' - decimals' = x /\ decimals' + 1 = sig_digits
      BY <1>12, <3>1
    <3>3. R!TenTo[decimals'] <= n' /\ n' < R!TenTo[decimals' + 1]
      BY <1>11, <1>12, <3>1, <3>2
    <3> QED
      BY <1>11, <3>2, <3>3 DEF Trimming
  <2> QED
    BY <2>1, <2>2
<1>14. Trimmed'
  BY <1>1, <1>4, <1>13, TrimmedNext
<1> QED
  BY <1>1, <1>3, <1>14 DEF FloatValueInv

(* What PrintFloatInv says of the variables.                               *)
LEMMA FloatTypes ==
  ASSUME PrintFloatInv
  PROVE  /\ exponent \in Int /\ decimals \in Nat /\ n \in Nat
         /\ buf \in Seq(48..57) /\ out \in Seq(32..126)
         /\ Len(buf) \in Nat /\ (Len(buf) = 0 <=> buf = <<>>)
<1>1. /\ exponent \in Int /\ decimals \in 0..sig_digits + 3
      /\ n \in 0..R!max_scaled - 1
      /\ buf \in Seq(48..57) /\ out \in Seq(32..126)
  BY DEF PrintFloatInv, FloatVariables
<1>2. decimals \in Nat /\ n \in Nat
  BY <1>1
<1>3. Len(buf) \in Nat /\ (Len(buf) = 0 <=> buf = <<>>)
  BY <1>1, LenProperties, EmptySeq
<1> QED
  BY <1>1, <1>2, <1>3

(* Zeros at the end are dropped.                                           *)
LEMMA FloatValueTrim ==
  PrintFloatInv /\ FloatValueInv /\ R!Trim => FloatValueInv'
<1> SUFFICES ASSUME PrintFloatInv, FloatValueInv, R!Trim,
                    input'.kind = "number"
             PROVE  FloatValueInv'
  BY DEF FloatValueInv
<1>1. /\ pc = "trim"
      /\ UNCHANGED <<input, value, number, factor, n_int, exponent, buf, out>>
  BY DEF R!Trim
<1>2. TheNumber /\ OnlySign /\ Trimmed
  BY <1>1 DEF FloatValueInv
<1>3. TheNumber' /\ OnlySign'
  <2>1. out' = SignOf(FloatSkip)
    BY <1>1, <1>2 DEF OnlySign
  <2> QED
    BY <1>1, <1>2, <2>1, TheNumberNext, OnlySignNext
<1>4. PICK w : w = value
  OBVIOUS
<1>5. Printable(w) /\ Trimming(w, exponent, decimals, n)
  BY <1>2, <1>4 DEF TheNumber, Trimmed
<1>6. exponent \in Int /\ decimals \in Nat /\ n \in Nat /\ buf = <<>>
  BY <1>1, FloatTypes DEF PrintFloatInv, Buffering
<1>7. CASE /\ decimals > 0 /\ (n % 10) = 0
           /\ n' = n \div 10 /\ decimals' = decimals - 1
           /\ UNCHANGED pc
  <2>1. Trimming(w, exponent, decimals - 1, n \div 10)
    BY <1>5, <1>6, <1>7, TrimZero
  <2>2. Trimmed'
    BY <1>1, <1>4, <1>7, <2>1, TrimmedNext
  <2> QED
    BY <1>1, <1>3, <1>7, <2>2 DEF FloatValueInv
<1>8. CASE /\ decimals = 0 \/ (n % 10) # 0
           /\ pc' = "buffer" /\ UNCHANGED <<n, decimals>>
  <2>1. BufferingDigits(w, exponent, decimals, n, buf)
    BY <1>5, <1>6, <1>8, BufferingBegins
  <2>2. Buffered'
    BY <1>1, <1>4, <1>8, <2>1, BufferedNext
  <2> QED
    BY <1>3, <1>8, <2>2 DEF FloatValueInv
<1> QED
  BY <1>7, <1>8 DEF R!Trim, R!To

(* Digits go into the buffer, of the number and of the exponent.           *)
LEMMA FloatValueBuffer ==
  PrintFloatInv /\ FloatValueInv /\ R!Buffer => FloatValueInv'
<1> SUFFICES ASSUME PrintFloatInv, FloatValueInv, R!Buffer,
                    input'.kind = "number"
             PROVE  FloatValueInv'
  BY DEF FloatValueInv
<1>1. /\ pc \in {"buffer", "buffer_exponent"}
      /\ UNCHANGED <<input, value, number, factor, n_int, exponent>>
      /\ UNCHANGED <<decimals, out>>
  BY DEF R!Buffer
<1>2. TheNumber /\ TheNumber'
  <2>1. TheNumber
    BY <1>1 DEF FloatValueInv
  <2> QED
    BY <1>1, <2>1, TheNumberNext
<1>3. PICK w : w = value
  OBVIOUS
<1>4. /\ exponent \in Int /\ decimals \in Nat /\ n \in Nat
      /\ buf \in Seq(48..57) /\ Len(buf) \in Nat
  BY FloatTypes
<1>5. FloatSkip \in Skips
  BY DEF FloatSkip, Skips
<1>6. CASE /\ n # 0 \/ Len(buf) < R!Least
           /\ buf' = Append(buf, 48 + (n % 10)) /\ n' = n \div 10
           /\ UNCHANGED pc
  <2>1. CASE pc = "buffer"
    <3>1. Buffered /\ OnlySign
      BY <1>1, <2>1 DEF FloatValueInv
    <3>2. n # 0 \/ Len(buf) < decimals + 1
      BY <1>6, <2>1 DEF R!Least
    <3>3. BufferingDigits(w, exponent, decimals, n, buf)
      BY <1>3, <3>1 DEF Buffered
    <3>4. BufferingDigits(w, exponent, decimals, n \div 10,
                          Append(buf, 48 + (n % 10)))
      BY <1>4, <3>2, <3>3, BufferDigit
    <3>5. Buffered'
      BY <1>1, <1>3, <1>6, <3>4, BufferedNext
    <3>6. OnlySign'
      BY <1>1, <3>1, OnlySignNext DEF OnlySign
    <3> QED
      BY <1>2, <1>6, <2>1, <3>5, <3>6 DEF FloatValueInv
  <2>2. CASE pc = "buffer_exponent"
    <3>1. BufferedExponent
      BY <1>1, <2>2 DEF FloatValueInv
    <3>2. BufferingExponent(w, exponent, decimals, FloatSkip, out, n, buf)
      BY <1>3, <3>1 DEF BufferedExponent
    <3>3. BufferingExponent(w, exponent, decimals, FloatSkip, out, n \div 10,
                            Append(buf, 48 + (n % 10)))
      BY <1>4, <3>2, ExponentDigit
    <3>4. BufferedExponent'
      BY <1>1, <1>3, <1>6, <3>3, BufferedExponentNext
    <3> QED
      BY <1>2, <1>6, <2>2, <3>4 DEF FloatValueInv
  <2> QED
    BY <1>1, <2>1, <2>2
<1>7. CASE /\ n = 0 /\ Len(buf) >= R!Least
           /\ pc' = IF pc = "buffer" THEN "print" ELSE "print_exponent"
           /\ UNCHANGED <<buf, n>>
  <2>1. CASE pc = "buffer"
    <3>1. Buffered /\ OnlySign
      BY <1>1, <2>1 DEF FloatValueInv
    <3>2. Len(buf) >= decimals + 1
      BY <1>7, <2>1 DEF R!Least
    <3>3. BufferingDigits(w, exponent, decimals, 0, buf)
      BY <1>3, <1>7, <3>1 DEF Buffered
    <3>4. PrintingSignificand(w, exponent, decimals, FloatSkip,
                              SignOf(FloatSkip), buf)
      BY <1>4, <1>5, <3>2, <3>3, PrintingBegins
    <3>5. out' = SignOf(FloatSkip)
      BY <1>1, <3>1 DEF OnlySign
    <3>6. Showing'
      BY <1>1, <1>3, <1>7, <3>4, <3>5, ShowingNext
    <3> QED
      BY <1>2, <1>7, <2>1, <3>6 DEF FloatValueInv
  <2>2. CASE pc = "buffer_exponent"
    <3>1. BufferedExponent
      BY <1>1, <2>2 DEF FloatValueInv
    <3>2. BufferingExponent(w, exponent, decimals, FloatSkip, out, 0, buf)
      BY <1>3, <1>7, <3>1 DEF BufferedExponent
    <3>3. PrintingExponent(w, exponent, decimals, FloatSkip, out, buf)
      BY <3>2, ExponentPrints
    <3>4. ShowingExponent'
      BY <1>1, <1>3, <1>7, <3>3, ShowingExponentNext
    <3> QED
      BY <1>2, <1>7, <2>2, <3>4 DEF FloatValueInv
  <2> QED
    BY <1>1, <2>1, <2>2
<1> QED
  BY <1>6, <1>7 DEF R!Buffer, R!To

(* They are shown, those of the number and those of the exponent.          *)
LEMMA FloatValueDigit ==
  PrintFloatInv /\ FloatValueInv /\ R!PrintDigit => FloatValueInv'
<1> SUFFICES ASSUME PrintFloatInv, FloatValueInv, R!PrintDigit,
                    input'.kind = "number"
             PROVE  FloatValueInv'
  BY DEF FloatValueInv
<1>1. /\ pc \in {"print", "print_exponent"} /\ buf # <<>>
      /\ buf' = R!Unprinted(buf)
      /\ out' = out \o (IF pc = "print" /\ Len(buf) = decimals
                        THEN <<46, R!Last(buf)>> ELSE <<R!Last(buf)>>)
      /\ UNCHANGED <<input, value, number, factor, n_int, n, exponent>>
      /\ UNCHANGED <<decimals, pc>>
  BY DEF R!PrintDigit
<1>2. TheNumber'
  <2>1. TheNumber
    BY <1>1 DEF FloatValueInv
  <2> QED
    BY <1>1, <2>1, TheNumberNext
<1>3. PICK w : w = value
  OBVIOUS
<1>4. /\ exponent \in Int /\ decimals \in Nat
      /\ buf \in Seq(48..57) /\ Len(buf) # 0 /\ out \in Seq(32..126)
  BY <1>1, FloatTypes
<1>5. FloatSkip \in Skips
  BY DEF FloatSkip, Skips
<1>6. CASE pc = "print"
  <2>1. Showing
    BY <1>1, <1>6 DEF FloatValueInv
  <2>2. PrintingSignificand(w, exponent, decimals, FloatSkip, out, buf)
    BY <1>3, <2>1 DEF Showing
  <2>3. Lengthens(out', out, buf, decimals)
    BY <1>1, <1>6 DEF Lengthens
  <2>4. PICK t, u : t = out' /\ u = buf'
    OBVIOUS
  <2>5. Lengthens(t, out, buf, decimals) /\ u = R!Unprinted(buf)
    BY <1>1, <2>3, <2>4
  <2>6. PrintingSignificand(w, exponent, decimals, FloatSkip, t, u)
    BY <1>1, <1>4, <1>5, <2>2, <2>5, PrintOne
  <2>7. Showing'
    BY <1>1, <1>3, <2>4, <2>6, ShowingNext
  <2> QED
    BY <1>1, <1>2, <1>6, <2>7 DEF FloatValueInv
<1>7. CASE pc = "print_exponent"
  <2>1. ShowingExponent
    BY <1>1, <1>7 DEF FloatValueInv
  <2>2. PrintingExponent(w, exponent, decimals, FloatSkip, out, buf)
    BY <1>3, <2>1 DEF ShowingExponent
  <2>3. Extends(out', out, buf)
    BY <1>1, <1>7 DEF Extends
  <2>4. PICK t, u : t = out' /\ u = buf'
    OBVIOUS
  <2>5. Extends(t, out, buf) /\ u = R!Unprinted(buf)
    BY <1>1, <2>3, <2>4
  <2>6. PrintingExponent(w, exponent, decimals, FloatSkip, t, u)
    BY <1>4, <1>5, <2>2, <2>5, ExponentShows
  <2>7. ShowingExponent'
    BY <1>1, <1>3, <2>4, <2>6, ShowingExponentNext
  <2> QED
    BY <1>1, <1>2, <1>7, <2>7 DEF FloatValueInv
<1> QED
  BY <1>1, <1>6, <1>7

(* What is behind the digits of the number.                                *)
LEMMA FloatValueEnds ==
  PrintFloatInv /\ FloatValueInv /\ R!PrintEnds => FloatValueInv'
<1> SUFFICES ASSUME PrintFloatInv, FloatValueInv, R!PrintEnds,
                    input'.kind = "number"
             PROVE  FloatValueInv'
  BY DEF FloatValueInv
<1>1. /\ pc \in {"print", "print_exponent"} /\ buf = <<>>
      /\ UNCHANGED <<input, value, number, factor, n_int, exponent>>
      /\ UNCHANGED <<decimals, buf>>
  BY DEF R!PrintEnds
<1>2. TheNumber'
  <2>1. TheNumber
    BY <1>1 DEF FloatValueInv
  <2> QED
    BY <1>1, <2>1, TheNumberNext
<1>3. PICK w : w = value
  OBVIOUS
<1>4. exponent \in Int /\ decimals \in Nat /\ out \in Seq(32..126)
  BY FloatTypes
<1>5. FloatSkip \in Skips
  BY DEF FloatSkip, Skips
<1>6. ASSUME pc = "print"
      PROVE  Significand(w, exponent, decimals, FloatSkip, out, Len(out))
  <2>1. Showing
    BY <1>1, <1>6 DEF FloatValueInv
  <2>2. PrintingSignificand(w, exponent, decimals, FloatSkip, out, buf)
    BY <1>3, <2>1 DEF Showing
  <2> QED
    BY <1>1, <1>4, <1>5, <2>2, SignificandShown
<1>7. CASE /\ pc = "print" /\ exponent # 0
           /\ out' = out \o <<101, IF exponent < 0 THEN 45 ELSE 43>>
           /\ n' = IF exponent < 0 THEN -exponent ELSE exponent
           /\ pc' = "buffer_exponent"
  <2>1. Significand(w, exponent, decimals, FloatSkip, out, Len(out))
    BY <1>6, <1>7
  <2>2. out' = out \o <<101, SignCode(exponent)>> /\ n' = SizeOf(exponent)
    BY <1>7 DEF SignCode, SizeOf
  <2>3. PICK t, k : t = out' /\ k = n'
    OBVIOUS
  <2>4. t = out \o <<101, SignCode(exponent)>> /\ k = SizeOf(exponent)
    BY <2>2, <2>3
  <2>5. BufferingExponent(w, exponent, decimals, FloatSkip, t, k, buf)
    BY <1>1, <1>4, <1>5, <1>7, <2>1, <2>4, ExponentBegins
  <2>6. BufferedExponent'
    BY <1>1, <1>3, <2>3, <2>5, BufferedExponentNext
  <2> QED
    BY <1>2, <1>7, <2>6 DEF FloatValueInv
<1>8. CASE /\ pc = "print_exponent" \/ exponent = 0
           /\ pc' = "done" /\ UNCHANGED <<out, n>>
  <2>1. AllPrinted(w, exponent, decimals, FloatSkip, out)
    <3>1. CASE pc = "print_exponent"
      <4>1. ShowingExponent
        BY <1>1, <3>1 DEF FloatValueInv
      <4>2. PrintingExponent(w, exponent, decimals, FloatSkip, out, buf)
        BY <1>3, <4>1 DEF ShowingExponent
      <4> QED
        BY <1>1, <1>4, <4>2, ExponentEnds
    <3>2. CASE pc = "print"
      <4>1. Significand(w, exponent, decimals, FloatSkip, out, Len(out))
        BY <1>6, <3>2
      <4> QED
        BY <1>8, <3>2, <4>1 DEF AllPrinted
    <3> QED
      BY <1>1, <3>1, <3>2
  <2>2. Shows'
    BY <1>1, <1>3, <1>8, <2>1, ShowsNext
  <2> QED
    BY <1>2, <1>8, <2>2 DEF FloatValueInv
<1> QED
  BY <1>7, <1>8 DEF R!PrintEnds, R!To

(* Every step keeps it ...                                                 *)
LEMMA FloatValueStep ==
  PrintFloatInv /\ FloatValueInv /\ R!Next => FloatValueInv'
BY FloatValueStart, FloatValueMultiply, FloatValueDivide, FloatValueSplit,
   FloatValueRound, FloatValueTrim, FloatValueBuffer, FloatValueDigit,
   FloatValueEnds DEF R!Next

(* ... and with it what is printed reads as the number given.              *)
LEMMA FloatValueProved ==
  PrintFloatInv /\ FloatValueInv => R!ReadsBack /\ R!Canonical
<1> SUFFICES ASSUME PrintFloatInv, FloatValueInv, R!DoneWithNumber
             PROVE  R!ReadsBack /\ R!Canonical
  BY DEF R!ReadsBack, R!Canonical
<1>1. TheNumber /\ Shows
  BY DEF R!DoneWithNumber, FloatValueInv
<1>2. /\ out \in Seq(32..126) /\ exponent \in Int /\ decimals \in Nat
  BY FloatTypes
<1>3. /\ Printable(value) /\ input.negative \in BOOLEAN
      /\ AllPrinted(value, exponent, decimals, FloatSkip, out)
  BY <1>1 DEF TheNumber, Shows
<1> QED
  BY <1>2, <1>3, PrintedReadsBack, PrintedCanonical

(* v has come from g by s tenths of what a product may be off, at most.    *)
Drifted(g, v, s) == 10 * R!Size(v.m - g.m) <= s * R!Off(g)

(* The invariant: every power of ten that number is scaled by may add one  *)
(* such tenth, and the last product ten.                                   *)
Within(g, v, s, most) == s \in 0..most /\ Drifted(g, v, s)

Drifting(g, v, w, label) ==
  /\ Printable(g) /\ v.x = g.x
  /\ Drifted(g, v, R!Size(g.x) + sig_digits + 20)
  /\ label \in {"call", "split", "fill"} => v = g
  /\ label \in {"up_by_10", "up"} =>
       Within(g, v, w.x - g.x, sig_digits + R!Size(g.x))
  /\ label \in {"down_by_10", "down"} =>
       Within(g, v, g.x - w.x, R!Size(g.x) + 10)

FloatDriftInv ==
  input.kind = "number" => Drifting(input.value, value, number, pc)

(* What it says after a step, of the variables after it.                   *)
LEMMA DriftingNext ==
  ASSUME UNCHANGED input, Drifting(input.value, value', number', pc')
  PROVE  FloatDriftInv'
<1>1. Drifting(input.value, value, number, pc)'
        = Drifting(input'.value, value', number', pc')
  BY DEF Drifting, Within, Drifted, Printable, ScaledNumber, Nine, R!Size,
     R!Off, R!TenTo
<1> QED
  BY <1>1 DEF FloatDriftInv

(* At first a number has not moved ...                                     *)
LEMMA NoDrift ==
  ASSUME NEW g, Printable(g), NEW s \in Nat
  PROVE  Drifted(g, g, s)
<1>1. PICK m \in Nat : m = g.m
  BY DEF Printable, ScaledNumber
<1>2. PICK off \in Nat : off = R!Off(g)
  BY <1>1, OffFact
<1>3. R!Size(g.m - g.m) = 0
  BY <1>1 DEF R!Size
<1>4. s * off \in Nat
  OBVIOUS
<1> QED
  BY <1>2, <1>3, <1>4 DEF Drifted

(* ... a product adds what it may be off ...                               *)
LEMMA ProductDrifts ==
  ASSUME NEW g, Printable(g), NEW v, v.m \in Nat, NEW u, u.m \in Nat,
         NEW s \in Nat, Drifted(g, v, s),
         NEW off \in Nat, off <= R!Off(g), u.m - v.m \in -off..off
  PROVE  Drifted(g, u, s + 10)
<1>1. PICK m \in Nat, l \in Nat, h \in Nat : m = v.m /\ l = u.m /\ h = g.m
  BY DEF Printable, ScaledNumber
<1>2. PICK e \in Nat : e = R!Off(g) /\ off <= e
  BY <1>1, OffFact
<1>3. PICK a \in Nat, b \in Nat : a = R!Size(m - h) /\ b = R!Size(l - h)
  <2>1. R!Size(m - h) \in Nat /\ R!Size(l - h) \in Nat
    BY DEF R!Size
  <2> QED
    BY <2>1
<1>4. b <= a + e
  <2>1. l - m \in -off..off
    BY <1>1
  <2>2. l - m <= e /\ m - l <= e
    BY <1>2, <2>1
  <2> QED
    BY <1>3, <2>2 DEF R!Size
<1>5. 10 * a <= s * e
  BY <1>1, <1>2, <1>3 DEF Drifted
<1>6. (s + 10) * e = s * e + 10 * e /\ s * e \in Nat
  OBVIOUS
<1>7. 10 * b <= (s + 10) * e
  BY <1>4, <1>5, <1>6
<1> QED
  BY <1>1, <1>2, <1>3, <1>7 DEF Drifted

(* ... and more is allowed than that comes to.                             *)
LEMMA DriftsMore ==
  ASSUME NEW g, Printable(g), NEW v, v.m \in Nat, NEW s \in Nat,
         Drifted(g, v, s), NEW t \in Nat, s <= t
  PROVE  Drifted(g, v, t)
<1>1. PICK m \in Nat, h \in Nat : m = v.m /\ h = g.m
  BY DEF Printable, ScaledNumber
<1>2. PICK e \in Nat : e = R!Off(g)
  BY <1>1, OffFact
<1>3. PICK a \in Nat : a = R!Size(m - h)
  <2>1. R!Size(m - h) \in Nat
    BY DEF R!Size
  <2> QED
    BY <2>1
<1>4. PICK c \in Nat : t = s + c
  <2>1. t - s \in Nat /\ t = s + (t - s)
    OBVIOUS
  <2> QED
    BY <2>1
<1>5. (s + c) * e = s * e + c * e /\ c * e \in Nat /\ s * e \in Nat
  OBVIOUS
<1>6. 10 * a <= s * e
  BY <1>1, <1>2, <1>3 DEF Drifted
<1>7. 10 * a <= t * e
  BY <1>4, <1>5, <1>6
<1> QED
  BY <1>1, <1>2, <1>3, <1>7 DEF Drifted

(* What a product is off grows with the number.                            *)
LEMMA OffOrder ==
  ASSUME NEW v, NEW w, v.m \in Nat, w.m \in Nat, v.m <= w.m
  PROVE  R!Off(v) <= R!Off(w)
<1>1. PICK m \in Nat, l \in Nat, q \in Nat :
        m = v.m /\ l = w.m /\ q = FloatPrecision /\ q > 0
  BY DigitConstants
<1>2. PICK a \in Nat, b \in Nat : a = m \div q /\ b = l \div q
  <2>1. R!Off(v) \in Nat /\ R!Off(w) \in Nat
    BY OffFact
  <2> QED
    BY <1>1, <2>1 DEF R!Off
<1>3. /\ m \in Int /\ l \in Int
      /\ (m % q) \in 0..q - 1 /\ (l % q) \in 0..q - 1
      /\ m = q * a + (m % q) /\ l = q * b + (l % q)
  <2>1. m \in Int /\ l \in Int
    OBVIOUS
  <2> QED
    BY <1>1, <1>2, <2>1, DivMod
<1>4. q * a <= m /\ l < q * b + q
  <2>1. q * a \in Nat /\ q * b \in Nat
    OBVIOUS
  <2> QED
    BY <1>3, <2>1
<1>5. a <= b
  <2>1. SUFFICES ASSUME a >= b + 1 PROVE FALSE
    OBVIOUS
  <2>2. PICK c \in Nat : a = b + 1 + c
    <3>1. a - (b + 1) \in Nat /\ a = b + 1 + (a - (b + 1))
      BY <2>1
    <3> QED
      BY <3>1
  <2>3. q * (b + 1 + c) = q * b + q + q * c /\ q * c \in Nat /\ q * b \in Nat
    OBVIOUS
  <2>4. q * b + q <= m
    BY <1>4, <2>2, <2>3
  <2> QED
    BY <1>1, <1>4, <2>3, <2>4
<1> QED
  BY <1>1, <1>2, <1>5 DEF R!Off

(* The invariant holds at the beginning.                                   *)
LEMMA FloatDriftInit == R!Init => FloatDriftInv
<1> SUFFICES ASSUME R!Init, input.kind = "number" PROVE FloatDriftInv
  BY DEF FloatDriftInv
<1>1. number \in PrintedFloats /\ value = number /\ pc = "call"
  BY DEF R!Init
<1>2. input.value = number
  <2>1. input \in [kind : {"number"}, negative : BOOLEAN, value : {number}]
                  \cup [kind : {"inf"}, negative : BOOLEAN]
                  \cup [kind : {"nan", "zero"}, negative : {FALSE}]
    BY DEF R!Init
  <2>2. input \in [kind : {"number"}, negative : BOOLEAN, value : {number}]
    BY <2>1
  <2> QED
    BY <2>2
<1>3. Printable(number)
  BY <1>1, DigitConstants DEF Printable
<1>4. Drifted(number, number, R!Size(number.x) + sig_digits + 20)
  <2>1. R!Size(number.x) + sig_digits + 20 \in Nat
    BY <1>3, PrintableFact, DigitConstants DEF R!Size
  <2> QED
    BY <1>3, <2>1, NoDrift
<1> QED
  BY <1>1, <1>2, <1>3, <1>4 DEF FloatDriftInv, Drifting

(* What the invariants say of the numbers, and how far off one may be.     *)
LEMMA DriftFact ==
  ASSUME PrintFloatInv, FloatValueInv, FloatDriftInv, input.kind = "number"
  PROVE  /\ Drifting(input.value, value, number, pc)
         /\ Printable(input.value) /\ Printable(value)
         /\ input.value.x \in Int /\ input.value.m \in Nat
         /\ value.m \in Nat /\ value.x = input.value.x
         /\ number \in ScaledNumber /\ number.x \in Int
         /\ sig_digits \in Nat /\ R!Size(input.value.x) \in Nat
         /\ R!Size(input.value.x) + sig_digits + 20 \in Nat
         /\ -input.value.x <= R!Size(input.value.x)
         /\ input.value.x <= R!Size(input.value.x)
<1>1. Drifting(input.value, value, number, pc)
  BY DEF FloatDriftInv
<1>2. Printable(input.value) /\ Printable(value) /\ value.x = input.value.x
  BY <1>1 DEF Drifting, FloatValueInv, TheNumber
<1>3. input.value.x \in Int /\ input.value.m \in Nat /\ value.m \in Nat
  BY <1>2, PrintableFact
<1>4. number \in ScaledNumber /\ number.x \in Int /\ sig_digits \in Nat
  BY DigitConstants DEF PrintFloatInv, FloatVariables, ScaledNumber
<1>5. PICK x \in Int : x = input.value.x
  BY <1>3
<1>6. R!Size(x) \in Nat /\ -x <= R!Size(x) /\ x <= R!Size(x)
  BY DEF R!Size
<1> QED
  BY <1>1, <1>2, <1>3, <1>4, <1>5, <1>6

(* Steps that scale nothing.                                               *)
LEMMA DriftStays ==
  ASSUME PrintFloatInv, FloatValueInv, FloatDriftInv, input.kind = "number",
         UNCHANGED <<input, value>>,
         pc' \notin {"call", "split", "fill", "up_by_10", "up", "down_by_10",
                     "down"}
  PROVE  FloatDriftInv'
<1>1. Drifting(input.value, value', number', pc')
  BY DriftFact DEF Drifting
<1> QED
  BY <1>1, DriftingNext

(* The steps that scale, or are about to.                                  *)
LEMMA FloatDriftStart ==
  PrintFloatInv /\ FloatValueInv /\ FloatDriftInv /\ R!Start
    => FloatDriftInv'
<1> SUFFICES ASSUME PrintFloatInv, FloatValueInv, FloatDriftInv, R!Start,
                    input'.kind = "number"
             PROVE  FloatDriftInv'
  BY DEF FloatDriftInv
<1>1. pc = "call" /\ UNCHANGED <<input, value, number>>
  BY DEF R!Start
<1>2. pc' \in {"up_by_10", "down_by_10", "split"}
  BY <1>1 DEF R!Start, R!To
<1>3. PICK g : g = input.value
  OBVIOUS
<1>4. /\ Drifting(g, value, number, "call") /\ Printable(g)
      /\ g.x \in Int /\ number.x \in Int
      /\ sig_digits \in Nat /\ R!Size(g.x) \in Nat
  BY <1>1, <1>3, DriftFact
<1>5. value = g /\ number.x = g.x
  <2>1. value = g
    BY <1>4 DEF Drifting
  <2>2. number.x + factor + exponent = value.x
    BY <1>1 DEF FloatValueInv, Unscaled
  <2>3. number.x + 0 + 0 = value.x
    BY <1>1, <2>2 DEF PrintFloatInv, AtStart
  <2> QED
    BY <1>4, <2>1, <2>3
<1>6. /\ number.x - g.x = 0 /\ g.x - number.x = 0
      /\ 0 \in 0..sig_digits + R!Size(g.x) /\ 0 \in 0..R!Size(g.x) + 10
  BY <1>4, <1>5
<1>7. Drifted(g, value, 0)
  BY <1>4, <1>5, NoDrift
<1>8. Drifting(g, value', number', pc')
  BY <1>1, <1>2, <1>4, <1>5, <1>6, <1>7 DEF Drifting, Within
<1> QED
  BY <1>1, <1>3, <1>8, DriftingNext

(* Scaling up, each power of ten brings one tenth, and the last product    *)
(* the rest.                                                               *)
LEMMA FloatDriftMultiply ==
  PrintFloatInv /\ FloatValueInv /\ FloatDriftInv /\ R!Multiply
    => FloatDriftInv'
<1> SUFFICES ASSUME PrintFloatInv, FloatValueInv, FloatDriftInv, R!Multiply,
                    input'.kind = "number"
             PROVE  FloatDriftInv'
  BY DEF FloatDriftInv
<1>1. pc \in {"up_by_10", "up"} /\ UNCHANGED input
  BY DEF R!Multiply
<1>2. PICK g : g = input.value
  OBVIOUS
<1>3. /\ Drifting(g, value, number, pc) /\ Printable(g) /\ Printable(value)
      /\ g.x \in Int /\ number.x \in Int /\ value.x = g.x /\ value.m \in Nat
      /\ number \in ScaledNumber /\ sig_digits \in Nat
      /\ R!Size(g.x) \in Nat /\ -g.x <= R!Size(g.x)
      /\ g.m \in Nat /\ R!Size(g.x) + sig_digits + 20 \in Nat
  BY <1>1, <1>2, DriftFact
<1>4. number.m = value.m /\ Nine(number.m) /\ number.m > 0 /\ factor \in Int
  BY <1>1 DEF FloatValueInv, Unscaled, PrintFloatInv, FloatVariables,
     ScalingUp, Given
<1>5. PICK s \in Nat : /\ s = number.x - g.x /\ s <= sig_digits + R!Size(g.x)
                       /\ Drifted(g, value, s)
  <2>1. /\ number.x - g.x \in 0..sig_digits + R!Size(g.x)
        /\ Drifted(g, value, number.x - g.x)
    BY <1>1, <1>3 DEF Drifting, Within
  <2> QED
    BY <1>3, <2>1
<1>6. PICK off \in Nat : off = R!Off(g) /\ off <= R!Off(g)
  BY <1>3, OffFact
<1>7. ASSUME NEW k \in Int, number' \in R!Products(number, k, off),
             value' = [value EXCEPT !.m = value.m + number'.m - number.m]
      PROVE  /\ number'.x = number.x + k /\ value'.x = g.x
             /\ value'.m \in Nat /\ Drifted(g, value', s + 10)
  <2>1. PICK w \in R!Products(number, k, off) : w = number'
    BY <1>7
  <2>2. /\ w \in ScaledNumber /\ w.x = number.x + k
        /\ Nine(w.m) /\ w.m > 0 /\ w.m - number.m \in -off..off
    BY <1>3, <1>4, ProductFact
  <2>3. value'.m = w.m /\ value'.x = value.x
    BY <1>3, <1>4, <1>7, <2>1, <2>2, Rescaled
  <2>4. PICK u : u = value'
    OBVIOUS
  <2>5. u.m \in Nat /\ u.m - value.m \in -off..off
    BY <1>4, <2>2, <2>3, <2>4 DEF ScaledNumber
  <2>6. Drifted(g, u, s + 10)
    BY <1>3, <1>5, <1>6, <2>5, ProductDrifts
  <2> QED
    BY <1>3, <2>1, <2>2, <2>3, <2>4, <2>5, <2>6
<1>8. PICK u : u = value'
  OBVIOUS
<1>9. ASSUME u.m \in Nat, NEW t \in Nat, Drifted(g, u, t),
             t <= sig_digits + R!Size(g.x) + 10
      PROVE  Drifted(g, u, R!Size(g.x) + sig_digits + 20)
  <2>1. t <= R!Size(g.x) + sig_digits + 20
    BY <1>3, <1>9
  <2> QED
    BY <1>3, <1>9, <2>1, DriftsMore
<1>10. CASE /\ pc = "up_by_10" /\ R!Below(number, sig_digits - R!BigStep)
            /\ number' \in R!Products(number, R!BigStep, R!Off(input.value))
            /\ value' = [value EXCEPT !.m = value.m + number'.m - number.m]
            /\ UNCHANGED pc
  <2>1. R!BigStep = 10 /\ 10 \in Int
    BY DEF R!BigStep
  <2>2. /\ number'.x = number.x + 10 /\ u.x = g.x
        /\ u.m \in Nat /\ Drifted(g, u, s + 10)
    BY <1>2, <1>6, <1>7, <1>8, <1>10, <2>1
  <2>3. number.x <= sig_digits - 11
    <3>1. R!Digits(number.m) \in 1..10
      BY <1>4, NineShort, DigitsFact
    <3>2. R!Digits(number.m) + number.x <= sig_digits - 10
      BY <1>10, <2>1 DEF R!Below
    <3> QED
      BY <1>3, <3>1, <3>2
  <2>4. /\ number'.x - g.x = s + 10 /\ s + 10 \in Nat
        /\ s + 10 \in 0..sig_digits + R!Size(g.x)
        /\ s + 10 <= sig_digits + R!Size(g.x) + 10
    BY <1>3, <1>5, <2>2, <2>3
  <2>5. Drifted(g, u, R!Size(g.x) + sig_digits + 20)
    BY <1>5, <1>9, <2>2, <2>4
  <2>6. Drifting(g, u, number', pc')
    BY <1>3, <1>10, <2>2, <2>4, <2>5 DEF Drifting, Within
  <2> QED
    BY <1>1, <1>2, <1>8, <2>6, DriftingNext
<1>11. CASE UNCHANGED <<value, number>> /\ pc' = "up"
  <2>1. Drifting(g, value', number', pc')
    BY <1>1, <1>3, <1>11 DEF Drifting
  <2> QED
    BY <1>1, <1>2, <2>1, DriftingNext
<1>12. CASE /\ number' \in R!Products(number, factor, R!Off(input.value))
            /\ value' = [value EXCEPT !.m = value.m + number'.m - number.m]
            /\ pc' = "round"
  <2>1. u.x = g.x /\ u.m \in Nat /\ Drifted(g, u, s + 10)
    BY <1>2, <1>4, <1>6, <1>7, <1>8, <1>12
  <2>2. s + 10 \in Nat /\ s + 10 <= sig_digits + R!Size(g.x) + 10
    BY <1>3, <1>5
  <2>3. Drifted(g, u, R!Size(g.x) + sig_digits + 20)
    BY <1>9, <2>1, <2>2
  <2>4. Drifting(g, u, number', pc')
    BY <1>3, <1>12, <2>1, <2>3 DEF Drifting
  <2> QED
    BY <1>1, <1>2, <1>8, <2>4, DriftingNext
<1> QED
  BY <1>10, <1>11, <1>12 DEF R!Multiply, R!Rescale, R!To

(* Scaling down, too.                                                      *)
LEMMA FloatDriftDivide ==
  PrintFloatInv /\ FloatValueInv /\ FloatDriftInv /\ R!Divide
    => FloatDriftInv'
<1> SUFFICES ASSUME PrintFloatInv, FloatValueInv, FloatDriftInv, R!Divide,
                    input'.kind = "number"
             PROVE  FloatDriftInv'
  BY DEF FloatDriftInv
<1>1. pc \in {"down_by_10", "down"} /\ UNCHANGED input
  BY DEF R!Divide
<1>2. PICK g : g = input.value
  OBVIOUS
<1>3. /\ Drifting(g, value, number, pc) /\ Printable(g) /\ Printable(value)
      /\ g.x \in Int /\ number.x \in Int /\ value.x = g.x /\ value.m \in Nat
      /\ number \in ScaledNumber /\ sig_digits \in Nat
      /\ R!Size(g.x) \in Nat /\ g.x <= R!Size(g.x)
      /\ g.m \in Nat /\ R!Size(g.x) + sig_digits + 20 \in Nat
  BY <1>1, <1>2, DriftFact
<1>4. number.m = value.m /\ Nine(number.m) /\ number.m > 0 /\ factor \in Int
  BY <1>1 DEF FloatValueInv, Unscaled, PrintFloatInv, FloatVariables,
     ScalingDown, Given
<1>5. PICK s \in Nat : /\ s = g.x - number.x /\ s <= R!Size(g.x) + 10
                       /\ Drifted(g, value, s)
  <2>1. /\ g.x - number.x \in 0..R!Size(g.x) + 10
        /\ Drifted(g, value, g.x - number.x)
    BY <1>1, <1>3 DEF Drifting, Within
  <2> QED
    BY <1>3, <2>1
<1>6. PICK off \in Nat : off = R!Off(g) /\ off <= R!Off(g)
  BY <1>3, OffFact
<1>7. ASSUME NEW k \in Int, number' \in R!Products(number, k, off),
             value' = [value EXCEPT !.m = value.m + number'.m - number.m]
      PROVE  /\ number'.x = number.x + k /\ value'.x = g.x
             /\ value'.m \in Nat /\ Drifted(g, value', s + 10)
  <2>1. PICK w \in R!Products(number, k, off) : w = number'
    BY <1>7
  <2>2. /\ w \in ScaledNumber /\ w.x = number.x + k
        /\ Nine(w.m) /\ w.m > 0 /\ w.m - number.m \in -off..off
    BY <1>3, <1>4, ProductFact
  <2>3. value'.m = w.m /\ value'.x = value.x
    BY <1>3, <1>4, <1>7, <2>1, <2>2, Rescaled
  <2>4. PICK u : u = value'
    OBVIOUS
  <2>5. u.m \in Nat /\ u.m - value.m \in -off..off
    BY <1>4, <2>2, <2>3, <2>4 DEF ScaledNumber
  <2>6. Drifted(g, u, s + 10)
    BY <1>3, <1>5, <1>6, <2>5, ProductDrifts
  <2> QED
    BY <1>3, <2>1, <2>2, <2>3, <2>4, <2>5, <2>6
<1>8. PICK u : u = value'
  OBVIOUS
<1>9. ASSUME u.m \in Nat, NEW t \in Nat, Drifted(g, u, t),
             t <= R!Size(g.x) + 20
      PROVE  Drifted(g, u, R!Size(g.x) + sig_digits + 20)
  <2>1. t <= R!Size(g.x) + sig_digits + 20
    BY <1>3, <1>9
  <2> QED
    BY <1>3, <1>9, <2>1, DriftsMore
<1>10. CASE /\ pc = "down_by_10" /\ R!Above(number, sig_digits - 1 + R!BigStep)
            /\ number' \in R!Products(number, -R!BigStep, R!Off(input.value))
            /\ value' = [value EXCEPT !.m = value.m + number'.m - number.m]
            /\ UNCHANGED pc
  <2>1. R!BigStep = 10 /\ -10 \in Int
    BY DEF R!BigStep
  <2>2. /\ number'.x = number.x + -10 /\ u.x = g.x
        /\ u.m \in Nat /\ Drifted(g, u, s + 10)
    BY <1>2, <1>6, <1>7, <1>8, <1>10, <2>1
  <2>3. number.x >= 0
    <3>1. R!Digits(number.m) \in 1..10 /\ Short(number.m)
      BY <1>4, NineShort, DigitsFact
    <3>2. sig_digits + 9 \in Int /\ sig_digits - 1 + 10 = sig_digits + 9
      BY <1>3
    <3>3. R!Digits(number.m) + number.x > sig_digits + 9
      BY <1>3, <1>10, <2>1, <3>1, <3>2, PowerFact DEF Power
    <3> QED
      BY <1>3, <3>1, <3>3
  <2>4. /\ g.x - number'.x = s + 10 /\ s + 10 \in Nat
        /\ s + 10 \in 0..R!Size(g.x) + 10
        /\ s + 10 <= R!Size(g.x) + 20
    BY <1>3, <1>5, <2>2, <2>3
  <2>5. Drifted(g, u, R!Size(g.x) + sig_digits + 20)
    BY <1>5, <1>9, <2>2, <2>4
  <2>6. Drifting(g, u, number', pc')
    BY <1>3, <1>10, <2>2, <2>4, <2>5 DEF Drifting, Within
  <2> QED
    BY <1>1, <1>2, <1>8, <2>6, DriftingNext
<1>11. CASE UNCHANGED <<value, number>> /\ pc' = "down"
  <2>1. Drifting(g, value', number', pc')
    BY <1>1, <1>3, <1>11 DEF Drifting
  <2> QED
    BY <1>1, <1>2, <2>1, DriftingNext
<1>12. CASE /\ number' \in R!Products(number, factor, R!Off(input.value))
            /\ value' = [value EXCEPT !.m = value.m + number'.m - number.m]
            /\ pc' = "round"
  <2>1. u.x = g.x /\ u.m \in Nat /\ Drifted(g, u, s + 10)
    BY <1>2, <1>4, <1>6, <1>7, <1>8, <1>12
  <2>2. s + 10 \in Nat /\ s + 10 <= R!Size(g.x) + 20
    BY <1>3, <1>5
  <2>3. Drifted(g, u, R!Size(g.x) + sig_digits + 20)
    BY <1>9, <2>1, <2>2
  <2>4. Drifting(g, u, number', pc')
    BY <1>3, <1>12, <2>1, <2>3 DEF Drifting
  <2> QED
    BY <1>1, <1>2, <1>8, <2>4, DriftingNext
<1> QED
  BY <1>10, <1>11, <1>12 DEF R!Divide, R!Rescale, R!To

(* Only one product is taken of the fraction, which is less than the       *)
(* number.                                                                 *)
LEMMA FloatDriftSplit ==
  PrintFloatInv /\ FloatValueInv /\ FloatDriftInv /\ R!Split
    => FloatDriftInv'
<1> SUFFICES ASSUME PrintFloatInv, FloatValueInv, FloatDriftInv, R!Split,
                    input'.kind = "number"
             PROVE  FloatDriftInv'
  BY DEF FloatDriftInv
<1>1. pc \in {"split", "fill"} /\ UNCHANGED input
  BY DEF R!Split
<1>2. PICK g : g = input.value
  OBVIOUS
<1>3. /\ Drifting(g, value, number, pc) /\ Printable(g)
      /\ g.x \in Int /\ g.m \in Nat /\ number \in ScaledNumber
      /\ sig_digits \in Nat /\ R!Size(g.x) \in Nat
      /\ R!Size(g.x) + sig_digits + 20 \in Nat
  BY <1>1, <1>2, DriftFact
<1>4. value = g
  BY <1>1, <1>3 DEF Drifting
<1>5. CASE UNCHANGED value /\ pc' = "fill"
  <2>1. Drifting(g, value', number', pc')
    BY <1>1, <1>3, <1>4, <1>5 DEF Drifting
  <2> QED
    BY <1>1, <1>2, <2>1, DriftingNext
<1>6. CASE /\ pc = "fill"
           /\ number' \in R!Products(number, factor, R!Off(number))
           /\ value' = [value EXCEPT !.m = value.m + number'.m - number.m]
           /\ pc' = "round"
  <2>1. PICK k \in Nat : SplitInto(g, k, number)
    BY <1>1, <1>4, <1>6 DEF FloatValueInv, Filled
  <2>2. number.m \in Nat /\ number.m <= g.m
    <3>1. PICK m \in Nat, r \in Nat : m = g.m /\ r = number.m
      BY <1>3 DEF ScaledNumber
    <3>2. CASE g.x >= 0
      BY <2>1, <3>1, <3>2 DEF SplitInto
    <3>3. CASE g.x < 0
      <4>1. -g.x \in Nat
        BY <1>3, <3>3
      <4>2. PICK a \in Nat : a = R!TenTo[-g.x]
        BY <4>1, TenToNat
      <4>3. m = a * k + r /\ a * k \in Nat
        BY <2>1, <3>1, <3>3, <4>2 DEF SplitInto
      <4> QED
        BY <3>1, <4>3
    <3> QED
      BY <1>3, <3>2, <3>3
  <2>3. PICK off \in Nat : off = R!Off(number) /\ off <= R!Off(g)
    BY <1>3, <2>2, OffFact, OffOrder
  <2>4. factor \in Int
    BY DEF PrintFloatInv, FloatVariables
  <2>5. PICK w \in R!Products(number, factor, off) : w = number'
    BY <1>6, <2>3
  <2>6. w \in ScaledNumber /\ w.m - number.m \in -off..off
    BY <1>3, <2>4, <2>5, ProductFact
  <2>7. PICK u : u = value'
    OBVIOUS
  <2>8. /\ u.x = g.x /\ u.m \in Nat /\ u.m - g.m \in -off..off
    <3>1. PICK m \in Nat, r \in Nat, l \in Nat :
            m = g.m /\ r = number.m /\ l = w.m /\ r <= m
      BY <1>3, <2>2, <2>6 DEF ScaledNumber
    <3>2. m + l - r \in Nat /\ m + l - r - m = l - r
      BY <3>1
    <3>3. u = [g EXCEPT !.m = m + l - r]
      BY <1>4, <1>6, <2>5, <2>7, <3>1
    <3>4. g \in ScaledNumber
      BY <1>3 DEF Printable
    <3> QED
      BY <2>6, <3>1, <3>2, <3>3, <3>4 DEF ScaledNumber
  <2>9. Drifted(g, u, 10)
    <3>1. Drifted(g, g, 0) /\ 0 + 10 = 10 /\ 0 \in Nat
      BY <1>3, NoDrift
    <3>2. Drifted(g, u, 0 + 10)
      BY <1>3, <2>3, <2>8, <3>1, ProductDrifts
    <3> QED
      BY <3>1, <3>2
  <2>10. Drifted(g, u, R!Size(g.x) + sig_digits + 20)
    <3>1. 10 \in Nat /\ 10 <= R!Size(g.x) + sig_digits + 20
      BY <1>3
    <3> QED
      BY <1>3, <2>8, <2>9, <3>1, DriftsMore
  <2>11. Drifting(g, u, number', pc')
    BY <1>3, <1>6, <2>8, <2>10 DEF Drifting
  <2> QED
    BY <1>1, <1>2, <2>7, <2>11, DriftingNext
<1> QED
  BY <1>1, <1>5, <1>6 DEF R!Split, R!Rescale, R!To

(* Every step keeps it.                                                    *)
LEMMA FloatDriftStep ==
  PrintFloatInv /\ FloatValueInv /\ FloatDriftInv /\ R!Next
    => FloatDriftInv'
<1> SUFFICES ASSUME PrintFloatInv, FloatValueInv, FloatDriftInv, R!Next,
                    input'.kind = "number"
             PROVE  FloatDriftInv'
  BY DEF FloatDriftInv
<1>1. CASE R!Start \/ R!Multiply \/ R!Divide \/ R!Split
  BY <1>1, FloatDriftStart, FloatDriftMultiply, FloatDriftDivide,
     FloatDriftSplit
<1>2. CASE \/ R!Round \/ R!Trim \/ R!Buffer \/ R!PrintDigit
           \/ R!PrintEnds
  <2>1. UNCHANGED <<input, value>>
    BY <1>2 DEF R!Round, R!Trim, R!Buffer, R!PrintDigit, R!PrintEnds
  <2>2. pc' \in {"trim", "buffer", "print", "print_exponent",
                 "buffer_exponent", "done"}
    BY <1>2
    DEF R!Round, R!Trim, R!Buffer, R!PrintDigit, R!PrintEnds, R!To
  <2> QED
    BY <2>1, <2>2, DriftStays
<1> QED
  BY <1>1, <1>2 DEF R!Next

(* So the number that is shown is near the one given.                      *)
LEMMA FloatDriftProved == FloatDriftInv => R!Accurate
BY DEF FloatDriftInv, Drifting, Drifted, R!Accurate, R!Drift

-----------------------------------------------------------------------------
(* All calls                                                               *)

(* The invariant of the function that is called.                           *)
CallsInv ==
  /\ In("UnityNumbers") => NumbersInv
  /\ In("UnityArrays") => ArraysInv
  /\ In("UnityStrings") => StringsInv
  /\ In("UnityFloats") => FloatsInv /\ F!TypeOK
  /\ In("UnityPrint") => PrintInv
  /\ In("UnityPrintFloat") =>
       PrintFloatInv /\ FloatValueInv /\ FloatDriftInv

(* Nothing changes in a step that leaves all variables alone: first the    *)
(* variables themselves ...                                                *)
AllSame ==
  /\ callee' = callee /\ call' = call
  /\ expected' = expected /\ actual' = actual
  /\ ptr_exp' = ptr_exp /\ ptr_act' = ptr_act
  /\ elements' = elements /\ bytes' = bytes
  /\ i' = i /\ j' = j
  /\ CurrentTestFailed' = CurrentTestFailed /\ outcome' = outcome
  /\ report' = report /\ line' = line /\ text' = text /\ pc' = pc
  /\ style' = style /\ input' = input /\ number' = number
  /\ divisor' = divisor /\ nibbles' = nibbles /\ out' = out
  /\ factor' = factor /\ n_int' = n_int /\ n' = n
  /\ exponent' = exponent /\ decimals' = decimals /\ buf' = buf
  /\ value' = value

(* Those are all.                                                          *)
LEMMA SameVariables == UNCHANGED vars => AllSame
BY DEF AllSame, vars, asserting, printing

(* ... and then each invariant.                                            *)
LEMMA NumbersKept == AllSame => (NumbersInv => NumbersInv')
<1> SUFFICES ASSUME AllSame PROVE NumbersInv => NumbersInv'
  OBVIOUS
<1> USE DEF AllSame
<1>1. NumberCall' <=> NumberCall
  BY DEF NumberCall
<1>2. N!TypeOK' <=> N!TypeOK
  BY DEF N!TypeOK
<1>3. N!VerdictCorrect' <=> N!VerdictCorrect
  BY DEF N!VerdictCorrect, N!Holds
<1>4. N!BitsCorrect' <=> N!BitsCorrect
  BY DEF N!BitsCorrect, N!BitsHold, N!Ones
<1> QED
  BY <1>1, <1>2, <1>3, <1>4 DEF NumbersInv

(* The assertions on arrays and memory.                                    *)
LEMMA ArraysKept == AllSame => (ArraysInv => ArraysInv')
<1> SUFFICES ASSUME AllSame PROVE ArraysInv => ArraysInv'
  OBVIOUS
<1> USE DEF AllSame
<1>1. ArrayCall' <=> ArrayCall
  BY DEF ArrayCall
<1>2. A!TypeOK' <=> A!TypeOK
  BY DEF A!TypeOK
<1>3. Begun' <=> Begun
  BY DEF Begun
<1>4. AtElement' <=> AtElement
  BY DEF AtElement, ExpectedBase, Comparing, AllSameBefore, A!Same,
     A!Size, A!Load, A!Holds, A!ExpectedAt, A!At, ActualBase
<1>5. AtByte' <=> AtByte
  BY DEF AtByte, ExpectedBase, Comparing, AllSameBefore, A!Same, A!Size,
     A!Load, A!Holds, A!ExpectedAt, A!At, ActualBase, A!Indices
<1>6. A!VerdictCorrect' <=> A!VerdictCorrect
  BY DEF A!VerdictCorrect, A!Same, A!Size, A!Load, A!Holds, A!ExpectedAt,
     A!At, A!Indices, A!EqualPointers
<1>7. A!FailureLocated' <=> A!FailureLocated
  BY DEF A!FailureLocated, A!Same, A!Size, A!Load, A!Holds, A!ExpectedAt,
     A!At, A!Indices
<1> QED
  BY <1>1, <1>2, <1>3, <1>4, <1>5, <1>6, <1>7 DEF ArraysInv

(* The assertions on strings.                                              *)
LEMMA StringsKept == AllSame => (StringsInv => StringsInv')
<1> SUFFICES ASSUME AllSame PROVE StringsInv => StringsInv'
  OBVIOUS
<1> USE DEF AllSame
<1>1. StringsInv' <=> StringsInv
  BY DEF StringsInv, StringArguments, S!Expected, Readable, Limited,
     S!expd, S!act, S!InPrint, S!EqualPointers, S!Equal, S!Content,
     S!BothThere, S!AllEqual, S!Positions, Printing, S!UnityPrintChar,
     S!Digit, PrintedAs, Ends, PrefixOf, NothingPrinted, AtPair,
     EqualBefore
<1> QED
  BY <1>1 DEF StringsInv

(* The assertions on floats.                                               *)
LEMMA FloatsKept == AllSame => (FloatsInv => FloatsInv')
<1> SUFFICES ASSUME AllSame PROVE FloatsInv => FloatsInv'
  OBVIOUS
<1> USE DEF AllSame
<1>1. FloatScalarInv' <=> FloatScalarInv
  BY DEF FloatScalarInv, FloatScalarArguments, F!Fails, F!SpecialFails,
     F!is_trait
<1>2. FloatArrayInv' <=> FloatArrayInv
  BY DEF FloatArrayInv, FloatsCompared, FloatElementWithin,
     F!ElementDelta, FloatArrayArguments, F!Pointless, F!OneArrayNull,
     F!ForceEqual, F!EqualPointers
<1> QED
  BY <1>1, <1>2 DEF FloatsInv

(* Their types.                                                            *)
LEMMA FloatTypesKept == AllSame => (F!TypeOK => F!TypeOK')
<1> SUFFICES ASSUME AllSame PROVE F!TypeOK' <=> F!TypeOK
  OBVIOUS
<1> QED
  BY DEF AllSame, F!TypeOK

(* The printing of integers.                                               *)
LEMMA PrintKept == AllSame => (PrintInv => PrintInv')
<1> SUFFICES ASSUME AllSame PROVE PrintInv => PrintInv'
  OBVIOUS
<1> USE DEF AllSame
<1>1. PrintCall' <=> PrintCall
  BY DEF PrintCall
<1>2. P!TypeOK' <=> P!TypeOK
  BY DEF P!TypeOK
<1>3. Scaling' <=> Scaling
  BY DEF Scaling, Sign, Signed, Magnitude, Decimal
<1>4. PrintingDigits' <=> PrintingDigits
  BY DEF PrintingDigits, NoLeadingZero, Skip, Signed, Magnitude,
     DecimalSoFar, Decimal
<1>5. PrintingHex' <=> PrintingHex
  BY DEF PrintingHex, Asked
<1>6. PrintingMask' <=> PrintingMask
  BY DEF PrintingMask, MaskShown, P!BitOf
<1>7. P!DecimalReadsBack' <=> P!DecimalReadsBack
  BY DEF P!DecimalReadsBack
<1>8. P!HexReadsBack' <=> P!HexReadsBack
  BY DEF P!HexReadsBack
<1>9. P!MaskReadsBack' <=> P!MaskReadsBack
  BY DEF P!MaskReadsBack, P!BitOf
<1> QED
  BY <1>1, <1>2, <1>3, <1>4, <1>5, <1>6, <1>7, <1>8, <1>9 DEF PrintInv

(* The printing of floats.                                                 *)
LEMMA PrintFloatKept == AllSame => (PrintFloatInv => PrintFloatInv')
<1> SUFFICES ASSUME AllSame PROVE PrintFloatInv => PrintFloatInv'
  OBVIOUS
<1> USE DEF AllSame
<1>1. FloatVariables' <=> FloatVariables
  BY DEF FloatVariables
<1>2. Given' <=> Given
  BY DEF Given, Nine, InRange, R!max_scaled
<1>3. AtStart' <=> AtStart
  BY <1>2 DEF AtStart, Nine
<1>4. ScalingUp' <=> ScalingUp
  BY <1>2 DEF ScalingUp, Nine, R!Scaled, R!Above, R!Below, R!Digits
<1>5. ScalingDown' <=> ScalingDown
  BY <1>2 DEF ScalingDown, Nine, R!Scaled, R!Below, R!Digits
<1>6. AtSplit' <=> AtSplit
  BY <1>2 DEF AtSplit, Power, R!Above, R!Below, R!Digits
<1>7. Filling' <=> Filling
  BY DEF Filling
<1>8. AtRound' <=> AtRound
  BY DEF AtRound
<1>9. ShortExponent' <=> ShortExponent
  BY DEF ShortExponent
<1>10. Buffering' <=> Buffering
  BY DEF Buffering
<1> QED
  BY <1>1, <1>3, <1>4, <1>5, <1>6, <1>7, <1>8, <1>9, <1>10
  DEF PrintFloatInv

(* What is printed of one.                                                 *)
LEMMA FloatValueKept == AllSame => (FloatValueInv => FloatValueInv')
<1> SUFFICES ASSUME AllSame, FloatValueInv, input'.kind = "number"
             PROVE  FloatValueInv'
  BY DEF FloatValueInv
<1>1. /\ UNCHANGED <<input, value, number, factor, n_int, n, exponent>>
      /\ UNCHANGED <<decimals, buf, out, pc>>
  BY DEF AllSame
<1>2. TheNumber'
  BY <1>1, TheNumberNext DEF FloatValueInv
<1>3. OnlySign => OnlySign'
  BY <1>1, OnlySignNext DEF OnlySign
<1>4. Unscaled => Unscaled'
  BY <1>1 DEF Unscaled
<1>5. Filled => Filled'
  <2> SUFFICES ASSUME Filled PROVE Filled'
    OBVIOUS
  <2>1. PICK k \in Nat :
          /\ n_int = k * R!TenTo[factor] /\ SplitInto(value, k, number)
          /\ Power(value) >= 1
          /\ \/ Power(value) + factor <= sig_digits
             \/ /\ factor = 0 /\ Power(value) = sig_digits + 1
                /\ IsTenTo(value)
    BY DEF Filled
  <2> QED
    BY <1>1, <2>1, FilledNext
<1>6. Rounding => Rounding'
  BY <1>1, RoundingNext DEF Rounding
<1>7. Trimmed => Trimmed'
  BY <1>1, TrimmedNext DEF Trimmed
<1>8. Buffered => Buffered'
  BY <1>1, BufferedNext DEF Buffered
<1>9. Showing => Showing'
  BY <1>1, ShowingNext DEF Showing
<1>10. BufferedExponent => BufferedExponent'
  BY <1>1, BufferedExponentNext DEF BufferedExponent
<1>11. ShowingExponent => ShowingExponent'
  BY <1>1, ShowingExponentNext DEF ShowingExponent
<1>12. Shows => Shows'
  BY <1>1, ShowsNext DEF Shows
<1> QED
  BY <1>1, <1>2, <1>3, <1>4, <1>5, <1>6, <1>7, <1>8, <1>9, <1>10, <1>11,
     <1>12
  DEF FloatValueInv

(* How far the roundings have moved it.                                    *)
LEMMA FloatDriftKept == AllSame => (FloatDriftInv => FloatDriftInv')
<1> SUFFICES ASSUME AllSame, FloatDriftInv, input'.kind = "number"
             PROVE  FloatDriftInv'
  BY DEF FloatDriftInv
<1>1. UNCHANGED <<input, value, number, pc>>
  BY DEF AllSame
<1>2. Drifting(input.value, value', number', pc')
  BY <1>1 DEF FloatDriftInv
<1> QED
  BY <1>1, <1>2, DriftingNext

(* Every call begins with the invariant.                                   *)
LEMMA CallsInit == Init => CallsInv
<1> SUFFICES ASSUME Init PROVE CallsInv
  OBVIOUS
<1>1. CASE callee = "UnityNumbers" /\ N!Init
  BY <1>1, NumbersInit DEF CallsInv, In
<1>2. CASE callee = "UnityArrays" /\ A!Init
  BY <1>2, ArraysInit DEF CallsInv, In
<1>3. CASE callee = "UnityStrings" /\ S!Init
  BY <1>3, StringsInit DEF CallsInv, In
<1>4. CASE callee = "UnityFloats" /\ F!Init
  BY <1>4, FloatsInit, FloatTypesInit DEF CallsInv, In
<1>5. CASE callee = "UnityPrint" /\ P!Init
  BY <1>5, PrintInit DEF CallsInv, In
<1>6. CASE callee = "UnityPrintFloat" /\ R!Init
  BY <1>6, PrintFloatInit, FloatValueInit, FloatDriftInit DEF CallsInv, In
<1> QED
  BY <1>1, <1>2, <1>3, <1>4, <1>5, <1>6 DEF Init

(* A step of the function called keeps it, and leaves the others uncalled. *)
LEMMA CallsStep == CallsInv /\ [Next]_vars => CallsInv'
<1> SUFFICES ASSUME CallsInv, [Next]_vars PROVE CallsInv'
  OBVIOUS
<1>1. CASE AssertNumber
  <2>1. callee = "UnityNumbers" /\ callee' = callee /\ N!Next
    BY <1>1 DEF AssertNumber, Runs
  <2>2. NumbersInv
    BY <2>1 DEF CallsInv, In
  <2>3. NumbersInv'
    BY <2>1, <2>2, NumbersStep
  <2> QED
    BY <2>1, <2>3 DEF CallsInv, In
<1>2. CASE AssertArray
  <2>1. callee = "UnityArrays" /\ callee' = callee /\ A!Next
    BY <1>2 DEF AssertArray, Runs
  <2>2. ArraysInv
    BY <2>1 DEF CallsInv, In
  <2>3. ArraysInv'
    BY <2>1, <2>2, ArraysStep
  <2> QED
    BY <2>1, <2>3 DEF CallsInv, In
<1>3. CASE AssertString
  <2>1. callee = "UnityStrings" /\ callee' = callee /\ S!Next
    BY <1>3 DEF AssertString, Runs
  <2>2. StringsInv
    BY <2>1 DEF CallsInv, In
  <2>3. StringsInv'
    BY <2>1, <2>2, StringsStep
  <2> QED
    BY <2>1, <2>3 DEF CallsInv, In
<1>4. CASE AssertFloat
  <2>1. callee = "UnityFloats" /\ callee' = callee /\ F!Next
    BY <1>4 DEF AssertFloat, Runs
  <2>2. FloatsInv /\ F!TypeOK
    BY <2>1 DEF CallsInv, In
  <2>3. FloatsInv' /\ F!TypeOK'
    BY <2>1, <2>2, FloatsStep, FloatTypesStep
  <2> QED
    BY <2>1, <2>3 DEF CallsInv, In
<1>5. CASE PrintInteger
  <2>1. callee = "UnityPrint" /\ callee' = callee /\ P!Next
    BY <1>5 DEF PrintInteger, Runs
  <2>2. PrintInv
    BY <2>1 DEF CallsInv, In
  <2>3. PrintInv'
    BY <2>1, <2>2, PrintStep
  <2> QED
    BY <2>1, <2>3 DEF CallsInv, In
<1>6. CASE PrintFloat
  <2>1. callee = "UnityPrintFloat" /\ callee' = callee /\ R!Next
    BY <1>6 DEF PrintFloat, Runs
  <2>2. PrintFloatInv /\ FloatValueInv /\ FloatDriftInv
    BY <2>1 DEF CallsInv, In
  <2>3. PrintFloatInv' /\ FloatValueInv' /\ FloatDriftInv'
    BY <2>1, <2>2, PrintFloatStep, FloatValueStep, FloatDriftStep
  <2> QED
    BY <2>1, <2>3 DEF CallsInv, In
<1>7. CASE UNCHANGED vars
  <2>1. AllSame /\ callee' = callee
    BY <1>7, SameVariables DEF AllSame
  <2> QED
    BY <2>1, NumbersKept, ArraysKept, StringsKept, FloatsKept,
       FloatTypesKept, PrintKept, PrintFloatKept, FloatValueKept,
       FloatDriftKept
    DEF CallsInv, In
<1> QED
  BY <1>1, <1>2, <1>3, <1>4, <1>5, <1>6, <1>7 DEF Next

(* The invariant holds throughout every call.                              *)
LEMMA CallsAlways == Spec => []CallsInv
BY CallsInit, CallsStep, PTL DEF Spec

(* An assertion on numbers, bits, arrays, memory or strings passes exactly *)
(* when what it says holds of its arguments, for integers of any width and *)
(* arrays and strings of any length.                                       *)
THEOREM VerdictsAlwaysCorrect == Spec => []VerdictCorrect
<1>1. CallsInv => VerdictCorrect
  BY StringVerdictProved DEF CallsInv, VerdictCorrect, NumbersInv, ArraysInv
<1> QED
  BY <1>1, CallsAlways, PTL

(* So does one on floats, with infinities and NaN, and floats that it      *)
(* calls equal are close, whatever the precision.                          *)
THEOREM FloatVerdictsAlwaysCorrect == Spec => []FloatVerdictCorrect
<1>1. CallsInv => FloatVerdictCorrect
  BY NearnessProved, EqualProved, OrderProved, TraitsProved, ArraysProved
  DEF CallsInv, FloatVerdictCorrect
<1> QED
  BY <1>1, CallsAlways, PTL

(* What is printed of a failure accounts for it.                           *)
THEOREM FailuresAlwaysExplained == Spec => []FailureExplained
<1>1. CallsInv => FailureExplained
  BY NumbersExplained, StringsExplained
  DEF CallsInv, FailureExplained, ArraysInv
<1> QED
  BY <1>1, CallsAlways, PTL

(* What is printed of strings stays on its line.                           *)
THEOREM AlwaysOneLine == Spec => []OneLine
<1>1. CallsInv => OneLine
  BY OneLineProved DEF CallsInv, OneLine
<1> QED
  BY <1>1, CallsAlways, PTL

(* Integers of any width are printed as what reads back as them, and no    *)
(* divisor overflows.                                                      *)
THEOREM IntegersAlwaysReadBack == Spec => []IntegersReadBack
<1>1. CallsInv => IntegersReadBack
  BY DivisorFitsProved DEF CallsInv, IntegersReadBack, PrintInv
<1> QED
  BY <1>1, CallsAlways, PTL

(* A float is printed, to half a unit of the last of its sig_digits digits *)
(* and with its sign and in the form intended, as what the roundings of    *)
(* its products made of it, whichever way these went and whatever the      *)
(* digits and the exponents of floats ...                                  *)
THEOREM FloatsAlwaysReadBack == Spec => []FloatsReadBack
<1>1. CallsInv => FloatsReadBack
  BY FloatValueProved DEF CallsInv, FloatsReadBack
<1> QED
  BY <1>1, CallsAlways, PTL

(* ... and these are no more than one in ten digits of its exponent and    *)
(* two for those of its mantissa and for the rest, whatever the precision. *)
THEOREM FloatsAlwaysAccurate == Spec => []FloatsAccurate
<1>1. CallsInv => FloatsAccurate
  BY FloatDriftProved DEF CallsInv, FloatsAccurate
<1> QED
  BY <1>1, CallsAlways, PTL

(* The variables of every function keep their types, the flag that fails a *)
(* test among them.                                                        *)
THEOREM TypesAlwaysCorrect == Spec => []TypeOK
<1>1. CallsInv => TypeOK
  BY StringTypesProved, PrintFloatProved
  DEF CallsInv, TypeOK, NumbersInv, ArraysInv, PrintInv
<1> QED
  BY <1>1, CallsAlways, PTL

(* No function reads outside what it is given, whatever the lengths of its *)
(* arrays and strings, but UnityPrintLen one character: where it is to     *)
(* show a failure of UnityAssertEqualStringLen on a buffer with no         *)
(* terminator, exactly as long as the length it is given.  And the buffer  *)
(* of UnityPrintFloat holds what is stored in it.                          *)
THEOREM AlwaysInBounds == Spec => []InBounds
<1>1. CallsInv => InBounds
  BY ArrayBoundsProved, StringBoundsProved, FloatBoundsProved,
     PrintFloatProved
  DEF CallsInv, InBounds
<1> QED
  BY <1>1, CallsAlways, PTL

=============================================================================
