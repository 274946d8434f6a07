-------------------------- MODULE Base64UrlProof --------------------------
(***************************************************************************)
(* The decoder of src/src/base64.c and src/src/utils.c is right for inputs *)
(* of every length that an int can count.                                  *)
(***************************************************************************)
EXTENDS Base64Url, Base64RefProof

P == PrefixLen(in)

(* The first k bytes of out are decoded.                                   *)
DecodedTo(k) == \A j \in 1..k : out[j] = ByteAt(in, j - 1)

Buffer == out \in Seq(Byte) /\ Len(out) = BufferSize(P)

(* What holds at each step, beyond the types.                              *)
AtStep ==
  /\ pc \in {"check", "len", "calloc"} => bufout = 0 /\ out = NULL
  /\ pc \in {"check", "calloc"} => bufin = 0
  /\ pc = "calloc" => out_sz = BufferSize(P)
  /\ pc = "scan" => bufout = 0 /\ Buffer
  /\ pc \in {"len", "scan"} => bufin <= P
  /\ pc = "decode" => /\ Buffer
                      /\ bufin + nprbytes = P
                      /\ bufin % 4 = 0 /\ bufout = 3 * (bufin \div 4)
                      /\ nprbytes = 0 => bufin = 0
                      /\ nbytesdecoded = ((P + 3) \div 4) * 3
                      /\ DecodedTo(bufout)
  /\ pc = "return" => /\ Buffer /\ bufout <= Len(out) /\ out_sz < bufout
                      /\ out_sz = DecodedLen(in) /\ out_sz > 0
                      /\ DecodedTo(out_sz)
  /\ pc = "err" => out = NULL \/ bufout <= Len(out)
  /\ pc # "done" => pout = NULL /\ pout_sz = NULL /\ ret = NULL
  /\ pc = "done" =>
       \/ /\ ret = 0 /\ Buffer /\ bufout <= Len(out) /\ pout_sz < bufout
          /\ pout = out /\ pout_sz = DecodedLen(in) /\ pout_sz > 0
          /\ DecodedTo(pout_sz)
       \/ ret = -1 /\ out = NULL /\ pout = NULL /\ pout_sz = NULL

IInv == TypeOK /\ AtStep

(* The input is a string an int can count, and its digits end inside it.   *)
LEMMA InputFact ==
  ASSUME in \in Input
  PROVE  /\ in \in Seq(Char)
         /\ Len(in) \in Nat /\ IntMax \in Nat /\ Len(in) + 3 <= IntMax
         /\ P \in Nat /\ P <= Len(in)
         /\ \A i \in 0..(P - 1) : IsDigit(CharAt(in, i))
         /\ ~ IsDigit(CharAt(in, P))
<1>1. in \in Seq(Char) /\ Len(in) + 3 <= IntMax
  BY InputAssumption
<1>2. P \in 0..Len(in) /\ IsPrefixLen(in, P)
  BY <1>1, PrefixLenFact DEF P
<1> QED
  BY <1>1, <1>2, IntMaxAssumption DEF IsPrefixLen

(* A group of m digits decodes to the next m - 1 bytes of the reference.   *)
LEMMA GroupFact ==
  ASSUME in \in Seq(Char), NEW i \in Nat, i % 4 = 0, NEW m \in 0..4,
         \A j \in i..(i + m - 1) : IsDigit(CharAt(in, j))
  PROVE  /\ Group(i, m) \in Seq(Byte)
         /\ Len(Group(i, m)) = IF m = 0 THEN 0 ELSE m - 1
         /\ \A k \in 1..(m - 1) :
              Group(i, m)[k] = ByteAt(in, 3 * (i \div 4) + k - 1)
<1> DEFINE b1 == ByteAt(in, 3 * (i \div 4))
           b2 == ByteAt(in, 3 * (i \div 4) + 1)
           b3 == ByteAt(in, 3 * (i \div 4) + 2)
<1>1. ASSUME NEW j \in i..(i + m - 1) PROVE Six(in, j) \in 0..63
  <2>1. j \in Nat
    OBVIOUS
  <2> QED
    BY <2>1, SixFact
<1>2. /\ b1 = Six(in, i) * 4 + Six(in, i + 1) \div 16
      /\ b2 = (Six(in, i + 1) % 16) * 16 + Six(in, i + 2) \div 4
      /\ b3 = (Six(in, i + 2) % 4) * 64 + Six(in, i + 3)
  <2>1. PICK g \in Nat : g = i \div 4 /\ i = 4 * g
    OBVIOUS
  <2>2. b1 = Six(in, i) * 4 + Six(in, i + 1) \div 16
    <3>1. (3 * g) \div 3 = g /\ (3 * g) % 3 = 0
      OBVIOUS
    <3> QED
      BY <2>1, <3>1 DEF ByteAt
  <2>3. b2 = (Six(in, i + 1) % 16) * 16 + Six(in, i + 2) \div 4
    <3>1. (3 * g + 1) \div 3 = g /\ (3 * g + 1) % 3 = 1
      OBVIOUS
    <3> QED
      BY <2>1, <3>1 DEF ByteAt
  <2>4. b3 = (Six(in, i + 2) % 4) * 64 + Six(in, i + 3)
    <3> DEFINE k == 3 * (i \div 4) + 2
    <3>1. k \div 3 = g /\ k % 3 = 2
      BY <2>1
    <3> HIDE DEF k
    <3>2. ByteAt(in, k) = (Six(in, 4 * g + 2) % 4) * 64 + Six(in, 4 * g + 3)
      BY <3>1 DEF ByteAt
    <3> QED
      BY <2>1, <3>2 DEF k
  <2> QED
    BY <2>2, <2>3, <2>4
<1> DEFINE c1 == ((Six(in, i) * 4) % 256) + Six(in, i + 1) \div 16
           c2 == ((Six(in, i + 1) * 16) % 256) + Six(in, i + 2) \div 4
           c3 == ((Six(in, i + 2) * 64) % 256) + Six(in, i + 3)
<1>3. m > 1 => c1 = b1 /\ c1 \in Byte
  <2> SUFFICES ASSUME m > 1 PROVE c1 = b1 /\ c1 \in Byte
    OBVIOUS
  <2>1. i \in i..(i + m - 1) /\ i + 1 \in i..(i + m - 1)
    OBVIOUS
  <2>2. Six(in, i) \in 0..63 /\ Six(in, i + 1) \in 0..63
    BY <1>1, <2>1
  <2>3. PICK x \in 0..63, y \in 0..63 : x = Six(in, i) /\ y = Six(in, i + 1)
    BY <2>2, Zenon
  <2>4. b1 = x * 4 + y \div 16
    BY <1>2, <2>3
  <2>5. c1 = ((x * 4) % 256) + y \div 16
    BY <2>3
  <2>6. (x * 4) % 256 = x * 4 /\ x * 4 + y \div 16 \in 0..255
    OBVIOUS
  <2> HIDE DEF b1, c1
  <2> QED
    BY <2>4, <2>5, <2>6 DEF Byte
<1>4. m > 2 => c2 = b2 /\ c2 \in Byte
  <2> SUFFICES ASSUME m > 2 PROVE c2 = b2 /\ c2 \in Byte
    OBVIOUS
  <2>1. i + 1 \in i..(i + m - 1) /\ i + 2 \in i..(i + m - 1)
    OBVIOUS
  <2>2. Six(in, i + 1) \in 0..63 /\ Six(in, i + 2) \in 0..63
    BY <1>1, <2>1
  <2>3. PICK x \in 0..63, y \in 0..63 : x = Six(in, i + 1) /\ y = Six(in, i + 2)
    BY <2>2, Zenon
  <2>4. b2 = (x % 16) * 16 + y \div 4
    BY <1>2, <2>3
  <2>5. c2 = ((x * 16) % 256) + y \div 4
    BY <2>3
  <2>6. (x * 16) % 256 = (x % 16) * 16 /\ (x % 16) * 16 + y \div 4 \in 0..255
    OBVIOUS
  <2> HIDE DEF b2, c2
  <2> QED
    BY <2>4, <2>5, <2>6 DEF Byte
<1>5. m > 3 => c3 = b3 /\ c3 \in Byte
  <2> SUFFICES ASSUME m > 3 PROVE c3 = b3 /\ c3 \in Byte
    OBVIOUS
  <2>1. i + 2 \in i..(i + m - 1) /\ i + 3 \in i..(i + m - 1)
    OBVIOUS
  <2>2. Six(in, i + 2) \in 0..63 /\ Six(in, i + 3) \in 0..63
    BY <1>1, <2>1
  <2>3. PICK x \in 0..63, y \in 0..63 : x = Six(in, i + 2) /\ y = Six(in, i + 3)
    BY <2>2, Zenon
  <2>4. b3 = (x % 4) * 64 + y
    BY <1>2, <2>3
  <2>5. c3 = ((x * 64) % 256) + y
    BY <2>3
  <2>6. (x * 64) % 256 = (x % 4) * 64 /\ (x % 4) * 64 + y \in 0..255
    OBVIOUS
  <2> HIDE DEF b3, c3
  <2> QED
    BY <2>4, <2>5, <2>6 DEF Byte
<1>6. Group(i, m) = SubSeq(<<c1, c2, c3>>, 1, m - 1)
  BY DEF Group
<1> HIDE DEF c1, c2, c3
<1>7. CASE m \in {0, 1}
  BY <1>6, <1>7
<1>8. CASE m = 2
  BY <1>3, <1>6, <1>8
<1>9. CASE m = 3
  BY <1>3, <1>4, <1>6, <1>9
<1>10. CASE m = 4
  BY <1>3, <1>4, <1>5, <1>6, <1>10
<1> QED
  BY <1>7, <1>8, <1>9, <1>10

(* The invariant holds initially.                                          *)
LEMMA InitIInv == Init => IInv
<1> SUFFICES ASSUME Init PROVE IInv
  OBVIOUS
<1>1. in \in Seq(Char) /\ P \in Nat
  BY InputFact DEF Init
<1> QED
  BY <1>1, IntMaxAssumption DEF Init, IInv, TypeOK, AtStep

(* The scan stops at P, from wherever it has got to.                       *)
LEMMA ScanFact ==
  ASSUME in \in Input, bufin \in Nat, bufin <= P
  PROVE  IsDigit(CharAt(in, bufin)) <=> bufin # P
BY InputFact

(* The empty input is sent to err before anything is allocated.            *)
LEMMA CheckStep == IInv /\ Check => IInv'
BY InputFact DEF IInv, TypeOK, AtStep, Check, P

(* A scan that reads a digit has not reached the terminator.               *)
LEMMA ScanStep == IInv /\ Scan => IInv'
<1> SUFFICES ASSUME IInv, Scan PROVE IInv'
  OBVIOUS
<1>1. in \in Input /\ bufin \in Nat /\ bufin <= P
  BY DEF IInv, TypeOK, AtStep, Scan
<1>2. bufin # P /\ P \in Nat /\ P + 3 <= IntMax
  BY <1>1, ScanFact, InputFact DEF Scan
<1>3. P' = P
  BY DEF Scan, P
<1>4. TypeOK'
  BY <1>1, <1>2, IntMaxAssumption DEF IInv, TypeOK, Scan, Advanced
<1> QED
  BY <1>1, <1>2, <1>3, <1>4 DEF IInv, AtStep, Scan, Advanced, Buffer

(* Neither size computed from n digits exceeds what is computed on the way. *)
LEMMA SizeFact ==
  ASSUME NEW n \in Nat
  PROVE  /\ ((n + 3) \div 4) * 3 \in 0..(n + 3)
         /\ BufferSize(n) \in 1..(n + 3)
<1>1. PICK g \in Nat : g = (n + 3) \div 4 /\ 4 * g <= n + 3
  OBVIOUS
<1>2. g * 3 + 1 <= n + 3
  BY <1>1
<1> QED
  BY <1>1, <1>2 DEF BufferSize

(* The first scan stops at the end of the longest prefix of digits.        *)
LEMMA DecodeLenStep == IInv /\ DecodeLen => IInv'
<1> SUFFICES ASSUME IInv, DecodeLen PROVE IInv'
  OBVIOUS
<1>1. in \in Input /\ bufin \in Nat /\ bufin <= P
  BY DEF IInv, TypeOK, AtStep, DecodeLen
<1>2. bufin = P /\ P \in Nat /\ P + 3 <= IntMax
  BY <1>1, ScanFact, InputFact DEF DecodeLen
<1>3. P' = P
  BY DEF DecodeLen, P
<1>4. out_sz' = BufferSize(P) /\ BufferSize(P) \in 1..IntMax
  BY <1>2, SizeFact, IntMaxAssumption DEF DecodeLen
<1>5. pc' = "calloc"
  BY <1>4 DEF DecodeLen, Empty
<1> QED
  BY <1>3, <1>4, <1>5, IntMaxAssumption DEF IInv, TypeOK, AtStep, DecodeLen

(* The buffer has the computed size, and is filled with zero bytes.        *)
LEMMA CallocStep == IInv /\ Calloc => IInv'
<1> SUFFICES ASSUME IInv, Calloc PROVE IInv'
  OBVIOUS
<1>1. in \in Input /\ P \in Nat /\ P' = P
  BY InputFact DEF IInv, TypeOK, Calloc, P
<1>2. CASE pc' = "err"
  BY <1>1, <1>2 DEF IInv, TypeOK, AtStep, Calloc
<1>3. CASE pc' = "scan"
  <2>1. out_sz = BufferSize(P) /\ out_sz \in Nat
    BY <1>1, <1>3 DEF IInv, AtStep, Calloc, BufferSize
  <2>2. out' = [j \in 1..out_sz |-> 0]
    BY <1>3 DEF Calloc
  <2>3. out' \in Seq(Byte) /\ Len(out') = BufferSize(P)
    BY <2>1, <2>2 DEF Byte
  <2> QED
    BY <1>1, <1>3, <2>3 DEF IInv, TypeOK, AtStep, Calloc, Buffer
<1> QED
  BY <1>2, <1>3 DEF Calloc

(* The second scan stops where the first did.                              *)
LEMMA StartDecodeStep == IInv /\ StartDecode => IInv'
<1> SUFFICES ASSUME IInv, StartDecode PROVE IInv'
  OBVIOUS
<1>1. in \in Input /\ bufin \in Nat /\ bufin <= P
  BY DEF IInv, TypeOK, AtStep, StartDecode
<1>2. bufin = P /\ P \in Nat /\ P + 3 <= IntMax
  BY <1>1, ScanFact, InputFact DEF StartDecode
<1>3. P' = P
  BY DEF StartDecode, P
<1>4. nbytesdecoded' = ((P + 3) \div 4) * 3 /\ nbytesdecoded' \in 0..IntMax
  BY <1>2, SizeFact, IntMaxAssumption DEF StartDecode
<1> QED
  BY <1>2, <1>3, <1>4, IntMaxAssumption
     DEF IInv, TypeOK, AtStep, StartDecode, Buffer, DecodedTo

(* A store inside the buffer puts the bytes where they belong and leaves   *)
(* those before them alone.                                                *)
LEMMA StoredFact ==
  ASSUME out \in Seq(Byte), NEW i \in Nat, NEW b \in Seq(Byte),
         i + Len(b) <= Len(out)
  PROVE  /\ Stored(i, b) \in Seq(Byte)
         /\ Len(Stored(i, b)) = Len(out)
         /\ \A j \in 1..i : Stored(i, b)[j] = out[j]
         /\ \A k \in 1..Len(b) : Stored(i, b)[i + k] = b[k]
<1>1. Len(out) \in Nat /\ Len(b) \in Nat /\ DOMAIN out = 1..Len(out)
      /\ DOMAIN b = 1..Len(b)
  OBVIOUS
<1>2. Stored(i, b) = [j \in 1..Len(out) |->
                        IF j - i \in 1..Len(b) THEN b[j - i] ELSE out[j]]
  BY <1>1 DEF Stored
<1>3. ASSUME NEW j \in 1..Len(out)
      PROVE  (IF j - i \in 1..Len(b) THEN b[j - i] ELSE out[j]) \in Byte
  OBVIOUS
<1>4. Stored(i, b) \in Seq(Byte) /\ Len(Stored(i, b)) = Len(out)
  BY <1>1, <1>2, <1>3
<1>5. ASSUME NEW j \in 1..i PROVE Stored(i, b)[j] = out[j]
  BY <1>1, <1>2
<1>6. ASSUME NEW k \in 1..Len(b) PROVE Stored(i, b)[i + k] = b[k]
  <2>1. i + k \in 1..Len(out) /\ (i + k) - i = k
    BY <1>1
  <2> QED
    BY <1>2, <2>1
<1> QED
  BY <1>4, <1>5, <1>6

(* One more group of four digits, three more bytes of the result.          *)
LEMMA DecodeGroupStep == IInv /\ DecodeGroup => IInv'
<1> SUFFICES ASSUME IInv, DecodeGroup PROVE IInv'
  OBVIOUS
<1> DEFINE b == Group(bufin, 4)
<1>1. /\ in \in Seq(Char) /\ P \in Nat /\ P + 3 <= IntMax /\ P' = P
      /\ bufin \in Nat /\ nprbytes \in Nat /\ bufin + nprbytes = P
      /\ nprbytes > 4 /\ bufin % 4 = 0 /\ bufout = 3 * (bufin \div 4)
      /\ Buffer /\ DecodedTo(bufout)
  BY InputFact DEF IInv, TypeOK, AtStep, DecodeGroup, More, P
<1>2. ASSUME NEW j \in bufin..(bufin + 4 - 1) PROVE IsDigit(CharAt(in, j))
  <2>1. j \in 0..(P - 1)
    BY <1>1
  <2> QED
    BY <2>1, InputFact DEF IInv, TypeOK
<1>3. /\ b \in Seq(Byte) /\ Len(b) = 3
      /\ \A k \in 1..3 : b[k] = ByteAt(in, bufout + k - 1)
  <2>1. /\ b \in Seq(Byte)
        /\ Len(b) = IF 4 = 0 THEN 0 ELSE 4 - 1
        /\ \A k \in 1..(4 - 1) : b[k] = ByteAt(in, 3 * (bufin \div 4) + k - 1)
    <3> HIDE DEF b
    <3>1. 4 \in 0..4
      OBVIOUS
    <3> QED
      BY <1>1, <1>2, <3>1, GroupFact DEF b
  <2> HIDE DEF b
  <2> QED
    BY <1>1, <2>1
<1> HIDE DEF b
<1>4. PICK g \in Nat : bufin = 4 * g /\ bufout = 3 * g
  BY <1>1
<1>5. /\ bufin' = 4 * (g + 1) /\ bufout' = 3 * (g + 1) /\ bufin' < P
      /\ bufin' % 4 = 0 /\ bufin' \div 4 = g + 1
      /\ nprbytes' \in Nat \ {0} /\ bufin' + nprbytes' = P
  BY <1>1, <1>4 DEF DecodeGroup
<1>6. bufout' <= BufferSize(P) /\ bufout' \in 0..IntMax
  <2>1. (P + 3) \div 4 >= g + 1
    BY <1>1, <1>5
  <2>2. BufferSize(P) \in 1..(P + 3)
    BY <1>1, SizeFact
  <2> QED
    BY <1>1, <1>5, <2>1, <2>2, IntMaxAssumption DEF BufferSize
<1>7. /\ out' \in Seq(Byte) /\ Len(out') = Len(out)
      /\ \A j \in 1..bufout : out'[j] = out[j]
      /\ \A k \in 1..3 : out'[bufout + k] = b[k]
  <2>1. out' = Stored(bufout, b)
    BY DEF DecodeGroup, b
  <2>2. bufout \in Nat /\ bufout + Len(b) <= Len(out) /\ out \in Seq(Byte)
    BY <1>1, <1>3, <1>4, <1>5, <1>6 DEF Buffer
  <2>3. /\ out' \in Seq(Byte) /\ Len(out') = Len(out)
        /\ \A j \in 1..bufout : out'[j] = out[j]
        /\ \A k \in 1..Len(b) : out'[bufout + k] = b[k]
    BY <1>3, <2>1, <2>2, StoredFact
  <2> QED
    BY <1>3, <2>3
<1>8. DecodedTo(bufout)'
  <2> SUFFICES ASSUME NEW j \in 1..bufout' PROVE out'[j] = ByteAt(in, j - 1)
    BY DEF DecodedTo, DecodeGroup
  <2>1. CASE j \in 1..bufout
    BY <1>1, <1>7, <2>1 DEF DecodedTo
  <2>2. CASE j \notin 1..bufout
    <3>1. PICK k \in 1..3 : j = bufout + k
      BY <1>4, <1>5, <2>2
    <3>2. bufout + k - 1 = j - 1
      BY <1>4, <3>1
    <3>3. out'[j] = b[k] /\ b[k] = ByteAt(in, bufout + k - 1)
      BY <1>3, <1>7, <3>1
    <3> QED
      BY <3>2, <3>3
  <2> QED
    BY <2>1, <2>2
<1>9. TypeOK'
  <2>1. bufin' \in 0..IntMax /\ nprbytes' \in 0..IntMax
    <3>1. bufin' \in 0..IntMax
      BY <1>1, <1>4, <1>5, IntMaxAssumption
    <3>2. nprbytes' \in 0..IntMax
      BY <1>1, IntMaxAssumption DEF IInv, TypeOK, DecodeGroup
    <3> QED
      BY <3>1, <3>2
  <2> QED
    BY <1>6, <1>7, <2>1 DEF IInv, TypeOK, DecodeGroup
<1>10. Buffer'
  BY <1>1, <1>7 DEF Buffer
<1>11. AtStep'
  BY <1>1, <1>5, <1>8, <1>10 DEF IInv, AtStep, DecodeGroup
<1> QED
  BY <1>9, <1>11 DEF IInv

(* The last digits, the terminator, and the count of the bytes.            *)
LEMMA DecodeTailStep ==
  IInv /\ DecodeTail => IInv' /\ out_sz' = DecodedLen(in)
<1> SUFFICES ASSUME IInv, DecodeTail PROVE IInv' /\ out_sz' = DecodedLen(in)
  OBVIOUS
<1> DEFINE m == nprbytes
           b == Group(bufin, m)
           c == Append(b, 0)
<1>1. /\ in \in Seq(Char) /\ P \in Nat /\ P + 3 <= IntMax /\ P' = P
      /\ bufin \in Nat /\ m \in 0..4 /\ bufin + m = P
      /\ m = 0 => bufin = 0
      /\ bufin % 4 = 0 /\ bufout = 3 * (bufin \div 4)
      /\ nbytesdecoded = ((P + 3) \div 4) * 3
      /\ Buffer /\ DecodedTo(bufout)
  <2>1. in \in Seq(Char) /\ P \in Nat /\ P + 3 <= IntMax
    BY InputFact DEF IInv, TypeOK
  <2>2. P' = P
    BY DEF DecodeTail, P
  <2>3. bufin \in Nat /\ m \in 0..4
    BY DEF IInv, TypeOK, DecodeTail, More
  <2> QED
    BY <2>1, <2>2, <2>3 DEF IInv, AtStep, DecodeTail
<1>2. ASSUME NEW j \in bufin..(bufin + m - 1) PROVE IsDigit(CharAt(in, j))
  <2>1. j \in 0..(P - 1)
    BY <1>1
  <2> QED
    BY <2>1, InputFact DEF IInv, TypeOK
<1>3. /\ b \in Seq(Byte) /\ Len(b) = IF m = 0 THEN 0 ELSE m - 1
      /\ \A k \in 1..(m - 1) : b[k] = ByteAt(in, 3 * (bufin \div 4) + k - 1)
  <2> HIDE DEF m, b
  <2> QED
    BY <1>1, <1>2, GroupFact DEF b
<1>4. PICK g \in Nat : bufin = 4 * g /\ bufout = 3 * g
  BY <1>1
<1> HIDE DEF b
<1>5. /\ c \in Seq(Byte) /\ Len(c) = Len(b) + 1
      /\ \A k \in 1..Len(b) : c[k] = b[k]
  BY <1>3 DEF Byte
<1> HIDE DEF c
<1>6. /\ bufout + Len(b) = DecodedLen(in)
      /\ out_sz' = DecodedLen(in) /\ nbytesdecoded' = out_sz'
      /\ bufout' = bufout + Len(b) + 1 /\ bufout' <= BufferSize(P)
  <2>1. bufout' = bufout + Len(b) + 1
    BY DEF DecodeTail, b
  <2>2. /\ out_sz' = ((4 * g + m + 3) \div 4) * 3 - ((4 - m) % 4)
        /\ nbytesdecoded' = out_sz'
    BY <1>1, <1>4 DEF DecodeTail
  <2>3. DecodedLen(in) = (6 * (4 * g + m)) \div 8
    BY <1>1, <1>4 DEF DecodedLen, P
  <2>4. BufferSize(P) = ((4 * g + m + 3) \div 4) * 3 + 1
    BY <1>1, <1>4 DEF BufferSize
  <2>5. CASE m = 0
    <3>1. g = 0
      BY <1>1, <1>4, <2>5
    <3> QED
      BY <1>3, <1>4, <2>1, <2>2, <2>3, <2>4, <2>5, <3>1
  <2>6. CASE m # 0
    <3>1. (4 * g + m + 3) \div 4 = g + 1
      BY <1>1, <2>6
    <3>2. (4 - m) % 4 = 4 - m
      BY <1>1, <2>6
    <3>3. (6 * (4 * g + m)) \div 8 = 3 * g + m - 1
      BY <1>1, <2>6
    <3>4. Len(b) = m - 1
      BY <1>3, <2>6
    <3> HIDE DEF m
    <3> QED
      BY <1>1, <1>4, <2>1, <2>2, <2>3, <2>4, <3>1, <3>2, <3>3, <3>4
  <2> QED
    BY <2>5, <2>6
<1>7. /\ out' \in Seq(Byte) /\ Len(out') = Len(out)
      /\ \A j \in 1..bufout : out'[j] = out[j]
      /\ \A k \in 1..Len(b) : out'[bufout + k] = b[k]
  <2>1. out' = Stored(bufout, c)
    BY DEF DecodeTail, b, c
  <2>2. bufout \in Nat /\ bufout + Len(c) <= Len(out) /\ out \in Seq(Byte)
    <3>1. bufout \in Nat /\ Len(b) \in Nat /\ Len(c) = Len(b) + 1
      BY <1>3, <1>4, <1>5
    <3>2. bufout + Len(b) + 1 <= BufferSize(P)
      BY <1>6
    <3>3. out \in Seq(Byte) /\ Len(out) = BufferSize(P)
      BY <1>1 DEF Buffer
    <3> QED
      BY <3>1, <3>2, <3>3
  <2>3. /\ out' \in Seq(Byte) /\ Len(out') = Len(out)
        /\ \A j \in 1..bufout : out'[j] = out[j]
        /\ \A k \in 1..Len(c) : out'[bufout + k] = c[k]
    BY <1>5, <2>1, <2>2, StoredFact
  <2> QED
    BY <1>3, <1>5, <2>3
<1>8. DecodedTo(out_sz)'
  <2> SUFFICES ASSUME NEW j \in 1..out_sz' PROVE out'[j] = ByteAt(in, j - 1)
    BY DEF DecodedTo, DecodeTail
  <2>1. CASE j \in 1..bufout
    BY <1>1, <1>7, <2>1 DEF DecodedTo
  <2>2. CASE j \notin 1..bufout
    <3>1. PICK k \in 1..Len(b) : j = bufout + k
      BY <1>3, <1>4, <1>6, <2>2
    <3>2. k \in 1..(m - 1) /\ 3 * (bufin \div 4) + k - 1 = j - 1
      BY <1>1, <1>3, <1>4, <3>1
    <3>3. out'[j] = b[k]
      BY <1>7, <3>1
    <3>4. b[k] = ByteAt(in, 3 * (bufin \div 4) + k - 1)
      BY <1>3, <3>2
    <3> QED
      BY <3>2, <3>3, <3>4
  <2> QED
    BY <2>1, <2>2
<1>9. Buffer' /\ bufout' <= Len(out')
  BY <1>1, <1>6, <1>7 DEF Buffer
<1>10. TypeOK'
  <2>1. BufferSize(P) \in 1..(P + 3)
    BY <1>1, SizeFact
  <2>2. bufout' \in 0..IntMax /\ out_sz' \in 0..IntMax
    BY <1>1, <1>3, <1>4, <1>6, <2>1, IntMaxAssumption
  <2> QED
    BY <1>6, <1>7, <2>2 DEF IInv, TypeOK, DecodeTail
<1>11. pc' = "return" => out_sz' > 0 /\ out_sz' < bufout'
  <2>1. out_sz' \in Int /\ bufout' = out_sz' + 1
    <3>1. bufout \in Nat /\ Len(b) \in Nat
      BY <1>3, <1>4
    <3>2. out_sz' = bufout + Len(b) /\ bufout' = bufout + Len(b) + 1
      BY <1>6
    <3> QED
      BY <3>1, <3>2
  <2>2. pc' = "return" => ~ Empty(out_sz')
    BY DEF DecodeTail
  <2>3. \A z \in Int : ~ Empty(z) => z > 0 /\ z < z + 1
    BY DEF Empty
  <2> QED
    BY <2>1, <2>2, <2>3
<1>12. AtStep'
  BY <1>6, <1>8, <1>9, <1>11 DEF IInv, AtStep, DecodeTail
<1> QED
  BY <1>6, <1>10, <1>12 DEF IInv

(* The result goes to the caller.                                          *)
LEMMA ReturnStep == IInv /\ Return => IInv'
<1> SUFFICES ASSUME IInv, Return PROVE IInv'
  OBVIOUS
<1>1. P' = P /\ Buffer' = Buffer
  BY DEF Return, P, Buffer
<1>2. DecodedTo(pout_sz)'
  BY DEF IInv, AtStep, Return, DecodedTo
<1> QED
  BY <1>1, <1>2 DEF IInv, TypeOK, AtStep, Return, Buffer

(* Nothing goes to the caller, and no buffer is kept.                      *)
LEMMA ErrStep == IInv /\ Err => IInv'
<1> SUFFICES ASSUME IInv, Err PROVE IInv'
  OBVIOUS
<1> QED
  BY DEF IInv, TypeOK, AtStep, Err, Freed

(* Every step preserves the invariant.                                     *)
LEMMA NextIInv == IInv /\ [Next]_vars => IInv'
<1> SUFFICES ASSUME IInv, [Next]_vars PROVE IInv'
  OBVIOUS
<1>1. CASE UNCHANGED vars
  <2>1. P' = P /\ Buffer' = Buffer
    BY <1>1 DEF vars, P, Buffer
  <2> QED
    BY <1>1, <2>1 DEF vars, IInv, TypeOK, AtStep, DecodedTo
<1> QED
  BY <1>1, CheckStep, ScanStep, DecodeLenStep, CallocStep, StartDecodeStep,
     DecodeGroupStep, DecodeTailStep, ReturnStep, ErrStep DEF Next, Step, Done

(* The invariant always holds; the theorems below are read off it.         *)
LEMMA AlwaysIInv == Spec => []IInv
BY InitIInv, NextIInv, PTL DEF Spec

(* No integer of the decoder leaves the range of int, and every element of *)
(* the buffer is a byte.                                                   *)
THEOREM TypeCorrect == Spec => []TypeOK
<1>1. IInv => TypeOK
  BY DEF IInv
<1> QED
  BY <1>1, AlwaysIInv, PTL

(* For every input, whatever it holds: no character past the terminator is *)
(* read, and no byte is stored past the end of a buffer that is sized by   *)
(* one function and filled by another.                                     *)
THEOREM StaysInBounds == Spec => []InBounds
<1>1. IInv => InBounds
  <2> SUFFICES ASSUME IInv PROVE InBounds
    OBVIOUS
  <2>1. P \in Nat /\ Len(in) \in Nat /\ P <= Len(in)
    BY InputFact DEF IInv, TypeOK
  <2>2. pc \in {"len", "scan"} => bufin <= Len(in)
    BY <2>1 DEF IInv, TypeOK, AtStep
  <2>3. pc = "decode" => bufin + nprbytes <= Len(in)
    BY <2>1 DEF IInv, AtStep
  <2>4. out # NULL => bufout <= Len(out)
    <3>1. Buffer => out \in Seq(Byte) /\ Len(out) >= 1
      BY <2>1, SizeFact DEF Buffer
    <3>2. CASE pc = "decode"
      <4>1. /\ P + 3 >= 4 * (bufin \div 4) /\ bufin \in Nat
            /\ bufout = 3 * (bufin \div 4) /\ Len(out) = BufferSize(P)
        BY <2>1, <3>2 DEF IInv, TypeOK, AtStep, Buffer
      <4>2. (P + 3) \div 4 >= bufin \div 4
        BY <2>1, <4>1
      <4> QED
        BY <2>1, <4>1, <4>2 DEF BufferSize
    <3>3. CASE pc # "decode"
      BY <3>1, <3>3 DEF IInv, TypeOK, AtStep
    <3> QED
      BY <3>2, <3>3
  <2> QED
    BY <2>2, <2>3, <2>4 DEF InBounds
<1> QED
  BY <1>1, AlwaysIInv, PTL

(* For every input, a call of u_b64url_decode that returns 0 has given the *)
(* caller exactly the bytes the input stands for, and at least one.        *)
THEOREM DecodesCorrectly == Spec => []ResultCorrect
<1>1. IInv => ResultCorrect
  <2> SUFFICES ASSUME IInv, ret = 0 PROVE ResultCorrect
    BY DEF ResultCorrect
  <2>1. pc = "done"
    BY NullAssumption DEF IInv, AtStep
  <2>2. /\ pout \in Seq(Byte) /\ pout_sz = DecodedLen(in) /\ pout_sz > 0
        /\ pout_sz <= Len(pout)
        /\ \A j \in 1..pout_sz : pout[j] = ByteAt(in, j - 1)
    BY <2>1, NullAssumption DEF IInv, TypeOK, AtStep, Buffer, DecodedTo
  <2>3. pout_sz \in Nat
    BY <2>2, DecodedFact, InputFact DEF IInv, TypeOK
  <2>4. SubSeq(pout, 1, pout_sz) = [j \in 1..pout_sz |-> pout[j]]
    BY <2>2, <2>3
  <2>5. SubSeq(pout, 1, pout_sz) = Decoded(in)
    BY <2>2, <2>4 DEF Decoded
  <2> QED
    BY <2>2, <2>5 DEF ResultCorrect
<1> QED
  BY <1>1, AlwaysIInv, PTL

(* The buffer has one owner when the call returns, and a call that fails   *)
(* leaves the caller's variables alone.                                    *)
THEOREM HandsOver == Spec => []BufferHandedOver
<1>1. IInv => BufferHandedOver
  BY NullAssumption DEF IInv, AtStep, Buffer, BufferHandedOver
<1> QED
  BY <1>1, AlwaysIInv, PTL

(* Base64decode's result is refused only when there is nothing to decode.  *)
THEOREM FailsOnlyForCause == Spec => RefusedForCause
<1>1. IInv /\ [Next]_vars =>
        [pc = "decode" /\ pc' = "err" => DecodedLen(in) = 0]_vars
  <2> SUFFICES ASSUME IInv, [Next]_vars, pc = "decode", pc' = "err"
               PROVE  DecodedLen(in) = 0
    OBVIOUS
  <2>1. DecodeTail
    BY DEF vars, Next, Step, Done, Check, Scan, DecodeLen, Calloc, StartDecode,
           DecodeGroup, Return, Err
  <2>2. out_sz' = DecodedLen(in) /\ out_sz' <= 0
    BY <2>1, DecodeTailStep DEF DecodeTail, Empty
  <2>3. DecodedLen(in) \in Nat
    BY DecodedFact, InputFact DEF IInv, TypeOK
  <2> QED
    BY <2>2, <2>3
<1> QED
  BY <1>1, AlwaysIInv, PTL DEF Spec, RefusedForCause

-----------------------------------------------------------------------------
(* What the size says of the way to err, for module Base64Call.            *)
Cause ==
  /\ pc \in {"check", "len"} => out_sz = 0
  /\ pc \in {"check", "len", "calloc"} => nbytesdecoded = 0
  /\ pc = "err" /\ out_sz <= nbytesdecoded => DecodedLen(in) = 0

(* The empty string stands for nothing.                                    *)
LEMMA EmptyFact == in \in Input /\ Len(in) = 0 => DecodedLen(in) = 0
<1> SUFFICES ASSUME in \in Input, Len(in) = 0 PROVE DecodedLen(in) = 0
  OBVIOUS
<1>1. P = 0
  BY InputFact
<1> QED
  BY <1>1 DEF DecodedLen, P

(* The size of the buffer is what is left of calloc when it fails.         *)
LEMMA SizeAtCalloc == IInv /\ pc = "calloc" => out_sz > 0
<1> SUFFICES ASSUME IInv, pc = "calloc" PROVE out_sz > 0
  OBVIOUS
<1>1. P \in Nat /\ out_sz = BufferSize(P)
  BY InputFact DEF IInv, TypeOK, AtStep
<1> QED
  BY <1>1, SizeFact

(* Every step keeps it.                                                    *)
LEMMA NextCause == IInv /\ Cause /\ [Next]_vars => Cause'
<1> SUFFICES ASSUME IInv, Cause, [Next]_vars PROVE Cause'
  OBVIOUS
<1>1. in \in Input
  BY DEF IInv, TypeOK
<1>2. CASE Check
  <2>1. /\ in' = in /\ out_sz' = out_sz /\ out_sz = 0
        /\ nbytesdecoded' = nbytesdecoded /\ nbytesdecoded = 0
    BY <1>2 DEF Check, Cause
  <2>2. DecodedLen(in)' = DecodedLen(in)
    BY <2>1 DEF DecodedLen, PrefixLen, IsPrefixLen, IsDigit, CharAt
  <2>3. pc' = "err" => Len(in) = 0
    BY <1>2 DEF Check
  <2>4. pc' \in {"err", "len"}
    BY <1>2 DEF Check
  <2> QED
    BY <1>1, <2>1, <2>2, <2>3, <2>4, EmptyFact DEF Cause
<1>3. CASE DecodeLen
  <2>1. pc' \in {"err", "calloc"} /\ (pc' = "err" => out_sz' <= 0)
    BY <1>3 DEF DecodeLen, Empty
  <2>2. out_sz' \in Nat /\ out_sz' > 0
    <3>1. bufin \in Nat /\ out_sz' = BufferSize(bufin)
      BY <1>3 DEF DecodeLen, IInv, TypeOK
    <3> QED
      BY <3>1, SizeFact
  <2>3. pc' = "calloc"
    BY <2>1, <2>2
  <2>4. nbytesdecoded' = 0
    BY <1>3 DEF DecodeLen, Cause
  <2> QED
    BY <2>3, <2>4 DEF Cause
<1>4. CASE Calloc
  <2>1. /\ out_sz' = out_sz /\ out_sz > 0 /\ pc' \in {"err", "scan"}
        /\ nbytesdecoded' = 0
    BY <1>4, SizeAtCalloc DEF Calloc, Cause
  <2>2. ~ (out_sz' <= nbytesdecoded')
    BY <2>1, IntMaxAssumption DEF IInv, TypeOK
  <2> QED
    BY <2>1, <2>2 DEF Cause
<1>5. CASE DecodeTail
  <2>1. out_sz' = DecodedLen(in) /\ in' = in /\ pc' \in {"err", "return"}
    BY <1>5, DecodeTailStep DEF DecodeTail
  <2>2. DecodedLen(in)' = DecodedLen(in)
    BY <2>1 DEF DecodedLen, PrefixLen, IsPrefixLen, IsDigit, CharAt
  <2>3. pc' = "err" => out_sz' <= 0
    BY <1>5 DEF DecodeTail, Empty
  <2>4. DecodedLen(in) \in Nat
    BY <1>1, DecodedFact, InputFact
  <2> QED
    BY <2>1, <2>2, <2>3, <2>4 DEF Cause
<1>6. CASE Scan \/ UNCHANGED vars
  <2>1. /\ in' = in /\ out_sz' = out_sz /\ pc' = pc
        /\ nbytesdecoded' = nbytesdecoded
    BY <1>6 DEF Scan, vars
  <2>2. DecodedLen(in)' = DecodedLen(in)
    BY <2>1 DEF DecodedLen, PrefixLen, IsPrefixLen, IsDigit, CharAt
  <2> QED
    BY <2>1, <2>2 DEF Cause
<1>7. CASE StartDecode \/ DecodeGroup \/ Return \/ Err
  <2>1. pc' \in {"decode", "done"}
    BY <1>7 DEF StartDecode, DecodeGroup, Return, Err
  <2> QED
    BY <2>1 DEF Cause
<1> QED
  BY <1>2, <1>3, <1>4, <1>5, <1>6, <1>7 DEF Next, Step, Done

(* Base64Call means the same by decoding.                                  *)
LEMMA SameDecoding ==
  ASSUME NEW s
  PROVE  Call!DecodedLen(s) = DecodedLen(s) /\ Call!Decoded(s) = Decoded(s)
BY DEF Call!DecodedLen, Call!Decoded, Call!PrefixLen, Call!IsPrefixLen,
       Call!ByteAt, Call!Six, Call!IsDigit, Call!CharAt, Call!pr2six,
       DecodedLen, Decoded, PrefixLen, IsPrefixLen, ByteAt, Six, IsDigit,
       CharAt, pr2six

(* With both, each step is one of Base64Call's or hidden from the caller.  *)
LEMMA StepOfCall ==
  IInv /\ IInv' /\ Cause /\ ResultCorrect' /\ [Next]_vars =>
    [Call!Next]_(Call!callVars)
<1> SUFFICES ASSUME IInv, IInv', Cause, ResultCorrect', [Next]_vars
             PROVE  [Call!Next]_(Call!callVars)
  OBVIOUS
<1> DEFINE short   == out_sz > nbytesdecoded /\ (pc = "err" \/ ret = -1)
           decoded == IF ret = 0 THEN SubSeq(pout, 1, pout_sz) ELSE NULL
<1>1. /\ NULL # 0 /\ NULL # -1 /\ (pc # "done" => ret = NULL)
      /\ out_sz \in Nat /\ nbytesdecoded \in Nat
  BY NullAssumption DEF IInv, TypeOK, AtStep
<1>2. in' = in
  BY DEF Next, Step, Done, vars, Check, Scan, DecodeLen, Calloc, StartDecode,
         DecodeGroup, DecodeTail, Return, Err
<1>3. ASSUME ret' = ret, pout' = pout, pout_sz' = pout_sz, short' = short
      PROVE  UNCHANGED Call!callVars
  BY <1>2, <1>3 DEF Call!callVars
<1>4. CASE Calloc /\ pc' = "err"
  <2>1. short = FALSE /\ short' = TRUE /\ ret = NULL
    BY <1>1, <1>4, SizeAtCalloc DEF Calloc, Cause
  <2>2. ret' = ret /\ pout' = pout /\ pout_sz' = pout_sz
    BY <1>4 DEF Calloc
  <2> QED
    BY <1>2, <2>1, <2>2 DEF Call!Next, Call!RunShort
<1>5. CASE Return
  <2>1. ret = NULL /\ short = FALSE /\ ret' = 0 /\ short' = FALSE
    BY <1>1, <1>5 DEF Return
  <2>2. DecodedLen(in) > 0
    BY <1>5 DEF Return, IInv, AtStep
  <2>3. decoded' = Decoded(in)
    <3>1. SubSeq(pout', 1, pout_sz') = Decoded(in')
      BY <2>1 DEF ResultCorrect, Decoded, DecodedLen, PrefixLen, IsPrefixLen,
                  ByteAt, Six, IsDigit, CharAt
    <3> QED
      BY <1>2, <2>1, <3>1
  <2> QED
    BY <1>2, <2>1, <2>2, <2>3, SameDecoding DEF Call!Next, Call!Succeed
<1>6. CASE Err
  <2>1. /\ ret = NULL /\ ret' = -1 /\ pc = "err" /\ out_sz' = out_sz
        /\ nbytesdecoded' = nbytesdecoded
    BY <1>1, <1>6 DEF Err
  <2>2. short' = short /\ decoded' = decoded
    BY <1>1, <2>1
  <2>3. short = TRUE \/ DecodedLen(in) = 0
    BY <1>1, <2>1 DEF Cause
  <2> QED
    BY <1>2, <2>1, <2>2, <2>3, SameDecoding DEF Call!Next, Call!Fail
<1>7. CASE DecodeTail
  <2>1. short = FALSE /\ short' = FALSE
    <3>1. out_sz' \in Nat /\ out_sz' = nbytesdecoded'
      BY <1>7 DEF DecodeTail, IInv, TypeOK
    <3> QED
      BY <1>1, <1>7, <3>1 DEF DecodeTail
  <2> QED
    BY <1>3, <1>7, <2>1 DEF DecodeTail
<1>8. CASE Check
  <2>1. short = FALSE /\ short' = FALSE
    BY <1>1, <1>8 DEF Check, Cause
  <2> QED
    BY <1>3, <1>8, <2>1 DEF Check
<1>9. CASE DecodeLen
  <2>1. short = FALSE /\ short' = FALSE
    <3>1. pc' # "err"
      <4>1. bufin \in Nat /\ out_sz' = BufferSize(bufin)
        BY <1>9 DEF DecodeLen, IInv, TypeOK
      <4>2. ~ Empty(out_sz')
        BY <4>1, SizeFact DEF Empty
      <4> QED
        BY <1>9, <4>2 DEF DecodeLen
    <3> QED
      BY <1>1, <1>9, <3>1 DEF DecodeLen
  <2> QED
    BY <1>3, <1>9, <2>1 DEF DecodeLen
<1>10. CASE Scan \/ StartDecode \/ DecodeGroup \/ (Calloc /\ pc' # "err")
  <2>1. short = FALSE /\ short' = FALSE
    BY <1>1, <1>10 DEF Scan, StartDecode, DecodeGroup, Calloc
  <2> QED
    BY <1>3, <1>10, <2>1 DEF Scan, StartDecode, DecodeGroup, Calloc
<1>11. CASE UNCHANGED vars
  <2>1. short' = short
    BY <1>11 DEF vars
  <2> QED
    BY <1>3, <1>11, <2>1 DEF vars
<1> QED
  BY <1>4, <1>5, <1>6, <1>7, <1>8, <1>9, <1>10, <1>11 DEF Next, Step, Done

(* The loops, offsets and buffers of the decoder make one step for its     *)
(* caller, the one ear_veraison_get_akpub of module Ear takes: the bytes   *)
(* the string stands for, or a failure for want of such bytes or memory.   *)
THEOREM ImplementsCall ==
  Spec => Call!Init /\ [][Call!Next]_(Call!callVars)
<1>1. Init => Call!Init /\ Cause
  BY NullAssumption DEF Init, Call!Init, Cause
<1>2. Spec => []Cause
  <2>1. Init => Cause
    BY DEF Init, Cause
  <2> QED
    BY <2>1, NextCause, AlwaysIInv, PTL DEF Spec
<1> QED
  BY <1>1, <1>2, StepOfCall, AlwaysIInv, DecodesCorrectly, PTL DEF Spec

=============================================================================
