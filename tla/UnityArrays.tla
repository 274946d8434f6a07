----------------------------- MODULE UnityArrays -----------------------------
(***************************************************************************)
(* The assertions of Unity (src/unity/unity.c) that compare blocks of      *)
(* memory: UnityAssertEqualIntArray, UnityAssertNumbersArrayWithin and     *)
(* UnityAssertEqualMemory, each element by element, against an array or    *)
(* against a single value (the TEST_ASSERT_EACH_EQUAL macros).             *)
(*                                                                         *)
(* A behaviour is one call, of a test that has not failed yet.  A pointer  *)
(* into a block is an offset; which of the two pointers are NULL or equal  *)
(* is a case of its own.                                                   *)
(***************************************************************************)
EXTENDS UnityTypes, Sequences

CONSTANTS
  MaxElements,    \* bound on num_elements
  Lengths,        \* the lengths of an element of UnityAssertEqualMemory
  Deltas,         \* what the delta of a call may be
  Arrays(_, _)    \* Arrays(n, size): the blocks of n elements to compare

(* A block is one of bytes.                                                *)
BlocksAssumption ==
  /\ Lengths \subseteq Nat /\ Deltas \subseteq Nat
  /\ \A n \in 0..MaxElements \cup {1}, size \in {1, 2, 4, 8} \cup Lengths :
       Arrays(n, size) \subseteq [1..n * size -> 0..2 ^ ByteBits - 1]

VARIABLES
  call,               \* the function and its arguments
  expected, actual,   \* the bytes of the two blocks
  ptr_exp, ptr_act,   \* how far into the blocks it has come
  elements, bytes,    \* what is left to compare
  pc,                 \* "call", "element", "byte" or "returned"
  report              \* the failure printed, if any

vars == <<call, expected, actual, ptr_exp, ptr_act, elements, bytes, pc,
          report>>

IntFunctions == {"EqualIntArray", "NumbersArrayWithin"}

Size == Style(call.type).size

-----------------------------------------------------------------------------
(* What is printed of a failure.                                           *)
Nothing == [why |-> "none"]

Finish(r) == /\ pc' = "returned"
             /\ report' = r
             /\ UNCHANGED <<call, expected, actual, ptr_exp, ptr_act,
                            elements, bytes>>

(* The tests before the loop.  Whether the pointers are equal is asked     *)
(* before whether they are NULL, and both after the number of elements.    *)
Pointless == call.num_elements = 0 \/ call.length = 0

EqualPointers == call.pointers \in {"same", "both_NULL"}
OneArrayNull == call.pointers \in {"expected_NULL", "actual_NULL"}

Enter ==
  /\ pc = "call"
  /\ \/ Pointless /\ Finish([why |-> "pointless"])
     \/ ~ Pointless /\ OneArrayNull /\ Finish([why |-> call.pointers])
     \/ ~ Pointless /\ EqualPointers /\ Finish(Nothing)
     \/ /\ ~ Pointless /\ call.pointers = "distinct"
        /\ pc' = "element"
        /\ UNCHANGED <<call, expected, actual, ptr_exp, ptr_act, elements,
                       bytes, report>>

Left(n) == n - 1

(* The element that is compared, counted from 0.                           *)
Index_next(left) == call.num_elements - (left - 1)
Index(left) == call.num_elements - (left - 1) - 1

(* Little-endian: the number in size bytes from offset p.                  *)
Load(block, p, size) ==
  LET sum[i \in 0..size] ==
        IF i = 0 THEN 0
        ELSE sum[i - 1] + block[p + i] * 2 ^ Bits(i - 1)
  IN  sum[size]

(* UnityAssertEqualIntArray loads signed values, and masks the others.     *)
LoadEqual(block, p) ==
  LET loaded == Signed(Bits(Size), Load(block, p, Size))
  IN  IF Style(call.type).range = "INT" \/ Size = 8
      THEN loaded ELSE Unsigned(Bits(Size), loaded)

(* UnityAssertNumbersArrayWithin loads what is signed or unsigned as such. *)
LoadWithin(block, p) ==
  IF Style(call.type).range = "INT"
  THEN Signed(Bits(Size), Load(block, p, Size))
  ELSE UNITY_INT(Load(block, p, Size))

Value(block, p) == IF call.fn = "EqualIntArray" THEN LoadEqual(block, p)
                                                ELSE LoadWithin(block, p)

Distance(e, a) ==
  LET larger == IF Style(call.type).range = "INT"
                THEN a > e ELSE UNITY_UINT(a) > UNITY_UINT(e)
  IN  UNITY_UINT(IF larger THEN UNITY_UINT(a) - UNITY_UINT(e)
                           ELSE UNITY_UINT(e) - UNITY_UINT(a))

Differ(e, a) == IF call.fn = "EqualIntArray" THEN e # a
                ELSE Distance(e, a) > UNITY_UINT(call.delta)

(* What is printed of a value that differs.                                *)
Masked(x) ==
  Shown(call.type, IF Style(call.type).range = "UINT" /\ Size < 4
                   THEN Unsigned(Bits(Size), x) ELSE x)

ExpectedStep_always(n) == n
ExpectedStep(n) == IF call.flags = "ARRAY_TO_ARRAY" THEN n ELSE 0

(* What UnityAssertNumbersArrayWithin keeps in CurrentTestFailed is what   *)
(* Differ says here, and 0 where it goes on to the next element.           *)
CompareElement ==
  /\ pc = "element" /\ call.fn \in IntFunctions /\ elements > 0
  /\ LET e == Value(expected, ptr_exp)
         a == Value(actual, ptr_act)
     IN  \/ /\ Differ(e, a)
            /\ Finish([why |-> "differs", element |-> Index(elements),
                       expected |-> Masked(e), actual |-> Masked(a)])
         \/ /\ ~ Differ(e, a)
            /\ elements' = Left(elements)
            /\ ptr_exp' = ptr_exp + ExpectedStep(Size)
            /\ ptr_act' = ptr_act + Size
            /\ UNCHANGED <<call, expected, actual, bytes, pc, report>>

(* UnityAssertEqualMemory: the outer loop ...                              *)
MemoryElement ==
  /\ pc = "element" /\ call.fn = "EqualMemory" /\ elements > 0
  /\ elements' = Left(elements)
  /\ bytes' = call.length
  /\ pc' = "byte"
  /\ UNCHANGED <<call, expected, actual, ptr_exp, ptr_act, report>>

(* ... and the inner one.                                                  *)
MemoryByte ==
  /\ pc = "byte" /\ bytes > 0
  /\ LET e == expected[ptr_exp + 1]
         a == actual[ptr_act + 1]
     IN  \/ /\ e # a
            /\ Finish([why |-> "differs",
                       element |-> call.num_elements - elements - 1,
                       byte |-> call.length - (bytes - 1) - 1,
                       expected |-> e, actual |-> a])
         \/ /\ e = a
            /\ bytes' = Left(bytes)
            /\ ptr_exp' = ptr_exp + 1 /\ ptr_act' = ptr_act + 1
            /\ UNCHANGED <<call, expected, actual, elements, pc, report>>

MemoryElementEnds ==
  /\ pc = "byte" /\ bytes = 0
  /\ pc' = "element"
  /\ ptr_exp' = IF call.flags = "ARRAY_TO_VAL" THEN 0 ELSE ptr_exp
  /\ UNCHANGED <<call, expected, actual, ptr_act, elements, bytes, report>>

Return == pc = "element" /\ elements = 0 /\ Finish(Nothing)

Next == Enter \/ CompareElement \/ MemoryElement \/ MemoryByte
        \/ MemoryElementEnds \/ Return

-----------------------------------------------------------------------------
(* The calls that the macros make: the actual block has num_elements       *)
(* elements, the expected one as many or just one.                         *)
Flags == {"ARRAY_TO_ARRAY", "ARRAY_TO_VAL"}

(* UnityNumToPtr: the value of TEST_ASSERT_EACH_EQUAL_* is at an address   *)
(* of its own.                                                             *)
PointersOf(fn, flags) ==
  IF fn = "EqualIntArray" /\ flags = "ARRAY_TO_VAL"
  THEN {"distinct", "actual_NULL"}
  ELSE {"distinct", "same", "both_NULL", "expected_NULL", "actual_NULL"}

(* What the macros of TEST_ASSERT_*_ARRAY_WITHIN cast delta to.            *)
DeltaCast(type, d) ==
  CASE type \in Whole      -> UNITY_UINT(d)
    [] type = "UINT8"      -> Unsigned(Bits(2), d)
    [] OTHER               -> Unsigned(Bits(Style(type).size), d)

Start(c, size) ==
  /\ call = c
  /\ actual \in Arrays(c.num_elements, size)
  /\ expected \in (IF c.pointers = "same" THEN {actual}
                   ELSE Arrays(IF c.flags = "ARRAY_TO_ARRAY"
                               THEN c.num_elements ELSE 1, size))
  /\ ptr_exp = 0 /\ ptr_act = 0 /\ elements = c.num_elements /\ bytes = 0
  /\ pc = "call" /\ report = Nothing

Init ==
  \E n \in 0..MaxElements, flags \in Flags :
    \/ \E t \in Types, p \in PointersOf("EqualIntArray", flags) :
         Start([fn |-> "EqualIntArray", type |-> t, num_elements |-> n,
                length |-> Style(t).size, flags |-> flags, pointers |-> p],
               Style(t).size)
    \/ \E t \in Types, d \in Deltas,
          p \in PointersOf("NumbersArrayWithin", flags) :
         /\ flags = "ARRAY_TO_ARRAY"
         /\ Start([fn |-> "NumbersArrayWithin", type |-> t, num_elements |-> n,
                   length |-> Style(t).size, flags |-> flags, pointers |-> p,
                   delta |-> DeltaCast(t, d)], Style(t).size)
    \/ \E l \in Lengths, p \in PointersOf("EqualMemory", flags) :
         Start([fn |-> "EqualMemory", num_elements |-> n, length |-> l,
                flags |-> flags, pointers |-> p], l)

Spec == Init /\ [][Next]_vars

-----------------------------------------------------------------------------
(* What an element is, by itself.                                          *)
At(block, i) == SubSeq(block, i * call.length + 1, (i + 1) * call.length)

ExpectedAt(i) == At(expected, IF call.flags = "ARRAY_TO_VAL" THEN 0 ELSE i)

Same(i) ==
  IF call.fn = "EqualMemory" THEN ExpectedAt(i) = At(actual, i)
  ELSE LET Number(block) == LET u == Load(block, 0, Size)
                            IN  IF call.type \in SignedTypes
                                THEN Signed(Bits(Size), u) ELSE u
       IN  IF call.fn = "EqualIntArray"
           THEN Holds("EQUAL", Number(ExpectedAt(i)), Number(At(actual, i)), 0)
           ELSE Holds("WITHIN", Number(ExpectedAt(i)), Number(At(actual, i)),
                      call.delta)

Indices == 0..call.num_elements - 1

(* The types of the variables.                                             *)
TypeOK ==
  /\ pc \in {"call", "element", "byte", "returned"}
  /\ elements \in 0..call.num_elements
  /\ bytes \in 0..call.length
  /\ ptr_exp \in 0..Len(expected) /\ ptr_act \in 0..Len(actual)

(* No comparison reads past the end of either block, the single value of   *)
(* an assertion against one value included.                                *)
InBounds ==
  /\ pc = "element" /\ elements > 0 => /\ ptr_exp + call.length <= Len(expected)
                                       /\ ptr_act + call.length <= Len(actual)
  /\ pc = "byte" => /\ ptr_exp + bytes <= Len(expected)
                    /\ ptr_act + bytes <= Len(actual)

(* A call passes exactly when there is something to compare, and the two   *)
(* pointers are equal, or neither is NULL and every element is what it     *)
(* should be, as a number of the type that is named.                       *)
VerdictCorrect ==
  pc = "returned" =>
    (report = Nothing <=>
       /\ call.num_elements > 0 /\ call.length > 0
       /\ \/ EqualPointers
          \/ call.pointers = "distinct" /\ \A i \in Indices : Same(i))

(* The failure printed is that of the first element that differs, and of   *)
(* its first byte, and the numbers printed for it do differ.               *)
FailureLocated ==
  report.why = "differs" =>
    /\ report.element \in Indices /\ ~ Same(report.element)
    /\ \A i \in 0..report.element - 1 : Same(i)
    /\ IF call.fn = "NumbersArrayWithin"
       THEN ~ Holds("WITHIN", report.expected, report.actual, call.delta)
       ELSE report.expected # report.actual
    /\ call.fn = "EqualMemory" =>
         LET e == ExpectedAt(report.element)
             a == At(actual, report.element)
         IN  /\ e[report.byte + 1] # a[report.byte + 1]
             /\ \A b \in 1..report.byte : e[b] = a[b]

=============================================================================
