----------------------------- MODULE UnityFloats -----------------------------
(***************************************************************************)
(* The assertions of Unity about floats (src/unity/unity.c):               *)
(* UnityAssertFloatsWithin and UnityAssertFloatsNotWithin,                 *)
(* UnityAssertGreaterOrLessFloat, UnityAssertFloatSpecial and              *)
(* UnityAssertWithinFloatArray, of which the EQUAL assertions are made.    *)
(*                                                                         *)
(* A float is an integer here, or an infinity, or NaN: sums too large for  *)
(* MaxFloat become infinite, and a product with UNITY_FLOAT_PRECISION is   *)
(* rounded to zero.  Other roundings are left out, and so are signed       *)
(* zeros, which compare as equal.                                          *)
(*                                                                         *)
(* A behaviour is one call, of a test that has not failed yet.             *)
(***************************************************************************)
EXTENDS Integers, Sequences

CONSTANTS
  MaxFloat,       \* the largest finite float
  Precision,      \* one over UNITY_FLOAT_PRECISION
  MaxElements,    \* bound on num_elements
  Elements        \* the floats that are elements of arrays

Inf == MaxFloat + 1
NaN == MaxFloat + 2
Finite == -MaxFloat..MaxFloat
UNITY_FLOAT == Finite \cup {Inf, -Inf, NaN}

FloatAssumption == /\ MaxFloat \in Nat \ {0} /\ Precision \in Nat \ {0}
                   /\ Elements \subseteq UNITY_FLOAT

VARIABLES
  call,                         \* the function and its arguments
  expected, actual,             \* the arrays, of one float where it is not one
  ptr_expected, ptr_actual,     \* how far into the arrays it has come
  elements,                     \* what is left to compare
  pc,                           \* "call", "element" or "returned"
  report                        \* the failure printed, if any

arguments == <<call, expected, actual>>
vars == <<arguments, ptr_expected, ptr_actual, elements, pc, report>>

-----------------------------------------------------------------------------
(* The arithmetic of floats.                                               *)
isinf(x) == x \in {Inf, -Inf}
isnan(x) == x = NaN

Less(x, y) == ~ isnan(x) /\ ~ isnan(y) /\ x < y
Negated(x) == IF isnan(x) THEN NaN ELSE -x
Magnitude(x) == IF Less(x, 0) THEN Negated(x) ELSE x

Minus(x, y) ==
  CASE isnan(x) \/ isnan(y) \/ (isinf(x) /\ x = y) -> NaN
    [] isinf(x) /\ x # y /\ ~ isnan(y)             -> x
    [] isinf(y) /\ x \in Finite                    -> Negated(y)
    [] x \in Finite /\ y \in Finite ->
         IF x - y > MaxFloat THEN Inf ELSE IF x - y < -MaxFloat THEN -Inf
         ELSE x - y

Plus(x, y) == Minus(x, Negated(y))

(* x * UNITY_FLOAT_PRECISION                                               *)
Scaled(x) == IF x \notin Finite THEN x
             ELSE IF x < 0 THEN -((-x) \div Precision) ELSE x \div Precision

(* UNITY_FLOAT_OR_DOUBLE_WITHIN, the body of UnityFloatsWithin.            *)
FloatsWithin_one_sided(delta, e, a) ==
  \/ isinf(e) /\ isinf(a) /\ (e < 0 <=> a < 0)
  \/ isnan(e) /\ isnan(a)
  \/ LET diff == Minus(a, e)
     IN  ~ (isnan(diff) \/ isinf(diff) \/ Less(Magnitude(delta), diff))
FloatsWithin(delta, e, a) ==
  \/ isinf(e) /\ isinf(a) /\ (e < 0 <=> a < 0)
  \/ isnan(e) /\ isnan(a)
  \/ LET diff == Magnitude(Minus(a, e))
     IN  ~ (isnan(diff) \/ isinf(diff) \/ Less(Magnitude(delta), diff))

-----------------------------------------------------------------------------
Nothing == [why |-> "none"]
Failure(element) == [why |-> "failed", element |-> element]

Finish(r) == /\ pc' = "returned" /\ report' = r
             /\ UNCHANGED <<arguments, ptr_expected, ptr_actual, elements>>

(* UnityAssertGreaterOrLessFloat: what is not a success is a failure, NaN  *)
(* included.                                                               *)
Unordered(compare, t, a) ==
  \/ "SMALLER_THAN" \in compare /\ ~ Less(a, t)
  \/ "GREATER_THAN" \in compare /\ ~ Less(t, a)

ComparisonFails(compare, t, a) ==
  /\ Unordered(compare, t, a)
  /\ ~ ("EQUAL_TO" \in compare /\ FloatsWithin(Scaled(t), t, a))

(* UnityAssertFloatSpecial: the last bit of the style says whether the     *)
(* trait should be there, the rest which it is.                            *)
is_trait(style, a) ==
  CASE style \div 2 = 0 -> isinf(a) /\ Less(0, a)
    [] style \div 2 = 1 -> isinf(a) /\ Less(a, 0)
    [] style \div 2 = 2 -> isnan(a)
    [] style \div 2 = 3 -> ~ isinf(a) /\ ~ isnan(a)

SpecialFails(style, a) == is_trait(style, a) # (style % 2 = 1)

Fails ==
  LET e == expected[1]
      a == actual[1]
  IN  CASE call.fn = "FloatsWithin"       -> ~ FloatsWithin(call.delta, e, a)
        [] call.fn = "FloatsNotWithin"    -> FloatsWithin(call.delta, e, a)
        [] call.fn = "GreaterOrLessFloat" -> ComparisonFails(call.compare, e, a)
        [] call.fn = "FloatSpecial"       -> SpecialFails(call.style, a)

AssertScalar ==
  /\ pc = "call" /\ call.fn # "WithinFloatArray"
  /\ \/ Fails /\ Finish(Failure(0))
     \/ ~ Fails /\ Finish(Nothing)

-----------------------------------------------------------------------------
(* UnityAssertWithinFloatArray: the tests it makes first, in their order.  *)
EqualPointers == call.pointers \in {"same", "both_NULL"}
OneArrayNull  == call.pointers \in {"expected_NULL", "actual_NULL"}

Pointless == call.num_elements = 0 \/ isnan(call.delta)
ForceEqual == isinf(call.delta)

EnterArray ==
  /\ pc = "call" /\ call.fn = "WithinFloatArray"
  /\ \/ Pointless /\ Finish([why |-> "pointless"])
     \/ ~ Pointless /\ (ForceEqual \/ EqualPointers) /\ Finish(Nothing)
     \/ ~ Pointless /\ ~ ForceEqual /\ OneArrayNull
        /\ Finish([why |-> call.pointers])
     \/ /\ ~ Pointless /\ ~ ForceEqual /\ call.pointers = "distinct"
        /\ pc' = "element"
        /\ UNCHANGED <<arguments, ptr_expected, ptr_actual, elements, report>>

Left(n) == n - 1

ExpectedStep(n) == IF call.flags = "ARRAY_TO_ARRAY" THEN n ELSE 0

(* in_delta + current_element_delta                                        *)
ElementDelta(e) == Plus(Magnitude(call.delta), Magnitude(Scaled(e)))

CompareElement ==
  /\ pc = "element" /\ elements > 0
  /\ LET e == expected[ptr_expected + 1]
         within == FloatsWithin(ElementDelta(e), e, actual[ptr_actual + 1])
     IN  \/ /\ ~ within
            /\ Finish(Failure(call.num_elements - (elements - 1) - 1))
         \/ /\ within
            /\ elements' = Left(elements)
            /\ ptr_expected' = ptr_expected + ExpectedStep(1)
            /\ ptr_actual' = ptr_actual + 1
            /\ UNCHANGED <<arguments, pc, report>>

Return == pc = "element" /\ elements = 0 /\ Finish(Nothing)

Next == AssertScalar \/ EnterArray \/ CompareElement \/ Return

-----------------------------------------------------------------------------
(* The calls that the macros make.  Those named EQUAL pass on the delta    *)
(* that the expected value gives.                                          *)
ScalarCalls ==
  \E e, a \in UNITY_FLOAT :
    /\ expected = <<e>> /\ actual = <<a>> /\ elements = 0
    /\ \/ \E fn \in {"FloatsWithin", "FloatsNotWithin"},
             d \in UNITY_FLOAT, equal \in BOOLEAN :
            /\ equal => d = Scaled(e)
            /\ call = [fn |-> fn, equal |-> equal, delta |-> d]
       \/ \E order \in {"GREATER_THAN", "SMALLER_THAN"},
             or \in {{}, {"EQUAL_TO"}} :
            call = [fn |-> "GreaterOrLessFloat", compare |-> {order} \cup or]
       \/ \E style \in 0..7 :
            e = 0 /\ call = [fn |-> "FloatSpecial", style |-> style]

ArrayCalls ==
  \E n \in 0..MaxElements, flags \in {"ARRAY_TO_ARRAY", "ARRAY_TO_VAL"},
     d \in Elements,
     p \in {"distinct", "same", "both_NULL", "expected_NULL", "actual_NULL"} :
    /\ flags = "ARRAY_TO_VAL" => d = 0 /\ p \in {"distinct", "actual_NULL"}
    /\ call = [fn |-> "WithinFloatArray", delta |-> d, num_elements |-> n,
               flags |-> flags, pointers |-> p]
    /\ actual \in [1..n -> Elements]
    /\ expected \in [1..(IF flags = "ARRAY_TO_VAL" THEN 1 ELSE n) -> Elements]
    /\ p = "same" => expected = actual
    /\ elements = n

Init == /\ ScalarCalls \/ ArrayCalls
        /\ ptr_expected = 0 /\ ptr_actual = 0
        /\ pc = "call" /\ report = Nothing

Spec == Init /\ [][Next]_vars

-----------------------------------------------------------------------------
(* Two floats are near each other when they are the same infinity, or both *)
(* NaN, or finite and their difference is finite and at most the delta,    *)
(* whatever the sign of that.                                              *)
Near(delta, e, a) ==
  \/ e = a
  \/ /\ e \in Finite /\ a \in Finite
     /\ a - e \in Finite
     /\ a - e \in -Magnitude(delta)..Magnitude(delta)

IsElement(k) ==
  LET e == expected[IF call.flags = "ARRAY_TO_VAL" THEN 1 ELSE k]
  IN  Near(ElementDelta(e), e, actual[k])

(* The types of the variables.                                             *)
TypeOK ==
  /\ pc \in {"call", "element", "returned"}
  /\ elements \in 0..MaxElements
  /\ ptr_expected \in 0..Len(expected) /\ ptr_actual \in 0..Len(actual)
  /\ report.why \in {"none", "failed", "pointless", "expected_NULL",
                     "actual_NULL"}

(* No element is read past the end of either array, the single value of an *)
(* EACH_EQUAL assertion included.                                          *)
InBounds ==
  pc = "element" /\ elements > 0 =>
    ptr_expected < Len(expected) /\ ptr_actual < Len(actual)

(* WITHIN and EQUAL pass exactly when the floats are near each other,      *)
(* NOT_WITHIN and NOT_EQUAL exactly when they are not: infinities, NaN and *)
(* sums that overflow included.  A delta that is NaN is not considered; it *)
(* makes every finite difference pass.                                     *)
NearnessCorrect ==
  pc = "returned" /\ call.fn \in {"FloatsWithin", "FloatsNotWithin"}
                  /\ ~ isnan(call.delta) =>
    (report = Nothing <=>
       (Near(call.delta, expected[1], actual[1])
          <=> call.fn = "FloatsWithin"))

(* A float asserted EQUAL to another is finite when that is, never has the *)
(* other sign, and is zero when that is: the precision is relative.        *)
EqualMeansClose ==
  pc = "returned" /\ call.fn = "FloatsWithin" /\ call.equal
                  /\ report = Nothing =>
    /\ actual[1] \in Finite <=> expected[1] \in Finite
    /\ Less(expected[1], 0) => ~ Less(0, actual[1])
    /\ expected[1] = 0 => actual[1] = 0

(* An assertion of an order passes exactly when the numbers are in that    *)
(* order, or nearly equal where that is enough: never for a NaN and a      *)
(* number.                                                                 *)
OrderCorrect ==
  pc = "returned" /\ call.fn = "GreaterOrLessFloat" =>
    (report = Nothing <=>
       \/ /\ NaN \notin {expected[1], actual[1]}
          /\ IF "GREATER_THAN" \in call.compare THEN actual[1] > expected[1]
                                                ELSE actual[1] < expected[1]
       \/ /\ "EQUAL_TO" \in call.compare
          /\ Near(Scaled(expected[1]), expected[1], actual[1]))

(* Each float has exactly one of the four traits, and of an assertion and  *)
(* its opposite exactly one passes.                                        *)
TraitsCorrect ==
  pc = "returned" /\ call.fn = "FloatSpecial" =>
    LET trait == <<{Inf}, {-Inf}, {NaN}, Finite>>[call.style \div 2 + 1]
    IN  report = Nothing <=> (actual[1] \in trait <=> call.style % 2 = 1)

(* An assertion about arrays passes exactly when there is something to     *)
(* compare with a delta that is a number, and the delta is infinite, the   *)
(* pointers are equal, or every element is near what it should be; and the *)
(* element of which a failure is printed is the first that is not.         *)
ArraysCorrect ==
  pc = "returned" /\ call.fn = "WithinFloatArray" =>
    /\ report = Nothing <=>
         /\ call.num_elements > 0 /\ ~ isnan(call.delta)
         /\ \/ isinf(call.delta) \/ EqualPointers
            \/ /\ call.pointers = "distinct"
               /\ \A k \in 1..call.num_elements : IsElement(k)
    /\ report.why = "failed" =>
         /\ ~ IsElement(report.element + 1)
         /\ \A k \in 1..report.element : IsElement(k)

=============================================================================
