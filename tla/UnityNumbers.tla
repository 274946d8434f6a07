---------------------------- MODULE UnityNumbers ----------------------------
(***************************************************************************)
(* The assertions of Unity on numbers (TEST_ASSERT_EQUAL_HEX8,             *)
(* TEST_ASSERT_INT16_WITHIN, TEST_ASSERT_BITS_HIGH, ...): macros of        *)
(* src/unity/unity.h and unity_internals.h that cast their arguments, and  *)
(* functions of unity.c that compare them as integers of one width, told   *)
(* by a display style how.  A family of macros is named by what is common  *)
(* to their names, a member by the type that is appended.                  *)
(*                                                                         *)
(* A behaviour is one call, of a test that has not failed yet.  A byte     *)
(* has ByteBits bits, so that TLC can handle the largest type of all.      *)
(***************************************************************************)
EXTENDS UnityTypes

CONSTANTS
  Numbers,    \* what the arguments of a call may be
  Deltas,     \* what its delta may be
  Masks       \* what the mask of an assertion on bits may be

ArgumentsAssumption ==
  LET Arguments == -(2 ^ (8 * ByteBits - 1)) .. 2 ^ (8 * ByteBits) - 1
  IN  Numbers \subseteq Arguments /\ Deltas \subseteq Nat /\ Masks \subseteq Nat

VARIABLES
  call,               \* the assertion: macro, arguments, with a message or not
  CurrentTestFailed,  \* the field of Unity
  outcome             \* "none" yet, "passed", or "failed"

vars == <<call, CurrentTestFailed, outcome>>

-----------------------------------------------------------------------------
(* The casts of the macros.                                                *)

(* UNITY_TEST_ASSERT_EQUAL_*: hexadecimal types are cast to signed ones.   *)
CastToEqual(type, x) == Narrowed(type, type \notin UnsignedTypes, x)

(* UNITY_TEST_ASSERT_NOT_EQUAL_*, GREATER_*, SMALLER_*: they are not.      *)
CastToCompare(type, x) == Narrowed(type, type \in SignedTypes, x)

(* UNITY_TEST_ASSERT_*_WITHIN: nor here; the delta is always unsigned.     *)
CastToWithin(type, x) == Narrowed(type, type \in SignedTypes, x)
CastDelta(type, d) == UNITY_UINT(Narrowed(type, FALSE, d))

-----------------------------------------------------------------------------
(* The calls.  UNITY_COMPARISON_T is a set of flags.                       *)

Comparison == [NOT_EQUAL        |-> {},
               GREATER_THAN     |-> {"GREATER"},
               GREATER_OR_EQUAL |-> {"GREATER", "EQUAL"},
               SMALLER_THAN     |-> {"SMALLER"},
               SMALLER_OR_EQUAL |-> {"SMALLER", "EQUAL"}]

NumberFamilies == {"EQUAL", "WITHIN"} \cup DOMAIN Comparison
BitFamilies    == {"BITS", "BITS_HIGH", "BITS_LOW", "BIT_HIGH", "BIT_LOW"}

Pending(c) == call = c /\ CurrentTestFailed = 0 /\ outcome = "none"

Init ==
  \E expected, actual \in Numbers :
    \/ \E f \in NumberFamilies \ {"WITHIN"}, t \in Types :
         Pending([family |-> f, type |-> t,
                  expected |-> expected, actual |-> actual])
    \/ \E t \in Types, d \in Deltas :
         Pending([family |-> "WITHIN", type |-> t, delta |-> d,
                  expected |-> expected, actual |-> actual])
    \/ \E f \in {"BITS", "BITS_HIGH", "BITS_LOW"}, m \in Masks,
          withMessage \in BOOLEAN :
         Pending([family |-> f, mask |-> m, message |-> withMessage,
                  expected |-> expected, actual |-> actual])
    \/ \E f \in {"BIT_HIGH", "BIT_LOW"}, b \in 0..Bits(8) - 1,
          withMessage \in BOOLEAN :
         \* a shift by more than the width of UNITY_UINT32 is undefined
         /\ withMessage => b < Bits(4)
         /\ Pending([family |-> f, bit |-> b, message |-> withMessage,
                     expected |-> expected, actual |-> actual])

(* What a function does in the end: nothing, or UNITY_FAIL_AND_BAIL.       *)
Ends_flag_kept(failed) == /\ outcome' = IF failed THEN "failed" ELSE "passed"
                          /\ UNCHANGED <<call, CurrentTestFailed>>
Ends(failed) == /\ outcome' = IF failed THEN "failed" ELSE "passed"
                /\ CurrentTestFailed' = IF failed THEN 1 ELSE 0
                /\ UNCHANGED call

Called(families) == outcome = "none" /\ call.family \in families

UnityAssertEqualNumber ==
  /\ Called({"EQUAL"})
  /\ Ends(CastToEqual(call.type, call.expected) #
          CastToEqual(call.type, call.actual))

UnityAssertGreaterOrLessOrEqualNumber ==
  /\ Called(DOMAIN Comparison)
  /\ LET threshold == CastToCompare(call.type, call.expected)
         actual    == CastToCompare(call.type, call.actual)
         compare   == Comparison[call.family]
         Fails(t, a) == \/ a > t /\ "SMALLER" \in compare
                        \/ a < t /\ "GREATER" \in compare
     IN  Ends(\/ threshold = actual /\ "EQUAL" \notin compare
              \/ /\ Style(call.type).range = "INT"
                 /\ Fails(threshold, actual)
              \/ /\ Style(call.type).range # "INT"
                 /\ Fails(UNITY_UINT(threshold), UNITY_UINT(actual)))

(* The difference of two UNITY_UINTs, the larger first.                    *)
Distance_signed(larger, smaller) == UNITY_INT(larger - smaller)
Distance(larger, smaller) ==
  UNITY_UINT(UNITY_UINT(larger) - UNITY_UINT(smaller))

UnityAssertNumbersWithin ==
  /\ Called({"WITHIN"})
  /\ LET expected == CastToWithin(call.type, call.expected)
         actual   == CastToWithin(call.type, call.actual)
         larger   == IF Style(call.type).range = "INT"
                     THEN actual > expected
                     ELSE UNITY_UINT(actual) > UNITY_UINT(expected)
     IN  Ends((IF larger THEN Distance(actual, expected)
                         ELSE Distance(expected, actual))
                > CastDelta(call.type, call.delta))

(* TEST_ASSERT_BITS_HIGH and _LOW, TEST_ASSERT_BIT_HIGH and _LOW: what     *)
(* they pass to TEST_ASSERT_BITS, without and with a message.              *)
BitsMask(c) ==
  IF c.family \in {"BIT_HIGH", "BIT_LOW"}
  THEN (IF c.message THEN UNITY_UINT32(2 ^ c.bit) ELSE UNITY_UINT(2 ^ c.bit))
  ELSE UNITY_UINT(c.mask)

BitsExpected(c) ==
  CASE c.family = "BITS" -> c.expected
    [] c.family \in {"BITS_HIGH", "BIT_HIGH"} ->
         (IF c.message THEN UNITY_UINT32(-1) ELSE UNITY_UINT(-1))
    [] OTHER -> 0

(* Bitwise and, on the sets of the bits that are 1.                        *)
Ones(x) == {i \in 0..Bits(8) - 1 : (UNITY_UINT(x) \div 2 ^ i) % 2 = 1}

UnityAssertBits ==
  /\ Called(BitFamilies)
  /\ LET mask == Ones(BitsMask(call))
     IN  Ends(mask \cap Ones(BitsExpected(call)) # mask \cap Ones(call.actual))

Next == \/ UnityAssertEqualNumber \/ UnityAssertGreaterOrLessOrEqualNumber
        \/ UnityAssertNumbersWithin \/ UnityAssertBits

Spec == Init /\ [][Next]_vars

-----------------------------------------------------------------------------
(* What an assertion on bits means.                                        *)
BitsHold(c) ==
  CASE c.family = "BITS"      ->
         \A i \in Ones(c.mask) : i \in Ones(c.expected) <=> i \in Ones(c.actual)
    [] c.family = "BITS_HIGH" -> Ones(c.mask) \subseteq Ones(c.actual)
    [] c.family = "BITS_LOW"  -> Ones(c.mask) \cap Ones(c.actual) = {}
    [] c.family = "BIT_HIGH"  -> c.bit \in Ones(c.actual)
    [] c.family = "BIT_LOW"   -> c.bit \notin Ones(c.actual)

DeltaOf(c) == IF c.family = "WITHIN" THEN DeltaValue(c.type, c.delta) ELSE 0

(* The types of the variables, and: the flag of Unity says that the test   *)
(* has failed exactly when the assertion has, also when the function uses  *)
(* the flag for its own computation (UnityAssertNumbersWithin).            *)
TypeOK ==
  /\ call.family \in NumberFamilies \cup BitFamilies
  /\ outcome \in {"none", "passed", "failed"}
  /\ CurrentTestFailed \in {0, 1}
  /\ CurrentTestFailed = 1 <=> outcome = "failed"

(* An assertion on numbers passes exactly when the relation it names holds *)
(* between the values its arguments have in the type it names: no sign     *)
(* extension, unsigned comparison or overflow of the difference shows.     *)
VerdictCorrect ==
  outcome # "none" /\ call.family \in NumberFamilies =>
    (outcome = "passed" <=>
       Holds(call.family, ValueOf(call.type, call.expected),
             ValueOf(call.type, call.actual), DeltaOf(call)))

(* An assertion on bits passes exactly when the bits are what it says; of  *)
(* the BITS_HIGH assertion with a message, which expects 32 bits, only if  *)
(* its mask has no others.                                                 *)
BitsCorrect ==
  outcome # "none" /\ call.family \in BitFamilies =>
    \/ outcome = "passed" <=> BitsHold(call)
    \/ /\ call.message /\ call.family = "BITS_HIGH"
       /\ UNITY_UINT32(call.mask) # call.mask

(* The text of a failure accounts for it: the numbers printed, read back,  *)
(* do not stand in the relation that was asserted.                         *)
FailureExplained ==
  outcome = "failed" /\ call.family \in NumberFamilies =>
    LET Cast(x) == CASE call.family = "EQUAL"  -> CastToEqual(call.type, x)
                     [] call.family = "WITHIN" -> CastToWithin(call.type, x)
                     [] OTHER                  -> CastToCompare(call.type, x)
    IN  ~ Holds(call.family, Shown(call.type, Cast(call.expected)),
                Shown(call.type, Cast(call.actual)), DeltaOf(call))

=============================================================================
