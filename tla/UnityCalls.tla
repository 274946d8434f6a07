----------------------------- MODULE UnityCalls -----------------------------
(***************************************************************************)
(* The functions of Unity (src/unity/unity.c) that a test reaches through  *)
(* the macros of unity.h: the assertions on numbers, arrays, strings and   *)
(* floats, each by itself in a module of its own, and the printing of the  *)
(* numbers of a failure.  A behaviour is one call of one of them.  What a  *)
(* test makes of it that has failed already is in module UnityRun.         *)
(***************************************************************************)
EXTENDS Integers, Sequences

CONSTANTS
  ByteBits,                                   \* of UnityTypes: 8
  Numbers, Deltas, Masks,                     \* of UnityNumbers
  MaxElements, Lengths, ArrayDeltas, Arrays(_, _),    \* of UnityArrays
  Strings, ArrayStrings, MaxLength,           \* of UnityStrings
  MaxFloat, Precision, Elements,              \* of UnityFloats
  NibbleCounts, Printed, PrintedMasks,        \* of UnityPrint
  sig_digits, BufSize, FloatPrecision,        \* of UnityPrintFloat
  PrintedFloats

VARIABLES
  callee,       \* the module of the function that is called
  call, expected, actual, ptr_exp, ptr_act, elements, bytes, i, j,
  CurrentTestFailed, outcome, report, line, text,
  pc,
  style, input, number, divisor, nibbles, out,
  factor, n_int, n, exponent, decimals, buf, value

N == INSTANCE UnityNumbers
A == INSTANCE UnityArrays WITH Deltas <- ArrayDeltas
S == INSTANCE UnityStrings
F == INSTANCE UnityFloats WITH ptr_expected <- ptr_exp, ptr_actual <- ptr_act
P == INSTANCE UnityPrint WITH Numbers <- Printed, Masks <- PrintedMasks,
                              IntBits <- 8 * ByteBits, MaskBits <- 4 * ByteBits
R == INSTANCE UnityPrintFloat

ASSUME ConstantsAssumption ==
  /\ MaxElements \in Nat /\ MaxLength \in Nat
  /\ N!WidthAssumption /\ N!ArgumentsAssumption
  /\ A!BlocksAssumption
  /\ S!StringsAssumption
  /\ F!FloatAssumption
  /\ P!WidthAssumption
  /\ R!DigitsAssumption

-----------------------------------------------------------------------------
(* A variable that the function called does not have.                      *)
Absent(v) == v = 0

NoElements == Absent(bytes) /\ Absent(ptr_exp) /\ Absent(ptr_act)
              /\ Absent(elements)
NoCharacters == Absent(i) /\ Absent(j) /\ Absent(line) /\ Absent(text)
NoNumber == /\ Absent(style) /\ Absent(divisor) /\ Absent(nibbles)
NoFloat == /\ Absent(factor) /\ Absent(n_int) /\ Absent(n) /\ Absent(exponent)
           /\ Absent(decimals) /\ Absent(buf) /\ Absent(value)
NoPrinting == NoNumber /\ NoFloat
              /\ Absent(input) /\ Absent(number) /\ Absent(out)
NoAssertion == /\ NoElements /\ NoCharacters
               /\ Absent(call) /\ Absent(expected) /\ Absent(actual)
               /\ Absent(CurrentTestFailed) /\ Absent(report)
               /\ outcome = "none"

Init ==
  \/ /\ callee = "UnityNumbers" /\ N!Init
     /\ NoElements /\ NoCharacters /\ NoPrinting
     /\ Absent(expected) /\ Absent(actual) /\ pc = "none" /\ Absent(report)
  \/ /\ callee = "UnityArrays" /\ A!Init
     /\ NoCharacters /\ NoPrinting
     /\ Absent(CurrentTestFailed) /\ outcome = "none"
  \/ /\ callee = "UnityStrings" /\ S!Init
     /\ NoElements /\ NoPrinting /\ outcome = "none" /\ Absent(report)
  \/ /\ callee = "UnityFloats" /\ F!Init
     /\ Absent(bytes) /\ NoCharacters /\ NoPrinting
     /\ Absent(CurrentTestFailed) /\ outcome = "none"
  \/ /\ callee = "UnityPrint" /\ P!Init
     /\ NoAssertion /\ NoFloat
  \/ /\ callee = "UnityPrintFloat" /\ R!Init
     /\ NoAssertion /\ NoNumber

asserting == <<call, expected, actual, ptr_exp, ptr_act, elements, bytes, i, j,
               CurrentTestFailed, outcome, report, line, text>>
printing  == <<style, input, number, divisor, nibbles, out, factor, n_int, n,
               exponent, decimals, buf, value>>
vars      == <<callee, pc, asserting, printing>>

(* One step of the function that is called.                                *)
Runs(module) == callee = module /\ UNCHANGED callee

AssertNumber ==
  /\ Runs("UnityNumbers") /\ N!Next
  /\ UNCHANGED <<expected, actual, ptr_exp, ptr_act, elements, bytes, i, j,
                 report, line, text, pc, printing>>

AssertArray ==
  /\ Runs("UnityArrays") /\ A!Next
  /\ UNCHANGED <<i, j, CurrentTestFailed, outcome, line, text, printing>>

AssertString ==
  /\ Runs("UnityStrings") /\ S!Next
  /\ UNCHANGED <<ptr_exp, ptr_act, elements, bytes, outcome, report, printing>>

AssertFloat ==
  /\ Runs("UnityFloats") /\ F!Next
  /\ UNCHANGED <<bytes, i, j, CurrentTestFailed, outcome, line, text, printing>>

PrintInteger ==
  /\ Runs("UnityPrint") /\ P!Next
  /\ UNCHANGED <<asserting, factor, n_int, n, exponent, decimals, buf, value>>

PrintFloat ==
  /\ Runs("UnityPrintFloat") /\ R!Next
  /\ UNCHANGED <<asserting, style, divisor, nibbles>>

Next == \/ AssertNumber \/ AssertArray \/ AssertString \/ AssertFloat
        \/ PrintInteger \/ PrintFloat

(* The function called runs on.                                            *)
Spec == Init /\ [][Next]_vars /\ WF_vars(Next)

In(module) == callee = module

-----------------------------------------------------------------------------
(* The types of the variables of each function, and what they say of the   *)
(* flag that fails the test.                                               *)
TypeOK ==
  /\ In("UnityNumbers") => N!TypeOK
  /\ In("UnityArrays") => A!TypeOK
  /\ In("UnityStrings") => S!TypeOK
  /\ In("UnityFloats") => F!TypeOK
  /\ In("UnityPrint") => P!TypeOK
  /\ In("UnityPrintFloat") => R!TypeOK

(* No function reads an element, a byte or a character outside what it is  *)
(* given, but for UnityPrintLen, which reads one character past a buffer   *)
(* without terminator that is just as long as the length compared.         *)
(* UnityPrintFloat stores no more digits than buf has room for.            *)
InBounds ==
  /\ In("UnityArrays") => A!InBounds
  /\ In("UnityStrings") => S!InBounds
  /\ In("UnityFloats") => F!InBounds
  /\ In("UnityPrintFloat") => R!BufferHolds

(* An assertion on numbers, bits, arrays, memory or strings passes exactly *)
(* when what it says holds of its arguments: no sign extension, overflow   *)
(* of a difference, end of an array or NULL makes it pass or fail wrongly. *)
VerdictCorrect ==
  /\ In("UnityNumbers") => N!VerdictCorrect /\ N!BitsCorrect
  /\ In("UnityArrays") => A!VerdictCorrect
  /\ In("UnityStrings") => S!VerdictCorrect

(* So does one on floats, with infinities, NaN and sums that overflow, and *)
(* floats that it calls equal are close to each other.                     *)
FloatVerdictCorrect ==
  In("UnityFloats") =>
    /\ F!NearnessCorrect /\ F!EqualMeansClose
    /\ F!OrderCorrect /\ F!TraitsCorrect /\ F!ArraysCorrect

(* What is printed of a failure accounts for it: the numbers or strings    *)
(* differ as printed, and belong to the first element that does.           *)
FailureExplained ==
  /\ In("UnityNumbers") => N!FailureExplained
  /\ In("UnityArrays") => A!FailureLocated
  /\ In("UnityStrings") => S!FailureExplained

(* What is printed of strings stays on the line of the failure, which      *)
(* scripts take results from.                                              *)
OneLine == In("UnityStrings") => S!OneLine

(* What is printed of an integer in decimal or in hexadecimal reads back   *)
(* as that integer, the smallest included; what is printed under a mask    *)
(* does where the mask has a one, in the low UNITY_INT_WIDTH bits, which   *)
(* are all that is printed.  No power of ten computed on the way overflows. *)
IntegersReadBack ==
  In("UnityPrint") => /\ P!DivisorFits /\ P!DecimalReadsBack
                      /\ P!HexReadsBack /\ P!MaskReadsBack

(* What is printed of a float is, to half a unit of its seventh digit and  *)
(* in its canonical form, what the roundings of the products that scaled   *)
(* it made of it, whichever way these and the loops went ...               *)
FloatsReadBack == In("UnityPrintFloat") => R!ReadsBack /\ R!Canonical

(* ... and these are few, so that no more than a few units of that digit   *)
(* are wrong.                                                              *)
FloatsAccurate == In("UnityPrintFloat") => R!Accurate

(* Every loop ends: every call returns.                                    *)
Terminates ==
  <>(pc \in {"returned", "done"} \/ outcome \in {"passed", "failed"})

=============================================================================
