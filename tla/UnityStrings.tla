---------------------------- MODULE UnityStrings ----------------------------
(***************************************************************************)
(* The assertions of Unity (src/unity/unity.c) that compare strings:       *)
(* UnityAssertEqualString, UnityAssertEqualStringLen and                   *)
(* UnityAssertEqualStringArray, character by character, with the text they *)
(* print of two strings that differ (UnityPrint, UnityPrintLen).           *)
(*                                                                         *)
(* A behaviour is one call, of a test that has not failed yet.  A string   *)
(* is the sequence of the signed chars of its buffer, terminator included, *)
(* and NULL an empty one.  A buffer passed with a length need not have a   *)
(* terminator.                                                             *)
(***************************************************************************)
EXTENDS Integers, Sequences

CONSTANTS
  Strings,        \* the strings compared, NULL and unterminated ones included
  ArrayStrings,   \* those that are elements of arrays
  MaxLength,      \* bound on the length passed to UnityAssertEqualStringLen
  MaxElements     \* bound on num_elements

CharType == -128..127
NULL == <<>>
Terminated(string) == string = NULL \/ \E k \in DOMAIN string : string[k] = 0

StringsAssumption == /\ Strings \subseteq Seq(CharType)
                     /\ ArrayStrings \subseteq Strings
                     /\ \A s \in ArrayStrings : Terminated(s)

VARIABLES
  call,               \* the function and its arguments
  expected, actual,   \* arrays of strings, of one string where it is not one
  i, j,               \* the character and the element it has come to
  CurrentTestFailed,  \* the field of Unity
  pc,                 \* "call", "pair", "char", "print" or "returned"
  line,               \* what has been printed of a string
  text                \* the strings printed

vars == <<call, expected, actual, i, j, CurrentTestFailed, pc, line, text>>
arguments == <<call, expected, actual>>
printed == <<line, text>>

-----------------------------------------------------------------------------
(* What can be read of a string at index k; beyond its buffer, anything.   *)
Read(string, k) == IF k < Len(string) THEN {string[k + 1]} ELSE CharType

expd == expected[IF call.flags = "ARRAY_TO_VAL" THEN 1 ELSE j + 1]
act  == actual[j + 1]

Returned(failed) == /\ pc' = "returned"
                    /\ CurrentTestFailed' = IF failed THEN 1 ELSE 0
                    /\ UNCHANGED <<arguments, i, j, printed>>

(* The tests UnityAssertEqualStringArray makes first.                      *)
EqualPointers == call.pointers \in {"same", "both_NULL"}
OneArrayNull  == call.pointers \in {"expected_NULL", "actual_NULL"}

Enter ==
  /\ pc = "call"
  /\ \/ call.num_elements = 0 /\ Returned(TRUE)
     \/ call.num_elements > 0 /\ EqualPointers /\ Returned(FALSE)
     \/ call.num_elements > 0 /\ OneArrayNull /\ Returned(TRUE)
     \/ /\ call.num_elements > 0 /\ call.pointers = "distinct"
        /\ pc' = "pair"
        /\ UNCHANGED <<arguments, i, j, CurrentTestFailed, printed>>

(* The strings are equal: on to the next element, or back to the test.     *)
PairEqual == IF j + 1 < call.num_elements
             THEN /\ j' = j + 1 /\ pc' = "pair"
                  /\ UNCHANGED <<arguments, i, CurrentTestFailed, printed>>
             ELSE Returned(FALSE)

PairDiffers == /\ CurrentTestFailed' = 1
               /\ pc' = "print" /\ i' = 0
               /\ UNCHANGED <<arguments, j, printed>>

BothThere == expd # NULL /\ act # NULL

(* If both pointers are not NULL, compare the strings.                     *)
ComparePair ==
  /\ pc = "pair"
  /\ \/ /\ BothThere
        /\ pc' = "char" /\ i' = 0
        /\ UNCHANGED <<arguments, j, CurrentTestFailed, printed>>
     \/ ~ BothThere /\ expd # act /\ PairDiffers
     \/ ~ BothThere /\ expd = act /\ PairEqual

(* The test of the length comes first, so that the characters at it are    *)
(* not read.                                                               *)
LengthReached == call.fn = "EqualStringLen" /\ i >= call.length

Advanced_never(k) == k
Advanced(k) == k + 1

CompareChar ==
  /\ pc = "char"
  /\ \/ LengthReached /\ PairEqual
     \/ /\ ~ LengthReached
        /\ \E e \in Read(expd, i), a \in Read(act, i) :
             \/ e = 0 /\ a = 0 /\ PairEqual
             \/ e # a /\ PairDiffers
             \/ /\ e = a /\ e # 0
                /\ i' = Advanced(i)
                /\ UNCHANGED <<arguments, j, CurrentTestFailed, pc, printed>>

-----------------------------------------------------------------------------
(* UnityPrintChar, with the two digits of UnityPrintNumberHex.             *)
Digit(n) == IF n <= 9 THEN 48 + n ELSE 55 + n
Backslash == 92
Quote == <<39>>

Printable_all(c) == c >= 32
Printable(c) == c <= 126 /\ c >= 32

UnityPrintChar(c) ==
  CASE Printable(c) -> <<c>>
    [] c = 13 -> <<Backslash, 114>>
    [] c = 10 -> <<Backslash, 110>>
    [] OTHER  -> <<Backslash, 120, Digit((c % 256) \div 16), Digit(c % 16)>>

(* UnityPrintExpectedAndActualStrings(Len): the strings one after the      *)
(* other, in quotes, or the word NULL.  UnityPrintLen tests the character  *)
(* before the length (unity.c:155), and so reads the one at the length,    *)
(* which ends the string whatever it is.                                   *)
InPrint == IF text = <<>> THEN expd ELSE act

PrintEnds(word) == /\ text' = Append(text, word)
                   /\ line' = <<>> /\ i' = 0
                   /\ pc' = IF text = <<>> THEN "print" ELSE "returned"

PrintString ==
  /\ pc = "print"
  /\ UNCHANGED <<arguments, j, CurrentTestFailed>>
  /\ \/ InPrint = NULL /\ PrintEnds(<<78, 85, 76, 76>>)
     \/ /\ InPrint # NULL
        /\ \E c \in Read(InPrint, i) :
             \/ /\ c = 0 \/ LengthReached
                /\ PrintEnds(Quote \o line \o Quote)
             \/ /\ c # 0 /\ ~ LengthReached
                /\ line' = line \o UnityPrintChar(c)
                /\ i' = Advanced(i)
                /\ UNCHANGED <<pc, text>>

Next == Enter \/ ComparePair \/ CompareChar \/ PrintString

-----------------------------------------------------------------------------
(* The calls that the macros make.  A function of one pair of strings      *)
(* starts at the pair; it needs terminated strings, or strings at least as *)
(* long as the length it is given.                                         *)
One(string) == <<string>>

Single ==
  \E e, a \in Strings, fn \in {"EqualString", "EqualStringLen"},
     length \in 0..MaxLength :
    /\ IF fn = "EqualString"
       THEN length = 0 /\ Terminated(e) /\ Terminated(a)
       ELSE \A s \in {e, a} : Terminated(s) \/ Len(s) >= length
    /\ call = [fn |-> fn, length |-> length, num_elements |-> 1,
               flags |-> "ARRAY_TO_ARRAY", pointers |-> "distinct"]
    /\ expected = One(e) /\ actual = One(a)
    /\ pc = "pair"

Array ==
  \E n \in 0..MaxElements, flags \in {"ARRAY_TO_ARRAY", "ARRAY_TO_VAL"},
     p \in {"distinct", "same", "both_NULL", "expected_NULL", "actual_NULL"} :
    /\ call = [fn |-> "EqualStringArray", length |-> 0, num_elements |-> n,
               flags |-> flags, pointers |-> p]
    /\ actual \in [1..n -> ArrayStrings]
    /\ IF flags = "ARRAY_TO_VAL"
       THEN /\ p # "same"
            /\ expected \in {One(s) : s \in ArrayStrings}
            /\ expected = One(NULL) <=> p \in {"both_NULL", "expected_NULL"}
       ELSE /\ expected \in [1..n -> ArrayStrings]
            /\ p = "same" => expected = actual
    /\ pc = "call"

Init == /\ Single \/ Array
        /\ i = 0 /\ j = 0 /\ CurrentTestFailed = 0
        /\ line = <<>> /\ text = <<>>

Spec == Init /\ [][Next]_vars /\ WF_vars(Next)

-----------------------------------------------------------------------------
(* Two strings are equal when both are NULL, or neither is and they have   *)
(* the same characters before their terminators, of the first length ones. *)
Content(string) ==
  LET ends == {k \in DOMAIN string : string[k] = 0}
      stop == IF ends = {} THEN Len(string)
              ELSE (CHOOSE k \in ends : \A l \in ends : k <= l) - 1
  IN  SubSeq(string, 1, IF call.fn = "EqualStringLen" /\ call.length < stop
                        THEN call.length ELSE stop)

Equal(e, a) == \/ e = NULL /\ a = NULL
               \/ e # NULL /\ a # NULL /\ Content(e) = Content(a)

Expected(k) == expected[IF call.flags = "ARRAY_TO_VAL" THEN 1 ELSE k]
Positions == 1..call.num_elements
AllEqual == \A k \in Positions : Equal(Expected(k), actual[k])

(* The types of the variables.                                             *)
TypeOK ==
  /\ pc \in {"call", "pair", "char", "print", "returned"}
  /\ i \in Nat /\ j \in 0..call.num_elements
  /\ CurrentTestFailed \in {0, 1}
  /\ line \in Seq(CharType) /\ text \in Seq(Seq(CharType))
  /\ Len(text) <= 2 /\ (text # <<>> => CurrentTestFailed = 1)

(* A buffer without terminator and just as long as the length: the printer *)
(* has come to its end and reads the character after it.                   *)
ReadsPastEnd == /\ call.fn = "EqualStringLen" /\ ~ Terminated(InPrint)
                /\ i = call.length /\ i = Len(InPrint)

(* Every character a step reads is inside its string: what a comparison    *)
(* reads, always; what the printing of a failure reads, but for the one    *)
(* character after an unterminated buffer of just the length compared,     *)
(* which UnityPrintLen reads and does not print.                           *)
InBounds ==
  /\ pc = "char" /\ ~ LengthReached => i < Len(expd) /\ i < Len(act)
  /\ pc = "print" /\ InPrint # NULL => i < Len(InPrint) \/ ReadsPastEnd

(* A call passes exactly when the strings are equal; one of arrays when    *)
(* there is something to compare, and the arrays are the same, or both are *)
(* there and each string of the one equals that of the other.  (A single   *)
(* NULL as expected value is a NULL pointer to the function: it fails      *)
(* against an array of NULLs, unity.c:1696, before the comparison of which *)
(* unity.c:1727 says that it should pass.)                                 *)
VerdictCorrect ==
  pc = "returned" =>
    (CurrentTestFailed = 0 <=>
       /\ call.num_elements > 0
       /\ \/ EqualPointers
          \/ call.pointers = "distinct" /\ AllEqual)

(* The element whose strings are printed is the first that is not equal,   *)
(* and what is printed for the two strings shows that they differ, unless  *)
(* a backslash in one of them reads like the escape of a character.        *)
FailureExplained ==
  Len(text) = 2 =>
    /\ ~ Equal(Expected(j + 1), actual[j + 1])
    /\ \A k \in 1..j : Equal(Expected(k), actual[k])
    /\ \/ text[1] # text[2]
       \/ \E s \in {expd, act} : \E k \in DOMAIN s : s[k] = Backslash

(* Whatever the strings contain, what is printed of them stays on the line *)
(* of the failure, which scripts read the results from.                    *)
OneLine == \A w \in 1..Len(text) :
             \A k \in DOMAIN text[w] : text[w][k] \in 32..126

(* Every comparison ends, and so does the message of every failure.        *)
Terminates == <>(pc = "returned")

=============================================================================
