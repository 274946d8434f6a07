------------------------------ MODULE UnityRun ------------------------------
(***************************************************************************)
(* A run of a test program under Unity (src/unity/unity.c), the way        *)
(* main of src/test/ear_test.c makes one: UNITY_BEGIN, RUN_TEST for each   *)
(* test, UNITY_END.  A test is setUp, the test function and tearDown, each *)
(* any sequence of assertions, TEST_FAIL, TEST_IGNORE, TEST_PASS and       *)
(* TEST_MESSAGE.  An assertion that fails jumps out of all of them         *)
(* (longjmp) to where AbortFrame was last set (setjmp).                    *)
(*                                                                         *)
(* Of the output only the verdicts are kept.  What makes an assertion hold *)
(* or fail is in modules UnityNumbers, UnityArrays and UnityFloats.        *)
(***************************************************************************)
EXTENDS Integers, Sequences, FiniteSets

CONSTANTS
  MaxTests,     \* bound on the tests main runs
  MaxOps,       \* bound on what setUp, a test or tearDown does
  ExitModulus   \* 256: what is left of main's result in the exit status

ASSUME BoundsAssumption == MaxTests \in Nat /\ MaxOps \in Nat

(* A program with 256 failing tests would exit with 0.                     *)
ASSUME ExitAssumption == ExitModulus \in Nat /\ MaxTests < ExitModulus

VARIABLES
  NumberOfTests, TestFailures, TestIgnores,
  CurrentTestFailed, CurrentTestIgnored,      \* the fields of Unity
  AbortFrame,   \* where it was set: "none", "body" or "tearDown"
  pc,           \* who runs: "main", "setUp", "Func", "tearDown",
                \* "conclude" or nobody: "exited"
  ops,          \* how much the function that runs has done
  verdicts,     \* the verdicts printed
  status,       \* the exit status, -1 before
  tried         \* history: the failures and ignores the current test has
                \* come to, reported or not, in order

counters == <<NumberOfTests, TestFailures, TestIgnores>>
flags    == <<CurrentTestFailed, CurrentTestIgnored>>
vars     == <<counters, flags, AbortFrame, pc, ops, verdicts, status, tried>>

At(step) == pc = step

-----------------------------------------------------------------------------
(* Where an assertion of tearDown jumps to: its own TEST_PROTECT sets it.   *)
SecondFrame_not_set == AbortFrame
SecondFrame == "tearDown"

(* TEST_ABORT: longjmp to the last setjmp.  From the first TEST_PROTECT    *)
(* execution goes on to the second, which is set and runs tearDown.        *)
Abort ==
  \/ /\ AbortFrame = "body"
     /\ AbortFrame' = SecondFrame /\ pc' = "tearDown" /\ ops' = 0
  \/ /\ AbortFrame = "tearDown"
     /\ pc' = "conclude"
     /\ UNCHANGED <<AbortFrame, ops>>

(* RETURN_IF_FAIL_OR_IGNORE                                                *)
Decided_by_failure == CurrentTestFailed = 1
Decided == CurrentTestFailed = 1 \/ CurrentTestIgnored = 1

(* UNITY_FAIL_AND_BAIL after UnityTestResultsFailBegin, or UnityFail's     *)
(* own text.                                                               *)
FailAndBail == /\ verdicts' = Append(verdicts, "FAIL")
               /\ CurrentTestFailed' = 1
               /\ Abort
               /\ UNCHANGED CurrentTestIgnored

(* UNITY_IGNORE_AND_BAIL after UnityIgnore's text.                         *)
IgnoreAndBail == /\ verdicts' = Append(verdicts, "IGNORE")
                 /\ CurrentTestIgnored' = 1
                 /\ Abort
                 /\ UNCHANGED CurrentTestFailed

Continue == /\ ops' = ops + 1
            /\ UNCHANGED <<flags, AbortFrame, pc, verdicts>>

InTest == pc \in {"setUp", "Func", "tearDown"} /\ ops < MaxOps

(* The test comes to an assertion that does not hold, or to TEST_FAIL.     *)
UnityFail ==
  /\ InTest
  /\ tried' = Append(tried, "FAIL")
  /\ \/ Decided /\ Abort /\ UNCHANGED <<flags, verdicts>>
     \/ ~ Decided /\ FailAndBail
  /\ UNCHANGED <<counters, status>>

(* An assertion that holds.  Once the test is decided it, too, aborts.     *)
AssertionHolds ==
  /\ InTest
  /\ \/ Decided /\ Abort /\ UNCHANGED <<flags, verdicts>>
     \/ ~ Decided /\ Continue
  /\ UNCHANGED <<counters, status, tried>>

UnityIgnore ==
  /\ InTest
  /\ tried' = Append(tried, "IGNORE")
  /\ \/ Decided /\ Abort /\ UNCHANGED <<flags, verdicts>>
     \/ ~ Decided /\ IgnoreAndBail
  /\ UNCHANGED <<counters, status>>

(* UnityMessage, which tests nothing.                                      *)
UnityMessage ==
  /\ InTest
  /\ Continue
  /\ UNCHANGED <<counters, status, tried>>

(* TEST_PASS                                                               *)
TestPass ==
  /\ InTest
  /\ Abort
  /\ UNCHANGED <<counters, flags, verdicts, status, tried>>

(* The function that runs returns.                                         *)
Return ==
  /\ \/ /\ At("setUp")
        /\ pc' = "Func" /\ ops' = 0
        /\ UNCHANGED AbortFrame
     \/ /\ At("Func")
        /\ AbortFrame' = SecondFrame /\ pc' = "tearDown" /\ ops' = 0
     \/ /\ At("tearDown")
        /\ pc' = "conclude"
        /\ UNCHANGED <<AbortFrame, ops>>
  /\ UNCHANGED <<counters, flags, verdicts, status, tried>>

-----------------------------------------------------------------------------
(* UnityDefaultTestRun, up to setUp.                                       *)
RunTest ==
  /\ At("main") /\ NumberOfTests < MaxTests
  /\ NumberOfTests' = NumberOfTests + 1
  /\ AbortFrame' = "body" /\ pc' = "setUp" /\ ops' = 0
  /\ tried' = <<>>
  /\ UNCHANGED <<TestFailures, TestIgnores, flags, verdicts, status>>

FailedAfter_kept == CurrentTestFailed
FailedAfter == 0

UnityConcludeTest ==
  /\ At("conclude")
  /\ \/ /\ CurrentTestIgnored = 1
        /\ TestIgnores' = TestIgnores + 1
        /\ UNCHANGED <<TestFailures, verdicts>>
     \/ /\ CurrentTestIgnored = 0 /\ CurrentTestFailed = 0
        /\ verdicts' = Append(verdicts, "PASS")
        /\ UNCHANGED <<TestFailures, TestIgnores>>
     \/ /\ CurrentTestIgnored = 0 /\ CurrentTestFailed = 1
        /\ TestFailures' = TestFailures + 1
        /\ UNCHANGED <<TestIgnores, verdicts>>
  /\ CurrentTestFailed' = FailedAfter /\ CurrentTestIgnored' = 0
  /\ pc' = "main"
  /\ UNCHANGED <<NumberOfTests, AbortFrame, ops, status, tried>>

ExitStatus_of_tests == NumberOfTests % ExitModulus
ExitStatus == TestFailures % ExitModulus

(* UnityEnd, and the return from main.                                     *)
UnityEnd ==
  /\ At("main")
  /\ pc' = "exited"
  /\ status' = ExitStatus
  /\ UNCHANGED <<counters, flags, AbortFrame, ops, verdicts, tried>>

Exited == At("exited") /\ UNCHANGED vars

(* After UnityBegin.                                                       *)
Init ==
  /\ NumberOfTests = 0 /\ TestFailures = 0 /\ TestIgnores = 0
  /\ CurrentTestFailed = 0 /\ CurrentTestIgnored = 0
  /\ AbortFrame = "none" /\ pc = "main" /\ ops = 0
  /\ verdicts = <<>> /\ status = -1 /\ tried = <<>>

TestCode == \/ UnityFail \/ AssertionHolds \/ UnityIgnore \/ UnityMessage
            \/ TestPass \/ Return

Step == TestCode \/ RunTest \/ UnityConcludeTest \/ UnityEnd

Next == Step \/ Exited

(* The program runs on: no test loops for ever.                            *)
Spec == Init /\ [][Next]_vars /\ WF_vars(Step)

-----------------------------------------------------------------------------
(* The types of the variables, and the jumps that are possible: whoever    *)
(* runs under Unity has a live frame to jump to, and it is its own.        *)
TypeOK ==
  /\ NumberOfTests \in 0..MaxTests
  /\ TestFailures \in Nat /\ TestIgnores \in Nat
  /\ CurrentTestFailed \in {0, 1} /\ CurrentTestIgnored \in {0, 1}
  /\ pc \in {"main", "setUp", "Func", "tearDown", "conclude", "exited"}
  /\ ops \in 0..MaxOps
  /\ verdicts \in Seq({"PASS", "FAIL", "IGNORE"})
  /\ status \in Int
  /\ tried \in Seq({"FAIL", "IGNORE"})
  /\ pc \in {"setUp", "Func"} => AbortFrame = "body"
  /\ pc \in {"tearDown", "conclude"} => AbortFrame = "tearDown"

(* A test that is over has one verdict: that of the first failure or       *)
(* ignore it came to, in setUp, in the test itself or in tearDown, and     *)
(* PASS if it came to none.  A later one, or the verdict of an earlier     *)
(* test, never overrides it.                                               *)
FirstDecides ==
  pc \in {"main", "exited"} =>
    /\ Len(verdicts) = NumberOfTests
    /\ NumberOfTests > 0 => verdicts[NumberOfTests] =
                              (IF tried = <<>> THEN "PASS" ELSE tried[1])

Counted(v) == Cardinality({i \in DOMAIN verdicts : verdicts[i] = v})

(* The summary counts what was printed, and the exit status is 0 exactly   *)
(* when no test failed.                                                    *)
SummaryTrue ==
  /\ pc \in {"main", "exited"} =>
       TestFailures = Counted("FAIL") /\ TestIgnores = Counted("IGNORE")
  /\ pc = "exited" => (status = 0 <=> \A i \in DOMAIN verdicts :
                                         verdicts[i] # "FAIL")

-----------------------------------------------------------------------------
Suite == INSTANCE UnitySuite WITH started <- NumberOfTests

(* A run of tests is what module UnitySuite says it is.                    *)
SuiteSpec == Suite!Spec

=============================================================================
