--------------------------- MODULE UnityRunProof ---------------------------
(***************************************************************************)
(* A run of tests under Unity gives each test one verdict, that of the     *)
(* first failure or ignore it comes to, and counts them truly, for any     *)
(* number of tests of any length: module UnityRun implements what          *)
(* UnitySuite promises.                                                    *)
(***************************************************************************)
EXTENDS UnityRun, FiniteSetTheorems, TLAPS

Running == pc \in {"setUp", "Func", "tearDown", "conclude"}

(* The flags tell whether the test that runs has its verdict already: they *)
(* are set with the verdict, and cleared when it has been counted.         *)
FlagsMatchVerdicts ==
  /\ pc \in {"main", "exited"} =>
       CurrentTestFailed = 0 /\ CurrentTestIgnored = 0
  /\ CurrentTestFailed = 0 \/ CurrentTestIgnored = 0
  /\ Running => NumberOfTests > 0
  /\ Running /\ ~ Decided => tried = <<>> /\ Len(verdicts) = NumberOfTests - 1
  /\ Running /\ Decided =>
       /\ Len(verdicts) = NumberOfTests
       /\ tried # <<>> /\ tried[1] = verdicts[NumberOfTests]
       /\ tried[1] = IF CurrentTestFailed = 1 THEN "FAIL" ELSE "IGNORE"

(* The counters lag behind the verdicts by the flags.                      *)
CountersMatchVerdicts ==
  /\ TestFailures + CurrentTestFailed = Suite!Count("FAIL", verdicts)
  /\ TestIgnores + CurrentTestIgnored = Suite!Count("IGNORE", verdicts)
  /\ status = IF pc = "exited" THEN ExitStatus ELSE -1

(* The inductive invariant.                                                *)
IInv == TypeOK /\ FirstDecides /\ FlagsMatchVerdicts /\ CountersMatchVerdicts

Verdict == {"PASS", "FAIL", "IGNORE"}

-----------------------------------------------------------------------------
(* Counting                                                                *)

(* What UnitySuite counts.                                                 *)
LEMMA CountIs ==
  ASSUME NEW s, NEW v
  PROVE  Suite!Count(v, s) = Cardinality({i \in DOMAIN s : s[i] = v})
  BY DEF Suite!Count, Suite!Cardinality, Cardinality

(* A verdict that is appended is counted once.                             *)
LEMMA CountAppend ==
  ASSUME NEW s \in Seq(Verdict), NEW w \in Verdict, NEW v
  PROVE  Suite!Count(v, Append(s, w)) =
           Suite!Count(v, s) + (IF w = v THEN 1 ELSE 0)
<1> DEFINE S == {i \in DOMAIN s : s[i] = v}
           T == {i \in DOMAIN Append(s, w) : Append(s, w)[i] = v}
<1>1. S \subseteq 1..Len(s) /\ IsFiniteSet(S)
  BY FS_Interval, FS_Subset
<1>2. Len(s) + 1 \notin S
  BY <1>1
<1>3. T = IF w = v THEN S \cup {Len(s) + 1} ELSE S
  OBVIOUS
<1>4. Cardinality(S \cup {Len(s) + 1}) = Cardinality(S) + 1
  BY <1>1, <1>2, FS_AddElement
<1>5. Cardinality(S) \in Nat
  BY <1>1, FS_CardinalityType
<1>6. Suite!Count(v, s) = Cardinality(S)
  BY CountIs
<1>7. Suite!Count(v, Append(s, w)) = Cardinality(T)
  BY CountIs
<1> HIDE DEF S, T
<1> QED
  BY <1>3, <1>4, <1>5, <1>6, <1>7

(* There are no more of a kind than there are verdicts, and none exactly   *)
(* when no verdict is of it.                                               *)
LEMMA CountBounds ==
  ASSUME NEW s \in Seq(Verdict), NEW v
  PROVE  /\ Suite!Count(v, s) \in 0..Len(s)
         /\ (Suite!Count(v, s) = 0 <=> \A i \in DOMAIN s : s[i] # v)
<1> DEFINE S == {i \in DOMAIN s : s[i] = v}
<1>0. Len(s) \in Nat /\ 1 \in Int /\ Len(s) \in Int
  OBVIOUS
<1>a. S \subseteq 1..Len(s)
  OBVIOUS
<1>b. IsFiniteSet(1..Len(s))
  BY <1>0, FS_Interval
<1>c. Cardinality(1..Len(s)) = IF 1 > Len(s) THEN 0 ELSE Len(s) - 1 + 1
  BY <1>0, FS_Interval, Zenon
<1>1. S \subseteq 1..Len(s) /\ IsFiniteSet(1..Len(s))
      /\ Cardinality(1..Len(s)) = Len(s)
  BY <1>0, <1>a, <1>b, <1>c
<1>2. IsFiniteSet(S) /\ Cardinality(S) <= Len(s)
  BY <1>1, FS_Subset
<1>3. Cardinality(S) \in Nat /\ (Cardinality(S) = 0 <=> S = {})
  BY <1>2, FS_CardinalityType, FS_EmptySet
<1> QED
  BY <1>2, <1>3, CountIs

(* Before the first test nothing is counted.                               *)
LEMMA CountEmpty == \A v : Suite!Count(v, <<>>) = 0
<1>1. ASSUME NEW v PROVE {i \in DOMAIN <<>> : <<>>[i] = v} = {}
  OBVIOUS
<1> QED
  BY <1>1, FS_EmptySet, CountIs

-----------------------------------------------------------------------------
(* The invariant                                                           *)

(* The program starts in it.                                               *)
LEMMA InitIInv == Init => IInv
<1> SUFFICES ASSUME Init PROVE IInv
  OBVIOUS
<1>1. TypeOK /\ FirstDecides
  BY BoundsAssumption DEF Init, TypeOK, FirstDecides
<1>2. FlagsMatchVerdicts
  BY DEF Init, FlagsMatchVerdicts, Running
<1>3. CountersMatchVerdicts
  BY CountEmpty DEF Init, CountersMatchVerdicts
<1> QED
  BY <1>1, <1>2, <1>3 DEF IInv

(* A jump leads to a live frame and changes nothing else.                  *)
LEMMA AbortFact ==
  ASSUME TypeOK, InTest, Abort
  PROVE  /\ pc' \in {"tearDown", "conclude"} /\ ops' \in 0..MaxOps
         /\ AbortFrame' = "tearDown"
  BY BoundsAssumption DEF TypeOK, InTest, Abort, SecondFrame

(* Steps of the test that neither print nor count: only who runs changes.  *)
LEMMA QuietStep ==
  ASSUME IInv, Running, UNCHANGED <<counters, flags, verdicts, status>>,
         pc' \in {"setUp", "Func", "tearDown", "conclude"}, ops' \in 0..MaxOps,
         AbortFrame' = IF pc' \in {"setUp", "Func"} THEN "body" ELSE "tearDown",
         tried' = tried \/ (Decided /\ \E v \in {"FAIL", "IGNORE"} :
                                          tried' = Append(tried, v))
  PROVE  IInv'
<1>0. tried \in Seq({"FAIL", "IGNORE"})
  BY DEF IInv, TypeOK
<1>1. /\ tried' \in Seq({"FAIL", "IGNORE"})
      /\ tried # <<>> => tried' # <<>> /\ tried'[1] = tried[1]
      /\ ~ Decided => tried' = tried
  <2>1. CASE tried' = tried
    BY <1>0, <2>1
  <2>2. CASE Decided /\ \E v \in {"FAIL", "IGNORE"} : tried' = Append(tried, v)
    BY <1>0, <2>2
  <2> QED
    BY <2>1, <2>2
<1>2. TypeOK'
  BY <1>1 DEF IInv, TypeOK, counters, flags
<1>3. FirstDecides'
  BY DEF FirstDecides
<1>4. FlagsMatchVerdicts'
  BY <1>1 DEF IInv, FlagsMatchVerdicts, Running, Decided, counters, flags
<1>5. CountersMatchVerdicts'
  BY DEF IInv, CountersMatchVerdicts, Running, counters, flags
<1> QED
  BY <1>2, <1>3, <1>4, <1>5 DEF IInv

(* The first failure or ignore of a test gives it its verdict.             *)
LEMMA VerdictStep ==
  ASSUME IInv, InTest, ~ Decided, NEW v \in {"FAIL", "IGNORE"},
         tried' = Append(tried, v), verdicts' = Append(verdicts, v),
         CurrentTestFailed' = IF v = "FAIL" THEN 1 ELSE 0,
         CurrentTestIgnored' = IF v = "IGNORE" THEN 1 ELSE 0,
         Abort, UNCHANGED <<counters, status>>
  PROVE  IInv'
<1>1. /\ pc' \in {"tearDown", "conclude"} /\ ops' \in 0..MaxOps
      /\ AbortFrame' = "tearDown"
  BY AbortFact DEF IInv
<1>2. Running /\ CurrentTestFailed = 0 /\ CurrentTestIgnored = 0
  BY DEF IInv, TypeOK, InTest, Running, Decided
<1>3. tried = <<>> /\ Len(verdicts) = NumberOfTests - 1
  BY <1>2 DEF IInv, FlagsMatchVerdicts
<1>4. verdicts \in Seq(Verdict) /\ NumberOfTests \in Nat
  BY BoundsAssumption DEF IInv, TypeOK, Verdict
<1>5. TypeOK'
  BY <1>1, <1>3, <1>4 DEF IInv, TypeOK, counters, Verdict
<1>6. FirstDecides'
  BY <1>1 DEF FirstDecides
<1>7. /\ tried' = <<v>> /\ Len(verdicts') = NumberOfTests
      /\ verdicts'[NumberOfTests] = v
  BY <1>3, <1>4
<1>8. FlagsMatchVerdicts'
  BY <1>1, <1>2, <1>7 DEF IInv, FlagsMatchVerdicts, Running, Decided, counters
<1>9. CountersMatchVerdicts'
  <2>1. \A u : Suite!Count(u, verdicts') =
                 Suite!Count(u, verdicts) + (IF v = u THEN 1 ELSE 0)
    BY <1>4, CountAppend DEF Verdict
  <2> QED
    BY <2>1, <1>1, <1>2, <1>4, CountBounds
       DEF IInv, CountersMatchVerdicts, InTest, counters, TypeOK
<1> QED
  BY <1>5, <1>6, <1>8, <1>9 DEF IInv

(* Every step keeps it.                                                    *)
LEMMA NextIInv == IInv /\ [Next]_vars => IInv'
<1> SUFFICES ASSUME IInv, [Next]_vars PROVE IInv'
  OBVIOUS
<1>t. InTest => /\ Running /\ ops \in 0..MaxOps /\ ops + 1 \in 0..MaxOps
                /\ AbortFrame = IF pc \in {"setUp", "Func"} THEN "body"
                                                            ELSE "tearDown"
  BY BoundsAssumption DEF IInv, TypeOK, InTest, Running
<1>d. InTest /\ Abort /\ UNCHANGED <<counters, flags, verdicts, status>>
        /\ (tried' = tried \/ (Decided /\ \E v \in {"FAIL", "IGNORE"} :
                                            tried' = Append(tried, v)))
      => IInv'
  BY <1>t, AbortFact, QuietStep DEF IInv
<1>c. InTest /\ Continue /\ UNCHANGED <<counters, status, tried>> => IInv'
  BY <1>t, QuietStep DEF Continue, InTest
<1>1. CASE UnityFail
  <2>1. CASE Decided
    BY <1>1, <2>1, <1>d DEF UnityFail
  <2>2. CASE ~ Decided
    <3>1. CurrentTestIgnored' = 0
      BY <1>1, <2>2 DEF UnityFail, FailAndBail, Decided, IInv, TypeOK
    <3> QED
      BY <1>1, <2>2, <3>1, VerdictStep DEF UnityFail, FailAndBail
  <2> QED
    BY <2>1, <2>2
<1>2. CASE AssertionHolds
  BY <1>2, <1>c, <1>d DEF AssertionHolds
<1>3. CASE UnityIgnore
  <2>1. CASE Decided
    BY <1>3, <2>1, <1>d DEF UnityIgnore
  <2>2. CASE ~ Decided
    <3>1. CurrentTestFailed' = 0
      BY <1>3, <2>2 DEF UnityIgnore, IgnoreAndBail, Decided, IInv, TypeOK
    <3> QED
      BY <1>3, <2>2, <3>1, VerdictStep DEF UnityIgnore, IgnoreAndBail
  <2> QED
    BY <2>1, <2>2
<1>4. CASE UnityMessage
  BY <1>4, <1>c DEF UnityMessage
<1>5. CASE TestPass
  BY <1>5, <1>d DEF TestPass
<1>6. CASE Return
  <2>1. Running
    BY <1>6 DEF Return, At, Running
  <2>2. /\ pc' \in {"setUp", "Func", "tearDown", "conclude"}
        /\ ops' \in 0..MaxOps
        /\ AbortFrame' = IF pc' \in {"setUp", "Func"} THEN "body"
                                                      ELSE "tearDown"
    BY <1>6, BoundsAssumption DEF IInv, TypeOK, Return, At, SecondFrame
  <2> QED
    BY <1>6, <2>1, <2>2, QuietStep DEF Return
<1>7. CASE RunTest
  <2>1. TypeOK'
    BY <1>7, BoundsAssumption DEF IInv, TypeOK, RunTest, flags, At
  <2>2. FirstDecides'
    BY <1>7 DEF RunTest, FirstDecides
  <2>3. FlagsMatchVerdicts'
    BY <1>7, BoundsAssumption
       DEF IInv, TypeOK, FirstDecides, FlagsMatchVerdicts, RunTest, Running,
           Decided, flags, At
  <2>4. CountersMatchVerdicts'
    BY <1>7 DEF IInv, CountersMatchVerdicts, RunTest, flags, At
  <2> QED
    BY <2>1, <2>2, <2>3, <2>4 DEF IInv
<1>8. CASE UnityConcludeTest
  <2>s. /\ Running /\ pc' = "main" /\ status = -1 /\ status' = -1
        /\ CurrentTestFailed' = 0 /\ CurrentTestIgnored' = 0
        /\ UNCHANGED <<NumberOfTests, AbortFrame, ops, tried>>
        /\ NumberOfTests \in Nat /\ NumberOfTests > 0
        /\ verdicts \in Seq(Verdict)
    BY <1>8, BoundsAssumption
       DEF UnityConcludeTest, IInv, TypeOK, FlagsMatchVerdicts,
           CountersMatchVerdicts, Running, At, FailedAfter, Verdict
  <2>0. FlagsMatchVerdicts'
    BY <2>s DEF FlagsMatchVerdicts, Running
  <2>1. CASE Decided
    <3>1. /\ verdicts' = verdicts
          /\ TestFailures' = TestFailures + CurrentTestFailed
          /\ TestIgnores' = TestIgnores + CurrentTestIgnored
      BY <1>8, <2>1
         DEF UnityConcludeTest, Decided, IInv, TypeOK, FlagsMatchVerdicts
    <3>2. TypeOK'
      BY <2>s, <3>1 DEF IInv, TypeOK
    <3>3. FirstDecides'
      BY <2>s, <2>1, <3>1 DEF IInv, FlagsMatchVerdicts, FirstDecides
    <3>4. CountersMatchVerdicts'
      BY <2>s, <3>1 DEF IInv, TypeOK, CountersMatchVerdicts
    <3> QED
      BY <2>0, <3>2, <3>3, <3>4 DEF IInv
  <2>2. CASE ~ Decided
    <3>1. /\ CurrentTestFailed = 0 /\ CurrentTestIgnored = 0
          /\ verdicts' = Append(verdicts, "PASS")
          /\ TestFailures' = TestFailures /\ TestIgnores' = TestIgnores
          /\ tried = <<>> /\ Len(verdicts) = NumberOfTests - 1
      BY <1>8, <2>s, <2>2
         DEF UnityConcludeTest, Decided, IInv, TypeOK, FlagsMatchVerdicts
    <3>2. TypeOK'
      BY <2>s, <3>1 DEF IInv, TypeOK, Verdict
    <3>3. FirstDecides'
      BY <2>s, <3>1 DEF FirstDecides
    <3>4. CountersMatchVerdicts'
      <4>1. /\ Suite!Count("FAIL", verdicts') = Suite!Count("FAIL", verdicts)
            /\ Suite!Count("IGNORE", verdicts') =
                 Suite!Count("IGNORE", verdicts)
        BY <2>s, <3>1, CountAppend, CountBounds DEF Verdict
      <4> QED
        BY <2>s, <3>1, <4>1 DEF IInv, CountersMatchVerdicts
    <3> QED
      BY <2>0, <3>2, <3>3, <3>4 DEF IInv
  <2> QED
    BY <2>1, <2>2
<1>9. CASE UnityEnd
  <2>1. TypeOK'
    <3>1. ExitStatus \in Int
      BY ExitAssumption, BoundsAssumption DEF IInv, TypeOK, ExitStatus
    <3> QED
      BY <1>9, <3>1 DEF IInv, TypeOK, UnityEnd, counters, flags
  <2>2. FirstDecides' /\ FlagsMatchVerdicts' /\ CountersMatchVerdicts'
    BY <1>9 DEF IInv, FirstDecides, FlagsMatchVerdicts, CountersMatchVerdicts,
                UnityEnd, ExitStatus, Running, At, counters, flags
  <2> QED
    BY <2>1, <2>2 DEF IInv
<1>10. CASE UNCHANGED vars
  BY <1>10 DEF IInv, TypeOK, FirstDecides, FlagsMatchVerdicts,
               CountersMatchVerdicts, ExitStatus, Running, Decided, vars,
               counters, flags
<1> QED
  BY <1>1, <1>2, <1>3, <1>4, <1>5, <1>6, <1>7, <1>8, <1>9, <1>10
     DEF Next, Step, TestCode, Exited

(* The invariant always holds.                                             *)
LEMMA AlwaysIInv == Spec => []IInv
BY InitIInv, NextIInv, PTL DEF Spec

-----------------------------------------------------------------------------
(* The types, and that whoever runs has a live frame of its own to jump to.*)
THEOREM TypeCorrect == Spec => []TypeOK
<1>1. IInv => TypeOK
  BY DEF IInv
<1> QED
  BY <1>1, AlwaysIInv, PTL

(* The first failure or ignore of a test, and nothing later or earlier,    *)
(* decides its verdict (RETURN_IF_FAIL_OR_IGNORE, UnityConcludeTest).      *)
THEOREM FirstAlwaysDecides == Spec => []FirstDecides
<1>1. IInv => FirstDecides
  BY DEF IInv
<1> QED
  BY <1>1, AlwaysIInv, PTL

(* The summary of UnityEnd counts the verdicts printed, and the exit       *)
(* status is 0 exactly when none of them is FAIL.                          *)
THEOREM SummaryAlwaysTrue == Spec => []SummaryTrue
<1>1. IInv => SummaryTrue
  <2> SUFFICES ASSUME IInv PROVE SummaryTrue
    OBVIOUS
  <2>1. /\ verdicts \in Seq(Verdict)
        /\ TestFailures \in Nat /\ TestIgnores \in Nat
        /\ NumberOfTests \in 0..MaxTests
    BY DEF IInv, TypeOK, Verdict
  <2>2. pc \in {"main", "exited"} =>
          /\ TestFailures = Counted("FAIL") /\ TestIgnores = Counted("IGNORE")
          /\ Len(verdicts) = NumberOfTests
    BY <2>1, CountIs
       DEF IInv, FirstDecides, FlagsMatchVerdicts, CountersMatchVerdicts,
           Counted
  <2>3. Counted("FAIL") <= Len(verdicts)
        /\ (Counted("FAIL") = 0 <=> \A i \in DOMAIN verdicts :
                                       verdicts[i] # "FAIL")
    <3>1. Counted("FAIL") = Suite!Count("FAIL", verdicts)
      BY CountIs DEF Counted
    <3>2. Suite!Count("FAIL", verdicts) \in 0..Len(verdicts)
          /\ (Suite!Count("FAIL", verdicts) = 0
                <=> \A i \in DOMAIN verdicts : verdicts[i] # "FAIL")
      BY <2>1, CountBounds
    <3> QED
      BY <2>1, <3>1, <3>2
  <2>4. ASSUME pc = "exited"
        PROVE  status = 0 <=> \A i \in DOMAIN verdicts : verdicts[i] # "FAIL"
    <3>1. status = TestFailures % ExitModulus
      BY <2>4 DEF IInv, CountersMatchVerdicts, ExitStatus
    <3>2. TestFailures < ExitModulus
      BY <2>1, <2>2, <2>3, <2>4, ExitAssumption, BoundsAssumption
    <3>3. status = TestFailures
      BY <2>1, <3>1, <3>2, ExitAssumption
    <3> QED
      BY <2>2, <2>3, <2>4, <3>3
  <2> QED
    BY <2>2, <2>4 DEF SummaryTrue
<1> QED
  BY <1>1, AlwaysIInv, PTL

-----------------------------------------------------------------------------
(* A step of the runner is a step of UnitySuite, or shows nothing of it.   *)
LEMMA SuiteStep == IInv /\ [Next]_vars => [Suite!Next]_(Suite!suiteVars)
<1> SUFFICES ASSUME IInv, [Next]_vars
             PROVE  Suite!Next \/ UNCHANGED Suite!suiteVars
  OBVIOUS
<1> USE DEF Suite!suiteVars
<1>s. pc # "exited" => status = -1
  BY DEF IInv, CountersMatchVerdicts
<1>v. ASSUME Running, ~ Decided, NEW v \in Verdict,
             verdicts' = Append(verdicts, v), UNCHANGED <<counters, status>>
      PROVE  Suite!Next
  <2>1. Len(verdicts) < NumberOfTests
    BY <1>v, BoundsAssumption DEF IInv, TypeOK, FlagsMatchVerdicts
  <2>2. Suite!Judge
    BY <1>v, <1>s, <2>1
       DEF Suite!Judge, Suite!Verdict, Verdict, Running, counters
  <2> QED
    BY <2>2 DEF Suite!Next
<1>1. CASE UnityFail
  <2>1. CASE Decided
    BY <1>1, <2>1 DEF UnityFail, counters
  <2>2. CASE ~ Decided
    <3>1. /\ Running /\ verdicts' = Append(verdicts, "FAIL")
          /\ UNCHANGED <<counters, status>> /\ "FAIL" \in Verdict
      BY <1>1, <2>2 DEF UnityFail, FailAndBail, InTest, Running, Verdict
    <3> QED
      BY <2>2, <3>1, <1>v
  <2> QED
    BY <2>1, <2>2
<1>2. CASE AssertionHolds
  BY <1>2 DEF AssertionHolds, Continue, counters
<1>3. CASE UnityIgnore
  <2>1. CASE Decided
    BY <1>3, <2>1 DEF UnityIgnore, counters
  <2>2. CASE ~ Decided
    <3>1. /\ Running /\ verdicts' = Append(verdicts, "IGNORE")
          /\ UNCHANGED <<counters, status>> /\ "IGNORE" \in Verdict
      BY <1>3, <2>2 DEF UnityIgnore, IgnoreAndBail, InTest, Running, Verdict
    <3> QED
      BY <2>2, <3>1, <1>v
  <2> QED
    BY <2>1, <2>2
<1>4. CASE UnityMessage \/ TestPass \/ Return
  BY <1>4 DEF UnityMessage, TestPass, Return, Continue, counters
<1>5. CASE RunTest
  <2>1. Suite!Start
    BY <1>5, <1>s DEF RunTest, Suite!Start, IInv, FirstDecides, At
  <2> QED
    BY <2>1 DEF Suite!Next
<1>6. CASE UnityConcludeTest
  <2>1. CASE Decided
    BY <1>6, <2>1
       DEF UnityConcludeTest, Decided, IInv, TypeOK, FlagsMatchVerdicts
  <2>2. CASE ~ Decided
    <3>1. /\ Running /\ ~ Decided /\ status = -1 /\ UNCHANGED status
          /\ verdicts' = Append(verdicts, "PASS") /\ "PASS" \in Verdict
          /\ UNCHANGED NumberOfTests
      BY <1>6, <2>2, <1>s
         DEF UnityConcludeTest, Decided, IInv, TypeOK, Running, At, Verdict
    <3>2. Len(verdicts) < NumberOfTests
      BY <3>1, BoundsAssumption DEF IInv, TypeOK, FlagsMatchVerdicts
    <3>3. Suite!Judge
      BY <3>1, <3>2 DEF Suite!Judge, Suite!Verdict, Verdict
    <3> QED
      BY <3>3 DEF Suite!Next
  <2> QED
    BY <2>1, <2>2
<1>7. CASE UnityEnd
  <2>1. /\ status = -1 /\ Len(verdicts) = NumberOfTests
        /\ TestFailures = Suite!Count("FAIL", verdicts)
    BY <1>7, <1>s DEF UnityEnd, At, IInv, TypeOK, FirstDecides,
                      FlagsMatchVerdicts, CountersMatchVerdicts
  <2>2. Suite!Exit
    BY <1>7, <2>1 DEF UnityEnd, ExitStatus, Suite!Exit, counters
  <2> QED
    BY <2>2 DEF Suite!Next
<1>8. CASE UNCHANGED vars
  BY <1>8 DEF vars, counters
<1> QED
  BY <1>1, <1>2, <1>3, <1>4, <1>5, <1>6, <1>7, <1>8
     DEF Next, Step, TestCode, Exited

(* A run of tests implements UnitySuite: its initial states and its steps  *)
(* are those of that module.  (That it ends is checked by TLC.)            *)
THEOREM RunImplementsSuite ==
  Spec => Suite!Init /\ [][Suite!Next]_(Suite!suiteVars)
<1>1. Init => Suite!Init
  BY DEF Init, Suite!Init
<1> QED
  BY <1>1, AlwaysIInv, SuiteStep, PTL DEF Spec

=============================================================================
