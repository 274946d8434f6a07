----------------------------- MODULE UnitySuite -----------------------------
(***************************************************************************)
(* What a run of a test program built with Unity (src/unity) means to who  *)
(* reads its output and its exit status: the tests are run one after the   *)
(* other, each gets one verdict, and the exit status counts the failures.  *)
(* How verdicts come about is module UnityRun, which implements this one.  *)
(***************************************************************************)
EXTENDS Integers, Sequences, FiniteSets

CONSTANT ExitModulus    \* how many exit statuses the system tells apart

VARIABLES
  started,    \* the number of tests started
  verdicts,   \* the verdicts printed, in the order of the tests
  status      \* the exit status, -1 while the program runs

suiteVars == <<started, verdicts, status>>

Verdict == {"PASS", "FAIL", "IGNORE"}

(* How many of the verdicts are v.                                         *)
Count(v, seq) == Cardinality({i \in DOMAIN seq : seq[i] = v})

Init == started = 0 /\ verdicts = <<>> /\ status = -1

Start == /\ status = -1 /\ Len(verdicts) = started
         /\ started' = started + 1
         /\ UNCHANGED <<verdicts, status>>

Judge == /\ status = -1 /\ Len(verdicts) < started
         /\ \E v \in Verdict : verdicts' = Append(verdicts, v)
         /\ UNCHANGED <<started, status>>

Exit == /\ status = -1 /\ Len(verdicts) = started
        /\ status' = Count("FAIL", verdicts) % ExitModulus
        /\ UNCHANGED <<started, verdicts>>

Next == Start \/ Judge \/ Exit

(* The program ends.                                                       *)
Ends == <>(status # -1)

Spec == Init /\ [][Next]_suiteVars /\ Ends

=============================================================================
