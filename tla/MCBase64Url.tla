---------------------------- MODULE MCBase64Url ----------------------------
(* Small instances of module Base64Url. *)
EXTENDS Base64Url, FiniteSetsExt

(* 'A' (0), 'z' (51), '8' (60), '-' (62), '_' (63) and two characters out  *)
(* of the alphabet, '+' and '='.                                           *)
Sample == {65, 122, 56, 45, 95, 43, 61}

Strings(chars, lengths) == UNION {[1..n -> chars] : n \in lengths}

(* Longer ones, to enter the loop: every length up to ten of "z8", with    *)
(* every one or two characters behind it.                                  *)
Run(n) == [i \in 1..n |-> IF i % 3 = 0 THEN 56 ELSE 122]
Longer == {Run(n) \o t : n \in 3..10, t \in Strings(Sample, 0..2)}

(* The vectors of test_b64: "", "*", four '=', the same before "_w", "_w", *)
(* "Yw==", "Yw", "Y2k", "Y2lh", "Y2lhbw", "_w==(())".                      *)
Vectors == {<<>>, <<42>>, <<61, 61, 61, 61>>, <<61, 61, 61, 61, 95, 119>>,
            <<95, 119>>, <<89, 119, 61, 61>>, <<89, 119>>, <<89, 50, 107>>,
            <<89, 50, 108, 104>>, <<89, 50, 108, 104, 98, 119>>,
            <<95, 119, 61, 61, 40, 40, 41, 41>>}

AllInput == Strings(Sample, 0..3) \cup Longer \cup Vectors

=============================================================================
