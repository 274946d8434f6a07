----------------------------- MODULE StrlCpyRef -----------------------------
(***************************************************************************)
(* What u_strlcpy of src/src/utils.c makes of a string: as much of it as   *)
(* fits a field of n characters with a terminator.  The function itself,   *)
(* with its loops and offsets, is module StrlCpy; this module is what it   *)
(* is proved to do, and what module VerifyTool uses for the options.       *)
(***************************************************************************)
EXTENDS Integers, Sequences

(* The string in a field of size n after s has been copied into it.        *)
Copied_unbounded(s, n) == s
Copied(s, n) == IF Len(s) < n THEN s ELSE SubSeq(s, 1, n - 1)

=============================================================================
