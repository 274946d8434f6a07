------------------------------ MODULE StrlCpy ------------------------------
(***************************************************************************)
(* u_strlcpy of src/src/utils.c, character by character: every text that   *)
(* reaches a caller's err_msg, and every argument of the example program,  *)
(* goes through it.  dst is the destination, a function of its offsets     *)
(* 0..sz-1; d and s are the offsets of the C pointers of those names, and  *)
(* n is the counter the function decrements in two places.                 *)
(***************************************************************************)
EXTENDS Integers, Sequences

CONSTANTS
  Char,       \* the characters
  NUL,        \* the terminator, which is none of them
  Junk,       \* what the destination holds before
  Source,     \* the strings to copy
  Size        \* the sizes of the destination

ASSUME CharAssumption == NUL \notin Char
ASSUME SourceAssumption == Source \subseteq Seq(Char)
ASSUME SizeAssumption == Size \subseteq Nat

VARIABLES src, sz,      \* the arguments
          dst,          \* the destination
          pc, d, s, n,
          ret           \* the return value, -1 before

vars == <<src, sz, dst, pc, d, s, n, ret>>

CharAt(t, i) == IF i < Len(t) THEN t[i + 1] ELSE NUL

(* The room left for characters in a destination of size k: one is for the *)
(* terminator.                                                             *)
Room_all(k) == k
Room(k) == k - 1

(* The first half of the test before the loop.                             *)
NoRoom_untested(k) == FALSE
NoRoom(k) == k = 0

(* The increment of s.                                                     *)
Advanced_never(i) == i
Advanced(i) == i + 1

(* The result: s is past the terminator.                                   *)
Length_with_NUL(i) == i
Length(i) == i - 1

-----------------------------------------------------------------------------
(* if (n != 0 && --n != 0)                                                 *)
Check ==
  /\ pc = "check"
  /\ n' = IF NoRoom(n) THEN 0 ELSE Room(n)
  /\ pc' = IF n' = 0 THEN "full" ELSE "copy"
  /\ UNCHANGED <<src, sz, dst, d, s, ret>>

(* One round of the loop; it ends after the terminator or without room.    *)
Copy ==
  /\ pc = "copy"
  /\ dst' = [dst EXCEPT ![d] = CharAt(src, s)]
  /\ d' = d + 1
  /\ s' = Advanced(s)
  /\ \/ /\ CharAt(src, s) = NUL
        /\ pc' = "return"
        /\ UNCHANGED n
     \/ /\ CharAt(src, s) # NUL
        /\ n' = n - 1
        /\ pc' = IF n' = 0 THEN "full" ELSE "copy"
  /\ UNCHANGED <<src, sz, ret>>

(* The terminator, if there is room for anything.                          *)
Terminate ==
  /\ pc = "full"
  /\ dst' = IF sz # 0 THEN [dst EXCEPT ![d] = NUL] ELSE dst
  /\ pc' = "skip"
  /\ UNCHANGED <<src, sz, d, s, n, ret>>

(* The traversal of the rest of src.                                        *)
Skip ==
  /\ pc = "skip"
  /\ s' = Advanced(s)
  /\ pc' = IF CharAt(src, s) = NUL THEN "return" ELSE "skip"
  /\ UNCHANGED <<src, sz, dst, d, n, ret>>

Return ==
  /\ pc = "return"
  /\ ret' = Length(s)
  /\ pc' = "done"
  /\ UNCHANGED <<src, sz, dst, d, s, n>>

Done == pc = "done" /\ UNCHANGED vars

Init ==
  /\ src \in Source
  /\ sz \in Size
  /\ dst = [i \in 0..(sz - 1) |-> Junk]
  /\ pc = "check"
  /\ d = 0 /\ s = 0 /\ n = sz
  /\ ret = -1

Step == Check \/ Copy \/ Terminate \/ Skip \/ Return

Next == Step \/ Done

Spec == Init /\ [][Next]_vars /\ WF_vars(Step)

-----------------------------------------------------------------------------
(* The offsets and the counter, a size_t, are natural numbers: n is never  *)
(* decremented below zero, where it would wrap.                            *)
TypeOK ==
  /\ src \in Source
  /\ sz \in Size
  /\ dst \in [0..(sz - 1) -> Char \cup {NUL, Junk}]
  /\ pc \in {"check", "copy", "full", "skip", "return", "done"}
  /\ d \in Nat /\ s \in Nat /\ n \in Nat
  /\ ret \in Nat \cup {-1}

(* Every store goes into the destination, and every read of the source is  *)
(* of a character of it or of its terminator.                              *)
InBounds ==
  /\ pc = "copy" \/ (pc = "full" /\ sz # 0) => d < sz
  /\ pc \in {"copy", "skip"} => s <= Len(src)

(* What the comment above u_strlcpy says of its result: the number of      *)
(* characters of the source, and a destination that holds as many of them  *)
(* as fit, a terminator, and whatever it held before from there on.        *)
CopiesWhatFits ==
  pc = "done" =>
    /\ ret = Len(src)
    /\ \A i \in 0..(sz - 1) :
         \/ i < Len(src) /\ i < sz - 1 /\ dst[i] = src[i + 1]
         \/ i < Len(src) /\ i = sz - 1 /\ dst[i] = NUL
         \/ i = Len(src) /\ dst[i] = NUL
         \/ i > Len(src) /\ dst[i] = Junk

(* Both loops end.                                                         *)
Terminates == <>(pc = "done")

=============================================================================
