--------------------------- MODULE StrlCpyProof ---------------------------
(***************************************************************************)
(* u_strlcpy is right for every alphabet, every source and every size of   *)
(* the destination.                                                        *)
(***************************************************************************)
EXTENDS StrlCpy, StrlCpyRef, TLAPS

(* The destination after k characters have been copied into it.            *)
Holds(k) == \A i \in 0..(sz - 1) : /\ i < k => dst[i] = src[i + 1]
                                   /\ i >= k => dst[i] = Junk

(* The destination in the end.                                             *)
Result == \A i \in 0..(sz - 1) :
            \/ i < Len(src) /\ i < sz - 1 /\ dst[i] = src[i + 1]
            \/ i < Len(src) /\ i = sz - 1 /\ dst[i] = NUL
            \/ i = Len(src) /\ dst[i] = NUL
            \/ i > Len(src) /\ dst[i] = Junk

(* The inductive invariant: in the loop the two offsets are equal and n    *)
(* and d add up to the room there is; after it the destination is full up  *)
(* to its last place, or the terminator of the source has been copied.     *)
IInv ==
  /\ TypeOK
  /\ pc = "check" => d = 0 /\ s = 0 /\ n = sz /\ Holds(0)
  /\ pc = "copy" => /\ s = d /\ d <= Len(src)
                    /\ n > 0 /\ n + d = sz - 1
                    /\ Holds(d)
  /\ pc = "full" => /\ s = d /\ d <= Len(src)
                    /\ sz # 0 => d = sz - 1
                    /\ Holds(d)
  /\ pc = "skip" => /\ s <= Len(src)
                    /\ sz # 0 => sz - 1 <= s
                    /\ \A i \in 0..(sz - 1) :
                         dst[i] = IF i < sz - 1 THEN src[i + 1] ELSE NUL
  /\ pc \in {"return", "done"} => s = Len(src) + 1 /\ Result
  /\ pc = "done" => ret = Len(src)

(* What is read up to the terminator: a character of the source before it, *)
(* and NUL only there.                                                     *)
LEMMA CharAtFact ==
  ASSUME NEW t \in Seq(Char), NEW i \in Nat, i <= Len(t)
  PROVE  /\ CharAt(t, i) = NUL <=> i = Len(t)
         /\ CharAt(t, i) # NUL => CharAt(t, i) = t[i + 1] /\ t[i + 1] \in Char
BY CharAssumption DEF CharAt

(* The invariant holds initially.                                          *)
LEMMA InitIInv == Init => IInv
BY SourceAssumption, SizeAssumption DEF Init, IInv, TypeOK, Holds

(* Every step preserves the invariant.                                     *)
LEMMA NextIInv == IInv /\ [Next]_vars => IInv'
<1> SUFFICES ASSUME IInv, [Next]_vars PROVE IInv'
  OBVIOUS
<1> USE SourceAssumption, SizeAssumption DEF TypeOK
<1>s. src \in Seq(Char) /\ Len(src) \in Nat /\ sz \in Nat
  BY DEF IInv
<1>1. CASE Check
  BY <1>1, <1>s DEF IInv, Check, Holds, NoRoom, Room
<1>2. CASE Copy
  <2> USE <1>2 DEF Copy, IInv, Advanced
  <2>1. CharAt(src, s) = NUL <=> s = Len(src)
    BY CharAtFact, <1>s
  <2>2. CharAt(src, s) # NUL =>
          CharAt(src, s) = src[s + 1] /\ src[s + 1] \in Char
    BY CharAtFact, <1>s
  <2>3. d \in 0..(sz - 1)
    BY <1>s
  <2>4. TypeOK'
    BY <2>1, <2>2, <2>3, <1>s
  <2>5. CASE CharAt(src, s) = NUL
    <3>1. Result'
      BY <2>1, <2>3, <2>5, <1>s DEF Result, Holds
    <3> QED
      BY <3>1, <2>1, <2>4, <2>5, <1>s
  <2>6. CASE CharAt(src, s) # NUL
    <3>1. Holds(d)'
      BY <2>2, <2>3, <2>6, <1>s DEF Holds
    <3> QED
      BY <3>1, <2>1, <2>4, <2>6, <1>s
  <2> QED
    BY <2>5, <2>6
<1>3. CASE Terminate
  BY <1>3, <1>s DEF IInv, Terminate, Holds
<1>4. CASE Skip
  <2>1. CharAt(src, s) = NUL <=> s = Len(src)
    BY CharAtFact, <1>4, <1>s DEF IInv, Skip
  <2>2. CASE s = Len(src)
    <3>1. Result'
      BY <1>4, <1>s, <2>2 DEF IInv, Skip, Result
    <3> QED
      BY <3>1, <2>1, <2>2, <1>4, <1>s DEF IInv, Skip, Advanced
  <2>3. CASE s # Len(src)
    BY <2>1, <2>3, <1>4, <1>s DEF IInv, Skip, Advanced
  <2> QED
    BY <2>2, <2>3
<1>5. CASE Return
  BY <1>5, <1>s DEF IInv, Return, Result, Length
<1>6. CASE UNCHANGED vars
  BY <1>6 DEF IInv, vars, Holds, Result
<1> QED
  BY <1>1, <1>2, <1>3, <1>4, <1>5, <1>6 DEF Next, Step, Done

(* The invariant always holds; the theorems below are read off it.         *)
LEMMA AlwaysIInv == Spec => []IInv
BY InitIInv, NextIInv, PTL DEF Spec

(* The offsets and the counter never become negative: n, which is          *)
(* decremented in two places, does not wrap, for a size of 0 neither.      *)
THEOREM TypeCorrect == Spec => []TypeOK
<1>1. IInv => TypeOK
  BY DEF IInv
<1> QED
  BY <1>1, AlwaysIInv, PTL

(* Every store of u_strlcpy is inside the destination and every read       *)
(* inside the source, whatever their sizes.                                *)
THEOREM StaysInBounds == Spec => []InBounds
<1>1. IInv => InBounds
  BY SourceAssumption, SizeAssumption DEF IInv, TypeOK, InBounds
<1> QED
  BY <1>1, AlwaysIInv, PTL

(* u_strlcpy returns the length of its source, and leaves in the           *)
(* destination what the comment above it promises.                         *)
THEOREM CopiesCorrectly == Spec => []CopiesWhatFits
<1>1. IInv => CopiesWhatFits
  BY DEF IInv, Result, CopiesWhatFits
<1> QED
  BY <1>1, AlwaysIInv, PTL

(* A destination with room for anything holds the string t.                *)
HoldsString(t) == /\ Len(t) < sz
                  /\ \A i \in 0..(Len(t) - 1) : dst[i] = t[i + 1]
                  /\ dst[Len(t)] = NUL

(* What module VerifyTool takes for a step is what both loops make of it:  *)
(* the destination is left with the string Copied says.                    *)
THEOREM CopiesInOneStep ==
  Spec => [](pc = "done" /\ sz > 0 => HoldsString(Copied(src, sz)))
<1>1. IInv => (pc = "done" /\ sz > 0 => HoldsString(Copied(src, sz)))
  <2> SUFFICES ASSUME IInv, pc = "done", sz > 0
               PROVE  HoldsString(Copied(src, sz))
    OBVIOUS
  <2>1. /\ src \in Seq(Char) /\ Len(src) \in Nat /\ sz \in Nat
        /\ Result
    BY SourceAssumption, SizeAssumption DEF IInv, TypeOK
  <2>2. CASE Len(src) < sz
    <3>1. Copied(src, sz) = src
      BY <2>2 DEF Copied
    <3>2. ASSUME NEW i \in 0..(Len(src) - 1) PROVE dst[i] = src[i + 1]
      BY <2>1, <2>2 DEF Result
    <3>3. dst[Len(src)] = NUL
      BY <2>1, <2>2 DEF Result
    <3> QED
      BY <2>2, <3>1, <3>2, <3>3 DEF HoldsString
  <2>3. CASE ~ (Len(src) < sz)
    <3>1. Copied(src, sz) = SubSeq(src, 1, sz - 1)
      BY <2>3 DEF Copied
    <3>2. PICK t \in Seq(Char) : /\ t = SubSeq(src, 1, sz - 1)
                                 /\ Len(t) = sz - 1
                                 /\ \A k \in 1..(sz - 1) : t[k] = src[k]
      <4>1. PICK m \in 0..Len(src) : m = sz - 1
        BY <2>1, <2>3
      <4>2. /\ SubSeq(src, 1, m) \in Seq(Char) /\ Len(SubSeq(src, 1, m)) = m
            /\ \A k \in 1..m : SubSeq(src, 1, m)[k] = src[k]
        BY <2>1
      <4> QED
        BY <4>1, <4>2
    <3>3. ASSUME NEW i \in 0..(sz - 2) PROVE dst[i] = t[i + 1]
      <4>1. dst[i] = src[i + 1]
        BY <2>1, <2>3 DEF Result
      <4>2. i + 1 \in 1..(sz - 1)
        BY <2>1
      <4> QED
        BY <3>2, <4>1, <4>2
    <3>4. dst[sz - 1] = NUL
      BY <2>1, <2>3 DEF Result
    <3> QED
      BY <2>1, <3>1, <3>2, <3>3, <3>4 DEF HoldsString
  <2> QED
    BY <2>2, <2>3
<1> QED
  BY <1>1, AlwaysIInv, PTL

=============================================================================
