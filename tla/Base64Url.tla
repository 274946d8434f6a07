----------------------------- MODULE Base64Url -----------------------------
(***************************************************************************)
(* u_b64url_decode of src/src/utils.c with Base64decode_len and            *)
(* Base64decode of src/src/base64.c: two scans of the input, a buffer      *)
(* sized from the first, a loop over groups of four digits sized from the  *)
(* second, and a tail.  Offsets are those of the C pointers: bufin into    *)
(* in, bufout into out.                                                    *)
(*                                                                         *)
(* base64.c counts in int and computes nprbytes + 3.  IntMax is the        *)
(* largest int; InputAssumption keeps the sum below it, and with that      *)
(* excludes inputs of two gigabytes.                                       *)
(***************************************************************************)
EXTENDS Base64Ref

CONSTANTS
  Input,      \* the strings to decode
  IntMax,     \* INT_MAX
  NULL        \* the null pointer, and an out parameter not yet written

ASSUME IntMaxAssumption == IntMax \in Nat
ASSUME InputAssumption ==
  \A s \in Input : s \in Seq(Char) /\ Len(s) + 3 <= IntMax
ASSUME NullAssumption == NULL \notin Seq(Byte) \cup Int

VARIABLES
  in,             \* the argument
  pc,
  bufin, bufout,  \* read and write offsets
  nprbytes,       \* digits found by a scan, then digits left to decode
  nbytesdecoded,
  out, out_sz,    \* locals of u_b64url_decode
  pout, pout_sz,  \* what the caller's variables hold
  ret             \* the return value, NULL before

vars == <<in, pc, bufin, bufout, nprbytes, nbytesdecoded, out, out_sz,
          pout, pout_sz, ret>>

(* The buffer size Base64decode_len computes for n digits; what it is when *)
(* the byte for the terminator is forgotten.                               *)
BufferSize_no_terminator(n) == ((n + 3) \div 4) * 3
BufferSize(n) == ((n + 3) \div 4) * 3 + 1

(* The bytes a group of four digits, of which m are there, decodes to: the *)
(* body of the loop for m = 4, the tail after it for less.  bufout points   *)
(* to unsigned char, so that each byte is stored modulo 256.  First with   *)
(* the operands of the last | swapped.                                     *)
Group_swapped(i, m) ==
  SubSeq(<<((Six(in, i) * 4) % 256) + Six(in, i + 1) \div 16,
           ((Six(in, i + 1) * 16) % 256) + Six(in, i + 2) \div 4,
           ((Six(in, i + 3) * 64) % 256) + Six(in, i + 2)>>, 1, m - 1)
Group(i, m) ==
  SubSeq(<<((Six(in, i) * 4) % 256) + Six(in, i + 1) \div 16,
           ((Six(in, i + 1) * 16) % 256) + Six(in, i + 2) \div 4,
           ((Six(in, i + 2) * 64) % 256) + Six(in, i + 3)>>, 1, m - 1)

(* The test of a size: nothing to allocate, or nothing decoded.            *)
Empty_one(n) == n <= 1
Empty_negative(n) == n < 0
Empty(n) == n <= 0

(* The condition of the loop over groups, which leaves the last group to   *)
(* the tail even when it is complete; when it takes what is left for one.  *)
More_all(n) == n > 0
More(n) == n > 4

(* The increment of the scans.                                             *)
Advanced_never(i) == i
Advanced(i) == i + 1

(* Store the bytes b at offset i.  A store outside out is lost here; it    *)
(* shows in bufout, see InBounds.                                          *)
Stored(i, b) == [j \in DOMAIN out |->
                   IF j - i \in DOMAIN b THEN b[j - i] ELSE out[j]]

-----------------------------------------------------------------------------
(* u_b64url_decode, up to the call of Base64decode_len.                    *)
Check ==
  /\ pc = "check"
  /\ pc' = IF Len(in) = 0 THEN "err" ELSE "len"
  /\ UNCHANGED <<in, bufin, bufout, nprbytes, nbytesdecoded, out, out_sz,
                 pout, pout_sz, ret>>

(* while (pr2six[*(bufin++)] <= 63), in either function.                   *)
Scan ==
  /\ pc \in {"len", "scan"}
  /\ IsDigit(CharAt(in, bufin))
  /\ bufin' = Advanced(bufin)
  /\ UNCHANGED <<in, pc, bufout, nprbytes, nbytesdecoded, out, out_sz,
                 pout, pout_sz, ret>>

(* The return of Base64decode_len, and the test of its result.             *)
DecodeLen ==
  /\ pc = "len"
  /\ ~ IsDigit(CharAt(in, bufin))
  /\ out_sz' = BufferSize(bufin)
  /\ bufin' = 0
  /\ pc' = IF Empty(out_sz') THEN "err" ELSE "calloc"
  /\ UNCHANGED <<in, bufout, nprbytes, nbytesdecoded, out, pout, pout_sz, ret>>

Calloc ==
  /\ pc = "calloc"
  /\ \/ /\ pc' = "err"
        /\ UNCHANGED out
     \/ /\ out' = [j \in 1..out_sz |-> 0]
        /\ pc' = "scan"
  /\ UNCHANGED <<in, bufin, bufout, nprbytes, nbytesdecoded, out_sz,
                 pout, pout_sz, ret>>

(* Base64decode between its two loops.                                     *)
StartDecode ==
  /\ pc = "scan"
  /\ ~ IsDigit(CharAt(in, bufin))
  /\ nprbytes' = bufin
  /\ nbytesdecoded' = ((bufin + 3) \div 4) * 3
  /\ bufin' = 0
  /\ bufout' = 0
  /\ pc' = "decode"
  /\ UNCHANGED <<in, out, out_sz, pout, pout_sz, ret>>

(* while (nprbytes > 4)                                                    *)
DecodeGroup ==
  /\ pc = "decode"
  /\ More(nprbytes)
  /\ out' = Stored(bufout, Group(bufin, 4))
  /\ bufout' = bufout + 3
  /\ bufin' = bufin + 4
  /\ nprbytes' = nprbytes - 4
  /\ UNCHANGED <<in, pc, nbytesdecoded, out_sz, pout, pout_sz, ret>>

(* The three ifs, the terminator, and the test of the result.              *)
DecodeTail ==
  /\ pc = "decode"
  /\ ~ More(nprbytes)
  /\ LET bytes == Group(bufin, nprbytes)
     IN  /\ out' = Stored(bufout, Append(bytes, 0))
         /\ bufout' = bufout + Len(bytes) + 1
  /\ nbytesdecoded' = nbytesdecoded - ((4 - nprbytes) % 4)
  /\ out_sz' = nbytesdecoded'
  /\ pc' = IF Empty(out_sz') THEN "err" ELSE "return"
  /\ UNCHANGED <<in, bufin, nprbytes, pout, pout_sz, ret>>

Return ==
  /\ pc = "return"
  /\ pout' = out /\ pout_sz' = out_sz
  /\ ret' = 0
  /\ pc' = "done"
  /\ UNCHANGED <<in, bufin, bufout, nprbytes, nbytesdecoded, out, out_sz>>

(* if (out) free(out).                                                     *)
Freed_never(p) == p
Freed(p) == NULL

Err ==
  /\ pc = "err"
  /\ out' = Freed(out)
  /\ ret' = -1
  /\ pc' = "done"
  /\ UNCHANGED <<in, bufin, bufout, nprbytes, nbytesdecoded, out_sz,
                 pout, pout_sz>>

Done == pc = "done" /\ UNCHANGED vars

Init ==
  /\ in \in Input
  /\ pc = "check"
  /\ bufin = 0 /\ bufout = 0 /\ nprbytes = 0 /\ nbytesdecoded = 0
  /\ out = NULL /\ out_sz = 0
  /\ pout = NULL /\ pout_sz = NULL /\ ret = NULL

Step == \/ Check \/ Scan \/ DecodeLen \/ Calloc \/ StartDecode
        \/ DecodeGroup \/ DecodeTail \/ Return \/ Err

Next == Step \/ Done

Spec == Init /\ [][Next]_vars /\ WF_vars(Step)

-----------------------------------------------------------------------------
(* Integers stay in the range of int, the offsets stay in the input and    *)
(* its terminator, and out is a buffer of bytes or NULL.                   *)
TypeOK ==
  /\ in \in Input
  /\ pc \in {"check", "len", "calloc", "scan", "decode", "return", "err",
             "done"}
  /\ bufin \in 0..IntMax /\ bufout \in 0..IntMax
  /\ nprbytes \in 0..IntMax
  /\ nbytesdecoded \in 0..IntMax /\ out_sz \in 0..IntMax
  /\ out \in Seq(Byte) \cup {NULL}
  /\ pout \in Seq(Byte) \cup {NULL}
  /\ pout_sz \in (0..IntMax) \cup {NULL}
  /\ ret \in {0, -1, NULL}

(* No character past the terminator is read, and no byte is stored past    *)
(* the end of the buffer that was sized by a different function.           *)
InBounds ==
  /\ pc \in {"len", "scan"} => bufin <= Len(in)
  /\ pc = "decode" => bufin + nprbytes <= Len(in)
  /\ out # NULL => bufout <= Len(out)

(* A call that returns 0 gives the caller the bytes its input stands for,  *)
(* up to the first character outside the alphabet, and their number.       *)
ResultCorrect ==
  ret = 0 =>
    /\ pout_sz = DecodedLen(in)
    /\ pout_sz > 0
    /\ SubSeq(pout, 1, pout_sz) = Decoded(in)

(* The buffer is the caller's or is freed, never both and never neither;   *)
(* a call that fails leaves the caller's variables alone.                  *)
BufferHandedOver ==
  pc = "done" => \/ ret = 0 /\ pout = out /\ pout # NULL
                 \/ ret = -1 /\ out = NULL /\ pout = NULL /\ pout_sz = NULL

(* Base64decode's result is refused only when the string stands for no     *)
(* byte; that every other failure is calloc's, CallSpec says.              *)
RefusedForCause ==
  [][pc = "decode" /\ pc' = "err" => DecodedLen(in) = 0]_vars

(* The scans stop at the terminator and the loop counts down: it returns.  *)
Terminates == <>(pc = "done")

-----------------------------------------------------------------------------
(* What the caller sees.  out_sz is the number of bytes decoded whenever   *)
(* Base64decode has returned, and 0 as nbytesdecoded is before a size has  *)
(* been computed: it is more only when calloc has failed on that size.     *)
Call == INSTANCE Base64Call WITH
          short   <- out_sz > nbytesdecoded /\ (pc = "err" \/ ret = -1),
          decoded <- IF ret = 0 THEN SubSeq(pout, 1, pout_sz) ELSE NULL

(* The scans, the loop and the buffer make the one step Base64Call allows: *)
(* the bytes the input stands for, or a failure there is a reason for.     *)
CallSpec == Call!Spec

=============================================================================
