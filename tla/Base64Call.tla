----------------------------- MODULE Base64Call -----------------------------
(***************************************************************************)
(* A call of u_b64url_decode of src/src/utils.c as its caller sees it, and *)
(* as ear_veraison_get_akpub of module Ear takes it: it returns what the   *)
(* string stands for or fails, in one step.  It fails when the string      *)
(* stands for no byte, and when memory is short.  How the bytes come about *)
(* is module Base64Url, which implements this one.                         *)
(***************************************************************************)
EXTENDS Base64Ref

CONSTANTS
  Input,    \* the strings to decode
  NULL      \* no bytes, and no return value yet

VARIABLES
  in,       \* the argument
  short,    \* calloc has failed
  decoded,  \* what the caller is given
  ret       \* the return value

callVars == <<in, short, decoded, ret>>

Init == in \in Input /\ short = FALSE /\ decoded = NULL /\ ret = NULL

RunShort == /\ ret = NULL /\ short = FALSE
            /\ short' = TRUE
            /\ UNCHANGED <<in, decoded, ret>>

Succeed == /\ ret = NULL /\ short = FALSE /\ DecodedLen(in) > 0
           /\ decoded' = Decoded(in)
           /\ ret' = 0
           /\ UNCHANGED <<in, short>>

Fail == /\ ret = NULL /\ (short = TRUE \/ DecodedLen(in) = 0)
        /\ ret' = -1
        /\ UNCHANGED <<in, short, decoded>>

Next == RunShort \/ Succeed \/ Fail

Spec == Init /\ [][Next]_callVars /\ WF_callVars(Succeed \/ Fail)

=============================================================================
