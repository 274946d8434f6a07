------------------------------- MODULE MCEar -------------------------------
(* Small instances of module Ear. *)
EXTENDS Ear, TLC

CONSTANTS a1, a2, a3, a4, a5, a6, a7, a8, a9

(* "Y2k" decodes to two bytes, "Y" to none, "Y2lh*" stops at the star.     *)
Y2k     == <<89, 50, 107>>
Y       == <<89>>
Y2lhBad == <<89, 50, 108, 104, 42>>

Rec(status, attestation) == [status |-> status, attestation |-> attestation]

Object(recs) == [json |-> "container", recs |-> recs]
NoObject(json) == [json |-> json, recs |-> <<>>]

Good == [signer |-> "k1", alg |-> "ES256", nbf |-> 1, exp |-> 9,
         hdrsAgree |-> TRUE, profile |-> EAR_PROFILE,
         submods |-> Object([r1 |-> Rec("affirming", [akpub |-> Y2k]),
                             r2 |-> Rec("warning", NULL)])]

(* Tokens that pass every check, and between them take every branch of the *)
(* getters.                                                                *)
Accepted ==
  {Good,
   [Good EXCEPT !.submods = Object([r1 |-> Rec("none", [akpub |-> Y2lhBad]),
                                    r2 |-> Rec("bogus", [akpub |-> NULL])])],
   [Good EXCEPT !.submods = Object([r1 |-> Rec("contraindicated",
                                               [akpub |-> Y])]),
                !.signer = "k2"],
   [Good EXCEPT !.submods = Object([r1 |-> Rec(NULL, [akpub |-> <<>>])])],
   [Good EXCEPT !.submods = NoObject("container")]}

(* One token for each check that may refuse it.                            *)
Refused ==
  {[Good EXCEPT !.signer = NULL],
   [Good EXCEPT !.alg = "RS256"],
   [Good EXCEPT !.hdrsAgree = FALSE],
   [Good EXCEPT !.profile = NULL],
   [Good EXCEPT !.profile = "other"],
   [Good EXCEPT !.submods = NoObject("absent")],
   [Good EXCEPT !.submods = NoObject("scalar")]}

(* Tokens whose validity window opens or closes while the clock runs.      *)
Windowed == {[Good EXCEPT !.exp = 2], [Good EXCEPT !.nbf = 2]}

AllTokens == Accepted \cup Refused \cup Windowed

(* A token of each fate: accepted, refused by libjwt, refused by the library *)
(* itself, and accepted with nothing in it.                                *)
FewTokens == {Good,
              [Good EXCEPT !.signer = NULL],
              [Good EXCEPT !.profile = NULL],
              [Good EXCEPT !.submods = NoObject("container")]}

(* A deterministic allocator, and one that may return any free address.    *)
FirstFree(S) == IF S = {} THEN {} ELSE {CHOOSE a \in S : TRUE}
AnyFree(S)   == S

AllSites == Sites

AddrSymmetry == Permutations(Addr)

=============================================================================
