----------------------------- MODULE EarClaims -----------------------------
(***************************************************************************)
(* The data the library works on: an EAR token as libjwt sees it and the   *)
(* appraisal records of its "submods" claim as jansson presents them.      *)
(*                                                                         *)
(* Only what some branch of src/src/ear.c tells apart is kept:             *)
(*                                                                         *)
(*   token   [signer, alg, nbf, exp, hdrsAgree, profile, submods]          *)
(*             signer   the key its signature verifies under, or NULL      *)
(*             nbf, exp the validity window: nbf <= t < exp                *)
(*             hdrsAgree  claims replicated as headers equal the claims    *)
(*             profile  the string "eat_profile", or NULL if it is absent  *)
(*                      or is not a string                                 *)
(*   submods [json, recs]                                                  *)
(*             json  "absent", "scalar" or "container" (object or array)   *)
(*             recs  name -> record; empty when it is no object, because   *)
(*                   jansson's accessors find no member in anything else   *)
(*   record  [status, attestation]                                         *)
(*             status       the string "ear.status", or NULL               *)
(*             attestation  NULL, or [akpub |-> the string "akpub" or NULL]*)
(***************************************************************************)
EXTENDS Base64Ref

CONSTANT NULL       \* the C null pointer, and a JSON member that is not there

EAR_PROFILE == "tag:github.com,2023:veraison/ear"

(* ear_tier_t *)
EAR_TIER_NONE            == 0
EAR_TIER_AFFIRMING       == 1
EAR_TIER_WARNING         == 2
EAR_TIER_CONTRAINDICATED == 3

(* The warning and contraindicated entries of the table swapped.           *)
tier_table_swapped == [affirming       |-> EAR_TIER_AFFIRMING,
                       contraindicated |-> EAR_TIER_WARNING,
                       warning         |-> EAR_TIER_CONTRAINDICATED,
                       none            |-> EAR_TIER_NONE]

(* The table tier_from_string searches.                                    *)
tiers == [affirming       |-> EAR_TIER_AFFIRMING,
          contraindicated |-> EAR_TIER_CONTRAINDICATED,
          warning         |-> EAR_TIER_WARNING,
          none            |-> EAR_TIER_NONE]

=============================================================================
