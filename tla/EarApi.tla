------------------------------- MODULE EarApi -------------------------------
(***************************************************************************)
(* What src/src/ear.h promises a caller, one step per call (two for        *)
(* ear_jwt_verify, which reads the clock somewhere between its call and    *)
(* its return).  Memory, error texts and the order of the checks are the   *)
(* implementation's business: see module Ear, which is shown to implement  *)
(* this one.                                                               *)
(***************************************************************************)
EXTENDS EarClaims

CONSTANTS
  Handle,     \* the caller's ear_t * variables
  Token,      \* the tokens it may present
  Key,        \* the keys it may verify them with
  Alg,        \* the algorithm names it may ask for
  KnownAlg,   \* those libjwt knows
  AppRec,     \* the appraisal record names it may ask for
  MaxTime     \* bound on the clock

VARIABLES
  claims,     \* per handle: the verified claims-set it stands for, or NULL
  pending,    \* the ear_jwt_verify call in progress, or NULL
  result,     \* what the last call returned, NoOutcome until it does
  now         \* the wall clock

apiVars == <<claims, pending, result, now>>

Request == [h : Handle, token : Token, key : Key, alg : Alg, since : 1..MaxTime]

Outcome(op, h, r, ok, val) ==
  [op |-> op, h |-> h, r |-> r, ok |-> ok, val |-> val]

NoOutcome == Outcome("none", NULL, NULL, TRUE, NULL)

InWindow(t, time) == t.nbf <= time /\ time < t.exp

(* The token of request q may be accepted by a call that is running from   *)
(* q.since until now: signed by the key with the algorithm asked for, in   *)
(* its validity window at some moment of the call, with agreeing headers,  *)
(* of the EAR profile and with a "submods" claim to look records up in.    *)
Genuine(q) ==
  /\ q.alg \in KnownAlg
  /\ q.token.signer = q.key
  /\ q.token.alg = q.alg
  /\ \E time \in q.since..now : InWindow(q.token, time)
  /\ q.token.hdrsAgree
  /\ q.token.profile = EAR_PROFILE
  /\ q.token.submods.json = "container"

(* The codepoint of a status string is its place in ear_tier_t.            *)
TierName == <<"none", "affirming", "warning", "contraindicated">>

Recs(h) == claims[h].token.submods.recs

Init == /\ claims = [h \in Handle |-> NULL]
        /\ pending = NULL
        /\ result = NoOutcome
        /\ now = 1

Tick == /\ now < MaxTime
        /\ now' = now + 1
        /\ UNCHANGED <<claims, pending, result>>

CallVerify ==
  /\ pending = NULL
  /\ pending' \in Request
  /\ pending'.since = now
  /\ claims[pending'.h] = NULL
  /\ result' = NoOutcome
  /\ UNCHANGED <<claims, now>>

Accept ==
  /\ pending # NULL
  /\ Genuine(pending)
  /\ claims' = [claims EXCEPT ![pending.h] = [token |-> pending.token]]
  /\ result' = Outcome("verify", pending.h, NULL, TRUE, NULL)
  /\ pending' = NULL
  /\ UNCHANGED now

Reject ==
  /\ pending # NULL
  /\ result' = Outcome("verify", pending.h, NULL, FALSE, NULL)
  /\ pending' = NULL
  /\ UNCHANGED <<claims, now>>

(* Calls on an open handle change nothing but what they return.            *)
Query(h) == /\ pending = NULL
            /\ claims[h] # NULL
            /\ UNCHANGED <<claims, pending, now>>

GetStatus(h, r) ==
  /\ Query(h)
  /\ \/ /\ r \in DOMAIN Recs(h)
        /\ \E i \in DOMAIN TierName :
             /\ TierName[i] = Recs(h)[r].status
             /\ result' = Outcome("status", h, r, TRUE, i - 1)
     \/ /\ r \in DOMAIN Recs(h) =>
             Recs(h)[r].status \notin {TierName[i] : i \in DOMAIN TierName}
        /\ result' = Outcome("status", h, r, FALSE, NULL)

GetAkpub(h, r) ==
  /\ Query(h)
  /\ \/ /\ r \in DOMAIN Recs(h)
        /\ Recs(h)[r].attestation # NULL
        /\ Recs(h)[r].attestation.akpub # NULL
        /\ DecodedLen(Recs(h)[r].attestation.akpub) > 0
        /\ result' = Outcome("akpub", h, r, TRUE,
                             Decoded(Recs(h)[r].attestation.akpub))
     \/ result' = Outcome("akpub", h, r, FALSE, NULL)

GetAppRecs(h) ==
  /\ Query(h)
  /\ \/ result' = Outcome("app_recs", h, NULL, TRUE, DOMAIN Recs(h))
     \/ result' = Outcome("app_recs", h, NULL, FALSE, NULL)

FreeHandle(h) ==
  /\ pending = NULL
  /\ claims' = [claims EXCEPT ![h] = NULL]
  /\ result' = Outcome("free", h, NULL, TRUE, NULL)
  /\ UNCHANGED <<pending, now>>

Next == \/ Tick
        \/ CallVerify
        \/ Accept
        \/ Reject
        \/ \E h \in Handle :
             \/ \E r \in AppRec : GetStatus(h, r) \/ GetAkpub(h, r)
             \/ GetAppRecs(h)
             \/ FreeHandle(h)

(* A call that was made returns.                                           *)
Returns == pending # NULL ~> pending = NULL

Spec == Init /\ [][Next]_apiVars /\ Returns

=============================================================================
