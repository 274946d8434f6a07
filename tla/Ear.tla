-------------------------------- MODULE Ear --------------------------------
(***************************************************************************)
(* The library of src/src/ear.c, called by one caller that keeps to the    *)
(* contract of ear.h.  ear_jwt_verify is followed check by check, because  *)
(* between two checks the clock moves, an allocation may fail and a jump   *)
(* to "err" must release exactly what has been acquired so far.  The       *)
(* getters read the claims-set and make at most one allocation: they are   *)
(* one step each.                                                          *)
(*                                                                         *)
(* heap maps an address to the block allocated there, FreeBlock if there   *)
(* is none.  Every allocation is explicit, so that who must free what can  *)
(* be stated and checked.  libjwt, jansson and calloc are known only by    *)
(* the way ear.c uses them.                                                *)
(***************************************************************************)
EXTENDS EarClaims, FiniteSets

CONSTANTS
  Addr,       \* addresses of heap blocks
  Pick(_),    \* which of the free addresses an allocation may return
  MayFail,    \* the allocating calls that may run out of memory
  Handle,     \* the caller's ear_t * variables
  Token,      \* the tokens it may present
  Key,        \* the keys it may verify them with
  Alg,        \* the algorithm names it may ask for
  KnownAlg,   \* those jwt_str_alg knows
  AppRec,     \* the appraisal record names it may ask for
  Junk,       \* what a buffer holds before it is written
  MaxTime,    \* bound on the clock
  MaxBuffers  \* bound on the buffers the caller holds at a time

ASSUME PickAssumption == \A S \in SUBSET Addr : Pick(S) \subseteq S

Request == [h : Handle, token : Token, key : Key, alg : Alg, since : 1..MaxTime]

ASSUME NullAssumption ==
  /\ NULL \notin Addr /\ NULL \notin Request /\ NULL \notin [token : Token]
  /\ NULL \notin {EAR_PROFILE} \cup DOMAIN tiers

ASSUME MaxTimeAssumption == MaxTime \in Nat \ {0}

(* A token has the fields that EarClaims names.                            *)
ASSUME FieldsAssumption ==
  \A t \in Token :
    /\ t = [signer |-> t.signer, alg |-> t.alg, nbf |-> t.nbf, exp |-> t.exp,
            hdrsAgree |-> t.hdrsAgree, profile |-> t.profile,
            submods |-> t.submods]
    /\ t.submods = [json |-> t.submods.json, recs |-> t.submods.recs]

(* The "akpub" of a record is a string, or is not there.                   *)
ASSUME TokenAssumption ==
  \A t \in Token : \A r \in DOMAIN t.submods.recs :
    LET attestation == t.submods.recs[r].attestation
    IN  \/ attestation = NULL
        \/ attestation.akpub = NULL
        \/ attestation.akpub \in Seq(Char)

VARIABLES
  heap,       \* address -> block
  now,        \* the wall clock that time(NULL) reads
  pc,         \* "idle", the next step of ear_jwt_verify, or "crashed"
  args,       \* the arguments of ear_jwt_verify while it runs, or NULL
  jwt_valid, ear, e,        \* locals of ear_jwt_verify
  submods_js,               \* local of cache_submods
  pear,       \* the caller's handles: address or NULL
  err_msg,    \* the caller's error buffer: NULL (none given), Junk or a text
  buffers,    \* malloc'ed blocks the caller has been given and must free
  lists,      \* per handle: the key lists among them, until ear_free
  result      \* what the last call returned, NoOutcome until it does

locals == <<jwt_valid, ear, e, submods_js>>
caller == <<pear, buffers, lists>>
vars   == <<heap, now, pc, args, locals, caller, err_msg, result>>

Sites == {"jwt_valid_new", "ear_new", "jwt_decode", "jwt_get_grants_json",
          "json_loads", "ear_get_app_recs", "u_b64url_decode"}

Steps == {"jwt_valid_new", "ear_new", "jwt_decode", "jwt_validate",
          "validate_profile", "jwt_get_grants_json", "json_loads", "err"}

-----------------------------------------------------------------------------
(* Blocks and the heap.                                                    *)

FreeBlock           == [kind |-> "free"]
ValidBlock(alg, t)  == [kind |-> "valid", alg |-> alg, now |-> t]
EarBlock(jwt, subs) == [kind |-> "ear", jwt |-> jwt, submods |-> subs]
JwtBlock(token)     == [kind |-> "jwt", token |-> token]
TextBlock(value)    == [kind |-> "text", value |-> value]
JsonBlock(recs)     == [kind |-> "json", recs |-> recs]
ListBlock(json, ks) == [kind |-> "list", json |-> json, names |-> ks]
KeyBlock(bytes)     == [kind |-> "key", bytes |-> bytes]

FreeAddr == {a \in Addr : heap[a].kind = "free"}

Kind(p) == IF p = NULL THEN "null" ELSE heap[p].kind

(* calloc, and what malloc would have left in the block.                   *)
FreshEar_malloc == EarBlock(Junk, Junk)
FreshEar == EarBlock(NULL, NULL)

OutOfMemory(site) == site \in MayFail

(* What ear_free(p) releases.                                              *)
EarParts_keeps_submods(p) == IF p = NULL THEN {} ELSE {p, heap[p].jwt} \ {NULL}
EarParts(p) ==
  IF p = NULL THEN {} ELSE {p, heap[p].jwt, heap[p].submods} \ {NULL}

Released(S) == [a \in Addr |-> IF a \in S THEN FreeBlock ELSE heap[a]]

(* u_strlcpy(err_msg, e, EAR_ERR_SZ), guarded by err_msg != NULL.          *)
Report_never(buf, text) == buf
Report(buf, text) == IF buf = NULL THEN NULL ELSE text

Outcome(op, h, r, ok, val) ==
  [op |-> op, h |-> h, r |-> r, ok |-> ok, val |-> val]

NoOutcome == Outcome("none", NULL, NULL, TRUE, NULL)

-----------------------------------------------------------------------------
(* ear_jwt_verify                                                          *)

At(step) == pc = step

(* "goto err" with the message m in the local buffer e.                    *)
GotoErr(m) == pc' = "err" /\ e' = m

(* The asserts on the arguments hold by contract.  jwt_str_alg.            *)
ear_jwt_verify(h, t, k, a, buf) ==
  /\ At("idle")
  /\ pear[h] = NULL
  /\ args' = [h |-> h, token |-> t, key |-> k, alg |-> a, since |-> now]
  /\ err_msg' = buf
  /\ result' = NoOutcome
  /\ IF a \in KnownAlg
       THEN pc' = "jwt_valid_new" /\ e' = ""
       ELSE GotoErr("unknown JWT algorithm")
  /\ UNCHANGED <<heap, now, jwt_valid, ear, submods_js, caller>>

(* jwt_valid_new, and its settings: check headers, and time(NULL) as now.  *)
NewValidator ==
  /\ At("jwt_valid_new")
  /\ \/ /\ OutOfMemory("jwt_valid_new")
        /\ GotoErr("cannot initialise JWT validation object")
        /\ UNCHANGED <<heap, jwt_valid>>
     \/ \E p \in Pick(FreeAddr) :
        /\ heap' = [heap EXCEPT ![p] = ValidBlock(args.alg, now)]
        /\ jwt_valid' = p
        /\ pc' = "ear_new"
        /\ UNCHANGED e
  /\ UNCHANGED <<now, args, ear, submods_js, caller, err_msg, result>>

ear_new ==
  /\ At("ear_new")
  /\ \/ /\ OutOfMemory("ear_new")
        /\ GotoErr("cannot initialise the EAR object")
        /\ UNCHANGED <<heap, ear>>
     \/ \E p \in Pick(FreeAddr) :
        /\ heap' = [heap EXCEPT ![p] = FreshEar]
        /\ ear' = p
        /\ pc' = "jwt_decode"
        /\ UNCHANGED e
  /\ UNCHANGED <<now, args, jwt_valid, submods_js, caller, err_msg, result>>

(* libjwt's jwt_decode: a jwt_t only for a token signed with the key.      *)
Decodes(t, k) == t.signer = k

Decode ==
  /\ At("jwt_decode")
  /\ \/ /\ OutOfMemory("jwt_decode") \/ ~ Decodes(args.token, args.key)
        /\ GotoErr("cannot verify EAR JWT")
        /\ UNCHANGED heap
     \/ /\ Decodes(args.token, args.key)
        /\ \E p \in Pick(FreeAddr) :
             heap' = [heap EXCEPT ![p] = JwtBlock(args.token),
                                  ![ear].jwt = p]
        /\ pc' = "jwt_validate"
        /\ UNCHANGED e
  /\ UNCHANGED <<now, args, jwt_valid, ear, submods_js, caller, err_msg,
                 result>>

(* libjwt's jwt_validate, with the settings of the validation object v.    *)
Validates(t, v) == /\ t.alg = v.alg
                   /\ t.nbf <= v.now /\ v.now < t.exp
                   /\ t.hdrsAgree

(* On success the validation object is freed and its pointer reset.        *)
AfterValidate_dangling(p) == p
AfterValidate(p) == NULL

Validate ==
  /\ At("jwt_validate")
  /\ \/ /\ ~ Validates(heap[heap[ear].jwt].token, heap[jwt_valid])
        /\ GotoErr("cannot validate EAR JWT")
        /\ UNCHANGED <<heap, jwt_valid>>
     \/ /\ Validates(heap[heap[ear].jwt].token, heap[jwt_valid])
        /\ heap' = Released({jwt_valid})
        /\ jwt_valid' = AfterValidate(jwt_valid)
        /\ pc' = "validate_profile"
        /\ UNCHANGED e
  /\ UNCHANGED <<now, args, ear, submods_js, caller, err_msg, result>>

(* strcmp taken for a test of equality, which it is the opposite of.       *)
Matches_inverted(s, t) == s # t
Matches(s, t) == s = t

(* validate_profile.  On failure it reports to err_msg itself; its caller  *)
(* goes to err with an empty e.                                            *)
validate_profile ==
  /\ At("validate_profile")
  /\ LET eat_profile == heap[heap[ear].jwt].token.profile
     IN  \/ /\ eat_profile = NULL
            /\ err_msg' = Report(err_msg, "missing mandatory eat_profile")
            /\ GotoErr("")
         \/ /\ eat_profile # NULL /\ ~ Matches(eat_profile, EAR_PROFILE)
            /\ err_msg' = Report(err_msg, "unknown eat_profile")
            /\ GotoErr("")
         \/ /\ eat_profile # NULL /\ Matches(eat_profile, EAR_PROFILE)
            /\ pc' = "jwt_get_grants_json"
            /\ UNCHANGED <<err_msg, e>>
  /\ UNCHANGED <<heap, now, args, jwt_valid, ear, submods_js, caller, result>>

(* cache_submods, up to jwt_get_grants_json: the claim dumped as text.     *)
GetGrants ==
  /\ At("jwt_get_grants_json")
  /\ LET grant == heap[heap[ear].jwt].token.submods
     IN  \/ /\ OutOfMemory("jwt_get_grants_json") \/ grant.json = "absent"
            /\ err_msg' = Report(err_msg, "submods not found")
            /\ GotoErr("")
            /\ UNCHANGED <<heap, submods_js>>
         \/ /\ grant.json # "absent"
            /\ \E p \in Pick(FreeAddr) :
                 /\ heap' = [heap EXCEPT ![p] = TextBlock(grant)]
                 /\ submods_js' = p
            /\ pc' = "json_loads"
            /\ UNCHANGED <<err_msg, e>>
  /\ UNCHANGED <<now, args, jwt_valid, ear, caller, result>>

(* cache_submods frees the text on both ways out.                          *)
TextFreed_and_jwt(ok) == {submods_js, heap[ear].jwt}
TextFreed(ok) == {submods_js}

(* json_loads, which accepts no scalar at the top level; the rest of       *)
(* cache_submods; and, when that succeeds, the return of ear_jwt_verify.   *)
LoadSubmods ==
  /\ At("json_loads")
  /\ LET text == heap[submods_js].value
     IN  \/ /\ OutOfMemory("json_loads") \/ text.json = "scalar"
            /\ heap' = Released(TextFreed(FALSE))
            /\ err_msg' = Report(err_msg, "submods does not contain valid JSON")
            /\ GotoErr("")
            /\ UNCHANGED <<args, ear, pear, result>>
         \/ /\ text.json = "container"
            /\ \E p \in Pick(FreeAddr) :
                 heap' = [Released(TextFreed(TRUE)) EXCEPT
                            ![p] = JsonBlock(text.recs), ![ear].submods = p]
            /\ pear' = [pear EXCEPT ![args.h] = ear]
            /\ result' = Outcome("verify", args.h, NULL, TRUE, NULL)
            /\ ear' = NULL
            /\ args' = NULL
            /\ pc' = "idle"
            /\ UNCHANGED <<err_msg, e>>
  /\ submods_js' = NULL
  /\ UNCHANGED <<now, jwt_valid, buffers, lists>>

(* The label err: release what was acquired, report e, return -1.          *)
CleanedUp(v, p) == EarParts(p) \cup ({v} \ {NULL})

VerifyFails ==
  /\ At("err")
  /\ heap' = Released(CleanedUp(jwt_valid, ear))
  /\ err_msg' = Report(err_msg, e)
  /\ result' = Outcome("verify", args.h, NULL, FALSE, NULL)
  /\ args' = NULL /\ jwt_valid' = NULL /\ ear' = NULL
  /\ e' = ""
  /\ pc' = "idle"
  /\ UNCHANGED <<now, submods_js, caller>>

-----------------------------------------------------------------------------
(* The getters, on an open handle                                          *)

(* A call on handle h; what it leaves alone.                               *)
Getter(h) == /\ At("idle")
             /\ pear[h] # NULL
             /\ UNCHANGED <<now, args, locals, pear>>

Recs(h) == heap[heap[pear[h]].submods].recs

(* A borrowed reference into the submods tree given up on the error path.  *)
Fails_decref(op, h, r, buf, m) ==
  /\ result' = Outcome(op, h, r, FALSE, NULL)
  /\ err_msg' = Report(buf, m)
  /\ heap' = Released({heap[pear[h]].submods})
  /\ UNCHANGED <<pc, buffers, lists>>

(* A getter returns -1, its out parameters untouched and m in the buffer.  *)
Fails(op, h, r, buf, m) ==
  /\ result' = Outcome(op, h, r, FALSE, NULL)
  /\ err_msg' = Report(buf, m)
  /\ UNCHANGED <<heap, pc, buffers, lists>>

ear_get_status(h, r, buf) ==
  /\ Getter(h)
  /\ \/ /\ r \notin DOMAIN Recs(h)
        /\ Fails("status", h, r, buf, "no appraisal record found")
     \/ /\ r \in DOMAIN Recs(h)
        /\ Recs(h)[r].status = NULL
        /\ Fails("status", h, r, buf, "ear.status not found")
     \/ /\ r \in DOMAIN Recs(h)
        /\ Recs(h)[r].status \notin DOMAIN tiers \cup {NULL}
        /\ Fails("status", h, r, buf, "unknown status")
     \/ /\ r \in DOMAIN Recs(h)
        /\ Recs(h)[r].status \in DOMAIN tiers
        /\ result' = Outcome("status", h, r, TRUE, tiers[Recs(h)[r].status])
        /\ err_msg' = buf
        /\ UNCHANGED <<heap, pc, buffers, lists>>

(* u_b64url_decode fails on a string that decodes to nothing, the empty    *)
(* one included, and when calloc does.                                     *)
ear_veraison_get_akpub(h, r, buf) ==
  /\ Getter(h)
  /\ \/ /\ r \notin DOMAIN Recs(h)
        /\ Fails("akpub", h, r, buf, "no appraisal record found")
     \/ /\ r \in DOMAIN Recs(h)
        /\ Recs(h)[r].attestation = NULL
        /\ Fails("akpub", h, r, buf, "key-attestation not found")
     \/ /\ r \in DOMAIN Recs(h)
        /\ Recs(h)[r].attestation # NULL
        /\ LET akpub == Recs(h)[r].attestation.akpub
           IN  \/ /\ akpub = NULL
                  /\ Fails("akpub", h, r, buf, "akpub not found")
               \/ /\ akpub # NULL
                  /\ OutOfMemory("u_b64url_decode") \/ DecodedLen(akpub) = 0
                  /\ Fails("akpub", h, r, buf, "base64 decoding failed")
               \/ /\ akpub # NULL
                  /\ DecodedLen(akpub) > 0
                  /\ Cardinality(buffers) < MaxBuffers
                  /\ \E p \in Pick(FreeAddr) :
                       /\ heap' = [heap EXCEPT ![p] = KeyBlock(Decoded(akpub))]
                       /\ buffers' = buffers \cup {p}
                  /\ result' = Outcome("akpub", h, r, TRUE, Decoded(akpub))
                  /\ err_msg' = buf
                  /\ UNCHANGED <<pc, lists>>

(* The tree the names point into: not a copy that was made for the loops   *)
(* and is given up at the end.                                             *)
NamesTree_copy(h) == CHOOSE a \in FreeAddr : TRUE
NamesTree(h) == heap[pear[h]].submods

(* The array is used without a test that calloc returned one: when it did  *)
(* not, the first store goes through a null pointer.  An array of no       *)
(* elements may be NULL, and is never stored to.                           *)
ear_get_app_recs(h) ==
  /\ Getter(h)
  /\ \/ /\ OutOfMemory("ear_get_app_recs")
        /\ DOMAIN Recs(h) # {}
        /\ pc' = "crashed"
        /\ UNCHANGED <<heap, err_msg, buffers, lists, result>>
     \/ /\ DOMAIN Recs(h) = {}
        /\ result' = Outcome("app_recs", h, NULL, TRUE, {})
        /\ UNCHANGED <<heap, pc, err_msg, buffers, lists>>
     \/ /\ Cardinality(buffers) < MaxBuffers
        /\ \E p \in Pick(FreeAddr) :
             /\ heap' = [heap EXCEPT
                           ![p] = ListBlock(NamesTree(h), DOMAIN Recs(h))]
             /\ buffers' = buffers \cup {p}
             /\ lists' = [lists EXCEPT ![h] = @ \cup {p}]
        /\ result' = Outcome("app_recs", h, NULL, TRUE, DOMAIN Recs(h))
        /\ UNCHANGED <<pc, err_msg>>

-----------------------------------------------------------------------------
(* The caller's side                                                       *)

(* ear_free, after which the caller resets its variable and stops reading  *)
(* the lists it got from that handle; it still has to free them.           *)
ear_free(h) ==
  /\ At("idle")
  /\ heap' = Released(EarParts(pear[h]))
  /\ pear' = [pear EXCEPT ![h] = NULL]
  /\ lists' = [lists EXCEPT ![h] = {}]
  /\ result' = Outcome("free", h, NULL, TRUE, NULL)
  /\ UNCHANGED <<now, pc, args, locals, err_msg, buffers>>

(* free() on a key buffer or on a list.                                    *)
FreeBuffer(p) ==
  /\ At("idle")
  /\ heap' = Released({p})
  /\ buffers' = buffers \ {p}
  /\ lists' = [h \in Handle |-> lists[h] \ {p}]
  /\ UNCHANGED <<now, pc, args, locals, err_msg, pear, result>>

Tick == /\ now < MaxTime
        /\ now' = now + 1
        /\ UNCHANGED <<heap, pc, args, locals, caller, err_msg, result>>

(* The process is dead.                                                    *)
Crashed == At("crashed") /\ UNCHANGED vars

-----------------------------------------------------------------------------
Init ==
  /\ heap = [a \in Addr |-> FreeBlock]
  /\ now = 1
  /\ pc = "idle"
  /\ args = NULL /\ jwt_valid = NULL /\ ear = NULL /\ submods_js = NULL
  /\ e = ""
  /\ pear = [h \in Handle |-> NULL]
  /\ err_msg = NULL
  /\ buffers = {}
  /\ lists = [h \in Handle |-> {}]
  /\ result = NoOutcome

(* The steps of a call to ear_jwt_verify that has started.                 *)
VerifyStep == \/ NewValidator \/ ear_new \/ Decode \/ Validate
              \/ validate_profile \/ GetGrants \/ LoadSubmods
              \/ VerifyFails

CallerStep ==
  \/ \E h \in Handle, t \in Token, k \in Key, a \in Alg, buf \in {NULL, Junk} :
       ear_jwt_verify(h, t, k, a, buf)
  \/ \E h \in Handle, r \in AppRec, buf \in {NULL, Junk} :
       ear_get_status(h, r, buf) \/ ear_veraison_get_akpub(h, r, buf)
  \/ \E h \in Handle : ear_get_app_recs(h) \/ ear_free(h)
  \/ \E p \in buffers : FreeBuffer(p)

Next == CallerStep \/ VerifyStep \/ Tick \/ Crashed

(* A call that has started runs on; the caller owes nothing.               *)
Spec == Init /\ [][Next]_vars /\ WF_vars(VerifyStep)

-----------------------------------------------------------------------------
(* Types                                                                   *)

Pointer == Addr \cup {NULL}

Block == [kind : {"free"}]
    \cup [kind : {"valid"}, alg : Alg, now : 1..MaxTime]
    \cup [kind : {"ear"}, jwt : Pointer, submods : Pointer]
    \cup [kind : {"jwt"}, token : Token]
    \cup [kind : {"text"}, value : {t.submods : t \in Token}]
    \cup [kind : {"json"}, recs : {t.submods.recs : t \in Token}]
    \cup [kind : {"list"}, json : Addr,
                          names : {DOMAIN t.submods.recs : t \in Token}]
    \cup [kind : {"key"}, bytes : Seq(Byte)]

(* What e and err_msg may hold, and no buffer holds by chance.             *)
Messages ==
  {"", "unknown JWT algorithm", "cannot initialise JWT validation object",
   "cannot initialise the EAR object", "cannot verify EAR JWT",
   "cannot validate EAR JWT", "missing mandatory eat_profile",
   "unknown eat_profile", "submods not found",
   "submods does not contain valid JSON", "no appraisal record found",
   "ear.status not found", "unknown status", "key-attestation not found",
   "akpub not found", "base64 decoding failed"}

ASSUME JunkAssumption == Junk \notin Messages \cup {NULL}

(* Every pointer is an address or NULL, and every block is well-formed.    *)
TypeOK ==
  /\ heap \in [Addr -> Block]
  /\ now \in 1..MaxTime
  /\ pc \in Steps \cup {"idle", "crashed"}
  /\ args \in Request \cup {NULL}
  /\ jwt_valid \in Pointer /\ ear \in Pointer /\ submods_js \in Pointer
  /\ pear \in [Handle -> Pointer]
  /\ buffers \in SUBSET Addr
  /\ lists \in [Handle -> SUBSET Addr]

-----------------------------------------------------------------------------
(* Safety                                                                  *)

(* The local variables of ear_jwt_verify lead to live blocks of the right  *)
(* kind, and at each step exactly those are set that the code has assigned *)
(* by then and not given away: what a "goto err" from there will release.  *)
LocalsMatchStep ==
  /\ Kind(jwt_valid)  \in {"null", "valid"}
  /\ Kind(ear)        \in {"null", "ear"}
  /\ Kind(submods_js) \in {"null", "text"}
  /\ ear # NULL => /\ Kind(heap[ear].jwt) \in {"null", "jwt"}
                   /\ heap[ear].submods = NULL
  /\ args = NULL <=> pc \in {"idle", "crashed"}
  /\ args # NULL => pear[args.h] = NULL
  /\ jwt_valid # NULL => pc \in {"ear_new", "jwt_decode", "jwt_validate", "err"}
  /\ jwt_valid = NULL => pc \notin {"ear_new", "jwt_decode", "jwt_validate"}
  /\ submods_js # NULL <=> pc = "json_loads"
  /\ ear # NULL => pc \in Steps \ {"jwt_valid_new", "ear_new"}
  /\ ear = NULL => pc \notin Steps \ {"jwt_valid_new", "ear_new", "err"}
  /\ pc = "jwt_decode" => heap[ear].jwt = NULL
  /\ pc \in {"jwt_validate", "validate_profile", "jwt_get_grants_json",
             "json_loads"} => heap[ear].jwt # NULL

(* A handle the caller holds is complete: the asserts at the head of every *)
(* getter (ear, ear->jwt and ear->submods are not NULL) hold, and the      *)
(* pointers lead to live blocks of the right kind, not to freed memory.    *)
HandlesComplete ==
  \A h \in Handle : pear[h] # NULL =>
    /\ Kind(pear[h]) = "ear"
    /\ Kind(heap[pear[h]].jwt) = "jwt"
    /\ Kind(heap[pear[h]].submods) = "json"

(* What a call to ear_jwt_verify in progress still has to release.         *)
LocalBlocks == (EarParts(ear) \cup {jwt_valid, submods_js}) \ {NULL}

(* A block is live exactly when somebody is to release it: the call in     *)
(* progress, a handle, or the caller that was given it as a buffer.        *)
EveryBlockOwned ==
  \A a \in Addr :
    heap[a].kind # "free" <=> \/ a \in LocalBlocks
                              \/ a \in buffers
                              \/ \E h \in Handle : a \in EarParts(pear[h])

(* Nobody else is to release it too.                                       *)
OneOwnerEach ==
  /\ LocalBlocks \cap buffers = {}
  /\ \A h \in Handle :
       /\ EarParts(pear[h]) \cap LocalBlocks = {}
       /\ EarParts(pear[h]) \cap buffers = {}
       /\ \A g \in Handle \ {h} : EarParts(pear[h]) \cap EarParts(pear[g]) = {}

(* Every block has exactly one owner.  A block without an owner is leaked, *)
(* an owner without a block would use or free freed memory, and two owners *)
(* would free it twice.  It covers every exit of ear_jwt_verify, at every  *)
(* check and at every allocation that may fail.                            *)
OwnershipExact ==
  /\ LocalsMatchStep
  /\ HandlesComplete
  /\ EveryBlockOwned
  /\ OneOwnerEach

(* The names in a list returned by ear_get_app_recs are interior pointers. *)
(* As long as the handle stays open they lead into its own live submods    *)
(* tree and name exactly its records, whatever calls came in between.      *)
ListsPointLive ==
  \A h \in Handle : \A p \in lists[h] :
    /\ p \in buffers
    /\ Kind(p) = "list"
    /\ pear[h] # NULL
    /\ heap[p].json = heap[pear[h]].submods
    /\ Kind(heap[p].json) = "json"
    /\ heap[p].names = DOMAIN heap[heap[p].json].recs

(* A call that fails never leaves the caller's error buffer as it found    *)
(* it, and a getter that fails leaves a text in it.                        *)
FailureReported ==
  args = NULL /\ ~ result.ok /\ err_msg # NULL =>
    /\ err_msg # Junk
    /\ result.op # "verify" => err_msg # ""

(* No call, successful or not, changes a claims-set that stays open: what  *)
(* a getter answers depends on the verified token only.                    *)
OpenHandleStable ==
  [][\A h \in Handle : pear[h] # NULL /\ pear'[h] # NULL =>
       /\ pear'[h] = pear[h]
       /\ \A p \in EarParts(pear[h]) : heap'[p] = heap[p]]_vars

(* The request is acceptable at every moment from q.since until now.       *)
Acceptable(q) ==
  /\ q.alg \in KnownAlg
  /\ q.token.signer = q.key
  /\ q.token.alg = q.alg
  /\ \A t \in q.since..now : q.token.nbf <= t /\ t < q.token.exp
  /\ q.token.hdrsAgree
  /\ q.token.profile = EAR_PROFILE
  /\ q.token.submods.json = "container"

Retrievable(h, r) ==
  /\ r \in DOMAIN Recs(h)
  /\ Recs(h)[r].attestation # NULL
  /\ Recs(h)[r].attestation.akpub # NULL
  /\ DecodedLen(Recs(h)[r].attestation.akpub) > 0

(* When no allocation fails, no call fails without a cause in its          *)
(* arguments: ear_jwt_verify accepts every acceptable token, and           *)
(* ear_veraison_get_akpub returns every key that is there.                 *)
FailsForCause ==
  [][/\ args # NULL /\ args' = NULL /\ Acceptable(args) => result'.ok
     /\ result'.op = "akpub" /\ ~ result'.ok /\ pear[result'.h] # NULL
          => ~ Retrievable(result'.h, result'.r)]_vars

(* The promise of ear.h on err_msg, as the comment of ear_jwt_verify makes *)
(* it: on failure it holds a message.                                      *)
VerifyFailureExplained ==
  result.op = "verify" /\ ~ result.ok /\ err_msg # NULL =>
    err_msg \notin {Junk, ""}

(* The promise of ear.h on ear_get_app_recs: it returns, with -1 on        *)
(* failure.                                                                *)
AppRecsReturns == pc # "crashed"

-----------------------------------------------------------------------------
(* Refinement: what the caller observes is what EarApi allows.             *)

(* The claims-set an open handle stands for: the token libjwt decoded,     *)
(* with the records that were cached from it.                              *)
ClaimsOf(p) ==
  IF p = NULL THEN NULL
  ELSE [token |-> [heap[heap[p].jwt].token EXCEPT
                     !.submods.recs = heap[heap[p].submods].recs]]

Api == INSTANCE EarApi WITH claims  <- [h \in Handle |-> ClaimsOf(pear[h])],
                            pending <- args

(* Every behaviour of the library is one ear.h allows.                     *)
ApiSpec == Api!Spec

=============================================================================
