----------------------------- MODULE EarProof -----------------------------
(***************************************************************************)
(* The library of src/src/ear.c frees what it allocates, once, and never   *)
(* hands out an incomplete handle, for any number of handles, tokens, keys *)
(* and records, any heap and any allocator that returns free addresses.    *)
(*                                                                         *)
(* The second part is what a caller may rely on.  While it holds a handle, *)
(* no call but ear_free touches its claims-set, and the names in its key   *)
(* lists stay readable: both follow from what a step may write at all.  A  *)
(* handle is only given out for a genuine token, and answers for it: the   *)
(* library takes the steps EarApi allows, which follows from what each     *)
(* check of ear_jwt_verify leaves behind.  Failures are reported, and have *)
(* a cause.                                                                *)
(***************************************************************************)
EXTENDS Ear, Base64RefProof

(* The inductive invariant.  The owners of a block are told by following   *)
(* pointers through the heap, so that ownership needs the kinds of blocks  *)
(* that LocalsMatchStep and HandlesComplete state, and these need          *)
(* ownership: a block that is released must not be one another handle      *)
(* still leads to.                                                         *)
IInv == TypeOK /\ OwnershipExact

Allocated(a) == heap[a].kind # "free"

-----------------------------------------------------------------------------
(* Blocks                                                                  *)

(* The blocks the library writes are well-formed.                          *)
LEMMA BlocksWellFormed ==
  /\ FreeBlock \in Block
  /\ FreshEar \in Block
  /\ \A alg \in Alg, t \in 1..MaxTime : ValidBlock(alg, t) \in Block
  /\ \A p, q \in Pointer : EarBlock(p, q) \in Block
  /\ \A token \in Token : JwtBlock(token) \in Block
  /\ \A token \in Token : TextBlock(token.submods) \in Block
  /\ \A token \in Token : JsonBlock(token.submods.recs) \in Block
  /\ \A a \in Addr, token \in Token :
       ListBlock(a, DOMAIN token.submods.recs) \in Block
  /\ \A bytes \in Seq(Byte) : KeyBlock(bytes) \in Block
<1>1. FreeBlock \in Block
  BY DEF FreeBlock, Block
<1>2. FreshEar \in Block
  BY DEF FreshEar, EarBlock, Block, Pointer
<1>3. \A alg \in Alg, t \in 1..MaxTime : ValidBlock(alg, t) \in Block
  BY DEF ValidBlock, Block
<1>4. \A p, q \in Pointer : EarBlock(p, q) \in Block
  BY DEF EarBlock, Block
<1>5. \A token \in Token : JwtBlock(token) \in Block
  BY DEF JwtBlock, Block
<1>6. \A token \in Token : TextBlock(token.submods) \in Block
  BY DEF TextBlock, Block
<1>7. \A token \in Token : JsonBlock(token.submods.recs) \in Block
  BY DEF JsonBlock, Block
<1>8. \A a \in Addr, token \in Token :
        ListBlock(a, DOMAIN token.submods.recs) \in Block
  BY DEF ListBlock, Block
<1>9. \A bytes \in Seq(Byte) : KeyBlock(bytes) \in Block
  BY DEF KeyBlock, Block
<1> QED
  BY <1>1, <1>2, <1>3, <1>4, <1>5, <1>6, <1>7, <1>8, <1>9

(* What a block holds follows from its kind.                               *)
LEMMA BlockContents ==
  ASSUME NEW b \in Block
  PROVE  /\ b.kind = "ear" => /\ b.jwt \in Pointer /\ b.submods \in Pointer
                              /\ b = EarBlock(b.jwt, b.submods)
         /\ b.kind = "jwt" => b.token \in Token
         /\ b.kind = "text" => \E t \in Token : b.value = t.submods
         /\ b.kind = "json" => \E t \in Token : b.recs = t.submods.recs
<1>1. b.kind = "ear" => b \in [kind : {"ear"}, jwt : Pointer, submods : Pointer]
  BY DEF Block
<1>2. b.kind = "jwt" => b \in [kind : {"jwt"}, token : Token]
  BY DEF Block
<1>3. b.kind = "text" =>
        b \in [kind : {"text"}, value : {t.submods : t \in Token}]
  BY DEF Block
<1>4. b.kind = "json" =>
        b \in [kind : {"json"}, recs : {t.submods.recs : t \in Token}]
  BY DEF Block
<1>5. b.kind = "ear" => b = EarBlock(b.jwt, b.submods)
  BY <1>1 DEF EarBlock
<1> QED
  BY <1>1, <1>2, <1>3, <1>4, <1>5

(* No block has the kind of the null pointer.                              *)
LEMMA KindFact ==
  ASSUME TypeOK, NEW p \in Pointer
  PROVE  /\ Kind(p) = "null" <=> p = NULL
         /\ p # NULL => /\ p \in Addr /\ heap[p] \in Block
                        /\ Kind(p) = heap[p].kind
<1>1. \A b \in Block : b.kind # "null"
  BY DEF Block
<1> QED
  BY <1>1 DEF TypeOK, Pointer, Kind

(* An allocation returns the address of a free block.                      *)
LEMMA PickFact ==
  ASSUME NEW p \in Pick(FreeAddr)
  PROVE  p \in Addr /\ ~ Allocated(p) /\ p # NULL
<1>1. FreeAddr \in SUBSET Addr
  BY DEF FreeAddr
<1>2. p \in FreeAddr
  BY <1>1, PickAssumption
<1> QED
  BY <1>2, NullAssumption DEF FreeAddr, Allocated

-----------------------------------------------------------------------------
(* Owners                                                                  *)

(* The blocks of an open handle are three, and allocated.                  *)
LEMMA HandleParts ==
  ASSUME TypeOK, HandlesComplete, NEW h \in Handle
  PROVE  /\ pear[h] = NULL => EarParts(pear[h]) = {}
         /\ pear[h] # NULL =>
              /\ pear[h] \in Addr
              /\ heap[pear[h]].jwt \in Addr /\ heap[pear[h]].submods \in Addr
              /\ heap[pear[h]].kind = "ear"
              /\ heap[heap[pear[h]].jwt].kind = "jwt"
              /\ heap[heap[pear[h]].submods].kind = "json"
              /\ EarParts(pear[h]) = {pear[h], heap[pear[h]].jwt,
                                      heap[pear[h]].submods}
<1>1. CASE pear[h] = NULL
  BY <1>1 DEF EarParts
<1>2. CASE pear[h] # NULL
  <2>1. /\ pear[h] \in Addr /\ heap[pear[h]] \in Block
        /\ heap[pear[h]].kind = "ear"
    BY <1>2 DEF TypeOK, HandlesComplete, Kind, Pointer
  <2>2. heap[pear[h]].jwt \in Pointer /\ heap[pear[h]].submods \in Pointer
    BY <2>1, BlockContents
  <2>3. heap[pear[h]].jwt # NULL /\ heap[pear[h]].submods # NULL
    BY <1>2 DEF HandlesComplete, Kind
  <2> QED
    BY <1>2, <2>1, <2>2, <2>3, NullAssumption
       DEF EarParts, Pointer, HandlesComplete, Kind
<1> QED
  BY <1>1, <1>2

(* A step that leaves an open handle and its blocks alone leaves it        *)
(* complete.                                                               *)
LEMMA HandleFrame ==
  ASSUME TypeOK, HandlesComplete, NEW h \in Handle, pear'[h] = pear[h],
         \A a \in EarParts(pear[h]) : heap'[a] = heap[a]
  PROVE  /\ pear'[h] # NULL => /\ Kind(pear[h])' = "ear"
                               /\ Kind(heap[pear[h]].jwt)' = "jwt"
                               /\ Kind(heap[pear[h]].submods)' = "json"
         /\ EarParts(pear[h])' = EarParts(pear[h])
<1>1. CASE pear[h] = NULL
  BY <1>1 DEF EarParts
<1>2. CASE pear[h] # NULL
  BY <1>2, HandleParts DEF EarParts, Kind
<1> QED
  BY <1>1, <1>2

(* The same for all handles at once.                                       *)
LEMMA HandlesFrame ==
  ASSUME TypeOK, HandlesComplete, pear' = pear,
         \A h \in Handle : \A a \in EarParts(pear[h]) : heap'[a] = heap[a]
  PROVE  /\ HandlesComplete'
         /\ \A h \in Handle : EarParts(pear[h])' = EarParts(pear[h])
BY HandleFrame DEF HandlesComplete

(* A step that leaves the heap and every pointer to it alone keeps owners. *)
LEMMA OwnersFrame ==
  ASSUME HandlesComplete, EveryBlockOwned, OneOwnerEach,
         UNCHANGED <<heap, jwt_valid, ear, submods_js, pear, buffers>>
  PROVE  HandlesComplete' /\ EveryBlockOwned' /\ OneOwnerEach'
BY DEF HandlesComplete, EveryBlockOwned, OneOwnerEach, EarParts, LocalBlocks,
       Kind

-----------------------------------------------------------------------------
(* ear_jwt_verify                                                          *)

(* The invariant holds initially.                                          *)
LEMMA InitIInv == Init => IInv
<1> SUFFICES ASSUME Init PROVE IInv
  OBVIOUS
<1>1. TypeOK
  <2>1. heap \in [Addr -> Block]
    BY BlocksWellFormed DEF Init
  <2>2. now \in 1..MaxTime
    <3>1. MaxTime \in Int /\ MaxTime >= 1
      BY MaxTimeAssumption
    <3>2. now = 1
      BY DEF Init
    <3> QED
      BY <3>1, <3>2
  <2> QED
    BY <2>1, <2>2 DEF Init, TypeOK, Pointer
<1>2. LocalsMatchStep
  BY DEF Init, LocalsMatchStep, Kind, Steps
<1>3. HandlesComplete
  BY DEF Init, HandlesComplete
<1>4. LocalBlocks = {} /\ \A h \in Handle : EarParts(pear[h]) = {}
  BY DEF Init, LocalBlocks, EarParts
<1> QED
  BY <1>1, <1>2, <1>3, <1>4
     DEF IInv, OwnershipExact, EveryBlockOwned, OneOwnerEach, Init, FreeBlock

(* The call of ear_jwt_verify.                                             *)
LEMMA CallStep ==
  ASSUME IInv, NEW h \in Handle, NEW t \in Token, NEW k \in Key, NEW a \in Alg,
         NEW buf, ear_jwt_verify(h, t, k, a, buf)
  PROVE  IInv'
<1>1. args' \in Request /\ args' # NULL /\ args'.h = h
  <2>1. now \in 1..MaxTime
    BY DEF IInv, TypeOK
  <2>2. args' = [h |-> h, token |-> t, key |-> k, alg |-> a, since |-> now]
    BY DEF ear_jwt_verify
  <2>3. args' \in Request
    BY <2>1, <2>2 DEF Request
  <2> QED
    BY <2>2, <2>3, NullAssumption
<1>2. pc' \in {"jwt_valid_new", "err"}
  BY DEF ear_jwt_verify, GotoErr
<1>3. TypeOK'
  BY <1>1, <1>2 DEF ear_jwt_verify, IInv, TypeOK, Steps, caller
<1>4. LocalsMatchStep'
  BY <1>1, <1>2 DEF ear_jwt_verify, At, caller, IInv, OwnershipExact,
                    LocalsMatchStep, Kind, Steps
<1> QED
  BY <1>3, <1>4, OwnersFrame DEF IInv, OwnershipExact, ear_jwt_verify, caller

(* What the program knows before the step "step" of ear_jwt_verify.        *)
LEMMA VerifyFacts ==
  ASSUME IInv
  PROVE  /\ TypeOK /\ LocalsMatchStep /\ HandlesComplete /\ EveryBlockOwned
         /\ OneOwnerEach
         /\ pc \in Steps => args \in Request
         /\ pc \in {"ear_new", "jwt_decode", "jwt_validate"} =>
              /\ jwt_valid \in Addr /\ heap[jwt_valid].kind = "valid"
         /\ pc \in {"jwt_decode", "jwt_validate", "validate_profile",
                    "jwt_get_grants_json", "json_loads"} =>
              /\ ear \in Addr /\ heap[ear] \in Block
              /\ heap[ear] = EarBlock(heap[ear].jwt, NULL)
         /\ pc = "json_loads" =>
              /\ submods_js \in Addr /\ heap[submods_js].kind = "text"
              /\ \E t \in Token : heap[submods_js].value = t.submods
         /\ pc \in {"jwt_validate", "validate_profile", "jwt_get_grants_json",
                    "json_loads"} =>
              /\ heap[ear].jwt \in Addr
              /\ heap[heap[ear].jwt].kind = "jwt"
              /\ heap[heap[ear].jwt].token \in Token
<1>1. TypeOK /\ LocalsMatchStep /\ HandlesComplete /\ EveryBlockOwned
      /\ OneOwnerEach
  BY DEF IInv, OwnershipExact
<1>2. pc \in Steps => args \in Request
  BY <1>1 DEF TypeOK, LocalsMatchStep, Steps
<1>3. ASSUME pc \in {"ear_new", "jwt_decode", "jwt_validate"}
      PROVE  jwt_valid \in Addr /\ heap[jwt_valid].kind = "valid"
  <2>1. jwt_valid # NULL /\ Kind(jwt_valid) \in {"null", "valid"}
    BY <1>1, <1>3 DEF LocalsMatchStep
  <2>2. jwt_valid \in Pointer
    BY <1>1 DEF TypeOK
  <2> QED
    BY <1>1, <2>1, <2>2, KindFact
<1>4. ASSUME pc \in {"jwt_decode", "jwt_validate", "validate_profile",
                     "jwt_get_grants_json", "json_loads"}
      PROVE  /\ ear # NULL /\ ear \in Addr /\ heap[ear] \in Block
             /\ heap[ear].jwt \in Pointer
             /\ heap[ear] = EarBlock(heap[ear].jwt, NULL)
  <2>1. ear # NULL
    BY <1>1, <1>4 DEF LocalsMatchStep, Steps
  <2>2. ear \in Pointer
    BY <1>1 DEF TypeOK
  <2>3. Kind(ear) \in {"null", "ear"} /\ heap[ear].submods = NULL
    BY <1>1, <2>1 DEF LocalsMatchStep
  <2>4. ear \in Addr /\ heap[ear] \in Block /\ heap[ear].kind = "ear"
    BY <1>1, <2>1, <2>2, <2>3, KindFact
  <2> QED
    BY <2>1, <2>3, <2>4, BlockContents
<1>5. ASSUME pc = "json_loads"
      PROVE  /\ submods_js \in Addr /\ heap[submods_js].kind = "text"
             /\ \E t \in Token : heap[submods_js].value = t.submods
  <2>1. submods_js # NULL /\ Kind(submods_js) \in {"null", "text"}
    BY <1>1, <1>5 DEF LocalsMatchStep
  <2>2. submods_js \in Pointer
    BY <1>1 DEF TypeOK
  <2>3. submods_js \in Addr /\ heap[submods_js] \in Block
        /\ heap[submods_js].kind = "text"
    BY <1>1, <2>1, <2>2, KindFact
  <2> QED
    BY <2>3, BlockContents
<1>6. ASSUME pc \in {"jwt_validate", "validate_profile", "jwt_get_grants_json",
                     "json_loads"}
      PROVE  /\ heap[ear].jwt \in Addr
             /\ heap[heap[ear].jwt].kind = "jwt"
             /\ heap[heap[ear].jwt].token \in Token
  <2>1. ear # NULL /\ heap[ear].jwt \in Pointer
    BY <1>4, <1>6
  <2>2. heap[ear].jwt # NULL /\ Kind(heap[ear].jwt) \in {"null", "jwt"}
    BY <1>1, <1>6, <2>1 DEF LocalsMatchStep
  <2>3. /\ heap[ear].jwt \in Addr /\ heap[heap[ear].jwt] \in Block
        /\ heap[heap[ear].jwt].kind = "jwt"
    BY <1>1, <2>1, <2>2, KindFact
  <2> QED
    BY <2>3, BlockContents
<1> QED
  BY <1>1, <1>2, <1>3, <1>4, <1>5, <1>6

(* A block no handle leads to may be written or released without harm to   *)
(* the handles.                                                            *)
LEMMA FreeIsNoOnes ==
  ASSUME IInv, NEW a \in Addr, ~ Allocated(a)
  PROVE  /\ a \notin LocalBlocks /\ a \notin buffers
         /\ \A h \in Handle : a \notin EarParts(pear[h])
BY DEF IInv, OwnershipExact, EveryBlockOwned, Allocated

(* One more block, owned by the call in progress.                          *)
LEMMA LocalsGrow ==
  ASSUME IInv, NEW p \in Addr, ~ Allocated(p),
         LocalBlocks' = LocalBlocks \cup {p}, buffers' = buffers,
         \A h \in Handle : EarParts(pear[h])' = EarParts(pear[h]),
         \A a \in Addr : Allocated(a)' <=> Allocated(a) \/ a = p
  PROVE  EveryBlockOwned' /\ OneOwnerEach'
<1>1. /\ p \notin LocalBlocks /\ p \notin buffers
      /\ \A h \in Handle : p \notin EarParts(pear[h])
  BY FreeIsNoOnes
<1> QED
  BY <1>1 DEF IInv, OwnershipExact, EveryBlockOwned, OneOwnerEach, Allocated

(* Blocks of the call in progress released, and forgotten by it.           *)
LEMMA LocalsShrink ==
  ASSUME IInv, NEW R \in SUBSET LocalBlocks,
         LocalBlocks' = LocalBlocks \ R, buffers' = buffers,
         \A h \in Handle : EarParts(pear[h])' = EarParts(pear[h]),
         \A a \in Addr : Allocated(a)' <=> Allocated(a) /\ a \notin R
  PROVE  EveryBlockOwned' /\ OneOwnerEach'
BY DEF IInv, OwnershipExact, EveryBlockOwned, OneOwnerEach, Allocated

(* A "goto err" that has allocated and released nothing.                   *)
LEMMA GotoErrStep ==
  ASSUME IInv, pc \in Steps \ {"json_loads"}, pc' = "err",
         UNCHANGED <<heap, now, args, jwt_valid, ear, submods_js, pear,
                     buffers, lists>>
  PROVE  IInv'
<1>1. TypeOK'
  BY DEF IInv, TypeOK, Steps
<1>2. LocalsMatchStep'
  BY DEF IInv, OwnershipExact, LocalsMatchStep, Kind, Steps
<1> QED
  BY <1>1, <1>2, OwnersFrame DEF IInv, OwnershipExact

(* jwt_valid_new adds a validation object to the blocks of the call.       *)
LEMMA NewValidatorStep ==
  ASSUME IInv, NewValidator
  PROVE  IInv'
<1>1. pc = "jwt_valid_new" /\ args \in Request
  BY VerifyFacts DEF NewValidator, At, Steps
<1>2. CASE /\ GotoErr("cannot initialise JWT validation object")
           /\ UNCHANGED <<heap, jwt_valid>>
  <2>1. /\ pc \in Steps \ {"json_loads"} /\ pc' = "err"
        /\ UNCHANGED <<heap, now, args, jwt_valid, ear, submods_js, pear,
                       buffers, lists>>
    BY <1>1, <1>2 DEF NewValidator, GotoErr, caller, Steps
  <2> QED
    BY <2>1, GotoErrStep
<1>3. ASSUME NEW p \in Pick(FreeAddr),
             heap' = [heap EXCEPT ![p] = ValidBlock(args.alg, now)],
             jwt_valid' = p, pc' = "ear_new"
      PROVE  IInv'
  <2>1. p \in Addr /\ ~ Allocated(p) /\ p # NULL
    BY PickFact
  <2>2. /\ p \notin LocalBlocks
        /\ \A h \in Handle : p \notin EarParts(pear[h])
    BY <2>1, FreeIsNoOnes
  <2>3. jwt_valid = NULL /\ ear = NULL /\ submods_js = NULL
    BY <1>1 DEF IInv, OwnershipExact, LocalsMatchStep, Steps
  <2>4. UNCHANGED <<now, args, ear, submods_js, pear, buffers, lists>>
    BY DEF NewValidator, caller
  <2>5. TypeOK'
    <3>1. ValidBlock(args.alg, now) \in Block
      BY <1>1, BlocksWellFormed DEF Request, IInv, TypeOK
    <3> QED
      BY <1>3, <2>1, <2>4, <3>1 DEF IInv, TypeOK, Pointer, Steps
  <2>6. \A h \in Handle : \A a \in EarParts(pear[h]) : heap'[a] = heap[a]
    BY <1>3, <2>1, <2>2 DEF IInv, TypeOK
  <2>7. /\ HandlesComplete'
        /\ \A h \in Handle : EarParts(pear[h])' = EarParts(pear[h])
    BY <2>4, <2>6, HandlesFrame, VerifyFacts
  <2>8. heap'[p] = ValidBlock(args.alg, now) /\ heap'[p].kind = "valid"
    BY <1>3, <2>1 DEF ValidBlock, IInv, TypeOK
  <2>9. LocalsMatchStep'
    BY <1>1, <1>3, <2>1, <2>3, <2>4, <2>8
       DEF LocalsMatchStep, Kind, Steps, IInv, OwnershipExact
  <2>10. LocalBlocks' = LocalBlocks \cup {p}
    BY <1>3, <2>1, <2>3, <2>4 DEF LocalBlocks, EarParts
  <2>11. \A a \in Addr : Allocated(a)' <=> Allocated(a) \/ a = p
    BY <1>3, <2>1, <2>8 DEF Allocated, IInv, TypeOK
  <2> QED
    BY <2>1, <2>4, <2>5, <2>7, <2>9, <2>10, <2>11, LocalsGrow
       DEF IInv, OwnershipExact
<1> QED
  BY <1>2, <1>3 DEF NewValidator

(* ear_new adds an ear_t without parts.                                    *)
LEMMA EarNewStep ==
  ASSUME IInv, ear_new
  PROVE  IInv'
<1>1. pc = "ear_new" /\ args \in Request /\ jwt_valid \in Addr
      /\ heap[jwt_valid].kind = "valid"
  BY VerifyFacts DEF ear_new, At, Steps
<1>2. CASE /\ GotoErr("cannot initialise the EAR object")
           /\ UNCHANGED <<heap, ear>>
  <2>1. /\ pc \in Steps \ {"json_loads"} /\ pc' = "err"
        /\ UNCHANGED <<heap, now, args, jwt_valid, ear, submods_js, pear,
                       buffers, lists>>
    BY <1>1, <1>2 DEF ear_new, GotoErr, caller, Steps
  <2> QED
    BY <2>1, GotoErrStep
<1>3. ASSUME NEW p \in Pick(FreeAddr),
             heap' = [heap EXCEPT ![p] = FreshEar],
             ear' = p, pc' = "jwt_decode"
      PROVE  IInv'
  <2>1. p \in Addr /\ ~ Allocated(p) /\ p # NULL
    BY PickFact
  <2>2. /\ p \notin LocalBlocks /\ p # jwt_valid
        /\ \A h \in Handle : p \notin EarParts(pear[h])
    BY <1>1, <2>1, FreeIsNoOnes DEF Allocated
  <2>3. ear = NULL /\ submods_js = NULL
    BY <1>1 DEF IInv, OwnershipExact, LocalsMatchStep, Steps
  <2>4. UNCHANGED <<now, args, jwt_valid, submods_js, pear, buffers, lists>>
    BY DEF ear_new, caller
  <2>5. TypeOK'
    <3>1. FreshEar \in Block
      BY BlocksWellFormed
    <3> QED
      BY <1>3, <2>1, <2>4, <3>1 DEF IInv, TypeOK, Pointer, Steps
  <2>6. \A h \in Handle : \A a \in EarParts(pear[h]) : heap'[a] = heap[a]
    BY <1>3, <2>1, <2>2 DEF IInv, TypeOK
  <2>7. /\ HandlesComplete'
        /\ \A h \in Handle : EarParts(pear[h])' = EarParts(pear[h])
    BY <2>4, <2>6, HandlesFrame, VerifyFacts
  <2>8. /\ heap'[p].kind = "ear" /\ heap'[p].jwt = NULL
        /\ heap'[p].submods = NULL /\ heap'[jwt_valid] = heap[jwt_valid]
    BY <1>1, <1>3, <2>1, <2>2 DEF FreshEar, EarBlock, IInv, TypeOK
  <2>9. LocalsMatchStep'
    BY <1>1, <1>3, <2>1, <2>3, <2>4, <2>8, NullAssumption
       DEF LocalsMatchStep, Kind, Steps, IInv, OwnershipExact
  <2>10. LocalBlocks' = LocalBlocks \cup {p}
    BY <1>3, <2>1, <2>3, <2>4, <2>8 DEF LocalBlocks, EarParts
  <2>11. \A a \in Addr : Allocated(a)' <=> Allocated(a) \/ a = p
    BY <1>3, <2>1, <2>8 DEF Allocated, IInv, TypeOK
  <2> QED
    BY <2>1, <2>4, <2>5, <2>7, <2>9, <2>10, <2>11, LocalsGrow
       DEF IInv, OwnershipExact
<1> QED
  BY <1>2, <1>3 DEF ear_new

(* jwt_decode adds a jwt_t, as a part of the ear_t.                        *)
LEMMA DecodeStep ==
  ASSUME IInv, Decode
  PROVE  IInv'
<1>1. /\ pc = "jwt_decode" /\ args \in Request
      /\ jwt_valid \in Addr /\ heap[jwt_valid].kind = "valid"
      /\ ear \in Addr /\ heap[ear] = EarBlock(heap[ear].jwt, NULL)
      /\ heap[ear].jwt = NULL
  BY VerifyFacts DEF Decode, At, Steps, LocalsMatchStep
<1>2. CASE GotoErr("cannot verify EAR JWT") /\ UNCHANGED heap
  <2>1. /\ pc \in Steps \ {"json_loads"} /\ pc' = "err"
        /\ UNCHANGED <<heap, now, args, jwt_valid, ear, submods_js, pear,
                       buffers, lists>>
    BY <1>1, <1>2 DEF Decode, GotoErr, caller, Steps
  <2> QED
    BY <2>1, GotoErrStep
<1>3. ASSUME NEW p \in Pick(FreeAddr),
             heap' = [heap EXCEPT ![p] = JwtBlock(args.token), ![ear].jwt = p],
             pc' = "jwt_validate"
      PROVE  IInv'
  <2>1. p \in Addr /\ ~ Allocated(p) /\ p # NULL
    BY PickFact
  <2>2. /\ p \notin LocalBlocks /\ p # jwt_valid /\ p # ear
        /\ ear \in LocalBlocks /\ ear # jwt_valid
        /\ \A h \in Handle : p \notin EarParts(pear[h])
        /\ \A h \in Handle : ear \notin EarParts(pear[h])
    <3>1. /\ p \notin LocalBlocks
          /\ \A h \in Handle : p \notin EarParts(pear[h])
      BY <2>1, FreeIsNoOnes
    <3>2. heap[ear].kind = "ear"
      BY <1>1 DEF EarBlock
    <3>3. ear \in LocalBlocks
      BY <1>1, NullAssumption DEF LocalBlocks, EarParts
    <3>4. \A h \in Handle : EarParts(pear[h]) \cap LocalBlocks = {}
      BY VerifyFacts DEF OneOwnerEach
    <3> QED
      BY <1>1, <2>1, <3>1, <3>2, <3>3, <3>4 DEF Allocated
  <2>3. submods_js = NULL
    BY <1>1 DEF IInv, OwnershipExact, LocalsMatchStep
  <2>4. UNCHANGED <<now, args, jwt_valid, ear, submods_js, pear, buffers,
                    lists>>
    BY DEF Decode, caller
  <2>5. /\ heap'[p] = JwtBlock(args.token) /\ heap'[ear] = EarBlock(p, NULL)
        /\ \A a \in Addr \ {p, ear} : heap'[a] = heap[a]
        /\ DOMAIN heap' = Addr
    BY <1>1, <1>3, <2>1, <2>2 DEF EarBlock, IInv, TypeOK
  <2>6. TypeOK'
    <3>1. args.token \in Token /\ p \in Pointer /\ NULL \in Pointer
      BY <1>1, <2>1 DEF Request, Pointer
    <3>2. JwtBlock(args.token) \in Block /\ EarBlock(p, NULL) \in Block
      BY <3>1, BlocksWellFormed
    <3>3. heap' \in [Addr -> Block]
      BY <1>1, <1>3, <2>1, <2>5, <3>2 DEF IInv, TypeOK
    <3> QED
      BY <1>3, <2>4, <3>3 DEF IInv, TypeOK, Steps
  <2>7. \A h \in Handle : \A a \in EarParts(pear[h]) : heap'[a] = heap[a]
    <3> SUFFICES ASSUME NEW h \in Handle, NEW a \in EarParts(pear[h])
                 PROVE  heap'[a] = heap[a]
      OBVIOUS
    <3>1. a \in Addr /\ a # p /\ a # ear
      BY <2>2, HandleParts, VerifyFacts
    <3> QED
      BY <2>5, <3>1
  <2>8. /\ HandlesComplete'
        /\ \A h \in Handle : EarParts(pear[h])' = EarParts(pear[h])
    BY <2>4, <2>7, HandlesFrame, VerifyFacts
  <2>9. /\ heap'[p].kind = "jwt" /\ heap'[ear].kind = "ear"
        /\ heap'[ear].jwt = p /\ heap'[ear].submods = NULL
        /\ heap[ear].kind = "ear" /\ heap[ear].submods = NULL
        /\ heap'[jwt_valid] = heap[jwt_valid]
    BY <1>1, <2>2, <2>5 DEF JwtBlock, EarBlock
  <2>10. LocalsMatchStep'
    BY <1>1, <1>3, <2>1, <2>3, <2>4, <2>9, NullAssumption
       DEF LocalsMatchStep, Kind, Steps, IInv, OwnershipExact
  <2>11. LocalBlocks' = LocalBlocks \cup {p}
    BY <1>1, <2>1, <2>3, <2>4, <2>9, NullAssumption DEF LocalBlocks, EarParts
  <2>12. \A a \in Addr : Allocated(a)' <=> Allocated(a) \/ a = p
    BY <2>1, <2>5, <2>9 DEF Allocated
  <2> QED
    BY <2>1, <2>4, <2>6, <2>8, <2>10, <2>11, <2>12, LocalsGrow
       DEF IInv, OwnershipExact
<1> QED
  BY <1>2, <1>3 DEF Decode

(* What a release does to the heap.                                        *)
LEMMA ReleaseFact ==
  ASSUME TypeOK, NEW R, heap' = Released(R)
  PROVE  /\ heap' \in [Addr -> Block]
         /\ \A a \in Addr : a \notin R => heap'[a] = heap[a]
         /\ \A a \in Addr : Allocated(a)' <=> Allocated(a) /\ a \notin R
BY BlocksWellFormed DEF Released, TypeOK, Allocated, FreeBlock

(* jwt_valid_free takes the validation object away, and its pointer.       *)
LEMMA ValidateStep ==
  ASSUME IInv, Validate
  PROVE  IInv'
<1>1. /\ pc = "jwt_validate" /\ args \in Request
      /\ jwt_valid \in Addr /\ heap[jwt_valid].kind = "valid"
      /\ ear \in Addr /\ heap[ear] = EarBlock(heap[ear].jwt, NULL)
      /\ heap[ear].jwt \in Addr /\ heap[heap[ear].jwt].kind = "jwt"
  BY VerifyFacts DEF Validate, At, Steps
<1>2. CASE GotoErr("cannot validate EAR JWT") /\ UNCHANGED <<heap, jwt_valid>>
  <2>1. /\ pc \in Steps \ {"json_loads"} /\ pc' = "err"
        /\ UNCHANGED <<heap, now, args, jwt_valid, ear, submods_js, pear,
                       buffers, lists>>
    BY <1>1, <1>2 DEF Validate, GotoErr, caller, Steps
  <2> QED
    BY <2>1, GotoErrStep
<1>3. ASSUME heap' = Released({jwt_valid}),
             jwt_valid' = AfterValidate(jwt_valid), pc' = "validate_profile"
      PROVE  IInv'
  <2>1. submods_js = NULL
    BY <1>1 DEF IInv, OwnershipExact, LocalsMatchStep
  <2>2. UNCHANGED <<now, args, ear, submods_js, pear, buffers, lists>>
    BY DEF Validate, caller
  <2>3. jwt_valid' = NULL
    BY <1>3 DEF AfterValidate
  <2>4. /\ heap' \in [Addr -> Block]
        /\ \A a \in Addr : a # jwt_valid => heap'[a] = heap[a]
        /\ \A a \in Addr :
             Allocated(a)' <=> Allocated(a) /\ a \notin {jwt_valid}
    BY <1>3, ReleaseFact, VerifyFacts
  <2>5. heap[ear].kind = "ear" /\ heap[ear].submods = NULL
    BY <1>1 DEF EarBlock
  <2>6. heap'[ear] = heap[ear] /\ heap'[heap[ear].jwt] = heap[heap[ear].jwt]
    BY <1>1, <2>4, <2>5
  <2>7. jwt_valid \in LocalBlocks
    BY <1>1, NullAssumption DEF LocalBlocks
  <2>8. TypeOK'
    BY <1>3, <2>2, <2>3, <2>4 DEF IInv, TypeOK, Pointer, Steps
  <2>9. \A h \in Handle : \A a \in EarParts(pear[h]) : heap'[a] = heap[a]
    <3> SUFFICES ASSUME NEW h \in Handle, NEW a \in EarParts(pear[h])
                 PROVE  heap'[a] = heap[a]
      OBVIOUS
    <3>1. a \in Addr
      BY HandleParts, VerifyFacts
    <3>2. a # jwt_valid
      BY <2>7, VerifyFacts DEF OneOwnerEach
    <3> QED
      BY <2>4, <3>1, <3>2
  <2>10. /\ HandlesComplete'
         /\ \A h \in Handle : EarParts(pear[h])' = EarParts(pear[h])
    BY <2>2, <2>9, HandlesFrame, VerifyFacts
  <2>11. LocalsMatchStep'
    BY <1>1, <1>3, <2>1, <2>2, <2>3, <2>5, <2>6, NullAssumption
       DEF LocalsMatchStep, Kind, Steps, IInv, OwnershipExact
  <2>12. LocalBlocks' = LocalBlocks \ {jwt_valid}
    BY <1>1, <2>1, <2>2, <2>3, <2>5, <2>6, NullAssumption
       DEF LocalBlocks, EarParts
  <2> QED
    BY <2>2, <2>4, <2>7, <2>8, <2>10, <2>11, <2>12, LocalsShrink
       DEF IInv, OwnershipExact
<1> QED
  BY <1>2, <1>3 DEF Validate

(* validate_profile touches no block.                                      *)
LEMMA ValidateProfileStep ==
  ASSUME IInv, validate_profile
  PROVE  IInv'
<1>1. pc = "validate_profile"
  BY DEF validate_profile, At
<1>2. UNCHANGED <<heap, now, args, jwt_valid, ear, submods_js, pear, buffers,
                  lists>>
  BY DEF validate_profile, caller
<1>3. CASE pc' = "err"
  BY <1>1, <1>2, <1>3, GotoErrStep DEF Steps
<1>4. CASE pc' = "jwt_get_grants_json"
  <2>1. TypeOK'
    BY <1>2, <1>4 DEF IInv, TypeOK, Steps
  <2>2. LocalsMatchStep'
    BY <1>1, <1>2, <1>4
       DEF IInv, OwnershipExact, LocalsMatchStep, Kind, Steps
  <2> QED
    BY <1>2, <2>1, <2>2, OwnersFrame DEF IInv, OwnershipExact
<1> QED
  BY <1>3, <1>4 DEF validate_profile, GotoErr

(* jwt_get_grants_json adds the text of the submods claim.                 *)
LEMMA GetGrantsStep ==
  ASSUME IInv, GetGrants
  PROVE  IInv'
<1> DEFINE grant == heap[heap[ear].jwt].token.submods
<1>1. /\ pc = "jwt_get_grants_json" /\ args \in Request
      /\ ear \in Addr /\ heap[ear] = EarBlock(heap[ear].jwt, NULL)
      /\ heap[ear].jwt \in Addr /\ heap[heap[ear].jwt].kind = "jwt"
      /\ heap[heap[ear].jwt].token \in Token
  BY VerifyFacts DEF GetGrants, At, Steps
<1>2. UNCHANGED <<now, args, jwt_valid, ear, pear, buffers, lists>>
  BY DEF GetGrants, caller
<1>3. CASE pc' = "err" /\ UNCHANGED <<heap, submods_js>>
  BY <1>1, <1>2, <1>3, GotoErrStep DEF Steps
<1>4. ASSUME NEW p \in Pick(FreeAddr),
             heap' = [heap EXCEPT ![p] = TextBlock(grant)],
             submods_js' = p, pc' = "json_loads"
      PROVE  IInv'
  <2>1. p \in Addr /\ ~ Allocated(p) /\ p # NULL
    BY PickFact
  <2>2. heap[ear].kind = "ear" /\ heap[ear].submods = NULL
    BY <1>1 DEF EarBlock
  <2>3. /\ p # ear /\ p # heap[ear].jwt
        /\ \A h \in Handle : p \notin EarParts(pear[h])
    BY <1>1, <2>1, <2>2, FreeIsNoOnes DEF Allocated
  <2>4. submods_js = NULL /\ jwt_valid = NULL
    BY <1>1 DEF IInv, OwnershipExact, LocalsMatchStep
  <2>5. TypeOK'
    <3>1. TextBlock(grant) \in Block
      BY <1>1, BlocksWellFormed
    <3> QED
      BY <1>2, <1>4, <2>1, <3>1 DEF IInv, TypeOK, Pointer, Steps
  <2>6. \A h \in Handle : \A a \in EarParts(pear[h]) : heap'[a] = heap[a]
    BY <1>4, <2>1, <2>3 DEF IInv, TypeOK
  <2>7. /\ HandlesComplete'
        /\ \A h \in Handle : EarParts(pear[h])' = EarParts(pear[h])
    BY <1>2, <2>6, HandlesFrame, VerifyFacts
  <2>8. /\ heap'[p].kind = "text" /\ heap'[ear] = heap[ear]
        /\ heap'[heap[ear].jwt] = heap[heap[ear].jwt]
    BY <1>1, <1>4, <2>1, <2>3 DEF TextBlock, IInv, TypeOK
  <2>9. LocalsMatchStep'
    BY <1>1, <1>2, <1>4, <2>1, <2>2, <2>4, <2>8, NullAssumption
       DEF LocalsMatchStep, Kind, Steps, IInv, OwnershipExact
  <2>10. LocalBlocks' = LocalBlocks \cup {p}
    BY <1>1, <1>2, <1>4, <2>1, <2>4, <2>8 DEF LocalBlocks, EarParts
  <2>11. \A a \in Addr : Allocated(a)' <=> Allocated(a) \/ a = p
    BY <1>4, <2>1, <2>8 DEF Allocated, IInv, TypeOK
  <2> QED
    BY <1>2, <2>1, <2>5, <2>7, <2>9, <2>10, <2>11, LocalsGrow
       DEF IInv, OwnershipExact
<1> QED
  BY <1>3, <1>4 DEF GetGrants, GotoErr

(* json_loads trades the text for a tree; then the ear_t changes hands.    *)
LEMMA LoadSubmodsStep ==
  ASSUME IInv, LoadSubmods
  PROVE  IInv'
<1> DEFINE text == heap[submods_js].value
           jwt == heap[ear].jwt
<1>1. /\ pc = "json_loads" /\ args \in Request
      /\ ear \in Addr /\ heap[ear] = EarBlock(jwt, NULL)
      /\ jwt \in Addr /\ heap[jwt].kind = "jwt"
      /\ submods_js \in Addr /\ heap[submods_js].kind = "text"
      /\ \E t \in Token : text = t.submods
  BY VerifyFacts DEF LoadSubmods, At, Steps
<1>2. jwt_valid = NULL /\ pear[args.h] = NULL
  BY <1>1, VerifyFacts, NullAssumption DEF LocalsMatchStep
<1>3. heap[ear].kind = "ear" /\ heap[ear].submods = NULL
  BY <1>1 DEF EarBlock
<1>4. LocalBlocks = {ear, jwt, submods_js}
  BY <1>1, <1>2, <1>3, NullAssumption DEF LocalBlocks, EarParts
<1>5. UNCHANGED <<now, jwt_valid, buffers, lists>> /\ submods_js' = NULL
  BY DEF LoadSubmods
<1>6. \A h \in Handle : \A a \in EarParts(pear[h]) :
        a \in Addr /\ a # ear /\ a # jwt /\ a # submods_js
  <2> SUFFICES ASSUME NEW h \in Handle, NEW a \in EarParts(pear[h])
               PROVE  a \in Addr /\ a # ear /\ a # jwt /\ a # submods_js
    OBVIOUS
  <2>1. a \in Addr
    BY HandleParts, VerifyFacts
  <2>2. a \notin LocalBlocks
    BY VerifyFacts DEF OneOwnerEach
  <2> QED
    BY <1>4, <2>1, <2>2
<1>7. ASSUME heap' = Released({submods_js}), pc' = "err",
             UNCHANGED <<args, ear, pear>>
      PROVE  IInv'
  <2>1. /\ heap' \in [Addr -> Block]
        /\ \A a \in Addr : a \notin {submods_js} => heap'[a] = heap[a]
        /\ \A a \in Addr :
             Allocated(a)' <=> Allocated(a) /\ a \notin {submods_js}
    BY <1>7, ReleaseFact, VerifyFacts
  <2>2. heap'[ear] = heap[ear] /\ heap'[jwt] = heap[jwt]
    BY <1>1, <1>3, <2>1
  <2>3. TypeOK'
    BY <1>5, <1>7, <2>1 DEF IInv, TypeOK, Pointer, Steps
  <2>4. \A h \in Handle : \A a \in EarParts(pear[h]) : heap'[a] = heap[a]
    BY <1>6, <2>1
  <2>5. /\ HandlesComplete'
        /\ \A h \in Handle : EarParts(pear[h])' = EarParts(pear[h])
    BY <1>7, <2>4, HandlesFrame, VerifyFacts
  <2>6. LocalsMatchStep'
    BY <1>1, <1>2, <1>3, <1>5, <1>7, <2>2, NullAssumption
       DEF LocalsMatchStep, Kind, Steps, IInv, OwnershipExact
  <2>7. LocalBlocks' = LocalBlocks \ {submods_js}
    <3>1. LocalBlocks' = {ear, jwt}
      BY <1>1, <1>2, <1>3, <1>5, <1>7, <2>2, NullAssumption
         DEF LocalBlocks, EarParts
    <3>2. ear # submods_js /\ jwt # submods_js
      BY <1>1, <1>3
    <3> QED
      BY <1>4, <3>1, <3>2
  <2>8. {submods_js} \in SUBSET LocalBlocks
    BY <1>4
  <2> QED
    BY <1>5, <2>1, <2>3, <2>5, <2>6, <2>7, <2>8, LocalsShrink
       DEF IInv, OwnershipExact
<1>8. ASSUME NEW p \in Pick(FreeAddr),
             heap' = [Released({submods_js}) EXCEPT
                        ![p] = JsonBlock(text.recs), ![ear].submods = p],
             pear' = [pear EXCEPT ![args.h] = ear],
             ear' = NULL, args' = NULL, pc' = "idle"
      PROVE  IInv'
  <2>1. p \in Addr /\ ~ Allocated(p) /\ p # NULL
    BY PickFact
  <2>2. /\ p # ear /\ p # jwt /\ p # submods_js /\ p \notin buffers
        /\ ear # jwt /\ ear # submods_js /\ jwt # submods_js
        /\ \A h \in Handle : p \notin EarParts(pear[h])
    BY <1>1, <1>3, <2>1, FreeIsNoOnes DEF Allocated
  <2>3. PICK g \in Handle : g = args.h
    BY <1>1 DEF Request
  <2>4. /\ DOMAIN heap' = Addr
        /\ heap'[p] = JsonBlock(text.recs)
        /\ heap'[ear] = EarBlock(jwt, p)
        /\ heap'[submods_js] = FreeBlock
        /\ \A a \in Addr \ {p, ear, submods_js} : heap'[a] = heap[a]
    <3> DEFINE mid == Released({submods_js})
    <3>1. /\ DOMAIN mid = Addr
          /\ mid[submods_js] = FreeBlock
          /\ \A a \in Addr \ {submods_js} : mid[a] = heap[a]
      BY <1>1 DEF Released
    <3> HIDE DEF mid
    <3>2. mid[ear] = EarBlock(jwt, NULL)
      BY <1>1, <2>2, <3>1
    <3>3. heap' = [mid EXCEPT ![p] = JsonBlock(text.recs), ![ear].submods = p]
      BY <1>8 DEF mid
    <3>4. heap'[ear] = [mid[ear] EXCEPT !.submods = p]
      BY <1>1, <2>1, <2>2, <3>1, <3>3
    <3>5. heap'[ear] = EarBlock(jwt, p)
      BY <3>2, <3>4 DEF EarBlock
    <3> QED
      BY <1>1, <2>1, <2>2, <3>1, <3>3, <3>5
  <2>5. TypeOK'
    <3>1. JsonBlock(text.recs) \in Block
      BY <1>1, BlocksWellFormed
    <3>2. EarBlock(jwt, p) \in Block /\ FreeBlock \in Block
      BY <1>1, <2>1, BlocksWellFormed DEF Pointer
    <3>3. heap' \in [Addr -> Block]
      <4>1. \A a \in Addr : heap'[a] \in Block
        BY <2>4, <3>1, <3>2 DEF IInv, TypeOK
      <4>2. heap' = [a \in Addr |-> heap'[a]]
        BY <1>8 DEF Released
      <4> QED
        BY <4>1, <4>2
    <3>4. pear' \in [Handle -> Pointer]
      BY <1>1, <1>8 DEF IInv, TypeOK, Pointer
    <3> QED
      BY <1>5, <1>8, <3>3, <3>4 DEF IInv, TypeOK, Pointer, Steps
  <2>6. /\ heap'[ear].kind = "ear" /\ heap'[ear].jwt = jwt
        /\ heap'[ear].submods = p
        /\ heap'[jwt].kind = "jwt" /\ heap'[p].kind = "json"
        /\ heap'[submods_js].kind = "free"
    BY <1>1, <2>2, <2>4 DEF EarBlock, JsonBlock, FreeBlock
  <2>7. pear'[g] = ear /\ EarParts(pear[g])' = {ear, jwt, p}
    <3>1. pear'[g] = ear
      BY <1>8, <2>3 DEF IInv, TypeOK
    <3> QED
      BY <1>1, <2>1, <2>6, <3>1, NullAssumption DEF EarParts
  <2>8. ASSUME NEW h \in Handle, h # g
        PROVE  /\ pear'[h] # NULL => /\ Kind(pear[h])' = "ear"
                                     /\ Kind(heap[pear[h]].jwt)' = "jwt"
                                     /\ Kind(heap[pear[h]].submods)' = "json"
               /\ EarParts(pear[h])' = EarParts(pear[h])
    <3>1. pear'[h] = pear[h]
      BY <1>8, <2>3, <2>8 DEF IInv, TypeOK
    <3>2. \A a \in EarParts(pear[h]) : heap'[a] = heap[a]
      BY <1>6, <2>2, <2>4
    <3> QED
      BY <3>1, <3>2, HandleFrame, VerifyFacts
  <2>9. HandlesComplete'
    <3>1. /\ Kind(pear[g])' = "ear"
          /\ Kind(heap[pear[g]].jwt)' = "jwt"
          /\ Kind(heap[pear[g]].submods)' = "json"
      BY <1>1, <2>1, <2>6, <2>7, NullAssumption DEF Kind
    <3> QED
      BY <2>8, <3>1 DEF HandlesComplete
  <2>10. LocalsMatchStep'
    BY <1>2, <1>5, <1>8 DEF LocalsMatchStep, Kind, Steps
  <2>11. LocalBlocks' = {}
    BY <1>2, <1>5, <1>8 DEF LocalBlocks, EarParts
  <2>12. \A a \in Addr : Allocated(a)' <=>
                           (Allocated(a) \/ a = p) /\ a # submods_js
    BY <1>1, <1>3, <2>1, <2>2, <2>4, <2>6 DEF Allocated
  <2>13. EarParts(pear[g]) = {}
    BY <1>2, <2>3 DEF EarParts
  <2>14. EveryBlockOwned'
    <3> SUFFICES ASSUME NEW a \in Addr
                 PROVE  Allocated(a)' <=>
                          \/ a \in buffers'
                          \/ \E h \in Handle : a \in EarParts(pear[h])'
      BY <2>11 DEF EveryBlockOwned, Allocated
    <3>1. Allocated(a) <=> \/ a \in {ear, jwt, submods_js}
                           \/ a \in buffers
                           \/ \E h \in Handle : a \in EarParts(pear[h])
      BY <1>4, VerifyFacts DEF EveryBlockOwned, Allocated
    <3>2. submods_js \notin buffers
          /\ \A h \in Handle : submods_js \notin EarParts(pear[h])
      BY <1>4, VerifyFacts DEF OneOwnerEach
    <3> QED
      BY <1>5, <2>2, <2>7, <2>8, <2>12, <2>13, <3>1, <3>2
  <2>15. OneOwnerEach'
    <3>1. {ear, jwt, p} \cap buffers = {}
      BY <1>4, <2>2, VerifyFacts DEF OneOwnerEach
    <3>2. \A h \in Handle : {ear, jwt, p} \cap EarParts(pear[h]) = {}
      BY <1>6, <2>2
    <3>3. ASSUME NEW h \in Handle, NEW i \in Handle \ {h}
          PROVE  EarParts(pear[h])' \cap EarParts(pear[i])' = {}
      <4>1. EarParts(pear[h]) \cap EarParts(pear[i]) = {}
        BY VerifyFacts DEF OneOwnerEach
      <4> QED
        BY <2>7, <2>8, <3>2, <4>1
    <3>4. ASSUME NEW h \in Handle
          PROVE  EarParts(pear[h])' \cap buffers' = {}
      <4>1. EarParts(pear[h]) \cap buffers = {}
        BY VerifyFacts DEF OneOwnerEach
      <4> QED
        BY <1>5, <2>7, <2>8, <3>1, <4>1
    <3> QED
      BY <2>11, <3>3, <3>4 DEF OneOwnerEach
  <2> QED
    BY <2>5, <2>9, <2>10, <2>14, <2>15 DEF IInv, OwnershipExact
<1> QED
  BY <1>7, <1>8 DEF LoadSubmods, TextFreed, GotoErr

(* The label err releases all blocks of the call.                          *)
LEMMA VerifyFailsStep ==
  ASSUME IInv, VerifyFails
  PROVE  IInv'
<1>1. pc = "err" /\ pc' = "idle" /\ args' = NULL
      /\ jwt_valid' = NULL /\ ear' = NULL
      /\ UNCHANGED <<now, submods_js, pear, buffers, lists>>
  BY DEF VerifyFails, At, caller
<1>2. submods_js = NULL
  BY <1>1 DEF IInv, OwnershipExact, LocalsMatchStep
<1>3. LocalBlocks = CleanedUp(jwt_valid, ear)
  BY <1>2 DEF LocalBlocks, CleanedUp, EarParts
<1>4. /\ heap' \in [Addr -> Block]
      /\ \A a \in Addr : a \notin LocalBlocks => heap'[a] = heap[a]
      /\ \A a \in Addr : Allocated(a)' <=> Allocated(a) /\ a \notin LocalBlocks
  BY <1>3, ReleaseFact, VerifyFacts DEF VerifyFails
<1>5. TypeOK'
  BY <1>1, <1>4 DEF IInv, TypeOK, Pointer
<1>6. \A h \in Handle : \A a \in EarParts(pear[h]) : heap'[a] = heap[a]
  <2> SUFFICES ASSUME NEW h \in Handle, NEW a \in EarParts(pear[h])
               PROVE  heap'[a] = heap[a]
    OBVIOUS
  <2>1. a \in Addr
    BY HandleParts, VerifyFacts
  <2>2. a \notin LocalBlocks
    BY VerifyFacts DEF OneOwnerEach
  <2> QED
    BY <1>4, <2>1, <2>2
<1>7. /\ HandlesComplete'
      /\ \A h \in Handle : EarParts(pear[h])' = EarParts(pear[h])
  BY <1>1, <1>6, HandlesFrame, VerifyFacts
<1>8. LocalsMatchStep'
  BY <1>1, <1>2 DEF LocalsMatchStep, Kind, Steps
<1>9. LocalBlocks' = LocalBlocks \ LocalBlocks
  BY <1>1, <1>2 DEF LocalBlocks, EarParts
<1> QED
  BY <1>1, <1>4, <1>5, <1>7, <1>8, <1>9, LocalsShrink DEF IInv, OwnershipExact

-----------------------------------------------------------------------------
(* The getters and the caller's side                                       *)

(* Between calls nothing is pending.                                       *)
LEMMA IdleFacts ==
  ASSUME IInv, pc = "idle"
  PROVE  /\ args = NULL /\ jwt_valid = NULL /\ ear = NULL /\ submods_js = NULL
         /\ LocalBlocks = {}
<1>1. args = NULL /\ jwt_valid = NULL /\ ear = NULL /\ submods_js = NULL
  BY DEF IInv, OwnershipExact, LocalsMatchStep, Steps
<1> QED
  BY <1>1 DEF LocalBlocks, EarParts

(* The records of an open handle are those of some token.                  *)
LEMMA RecsFact ==
  ASSUME IInv, NEW h \in Handle, pear[h] # NULL
  PROVE  \E t \in Token : Recs(h) = t.submods.recs
<1>1. /\ heap[pear[h]].submods \in Addr
      /\ heap[heap[pear[h]].submods].kind = "json"
  BY HandleParts, VerifyFacts
<1>2. heap[heap[pear[h]].submods] \in Block
  BY <1>1 DEF IInv, TypeOK
<1> QED
  BY <1>1, <1>2, BlockContents DEF Recs

(* A call between which and the next nothing is pending, and which leaves  *)
(* the heap, the handles and the buffers alone.                            *)
LEMMA QuietStep ==
  ASSUME IInv, pc \in {"idle", "crashed"}, pc' \in {"idle", "crashed"},
         UNCHANGED <<heap, now, args, jwt_valid, ear, submods_js, pear,
                     buffers, lists>>
  PROVE  IInv'
<1>1. TypeOK'
  BY DEF IInv, TypeOK
<1>2. LocalsMatchStep'
  BY DEF IInv, OwnershipExact, LocalsMatchStep, Kind, Steps
<1> QED
  BY <1>1, <1>2, OwnersFrame DEF IInv, OwnershipExact

(* A block allocated for the caller.                                       *)
LEMMA BufferStep ==
  ASSUME IInv, pc = "idle", pc' = "idle", NEW p \in Pick(FreeAddr),
         NEW b \in Block, b.kind # "free",
         heap' = [heap EXCEPT ![p] = b], buffers' = buffers \cup {p},
         lists' \in [Handle -> SUBSET Addr],
         UNCHANGED <<now, args, jwt_valid, ear, submods_js, pear>>
  PROVE  IInv'
<1>1. p \in Addr /\ ~ Allocated(p) /\ p # NULL
  BY PickFact
<1>2. /\ p \notin LocalBlocks /\ p \notin buffers
      /\ \A h \in Handle : p \notin EarParts(pear[h])
  BY <1>1, FreeIsNoOnes
<1>3. /\ args = NULL /\ jwt_valid = NULL /\ ear = NULL /\ submods_js = NULL
      /\ LocalBlocks = {}
  BY IdleFacts
<1>4. TypeOK'
  BY <1>1 DEF IInv, TypeOK
<1>5. \A h \in Handle : \A a \in EarParts(pear[h]) : heap'[a] = heap[a]
  BY <1>1, <1>2 DEF IInv, TypeOK
<1>6. /\ HandlesComplete'
      /\ \A h \in Handle : EarParts(pear[h])' = EarParts(pear[h])
  BY <1>5, HandlesFrame, VerifyFacts
<1>7. LocalsMatchStep'
  BY <1>3 DEF LocalsMatchStep, Kind, Steps
<1>8. LocalBlocks' = {}
  BY <1>3 DEF LocalBlocks, EarParts
<1>9. \A a \in Addr : Allocated(a)' <=> Allocated(a) \/ a = p
  BY <1>1 DEF Allocated, IInv, TypeOK
<1>10. EveryBlockOwned' /\ OneOwnerEach'
  BY <1>2, <1>3, <1>6, <1>8, <1>9
     DEF IInv, OwnershipExact, EveryBlockOwned, OneOwnerEach, Allocated
<1> QED
  BY <1>4, <1>6, <1>7, <1>10 DEF IInv, OwnershipExact

(* ear_get_status touches no block.                                        *)
LEMMA GetStatusStep ==
  ASSUME IInv, NEW h \in Handle, NEW r, NEW buf, ear_get_status(h, r, buf)
  PROVE  IInv'
<1>1. pc = "idle" /\ UNCHANGED <<now, args, jwt_valid, ear, submods_js, pear>>
  BY DEF ear_get_status, Getter, At, locals
<1>2. UNCHANGED <<heap, pc, buffers, lists>>
  BY DEF ear_get_status, Fails
<1> QED
  BY <1>1, <1>2, QuietStep

(* ear_veraison_get_akpub adds at most a buffer.                           *)
LEMMA GetAkpubStep ==
  ASSUME IInv, NEW h \in Handle, NEW r, NEW buf,
         ear_veraison_get_akpub(h, r, buf)
  PROVE  IInv'
<1>1. pc = "idle" /\ UNCHANGED <<now, args, jwt_valid, ear, submods_js, pear>>
  BY DEF ear_veraison_get_akpub, Getter, At, locals
<1>2. CASE UNCHANGED <<heap, pc, buffers, lists>>
  BY <1>1, <1>2, QuietStep
<1>3. ASSUME NEW p \in Pick(FreeAddr),
             r \in DOMAIN Recs(h), Recs(h)[r].attestation # NULL,
             Recs(h)[r].attestation.akpub # NULL,
             heap' = [heap EXCEPT ![p] =
                        KeyBlock(Decoded(Recs(h)[r].attestation.akpub))],
             buffers' = buffers \cup {p}, UNCHANGED <<pc, lists>>
      PROVE  IInv'
  <2> DEFINE key == KeyBlock(Decoded(Recs(h)[r].attestation.akpub))
  <2>1. PICK t \in Token : Recs(h) = t.submods.recs
    BY RecsFact DEF ear_veraison_get_akpub, Getter
  <2>2. Recs(h)[r].attestation.akpub \in Seq(Char)
    BY <1>3, <2>1, TokenAssumption
  <2>3. key \in Block
    BY <2>2, DecodedFact, BlocksWellFormed
  <2>4. key.kind # "free"
    BY DEF KeyBlock
  <2>5. lists' \in [Handle -> SUBSET Addr]
    BY <1>3 DEF IInv, TypeOK
  <2> HIDE DEF key
  <2>6. heap' = [heap EXCEPT ![p] = key] /\ pc' = "idle"
    BY <1>1, <1>3 DEF key
  <2> QED
    BY <1>1, <1>3, <2>3, <2>4, <2>5, <2>6, BufferStep
<1> QED
  BY <1>2, <1>3 DEF ear_veraison_get_akpub, Fails

(* ear_get_app_recs adds at most a buffer.                                 *)
LEMMA GetAppRecsStep ==
  ASSUME IInv, NEW h \in Handle, ear_get_app_recs(h)
  PROVE  IInv'
<1>1. pc = "idle" /\ UNCHANGED <<now, args, jwt_valid, ear, submods_js, pear>>
  BY DEF ear_get_app_recs, Getter, At, locals
<1>2. CASE pc' \in {pc, "crashed"} /\ UNCHANGED <<heap, buffers, lists>>
  BY <1>1, <1>2, QuietStep
<1>3. ASSUME NEW p \in Pick(FreeAddr),
             heap' = [heap EXCEPT
               ![p] = ListBlock(heap[pear[h]].submods, DOMAIN Recs(h))],
             buffers' = buffers \cup {p},
             lists' = [lists EXCEPT ![h] = @ \cup {p}], pc' = pc
      PROVE  IInv'
  <2> DEFINE list == ListBlock(heap[pear[h]].submods, DOMAIN Recs(h))
  <2>1. PICK t \in Token : Recs(h) = t.submods.recs
    BY RecsFact DEF ear_get_app_recs, Getter
  <2>2. heap[pear[h]].submods \in Addr
    BY HandleParts, VerifyFacts DEF ear_get_app_recs, Getter
  <2>3. list \in Block
    BY <2>1, <2>2, BlocksWellFormed
  <2>4. list.kind # "free"
    BY DEF ListBlock
  <2>5. lists' \in [Handle -> SUBSET Addr]
    BY <1>3, PickFact DEF IInv, TypeOK
  <2> HIDE DEF list
  <2>6. heap' = [heap EXCEPT ![p] = list] /\ pc' = "idle"
    BY <1>1, <1>3 DEF list
  <2> QED
    BY <1>1, <1>3, <2>3, <2>4, <2>5, <2>6, BufferStep
<1> QED
  BY <1>2, <1>3 DEF ear_get_app_recs, NamesTree

(* ear_free releases the blocks of its handle, and no others.              *)
LEMMA EarFreeStep ==
  ASSUME IInv, NEW g \in Handle, ear_free(g)
  PROVE  IInv'
<1>1. /\ pc = "idle" /\ UNCHANGED <<now, pc, args, jwt_valid, ear, submods_js,
                                    buffers>>
      /\ pear' = [pear EXCEPT ![g] = NULL]
      /\ lists' = [lists EXCEPT ![g] = {}]
  BY DEF ear_free, At, locals
<1>2. /\ args = NULL /\ jwt_valid = NULL /\ ear = NULL /\ submods_js = NULL
      /\ LocalBlocks = {}
  BY <1>1, IdleFacts
<1>3. /\ heap' \in [Addr -> Block]
      /\ \A a \in Addr : a \notin EarParts(pear[g]) => heap'[a] = heap[a]
      /\ \A a \in Addr :
           Allocated(a)' <=> Allocated(a) /\ a \notin EarParts(pear[g])
  BY ReleaseFact, VerifyFacts DEF ear_free
<1>4. TypeOK'
  BY <1>1, <1>3 DEF IInv, TypeOK, Pointer
<1>5. pear'[g] = NULL /\ EarParts(pear[g])' = {}
  BY <1>1 DEF EarParts, IInv, TypeOK
<1>6. ASSUME NEW h \in Handle, h # g
      PROVE  /\ pear'[h] # NULL => /\ Kind(pear[h])' = "ear"
                                   /\ Kind(heap[pear[h]].jwt)' = "jwt"
                                   /\ Kind(heap[pear[h]].submods)' = "json"
             /\ EarParts(pear[h])' = EarParts(pear[h])
  <2>1. pear'[h] = pear[h]
    BY <1>1, <1>6 DEF IInv, TypeOK
  <2>2. EarParts(pear[h]) \cap EarParts(pear[g]) = {}
    BY <1>6, VerifyFacts DEF OneOwnerEach
  <2>3. ASSUME NEW a \in EarParts(pear[h]) PROVE heap'[a] = heap[a]
    <3>1. a \in Addr
      BY HandleParts, VerifyFacts
    <3> QED
      BY <1>3, <2>2, <3>1
  <2> QED
    BY <2>1, <2>3, HandleFrame, VerifyFacts
<1>7. HandlesComplete'
  BY <1>5, <1>6 DEF HandlesComplete
<1>8. LocalsMatchStep'
  BY <1>1, <1>2 DEF LocalsMatchStep, Kind, Steps
<1>9. LocalBlocks' = {}
  BY <1>1, <1>2 DEF LocalBlocks, EarParts
<1>10. EveryBlockOwned'
  <2> SUFFICES ASSUME NEW a \in Addr
               PROVE  Allocated(a)' <=>
                        \/ a \in buffers'
                        \/ \E h \in Handle : a \in EarParts(pear[h])'
    BY <1>9 DEF EveryBlockOwned, Allocated
  <2>1. Allocated(a) <=> \/ a \in buffers
                         \/ \E h \in Handle : a \in EarParts(pear[h])
    BY <1>2, VerifyFacts DEF EveryBlockOwned, Allocated
  <2>2. \A h \in Handle \ {g} : EarParts(pear[h]) \cap EarParts(pear[g]) = {}
    BY VerifyFacts DEF OneOwnerEach
  <2>3. EarParts(pear[g]) \cap buffers = {}
    BY VerifyFacts DEF OneOwnerEach
  <2> QED
    BY <1>1, <1>3, <1>5, <1>6, <2>1, <2>2, <2>3
<1>11. OneOwnerEach'
  <2>1. ASSUME NEW h \in Handle, NEW i \in Handle \ {h}
        PROVE  EarParts(pear[h])' \cap EarParts(pear[i])' = {}
    <3>1. EarParts(pear[h]) \cap EarParts(pear[i]) = {}
      BY VerifyFacts DEF OneOwnerEach
    <3> QED
      BY <1>5, <1>6, <3>1
  <2>2. ASSUME NEW h \in Handle
        PROVE  EarParts(pear[h])' \cap buffers' = {}
    <3>1. EarParts(pear[h]) \cap buffers = {}
      BY VerifyFacts DEF OneOwnerEach
    <3> QED
      BY <1>1, <1>5, <1>6, <3>1
  <2> QED
    BY <1>9, <2>1, <2>2 DEF OneOwnerEach
<1> QED
  BY <1>4, <1>7, <1>8, <1>10, <1>11 DEF IInv, OwnershipExact

(* free() releases one buffer.                                             *)
LEMMA FreeBufferStep ==
  ASSUME IInv, NEW p \in buffers, FreeBuffer(p)
  PROVE  IInv'
<1>1. /\ pc = "idle" /\ UNCHANGED <<now, pc, args, jwt_valid, ear, submods_js,
                                    pear>>
      /\ buffers' = buffers \ {p}
      /\ lists' = [h \in Handle |-> lists[h] \ {p}]
  BY DEF FreeBuffer, At, locals
<1>2. /\ args = NULL /\ jwt_valid = NULL /\ ear = NULL /\ submods_js = NULL
      /\ LocalBlocks = {}
  BY <1>1, IdleFacts
<1>3. /\ heap' \in [Addr -> Block]
      /\ \A a \in Addr : a \notin {p} => heap'[a] = heap[a]
      /\ \A a \in Addr : Allocated(a)' <=> Allocated(a) /\ a \notin {p}
  BY ReleaseFact, VerifyFacts DEF FreeBuffer
<1>4. TypeOK'
  BY <1>1, <1>3 DEF IInv, TypeOK
<1>5. \A h \in Handle : p \notin EarParts(pear[h])
  BY VerifyFacts DEF OneOwnerEach
<1>6. \A h \in Handle : \A a \in EarParts(pear[h]) : heap'[a] = heap[a]
  <2> SUFFICES ASSUME NEW h \in Handle, NEW a \in EarParts(pear[h])
               PROVE  heap'[a] = heap[a]
    OBVIOUS
  <2>1. a \in Addr
    BY HandleParts, VerifyFacts
  <2> QED
    BY <1>3, <1>5, <2>1
<1>7. /\ HandlesComplete'
      /\ \A h \in Handle : EarParts(pear[h])' = EarParts(pear[h])
  BY <1>1, <1>6, HandlesFrame, VerifyFacts
<1>8. LocalsMatchStep'
  BY <1>1, <1>2 DEF LocalsMatchStep, Kind, Steps
<1>9. LocalBlocks' = {}
  BY <1>1, <1>2 DEF LocalBlocks, EarParts
<1>10. EveryBlockOwned' /\ OneOwnerEach'
  BY <1>1, <1>2, <1>3, <1>5, <1>7, <1>9
     DEF IInv, OwnershipExact, EveryBlockOwned, OneOwnerEach, Allocated
<1> QED
  BY <1>4, <1>7, <1>8, <1>10 DEF IInv, OwnershipExact

(* The clock moves nothing else.                                           *)
LEMMA TickStep ==
  ASSUME IInv, Tick
  PROVE  IInv'
<1>1. UNCHANGED <<heap, pc, args, jwt_valid, ear, submods_js, pear, buffers,
                  lists>> /\ now' = now + 1 /\ now < MaxTime
  BY DEF Tick, locals, caller
<1>2. now' \in 1..MaxTime
  BY <1>1, MaxTimeAssumption DEF IInv, TypeOK
<1>3. TypeOK'
  BY <1>1, <1>2 DEF IInv, TypeOK
<1>4. LocalsMatchStep'
  BY <1>1 DEF IInv, OwnershipExact, LocalsMatchStep, Kind
<1> QED
  BY <1>1, <1>3, <1>4, OwnersFrame DEF IInv, OwnershipExact

(* Nothing changes.                                                        *)
LEMMA StutterStep ==
  ASSUME IInv, UNCHANGED vars
  PROVE  IInv'
<1>1. UNCHANGED <<heap, now, pc, args, jwt_valid, ear, submods_js, pear,
                  buffers, lists>>
  BY DEF vars, locals, caller
<1>2. TypeOK'
  BY <1>1 DEF IInv, TypeOK
<1>3. LocalsMatchStep'
  BY <1>1 DEF IInv, OwnershipExact, LocalsMatchStep, Kind
<1> QED
  BY <1>1, <1>2, <1>3, OwnersFrame DEF IInv, OwnershipExact

(* Every step preserves the invariant.                                     *)
LEMMA NextIInv == IInv /\ [Next]_vars => IInv'
<1> SUFFICES ASSUME IInv, [Next]_vars PROVE IInv'
  OBVIOUS
<1>1. CASE CallerStep
  BY <1>1, CallStep, GetStatusStep, GetAkpubStep, GetAppRecsStep, EarFreeStep,
     FreeBufferStep DEF CallerStep
<1>2. CASE VerifyStep
  BY <1>2, NewValidatorStep, EarNewStep, DecodeStep, ValidateStep,
     ValidateProfileStep, GetGrantsStep, LoadSubmodsStep, VerifyFailsStep
     DEF VerifyStep
<1>3. CASE Tick
  BY <1>3, TickStep
<1>4. CASE Crashed \/ UNCHANGED vars
  BY <1>4, StutterStep DEF Crashed
<1> QED
  BY <1>1, <1>2, <1>3, <1>4 DEF Next

-----------------------------------------------------------------------------
(* The theorems                                                            *)

(* The invariant always holds; the theorems below are read off it.         *)
LEMMA AlwaysIInv == Spec => []IInv
BY InitIInv, NextIInv, PTL DEF Spec

(* Every variable and every block on the heap keeps its type.              *)
THEOREM TypeCorrect == Spec => []TypeOK
<1>1. IInv => TypeOK
  BY DEF IInv
<1> QED
  BY <1>1, AlwaysIInv, PTL

(* No call of the library leaks a block, frees one twice or leaves a       *)
(* pointer to a freed one behind, on any of its paths.                     *)
THEOREM OwnershipCorrect == Spec => []OwnershipExact
<1>1. IInv => OwnershipExact
  BY DEF IInv
<1> QED
  BY <1>1, AlwaysIInv, PTL

(* The asserts at the head of the getters never fail on a handle that      *)
(* ear_jwt_verify has given out.                                           *)
THEOREM HandlesAlwaysComplete == Spec => []HandlesComplete
<1>1. IInv => HandlesComplete
  BY DEF IInv, OwnershipExact
<1> QED
  BY <1>1, AlwaysIInv, PTL

-----------------------------------------------------------------------------
(* What a step writes: a free block, a block of the call in progress, a    *)
(* block of a handle that it closes, or a buffer that it frees.            *)
Writable(a) ==
  \/ ~ Allocated(a)
  \/ a \in LocalBlocks
  \/ \E g \in Handle : pear'[g] = NULL /\ a \in EarParts(pear[g])
  \/ a \in buffers \ buffers'

WritesOnlyWritable == \A a \in Addr : heap'[a] # heap[a] => Writable(a)

(* An allocation, with whatever is written to the blocks of the call in    *)
(* progress.                                                               *)
LEMMA AllocationWrites ==
  ASSUME IInv, NEW p \in Pick(FreeAddr),
         \A a \in Addr : heap'[a] # heap[a] => a = p \/ a \in LocalBlocks
  PROVE  WritesOnlyWritable
BY PickFact DEF WritesOnlyWritable, Writable

(* A step of ear_jwt_verify writes to its own blocks and to new ones.      *)
LEMMA VerifyWrites ==
  ASSUME IInv, VerifyStep
  PROVE  WritesOnlyWritable
<1>t. TypeOK /\ DOMAIN heap = Addr
  BY DEF IInv, TypeOK
<1>1. CASE NewValidator
  <2>1. CASE heap' = heap
    BY <2>1 DEF WritesOnlyWritable
  <2>2. CASE heap' # heap
    <3>1. PICK p \in Pick(FreeAddr) :
            heap' = [heap EXCEPT ![p] = ValidBlock(args.alg, now)]
      BY <1>1, <2>2 DEF NewValidator
    <3> QED
      BY <1>t, <3>1, AllocationWrites
  <2> QED
    BY <2>1, <2>2
<1>2. CASE ear_new
  <2>1. CASE heap' = heap
    BY <2>1 DEF WritesOnlyWritable
  <2>2. CASE heap' # heap
    <3>1. PICK p \in Pick(FreeAddr) : heap' = [heap EXCEPT ![p] = FreshEar]
      BY <1>2, <2>2 DEF ear_new
    <3> QED
      BY <1>t, <3>1, AllocationWrites
  <2> QED
    BY <2>1, <2>2
<1>3. CASE Decode
  <2>1. ear \in LocalBlocks
    <3>1. ear \in Addr
      BY <1>3, VerifyFacts DEF Decode, At
    <3> QED
      BY <3>1, NullAssumption DEF LocalBlocks, EarParts
  <2>2. CASE heap' = heap
    BY <2>2 DEF WritesOnlyWritable
  <2>3. CASE heap' # heap
    <3>1. PICK p \in Pick(FreeAddr) :
            heap' = [heap EXCEPT ![p] = JwtBlock(args.token), ![ear].jwt = p]
      BY <1>3, <2>3 DEF Decode
    <3>2. \A a \in Addr : heap'[a] # heap[a] => a = p \/ a = ear
      BY <1>t, <3>1
    <3> QED
      BY <2>1, <3>2, AllocationWrites
  <2> QED
    BY <2>2, <2>3
<1>4. CASE Validate
  <2>1. jwt_valid \in LocalBlocks
    <3>1. jwt_valid \in Addr
      BY <1>4, VerifyFacts DEF Validate, At
    <3> QED
      BY <3>1, NullAssumption DEF LocalBlocks
  <2>2. CASE heap' = heap
    BY <2>2 DEF WritesOnlyWritable
  <2>3. CASE heap' = Released({jwt_valid})
    BY <1>t, <2>1, <2>3, ReleaseFact DEF WritesOnlyWritable, Writable
  <2> QED
    BY <1>4, <2>2, <2>3 DEF Validate
<1>5. CASE validate_profile
  BY <1>5 DEF validate_profile, WritesOnlyWritable
<1>6. CASE GetGrants
  <2>1. CASE heap' = heap
    BY <2>1 DEF WritesOnlyWritable
  <2>2. CASE heap' # heap
    <3>1. PICK p \in Pick(FreeAddr) :
            heap' = [heap EXCEPT
                       ![p] = TextBlock(heap[heap[ear].jwt].token.submods)]
      BY <1>6, <2>2 DEF GetGrants
    <3> QED
      BY <1>t, <3>1, AllocationWrites
  <2> QED
    BY <2>1, <2>2
<1>7. CASE LoadSubmods
  <2>1. ear \in LocalBlocks /\ submods_js \in LocalBlocks
    <3>1. ear \in Addr /\ submods_js \in Addr
      BY <1>7, VerifyFacts DEF LoadSubmods, At
    <3> QED
      BY <3>1, NullAssumption DEF LocalBlocks, EarParts
  <2>2. CASE heap' = Released({submods_js})
    BY <1>t, <2>1, <2>2, ReleaseFact DEF WritesOnlyWritable, Writable
  <2>3. CASE \E p \in Pick(FreeAddr) :
               heap' = [Released({submods_js}) EXCEPT
                          ![p] = JsonBlock(heap[submods_js].value.recs),
                          ![ear].submods = p]
    <3>1. PICK p \in Pick(FreeAddr) :
            heap' = [Released({submods_js}) EXCEPT
                       ![p] = JsonBlock(heap[submods_js].value.recs),
                       ![ear].submods = p]
      BY <2>3
    <3>2. \A a \in Addr : heap'[a] # heap[a] => a \in {p, ear, submods_js}
      BY <3>1 DEF Released
    <3> QED
      BY <2>1, <3>2, AllocationWrites
  <2> QED
    BY <1>7, <2>2, <2>3 DEF LoadSubmods, TextFreed
<1>8. CASE VerifyFails
  <2>1. submods_js = NULL
    BY <1>8 DEF VerifyFails, At, IInv, OwnershipExact, LocalsMatchStep
  <2>2. LocalBlocks = CleanedUp(jwt_valid, ear)
    BY <2>1 DEF LocalBlocks, CleanedUp, EarParts
  <2>3. heap' = Released(LocalBlocks)
    BY <1>8, <2>2 DEF VerifyFails
  <2> QED
    BY <1>t, <2>3, ReleaseFact DEF WritesOnlyWritable, Writable
<1> QED
  BY <1>1, <1>2, <1>3, <1>4, <1>5, <1>6, <1>7, <1>8 DEF VerifyStep

(* So do the other calls, or they release what they are given.             *)
LEMMA CallerWrites ==
  ASSUME IInv, CallerStep
  PROVE  WritesOnlyWritable
<1>t. TypeOK /\ DOMAIN heap = Addr
  BY DEF IInv, TypeOK
<1>0. CASE heap' = heap
  BY <1>0 DEF WritesOnlyWritable
<1>1. ASSUME NEW p \in Pick(FreeAddr), NEW b, heap' = [heap EXCEPT ![p] = b]
      PROVE  WritesOnlyWritable
  BY <1>t, <1>1, AllocationWrites
<1>2. ASSUME NEW h \in Handle, NEW t \in Token, NEW k \in Key, NEW a \in Alg,
             NEW buf, ear_jwt_verify(h, t, k, a, buf)
      PROVE  heap' = heap
  BY <1>2 DEF ear_jwt_verify
<1>3. ASSUME NEW h \in Handle, NEW r, NEW buf, ear_get_status(h, r, buf)
      PROVE  heap' = heap
  BY <1>3 DEF ear_get_status, Fails
<1>4. ASSUME NEW h \in Handle, NEW r, NEW buf, ear_veraison_get_akpub(h, r, buf)
      PROVE  WritesOnlyWritable
  BY <1>0, <1>1, <1>4 DEF ear_veraison_get_akpub, Fails
<1>5. ASSUME NEW h \in Handle, ear_get_app_recs(h)
      PROVE  WritesOnlyWritable
  BY <1>0, <1>1, <1>5 DEF ear_get_app_recs
<1>6. ASSUME NEW h \in Handle, ear_free(h)
      PROVE  WritesOnlyWritable
  <2>1. heap' = Released(EarParts(pear[h])) /\ pear'[h] = NULL
    BY <1>6 DEF ear_free, IInv, TypeOK
  <2> QED
    BY <1>t, <2>1, ReleaseFact DEF WritesOnlyWritable, Writable
<1>7. ASSUME NEW p \in buffers, FreeBuffer(p)
      PROVE  WritesOnlyWritable
  <2>1. heap' = Released({p}) /\ p \in buffers \ buffers'
    BY <1>7 DEF FreeBuffer
  <2> QED
    BY <1>t, <2>1, ReleaseFact DEF WritesOnlyWritable, Writable
<1> QED
  BY <1>0, <1>2, <1>3, <1>4, <1>5, <1>6, <1>7 DEF CallerStep

(* And so does every step.                                                 *)
LEMMA NextWrites ==
  ASSUME IInv, [Next]_vars
  PROVE  WritesOnlyWritable
<1>1. CASE Tick \/ Crashed \/ UNCHANGED vars
  BY <1>1 DEF Tick, Crashed, vars, WritesOnlyWritable
<1> QED
  BY <1>1, CallerWrites, VerifyWrites DEF Next

(* An open handle may be closed, but is never made to point elsewhere.     *)
LEMMA HandleChange ==
  ASSUME IInv, [Next]_vars, NEW h \in Handle, pear[h] # NULL
  PROVE  pear'[h] \in {pear[h], NULL}
<1>1. CASE LoadSubmods
  <2>1. pear[args.h] = NULL
    <3>1. args # NULL
      BY <1>1, VerifyFacts, NullAssumption DEF LoadSubmods, At, Steps
    <3> QED
      BY <3>1, VerifyFacts DEF LocalsMatchStep
  <2> QED
    BY <1>1, <2>1 DEF LoadSubmods, IInv, TypeOK
<1>2. ASSUME NEW g \in Handle, ear_free(g)
      PROVE  pear'[h] \in {pear[h], NULL}
  BY <1>2 DEF ear_free, IInv, TypeOK
<1>3. CASE \/ NewValidator \/ ear_new \/ Decode \/ Validate
           \/ validate_profile \/ GetGrants \/ VerifyFails \/ Tick
           \/ Crashed \/ UNCHANGED vars
  BY <1>3 DEF NewValidator, ear_new, Decode, Validate, validate_profile,
              GetGrants, VerifyFails, Tick, Crashed, vars, caller
<1>4. ASSUME NEW g \in Handle, NEW t \in Token, NEW k \in Key, NEW a \in Alg,
             NEW buf, ear_jwt_verify(g, t, k, a, buf)
      PROVE  pear' = pear
  BY <1>4 DEF ear_jwt_verify, caller
<1>5. ASSUME NEW g \in Handle, NEW r, NEW buf,
             ear_get_status(g, r, buf) \/ ear_veraison_get_akpub(g, r, buf)
      PROVE  pear' = pear
  BY <1>5 DEF ear_get_status, ear_veraison_get_akpub, Getter
<1>6. ASSUME NEW g \in Handle, ear_get_app_recs(g)
      PROVE  pear' = pear
  BY <1>6 DEF ear_get_app_recs, Getter
<1>7. ASSUME NEW p \in buffers, FreeBuffer(p)
      PROVE  pear' = pear
  BY <1>7 DEF FreeBuffer
<1> QED
  BY <1>1, <1>2, <1>3, <1>4, <1>5, <1>6, <1>7
     DEF Next, CallerStep, VerifyStep

(* A handle that stays open keeps its blocks, and their contents.          *)
LEMMA OwnedKept ==
  ASSUME IInv, [Next]_vars, NEW h \in Handle, pear[h] # NULL, pear'[h] # NULL
  PROVE  /\ pear'[h] = pear[h]
         /\ \A a \in EarParts(pear[h]) : heap'[a] = heap[a]
<1>1. pear'[h] = pear[h]
  BY HandleChange
<1>2. ASSUME NEW a \in EarParts(pear[h]) PROVE heap'[a] = heap[a]
  <2>1. a \in Addr
    BY HandleParts, VerifyFacts
  <2>2. Allocated(a) /\ a \notin LocalBlocks /\ a \notin buffers
    BY <2>1, VerifyFacts DEF EveryBlockOwned, OneOwnerEach, Allocated
  <2>3. ASSUME NEW g \in Handle, pear'[g] = NULL
        PROVE  a \notin EarParts(pear[g])
    <3>1. EarParts(pear[h]) \cap EarParts(pear[g]) = {}
      BY <2>3, VerifyFacts DEF OneOwnerEach
    <3> QED
      BY <3>1
  <2> QED
    BY <2>1, <2>2, <2>3, NextWrites DEF WritesOnlyWritable, Writable
<1> QED
  BY <1>1, <1>2

(* A buffer that is not freed keeps its contents.                          *)
LEMMA BuffersKept ==
  ASSUME IInv, [Next]_vars, NEW a \in buffers, a \in buffers'
  PROVE  heap'[a] = heap[a]
<1>1. a \in Addr
  BY DEF IInv, TypeOK
<1>2. Allocated(a) /\ a \notin LocalBlocks
      /\ \A g \in Handle : a \notin EarParts(pear[g])
  BY <1>1, VerifyFacts DEF EveryBlockOwned, OneOwnerEach, Allocated
<1> QED
  BY <1>1, <1>2, NextWrites DEF WritesOnlyWritable, Writable

(* No call changes the claims-set of a handle that stays open.             *)
THEOREM OpenHandlesAreStable == Spec => OpenHandleStable
<1>1. IInv /\ [Next]_vars =>
        [\A h \in Handle : pear[h] # NULL /\ pear'[h] # NULL =>
           /\ pear'[h] = pear[h]
           /\ \A p \in EarParts(pear[h]) : heap'[p] = heap[p]]_vars
  BY OwnedKept
<1> QED
  BY <1>1, AlwaysIInv, PTL DEF Spec, OpenHandleStable

-----------------------------------------------------------------------------
(* The key lists                                                           *)

(* What ListsPointLive says of list p of handle h.                         *)
ListAlive(h, p) ==
  /\ p \in buffers
  /\ Kind(p) = "list"
  /\ pear[h] # NULL
  /\ heap[p].json = heap[pear[h]].submods
  /\ Kind(heap[p].json) = "json"
  /\ heap[p].names = DOMAIN heap[heap[p].json].recs

(* A list stays alive while its handle is open and it is not freed.        *)
LEMMA ListKept ==
  ASSUME IInv, [Next]_vars, NEW h \in Handle, NEW p \in lists[h],
         ListAlive(h, p), p \in buffers', pear'[h] # NULL
  PROVE  ListAlive(h, p)'
<1>1. pear'[h] = pear[h] /\ \A a \in EarParts(pear[h]) : heap'[a] = heap[a]
  BY OwnedKept DEF ListAlive
<1>2. heap'[p] = heap[p]
  BY BuffersKept DEF ListAlive
<1>3. /\ heap[pear[h]].submods \in Addr
      /\ heap'[pear[h]] = heap[pear[h]]
      /\ heap'[heap[pear[h]].submods] = heap[heap[pear[h]].submods]
  <2>1. pear[h] # NULL /\ heap[pear[h]].submods \in Addr
    BY HandleParts, VerifyFacts DEF ListAlive
  <2> QED
    BY <1>1, <2>1, NullAssumption DEF EarParts
<1> QED
  BY <1>1, <1>2, <1>3 DEF ListAlive, Kind

(* Lists that have only shrunk, of a handle that is open if any is left.   *)
LEMMA ListsKept ==
  ASSUME IInv, ListsPointLive, [Next]_vars, NEW h \in Handle,
         lists'[h] \subseteq lists[h], lists'[h] \subseteq buffers',
         lists'[h] # {} => pear'[h] # NULL
  PROVE  \A p \in lists'[h] : ListAlive(h, p)'
BY ListKept DEF ListsPointLive, ListAlive

(* A step that frees no buffer, leaves the lists alone and closes no       *)
(* handle keeps every list.                                                *)
LEMMA QuietLists ==
  ASSUME IInv, ListsPointLive, [Next]_vars, buffers \subseteq buffers',
         lists' = lists, NEW h \in Handle, pear[h] # NULL => pear'[h] # NULL
  PROVE  \A p \in lists'[h] : ListAlive(h, p)'
<1>1. lists[h] \subseteq buffers /\ (lists[h] # {} => pear[h] # NULL)
  BY DEF ListsPointLive
<1> QED
  BY <1>1, ListsKept

(* The list that ear_get_app_recs returns is alive, and the other lists    *)
(* of its handle stay so.                                                  *)
LEMMA AppRecsLists ==
  ASSUME IInv, ListsPointLive, NEW g \in Handle, ear_get_app_recs(g),
         [Next]_vars, NEW h \in Handle
  PROVE  \A p \in lists'[h] : ListAlive(h, p)'
<1>1. pear' = pear /\ pear[g] # NULL
  BY DEF ear_get_app_recs, Getter
<1>2. CASE buffers' = buffers /\ lists' = lists
  BY <1>1, <1>2, QuietLists
<1>3. ASSUME NEW q \in Pick(FreeAddr),
             heap' = [heap EXCEPT
                  ![q] = ListBlock(heap[pear[g]].submods, DOMAIN Recs(g))],
             buffers' = buffers \cup {q},
             lists' = [lists EXCEPT ![g] = @ \cup {q}]
      PROVE  \A p \in lists'[h] : ListAlive(h, p)'
  <2>t. lists \in [Handle -> SUBSET Addr] /\ DOMAIN heap = Addr
    BY DEF IInv, TypeOK
  <2>1. ASSUME NEW p \in lists[h] PROVE ListAlive(h, p)'
    <3>1. ListAlive(h, p)
      BY DEF ListsPointLive, ListAlive
    <3> QED
      BY <1>1, <1>3, <3>1, ListKept DEF ListAlive
  <2>2. ListAlive(g, q)'
    <3>1. q \in Addr /\ ~ Allocated(q) /\ q # NULL
      BY PickFact
    <3>2. /\ pear[g] \in Addr /\ heap[pear[g]].submods \in Addr
          /\ heap[pear[g]].kind = "ear"
          /\ heap[heap[pear[g]].submods].kind = "json"
      BY <1>1, HandleParts, VerifyFacts
    <3>3. q # pear[g] /\ q # heap[pear[g]].submods
      BY <3>1, <3>2 DEF Allocated
    <3>4. /\ heap'[q] = ListBlock(heap[pear[g]].submods, DOMAIN Recs(g))
          /\ heap'[pear[g]] = heap[pear[g]]
          /\ heap'[heap[pear[g]].submods] = heap[heap[pear[g]].submods]
      BY <1>3, <2>t, <3>1, <3>2, <3>3
    <3>5. heap[pear[g]].submods # NULL
      BY <3>2, NullAssumption
    <3>6. /\ heap'[q].kind = "list"
          /\ heap'[q].json = heap[pear[g]].submods
          /\ heap'[q].names = DOMAIN heap[heap[pear[g]].submods].recs
      BY <3>4 DEF ListBlock, Recs
    <3>7. q \in buffers' /\ pear'[g] # NULL
      BY <1>1, <1>3
    <3> QED
      BY <1>1, <3>1, <3>2, <3>4, <3>5, <3>6, <3>7 DEF ListAlive, Kind
  <2>3. lists'[h] \subseteq IF h = g THEN lists[h] \cup {q} ELSE lists[h]
    BY <1>3, <2>t
  <2> QED
    BY <2>1, <2>2, <2>3
<1> QED
  BY <1>2, <1>3 DEF ear_get_app_recs, NamesTree

(* The calls of the caller, one by one.                                    *)
LEMMA CallerLists ==
  ASSUME IInv, ListsPointLive, CallerStep, NEW h \in Handle
  PROVE  \A p \in lists'[h] : ListAlive(h, p)'
<1>n. [Next]_vars
  BY DEF Next
<1>t. lists \in [Handle -> SUBSET Addr] /\ pear \in [Handle -> Pointer]
  BY DEF IInv, TypeOK
<1>1. ASSUME NEW g \in Handle, NEW t \in Token, NEW k \in Key, NEW a \in Alg,
             NEW buf, ear_jwt_verify(g, t, k, a, buf)
      PROVE  \A p \in lists'[h] : ListAlive(h, p)'
  <2>1. UNCHANGED <<pear, buffers, lists>>
    BY <1>1 DEF ear_jwt_verify, caller
  <2> QED
    BY <1>n, <2>1, QuietLists
<1>2. ASSUME NEW g \in Handle, NEW r, NEW buf,
             ear_get_status(g, r, buf) \/ ear_veraison_get_akpub(g, r, buf)
      PROVE  \A p \in lists'[h] : ListAlive(h, p)'
  <2>1. pear' = pear /\ lists' = lists /\ buffers \subseteq buffers'
    BY <1>2 DEF ear_get_status, ear_veraison_get_akpub, Getter, Fails
  <2> QED
    BY <1>n, <2>1, QuietLists
<1>3. ASSUME NEW g \in Handle, ear_get_app_recs(g)
      PROVE  \A p \in lists'[h] : ListAlive(h, p)'
  BY <1>n, <1>3, AppRecsLists
<1>4. ASSUME NEW g \in Handle, ear_free(g)
      PROVE  \A p \in lists'[h] : ListAlive(h, p)'
  <2>1. /\ lists' = [lists EXCEPT ![g] = {}]
        /\ pear' = [pear EXCEPT ![g] = NULL]
        /\ buffers' = buffers
    BY <1>4 DEF ear_free
  <2>2. lists[h] \subseteq buffers /\ (lists[h] # {} => pear[h] # NULL)
    BY DEF ListsPointLive
  <2>3. lists'[h] \subseteq lists[h] /\ (lists'[h] # {} => pear'[h] # NULL)
    BY <1>t, <2>1, <2>2
  <2> QED
    BY <1>n, <2>1, <2>2, <2>3, ListsKept
<1>5. ASSUME NEW q \in buffers, FreeBuffer(q)
      PROVE  \A p \in lists'[h] : ListAlive(h, p)'
  <2>1. /\ lists'[h] = lists[h] \ {q}
        /\ pear' = pear
        /\ buffers' = buffers \ {q}
    BY <1>5 DEF FreeBuffer
  <2>2. lists[h] \subseteq buffers /\ (lists[h] # {} => pear[h] # NULL)
    BY DEF ListsPointLive
  <2> QED
    BY <1>n, <2>1, <2>2, ListsKept
<1> QED
  BY <1>1, <1>2, <1>3, <1>4, <1>5 DEF CallerStep

(* The steps of ear_jwt_verify free no buffer and close no handle.         *)
LEMMA VerifyLists ==
  ASSUME IInv, ListsPointLive, VerifyStep, NEW h \in Handle
  PROVE  \A p \in lists'[h] : ListAlive(h, p)'
<1>n. [Next]_vars
  BY DEF Next
<1>1. buffers' = buffers /\ lists' = lists
  BY DEF VerifyStep, NewValidator, ear_new, Decode, Validate,
         validate_profile, GetGrants, LoadSubmods, VerifyFails, caller
<1>2. pear[h] # NULL => pear'[h] # NULL
  <2>1. CASE pear' = pear
    BY <2>1
  <2>2. CASE LoadSubmods
    <3>1. ear # NULL /\ pear \in [Handle -> Pointer]
      BY <2>2, VerifyFacts, NullAssumption DEF LoadSubmods, At, TypeOK
    <3> QED
      BY <2>2, <3>1 DEF LoadSubmods
  <2> QED
    BY <2>1, <2>2 DEF VerifyStep, NewValidator, ear_new, Decode, Validate,
                      validate_profile, GetGrants, VerifyFails, caller
<1> QED
  BY <1>n, <1>1, <1>2, QuietLists

(* The names a list gives the caller can be read until the handle is freed *)
(* or the list is.                                                         *)
THEOREM ListsStayLive == Spec => []ListsPointLive
<1>1. Init => ListsPointLive
  BY DEF Init, ListsPointLive
<1>2. IInv /\ ListsPointLive /\ [Next]_vars => ListsPointLive'
  <2> SUFFICES ASSUME IInv, ListsPointLive, [Next]_vars, NEW h \in Handle
               PROVE  \A p \in lists'[h] : ListAlive(h, p)'
    BY DEF ListsPointLive, ListAlive
  <2>1. CASE CallerStep
    BY <2>1, CallerLists
  <2>2. CASE VerifyStep
    BY <2>2, VerifyLists
  <2>3. CASE Tick \/ Crashed \/ UNCHANGED vars
    <3>1. UNCHANGED <<pear, buffers, lists>>
      BY <2>3 DEF Tick, Crashed, vars, caller
    <3> QED
      BY <3>1, QuietLists
  <2> QED
    BY <2>1, <2>2, <2>3 DEF Next
<1> QED
  BY <1>1, <1>2, AlwaysIInv, PTL DEF Spec

-----------------------------------------------------------------------------
(* The checks of ear_jwt_verify                                            *)


(* What the checks of a call in progress have found, and what the objects  *)
(* it has made so far hold.                                                *)
ChecksTrue ==
  /\ args # NULL => args.since <= now
  /\ jwt_valid # NULL => /\ heap[jwt_valid].alg = args.alg
                         /\ heap[jwt_valid].now \in args.since..now
  /\ ear # NULL /\ heap[ear].jwt # NULL =>
       /\ heap[heap[ear].jwt].token = args.token
       /\ args.token.signer = args.key
  /\ pc \in Steps \ {"err"} => args.alg \in KnownAlg
  /\ pc \in {"validate_profile", "jwt_get_grants_json", "json_loads"} =>
       /\ args.token.alg = args.alg /\ args.token.hdrsAgree
       /\ \E time \in args.since..now : Api!InWindow(args.token, time)
  /\ pc \in {"jwt_get_grants_json", "json_loads"} =>
       args.token.profile = EAR_PROFILE
  /\ pc = "json_loads" => heap[submods_js].value = args.token.submods
  /\ pc = "err" /\ MayFail = {} => ~ Acceptable(args)

(* The records cached in a handle are those of its token.                  *)
RecordsMatch ==
  \A h \in Handle : pear[h] # NULL =>
    heap[heap[pear[h]].submods].recs
      = heap[heap[pear[h]].jwt].token.submods.recs

(* The blocks of the call in progress, one by one.                         *)
LEMMA LocalsAre ==
  ASSUME IInv
  PROVE  /\ jwt_valid # NULL => jwt_valid \in LocalBlocks
         /\ submods_js # NULL => submods_js \in LocalBlocks
         /\ ear # NULL => ear \in LocalBlocks
         /\ ear # NULL /\ heap[ear].jwt # NULL => heap[ear].jwt \in LocalBlocks
         /\ \A a \in LocalBlocks : a \in Addr /\ Allocated(a)
<1>1. \A a \in LocalBlocks : a \in Addr
  <2>1. jwt_valid \in Pointer /\ submods_js \in Pointer /\ ear \in Pointer
    BY DEF IInv, TypeOK
  <2>2. ear # NULL => heap[ear].jwt \in Pointer /\ heap[ear].submods = NULL
    <3>1. ear # NULL => heap[ear] \in Block /\ heap[ear].kind = "ear"
      BY <2>1, KindFact, VerifyFacts DEF LocalsMatchStep
    <3> QED
      BY <3>1, BlockContents, VerifyFacts DEF LocalsMatchStep
  <2> QED
    BY <2>1, <2>2 DEF LocalBlocks, EarParts, Pointer
<1>2. \A a \in LocalBlocks : Allocated(a)
  BY <1>1, VerifyFacts DEF EveryBlockOwned, Allocated
<1> QED
  BY <1>1, <1>2 DEF LocalBlocks, EarParts

(* Between two calls there is nothing to know.                             *)
LEMMA NothingChecked ==
  ASSUME args' = NULL, jwt_valid' = NULL, ear' = NULL,
         pc' \in {"idle", "crashed"}
  PROVE  ChecksTrue'
BY DEF ChecksTrue, Steps

(* A step to "err" that leaves the objects of the call alone.              *)
LEMMA ErrChecked ==
  ASSUME IInv, ChecksTrue, pc' = "err", pc # "json_loads",
         UNCHANGED <<heap, now, args, jwt_valid, ear>>,
         MayFail = {} => ~ Acceptable(args)
  PROVE  ChecksTrue'
BY DEF ChecksTrue, Acceptable

(* The clock may move between any two steps.                               *)
LEMMA ClockChecked ==
  ASSUME IInv, ChecksTrue, now' \in {now, now + 1},
         UNCHANGED <<heap, pc, args, jwt_valid, ear, submods_js>>
  PROVE  ChecksTrue'
<1>1. now \in Int /\ (args # NULL => args.since \in Int)
  BY MaxTimeAssumption DEF IInv, TypeOK, Request
<1>2. args # NULL => args.since..now \subseteq args.since..now'
  BY <1>1
<1>3. args # NULL /\ Acceptable(args)' => Acceptable(args)
  BY <1>2 DEF Acceptable
<1>4. (jwt_valid # NULL \/ pc \in Steps) => args # NULL
  BY VerifyFacts DEF LocalsMatchStep, Steps
<1>5. args # NULL => args.since <= now'
  BY <1>1 DEF ChecksTrue
<1>6. jwt_valid # NULL => heap[jwt_valid].now \in args.since..now'
  BY <1>2, <1>4 DEF ChecksTrue
<1>7. pc \in {"validate_profile", "jwt_get_grants_json", "json_loads"} =>
        \E time \in args.since..now' : Api!InWindow(args.token, time)
  BY <1>2, <1>4 DEF ChecksTrue, Steps
<1>8. pc = "err" /\ MayFail = {} => ~ Acceptable(args)'
  BY <1>3, <1>4 DEF ChecksTrue, Steps
<1> QED
  BY <1>5, <1>6, <1>7, <1>8 DEF ChecksTrue, Api!InWindow

(* Each check finds out what it is there for.                              *)
LEMMA CallChecked ==
  ASSUME IInv, NEW h \in Handle, NEW t \in Token, NEW k \in Key, NEW a \in Alg,
         NEW buf, ear_jwt_verify(h, t, k, a, buf)
  PROVE  ChecksTrue'
<1>1. jwt_valid' = NULL /\ ear' = NULL
  BY IdleFacts DEF ear_jwt_verify, At
<1>2. args'.since = now' /\ args'.alg = a /\ now' \in Int
  <2>1. now \in Int
    BY DEF IInv, TypeOK
  <2> QED
    BY <2>1 DEF ear_jwt_verify
<1>3. \/ pc' = "jwt_valid_new" /\ a \in KnownAlg
      \/ pc' = "err" /\ a \notin KnownAlg
  BY DEF ear_jwt_verify, GotoErr
<1> QED
  BY <1>1, <1>2, <1>3 DEF ChecksTrue, Acceptable

(* The validation object holds a time inside the call.                     *)
LEMMA NewValidatorChecked ==
  ASSUME IInv, ChecksTrue, NewValidator
  PROVE  ChecksTrue'
<1>1. /\ pc = "jwt_valid_new" /\ args \in Request
      /\ ear = NULL /\ jwt_valid = NULL
      /\ UNCHANGED <<now, args, ear>>
  BY VerifyFacts DEF NewValidator, At, Steps, LocalsMatchStep
<1>2. CASE OutOfMemory("jwt_valid_new") /\ pc' = "err"
           /\ UNCHANGED <<heap, jwt_valid>>
  BY <1>1, <1>2, ErrChecked DEF OutOfMemory
<1>3. ASSUME NEW p \in Pick(FreeAddr),
             heap' = [heap EXCEPT ![p] = ValidBlock(args.alg, now)],
             jwt_valid' = p, pc' = "ear_new"
      PROVE  ChecksTrue'
  <2>1. heap'[p] = ValidBlock(args.alg, now)
    BY <1>3, PickFact DEF IInv, TypeOK
  <2>2. now \in Int /\ args.since \in Int /\ args # NULL
    BY <1>1, NullAssumption DEF IInv, TypeOK, Request
  <2>3. args.since <= now /\ args.alg \in KnownAlg
    BY <1>1, <2>2 DEF ChecksTrue, Steps
  <2> QED
    BY <1>1, <1>3, <2>1, <2>2, <2>3 DEF ChecksTrue, ValidBlock
<1> QED
  BY <1>2, <1>3 DEF NewValidator, GotoErr

(* Of the objects there are, only the one that is written to changes.      *)
LEMMA ObjectsKept ==
  ASSUME IInv, NEW p \in Addr, ~ Allocated(p), p # NULL
  PROVE  /\ jwt_valid # p /\ submods_js # p /\ ear # p
         /\ ear # NULL => heap[ear].jwt # p
  BY LocalsAre

(* A new ear_t holds no token yet.                                         *)
LEMMA EarNewChecked ==
  ASSUME IInv, ChecksTrue, ear_new
  PROVE  ChecksTrue'
<1>1. /\ pc = "ear_new" /\ args \in Request /\ ear = NULL
      /\ jwt_valid \in Addr
      /\ UNCHANGED <<now, args, jwt_valid>>
  BY VerifyFacts DEF ear_new, At, Steps, LocalsMatchStep
<1>2. CASE OutOfMemory("ear_new") /\ pc' = "err" /\ UNCHANGED <<heap, ear>>
  BY <1>1, <1>2, ErrChecked DEF OutOfMemory
<1>3. ASSUME NEW p \in Pick(FreeAddr), heap' = [heap EXCEPT ![p] = FreshEar],
             ear' = p, pc' = "jwt_decode"
      PROVE  ChecksTrue'
  <2>1. heap'[p].jwt = NULL /\ heap'[jwt_valid] = heap[jwt_valid]
    BY <1>1, <1>3, PickFact, ObjectsKept
       DEF IInv, TypeOK, FreshEar, EarBlock
  <2> QED
    BY <1>1, <1>3, <2>1 DEF ChecksTrue, Steps
<1> QED
  BY <1>2, <1>3 DEF ear_new, GotoErr

(* A jwt_t holds the token of the call, signed with its key.               *)
LEMMA DecodeChecked ==
  ASSUME IInv, ChecksTrue, Decode
  PROVE  ChecksTrue'
<1>1. /\ pc = "jwt_decode" /\ args \in Request
      /\ ear \in Addr /\ heap[ear] = EarBlock(NULL, NULL)
      /\ jwt_valid \in Addr /\ heap[jwt_valid].kind = "valid"
      /\ UNCHANGED <<now, args, jwt_valid, ear>>
  BY VerifyFacts DEF Decode, At, Steps, LocalsMatchStep
<1>2. CASE /\ OutOfMemory("jwt_decode") \/ ~ Decodes(args.token, args.key)
           /\ pc' = "err" /\ UNCHANGED heap
  BY <1>1, <1>2, ErrChecked DEF OutOfMemory, Decodes, Acceptable
<1>3. ASSUME NEW p \in Pick(FreeAddr),
             heap' = [heap EXCEPT ![p] = JwtBlock(args.token), ![ear].jwt = p],
             Decodes(args.token, args.key), pc' = "jwt_validate"
      PROVE  ChecksTrue'
  <2>1. p \in Addr /\ ~ Allocated(p) /\ p # NULL /\ p # ear /\ p # jwt_valid
    BY PickFact, ObjectsKept
  <2>2. jwt_valid # ear
    BY <1>1 DEF EarBlock
  <2>3. /\ heap'[ear].jwt = p
        /\ heap'[p] = JwtBlock(args.token)
        /\ heap'[jwt_valid] = heap[jwt_valid]
    BY <1>1, <1>3, <2>1, <2>2 DEF IInv, TypeOK, EarBlock
  <2>4. args.alg \in KnownAlg
    BY <1>1 DEF ChecksTrue, Steps
  <2> QED
    BY <1>1, <1>3, <2>3, <2>4 DEF ChecksTrue, JwtBlock, Decodes
<1> QED
  BY <1>2, <1>3 DEF Decode, GotoErr

(* Validation compares algorithm, headers and a time inside the call.      *)
LEMMA ValidateChecked ==
  ASSUME IInv, ChecksTrue, Validate
  PROVE  ChecksTrue'
<1>1. /\ pc = "jwt_validate" /\ args \in Request /\ args # NULL
      /\ ear \in Addr /\ heap[ear].jwt \in Addr
      /\ heap[ear].kind = "ear" /\ heap[heap[ear].jwt].kind = "jwt"
      /\ jwt_valid \in Addr /\ heap[jwt_valid].kind = "valid"
      /\ UNCHANGED <<now, args, ear>>
  <2>1. pc = "jwt_validate" /\ UNCHANGED <<now, args, ear>>
    BY DEF Validate, At
  <2>2. heap[ear] = EarBlock(heap[ear].jwt, NULL)
    BY <2>1, VerifyFacts
  <2>3. heap[ear].kind = "ear"
    BY <2>2 DEF EarBlock
  <2> QED
    BY <2>1, <2>3, VerifyFacts, NullAssumption DEF Steps
<1>2. /\ heap[heap[ear].jwt].token = args.token
      /\ args.token.signer = args.key
      /\ heap[jwt_valid].alg = args.alg
      /\ heap[jwt_valid].now \in args.since..now
      /\ args.alg \in KnownAlg
  BY <1>1, NullAssumption DEF ChecksTrue, Steps
<1>3. CASE /\ ~ Validates(args.token, heap[jwt_valid])
           /\ pc' = "err" /\ UNCHANGED <<heap, jwt_valid>>
  <2>1. ~ Acceptable(args)
    BY <1>2, <1>3 DEF Validates, Acceptable
  <2> QED
    BY <1>1, <1>3, <2>1, ErrChecked
<1>4. CASE /\ Validates(args.token, heap[jwt_valid])
           /\ heap' = Released({jwt_valid}) /\ jwt_valid' = NULL
           /\ pc' = "validate_profile"
  <2>1. /\ heap'[ear] = heap[ear]
        /\ heap'[heap[ear].jwt] = heap[heap[ear].jwt]
    BY <1>1, <1>4 DEF Released
  <2>2. /\ args.token.alg = args.alg /\ args.token.hdrsAgree
        /\ Api!InWindow(args.token, heap[jwt_valid].now)
    BY <1>2, <1>4 DEF Validates, Api!InWindow
  <2> QED
    BY <1>1, <1>2, <1>4, <2>1, <2>2 DEF ChecksTrue
<1> QED
  BY <1>2, <1>3, <1>4 DEF Validate, GotoErr, AfterValidate

(* Only the EAR profile passes.                                            *)
LEMMA ValidateProfileChecked ==
  ASSUME IInv, ChecksTrue, validate_profile
  PROVE  ChecksTrue'
<1>1. /\ pc = "validate_profile" /\ args \in Request
      /\ ear \in Addr /\ heap[ear].jwt \in Addr
      /\ UNCHANGED <<heap, now, args, jwt_valid, ear, submods_js>>
  BY VerifyFacts DEF validate_profile, At, Steps
<1>2. heap[heap[ear].jwt].token = args.token
  BY <1>1, NullAssumption DEF ChecksTrue
<1>3. CASE pc' = "err" /\ args.token.profile # EAR_PROFILE
  BY <1>1, <1>3, ErrChecked DEF Acceptable
<1>4. CASE pc' = "jwt_get_grants_json" /\ args.token.profile = EAR_PROFILE
  BY <1>1, <1>4 DEF ChecksTrue, Steps
<1>5. NULL # EAR_PROFILE
  BY NullAssumption
<1> QED
  BY <1>2, <1>3, <1>4, <1>5 DEF validate_profile, GotoErr, Matches

(* The text is that of the token's own submods.                            *)
LEMMA GetGrantsChecked ==
  ASSUME IInv, ChecksTrue, GetGrants
  PROVE  ChecksTrue'
<1>1. /\ pc = "jwt_get_grants_json" /\ args \in Request
      /\ ear \in Addr /\ heap[ear].jwt \in Addr
      /\ jwt_valid = NULL
      /\ UNCHANGED <<now, args, jwt_valid, ear>>
  BY VerifyFacts DEF GetGrants, At, Steps, LocalsMatchStep
<1>2. heap[heap[ear].jwt].token = args.token
  BY <1>1, NullAssumption DEF ChecksTrue
<1>3. CASE /\ OutOfMemory("jwt_get_grants_json")
                \/ args.token.submods.json = "absent"
           /\ pc' = "err" /\ UNCHANGED heap
  <2>1. MayFail = {} => ~ Acceptable(args)
    BY <1>3 DEF OutOfMemory, Acceptable
  <2> QED
    BY <1>1, <1>3, <2>1, ErrChecked
<1>4. ASSUME NEW p \in Pick(FreeAddr),
             heap' = [heap EXCEPT ![p] = TextBlock(args.token.submods)],
             submods_js' = p, pc' = "json_loads"
      PROVE  ChecksTrue'
  <2>1. p \in Addr /\ p # ear /\ p # heap[ear].jwt
    BY <1>1, PickFact, ObjectsKept, NullAssumption
  <2>2. /\ heap'[ear] = heap[ear]
        /\ heap'[heap[ear].jwt] = heap[heap[ear].jwt]
        /\ heap'[p].value = args.token.submods
    BY <1>1, <1>4, <2>1 DEF IInv, TypeOK, TextBlock
  <2> QED
    BY <1>1, <1>4, <2>2 DEF ChecksTrue, Steps
<1> QED
  BY <1>2, <1>3, <1>4 DEF GetGrants, GotoErr

(* What is no container fails, and success ends the call.                  *)
LEMMA LoadSubmodsChecked ==
  ASSUME IInv, ChecksTrue, LoadSubmods
  PROVE  ChecksTrue'
<1>1. /\ pc = "json_loads" /\ args \in Request
      /\ ear \in Addr /\ heap[ear].jwt \in Addr
      /\ heap[ear].kind = "ear" /\ heap[heap[ear].jwt].kind = "jwt"
      /\ submods_js \in Addr /\ heap[submods_js].kind = "text"
      /\ jwt_valid = NULL
      /\ UNCHANGED <<now, jwt_valid>>
  <2>1. pc = "json_loads" /\ UNCHANGED <<now, jwt_valid>>
    BY DEF LoadSubmods, At
  <2>2. heap[ear] = EarBlock(heap[ear].jwt, NULL) /\ jwt_valid = NULL
    BY <2>1, VerifyFacts DEF LocalsMatchStep
  <2>3. heap[ear].kind = "ear"
    BY <2>2 DEF EarBlock
  <2> QED
    BY <2>1, <2>2, <2>3, VerifyFacts DEF Steps
<1>2. heap[submods_js].value = args.token.submods
  BY <1>1 DEF ChecksTrue
<1>3. CASE /\ OutOfMemory("json_loads") \/ args.token.submods.json = "scalar"
           /\ heap' = Released({submods_js})
           /\ pc' = "err" /\ UNCHANGED <<args, ear>>
  <2>1. MayFail = {} => ~ Acceptable(args)
    BY <1>3 DEF OutOfMemory, Acceptable
  <2>2. /\ heap'[ear] = heap[ear]
        /\ heap'[heap[ear].jwt] = heap[heap[ear].jwt]
    BY <1>1, <1>3 DEF Released
  <2> QED
    BY <1>1, <1>3, <2>1, <2>2 DEF ChecksTrue, Acceptable
<1>4. CASE args' = NULL /\ ear' = NULL /\ pc' = "idle"
  BY <1>1, <1>4, NothingChecked
<1> QED
  BY <1>2, <1>3, <1>4 DEF LoadSubmods, GotoErr, TextFreed

(* What the checks have found stays true.                                  *)
LEMMA NextChecked == IInv /\ ChecksTrue /\ [Next]_vars => ChecksTrue'
<1> SUFFICES ASSUME IInv, ChecksTrue, [Next]_vars PROVE ChecksTrue'
  OBVIOUS
<1>1. CASE CallerStep
  <2>1. ASSUME pc = "idle", pc' \in {"idle", "crashed"},
               UNCHANGED <<args, locals>>
        PROVE  ChecksTrue'
    <3>1. args' = NULL /\ jwt_valid' = NULL /\ ear' = NULL
      BY <2>1, IdleFacts DEF locals
    <3> QED
      BY <2>1, <3>1, NothingChecked
  <2>2. ASSUME NEW h \in Handle, NEW r, NEW buf,
               ear_get_status(h, r, buf) \/ ear_veraison_get_akpub(h, r, buf)
        PROVE  ChecksTrue'
    BY <2>1, <2>2 DEF ear_get_status, ear_veraison_get_akpub, Getter, At, Fails
  <2>3. ASSUME NEW h \in Handle, ear_get_app_recs(h) \/ ear_free(h)
        PROVE  ChecksTrue'
    BY <2>1, <2>3 DEF ear_get_app_recs, ear_free, Getter, At
  <2>4. ASSUME NEW p \in buffers, FreeBuffer(p) PROVE ChecksTrue'
    BY <2>1, <2>4 DEF FreeBuffer, At
  <2> QED
    BY <1>1, <2>2, <2>3, <2>4, CallChecked DEF CallerStep
<1>2. CASE VerifyStep
  <2>1. CASE VerifyFails
    <3>1. /\ args' = NULL /\ jwt_valid' = NULL /\ ear' = NULL /\ pc' = "idle"
      BY <2>1 DEF VerifyFails
    <3> QED
      BY <3>1, NothingChecked
  <2> QED
    BY <1>2, <2>1, NewValidatorChecked, EarNewChecked, DecodeChecked,
       ValidateChecked, ValidateProfileChecked, GetGrantsChecked,
       LoadSubmodsChecked DEF VerifyStep
<1>3. CASE Tick \/ Crashed \/ UNCHANGED vars
  <2>1. /\ now' \in {now, now + 1}
        /\ UNCHANGED <<heap, pc, args, jwt_valid, ear, submods_js>>
    BY <1>3 DEF Tick, Crashed, vars, locals
  <2> QED
    BY <2>1, ClockChecked
<1> QED
  BY <1>1, <1>2, <1>3 DEF Next

-----------------------------------------------------------------------------
(* Messages                                                                *)

(* Whatever is reported is a message, and an empty one comes from          *)
(* ear_jwt_verify only.                                                    *)
Reported == e \in Messages /\ FailureReported

(* A getter that fails reports one of its messages.                        *)
LEMMA GetterReports ==
  ASSUME Reported, NEW h \in Handle, NEW r, NEW buf \in {NULL, Junk},
         ear_get_status(h, r, buf) \/ ear_veraison_get_akpub(h, r, buf)
  PROVE  Reported'
<1>1. UNCHANGED e
  BY DEF ear_get_status, ear_veraison_get_akpub, Getter, locals
<1>2. ASSUME err_msg' \in (Messages \ {""}) \cup {NULL} PROVE Reported'
  BY <1>1, <1>2, JunkAssumption DEF Reported, FailureReported
<1>3. ASSUME result'.ok PROVE Reported'
  BY <1>1, <1>3 DEF Reported, FailureReported
<1>4. CASE ear_get_status(h, r, buf)
  <2>1. \/ result' = Outcome("status", h, r, TRUE, tiers[Recs(h)[r].status])
        \/ err_msg' = Report(buf, "no appraisal record found")
        \/ err_msg' = Report(buf, "ear.status not found")
        \/ err_msg' = Report(buf, "unknown status")
    BY <1>4 DEF ear_get_status, Fails
  <2>2. CASE result' = Outcome("status", h, r, TRUE, tiers[Recs(h)[r].status])
    BY <1>3, <2>2 DEF Outcome
  <2>3. CASE result' # Outcome("status", h, r, TRUE, tiers[Recs(h)[r].status])
    <3>1. err_msg' \in (Messages \ {""}) \cup {NULL}
      BY <2>1, <2>3 DEF Report, Messages
    <3> QED
      BY <1>2, <3>1
  <2> QED
    BY <2>2, <2>3
<1>5. CASE ear_veraison_get_akpub(h, r, buf)
  <2> DEFINE key == Decoded(Recs(h)[r].attestation.akpub)
  <2>1. \/ result' = Outcome("akpub", h, r, TRUE, key)
        \/ err_msg' = Report(buf, "no appraisal record found")
        \/ err_msg' = Report(buf, "key-attestation not found")
        \/ err_msg' = Report(buf, "akpub not found")
        \/ err_msg' = Report(buf, "base64 decoding failed")
    BY <1>5 DEF ear_veraison_get_akpub, Fails
  <2>2. CASE result' = Outcome("akpub", h, r, TRUE, key)
    BY <1>3, <2>2 DEF Outcome
  <2>3. CASE result' # Outcome("akpub", h, r, TRUE, key)
    <3>1. err_msg' \in (Messages \ {""}) \cup {NULL}
      BY <2>1, <2>3 DEF Report, Messages
    <3> QED
      BY <1>2, <3>1
  <2> QED
    BY <2>2, <2>3
<1> QED
  BY <1>4, <1>5

(* Between its call and its return ear_jwt_verify only has messages ready. *)
LEMMA VerifyReports ==
  ASSUME IInv, Reported, VerifyStep
  PROVE  Reported'
<1>1. CASE VerifyFails
  <2>1. e' \in Messages
    BY <1>1 DEF VerifyFails, Messages
  <2>2. result'.op = "verify" /\ err_msg' \in {NULL, e} /\ e # Junk
    BY <1>1, JunkAssumption DEF VerifyFails, Report, Outcome, Reported
  <2> QED
    BY <2>1, <2>2 DEF Reported, FailureReported
<1>2. CASE ~ VerifyFails
  <2> DEFINE NonFinal == \/ NewValidator \/ ear_new \/ Decode \/ Validate
                         \/ validate_profile \/ GetGrants \/ LoadSubmods
  <2>1. NonFinal
    BY <1>2 DEF VerifyStep
  <2>2. pc \in Steps
    BY <2>1 DEF NewValidator, ear_new, Decode, Validate, validate_profile,
                GetGrants, LoadSubmods, At, Steps
  <2>3. args # NULL
    BY <2>2, VerifyFacts, NullAssumption
  <2>4. args' = args \/ result'.ok
    <3>1. CASE LoadSubmods
      <4>1. \/ args' = args
            \/ result' = Outcome("verify", args.h, NULL, TRUE, NULL)
        BY <3>1 DEF LoadSubmods
      <4> QED
        BY <4>1 DEF Outcome
    <3>2. CASE ~ LoadSubmods
      BY <2>1, <3>2 DEF NewValidator, ear_new, Decode, Validate,
                        validate_profile, GetGrants
    <3> QED
      BY <3>1, <3>2
  <2>5. \/ UNCHANGED e
        \/ e' \in {"", "cannot initialise JWT validation object",
                   "cannot initialise the EAR object",
                   "cannot verify EAR JWT", "cannot validate EAR JWT"}
    BY <2>1 DEF NewValidator, ear_new, Decode, Validate, validate_profile,
                GetGrants, LoadSubmods, GotoErr
  <2>6. e' \in Messages
    BY <2>5 DEF Messages, Reported
  <2> QED
    BY <2>3, <2>4, <2>6 DEF Reported, FailureReported
<1> QED
  BY <1>1, <1>2

(* And so does everybody.                                                  *)
LEMMA ReportedKept == IInv /\ Reported /\ [Next]_vars => Reported'
<1> SUFFICES ASSUME IInv, Reported, [Next]_vars PROVE Reported'
  OBVIOUS
<1>q. ASSUME UNCHANGED <<e, args, err_msg, result>> PROVE Reported'
  BY <1>q DEF Reported, FailureReported
<1>k. ASSUME UNCHANGED e, result'.ok PROVE Reported'
  BY <1>k DEF Reported, FailureReported
<1>1. ASSUME NEW h \in Handle, NEW t \in Token, NEW k \in Key, NEW a \in Alg,
             NEW buf, ear_jwt_verify(h, t, k, a, buf)
      PROVE  Reported'
  <2>1. result'.ok
    BY <1>1 DEF ear_jwt_verify, NoOutcome, Outcome
  <2>2. e' \in {"", "unknown JWT algorithm"}
    BY <1>1 DEF ear_jwt_verify, GotoErr
  <2> QED
    BY <2>1, <2>2 DEF Messages, Reported, FailureReported
<1>2. ASSUME NEW h \in Handle, ear_get_app_recs(h) PROVE Reported'
  <2>1. UNCHANGED <<e, args>>
    BY <1>2 DEF ear_get_app_recs, Getter, locals
  <2>2. UNCHANGED <<err_msg, result>> \/ result'.ok
    BY <1>2 DEF ear_get_app_recs, Outcome
  <2> QED
    BY <1>q, <1>k, <2>1, <2>2
<1>3. ASSUME NEW h \in Handle, ear_free(h) PROVE Reported'
  BY <1>3, <1>k DEF ear_free, locals, Outcome
<1>4. ASSUME NEW p \in buffers, FreeBuffer(p) PROVE Reported'
  BY <1>4, <1>q DEF FreeBuffer, locals
<1>5. CASE Tick \/ Crashed \/ UNCHANGED vars
  BY <1>5, <1>q DEF Tick, Crashed, vars, locals
<1> QED
  BY <1>1, <1>2, <1>3, <1>4, <1>5, GetterReports, VerifyReports
     DEF Next, CallerStep

(* A call that fails has written to the error buffer, and a getter has     *)
(* written something to be read.                                           *)
THEOREM FailuresAlwaysReported == Spec => []FailureReported
<1>1. Init => Reported
  BY DEF Init, Reported, Messages, FailureReported
<1>2. Reported => FailureReported
  BY DEF Reported
<1> QED
  BY <1>1, <1>2, ReportedKept, AlwaysIInv, PTL DEF Spec

-----------------------------------------------------------------------------
(* Claims-sets                                                             *)

(* A token is not changed by caching its own records.                      *)
LEMMA SameRecords ==
  ASSUME NEW t \in Token
  PROVE  [t EXCEPT !.submods.recs = t.submods.recs] = t
<1>1. PICK json, recs : t.submods = [json |-> json, recs |-> recs]
  BY FieldsAssumption
<1>2. PICK signer, alg, nbf, exp, hdrsAgree, profile, submods :
        t = [signer |-> signer, alg |-> alg, nbf |-> nbf, exp |-> exp,
             hdrsAgree |-> hdrsAgree, profile |-> profile,
             submods |-> submods]
  <2> WITNESS t.signer, t.alg, t.nbf, t.exp, t.hdrsAgree, t.profile, t.submods
  <2> QED
    BY FieldsAssumption
<1>3. submods = [json |-> json, recs |-> recs] /\ t.submods.recs = recs
  <2>1. t.submods = submods
    BY <1>2
  <2> QED
    BY <1>1, <2>1
<1>4. [submods EXCEPT !.recs = recs] = submods
  BY <1>3
<1>5. [t EXCEPT !.submods = submods] = t
  BY <1>2
<1>6. t.submods = submods
  BY <1>2
<1> QED
  BY <1>3, <1>4, <1>5, <1>6

(* An open handle stands for one token.                                    *)
LEMMA ClaimsFact ==
  ASSUME IInv, RecordsMatch, NEW h \in Handle, pear[h] # NULL
  PROVE  \E t \in Token : /\ t = heap[heap[pear[h]].jwt].token
                          /\ ClaimsOf(pear[h]) = [token |-> t]
                          /\ ClaimsOf(pear[h]) # NULL
                          /\ Recs(h) = t.submods.recs
<1> DEFINE t == heap[heap[pear[h]].jwt].token
<1>1. t \in Token
  <2>1. heap[pear[h]].jwt \in Addr /\ heap[heap[pear[h]].jwt].kind = "jwt"
    BY HandleParts, VerifyFacts
  <2>2. heap[heap[pear[h]].jwt] \in Block
    BY <2>1 DEF IInv, TypeOK
  <2> QED
    BY <2>1, <2>2, BlockContents
<1>2. heap[heap[pear[h]].submods].recs = t.submods.recs
  BY DEF RecordsMatch
<1>3. ClaimsOf(pear[h]) = [token |-> [t EXCEPT !.submods.recs =
                                        heap[heap[pear[h]].submods].recs]]
  BY DEF ClaimsOf
<1>4. Recs(h) = heap[heap[pear[h]].submods].recs
  BY DEF Recs
<1> HIDE DEF t
<1>5. ClaimsOf(pear[h]) = [token |-> t]
  BY <1>1, <1>2, <1>3, SameRecords
<1>6. [token |-> t] \in [token : Token]
  BY <1>1
<1> QED
  BY <1>1, <1>2, <1>4, <1>5, <1>6, NullAssumption DEF t

(* It goes on to stand for it.                                             *)
LEMMA ClaimsKept ==
  ASSUME IInv, [Next]_vars, NEW h \in Handle, pear'[h] = pear[h]
  PROVE  /\ ClaimsOf(pear[h])' = ClaimsOf(pear[h])
         /\ pear[h] # NULL =>
              /\ heap'[heap'[pear[h]].jwt] = heap[heap[pear[h]].jwt]
              /\ heap'[heap'[pear[h]].submods] = heap[heap[pear[h]].submods]
<1>1. CASE pear[h] = NULL
  BY <1>1 DEF ClaimsOf
<1>2. CASE pear[h] # NULL
  <2>1. \A a \in EarParts(pear[h]) : heap'[a] = heap[a]
    BY <1>2, OwnedKept
  <2>2. {pear[h], heap[pear[h]].jwt, heap[pear[h]].submods}
          \subseteq EarParts(pear[h])
    BY <1>2, HandleParts, VerifyFacts, NullAssumption DEF EarParts
  <2>3. /\ heap'[pear[h]] = heap[pear[h]]
        /\ heap'[heap[pear[h]].jwt] = heap[heap[pear[h]].jwt]
        /\ heap'[heap[pear[h]].submods] = heap[heap[pear[h]].submods]
    BY <2>1, <2>2
  <2> QED
    BY <1>2, <2>3 DEF ClaimsOf
<1> QED
  BY <1>1, <1>2

(* What a call that succeeds hands out.                                    *)
LEMMA Loaded ==
  ASSUME IInv, ChecksTrue, LoadSubmods, pc' # "err"
  PROVE  /\ args \in Request
         /\ pear' = [pear EXCEPT ![args.h] = ear]
         /\ pear[args.h] = NULL /\ ear \in Addr
         /\ heap'[heap'[ear].jwt].token = args.token
         /\ heap'[heap'[ear].submods].recs = args.token.submods.recs
         /\ args.token.submods.json = "container"
         /\ result' = Outcome("verify", args.h, NULL, TRUE, NULL)
         /\ args' = NULL
<1>1. pc = "json_loads" /\ args \in Request
  BY VerifyFacts DEF LoadSubmods, At, Steps
<1>2. /\ ear \in Addr /\ heap[ear] = EarBlock(heap[ear].jwt, NULL)
      /\ heap[ear].jwt \in Addr /\ heap[heap[ear].jwt].kind = "jwt"
      /\ submods_js \in Addr /\ heap[submods_js].kind = "text"
  BY <1>1, VerifyFacts
<1>3. /\ heap[submods_js].value = args.token.submods
      /\ heap[heap[ear].jwt].token = args.token
  BY <1>1, <1>2, NullAssumption DEF ChecksTrue
<1>4. PICK p \in Pick(FreeAddr) :
        heap' = [Released({submods_js}) EXCEPT
                   ![p] = JsonBlock(args.token.submods.recs),
                   ![ear].submods = p]
  BY <1>3 DEF LoadSubmods, GotoErr, TextFreed
<1>5. /\ pear' = [pear EXCEPT ![args.h] = ear]
      /\ result' = Outcome("verify", args.h, NULL, TRUE, NULL)
      /\ args.token.submods.json = "container" /\ args' = NULL
  BY <1>3 DEF LoadSubmods, GotoErr
<1>6. pear[args.h] = NULL
  BY <1>1, VerifyFacts, NullAssumption DEF LocalsMatchStep
<1>7. /\ p \in Addr /\ p # ear /\ p # heap[ear].jwt /\ p # NULL
      /\ p # submods_js
  BY <1>2, PickFact, ObjectsKept, NullAssumption
<1>8. ear # submods_js /\ heap[ear].jwt # submods_js /\ ear # heap[ear].jwt
  BY <1>2 DEF EarBlock
<1>9. /\ heap'[ear] = EarBlock(heap[ear].jwt, p)
      /\ heap'[p] = JsonBlock(args.token.submods.recs)
      /\ heap'[heap[ear].jwt] = heap[heap[ear].jwt]
  <2>1. /\ Released({submods_js})[ear] = EarBlock(heap[ear].jwt, NULL)
        /\ Released({submods_js})[heap[ear].jwt] = heap[heap[ear].jwt]
        /\ DOMAIN Released({submods_js}) = Addr
    BY <1>2, <1>8 DEF Released
  <2>2. [EarBlock(heap[ear].jwt, NULL) EXCEPT !.submods = p]
          = EarBlock(heap[ear].jwt, p)
    BY DEF EarBlock
  <2> HIDE DEF Released
  <2> QED
    BY <1>2, <1>4, <1>7, <1>8, <2>1, <2>2
<1>a. heap'[ear].jwt = heap[ear].jwt /\ heap'[ear].submods = p
      /\ heap'[p].recs = args.token.submods.recs
  BY <1>9 DEF EarBlock, JsonBlock
<1> QED
  BY <1>1, <1>2, <1>3, <1>5, <1>6, <1>9, <1>a

(* Only cache_submods, when it succeeds, makes a handle of a NULL pointer.  *)
LEMMA HandleOpened ==
  ASSUME IInv, [Next]_vars, NEW h \in Handle, pear[h] = NULL, pear'[h] # NULL
  PROVE  LoadSubmods /\ pc' # "err" /\ h = args.h
<1>1. pear \in [Handle -> Pointer]
  BY DEF IInv, TypeOK
<1>2. ~ CallerStep
  <2>1. ASSUME NEW g \in Handle, ear_free(g) PROVE FALSE
    BY <1>1, <2>1 DEF ear_free
  <2>2. ASSUME NEW g \in Handle, NEW t, NEW k, NEW a, NEW buf,
               ear_jwt_verify(g, t, k, a, buf)
        PROVE  FALSE
    BY <2>2 DEF ear_jwt_verify, caller
  <2>3. ASSUME NEW g, NEW r, NEW buf, \/ ear_get_status(g, r, buf)
                                     \/ ear_veraison_get_akpub(g, r, buf)
                                     \/ ear_get_app_recs(g)
        PROVE  FALSE
    <3>1. Getter(g)
      BY <2>3 DEF ear_get_status, ear_veraison_get_akpub, ear_get_app_recs
    <3> QED
      BY <3>1 DEF Getter
  <2>4. ASSUME NEW p, FreeBuffer(p) PROVE FALSE
    BY <2>4 DEF FreeBuffer
  <2> QED
    BY <2>1, <2>2, <2>3, <2>4 DEF CallerStep
<1>3. ~ (Tick \/ Crashed \/ UNCHANGED vars)
  BY DEF Tick, Crashed, vars, caller
<1>4. VerifyStep
  BY <1>2, <1>3 DEF Next
<1>5. LoadSubmods
  BY <1>4 DEF VerifyStep, NewValidator, ear_new, Decode, Validate,
              validate_profile, GetGrants, VerifyFails, caller
<1> QED
  BY <1>1, <1>5 DEF LoadSubmods, GotoErr

(* It hands out records and token of the same claims-set.                  *)
LEMMA RecordsKept ==
  ASSUME IInv, ChecksTrue, RecordsMatch, [Next]_vars
  PROVE  RecordsMatch'
<1> SUFFICES ASSUME NEW h \in Handle, pear'[h] # NULL
             PROVE  heap'[heap'[pear'[h]].submods].recs
                      = heap'[heap'[pear'[h]].jwt].token.submods.recs
  BY DEF RecordsMatch
<1>1. CASE pear[h] = NULL
  <2>1. LoadSubmods /\ pc' # "err" /\ h = args.h
    BY <1>1, HandleOpened
  <2>2. pear'[h] = ear
    BY <2>1, Loaded DEF IInv, TypeOK
  <2> QED
    BY <2>1, <2>2, Loaded
<1>2. CASE pear[h] # NULL
  <2>1. pear'[h] = pear[h]
    BY <1>2, OwnedKept
  <2> QED
    BY <1>2, <2>1, ClaimsKept DEF RecordsMatch
<1> QED
  BY <1>1, <1>2

(* All of this is invariant.                                               *)
LEMMA AlwaysChecked == Spec => [](IInv /\ ChecksTrue /\ RecordsMatch)
<1>1. Init => ChecksTrue /\ RecordsMatch
  BY NullAssumption DEF Init, ChecksTrue, RecordsMatch, Steps
<1>2. IInv /\ ChecksTrue /\ RecordsMatch /\ [Next]_vars
        => (ChecksTrue /\ RecordsMatch)'
  BY NextChecked, RecordsKept
<1> QED
  BY <1>1, <1>2, AlwaysIInv, PTL DEF Spec

-----------------------------------------------------------------------------
(* Refinement                                                              *)

(* What EarApi sees of the handles.                                        *)
Claims == [h \in Handle |-> ClaimsOf(pear[h])]

(* What the refinement rests on.                                           *)
Grounds == IInv /\ ChecksTrue /\ RecordsMatch

(* Handles that are left alone keep their claims-sets.                     *)
LEMMA ClaimsQuiet ==
  ASSUME IInv, [Next]_vars, pear' = pear
  PROVE  Claims' = Claims
<1>1. \A h \in Handle : ClaimsOf(pear[h])' = ClaimsOf(pear[h])
  BY ClaimsKept
<1> QED
  BY <1>1 DEF Claims

(* Both modules decode by the same definition.                             *)
LEMMA SameDecoding ==
  ASSUME NEW s
  PROVE  Api!DecodedLen(s) = DecodedLen(s) /\ Api!Decoded(s) = Decoded(s)
BY DEF Api!DecodedLen, Api!Decoded, Api!PrefixLen, Api!IsPrefixLen,
       Api!IsDigit, Api!CharAt, Api!ByteAt, Api!Six, Api!pr2six,
       DecodedLen, Decoded, PrefixLen, IsPrefixLen,
       IsDigit, CharAt, ByteAt, Six, pr2six

(* A call may be made whenever EarApi lets it be made.                     *)
LEMMA CallImplements ==
  ASSUME Grounds, [Next]_vars,
         NEW h \in Handle, NEW t \in Token, NEW k \in Key, NEW a \in Alg,
         NEW buf, ear_jwt_verify(h, t, k, a, buf)
  PROVE  Api!CallVerify
<1>1. args = NULL
  BY IdleFacts DEF ear_jwt_verify, At, Grounds
<1>2. args' \in Api!Request /\ args'.since = now /\ args'.h = h
  <2>1. now \in 1..MaxTime
    BY DEF Grounds, IInv, TypeOK
  <2> QED
    BY <2>1 DEF ear_jwt_verify, Api!Request
<1>3. Claims[h] = NULL
  BY DEF ear_jwt_verify, Claims, ClaimsOf
<1>4. Claims' = Claims
  BY ClaimsQuiet DEF Grounds, ear_jwt_verify, caller
<1>5. result' = Api!NoOutcome /\ now' = now
  BY DEF ear_jwt_verify, NoOutcome, Outcome, Api!NoOutcome, Api!Outcome
<1> QED
  BY <1>1, <1>2, <1>3, <1>4, <1>5 DEF Api!CallVerify, Claims

(* A token that is accepted is genuine, and its claims-set is handed out.  *)
LEMMA AcceptImplements ==
  ASSUME Grounds, [Next]_vars, LoadSubmods, pc' # "err"
  PROVE  Api!Accept
<1>1. IInv /\ ChecksTrue
  BY DEF Grounds
<1>2. pc = "json_loads" /\ args # NULL /\ now' = now
  BY Loaded, <1>1, NullAssumption DEF LoadSubmods, At
<1>3. Api!Genuine(args)
  <2>1. ear # NULL /\ heap[ear].jwt # NULL
    BY <1>1, <1>2, VerifyFacts, NullAssumption
  <2> QED
    BY <1>1, <1>2, <2>1, Loaded
       DEF ChecksTrue, Steps, Api!Genuine, Api!EAR_PROFILE, EAR_PROFILE
<1>4. Claims' = [Claims EXCEPT ![args.h] = [token |-> args.token]]
  <2>1. PICK g \in Handle, t \in Token : g = args.h /\ t = args.token
    BY <1>1, Loaded DEF Request
  <2>2. pear'[g] = ear /\ ear # NULL
    BY <1>1, <2>1, Loaded, NullAssumption DEF IInv, TypeOK
  <2>3. ClaimsOf(pear[g])' = [token |-> t]
    <3>1. ClaimsOf(pear[g])' =
            [token |-> [t EXCEPT !.submods.recs = t.submods.recs]]
      BY <1>1, <2>1, <2>2, Loaded DEF ClaimsOf
    <3> QED
      BY <3>1, SameRecords
  <2>4. ASSUME NEW h \in Handle, h # g
        PROVE  ClaimsOf(pear[h])' = ClaimsOf(pear[h])
    <3>1. pear'[h] = pear[h]
      BY <1>1, <2>1, <2>4, Loaded DEF IInv, TypeOK
    <3> QED
      BY <1>1, <3>1, ClaimsKept
  <2> QED
    BY <2>1, <2>3, <2>4 DEF Claims
<1>5. /\ result' = Api!Outcome("verify", args.h, NULL, TRUE, NULL)
      /\ args' = NULL
  BY <1>1, Loaded DEF Outcome, Api!Outcome
<1> QED
  BY <1>2, <1>3, <1>4, <1>5 DEF Api!Accept, Claims

(* A call that fails does so whatever EarApi thinks of its token.          *)
LEMMA RejectImplements ==
  ASSUME Grounds, [Next]_vars, VerifyFails
  PROVE  Api!Reject
<1>1. args # NULL
  BY VerifyFacts, NullAssumption DEF Grounds, VerifyFails, At, Steps
<1>2. Claims' = Claims
  BY ClaimsQuiet DEF Grounds, VerifyFails, caller
<1>3. /\ result' = Api!Outcome("verify", args.h, NULL, FALSE, NULL)
      /\ args' = NULL /\ now' = now
  BY DEF VerifyFails, Outcome, Api!Outcome
<1> QED
  BY <1>1, <1>2, <1>3 DEF Api!Reject, Claims

(* Every other step of a call in progress is the implementation's own.     *)
LEMMA StepHidden ==
  ASSUME Grounds, [Next]_vars, VerifyStep, ~ VerifyFails,
         ~ (LoadSubmods /\ pc' # "err")
  PROVE  UNCHANGED Api!apiVars
<1>1. UNCHANGED <<args, result, now, pear>>
  BY DEF VerifyStep, NewValidator, ear_new, Decode, Validate,
         validate_profile, GetGrants, LoadSubmods, GotoErr, caller
<1>2. Claims' = Claims
  BY <1>1, ClaimsQuiet DEF Grounds
<1> QED
  BY <1>1, <1>2 DEF Api!apiVars, Claims

(* The getters see the handle that EarApi sees.                            *)
LEMMA GetterImplements ==
  ASSUME Grounds, [Next]_vars, NEW h \in Handle, Getter(h)
  PROVE  Api!Query(h) /\ Api!Recs(h) = Recs(h)
<1>1. IInv /\ RecordsMatch
  BY DEF Grounds
<1>2. args = NULL /\ pear[h] # NULL /\ UNCHANGED <<now, args, pear>>
  BY <1>1, IdleFacts DEF Getter, At
<1>3. Claims' = Claims
  BY <1>1, <1>2, ClaimsQuiet
<1>4. PICK t \in Token : /\ ClaimsOf(pear[h]) = [token |-> t]
                         /\ ClaimsOf(pear[h]) # NULL
                         /\ Recs(h) = t.submods.recs
  BY <1>1, <1>2, ClaimsFact
<1>5. Claims[h] = ClaimsOf(pear[h])
  BY DEF Claims
<1>6. Api!Query(h)
  BY <1>2, <1>3, <1>4, <1>5 DEF Api!Query, Claims
<1>7. Api!Recs(h) = Claims[h].token.submods.recs
  BY DEF Api!Recs, Claims
<1> QED
  BY <1>4, <1>5, <1>6, <1>7

(* The table of tiers finds what EarApi expects of the status string.      *)
LEMMA GetStatusImplements ==
  ASSUME Grounds, [Next]_vars, NEW h \in Handle, NEW r, NEW buf,
         ear_get_status(h, r, buf)
  PROVE  Api!GetStatus(h, r)
<1>1. Api!Query(h) /\ Api!Recs(h) = Recs(h)
  BY GetterImplements DEF ear_get_status
<1> DEFINE names == {"affirming", "contraindicated", "warning", "none"}
<1>2. DOMAIN tiers = names
  BY DEF tiers
<1>3. {Api!TierName[i] : i \in DOMAIN Api!TierName} = names
  BY DEF Api!TierName
<1>4. \A s \in names : \E i \in DOMAIN Api!TierName :
        Api!TierName[i] = s /\ tiers[s] = i - 1
  BY DEF Api!TierName, tiers, EAR_TIER_NONE, EAR_TIER_AFFIRMING,
         EAR_TIER_WARNING, EAR_TIER_CONTRAINDICATED
<1>5. NULL \notin names
  BY <1>2, NullAssumption
<1> DEFINE status == Recs(h)[r].status
<1> HIDE DEF names
<1>6. CASE /\ r \in DOMAIN Recs(h) /\ status \in names
           /\ result' = Outcome("status", h, r, TRUE, tiers[status])
  <2>1. PICK i \in DOMAIN Api!TierName :
          Api!TierName[i] = status /\ tiers[status] = i - 1
    BY <1>4, <1>6
  <2>2. result' = Api!Outcome("status", h, r, TRUE, i - 1)
    BY <1>6, <2>1 DEF Outcome, Api!Outcome
  <2> QED
    BY <1>1, <1>6, <2>1, <2>2 DEF Api!GetStatus
<1>7. CASE /\ r \in DOMAIN Recs(h) => status \notin names
           /\ result' = Outcome("status", h, r, FALSE, NULL)
  <2>1. result' = Api!Outcome("status", h, r, FALSE, NULL)
    BY <1>7 DEF Outcome, Api!Outcome
  <2> QED
    BY <1>1, <1>3, <1>7, <2>1 DEF Api!GetStatus
<1> QED
  BY <1>2, <1>5, <1>6, <1>7 DEF ear_get_status, Fails

(* The key returned is what EarApi decodes.                                *)
LEMMA GetAkpubImplements ==
  ASSUME Grounds, [Next]_vars, NEW h \in Handle, NEW r, NEW buf,
         ear_veraison_get_akpub(h, r, buf)
  PROVE  Api!GetAkpub(h, r)
<1>1. Api!Query(h) /\ Api!Recs(h) = Recs(h)
  BY GetterImplements DEF ear_veraison_get_akpub
<1> DEFINE attestation == Recs(h)[r].attestation
<1>2. CASE result' = Outcome("akpub", h, r, FALSE, NULL)
  <2>1. result' = Api!Outcome("akpub", h, r, FALSE, NULL)
    BY <1>2 DEF Outcome, Api!Outcome
  <2> QED
    BY <1>1, <2>1 DEF Api!GetAkpub
<1>3. CASE /\ r \in DOMAIN Recs(h)
           /\ attestation # NULL /\ attestation.akpub # NULL
           /\ DecodedLen(attestation.akpub) > 0
           /\ result' = Outcome("akpub", h, r, TRUE, Decoded(attestation.akpub))
  <2>1. /\ result' = Api!Outcome("akpub", h, r, TRUE,
                                 Api!Decoded(attestation.akpub))
        /\ Api!DecodedLen(attestation.akpub) > 0
    BY <1>3, SameDecoding DEF Outcome, Api!Outcome
  <2> QED
    BY <1>1, <1>3, <2>1 DEF Api!GetAkpub
<1> QED
  BY <1>2, <1>3 DEF ear_veraison_get_akpub, Fails

(* The names returned are those of the records, unless the program dies.   *)
LEMMA GetAppRecsImplements ==
  ASSUME Grounds, [Next]_vars, NEW h \in Handle, ear_get_app_recs(h)
  PROVE  Api!GetAppRecs(h) \/ UNCHANGED Api!apiVars
<1>1. Api!Query(h) /\ Api!Recs(h) = Recs(h)
  BY GetterImplements DEF ear_get_app_recs
<1>2. CASE result' = result
  <2>1. Claims' = Claims /\ UNCHANGED <<args, now>>
    BY <1>1 DEF Api!Query, Claims
  <2> QED
    BY <1>2, <2>1 DEF Api!apiVars, Claims
<1>3. CASE result' = Outcome("app_recs", h, NULL, TRUE, DOMAIN Recs(h))
  <2>1. result' = Api!Outcome("app_recs", h, NULL, TRUE, DOMAIN Recs(h))
    BY <1>3 DEF Outcome, Api!Outcome
  <2> QED
    BY <1>1, <2>1 DEF Api!GetAppRecs
<1> QED
  BY <1>2, <1>3 DEF ear_get_app_recs

(* ear_free gives up one claims-set and no other.                          *)
LEMMA FreeImplements ==
  ASSUME Grounds, [Next]_vars, NEW g \in Handle, ear_free(g)
  PROVE  Api!FreeHandle(g)
<1>1. /\ args = NULL /\ UNCHANGED <<args, now>>
      /\ pear' = [pear EXCEPT ![g] = NULL] /\ pear \in [Handle -> Pointer]
  BY IdleFacts DEF ear_free, At, Grounds, IInv, TypeOK
<1>2. Claims' = [Claims EXCEPT ![g] = NULL]
  <2>1. ClaimsOf(pear[g])' = NULL
    BY <1>1 DEF ClaimsOf
  <2>2. ASSUME NEW h \in Handle, h # g
        PROVE  ClaimsOf(pear[h])' = ClaimsOf(pear[h])
    BY <1>1, <2>2, ClaimsKept DEF Grounds
  <2> QED
    BY <2>1, <2>2 DEF Claims
<1>3. result' = Api!Outcome("free", g, NULL, TRUE, NULL)
  BY DEF ear_free, Outcome, Api!Outcome
<1> QED
  BY <1>1, <1>2, <1>3 DEF Api!FreeHandle, Claims

(* Every step is one of EarApi's or changes nothing that EarApi sees.      *)
LEMMA NextImplements ==
  Grounds /\ [Next]_vars => [Api!Next]_(Api!apiVars)
<1> SUFFICES ASSUME Grounds, [Next]_vars
             PROVE  Api!Next \/ UNCHANGED Api!apiVars
  OBVIOUS
<1>1. ASSUME UNCHANGED <<args, result, now, pear>>
      PROVE  UNCHANGED Api!apiVars
  BY <1>1, ClaimsQuiet DEF Grounds, Api!apiVars, Claims
<1>2. CASE CallerStep
  <2>1. ASSUME NEW p, FreeBuffer(p) PROVE UNCHANGED Api!apiVars
    BY <1>1, <2>1 DEF FreeBuffer
  <2> QED
    BY <1>2, <2>1, CallImplements, GetStatusImplements, GetAkpubImplements,
       GetAppRecsImplements, FreeImplements DEF CallerStep, Api!Next
<1>3. CASE VerifyStep
  BY <1>3, AcceptImplements, RejectImplements, StepHidden DEF Api!Next
<1>4. CASE Tick
  <2>1. Claims' = Claims
    BY <1>4, ClaimsQuiet DEF Grounds, Tick, caller
  <2>2. Api!Tick
    BY <1>4, <2>1 DEF Tick, Api!Tick, Claims
  <2> QED
    BY <2>2 DEF Api!Next
<1>5. CASE Crashed \/ UNCHANGED vars
  BY <1>1, <1>5 DEF Crashed, vars, caller
<1> QED
  BY <1>2, <1>3, <1>4, <1>5 DEF Next

(* Every step a caller of the library sees is one that ear.h allows: what  *)
(* EarApi states of calls, tokens, claims-sets and answers.                *)
THEOREM ImplementsApi == Spec => Api!Init /\ [][Api!Next]_(Api!apiVars)
<1>1. Init => Api!Init
  BY DEF Init, Api!Init, ClaimsOf, NoOutcome, Outcome, Api!NoOutcome,
         Api!Outcome
<1>2. Grounds /\ [Next]_vars => [Api!Next]_(Api!apiVars)
  BY NextImplements
<1>3. Spec => []Grounds
  BY AlwaysChecked DEF Grounds
<1> QED
  BY <1>1, <1>2, <1>3, PTL DEF Spec

-----------------------------------------------------------------------------
(* No failure without a cause                                              *)

(* A key that could not be had is not there, as long as its handle is.     *)
Answered ==
  result.op = "akpub" /\ ~ result.ok =>
    /\ result.h \in Handle
    /\ pear[result.h] # NULL => ~ Retrievable(result.h, result.r)

(* The step that fails to get a key, when no allocation fails.             *)
LEMMA AkpubAnswered ==
  ASSUME MayFail = {}, IInv, [Next]_vars, NEW h \in Handle, NEW r, NEW buf,
         ear_veraison_get_akpub(h, r, buf), ~ result'.ok
  PROVE  result'.h = h /\ result'.r = r /\ ~ Retrievable(h, r)
<1> DEFINE attestation == Recs(h)[r].attestation
<1>1. /\ \/ r \notin DOMAIN Recs(h)
         \/ attestation = NULL
         \/ attestation.akpub = NULL
         \/ DecodedLen(attestation.akpub) = 0
      /\ result' = Outcome("akpub", h, r, FALSE, NULL)
  <2>1. result' # Outcome("akpub", h, r, TRUE, Decoded(attestation.akpub))
    BY DEF Outcome
  <2> QED
    BY <2>1 DEF ear_veraison_get_akpub, Fails, OutOfMemory
<1>2. result'.h = h /\ result'.r = r
  BY <1>1 DEF Outcome
<1>3. DecodedLen(attestation.akpub) = 0 =>
        ~ (DecodedLen(attestation.akpub) > 0)
  OBVIOUS
<1> QED
  BY <1>1, <1>2, <1>3, Zenon DEF Retrievable

(* What is asked of a handle that stays open is answered alike.            *)
LEMMA RetrievableKept ==
  ASSUME IInv, [Next]_vars, NEW h \in Handle, NEW r,
         pear[h] # NULL, pear'[h] = pear[h]
  PROVE  Retrievable(h, r)' <=> Retrievable(h, r)
<1>1. heap'[heap'[pear[h]].submods].recs = heap[heap[pear[h]].submods].recs
  BY ClaimsKept
<1>2. Recs(h)' = Recs(h)
  BY <1>1 DEF Recs
<1> QED
  BY <1>2 DEF Retrievable

(* A step either reports something else than a missing key, or fails to    *)
(* get one, or leaves the last answer and the handles as they are.         *)
LEMMA NextAnswers ==
  ASSUME IInv, [Next]_vars
  PROVE  \/ result'.ok \/ result'.op # "akpub"
         \/ \E h \in Handle, r \in AppRec, buf \in {NULL, Junk} :
              ear_veraison_get_akpub(h, r, buf)
         \/ UNCHANGED <<result, pear>>
<1>1. CASE CallerStep
  <2>1. ASSUME NEW h, NEW t, NEW k, NEW a, NEW buf,
               ear_jwt_verify(h, t, k, a, buf)
        PROVE  result'.ok
    BY <2>1 DEF ear_jwt_verify, NoOutcome, Outcome
  <2>2. ASSUME NEW h, NEW r, NEW buf, ear_get_status(h, r, buf)
        PROVE  result'.op # "akpub"
    <3>1. \E ok, val : result' = Outcome("status", h, r, ok, val)
      BY <2>2 DEF ear_get_status, Fails
    <3> QED
      BY <3>1 DEF Outcome
  <2>3. ASSUME NEW h, ear_get_app_recs(h)
        PROVE  result'.ok \/ UNCHANGED <<result, pear>>
    BY <2>3 DEF ear_get_app_recs, Getter, Outcome
  <2>4. ASSUME NEW h, ear_free(h) PROVE result'.ok
    BY <2>4 DEF ear_free, Outcome
  <2>5. ASSUME NEW p, FreeBuffer(p) PROVE UNCHANGED <<result, pear>>
    BY <2>5 DEF FreeBuffer
  <2> QED
    BY <1>1, <2>1, <2>2, <2>3, <2>4, <2>5 DEF CallerStep
<1>2. CASE VerifyStep
  <2>1. CASE VerifyFails
    BY <2>1 DEF VerifyFails, Outcome
  <2>2. CASE LoadSubmods
    <3>1. \/ UNCHANGED <<result, pear>>
          \/ result' = Outcome("verify", args.h, NULL, TRUE, NULL)
      BY <2>2 DEF LoadSubmods
    <3> QED
      BY <3>1 DEF Outcome
  <2> QED
    BY <1>2, <2>1, <2>2 DEF VerifyStep, NewValidator, ear_new, Decode,
       Validate, validate_profile, GetGrants, caller
<1>3. CASE Tick \/ Crashed \/ UNCHANGED vars
  BY <1>3 DEF Tick, Crashed, vars, caller
<1> QED
  BY <1>1, <1>2, <1>3 DEF Next

(* So a missing key stays missing.                                         *)
LEMMA AnsweredKept ==
  ASSUME MayFail = {}, IInv, Answered, [Next]_vars
  PROVE  Answered'
<1>1. CASE result'.ok \/ result'.op # "akpub"
  BY <1>1 DEF Answered
<1>2. ASSUME NEW h \in Handle, NEW r, NEW buf,
             ear_veraison_get_akpub(h, r, buf), ~ result'.ok
      PROVE  Answered'
  <2>1. result'.h = h /\ result'.r = r /\ ~ Retrievable(h, r)
    BY <1>2, AkpubAnswered
  <2>2. pear' = pear /\ pear[h] # NULL
    BY <1>2 DEF ear_veraison_get_akpub, Getter
  <2>3. ~ Retrievable(h, r)'
    BY <2>1, <2>2, RetrievableKept
  <2> QED
    BY <2>1, <2>3 DEF Answered
<1>3. CASE UNCHANGED <<result, pear>> /\ result.op = "akpub" /\ ~ result.ok
  <2>1. PICK h, r : h \in Handle /\ h = result.h /\ r = result.r
    BY <1>3 DEF Answered
  <2>2. pear[h] # NULL => ~ Retrievable(h, r)'
    BY <1>3, <2>1, RetrievableKept DEF Answered
  <2> QED
    BY <1>3, <2>1, <2>2 DEF Answered
<1> QED
  BY <1>1, <1>2, <1>3, NextAnswers

(* While no allocation fails, a call that fails has been given a cause to: *)
(* ear_jwt_verify rejects no token that is acceptable throughout the call, *)
(* and ear_veraison_get_akpub finds every key that is in the claims-set.   *)
THEOREM NoCauselessFailure == ASSUME MayFail = {} PROVE Spec => FailsForCause
<1>1. Grounds /\ Answered /\ [Next]_vars =>
        [/\ args # NULL /\ args' = NULL /\ Acceptable(args) => result'.ok
         /\ result'.op = "akpub" /\ ~ result'.ok /\ pear[result'.h] # NULL
              => ~ Retrievable(result'.h, result'.r)]_vars
  <2> SUFFICES ASSUME Grounds, Answered, [Next]_vars
               PROVE  /\ args # NULL /\ args' = NULL /\ Acceptable(args)
                           => result'.ok
                      /\ (/\ result'.op = "akpub" /\ ~ result'.ok
                          /\ pear[result'.h] # NULL)
                           => ~ Retrievable(result'.h, result'.r)
    OBVIOUS
  <2>1. ASSUME args # NULL, args' = NULL, Acceptable(args)
        PROVE  result'.ok
    <3>1. ~ CallerStep
      <4>1. pc # "idle"
        BY <2>1, IdleFacts DEF Grounds
      <4>2. ASSUME NEW h, NEW t, NEW k, NEW a, NEW buf,
                   ear_jwt_verify(h, t, k, a, buf)
            PROVE  pc = "idle"
        BY <4>2 DEF ear_jwt_verify, At
      <4>3. ASSUME NEW h, NEW r, NEW buf, \/ ear_get_status(h, r, buf)
                                         \/ ear_veraison_get_akpub(h, r, buf)
                                         \/ ear_get_app_recs(h) \/ ear_free(h)
            PROVE  pc = "idle"
        BY <4>3 DEF ear_get_status, ear_veraison_get_akpub, ear_get_app_recs,
                    ear_free, Getter, At
      <4>4. ASSUME NEW p, FreeBuffer(p) PROVE pc = "idle"
        BY <4>4 DEF FreeBuffer, At
      <4> QED
        BY <4>1, <4>2, <4>3, <4>4 DEF CallerStep
    <3>2. VerifyStep
      BY <2>1, <3>1 DEF Next, Tick, Crashed, vars
    <3>3. LoadSubmods \/ VerifyFails
      BY <2>1, <3>2 DEF VerifyStep, NewValidator, ear_new, Decode, Validate,
         validate_profile, GetGrants
    <3>4. ~ VerifyFails
      BY <2>1 DEF VerifyFails, At, Grounds, ChecksTrue
    <3>5. CASE LoadSubmods
      <4>1. result' = Outcome("verify", args.h, NULL, TRUE, NULL)
        BY <2>1, <3>5 DEF LoadSubmods
      <4> QED
        BY <4>1 DEF Outcome
    <3> QED
      BY <3>3, <3>4, <3>5
  <2>2. ASSUME result'.op = "akpub", ~ result'.ok, pear[result'.h] # NULL
        PROVE  ~ Retrievable(result'.h, result'.r)
    <3>1. ASSUME NEW h \in Handle, NEW r, NEW buf,
                 ear_veraison_get_akpub(h, r, buf)
          PROVE  ~ Retrievable(result'.h, result'.r)
      <4>1. result'.h = h /\ result'.r = r /\ ~ Retrievable(h, r)
        BY <2>2, <3>1, AkpubAnswered DEF Grounds
      <4> QED
        BY <4>1
    <3>2. CASE UNCHANGED <<result, pear>>
      BY <2>2, <3>2 DEF Answered
    <3> QED
      BY <2>2, <3>1, <3>2, NextAnswers DEF Grounds
  <2> QED
    BY <2>1, <2>2
<1>2. Init => Answered
  <2>1. NoOutcome.op = "none"
    BY DEF NoOutcome, Outcome
  <2> QED
    BY <2>1 DEF Init, Answered
<1>3. Grounds /\ Answered /\ [Next]_vars => Answered'
  BY AnsweredKept DEF Grounds
<1>4. Spec => []Grounds
  BY AlwaysChecked DEF Grounds
<1> QED
  BY <1>1, <1>2, <1>3, <1>4, PTL DEF Spec, FailsForCause

=============================================================================
