-------------------------- MODULE VerifyToolProof --------------------------
(***************************************************************************)
(* The example program releases what it acquires on every path, passes     *)
(* valid arguments to the library, and prints what is true of the files    *)
(* and the options it was given; names that do not fit are cut and nothing *)
(* else: for any command line, any files, whoever writes to them, any sizes *)
(* of its fields and any heap.                                             *)
(***************************************************************************)
EXTENDS VerifyTool, WellFoundedInduction, TLAPS

Parsing  == {"getopt"}
Reading  == {"fopen", "ftell", "malloc", "fread"}
Verifying == {"verify", "verifying"}
Verdict == {"status", "report"}
Steps == Parsing \cup Reading \cup {"to_cstr"} \cup Verifying \cup Verdict
           \cup {"err", "done", "crashed"}

(* The pointers that are set at each step.                                 *)
PointersMatchStep ==
  /\ pc \in Steps
  /\ pc \in Parsing \cup Verdict \cup {"done"} => ptr = NoPointers
  /\ pc \in Reading => ptr.ear_jwt = NULL /\ ptr.ear_jwt_cstr = NULL
  /\ pc = "to_cstr" => /\ ptr.key # NULL /\ ptr.ear_jwt # NULL
                       /\ ptr.ear_jwt_cstr = NULL
  /\ pc \in Verifying => /\ ptr.key # NULL /\ ptr.ear_jwt # NULL
                         /\ ptr.ear_jwt_cstr # NULL

(* When a call of the library is in progress and the handle is open.       *)
HandleMatchesStep ==
  /\ claims = [h \in {"ear"} |-> claims["ear"]]
  /\ pc \notin Verdict \cup {"verifying", "err"} => claims["ear"] = NULL
  /\ pc # "verifying" => pending = NULL
  /\ pending # NULL => claims["ear"] = NULL

KeyNotEmpty == ptr.key # NULL => heap[ptr.key] # <<>>

(* The inductive invariant.  What "err" releases is told by the pointers,  *)
(* so that ownership needs to know which are set at each step.             *)
IInv == /\ TypeOK /\ BlocksOwned
        /\ PointersMatchStep /\ HandleMatchesStep /\ KeyNotEmpty

-----------------------------------------------------------------------------
(* Memory                                                                  *)

(* Whether no two pointers lead to one block.                              *)
Apart(p) == \A v, w \in Pointers : v # w /\ p[v] # NULL => p[v] # p[w]

Allocated == {a \in Addr : heap[a] # NULL}

(* The blocks that are owned, pointer by pointer.                          *)
LEMMA OwnedIs ==
  ASSUME TypeOK
  PROVE  /\ DOMAIN ptr = Pointers
         /\ Owned = {ptr.key, ptr.ear_jwt, ptr.ear_jwt_cstr, ptr.b} \ {NULL}
         /\ BlocksOwned <=> /\ Allocated = Owned /\ Apart(ptr)
                            /\ fp # NULL <=> pc \in {"ftell", "malloc", "fread"}
                            /\ ptr.b # NULL <=> pc = "fread"
<1>1. DOMAIN ptr = Pointers
  BY DEF TypeOK
<1>2. Owned = {ptr.key, ptr.ear_jwt, ptr.ear_jwt_cstr, ptr.b} \ {NULL}
  BY <1>1 DEF Owned, Pointers
<1> QED
  BY <1>1, <1>2 DEF BlocksOwned, Allocated, Apart

(* Where nothing is pointed to, nothing is allocated.                      *)
LEMMA NothingOwned ==
  ASSUME TypeOK, BlocksOwned, ptr = NoPointers
  PROVE  \A a \in Addr : heap[a] = NULL
<1>1. Owned = {}
  BY OwnedIs DEF NoPointers, Pointers
<1> QED
  BY <1>1 DEF BlocksOwned

(* Steps that leave the memory and the open file alone.                    *)
LEMMA MemoryKept ==
  ASSUME IInv, UNCHANGED memory, UNCHANGED fp,
         pc' \in {"ftell", "malloc", "fread"} <=>
           pc \in {"ftell", "malloc", "fread"},
         pc' = "fread" <=> pc = "fread"
  PROVE  BlocksOwned' /\ KeyNotEmpty' /\ ptr' \in [Pointers -> Pointer]
         /\ heap' \in [Addr -> Seq(Byte) \cup {NULL}]
  BY DEF IInv, TypeOK, BlocksOwned, KeyNotEmpty, Owned, memory

(* malloc and calloc: a free block gets an owner.                          *)
LEMMA AllocationFact ==
  ASSUME TypeOK, Allocated = Owned, Apart(ptr),
         NEW p \in FreeAddr, NEW v \in Pointers, ptr[v] = NULL,
         NEW bytes \in Seq(Byte),
         heap' = [heap EXCEPT ![p] = bytes], ptr' = [ptr EXCEPT ![v] = p]
  PROVE  /\ ptr' \in [Pointers -> Pointer]
         /\ heap' \in [Addr -> Seq(Byte) \cup {NULL}]
         /\ Allocated' = Owned' /\ Apart(ptr')
         /\ p # NULL /\ ptr'[v] = p /\ heap'[p] = bytes
         /\ \A w \in Pointers \ {v} : ptr'[w] = ptr[w]
         /\ \A w \in Pointers : ptr[w] # NULL => heap'[ptr[w]] = heap[ptr[w]]
<1>1. p \in Addr /\ p # NULL /\ heap[p] = NULL /\ bytes # NULL
  BY NullAssumption DEF FreeAddr
<1>2. /\ ptr' \in [Pointers -> Pointer]
      /\ heap' \in [Addr -> Seq(Byte) \cup {NULL}]
      /\ ptr'[v] = p /\ heap'[p] = bytes
      /\ \A w \in Pointers \ {v} : ptr'[w] = ptr[w]
      /\ \A a \in Addr \ {p} : heap'[a] = heap[a]
  BY <1>1 DEF TypeOK, Pointer
<1>3. \A w \in Pointers : ptr[w] # p
  BY <1>1 DEF Allocated, Owned, TypeOK
<1>4. \A w \in Pointers : ptr[w] # NULL => heap'[ptr[w]] = heap[ptr[w]]
  BY <1>2, <1>3 DEF TypeOK, Pointer
<1>5. Allocated' = Allocated \cup {p}
  BY <1>1, <1>2 DEF Allocated
<1>6. Owned' = Owned \cup {p}
  <2>1. DOMAIN ptr = Pointers /\ DOMAIN ptr' = Pointers
    BY <1>2 DEF TypeOK
  <2> QED
    BY <1>1, <1>2, <2>1 DEF Owned
<1>7. Apart(ptr')
  BY <1>2, <1>3 DEF Apart
<1> QED
  BY <1>1, <1>2, <1>4, <1>5, <1>6, <1>7

(* Everything that is pointed to is freed, and the pointers reset.         *)
LEMMA ReleaseFact ==
  ASSUME TypeOK, Allocated = Owned, heap' = Released(Owned),
         ptr' = NoPointers
  PROVE  /\ ptr' \in [Pointers -> Pointer]
         /\ heap' \in [Addr -> Seq(Byte) \cup {NULL}]
         /\ Allocated' = Owned' /\ Apart(ptr')
         /\ ptr'.key = NULL /\ ptr'.b = NULL
<1>1. /\ ptr' \in [Pointers -> Pointer]
      /\ DOMAIN ptr' = Pointers /\ \A v \in Pointers : ptr'[v] = NULL
  BY DEF NoPointers, Pointer
<1>2. heap' = [a \in Addr |-> NULL]
  BY DEF Released, Allocated, TypeOK
<1>3. Owned' = {} /\ Allocated' = {}
  BY <1>1, <1>2 DEF Owned, Allocated
<1>4. heap' \in [Addr -> Seq(Byte) \cup {NULL}]
  BY <1>2
<1>5. Apart(ptr')
  BY <1>1 DEF Apart
<1> QED
  BY <1>1, <1>3, <1>4, <1>5 DEF Pointers

(* read_from_file fails: b, if it is set, is freed.                        *)
LEMMA ReadFailsFact ==
  ASSUME TypeOK, Allocated = Owned, Apart(ptr), ReadFails
  PROVE  /\ ptr' \in [Pointers -> Pointer]
         /\ heap' \in [Addr -> Seq(Byte) \cup {NULL}]
         /\ Allocated' = Owned' /\ Apart(ptr')
         /\ ptr'.b = NULL
         /\ \A v \in Pointers \ {"b"} :
              /\ ptr'[v] = ptr[v]
              /\ ptr[v] # NULL => heap'[ptr[v]] = heap[ptr[v]]
<1>0. heap' = Released({ptr.b}) /\ ptr' = [ptr EXCEPT !.b = NULL]
  BY DEF ReadFails, ReadFreed
<1>1. /\ ptr' \in [Pointers -> Pointer] /\ ptr'["b"] = NULL
      /\ \A v \in Pointers \ {"b"} : ptr'[v] = ptr[v]
      /\ DOMAIN ptr = Pointers /\ DOMAIN ptr' = Pointers /\ "b" \in Pointers
  BY <1>0 DEF TypeOK, Pointer, Pointers
<1>2. /\ heap' \in [Addr -> Seq(Byte) \cup {NULL}]
      /\ \A a \in Addr : heap'[a] = IF a = ptr["b"] THEN NULL ELSE heap[a]
  BY <1>0 DEF Released, TypeOK
<1>3. Owned' = Owned \ {ptr["b"]}
  BY <1>1 DEF Owned, Apart
<1>4. Allocated' = Allocated \ {ptr["b"]}
  BY <1>2 DEF Allocated
<1>5. Apart(ptr')
  BY <1>1 DEF Apart
<1>6. \A v \in Pointers \ {"b"} :
        ptr[v] # NULL => heap'[ptr[v]] = heap[ptr[v]]
  BY <1>1, <1>2 DEF Apart, TypeOK, Pointer
<1> QED
  BY <1>1, <1>2, <1>3, <1>4, <1>5, <1>6

(* fread fills b, and read_from_file hands it to main.                     *)
LEMMA ReadFact ==
  ASSUME TypeOK, Allocated = Owned, Apart(ptr),
         NEW v \in Pointers \ {"b"}, ptr[v] = NULL, ptr["b"] # NULL,
         NEW bytes \in Seq(Byte),
         heap' = [heap EXCEPT ![ptr.b] = bytes],
         ptr' = [ptr EXCEPT ![v] = ptr.b, !.b = NULL]
  PROVE  /\ ptr' \in [Pointers -> Pointer]
         /\ heap' \in [Addr -> Seq(Byte) \cup {NULL}]
         /\ Allocated' = Owned' /\ Apart(ptr')
         /\ ptr'.b = NULL /\ ptr'[v] # NULL /\ heap'[ptr'[v]] = bytes
         /\ \A w \in Pointers \ {"b", v} :
              /\ ptr'[w] = ptr[w]
              /\ ptr[w] # NULL => heap'[ptr[w]] = heap[ptr[w]]
<1>1. /\ ptr' \in [Pointers -> Pointer] /\ ptr'["b"] = NULL
      /\ ptr'[v] = ptr["b"] /\ ptr["b"] \in Addr
      /\ \A w \in Pointers \ {"b", v} : ptr'[w] = ptr[w]
      /\ DOMAIN ptr = Pointers /\ DOMAIN ptr' = Pointers /\ "b" \in Pointers
  BY DEF TypeOK, Pointer, Pointers
<1>2. /\ heap' \in [Addr -> Seq(Byte) \cup {NULL}]
      /\ \A a \in Addr : heap'[a] = IF a = ptr["b"] THEN bytes ELSE heap[a]
  BY <1>1 DEF TypeOK
<1>3. bytes # NULL /\ heap[ptr["b"]] # NULL
  BY <1>1, NullAssumption DEF Allocated, Owned
<1>4. Owned' = Owned
  BY <1>1 DEF Owned
<1>5. Allocated' = Allocated
  BY <1>2, <1>3 DEF Allocated
<1>6. Apart(ptr')
  BY <1>1 DEF Apart
<1>7. \A w \in Pointers \ {"b", v} :
        ptr[w] # NULL => heap'[ptr[w]] = heap[ptr[w]]
  BY <1>1, <1>2 DEF Apart, TypeOK, Pointer
<1> QED
  BY <1>1, <1>2, <1>4, <1>5, <1>6, <1>7

-----------------------------------------------------------------------------
(* Sequences                                                               *)

(* The elements of a sequence.                                             *)
LEMMA ElementFact ==
  ASSUME NEW S, NEW s \in Seq(S), NEW i \in 1..Len(s)
  PROVE  s[i] \in S
  OBVIOUS

(* A prefix that is not empty.                                             *)
LEMMA PrefixFact ==
  ASSUME NEW S, NEW s \in Seq(S), NEW n \in 1..Len(s)
  PROVE  /\ SubSeq(s, 1, n) \in Seq(S) /\ SubSeq(s, 1, n) # <<>>
         /\ n = Len(s) => SubSeq(s, 1, n) = s
<1>1. SubSeq(s, 1, n) \in Seq(S) /\ Len(SubSeq(s, 1, n)) = n
  OBVIOUS
<1>2. n = Len(s) => SubSeq(s, 1, n) = s
  OBVIOUS
<1> QED
  BY <1>1, <1>2

(* No string is NULL.                                                      *)
LEMMA StringFact == Seq(Char) \subseteq Seq(Byte) /\ NULL \notin Seq(Char)
<1>1. Seq(Char) \subseteq Seq(Byte)
  BY DEF Char, Byte
<1> QED
  BY <1>1, NullAssumption

-----------------------------------------------------------------------------
(* Options                                                                 *)

(* What u_strlcpy leaves in a field.                                       *)
LEMMA CopiedFact ==
  ASSUME NEW s \in Seq(Char), NEW n \in Nat \ {0}
  PROVE  /\ Copied(s, n) \in Seq(Char)
         /\ Len(Copied(s, n)) < n
         /\ \E k \in 0..Len(s) : Copied(s, n) = SubSeq(s, 1, k)
         /\ Len(s) < n => Copied(s, n) = s
<1>1. CASE Len(s) < n
  <2>1. s = SubSeq(s, 1, Len(s))
    OBVIOUS
  <2>2. Copied(s, n) = s /\ Len(s) \in 0..Len(s)
    BY <1>1 DEF Copied
  <2> QED
    BY <1>1, <2>1, <2>2
<1>2. CASE Len(s) >= n
  <2>1. SubSeq(s, 1, n - 1) \in Seq(Char) /\ Len(SubSeq(s, 1, n - 1)) = n - 1
    BY <1>2
  <2> QED
    BY <1>2, <2>1 DEF Copied
<1> QED
  BY <1>1, <1>2

(* The fields and their sizes.                                             *)
LEMMA FieldFact ==
  /\ DOMAIN FieldSize = {"key_fn", "ear_fn", "alg", "app_rec"}
  /\ \A field \in DOMAIN FieldSize : FieldSize[field] \in Nat \ {0}
  /\ DOMAIN OptionField = {"a", "k", "s"}
  /\ OptionField["a"] = "alg" /\ OptionField["k"] = "key_fn"
  /\ OptionField["s"] = "app_rec"
  /\ FieldSize["alg"] = AlgSize /\ FieldSize["app_rec"] = RecSize
  /\ FieldSize["key_fn"] = FnSize /\ FieldSize["ear_fn"] = FnSize
BY SizesAssumption DEF FieldSize, OptionField

(* One option is stored, and the other fields are left alone.              *)
LEMMA StoreFact ==
  ASSUME args \in [DOMAIN FieldSize -> Seq(Char)],
         NEW field \in DOMAIN FieldSize, NEW s \in Seq(Char),
         Store(field, s)
  PROVE  /\ args' \in [DOMAIN FieldSize -> Seq(Char)]
         /\ args'[field] = Copied(s, FieldSize[field])
         /\ \A other \in DOMAIN FieldSize \ {field} : args'[other] = args[other]
<1>1. Copied(s, FieldSize[field]) \in Seq(Char)
  BY FieldFact, CopiedFact
<1> QED
  BY <1>1 DEF Store, Stored

-----------------------------------------------------------------------------
(* The invariant is kept                                                   *)

(* The program starts in it.                                               *)
LEMMA InitIInv == Init => IInv
<1> SUFFICES ASSUME Init PROVE IInv
  OBVIOUS
<1>1. ptr \in [Pointers -> Pointer] /\ \A v \in Pointers : ptr[v] = NULL
  BY DEF Init, NoPointers, Pointer
<1>2. TypeOK
  BY <1>1 DEF Init, TypeOK
<1>3. Owned = {} /\ Allocated = {}
  BY <1>1 DEF Init, Owned, Allocated
<1>4. BlocksOwned
  BY <1>1, <1>3 DEF Init, BlocksOwned, Allocated, Pointers
<1>5. PointersMatchStep /\ KeyNotEmpty
  BY <1>1 DEF Init, PointersMatchStep, KeyNotEmpty, Steps, Parsing, Reading,
              Verifying, Verdict, Pointers
<1>6. HandleMatchesStep
  BY DEF Init, Lib!Init, HandleMatchesStep
<1> QED
  BY <1>2, <1>4, <1>5, <1>6 DEF IInv

(* What the command line holds.                                            *)
LEMMA ArgvFact ==
  ASSUME TypeOK
  PROVE  /\ argv.opts \in Seq([flag : STRING, val : Seq(Char)])
         /\ argv.file # NULL => argv.file \in Seq(Char)
  BY ArgvAssumption DEF TypeOK

(* Parsing keeps it.                                                       *)
LEMMA ParsingKeeps == IInv /\ (ParseOption \/ ParseFile \/ usage) => IInv'
<1> SUFFICES ASSUME IInv, ParseOption \/ ParseFile \/ usage PROVE IInv'
  OBVIOUS
<1> USE DEF world, reading, memory, output, lib, parsing, At
<1>1. /\ pc = "getopt" /\ pc' \in {"getopt", "fopen", "done"}
      /\ optind' \in 0..Len(argv.opts)
      /\ UNCHANGED <<argv, files, memory, fp, sz, lib>>
      /\ status' \in {NULL, -1, 0, 1}
  BY ArgvFact DEF ParseOption, ParseFile, usage, IInv, TypeOK
<1>2. BlocksOwned' /\ KeyNotEmpty' /\ ptr' \in [Pointers -> Pointer]
      /\ heap' \in [Addr -> Seq(Byte) \cup {NULL}]
  BY <1>1, MemoryKept
<1>3. args' \in [DOMAIN FieldSize -> Seq(Char)]
  <2>1. args \in [DOMAIN FieldSize -> Seq(Char)]
    BY DEF IInv, TypeOK
  <2>2. CASE ParseOption
    <3> DEFINE o == argv.opts[optind + 1]
    <3>1. argv.opts \in Seq([flag : STRING, val : Seq(Char)])
          /\ optind + 1 \in 1..Len(argv.opts)
      BY <2>2, ArgvFact DEF ParseOption, IInv, TypeOK
    <3>2. o \in [flag : STRING, val : Seq(Char)]
      BY <3>1, ElementFact
    <3>3. o.flag \in DOMAIN OptionField /\ Store(OptionField[o.flag], o.val)
      BY <2>2 DEF ParseOption
    <3>4. OptionField[o.flag] \in DOMAIN FieldSize
      BY <3>3, FieldFact
    <3> HIDE DEF o
    <3> QED
      BY <2>1, <3>2, <3>3, <3>4, StoreFact
  <2>3. CASE ParseFile
    <3>1. argv.file \in Seq(Char) /\ Store("ear_fn", argv.file)
      BY <2>3, ArgvFact DEF ParseFile, IInv
    <3> QED
      BY <2>1, <3>1, StoreFact, FieldFact
  <2>4. CASE usage
    BY <2>1, <2>4 DEF usage
  <2> QED
    BY <2>2, <2>3, <2>4
<1>4. TypeOK'
  BY <1>1, <1>2, <1>3 DEF IInv, TypeOK
<1>5. PointersMatchStep'
  BY <1>1 DEF IInv, PointersMatchStep, Steps, Parsing, Reading, Verifying,
              Verdict, NoPointers, Pointers
<1>6. HandleMatchesStep'
  BY <1>1 DEF IInv, HandleMatchesStep, Verdict
<1> QED
  BY <1>2, <1>4, <1>5, <1>6 DEF IInv

(* Reading the two files keeps it.                                         *)
LEMMA ReadingKeeps == IInv /\ (Open \/ Size \/ Malloc \/ Read) => IInv'
<1> SUFFICES ASSUME IInv, Open \/ Size \/ Malloc \/ Read PROVE IInv'
  OBVIOUS
<1> USE DEF world, memory, output, lib, parsing, At
<1>0. TypeOK /\ Allocated = Owned /\ Apart(ptr)
  BY OwnedIs DEF IInv
<1>1. /\ pc \in Reading
      /\ ptr.ear_jwt = NULL /\ ptr.ear_jwt_cstr = NULL
      /\ fp # NULL <=> pc \in {"ftell", "malloc", "fread"}
      /\ ptr.b # NULL <=> pc = "fread"
      /\ claims["ear"] = NULL /\ pending = NULL
  BY DEF Open, Size, Malloc, Read, Reading, IInv, PointersMatchStep,
         HandleMatchesStep, Verdict, BlocksOwned
<1>2. /\ UNCHANGED <<argv, files, args, optind, status, lib>>
      /\ HandleMatchesStep' <=> HandleMatchesStep
  BY <1>1 DEF Open, Size, Malloc, Read, HandleMatchesStep
<1>a. ASSUME ptr' \in [Pointers -> Pointer],
             heap' \in [Addr -> Seq(Byte) \cup {NULL}],
             Allocated' = Owned', Apart(ptr'),
             fp' \in FileName \cup {NULL}, sz' \in Nat \cup {-1},
             fp' # NULL <=> pc' \in {"ftell", "malloc", "fread"},
             ptr'.b # NULL <=> pc' = "fread",
             PointersMatchStep', HandleMatchesStep', KeyNotEmpty'
      PROVE  IInv'
  <2>1. TypeOK'
    BY <1>0, <1>2, <1>a DEF TypeOK
  <2>2. BlocksOwned'
    BY <1>a, <2>1 DEF BlocksOwned, Apart, Allocated, TypeOK
  <2> QED
    BY <1>a, <2>1, <2>2 DEF IInv
<1>f. ASSUME ReadFails, pc' = "err" PROVE IInv'
  <2>1. /\ ptr' \in [Pointers -> Pointer]
        /\ heap' \in [Addr -> Seq(Byte) \cup {NULL}]
        /\ Allocated' = Owned' /\ Apart(ptr') /\ ptr'.b = NULL
        /\ ptr'["key"] = ptr["key"]
        /\ ptr["key"] # NULL => heap'[ptr["key"]] = heap[ptr["key"]]
    BY <1>0, <1>f, ReadFailsFact DEF Pointers
  <2>2. fp' = NULL /\ UNCHANGED sz
    BY <1>f DEF ReadFails
  <2>3. KeyNotEmpty'
    BY <2>1 DEF IInv, KeyNotEmpty
  <2>4. PointersMatchStep'
    BY <1>f DEF PointersMatchStep, Steps, Parsing, Reading, Verifying, Verdict
  <2>5. HandleMatchesStep'
    BY <1>1, <1>2, <1>f DEF IInv, HandleMatchesStep
  <2> QED
    BY <2>1, <2>2, <2>3, <2>4, <2>5, <1>0, <1>f, <1>a DEF TypeOK
<1>u. ASSUME UNCHANGED memory, pc' \in {"ftell", "malloc"}, pc # "fread",
             fp' \in FileName, fp' # NULL, sz' \in Nat \cup {-1}
      PROVE  IInv'
  <2>1. /\ Allocated' = Owned' /\ Apart(ptr') /\ ptr'.b = NULL
        /\ KeyNotEmpty'
    BY <1>0, <1>1, <1>u DEF Allocated, Owned, IInv, KeyNotEmpty
  <2>2. PointersMatchStep'
    BY <1>1, <1>u DEF PointersMatchStep, Steps, Parsing, Reading, Verifying,
                      Verdict
  <2>3. HandleMatchesStep'
    BY <1>1, <1>2, <1>u DEF IInv, HandleMatchesStep
  <2> QED
    BY <2>1, <2>2, <2>3, <1>0, <1>u, <1>a DEF TypeOK
<1>3. CASE Open
  <2>1. CASE TargetName \in FileName /\ fp' = TargetName /\ pc' = "ftell"
             /\ UNCHANGED <<sz, memory>>
    <3>1. TargetName # NULL
      BY <1>0, FieldFact, StringFact DEF TypeOK, TargetName
    <3> QED
      BY <2>1, <3>1, <1>0, <1>3, <1>u DEF Open, TypeOK
  <2>2. CASE ReadFails
    BY <2>2, <1>f DEF ReadFails
  <2> QED
    BY <1>3, <2>1, <2>2 DEF Open
<1>4. CASE Size
  <2>1. fp \in FileName /\ fp # NULL /\ UNCHANGED fp
    BY <1>0, <1>1, <1>4 DEF Size, TypeOK
  <2>2. Len(files[fp]) \in Nat
    BY <1>0, <2>1, ContentAssumption DEF TypeOK
  <2> QED
    BY <1>4, <2>1, <2>2, <1>u DEF Size
<1>5. CASE Malloc
  <2>1. CASE ReadFails
    BY <2>1, <1>f DEF ReadFails
  <2>2. CASE ~ ReadFails
    <3>1. PICK p \in FreeAddr : /\ heap' = [heap EXCEPT ![p] = <<>>]
                                /\ ptr' = [ptr EXCEPT !.b = p]
      BY <1>5, <2>2 DEF Malloc
    <3>2. pc' = "fread" /\ UNCHANGED reading
      BY <1>5, <2>2 DEF Malloc
    <3>3. /\ ptr' \in [Pointers -> Pointer]
          /\ heap' \in [Addr -> Seq(Byte) \cup {NULL}]
          /\ Allocated' = Owned' /\ Apart(ptr')
          /\ p # NULL /\ ptr'["b"] = p
          /\ \A w \in Pointers \ {"b"} : ptr'[w] = ptr[w]
          /\ \A w \in Pointers : ptr[w] # NULL => heap'[ptr[w]] = heap[ptr[w]]
      <4>1. ptr["b"] = NULL /\ "b" \in Pointers /\ <<>> \in Seq(Byte)
        BY <1>1, <1>5 DEF Malloc, Pointers
      <4> QED
        BY <4>1, <3>1, <1>0, AllocationFact
    <3>4. KeyNotEmpty'
      BY <3>3 DEF IInv, KeyNotEmpty, Pointers
    <3>5. PointersMatchStep'
      BY <1>1, <3>2, <3>3 DEF PointersMatchStep, Steps, Parsing, Reading,
                              Verifying, Verdict, Pointers
    <3>6. HandleMatchesStep'
      BY <1>1, <1>2, <3>2 DEF IInv, HandleMatchesStep
    <3> QED
      BY <1>0, <1>1, <1>5, <3>2, <3>3, <3>4, <3>5, <3>6, <1>a
         DEF Malloc, TypeOK, reading
  <2> QED
    BY <2>1, <2>2
<1>6. CASE Read
  <2>1. CASE ReadFails
    BY <2>1, <1>f DEF ReadFails
  <2>2. CASE ~ ReadFails
    <3> DEFINE bytes == SubSeq(files[fp], 1, sz)
    <3>1. /\ OneItem(sz, files[fp])
          /\ heap' = [heap EXCEPT ![ptr.b] = bytes]
          /\ ptr' = [ptr EXCEPT ![Target] = ptr.b, !.b = NULL]
          /\ fp' = NULL /\ UNCHANGED sz
          /\ pc' = IF Target = "key" THEN "fopen" ELSE "to_cstr"
      BY <1>6, <2>2 DEF Read
    <3>2. bytes \in Seq(Byte) /\ bytes # <<>>
      <4>1. fp \in FileName
        BY <1>0, <1>1, <1>6 DEF Read, TypeOK
      <4>2. files[fp] \in Seq(Byte) /\ sz \in Int
        BY <1>0, <4>1, ContentAssumption DEF TypeOK
      <4> HIDE DEF bytes
      <4>3. PICK s \in Seq(Byte) : s = files[fp]
        BY <4>2
      <4>4. OneItem(sz, s) /\ bytes = SubSeq(s, 1, sz)
        BY <3>1, <4>3 DEF bytes
      <4>5. sz \in 1..Len(s)
        BY <4>2, <4>4 DEF OneItem
      <4> QED
        BY <4>4, <4>5, PrefixFact
    <3>3. /\ Target \in {"key", "ear_jwt"} /\ ptr[Target] = NULL
          /\ Target = "ear_jwt" => ptr["key"] # NULL
          /\ ptr["b"] # NULL
      BY <1>1, <1>6 DEF Target, Read
    <3> HIDE DEF bytes
    <3>4. /\ ptr' \in [Pointers -> Pointer]
          /\ heap' \in [Addr -> Seq(Byte) \cup {NULL}]
          /\ Allocated' = Owned' /\ Apart(ptr')
          /\ ptr'["b"] = NULL /\ ptr'[Target] # NULL
          /\ heap'[ptr'[Target]] = bytes
          /\ \A w \in Pointers \ {"b", Target} :
               /\ ptr'[w] = ptr[w]
               /\ ptr[w] # NULL => heap'[ptr[w]] = heap[ptr[w]]
      BY <1>0, <3>1, <3>2, <3>3, ReadFact DEF Pointers
    <3>5. KeyNotEmpty'
      BY <3>2, <3>3, <3>4 DEF IInv, KeyNotEmpty, Pointers
    <3>6. PointersMatchStep'
      BY <1>1, <3>1, <3>3, <3>4
         DEF PointersMatchStep, Steps, Parsing, Reading, Verifying, Verdict,
             Pointers
    <3>7. HandleMatchesStep'
      BY <1>1, <1>2, <3>1 DEF IInv, HandleMatchesStep
    <3> QED
      BY <1>0, <3>1, <3>4, <3>5, <3>6, <3>7, <1>a DEF TypeOK
  <2> QED
    BY <2>1, <2>2
<1> QED
  BY <1>3, <1>4, <1>5, <1>6

(* main's own steps keep it.                                               *)
LEMMA MainKeeps ==
  IInv /\ (to_cstr \/ CallVerify \/ VerifyFailed \/ Verified \/ GetStatus
             \/ StatusFailed \/ StatusShown \/ Cleanup) => IInv'
<1> SUFFICES ASSUME IInv,
                    to_cstr \/ CallVerify \/ VerifyFailed \/ Verified
                      \/ GetStatus \/ StatusFailed \/ StatusShown \/ Cleanup
             PROVE  IInv'
  OBVIOUS
<1> USE DEF world, reading, parsing, At
<1>0. TypeOK /\ Allocated = Owned /\ Apart(ptr) /\ HandleMatchesStep
      /\ ptr.b = NULL
  BY OwnedIs DEF IInv, to_cstr, CallVerify, VerifyFailed, Verified, GetStatus,
                 StatusFailed, StatusShown, Cleanup
<1>1. /\ UNCHANGED <<argv, files, args, optind, fp, sz>>
      /\ status' \in {NULL, -1, 0, 1} /\ fp = NULL
      /\ pc' \notin {"ftell", "malloc", "fread"}
  BY DEF to_cstr, CallVerify, VerifyFailed, Verified, GetStatus,
         StatusFailed, StatusShown, Cleanup, IInv, TypeOK, BlocksOwned, output
<1>a. ASSUME ptr' \in [Pointers -> Pointer],
             heap' \in [Addr -> Seq(Byte) \cup {NULL}],
             Allocated' = Owned', Apart(ptr'), ptr'.b = NULL,
             PointersMatchStep', HandleMatchesStep', KeyNotEmpty'
      PROVE  IInv'
  <2>1. TypeOK'
    BY <1>0, <1>1, <1>a DEF TypeOK
  <2>2. BlocksOwned'
    BY <1>1, <1>a, <2>1 DEF BlocksOwned, Apart, Allocated, TypeOK
  <2> QED
    BY <1>a, <2>1, <2>2 DEF IInv
<1>u. ASSUME UNCHANGED memory, PointersMatchStep', HandleMatchesStep'
      PROVE  IInv'
  <2>1. /\ Allocated' = Owned' /\ Apart(ptr') /\ ptr'.b = NULL
        /\ KeyNotEmpty' /\ ptr' = ptr /\ heap' = heap
    BY <1>0, <1>u DEF Allocated, Owned, IInv, KeyNotEmpty, memory
  <2> QED
    BY <2>1, <1>0, <1>u, <1>a DEF TypeOK
<1>r. ASSUME heap' = Released(Owned), ptr' = NoPointers,
             pc' \in {"status", "done"}, HandleMatchesStep'
      PROVE  IInv'
  <2>1. PointersMatchStep'
    BY <1>r DEF PointersMatchStep, Steps, Parsing, Reading, Verifying, Verdict
  <2>2. /\ ptr' \in [Pointers -> Pointer]
        /\ heap' \in [Addr -> Seq(Byte) \cup {NULL}]
        /\ Allocated' = Owned' /\ Apart(ptr')
        /\ ptr'.b = NULL /\ KeyNotEmpty'
    BY <1>0, <1>r, ReleaseFact DEF KeyNotEmpty
  <2> QED
    BY <1>r, <2>1, <2>2, <1>a
<1> USE DEF PointersMatchStep, Steps, Parsing, Reading, Verifying, Verdict
<1>2. CASE to_cstr
  <2>1. /\ pc = "to_cstr" /\ ptr["key"] # NULL /\ ptr["ear_jwt"] # NULL
        /\ ptr["ear_jwt_cstr"] = NULL
        /\ UNCHANGED lib /\ pc' \in {"verify", "crashed"}
    BY <1>2 DEF to_cstr, IInv
  <2>2. HandleMatchesStep'
    BY <2>1 DEF IInv, HandleMatchesStep, lib
  <2>3. CASE UNCHANGED memory /\ pc' = "crashed"
    <3>1. PointersMatchStep'
      BY <2>3 DEF memory
    <3> QED
      BY <2>2, <2>3, <3>1, <1>u
  <2>4. CASE ~ (UNCHANGED memory /\ pc' = "crashed")
    <3>1. PICK p \in FreeAddr :
            /\ heap' = [heap EXCEPT ![p] = Append(heap[ptr.ear_jwt], 0)]
            /\ ptr' = [ptr EXCEPT !.ear_jwt_cstr = p]
            /\ pc' = "verify"
      BY <1>2, <2>4 DEF to_cstr
    <3>2. Append(heap[ptr.ear_jwt], 0) \in Seq(Byte)
      <4>1. heap[ptr["ear_jwt"]] \in Seq(Byte)
        BY <1>0, <2>1 DEF TypeOK, Allocated, Owned, Pointer, Pointers
      <4> QED
        BY <4>1 DEF Byte
    <3>3. /\ ptr' \in [Pointers -> Pointer]
          /\ heap' \in [Addr -> Seq(Byte) \cup {NULL}]
          /\ Allocated' = Owned' /\ Apart(ptr')
          /\ p # NULL /\ ptr'["ear_jwt_cstr"] = p
          /\ \A w \in Pointers \ {"ear_jwt_cstr"} : ptr'[w] = ptr[w]
          /\ \A w \in Pointers : ptr[w] # NULL => heap'[ptr[w]] = heap[ptr[w]]
      BY <1>0, <2>1, <3>1, <3>2, AllocationFact DEF Pointers
    <3>4. KeyNotEmpty'
      BY <3>3 DEF IInv, KeyNotEmpty, Pointers
    <3>5. PointersMatchStep' /\ ptr'.b = NULL
      BY <1>0, <2>1, <3>1, <3>3 DEF Pointers
    <3> QED
      BY <2>2, <3>3, <3>4, <3>5, <1>a
  <2> QED
    BY <2>3, <2>4
<1>3. CASE CallVerify
  <2>1. UNCHANGED memory /\ pc = "verify" /\ pc' = "verifying"
    BY <1>3 DEF CallVerify
  <2>2. PointersMatchStep'
    BY <2>1 DEF memory, IInv
  <2>3. HandleMatchesStep'
    BY <1>3, <2>1 DEF CallVerify, Lib!CallVerify, IInv, HandleMatchesStep
  <2> QED
    BY <2>1, <2>2, <2>3, <1>u
<1>4. CASE VerifyFailed \/ StatusFailed
  <2>1. UNCHANGED <<memory, lib>> /\ pending = NULL /\ pc' = "err"
    BY <1>0, <1>4 DEF VerifyFailed, StatusFailed, HandleMatchesStep
  <2>2. PointersMatchStep'
    BY <2>1
  <2>3. HandleMatchesStep'
    BY <1>0, <2>1 DEF HandleMatchesStep, lib
  <2> QED
    BY <2>1, <2>2, <2>3, <1>u
<1>5. CASE Verified
  <2>1. HandleMatchesStep'
    BY <1>0, <1>5 DEF Verified, HandleMatchesStep, lib
  <2> QED
    BY <1>5, <2>1, <1>r DEF Verified, AfterVerified
<1>6. CASE GetStatus
  <2>1. UNCHANGED <<memory, claims, pending>> /\ pc = "status"
        /\ pc' = "report"
    BY <1>6 DEF GetStatus, Lib!GetStatus, Lib!Query
  <2>2. PointersMatchStep'
    BY <2>1 DEF memory, IInv, NoPointers
  <2>3. HandleMatchesStep'
    BY <1>0, <2>1 DEF HandleMatchesStep
  <2> QED
    BY <2>1, <2>2, <2>3, <1>u
<1>h. claims' = [claims EXCEPT !["ear"] = NULL] =>
        claims' = [h \in {"ear"} |-> NULL]
  BY <1>0 DEF HandleMatchesStep
<1>7. CASE StatusShown
  <2>1. UNCHANGED <<memory, pending>> /\ pc = "report" /\ pc' = "done"
        /\ claims' = [claims EXCEPT !["ear"] = NULL]
    BY <1>7 DEF StatusShown, Lib!FreeHandle
  <2>2. PointersMatchStep'
    BY <2>1 DEF memory, IInv, NoPointers
  <2>3. HandleMatchesStep'
    BY <1>0, <1>h, <2>1 DEF HandleMatchesStep
  <2> QED
    BY <2>1, <2>2, <2>3, <1>u
<1>8. CASE Cleanup
  <2>1. /\ heap' = Released(Owned) /\ ptr' = NoPointers
        /\ pc = "err" /\ pc' = "done" /\ UNCHANGED pending
        /\ \/ claims' = [claims EXCEPT !["ear"] = NULL]
           \/ claims["ear"] = NULL /\ UNCHANGED claims
    BY <1>8 DEF Cleanup, HandleFreed, Lib!FreeHandle, lib
  <2>2. HandleMatchesStep'
    BY <1>0, <1>h, <2>1 DEF HandleMatchesStep
  <2> QED
    BY <2>1, <2>2, <1>r
<1> QED
  BY <1>2, <1>3, <1>4, <1>5, <1>6, <1>7, <1>8

(* So do the steps of the library and of the world, and stuttering.        *)
LEMMA OthersKeep == IInv /\ (LibStep \/ Tick \/ UNCHANGED vars) => IInv'
<1> SUFFICES ASSUME IInv, LibStep \/ Tick \/ UNCHANGED vars PROVE IInv'
  OBVIOUS
<1> USE DEF world, reading, parsing, output
<1>1. /\ UNCHANGED <<argv, optind, args, pc, fp, sz, memory, status>>
      /\ files' \in [FileName -> Content]
  <2>1. CASE LibStep
    BY <2>1 DEF LibStep, IInv, TypeOK
  <2>2. CASE Tick
    BY <2>2 DEF Tick, IInv, TypeOK
  <2>3. CASE UNCHANGED vars
    BY <2>3 DEF vars, IInv, TypeOK
  <2> QED
    BY <2>1, <2>2, <2>3
<1>2. BlocksOwned' /\ KeyNotEmpty' /\ ptr' = ptr /\ heap' = heap
  BY <1>1, MemoryKept DEF memory
<1>3. TypeOK'
  BY <1>1, <1>2 DEF IInv, TypeOK
<1>4. PointersMatchStep'
  BY <1>1, <1>2 DEF IInv, PointersMatchStep
<1>5. HandleMatchesStep'
  <2>1. CASE LibStep
    <3>1. UNCHANGED pc /\ pending' = NULL /\ pending # NULL
      BY <2>1 DEF LibStep, Lib!Accept, Lib!Reject
    <3>2. /\ claims' = [h \in {"ear"} |-> claims'["ear"]]
          /\ pc = "verifying"
      BY <2>1, <3>1 DEF LibStep, Lib!Accept, Lib!Reject, IInv,
                        HandleMatchesStep
    <3> QED
      BY <3>1, <3>2 DEF HandleMatchesStep
  <2>2. CASE Tick \/ UNCHANGED vars
    <3>1. UNCHANGED <<pc, claims, pending>>
      BY <2>2 DEF Tick, Lib!Tick, vars, lib
    <3> QED
      BY <3>1 DEF IInv, HandleMatchesStep
  <2> QED
    BY <2>1, <2>2
<1> QED
  BY <1>2, <1>3, <1>4, <1>5 DEF IInv

(* The invariant always holds.                                             *)
LEMMA AlwaysIInv == Spec => []IInv
<1>1. IInv /\ [Next]_vars => IInv'
  BY ParsingKeeps, ReadingKeeps, MainKeeps, OthersKeep
     DEF Next, ToolStep, Exited
<1> QED
  BY <1>1, InitIInv, PTL DEF Spec

-----------------------------------------------------------------------------
(* The types of the program's variables.                                   *)
THEOREM TypeCorrect == Spec => []TypeOK
<1>1. IInv => TypeOK
  BY DEF IInv
<1> QED
  BY <1>1, AlwaysIInv, PTL

(* What "err" frees is live, freed once and all there is, from wherever    *)
(* main jumps there; read_from_file closes its file on every path.         *)
THEOREM BlocksAlwaysOwned == Spec => []BlocksOwned
<1>1. IInv => BlocksOwned
  BY DEF IInv
<1> QED
  BY <1>1, AlwaysIInv, PTL

(* However the program exits, it has released everything.                  *)
THEOREM AlwaysExitsClean == Spec => []ExitsClean
<1>1. IInv => ExitsClean
  <2> SUFFICES ASSUME IInv, pc = "done" PROVE ExitsClean
    BY DEF ExitsClean
  <2>1. ptr = NoPointers /\ fp = NULL
    BY DEF IInv, PointersMatchStep, BlocksOwned
  <2>2. \A a \in Addr : heap[a] = NULL
    BY <2>1, NothingOwned DEF IInv
  <2>3. claims["ear"] = NULL /\ pending = NULL
    BY DEF IInv, HandleMatchesStep, Verdict
  <2> QED
    BY <2>1, <2>2, <2>3 DEF ExitsClean
<1> QED
  BY <1>1, AlwaysIInv, PTL

(* The asserts of ear_jwt_verify hold of what main passes: no empty key    *)
(* gets past fread.                                                        *)
THEOREM ArgumentsAlwaysValid == Spec => []ArgumentsValid
<1>1. IInv => ArgumentsValid
  BY DEF IInv, ArgumentsValid, PointersMatchStep, HandleMatchesStep,
         KeyNotEmpty, Verifying
<1> QED
  BY <1>1, AlwaysIInv, PTL

-----------------------------------------------------------------------------
(* Strings                                                                 *)

(* A set of naturals that is not empty has a least element.                *)
LEMMA LeastFact ==
  ASSUME NEW S, S \subseteq Nat, S # {}
  PROVE  \E m \in S : \A n \in S : m <= n
<1>1. PICK m \in S : \A n \in S : ~ (<<n, m>> \in OpToRel(<, Nat))
  BY NatLessThanWellFounded, WFMin
<1>2. \A n \in S : ~ (n < m)
  BY <1>1 DEF OpToRel
<1> QED
  BY <1>2

Least(S) == CHOOSE i \in S : \A j \in S : i <= j

(* to_cstr changes nothing of the string a text starts with.               *)
LEMMA CStrFact ==
  ASSUME NEW b \in Seq(Byte)
  PROVE  CStr(Append(b, 0)) = CStr(b)
<1> DEFINE c == Append(b, 0)
           E == {i \in 1..Len(b) : b[i] = 0}
           F == {i \in 1..Len(c) : c[i] = 0}
<1>1. /\ Len(c) = Len(b) + 1 /\ Len(b) \in Nat
      /\ \A i \in 1..Len(b) : c[i] = b[i]
      /\ c[Len(b) + 1] = 0
  OBVIOUS
<1>2. F = E \cup {Len(b) + 1}
  BY <1>1
<1>3. CStr(b) = IF E = {} THEN b ELSE SubSeq(b, 1, Least(E) - 1)
  BY DEF CStr, Least
<1>4. CStr(c) = SubSeq(c, 1, Least(F) - 1)
  BY <1>2 DEF CStr, Least
<1>e. E \subseteq 1..Len(b)
  OBVIOUS
<1>f. SubSeq(c, 1, Len(b)) = b
  OBVIOUS
<1>g. \A m \in 1..Len(b) : SubSeq(c, 1, m - 1) = SubSeq(b, 1, m - 1)
  BY <1>1
<1> SUFFICES CStr(c) = CStr(b)
  OBVIOUS
<1> HIDE DEF c, E, F
<1>5. CASE E = {}
  <2>0. F = {Len(b) + 1}
    BY <1>2, <1>5
  <2>1. Least({Len(b) + 1}) = Len(b) + 1
    BY <1>1 DEF Least
  <2>2. Least(F) - 1 = Len(b)
    BY <1>1, <2>0, <2>1
  <2> QED
    BY <1>3, <1>4, <1>5, <1>f, <2>2
<1>6. CASE E # {}
  <2>1. PICK m \in E : \A n \in E : m <= n
    <3>1. E \subseteq Nat
      BY <1>1, <1>e
    <3> QED
      BY <1>6, <3>1, LeastFact
  <2>2. \A i \in E : i \in Int /\ i < Len(b) + 1
    BY <1>1, <1>e
  <2>3. Least(E) = m
    BY <2>1, <2>2 DEF Least
  <2>4. Least(F) = m
    BY <1>1, <1>2, <2>1, <2>2 DEF Least
  <2>5. SubSeq(c, 1, m - 1) = SubSeq(b, 1, m - 1)
    BY <1>e, <1>g, <2>1
  <2> QED
    BY <1>3, <1>4, <1>6, <2>3, <2>4, <2>5
<1> QED
  BY <1>5, <1>6

-----------------------------------------------------------------------------
(* Options                                                                 *)

(* The value of the last of the first n options with this flag.            *)
Given(flag, n) == {i \in 1..n : argv.opts[i].flag = flag}

Latest(S) == CHOOSE i \in S : \A j \in S : i >= j

LastOf(flag, n) ==
  IF Given(flag, n) = {} THEN <<>>
  ELSE argv.opts[Latest(Given(flag, n))].val

(* What was asked for is what the last of all the options says.            *)
LEMMA AskedIs ==
  ASSUME NEW flag
  PROVE  Asked(flag) = LastOf(flag, Len(argv.opts))
  BY DEF Asked, LastOf, Given, Latest

(* One more option counts if it has the flag.                              *)
LEMMA LastStep ==
  ASSUME NEW flag, NEW n \in Nat
  PROVE  LastOf(flag, n + 1) = IF argv.opts[n + 1].flag = flag
                               THEN argv.opts[n + 1].val ELSE LastOf(flag, n)
<1>1. CASE argv.opts[n + 1].flag = flag
  <2>1. Given(flag, n + 1) = Given(flag, n) \cup {n + 1}
    BY <1>1 DEF Given
  <2>2. \A i \in Given(flag, n) : i \in Int /\ i < n + 1
    BY DEF Given
  <2>3. Latest(Given(flag, n) \cup {n + 1}) = n + 1
    BY <2>2 DEF Latest
  <2>4. Given(flag, n + 1) # {}
    BY <2>1
  <2> QED
    BY <1>1, <2>1, <2>3, <2>4 DEF LastOf
<1>2. CASE argv.opts[n + 1].flag # flag
  <2>1. Given(flag, n + 1) = Given(flag, n)
    BY <1>2 DEF Given
  <2> QED
    BY <1>2, <2>1 DEF LastOf
<1> QED
  BY <1>1, <1>2

(* The field of this option holds what the first n options ask for.        *)
HoldsLast(flag, n) ==
  /\ LastOf(flag, n) \in Seq(Char)
  /\ args[OptionField[flag]] =
       Copied(LastOf(flag, n), FieldSize[OptionField[flag]])

(* The fields hold what has been asked for, as far as it fits.             *)
OptionsStored ==
  /\ \A field \in DOMAIN FieldSize : Len(args[field]) < FieldSize[field]
  /\ pc = "getopt" => \A flag \in DOMAIN OptionField : HoldsLast(flag, optind)
  /\ pc # "getopt" /\ ~ (pc = "done" /\ status = 1) =>
       /\ \A flag \in DOMAIN OptionField : HoldsLast(flag, Len(argv.opts))
       /\ argv.file \in Seq(Char)
       /\ args["ear_fn"] = Copied(argv.file, FnSize)
  /\ shown # NULL => pc = "done" /\ status = 0 /\ shown.rec = args["app_rec"]

(* Nothing has been asked for, and the fields are empty.                   *)
LEMMA OptionsInit == Init => OptionsStored
<1> SUFFICES ASSUME Init PROVE OptionsStored
  OBVIOUS
<1>1. \A flag : LastOf(flag, 0) = <<>>
  BY DEF LastOf, Given
<1>2. \A field \in DOMAIN FieldSize :
        /\ args[field] = <<>> /\ Len(args[field]) < FieldSize[field]
        /\ Copied(<<>>, FieldSize[field]) = <<>>
  BY FieldFact DEF Init, Copied
<1>3. \A flag \in DOMAIN OptionField : HoldsLast(flag, 0)
  <2>1. <<>> \in Seq(Char)
    OBVIOUS
  <2>2. \A flag \in DOMAIN OptionField : OptionField[flag] \in DOMAIN FieldSize
    BY FieldFact
  <2> QED
    BY <1>1, <1>2, <2>1, <2>2, Zenon DEF HoldsLast
<1> QED
  BY <1>2, <1>3 DEF Init, OptionsStored

(* One more option is stored, or the file.                                 *)
LEMMA OptionsParsed ==
  IInv /\ OptionsStored /\ (ParseOption \/ ParseFile \/ usage)
    => OptionsStored'
<1> SUFFICES ASSUME IInv, OptionsStored, ParseOption \/ ParseFile \/ usage
             PROVE  OptionsStored'
  OBVIOUS
<1>0. /\ pc = "getopt" /\ UNCHANGED <<argv, shown>> /\ shown = NULL
      /\ argv.opts \in Seq([flag : STRING, val : Seq(Char)])
      /\ args \in [DOMAIN FieldSize -> Seq(Char)]
      /\ optind \in 0..Len(argv.opts)
  BY ArgvFact DEF ParseOption, ParseFile, usage, At, world, output, IInv,
                  TypeOK, OptionsStored
<1>1. /\ \A field \in DOMAIN FieldSize : Len(args[field]) < FieldSize[field]
      /\ \A flag \in DOMAIN OptionField : HoldsLast(flag, optind)
  BY <1>0 DEF OptionsStored
<1>2. CASE ParseOption
  <2> DEFINE o == argv.opts[optind + 1]
  <2>1. /\ o.flag \in DOMAIN OptionField /\ Store(OptionField[o.flag], o.val)
        /\ optind' = optind + 1 /\ UNCHANGED pc
        /\ optind + 1 \in 1..Len(argv.opts)
    BY <1>0, <1>2 DEF ParseOption
  <2>2. o \in [flag : STRING, val : Seq(Char)]
    BY <1>0, <2>1, ElementFact
  <2>3. \A flag : LastOf(flag, optind + 1) =
                    IF o.flag = flag THEN o.val ELSE LastOf(flag, optind)
    <3>1. optind \in Nat
      BY <1>0
    <3> QED
      BY <3>1, LastStep, Zenon
  <2>4. \A flag : LastOf(flag, optind)' = LastOf(flag, optind')
    BY <1>0 DEF LastOf, Given
  <2> HIDE DEF o
  <2>5. PICK flag \in DOMAIN OptionField : flag = o.flag
    BY <2>1
  <2>6. /\ args'[OptionField[flag]] =
             Copied(o.val, FieldSize[OptionField[flag]])
        /\ \A field \in DOMAIN FieldSize \ {OptionField[flag]} :
             args'[field] = args[field]
        /\ OptionField[flag] \in DOMAIN FieldSize
    BY <1>0, <2>1, <2>2, <2>5, StoreFact, FieldFact
  <2>7. \A other \in DOMAIN OptionField : HoldsLast(other, optind)'
    <3> SUFFICES ASSUME NEW other \in DOMAIN OptionField
                 PROVE  HoldsLast(other, optind)'
      OBVIOUS
    <3>1. LastOf(other, optind)' = IF flag = other THEN o.val
                                                   ELSE LastOf(other, optind)
      BY <2>1, <2>3, <2>4, <2>5
    <3>2. CASE other = flag
      BY <2>2, <2>6, <3>1, <3>2 DEF HoldsLast, FieldSize, OptionField
    <3>3. CASE other # flag
      <4>1. args'[OptionField[other]] = args[OptionField[other]]
        BY <2>5, <2>6, <3>3, FieldFact
      <4> QED
        BY <1>1, <3>1, <3>3, <4>1 DEF HoldsLast, FieldSize, OptionField
    <3> QED
      BY <3>2, <3>3
  <2>8. \A field \in DOMAIN FieldSize : Len(args'[field]) < FieldSize[field]
    <3>1. o.val \in Seq(Char)
      BY <2>2
    <3>2. Len(args'[OptionField[flag]]) < FieldSize[OptionField[flag]]
      BY <2>6, <3>1, CopiedFact, FieldFact
    <3>3. \A field \in DOMAIN FieldSize \ {OptionField[flag]} :
            Len(args'[field]) < FieldSize[field]
      BY <1>1, <2>6, Zenon
    <3> QED
      BY <3>2, <3>3, Zenon
  <2> QED
    BY <1>0, <2>1, <2>7, <2>8 DEF OptionsStored, FieldSize
<1>3. CASE ParseFile
  <2>1. /\ optind = Len(argv.opts) /\ argv.file \in Seq(Char)
        /\ Store("ear_fn", argv.file) /\ pc' = "fopen" /\ UNCHANGED optind
    BY <1>3, ArgvFact DEF ParseFile, IInv
  <2>2. /\ args'["ear_fn"] = Copied(argv.file, FnSize)
        /\ \A field \in DOMAIN FieldSize \ {"ear_fn"} :
             args'[field] = args[field]
    BY <1>0, <2>1, StoreFact, FieldFact
  <2>3. \A field \in DOMAIN FieldSize : Len(args'[field]) < FieldSize[field]
    BY <1>1, <2>1, <2>2, CopiedFact, FieldFact, SizesAssumption
  <2>4. \A flag : LastOf(flag, Len(argv.opts))' = LastOf(flag, optind)
    BY <1>0, <2>1 DEF LastOf, Given
  <2>5. \A flag \in DOMAIN OptionField : HoldsLast(flag, Len(argv.opts))'
    <3> SUFFICES ASSUME NEW flag \in DOMAIN OptionField
                 PROVE  HoldsLast(flag, Len(argv.opts))'
      OBVIOUS
    <3>1. args'[OptionField[flag]] = args[OptionField[flag]]
      BY <2>2, FieldFact
    <3> QED
      BY <1>1, <2>4, <3>1 DEF HoldsLast, FieldSize, OptionField
  <2> QED
    BY <1>0, <2>1, <2>2, <2>3, <2>5 DEF OptionsStored, FieldSize
<1>4. CASE usage
  <2>1. pc' = "done" /\ status' = 1 /\ UNCHANGED args
    BY <1>4 DEF usage, parsing
  <2> QED
    BY <1>0, <1>1, <2>1 DEF OptionsStored, FieldSize
<1> QED
  BY <1>2, <1>3, <1>4

(* The steps after parsing leave the fields alone.                         *)
LEMMA OptionsKept == IInv /\ OptionsStored /\ [Next]_vars => OptionsStored'
<1> SUFFICES ASSUME IInv, OptionsStored, [Next]_vars PROVE OptionsStored'
  OBVIOUS
<1>a. ASSUME UNCHANGED <<argv, optind, args>>,
             pc \notin {"getopt", "done"}, pc' # "getopt",
             UNCHANGED shown \/ StatusShown
      PROVE  OptionsStored'
  <2>1. /\ \A flag \in DOMAIN OptionField : HoldsLast(flag, Len(argv.opts))'
        /\ (argv.file \in Seq(Char))'
        /\ (args["ear_fn"] = Copied(argv.file, FnSize))'
        /\ \A field \in DOMAIN FieldSize : Len(args'[field]) < FieldSize[field]
    <3>1. \A flag \in DOMAIN OptionField : HoldsLast(flag, Len(argv.opts))
      BY <1>a DEF OptionsStored
    <3>2. \A flag \in DOMAIN OptionField : HoldsLast(flag, Len(argv.opts))'
      <4> SUFFICES ASSUME NEW CONSTANT flag \in DOMAIN OptionField
                   PROVE  HoldsLast(flag, Len(argv.opts))'
        BY DEF OptionField
      <4>1. HoldsLast(flag, Len(argv.opts))
        BY <3>1
      <4> QED
        BY <4>1, <1>a DEF HoldsLast, LastOf, Given, OptionField, FieldSize
    <3> QED
      BY <3>2, <1>a DEF OptionsStored, FieldSize
  <2>2. (shown # NULL => pc = "done" /\ status = 0
                         /\ shown.rec = args["app_rec"])'
    BY <1>a DEF OptionsStored, StatusShown, parsing
  <2> QED
    BY <1>a, <2>1, <2>2 DEF OptionsStored, FieldSize
<1>b. ASSUME UNCHANGED <<argv, optind, args, pc, status, shown>>
      PROVE  OptionsStored'
  <2>1. ASSUME NEW CONSTANT flag
        PROVE  /\ HoldsLast(flag, optind) <=> HoldsLast(flag, optind)'
               /\ HoldsLast(flag, Len(argv.opts))
                    <=> HoldsLast(flag, Len(argv.opts))'
    BY <1>b DEF HoldsLast, LastOf, Given, FieldSize, OptionField
  <2> QED
    BY <1>b, <2>1 DEF OptionsStored, FieldSize, OptionField
<1> USE DEF world, parsing, output, At
<1>1. CASE ParseOption \/ ParseFile \/ usage
  BY <1>1, OptionsParsed
<1>2. CASE Open \/ Size \/ Malloc \/ Read
  BY <1>2, <1>a DEF Open, Size, Malloc, Read, ReadFails
<1>3. CASE to_cstr \/ CallVerify \/ VerifyFailed \/ Verified \/ GetStatus
             \/ StatusFailed \/ StatusShown \/ Cleanup
  BY <1>3, <1>a DEF to_cstr, CallVerify, VerifyFailed, Verified, GetStatus,
                    StatusFailed, StatusShown, Cleanup
<1>4. CASE LibStep \/ Tick \/ Exited \/ UNCHANGED vars
  BY <1>4, <1>b DEF LibStep, Tick, Exited, vars
<1> QED
  BY <1>1, <1>2, <1>3, <1>4 DEF Next, ToolStep

(* The fields always hold what was asked for, as far as it fits.           *)
LEMMA AlwaysStored == Spec => [](IInv /\ OptionsStored)
<1>1. IInv /\ OptionsStored /\ [Next]_vars => OptionsStored'
  BY OptionsKept
<1> QED
  BY <1>1, OptionsInit, AlwaysIInv, PTL DEF Spec

(* Names that do not fit are cut and never overrun the next field, and the *)
(* name printed beside the tier is what is left of the one asked for.      *)
THEOREM NamesAlwaysCut == Spec => []NamesCut
<1>1. IInv /\ OptionsStored => NamesCut
  <2> SUFFICES ASSUME IInv, OptionsStored PROVE NamesCut
    OBVIOUS
  <2>1. DOMAIN args = DOMAIN FieldSize
    BY DEF IInv, TypeOK
  <2>2. \A field \in DOMAIN args : Len(args[field]) < FieldSize[field]
    BY <2>1 DEF OptionsStored
  <2>3. ASSUME shown # NULL
        PROVE  \E n \in 0..Len(Asked("s")) :
                 shown.rec = SubSeq(Asked("s"), 1, n)
    <3>1. HoldsLast("s", Len(argv.opts)) /\ shown.rec = args["app_rec"]
      BY <2>3, FieldFact DEF OptionsStored
    <3>2. Asked("s") \in Seq(Char) /\ shown.rec = Copied(Asked("s"), RecSize)
      BY <3>1, AskedIs, FieldFact DEF HoldsLast
    <3> QED
      BY <3>2, CopiedFact, SizesAssumption
  <2> QED
    BY <2>2, <2>3 DEF NamesCut
<1> QED
  BY <1>1, AlwaysStored, PTL

-----------------------------------------------------------------------------
(* Files                                                                   *)

(* What the program knows of the file named: of its text, of its token.    *)
Named(field) == files[args[field]]
TokenNamed   == TokenOf(CStr(Named("ear_fn")))

TokenGenuine ==
  /\ TokenNamed.signer = Named("key_fn")
  /\ TokenNamed.alg = args["alg"] /\ args["alg"] \in KnownAlg
  /\ \E time \in 1..now : Lib!InWindow(TokenNamed, time)
  /\ TokenNamed.profile = EAR_PROFILE

TierTrue(tier) ==
  tiers[TokenNamed.submods.recs[args["app_rec"]].status] = tier

(* What has been read is all of the files named.                           *)
ReadTrue ==
  /\ fp # NULL => fp = TargetName
  /\ ~ changed =>
       /\ pc = "malloc" => sz \in {-1, Len(files[fp])}
       /\ pc = "fread" => sz = Len(files[fp])
       /\ ptr.key # NULL => heap[ptr.key] = Named("key_fn")
       /\ ptr.ear_jwt # NULL => heap[ptr.ear_jwt] = Named("ear_fn")
       /\ ptr.ear_jwt_cstr # NULL =>
            heap[ptr.ear_jwt_cstr] = Append(Named("ear_fn"), 0)

(* The call in progress is about it, and so is what the library accepted.  *)
CallTrue ==
  /\ now \in Nat \ {0}
  /\ pending # NULL =>
       /\ pending.h = "ear" /\ pending.since \in Nat \ {0}
       /\ ~ changed => /\ pending.token = TokenNamed
                       /\ pending.key = Named("key_fn")
                       /\ pending.alg = args["alg"]
  /\ claims["ear"] # NULL /\ ~ changed =>
       claims["ear"].token = TokenNamed /\ TokenGenuine

(* So is what it said of the record.                                       *)
ResultTrue ==
  /\ pc \in Verdict => verified
  /\ pc = "report" => claims["ear"] # NULL
  /\ pc = "report" /\ result.ok /\ ~ changed => TierTrue(result.val)

(* And so is what was printed.                                             *)
PrintedTrue ==
  pc = "done" /\ status = 0 /\ ~ changed =>
    /\ verified /\ TokenGenuine
    /\ shown.rec = args["app_rec"] /\ TierTrue(shown.tier)

Truth == ReadTrue /\ CallTrue /\ ResultTrue /\ PrintedTrue

-----------------------------------------------------------------------------
(* Nothing has been read, called or printed at the start.                  *)
LEMMA TruthInit == Init => Truth
<1> SUFFICES ASSUME Init PROVE Truth
  OBVIOUS
<1>1. ptr.key = NULL /\ ptr.ear_jwt = NULL /\ ptr.ear_jwt_cstr = NULL
  BY DEF Init, NoPointers, Pointers
<1>2. claims["ear"] = NULL /\ pending = NULL /\ now = 1
  BY DEF Init, Lib!Init
<1> QED
  BY <1>1, <1>2 DEF Init, Truth, ReadTrue, CallTrue, ResultTrue, PrintedTrue,
                    Verdict

(* Nothing has been read or called while options are parsed.               *)
LEMMA TruthParsing ==
  IInv /\ Truth /\ (ParseOption \/ ParseFile \/ usage) => Truth'
<1> SUFFICES ASSUME IInv, Truth, ParseOption \/ ParseFile \/ usage
             PROVE  Truth'
  OBVIOUS
<1>1. /\ pc = "getopt" /\ pc' \in {"getopt", "fopen", "done"}
      /\ pc' = "done" => status' = 1
      /\ UNCHANGED <<ptr, fp, claims, pending, now>>
  BY DEF ParseOption, ParseFile, usage, At, memory, reading, lib
<1>2. ptr = NoPointers /\ claims["ear"] = NULL /\ pending = NULL /\ fp = NULL
  BY <1>1 DEF IInv, PointersMatchStep, HandleMatchesStep, BlocksOwned,
              Parsing, Verdict
<1>3. ptr'.key = NULL /\ ptr'.ear_jwt = NULL /\ ptr'.ear_jwt_cstr = NULL
  BY <1>1, <1>2 DEF NoPointers, Pointers
<1> QED
  BY <1>1, <1>2, <1>3 DEF Truth, ReadTrue, CallTrue, ResultTrue, PrintedTrue,
                          Verdict

(* A file that is as long as it was counted is read whole.                 *)
LEMMA TruthReading ==
  IInv /\ Truth /\ (Open \/ Size \/ Malloc \/ Read) => Truth'
<1> SUFFICES ASSUME IInv, Truth, Open \/ Size \/ Malloc \/ Read PROVE Truth'
  OBVIOUS
<1> USE DEF world, memory, output, lib, parsing, At
<1>0. TypeOK /\ Allocated = Owned /\ Apart(ptr)
  BY OwnedIs DEF IInv
<1>1. /\ pc \in Reading
      /\ ptr["ear_jwt"] = NULL /\ ptr["ear_jwt_cstr"] = NULL
      /\ ptr["b"] # NULL <=> pc = "fread"
      /\ claims["ear"] = NULL /\ pending = NULL
      /\ fp # NULL <=> pc \in {"ftell", "malloc", "fread"}
  BY DEF Open, Size, Malloc, Read, Reading, IInv, PointersMatchStep,
         HandleMatchesStep, Verdict, BlocksOwned
<1>2. /\ UNCHANGED <<files, args, changed, lib>>
      /\ pc' \notin Verdict \cup {"done"}
  BY DEF Open, Size, Malloc, Read, ReadFails, Verdict
<1>3. CallTrue' /\ ResultTrue' /\ PrintedTrue'
  BY <1>1, <1>2 DEF Truth, CallTrue, ResultTrue, PrintedTrue, Verdict
<1> SUFFICES ReadTrue'
  BY <1>3 DEF Truth
<1>4. ~ changed /\ ptr["key"] # NULL => heap[ptr["key"]] = Named("key_fn")
  BY DEF Truth, ReadTrue
<1>f. ASSUME ReadFails PROVE ReadTrue'
  <2>1. /\ ptr'["key"] = ptr["key"] /\ ptr'["ear_jwt"] = NULL
        /\ ptr'["ear_jwt_cstr"] = NULL
        /\ ptr["key"] # NULL => heap'[ptr["key"]] = heap[ptr["key"]]
    BY <1>0, <1>1, <1>f, ReadFailsFact DEF Pointers
  <2>2. fp' = NULL /\ pc' = "err"
    BY <1>f DEF ReadFails
  <2> QED
    BY <1>2, <1>4, <2>1, <2>2 DEF ReadTrue, Named
<1>5. CASE Open
  <2>1. CASE ReadFails
    BY <2>1, <1>f
  <2>2. CASE fp' = TargetName /\ pc' = "ftell" /\ UNCHANGED <<sz, memory>>
    BY <1>1, <1>2, <1>4, <2>2 DEF ReadTrue, Named, TargetName
  <2> QED
    BY <1>5, <2>1, <2>2 DEF Open
<1>6. CASE Size
  BY <1>1, <1>2, <1>4, <1>6 DEF Size, Truth, ReadTrue, Named, TargetName
<1>7. CASE Malloc
  <2>1. CASE ReadFails
    BY <2>1, <1>f
  <2>2. CASE ~ ReadFails
    <3>1. PICK p \in FreeAddr : /\ heap' = [heap EXCEPT ![p] = <<>>]
                                /\ ptr' = [ptr EXCEPT !.b = p]
      BY <1>7, <2>2 DEF Malloc
    <3>2. pc = "malloc" /\ sz # -1 /\ pc' = "fread" /\ UNCHANGED reading
      BY <1>7, <2>2 DEF Malloc
    <3>3. /\ \A w \in Pointers \ {"b"} : ptr'[w] = ptr[w]
          /\ \A w \in Pointers : ptr[w] # NULL => heap'[ptr[w]] = heap[ptr[w]]
      <4>1. ptr["b"] = NULL /\ "b" \in Pointers /\ <<>> \in Seq(Byte)
        BY <1>1, <3>2 DEF Pointers
      <4> QED
        BY <4>1, <3>1, <1>0, AllocationFact
    <3>4. /\ ptr'["key"] = ptr["key"] /\ ptr'["ear_jwt"] = NULL
          /\ ptr'["ear_jwt_cstr"] = NULL
          /\ ptr["key"] # NULL => heap'[ptr["key"]] = heap[ptr["key"]]
      BY <1>1, <3>3 DEF Pointers
    <3>5. ~ changed => sz = Len(files[fp])
      BY <3>2 DEF Truth, ReadTrue
    <3>6. fp # NULL => fp = TargetName
      BY DEF Truth, ReadTrue
    <3> QED
      BY <1>2, <1>4, <3>2, <3>4, <3>5, <3>6
         DEF ReadTrue, Named, TargetName, reading
  <2> QED
    BY <2>1, <2>2
<1>8. CASE Read
  <2>1. CASE ReadFails
    BY <2>1, <1>f
  <2>2. CASE ~ ReadFails
    <3> DEFINE bytes == SubSeq(files[fp], 1, sz)
    <3>1. /\ OneItem(sz, files[fp])
          /\ heap' = [heap EXCEPT ![ptr.b] = bytes]
          /\ ptr' = [ptr EXCEPT ![Target] = ptr.b, !.b = NULL]
          /\ fp' = NULL /\ pc = "fread"
          /\ pc' = IF Target = "key" THEN "fopen" ELSE "to_cstr"
      BY <1>8, <2>2 DEF Read
    <3>2. PICK s \in Seq(Byte) : s = files[fp]
      <4>1. fp \in FileName
        BY <1>0, <1>1, <3>1 DEF TypeOK
      <4> QED
        BY <1>0, <4>1, ContentAssumption DEF TypeOK
    <3> HIDE DEF bytes
    <3>3. bytes \in Seq(Byte) /\ (~ changed => bytes = files[fp])
      <4>1. OneItem(sz, s) /\ bytes = SubSeq(s, 1, sz)
        BY <3>1, <3>2 DEF bytes
      <4>a. sz \in Int
        BY <1>0 DEF TypeOK
      <4>b. ~ changed => sz = Len(files[fp])
        BY <3>1 DEF Truth, ReadTrue
      <4>2. sz \in Int /\ (~ changed => sz = Len(s))
        BY <4>a, <4>b, <3>2
      <4>3. sz \in 1..Len(s)
        BY <4>1, <4>2 DEF OneItem
      <4> QED
        BY <3>2, <4>1, <4>2, <4>3, PrefixFact
    <3>4. /\ Target \in {"key", "ear_jwt"} /\ ptr[Target] = NULL
          /\ Target = "ear_jwt" => ptr["key"] # NULL
          /\ ptr["b"] # NULL
      BY <1>1, <3>1 DEF Target
    <3>5. /\ ptr'[Target] # NULL
          /\ heap'[ptr'[Target]] = bytes
          /\ \A w \in Pointers \ {"b", Target} :
               /\ ptr'[w] = ptr[w]
               /\ ptr[w] # NULL => heap'[ptr[w]] = heap[ptr[w]]
      BY <1>0, <3>1, <3>3, <3>4, ReadFact DEF Pointers
    <3>6. ~ changed => bytes = IF Target = "key" THEN Named("key_fn")
                                                 ELSE Named("ear_fn")
      <4>1. fp = TargetName
        BY <1>1, <3>1 DEF Truth, ReadTrue
      <4> QED
        BY <3>3, <4>1 DEF TargetName, Target, Named
    <3>7. /\ ptr'["ear_jwt_cstr"] = NULL
          /\ ~ changed /\ ptr'["key"] # NULL =>
               heap'[ptr'["key"]] = Named("key_fn")
          /\ ~ changed /\ ptr'["ear_jwt"] # NULL =>
               heap'[ptr'["ear_jwt"]] = Named("ear_fn")
      <4>1. CASE Target = "key"
        BY <1>1, <3>5, <3>6, <4>1 DEF Pointers
      <4>2. CASE Target = "ear_jwt"
        BY <1>1, <1>4, <3>4, <3>5, <3>6, <4>2 DEF Pointers
      <4> QED
        BY <3>4, <4>1, <4>2
    <3> QED
      BY <1>2, <3>1, <3>7 DEF ReadTrue, Named
  <2> QED
    BY <2>1, <2>2
<1> QED
  BY <1>5, <1>6, <1>7, <1>8

(* A status string is answered with its code.                              *)
LEMMA TierFact ==
  ASSUME NEW i \in DOMAIN Lib!TierName
  PROVE  tiers[Lib!TierName[i]] = i - 1
<1>1. i \in 1..4
  BY DEF Lib!TierName
<1> QED
  BY <1>1 DEF Lib!TierName, tiers, EAR_TIER_NONE, EAR_TIER_AFFIRMING,
              EAR_TIER_WARNING, EAR_TIER_CONTRAINDICATED

(* main passes on what it has read, and prints what it is told.            *)
LEMMA TruthMain ==
  IInv /\ Truth
    /\ (to_cstr \/ CallVerify \/ VerifyFailed \/ Verified \/ GetStatus
          \/ StatusFailed \/ StatusShown \/ Cleanup) => Truth'
<1> SUFFICES ASSUME IInv, Truth,
                    to_cstr \/ CallVerify \/ VerifyFailed \/ Verified
                      \/ GetStatus \/ StatusFailed \/ StatusShown \/ Cleanup
             PROVE  Truth'
  OBVIOUS
<1> USE DEF world, reading, parsing, At
<1>0. TypeOK /\ Allocated = Owned /\ Apart(ptr)
  BY OwnedIs DEF IInv
<1>1. /\ UNCHANGED <<files, args, changed, fp, sz>>
      /\ fp = NULL /\ pc' \notin {"malloc", "fread"}
  BY DEF to_cstr, CallVerify, VerifyFailed, Verified, GetStatus,
         StatusFailed, StatusShown, Cleanup, IInv, BlocksOwned
<1>n. /\ UNCHANGED <<Named("key_fn"), Named("ear_fn"), TokenNamed>>
      /\ \A tier : TierTrue(tier)' <=> TierTrue(tier)
      /\ UNCHANGED now => UNCHANGED TokenGenuine
  BY <1>1 DEF Named, TokenNamed, TierTrue, TokenGenuine
<1>m. UNCHANGED memory => ReadTrue'
  BY <1>1, <1>n DEF memory, Truth, ReadTrue, TargetName
<1>z. ptr' = NoPointers => ReadTrue'
  BY <1>1 DEF NoPointers, Pointers, ReadTrue
<1>l. UNCHANGED lib => CallTrue'
  BY <1>1, <1>n DEF lib, Truth, CallTrue
<1>2. CASE to_cstr
  <2>1. /\ pc = "to_cstr" /\ pc' \in {"verify", "crashed"} /\ UNCHANGED lib
        /\ ptr["ear_jwt"] # NULL /\ ptr["ear_jwt_cstr"] = NULL
    BY <1>2 DEF to_cstr, IInv, PointersMatchStep
  <2>2. CallTrue' /\ ResultTrue' /\ PrintedTrue'
    BY <1>l, <2>1 DEF ResultTrue, PrintedTrue, Verdict
  <2>3. CASE UNCHANGED memory
    BY <2>2, <2>3, <1>m DEF Truth
  <2>4. CASE ~ UNCHANGED memory
    <3>1. PICK p \in FreeAddr :
            /\ heap' = [heap EXCEPT ![p] = Append(heap[ptr.ear_jwt], 0)]
            /\ ptr' = [ptr EXCEPT !.ear_jwt_cstr = p]
      BY <1>2, <2>4 DEF to_cstr
    <3>2. Append(heap[ptr.ear_jwt], 0) \in Seq(Byte)
      <4>1. heap[ptr["ear_jwt"]] \in Seq(Byte)
        BY <1>0, <2>1 DEF TypeOK, Allocated, Owned, Pointer, Pointers
      <4> QED
        BY <4>1 DEF Byte
    <3>3. /\ ptr'["ear_jwt_cstr"] = p
          /\ heap'[p] = Append(heap[ptr.ear_jwt], 0)
          /\ \A w \in Pointers \ {"ear_jwt_cstr"} : ptr'[w] = ptr[w]
          /\ \A w \in Pointers : ptr[w] # NULL => heap'[ptr[w]] = heap[ptr[w]]
      BY <1>0, <2>1, <3>1, <3>2, AllocationFact DEF Pointers
    <3>4. /\ ptr'["key"] = ptr["key"] /\ ptr'["ear_jwt"] = ptr["ear_jwt"]
          /\ ptr["key"] # NULL => heap'[ptr["key"]] = heap[ptr["key"]]
          /\ heap'[ptr["ear_jwt"]] = heap[ptr["ear_jwt"]]
      BY <2>1, <3>3 DEF Pointers
    <3>5. ReadTrue'
      BY <1>1, <1>n, <2>1, <3>3, <3>4 DEF Truth, ReadTrue
    <3> QED
      BY <2>2, <3>5 DEF Truth
  <2> QED
    BY <2>3, <2>4
<1>3. CASE CallVerify
  <2>1. /\ UNCHANGED memory /\ pc = "verify" /\ pc' = "verifying"
        /\ pending' = [h     |-> "ear",
                       token |-> TokenOf(CStr(heap[ptr.ear_jwt_cstr])),
                       key   |-> heap[ptr.key],
                       alg   |-> args.alg,
                       since |-> now]
        /\ claims[pending'.h] = NULL /\ UNCHANGED <<claims, now>>
    BY <1>3 DEF CallVerify, Lib!CallVerify
  <2>2. /\ ptr["key"] # NULL /\ ptr["ear_jwt"] # NULL
        /\ ptr["ear_jwt_cstr"] # NULL
    BY <2>1 DEF IInv, PointersMatchStep, Verifying
  <2>3. ASSUME ~ changed
        PROVE  /\ heap[ptr["key"]] = Named("key_fn")
               /\ CStr(heap[ptr["ear_jwt_cstr"]]) = CStr(Named("ear_fn"))
    <3>1. heap[ptr["ear_jwt"]] \in Seq(Byte)
      BY <1>0, <2>2 DEF TypeOK, Allocated, Owned, Pointer, Pointers
    <3>2. /\ heap[ptr["key"]] = Named("key_fn")
          /\ heap[ptr["ear_jwt"]] = Named("ear_fn")
          /\ heap[ptr["ear_jwt_cstr"]] = Append(Named("ear_fn"), 0)
      BY <2>2, <2>3 DEF Truth, ReadTrue
    <3> QED
      BY <3>1, <3>2, CStrFact
  <2>4. CallTrue'
    <3>1. /\ pending'.h = "ear" /\ pending'.since = now
          /\ pending'.token = TokenOf(CStr(heap[ptr["ear_jwt_cstr"]]))
          /\ pending'.key = heap[ptr["key"]] /\ pending'.alg = args["alg"]
      BY <2>1
    <3>2. claims'["ear"] = NULL /\ now' \in Nat \ {0} /\ now \in Nat \ {0}
      BY <2>1, <3>1 DEF Truth, CallTrue
    <3>3. ~ changed => pending'.token = TokenNamed
      BY <2>3, <3>1 DEF TokenNamed
    <3> QED
      BY <1>1, <1>n, <2>3, <3>1, <3>2, <3>3 DEF CallTrue
  <2> QED
    BY <1>m, <2>1, <2>4 DEF Truth, ResultTrue, PrintedTrue, Verdict
<1>4. CASE VerifyFailed \/ StatusFailed
  <2>1. UNCHANGED <<memory, lib>> /\ pc' = "err"
    BY <1>4 DEF VerifyFailed, StatusFailed
  <2> QED
    BY <1>l, <1>m, <2>1 DEF Truth, ResultTrue, PrintedTrue, Verdict
<1>5. CASE Verified
  <2>1. /\ ptr' = NoPointers /\ UNCHANGED lib
        /\ pc' = "status" /\ verified'
    BY <1>5 DEF Verified, AfterVerified
  <2> QED
    BY <1>l, <1>z, <2>1 DEF Truth, ResultTrue, PrintedTrue, Verdict
<1>6. CASE GetStatus
  <2>1. /\ UNCHANGED <<memory, claims, pending, now, verified>>
        /\ pc = "status" /\ pc' = "report" /\ claims["ear"] # NULL
        /\ Lib!GetStatus("ear", args.app_rec)
    BY <1>6 DEF GetStatus, Lib!GetStatus, Lib!Query, output
  <2>2. CallTrue'
    BY <1>1, <1>n, <2>1 DEF Truth, CallTrue
  <2>3. ASSUME result'.ok, ~ changed PROVE TierTrue(result'.val)
    <3>1. claims["ear"].token = TokenNamed
      BY <2>1, <2>3 DEF Truth, CallTrue
    <3>2. Lib!Recs("ear") = TokenNamed.submods.recs
      BY <3>1 DEF Lib!Recs
    <3>3. PICK i \in DOMAIN Lib!TierName :
            /\ Lib!TierName[i] = TokenNamed.submods.recs[args["app_rec"]].status
            /\ result'.val = i - 1
      BY <2>1, <2>3, <3>2 DEF Lib!GetStatus, Lib!Outcome
    <3> QED
      BY <3>3, TierFact DEF TierTrue
  <2>4. ResultTrue'
    <3>1. (pc = "report" /\ result.ok /\ ~ changed => TierTrue(result.val))'
      BY <1>1, <1>n, <2>3
    <3> QED
      BY <2>1, <3>1 DEF Truth, ResultTrue, Verdict
  <2> QED
    BY <1>m, <2>1, <2>2, <2>4 DEF Truth, PrintedTrue
<1>7. CASE StatusShown
  <2>1. /\ UNCHANGED <<memory, pending, now, verified>> /\ pc = "report"
        /\ result.ok /\ shown' = [rec |-> args.app_rec, tier |-> result.val]
        /\ claims' = [claims EXCEPT !["ear"] = NULL]
        /\ pc' = "done"
    BY <1>7 DEF StatusShown, Lib!FreeHandle
  <2>2. claims'["ear"] = NULL
    BY <2>1 DEF IInv, HandleMatchesStep
  <2>3. CallTrue'
    BY <1>1, <1>n, <2>1, <2>2 DEF Truth, CallTrue
  <2>4. shown'.rec = args["app_rec"] /\ shown'.tier = result.val
    BY <2>1
  <2>5. ~ changed => verified /\ TokenGenuine /\ TierTrue(result.val)
    BY <2>1 DEF Truth, CallTrue, ResultTrue, Verdict
  <2>6. PrintedTrue'
    BY <1>1, <1>n, <2>1, <2>4, <2>5 DEF PrintedTrue
  <2> QED
    BY <1>m, <2>1, <2>3, <2>6 DEF Truth, ResultTrue, Verdict
<1>8. CASE Cleanup
  <2>1. /\ ptr' = NoPointers /\ pc' = "done" /\ status' = -1
        /\ UNCHANGED <<pending, now>>
        /\ claims'["ear"] = NULL
    BY <1>8 DEF Cleanup, HandleFreed, Lib!FreeHandle, lib, IInv,
                HandleMatchesStep
  <2>2. CallTrue'
    BY <1>1, <1>n, <2>1 DEF Truth, CallTrue
  <2> QED
    BY <1>z, <2>1, <2>2 DEF Truth, ResultTrue, PrintedTrue, Verdict
<1> QED
  BY <1>2, <1>3, <1>4, <1>5, <1>6, <1>7, <1>8

(* The library accepts what is genuine; a file that is written to meanwhile*)
(* ends what is known of it, and nothing else.                             *)
LEMMA TruthOthers ==
  IInv /\ Truth /\ (LibStep \/ Tick \/ UNCHANGED vars) => Truth'
<1> SUFFICES ASSUME IInv, Truth, LibStep \/ Tick \/ UNCHANGED vars
             PROVE  Truth'
  OBVIOUS
<1> USE DEF world, reading, parsing, memory, output
<1>1. UNCHANGED <<args, pc, ptr, heap, fp, sz, verified, shown, status>>
  BY DEF LibStep, Tick, vars
<1>2. now \in Nat \ {0}
  BY DEF Truth, CallTrue
<1>3. CASE LibStep
  <2>1. /\ UNCHANGED <<files, changed, now>> /\ pending # NULL
        /\ pending' = NULL
        /\ Lib!Accept \/ UNCHANGED claims
    BY <1>3 DEF LibStep, Lib!Accept, Lib!Reject
  <2>2. pc = "verifying"
    BY <2>1 DEF IInv, HandleMatchesStep
  <2>n. /\ UNCHANGED <<Named("key_fn"), Named("ear_fn"), TokenNamed>>
        /\ TokenGenuine' <=> TokenGenuine
    BY <1>1, <2>1 DEF Named, TokenNamed, TokenGenuine
  <2>3. ReadTrue' /\ ResultTrue' /\ PrintedTrue'
    BY <1>1, <2>1, <2>2, <2>n DEF Truth, ReadTrue, ResultTrue, PrintedTrue,
                                 TargetName, Verdict
  <2>4. ASSUME Lib!Accept, ~ changed
        PROVE  claims'["ear"].token = TokenNamed /\ TokenGenuine
    <3>1. /\ pending.h = "ear" /\ pending.since \in Nat \ {0}
          /\ pending.token = TokenNamed /\ pending.key = Named("key_fn")
          /\ pending.alg = args["alg"]
      BY <2>1, <2>4 DEF Truth, CallTrue
    <3>2. Lib!Genuine(pending)
          /\ claims' = [claims EXCEPT ![pending.h] = [token |-> pending.token]]
      BY <2>4 DEF Lib!Accept
    <3>3. "ear" \in DOMAIN claims
      BY DEF IInv, HandleMatchesStep
    <3>4. claims'["ear"].token = TokenNamed
      BY <3>1, <3>2, <3>3
    <3>5. PICK time \in pending.since..now : Lib!InWindow(TokenNamed, time)
      BY <3>1, <3>2 DEF Lib!Genuine
    <3>6. time \in 1..now
      BY <1>2, <3>1, <3>5
    <3> QED
      BY <3>1, <3>2, <3>4, <3>5, <3>6
         DEF Lib!Genuine, Lib!EAR_PROFILE, EAR_PROFILE, TokenGenuine
  <2>5. CallTrue'
    BY <1>1, <2>1, <2>4, <2>n DEF Truth, CallTrue
  <2> QED
    BY <2>3, <2>5 DEF Truth
<1>4. CASE Tick
  <2>1. /\ now' = now + 1 /\ UNCHANGED <<claims, pending, result>>
        /\ changed' \/ UNCHANGED <<files, changed>>
    BY <1>4 DEF Tick, Lib!Tick
  <2>2. now' \in Nat \ {0} /\ 1..now \subseteq 1..now'
    BY <1>2, <2>1
  <2>3. CASE changed'
    BY <1>1, <2>1, <2>2, <2>3
       DEF Truth, ReadTrue, CallTrue, ResultTrue, PrintedTrue, TargetName
  <2>4. CASE UNCHANGED <<files, changed>>
    <3>1. /\ UNCHANGED <<Named("key_fn"), Named("ear_fn"), TokenNamed>>
          /\ TokenGenuine => TokenGenuine'
          /\ \A tier : TierTrue(tier)' <=> TierTrue(tier)
      BY <1>1, <2>2, <2>4 DEF Named, TokenNamed, TokenGenuine, TierTrue
    <3>2. ReadTrue' /\ CallTrue'
      BY <1>1, <2>1, <2>2, <2>4, <3>1
         DEF Truth, ReadTrue, CallTrue, TargetName
    <3>3. ResultTrue' /\ PrintedTrue'
      BY <1>1, <2>1, <2>4, <3>1 DEF Truth, ResultTrue, PrintedTrue
    <3> QED
      BY <3>2, <3>3 DEF Truth
  <2> QED
    BY <2>1, <2>3, <2>4
<1>5. CASE UNCHANGED vars
  <2>1. UNCHANGED <<files, changed, claims, pending, result, now>>
    BY <1>5 DEF vars, lib
  <2>2. /\ UNCHANGED <<Named("key_fn"), Named("ear_fn"), TokenNamed>>
        /\ TokenGenuine' <=> TokenGenuine
        /\ \A tier : TierTrue(tier)' <=> TierTrue(tier)
    BY <1>1, <2>1 DEF Named, TokenNamed, TokenGenuine, TierTrue
  <2> QED
    BY <1>1, <2>1, <2>2 DEF Truth, ReadTrue, CallTrue, ResultTrue,
                            PrintedTrue, TargetName
<1> QED
  BY <1>3, <1>4, <1>5

(* Whatever is stored, read, passed on, answered and printed is true.      *)
LEMMA AlwaysTrue == Spec => [](IInv /\ OptionsStored /\ Truth)
<1>1. IInv /\ Truth /\ [Next]_vars => Truth'
  BY TruthParsing, TruthReading, TruthMain, TruthOthers
     DEF Next, ToolStep, Exited
<1> QED
  BY <1>1, TruthInit, AlwaysStored, PTL DEF Spec

(* Names that fit are stored as they are.                                  *)
LEMMA NamesKept ==
  ASSUME OptionsStored, NamesFit, pc = "done", status = 0
  PROVE  /\ args["key_fn"] = Asked("k") /\ args["alg"] = Asked("a")
         /\ args["app_rec"] = Asked("s") /\ args["ear_fn"] = argv.file
<1>1. /\ \A flag \in DOMAIN OptionField : HoldsLast(flag, Len(argv.opts))
      /\ argv.file \in Seq(Char) /\ args["ear_fn"] = Copied(argv.file, FnSize)
  BY DEF OptionsStored
<1>2. \A flag \in DOMAIN OptionField :
        /\ Asked(flag) \in Seq(Char)
        /\ args[OptionField[flag]] =
             Copied(Asked(flag), FieldSize[OptionField[flag]])
  BY <1>1, AskedIs DEF HoldsLast
<1>3. /\ Asked("k") \in Seq(Char) /\ Asked("a") \in Seq(Char)
      /\ Asked("s") \in Seq(Char)
      /\ args["key_fn"] = Copied(Asked("k"), FnSize)
      /\ args["alg"] = Copied(Asked("a"), AlgSize)
      /\ args["app_rec"] = Copied(Asked("s"), RecSize)
  BY <1>2, FieldFact
<1> QED
  BY <1>1, <1>3, CopiedFact, SizesAssumption DEF NamesFit

(* A program that exits with 0 has printed the truth about the token, the  *)
(* key, the algorithm and the record it was asked about, unless a name was *)
(* too long for its field or somebody wrote to the files.                  *)
THEOREM EndToEndAlways == Spec => []EndToEnd
<1>1. IInv /\ OptionsStored /\ Truth => EndToEnd
  <2> SUFFICES ASSUME OptionsStored, Truth, pc = "done", status = 0,
                      NamesFit, ~ changed
               PROVE  EndToEnd
    BY DEF EndToEnd
  <2>1. /\ verified /\ TokenGenuine
        /\ shown.rec = args["app_rec"] /\ TierTrue(shown.tier)
    BY DEF Truth, PrintedTrue
  <2>2. /\ TokenNamed = TokenOf(CStr(files[argv.file]))
        /\ Named("key_fn") = files[Asked("k")]
        /\ args["alg"] = Asked("a") /\ args["app_rec"] = Asked("s")
    BY NamesKept DEF TokenNamed, Named
  <2> QED
    BY <2>1, <2>2 DEF EndToEnd, TokenGenuine, TierTrue
<1> QED
  BY <1>1, AlwaysTrue, PTL

=============================================================================
