----------------------------- MODULE VerifyTool -----------------------------
(***************************************************************************)
(* The example program src/example/verify.c: it parses its options, reads  *)
(* the key and the token from two files, and asks the library for a        *)
(* verdict and for the status of one appraisal record.  The library is     *)
(* module EarApi: every call of it is one of its actions, joined with what *)
(* the program does around it.  Around the program the clock ticks and     *)
(* somebody may write to the files.                                        *)
(*                                                                         *)
(* A file, a key and a string are sequences of bytes; a C string in memory *)
(* ends in a 0.                                                            *)
(***************************************************************************)
EXTENDS EarClaims, StrlCpyRef, FiniteSets

CONSTANTS
  Addr,         \* addresses of heap blocks
  Argv,         \* command lines: [opts: Seq([flag, val]), file: Seq(Char)]
                \* where file is NULL if none is named
  FileName,     \* names of the files there are
  Content,      \* what a file may hold
  Token,        \* what libjwt may find in a text
  TokenOf(_),   \* what it finds in this one
  KnownAlg,     \* the algorithm names it knows
  FnSize, AlgSize, RecSize,     \* sizes of the fields of args_t
  MaxTime       \* bound on the clock

ASSUME SizesAssumption == {FnSize, AlgSize, RecSize} \subseteq Nat \ {0}

ASSUME NullAssumption == NULL \notin Addr /\ NULL \notin Seq(Byte)

ASSUME ArgvAssumption ==
  \A a \in Argv : /\ a.opts \in Seq([flag : STRING, val : Seq(Char)])
                  /\ a.file \in Seq(Char) \cup {NULL}

ASSUME MaxTimeAssumption == MaxTime \in Nat \ {0}

ASSUME ContentAssumption == Content \subseteq Seq(Byte)

VARIABLES
  argv,         \* the command line
  optind,       \* the options getopt has returned
  args,         \* what parse_opts has stored
  files,        \* name -> content
  changed,      \* whether one has been written to
  pc,           \* the next step
  ptr,          \* the pointers of main, and b of read_from_file
  fp, sz,       \* the other locals of read_from_file; fp names the file
  heap,         \* address -> bytes, or NULL where nothing is allocated
  verified,     \* whether "EAR verified" has been printed
  shown,        \* the record and tier printed, or NULL
  status,       \* the exit status, NULL before
  claims, pending, result, now      \* module EarApi's

Lib == INSTANCE EarApi WITH Handle <- {"ear"}, Key <- Seq(Byte),
                            Alg <- Seq(Char), AppRec <- Seq(Char)

lib     == <<claims, pending, result, now>>
world   == <<argv, files, changed>>
parsing == <<optind, args>>
reading == <<fp, sz>>
memory  == <<ptr, heap>>
output  == <<verified, shown, status>>
vars    == <<world, parsing, pc, reading, memory, output, lib>>

At(step) == pc = step

-----------------------------------------------------------------------------
(* Memory                                                                  *)

FreeAddr == {a \in Addr : heap[a] = NULL}

Released(S) == [a \in Addr |-> IF a \in S THEN NULL ELSE heap[a]]

Owned == {ptr[v] : v \in DOMAIN ptr} \ {NULL}

(* b without its initialisation.                                          *)
Pointers == {"key", "ear_jwt", "ear_jwt_cstr", "b"}
NoPointers_uninitialised == [v \in Pointers |-> IF v = "b" THEN 0 ELSE NULL]
NoPointers == [v \in Pointers |-> NULL]

(* The string at the start of a block.                                     *)
CStr(bytes) ==
  LET Ends == {i \in 1..Len(bytes) : bytes[i] = 0}
  IN  IF Ends = {} THEN bytes
      ELSE SubSeq(bytes, 1, (CHOOSE i \in Ends : \A j \in Ends : i <= j) - 1)

-----------------------------------------------------------------------------
(* parse_opts                                                              *)

(* The fields of args_t; u_strlcpy puts an option into one.                *)
FieldSize == [key_fn |-> FnSize, ear_fn |-> FnSize,
              alg |-> AlgSize, app_rec |-> RecSize]

OptionField == [a |-> "alg", k |-> "key_fn", s |-> "app_rec"]

(* An option given twice: the last one counts.                             *)
Stored_first(field, s) ==
  IF args[field] = <<>> THEN Copied(s, FieldSize[field]) ELSE args[field]
Stored(field, s) == Copied(s, FieldSize[field])

Store(field, s) == args' = [args EXCEPT ![field] = Stored(field, s)]

ParseOption ==
  /\ At("getopt")
  /\ optind < Len(argv.opts)
  /\ argv.opts[optind + 1].flag \in DOMAIN OptionField
  /\ Store(OptionField[argv.opts[optind + 1].flag], argv.opts[optind + 1].val)
  /\ optind' = optind + 1
  /\ UNCHANGED <<world, pc, reading, memory, output, lib>>

ParseFile ==
  /\ At("getopt")
  /\ optind = Len(argv.opts)
  /\ argv.file # NULL
  /\ Store("ear_fn", argv.file)
  /\ pc' = "fopen"
  /\ UNCHANGED <<world, optind, reading, memory, output, lib>>

(* exit(EXIT_FAILURE)                                                      *)
usage ==
  /\ At("getopt")
  /\ \/ /\ optind < Len(argv.opts)
        /\ argv.opts[optind + 1].flag \notin DOMAIN OptionField
     \/ optind = Len(argv.opts) /\ argv.file = NULL
  /\ pc' = "done" /\ status' = 1
  /\ UNCHANGED <<world, parsing, reading, memory, verified, shown, lib>>

-----------------------------------------------------------------------------
(* read_from_file, called for the key and then for the token               *)

Target == IF ptr.key = NULL THEN "key" ELSE "ear_jwt"
TargetName == IF ptr.key = NULL THEN args.key_fn ELSE args.ear_fn

(* "goto err", its fclose and free, and main's own "goto err".             *)
ReadFreed_not(p) == {}
ReadFreed(p) == {p}

ReadFails ==
  /\ heap' = Released(ReadFreed(ptr.b))
  /\ ptr' = [ptr EXCEPT !.b = NULL]
  /\ fp' = NULL
  /\ pc' = "err"
  /\ UNCHANGED sz

(* fopen and fseek.                                                        *)
Open ==
  /\ At("fopen")
  /\ \/ /\ TargetName \in FileName
        /\ fp' = TargetName
        /\ pc' = "ftell"
        /\ UNCHANGED <<sz, memory>>
     \/ ReadFails
  /\ UNCHANGED <<world, parsing, output, lib>>

(* ftell, whose failure nobody tests: what malloc is then asked for, the   *)
(* size -1, no allocator can give.                                         *)
Size ==
  /\ At("ftell")
  /\ sz' \in {Len(files[fp]), -1}
  /\ pc' = "malloc"
  /\ UNCHANGED <<world, parsing, fp, memory, output, lib>>

Malloc ==
  /\ At("malloc")
  /\ \/ /\ sz # -1
        /\ \E p \in FreeAddr : /\ heap' = [heap EXCEPT ![p] = <<>>]
                               /\ ptr' = [ptr EXCEPT !.b = p]
        /\ pc' = "fread"
        /\ UNCHANGED reading
     \/ ReadFails
  /\ UNCHANGED <<world, parsing, output, lib>>

(* fread(b, n, 1, fp) returns 1 when there are n bytes to read; it returns *)
(* 0 when n is 0.                                                          *)
OneItem_if_empty(n, file) == n <= Len(file)
OneItem(n, file) == n > 0 /\ n <= Len(file)

Read ==
  /\ At("fread")
  /\ \/ /\ OneItem(sz, files[fp])
        /\ heap' = [heap EXCEPT ![ptr.b] = SubSeq(files[fp], 1, sz)]
        /\ ptr' = [ptr EXCEPT ![Target] = ptr.b, !.b = NULL]
        /\ fp' = NULL
        /\ pc' = IF Target = "key" THEN "fopen" ELSE "to_cstr"
        /\ UNCHANGED sz
     \/ ReadFails
  /\ UNCHANGED <<world, parsing, output, lib>>

-----------------------------------------------------------------------------
(* main                                                                    *)

(* The string is built in what calloc returned, whatever it is.            *)
to_cstr ==
  /\ At("to_cstr")
  /\ \/ \E p \in FreeAddr :
          /\ heap' = [heap EXCEPT ![p] = Append(heap[ptr.ear_jwt], 0)]
          /\ ptr' = [ptr EXCEPT !.ear_jwt_cstr = p]
          /\ pc' = "verify"
     \/ pc' = "crashed" /\ UNCHANGED memory
  /\ UNCHANGED <<world, parsing, reading, output, lib>>

CallVerify ==
  /\ At("verify")
  /\ pending' = [h     |-> "ear",
                 token |-> TokenOf(CStr(heap[ptr.ear_jwt_cstr])),
                 key   |-> heap[ptr.key],
                 alg   |-> args.alg,
                 since |-> now]
  /\ Lib!CallVerify
  /\ pc' = "verifying"
  /\ UNCHANGED <<world, parsing, reading, memory, output>>

VerifyFailed ==
  /\ At("verifying") /\ pending = NULL /\ ~ result.ok
  /\ pc' = "err"
  /\ UNCHANGED <<world, parsing, reading, memory, output, lib>>

(* The three buffers are freed and their pointers reset.                   *)
AfterVerified_dangling(p) == p
AfterVerified(p) == NoPointers

Verified ==
  /\ At("verifying") /\ pending = NULL /\ result.ok
  /\ heap' = Released(Owned)
  /\ ptr' = AfterVerified(ptr)
  /\ verified' = TRUE
  /\ pc' = "status"
  /\ UNCHANGED <<world, parsing, reading, shown, status, lib>>

GetStatus ==
  /\ At("status")
  /\ Lib!GetStatus("ear", args.app_rec)
  /\ pc' = "report"
  /\ UNCHANGED <<world, parsing, reading, memory, output>>

StatusFailed ==
  /\ At("report") /\ ~ result.ok
  /\ pc' = "err"
  /\ UNCHANGED <<world, parsing, reading, memory, output, lib>>

StatusShown ==
  /\ At("report") /\ result.ok
  /\ shown' = [rec |-> args.app_rec, tier |-> result.val]
  /\ Lib!FreeHandle("ear")
  /\ pc' = "done" /\ status' = 0
  /\ UNCHANGED <<world, parsing, reading, memory, verified>>

(* The label err: every pointer that is set is released, ear included.     *)
HandleFreed_not == UNCHANGED lib
HandleFreed == \/ claims["ear"] # NULL /\ Lib!FreeHandle("ear")
               \/ claims["ear"] = NULL /\ UNCHANGED lib

Cleanup ==
  /\ At("err")
  /\ heap' = Released(Owned)
  /\ ptr' = NoPointers
  /\ HandleFreed
  /\ pc' = "done" /\ status' = -1
  /\ UNCHANGED <<world, parsing, reading, verified, shown>>

-----------------------------------------------------------------------------
(* The others                                                              *)

LibStep == /\ Lib!Accept \/ Lib!Reject
           /\ UNCHANGED <<world, parsing, pc, reading, memory, output>>

(* Time passes, and a file may be written to meanwhile.                    *)
Tick == /\ Lib!Tick
        /\ \/ UNCHANGED <<files, changed>>
           \/ /\ \E f \in FileName, c \in Content :
                   files' = [files EXCEPT ![f] = c]
              /\ changed' = TRUE
        /\ UNCHANGED <<argv, parsing, pc, reading, memory, output>>

Exited == pc \in {"done", "crashed"} /\ UNCHANGED vars

ToolStep ==
  \/ ParseOption \/ ParseFile \/ usage
  \/ Open \/ Size \/ Malloc \/ Read
  \/ to_cstr \/ CallVerify \/ VerifyFailed \/ Verified
  \/ GetStatus \/ StatusFailed \/ StatusShown \/ Cleanup

Init ==
  /\ argv \in Argv
  /\ files \in [FileName -> Content]
  /\ changed = FALSE
  /\ optind = 0
  /\ args = [field \in DOMAIN FieldSize |-> <<>>]
  /\ pc = "getopt"
  /\ ptr = NoPointers /\ fp = NULL /\ sz = 0
  /\ heap = [a \in Addr |-> NULL]
  /\ verified = FALSE /\ shown = NULL /\ status = NULL
  /\ Lib!Init

Next == ToolStep \/ LibStep \/ Tick \/ Exited

Spec == Init /\ [][Next]_vars

-----------------------------------------------------------------------------
(* Types                                                                   *)

Pointer == Addr \cup {NULL}

(* The pointers, the blocks, and what is passed between the steps.         *)
TypeOK ==
  /\ argv \in Argv
  /\ files \in [FileName -> Content]
  /\ optind \in 0..Len(argv.opts)
  /\ args \in [DOMAIN FieldSize -> Seq(Char)]
  /\ ptr \in [Pointers -> Pointer]
  /\ heap \in [Addr -> Seq(Byte) \cup {NULL}]
  /\ fp \in FileName \cup {NULL}
  /\ sz \in Nat \cup {-1}
  /\ status \in {NULL, -1, 0, 1}

-----------------------------------------------------------------------------
(* Safety                                                                  *)

(* Every block is pointed to by exactly one variable: what any of the      *)
(* jumps to "err" frees is live, is freed once, and is all there is.  The  *)
(* file is open between fopen and the end of read_from_file only.          *)
BlocksOwned ==
  /\ {a \in Addr : heap[a] # NULL} = Owned
  /\ \A v, w \in DOMAIN ptr : v # w /\ ptr[v] # NULL => ptr[v] # ptr[w]
  /\ fp # NULL <=> pc \in {"ftell", "malloc", "fread"}
  /\ ptr.b # NULL <=> pc = "fread"

(* Whichever way the program exits, it has freed every block, closed every *)
(* file and released the handle.                                           *)
ExitsClean ==
  pc = "done" => /\ \A a \in Addr : heap[a] = NULL
                 /\ fp = NULL
                 /\ claims["ear"] = NULL /\ pending = NULL

(* The asserts at the head of ear_jwt_verify hold of what main passes; the *)
(* one that is not obvious is that an empty key file never gets that far.  *)
ArgumentsValid ==
  pc \in {"verify", "verifying"} =>
    /\ ptr.ear_jwt_cstr # NULL /\ ptr.key # NULL
    /\ heap[ptr.key] # <<>>
    /\ claims["ear"] # NULL => pending = NULL

(* The value of the last option with this flag, or nothing.                *)
Asked(flag) ==
  LET Given == {i \in 1..Len(argv.opts) : argv.opts[i].flag = flag}
  IN  IF Given = {} THEN <<>>
      ELSE argv.opts[CHOOSE i \in Given : \A j \in Given : i >= j].val

NamesFit == /\ Len(Asked("k")) < FnSize /\ Len(argv.file) < FnSize
            /\ Len(Asked("a")) < AlgSize
            /\ Len(Asked("s")) < RecSize

(* When the program exits with 0, what the options named fits its fields   *)
(* and nobody wrote to the files, then the token in the file named is      *)
(* signed with the key in the file named and the algorithm named, it was   *)
(* valid during the run, and the tier printed is that of the record named. *)
EndToEnd ==
  pc = "done" /\ status = 0 /\ NamesFit /\ ~ changed =>
    LET token == TokenOf(CStr(files[argv.file]))
    IN  /\ verified
        /\ token.signer = files[Asked("k")]
        /\ token.alg = Asked("a") /\ token.alg \in KnownAlg
        /\ \E time \in 1..now : Lib!InWindow(token, time)
        /\ token.profile = EAR_PROFILE
        /\ shown.rec = Asked("s")
        /\ tiers[token.submods.recs[Asked("s")].status] = shown.tier

(* Names that do not fit are cut and never overrun the next field; what is *)
(* printed beside the tier is the name that was looked up.                 *)
NamesCut ==
  /\ \A field \in DOMAIN args : Len(args[field]) < FieldSize[field]
  /\ shown # NULL => \E n \in 0..Len(Asked("s")) :
                        shown.rec = SubSeq(Asked("s"), 1, n)

(* What main's test of to_cstr's result says: a failed allocation is       *)
(* reported, not fatal.                                                    *)
CStrFailureHandled == pc # "crashed"

=============================================================================
