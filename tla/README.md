# A verification of c-ear

TLA+ models of the [veraison/c-ear](../src) library, the TLC runs that check
them and the proofs that TLAPS checks. c-ear verifies an EAT attestation result
(EAR) carried in a JWT and answers questions about it. It is a small sequential
C library. What is hard about it is memory: every call acquires several objects
from three other libraries, every step may fail, and what the caller is given
has an owner that the code states only in comments. The repository also holds an
example program and its own copy of Unity, the framework its tests run under;
both are modelled too.

## The system

| component | source | state | operations |
|---|---|---|---|
| verification | `src/ear.c:31-105`, `221-298` | locals of the call, the `ear_t` under construction | `ear_jwt_verify`, with `validate_profile` and `cache_submods` |
| getters | `src/ear.c:107-219` | none | `ear_get_app_recs`, `ear_get_status`, `ear_veraison_get_akpub` |
| handles and buffers | `src/ear.c:15-29`, `ear_priv.h` | the heap: `ear_t`, `jwt_t`, the submods tree, buffers given to the caller | `ear_free`, `free` by the caller |
| the API's contract | `src/ear.h` | what an open handle stands for | all of the above |
| bounded copy | `src/utils.c:12-34` | destination, two pointers, a counter | `u_strlcpy` |
| base64url | `src/utils.c:40-70`, `src/base64.c` | input, output buffer, pointers and counters | `u_b64url_decode`, `Base64decode_len`, `Base64decode` |
| example program | `example/verify.c` | options, two files' contents, a handle | `main`, `read_from_file`, `to_cstr`, `parse_opts` |
| Unity: runner | `unity/unity.c`, the `RUN_TEST` and abort macros | the record `Unity`: counters, flags, jump buffer | `UNITY_BEGIN`, `RUN_TEST`, `TEST_FAIL`, `TEST_IGNORE`, `TEST_PASS`, `TEST_MESSAGE`, `UNITY_END` |
| Unity: assertions | `unity.c`, the macros of `unity.h` and `unity_internals.h` | arguments, pointers, `CurrentTestFailed` | every family: numbers, bits, arrays, memory, strings, floats |
| Unity: printing | `unity.c:192-490` | number, divisor, digits, buffer | decimal, hexadecimal, mask, float |
| unit tests, build, CI | `test/`, CMake files | | not modelled |

(Paths are relative to `src/`.) The caller calls the library, and the library
calls libjwt (decoding, signature and validity window), jansson (the tree of the
`submods` claim) and the allocator. `main` of the example is such a caller; so
are the unit tests, whose functions `RUN_TEST` calls back between `setjmp` and
the `longjmp` of the first assertion that fails. There are no threads.
Components share state through the heap: a handle owns its `jwt_t` and its
submods tree; the names `ear_get_app_recs` returns point into that tree; the
key buffer that `u_b64url_decode` allocates becomes the caller's. Every message
for the caller goes through `u_strlcpy` into `err_msg`.

What makes each part correct:

- *verification*: on every path exactly what has been acquired is released; a
  handle is given out only for an acceptable token, and complete; no acceptable
  token is refused without a cause; a failure is explained.
- *getters*: they answer from the verified token, whatever calls came before;
  they disturb nothing.
- *handles and buffers*: every block has one owner, who frees it once.
- *u_strlcpy*: in bounds, terminated, right length, for every size down to 0.
- *base64url*: a buffer sized by one function is not overrun by another; the
  bytes are right for every length; malformed tails are cut, not misread.
- *example*: it releases everything on every path, keeps the contract of the
  library, and what it prints is true of the files and options it was given.
- *runner*: the first failure or ignore of a test is its verdict, wherever it
  happens; the summary and the exit status count the verdicts.
- *assertions*: they pass exactly when what they say holds, for every type,
  width and flag; they read nothing outside their arguments (but for one character,
  below); a failure prints what accounts for it.
- *printing*: what is printed reads back as the number, for floats but for the
  roundings of a few products.

What is hard to test here, line by line and with the property that covers it, is
listed under `hazards` in `PROJECT.json`: failures between two acquisitions,
pointers kept after what they point to has been freed, interior pointers, the
clock moving during a call, sizes and counts at their boundaries.

## The modules

| module | models | how |
|---|---|---|
| `EarClaims` | the token and its appraisal records | only what a branch of `ear.c` tells apart |
| `EarApi` | `ear.h`: what a caller may observe | one step per call, two for `ear_jwt_verify`; no memory, no error text |
| `Ear` | `ear.c` over a heap | `ear_jwt_verify` in one step per check; the other calls in one step each |
| `StrlCpyRef` | what `u_strlcpy` makes of a string | one operator |
| `StrlCpy` | `u_strlcpy` | one step per test, round of a loop and return |
| `Base64Ref` | the alphabet, and what decoding means | byte by byte, without a loop |
| `Base64Call` | `u_b64url_decode` as its caller sees it | one step |
| `Base64Url` | `u_b64url_decode` and both functions of `base64.c` | one step per round of a loop |
| `VerifyTool` | `example/verify.c` | one step per option, file operation, allocation and call; the library's steps are `EarApi`'s |
| `UnitySuite` | what a run of tests means | one step per start, verdict and exit |
| `UnityRun` | the runner | one step per operation of a test and per part of `UnityDefaultTestRun` |
| `UnityTypes` | the integer types and display styles | operators: casts, widths, signs |
| `UnityNumbers` | assertions on numbers and bits | one step per call |
| `UnityArrays` | assertions on arrays and memory | one step per entry, element (or byte of memory) and return |
| `UnityStrings` | assertions on strings | one step per entry, character and return |
| `UnityFloats` | assertions on floats | one step per call; arrays as in `UnityArrays` |
| `UnityPrint` | printing of integers | one step per digit |
| `UnityPrintFloat` | printing of floats | one step per scaling, digit and part |
| `UnityCalls` | the six modules above, of which a test calls one at a time | their disjunction |
| `MCEar`, `MCStrlCpy`, `MCBase64Url`, `MCVerifyTool`, `MCUnityRun`, `MCUnityCalls` | instances for TLC | values of the constants only |
| `EarProof`, `StrlCpyProof`, `Base64RefProof`, `Base64UrlProof`, `UnityRunProof`, `VerifyToolProof`, `UnityAssertionsProof`, `UnityCallsProof` | proofs | |

`Ear` extends `EarClaims`, which extends `Base64Ref`: the bytes a getter returns
for a key are `Decoded(akpub)`, and `Base64Url` is checked and proved to compute
them. That a getter may take the call as one step, failing only when there is nothing
to decode or memory is short, is what `Base64Call` says and `Base64Url` implements
(`Call`). `Ear` instantiates `EarApi` with a refinement mapping (`Api`), `UnityRun`
instantiates `UnitySuite` (`Suite`). `VerifyTool` composes the example with
`EarApi`, which stands for the library as its `Lib`; it takes `u_strlcpy` for one
step, with `StrlCpyRef` for the result, which `StrlCpy` is proved to leave.

### Module `Ear` against the code

`heap` maps addresses to blocks: `valid` (a `jwt_valid_t`), `ear`, `jwt`, `text`
(the string of `jwt_get_grants_json`), `json` (the submods tree), `key` (the
buffer of a decoded key), `list` (an array of names). `calloc` and the
constructors of libjwt and jansson take an address from `Pick(FreeAddr)`, or
fail at the sites named in `MayFail`. `jwt_valid`, `ear`, `e` and `submods_js`
are the C locals, `pear` the caller's variables of type `ear_t *`, `err_msg` its
buffer (`NULL` when it passes none, `Junk` before anything is written to it).
`buffers` and `lists` are what the caller has been given and has to free; a list
stays in `lists` while its names may be read.

`pc` is the next step of `ear_jwt_verify`: `jwt_valid_new`, `ear_new`,
`jwt_decode`, `jwt_validate`, `validate_profile`, `jwt_get_grants_json`,
`json_loads` and the label `err`. Between them the clock ticks. The caller is
one thread: no other call starts before one has returned. It keeps to the
contract of `ear.h`: it passes no open handle to `ear_jwt_verify`, calls getters
on open handles only, frees what it was given once, and reads the names in a list
no more once it has freed the handle.

libjwt, jansson and the allocator have no source here. They are modelled by the
way `ear.c` uses them: `Decodes` (the token is signed by the key), `Validates`
(algorithm, window, replicated headers), a `submods` claim that is absent, a
scalar (which `json_loads` refuses) or an object or array (which it loads; the
accessors find no member in an array).

A store through the null pointer that `calloc` returned to `ear_get_app_recs` is
undefined; the model takes the outcome of a platform with memory protection,
the state `crashed`.

### Module `EarApi`

A call of `ear_jwt_verify` is pending from `CallVerify` to `Accept` or `Reject`.
It may accept only a `Genuine` token: signed by the key, of the algorithm asked
for, inside its window *at some moment of the call*, with agreeing headers, the
EAR profile and a usable `submods` claim. It may reject any (memory may be
short); `FailsForCause` states the other direction. The getters answer from the
claims-set of the token and nothing else. Every call returns.

### Modules `StrlCpy` and `Base64Url`

C pointers are offsets from the start of their string. `Base64Url` computes in
`int`; the assumption `Len(s) + 3 <= IntMax` keeps the sum in `base64.c:131`
in range. A store outside the buffer has no effect in the model and is visible
in `bufout`, which `InBounds` bounds.

### Module `VerifyTool`

`ptr` holds the pointers of `main` and `b` of `read_from_file`; `heap` the blocks
they point to, with their bytes; `fp` and `sz` are the other locals of
`read_from_file`, which runs once for the key and once for the token (`Target`
tells which). `args` is what `parse_opts` has stored, cut to the sizes of the
fields. A call of the library is an action of `EarApi` joined with what `main`
does around it, so that what the program reads from memory (`CStr` of the text,
the bytes of the key) is what the contract is given. The environment is `Tick`:
the clock moves, and anybody may write to a file at any time. Every operation
that may fail does so in some behaviour: `fopen`, `fseek`, `ftell` (whose result
the code does not test), `malloc`, `fread`, `calloc`, and every refusal of the
library.

`to_cstr` stores through what `calloc` returned without a test; as for
`ear_get_app_recs` the model takes the outcome of a platform with memory
protection, the state `crashed`.

### The modules of Unity

The compiled configuration is modelled: integers up to 64 bits, floats, no
doubles. Of the fields of `Unity`, `UnityRun` has the counters, both flags and
`AbortFrame`, the place `setjmp` was last called in. What a test does is any
sequence of operations, in `setUp`, the test function and `tearDown`; an assertion
that fails (or any at all in a test that is decided, `RETURN_IF_FAIL_OR_IGNORE`)
jumps to that frame.

A behaviour of `UnityCalls` is one call of an assertion or of a printing function
by a test that is not decided. Macros are named by family and type; their casts
are those of the macro (`CastToEqual`, `CastToCompare`, `CastToWithin`), which
differ between families. `UnityNumbers`, `UnityArrays` and `UnityTypes` compute
in two's complement of a type's width. In `UnityArrays` a pointer is an offset
into an array of bytes, and loading an element sign-extends it as the C code
does. In `UnityStrings` a string is what can be read from its pointer, with or
without terminator. `UnityFloats` takes floats to be integers in a range, two
infinities and NaN: sums and differences overflow to infinity, products with the
precision are exact; other rounding is left out.

`UnityPrintFloat` takes a float to be a decimal mantissa and exponent, the mantissa
of up to nine digits, which is what it takes to tell floats apart. Its products and
quotients with powers of ten are rounded, as those of single precision are: each is
any number that is off by at most one part in `FloatPrecision`, 2^24, of the mantissa
(`Products`), but on the same side of the bounds of the loops, as rounding keeps the
order of numbers. Where a product may fall on either side of a bound, a loop may go on or
end, with a product that has reached the bound. A mantissa below 2^24 is scaled
exactly, as its last digit is larger than the error; those show the edges of
rounding and carrying, the longer ones what the errors come to. `value` is no variable
of the code: it is the number `number` has become by these roundings, as it was before
it was scaled, and `FloatsReadBack` and `FloatsAccurate` compare it with what is printed
and with the number given. Two bounds of the loops are no powers of ten as floats,
10^7 / 10^10 and 10^16; the model takes the powers of ten, between which and the bounds
of the code no other float lies.

## The runs

| run | instance | what it shows |
|---|---|---|
| `paths` | 1 handle, 14 tokens, 2 keys, 2 algorithms, clock to 3, every allocation may fail | types; handles complete; failures reported; `Ear` implements `EarApi`, that every call returns included |
| `heap` | 2 handles, 4 tokens, 1 buffer, every allocation may fail | one owner per block; lists point into live trees; open handles undisturbed |
| `reuse` | 1 handle, 2 buffers, any free address, symmetric addresses | one owner per block when a freed address is handed out again at once |
| `exact` | as `paths`, no allocation fails | nothing acceptable is refused, no key that is there is withheld |
| `base64` | all strings up to 3 over 7 characters, runs of digits up to 10 with up to 2 characters behind, the vectors of `test_b64` | bounds, bytes, ownership; `Base64Url` implements `Base64Call`, that it returns included |
| `strlcpy` | all strings up to 4 over 2 characters, sizes 0 to 6 | bounds, contents, return value, termination |
| `verifytool` | 2 files of 4 possible contents, 7 command lines, clock to 3, every operation may fail | one owner per block, clean exits, valid arguments; what is printed is true |
| `unityrun` | 4 tests, 2 operations in each function, exit statuses modulo 5 | first failure decides; summary true; `UnityRun` implements `UnitySuite`, that it ends included |
| `unitycalls` | types of 2, 4, 8 and 16 bits, arrays up to 2, strings up to 3, floats from -6 to 6, printed floats from the least, 1.4e-45, to the greatest, 3.4e38 | verdicts, bounds, explanations, what is printed and how accurately, termination |
| `errmsg` | as `paths`, 1 key, clock to 2 | *violated*: an unexplained failure |
| `apprecs` | 1 handle, 4 tokens | *violated*: no return of -1 |
| `tocstr` | as `verifytool` | *violated*: a failed allocation is fatal |

The bounds and why they are enough:

- `MaxTime` bounds the clock. A window that opens at 2 and one that closes at 2
  let the clock pass either edge before, during and after a call.
- `MaxBuffers` bounds the buffers the caller holds; a call that would give it one
  more does not succeed. Two handles with a buffer, and one handle with two
  buffers, contain every pair of owners.
- `Addr` is larger than the number of blocks that can be live at once: three for
  an open handle or for a call in progress (which holds one temporary, the
  `ear_t` and its `jwt_t`, and trades the temporary for the tree), and the
  buffers. An allocation that does not fail always finds an address.
- The tokens: one that is refused by each check, for each check; and accepted ones
  that take each branch of the getters between them.
- `base64`: the loop runs zero, one and two times, with each length modulo 4 in
  the tail. `IntMax` is the least the assumption allows.
- `strlcpy`: sources shorter than, as long as and longer than the destination.
- `verifytool`: the command lines have an option repeated, one too long for its
  field, one missing, an unknown one and no file; the contents are empty, a key,
  a token, and a token followed by a NUL and more. Three addresses
  are as many as `main` ever holds blocks (key, text, string).
- `unityrun`: two tests show every way one may disturb the next, four let each
  verdict come first and last; `ExitModulus` is one more than the failures
  there can be.
- `unitycalls`: a byte of two bits gives all four widths, with both ends of each
  signed and unsigned type among the arguments, without integers too large for
  TLC; two elements have a first and a last. Printing works through every
  number of digits, every nibble count, and the digits and buffer of the code
  (7 and 16), with mantissas at the edges of rounding and carrying, and mantissas
  whose products are off by up to 0, 1, 5 and 7 of their last digit.

Deadlock is checked in every run but `unitycalls`, where a behaviour is one call
and nothing follows its return. Elsewhere a caller can always call, and a program
that has exited or crashed or a function that has returned stutters explicitly.

Fairness is weak fairness of the code's own steps: `VerifyStep` in `Ear`, `Step`
in the two functions and in `UnityRun`, `Next` in `UnityCalls`. The code is
sequential and runs on once called; a test under Unity is taken to have no
endless loop. Nothing is assumed of the library's caller, which may never call,
query or free. `VerifyTool` has no fairness: its program is straight-line code but
for the loop over `getopt`, and nothing is claimed of its end.

### The three violations

- **`errmsg`**. `validate_profile` and `cache_submods` put a message into `err_msg`
  when they fail. `ear_jwt_verify` then jumps to `err`, where its own `e`, still
  empty, is copied over it (`ear.c:101-102`). A token with a missing or unknown
  profile, or without usable submods, is refused with an empty message, where
  `ear.h:45-47` promises a readable one. What does hold is `FailureReported`: the
  buffer never keeps its old contents, and getters always leave a message.
- **`apprecs`**. `ear_get_app_recs` never returns -1, which `ear.h:80` documents
  for failure: when `calloc` fails, line 129 stores through a null pointer.
- **`tocstr`**. `main` (`verify.c:48-50`) warns and cleans up when `to_cstr` returns
  `NULL`. It never does: `memcpy` stores through what `calloc` returned
  (`verify.c:171`), and the program dies.

### Differences met in Unity

Unity is third-party code; these are known limits of the copy here, with no run of
their own. The properties that come near one leave it out by name.

- `TEST_ASSERT_BITS_HIGH_MESSAGE` (`unity.h:434`) casts the value it expects to
  32 bits, the one without a message to 64: with a mask of more than 32 bits the
  first fails for any number. `BitsCorrect` leaves it out.
- A single `NULL` as the expected string of an array of `NULL`s is refused
  (`unity.c:1696`), although the loop behind handles it.
- Rounding to even of printed floats (`unity.c:422`) tests the fraction only: the
  float 1000001.5 prints as 1000001.
- With 256 failures the exit status is 0; `ExitAssumption` excludes it.
- `UNITY_TEST_ASSERT_UINT8_ARRAY_WITHIN` casts its delta to 16 bits
  (`unity_internals.h:956`), where the assertion on a single number casts to 8.
- With a delta that is NaN every assertion that finite floats are within it passes;
  on arrays it fails. `NearnessCorrect` leaves it out.
- `UnityPrintLen` reads a character before it tests the length (`unity.c:155`). When
  `UnityAssertEqualStringLen` fails on a buffer without terminator that is just as
  long as the length it is given, the character after the buffer is read, and not
  printed. `InBounds` leaves out this character (`ReadsPastEnd`) and nothing else;
  the comparison tests the length first and reads none.
- The seventh digit of a printed float may be wrong, as its comment says
  (`unity.c:329-331`): the products that scale it are rounded. `FloatsAccurate` says
  by how much.

## What is proved

All theorems are for every value of the constants that meets the assumptions:
any number of handles, tokens, keys, addresses and strings, any allocator that
returns free addresses, any set of allocations that may fail; and in Unity bytes of
any number of bits, arrays and strings of any length and content, any greatest
float, any precisions and any number of significant digits.

| theorem | states |
|---|---|
| `EarProof!TypeCorrect` | `Spec => []TypeOK` |
| `EarProof!OwnershipCorrect` | `Spec => []OwnershipExact` |
| `EarProof!HandlesAlwaysComplete` | `Spec => []HandlesComplete` |
| `EarProof!OpenHandlesAreStable` | `Spec => OpenHandleStable` |
| `EarProof!ListsStayLive` | `Spec => []ListsPointLive` |
| `EarProof!FailuresAlwaysReported` | `Spec => []FailureReported` |
| `EarProof!ImplementsApi` | `Spec => Api!Init /\ [][Api!Next]_(Api!apiVars)` |
| `EarProof!NoCauselessFailure` | `Spec => FailsForCause`, when `MayFail = {}` |
| `StrlCpyProof!TypeCorrect`, `StaysInBounds`, `CopiesCorrectly` | `TypeOK`, `InBounds`, `CopiesWhatFits` |
| `StrlCpyProof!CopiesInOneStep` | in the end the destination holds `Copied(src, sz)` |
| `Base64UrlProof!TypeCorrect`, `StaysInBounds`, `DecodesCorrectly`, `HandsOver`, `FailsOnlyForCause` | `TypeOK`, `InBounds`, `ResultCorrect`, `BufferHandedOver`, `RefusedForCause` |
| `Base64UrlProof!ImplementsCall` | `Spec => Call!Init /\ [][Call!Next]_(Call!callVars)` |
| `UnityRunProof!TypeCorrect`, `FirstAlwaysDecides`, `SummaryAlwaysTrue` | `TypeOK`, `FirstDecides`, `SummaryTrue` |
| `UnityRunProof!RunImplementsSuite` | `Spec => Suite!Init /\ [][Suite!Next]_(Suite!suiteVars)` |
| `VerifyToolProof!TypeCorrect`, `BlocksAlwaysOwned`, `AlwaysExitsClean`, `ArgumentsAlwaysValid` | `TypeOK`, `BlocksOwned`, `ExitsClean`, `ArgumentsValid` |
| `VerifyToolProof!NamesAlwaysCut`, `EndToEndAlways` | `NamesCut`, `EndToEnd` |
| `UnityCallsProof!TypesAlwaysCorrect`, `AlwaysInBounds` | `TypeOK`, `InBounds` |
| `UnityCallsProof!VerdictsAlwaysCorrect`, `FloatVerdictsAlwaysCorrect` | `VerdictCorrect`, `FloatVerdictCorrect` |
| `UnityCallsProof!FailuresAlwaysExplained`, `AlwaysOneLine` | `FailureExplained`, `OneLine` |
| `UnityCallsProof!IntegersAlwaysReadBack`, `FloatsAlwaysReadBack`, `FloatsAlwaysAccurate` | `IntegersReadBack`, `FloatsReadBack`, `FloatsAccurate` |

*Ownership.* The inductive invariant is `TypeOK /\ OwnershipExact`, whose four
parts need each other. Owners are found by following pointers through the heap,
so `EveryBlockOwned` and `OneOwnerEach` need the kinds of blocks that
`LocalsMatchStep` and `HandlesComplete` state; these survive a release because
the released block is nobody else's. `LocalsMatchStep` is what makes it
inductive at all: it says which locals are set at each step, so that a jump to
`err` from there releases neither too much nor too little. The proof has a lemma
per action; the ones that allocate or release cite `LocalsGrow`, `LocalsShrink`
and `BufferStep`.

*Handles and lists.* The second part of `EarProof` first shows that a step writes
only to free blocks, blocks of the call in progress, blocks of a handle it closes and buffers
it frees (`NextWrites`). With one owner per block, that leaves an open handle's
blocks and the remaining buffers alone (`OwnedKept`, `BuffersKept`), from which
both theorems follow. `ListsPointLive` is inductive relative to the invariant.

*What a caller observes.* `ChecksTrue` says what each check of `ear_jwt_verify` has
established by the time the next one runs: the validation object holds a time
between the call and now, the `jwt_t` the token of the call, signed with its key,
the text the `submods` of that token; and at `err`, when no allocation may fail,
the request is not acceptable. `RecordsMatch` says that the records cached in a
handle are those of its token, which nobody changes (`ClaimsKept`). With both,
each step is one of `EarApi`'s or a stutter: `LoadSubmods` is `Accept`,
`VerifyFails` is `Reject`, the steps between are hidden, and the getters answer
from the claims-set (`ImplementsApi`, the safety part of `ApiSpec`).
`FailureReported` is inductive once `e` is known to hold a message at all times.
`FailsForCause` needs `ChecksTrue` and that a key missed once stays missing
(`Answered`).

*u_strlcpy.* The invariant says what the destination holds up to the write
offset at each step, and ties the counter to it: `n + d = sz - 1` in the loop.
`CopiesInOneStep` follows from what it says of the end.

*Decoder.* The invariant ties the read offset, the write offset and the digits
left to the length `P` of the longest prefix of digits: `bufin + nprbytes = P`
and `bufout = 3 * (bufin \div 4)`, with the bytes before `bufout` as
`Base64Ref` defines them. `Base64RefProof` has the facts about the alphabet and
the arithmetic of groups of four. For `ImplementsCall` the size tells the ways to
`err` apart: a failed `calloc` leaves that of the buffer, more than the bytes decoded,
which are none; on every other way it is the number of bytes decoded, and there was
nothing to decode (`Cause`). `Return` is then `Succeed`, `Err` is `Fail`, and the
scans and loops are hidden.

*Runner.* `FirstDecides` and `SummaryTrue` speak of the moments between tests. The
inductive invariant says what is true during one: the flags are set exactly when
the test has its verdict, which is then that of the first entry of `tried`
(`FlagsMatchVerdicts`), and the counters lag behind the verdicts by the flags
(`CountersMatchVerdicts`). `VerdictStep` and `QuietStep` are the two kinds of step
a test makes. With the invariant each step is `Start`, `Judge`, `Exit` or a stutter
of `UnitySuite`.

*Example.* What the label `err` frees is told by the pointers, so ownership is
inductive only together with which of them are set at each step
(`PointersMatchStep`) and whether the library holds a call or a handle
(`HandleMatchesStep`); that an empty key never gets past `fread` (`KeyNotEmpty`)
gives the asserts of `ear_jwt_verify`. What is printed is followed from the
command line to the output in five invariants: the fields hold what was asked
for, as far as it fits (`OptionsStored`); as long as nobody has written to the
files, what was read is all of the file named (`ReadTrue`); the call in progress
and the token the library accepted are about it (`CallTrue`); so are its answer
(`ResultTrue`) and what was printed (`PrintedTrue`). One fact on strings carries
the proof across `to_cstr`: a text with a terminator added starts with the same
string as before (`CStrFact`).

*Assertions and printing.* `CallsInv` is the invariant of the function that is
called; a step of one leaves the others uncalled, so each is inductive by itself.

- Numbers and bits are decided in one step, so the work is arithmetic. 2^k is
  linked to the recursion it stands for by counting the subsets of a set of k
  elements (`TwoPowBase`, `TwoPowNext`); what a cast keeps follows from quotients
  and remainders (`UnsignedFact`), and what bits a number has from both. A
  recursive sum is the last element of the one sequence that follows its rule
  (`StepsExist`, `StepsUnique`), which is shown by induction over a set of numbers,
  not over a formula.
- Arrays: up to `elements` everything compared is the same, and both pointers are as
  many elements, or bytes, into their arrays as have been compared (`AtElement`,
  `AtByte`); a copy of an element loads as the same number (`LoadSame`), and the
  difference without a sign that `UnityAssertNumbersArrayWithin` computes is
  above the delta exactly when the distance of the numbers is (`DistanceFact`).
- Strings: the pairs and the characters passed are equal (`EqualBefore`, and the
  prefixes `i` has come past in both), and while a failure is printed, `line` is
  what its first `i` characters print as (`Printing`); as characters other than a
  backslash are told apart by how they print (`CharsApart`), so are the strings.
- Floats: `FloatElementWithin` holds of every element passed, and agrees with
  nearness as soon as no delta is NaN.
- Integers: the divisor is a power of ten not above the number (`Scaling`), and the
  digits on the line read as the number divided by ten times it (`PrintingDigits`);
  nibbles and bits of a mask likewise, with powers of two.
- Floats printed: what is scaled off the number is in `exponent`, or yet to come in
  `factor` (`Given`), and the loops stop within one digit of the digits wanted, so
  the exponent has no more digits than a mantissa (`ExponentInRange`). What is left
  of `n` has no more digits than `buf` has room for (`Buffering`); zeros before the
  digits are bounded by `Plain`. Hence `BufferHolds`, which no code tests.
- What a printed float reads back as (`FloatValueInv`): a product moves `value` as far
  as `number` (`Rescaled`), so that the number is `value` scaled (`Unscaled`), also
  when split into an integer part and a rest (`Filled`, `SplitProduct`); only the
  rounding to a whole number takes them apart, once, and by half a unit at most
  (`Rounding`, from `ScaledRounds` and its like). From there on the digits are a
  number `Fits` speaks of: within half a unit of the last significant digit, and
  fewer digits than a carry would make.
  Trimming zeros, taking digits into `buf` and showing them move that number from
  `n` to `buf` and from `buf` to `out`; in each phase the invariant says that the
  parts add up to it (`Trimmed`, `Buffered`, `Showing`), that the point is where
  `decimals` says, and where the digits must not be zero. The exponent takes the
  same way behind them (`BufferedExponent`, `ShowingExponent`). In the end, that what
  is printed reads as the number follows from what each character adds (`Reading`),
  the point counted out (`LaidOut`).
- How far `value` is from the number given (`FloatDriftInv`): a product is off by
  `Off` at most, and those of the loops scale by ten digits at once, so each digit
  scaled adds a tenth of it (`Within`); the last product, or that of a fraction, adds
  once more (`ProductDrifts`), and there are no more digits than those of the exponent
  and the mantissa.

This proof corrected the model. Where `n` is odd and `n - number` exactly one half,
`unity.c:422` takes one off it; `Tie` also held of odd whole numbers, by which
10000010 would be printed one unit of its last digit too low. No proof got
past that step, and the run had no such mantissa. `Tie` is now as in the code, and
`MCPrintedFloats` has two mantissas that tell the difference.

Assumptions on the constants, each named in the module that declares them:
`Pick` returns free addresses; `NULL` is no address, request, claims-set, profile,
status, byte string or integer; `Junk` is neither `NULL` nor a message; a token is
a record of the fields `EarClaims` names, and its `akpub` a string or absent; inputs of the decoder are
strings with `Len + 3 <= IntMax`; `NUL` is no character; there are fewer tests
than exit statuses; the fields of `args_t` have at least one character; a file, an
option and a file name are sequences, and the null pointer is none. Of Unity: a byte
has at least one bit, and the numbers passed fit the widest type, with or without
sign; arrays are arrays of bytes, as many as the call says; strings are
sequences of characters; lengths are bounded, by anything; the greatest float
and both precisions (`Precision`, `FloatPrecision`) are positive; `buf` has room for four more than the significant
digits, a printed float's mantissa has at most 9 digits, and its
exponent is at least 11 smaller in size than 10 to the significant digits (16, 7
and 38 in the code).

## What is only model-checked

- Liveness (`Terminates`, and that every call returns, in `ApiSpec`): the prover
  handles neither fairness arguments with `ENABLED` nor the induction on the
  length of the input.
- The mutants listed in `PROJECT.json`: for each property of a passing run, a
  plausible bug that the run finds.

## What is not modelled

- The insides of libjwt, jansson, OpenSSL; signatures and JSON syntax. They are
  predicates and shapes of a token.
- The wording of messages and their truncation by `snprintf`; that a message fits
  `EAR_ERR_SZ` is `StrlCpy`'s `CopiesWhatFits`.
- Calls that break the contract of `ear.h` (null arguments, which the asserts
  stop; a handle used after `ear_free`), and several threads on one handle.
- Of Unity: doubles, `UnityPrintF` and the command line, which the build does not
  compile; the wording, colours and line numbers of its output.
- The unit tests, CMake files and CI. The tests are straight-line callers; the
  vectors of `test_b64` are inputs of run `base64`.
- Base64 encoding, which `base64.h` declares and nothing defines.

## Plan

The modules, runs and proofs above are done, and every safety property a run checks is
a theorem as well. What could be added are doubles and `UnityPrintF`, should the build
turn them on, and floats in binary instead of decimal.
