\* Two files, seven command lines, every allocation and read may fail: main expects
\* to_cstr to say so when its allocation does.
CONSTANTS
  NULL = NULL
  Addr = {a1, a2, a3}
  Argv <- MCArgv
  FileName <- MCFileName
  Content <- MCContent
  Token <- MCTokens
  TokenOf <- MCTokenOf
  KnownAlg <- MCKnownAlg
  FnSize = 3
  AlgSize = 2
  RecSize = 3
  MaxTime = 3
SPECIFICATION Spec
INVARIANTS
  CStrFailureHandled
