\* No allocation fails.
CONSTANTS
  NULL = NULL
  Junk = Junk
  Addr = {a1, a2, a3, a4, a5, a6, a7, a8, a9}
  a1 = a1
  a2 = a2
  a3 = a3
  a4 = a4
  a5 = a5
  a6 = a6
  a7 = a7
  a8 = a8
  a9 = a9
  Pick <- FirstFree
  MayFail = {}
  Handle = {"h1"}
  Token <- AllTokens
  Key = {"k1", "k2"}
  Alg = {"ES256", "bogus"}
  KnownAlg = {"ES256", "RS256"}
  AppRec = {"r1", "r2"}
  MaxTime = 3
  MaxBuffers = 1
SPECIFICATION Spec
PROPERTIES
  FailsForCause
