\* An allocator that may return any free address, and reuses them at once.
CONSTANTS
  NULL = NULL
  Junk = Junk
  Addr = {a1, a2, a3, a4, a5, a6}
  a1 = a1
  a2 = a2
  a3 = a3
  a4 = a4
  a5 = a5
  a6 = a6
  a7 = a7
  a8 = a8
  a9 = a9
  Pick <- AnyFree
  MayFail <- AllSites
  Handle = {"h1"}
  Token <- FewTokens
  Key = {"k1"}
  Alg = {"ES256"}
  KnownAlg = {"ES256", "RS256"}
  AppRec = {"r1", "r2"}
  MaxTime = 1
  MaxBuffers = 2
SPECIFICATION Spec
SYMMETRY AddrSymmetry
INVARIANTS
  OwnershipExact
