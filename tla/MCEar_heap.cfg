\* Two handles and a buffer on one heap, every allocation may fail.
CONSTANTS
  NULL = NULL
  Junk = Junk
  Addr = {a1, a2, a3, a4, a5, a6, a7, a8, a9}
  a1 = a1
  a2 = a2
  a3 = a3
  a4 = a4
  a5 = a5
  a6 = a6
  a7 = a7
  a8 = a8
  a9 = a9
  Pick <- FirstFree
  MayFail <- AllSites
  Handle = {"h1", "h2"}
  Token <- FewTokens
  Key = {"k1"}
  Alg = {"ES256"}
  KnownAlg = {"ES256", "RS256"}
  AppRec = {"r1"}
  MaxTime = 1
  MaxBuffers = 1
SPECIFICATION Spec
INVARIANTS
  OwnershipExact
  ListsPointLive
PROPERTIES
  OpenHandleStable
