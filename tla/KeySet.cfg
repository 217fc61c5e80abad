SPECIFICATION FairSpec
CONSTANTS
  k1 = k1
  k2 = k2
  kx = kx
  kid1 = kid1
  kid2 = kid2
  c1 = c1
  c2 = c2
  r1 = r1
  r2 = r2
  NoKid = NoKid
  NoResult = NoResult
  NoToken = NoToken
  Calls = {c1, c2}
  Results = {r1, r2}
  Token <- LiveTokens
  Docs <- LiveDocs
  Interval = 1
  Timeout = 0
  MaxDocs = 2
INVARIANTS OneRefresh NoRetiredKey
PROPERTIES RefreshesSpaced CacheNeverRegresses CallReturns RotationPickedUp
