SPECIFICATION FairSpec
CONSTANTS
  P = P
  Q = Q
  p1 = p1
  q1 = q1
  g1 = g1
  g2 = g2
  k1 = k1
  k2 = k2
  NoKey = NoKey
  NoToken = NoToken
  NoEntry = NoEntry
  Process = {P, Q}
  Caller = {p1, q1}
  Refresher = {g1, g2}
  Keys <- MCKeys
  Owner <- MCOwner
  Aud <- MCAud
  Life = 2
  RefreshBefore <- MCRefreshBefore
INVARIANTS BindingTrue HitUsable OneRefreshPerSource
PROPERTIES RefreshAllowedAgain LastErrorClears OutageReported CacheRecovers
