SPECIFICATION Spec
CONSTANTS
  w1 = w1
  w2 = w2
  issA = issA
  issB = issB
  alice = alice
  bob = bob
  audN = audN
  audX = audX
  owner = owner
  team = team
  AnyIssuer = AnyIssuer
  NoToken = NoToken
  Workers = {w1}
  Token <- MCTokens
  Ruleset <- MCRulesets
  MaxTime = 2
  MaxReloads = 2
  MaxRequests = 2
INVARIANT EveryRequestCounted
