SPECIFICATION FairSpec
CONSTANTS
  w1 = w1
  w2 = w2
  issA = issA
  issB = issB
  alice = alice
  bob = bob
  audN = audN
  audX = audX
  owner = owner
  team = team
  AnyIssuer = AnyIssuer
  NoToken = NoToken
  Workers = {w1, w2}
  Token <- MCTokens
  Ruleset <- MCRulesets
  MaxTime = 2
  MaxReloads = 1
  MaxRequests = 1
INVARIANTS GrantFromOneRuleset LifetimeWithinToken
PROPERTIES EveryRequestAnswered DecidesInOrder
