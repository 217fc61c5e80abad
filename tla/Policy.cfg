SPECIFICATION Spec
CONSTANTS
  Colon = Colon
  Star = Star
  Newline = Newline
  d1 = d1
  d2 = d2
  x = x
  Digit = {d1, d2}
  AccountField = 2
  AccountLen = 1
  NoIssuer = NoIssuer
  NoAccount = NoAccount
  Subject = {"s1", "s2"}
  Rules <- MCRules
  Identity <- MCIdentity
INVARIANTS GrantMatchesRule NarrowUnlessBroad PermissionsAsWritten
CHECK_DEADLOCK FALSE
