SPECIFICATION Spec
CONSTANTS
  Namespace <- NS
  reserved <- MCReserved
  Payloads <- MCPayloads
  Requires <- MCRequires
INVARIANTS FlattenedAsNamed NoRegisteredCopy BareNamesKept BoundByToken
CHECK_DEADLOCK FALSE
