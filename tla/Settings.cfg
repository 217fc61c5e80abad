SPECIFICATION Spec
CONSTANTS
  StartFiles <- MCStartFiles
  ReloadFiles <- MCReloadFiles
  BrokenSeeds = {"junk"}
  UserSeeds = {"SU1"}
  PEMFiles = {"pem"}
  BadPolicies = {"bad"}
  Denotes <- MCDenotes
INVARIANTS AppliedOrReported ConnectsAsConfigured VerifierAsConfigured
