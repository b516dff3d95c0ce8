SPECIFICATION Spec
CONSTANTS
  Kind <- MCKind
  Signatures <- MCSignatures
  Accepts <- MCAccepts
  Registered <- MCRegistered
  MaxArgs = 3
  MaxCalls = 2
INVARIANTS
  TypeSafeCalls
  RunsOwnArguments
  FailsForAReason
