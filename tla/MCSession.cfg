CONSTANTS
  Codes <- MCCodes
  MaxConns = 2

SPECIFICATION FairSpec

INVARIANTS
  TypeOK
  SandboxCovered
  TetherHolds
  NothingLeftBehind
  ExitFidelity

PROPERTIES
  SignalEndsSession
  SandboxEndEndsSession
  ChainUnwinds
  KeepsContract

\* A session ends.
CHECK_DEADLOCK FALSE
