CONSTANTS
  Name = {a, b, c}
  Cli = Cli
  Configs <- ConfigsOfPairs
  Requests <- RequestsOfPairs

SPECIFICATION FairSpec

INVARIANTS
  TypeOK
  DepsFirst
  AcceptedExactly
  RefusedForCause
  LaterEntriesWin

PROPERTY Terminates

\* A walk ends.
CHECK_DEADLOCK FALSE
