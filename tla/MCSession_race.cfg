CONSTANTS
  Codes <- MCCodes
  MaxConns = 2

SPECIFICATION FairSpec

PROPERTY NoRaceWindow

\* A session ends.
CHECK_DEADLOCK FALSE
