CONSTANTS
  Proc = {p, q}
  Size = 3
  MaxEdits = 2

SPECIFICATION FairSpec

INVARIANTS
  TypeOK
  WritersConverge
  LoneFirstRunLoadsDefault
  NothingMisplaced

PROPERTY LoadsEnd

\* The processes end.
CHECK_DEADLOCK FALSE
