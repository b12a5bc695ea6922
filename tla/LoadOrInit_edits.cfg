CONSTANTS
  Proc = {p, q}
  Size = 2
  MaxEdits = 1

SPECIFICATION Spec

PROPERTY UserEditsAreKept

\* The processes end.
CHECK_DEADLOCK FALSE
