SPECIFICATION Spec
CONSTANTS
  c1 = c1
  Chan = {c1}
  KeysFirst = TRUE
  Faults = {}
CHECK_DEADLOCK FALSE
INVARIANTS
  LockedIsMined
