SPECIFICATION Spec
CONSTANTS
  c1 = c1
  Chan = {c1}
  KeysFirst = FALSE
  Faults = {}
CHECK_DEADLOCK FALSE
INVARIANTS
  NoPanic
