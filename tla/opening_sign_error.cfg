SPECIFICATION Spec
CONSTANTS
  c1 = c1
  Chan = {c1}
  KeysFirst = TRUE
  Faults = {"sign"}
CHECK_DEADLOCK FALSE
INVARIANTS
  NoPanic
