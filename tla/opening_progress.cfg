SPECIFICATION FairSpec
CONSTANTS
  c1 = c1
  c2 = c2
  Chan = {c1, c2}
  KeysFirst = TRUE
  Faults = {"launch", "signer", "funds", "peer", "protocol", "watch"}
CHECK_DEADLOCK FALSE
PROPERTIES
  OpeningCompletes
