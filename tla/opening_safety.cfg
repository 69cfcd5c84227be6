SPECIFICATION Spec
CONSTANTS
  c1 = c1
  c2 = c2
  Chan = {c1, c2}
  KeysFirst = FALSE
  Faults = {"launch", "signer", "sign", "funds", "broadcast", "peer", "protocol", "watch", "remote"}
CHECK_DEADLOCK FALSE
INVARIANTS
  TypeOK
  PublishedIsRefundable
  LauncherIsFiledOnce
  P2pIsExpected
  ActiveAgreement
PROPERTIES
  ImplementsHandshake
  OnlyErrorsPanic
  NoPublishAfterFailure
