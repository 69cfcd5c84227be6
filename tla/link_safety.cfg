SPECIFICATION FairSpec
CONSTANTS
    Opened = {c1}
    Restored = {c2}
    PongSizes = {4, 5}
    MaxTimeouts = 2
    Breaks = {"closed", "silent"}
INVARIANTS TypeOK AwaitedIsUnderWay MessagesAreCounted ChannelsAgree
PROPERTIES LinkServes
CHECK_DEADLOCK FALSE
