SPECIFICATION FairSpec
CONSTANTS
    Tx = {t1, t2}
    Service = {c1}
    NoService = none
    Published = {t1}
    Untracks = FALSE
    MaxFailures = 0
    MaxRequests = 2
    MaxQueue = 2
PROPERTIES PublishedIsFound
CHECK_DEADLOCK FALSE
