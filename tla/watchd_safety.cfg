SPECIFICATION FairSpec
CONSTANTS
    Tx = {t1, t2}
    Service = {c1, c2}
    NoService = none
    Published = {t1, t2}
    Untracks = TRUE
    MaxFailures = 2
    MaxRequests = 3
    MaxQueue = 2
INVARIANTS TypeOK TrackedIsPolled
PROPERTIES ImplementsTracker WorkerRuns PublishedIsFound
CHECK_DEADLOCK FALSE
