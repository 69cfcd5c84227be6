CONSTANTS
    Client = {a, b}
    NoClient = NoClient
    p1 = p1
    Peer = {p1}
    Addr = {x}
    Configured = {}
    Chan = {c1}
    PeerOf <- MCPeerOf
    MaxMishaps = 2
SPECIFICATION FairSpec
INVARIANTS TypeOK RunningIsRegistered EnquirerIsWaiting SuccessIsEarned StoreLagsByOne IdleIsSaved RestoredIsRecent
PROPERTIES ConnectAnswered ReestablishCompletes
CHECK_DEADLOCK FALSE
