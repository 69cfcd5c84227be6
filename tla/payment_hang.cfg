CONSTANTS
    Client = {a, b}
    NoClient = NoClient
    p1 = p1
    Peer = {p1}
    Addr = {x}
    Configured = {}
    Chan = {c1}
    PeerOf <- MCPeerOf
    MaxMishaps = 0
SPECIFICATION FairSpec
PROPERTY PaymentAnswered
CHECK_DEADLOCK FALSE
