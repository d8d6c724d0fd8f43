CONSTANTS
    p1 = p1
    p2 = p2
    p3 = p3
    a1 = a1
    a2 = a2
    Peers = {p1, p2, p3}
    Trusts = {p1}
    Leaves = {p1}
    c1 = c1
    c2 = c2
    Calls = {c1, c2}
    Dials <- FirstToP1
    Senders = {s1}
    Adders = {a1, a2}
    Sees <- TwoSources
    StoredTrust = {p1, p2}
    ShardOf <- OneShard
    MAX_PEERS = 1
    MAX_ACTIVE_CONNECTIONS = 1
    OUTGOING_BUFFER_SIZE = 1
    None = None

SPECIFICATION FairSpec
INVARIANT HandleHasLiveTask
INVARIANT ConnectedPeersTrusted
INVARIANT ActiveOvershoot
INVARIANT PeerTableBound
PROPERTY ShutdownDrains
