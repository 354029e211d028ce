CONSTANTS
    v0 = v0  v1 = v1  m1 = m1
    Packets <- MCPackets
    Bitmaps <- MCBitmaps
    BucketBitmaps <- MCBucketBitmaps
    Rewrites <- MCRewrites
    Ports <- MCPorts
    CPU_PORT_ID = 64
    NoPort = 0
    BucketPort = 2
    Groups = {m1}
    TTL = 3
    Vids <- MCVids
    MaxWrites = 1
    NoEntry = NoEntry
    NoGroup = NoGroup
    ZeroVid = v0
    Arguments <- MCArguments
SPECIFICATION Spec
INVARIANTS TypeOK LeavesWhereTold AppliesItsActions ChainBreaksExactly OrderLostWhereItMatters
CHECK_DEADLOCK FALSE
