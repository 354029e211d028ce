CONSTANTS
    FlowIds <- MCFlowIds
    Handles <- MCHandles
    HdlRange = 4
    Lengths <- MCLengths
    MaxPackets = 3
    num_openflow_tables = 2
    JudyLeafMax = 1
    NoHdl = NoHdl
    NoCall = NoCall
    NotAsked = NotAsked
SPECIFICATION FSpec
PROPERTIES FlowStatsOfFlow
