CONSTANTS
    FlowIds <- MCFlowIds
    Handles <- MCHandles
    HdlRange = 4
    Lengths <- MCLengths
    MaxPackets = 2
    num_openflow_tables = 2
    JudyLeafMax = 1
    NoHdl = NoHdl
    NoCall = NoCall
    NotAsked = NotAsked
SPECIFICATION FSpec
INVARIANTS TypeOK FeaturesTypeOK FeaturesRead AnsweredAsClaimed
PROPERTIES TableStatsWithinCall FlowBytesCoverPackets FlowStatsIfIdIsHandle
