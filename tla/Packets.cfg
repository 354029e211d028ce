CONSTANTS
    x = x  y = y
    BYTE = 4
    FramesOut <- MCFramesOut
    FramesIn <- MCFramesIn
    ActionLists <- MCActionLists
    PortsOut <- MCPortsOut
    PortsIn <- MCPortsIn
    Tables = {3}
    Reasons = {0, 1}
    BUF = 2000
    AGENT_ETHERNET_FLOOD_MC_HDL = 1
    MaxMsgs = 3
SPECIFICATION FairSpec
INVARIANTS TypeOK OutsLeaveAsGiven LeavesAtItsPort MissesReportedAsTheyAre PacketInLengths
PROPERTIES NothingIsForgotten
CHECK_DEADLOCK FALSE
