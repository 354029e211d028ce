CONSTANTS
    f1 = f1  f2 = f2  f3 = f3
    h1 = h1  h2 = h2
    t1 = t1  t2 = t2  t9 = t9
    a1 = a1  a2 = a2  miss = miss  k1 = k1
    Flows <- MCFlows2
    CookieKeys = {k1}
    Tables = {t1, t2}
    MsgTables = {t1, t2, t9}
    Handles <- MCHandles
    DefHdl = DefHdl
    Acts = {a1, miss}
    MissActs = {miss}
    JudyLeafMax = 4
    KeepOnDeleteError = {FALSE}
    NoHdl = NoHdl  NoTable = NoTable  NoEntry = NoEntry  NoAct = NoAct  NoCall = NoCall
    NoFlow = NoFlow  Mixed = Mixed
SPECIFICATION Spec
INVARIANTS DemuxedToProperTable
CHECK_DEADLOCK FALSE
