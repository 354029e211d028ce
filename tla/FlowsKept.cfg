CONSTANTS
    f1 = f1  f2 = f2  f3 = f3
    h1 = h1  h2 = h2
    t1 = t1  t2 = t2  t9 = t9
    a1 = a1  a2 = a2  miss = miss  k1 = k1
    Flows <- MCFlows3
    CookieKeys = {k1}
    Tables = {t1, t2}
    MsgTables = {t1, t2, t9}
    Handles <- MCHandles
    DefHdl = DefHdl
    Acts = {a1}
    MissActs = {}
    JudyLeafMax = 31
    KeepOnDeleteError = {TRUE, FALSE}
    NoHdl = NoHdl  NoTable = NoTable  NoEntry = NoEntry  NoAct = NoAct  NoCall = NoCall
    NoFlow = NoFlow  Mixed = Mixed
SPECIFICATION Spec
CONSTRAINT KeysApart
VIEW ButAnswer
SYMMETRY SymmKept
INVARIANTS LiveFlowsRecorded DemuxedToProperTable RecordedEntryIsOwn
    DefaultLostToDefault
PROPERTIES NoForeignTouch
CHECK_DEADLOCK FALSE
