CONSTANTS
    b1 = b1  b2 = b2
    HALF = 2
    GroupIds <- MCIds
    Buckets = {b1, b2}
    KeepOnDeleteError = {TRUE, FALSE}
    NoBuckets = NoBuckets
    NoCall = NoCall
SPECIFICATION Spec
SYMMETRY Symm
INVARIANTS TypeOK GroupIdSurvives GroupAsOrdered NoSilentGroupLeak OnlySupportedInstalled
