SPECIFICATION EditingSpec
CONSTANTS
    k1 = k1  k2 = k2  t1 = t1  r1 = r1  r2 = r2  n1 = n1  n2 = n2
    off = off  on = on
    Key <- MCKeyOne
    Field <- MCField
    Compared <- MCCompared
    LookupFirst <- MCLookupFirst
    Value <- MCValue
    Rejected = {}
    Time = {t1}
    NoFlag = NoFlag
    Garbled = Garbled
    NoCall = NoCall
    Outside = Outside
    Replica = {n1, n2}
    Warm = {n1}
    Request = {r1, r2}
    Asked <- MCToggles
    OutsideContent <- MCOutsideKept
    MaxOutside = 0
    HistoryLimit = 8
    MayRestart = FALSE
    MayForget = FALSE
    Attempts = 2
    ContentHash = FALSE
    Spurious = FALSE
    Resending = {}
INVARIANTS
    ComparedChangesConflict
CHECK_DEADLOCK FALSE
