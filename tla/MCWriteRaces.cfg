SPECIFICATION WriteSpec
CONSTANTS
    k1 = k1  k2 = k2  t1 = t1  t2 = t2  r1 = r1  r2 = r2
    off = off  on = on
    Key <- MCKey
    Field <- MCField
    Compared <- MCCompared
    Value <- MCValue
    Rejected <- MCRejected
    Time = {t1}
    NoFlag = NoFlag
    Garbled = Garbled
    NoCall = NoCall
    Outside = Outside
    Request = {r1, r2}
    Attempts = 2
    ContentHash = FALSE
    Spurious = FALSE
    Resending = {r1}
    Asked <- MCAsked
    OutsideContent <- MCOutside
    MaxOutside = 1
INVARIANTS
    CommitsAreEdits
    OnlyAcceptedFiles
    NoUnseenOverwrite
    AnswersAreTrue
    CommittedOnce
PROPERTIES
    ImplementsAtomicEdits
\* The requests run out.
CHECK_DEADLOCK FALSE
