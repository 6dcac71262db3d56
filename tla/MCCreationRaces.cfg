SPECIFICATION FairCreationSpec
CONSTANTS
    k1 = k1  k2 = k2
    r1 = r1  r2 = r2
    flags = flags  growth = growth
    Key = {k1, k2}
    File = {flags, growth}
    Request = {r1, r2}
    Outside = Outside
    Nobody = Nobody
    Absent = Absent
    NotAsked = NotAsked
    Asked <- MCAsked
    SingleFile = FALSE
    Attempts = 2
    MaxOutside = 2
INVARIANTS
    HonestAnswers
    KnownKeysAreRefused
    OneWinner
PROPERTIES
    CreatesOnlyAdd
    EveryCreateAnswered
CHECK_DEADLOCK FALSE
