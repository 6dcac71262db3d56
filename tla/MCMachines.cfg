SPECIFICATION MachinesSpec
CONSTANTS
    k1 = k1  k2 = k2
    a = a  b = b  c = c
    Key = {k1, k2}
    Request = {a, b, c}
    Original = Original
    Nobody = Nobody
    NoFile = NoFile
    Blank = Blank
    Mixed = Mixed
    Callers = {a, b, c}
    Lifetime = 5
    Margin = 2
    Timeout = 1
    MaxTime = 6
    NoToken = NoToken
    Free = Free
    Budget = 24
    AttemptTimeout = 4
    FirstBackoff = 1
    BackoffCap = 3
    ProbeBudget = 30
    Attempts = {a, b}
    CookieAge = 2
    SessionAge = 3
    IdLifetimes = {1, 4, Unlimited}
    Unlimited = Unlimited
    MaxSignInTime = 4
    Absent = Absent
    x = x  y = y  v = v  w = w
    g1 = g1  g2 = g2  t1 = t1  t2 = t2  h1 = h1  h2 = h2  u1 = u1
    Attributes = {x, y}
    Values = {v, w}
    ParenValues = {}
    Conditions <- MCConditions
    Texts <- MCTexts
    Everything = Everything
    Anybody = Anybody
    OidcGroups = {g1, g2}
    DeclaredTeams = {t1}
    OtherTeams = {t2}
    NoTeam = NoTeam
    Environments = {h1, h2}
    Here = h1
    Configurations <- MCConfigurations
    Users = {u1}
    GroupsOf <- MCGroupsOf
    MaxMoves = 1
    Unseen = Unseen
    FlagKeys = {a, b, c}
    FlagValues = {v, w}
    AnchorNames = {x}
    Yes = Yes
    Nothing = Nothing
    FirstTexts <- MCFirstTexts
    MaxTextEdits = 3
INVARIANTS
    MachinesTypeOK
    SafeWhenAlone
    NoExpiredTokenUsed
    OnlyFailuresProlongWaits
    StartupIsInTime
    SessionsEnd
    ReplaysAreHarmless
    NewestGetsIn
    QueriesKeepTheirMeaning
    PagesMatchRules
    OfferedIsAllowed
PROPERTIES
    TokensAreShared
    EveryTokenCallReturns
    OthersKeepTheirText
    OthersKeepTheirMeaning
CHECK_DEADLOCK FALSE
