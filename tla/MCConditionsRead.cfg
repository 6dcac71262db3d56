SPECIFICATION ConditionSpec
CONSTANTS
    x = x  y = y  v = v  w = w
    Attributes = {x, y}
    Values = {v, w}
    ParenValues = {}
    Conditions = {}
    Texts <- MCTexts
INVARIANT
    QueriesAreReadRightly
CHECK_DEADLOCK FALSE
