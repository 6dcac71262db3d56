SPECIFICATION TextSpec
CONSTANTS
    f1 = f1  f2 = f2  f3 = f3  v = v  w = w  n = n
    FlagKeys = {f1, f2, f3}
    FlagValues = {v, w}
    AnchorNames = {n}
    Yes = Yes
    Nothing = Nothing
    FirstTexts <- MCSharedTexts
    MaxTextEdits = 2
PROPERTIES
    OthersKeepTheirMeaning
CHECK_DEADLOCK FALSE
