\* One item that is given an icon and saved again.
CONSTANTS
    w1 = w1
    w2 = w2
    Words = {w1, w2}
    TotpConfigs = {t1}
    Icons = {g1}
    CustomLists <- Lists
    PASSWORD_HISTORY_LIMIT = 1
    MaxRevision = 3
SPECIFICATION PayloadSpec
PROPERTY SaveKeepsIcon
CHECK_DEADLOCK FALSE
