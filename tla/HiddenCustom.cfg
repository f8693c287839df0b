\* One item and what its detail says can be revealed.
CONSTANTS
    w1 = w1
    w2 = w2
    Words = {w1, w2}
    TotpConfigs = {t1}
    Icons = {g1}
    CustomLists <- Lists
    PASSWORD_HISTORY_LIMIT = 1
    MaxRevision = 2
SPECIFICATION PayloadSpec
INVARIANT DetailAddressesSecrets
CHECK_DEADLOCK FALSE
