\* Two items, two vaults, a purge after one unit of time, crashes and failing statements.
CONSTANTS
    Vaults = {v1, v2}
    Items = {i1, i2}
    NoVault = NoVault
    NoItem = NoItem
    NoRow = NoRow
    PurgeAfter = 1
    ActivityLimit = 1
    MaxCuts = 2
    MaxRev = 2
    MaxTime = 3
SPECIFICATION Spec
SYMMETRY Symmetry
INVARIANTS TypeOK SignatureCoversLiveItems EveryItemOpens HistoryFollowsItem RewrapNeverRefused SomeVaultAlwaysLive
