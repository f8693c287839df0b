\* OpensAfterRestart is violated.
CONSTANTS
    Vaults = {v1, v2}
    Items = {i1, i2}
    NoVault = NoVault
    NoItem = NoItem
    NoRow = NoRow
    PurgeAfter = 1
    ActivityLimit = 1
    MaxCuts = 1
    MaxRev = 2
    MaxTime = 3
SPECIFICATION Spec
SYMMETRY Symmetry
INVARIANT OpensAfterRestart
