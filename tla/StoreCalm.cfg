\* Two items, two vaults, a purge after one unit of time, no method cut short;
\* the store against the abstract specification.
CONSTANTS
    Vaults = {v1, v2}
    Items = {i1, i2}
    NoVault = NoVault
    NoItem = NoItem
    NoRow = NoRow
    PurgeAfter = 1
    ActivityLimit = 1
    MaxCuts = 0
    MaxRev = 2
    MaxTime = 3
SPECIFICATION Spec
SYMMETRY Symmetry
PROPERTIES ImplementsAtomicVault PurgeKeepsManifest RowsOutliveTheirGrace
