\* Three builds: version 2 is harmless to repeat, version 3 is not and rewrites
\* rows.  One free attempt, delays of one and two units.
CONSTANTS
    FREE_ATTEMPTS = 1
    MAX_DELAY = 2
    SNAPSHOT_RETENTION = 2
    Rerunnable = {2}
    Rewrites = {3}
    MaxBuild = 3
    MaxWrites = 1
    MaxFailures = 3
    MaxSnapshots = 5
    MaxCuts = 2
    MaxClockSets = 1
SPECIFICATION FairSpec
INVARIANTS TypeOK HeaderVerifies SessionIsMigrated CanGoBack BackoffHolds
PROPERTY OwnerGetsIn
