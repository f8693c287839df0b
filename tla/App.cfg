\* One part of the application at a time.
CONSTANTS
    \* RevealGate
    LIMIT = 2
    WINDOW = 2
    Skews = {0, 1, 3}
    MaxTime = 4
    MaxCredit = 2
    MaxShown = 4
    \* Backup
    Machines = {x1, x2}
    Accounts = {y1, y2}
    Items = {i1}
    Vaults = {z1, z2}
    MaxEdits = 2
    MaxBackupCuts = 1
    \* Preferences
    Owners = {x1, x2}
    REAUTH_INTERVAL = 2
    MaxDay = 3
    MaxPrefCuts = 1
    MaxBack = 1
    \* Themes
    ThemeIds = {x1, x2}
    MAX_IMPORTED_THEMES = 3
    Grammars = 2
    MaxThemeCuts = 1
    \* BreachCheck
    Logins = {x1, x2}
    Ranges = {{y1, y2}, {p3}}
    MIN_INTERVAL = 2
    MaxHours = 2
    MaxBreachCuts = 1
    \* UpdateCheck
    Calls = {x1, x2}
    Builds = {1, 2}
    UPDATE_INTERVAL = 2
    MaxClock = 3
    \* GeneratorHistory
    Entries = {e1, e2, e3}
    MAX_ENTRIES = 2
    MAX_AGE = 2
    MaxNow = 3
    \* ItemPayloads
    w1 = w1
    w2 = w2
    Words = {w1, w2}
    TotpConfigs = {t1}
    Icons = {g1}
    CustomLists <- Lists
    PASSWORD_HISTORY_LIMIT = 2
    MaxRevision = 4
    \* HealthReport
    Reviewed = {x1, x2, h3}
    Secrets = {p1, p2}
    Common = {p1}
    Telling = {h3}
SPECIFICATION AppSpec
SYMMETRY Symmetry
INVARIANTS AppTypeOK RollingLimit OneSecretPerConfirmation OpensAfterRestore MergesAgree PlatformAgrees SelectionHolds NeverSafeUnchecked ItemIsWhole ExpiredStaysGone
PROPERTIES NoRollback PreviewIsExact PasswordIsRecent BreachedStays ChecksAreADayApart NeverOlder  FixingNeverHurts
CHECK_DEADLOCK FALSE
