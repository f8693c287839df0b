\* The application as wired, on either platform: the main thread and its auto-clear threads.
CONSTANTS
    Signals = FALSE
    Platforms = {"macOS", "Windows"}
    MaxSeq = 3
    MaxWrites = 1
    MaxFiles = 2
SPECIFICATION FairSpec
INVARIANTS TypeOK NothingReadableUnlessUnlocked IdleIsSettled ClipboardAccountedFor
PROPERTIES SupersededTimerIsHarmless ItemCopyLeaves
