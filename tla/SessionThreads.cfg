\* A sleep signal at any moment, over the Windows clipboard.
CONSTANTS
    Signals = TRUE
    Platforms = {"Windows"}
    MaxSeq = 3
    MaxWrites = 1
    MaxFiles = 2
SPECIFICATION Spec
INVARIANT KeysFollowState
