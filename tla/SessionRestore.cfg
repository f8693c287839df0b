\* UnlocksTheVaultAtPath is violated.
CONSTANTS
    Signals = FALSE
    Platforms = {"macOS"}
    MaxSeq = 3
    MaxWrites = 1
    MaxFiles = 2
SPECIFICATION Spec
INVARIANT UnlocksTheVaultAtPath
