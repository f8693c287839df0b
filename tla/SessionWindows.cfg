\* TimerSparesNewerCopy is violated, here over the Windows clipboard.
CONSTANTS
    Signals = FALSE
    Platforms = {"Windows"}
    MaxSeq = 3
    MaxWrites = 1
    MaxFiles = 2
SPECIFICATION Spec
PROPERTY TimerSparesNewerCopy
