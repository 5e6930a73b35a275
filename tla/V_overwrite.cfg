CONSTANTS
    MaxCommits = 2
    MaxSaves = 1
    MaxFaults = 0
    MaxOpens = 2
    MaxRemovals = 0
    Refreshes = FALSE
    OtherRows = FALSE
    TapsMidWrite = FALSE
SPECIFICATION Spec
PROPERTIES NoSilentOverwrite
