CONSTANTS
    MaxCommits = 3
    MaxSaves = 1
    MaxFaults = 0
    MaxOpens = 1
    MaxRemovals = 1
    Refreshes = FALSE
    OtherRows = TRUE
    TapsMidWrite = FALSE
SPECIFICATION Spec
INVARIANTS SyncedMeansAccepted
PROPERTIES DraftVersionNeverRegresses
