CONSTANTS
    MaxCommits = 2
    MaxSaves = 1
    MaxFaults = 1
    MaxOpens = 2
    MaxRemovals = 0
    Refreshes = TRUE
    OtherRows = FALSE
    TapsMidWrite = FALSE
SPECIFICATION Spec
INVARIANTS TypeOK NewestEditKept PendingIsScheduled
