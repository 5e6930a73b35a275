CONSTANTS
    MaxCommits = 2
    MaxSaves = 1
    MaxFaults = 1
    MaxOpens = 1
    MaxRemovals = 0
    Refreshes = TRUE
    OtherRows = FALSE
    TapsMidWrite = FALSE
SPECIFICATION FairSpec
PROPERTIES EditReachesOffice PendingSettles
