CONSTANTS
    MaxRows = 2
    MaxAttempts = 2
    Plans <- MCPlans
    MaxEvents <- MCMaxEvents
    Windows = {}
SPECIFICATION FairSpec
CHECK_DEADLOCK FALSE
INVARIANTS SyncedRanOnce OfficeEditsSeen CacheSettles
 
