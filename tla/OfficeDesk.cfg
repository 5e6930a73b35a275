CONSTANTS
    MaxVal = 2
    MaxActs = 4
    MaxEvents = 1
    MaxHistory = 1
    Windows = {}
SPECIFICATION FairSpec
CHECK_DEADLOCK FALSE
INVARIANTS NothingTypedIsLost
PROPERTIES WorksheetNeverOverwritesUnseen SketchNeverOverwritesUnseen WorksheetCatchesUp
