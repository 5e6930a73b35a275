CONSTANTS
    MaxLines = 2
    MaxTakeoffs = 2
    Packages = {1, 2}
    MaxQty = 1
    MaxStock = 3
    Ordered = 2
    MaxPrice = 2
    MaxKeys = 2
    Places = {1, 2}
    MaxTerr = 3
    MaxSect = 2
    Mats = {"m", "n"}
    Files <- MCFiles
    MaxField = 2
    BackupDesks = {1}
    Keeps = {0, 1}
    MaxFiles = 3
    PlanDesks = {1, 2}
    Flush = {2}
    Measures <- MCMeasures
    Moves <- MCMoves
    Snaps = {0, 2}
    Cap = 2
    Here = 1
    Roofs <- MCRoofs
    SidesOffered = {"N", "E", "S"}
    MaxEdits = 1
    MaxChoices = 2
    Proposed <- MCProposed
    Acts <- MCActs
    Events <- MCEvents
    Without = {}
SPECIFICATION PagesSpec
INVARIANTS TakeoffOnce  ReservedIsHeld  OnePropertyOneSection  ReviewIsCurrent NoNudgeMeansCurrent ImportIsAcknowledged UndoPointKept
PROPERTIES OthersWorkKept
CHECK_DEADLOCK FALSE
