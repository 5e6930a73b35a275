CONSTANTS
    Users = {a, b}
    Nobody = nobody
    Rows = {r1}
    MaxReads = 1
    MaxEvents = 3
    Links = {"ok", "offline", "down", "inactive", "revoked", "outdated"}
    Windows = {}
SPECIFICATION FairSpec
CHECK_DEADLOCK FALSE
INVARIANTS WorkKept RepsKeptApart
PROPERTIES WorkDelivered
