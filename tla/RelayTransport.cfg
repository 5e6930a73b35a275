CONSTANTS
    Callers = {c1, c2}
    Sockets = {s1, s2, s3}
    NoSocket = none
SPECIFICATION FairSpec
INVARIANTS PendingHasSocket WaitersHaveAttempt
PROPERTIES SettlesUnlessSilent
CHECK_DEADLOCK FALSE
