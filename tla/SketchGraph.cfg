CONSTANTS
    Width = 2
    Height = 1
    Sketches <- MCSketches
    FirstId = 21
    MaxActs = 2
    MaxRing = 3
    Windows = {}
SPECIFICATION Spec
INVARIANTS
    
    MeaningSurvives
CHECK_DEADLOCK FALSE
