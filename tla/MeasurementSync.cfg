CONSTANTS
    Groups = {facets, summary}
    MaxRevs = 3
    MaxEdits = 1
    MaxSaves = 2
    MaxOffice = 1
    MaxLoads = 2
    MaxFaults = 1
    Windows = {}
SPECIFICATION Spec
SYMMETRY MCSymmetry
CHECK_DEADLOCK FALSE
INVARIANTS OfficeEditsSeen NewestSaveKept NoDuplicateRevision
PROPERTY DraftSurvivesBackground
