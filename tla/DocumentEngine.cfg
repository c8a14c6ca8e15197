SPECIFICATION PartSpec
CONSTANTS
    r1 = r1  r2 = r2  a1 = a1  Nothing = Nothing
    Doc = {"FEATURE_LISTING", "ACCEPTANCE_CRITERIA", "ASSUMPTIONS"}
    Request <- MCRequest  Kind = {"REQUIREMENT_BASELINE"}
    MaxVersion = 3  MaxWrites = 4  MaxTexts = 4  MaxUpstream = 2  MaxOverlaps = 1  MaxAborts = 1  MaxDisturbances = 1
    Idle = Idle  Absent = Absent  Unread = Unread  NoValidation = NoValidation
INVARIANTS TypeInv WithdrawnIsTold ApprovedAsValidated 
PROPERTIES ApprovedOnCheckedRecord HistoryStands
CHECK_DEADLOCK FALSE
SYMMETRY MCSymmetry
