SPECIFICATION Spec
CONSTANTS
    p1 = p1  p2 = p2  c1 = c1  c2 = c2  s1 = s1  s2 = s2
    Project = {p1}  Client = {c1, c2}  Sweeper = {s1, s2}
    PurgeableCollections <- MCCollections  Days = {1, 2}
    ExpiryDays = 1  ExpiredGraceDays = 1  DeletionGraceDays = 1  DeadlineMaxDaysAhead = 1
    BatchSize = 1
    NoDate = NoDate  Absent = Absent  Idle = Idle  NoSession = NoSession
    MaxTime = 2  MaxVersion = 1  MaxContentWrites = 1  MaxFaults = 0
INVARIANTS TypeInv PurgedIsEmpty
PROPERTIES DeletionIsFinal NothingPurgedEarly
CHECK_DEADLOCK FALSE
SYMMETRY MCSymmetry
