SPECIFICATION FairSpec
CONSTANTS
    p1 = p1  p2 = p2  c1 = c1  c2 = c2  s1 = s1  s2 = s2
    Project = {p1, p2}  Client = {c1}  Sweeper = {s1}
    PurgeableCollections <- MCCollections  Days = {}
    ExpiryDays = 1  ExpiredGraceDays = 1  DeletionGraceDays = 1  DeadlineMaxDaysAhead = 1
    BatchSize = 1
    NoDate = NoDate  Absent = Absent  Idle = Idle  NoSession = NoSession
    MaxTime = 3  MaxVersion = 0  MaxContentWrites = 0  MaxFaults = 1
PROPERTIES EveryProjectEnds
CHECK_DEADLOCK FALSE
