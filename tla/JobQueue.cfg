SPECIFICATION FairSpec
CONSTANTS
    w1 = w1  w2 = w2  k1 = k1  k2 = k2  j1 = j1  j2 = j2  j3 = j3
    Worker <- MCWorker  NoWorker = NoWorker  MaxAttempts = 2
    Key <- MCKey  Job <- MCOneKey  KeyOf <- MCOneKeyOf
    Unborn = Unborn  Removed = Removed  NoClaim = NoClaim  NotRead = NotRead
    MaxCrashes = 1  MaxSlips = 1  MaxOperatorRetries = 1
INVARIANTS TypeInv UniqueClaims SoleHolder AttemptsBounded
PROPERTIES SettledStays EveryJobEnds
CHECK_DEADLOCK FALSE
