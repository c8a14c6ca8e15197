SPECIFICATION Spec
CONSTANTS
    a1 = a1
    Caller = {a1}  Nothing = Nothing
    MaxRuns = 1  MaxCorrections = 1  MaxBaselines = 2  MaxWrites = 1  MaxFaults = 0
INVARIANTS StampedAsWritten
CHECK_DEADLOCK FALSE
