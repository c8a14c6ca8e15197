SPECIFICATION FairSpec
CONSTANTS
    w1 = w1  w2 = w2  r1 = r1  r2 = r2  f = f  t = t
    Worker = {w1}  NoWorker = NoWorker  MaxAttempts = 2
    FileSource = {f}  TextSource = {}  OcrSource = {f}  LegacySource = {f}
    Request = {r1}  Cancellable <- FirstJob  MaxSources = 1  MaxVersion = 1
    MaxCrashes = 0  MaxSlips = 0  MaxOperatorRetries = 0  MaxFaults = 0  MaxAborts = 0
    MaxOverlaps = 0  MaxDisturbances = 1
    NoRun = NoRun  NoRequest = NoRequest  NotRead = NotRead
    Absent = Absent  Unborn = Unborn  Removed = Removed
PROPERTIES EveryExtractionEnds
CHECK_DEADLOCK FALSE
