SPECIFICATION Spec
CONSTANTS
    w1 = w1  w2 = w2  r1 = r1  r2 = r2  f = f  t = t
    Worker <- MCWorker  NoWorker = NoWorker  MaxAttempts = 1
    FileSource = {f}  TextSource = {t}  OcrSource = {}  LegacySource = {}
    Request <- MCRequest  Cancellable = {}  MaxSources = 1  MaxVersion = 2
    MaxCrashes = 1  MaxSlips = 1  MaxOperatorRetries = 1  MaxFaults = 1  MaxAborts = 1
    MaxOverlaps = 1  MaxDisturbances = 1
    NoRun = NoRun  NoRequest = NoRequest  NotRead = NotRead
    Absent = Absent  Unborn = Unborn  Removed = Removed
INVARIANTS TypeInv EffectiveContentExists BytesAccountedFor OneActiveJob
PROPERTIES ImplementsJobQueue
CHECK_DEADLOCK FALSE
SYMMETRY MCSymmetry
