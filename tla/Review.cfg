SPECIFICATION HalfSpec
CONSTANTS
    s1 = s1
    v1 = v1
    c1 = c1
    c2 = c2
    i1 = i1
    Starters <- MCOneStarter
    Reviewers <- MCReviewer
    NoContent = none
    Contents = {none, a}
    MaxRuns = 2
    MaxChunks = 1
    MaxRecordVersion = 1
    MaxSlips = 1
    NoBaseline = nobaseline
    Clients <- MCClients
    Items <- MCOneItem
    MaxAnswers = 2
    MaxVersion = 1
    MaxRequests = 3
CHECK_DEADLOCK FALSE
INVARIANTS
    ReviewTypeInv
    CancelledLeavesNothing
    NothingLeftIntegrating
PROPERTIES
    SignedContentFrozen
    EveryRunEnds
    PersonsWordsKept
    IntegrationOutdates
