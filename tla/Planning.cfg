SPECIFICATION PartSpec
CONSTANTS
    c1 = c1
    c2 = c2
    Clients = {c1, c2}
    MaxVersions = 2
    MaxUpstream = 1
    Categories = {"backend"}
    Multiple = {}
    ProjectTypes = {"web", "unconfirmed"}
    Unconfirmed = "unconfirmed"
    Required <- MCRequired
    Technologies = {"a", "r"}
    Risky = {"r"}
    Impossible = {}
    MaxComponents = 3
    MaxStackRequests = 4
    MaxCrashes = 1
    Requirements = {"r"}
    NoRequirement = "none"
    Figures = {"more"}
    Calculated = "calc"
    None = none
    Teams = {"none", "small"}
    FeasibilityOf <- MCFeasibilityOf
    NeedsAcknowledgement = {"HIGH_RISK", "NOT_FEASIBLE_WITH_CURRENT_CAPACITY"}
    MaxUnits = 3
    MaxEdges = 1
    MaxRequests = 3
    MaxScheduleDays = 60
    Deadlines <- MCDeadlines
    ChunkBudget = 3
    MaxBlocks = 2
SYMMETRY MCSym
CHECK_DEADLOCK FALSE
INVARIANTS
    PlanningTypeInv
    PlanCanBeFollowed
    VerdictsAgree
    NoHoursLost
    FreshDocumentsPass
    ReadyIsComplete
PROPERTIES
    LockIsAWall
    OnlyDecisionsAreSealed
    OverridesSurvive
    ApprovedWithEyesOpen
