SPECIFICATION Spec
CONSTANTS
    Lower <- MCLower
    LowerPiece <- MCLowerPiece
    Today <- MCToday
    Days <- MCDays
    Companies <- MCCompanies
    Roots <- MCRoots
    Responses <- MCResponses
    People <- MCPeople
    Links <- MCLinks
    EmploymentTypes <- MCEmploymentTypes
    LocationTypes = {}
    Reserved = {"feed"}
    MaxEntityDepth = 1
    MaxRoles = 3
    MaxItems = 2
    MaxJobs = 2
INVARIANTS
    SectionsAgree
    HistoryAgrees
    NothingLost
    OneEntityPerUrn
    OnePerson
    TopCardFound
    OneKeyPerProfile
