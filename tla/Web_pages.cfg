SPECIFICATION WebSpec
CONSTANTS
    Pages = {"login", "home", "panel", "sessions", "setup", "approvals", "evidence", "memory",
             "search", "reports", "outline", "runtime", "overview", "details", "users",
             "directory"}
    MaxListed = 3
    MaxPlanned = 2
    MaxWork = 4
    HomeSessions = {1, 2}
    MaxCountedTwice = 2
    Pieces = {1, 2}
    ToolNames = {"exec", "write"}
    HomeRequests = {1, 2}
    StatusesOfFindings = {"candidate", "confirmed"}
    MaxFindings = 1
    SwitchedSections = {"evidence"}
    Sessions = {1, 2}
    BusySessions = {1}
    TabsInPlay = {"all", "planning"}
    SessionPageSize = 1
    TargetRows = {1, 2}
    Options <- TwoPolicies
    OptionStatuses = {"absent", "active"}
    Unstable <- SecondPolicy
    Requests = {1, 2}
    StatusFilters = {"all", "pending"}
    Narrowings <- AllOrSecond
    PageSize = 1
    Evidence = {1, 2}
    Findings = {1, 2}
    StatusesInPlay = {"candidate", "confirmed"}
    FiltersInPlay = {"all", "candidate"}
    RowsInPlay = {{1, 2}}
    SupportsInPlay <- SupportsFindings
    Memories = {1, 2}
    OldMemories = {1}
    MemoryViews <- Candidates
    MaxWrites = 1
    FoundMemories = {1, 2}
    Reviewed = {1}
    VisibilityOf <- WorkspaceThenProject
    Queries = {"q"}
    Visibilities = {"All", "Workspace"}
    Limits = {1}
    ReportSessions = {1, 2}
    Reports = {1, 2}
    SessionOfReport <- InFirst
    Titles = {"a", "b"}
    TypedTitles = {"b"}
    Contended = {2}
    ConsoleSessions = {1, 2}
    Calls = {1, 2}
    SessionOfCall <- InFirst
    CallStatusesInPlay = {"queued", "succeeded"}
    ApiUsers = {1, 2}
    ExampleUsers = {3, 4}
    RolesInPlay = {"Admin", "Viewer"}
INVARIANTS
    WebTypeOK
    LoginIsNotStranded
    OfferedIsAccepted
    SessionsAreAsChosen
    DecisionsAreInformed
    FeedbackIsTrue
    DecidedLeavesPanel
    SavesGoWhereTyped
    EditsGoToTheirMemory
    NextActionSeesLast
    SearchFollows
    TitlesGoHome
    OutlineFollows
    
    PagesAgree
    HomeTells
    NumbersAddUp
    RowsTell
CHECK_DEADLOCK FALSE
