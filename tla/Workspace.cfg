\* The components of the API and of the browser, one at a time.
CONSTANTS
    Users = {u1, u2}
    Items = {x1, x2}
    Requests = {r1, r2}
    None = None
    Checks = {x1}
    SpecVersions = {0, 2}
    Cooldown = 2
    Repos = {r1}
    EnvSession = x1
    Deliveries = {r2}
    LoggedTypes = {"VALIDATION_PASSED", "AGENT_REPLY"}
    TypeFilters = {{}, {"AGENT_REPLY", "agent_reply"}}
    Limits = {1, 2}
    Given = {0, 3}
    PublishTries = 2
    ReplayTries = 2
    ReplayAttempts = 2
    Discussions = {x1}
    RetroWindow = 5
    ChatWindow = 3
    MaxVersion = 4
    MaxApprovals = 2
    MaxRepeats = 2
    MaxIssued = 2
    MaxTokens = 3
    MaxEvents = 2
    MaxTime = 1
    MaxDeaths = 1
    MaxConversions = 2
    MaxReports = 2
    MaxQuestions = 3
SPECIFICATION Spec
INVARIANTS
    TypeOK
    VersionNamesContent
    SettledStateShowsLastDelta
    IndexFollowsFile
    GateWasEarned
    AuditMatchesLog
    FeedbackIsTheOneAnnounced
    SpentTokensServeNobody
    CookieCanBeRefreshed
    
    LostOnlyAfterOutage
    NumberedVersionsIncrease
    StopIsHeeded
    ScreenOpensWithServer
    NotesAreShownOnce
    ConcernsAreRaised
PROPERTY ScreenNeverFallsBack
\* A learner may be done.
CHECK_DEADLOCK FALSE
