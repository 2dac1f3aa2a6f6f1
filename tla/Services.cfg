CONSTANTS
    \* StageBoard
    Mains = {m1, m2}
    Prov = p
    BoardCalls = {b1, b2}
    BoardRequests = 3
    NewCodes = {781, 769, 1}
    BoardFails = TRUE
    \* LawsuitQueries
    Listed <- MCListed
    Filters <- MCFilters
    \* ActivityBoard
    ActivityTypes = {"PRE_ANALISE", "ANALISE"}
    Users = {"u1", "u2"}
    ActivityCalls = {1, 2}
    ActivityRequests = 3
    NotifyFails = TRUE
    \* LoginLock
    Logins = {1, 2, 3}
    MaxAttempts = 3
    MissedBound = 1
    \* UserAccounts
    Spellings = {"ana", "Ana", "bia"}
    Normal <- MCNormal
    PersonNames = {"x", "y"}
    Edits = {1, 2}
    AccountsBound = 2
    EditsBound = 2
    \* UserSessions
    Members = {"ana", "bia"}
    TokenLife = 3
    Horizon = 7
    TokensBound = 2
    \* DocumentExtraction
    Runs = {1, 2}
    RunsBound = 3
    FaultsBound = 1
    Millis = {1, 2}
    VertexTries = 2
    \* AthenaQuery
    ResultRows = {0, 1, 3}
    PollLimit = 2
    \* SyncBatch
    Requested = {"n1", "n2", "n3", "bad"}
    ValidCnjs = {"n1", "n2", "n3"}
    BatchBound = 3
    PoolSizes = {0, 2}
    \* CompanyRecords
    Validations = {1, 2}
    Uploads = {1, 2}
    Certificates = {1, 2}
    CompaniesBound = 3
    CompanyRequests = 4
    WebhooksBound = 2
    \* PagedLists
    PageLimit = 1
    EntriesBound = 3
    \* LawsuitForm
    FormFields = {"title", "value"}
    FormValues = {"x"}
    FormEdits = {1, 2}
    FormEditsBound = 3
    \* LawsuitIntake
    GivenNumbers = {"n1", "n2", "bad"}
    CnjNumbers = {"n1", "n2"}
    Intakes = {1}
    BatchSize = 2
    NumbersBound = 3
    QueueFaults = 1
    \* Resends
    Suits = {"late"}
    UnknownSuit = "u"
    CreatedAt <- MCCreatedAt
    DateValues <- MCDateValues
    NoDate = NoDate
    ChangesBound = 3
    ResendFaults = 1
SPECIFICATION ServicesSpec
INVARIANTS
    ActivitiesListedOnce
    HistoryTellsStages
    LinkedAtOneStage
    OneActiveOwner
    BulkUpdatesTheCounted
    MetricsCountOnce
    OneActivityEach
    EveryoneTold
    CounterWillExpire
    CountedAttemptsLock
    OneAccountPerAddress
    AccountsAsGiven
    RevokedStaysOut
    SessionOfTheBrowser
    ObjectIsThere
    ProcessingIsWorkedOn
    BatchAnswersEach
    OneRecordEach
    CertificateAccounted
    PagesShowEach
    IntakeAccounted
    ResendsTheQualified
PROPERTIES
    CompletedKeepsItsUser
    CompletedIsKept
    ExtractionEnds
    QueryAnswers
    FormFieldsKept
CHECK_DEADLOCK FALSE
