SPECIFICATION ServicesSpec
CONSTANTS
    p1 = p1
    p2 = p2
    t1 = t1
    t2 = t2
    Rows = {p1, p2}
    Threads = {t1, t2}
    Modes = {"optional", "required_internal", "required_internal_and_client"}
    StartStatuses = {"pending_review", "pending_client", "approved"}
    ChipTargets = {"draft", "approved", "scheduled"}
    MaxEdits = 1
    MaxRequests = 2
    QueuedPosts = {"a", "b", "c"}
    Queues = {"q1", "q2"}
    Booked <- FirstTwoSlots
    SlotThreads = {t1, t2}
    Horizon = 3
    LastNow = 1
    MaxSlotOps = 2
    MaxReminders = 2
    LastHour = 4
    MaxMoves = 2
    MaxSweepDeaths = 1
    Channels = {"email", "webhook"}
    MaxAttempts = 3
    RetryBatch = 1
    LastMinute = 4
    MaxDeliveryDeaths = 1
    InboxMessages = {p1, p2}
    LastPoll = 1
    MaxPulls = 2
    BacklogWindow = 0
    TargetResponse = 1
    MaxInboxFaults = 1
    Items = {"x"}
    Approvers = {t1, t2}
    MaxGenerations = 2
    TokenLimit = 1
    Tokens = 1
    MaxDraftEdits = 1
    MaxCampaignFaults = 1
    MaxMediaRetries = 3
    MaxMediaAccidents = 2
    MaxGrants = 4
    MaxTokenFaults = 1
    Finalizers = {t1, t2}
    MaxAssets = 2
    MaxMediaMoves = 3
    MaxLibraryFaults = 1
    Users = {"u1", "u2"}
    Owner = "u1"
    OrgThreads = {t1, t2}
    Grace = 2
    LastDay = 3
    MaxOrgOps = 4
    MaxOrgDeaths = 1
    Admins = {p1, p2}
    BillingThreads = {t1, t2}
    MaxCheckouts = 2
    WorkerMaxAttempts = 2
    MaxBillingOps = 3
    MaxBillingFaults = 1
    MaxPublishRetries = 2
    MaxPolls = 2
    MaxMedia = 2
    DayHours = 2
    RecentDays = 2
    LastSyncHour = 2
    MaxAccountChanges = 1
    MaxSyncFaults = 1
    KeyPerms = {"publish"}
    KeyAccounts = {"a"}
    KeyEditors = {"e1", "e2"}
    Issuer = "e1"
    Agents = {"agent"}
    Processes = {p1, p2}
    KeyTTL = 1
    SlowStep = 1
    LastAccess = 1
    MaxKeyChanges = 2
    Uploads = {"u"}
    Library = {"lib"}
    MaxDraftCalls = 4
    MaxLostAnswers = 1
    PostAccounts = {"a", "b"}
    Savers = {t1, t2}
    MaxSaves = 2
    IdeaIds = {"i", "j"}
    Columns = {"c", "d"}
    IdeaAssets = {"m", "n"}
    Planners = {t1, t2}
    MaxIdeaOps = 4
    Files = {"f", "g"}
    CsvRows = 2
    NoCaption <- SecondRowOfF
    Dated <- FirstRowOfF
    Importers = {t1, t2}
    MaxCsvCalls = 5
    MaxCsvFaults = 1
    FolderIds = {"A", "B", "C", "D"}
    FolderNames = {"x", "y"}
    OldFolders <- ThreeDeep
    FolderFiles = {"m"}
    FolderThreads = {t1, t2}
    MaxFolderOps = 3
    VersionEditors = {t1, t2}
    Surfaces = {"workspace", "org"}
    MaxVersions = 2
    MaxEditOps = 3
    MaxEditFaults = 1
    Places <- TwoPlaces
    LinkWorkspace = "w1"
    Tabs = {t1, t2}
    Seats <- OneGuest
    MaxAuths = 2
    MaxEnds = 1
    LastTick = 7
    Soon = 2
    GrantedLives <- OneTickOrFour
    Workspaces = {"w1", "w2"}
    PortalThreads = {t1, t2}
    MaxLinks = 2
    MaxPortalOps = 4
    Talkers = {"writer", "reviewer"}
    Moderators = {"reviewer"}
    TalkThreads = {t1, t2}
    MaxComments = 2
    MaxTalkOps = 3
    AgentPosts = {p1, p2}
    Callers = {"key", "person"}
    CallThreads = {t1, t2}
    Batches <- SomeBatches
    CallRate <- KeyAndPerson
    WorkspaceRate = 2
    DailyCap = 1
    CapWindow = 1
    LastCallDay = 1
    MaxCalls = 2
    MaxCallFaults = 1
    AuthFailLimit = 3
    MaxLogins = 6
    FeedUrls = {"a", "b"}
    FeedTabs = {t1, t2}
    Documents <- NothingOrFour
    EntriesRead = 3
    FeedPage = 1
    FirstFeeds <- NoneOrBoth
    MaxFeedIds = 2
    MaxFeedOps = 2
    Measured = {p1, p2}
    PublishDays <- UndatedOrOlder
    Period = 2
    LastInsightDay = 3
    CountStep = 12
    MaxCount = 1
    MaxFollowers = 2
    MaxPostSyncs = 3
    MaxAccountSyncs = 1
    MaxFollowerSyncs = 5
    Slots = {1, 2}
    ProviderAdmins = {t1, t2}
    Models = {"gpt-5"}
    ModelFamily <- FamilyOf
    Priorities = {1}
    Environments <- NoneOrThree
    Answers <- SomeAnswers
    CaptionLimit = 5
    CampaignDays <- TomorrowOnly
    ZoneOffset = 7
    MaxKeys = 2
    MaxForms = 2
    MaxProbes = 1
    MaxTried = 1
SYMMETRY Symmetry
INVARIANTS
    ServicesTypeOK
    EditorialIsSound
    QueueIsSound
    RemindersAreSound
    DeliveriesAreSound
    InboxIsSound
    AutomationIsSound
    AccountsAreSound
    MediaIsSound
    OrganizationIsSound
    SubscriptionIsSound
    PublishingIsTold
    AnalyticsAreSound
    PagesAreSound
    AccessIsSound
    ComposingIsSound
PROPERTIES
    DecisionsStand
    HistoryKept
CHECK_DEADLOCK FALSE
