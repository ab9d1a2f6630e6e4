CONSTANTS
    a1 = a1  a2 = a2  b1 = b1  b2 = b2  c1 = c1  c2 = c2
    a3 = a3
    Keys = {"tenant"}
    Requests = {a1, a2}
    Limits = {1, 2}
    Windows = {"w1", "w2"}
    None = None
    Window = 1
    IdleAge = 2
    SweepPeriod = 2
    MaxTime = 4
    Jobs = {"job"}
    Findings = {"finding"}
    UrlOf <- SameUrl
    Claims = {"claim"}
    Cites <- Citing
    Calls = {a1, a2}
    MaxRetry = 1
    BatchSize = 1
    Users = {"u1"}
    Tokens = {a1, a2}
    AgentKeys = {"key"}
    Life = 2
    Keep = 2
    MaxNow = 3
    Tenants = {a1, a2}
    Firms = {c1, c2}
    Programs = {"csr"}
    Dealings = {b1, b2}
    Root = Root
    Mails = {"m1", "m2"}
    Blank = {"m2"}
    Texts = {a1, a2}
    Reviewers = {b1, b2}
    People = {"p1", "p2", "p3"}
    Orgs = {"A", "B"}
    OrgOf <- Employer
    Admins = {"p1"}
    Threads = {a1, a2}
    Chats = {"chat"}
    MaxLogged = 2
    Contexts = {"task1", "task2"}
    TenantOf <- Tasks
    Nobodys = Nobodys
    Runs = {a1, a2}
    Second = 2
    Ttl = 1
    SupportCost = 1
    ResearchCost = 2
    TaskCap = 4
    TenantCap = 2
    MaxTick = 3
    MaxDay = 1
    Ngos = {a1, a2}
    Drives = {"d1", "d2"}
    Wordings = {b1, b2}
    Deals = {"deal"}
    DealStages = {"DISCOVERED", "WON"}
    NoRow = NoRow
    Default = Default
    Writers = {c1, c2}
    Uploaders = {a1, a2}
    Kinds = {"pptx"}
    Nothing = Nothing
    Broken = Broken
    BuiltIn = BuiltIn
    Desks = {b1, b2}
    Letters = {a1, a2, a3}
    Institutions = {"a"}
    Receivers = {"f", "g"}
    Statuses = {"SUBMITTED", "ACCEPTED"}
    Largest = 2
    Standard = 2
    Asked = {0, 3}
    Readers = {"r"}
    Rivals = {1, 2, 3, 4}
    Looks <- Appearances
    Wishes <- Requirements
    ReadAtMost = 3
    Longest = 2
    Usual = 1
    Models = 3
    Attempts = 3
    Pause = 4
    Found <- Reports
    Houses = {c1, c2}
    Deeds = {a1, a2}
    Permits = {"nib"}
    Codes = {"k"}
    Null = Null
    Concerns = {c1, c2}
    Persons = {b1, b2}
    Posts = {"u"}
    Watchers = {a1}
    NoOne = NoOne
SPECIFICATION ServicesSpec
INVARIANTS
    TypesOK LimiterSpanBound SignalsRetractedIsHidden
    SessionsLoggedOutIsRefused SessionsRightsEndWithinADay
    MarketHoldersWereApproved MarketPrivateSeenByClaimant
    TicketsRepliesWereInReview TicketsEachMailOnce AssistantNothingOfOthersButFeed
    AssistantThreadsKeepToOwner ControlAcceptedALifeApart
    ControlOvershootBounded PitchesFromOwnPrograms OwnMastersOnly
    ProposalsNoneSkipped MatchingBestAreListed LanguageFindingIsFounded
    RegistersRegisteredHasNumber MonitoringWatchedExists
PROPERTIES
    LimiterNoFalseRejection SignalsReviewSurvives
    SignalsRetractionLeavesNone MarketManagedByClaimant
SYMMETRY ServicesSymmetric
CHECK_DEADLOCK FALSE
