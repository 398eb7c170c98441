SPECIFICATION ServicesSpec
CONSTANTS
    w1 = w1  w2 = w2  u1 = u1  u2 = u2  v1 = v1  v2 = v2  NOBODY = NOBODY
    Talkers <- TwoTalkers
    Candidates <- TwoCandidates
    Conversations <- TwoConversations
    HistoryTake = 2
    NewestSkipped = 1
    TopK = 1
    ToolCalls = 2
    ClockSteps = {0, 1}
    MaxMoment = 1
    ChatCalls <- AllChatCalls
    ChatBudget = 2
    Mails <- TwoConversations
    Posters <- TwoTalkers
    Recipients <- TwoCandidates
    TypeCodes = {"match"}
    Notes <- TwoConversations
    DeliveryCalls <- AllDeliveryCalls
    NOTE = NOTE
    Loaders = {l1, l2}
    Seeders = {s1, s2}
    Feeds <- MCFeeds
    CityNames <- RefCityNames
    Countries <- RefCountries
    MajorCodes <- RefMajorCodes
    Institutes <- RefInstitutes
    CityBatch = 1
    CityChunk = 1
    SampleSize <- RefSample
    DeployCalls <- AllDeployCalls
    NOWHERE = NOWHERE
    ListRows <- MCRows
    ListQueries <- MCQueries
    ListEffort = 3
    Walkers = {c1}
    PageSize = 1
    MatchUsers <- TwoCandidates
    MatchQueries = {mq}
    Asks <- TwoTalkers
    CacheTTL <- ShortTTL
    MaxClock = 2
    MaxVersion = 2
    ABSENT = ABSENT
    Contents <- SomeContents
    BLANK = BLANK
SYMMETRY ChatSymmetry
INVARIANTS ServicesTypeOK OwnersOnly BrokenTurnHasCause MemoryOfAnsweredTurns PagesShowOnce
    CompletedWasMailed DeploymentHasCause DoneHasLoaded ShownIsTrue PdfShowsPlainDocument
CHECK_DEADLOCK FALSE
