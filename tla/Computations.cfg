SPECIFICATION Spec
CONSTANTS
    x = x
    y = y
    lead = lead
    s = s
    gap = gap
    Separators = {gap}
    p = p
    q = q
    SecondByte = s
    None = None
    CiteTasks <- MCCiteTasks
    FactTasks <- MCFactTasks
    ConflictTasks <- MCConflictTasks
    Discount <- MCDiscount
    JudgeLabels <- MCLabels
    Space = gap
    Missing = Missing
    NewerPath <- MCNewerPath
    RerankDepth = 2
    RankTasks <- MCRankTasks
    VoteTasks <- MCVoteTasks
    PreferenceTasks <- MCPreferenceTasks
    RerankTasks <- MCRerankTasks
    DeltaTasks <- MCDeltaTasks
    RetrieveTasks <- MCRetrieveTasks
    RunFileTasks <- MCRunFileTasks
    Float <- MCFloat
    Booleans = {"true"}
    EmptyCell = ""
    Alphabet <- MCAlphabet
    IdColumns = {}
    FewValues = 20
    NotGiven = NotGiven
    ChartTasks <- MCChartTasks
    Corpus <- MCCorpus
    PathOrder <- MCPathOrder
    Evidences = 2
    Citations = 2
    NoRun = NoRun
    Nothing = Nothing
    ArtifactTasks <- MCArtifactTasks
    Runs = {7, 8}
    TopLevel = TopLevel
    NoRunId = NoRunId
    NodeRank <- MCNodeRank
    RankWeight <- MCDiscount
    PprCategories = {"multihop"}
    TreeTasks <- MCTreeTasks
    BoostTasks <- MCBoostTasks
    WindowSize = 4
    WindowOverlap = 1
    MaxSection = 4
    SectionOverlap = 1
    WholeYaml = 4
    ByteWidth <- MCByteWidth
    ChunkTasks <- MCChunkTasks
    Idf <- MCIdf
    Sigmoid <- MCSigmoid
    Weights <- MCWeights
    Window = 2
    SearchTasks <- MCSearchTasks
    SplitTasks <- MCSplitTasks
    NoCode = NoCode
    MaxSearches = 2
    TalkTasks <- MCTalkTasks
    RolloutTasks <- MCRolloutTasks
    NoId = NoId
    NoRange = NoRange
    Tree <- MCTree
    NameOrder <- MCNameOrder
    ReadTasks <- MCReadTasks
    SessionTasks <- MCSessionTasks
    Unset = Unset
    NegationPairs <- MCNegationPairs
    ClaimTasks <- MCClaimTasks
    AverageTasks <- MCAverageTasks
    NumberWords <- MCNumberWords
    JudgeTasks <- MCJudgeTasks
    Deployments <- MCDeployments
    Levels <- MCLevels
    HomeModel <- MCHomeModel
    Datasets = {"scifact", "nfcorpus"}
    BeirConfigs <- MCBeirConfigs
    Embeds = {"dense", "reranked"}
    Reranks = {"reranked"}
    Revisions = {"r1", "r2"}
    PerLevel = 3
    Warmups = 1
    NoReport = NoReport
    HomeCommit = "k1"
    Commits = {"k1", "k2", "k3"}
    Configs = {"c1", "c2"}
    BaselineOnly = {"c1"}
    Quality <- MCQuality
    PathsAt <- MCPathsAt
    UncitedAt <- MCUncitedAt
    Threshold = 1
    MaxMoves = 2
    MaxStarts = 2
    NoFile = NoFile
    Threads = {t1, t2, t3}
    MaxConn = 2
    NoCall = NoCall
    Helpers = {"create_bm25_index", "ensure_binary", "ensure_pg_search_extension", "set_ef_search"}
    MaxCalls = 3
    Torn = Torn
INVARIANTS
    AnswerKeepsToCitations
    ScoresAreFair
    GeneratedTellsItsSource
    FilesKeptWhole
    ResultFilesTellTheirSource
    HelpersTellWhatTheyLeft
    ConversationsKeepTheirTurns
CHECK_DEADLOCK FALSE
