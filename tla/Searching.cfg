\* One request of the route over all lists of two out of three chunks, and two,
\* overlapping or not, that find one chunk at most; three queries, two entries and two ticks of the cache; two rounds of the loops.
SPECIFICATION Spec
CONSTANTS
    a = a
    b = b
    c = c
    Queries = {a, b, c}
    Sim <- MCSim
    Threshold = 1
    MaxEntries = 2
    Ttl = 1
    MaxTime = 2
    MaxVersion = 1
    NoReply = NoReply
    Chunks = {1, 2, 3}
    Resolves = {1, 2}
    Cost <- MCCost
    Newer <- MCNewer
    MaxIters = 2
    MinRelevant = 2
    MaxCited = 2
    MaxQuoted = 1
    NQueries = 2
    Budget = 2
    RrfScale = 238266
    RrfK = 60
    new = new
    old = old
    other = other
    Requests = {r1, r2}
    Paths = {new, old, other}
    PathOf <- OneChunkEach
    KeyOf <- TwoVersions
    Archived = {old}
    PgSearch = TRUE
    Depth = 2
    RerankDepth = 2
    MaxHits = 2
    MaxMtime = 1
CONSTRAINT SecondIsSmall
SYMMETRY RequestSymmetry
INVARIANTS
    CacheServesItsEntries
    LoopsKeepToEvidence
    FusionRespectsAgreement
    VersionsGiveWay
    OutcomeTellsHow
\* A loop ends with its answer.
CHECK_DEADLOCK FALSE
