\* Three requests for two places: failures, deadlines and answers in any order.
CONSTANTS
    Requests = {r1, r2, r3}
    Excerpts = {e1}
    MaxModelRounds = 2
    MaxToolCalls = 1
    MaxSources = 1
    MaxHits = 1
    MaxConcurrent = 2
    LiveConfigured = TRUE
SPECIFICATION FairSpec
PROPERTIES
    ImplementsBoundedService
    EveryAskAnswered
