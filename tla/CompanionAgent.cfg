\* One request: what the model may do with the rounds, the calls and the
\* sources it is allowed.
CONSTANTS
    Requests = {r1}
    Excerpts = {e1, e2, e3}
    MaxModelRounds = 4
    MaxToolCalls = 4
    MaxSources = 2
    MaxHits = 2
    MaxConcurrent = 1
    LiveConfigured = TRUE
SPECIFICATION Spec
INVARIANTS
    CitesInspected
    AnswersMeetContract
