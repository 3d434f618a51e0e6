SPECIFICATION ForecastsSpec
CONSTANTS
    Jobs = {1}
    Workers = {w1, w2}
    NoWorker = NoWorker
    JobTypes <- MCTypes
    Payloads <- MCPayloads
    Requests <- MCRequests
    NoRequest = NoRequest
    Keys = {}
    NoKey = NoKey
    Reports = {75, 100}
    NoReport = NoReport
    AttemptLimit = 2
    BatchLimit = 1
    Supported <- MCTypes
    MayPause = FALSE
    MaxCrashes = 1
    MaxFaults = 0
    StagedAttempts = 2
    CallsMayFail = TRUE
    Algorithms = {naive, ridge}
    Simplicity <- MCSimplicity
    Metrics <- MCMetrics
    Calls = {call}
INVARIANTS
    ForecastsShowTheirBundle
    CompletedIsWhole
    OnlyTheRecommendedIsTested
PROPERTIES
    RecommendationIsFinal
    CompletedStays
SYMMETRY Symmetry
