SPECIFICATION PipelineSpec
CONSTANTS
    Jobs = {1, 2}
    Workers = {w1, w2}
    NoWorker = NoWorker
    JobTypes <- MCTypes
    Payloads <- MCPayloads
    Requests <- MCRequests
    NoRequest = NoRequest
    Keys = {}
    NoKey = NoKey
    Reports = {1, 99}
    NoReport = NoReport
    AttemptLimit = 2
    BatchLimit = 1
    Supported <- MCTypes
    MayPause = FALSE
    MaxCrashes = 1
    MaxFaults = 0
    CallsMayFail = FALSE
    Batches = {1, 2}
    StagedAttempts = 2
INVARIANTS
    TransformationsAreWhole
SYMMETRY Symmetry
