SPECIFICATION FairSystem
CONSTANTS
    Jobs = {1}
    Workers = {w1, w2}
    NoWorker = NoWorker
    JobTypes <- MCTypes
    Payloads <- MCPayloads
    Requests <- MCRequests
    NoRequest = NoRequest
    Keys = {}
    NoKey = NoKey
    Reports = {}
    NoReport = NoReport
    AttemptLimit = 3
    BatchLimit = 1
    Supported <- MCSupported
    MayPause = TRUE
    MaxCrashes = 1
    MaxFaults = 1
INVARIANTS
    JoinedMeansClosed
PROPERTIES
    WritesComeFromTheAttempt
    JobsSettle
    WorkersComeBack
