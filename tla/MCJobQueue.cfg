SPECIFICATION Spec
CONSTANTS
    Jobs = {1, 2}
    Workers = {w1, w2}
    NoWorker = NoWorker
    JobTypes <- MCTypes
    Payloads <- MCPayloads
    Requests <- MCRequests
    NoRequest = NoRequest
    Keys = {k}
    NoKey = NoKey
    Reports <- MCReports
    NoReport = NoReport
    AttemptLimit = 2
    BatchLimit = 2
INVARIANTS
    TypeOK
    WithinBudget
    OneOpenAttempt
    LedgerExplainsStatus
    SweepsCoverEveryJob
PROPERTIES
    LedgerIsAppendOnly
    AttemptsKeepTheirOwner
    LifecyclePromise
CHECK_DEADLOCK FALSE
