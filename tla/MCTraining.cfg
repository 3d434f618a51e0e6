SPECIFICATION TrainingSpec
CONSTANTS
    PerHour = 4
    GapLimit = 2
    MinObserved = 3
    DuplicatePolicy = "reject"
    NoValue = NoValue
    Unreadable = Unreadable
    Reading <- MCReading
    Window = 2
    Horizon = 1
    Ninety = 3
    Eighty = 2
    Periods <- MCPeriods
    TestStart = 4
    Outages = {1, 3}
    MaxSamples = 24
    MaxDefects = 2
INVARIANTS
    ReadyHoursAreBacked
    PartsShareNoSample
    CampaignAgreesWithProduct
    BaselinesAnswerForecasts
    ReportExplainsHours
PROPERTIES
    FeaturesAreFinal
CHECK_DEADLOCK FALSE
