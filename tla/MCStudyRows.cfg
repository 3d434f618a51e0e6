SPECIFICATION StudySpec
CONSTANTS
    Runners = {r1, r2}
    Directories = {desk}
    Torn = Torn
    Unbound = Unbound
    MaxTries = 1
    MaxBreaks = 2
    MaxCommits = 2
INVARIANTS
    ResultsNameTheirProfile
CHECK_DEADLOCK FALSE
