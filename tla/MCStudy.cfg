SPECIFICATION StudySpec
CONSTANTS
    Runners = {r1, r2}
    Directories = {desk}
    Torn = Torn
    Unbound = Unbound
    MaxTries = 2
    MaxBreaks = 2
    MaxCommits = 2
INVARIANTS
    OpenedTestsHaveTheirSelection
    NoMixedEvidence
    PreparationsAreReady
    RecordedEvidenceIsWhole
    PushesAreStudied
CHECK_DEADLOCK FALSE
