CONSTANTS
    d1 = d1
    d2 = d2
    u1 = u1
    u2 = u2
    u3 = u3
    c1 = c1
    c2 = c2
    NoContent = NoContent
    Nobody = Nobody
    Datasets = {d1, d2}
    Requests = {u1, u2, u3}
    Contents = {c1, c2}
    MaxFaults = 2
    MaxCrashes = 1

SPECIFICATION CatalogSpec
INVARIANTS
    VersionsKeepTheirBytes
    VersionsKeepTheirDataset
    NumbersAndSourcesAreUnique
    AnswersAreKept
    UndoneLeavesNothing
SYMMETRY Symmetry
CHECK_DEADLOCK FALSE
