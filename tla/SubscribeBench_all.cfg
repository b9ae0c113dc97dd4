CONSTANTS
    Endpoints = 2
    ReadsPerNode = 2
    Timeout = 1
    Statement = {s1, s2}
    Redelivered = 1

SPECIFICATION FairSpec

INVARIANTS
    TypeOK
    ReportTrue

PROPERTIES
    VerdictTrue
    Terminates

CHECK_DEADLOCK FALSE
