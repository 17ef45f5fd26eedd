SPECIFICATION LinksSpec
CONSTANTS
    Procs = {p}
    Jobs = {j1, j2}
    Breakdowns = {b1, b2, b3}
    NoJob = NoJob
    NoBreakdown = NoBreakdown
    Kinds = {"create", "create_alone", "raise"}
    MaxRequests = 2
    MaxFails = 0
CHECK_DEADLOCK FALSE
INVARIANTS OneBreakdownPerJob
