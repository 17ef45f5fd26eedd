SPECIFICATION JobsSpec
CONSTANTS
    Daily = s1
    Schedules = {s1, s2}
    Units = {}
    Workers = {w1, w2}
    NoUnit = NoUnit
    MaxDate = 1
    Advance <- MCAdvance
    NextOccurrence <- MCNextOccurrence
    MaxEdits = 2
    MaxPatches = 0
    MaxFaults = 1
    FaultKinds = {"read_ensure", "ensure", "claim", "claim_reply", "prepare", "insert", "release", "link", "advance", "crash"}
    Clients = {m, a}
    Managers = {m}
    Statuses = {"pending", "in-progress", "completed"}
    Keep = Keep
    OrderKinds = {"patch", "close", "delete", "comment"}
    PatchModes = {"version", "none"}
    MaxOpened = 3
    Procs = {p, q}
    Jobs = {j1, j2}
    Breakdowns = {b1, b2, b3}
    NoJob = NoJob
    NoBreakdown = NoBreakdown
    Kinds = {"create", "create_alone", "job", "raise", "patch", "record", "delete_breakdown", "delete_job"}
    MaxRequests = 4
    MaxFails = 1
    PlanTools = {1, 2}
    Place <- MCPlace
    WindowDays = 2
    FirstDay <- MCFirstDay
    LastDay <- MCLastDay
    Readers = {p, q}
    MaxPlanCalls = 2
    MaxPlanFaults = 1
    MaxArrivals = 1
CHECK_DEADLOCK FALSE
SYMMETRY JobsSymmetry
INVARIANTS OneJobPerDueDate TrailTellsWhatChanged DowntimeRecorded
PROPERTIES ImplementsDueRegister VersionedSaveIsExclusive SignoffByManager LinksAreSingle PlanStands
