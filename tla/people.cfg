SPECIFICATION Spec
CONSTANTS
    Requests = {r, q}
    OvertimeIds = {o1, o2}
    LeaveIds = {l1, l2}
    Days = {0, 1}
    Times <- MCTimes
    DayLength = 2
    Statuses = {"pending", "approved", "rejected"}
    Scenarios <- MCScenarios
    MaxRequests <- MCRequests
    Null = Null
    Payouts = {"lieu"}
    Blank = Blank
    CoverIds = {1, 2, 3}
    Rotations = {1}
    Members = {"ann", "bob", "cy"}
    CoverStaff <- MCCoverStaff
    CoverDays = {1, 2}
    Planners <- MCPlanners
    CoverRequests = {r, q}
    NoCover = NoCover
    MaxCoverCalls = 2
    Register <- MCRegister
    Alike <- MCAlike
    ShiftDays = {1, 2, 3}
    Period = {1, 2}
    Reviews <- MCReviews
    HandRows <- MCHandRows
    Watchers = {{1}, {}}
    Workers = {"ann", "bob"}
    Dates = {1, 2, 3}
    MonthOf <- MCMonthOf
    MonthIds = {1, 2}
    Foremen = {r, q}
    NoMonth = NoMonth
    MaxMonthCalls = 2
    MaxApprovals = 1
    Importers = {r, q}
    Keepers = {k}
    NoSheet = NoSheet
    NoCode = NoCode
    NoReview = NoReview
    MaxImports = 2
    MaxHandSaves = 1
    MaxLeaveEdits = 1
    MaxImportFaults = 1
    Tools = {T1, T2}
    Artisans = {"ann", "bob"}
    Section = {"bob"}
    Open = {}
    Accounts = {"x"}
    Desks = {r, q}
    SendKeys = {k}
    NoTool = NoTool
    NoOne = NoOne
    NoKey = NoKey
    MaxToolCalls = 3
    Lines = {"a", "b", "c"}
    Cataloguers = {r, q}
    MaxLineCalls = 4
    MaxLineFaults = 1
    PieceLines <- MCPieces
    Sets = {1, 2}
    Names = {"ann", "7", "bob"}
    Who <- MCWho
    Approved = {"ann", "bob"}
    Queues <- MCQueues
    Counters = {r, q}
    RequestKeys = {k}
    NoSet = NoSet
    NoPiece = NoPiece
    Nobody = Nobody
    MaxSetCalls = 2
    MaxSetFaults = 1
CHECK_DEADLOCK FALSE
SYMMETRY Symmetry
INVARIANTS TypeOK ImportsAddUp
PROPERTIES BookedOnce DecisionsStand LieuIsOwed ToolsAreAccountedFor SetsAreWhole
