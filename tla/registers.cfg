SPECIFICATION Spec
CONSTANTS
    StockRequests = {r, q}
    StockCodes = {"a", "b"}
    IssueIds = {i, j}
    ItemLists <- MCItemLists
    Counts = {2}
    Attempts = 2
    NoIssue = NoIssue
    MaxIssueCalls = 3
    MaxCounts = 1
    MaxLost = 1
    Recurrences <- MCRecurrences
    FirstDates <- MCFirstDates
    LastYear = 2028
    PPERequests = {r, q}
    PPERecords = {"x", "y"}
    People = {"miner"}
    Types = {"boots", "suit"}
    Departments = {"Mining", "Engineering"}
    Separate = {"Mining"}
    Company = "company"
    Register0 <- MCDepartment
    Shelf0 <- MCShelf
    Default <- MCDefault
    Intervals = {0, 2}
    IssueDates = {0, 1}
    Patches <- MCPatches
    Keys = {"k1", "k2", "k3"}
    Form <- MCForm
    NoPPE = NoPPE
    MaxPPECalls = 3
    MaxPPELost = 1
    Creators = {r, q}
    Generators = {g}
    MaxAttempts = 2
    PageCap = 3
    Recent = 2
    MaxJobs = 3
    MaxNumber = 6
    Entries = {r, q}
    Dates = {1, 2}
    Totals <- MCTotals
    SERVICE_MILESTONES = {400, 800}
    NoMeter = NoMeter
    NoReading = NoReading
    MaxEntries = 2
    MaxMeterFaults = 1
    MaxEdits = 1
    Officers = {r, q}
    PersonIds = {1, 2}
    PaperIds = {11, 12, 13}
    MaxCopies = 3
    MaxOfficeFaults = 1
    NoRow = NoRow
    Numbers = {"C1", "C2"}
    Abouts = {"miner", "fitter", "blanks"}
    Unfilled = {"blanks"}
    Elsewhere = {"fitter"}
    Things = {"boots"}
    NoItem = "nothing"
    Workbooks <- MCWorkbooks
    Tasks <- MCTasks
    MaxImports = 1
CHECK_DEADLOCK FALSE
SYMMETRY IdSymmetry
INVARIANTS StockAddsUp OneEventPerMovement ExpiryFollowsMatrix RefusedOnlyByRaces MeterTallies DeletedIsKept RecordsFindTheirPerson
PROPERTIES RollsToTheNextDate
