SPECIFICATION Spec
CONSTANTS
    Daily = s1
    Schedules = {s1}
    Units = {}
    Workers = {w1, w2}
    NoUnit = NoUnit
    MaxDate = 1
    Advance <- MCAdvance
    NextOccurrence <- MCNextOccurrence
    MaxEdits = 1
    MaxPatches = 0
    MaxFaults = 1
    FaultKinds = {"insert_reply"}
SYMMETRY WorkerSymmetry
INVARIANT OneJobPerDueDate
