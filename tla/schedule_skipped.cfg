SPECIFICATION FairSpec
CONSTANTS
    Daily = s1
    Schedules = {s1}
    Units = {}
    Workers = {w1}
    NoUnit = NoUnit
    MaxDate = 1
    Advance <- MCAdvance
    NextOccurrence <- MCNextOccurrence
    MaxEdits = 1
    MaxPatches = 0
    MaxFaults = 1
    FaultKinds = {"prepare"}
PROPERTY NoDateIsSkipped
