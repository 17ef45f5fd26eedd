SPECIFICATION FairSpec
CONSTANTS
    Daily = s1
    Schedules = {s1, s2}
    Units = {u1}
    Workers = {w1}
    NoUnit = NoUnit
    MaxDate = 1
    Advance <- MCAdvance
    NextOccurrence <- MCNextOccurrence
    MaxEdits = 1
    MaxPatches = 1
    MaxFaults = 1
    FaultKinds = {"read_ensure", "ensure", "claim", "claim_reply", "prepare", "insert", "insert_reply", "release", "link", "advance", "crash"}
INVARIANT OneRoutinePerUnit
PROPERTY DueIsEventuallyRaised
