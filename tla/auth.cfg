SPECIFICATION MCSpec
CONSTANTS
    Servers = {s, p}
    Requests = {r}
    Tokens = {t1, t2}
    Users = {u1}
    u1 = u1
    t1 = t1
    t2 = t2
    Owner <- MCOwner
    Strong = {}
    Ttl = 2
    MaxEntries = 1
    Slow = 1
    MaxChanges = 1
    MaxFailures = 1
    Usernames = {u, w}
    Passwords = {p1, p2}
    p1 = p1
    Visits = {s, p}
    _LOGIN_FAIL_MAX = 1
    NoAccount = NoAccount
    MaxVisits = 3
    MaxVisitFaults = 1
    Movable = {u, w}
    Officers = {"boss", "clerk"}
    ApprovalRoles <- MCRoles
    Kinds <- MCKinds
    Gates = {s, p}
    MaxPassCalls = 5
    MaxPassFaults = 1
    Contents = {"bit", "bit holder", "drill"}
    Loose = {"bit", "bit holder"}
    Mentions <- MCMentions
    FoundStates = {"available", "damaged"}
    Checkers = {s, p}
    MaxCheckCalls = 3
    MaxCheckFaults = 1
CHECK_DEADLOCK FALSE
SYMMETRY ServerSymmetry
INVARIANTS MCTypeOK ChangesTakeEffect FreshAfterTtl AccountsAreSafe PassesAreSigned CheckedOnce
