---------------------------- MODULE ToolAccounts ----------------------------
(***************************************************************************)
(* The accounts of the Tools workspace (src/app/routers/tools_workspace.py)*)
(* which have passwords and sessions of their own: sign-up, sign-in with   *)
(* its lock-out, roles, and the two ways a password changes.  Failed       *)
(* sign-ins are counted in each process.                                   *)
(***************************************************************************)
EXTENDS Naturals, FiniteSets

CONSTANTS
    Usernames, Passwords,
    Visits,              \* requests
    _LOGIN_FAIL_MAX,     \* failed sign-ins a process counts before it refuses
    NoAccount,
    MaxVisits, MaxVisitFaults   \* bounds: requests; calls that fail

ASSUME AccountsAssumption ==
    NoAccount \notin [role : {"admin", "issuer", "viewer"}, password : Passwords]

VARIABLES
    tool_accounts,   \* tools_workspace_accounts: [role, password] of each username
    sessions,        \* tools_workspace_sessions: the account, and the password it was opened with;
                     \* history: whether a change of the password overlapped the sign-in
    _login_failures, \* of one process: recent failures of each username
    asked,           \* password_reset_requests that are pending, per username
    visit,           \* per request
    unfinished,      \* history: accounts whose password changed in a request that then failed
    crossed_roles,   \* history: two changes of roles, or two sign-ups, overlapped
    visits, visit_faults

account_vars == <<tool_accounts, sessions, _login_failures, asked, visit, unfinished, crossed_roles, visits, visit_faults>>
Nowhere == [pc |-> "nowhere"]
Known == {u \in Usernames : tool_accounts[u] # NoAccount}
_account_role(u) == tool_accounts[u].role

AccountsTypeOK ==
    /\ \A u \in Known : tool_accounts[u] \in [role : {"admin", "issuer", "viewer"}, password : Passwords]
    /\ sessions \subseteq [of : Usernames, password : Passwords, crossed : BOOLEAN]
    /\ _login_failures \in [Usernames -> 0 .. _LOGIN_FAIL_MAX] /\ asked \in [Usernames -> Nat]
    /\ unfinished \subseteq Usernames /\ crossed_roles \in BOOLEAN
    /\ \A v \in Visits : visit[v].pc \in {"nowhere", "register", "open", "role", "password", "end", "close", "ask"}

AccountsInit(first, opened) ==
    /\ tool_accounts = first /\ sessions = opened /\ _login_failures = [u \in Usernames |-> 0]
    /\ asked = [u \in Usernames |-> 0] /\ visit = [v \in Visits |-> Nowhere]
    /\ unfinished = {} /\ crossed_roles = FALSE /\ visits = 0 /\ visit_faults = 0

Visiting(pc) == {v \in Visits : visit[v].pc = pc}
Enters(v, next) ==
    /\ visit[v] = Nowhere /\ visits < MaxVisits /\ visits' = visits + 1
    /\ visit' = [visit EXCEPT ![v] = next]
Moves(v, next) == visit' = [visit EXCEPT ![v] = next] /\ UNCHANGED visits

-----------------------------------------------------------------------------
(* Sign-up and sign-in. *)

\* The first account is an administrator, every later one a viewer.
register(v, u, p) ==
    /\ u \notin Known
    /\ Enters(v, [pc |-> "register", of |-> u, password |-> p, role |-> IF Known = {} THEN "admin" ELSE "viewer"])
    /\ crossed_roles' = (crossed_roles \/ Visiting("register") # {})
    /\ UNCHANGED <<tool_accounts, sessions, _login_failures, asked, unfinished, visit_faults>>
InsertAccount(v) ==
    /\ visit[v].pc = "register"
    /\ LET u == visit[v].of
           new == [role |-> visit[v].role, password |-> visit[v].password]
       IN  IF u \in Known THEN Moves(v, Nowhere) /\ UNCHANGED tool_accounts
           ELSE /\ tool_accounts' = [tool_accounts EXCEPT ![u] = new]
                /\ Moves(v, [pc |-> "open", of |-> u, password |-> visit[v].password, crossed |-> FALSE])
    /\ UNCHANGED <<sessions, _login_failures, asked, unfinished, crossed_roles, visit_faults>>

_login_allowed(u) == _login_failures[u] < _LOGIN_FAIL_MAX

\* An account that does not exist counts as a wrong password.
login(v, u, p) ==
    /\ _login_allowed(u)
    /\ IF u \in Known /\ p = tool_accounts[u].password
       THEN /\ Enters(v, [pc |-> "open", of |-> u, password |-> p, crossed |-> FALSE])
            /\ _login_failures' = [_login_failures EXCEPT ![u] = 0]
       ELSE /\ visit[v] = Nowhere /\ UNCHANGED <<visit, visits>>
            /\ _login_failures' = [_login_failures EXCEPT ![u] = @ + 1]
    /\ UNCHANGED <<tool_accounts, sessions, asked, unfinished, crossed_roles, visit_faults>>
_new_session(v) ==
    /\ visit[v].pc = "open"
    /\ sessions' = sessions \cup {[of |-> visit[v].of, password |-> visit[v].password, crossed |-> visit[v].crossed]}
    /\ Moves(v, Nowhere)
    /\ UNCHANGED <<tool_accounts, _login_failures, asked, unfinished, crossed_roles, visit_faults>>

\* Fifteen minutes pass, or the process restarts.
FailuresExpire(u) ==
    /\ _login_failures[u] > 0 /\ _login_failures' = [_login_failures EXCEPT ![u] = 0]
    /\ UNCHANGED <<tool_accounts, sessions, asked, visit, unfinished, crossed_roles, visits, visit_faults>>

\* Signing out, or the seven days of the session.
logout(s) ==
    /\ s \in sessions /\ sessions' = sessions \ {s}
    /\ UNCHANGED <<tool_accounts, _login_failures, asked, visit, unfinished, crossed_roles, visits, visit_faults>>

\* The session names the account; the account is read with it.
_session(u) == u \in Known /\ \E s \in sessions : s.of = u
_admin(u) == _session(u) /\ _account_role(u) = "admin"

-----------------------------------------------------------------------------
(* Roles. *)

MayAssign(a, u, role) == a = u => role = "admin"

update_account_role(v, a, u, role) ==
    /\ _admin(a) /\ u \in Known /\ MayAssign(a, u, role)
    /\ Enters(v, [pc |-> "role", of |-> u, role |-> role])
    /\ crossed_roles' = (crossed_roles \/ Visiting("role") # {})
    /\ UNCHANGED <<tool_accounts, sessions, _login_failures, asked, unfinished, visit_faults>>
WriteRole(v) ==
    /\ visit[v].pc = "role" /\ tool_accounts' = [tool_accounts EXCEPT ![visit[v].of].role = visit[v].role]
    /\ Moves(v, Nowhere)
    /\ UNCHANGED <<sessions, _login_failures, asked, unfinished, crossed_roles, visit_faults>>

-----------------------------------------------------------------------------
(* Passwords. *)
reset_account_password(v, a, u, p) ==
    /\ _admin(a) /\ u \in Known
    /\ Enters(v, [pc |-> "password", of |-> u, password |-> p, then |-> "close"])
    /\ UNCHANGED <<tool_accounts, sessions, _login_failures, asked, unfinished, crossed_roles, visit_faults>>

\* The caller has to know the password in force.
change_own_password(v, u, current, p) ==
    /\ _session(u) /\ current = tool_accounts[u].password
    /\ Enters(v, [pc |-> "password", of |-> u, password |-> p, then |-> "done"])
    /\ UNCHANGED <<tool_accounts, sessions, _login_failures, asked, unfinished, crossed_roles, visit_faults>>

\* The row; a sign-in that has compared its password already has crossed it.
WritePassword(v) ==
    /\ visit[v].pc = "password"
    /\ tool_accounts' = [tool_accounts EXCEPT ![visit[v].of].password = visit[v].password]
    /\ visit' = [o \in Visits |-> IF o = v THEN [visit[v] EXCEPT !.pc = "end"]
                                  ELSE IF visit[o].pc = "open" /\ visit[o].of = visit[v].of
                                       THEN [visit[o] EXCEPT !.crossed = TRUE] ELSE visit[o]]
    /\ UNCHANGED <<sessions, _login_failures, asked, unfinished, crossed_roles, visits, visit_faults>>

SessionsOf(u) == {s \in sessions : s.of = u}

\* A mutant: the sessions go on.
KeepSessions(u) == {s \in SessionsOf(u) : s.crossed}

Ended(u) == SessionsOf(u)

EndSessions(v) ==
    /\ visit[v].pc = "end" /\ sessions' = sessions \ Ended(visit[v].of)
    /\ unfinished' = unfinished \ {visit[v].of}
    /\ Moves(v, IF visit[v].then = "close" THEN [visit[v] EXCEPT !.pc = "close"] ELSE Nowhere)
    /\ UNCHANGED <<tool_accounts, _login_failures, asked, crossed_roles, visit_faults>>
CloseRequests(v) ==
    /\ visit[v].pc = "close" /\ asked' = [asked EXCEPT ![visit[v].of] = 0] /\ Moves(v, Nowhere)
    /\ UNCHANGED <<tool_accounts, sessions, _login_failures, unfinished, crossed_roles, visit_faults>>

\* One request is enough while it is pending.
request_password_reset(v, u) ==
    /\ u \in Known /\ asked[u] = 0 /\ Enters(v, [pc |-> "ask", of |-> u])
    /\ UNCHANGED <<tool_accounts, sessions, _login_failures, asked, unfinished, crossed_roles, visit_faults>>
InsertRequest(v) ==
    /\ visit[v].pc = "ask" /\ asked' = [asked EXCEPT ![visit[v].of] = @ + 1] /\ Moves(v, Nowhere)
    /\ UNCHANGED <<tool_accounts, sessions, _login_failures, unfinished, crossed_roles, visit_faults>>

VisitFails(v) ==
    /\ visit[v] # Nowhere /\ visit_faults < MaxVisitFaults /\ visit_faults' = visit_faults + 1
    /\ unfinished' = IF visit[v].pc = "end" THEN unfinished \cup {visit[v].of} ELSE unfinished
    /\ Moves(v, Nowhere)
    /\ UNCHANGED <<tool_accounts, sessions, _login_failures, asked, crossed_roles>>

AccountsNext ==
    \/ \E u \in Usernames : FailuresExpire(u)
    \/ \E s \in sessions : logout(s)
    \/ \E v \in Visits :
          \/ InsertAccount(v) \/ _new_session(v) \/ WriteRole(v) \/ WritePassword(v)
          \/ EndSessions(v) \/ CloseRequests(v) \/ InsertRequest(v) \/ VisitFails(v)
          \/ \E u \in Usernames : request_password_reset(v, u)
          \/ \E u \in Usernames, p \in Passwords :
                \/ register(v, u, p) \/ login(v, u, p)
                \/ \E a \in Usernames : reset_account_password(v, a, u, p)
                \/ \E c \in Passwords : change_own_password(v, u, c, p)
          \/ \E a, u \in Usernames, role \in {"admin", "issuer", "viewer"} : update_account_role(v, a, u, role)

-----------------------------------------------------------------------------
\* "A leaked token must not survive the change": when no change of an account's password is
\* under way, and none failed before it ended the sessions, every session of it was opened
\* with the password in force, or by a sign-in the change overlapped.  Somebody stays an
\* administrator from the first account on, and signing up makes one administrator at most,
\* unless two changes of roles or two sign-ups overlapped.
TokensDieWithPasswords ==
    \A s \in sessions :
        \/ s.password = tool_accounts[s.of].password \/ s.crossed
        \/ s.of \in unfinished \/ \E v \in Visiting("end") : visit[v].of = s.of
AnAdminStays ==
    ~crossed_roles =>
        /\ Known # {} => \E u \in Known : _account_role(u) = "admin"
        /\ \A v, w \in Visiting("register") : visit[v].role = "admin" /\ visit[w].role = "admin" => v = w
        /\ \A v \in Visiting("register") : visit[v].role = "admin" => Known = {}
AccountsAreSafe == TokensDieWithPasswords /\ AnAdminStays
=============================================================================
