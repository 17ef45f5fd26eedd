----------------------------- MODULE AuthCache -----------------------------
(***************************************************************************)
(* Who a request acts as (src/app/auth.py) and the admin endpoints that    *)
(* change it (src/app/routers/admin.py).  Each process keeps the verified  *)
(* answer per token and the second-factor answer per user for TTL seconds; *)
(* the calls to the auth service and to the two lookup functions run in a  *)
(* thread, so every other handler of the process may run between two of    *)
(* them.  The second-factor gate (REQUIRE_MFA_AAL2) is on: it is read once *)
(* when the process starts, and the cache starts empty with it.            *)
(***************************************************************************)
EXTENDS Integers, FiniteSets

CONSTANTS
    Servers, Users, Tokens, Requests,
    Owner,         \* the user of each token
    Strong,        \* the tokens whose aal claim is aal2
    Ttl,           \* AUTH_CACHE_TTL_SECONDS, in clock ticks
    MaxEntries,    \* _AUTH_CACHE_MAX
    Slow,          \* bound: ticks one request may take
    MaxChanges,    \* bound: changes to accounts in all
    MaxFailures    \* bound: calls that fail, or whose answer is lost

ASSUME SettingAssumption ==
    /\ Owner \in [Tokens -> Users] /\ Strong \subseteq Tokens
    /\ Ttl \in Nat /\ MaxEntries \in Nat \ {0}
ASSUME BoundAssumption == Slow \in Nat /\ MaxChanges \in Nat /\ MaxFailures \in Nat

VARIABLES
    listed,        \* the auth service lists a user's factors with get_user
    role, modules, \* user_profiles, per user: version of the role and of the
                   \* module limit; 0 is "no limit" and never a stored version
    enrolled,      \* the auth service: users with a verified factor
    banned,        \* the auth service: users whose sign-in is banned
    inactive,      \* user_profiles: users shown as deactivated
    cache,         \* _auth_cache, per process and token
    factor,        \* _factor_cache, per process and user
    req,           \* the requests under way
    acked,         \* history, per process and user: the account as it was when
                   \* an admin was answered with no verification under way
    since,         \* history: ticks since an account last changed
    changes, failures

accounts == <<listed, role, modules, enrolled, banned, inactive>>
history == <<acked, since, changes>>
vars == <<accounts, cache, factor, req, history, failures>>

None == [left |-> -1]
Entries == [role : 0 .. MaxChanges + 1, modules : 0 .. MaxChanges + 1, left : 0 .. Ttl]
Answers == [has : BOOLEAN, left : 0 .. Ttl]
Idle == [pc |-> "idle"]

\* The most ticks a wrong answer may survive; time is not told beyond it.
Horizon == 2 * Ttl + Slow

TypeOK ==
    /\ listed \in BOOLEAN
    /\ role \in [Users -> 1 .. MaxChanges + 1] /\ modules \in [Users -> 1 .. MaxChanges + 1]
    /\ enrolled \subseteq Users /\ banned \subseteq Users /\ inactive \subseteq Users
    /\ \A s \in Servers, t \in Tokens : cache[s][t] \in Entries \cup {None}
    /\ \A s \in Servers, u \in Users : factor[s][u] \in Answers \cup {None}
    /\ \A r \in Requests : req[r] = Idle \/
          /\ req[r].pc \in {"verify", "factor", "factored", "role", "limits", "legacy",
                            "store", "answer", "denied"}
          /\ req[r].on \in Servers /\ req[r].token \in Tokens
          /\ {req[r].role, req[r].modules} \subseteq 0 .. MaxChanges + 1
          /\ {req[r].has, req[r].enrolled, req[r].bare, req[r].open} \subseteq BOOLEAN /\ req[r].left \in 0 .. Ttl
          /\ req[r].took \in 0 .. Slow
    /\ since \in 0 .. Horizon
    /\ changes \in 0 .. MaxChanges /\ failures \in 0 .. MaxFailures
    \* _AUTH_CACHE_MAX is never exceeded.
    /\ \A s \in Servers : Cardinality({t \in Tokens : cache[s][t] # None}) <= MaxEntries

Init ==
    /\ listed \in BOOLEAN
    /\ role = [u \in Users |-> 1] /\ modules = [u \in Users |-> 1]
    /\ enrolled \in SUBSET Users /\ banned = {} /\ inactive = {}
    /\ cache = [s \in Servers |-> [t \in Tokens |-> None]]
    /\ factor = [s \in Servers |-> [u \in Users |-> None]]
    /\ req = [r \in Requests |-> Idle]
    /\ acked = [s \in Servers |-> [u \in Users |->
          [role |-> 1, modules |-> 1, banned |-> FALSE, bare |-> FALSE]]]
    /\ since = Horizon /\ changes = 0 /\ failures = 0

-----------------------------------------------------------------------------
(* The caches *)

\* A mutant: the expiry is not looked at.
EverLive(entry) == entry.left >= 0

Live(entry) == entry.left > 0
User(r) == Owner[req[r].token]

\* Mutants: a full cache is not cleaned, only one entry of the user is dropped.
NoVictims(s, t) == {{}}
WithoutOne(c, u) ==
    LET t == CHOOSE x \in Tokens : Owner[x] = u IN [c EXCEPT ![t] = None]

\* What a full cache drops before it stores: the expired entries, then the
\* one that expires first.
Victims(s, t) ==
    LET held == {x \in Tokens : cache[s][x] # None}
        live == {x \in held : Live(cache[s][x])}
    IN  IF Cardinality(held) < MaxEntries \/ t \in held THEN {{}}
        ELSE IF Cardinality(live) < MaxEntries THEN {held \ live}
        ELSE {(held \ live) \cup {x} : x \in
                {y \in live : \A z \in live : cache[s][y].left <= cache[s][z].left}}

\* A tick of the clock, seen by an entry.
Aged(entry) == IF Live(entry) THEN [entry EXCEPT !.left = @ - 1] ELSE entry

\* invalidate_user, on one process's cache.
Without(c, u) == [t \in Tokens |-> IF Owner[t] = u THEN None ELSE c[t]]

Invalidate(s, u) ==
    /\ cache' = [cache EXCEPT ![s] = Without(@, u)]
    /\ factor' = [factor EXCEPT ![s][u] = None]

-----------------------------------------------------------------------------
(* get_current_user *)

At(r, label) == req[r].pc = label
Go(r, label) == req' = [req EXCEPT ![r].pc = label]

\* What a request starts with.  History: what admins had been answered by
\* then, how the account stood, for how long nothing had changed, and what has
\* been true of the user at some time since: enrolled, bare of factors, open.
Started(s, t, label, entry) ==
    [pc |-> label, on |-> s, token |-> t, has |-> FALSE, left |-> 0, took |-> 0,
     role |-> entry.role, modules |-> entry.modules,
     floor |-> acked[s][Owner[t]], settled |-> since,
     stood |-> [role |-> role[Owner[t]], modules |-> modules[Owner[t]]],
     enrolled |-> Owner[t] \in enrolled, bare |-> Owner[t] \notin enrolled,
     open |-> Owner[t] \notin banned]

\* _lookup_auth_cache: a live entry answers; an expired one is dropped.
Begin(r, s, t) ==
    /\ req[r] = Idle
    /\ LET entry == cache[s][t] IN
       IF Live(entry)
       THEN /\ req' = [req EXCEPT ![r] = Started(s, t, "answer", entry)]
            /\ UNCHANGED cache
       ELSE /\ req' = [req EXCEPT ![r] = Started(s, t, "verify", [role |-> 0, modules |-> 0])]
            /\ cache' = [cache EXCEPT ![s][t] = None]
    /\ UNCHANGED <<accounts, factor, history, failures>>

\* The second-factor gate.
Gate(r, has) ==
    IF has /\ req[r].token \notin Strong THEN Go(r, "denied") ELSE Go(r, "role")

\* supabase.auth.get_user; its own list of factors, when there is one, or
\* the remembered answer decides the gate.  A banned user is refused.
Verify(r) ==
    LET remembered == factor[req[r].on][User(r)] IN
    /\ At(r, "verify")
    /\ \/ /\ User(r) \in banned /\ req' = [req EXCEPT ![r] = Idle]
       \/ /\ User(r) \notin banned
          /\ \/ listed /\ Gate(r, User(r) \in enrolled)
             \/ ~listed /\ Live(remembered) /\ Gate(r, remembered.has)
             \/ /\ ~listed /\ ~Live(remembered)
                /\ req' = [req EXCEPT ![r].pc = "factor", ![r].left = Ttl]
    /\ UNCHANGED <<accounts, cache, factor, history, failures>>

\* _admin_has_verified_factor runs in a thread; its answer is stored when the
\* request resumes, with the expiry of the moment the call was made.
ListFactors(r) ==
    /\ At(r, "factor")
    /\ req' = [req EXCEPT ![r].pc = "factored", ![r].has = User(r) \in enrolled]
    /\ UNCHANGED <<accounts, cache, factor, history, failures>>

RememberFactor(r) ==
    /\ At(r, "factored")
    /\ factor' = IF Ttl = 0 THEN factor
                 ELSE [factor EXCEPT ![req[r].on][User(r)] =
                          [has |-> req[r].has, left |-> req[r].left]]
    /\ Gate(r, req[r].has)
    /\ UNCHANGED <<accounts, cache, history, failures>>

LookUpRole(r) ==
    /\ At(r, "role")
    /\ req' = [req EXCEPT ![r].pc = "limits", ![r].role = role[User(r)]]
    /\ UNCHANGED <<accounts, cache, factor, history, failures>>

LookUpLimits(r) ==
    /\ At(r, "limits")
    /\ req' = [req EXCEPT ![r].pc = "store", ![r].modules = modules[User(r)]]
    /\ UNCHANGED <<accounts, cache, factor, history, failures>>

\* Any failure of the limits lookup leads to the older one, which knows no
\* modules.
LimitsFail(r) ==
    /\ At(r, "limits") /\ failures < MaxFailures
    /\ Go(r, "legacy")
    /\ failures' = failures + 1
    /\ UNCHANGED <<accounts, cache, factor, history>>

LookUpScope(r) ==
    /\ At(r, "legacy")
    /\ req' = [req EXCEPT ![r].pc = "store", ![r].modules = 0]
    /\ UNCHANGED <<accounts, cache, factor, history, failures>>

\* Any other lookup that fails is a 503, and nothing is stored.
LookupFails(r) ==
    /\ \E label \in {"verify", "factor", "role", "legacy"} : At(r, label)
    /\ failures < MaxFailures
    /\ req' = [req EXCEPT ![r] = Idle]
    /\ failures' = failures + 1
    /\ UNCHANGED <<accounts, cache, factor, history>>

\* _store_auth_cache.
Store(r) ==
    LET s == req[r].on  t == req[r].token IN
    /\ At(r, "store")
    /\ \E gone \in Victims(s, t) :
          cache' = IF Ttl = 0 THEN cache
                   ELSE [cache EXCEPT ![s] = [x \in Tokens |->
                           IF x = t THEN [role |-> req[r].role, modules |-> req[r].modules,
                                          left |-> Ttl]
                           ELSE IF x \in gone THEN None ELSE @[x]]]
    /\ Go(r, "answer")
    /\ UNCHANGED <<accounts, factor, history, failures>>

Answer(r) ==
    /\ At(r, "answer") \/ At(r, "denied")
    /\ req' = [req EXCEPT ![r] = Idle]
    /\ UNCHANGED <<accounts, cache, factor, history, failures>>

-----------------------------------------------------------------------------
(* The admin endpoints.  They block their process from the first call to the *)
(* last (but for reset_mfa_factors), so each is one step.                    *)

Changed == changes < MaxChanges /\ changes' = changes + 1 /\ since' = 0 /\ UNCHANGED listed

\* History: what one process has promised of a user still stands.
Standing(promise, u) ==
    [promise EXCEPT !.banned = @ /\ u \in banned', !.bare = @ /\ u \notin enrolled']

\* History: no other request of the process is verifying the user.
Quiet(s, u) ==
    \A r \in Requests : req[r] # Idle /\ req[r].on = s /\ User(r) = u =>
        req[r].pc \in {"answer", "denied"}

Promise(s, u, told) ==
    acked' = [p \in Servers |-> [acked[p] EXCEPT ![u] =
                 IF p = s /\ told
                 THEN [role |-> role'[u], modules |-> modules'[u],
                       banned |-> u \in banned', bare |-> u \notin enrolled']
                 ELSE Standing(@, u)]]

\* A write that lands although the handler is told it failed: the endpoint
\* raises before invalidate_user.
Lost(s, u) ==
    /\ failures < MaxFailures /\ failures' = failures + 1
    /\ Promise(s, u, FALSE)
    /\ UNCHANGED <<cache, factor>>

Acked(s, u) ==
    /\ Invalidate(s, u)
    /\ Promise(s, u, Quiet(s, u))
    /\ UNCHANGED failures

update_user(s, u) ==
    /\ Changed
    /\ role' = [role EXCEPT ![u] = @ + 1]
    /\ UNCHANGED <<modules, enrolled, banned, inactive, req>>
    /\ Acked(s, u) \/ Lost(s, u)

set_user_scope(s, u) ==
    /\ Changed
    /\ modules' = [modules EXCEPT ![u] = @ + 1]
    /\ UNCHANGED <<role, enrolled, banned, inactive, req>>
    /\ Acked(s, u) \/ Lost(s, u)

\* History: a fact about the user becomes true of the requests under way.
Mark(u, fact) ==
    req' = [r \in Requests |-> IF req[r] # Idle /\ User(r) = u
               THEN [req[r] EXCEPT ![fact] = TRUE] ELSE req[r]]

Put(set, u, in) == IF in THEN set \cup {u} ELSE set \ {u}

\* The ban is set first; the profile row follows, or fails.
set_user_active(s, u, active) ==
    /\ Changed
    /\ banned' = Put(banned, u, ~active)
    /\ UNCHANGED <<role, modules, enrolled>>
    /\ \/ inactive' = Put(inactive, u, ~active) /\ Acked(s, u)
       \/ UNCHANGED inactive /\ Lost(s, u)
    /\ IF active THEN Mark(u, "open") ELSE UNCHANGED req

\* reset_mfa_factors lists and deletes in a thread and then invalidates: the
\* last two steps, or a failure between them.
reset_mfa_factors(s, u) ==
    /\ Changed
    /\ u \in enrolled
    /\ enrolled' = enrolled \ {u}
    /\ UNCHANGED <<role, modules, banned, inactive>>
    /\ Acked(s, u) \/ Lost(s, u)
    /\ Mark(u, "bare")

\* A user sets a second factor up with the auth service directly.
Enrol(u) ==
    /\ Changed
    /\ u \notin enrolled
    /\ enrolled' = enrolled \cup {u}
    /\ Mark(u, "enrolled")
    /\ UNCHANGED <<role, modules, banned, inactive, cache, factor, failures>>
    /\ acked' = [s \in Servers |-> [acked[s] EXCEPT ![u] = Standing(@, u)]]

-----------------------------------------------------------------------------
Tick ==
    /\ \A r \in Requests : req[r] # Idle => req[r].took < Slow
    /\ cache' = [s \in Servers |-> [t \in Tokens |-> Aged(cache[s][t])]]
    /\ factor' = [s \in Servers |-> [u \in Users |-> Aged(factor[s][u])]]
    /\ req' = [r \in Requests |-> IF req[r] = Idle THEN Idle
                  ELSE [req[r] EXCEPT !.took = @ + 1, !.left = IF @ > 0 THEN @ - 1 ELSE 0]]
    /\ since' = IF since < Horizon THEN since + 1 ELSE since
    /\ UNCHANGED <<accounts, acked, changes, failures>>

Step(r) ==
    \/ Verify(r) \/ ListFactors(r) \/ RememberFactor(r) \/ LookUpRole(r)
    \/ LookUpLimits(r) \/ LimitsFail(r) \/ LookUpScope(r) \/ LookupFails(r)
    \/ Store(r) \/ Answer(r)

Admin(s, u) ==
    \/ update_user(s, u) \/ set_user_scope(s, u) \/ reset_mfa_factors(s, u)
    \/ \E active \in BOOLEAN : set_user_active(s, u, active)

Next ==
    \/ \E r \in Requests, s \in Servers, t \in Tokens : Begin(r, s, t)
    \/ \E r \in Requests : Step(r)
    \/ \E s \in Servers, u \in Users : Admin(s, u)
    \/ \E u \in Users : Enrol(u)
    \/ Tick

Spec == Init /\ [][Next]_vars

-----------------------------------------------------------------------------
(* Properties *)

Served(r) == At(r, "answer")

\* "Those take effect immediately instead of at TTL expiry": where an admin was
\* answered while the process was not verifying that user, a later request to
\* the same process acts under the role and limits of that moment or newer
\* ones, and not at all when the account was deactivated.  Nor does that process ask
\* for a second factor the user has not had since a reset.
ChangesTakeEffect ==
    \A r \in Requests :
        /\ Served(r) =>
              /\ req[r].role >= req[r].floor.role
              /\ req[r].modules >= req[r].floor.modules \/ req[r].modules = 0
              /\ req[r].floor.banned => req[r].open
        /\ At(r, "denied") /\ req[r].floor.bare => req[r].enrolled

\* A token without a second factor is served for no longer than `ticks` after
\* its user set one up.
GateClosesWithin(ticks) ==
    \A r \in Requests :
        Served(r) /\ req[r].token \notin Strong /\ req[r].settled >= ticks => req[r].bare

\* "A role change is visible to other requests within AUTH_CACHE_TTL_SECONDS":
\* whatever was lost, raced or done at another process, an account that has
\* not changed for a TTL and the time of one request is seen as it is.
\* "Anything else that changes effective permissions lags up to TTL" holds of a
\* second factor where the auth service lists the factors.  Where it does not, the
\* remembered factor answer, a TTL old, is folded into an entry that lives a TTL more.
FreshAfterTtl ==
    /\ \A r \in Requests : Served(r) /\ req[r].settled >= Ttl + Slow =>
          /\ req[r].role >= req[r].stood.role
          /\ req[r].modules >= req[r].stood.modules \/ req[r].modules = 0
          /\ req[r].open
    /\ GateClosesWithin(IF listed THEN Ttl + Slow ELSE 2 * Ttl + Slow - 1)
=============================================================================
