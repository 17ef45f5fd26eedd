--------------------------- MODULE BreakdownLinks ---------------------------
(***************************************************************************)
(* A breakdown and its work order, linked through                          *)
(* breakdowns.work_order_id (breakdown_links.py, breakdowns.py and the     *)
(* breakdown endpoints of maintenance.py).  Logging a breakdown raises its *)
(* job; a breakdown job raises its downtime shell.  Both go through        *)
(* create_work_order.  Every database call of a request is one step.       *)
(***************************************************************************)
EXTENDS Integers, FiniteSets

CONSTANTS
    Procs,        \* requests that may run at once
    Jobs,         \* ids work orders may get
    Breakdowns,   \* ids breakdowns may get
    NoJob,        \* work_order_id NULL
    NoBreakdown,
    Kinds,        \* requests of this instance
    MaxRequests,  \* bound: requests in all
    MaxFails      \* bound: calls that fail

ASSUME KindAssumption == Kinds \subseteq
    {"create", "create_alone", "job", "raise", "patch", "record",
     "delete_breakdown", "delete_job"}
ASSUME NullAssumption == {NoJob, NoBreakdown} \cap (Jobs \cup Breakdowns) = {}
ASSUME LinkBoundAssumption == MaxRequests \in Nat /\ MaxFails \in Nat

VARIABLES
    jobs,      \* live work orders
    isBreakdown, \* those classified as a breakdown, live or not
    shells,    \* live breakdowns
    link,      \* breakdowns.work_order_id
    usedJobs, usedBreakdowns,   \* ids the sequences have given out
    raisedFor, \* history: jobs raised by POST /breakdowns/{id}/work-order
    logged,    \* history: jobs logged from a breakdown, raised or created with it
    raced,     \* history: ids two requests have worked on at once
    step,      \* per request: the call it is about to make
    req,       \* per request: its kind
    job, brk,  \* per request: the work order and the breakdown it holds
    requests, fails

tables == <<jobs, isBreakdown, shells, link, usedJobs, usedBreakdowns, raisedFor, logged>>
link_vars == <<tables, raced, step, req, job, brk, requests, fails>>

LinkedTo(j) == {b \in shells : link[b] = j}

LinksTypeOK ==
    /\ jobs \subseteq usedJobs /\ usedJobs \subseteq Jobs
    /\ isBreakdown \subseteq usedJobs
    /\ shells \subseteq usedBreakdowns /\ usedBreakdowns \subseteq Breakdowns
    /\ link \in [Breakdowns -> Jobs \cup {NoJob}]
    /\ \A b \in shells : link[b] \in jobs \cup {NoJob}   \* the foreign key
    /\ raisedFor \in [Breakdowns -> SUBSET usedJobs]
    /\ logged \subseteq usedJobs /\ raced \subseteq usedJobs \cup usedBreakdowns
    /\ step \in [Procs -> {"idle", "read", "job", "patch", "find", "shell", "store",
                         "link", "delete"}]
    /\ req \in [Procs -> Kinds \cup {"none"}]
    /\ job \in [Procs -> Jobs \cup {NoJob}]
    /\ brk \in [Procs -> Breakdowns \cup {NoBreakdown}]
    /\ requests \in 0 .. MaxRequests /\ fails \in 0 .. MaxFails

LinksInit ==
    /\ jobs = {} /\ isBreakdown = {} /\ shells = {}
    /\ usedJobs = {} /\ usedBreakdowns = {}
    /\ link = [b \in Breakdowns |-> NoJob]
    /\ raisedFor = [b \in Breakdowns |-> {}]
    /\ logged = {} /\ raced = {}
    /\ step = [p \in Procs |-> "idle"]
    /\ req = [p \in Procs |-> "none"]
    /\ job = [p \in Procs |-> NoJob]
    /\ brk = [p \in Procs |-> NoBreakdown]
    /\ requests = 0 /\ fails = 0

-----------------------------------------------------------------------------
\* The request ends.
Over(p) ==
    /\ step' = [step EXCEPT ![p] = "idle"]
    /\ req' = [req EXCEPT ![p] = "none"]
    /\ job' = [job EXCEPT ![p] = NoJob]
    /\ brk' = [brk EXCEPT ![p] = NoBreakdown]

Go(p, label) == step' = [step EXCEPT ![p] = label] /\ UNCHANGED <<req, job, brk>>

\* _insert_breakdown_shell has returned, or its failure was logged: what the
\* caller of create_work_order, or the PATCH, close or record, does next.
Return(p) ==
    CASE req[p] = "create" -> Go(p, "store")
      [] req[p] = "raise"  -> Go(p, "link")
      [] OTHER             -> Over(p)

FirstCall(k) ==
    CASE k \in {"create", "job"} -> "job"
      [] k = "create_alone" -> "store"
      [] k \in {"raise", "record", "delete_breakdown"} -> "read"
      [] k = "patch" -> "patch"
      [] k = "delete_job" -> "delete"

Start(p, k, j, b) ==
    /\ step[p] = "idle"
    /\ requests < MaxRequests
    /\ j # NoJob <=> k \in {"patch", "record", "delete_job"}
    /\ b # NoBreakdown <=> k \in {"raise", "delete_breakdown"}
    /\ requests' = requests + 1
    /\ raced' = raced \cup {i \in {j, b} \ {NoJob, NoBreakdown} :
                               \E q \in Procs \ {p} : i \in {job[q], brk[q]}}
    /\ step' = [step EXCEPT ![p] = FirstCall(k)]
    /\ req' = [req EXCEPT ![p] = k]
    /\ job' = [job EXCEPT ![p] = j]
    /\ brk' = [brk EXCEPT ![p] = b]
    /\ UNCHANGED <<tables, fails>>

At(p, call, kind) == step[p] = call /\ req[p] = kind /\ UNCHANGED <<tables, raced, requests, fails>>

\* A job that is already linked is answered again.
raise_work_order_for_breakdown(p) ==
    /\ At(p, "read", "raise")
    /\ IF brk[p] \in shells /\ link[brk[p]] = NoJob THEN Go(p, "job") ELSE Over(p)

record_breakdown_for_work_order(p) ==
    /\ At(p, "read", "record")
    /\ IF job[p] \in jobs \cap isBreakdown THEN Go(p, "find") ELSE Over(p)

\* A mutant: the link is not looked at.
delete_any_breakdown(p) ==
    /\ At(p, "read", "delete_breakdown")
    /\ IF brk[p] \in shells THEN Go(p, "delete") ELSE Over(p)

\* A breakdown with a job is refused.
delete_breakdown(p) ==
    /\ At(p, "read", "delete_breakdown")
    /\ IF brk[p] \in shells /\ link[brk[p]] = NoJob THEN Go(p, "delete") ELSE Over(p)

\* A mutant: a breakdown job goes without its shell.
NeverADueShell(p, kind) == FALSE

\* classification == "breakdown": the job wants a shell.
ShellDue(p, kind) == kind

\* create_work_order: a job logged from a breakdown is always one.
InsertJob(p) ==
    /\ step[p] = "job"
    /\ \E j \in Jobs \ usedJobs, kind \in BOOLEAN :
          /\ req[p] # "job" => kind
          /\ jobs' = jobs \cup {j}
          /\ usedJobs' = usedJobs \cup {j}
          /\ isBreakdown' = IF kind THEN isBreakdown \cup {j} ELSE isBreakdown
          /\ raisedFor' = IF req[p] = "raise"
                          THEN [raisedFor EXCEPT ![brk[p]] = @ \cup {j}] ELSE raisedFor
          /\ logged' = IF req[p] = "job" THEN logged ELSE logged \cup {j}
          /\ IF ShellDue(p, kind)
             THEN /\ step' = [step EXCEPT ![p] = "find"]
                  /\ job' = [job EXCEPT ![p] = j]
                  /\ UNCHANGED <<req, brk>>
             ELSE Over(p)
    /\ UNCHANGED <<shells, link, usedBreakdowns, raced, requests, fails>>

\* PATCH (or close) sets the classification, then sees to the shell.
PatchJob(p) ==
    /\ step[p] = "patch"
    /\ \E kind \in BOOLEAN :
          /\ isBreakdown' = IF job[p] \notin jobs THEN isBreakdown
                            ELSE IF kind THEN isBreakdown \cup {job[p]}
                            ELSE isBreakdown \ {job[p]}
          /\ IF job[p] \in jobs /\ ShellDue(p, kind) THEN Go(p, "find") ELSE Over(p)
    /\ UNCHANGED <<jobs, shells, link, usedJobs, usedBreakdowns, raisedFor, logged, raced, requests, fails>>

\* find_breakdown_for_work_order
FindShell(p) ==
    /\ step[p] = "find"
    /\ IF LinkedTo(job[p]) # {} THEN Return(p) ELSE Go(p, "shell")
    /\ UNCHANGED <<tables, raced, requests, fails>>

\* INSERT INTO breakdowns, with work_order_id = j if it is one.
Insert(j) ==
    /\ j = NoJob \/ j \in jobs
    /\ \E b \in Breakdowns \ usedBreakdowns :
          /\ shells' = shells \cup {b}
          /\ usedBreakdowns' = usedBreakdowns \cup {b}
          /\ link' = [link EXCEPT ![b] = j]
    /\ UNCHANGED <<jobs, isBreakdown, usedJobs, raisedFor, logged>>

InsertShell(p) ==
    /\ step[p] = "shell"
    /\ Insert(job[p])
    /\ Return(p)
    /\ UNCHANGED <<raced, requests, fails>>

StoreBreakdown(p) ==
    /\ step[p] = "store"
    /\ Insert(job[p])
    /\ Over(p)
    /\ UNCHANGED <<raced, requests, fails>>

\* link_breakdown_to_work_order; a breakdown deleted meanwhile matches nothing.
LinkBreakdown(p) ==
    /\ step[p] = "link" /\ job[p] \in jobs
    /\ link' = IF brk[p] \in shells THEN [link EXCEPT ![brk[p]] = job[p]] ELSE link
    /\ Over(p)
    /\ UNCHANGED <<jobs, isBreakdown, shells, usedJobs, usedBreakdowns, raisedFor, logged, raced, requests, fails>>

\* The job went between: the foreign key refuses the insert or the link.
Dangling(p) ==
    /\ step[p] \in {"shell", "store", "link"}
    /\ job[p] # NoJob /\ job[p] \notin jobs
    /\ IF step[p] = "shell" /\ req[p] # "record" THEN Return(p) ELSE Over(p)
    /\ UNCHANGED <<tables, raced, requests, fails>>

DeleteBreakdown(p) ==
    /\ step[p] = "delete" /\ req[p] = "delete_breakdown"
    /\ shells' = shells \ {brk[p]}
    /\ link' = [link EXCEPT ![brk[p]] = NoJob]
    /\ Over(p)
    /\ UNCHANGED <<jobs, isBreakdown, usedJobs, usedBreakdowns, raisedFor, logged, raced, requests, fails>>

\* ON DELETE SET NULL
DeleteJob(p) ==
    /\ step[p] = "delete" /\ req[p] = "delete_job"
    /\ jobs' = jobs \ {job[p]}
    /\ link' = [b \in Breakdowns |-> IF link[b] = job[p] THEN NoJob ELSE link[b]]
    /\ Over(p)
    /\ UNCHANGED <<isBreakdown, shells, usedJobs, usedBreakdowns, raisedFor, logged, raced, requests, fails>>

\* A call fails with nothing committed.  The shell is best-effort, except for
\* the endpoint that records it.
Fails(p) ==
    /\ step[p] # "idle"
    /\ fails < MaxFails
    /\ fails' = fails + 1
    /\ IF step[p] \in {"find", "shell"} /\ req[p] # "record" THEN Return(p) ELSE Over(p)
    /\ UNCHANGED <<tables, raced, requests>>

-----------------------------------------------------------------------------
LinksNext == \E p \in Procs :
    \/ \E k \in Kinds, j \in usedJobs \cup {NoJob}, b \in usedBreakdowns \cup {NoBreakdown} :
          Start(p, k, j, b)
    \/ raise_work_order_for_breakdown(p) \/ record_breakdown_for_work_order(p)
    \/ delete_breakdown(p)
    \/ InsertJob(p) \/ PatchJob(p) \/ FindShell(p) \/ InsertShell(p)
    \/ StoreBreakdown(p) \/ LinkBreakdown(p) \/ Dangling(p)
    \/ DeleteBreakdown(p) \/ DeleteJob(p) \/ Fails(p)

LinksSpec == LinksInit /\ [][LinksNext]_link_vars

-----------------------------------------------------------------------------
(* Properties *)

\* "The exactly-one-shell rule every writer meets" (breakdown_links.py): the
\* downtime of a job is entered once.
OneBreakdownPerJob == \A j \in jobs : Cardinality(LinkedTo(j)) <= 1

\* What the code keeps of that rule: a job no two requests worked on at once has
\* one breakdown, whatever is patched, recorded again, deleted or failed.  A job
\* logged from a breakdown may have two, its own shell and the one it came from.
\* "Idempotent: a breakdown that already has a job answers it again": without a
\* failure, and unless two requests met on it, a breakdown raises one live job.
\* And delete_breakdown: "already has work order ...; delete the work order first":
\* only a raise under way at the same time gets past it.
Single ==
    /\ \A j \in jobs \ raced : Cardinality(LinkedTo(j)) <= IF j \in logged THEN 2 ELSE 1
    /\ fails = 0 => \A b \in Breakdowns \ raced : Cardinality(raisedFor[b] \cap jobs) <= 1
LinksAreSingle ==
    []Single /\ [][\A b \in shells \ raced : b \notin shells' => link[b] = NoJob]_link_vars

\* "A breakdown job has its downtime shell by the time it closes": once every
\* request is over, and nothing failed, no breakdown job is without downtime.
DowntimeRecorded ==
    (\A p \in Procs : step[p] = "idle") /\ fails = 0
        => \A j \in jobs \cap isBreakdown : LinkedTo(j) # {}
=============================================================================
