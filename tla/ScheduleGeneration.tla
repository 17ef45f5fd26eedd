------------------------- MODULE ScheduleGeneration -------------------------
(***************************************************************************)
(* POST /api/schedules/generate (src/app/routers/schedules.py) and what    *)
(* runs beside it.  A worker is one execution of the endpoint: the daily   *)
(* cron, its curl retry, or a manager's button, in any server process.     *)
(* Every Supabase call is one step, so runs interleave between any two     *)
(* calls, any call may fail, and the process may die between two of them.  *)
(*                                                                         *)
(* The claim row (schedule_id, due_date) inserted first is what stops two  *)
(* runs raising the same job; the module also models the routine ensure of *)
(* compressors.py, which the same endpoint calls before its loop.          *)
(***************************************************************************)
EXTENDS Integers, FiniteSets

CONSTANTS
    Schedules,      \* ids a maintenance_schedules row may have
    Units,          \* register compressors that are not offline
    Workers,        \* executions of generate_due_work_orders
    MaxDate,        \* bound: the last day `today` reaches
    Advance,        \* advance_days of each schedule
    NextOccurrence, \* next_occurrence(s, d); its calendar is in Recurrence
    NoUnit,         \* equipment_info that is no routine marker
    MaxEdits,       \* bound: creates, deletes and clears by managers
    MaxPatches,     \* bound: PATCHes of a schedule by managers
    MaxFaults,      \* bound: failed calls and crashes
    FaultKinds      \* what may fail: phases of pc, "claim_reply", "insert_reply", "crash"

FarFuture == MaxDate + 1
Dates == 0 .. FarFuture

ASSUME DateAssumption == MaxDate \in Nat
ASSUME AdvanceAssumption == Advance \in [Schedules -> Nat]
ASSUME OccurrenceAssumption ==
    /\ NextOccurrence \in [Schedules -> [Dates -> Dates]]
    /\ \A s \in Schedules : \A d \in 0 .. MaxDate : NextOccurrence[s][d] > d
ASSUME UnitAssumption == NoUnit \notin Units
ASSUME ScheduleAssumption == Schedules # {}
ASSUME BoundAssumption == MaxEdits \in Nat /\ MaxPatches \in Nat /\ MaxFaults \in Nat

VARIABLES
    today,      \* today_harare()
    stored,     \* maintenance_schedules: is the row unused, live or deleted
    active,     \* its active column
    next_due,   \* its next_due_date column
    marker,     \* its equipment_info: the unit of a routine marker, or NoUnit
    runs,       \* maintenance_schedule_runs, keyed by its UNIQUE constraint
    raised,     \* history: every generated work order ever inserted
    abandoned,  \* history: dates whose claim outlived the run that failed on them
    next_id,    \* work_orders id sequence
    pc,         \* per worker: the call it is about to make
    day,        \* per worker: the `today` it read when it started
    batch,      \* per worker: schedule rows loaded and not yet visited
    missing,    \* per worker: units the ensure found without a routine
    cur,        \* per worker: the schedule row _generate_one works on
    wo,         \* per worker: the id of the work order it inserted
    edits, patches, faults

db == <<stored, active, next_due, marker>>
work == <<pc, day, batch, missing, cur, wo>>
vars == <<today, stored, active, next_due, marker, runs, raised, abandoned, next_id,
          pc, day, batch, missing, cur, wo, edits, patches, faults>>

NoRun == -1     \* no such run row
Unlinked == 0   \* a run row whose work_order_id is NULL
Row == [id : Schedules, due : Dates]
NoRow == CHOOSE row \in Row : TRUE   \* what cur holds between two runs
Job == [id : Nat, schedule : Schedules, due : Dates]
Phases == {"idle", "read_ensure", "ensure", "pick", "claim", "prepare",
           "insert", "release", "link", "advance"}

TypeOK ==
    /\ today \in 0 .. MaxDate
    /\ stored \in [Schedules -> {"unused", "live", "deleted"}]
    /\ active \in [Schedules -> BOOLEAN]
    /\ next_due \in [Schedules -> Dates]
    /\ marker \in [Schedules -> Units \cup {NoUnit}]
    /\ runs \in [Schedules \X Dates -> Int]
    /\ raised \in SUBSET Job
    /\ abandoned \subseteq Schedules \X Dates
    /\ next_id \in Nat \ {0}
    /\ pc \in [Workers -> Phases]
    /\ day \in [Workers -> 0 .. MaxDate]
    /\ batch \in [Workers -> SUBSET Row]
    /\ missing \in [Workers -> SUBSET Units]
    /\ cur \in [Workers -> Row]
    /\ wo \in [Workers -> Nat]
    /\ edits \in 0 .. MaxEdits
    /\ patches \in 0 .. MaxPatches
    /\ faults \in 0 .. MaxFaults

Init ==
    /\ today = 0
    /\ stored = [s \in Schedules |-> "unused"]
    /\ active = [s \in Schedules |-> FALSE]
    /\ next_due = [s \in Schedules |-> 0]
    /\ marker = [s \in Schedules |-> NoUnit]
    /\ runs = [k \in Schedules \X Dates |-> NoRun]
    /\ raised = {}
    /\ abandoned = {}
    /\ next_id = 1
    /\ pc = [w \in Workers |-> "idle"]
    /\ day = [w \in Workers |-> 0]
    /\ batch = [w \in Workers |-> {}]
    /\ missing = [w \in Workers |-> {}]
    /\ cur = [w \in Workers |-> NoRow]
    /\ wo = [w \in Workers |-> 0]
    /\ edits = 0
    /\ patches = 0
    /\ faults = 0

-----------------------------------------------------------------------------
(* Helpers *)

IsLive(s) == stored[s] = "live"
Key(w) == <<cur[w].id, cur[w].due>>
Goto(w, phase) == pc' = [pc EXCEPT ![w] = phase]

\* A run's local variables end with it.
Forget(w) ==
    /\ Goto(w, "idle")
    /\ batch' = [batch EXCEPT ![w] = {}]
    /\ missing' = [missing EXCEPT ![w] = {}]
    /\ day' = [day EXCEPT ![w] = 0]
    /\ cur' = [cur EXCEPT ![w] = NoRow]
    /\ wo' = [wo EXCEPT ![w] = 0]

\* A call that fails without reaching the database, or a crash.
Fault(kind) == kind \in FaultKinds /\ faults < MaxFaults /\ faults' = faults + 1

\* The row is_due() accepts: its due date less advance_days has come.
IsDue(row, date) == row.due <= MaxDate /\ row.due - Advance[row.id] <= date

\* UNIQUE(schedule_id, due_date) rejects a second claim.
ClaimNeverTaken(w) == FALSE
ClaimTaken(w) == runs[Key(w)] # NoRun

HasActiveRoutine(u) == \E s \in Schedules : IsLive(s) /\ active[s] /\ marker[s] = u

\* "have": a weekly schedule with this unit's marker exists, active or paused.
HasRoutine(u) == \E s \in Schedules : IsLive(s) /\ marker[s] = u

-----------------------------------------------------------------------------
(* generate_due_work_orders and _generate_one *)

\* Loads the active schedules, before the ensure adds any.
GenerateStart(w) ==
    /\ pc[w] = "idle"
    /\ day' = [day EXCEPT ![w] = today]
    /\ batch' = [batch EXCEPT ![w] =
           {[id |-> s, due |-> next_due[s]] :
               s \in {t \in Schedules : IsLive(t) /\ active[t]}}]
    /\ Goto(w, "read_ensure")
    /\ UNCHANGED <<today, db, runs, raised, abandoned, next_id, missing, cur, wo, edits, patches, faults>>

\* ensure_weekly_routine_schedules reads which units lack a routine ...
EnsureRead(w) ==
    /\ pc[w] = "read_ensure"
    /\ missing' = [missing EXCEPT ![w] = {u \in Units : ~HasRoutine(u)}]
    /\ Goto(w, "ensure")
    /\ UNCHANGED <<today, db, runs, raised, abandoned, next_id, day, batch, cur, wo, edits, patches, faults>>

\* ... and inserts one row per missing unit, first due on a later day.
EnsureInsert(w, u, s, first) ==
    /\ pc[w] = "ensure"
    /\ u \in missing[w]
    /\ stored[s] = "unused"
    /\ first \in today + 1 .. today + 7
    /\ stored' = [stored EXCEPT ![s] = "live"]
    /\ active' = [active EXCEPT ![s] = TRUE]
    /\ next_due' = [next_due EXCEPT ![s] = first]
    /\ marker' = [marker EXCEPT ![s] = u]
    /\ missing' = [missing EXCEPT ![w] = @ \ {u}]
    /\ UNCHANGED <<today, runs, raised, abandoned, next_id, pc, day, batch, cur, wo, edits, patches, faults>>

\* The second disjunct only caps the ids of a bounded instance.
EnsureDone(w) ==
    /\ pc[w] = "ensure"
    /\ missing[w] = {} \/ \A s \in Schedules : stored[s] # "unused"
    /\ Goto(w, "pick")
    /\ UNCHANGED <<today, db, runs, raised, abandoned, next_id, day, batch, missing, cur, wo, edits, patches, faults>>

\* The loop takes the loaded rows in no particular order, due ones only.
Pick(w, row) ==
    /\ pc[w] = "pick"
    /\ row \in batch[w]
    /\ IsDue(row, day[w])
    /\ batch' = [batch EXCEPT ![w] = @ \ {row}]
    /\ cur' = [cur EXCEPT ![w] = row]
    /\ Goto(w, "claim")
    /\ UNCHANGED <<today, db, runs, raised, abandoned, next_id, day, missing, wo, edits, patches, faults>>

Finish(w) ==
    /\ pc[w] = "pick"
    /\ \A row \in batch[w] : ~IsDue(row, day[w])
    /\ Forget(w)
    /\ UNCHANGED <<today, db, runs, raised, abandoned, next_id, edits, patches, faults>>

\* The claim: inserted first.  A taken claim skips the schedule, and leaves
\* its next_due_date alone; a deleted schedule fails the foreign key.
ClaimRun(w) ==
    /\ pc[w] = "claim"
    /\ IF ClaimTaken(w) \/ ~IsLive(cur[w].id)
       THEN Goto(w, "pick") /\ UNCHANGED runs
       ELSE Goto(w, "prepare") /\ runs' = [runs EXCEPT ![Key(w)] = Unlinked]
    /\ UNCHANGED <<today, db, raised, abandoned, next_id, day, batch, missing, cur, wo, edits, patches, faults>>

\* The claim was committed and the answer lost: no conflict to the code, which
\* goes on to the next schedule and leaves the claim.
ClaimReplyLost(w) ==
    /\ pc[w] = "claim"
    /\ ~ClaimTaken(w) /\ IsLive(cur[w].id)
    /\ Fault("claim_reply")
    /\ runs' = [runs EXCEPT ![Key(w)] = Unlinked]
    /\ abandoned' = abandoned \cup {Key(w)}
    /\ Goto(w, "pick")
    /\ UNCHANGED <<today, db, raised, next_id, day, batch, missing, cur, wo, edits, patches>>

\* The work order is put together: its number and, for a schedule with no
\* equipment_id, its machine are read, outside the try that releases the claim.
PrepareWorkOrder(w) ==
    /\ pc[w] = "prepare"
    /\ Goto(w, "insert")
    /\ UNCHANGED <<today, db, runs, raised, abandoned, next_id, day, batch, missing, cur, wo, edits, patches, faults>>

NewJob(w) == [id |-> next_id, schedule |-> cur[w].id, due |-> cur[w].due]

\* Raises the job under a number read just before.
InsertWorkOrder(w) ==
    /\ pc[w] = "insert"
    /\ IsLive(cur[w].id)
    /\ raised' = raised \cup {NewJob(w)}
    /\ next_id' = next_id + 1
    /\ wo' = [wo EXCEPT ![w] = next_id]
    /\ Goto(w, "link")
    /\ UNCHANGED <<today, db, runs, abandoned, day, batch, missing, cur, edits, patches, faults>>

\* schedule_id is a foreign key: a deleted schedule's insert is refused.
InsertRefused(w) ==
    /\ pc[w] = "insert"
    /\ ~IsLive(cur[w].id)
    /\ Goto(w, "release")
    /\ UNCHANGED <<today, db, runs, raised, abandoned, next_id, day, batch, missing, cur, wo, edits, patches, faults>>

\* Any other exception of the insert: a number another creator took meanwhile
\* (_next_work_order_number is "racy by nature"), an outage.
InsertFailsUnnoticed(w) ==
    /\ pc[w] = "insert"
    /\ Fault("insert")
    /\ Goto(w, "advance")
    /\ UNCHANGED <<today, db, runs, raised, abandoned, next_id, day, batch, missing, cur, wo, edits, patches>>

InsertFails(w) ==
    /\ pc[w] = "insert"
    /\ Fault("insert")
    /\ Goto(w, "release")
    /\ UNCHANGED <<today, db, runs, raised, abandoned, next_id, day, batch, missing, cur, wo, edits, patches>>

\* The row was committed and the answer lost: to the code, an exception.
InsertReplyLost(w) ==
    /\ pc[w] = "insert"
    /\ IsLive(cur[w].id)
    /\ Fault("insert_reply")
    /\ raised' = raised \cup {NewJob(w)}
    /\ next_id' = next_id + 1
    /\ Goto(w, "release")
    /\ UNCHANGED <<today, db, runs, abandoned, day, batch, missing, cur, wo, edits, patches>>

ReleaseNothing(w) ==
    /\ pc[w] = "release"
    /\ Goto(w, "pick")
    /\ UNCHANGED <<today, db, runs, raised, abandoned, next_id, day, batch, missing, cur, wo, edits, patches, faults>>

\* The claim is released so that a later run can retry the due date.
ReleaseClaim(w) ==
    /\ pc[w] = "release"
    /\ runs' = [runs EXCEPT ![Key(w)] = NoRun]
    /\ Goto(w, "pick")
    /\ UNCHANGED <<today, db, raised, abandoned, next_id, day, batch, missing, cur, wo, edits, patches, faults>>

LinkEveryRun(w) ==
    /\ pc[w] = "link"
    /\ runs' = [k \in DOMAIN runs |->
           IF k[1] = cur[w].id /\ runs[k] # NoRun THEN wo[w] ELSE runs[k]]
    /\ Goto(w, "advance")
    /\ UNCHANGED <<today, db, raised, abandoned, next_id, day, batch, missing, cur, wo, edits, patches, faults>>

LinkRun(w) ==
    /\ pc[w] = "link"
    /\ runs' = [runs EXCEPT ![Key(w)] = IF @ = NoRun THEN NoRun ELSE wo[w]]
    /\ Goto(w, "advance")
    /\ UNCHANGED <<today, db, raised, abandoned, next_id, day, batch, missing, cur, wo, edits, patches, faults>>

\* Rolls the schedule forward from the row as it was loaded.
AdvanceSchedule(w) ==
    /\ pc[w] = "advance"
    /\ next_due' = [next_due EXCEPT ![cur[w].id] =
           IF IsLive(cur[w].id) THEN NextOccurrence[cur[w].id][cur[w].due] ELSE @]
    /\ Goto(w, "pick")
    /\ UNCHANGED <<today, stored, active, marker, runs, raised, abandoned, next_id, day, batch,
                   missing, cur, wo, edits, patches, faults>>

\* What a run that stops here leaves of the date it was on: a claim no later run
\* gets past, of a job that was never raised or a date that was never rolled.
Leaves(w) == IF pc[w] \in {"prepare", "insert", "release", "link", "advance"} THEN {Key(w)} ELSE {}

\* Any other call fails.  An ensure that fails is reported and never stops the
\* loop; an exception of _generate_one goes to "failed" and the loop goes on,
\* with whatever was written before it left in place.
CallFails(w) ==
    /\ pc[w] \in {"read_ensure", "ensure", "claim", "prepare", "release", "link", "advance"}
    /\ Fault(pc[w])
    /\ abandoned' = abandoned \cup Leaves(w)
    /\ Goto(w, "pick")
    /\ UNCHANGED <<today, db, runs, raised, next_id, day, batch, missing, cur, wo, edits, patches>>

\* The process dies, or the host stops it: nothing of the run is left.
Crash(w) ==
    /\ pc[w] # "idle"
    /\ Fault("crash")
    /\ abandoned' = abandoned \cup Leaves(w)
    /\ Forget(w)
    /\ UNCHANGED <<today, db, runs, raised, next_id, edits, patches>>

-----------------------------------------------------------------------------
(* The schedule's CRUD, by managers *)

Edit == edits < MaxEdits /\ edits' = edits + 1

CreateSchedule(s, d) ==
    /\ Edit
    /\ stored[s] = "unused"
    /\ stored' = [stored EXCEPT ![s] = "live"]
    /\ active' = [active EXCEPT ![s] = TRUE]
    /\ next_due' = [next_due EXCEPT ![s] = d]
    /\ UNCHANGED <<today, marker, runs, raised, abandoned, next_id, work, patches, faults>>

\* A PATCH of next_due_date, of active, or of both.
UpdateSchedule(s, d, on) ==
    /\ patches < MaxPatches
    /\ patches' = patches + 1
    /\ IsLive(s)
    /\ next_due' = [next_due EXCEPT ![s] = d]
    /\ active' = [active EXCEPT ![s] = on]
    /\ UNCHANGED <<today, stored, marker, runs, raised, abandoned, next_id, work, edits, faults>>

\* ON DELETE CASCADE takes the schedule's run rows with it.
DeleteSchedule(s) ==
    /\ Edit
    /\ IsLive(s)
    /\ stored' = [stored EXCEPT ![s] = "deleted"]
    /\ runs' = [k \in DOMAIN runs |-> IF k[1] = s THEN NoRun ELSE runs[k]]
    /\ UNCHANGED <<today, active, next_due, marker, raised, abandoned, next_id, work, patches, faults>>

\* Deleting a generated work order leaves its run row, with no link.
ClearRunLinks(job) ==
    /\ Edit
    /\ job \in raised
    /\ \E k \in DOMAIN runs : runs[k] = job.id
    /\ runs' = [k \in DOMAIN runs |-> IF runs[k] = job.id THEN Unlinked ELSE runs[k]]
    /\ UNCHANGED <<today, db, raised, abandoned, next_id, work, patches, faults>>

Tick ==
    /\ today < MaxDate
    /\ today' = today + 1
    /\ UNCHANGED <<db, runs, raised, abandoned, next_id, work, edits, patches, faults>>

-----------------------------------------------------------------------------
Step(w) ==
    \/ EnsureRead(w)
    \/ \E u \in Units, s \in Schedules, d \in Dates : EnsureInsert(w, u, s, d)
    \/ EnsureDone(w)
    \/ \E row \in batch[w] : Pick(w, row)
    \/ Finish(w)
    \/ ClaimRun(w) \/ PrepareWorkOrder(w) \/ InsertWorkOrder(w)
    \/ InsertRefused(w) \/ ReleaseClaim(w) \/ LinkRun(w) \/ AdvanceSchedule(w)

Failure(w) ==
    \/ CallFails(w) \/ ClaimReplyLost(w) \/ InsertFails(w) \/ InsertReplyLost(w) \/ Crash(w)

Manage ==
    \/ \E s \in Schedules, d \in Dates : CreateSchedule(s, d)
    \/ \E s \in Schedules, d \in Dates, on \in BOOLEAN : UpdateSchedule(s, d, on)
    \/ \E s \in Schedules : DeleteSchedule(s)
    \/ \E job \in raised : ClearRunLinks(job)

Next ==
    \/ \E w \in Workers : GenerateStart(w) \/ Step(w) \/ Failure(w)
    \/ Manage
    \/ Tick

Spec == Init /\ [][Next]_vars

\* The cron calls the endpoint every day and a server that took a request
\* goes on with it; nobody has to edit, and nothing has to fail.
FairSpec ==
    /\ Spec
    /\ WF_vars(Tick)
    /\ \A w \in Workers : WF_vars(GenerateStart(w)) /\ WF_vars(Step(w))

-----------------------------------------------------------------------------
(* Properties *)

\* "The cron can run twice, or two workers can race, and a given schedule
\* still produces at most one work order per due date": over every job ever
\* raised, whoever raised it and whether or not it was deleted since.
OneJobPerDueDate ==
    \A a, b \in raised : a.schedule = b.schedule /\ a.due = b.due => a = b

\* Why it holds.  A run that has claimed and not yet raised is alone with its
\* claim, and every job raised for a schedule that still exists keeps its run
\* row; this is inductive as long as no reply of the insert is lost.
Holding(w) == pc[w] \in {"prepare", "insert", "release"}

JobKeepsRun ==
    \A job \in raised :
        /\ stored[job.schedule] # "unused"
        /\ IsLive(job.schedule) => runs[<<job.schedule, job.due>>] # NoRun

HolderKeepsRun ==
    \A w \in Workers : Holding(w) =>
        /\ stored[cur[w].id] # "unused"
        /\ IsLive(cur[w].id) => runs[Key(w)] # NoRun
        /\ \A job \in raised : <<job.schedule, job.due>> # Key(w)

OneHolder ==
    \A v, w \in Workers : Holding(v) /\ Holding(w) /\ Key(v) = Key(w) => v = w

ClaimInv == TypeOK /\ OneJobPerDueDate /\ JobKeepsRun /\ HolderKeepsRun /\ OneHolder

\* However runs overlap, fail and die, generation does no more than work the
\* schedules off: one job for each due date, never one for a date a schedule is
\* not at, and no date left behind without its job.  A PATCH of a date, which a
\* run under way overwrites, and a lost reply of the insert are outside it.
Register == INSTANCE DueRegister WITH state <- stored, due <- next_due, jobs <- raised
ImplementsDueRegister == Register!DueSpec

\* The ensure is "Idempotent": a compressor whose marker exists, active or
\* paused, is skipped, so runs that follow one another, whatever failed in
\* them, never give a unit two weekly routines.
OneRoutinePerUnit ==
    \A s, t \in Schedules :
        IsLive(s) /\ IsLive(t) /\ marker[s] = marker[t] /\ marker[s] # NoUnit => s = t

IsDueNow(s) ==
    IsLive(s) /\ active[s] /\ IsDue([id |-> s, due |-> next_due[s]], today)

\* _generate_one: the claim is released "so the next run can retry rather than
\* silently skipping this due date forever": a schedule that is due rolls forward
\* (or is paused or deleted), again and again until it has caught up.
NoDateIsSkipped == \A s \in Schedules : []<>(~IsDueNow(s) \/ patches > 0)

\* What the code keeps of it.  A PATCH, which may set a date back to one already
\* claimed, ends the promise, and so does a run that left its claim behind: only
\* a failed insert releases it, not a call that fails before or after the insert,
\* a crash, a failed release or a lost reply of the claim.
DueIsEventuallyRaised ==
    \A s \in Schedules :
        []<>(~IsDueNow(s) \/ patches > 0 \/ <<s, next_due[s]>> \in abandoned)
=============================================================================
