---------------------- MODULE ScheduleGeneration_proofs ----------------------
(***************************************************************************)
(* Theorems about ScheduleGeneration, for every value of its constants.    *)
(***************************************************************************)
EXTENDS ScheduleGeneration, TLAPS

USE DEF vars, db, work, Goto, Forget, IsLive, Key, NoRun, Unlinked

LEMMA DateFacts ==
    /\ MaxDate \in Nat
    /\ Dates = 0 .. MaxDate + 1
    /\ 0 \in Dates
    /\ NoRow \in Row
<1>1. MaxDate \in Nat /\ 0 \in Dates /\ Dates = 0 .. MaxDate + 1
  BY DateAssumption DEF Dates, FarFuture
<1>2. PICK s \in Schedules : TRUE
  BY ScheduleAssumption
<1>3. [id |-> s, due |-> 0] \in Row
  BY <1>1 DEF Row
<1> QED
  BY <1>1, <1>3 DEF NoRow

LEMMA RunsUpdate ==
    ASSUME NEW f, f \in [Schedules \X Dates -> Int], NEW k, NEW v \in Int
    PROVE  [f EXCEPT ![k] = v] \in [Schedules \X Dates -> Int]
  OBVIOUS

(* What a worker's next call leaves well typed. *)
LEMMA StepType ==
    ASSUME TypeOK, NEW w \in Workers, GenerateStart(w) \/ Step(w)
    PROVE  TypeOK'
<1>1. CASE GenerateStart(w)
  <2>1. {[id |-> s, due |-> next_due[s]] : s \in {t \in Schedules : IsLive(t) /\ active[t]}}
            \in SUBSET Row
    BY DEF TypeOK, Row
  <2> QED
    BY <1>1, <2>1 DEF TypeOK, GenerateStart, Phases
<1>2. CASE EnsureRead(w)
  BY <1>2 DEF TypeOK, EnsureRead, Phases
<1>3. CASE \E u \in Units, s \in Schedules, d \in Dates : EnsureInsert(w, u, s, d)
  BY <1>3 DEF TypeOK, EnsureInsert
<1>4. CASE EnsureDone(w)
  BY <1>4 DEF TypeOK, EnsureDone, Phases
<1>5. CASE \E row \in batch[w] : Pick(w, row)
  BY <1>5 DEF TypeOK, Pick, Phases
<1>6. CASE Finish(w)
  BY <1>6, DateFacts DEF TypeOK, Finish, Phases
<1>7. CASE ClaimRun(w)
  <2>1. Unlinked \in Int
    BY DEF TypeOK
  <2>2. runs' \in [Schedules \X Dates -> Int]
    BY <1>7, <2>1, RunsUpdate DEF TypeOK, ClaimRun
  <2> QED
    BY <1>7, <2>2 DEF TypeOK, ClaimRun, Phases
<1>8. CASE InsertWorkOrder(w)
  BY <1>8 DEF TypeOK, InsertWorkOrder, NewJob, Job, Row, Phases
<1>9. CASE InsertRefused(w)
  BY <1>9 DEF TypeOK, InsertRefused, Phases
<1>10. CASE ReleaseClaim(w)
  <2>1. NoRun \in Int
    BY DEF TypeOK
  <2>2. runs' \in [Schedules \X Dates -> Int]
    BY <1>10, <2>1, RunsUpdate DEF TypeOK, ReleaseClaim
  <2> QED
    BY <1>10, <2>2 DEF TypeOK, ReleaseClaim, Phases
<1>11. CASE LinkRun(w)
  <2>1. wo[w] \in Int
    BY DEF TypeOK
  <2>2. runs' \in [Schedules \X Dates -> Int]
    <3>1. CASE runs[Key(w)] = NoRun
      BY <1>11, <3>1, RunsUpdate DEF TypeOK, LinkRun
    <3>2. CASE runs[Key(w)] # NoRun
      BY <1>11, <2>1, <3>2, RunsUpdate DEF TypeOK, LinkRun
    <3> QED BY <3>1, <3>2
  <2> QED
    BY <1>11, <2>2 DEF TypeOK, LinkRun, Phases
<1>12. CASE AdvanceSchedule(w)
  <2>1. NextOccurrence[cur[w].id][cur[w].due] \in Dates
    BY OccurrenceAssumption DEF TypeOK, Row
  <2> QED
    BY <1>12, <2>1 DEF TypeOK, AdvanceSchedule, Phases
<1>13. CASE PrepareWorkOrder(w)
  BY <1>13 DEF TypeOK, PrepareWorkOrder, Phases
<1> QED
  BY <1>1, <1>2, <1>3, <1>4, <1>5, <1>6, <1>7, <1>8, <1>9, <1>10, <1>11, <1>12, <1>13 DEF Step

(* A failed call writes at most what its success would have written. *)
LEMMA FailureType ==
    ASSUME TypeOK, NEW w \in Workers, Failure(w)
    PROVE  TypeOK'
<1>. /\ Key(w) \in Schedules \X Dates
     /\ Leaves(w) \subseteq Schedules \X Dates
  BY DEF TypeOK, Row, Leaves
<1>1. CASE CallFails(w)
  BY <1>1, BoundAssumption DEF TypeOK, CallFails, Fault, Phases
<1>2. CASE InsertFails(w)
  BY <1>2, BoundAssumption DEF TypeOK, InsertFails, Fault, Phases
<1>3. CASE InsertReplyLost(w)
  BY <1>3, BoundAssumption DEF TypeOK, InsertReplyLost, NewJob, Job, Row, Fault, Phases
<1>4. CASE Crash(w)
  BY <1>4, DateFacts, BoundAssumption DEF TypeOK, Crash, Fault, Phases
<1>5. CASE ClaimReplyLost(w)
  <2>1. runs' \in [Schedules \X Dates -> Int]
    BY <1>5, RunsUpdate DEF TypeOK, ClaimReplyLost
  <2> QED
    BY <1>5, <2>1, BoundAssumption DEF TypeOK, ClaimReplyLost, Fault, Phases
<1> QED
  BY <1>1, <1>2, <1>3, <1>4, <1>5 DEF Failure

LEMMA ManageType ==
    ASSUME TypeOK, Manage \/ Tick
    PROVE  TypeOK'
<1>1. CASE \E s \in Schedules, d \in Dates : CreateSchedule(s, d)
  BY <1>1, BoundAssumption DEF TypeOK, CreateSchedule, Edit
<1>2. CASE \E s \in Schedules, d \in Dates, on \in BOOLEAN : UpdateSchedule(s, d, on)
  BY <1>2, BoundAssumption DEF TypeOK, UpdateSchedule
<1>3. CASE \E s \in Schedules : DeleteSchedule(s)
  BY <1>3, BoundAssumption DEF TypeOK, DeleteSchedule, Edit
<1>4. CASE \E job \in raised : ClearRunLinks(job)
  BY <1>4, BoundAssumption DEF TypeOK, ClearRunLinks, Edit
<1>5. CASE Tick
  BY <1>5, DateFacts DEF TypeOK, Tick
<1> QED
  BY <1>1, <1>2, <1>3, <1>4, <1>5 DEF Manage

LEMMA TypeInit == Init => TypeOK
  BY DateFacts, BoundAssumption DEF Init, TypeOK, Phases, Job

LEMMA TypeNext == TypeOK /\ [Next]_vars => TypeOK'
<1> SUFFICES ASSUME TypeOK, [Next]_vars PROVE TypeOK'
  OBVIOUS
<1>1. CASE UNCHANGED vars
  BY <1>1 DEF TypeOK
<1>2. CASE Next
  BY <1>2, StepType, FailureType, ManageType DEF Next
<1> QED
  BY <1>1, <1>2

(* Every reachable state is well typed. *)
THEOREM TypeCorrect == Spec => []TypeOK
<1> QED
  BY TypeInit, TypeNext, PTL DEF Spec

-----------------------------------------------------------------------------
(* At most one job per due date. *)

ClaimRest == OneJobPerDueDate /\ JobKeepsRun /\ HolderKeepsRun /\ OneHolder

(* Steps that write neither table and let nobody into the critical stretch. *)
LEMMA QuietStep ==
    ASSUME TypeOK, TypeOK', ClaimRest,
           stored' = stored, runs' = runs, raised' = raised,
           \A w \in Workers : Holding(w)' => Holding(w) /\ cur'[w] = cur[w]
    PROVE  ClaimRest'
<1>1. OneJobPerDueDate' /\ JobKeepsRun'
  BY DEF ClaimRest, OneJobPerDueDate, JobKeepsRun
<1>2. HolderKeepsRun'
  BY DEF ClaimRest, HolderKeepsRun
<1>3. OneHolder'
  BY DEF ClaimRest, OneHolder
<1> QED
  BY <1>1, <1>2, <1>3 DEF ClaimRest

(* Steps that only change which schedules and runs exist: no run row is lost
   while its schedule lives, no schedule goes back to unused, and a schedule
   that comes to life had no job and no holder. *)
LEMMA TableStep ==
    ASSUME TypeOK, TypeOK', ClaimRest, raised' = raised, pc' = pc, cur' = cur,
           \A s \in Schedules :
               stored[s] # "unused" =>
                  /\ stored'[s] # "unused"
                  /\ stored'[s] = "live" =>
                        /\ stored[s] = "live"
                        /\ \A d \in Dates : runs[<<s, d>>] # NoRun => runs'[<<s, d>>] # NoRun
    PROVE  ClaimRest'
<1>1. OneJobPerDueDate'
  BY DEF ClaimRest, OneJobPerDueDate
<1>2. JobKeepsRun'
  BY DEF ClaimRest, JobKeepsRun, TypeOK, Job
<1>3. HolderKeepsRun'
  BY DEF ClaimRest, HolderKeepsRun, Holding, TypeOK, Row
<1>4. OneHolder'
  BY DEF ClaimRest, OneHolder, Holding
<1> QED
  BY <1>1, <1>2, <1>3, <1>4 DEF ClaimRest

LEMMA ClaimStep ==
    ASSUME TypeOK, TypeOK', ClaimRest, NEW w \in Workers, ClaimRun(w)
    PROVE  ClaimRest'
<1>1. CASE ClaimTaken(w) \/ ~IsLive(cur[w].id)
  <2>1. \A v \in Workers : Holding(v)' => Holding(v) /\ cur'[v] = cur[v]
    BY <1>1 DEF ClaimRun, Holding, TypeOK
  <2> QED
    BY <1>1, <2>1, QuietStep DEF ClaimRun
<1>2. CASE ~ClaimTaken(w) /\ IsLive(cur[w].id)
  <2>1. /\ pc' = [pc EXCEPT ![w] = "prepare"]
        /\ runs' = [runs EXCEPT ![Key(w)] = Unlinked]
        /\ stored' = stored /\ raised' = raised /\ cur' = cur
        /\ runs[Key(w)] = NoRun
    BY <1>2 DEF ClaimRun, ClaimTaken
  <2>2. Key(w) \in Schedules \X Dates
    BY DEF TypeOK, Row
  <2>3. \A k \in Schedules \X Dates :
            runs'[k] = IF k = Key(w) THEN Unlinked ELSE runs[k]
    BY <2>1, <2>2 DEF TypeOK
  <2>4. OneJobPerDueDate'
    BY <2>1 DEF ClaimRest, OneJobPerDueDate
  <2>5. JobKeepsRun'
    BY <2>1, <2>3 DEF ClaimRest, JobKeepsRun, TypeOK, Job
  <2>6. HolderKeepsRun'
    <3> SUFFICES ASSUME NEW v \in Workers, Holding(v)'
                 PROVE  /\ stored'[cur'[v].id] # "unused"
                        /\ IsLive(cur[v].id)' => runs'[Key(v)'] # NoRun
                        /\ \A job \in raised' : <<job.schedule, job.due>> # Key(v)'
      BY DEF HolderKeepsRun
    <3>1. CASE v = w
      BY <1>2, <2>1, <2>2, <2>3, <3>1 DEF ClaimRest, JobKeepsRun, TypeOK, Job
    <3>2. CASE v # w
      <4>1. Holding(v)
        BY <2>1, <3>2 DEF Holding, TypeOK
      <4>2. Key(v) \in Schedules \X Dates
        BY DEF TypeOK, Row
      <4> QED
        BY <2>1, <2>3, <4>1, <4>2 DEF ClaimRest, HolderKeepsRun
    <3> QED BY <3>1, <3>2
  <2>7. OneHolder'
    <3>1. \A v \in Workers : Holding(v) => Key(v) # Key(w)
      BY <1>2, <2>1 DEF ClaimRest, HolderKeepsRun
    <3>2. \A v \in Workers : v # w /\ Holding(v)' => Holding(v)
      BY <2>1 DEF Holding, TypeOK
    <3> QED
      BY <2>1, <3>1, <3>2 DEF ClaimRest, OneHolder
  <2> QED
    BY <2>4, <2>5, <2>6, <2>7 DEF ClaimRest
<1> QED
  BY <1>1, <1>2

LEMMA InsertStep ==
    ASSUME TypeOK, TypeOK', ClaimRest, NEW w \in Workers, InsertWorkOrder(w)
    PROVE  ClaimRest'
<1>1. /\ stored' = stored /\ runs' = runs /\ cur' = cur
      /\ raised' = raised \cup {NewJob(w)}
      /\ pc' = [pc EXCEPT ![w] = "link"]
      /\ Holding(w) /\ IsLive(cur[w].id)
  BY DEF InsertWorkOrder, Holding
<1>2. NewJob(w).schedule = cur[w].id /\ NewJob(w).due = cur[w].due
  BY DEF NewJob
<1>3. /\ stored[cur[w].id] # "unused"
      /\ runs[Key(w)] # NoRun
      /\ \A job \in raised : <<job.schedule, job.due>> # Key(w)
  BY <1>1 DEF ClaimRest, HolderKeepsRun
<1>4. \A v \in Workers : Holding(v)' => v # w /\ Holding(v)
  BY <1>1 DEF Holding, TypeOK
<1>5. OneJobPerDueDate'
  BY <1>1, <1>2, <1>3 DEF ClaimRest, OneJobPerDueDate
<1>6. JobKeepsRun'
  BY <1>1, <1>2, <1>3 DEF ClaimRest, JobKeepsRun
<1>7. HolderKeepsRun'
  <2>1. \A v \in Workers : Holding(v)' => Key(v) # Key(w)
    BY <1>1, <1>4 DEF ClaimRest, OneHolder
  <2> QED
    BY <1>1, <1>2, <1>4, <2>1 DEF ClaimRest, HolderKeepsRun
<1>8. OneHolder'
  BY <1>1, <1>4 DEF ClaimRest, OneHolder
<1> QED
  BY <1>5, <1>6, <1>7, <1>8 DEF ClaimRest

LEMMA ReleaseStep ==
    ASSUME TypeOK, TypeOK', ClaimRest, NEW w \in Workers, ReleaseClaim(w)
    PROVE  ClaimRest'
<1>1. /\ stored' = stored /\ raised' = raised /\ cur' = cur
      /\ runs' = [runs EXCEPT ![Key(w)] = NoRun]
      /\ pc' = [pc EXCEPT ![w] = "pick"]
      /\ Holding(w)
  BY DEF ReleaseClaim, Holding
<1>2. \A k \in Schedules \X Dates : k # Key(w) => runs'[k] = runs[k]
  BY <1>1 DEF TypeOK
<1>3. \A job \in raised : <<job.schedule, job.due>> # Key(w)
  BY <1>1 DEF ClaimRest, HolderKeepsRun
<1>4. \A v \in Workers : Holding(v)' => v # w /\ Holding(v)
  BY <1>1 DEF Holding, TypeOK
<1>5. OneJobPerDueDate'
  BY <1>1 DEF ClaimRest, OneJobPerDueDate
<1>6. JobKeepsRun'
  BY <1>1, <1>2, <1>3 DEF ClaimRest, JobKeepsRun, TypeOK, Job
<1>7. HolderKeepsRun'
  <2>1. \A v \in Workers : Holding(v)' => Key(v) # Key(w)
    BY <1>1, <1>4 DEF ClaimRest, OneHolder
  <2>2. \A v \in Workers : Key(v) \in Schedules \X Dates
    BY DEF TypeOK, Row
  <2> QED
    BY <1>1, <1>2, <1>4, <2>1, <2>2 DEF ClaimRest, HolderKeepsRun
<1>8. OneHolder'
  BY <1>1, <1>4 DEF ClaimRest, OneHolder
<1> QED
  BY <1>5, <1>6, <1>7, <1>8 DEF ClaimRest

LEMMA LinkStep ==
    ASSUME TypeOK, TypeOK', ClaimRest, NEW w \in Workers, LinkRun(w)
    PROVE  ClaimRest'
<1>1. /\ stored' = stored /\ raised' = raised /\ cur' = cur
      /\ runs' = [runs EXCEPT ![Key(w)] = IF @ = NoRun THEN NoRun ELSE wo[w]]
      /\ pc' = [pc EXCEPT ![w] = "advance"]
  BY DEF LinkRun
<1>2. \A k \in Schedules \X Dates : runs[k] # NoRun => runs'[k] # NoRun
  <2>1. wo[w] # NoRun
    BY DEF TypeOK
  <2>2. CASE runs[Key(w)] = NoRun
    BY <1>1, <2>2 DEF TypeOK
  <2>3. CASE runs[Key(w)] # NoRun
    BY <1>1, <2>1, <2>3 DEF TypeOK
  <2> QED BY <2>2, <2>3
<1>3. \A v \in Workers : Holding(v)' => Holding(v)
  BY <1>1 DEF Holding, TypeOK
<1>4. OneJobPerDueDate'
  BY <1>1 DEF ClaimRest, OneJobPerDueDate
<1>5. JobKeepsRun'
  BY <1>1, <1>2 DEF ClaimRest, JobKeepsRun, TypeOK, Job
<1>6. HolderKeepsRun'
  BY <1>1, <1>2, <1>3 DEF ClaimRest, HolderKeepsRun, TypeOK, Row
<1>7. OneHolder'
  BY <1>1, <1>3 DEF ClaimRest, OneHolder
<1> QED
  BY <1>4, <1>5, <1>6, <1>7 DEF ClaimRest

(* A claim whose reply is lost stays, and nobody holds it. *)
LEMMA LostClaimStep ==
    ASSUME TypeOK, TypeOK', ClaimRest, NEW w \in Workers, ClaimReplyLost(w)
    PROVE  ClaimRest'
<1>1. /\ stored' = stored /\ raised' = raised /\ cur' = cur
      /\ runs' = [runs EXCEPT ![Key(w)] = Unlinked]
      /\ pc' = [pc EXCEPT ![w] = "pick"]
  BY DEF ClaimReplyLost
<1>2. \A k \in Schedules \X Dates : runs[k] # NoRun => runs'[k] # NoRun
  BY <1>1 DEF TypeOK
<1>3. \A v \in Workers : Holding(v)' => Holding(v)
  BY <1>1 DEF Holding, TypeOK
<1>4. OneJobPerDueDate'
  BY <1>1 DEF ClaimRest, OneJobPerDueDate
<1>5. JobKeepsRun'
  BY <1>1, <1>2 DEF ClaimRest, JobKeepsRun, TypeOK, Job
<1>6. HolderKeepsRun'
  BY <1>1, <1>2, <1>3 DEF ClaimRest, HolderKeepsRun, TypeOK, Row
<1>7. OneHolder'
  BY <1>1, <1>3 DEF ClaimRest, OneHolder
<1> QED
  BY <1>4, <1>5, <1>6, <1>7 DEF ClaimRest

(* Every other call of a worker leaves both tables' keys as they are. *)
LEMMA WorkerStep ==
    ASSUME TypeOK, TypeOK', ClaimRest, "insert_reply" \notin FaultKinds,
           NEW w \in Workers, GenerateStart(w) \/ Step(w) \/ Failure(w)
    PROVE  ClaimRest'
<1> DEFINE Quiet == /\ stored' = stored /\ runs' = runs /\ raised' = raised
                    /\ \A v \in Workers : Holding(v)' => Holding(v) /\ cur'[v] = cur[v]
<1>1. CASE GenerateStart(w) \/ EnsureRead(w) \/ EnsureDone(w)
  <2>1. Quiet
    BY <1>1 DEF GenerateStart, EnsureRead, EnsureDone, Holding, TypeOK
  <2> QED BY <2>1, QuietStep
<1>2. CASE (\E row \in batch[w] : Pick(w, row)) \/ Finish(w)
  <2>1. Quiet
    BY <1>2 DEF Pick, Finish, Holding, TypeOK
  <2> QED BY <2>1, QuietStep
<1>3. CASE PrepareWorkOrder(w) \/ InsertRefused(w) \/ AdvanceSchedule(w)
  <2>1. Quiet
    BY <1>3 DEF PrepareWorkOrder, InsertRefused, AdvanceSchedule, Holding, TypeOK
  <2> QED BY <2>1, QuietStep
<1>4. CASE CallFails(w) \/ InsertFails(w)
  <2>1. Quiet
    BY <1>4 DEF CallFails, InsertFails, Holding, TypeOK
  <2> QED BY <2>1, QuietStep
<1>5. CASE Crash(w)
  <2>1. Quiet
    BY <1>5 DEF Crash, Holding, TypeOK
  <2> QED BY <2>1, QuietStep
<1>6. CASE InsertReplyLost(w)
  BY <1>6 DEF InsertReplyLost, Fault
<1>7. CASE \E u \in Units, s \in Schedules, d \in Dates : EnsureInsert(w, u, s, d)
  BY <1>7, TableStep DEF EnsureInsert, TypeOK
<1> QED
  BY <1>1, <1>2, <1>3, <1>4, <1>5, <1>6, <1>7, ClaimStep, LostClaimStep, InsertStep, ReleaseStep, LinkStep
  DEF Step, Failure

LEMMA ManageStep ==
    ASSUME TypeOK, TypeOK', ClaimRest, Manage \/ Tick
    PROVE  ClaimRest'
<1>1. CASE \E s \in Schedules, d \in Dates : CreateSchedule(s, d)
  BY <1>1, TableStep DEF CreateSchedule, TypeOK
<1>2. CASE \E s \in Schedules, d \in Dates, on \in BOOLEAN : UpdateSchedule(s, d, on)
  BY <1>2, TableStep DEF UpdateSchedule
<1>3. CASE \E s \in Schedules : DeleteSchedule(s)
  BY <1>3, TableStep DEF DeleteSchedule, TypeOK
<1>4. CASE \E job \in raised : ClearRunLinks(job)
  <2>1. \A k \in Schedules \X Dates : runs[k] # NoRun => runs'[k] # NoRun
    BY <1>4 DEF ClearRunLinks, TypeOK
  <2> QED
    BY <1>4, <2>1, TableStep DEF ClearRunLinks
<1>5. CASE Tick
  BY <1>5, TableStep DEF Tick
<1> QED
  BY <1>1, <1>2, <1>3, <1>4, <1>5 DEF Manage

LEMMA ClaimNext ==
    ASSUME "insert_reply" \notin FaultKinds, ClaimInv, [Next]_vars
    PROVE  ClaimInv'
<1>1. TypeOK'
  BY TypeNext DEF ClaimInv
<1>2. CASE UNCHANGED vars
  BY <1>1, <1>2, QuietStep DEF ClaimInv, ClaimRest, Holding
<1>3. CASE Next
  BY <1>1, <1>3, WorkerStep, ManageStep DEF Next, ClaimInv, ClaimRest
<1> QED
  BY <1>2, <1>3

(* As long as no reply of the work-order insert is lost, no due date of a
   schedule is ever raised twice: whatever runs overlap, whichever other call
   fails and wherever a process dies. *)
THEOREM OneJob ==
    ASSUME "insert_reply" \notin FaultKinds
    PROVE  Spec => []OneJobPerDueDate
<1>1. Init => ClaimInv
  BY TypeInit DEF Init, ClaimInv, OneJobPerDueDate, JobKeepsRun, HolderKeepsRun,
                  OneHolder, Holding
<1>2. ClaimInv /\ [Next]_vars => ClaimInv'
  BY ClaimNext
<1>3. ClaimInv => OneJobPerDueDate
  BY DEF ClaimInv
<1> QED
  BY <1>1, <1>2, <1>3, PTL DEF Spec

-----------------------------------------------------------------------------
(* ScheduleGeneration implements DueRegister. *)

Working(w) == pc[w] \in {"prepare", "insert", "release", "link", "advance"}
JobFor(row) == \E job \in raised : job.schedule = row.id /\ job.due = row.due

\* What a worker holds that it has yet to work on.
Rows(w) == batch[w] \cup (IF pc[w] = "claim" THEN {cur[w]} ELSE {})

\* A stale row is harmless, since the date it was read with has its job.
RowsAreKnown ==
    \A w \in Workers : \A row \in Rows(w) :
        /\ stored[row.id] # "unused"
        /\ IsLive(row.id) => next_due[row.id] = row.due \/ JobFor(row)

\* A schedule stays where it is while somebody works on its due date.
WorkersAreOnTime ==
    \A w \in Workers : Working(w) =>
        /\ stored[cur[w].id] # "unused"
        /\ IsLive(cur[w].id) => next_due[cur[w].id] = cur[w].due
        /\ pc[w] \in {"link", "advance"} => JobFor(cur[w])

NeverFarFuture ==
    \A w \in Workers : pc[w] = "claim" \/ Working(w) => cur[w].due # FarFuture

OneWorker ==
    \A v, w \in Workers :
        Working(v) /\ Working(w) /\ Key(v) = Key(w) /\ IsLive(cur[w].id) => v = w

OnTimeRest == RowsAreKnown /\ WorkersAreOnTime /\ NeverFarFuture /\ OneWorker
OnTimeInv == ClaimInv /\ OnTimeRest

\* Steps that touch no schedule and no job, and after which nobody holds or
\* works on anything new.
LEMMA CalmStep ==
    ASSUME TypeOK, OnTimeRest,
           stored' = stored, next_due' = next_due, raised' = raised,
           \A w \in Workers : /\ Rows(w)' \subseteq Rows(w)
                              /\ Working(w)' => Working(w) /\ cur'[w] = cur[w]
                              /\ pc'[w] = "claim" => cur'[w].due # FarFuture
                              /\ pc'[w] \in {"link", "advance"} => pc[w] \in {"link", "advance"}
    PROVE  OnTimeRest'
<1>1. RowsAreKnown'
  BY DEF OnTimeRest, RowsAreKnown, JobFor
<1>2. WorkersAreOnTime'
  BY DEF OnTimeRest, WorkersAreOnTime, JobFor
<1>3. NeverFarFuture'
  BY DEF OnTimeRest, NeverFarFuture
<1>4. OneWorker'
  BY DEF OnTimeRest, OneWorker
<1> QED
  BY <1>1, <1>2, <1>3, <1>4 DEF OnTimeRest

\* A schedule comes to life or is deleted: nobody held it, or nobody is bound.
LEMMA LifeStep ==
    ASSUME TypeOK, TypeOK', OnTimeRest, NEW s \in Schedules,
           batch' = batch, pc' = pc, cur' = cur, raised' = raised,
           \/ stored[s] = "unused"
           \/ stored'[s] = "deleted" /\ next_due' = next_due,
           stored'[s] # "unused",
           \A t \in Schedules \ {s} : stored'[t] = stored[t] /\ next_due'[t] = next_due[t]
    PROVE  OnTimeRest'
<1>0. \A w \in Workers : cur[w] \in Row /\ Rows(w) \subseteq Row /\ Rows(w)' = Rows(w)
                         /\ (Working(w)' <=> Working(w))
  BY DEF TypeOK, Rows, Working
<1>1. RowsAreKnown'
  BY <1>0 DEF OnTimeRest, RowsAreKnown, JobFor, Row
<1>2. WorkersAreOnTime'
  BY <1>0 DEF OnTimeRest, WorkersAreOnTime, JobFor, Row
<1>3. NeverFarFuture'
  BY <1>0 DEF OnTimeRest, NeverFarFuture
<1>4. OneWorker'
  <2> SUFFICES ASSUME NEW v \in Workers, NEW w \in Workers,
                      Working(v), Working(w), Key(v) = Key(w), IsLive(cur[w].id)'
               PROVE  v = w
    BY <1>0 DEF OneWorker
  <2>1. stored[cur[w].id] # "unused" /\ cur[w].id \in Schedules
    BY <1>0 DEF OnTimeRest, WorkersAreOnTime, Row
  <2>2. IsLive(cur[w].id)
    BY <2>1
  <2> QED
    BY <2>2 DEF OnTimeRest, OneWorker
<1> QED
  BY <1>1, <1>2, <1>3, <1>4 DEF OnTimeRest

\* The rows a run loads are as they stand.
LEMMA LoadStep ==
    ASSUME TypeOK, OnTimeRest, NEW w \in Workers, GenerateStart(w)
    PROVE  OnTimeRest'
<1>1. /\ stored' = stored /\ next_due' = next_due /\ raised' = raised /\ cur' = cur
      /\ pc' = [pc EXCEPT ![w] = "read_ensure"]
      /\ \A v \in Workers \ {w} : batch'[v] = batch[v]
      /\ batch'[w] = {[id |-> s, due |-> next_due[s]] : s \in {t \in Schedules : IsLive(t) /\ active[t]}}
  BY DEF GenerateStart, TypeOK
<1>2. \A v \in Workers : (Working(v)' => Working(v)) /\ (pc'[v] = "claim" => pc[v] = "claim")
                         /\ (pc'[v] \in {"link", "advance"} => pc[v] \in {"link", "advance"})
  BY <1>1 DEF Working, TypeOK
<1>3. RowsAreKnown'
  <2> SUFFICES ASSUME NEW v \in Workers, NEW row \in Rows(v)'
               PROVE  /\ stored[row.id] # "unused"
                      /\ IsLive(row.id) => next_due[row.id] = row.due \/ JobFor(row)
    BY <1>1 DEF RowsAreKnown, JobFor
  <2>1. CASE v = w
    <3>1. row \in batch'[w]
      BY <1>1, <2>1 DEF Rows, TypeOK
    <3>2. PICK s \in Schedules : IsLive(s) /\ row = [id |-> s, due |-> next_due[s]]
      BY <1>1, <3>1
    <3> QED
      BY <3>2
  <2>2. CASE v # w
    BY <1>1, <2>2 DEF OnTimeRest, RowsAreKnown, Rows, TypeOK
  <2> QED
    BY <2>1, <2>2
<1>4. WorkersAreOnTime' /\ NeverFarFuture' /\ OneWorker'
  BY <1>1, <1>2 DEF OnTimeRest, WorkersAreOnTime, NeverFarFuture, OneWorker, JobFor
<1> QED
  BY <1>3, <1>4 DEF OnTimeRest

\* A claim that succeeds is for a date without a job, so for the present one.
LEMMA ClaimOnTime ==
    ASSUME TypeOK, ClaimRest, OnTimeRest, NEW w \in Workers, ClaimRun(w)
    PROVE  OnTimeRest'
<1>0. stored' = stored /\ next_due' = next_due /\ raised' = raised /\ cur' = cur /\ batch' = batch
  BY DEF ClaimRun
<1>1. CASE ClaimTaken(w) \/ ~IsLive(cur[w].id)
  BY <1>0, <1>1, CalmStep DEF ClaimRun, Rows, Working, OnTimeRest, NeverFarFuture, TypeOK
<1>2. CASE ~ClaimTaken(w) /\ IsLive(cur[w].id)
  <2>1. pc' = [pc EXCEPT ![w] = "prepare"] /\ runs[Key(w)] = NoRun /\ pc[w] = "claim"
    BY <1>2 DEF ClaimRun, ClaimTaken
  <2>2. ~JobFor(cur[w])
    BY <1>2, <2>1 DEF JobFor, ClaimRest, JobKeepsRun
  <2>3. next_due[cur[w].id] = cur[w].due
    BY <1>2, <2>1, <2>2 DEF OnTimeRest, RowsAreKnown, Rows
  <2>4. \A v \in Workers : Rows(v)' \subseteq Rows(v) /\ (v # w => (Working(v)' <=> Working(v)))
    BY <1>0, <2>1 DEF Rows, Working, TypeOK
  <2>5. RowsAreKnown'
    BY <1>0, <2>4 DEF OnTimeRest, RowsAreKnown, JobFor
  <2>6. WorkersAreOnTime'
    BY <1>0, <1>2, <2>1, <2>3, <2>4 DEF OnTimeRest, WorkersAreOnTime, JobFor, TypeOK
  <2>7. NeverFarFuture'
    BY <1>0, <2>1, <2>4 DEF OnTimeRest, NeverFarFuture, TypeOK
  <2>8. \A v \in Workers : Working(v) => Key(v) # Key(w)
    <3> SUFFICES ASSUME NEW v \in Workers, Working(v), Key(v) = Key(w) PROVE FALSE
      OBVIOUS
    <3>1. CASE Holding(v)
      BY <1>2, <2>1, <3>1 DEF ClaimRest, HolderKeepsRun
    <3>2. CASE pc[v] \in {"link", "advance"}
      BY <2>2, <3>2 DEF OnTimeRest, WorkersAreOnTime, JobFor
    <3> QED
      BY <3>1, <3>2 DEF Working, Holding
  <2>9. OneWorker'
    BY <1>0, <2>4, <2>8 DEF OnTimeRest, OneWorker
  <2> QED
    BY <2>5, <2>6, <2>7, <2>9 DEF OnTimeRest
<1> QED
  BY <1>1, <1>2

\* A due row is taken up.
LEMMA PickStep ==
    ASSUME TypeOK, OnTimeRest, NEW w \in Workers, NEW row \in batch[w], Pick(w, row)
    PROVE  OnTimeRest'
<1>1. /\ stored' = stored /\ next_due' = next_due /\ raised' = raised
      /\ \A v \in Workers \ {w} : batch'[v] = batch[v] /\ cur'[v] = cur[v] /\ pc'[v] = pc[v]
      /\ batch'[w] = batch[w] \ {row} /\ cur'[w] = row /\ pc'[w] = "claim"
      /\ row \in Row /\ row.due <= MaxDate
  BY DEF Pick, IsDue, TypeOK
<1>2. row.due # FarFuture
  BY <1>1, DateFacts DEF FarFuture, Row, Dates
<1>3. \A v \in Workers : Rows(v)' \subseteq Rows(v) /\ (Working(v)' => v # w /\ Working(v))
  BY <1>1 DEF Rows, Working
<1>4. RowsAreKnown'
  BY <1>1, <1>3 DEF OnTimeRest, RowsAreKnown, JobFor
<1>5. WorkersAreOnTime' /\ NeverFarFuture' /\ OneWorker'
  BY <1>1, <1>2, <1>3 DEF OnTimeRest, WorkersAreOnTime, NeverFarFuture, OneWorker, JobFor
<1> QED
  BY <1>4, <1>5 DEF OnTimeRest

\* The job of the present date is raised.
LEMMA InsertOnTime ==
    ASSUME TypeOK, OnTimeRest, NEW w \in Workers, InsertWorkOrder(w)
    PROVE  OnTimeRest'
<1>1. /\ stored' = stored /\ next_due' = next_due /\ cur' = cur /\ batch' = batch
      /\ raised' = raised \cup {NewJob(w)}
      /\ pc' = [pc EXCEPT ![w] = "link"] /\ pc[w] = "insert"
  BY DEF InsertWorkOrder
<1>2. \A row : JobFor(row) => JobFor(row)'
  BY <1>1 DEF JobFor
<1>3. JobFor(cur[w])'
  <2>1. NewJob(w).schedule = cur[w].id /\ NewJob(w).due = cur[w].due
    BY DEF NewJob
  <2> QED
    BY <1>1, <2>1 DEF JobFor
<1>4. \A v \in Workers : Rows(v)' \subseteq Rows(v) /\ (Working(v)' => Working(v))
                         /\ (v # w => pc'[v] = pc[v])
  BY <1>1 DEF Rows, Working, TypeOK
<1>5. RowsAreKnown'
  BY <1>1, <1>2, <1>4 DEF OnTimeRest, RowsAreKnown
<1>6. WorkersAreOnTime'
  <2> SUFFICES ASSUME NEW v \in Workers, Working(v)'
               PROVE  /\ stored[cur[v].id] # "unused"
                      /\ IsLive(cur[v].id) => next_due[cur[v].id] = cur[v].due
                      /\ pc'[v] \in {"link", "advance"} => JobFor(cur[v])'
    BY <1>1 DEF WorkersAreOnTime, JobFor
  <2>1. Working(v) /\ (v # w => pc'[v] = pc[v])
    BY <1>4
  <2>2. CASE v = w
    BY <1>1, <1>3, <2>1, <2>2 DEF OnTimeRest, WorkersAreOnTime
  <2>3. CASE v # w
    BY <1>1, <2>1, <2>3 DEF OnTimeRest, WorkersAreOnTime, JobFor
  <2> QED
    BY <2>2, <2>3
<1>7. NeverFarFuture' /\ OneWorker'
  BY <1>1, <1>4 DEF OnTimeRest, NeverFarFuture, OneWorker, TypeOK
<1> QED
  BY <1>5, <1>6, <1>7 DEF OnTimeRest

\* The schedule moves on from a date whose job is there.
LEMMA AdvanceOnTime ==
    ASSUME TypeOK, OnTimeRest, NEW w \in Workers, AdvanceSchedule(w)
    PROVE  OnTimeRest'
<1>. DEFINE s == cur[w].id
<1>1. /\ stored' = stored /\ raised' = raised /\ cur' = cur /\ batch' = batch
      /\ pc' = [pc EXCEPT ![w] = "pick"] /\ pc[w] = "advance"
      /\ \A t \in Schedules \ {s} : next_due'[t] = next_due[t]
      /\ ~IsLive(s) => next_due' = next_due
      /\ \A v \in Workers : cur[v] \in Row /\ Rows(v) \subseteq Row
  BY DEF AdvanceSchedule, TypeOK, Rows
<1>2. \A v \in Workers : Rows(v)' \subseteq Rows(v) /\ (Working(v)' => v # w /\ Working(v))
                         /\ (v # w => pc'[v] = pc[v])
  BY <1>1 DEF Rows, Working, TypeOK
<1>3. JobFor(cur[w]) /\ (IsLive(s) => next_due[s] = cur[w].due)
  BY <1>1 DEF OnTimeRest, WorkersAreOnTime, Working
<1>4. RowsAreKnown'
  <2> SUFFICES ASSUME NEW v \in Workers, NEW row \in Rows(v), IsLive(row.id)
               PROVE  next_due'[row.id] = row.due \/ JobFor(row)
    BY <1>1, <1>2 DEF OnTimeRest, RowsAreKnown, JobFor
  <2>1. row \in Row /\ (next_due[row.id] = row.due \/ JobFor(row))
    BY <1>1 DEF OnTimeRest, RowsAreKnown
  <2>2. CASE row.id = s
    BY <1>3, <2>1, <2>2 DEF JobFor
  <2>3. CASE row.id # s
    BY <1>1, <2>1, <2>3 DEF Row
  <2> QED
    BY <2>2, <2>3
<1>5. WorkersAreOnTime'
  <2> SUFFICES ASSUME NEW v \in Workers, Working(v), v # w
               PROVE  /\ stored[cur[v].id] # "unused"
                      /\ IsLive(cur[v].id) => next_due'[cur[v].id] = cur[v].due
                      /\ pc[v] \in {"link", "advance"} => JobFor(cur[v])
    BY <1>1, <1>2 DEF WorkersAreOnTime, JobFor
  <2>1. /\ stored[cur[v].id] # "unused"
        /\ IsLive(cur[v].id) => next_due[cur[v].id] = cur[v].due
        /\ pc[v] \in {"link", "advance"} => JobFor(cur[v])
    BY DEF OnTimeRest, WorkersAreOnTime
  <2>2. IsLive(cur[v].id) => cur[v].id # s
    <3> SUFFICES ASSUME IsLive(cur[v].id), cur[v].id = s PROVE FALSE
      OBVIOUS
    <3>1. Key(v) = Key(w) /\ Working(w)
      BY <1>1, <1>3, <2>1 DEF Working
    <3> QED
      BY <3>1 DEF OnTimeRest, OneWorker
  <2> QED
    BY <1>1, <2>1, <2>2 DEF Row
<1>6. NeverFarFuture' /\ OneWorker'
  BY <1>1, <1>2 DEF OnTimeRest, NeverFarFuture, OneWorker, TypeOK
<1> QED
  BY <1>4, <1>5, <1>6 DEF OnTimeRest

LEMMA OnTimeNext ==
    ASSUME "insert_reply" \notin FaultKinds, MaxPatches = 0, OnTimeInv, [Next]_vars
    PROVE  OnTimeInv'
<1>1. ClaimInv' /\ TypeOK /\ TypeOK' /\ ClaimRest /\ OnTimeRest
  BY ClaimNext DEF OnTimeInv, ClaimInv, ClaimRest
<1>. DEFINE Calm ==
       /\ stored' = stored /\ next_due' = next_due /\ raised' = raised
       /\ \A w \in Workers : /\ Rows(w)' \subseteq Rows(w)
                             /\ Working(w)' => Working(w) /\ cur'[w] = cur[w]
                             /\ pc'[w] = "claim" => cur'[w].due # FarFuture
                             /\ pc'[w] \in {"link", "advance"} => pc[w] \in {"link", "advance"}
<1>2. Calm => OnTimeRest'
  BY <1>1, CalmStep
<1>3. \A w \in Workers : pc[w] = "claim" => cur[w].due # FarFuture
  BY <1>1 DEF OnTimeRest, NeverFarFuture
<1>4. ASSUME NEW w \in Workers, EnsureRead(w) \/ EnsureDone(w) \/ Finish(w) \/ Crash(w)
      PROVE  Calm
  BY <1>1, <1>3, <1>4 DEF EnsureRead, EnsureDone, Finish, Crash, Rows, Working, TypeOK
<1>5. ASSUME NEW w \in Workers, PrepareWorkOrder(w) \/ InsertRefused(w) \/ ReleaseClaim(w) \/ LinkRun(w)
      PROVE  Calm
  BY <1>1, <1>3, <1>5 DEF PrepareWorkOrder, InsertRefused, ReleaseClaim, LinkRun, Rows, Working, TypeOK
<1>6. ASSUME NEW w \in Workers, CallFails(w) \/ ClaimReplyLost(w) \/ InsertFails(w)
      PROVE  Calm
  BY <1>1, <1>3, <1>6 DEF CallFails, ClaimReplyLost, InsertFails, Rows, Working, TypeOK
<1>7. ASSUME UNCHANGED vars \/ Tick \/ \E job \in raised : ClearRunLinks(job)
      PROVE  Calm
  BY <1>1, <1>3, <1>7 DEF Tick, ClearRunLinks, Rows, Working
<1>8. ASSUME NEW w \in Workers, NEW u \in Units, NEW s \in Schedules, NEW d \in Dates,
             EnsureInsert(w, u, s, d)
      PROVE  OnTimeRest'
  <2>1. \A t \in Schedules \ {s} : stored'[t] = stored[t] /\ next_due'[t] = next_due[t]
    BY <1>1, <1>8 DEF EnsureInsert, TypeOK
  <2>2. stored'[s] # "unused"
    BY <1>1, <1>8 DEF EnsureInsert, TypeOK
  <2> QED
    BY <1>1, <1>8, <2>1, <2>2, LifeStep DEF EnsureInsert
<1>9. ASSUME NEW s \in Schedules, NEW d \in Dates, CreateSchedule(s, d)
      PROVE  OnTimeRest'
  <2>1. \A t \in Schedules \ {s} : stored'[t] = stored[t] /\ next_due'[t] = next_due[t]
    BY <1>1, <1>9 DEF CreateSchedule, TypeOK
  <2>2. stored'[s] # "unused"
    BY <1>1, <1>9 DEF CreateSchedule, TypeOK
  <2> QED
    BY <1>1, <1>9, <2>1, <2>2, LifeStep DEF CreateSchedule
<1>10. ASSUME NEW s \in Schedules, DeleteSchedule(s)
       PROVE  OnTimeRest'
  <2>1. stored'[s] = "deleted" /\ \A t \in Schedules \ {s} : stored'[t] = stored[t]
    BY <1>1, <1>10 DEF DeleteSchedule, TypeOK
  <2> QED
    BY <1>1, <1>10, <2>1, LifeStep DEF DeleteSchedule
<1>11. ASSUME NEW s \in Schedules, NEW d \in Dates, NEW on \in BOOLEAN
       PROVE  ~UpdateSchedule(s, d, on)
  BY <1>1 DEF UpdateSchedule, TypeOK
<1>12. ASSUME NEW w \in Workers PROVE ~InsertReplyLost(w)
  BY DEF InsertReplyLost, Fault
<1>13. OnTimeRest'
  BY <1>1, <1>2, <1>4, <1>5, <1>6, <1>7, <1>8, <1>9, <1>10, <1>11, <1>12,
     LoadStep, ClaimOnTime, PickStep, InsertOnTime, AdvanceOnTime
  DEF Next, Step, Failure, Manage
<1> QED
  BY <1>1, <1>13 DEF OnTimeInv

\* Each step of the code is a step of the register it keeps, or none.
LEMMA StepImplements ==
    ASSUME "insert_reply" \notin FaultKinds, MaxPatches = 0, OnTimeInv, [Next]_vars
    PROVE  [Register!DueNext]_(Register!register)
<1>1. TypeOK /\ ClaimRest /\ OnTimeRest
  BY DEF OnTimeInv, ClaimInv, ClaimRest
<1>. DEFINE Still == stored' = stored /\ next_due' = next_due /\ raised' = raised
<1>2. Still => UNCHANGED Register!register
  BY DEF Register!register
<1>3. ASSUME NEW s \in Schedules, NEW d \in Dates,
             stored[s] = "unused", stored' = [stored EXCEPT ![s] = "live"],
             next_due' = [next_due EXCEPT ![s] = d], raised' = raised
      PROVE  Register!DueNext
  BY <1>3 DEF Register!DueNext, Register!Enter, Dates
<1>4. ASSUME NEW s \in Schedules, DeleteSchedule(s) PROVE Register!DueNext
  BY <1>4 DEF DeleteSchedule, Register!DueNext, Register!Withdraw
<1>5. ASSUME NEW w \in Workers, InsertWorkOrder(w) PROVE Register!DueNext
  <2>. DEFINE s == cur[w].id
  <2>1. /\ s \in Schedules /\ IsLive(s) /\ next_due[s] = cur[w].due
        /\ next_due[s] # FarFuture /\ Holding(w)
    BY <1>1, <1>5 DEF InsertWorkOrder, OnTimeRest, WorkersAreOnTime, NeverFarFuture, Working,
                      Holding, TypeOK, Row
  <2>2. ~Register!Raised(s)
    BY <1>1, <2>1 DEF Register!Raised, ClaimRest, HolderKeepsRun
  <2>3. NewJob(w).schedule = s /\ NewJob(w).due = cur[w].due
    BY DEF NewJob
  <2>4. Register!Raise(s)
    BY <1>5, <2>1, <2>2, <2>3 DEF InsertWorkOrder, Register!Raise
  <2> QED
    BY <2>1, <2>4 DEF Register!DueNext
<1>6. ASSUME NEW w \in Workers, AdvanceSchedule(w) PROVE Register!DueNext \/ Still
  <2>. DEFINE s == cur[w].id
  <2>1. s \in Schedules /\ JobFor(cur[w]) /\ (IsLive(s) => next_due[s] = cur[w].due)
    BY <1>1, <1>6 DEF AdvanceSchedule, OnTimeRest, WorkersAreOnTime, Working, TypeOK, Row
  <2>2. CASE IsLive(s)
    <3>1. Register!Raised(s)
      BY <2>1, <2>2 DEF JobFor, Register!Raised
    <3>2. next_due' = [next_due EXCEPT ![s] = NextOccurrence[s][next_due[s]]]
      BY <1>6, <2>1, <2>2 DEF AdvanceSchedule
    <3>3. Register!MoveOn(s)
      BY <1>6, <2>2, <3>1, <3>2 DEF AdvanceSchedule, Register!MoveOn
    <3> QED
      BY <2>1, <3>3 DEF Register!DueNext
  <2>3. CASE ~IsLive(s)
    BY <1>1, <1>6, <2>3 DEF AdvanceSchedule, TypeOK
  <2> QED
    BY <2>2, <2>3
<1>7. ASSUME NEW w \in Workers, GenerateStart(w) \/ EnsureRead(w) \/ EnsureDone(w) \/ Finish(w)
                 \/ (\E row \in batch[w] : Pick(w, row))
      PROVE  Still
  BY <1>7 DEF GenerateStart, EnsureRead, EnsureDone, Finish, Pick
<1>8. ASSUME NEW w \in Workers, ClaimRun(w) \/ InsertRefused(w) \/ ReleaseClaim(w) \/ LinkRun(w)
                 \/ CallFails(w) \/ InsertFails(w) \/ Crash(w) \/ PrepareWorkOrder(w) \/ ClaimReplyLost(w)
      PROVE  Still
  BY <1>8 DEF ClaimRun, PrepareWorkOrder, ClaimReplyLost, InsertRefused, ReleaseClaim, LinkRun, CallFails, InsertFails, Crash
<1>9. ASSUME UNCHANGED vars \/ Tick \/ \E job \in raised : ClearRunLinks(job)
      PROVE  Still
  BY <1>9 DEF Tick, ClearRunLinks
<1>10. ASSUME NEW s \in Schedules, NEW d \in Dates, NEW on \in BOOLEAN
       PROVE  ~UpdateSchedule(s, d, on)
  BY <1>1 DEF UpdateSchedule, TypeOK
<1>11. ASSUME NEW w \in Workers PROVE ~InsertReplyLost(w)
  BY DEF InsertReplyLost, Fault
<1>12. ASSUME NEW w \in Workers, NEW u \in Units, NEW s \in Schedules, NEW d \in Dates,
              EnsureInsert(w, u, s, d)
       PROVE  Register!DueNext
  BY <1>3, <1>12 DEF EnsureInsert
<1>13. ASSUME NEW s \in Schedules, NEW d \in Dates, CreateSchedule(s, d)
       PROVE  Register!DueNext
  BY <1>3, <1>13 DEF CreateSchedule
<1> QED
  BY <1>2, <1>4, <1>5, <1>6, <1>7, <1>8, <1>9, <1>10, <1>11, <1>12, <1>13
  DEF Next, Step, Failure, Manage

(* Schedule generation implements the register it promises, for any number of
   workers, schedules and faults, as long as no reply of the insert is lost and
   no date is patched: one job for each due date, raised when the schedule is at
   it, and no date left without its job. *)
THEOREM Implements ==
    ASSUME "insert_reply" \notin FaultKinds, MaxPatches = 0
    PROVE  Spec => ImplementsDueRegister
<1>1. Init => OnTimeInv
  <2>1. Init => ClaimInv
    BY TypeInit DEF Init, ClaimInv, OneJobPerDueDate, JobKeepsRun, HolderKeepsRun,
                    OneHolder, Holding
  <2>2. Init => OnTimeRest
    BY DEF Init, OnTimeRest, RowsAreKnown, WorkersAreOnTime, NeverFarFuture, OneWorker,
           Rows, Working
  <2> QED
    BY <2>1, <2>2 DEF OnTimeInv
<1>2. OnTimeInv /\ [Next]_vars => OnTimeInv'
  BY OnTimeNext
<1>3. Init => Register!DueInit
  BY DEF Init, Register!DueInit
<1>4. OnTimeInv /\ [Next]_vars => [Register!DueNext]_(Register!register)
  BY StepImplements
<1> QED
  BY <1>1, <1>2, <1>3, <1>4, PTL DEF Spec, ImplementsDueRegister, Register!DueSpec

-----------------------------------------------------------------------------
(* One routine for each unit, by runs that follow one another. *)

\* A row not yet given out marks nothing, and a run that inserts found nothing.
UnusedIsUnmarked == \A s \in Schedules : stored[s] = "unused" => marker[s] = NoUnit
MissingIsMissing == \A w \in Workers : pc[w] = "ensure" => \A u \in missing[w] : ~HasRoutine(u)
RoutineInv == UnusedIsUnmarked /\ MissingIsMissing /\ OneRoutinePerUnit

\* Steps that mark nothing, and leave an insertion where it is.
LEMMA MarksNothing ==
    ASSUME TypeOK, RoutineInv, marker' = marker,
           \A s \in Schedules : (stored'[s] = "live" => stored[s] = "live" \/ marker[s] = NoUnit)
                                /\ (stored'[s] = "unused" => stored[s] = "unused"),
           \A w \in Workers : pc'[w] = "ensure" => pc[w] = "ensure" /\ missing'[w] = missing[w]
    PROVE  RoutineInv'
<1> USE DEF TypeOK, RoutineInv
<1>1. UnusedIsUnmarked'
  BY DEF UnusedIsUnmarked
<1>2. \A s \in Schedules : IsLive(s)' /\ marker[s] # NoUnit => IsLive(s)
  OBVIOUS
<1>3. MissingIsMissing'
  BY <1>2, UnitAssumption DEF MissingIsMissing, HasRoutine
<1>4. OneRoutinePerUnit'
  BY <1>2 DEF OneRoutinePerUnit
<1> QED BY <1>1, <1>3, <1>4

LEMMA RoutineNext ==
    ASSUME \A v, w \in Workers : v = w, TypeOK, RoutineInv, [Next]_vars
    PROVE  RoutineInv'
<1> USE DEF TypeOK
<1>1. ASSUME NEW w \in Workers, EnsureRead(w) PROVE RoutineInv'
  <2>1. MissingIsMissing'
    BY <1>1 DEF EnsureRead, MissingIsMissing, HasRoutine
  <2> QED BY <1>1, <2>1 DEF EnsureRead, RoutineInv, UnusedIsUnmarked, OneRoutinePerUnit
<1>2. ASSUME NEW w \in Workers, NEW u \in Units, NEW s \in Schedules, NEW d \in Dates, EnsureInsert(w, u, s, d)
      PROVE  RoutineInv'
  <2>1. /\ stored' = [stored EXCEPT ![s] = "live"] /\ marker' = [marker EXCEPT ![s] = u]
        /\ missing' = [missing EXCEPT ![w] = @ \ {u}] /\ pc' = pc
        /\ u \in missing[w] /\ pc[w] = "ensure" /\ stored[s] = "unused"
    BY <1>2 DEF EnsureInsert
  <2>2. \A t \in Schedules : IsLive(t) => marker[t] # u
    BY <2>1 DEF RoutineInv, MissingIsMissing, HasRoutine
  <2>3. UnusedIsUnmarked'
    BY <2>1 DEF RoutineInv, UnusedIsUnmarked
  <2>4. MissingIsMissing'
    BY <2>1 DEF RoutineInv, MissingIsMissing, HasRoutine
  <2>5. OneRoutinePerUnit'
    BY <2>1, <2>2 DEF RoutineInv, OneRoutinePerUnit
  <2> QED BY <2>3, <2>4, <2>5 DEF RoutineInv
<1>3. ASSUME NEW w \in Workers,
             GenerateStart(w) \/ EnsureDone(w) \/ (\E r \in batch[w] : Pick(w, r)) \/ Finish(w) \/ ClaimRun(w)
      PROVE  RoutineInv'
  BY <1>3, MarksNothing DEF GenerateStart, EnsureDone, Pick, Finish, ClaimRun
<1>4. ASSUME NEW w \in Workers,
             PrepareWorkOrder(w) \/ InsertWorkOrder(w) \/ InsertRefused(w) \/ ReleaseClaim(w) \/ LinkRun(w)
                \/ AdvanceSchedule(w)
      PROVE  RoutineInv'
  BY <1>4, MarksNothing DEF PrepareWorkOrder, InsertWorkOrder, InsertRefused, ReleaseClaim, LinkRun, AdvanceSchedule
<1>5. ASSUME NEW w \in Workers, Failure(w) PROVE RoutineInv'
  BY <1>5, MarksNothing DEF Failure, CallFails, ClaimReplyLost, InsertFails, InsertReplyLost, Crash
<1>6. ASSUME NEW s \in Schedules, NEW d \in Dates, CreateSchedule(s, d) PROVE RoutineInv'
  <2>1. stored[s] = "unused" /\ marker[s] = NoUnit /\ stored' = [stored EXCEPT ![s] = "live"]
    BY <1>6 DEF CreateSchedule, RoutineInv, UnusedIsUnmarked
  <2> QED BY <1>6, <2>1, MarksNothing DEF CreateSchedule
<1>7. ASSUME NEW s \in Schedules, DeleteSchedule(s) PROVE RoutineInv'
  BY <1>7, MarksNothing DEF DeleteSchedule
<1>8. CASE (\E s \in Schedules, d \in Dates, on \in BOOLEAN : UpdateSchedule(s, d, on))
           \/ (\E job \in raised : ClearRunLinks(job)) \/ Tick \/ UNCHANGED vars
  BY <1>8, MarksNothing DEF UpdateSchedule, ClearRunLinks, Tick
<1> QED BY <1>1, <1>2, <1>3, <1>4, <1>5, <1>6, <1>7, <1>8 DEF Next, Step, Manage

(* As long as one run ends before another begins, no unit gets two weekly
   routines, whatever fails in a run and whatever managers do beside it. *)
THEOREM OneRoutine ==
    ASSUME \A v, w \in Workers : v = w
    PROVE  Spec => []OneRoutinePerUnit
<1>1. Init => RoutineInv
  BY DEF Init, RoutineInv, UnusedIsUnmarked, MissingIsMissing, OneRoutinePerUnit
<1>2. TypeOK /\ RoutineInv /\ [Next]_vars => RoutineInv'
  BY RoutineNext
<1>3. RoutineInv => OneRoutinePerUnit
  BY DEF RoutineInv
<1> QED
  BY <1>1, <1>2, <1>3, TypeCorrect, PTL DEF Spec
=============================================================================
