----------------------------- MODULE DueRegister -----------------------------
(***************************************************************************)
(* What schedule generation promises: each schedule is worked off one due  *)
(* date after the other, and every one of them gives exactly one job before *)
(* the schedule moves on.  No runs, claims, workers or failures.           *)
(***************************************************************************)
EXTENDS Integers

CONSTANTS
    Schedules,      \* ids a schedule may have
    FarFuture,      \* the due date that never comes
    NextOccurrence  \* next_occurrence(s, d)

VARIABLES
    state,  \* of each schedule: unused, live or deleted
    due,    \* its due date
    jobs    \* every job ever raised

register == <<state, due, jobs>>

Raised(s) == \E job \in jobs : job.schedule = s /\ job.due = due[s]

DueInit ==
    /\ state = [s \in Schedules |-> "unused"]
    /\ due = [s \in Schedules |-> 0]
    /\ jobs = {}

Enter(s) ==
    /\ state[s] = "unused"
    /\ state' = [state EXCEPT ![s] = "live"]
    /\ \E d \in 0 .. FarFuture : due' = [due EXCEPT ![s] = d]
    /\ UNCHANGED jobs

Withdraw(s) ==
    /\ state[s] = "live"
    /\ state' = [state EXCEPT ![s] = "deleted"]
    /\ UNCHANGED <<due, jobs>>

\* The one job of the present due date.
Raise(s) ==
    /\ state[s] = "live"
    /\ due[s] # FarFuture
    /\ ~Raised(s)
    /\ \E job \in jobs' : job.schedule = s /\ job.due = due[s] /\ jobs' = jobs \cup {job}
    /\ UNCHANGED <<state, due>>

\* Never before its job.
MoveOn(s) ==
    /\ state[s] = "live"
    /\ Raised(s)
    /\ due' = [due EXCEPT ![s] = NextOccurrence[s][@]]
    /\ UNCHANGED <<state, jobs>>

DueNext == \E s \in Schedules : Enter(s) \/ Withdraw(s) \/ Raise(s) \/ MoveOn(s)

DueSpec == DueInit /\ [][DueNext]_register
=============================================================================
