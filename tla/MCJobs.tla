------------------------------- MODULE MCJobs -------------------------------
(* Small instances of how jobs come about and are worked: a behaviour is one of the *)
(* generation of due work orders, the edits of one job, the breakdowns of jobs, or   *)
(* the plan of the quarterly inspections.                                             *)
EXTENDS MCScheduleGeneration, WorkOrders, BreakdownLinks, InspectionPlan

VARIABLE focus

\* Two tools in two places, from the last day of a window into the next one.
MCPlace(t) == IF t = 1 THEN 2 ELSE 1
MCFirstDay == [q |-> 1, d |-> 2]
MCLastDay == [q |-> 2, d |-> 1]

JobsInit ==
    /\ focus \in {"generation", "order", "breakdowns", "plan"}
    /\ Init /\ OrdersInit /\ LinksInit /\ PlanInit({1})

JobsNext ==
    /\ UNCHANGED focus
    /\ \/ focus = "generation" /\ Next /\ UNCHANGED <<order_vars, link_vars, plan_vars>>
       \/ focus = "order" /\ OrdersNext /\ UNCHANGED <<vars, link_vars, plan_vars>>
       \/ focus = "breakdowns" /\ LinksNext /\ UNCHANGED <<vars, order_vars, plan_vars>>
       \/ focus = "plan" /\ PlanNext /\ UNCHANGED <<vars, order_vars, link_vars>>

JobsSpec == JobsInit /\ [][JobsNext]_<<focus, vars, order_vars, link_vars, plan_vars>>

\* Executions of the generation are alike, and so are the requests over breakdowns.
JobsSymmetry == WorkerSymmetry \cup Permutations(Procs)
=============================================================================
