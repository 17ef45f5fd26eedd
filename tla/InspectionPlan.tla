--------------------------- MODULE InspectionPlan ---------------------------
(***************************************************************************)
(* The quarterly inspection plan of the tools                              *)
(* (src/app/routers/tools_workspace.py): the plan of a quarter is made by  *)
(* whoever reads it first, one row at a time, and filled in by every later *)
(* reader as tools arrive; a plan first wanted after the window of its     *)
(* quarter starts with the next one.  Reading the list of tools reads the  *)
(* plan, and so does recording a quarterly inspection, for its next date.  *)
(* A day is the place of a working day in the window of its quarter.       *)
(***************************************************************************)
EXTENDS Naturals, Sequences, FiniteSets, SequencesExt

CONSTANTS
    PlanTools,       \* register numbers, in their order
    Place(_),        \* where a tool is kept; places are numbered by name
    WindowDays,      \* working days in the window of a quarter
    FirstDay, LastDay,   \* bounds: the days gone through; the plan reaches one quarter further
    Readers,         \* requests
    MaxPlanCalls, MaxPlanFaults, MaxArrivals   \* bounds: requests; calls that fail; tools in or out of use

ASSUME PlanAssumption == WindowDays \in Nat \ {0} /\ LastDay.q \in Nat \ {0} /\ PlanTools \subseteq Nat

VARIABLES
    now,         \* the day: its quarter, and its place, WindowDays + 1 after the window
    required,    \* the tools in use that have quarterly inspections
    plan,        \* tools_workspace_inspection_plan: the day of each tool and quarter, 0 for none
    completed,   \* the rows that carry an inspection
    passed,      \* the quarterly inspections passed: <<tool, quarter>>
    due_next,    \* the last quarterly inspection of a tool: its next date, <<0, 0>> for none
    reader,      \* per request
    promised,    \* history: <<tool, quarter, late>> of the generations nothing cut short
    plan_calls, plan_faults, arrivals

plan_vars == <<now, required, plan, completed, passed, due_next, reader, promised, plan_calls, plan_faults, arrivals>>
Quarters == 1 .. LastDay.q + 1
Window == 1 .. WindowDays
Absent == [pc |-> "absent"]
NotAfter(a, b) == a.q < b.q \/ (a.q = b.q /\ a.d <= b.d)

PlanTypeOK ==
    /\ now \in [q : Quarters, d : 1 .. WindowDays + 1] /\ required \subseteq PlanTools
    /\ plan \in [PlanTools -> [Quarters -> 0 .. WindowDays]]
    /\ completed \subseteq PlanTools \X Quarters /\ passed \subseteq PlanTools \X Quarters
    /\ \A r \in Readers : reader[r].pc \in {"absent", "plan", "tools", "insert", "reread", "answer", "told", "complete"}

PlanInit(tools_at_first) ==
    /\ now = FirstDay /\ required = tools_at_first
    /\ plan = [t \in PlanTools |-> [q \in Quarters |-> 0]]
    /\ completed = {} /\ passed = {} /\ promised = {}
    /\ due_next = [t \in PlanTools |-> [q |-> 0, d |-> 0]]
    /\ reader = [r \in Readers |-> Absent] /\ plan_calls = 0 /\ plan_faults = 0 /\ arrivals = 0

Reads(r, next) == reader' = [reader EXCEPT ![r] = next]
Rows(q) == [t \in {x \in PlanTools : plan[x][q] # 0} |-> plan[t][q]]

-----------------------------------------------------------------------------
(* Generation. *)

\* The whole window is over.
_quarter_window_over(q, at) == at.q > q \/ (at.q = q /\ at.d > WindowDays)

\* A mutant: the later writer's date stands.
OverwriteRow(t, q, d) == [plan EXCEPT ![t][q] = d]

\* An upsert that leaves the row of a tool and quarter that is there.
_insert_plan_row(t, q, d) == [plan EXCEPT ![t][q] = IF @ = 0 THEN d ELSE @]

\* The least loaded of the days to come, the first of them; 0 when there is none.
_next_free_plan_day(found, q, at) ==
    LET open == {d \in Window : at.q < q \/ (at.q = q /\ d >= at.d)}
        load(d) == Cardinality({t \in DOMAIN found : found[t] = d})
    IN  IF open = {} THEN 0
        ELSE CHOOSE d \in open : \A o \in open : load(d) < load(o) \/ (load(d) = load(o) /\ d <= o)

\* The first plan: place by place, the fullest first, each on the day with the fewest so far.
FirstPlan(missing) ==
    LET places == {Place(t) : t \in missing}
        at(p) == {t \in missing : Place(t) = p}
        order == SetToSortSeq(places, LAMBDA a, b : Cardinality(at(a)) > Cardinality(at(b))
                                                    \/ (Cardinality(at(a)) = Cardinality(at(b)) /\ a < b))
        least(load) == CHOOSE d \in Window : \A o \in Window : load[d] < load[o] \/ (load[d] = load[o] /\ d <= o)
        add(acc, p) ==
            LET d == least(acc.load)
            IN  [load |-> [acc.load EXCEPT ![d] = @ + Cardinality(at(p))],
                 list |-> acc.list \o [k \in 1 .. Cardinality(at(p)) |->
                                          [tool |-> SetToSortSeq(at(p), <)[k], day |-> d]]]
    IN  FoldLeft(add, [load |-> [d \in Window |-> 0], list |-> <<>>], order).list

Starts_reading(r, q, use) ==
    /\ reader[r].pc \in {"absent", "told"} /\ plan_calls < MaxPlanCalls /\ plan_calls' = plan_calls + 1
    /\ Reads(r, [pc |-> "plan", q |-> q, at |-> now, use |-> use, found |-> <<>>, left |-> <<>>, first |-> FALSE,
                 late |-> FALSE, saw |-> {}, whole |-> FALSE, due |-> {}, had |-> IF use.kind = "list" THEN passed ELSE {}])

\* The rows of the quarter; none, and too late to start: the next quarter instead.
ReadPlan(r) ==
    /\ reader[r].pc = "plan"
    /\ LET found == Rows(reader[r].q)
       IN  IF DOMAIN found = {} /\ _quarter_window_over(reader[r].q, reader[r].at)
           THEN Reads(r, [reader[r] EXCEPT !.q = @ + 1, !.late = TRUE])
           ELSE Reads(r, [reader[r] EXCEPT !.pc = "tools", !.found = found])
    /\ UNCHANGED <<now, required, plan, completed, passed, due_next, promised, plan_calls, plan_faults, arrivals>>

\* A quarter that is put off has no rows for its caller.
Returned(r, found) == IF reader[r].late THEN <<>> ELSE found

_ensure_quarter_plan_rows(r) ==
    /\ reader[r].pc = "tools"
    /\ LET missing == required \ DOMAIN reader[r].found
           first == DOMAIN reader[r].found = {}
       IN  IF missing = {}
           THEN Reads(r, [reader[r] EXCEPT !.pc = "answer", !.found = Returned(r, @), !.saw = required, !.whole = TRUE])
           ELSE Reads(r, [reader[r] EXCEPT
                    !.pc = "insert", !.saw = required, !.first = first,
                    !.left = IF first THEN FirstPlan(missing)
                             ELSE [k \in 1 .. Cardinality(missing) |-> [tool |-> SetToSortSeq(missing, <)[k], day |-> 0]]])
    /\ UNCHANGED <<now, required, plan, completed, passed, due_next, promised, plan_calls, plan_faults, arrivals>>

\* One row; a tool that finds no day left goes to the first day of the next quarter.
InsertRow(r) ==
    /\ reader[r].pc = "insert" /\ reader[r].left # <<>>
    /\ LET row == Head(reader[r].left)
           q == reader[r].q
           day == IF reader[r].first THEN row.day ELSE _next_free_plan_day(reader[r].found, q, reader[r].at)
       IN  /\ plan' = IF day = 0 THEN _insert_plan_row(row.tool, q + 1, 1) ELSE _insert_plan_row(row.tool, q, day)
           /\ Reads(r, [reader[r] EXCEPT
                  !.left = Tail(@),
                  !.found = IF day = 0 THEN @ ELSE [t \in DOMAIN @ \cup {row.tool} |->
                                                       IF t = row.tool THEN plan'[t][q] ELSE @[t]]])
    /\ UNCHANGED <<now, required, completed, passed, due_next, promised, plan_calls, plan_faults, arrivals>>

\* The table is the truth.
ReRead(r) ==
    /\ reader[r].pc = "insert" /\ reader[r].left = <<>>
    /\ Reads(r, [reader[r] EXCEPT !.pc = "answer", !.found = Returned(r, Rows(reader[r].q)), !.whole = TRUE])
    /\ promised' = promised \cup {<<t, reader[r].q, _quarter_window_over(reader[r].q, reader[r].at)>> : t \in reader[r].saw}
    /\ UNCHANGED <<now, required, plan, completed, passed, due_next, plan_calls, plan_faults, arrivals>>

\* A call that fails leaves the rows made so far, and no plan to the caller.
GenerationFails(r) ==
    /\ reader[r].pc \in {"plan", "tools", "insert"} /\ plan_faults < MaxPlanFaults
    /\ plan_faults' = plan_faults + 1
    /\ Reads(r, [reader[r] EXCEPT !.pc = "answer", !.found = <<>>, !.late = FALSE])
    /\ UNCHANGED <<now, required, plan, completed, passed, due_next, promised, plan_calls, arrivals>>

-----------------------------------------------------------------------------
(* What is due, and inspections. *)
list_tools(r) ==
    /\ Starts_reading(r, now.q, [kind |-> "list"])
    /\ UNCHANGED <<now, required, plan, completed, passed, due_next, promised, plan_faults, arrivals>>

_quarterly_passed(t, q) == <<t, q>> \in passed

_quarterly_due(r, t) ==
    LET at == reader[r].at
        found == reader[r].found
    IN  /\ ~_quarterly_passed(t, at.q)
        /\ IF t \in DOMAIN found THEN found[t] <= at.d
           ELSE ~reader[r].late /\ NotAfter(due_next[t], at)

TellDue(r) ==
    /\ reader[r].pc = "answer" /\ reader[r].use.kind = "list"
    /\ Reads(r, [reader[r] EXCEPT !.pc = "told", !.saw = @ \cap required,
                                     !.due = {t \in required : _quarterly_due(r, t)}])
    /\ UNCHANGED <<now, required, plan, completed, passed, due_next, promised, plan_calls, plan_faults, arrivals>>

\* An inspection of this quarter or, entered late, of the one before; the plan it reads
\* is the one of the quarter that follows it.
record_quarterly(r, t, q, outcome) ==
    /\ q \in {now.q, now.q - 1} \ {0}
    /\ Starts_reading(r, q + 1, [kind |-> "inspect", tool |-> t, q |-> q, outcome |-> outcome])
    /\ UNCHANGED <<now, required, plan, completed, passed, due_next, promised, plan_faults, arrivals>>

\* The planned day of the next quarter, or ninety days on.
_default_next_due(r, t, q) ==
    [q |-> q + 1, d |-> IF t \in DOMAIN reader[r].found THEN reader[r].found[t] ELSE reader[r].at.d]

InsertInspection(r) ==
    /\ reader[r].pc = "answer" /\ reader[r].use.kind = "inspect"
    /\ LET use == reader[r].use
           ok == use.outcome = "passed"
       IN  /\ passed' = IF ok THEN passed \cup {<<use.tool, use.q>>} ELSE passed
           /\ due_next' = [due_next EXCEPT ![use.tool] = IF ok THEN _default_next_due(r, use.tool, use.q) ELSE [q |-> 0, d |-> 0]]
           /\ Reads(r, IF ok THEN [reader[r] EXCEPT !.pc = "complete"] ELSE Absent)
    /\ UNCHANGED <<now, required, plan, completed, promised, plan_calls, plan_faults, arrivals>>

\* The row of the quarter the inspection was made in, when there is one; no error stops it.
_complete_plan_row(r) ==
    LET use == reader[r].use
    IN  IF plan[use.tool][use.q] # 0 THEN completed \cup {<<use.tool, use.q>>} ELSE completed

CompleteRow(r) ==
    /\ reader[r].pc = "complete" /\ Reads(r, Absent)
    /\ completed' = _complete_plan_row(r)
    /\ UNCHANGED <<now, required, plan, passed, due_next, promised, plan_calls, plan_faults, arrivals>>

InspectionFails(r) ==
    /\ \/ reader[r].pc = "answer" /\ reader[r].use.kind = "inspect"
       \/ reader[r].pc = "complete"
    /\ plan_faults < MaxPlanFaults /\ plan_faults' = plan_faults + 1 /\ Reads(r, Absent)
    /\ UNCHANGED <<now, required, plan, completed, passed, due_next, promised, plan_calls, arrivals>>

-----------------------------------------------------------------------------
\* Tools come and go; days pass.
RequiredAre(tools_now) ==
    /\ arrivals < MaxArrivals /\ arrivals' = arrivals + 1 /\ required' = tools_now
    /\ UNCHANGED <<now, plan, completed, passed, due_next, reader, promised, plan_calls, plan_faults>>
RequireTool(t) == t \notin required /\ RequiredAre(required \cup {t})
RetireTool(t) == t \in required /\ RequiredAre(required \ {t})
DayPasses ==
    /\ now' = IF now.d <= WindowDays THEN [now EXCEPT !.d = @ + 1] ELSE [q |-> now.q + 1, d |-> 1]
    /\ NotAfter(now', LastDay)
    /\ UNCHANGED <<required, plan, completed, passed, due_next, reader, promised, plan_calls, plan_faults, arrivals>>

PlanNext ==
    \/ DayPasses
    \/ \E t \in PlanTools : RequireTool(t) \/ RetireTool(t)
    \/ \E r \in Readers :
          \/ list_tools(r) \/ ReadPlan(r) \/ _ensure_quarter_plan_rows(r) \/ InsertRow(r) \/ ReRead(r)
          \/ GenerationFails(r) \/ TellDue(r) \/ InsertInspection(r) \/ CompleteRow(r) \/ InspectionFails(r)
          \/ \E t \in PlanTools, q \in 1 .. LastDay.q, o \in {"passed", "failed"} : record_quarterly(r, t, q, o)

-----------------------------------------------------------------------------
\* "Backfilled as tools arrive; existing rows never move": a row keeps its day; when a
\* generation nothing cut short is over, every tool it saw has a row, in the next
\* quarter only when the window had closed, whoever else was generating; a row is done only by a
\* pass of its own quarter; and a reader who got a plan reports as due no tool that had
\* passed when it began, and every tool whose day has come and that has not.
NobodyForgotten ==
    \A p \in promised : plan[p[1]][p[2]] # 0 \/ (p[3] /\ plan[p[1]][p[2] + 1] # 0)
DoneByAPass == completed \subseteq passed
DueIsTold ==
    \A r \in Readers : reader[r].pc = "told" =>
        /\ \A t \in reader[r].due : <<t, reader[r].at.q>> \notin reader[r].had
        /\ (reader[r].whole /\ ~reader[r].late) =>
              \A t \in reader[r].saw :
                  (plan[t][reader[r].at.q] \in 1 .. reader[r].at.d /\ ~_quarterly_passed(t, reader[r].at.q))
                      => t \in reader[r].due
PlanStands ==
    /\ [](PlanTypeOK /\ NobodyForgotten /\ DoneByAPass /\ DueIsTold)
    /\ [][\A t \in PlanTools, q \in Quarters : plan[t][q] # 0 => plan'[t][q] = plan[t][q]]_plan_vars
=============================================================================
