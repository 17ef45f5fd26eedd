---------------------------- MODULE MonthSheets ----------------------------
(***************************************************************************)
(* The monthly sheets of the artisans                                      *)
(* (src/app/routers/artisan_timesheets.py): "nobody works on a leave day". *)
(* A save reads the approved leave of the person and month it is for, and  *)
(* then writes the columns it was sent; a save without days reads no       *)
(* leave.  The date of a row is free text: one of another month is stored  *)
(* too, and no leave is looked up for it.  A form that is out of date is   *)
(* refused, and leaves no trace.                                           *)
(***************************************************************************)
EXTENDS Naturals, FiniteSets

CONSTANTS
    Workers,
    Dates, MonthOf(_),   \* days and their months
    MonthIds,            \* ids the table may give out
    Foremen,             \* requests
    NoMonth,
    MaxMonthCalls, MaxApprovals   \* bounds: requests; leave approved or withdrawn

ASSUME MonthAssumption == NoMonth \notin MonthIds /\ Dates \subseteq Nat

VARIABLES
    month_sheets,   \* per id: whose it is, the month and the days with a trace of work (of any month), or NoMonth
    approved,       \* approved leave: <<worker, day>>
    foreman,        \* per request
    late,           \* history: <<id, day>> of work stored before the leave, or read before it
    unread,         \* history: sheets whose person or month came without the days
    month_calls, leave_decisions

month_vars == <<month_sheets, approved, foreman, late, unread, month_calls, leave_decisions>>
Months == {MonthOf(d) : d \in Dates}
DaysOf(m) == {d \in Dates : MonthOf(d) = m}
NotHere == [pc |-> "nothere"]
MonthRows == [who : Workers, month : Months, worked : SUBSET Dates]

MonthsTypeOK ==
    /\ \A s \in MonthIds : month_sheets[s] \in MonthRows \cup {NoMonth}
    /\ approved \subseteq Workers \X Dates /\ late \subseteq MonthIds \X Dates /\ unread \subseteq MonthIds
    /\ \A f \in Foremen : foreman[f].pc \in {"nothere", "leave", "insert", "update"}

MonthsInit(sheets) ==
    /\ month_sheets = sheets /\ approved = {} /\ foreman = [f \in Foremen |-> NotHere]
    /\ late = {} /\ unread = {} /\ month_calls = 0 /\ leave_decisions = 0

Kept == {s \in MonthIds : month_sheets[s] # NoMonth}
TheSheet(who, m) == {s \in Kept : month_sheets[s].who = who /\ month_sheets[s].month = m}
_approved_leave_dates(who, m) == {d \in DaysOf(m) : <<who, d>> \in approved}
_leave_violations(worked, leave) == worked \cap leave

-----------------------------------------------------------------------------
Foreman(f, next) == foreman' = [foreman EXCEPT ![f] = next]
MayCall(f) == foreman[f] = NotHere /\ month_calls < MaxMonthCalls /\ month_calls' = month_calls + 1

\* One sheet for a person and a month: a second one is refused.
create_artisan_timesheet(f, who, m, worked) ==
    /\ MayCall(f) /\ TheSheet(who, m) = {}
    /\ Foreman(f, [pc |-> "leave", id |-> NoMonth, who |-> who, month |-> m, leave |-> {},
                   data |-> [who |-> who, month |-> m, worked |-> worked]])
    /\ UNCHANGED <<month_sheets, approved, late, unread, leave_decisions>>

\* The columns that were sent over the row as it was read.
Over_row(row, data) == [c \in DOMAIN row |-> IF c \in DOMAIN data THEN data[c] ELSE row[c]]
update_artisan_timesheet(f, s, data) ==
    LET row == Over_row(month_sheets[s], data) IN
    /\ MayCall(f) /\ s \in Kept
    /\ Foreman(f, [pc |-> IF "worked" \in DOMAIN data THEN "leave" ELSE "update", id |-> s,
                   who |-> row.who, month |-> row.month, leave |-> {}, data |-> data])
    /\ UNCHANGED <<month_sheets, approved, late, unread, leave_decisions>>
_reject_work_on_leave(f) ==
    LET leave == _approved_leave_dates(foreman[f].who, foreman[f].month)
    IN  /\ foreman[f].pc = "leave"
        /\ IF _leave_violations(foreman[f].data.worked, leave) # {} THEN Foreman(f, NotHere)
           ELSE Foreman(f, [foreman[f] EXCEPT !.pc = IF foreman[f].id = NoMonth THEN "insert" ELSE "update", !.leave = leave])
        /\ UNCHANGED <<month_sheets, approved, late, unread, month_calls, leave_decisions>>

\* Leave in the month of the sheet, approved since it was read.
Since(f, s, row) ==
    {<<s, d>> : d \in {x \in row.worked \cap DaysOf(row.month) : <<row.who, x>> \in approved /\ x \notin foreman[f].leave}}
Stores(f, s, row) ==
    LET sent == "worked" \in DOMAIN foreman[f].data
        checked == row.who = foreman[f].who /\ row.month = foreman[f].month
        moved == s \notin Kept \/ month_sheets[s].who # row.who \/ month_sheets[s].month # row.month
    IN  /\ month_sheets' = [month_sheets EXCEPT ![s] = row]
        /\ late' = IF sent THEN {p \in late : p[1] # s} \cup Since(f, s, row) ELSE late
        /\ unread' = IF sent /\ checked THEN unread \ {s}
                     ELSE IF sent \/ moved THEN unread \cup {s} ELSE unread

\* The table has one row for a person and a month.
InsertMonth(f, s) ==
    /\ foreman[f].pc = "insert" /\ s \notin Kept /\ Foreman(f, NotHere)
    /\ IF TheSheet(foreman[f].who, foreman[f].month) = {} THEN Stores(f, s, foreman[f].data)
       ELSE UNCHANGED <<month_sheets, late, unread>>
    /\ UNCHANGED <<approved, month_calls, leave_decisions>>
UpdateMonth(f) ==
    LET s == foreman[f].id
        row == IF s \in Kept THEN Over_row(month_sheets[s], foreman[f].data) ELSE NoMonth
    IN  /\ foreman[f].pc = "update" /\ Foreman(f, NotHere)
        /\ IF s \in Kept /\ TheSheet(row.who, row.month) \subseteq {s} THEN Stores(f, s, row)
           ELSE UNCHANGED <<month_sheets, late, unread>>
        /\ UNCHANGED <<approved, month_calls, leave_decisions>>
delete_artisan_timesheet(f, s) ==
    /\ MayCall(f) /\ s \in Kept /\ month_sheets' = [month_sheets EXCEPT ![s] = NoMonth]
    /\ late' = {p \in late : p[1] # s} /\ unread' = unread \ {s}
    /\ UNCHANGED <<approved, foreman, leave_decisions>>

\* The leave register: a request is approved, or withdrawn.
Approval(who, d) ==
    /\ leave_decisions < MaxApprovals /\ leave_decisions' = leave_decisions + 1
    /\ \/ /\ <<who, d>> \notin approved /\ approved' = approved \cup {<<who, d>>}
          /\ late' = late \cup {<<s, d>> : s \in {x \in Kept : month_sheets[x].who = who /\ d \in month_sheets[x].worked}}
       \/ /\ <<who, d>> \in approved /\ approved' = approved \ {<<who, d>>} /\ UNCHANGED late
    /\ UNCHANGED <<month_sheets, foreman, unread, month_calls>>

Sent == [worked : SUBSET Dates] \cup [who : Workers] \cup [month : Months] \cup [who : Workers, worked : SUBSET Dates]
MonthsNext ==
    \/ \E f \in Foremen :
          \/ _reject_work_on_leave(f) \/ UpdateMonth(f)
          \/ \E who \in Workers, m \in Months, worked \in SUBSET Dates : create_artisan_timesheet(f, who, m, worked)
          \/ \E s \in MonthIds : InsertMonth(f, s) \/ delete_artisan_timesheet(f, s)
                                 \/ \E data \in Sent : update_artisan_timesheet(f, s, data)
    \/ \E who \in Workers, d \in Dates : Approval(who, d)

\* On its own, from any sheets.
MonthsBegin == \E sheets \in [MonthIds -> MonthRows \cup {NoMonth}] : MonthsInit(sheets)
MonthsSpec == MonthsBegin /\ [][MonthsNext]_month_vars

-----------------------------------------------------------------------------
\* "Nobody works on a leave day": a stored sheet has work on a day of its own month that is approved leave only
\* when the leave was approved after the save had read the register, or the sheet was given
\* to that person or month by a save that did not send its days, or crossed one that did.
NobodyWorksOnLeave ==
    \A s \in Kept \ unread : \A d \in month_sheets[s].worked \cap DaysOf(month_sheets[s].month) :
        <<month_sheets[s].who, d>> \in approved => <<s, d>> \in late
=============================================================================
