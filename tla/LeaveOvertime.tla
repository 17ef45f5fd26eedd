--------------------------- MODULE LeaveOvertime ---------------------------
(***************************************************************************)
(* The overtime register and the leave register of one person              *)
(* (src/app/routers/overtime.py and leaves.py), where no two live requests *)
(* may cover the same time, and take-as-leave, which pays approved         *)
(* overtime off with leave.  A handler reads, decides and writes in        *)
(* separate database calls: its first call is the step that starts it, and *)
(* every later call is a step of its own.  A refusal changes nothing.      *)
(***************************************************************************)
EXTENDS Integers, FiniteSets

CONSTANTS
    Requests,      \* requests that may run at once
    OvertimeIds, LeaveIds,   \* ids the two tables may give out
    Days,          \* the days requests are made for
    Times,         \* <<start, end>> clock times; <<>> for hours without times
    DayLength,     \* clock units of a day
    Null,          \* no row, no overtime
    Payouts,       \* the payout methods a form may send
    Statuses,      \* the statuses a PATCH may send
    Scenarios,     \* sets of handlers; a behaviour calls those of one set
    MaxRequests(_) \* bound: requests in all, of a scenario

ASSUME ValueAssumption ==
    /\ DayLength \in Nat \ {0} /\ Days \subseteq Int
    /\ Payouts \subseteq {"cash", "lieu"}
    /\ Times \subseteq ((0 .. DayLength) \X (0 .. DayLength)) \cup {<<>>}
    /\ Statuses \subseteq {"pending", "approved", "rejected", "paid", "cancelled"}
ASSUME IdAssumption ==
    OvertimeIds \cap LeaveIds = {} /\ Null \notin OvertimeIds \cup LeaveIds
ASSUME BoundAssumption == \A s \in Scenarios : MaxRequests(s) \in Nat

VARIABLES
    overtime,  \* per id: the row, or Null
    leaves,    \* per id: the row, or Null
    used,      \* ids given out
    req,       \* per request: Idle, or what it holds
    requests,
    handlers   \* the scenario

tables == <<overtime, leaves, used>>
leave_vars == <<tables, req, requests, handlers>>

AllStatuses == Statuses \cup {"pending", "approved", "rejected"}
OvertimeRows ==
    [day : Days, time : Times \cup {<<>>}, status : AllStatuses, payout : {"cash", "lieu"}]
LeaveRows ==
    [from : Days, to : Days, status : AllStatuses, overtime : OvertimeIds \cup {Null}]
ASSUME NullAssumption == Null \notin OvertimeRows \cup LeaveRows
Idle == [pc |-> "idle"]

LeaveTypeOK ==
    /\ \A o \in OvertimeIds : overtime[o] \in OvertimeRows \cup {Null}
    /\ \A l \in LeaveIds : leaves[l] \in LeaveRows \cup {Null}
    /\ \A l \in LeaveIds : leaves[l] # Null => leaves[l].from <= leaves[l].to
    /\ used = used \cap (OvertimeIds \cup LeaveIds)
    /\ {o \in OvertimeIds : overtime[o] # Null} \cup {l \in LeaveIds : leaves[l] # Null}
          \subseteq used
    /\ \A c \in Requests : req[c] = Idle \/
          /\ req[c].pc \in {"insert_overtime", "check_overtime", "write_overtime",
                            "delete_overtime", "check_bulk", "find_link", "check_lieu",
                            "insert_leave", "read_leave", "check_leave", "write_leave",
                            "delete_leave"}
          /\ req[c].manager \in BOOLEAN
          /\ req[c].todo \subseteq req[c].ids
          /\ req[c].unseen \subseteq used
    /\ requests \in 0 .. MaxRequests(handlers)

LeaveInit ==
    /\ overtime = [o \in OvertimeIds |-> Null]
    /\ leaves = [l \in LeaveIds |-> Null]
    /\ used = {}
    /\ req = [c \in Requests |-> Idle]
    /\ requests = 0
    /\ handlers \in Scenarios

-----------------------------------------------------------------------------
(* The rule: overtime_conflicts.py and leave_conflicts.py *)

Inactive == {"rejected", "cancelled"}
Live(row) == row # Null /\ row.status \notin Inactive

\* A mutant: only the same day and the next.
neighbour_dates_ahead(day) == {day, day + 1}

\* The window on one timeline: it runs past midnight if it ends no later than
\* it starts.
time_window(day, time) ==
    LET begin == day * DayLength + time[1]  finish == day * DayLength + time[2]
    IN <<begin, IF time[2] <= time[1] THEN finish + DayLength ELSE finish>>

neighbour_dates(day) == {day - 1, day, day + 1}

Meet(a, b) == a[1] < b[2] /\ b[1] < a[2]

\* Two overtime rows cover the same time.
SameTime(r, q) ==
    /\ r.time # <<>> /\ q.time # <<>>
    /\ Meet(time_window(r.day, r.time), time_window(q.day, q.time))

\* find_conflict over what _overlapping_request selects.
OvertimeClash(row, ignored) ==
    \E o \in OvertimeIds \ ignored :
        /\ Live(overtime[o])
        /\ overtime[o].day \in neighbour_dates(row.day)
        /\ SameTime(row, overtime[o])

\* Leave is whole days, both ends inclusive.
ShareADay(r, q) == r.from <= q.to /\ q.from <= r.to

LeaveClash(row, ignored) ==
    \E l \in LeaveIds \ ignored : Live(leaves[l]) /\ ShareADay(row, leaves[l])

-----------------------------------------------------------------------------
(* The database: partial unique indexes, and what a statement changes *)

\* overtime_one_live_request_per_slot
SlotFree(row, ignored) ==
    ~ \E o \in OvertimeIds \ ignored :
        /\ Live(row) /\ Live(overtime[o]) /\ row.time # <<>>
        /\ overtime[o].day = row.day /\ overtime[o].time = row.time

\* leaves_one_live_request_per_range and leaves_overtime_id_uidx
RangeFree(row, ignored) ==
    ~ \E l \in LeaveIds \ ignored :
        /\ leaves[l] # Null
        /\ \/ /\ "rejected" \notin {row.status, leaves[l].status}
              /\ leaves[l].from = row.from /\ leaves[l].to = row.to
           \/ row.overtime # Null /\ leaves[l].overtime = row.overtime

Merge(row, patch) ==
    [f \in DOMAIN row |-> IF f \in DOMAIN patch THEN patch[f] ELSE row[f]]

\* Request c goes on as `next`.  History: every other one under way has not
\* seen what c changed.
Goes(c, next, changed) ==
    req' = [d \in Requests |->
              IF d = c THEN next
              ELSE IF req[d] = Idle THEN Idle
              ELSE [req[d] EXCEPT !.unseen = @ \cup changed]]
Declines(c) == Goes(c, Idle, {})

\* A request whose first call has been made: what it is about to do, for whom,
\* to which rows, with which row or patch.
Holding(pc, manager, ids, data) ==
    [pc |-> pc, manager |-> manager, ids |-> ids, data |-> data, row |-> Null,
     todo |-> {}, unseen |-> {}]

Starts(c, handler) ==
    /\ handler \in handlers
    /\ req[c] = Idle /\ requests < MaxRequests(handlers)
    /\ requests' = requests + 1
    /\ UNCHANGED <<tables, handlers>>

At(c, label) == req[c].pc = label /\ UNCHANGED <<requests, handlers>>

-----------------------------------------------------------------------------
(* Overtime *)

create_overtime(c, day, time, payout) ==
    LET row == [day |-> day, time |-> time, status |-> "pending", payout |-> payout] IN
    /\ Starts(c, "create_overtime")
    /\ ~OvertimeClash(row, {})
    /\ Goes(c, Holding("insert_overtime", FALSE, {}, row), {})

InsertOvertime(c) ==
    LET row == req[c].data IN
    /\ At(c, "insert_overtime")
    /\ SlotFree(row, {})
    /\ \E o \in OvertimeIds \ used :
          /\ overtime' = [overtime EXCEPT ![o] = row]
          /\ used' = used \cup {o}
          /\ Goes(c, Idle, {o})
    /\ UNCHANGED leaves

\* One guarded UPDATE: only a pending request is decided.
bulk_update_overtime_status(c, ids, status) ==
    LET pending == {o \in ids : overtime[o] # Null /\ overtime[o].status = "pending"} IN
    /\ "bulk_update_overtime_status" \in handlers
    /\ req[c] = Idle /\ requests < MaxRequests(handlers)
    /\ requests' = requests + 1
    /\ overtime' = [o \in OvertimeIds |->
          IF o \in pending THEN [overtime[o] EXCEPT !.status = status] ELSE overtime[o]]
    /\ Goes(c, Idle, pending)
    /\ UNCHANGED <<leaves, used, handlers>>

OvertimeLocked == {"approved", "paid", "rejected"}

\* A mutant: a rejected request is anybody's to change.
MayEditRejected(row, patch, manager) ==
    manager \/ ("status" \notin DOMAIN patch /\ row.status \notin {"approved", "paid"})

\* A status, and any change of a decided request, needs a manager.
MayEditOvertime(row, patch, manager) ==
    manager \/ ("status" \notin DOMAIN patch /\ row.status \notin OvertimeLocked)

\* A move, or the reopening of an inactive request, is checked unless the
\* result claims no time.
MoveChecked(row, patch) ==
    LET merged == Merge(row, patch) IN
    /\ merged.status \notin Inactive
    /\ row.status \in Inactive \/ merged.day # row.day \/ merged.time # row.time

update_overtime(c, o, patch, manager) ==
    /\ Starts(c, "update_overtime")
    /\ overtime[o] # Null
    /\ MayEditOvertime(overtime[o], patch, manager)
    /\ IF MoveChecked(overtime[o], patch)
       THEN Goes(c, [Holding("check_overtime", manager, {o}, patch)
                     EXCEPT !.row = overtime[o]], {})
       ELSE Goes(c, Holding("write_overtime", manager, {o}, patch), {})

CheckOvertime(c) ==
    /\ At(c, "check_overtime")
    /\ IF OvertimeClash(Merge(req[c].row, req[c].data), req[c].ids) THEN Declines(c)
       ELSE Goes(c, [req[c] EXCEPT !.pc = "write_overtime", !.row = Null], {})
    /\ UNCHANGED tables

\* UPDATE overtime of the given rows, of a PATCH or a bulk edit; one that is
\* gone matches nothing, and one the index refuses fails the statement.
WriteOvertime(c) ==
    LET ids == {o \in req[c].ids : overtime[o] # Null}
        new == [o \in ids |-> Merge(overtime[o], req[c].data)]
    IN
    /\ At(c, "write_overtime")
    /\ IF \A o \in ids : SlotFree(new[o], ids) /\
             \A p \in ids \ {o} : Live(new[o]) /\ Live(new[p]) /\ new[o].time # <<>>
                 => <<new[o].day, new[o].time>> # <<new[p].day, new[p].time>>
       THEN /\ overtime' = [o \in OvertimeIds |-> IF o \in ids THEN new[o] ELSE overtime[o]]
            /\ Goes(c, Idle, ids)
       ELSE Declines(c) /\ UNCHANGED overtime
    /\ UNCHANGED <<leaves, used>>

\* Locked rows are left out for all but a manager; a move is checked row by
\* row, against the database as it stands.
bulk_edit_overtime(c, ids, patch, manager) ==
    LET found == {o \in ids : overtime[o] # Null}
        editable == {o \in found : MayEditOvertime(overtime[o], patch, manager)}
    IN
    /\ Starts(c, "bulk_edit_overtime")
    /\ editable # {}
    /\ Goes(c, [Holding("check_bulk", manager, editable, patch) EXCEPT
                   !.row = overtime,
                   !.todo = IF DOMAIN patch \cap {"day", "time"} = {} THEN {}
                            ELSE {o \in editable : Live(overtime[o])}], {})

CheckBulk(c) ==
    /\ At(c, "check_bulk") /\ req[c].todo # {}
    /\ \E o \in req[c].todo :
          Goes(c, [req[c] EXCEPT
                     !.todo = @ \ {o},
                     !.ids = IF OvertimeClash(Merge(req[c].row[o], req[c].data), {o})
                             THEN @ \ {o} ELSE @], {})
    /\ UNCHANGED tables

BulkChecked(c) ==
    /\ At(c, "check_bulk") /\ req[c].todo = {}
    /\ IF req[c].ids = {} THEN Declines(c)
       ELSE Goes(c, [req[c] EXCEPT !.pc = "write_overtime", !.row = Null], {})
    /\ UNCHANGED tables

delete_overtime(c, o) ==
    /\ Starts(c, "delete_overtime")
    /\ overtime[o] # Null /\ overtime[o].status \notin {"approved", "paid"}
    /\ Goes(c, Holding("delete_overtime", TRUE, {o}, Null), {})

DeleteOvertime(c) ==
    /\ At(c, "delete_overtime")
    /\ overtime' = [o \in OvertimeIds |-> IF o \in req[c].ids THEN Null ELSE overtime[o]]
    /\ Goes(c, Idle, req[c].ids)
    /\ UNCHANGED <<leaves, used>>

-----------------------------------------------------------------------------
(* Taking approved overtime as leave *)

\* A mutant: what the overtime is paid with does not matter.
take_as_leave_of_any(c, o, from, to) ==
    /\ Starts(c, "take_as_leave")
    /\ overtime[o] # Null /\ overtime[o].status = "approved"
    /\ Goes(c, Holding("find_link", TRUE, {o},
               [from |-> from, to |-> to, status |-> "approved", overtime |-> o]), {})

take_as_leave(c, o, from, to) ==
    /\ Starts(c, "take_as_leave")
    /\ overtime[o] # Null
    /\ overtime[o].status = "approved" /\ overtime[o].payout = "lieu"
    /\ Goes(c, Holding("find_link", TRUE, {o},
               [from |-> from, to |-> to, status |-> "approved", overtime |-> o]), {})

\* Leave that already pays this overtime off is answered again.
FindLink(c) ==
    /\ At(c, "find_link")
    /\ IF \E l \in LeaveIds : leaves[l] # Null /\ leaves[l].overtime \in req[c].ids
       THEN Declines(c)
       ELSE Goes(c, [req[c] EXCEPT !.pc = "check_lieu"], {})
    /\ UNCHANGED tables

CheckLieu(c) ==
    /\ At(c, "check_lieu")
    /\ IF LeaveClash(req[c].data, {}) THEN Declines(c)
       ELSE Goes(c, [req[c] EXCEPT !.pc = "insert_leave"], {})
    /\ UNCHANGED tables

-----------------------------------------------------------------------------
(* Leave *)

\* The form may name the overtime the leave pays off.
create_leave(c, from, to, link) ==
    LET row == [from |-> from, to |-> to, status |-> "pending", overtime |-> link] IN
    /\ Starts(c, "create_leave")
    /\ ~LeaveClash(row, {})
    /\ Goes(c, Holding("insert_leave", FALSE, {}, row), {})

InsertLeave(c) ==
    LET row == req[c].data IN
    /\ At(c, "insert_leave")
    /\ RangeFree(row, {})
    /\ \E l \in LeaveIds \ used :
          /\ leaves' = [leaves EXCEPT ![l] = row]
          /\ used' = used \cup {l}
          /\ Goes(c, Idle, {l})
    /\ UNCHANGED overtime

bulk_update_leave_status(c, ids, status) ==
    LET pending == {l \in ids : leaves[l] # Null /\ leaves[l].status = "pending"} IN
    /\ "bulk_update_leave_status" \in handlers
    /\ req[c] = Idle /\ requests < MaxRequests(handlers)
    /\ requests' = requests + 1
    /\ leaves' = [l \in LeaveIds |->
          IF l \in pending THEN [leaves[l] EXCEPT !.status = status] ELSE leaves[l]]
    /\ Goes(c, Idle, pending)
    /\ UNCHANGED <<overtime, used, handlers>>

\* Authority is decided on a row read before the one that is edited.
update_leave(c, l, patch, manager) ==
    /\ Starts(c, "update_leave")
    /\ leaves[l] # Null
    /\ manager \/ /\ leaves[l].status \notin {"approved", "rejected"}
                  /\ "status" \in DOMAIN patch => patch.status \notin {"approved", "rejected"}
    /\ Goes(c, Holding("read_leave", manager, {l}, patch), {})

\* New dates are checked unless the result claims no day; so is a reopening.
LeaveChecked(row, patch) ==
    LET merged == Merge(row, patch) IN
    /\ merged.status \notin Inactive
    /\ \/ DOMAIN patch \cap {"from", "to"} # {}
       \/ row.status \in Inactive /\ "status" \in DOMAIN patch

ReadLeave(c) ==
    LET l == CHOOSE l \in req[c].ids : TRUE
        merged == Merge(leaves[l], req[c].data)
    IN
    /\ At(c, "read_leave")
    /\ IF leaves[l] = Null THEN Declines(c)
       ELSE IF merged.to < merged.from THEN Declines(c)
       ELSE IF LeaveChecked(leaves[l], req[c].data)
       THEN Goes(c, [req[c] EXCEPT !.pc = "check_leave", !.row = leaves[l]], {})
       ELSE Goes(c, [req[c] EXCEPT !.pc = "write_leave"], {})
    /\ UNCHANGED tables

CheckLeave(c) ==
    /\ At(c, "check_leave")
    /\ IF LeaveClash(Merge(req[c].row, req[c].data), req[c].ids) THEN Declines(c)
       ELSE Goes(c, [req[c] EXCEPT !.pc = "write_leave", !.row = Null], {})
    /\ UNCHANGED tables

\* leaves_dates_in_order may refuse what a stale check let through.
WriteLeave(c) ==
    LET l == CHOOSE l \in req[c].ids : TRUE
        new == Merge(leaves[l], req[c].data)
    IN
    /\ At(c, "write_leave")
    /\ IF leaves[l] # Null /\ new.from <= new.to /\ RangeFree(new, {l})
       THEN leaves' = [leaves EXCEPT ![l] = new] /\ Goes(c, Idle, {l})
       ELSE Declines(c) /\ UNCHANGED leaves
    /\ UNCHANGED <<overtime, used>>

delete_leave(c, l) ==
    /\ Starts(c, "delete_leave")
    /\ leaves[l] # Null /\ leaves[l].status # "approved"
    /\ Goes(c, Holding("delete_leave", TRUE, {l}, Null), {})

DeleteLeave(c) ==
    /\ At(c, "delete_leave")
    /\ leaves' = [l \in LeaveIds |-> IF l \in req[c].ids THEN Null ELSE leaves[l]]
    /\ Goes(c, Idle, req[c].ids)
    /\ UNCHANGED <<overtime, used>>

\* A call fails, an index refuses an insert, or the version the form was
\* opened with has passed (assert_unchanged): nothing is changed.
Fails(c) ==
    /\ req[c] # Idle
    /\ Declines(c)
    /\ UNCHANGED <<tables, requests, handlers>>

-----------------------------------------------------------------------------
OvertimeMoves ==
    {[day |-> d] : d \in Days} \cup {[time |-> t] : t \in Times \ {<<>>}}
OvertimePatches ==
    OvertimeMoves \cup {[time |-> <<>>]}
        \cup {[status |-> s] : s \in Statuses} \cup {[payout |-> p] : p \in {"cash", "lieu"}}
LeavePatches ==
    {[from |-> d] : d \in Days} \cup {[to |-> d] : d \in Days}
        \cup {[status |-> s] : s \in Statuses \ {"paid"}}
Decisions == {"approved", "rejected"}

OvertimeRequest(c) ==
    \/ \E d \in Days, t \in Times, p \in Payouts : create_overtime(c, d, t, p)
    \/ \E ids \in SUBSET OvertimeIds, s \in Decisions : bulk_update_overtime_status(c, ids, s)
    \/ \E o \in OvertimeIds, patch \in OvertimePatches, m \in BOOLEAN :
          update_overtime(c, o, patch, m)
    \/ \E ids \in SUBSET OvertimeIds, patch \in OvertimeMoves, m \in BOOLEAN :
          bulk_edit_overtime(c, ids, patch, m)
    \/ \E o \in OvertimeIds : delete_overtime(c, o)
    \/ \E o \in OvertimeIds, a, b \in Days : a <= b /\ take_as_leave(c, o, a, b)

LeaveRequest(c) ==
    \/ \E a, b \in Days, o \in OvertimeIds \cup {Null} : a <= b /\ create_leave(c, a, b, o)
    \/ \E ids \in SUBSET LeaveIds, s \in Decisions : bulk_update_leave_status(c, ids, s)
    \/ \E l \in LeaveIds, patch \in LeavePatches, m \in BOOLEAN : update_leave(c, l, patch, m)
    \/ \E l \in LeaveIds : delete_leave(c, l)

OvertimeCall(c) ==
    \/ InsertOvertime(c) \/ CheckOvertime(c) \/ WriteOvertime(c)
    \/ CheckBulk(c) \/ BulkChecked(c) \/ DeleteOvertime(c)

LeaveCall(c) ==
    \/ FindLink(c) \/ CheckLieu(c) \/ InsertLeave(c)
    \/ ReadLeave(c) \/ CheckLeave(c) \/ WriteLeave(c) \/ DeleteLeave(c)

LeaveNext == \E c \in Requests :
    OvertimeRequest(c) \/ LeaveRequest(c) \/ OvertimeCall(c) \/ LeaveCall(c) \/ Fails(c)

-----------------------------------------------------------------------------
(* Properties.  What a request changed behind another one's back is the only *)
(* excuse: `unseen` holds the rows changed since its first call.             *)

\* This step is the write of request c.
By(c) == req[c] # Idle /\ req'[c] = Idle
Excused(ids) == \E c \in Requests : By(c) /\ ids \cap req[c].unseen # {}

DoubleOvertime(o, p) ==
    Live(overtime[o]) /\ Live(overtime[p]) /\ SameTime(overtime[o], overtime[p])
DoubleLeave(l, m) ==
    Live(leaves[l]) /\ Live(leaves[m]) /\ ShareADay(leaves[l], leaves[m])

\* "One person cannot have two live overtime requests that cover the same time":
\* creating, moving or reopening one lands on another only if one of the two was
\* changed after the save began, or a bulk edit moved both.  Likewise "one person
\* cannot have two live leave requests that cover the same day", whether asked for,
\* moved, reopened or taken for overtime.
NoDoubleBooking ==
    [][/\ \A o \in OvertimeIds : \A p \in OvertimeIds \ {o} :
             DoubleOvertime(o, p)' /\ ~DoubleOvertime(o, p) =>
                 Excused({o, p}) \/ \E c \in Requests : By(c) /\ {o, p} \subseteq req[c].ids
       /\ \A l \in LeaveIds : \A m \in LeaveIds \ {l} :
             DoubleLeave(l, m)' /\ ~DoubleLeave(l, m) => Excused({l, m})]_leave_vars

ByManager == \E c \in Requests : By(c) /\ req[c].manager

\* "After approval/payment/rejection, business-field edits must not bypass
\* workflow": a request of overtime that is approved, paid or rejected, or of leave that
\* is approved or rejected, is changed by a manager alone, or by a save that began before
\* the request was last changed.  "Approved or paid overtime cannot be deleted", nor an
\* approved leave: only a decision given while the delete was under way is lost with
\* its request.
DecisionsStand ==
    [][/\ \A o \in OvertimeIds :
             /\ overtime[o] # Null /\ overtime[o].status \in {"approved", "paid", "rejected"}
                   /\ overtime'[o] # overtime[o] => ByManager \/ Excused({o})
             /\ overtime[o] # Null /\ overtime[o].status \in {"approved", "paid"}
                   /\ overtime'[o] = Null => Excused({o})
       /\ \A l \in LeaveIds :
             /\ leaves[l] # Null /\ leaves[l].status \in {"approved", "rejected"}
                   /\ leaves'[l] # leaves[l] => ByManager \/ Excused({l})
             /\ leaves[l] # Null /\ leaves[l].status = "approved"
                   /\ leaves'[l] = Null => Excused({l})]_leave_vars

\* "Only approved overtime", "only overtime owed as leave can be taken as leave":
\* leave that is approved from the start pays overtime that is approved and owed
\* as leave, or that changed while it was being taken.
LieuIsOwed ==
    [][\A l \in LeaveIds :
          leaves[l] = Null /\ leaves'[l] # Null /\ leaves'[l].status = "approved" =>
              LET o == leaves'[l].overtime IN
              Excused({o}) \/ (overtime[o] # Null /\ overtime[o].status = "approved"
                               /\ overtime[o].payout = "lieu")]_leave_vars
=============================================================================
