---------------------------- MODULE ToolRegister ----------------------------
(***************************************************************************)
(* The register of portable tools (src/app/routers/tools_workspace.py):    *)
(* who holds a tool and whether it is fit to go out.  Every handler reads  *)
(* the row, decides, and sends one call to the function                    *)
(* tools_workspace_apply_change of the database, which writes the row if   *)
(* its version is still the one read and records the change.  Undo and     *)
(* redo put a recorded row back.  One department; a tool is known by its   *)
(* register number.                                                        *)
(***************************************************************************)
EXTENDS Naturals, Sequences, FiniteSets, SequencesExt

CONSTANTS
    Tools,         \* register numbers
    Artisans,      \* employees on the Tools register
    Section,       \* those whose trade section the tools belong to
    Open,          \* the tools that need no approval
    Accounts,      \* who signs in: issuers and administrators
    Desks,         \* requests
    SendKeys,      \* idempotency keys a caller may send
    NoTool, NoOne, NoKey,
    MaxToolCalls   \* bound: requests

ASSUME PeopleAssumption == Section \subseteq Artisans /\ NoOne \notin Artisans /\ NoKey \notin SendKeys

VARIABLES
    tools,       \* tools_workspace_equipment: register number -> row
    trail,       \* tools_workspace_changes, and the key each was made under
    working,     \* the employees who are active
    approvals,   \* tools_workspace_competencies: the record of each employee and tool
    checks,      \* the last required inspection of each tool
    incidents,   \* tools_workspace_incidents, in the order reported
    member_of,   \* tools_workspace_set_members: the set each tool belongs to
    desk,        \* per request: what it sends next
    tool_calls

tool_vars == <<tools, trail, working, approvals, checks, incidents, member_of, desk, tool_calls>>
side_tables == <<working, approvals, checks, incidents, member_of>>

Away == [pc |-> "away"]
ToolRows ==
    [status : {"available", "issued", "attention"}, condition : {"Good", "Damaged", "Missing parts"},
     holder : Artisans \cup {NoOne}, pending : BOOLEAN, archived : BOOLEAN, version : Nat]
ASSUME RowsAssumption == NoTool \notin ToolRows
InUse == {t \in Tools : tools[t] # NoTool}

ToolsTypeOK ==
    /\ \A t \in InUse : tools[t] \in ToolRows
    /\ \A k \in DOMAIN trail :
          /\ trail[k].tool \in Tools /\ {trail[k].before, trail[k].after} \subseteq ToolRows
          /\ trail[k].by \in Accounts /\ trail[k].undone \in BOOLEAN /\ trail[k].key \in SendKeys \cup {NoKey}
    /\ working \subseteq Artisans
    /\ approvals \in [Artisans -> [Tools -> {"none", "current", "lapsed", "withheld"}]]
    /\ checks \in [Tools -> {"due", "passed", "failed"}]
    /\ \A d \in Desks : desk[d].pc \in {"away", "apply", "restore", "deactivate", "close"}

ToolsInit(rows, approved, sets) ==
    /\ tools = rows /\ approvals = approved /\ member_of = sets
    /\ trail = <<>> /\ incidents = <<>> /\ tool_calls = 0
    /\ working = Artisans
    /\ checks = [t \in Tools |-> "passed"]
    /\ desk = [d \in Desks |-> Away]

-----------------------------------------------------------------------------
(* Reading. *)

\* Recorded as defective, missing or damaged.
_needs_attention(row) == row.condition = "Damaged"

_is_set_head(t) == \E m \in Tools : member_of[m] = t

\* A current approval, or the section of an active employee unless a record of
\* this tool withholds it.
_eligibility_basis(e, t) ==
    \/ t \in Open
    \/ approvals[e][t] = "current"
    \/ approvals[e][t] # "withheld" /\ e \in Section /\ e \in working

_inspection_due(t) == checks[t] # "passed"

\* The guards of a loan: the override answers for overdue checks alone.
_check_loan_row(t, e, override) == _eligibility_basis(e, t) /\ (_inspection_due(t) => override)

\* A request begins; the others under way have not seen what it writes at once.
Comes(d) == desk[d] = Away /\ tool_calls < MaxToolCalls /\ tool_calls' = tool_calls + 1
Noticed(others, d) == [o \in Desks |-> IF o = d \/ others[o] = Away THEN others[o] ELSE [others[o] EXCEPT !.crossed = TRUE]]

\* One call of the database is to come: the row as read, and as it is to be.
_apply_change(d, a, t, after, action, key) ==
    [desk EXCEPT ![d] = [pc |-> "apply", by |-> a, tool |-> t, before |-> tools[t], after |-> after,
                         action |-> action, key |-> key, crossed |-> FALSE]]

-----------------------------------------------------------------------------
(* The register. *)
New(condition, status) ==
    [status |-> status, condition |-> condition, holder |-> NoOne, pending |-> FALSE, archived |-> FALSE, version |-> 1]

create_tool(d, a, t, condition) ==
    /\ Comes(d) /\ tools[t] = NoTool
    /\ LET row == New(condition, "available")
       IN  desk' = _apply_change(d, a, t, [row EXCEPT !.status = IF _needs_attention(row) THEN "attention" ELSE "available"],
                                 "created", NoKey)
    /\ UNCHANGED <<tools, trail, side_tables>>

\* An imported row is available whatever its condition.
commit_import(d, a, t, condition) ==
    /\ Comes(d) /\ tools[t] = NoTool
    /\ desk' = _apply_change(d, a, t, New(condition, "available"), "imported", NoKey)
    /\ UNCHANGED <<tools, trail, side_tables>>

\* A fault holds a tool that is in; clearing one releases nothing.
update_tool(d, a, t, condition) ==
    /\ Comes(d) /\ t \in InUse
    /\ LET row == [tools[t] EXCEPT !.condition = condition]
           held == row.status = "available" /\ _needs_attention(row)
       IN  desk' = _apply_change(d, a, t, [row EXCEPT !.status = IF held THEN "attention" ELSE @], "updated", NoKey)
    /\ UNCHANGED <<tools, trail, side_tables>>

archive_tool(d, a, t) ==
    /\ Comes(d) /\ t \in InUse
    /\ tools[t].holder = NoOne /\ ~_is_set_head(t) /\ member_of[t] = NoTool
    /\ desk' = _apply_change(d, a, t, [tools[t] EXCEPT !.archived = ~@], "archived", NoKey)
    /\ UNCHANGED <<tools, trail, side_tables>>

mark_tool_ready(d, a, t) ==
    /\ Comes(d) /\ t \in InUse
    /\ ~tools[t].archived /\ tools[t].holder = NoOne /\ tools[t].status = "attention"
    /\ \A m \in InUse : member_of[m] = t => tools[m].status = "available" /\ ~_needs_attention(tools[m])
    /\ desk' = _apply_change(d, a, t, [tools[t] EXCEPT !.status = "available", !.condition = "Good"], "released", NoKey)
    /\ UNCHANGED <<tools, trail, side_tables>>

\* Removing a tool from its set writes the link first and then the set's row.
remove_set_member(d, a, t, m) ==
    /\ Comes(d) /\ t \in InUse /\ tools[t].holder = NoOne /\ member_of[m] = t
    /\ member_of' = [member_of EXCEPT ![m] = NoTool]
    /\ desk' = Noticed(_apply_change(d, a, t, tools[t], "members_updated", NoKey), d)
    /\ UNCHANGED <<tools, trail, working, approvals, checks, incidents>>

-----------------------------------------------------------------------------
(* Movements: issue, return, transfer and extend. *)

\* The member of a set moves with its set only, and the movement of a set is
\* refused by the database whatever it says, so neither changes anything.
_move(d, a, t, kind, e, condition, override, key) ==
    LET row == tools[t]
        lent == kind \in {"issue", "transfer"}
    IN  /\ Comes(d) /\ t \in InUse
        /\ member_of[t] = NoTool /\ ~_is_set_head(t)
        /\ IF kind = "issue" THEN ~row.archived /\ row.status = "available" /\ ~_needs_attention(row)
           ELSE row.holder # NoOne
        /\ lent => _check_loan_row(t, e, override)
        /\ LET after ==
                 CASE kind = "return" ->
                        [row EXCEPT !.status = IF condition = "Good" THEN "available" ELSE "attention",
                                    !.condition = condition, !.holder = NoOne, !.pending = FALSE]
                   [] kind = "extend" -> [row EXCEPT !.status = "issued"]
                   [] OTHER -> [row EXCEPT !.status = "issued", !.holder = e, !.pending = TRUE]
           IN  desk' = _apply_change(d, a, t, after, kind, key)
        /\ UNCHANGED <<tools, trail, side_tables>>

-----------------------------------------------------------------------------
(* Inspections, incidents and approvals: a row of their own first, and then the *)
(* change of the tool, if there is one.                                          *)
record_inspection(d, a, t, type, outcome) ==
    /\ Comes(d) /\ t \in InUse
    /\ checks' = [checks EXCEPT ![t] = IF type = "required" THEN outcome ELSE @]
    /\ LET row == tools[t]
           failed == outcome = "failed" /\ row.holder = NoOne
           checked == type = "pre_use" /\ row.pending
           broken == [row EXCEPT !.status = "attention", !.condition = "Damaged"]
           sent == IF failed THEN _apply_change(d, a, t, broken, "inspection_failed", NoKey)
                   ELSE IF checked THEN _apply_change(d, a, t, [row EXCEPT !.pending = FALSE], "pre_use_recorded", NoKey)
                   ELSE desk
       IN  desk' = Noticed(sent, d)
    /\ UNCHANGED <<tools, trail, working, approvals, incidents, member_of>>

\* A weekly or monthly check falls due again.
CheckLapses(t) ==
    /\ checks[t] = "passed"
    /\ checks' = [checks EXCEPT ![t] = "due"] /\ desk' = Noticed(desk, NoOne)
    /\ UNCHANGED <<tools, trail, working, approvals, incidents, member_of, tool_calls>>

report_incident(d, a, t) ==
    /\ Comes(d) /\ t \in InUse
    /\ incidents' = Append(incidents, [tool |-> t, open |-> TRUE])
    /\ desk' = Noticed(_apply_change(d, a, t, [tools[t] EXCEPT !.status = "attention", !.condition = "Damaged"],
                                     "incident", NoKey), d)
    /\ UNCHANGED <<tools, trail, working, approvals, checks, member_of>>

close_incident(d, k) ==
    /\ Comes(d) /\ k \in DOMAIN incidents /\ incidents[k].open
    /\ desk' = [desk EXCEPT ![d] = [pc |-> "close", incident |-> k, crossed |-> FALSE]]
    /\ UNCHANGED <<tools, trail, side_tables>>

CloseIncident(d) ==
    /\ desk[d].pc = "close"
    /\ incidents' = [incidents EXCEPT ![desk[d].incident].open = FALSE]
    /\ desk' = Noticed([desk EXCEPT ![d] = Away], d)
    /\ UNCHANGED <<tools, trail, working, approvals, checks, member_of, tool_calls>>

\* Approve an employee for a tool, or withhold it.
save_competency(d, e, t, record) ==
    /\ Comes(d) /\ t \in InUse
    /\ approvals' = [approvals EXCEPT ![e][t] = record]
    /\ desk' = Noticed(desk, d)
    /\ UNCHANGED <<tools, trail, working, checks, incidents, member_of>>

\* An employee who holds nothing is deactivated, or one is active again.
update_employee(d, e) ==
    /\ Comes(d)
    /\ IF e \in working
       THEN /\ \A t \in InUse : tools[t].holder # e
            /\ desk' = [desk EXCEPT ![d] = [pc |-> "deactivate", employee |-> e, crossed |-> FALSE]]
            /\ UNCHANGED working
       ELSE working' = working \cup {e} /\ desk' = Noticed(desk, d)
    /\ UNCHANGED <<tools, trail, approvals, checks, incidents, member_of>>

Deactivate(d) ==
    /\ desk[d].pc = "deactivate"
    /\ working' = working \ {desk[d].employee}
    /\ desk' = Noticed([desk EXCEPT ![d] = Away], d)
    /\ UNCHANGED <<tools, trail, approvals, checks, incidents, member_of, tool_calls>>

-----------------------------------------------------------------------------
(* The two functions of the database. *)
Replayed(change) == change.key # NoKey /\ \E k \in DOMAIN trail : trail[k].key = change.key
\* The row is still the one that was read; a new number is not taken yet.
SameVersion(change) ==
    IF change.before = NoTool THEN tools[change.tool] = NoTool
    ELSE tools[change.tool].version = change.before.version
\* A mutant: whatever became of the row meanwhile.
AnyVersion(change) == TRUE
Current(change) == SameVersion(change)

tools_workspace_apply_change(d) ==
    /\ desk[d].pc = "apply"
    /\ LET change == desk[d]
           saved == [change.after EXCEPT !.version = IF tools[change.tool] = NoTool THEN 1 ELSE tools[change.tool].version + 1]
       IN  IF ~Replayed(change) /\ Current(change)
           THEN /\ tools' = [tools EXCEPT ![change.tool] = saved]
                /\ trail' = Append(trail, [tool |-> change.tool, before |-> IF change.before = NoTool THEN change.after ELSE change.before,
                                           after |-> saved, by |-> change.by, undone |-> FALSE, key |-> change.key])
                /\ desk' = Noticed([desk EXCEPT ![d] = Away], d)
           ELSE desk' = [desk EXCEPT ![d] = Away] /\ UNCHANGED <<tools, trail>>
    /\ UNCHANGED <<side_tables, tool_calls>>

\* The caller's newest change that is not undone, or the newest that is.
restore_change(d, a, redo) ==
    /\ Comes(d)
    /\ LET own == {k \in DOMAIN trail : trail[k].by = a /\ trail[k].undone = redo}
       IN  /\ own # {}
           /\ desk' = [desk EXCEPT ![d] = [pc |-> "restore", change |-> CHOOSE k \in own : \A j \in own : j <= k,
                                           redo |-> redo, crossed |-> FALSE]]
    /\ UNCHANGED <<tools, trail, side_tables>>

\* Undone and redone once each; the row it finds is not looked at.
Undoable(d) == trail[desk[d].change].undone = desk[d].redo
tools_workspace_restore_change(d) ==
    /\ desk[d].pc = "restore"
    /\ LET change == trail[desk[d].change]
           desired == IF desk[d].redo THEN change.after ELSE change.before
       IN  IF Undoable(d)
           THEN /\ tools' = [tools EXCEPT ![change.tool] = [desired EXCEPT !.version = tools[change.tool].version + 1]]
                /\ trail' = [trail EXCEPT ![desk[d].change].undone = ~@]
                /\ desk' = Noticed([desk EXCEPT ![d] = Away], d)
           ELSE desk' = [desk EXCEPT ![d] = Away] /\ UNCHANGED <<tools, trail>>
    /\ UNCHANGED <<side_tables, tool_calls>>

-----------------------------------------------------------------------------
ToolRequest(d) ==
    \/ \E a \in Accounts, t \in Tools :
          \/ \E c \in {"Good", "Damaged"} : create_tool(d, a, t, c) \/ commit_import(d, a, t, c) \/ update_tool(d, a, t, c)
          \/ archive_tool(d, a, t) \/ mark_tool_ready(d, a, t) \/ report_incident(d, a, t)
          \/ \E m \in Tools : remove_set_member(d, a, t, m)
          \/ \E e \in Artisans, override \in BOOLEAN : _move(d, a, t, "issue", e, "Good", override, NoKey)
          \/ \E e \in Artisans, k \in SendKeys : _move(d, a, t, "transfer", e, "Good", TRUE, k)
          \/ \E c \in {"Good", "Missing parts"} : _move(d, a, t, "return", NoOne, c, FALSE, NoKey)
          \/ \E k \in SendKeys : _move(d, a, t, "extend", NoOne, "Good", FALSE, k)
          \/ \E type \in {"required", "pre_use"}, outcome \in {"passed", "failed"} :
                record_inspection(d, a, t, type, outcome)
    \/ \E k \in DOMAIN incidents : close_incident(d, k)
    \/ \E e \in Artisans, t \in Tools, record \in {"current", "lapsed", "withheld"} : save_competency(d, e, t, record)
    \/ \E e \in Artisans : update_employee(d, e)
    \/ \E a \in Accounts, redo \in BOOLEAN : restore_change(d, a, redo)

ToolsNext ==
    \/ \E d \in Desks :
          \/ ToolRequest(d) \/ CloseIncident(d) \/ Deactivate(d)
          \/ tools_workspace_apply_change(d) \/ tools_workspace_restore_change(d)
    \/ \E t \in InUse : CheckLapses(t)

\* On its own, from any rows of the register.
ToolsBegin ==
    \E rows \in [Tools -> ToolRows \cup {NoTool}],
       approved \in [Artisans -> [Tools -> {"none", "current", "lapsed", "withheld"}]],
       sets \in [Tools -> Tools \cup {NoTool}] : ToolsInit(rows, approved, sets)
ToolsSpec == ToolsBegin /\ [][ToolsNext]_tool_vars

-----------------------------------------------------------------------------
(* Properties. *)
Applying(d) == desk[d].pc = "apply" /\ desk'[d] = Away
Recorded == Len(trail') > Len(trail)
Lent(t) == t \in InUse /\ tools[t].holder = NoOne /\ tools'[t].holder # NoOne

\* "Apply one equipment mutation and its audit/change records atomically": however
\* requests overlap, a change shows the row it replaced and the row it left, one key
\* makes one change, and only an undo or a redo changes a row without one.
TrailIsTrue ==
    /\ Recorded => LET change == Last(trail') IN
          /\ change.after = tools'[change.tool]
          /\ tools[change.tool] # NoTool => change.before = tools[change.tool]
          /\ change.key # NoKey => \A k \in DOMAIN trail : trail[k].key # change.key
    /\ tools' # tools => Recorded \/ \E k \in DOMAIN trail : trail'[k].undone # trail[k].undone

\* "Not fit to issue": a tool goes out of the store only when it was in, fit and not
\* archived, to someone whose approval stands unless another request wrote meanwhile.
OnlyFitGoesOut ==
    \A t \in Tools : Lent(t) /\ Recorded =>
        /\ tools[t].status = "available" /\ ~_needs_attention(tools[t]) /\ ~tools[t].archived
        /\ \E d \in Desks : Applying(d) /\ (desk[d].crossed \/ _eligibility_basis(tools'[t].holder, t))

\* "This employee still holds equipment.  Receive it back before deactivating them."
LeaversHoldNothing ==
    \A e \in working \ working' : \A t \in InUse : tools[t].holder = e =>
        \E d \in Desks : desk[d].pc = "deactivate" /\ desk[d].employee = e /\ desk[d].crossed

ToolsAreAccountedFor == [][TrailIsTrue /\ OnlyFitGoesOut /\ LeaversHoldNothing]_tool_vars
=============================================================================
