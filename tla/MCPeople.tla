------------------------------ MODULE MCPeople ------------------------------
(* People's time, and the tools they carry: a behaviour is one of the requests for *)
(* leave and overtime, the stand-ins, the daily timesheets and their import, the   *)
(* monthly sheets, the register of tools, the catalogue of sets, or the sets.       *)
EXTENDS LeaveOvertime, RotationCovers, Timesheets, MonthSheets, ToolRegister, SetCatalogue, ToolSets

VARIABLE focus

\* The first half of a day, and a shift from noon to noon.
MCTimes == {<<0, 1>>, <<1, 1>>}
MCScenarios == {
    {"create_overtime", "bulk_update_overtime_status", "update_overtime",
     "bulk_edit_overtime", "delete_overtime"},
    {"create_leave", "bulk_update_leave_status", "update_leave", "delete_leave"},
    {"create_overtime", "bulk_update_overtime_status", "update_overtime",
     "delete_overtime", "take_as_leave", "create_leave", "delete_leave"}}

MCRequests(h) == IF "take_as_leave" \in h THEN 4 ELSE 3

\* One tool that is in, and one that is new or in a set with the first; ann has an approval.
MCRow == [status |-> "available", condition |-> "Good", holder |-> NoOne, pending |-> FALSE, archived |-> FALSE, version |-> 1]
MCApproved == [e \in Artisans |-> [t \in Tools |-> IF e \in Section THEN "none" ELSE "current"]]

\* Sets of two pieces, and people named by id or by number.
MCWho(name) == IF name = "bob" THEN "bob" ELSE "ann"
MCPieces == <<"a", "b">>
MCQueues == {<<"ann", "ann", "bob">>, <<"ann", "7">>}

\* The first set: none yet, or in the store, out or held, its first piece fit or not.
MCHeads ==
    {NoSet} \cup {[status |-> at[1], version |-> 1, holder |-> at[2]] :
                     at \in {<<"available", Nobody>>, <<"issued", "ann">>, <<"attention", Nobody>>}}

\* ann and bob are of one section, cy is not; ann's cover is planned.
MCCoverStaff == [m \in Members |-> [section |-> IF m = "cy" THEN "South" ELSE "North", department |-> "Engineering"]]
MCPlanners == {FullView, Limit("section", "North")}
MCCovers == [c \in CoverIds |-> IF c = 1 THEN [post |-> 1, absent |-> "ann", cover |-> "bob", from |-> 1, to |-> 1] ELSE NoCover]

\* One employee, whose first day has overtime in it.  Scans: a sheet with one that replaces
\* it, two sheets of one person under a number and under a name, two under one number.
MCRegister == {[code |-> "C1", name |-> "ann", person |-> 1]}
MCAlike(a, b) == a = "ann" /\ b = "anne"
Day(d, kind, hours, night) == [day |-> d, kind |-> kind, hours |-> hours, night |-> night]
Sheet(code, name, disposition, days) == [code |-> code, name |-> name, disposition |-> disposition, rows |-> days]
MCReviews == {
    <<Sheet("C1", "ann", "pending", <<Day(1, "work", 2, {1}), Day(2, "off", 0, {0}), Day(3, "work", 1, {})>>),
      Sheet("C1", "ann", "superseded", <<Day(1, "off", 0, {})>>)>>,
    <<Sheet("C1", "ann", "pending", <<Day(1, "work", 1, {})>>),
      Sheet(NoCode, "anne", "pending", <<Day(1, "work", 2, {1}), Day(2, "blank", 0, {})>>)>>,
    <<Sheet("C1", "ann", "pending", <<Day(1, "leave", 1, {1})>>), Sheet("C1", "ann", "selected", <<Day(2, "work", 1, {})>>)>>}
MCShift == [regular |-> 1, night |-> 0, overtime |-> 1, total |-> 2]
MCHandRows == {MCShift, [regular |-> 2, night |-> 0, overtime |-> 0, total |-> 1]}
MCSheets ==
    [k \in Keys |-> IF k[2] = 1 THEN NewRow(1, MCShift) ELSE NoSheet]
ASSUME SheetsAssumption == MCSheets \in Timetables

\* Two days of one month and one of the next; ann's first month is there, or nothing is.
MCMonthOf(d) == IF d = 3 THEN 2 ELSE 1
MCMonths == [s \in MonthIds |-> IF s = 1 THEN [who |-> "ann", month |-> 1, worked |-> {1}] ELSE NoMonth]

Init ==
    /\ focus \in {"time", "covers", "sheets", "months", "tools", "catalogue", "sets"}
    /\ LeaveInit /\ (focus # "time" => handlers = CHOOSE s \in Scenarios : TRUE)
    /\ CoversInit(MCCovers)
    /\ \E review \in IF focus = "sheets" THEN Reviews \cup {NoReview} ELSE {NoReview} : SheetsInit(MCSheets, review)
    /\ \E sheets \in IF focus = "months" THEN {MCMonths, [s \in MonthIds |-> NoMonth]} ELSE {MCMonths} : MonthsInit(sheets)
    /\ LET t == CHOOSE x \in Tools : TRUE IN
       \E two \in IF focus = "tools" THEN BOOLEAN ELSE {FALSE} :
          ToolsInit([x \in Tools |-> IF x = t \/ two THEN MCRow ELSE NoTool], MCApproved,
                    [x \in Tools |-> IF x # t /\ two THEN t ELSE NoTool])
    /\ LinesInit
    /\ \E head \in IF focus = "sets" THEN MCHeads ELSE {NoSet}, first \in {"fit", "damaged"} :
          /\ head = NoSet => first = "fit"
          /\ SetsInit([s \in Sets |-> IF s = 1 THEN head ELSE NoSet],
                      [s \in Sets |-> [l \in DOMAIN PieceLines |-> IF s # 1 \/ head = NoSet THEN NoPiece
                                                                  ELSE IF l = 1 THEN first ELSE "fit"]])
    /\ focus # "sets" => defaults

Next ==
    /\ UNCHANGED focus
    /\ \/ focus = "time" /\ LeaveNext /\ UNCHANGED <<cover_vars, sheet_vars, month_vars, tool_vars, line_vars, set_vars>>
       \/ focus = "covers" /\ CoversNext /\ UNCHANGED <<leave_vars, sheet_vars, month_vars, tool_vars, line_vars, set_vars>>
       \/ focus = "sheets" /\ SheetsNext /\ UNCHANGED <<leave_vars, cover_vars, month_vars, tool_vars, line_vars, set_vars>>
       \/ focus = "months" /\ MonthsNext /\ UNCHANGED <<leave_vars, cover_vars, sheet_vars, tool_vars, line_vars, set_vars>>
       \/ focus = "tools" /\ ToolsNext /\ UNCHANGED <<leave_vars, cover_vars, sheet_vars, month_vars, line_vars, set_vars>>
       \/ focus = "catalogue" /\ LinesNext /\ UNCHANGED <<leave_vars, cover_vars, sheet_vars, month_vars, tool_vars, set_vars>>
       \/ focus = "sets" /\ SetsNext /\ UNCHANGED <<leave_vars, cover_vars, sheet_vars, month_vars, tool_vars, line_vars>>
vars == <<focus, leave_vars, cover_vars, sheet_vars, month_vars, tool_vars, line_vars, set_vars>>
Spec == Init /\ [][Next]_vars

\* Every row has its shape; that the lines of a type are numbered is part of it.
TypeOK ==
    /\ LeaveTypeOK /\ CoversTypeOK /\ SheetsTypeOK /\ MonthsTypeOK /\ ToolsTypeOK /\ LinesTypeOK /\ LinesAreNumbered
    /\ SetsTypeOK

\* Nobody's time is promised twice: not in requests, not in stand-ins, and
\* nobody works on a day of approved leave.
BookedOnce == NoDoubleBooking /\ OneStandIn /\ []NobodyWorksOnLeave

Symmetry == Permutations(Requests) \cup Permutations(OvertimeIds) \cup Permutations(LeaveIds)
=============================================================================
