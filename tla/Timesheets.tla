----------------------------- MODULE Timesheets -----------------------------
(***************************************************************************)
(* The daily timesheets (src/app/routers/timesheets.py) and the import of  *)
(* scanned sheets into them: src/app/routers/nec_timesheet_import.py and   *)
(* src/app/nec_import.  A job is a file that every call loads and writes   *)
(* back; a load and a write with no call between them are one step.  An    *)
(* import reads the table and the leave once, and then writes row by row   *)
(* from what it read, while people save days by hand.  One job.            *)
(***************************************************************************)
EXTENDS Integers, Sequences, FiniteSets, FiniteSetsExt

CONSTANTS
    Register,     \* the employees: [code, name, person]
    Alike(_, _),  \* the names that begin alike
    ShiftDays, Period,   \* days, and those of the payroll month
    Reviews,      \* readings of the scans: sequences of sheets
    HandRows,     \* the hours people enter
    Watchers,     \* who looks at a preview: the sets of persons they may see
    Importers, Keepers,  \* requests
    NoSheet, NoCode, NoReview,
    MaxImports, MaxHandSaves, MaxLeaveEdits, MaxImportFaults   \* bounds

Persons == {e.person : e \in Register}
Keys == Persons \X ShiftDays
NoHours == [regular |-> 0, night |-> 0, overtime |-> 0, total |-> 0]
Hours == [regular : Int, night : Int, overtime : Int, total : Int]
SheetRows == [id : Nat, regular : Int, night : Int, overtime : Int, total : Int]
AddsUp(row) == row.total = row.regular + row.night + row.overtime

\* A reading gives hours for days, the night's if it could be read; a form sends any hours.
ASSUME TimesheetAssumption ==
    /\ Period \subseteq ShiftDays /\ IsFiniteSet(Persons) /\ IsFiniteSet(ShiftDays)
    /\ NoReview \notin Reviews /\ NoSheet \notin SheetRows
    /\ \A review \in Reviews : \A s \in DOMAIN review :
          s \in Nat /\ \A d \in DOMAIN review[s].rows :
             d \in Nat /\ review[s].rows[d].hours \in Int /\ review[s].rows[d].night \subseteq Int
    /\ HandRows \subseteq Hours

VARIABLES
    timesheets,   \* per person and day: the row, or NoSheet
    row_ids,      \* ids given out
    leave_days,   \* the persons and days of leave that is not rejected
    job,          \* job.json: [status, documents, review: it has one]
    review_json,  \* review.json, or NoReview
    clerk,        \* per request of the import
    hand,         \* per save of a day
    loose,        \* history: days whose total a crossed write or an extra on leave left behind,
                  \* or whose total was entered so
    settled,      \* history: the review that was applied with nothing between, and nothing since
    imports, hand_saves, leave_edits, import_faults

sheet_tables == <<timesheets, row_ids, leave_days>>
counts == <<imports, hand_saves, leave_edits, import_faults>>
sheet_vars == <<sheet_tables, job, review_json, clerk, hand, loose, settled, counts>>
Free == [pc |-> "free"]

SheetsTypeOK ==
    /\ \A k \in {x \in Keys : timesheets[x] # NoSheet} :
          timesheets[k].id \in 1 .. row_ids /\ DOMAIN timesheets[k] = DOMAIN NoHours \cup {"id"}
    /\ leave_days \subseteq Keys /\ loose \subseteq Keys
    /\ job.status \in {"draft", "uploaded", "extracting", "review_ready", "cancelled", "completed"}
    /\ job.review <=> review_json # NoReview
    /\ \A i \in Importers : clerk[i].pc \in {"free", "table", "leave", "rows", "report", "preview", "shown", "extract"}
    /\ \A h \in Keepers : hand[h].pc \in {"free", "insert", "update"}

SheetsInit(at_first, review) ==
    /\ timesheets = at_first /\ row_ids = Cardinality({k \in Keys : at_first[k] # NoSheet})
    /\ leave_days = {} /\ review_json = review
    /\ job = [status |-> IF review = NoReview THEN "draft" ELSE "review_ready", documents |-> 0, review |-> review # NoReview]
    /\ clerk = [i \in Importers |-> Free] /\ hand = [h \in Keepers |-> Free]
    /\ loose = {k \in Keys : at_first[k] # NoSheet /\ ~AddsUp(at_first[k])} /\ settled = NoReview
    /\ imports = 0 /\ hand_saves = 0 /\ leave_edits = 0 /\ import_faults = 0

-----------------------------------------------------------------------------
(* What a sheet says of a day. *)

\* Sheets that were rejected or replaced write nothing; a sheet is known by its place.
eligible_review_sheets(review) ==
    {s \in DOMAIN review : review[s].disposition \notin {"superseded", "rejected"}}

\* By mine number, by name, or by the one name that begins alike.
resolve_employee(sheet) ==
    LET coded == {e \in Register : e.code = sheet.code}
        named == {e \in Register : e.name = sheet.name}
        alike == {e \in Register : Alike(e.name, sheet.name)}
        found == IF coded # {} THEN coded ELSE IF named # {} THEN named ELSE alike
    IN  IF Cardinality(found) = 1 THEN {e.person : e \in found} ELSE {}

\* Two eligible sheets under one mine number, or under one name without a number.
duplicate_sheet_groups(review) ==
    LET key(s) == IF review[s].code # NoCode THEN review[s].code ELSE review[s].name
    IN  \E a, b \in eligible_review_sheets(review) : a # b /\ key(a) = key(b)

\* The days of the sheets of known employees: the place of the sheet, and of the day in it.
Entry(review, line) == review[line[1]].rows[line[2]]
SheetLines(review) ==
    {line \in UNION {{s} \X DOMAIN review[s].rows : s \in eligible_review_sheets(review)} :
        resolve_employee(review[line[1]]) # {} /\ Entry(review, line).day \in Period}
KeyOf(review, line) == <<CHOOSE p \in resolve_employee(review[line[1]]) : TRUE, Entry(review, line).day>>

\* A mutant: the hours of other modules in the total are forgotten.
TotalAnew(existing, regular, night) == regular + night

\* The total moves by the change of the two fields the import owns.
_total_hours(existing, regular, night) ==
    IF existing = NoSheet THEN regular + night
    ELSE existing.total + (regular - existing.regular) + (night - existing.night)

\* What the import writes to a day; nothing is NoSheet.
build_patch(entry, existing, on_leave) ==
    LET known == {n \in entry.night : n > 0}
        night == IF entry.night # {} THEN CHOOSE n \in entry.night : TRUE
                 ELSE IF existing = NoSheet THEN 0 ELSE existing.night
        regular == IF entry.kind = "off" THEN 0 ELSE entry.hours
        total == _total_hours(existing, regular, night)
        patch == IF entry.night # {} THEN [regular |-> regular, night |-> night, total |-> total]
                 ELSE [regular |-> regular, total |-> total]
    IN  CASE entry.kind = "blank" -> NoSheet
          [] entry.kind # "blank" /\ (on_leave \/ entry.kind = "leave") ->
                IF on_leave /\ known # {} THEN [night |-> CHOOSE n \in known : TRUE] ELSE NoSheet
          [] OTHER -> IF existing # NoSheet /\ \A f \in DOMAIN patch : patch[f] = existing[f] THEN NoSheet ELSE patch

Over(row, patch) == [f \in DOMAIN row |-> IF f \in DOMAIN patch THEN patch[f] ELSE row[f]]
Patched(row, patch) == Over(IF row = NoSheet THEN NoHours ELSE row, patch)
NewRow(id, hours) ==
    [id |-> id, regular |-> hours.regular, night |-> hours.night, overtime |-> hours.overtime, total |-> hours.total]

\* The writes of an import that read a table and the leave.
WriteOf(review, line, table, on_leave) ==
    LET k == KeyOf(review, line)
    IN  [key |-> k, existing |-> table[k], patch |-> build_patch(Entry(review, line), table[k], k \in on_leave),
         extra |-> k \in on_leave]
PlannedWrites(review, table, on_leave) ==
    [line \in {l \in SheetLines(review) : WriteOf(review, l, table, on_leave).patch # NoSheet} |->
        WriteOf(review, line, table, on_leave)]

\* What a preview says of the same days, and what of it somebody of one section is shown.
build_preview(review, table, on_leave) ==
    LET planned == PlannedWrites(review, table, on_leave)
    IN  {[key |-> planned[l].key, kind |-> IF planned[l].existing = NoSheet THEN "create" ELSE "update"] : l \in DOMAIN planned}
_filter_preview_for_scope(lines, visible) == {l \in lines : l.key[1] \in visible}

-----------------------------------------------------------------------------
(* The job. *)
Clerk(i, next) == clerk' = [clerk EXCEPT ![i] = next]
MaySend(i) == clerk[i].pc \in {"free", "shown"} /\ imports < MaxImports /\ imports' = imports + 1
OnlyTheJob == UNCHANGED <<sheet_tables, hand, loose, settled, hand_saves, leave_edits>>

upload_pdf(i) ==
    /\ MaySend(i) /\ job.documents = 0
    /\ job' = [job EXCEPT !.documents = 1, !.status = IF @ = "draft" THEN "uploaded" ELSE @]
    /\ OnlyTheJob /\ UNCHANGED <<review_json, clerk, import_faults>>
cancel_job(i) ==
    /\ MaySend(i) /\ job' = [job EXCEPT !.status = "cancelled"]
    /\ OnlyTheJob /\ UNCHANGED <<review_json, clerk, import_faults>>
save_review_json(review) ==
    job' = [job EXCEPT !.review = TRUE, !.status = "review_ready"] /\ review_json' = review
upload_review_json(i, review) ==
    /\ MaySend(i) /\ save_review_json(review)
    /\ OnlyTheJob /\ UNCHANGED <<clerk, import_faults>>

\* Reading the scans: the provider returns the review that is there, or is not configured.
run_extract(i) ==
    /\ MaySend(i) /\ job' = [job EXCEPT !.status = "extracting"] /\ Clerk(i, [pc |-> "extract"])
    /\ OnlyTheJob /\ UNCHANGED <<review_json, import_faults>>
EndExtract(i) ==
    /\ clerk[i].pc = "extract" /\ Clerk(i, Free)
    /\ \/ job.review /\ save_review_json(review_json)
       \/ job' = [job EXCEPT !.status = IF review_json # NoReview THEN "review_ready" ELSE "uploaded"]
          /\ UNCHANGED review_json
    /\ OnlyTheJob /\ UNCHANGED <<imports, import_faults>>

\* A preview writes back the job it loaded before it read the tables.
get_preview(i, visible) ==
    /\ MaySend(i) /\ job.review
    /\ Clerk(i, [pc |-> "preview", job |-> job, review |-> review_json, visible |-> visible])
    /\ OnlyTheJob /\ UNCHANGED <<job, review_json, import_faults>>
ShowPreview(i) ==
    /\ clerk[i].pc = "preview" /\ job' = clerk[i].job
    /\ Clerk(i, [pc |-> "shown", review |-> clerk[i].review, visible |-> clerk[i].visible,
                 lines |-> _filter_preview_for_scope(build_preview(clerk[i].review, timesheets, leave_days), clerk[i].visible)])
    /\ OnlyTheJob /\ UNCHANGED <<review_json, imports, import_faults>>

-----------------------------------------------------------------------------
(* The import. *)
apply_import(i, dry_run) ==
    /\ MaySend(i) /\ job.review /\ job.status # "cancelled"
    /\ Clerk(i, [pc |-> "table", apply |-> ~dry_run, review |-> review_json, alone |-> TRUE])
    /\ OnlyTheJob /\ UNCHANGED <<job, review_json, import_faults>>
fetch_timesheets_map(i) ==
    /\ clerk[i].pc = "table"
    /\ Clerk(i, [pc |-> "leave", apply |-> clerk[i].apply, review |-> clerk[i].review, table |-> timesheets, alone |-> TRUE])
    /\ OnlyTheJob /\ UNCHANGED <<job, review_json, imports, import_faults>>

\* Duplicate sheets stop an import, not a dry run, which writes nothing.
fetch_leaves(i) ==
    LET aborts == clerk[i].apply /\ duplicate_sheet_groups(clerk[i].review)
        left == IF aborts \/ ~clerk[i].apply THEN <<>> ELSE PlannedWrites(clerk[i].review, clerk[i].table, leave_days)
    IN  /\ clerk[i].pc = "leave"
        /\ Clerk(i, [pc |-> IF DOMAIN left = {} THEN "report" ELSE "rows", apply |-> clerk[i].apply, aborted |-> aborts,
                     review |-> clerk[i].review, left |-> left, alone |-> clerk[i].alone])
        /\ OnlyTheJob /\ UNCHANGED <<job, review_json, imports, import_faults>>

\* Somebody writes: an import under way is not alone, and a preview is of the past.
Disturbed ==
    [i \in Importers |-> IF clerk[i].pc \in {"leave", "rows", "report"} THEN [clerk[i] EXCEPT !.alone = FALSE]
                         ELSE IF clerk[i].pc = "shown" THEN Free ELSE clerk[i]]

StillThere(row, id) == IF row = NoSheet THEN FALSE ELSE row.id = id

\* Sheet by sheet, and day by day.
NextLine(left) ==
    LET sheet == Min({l[1] : l \in DOMAIN left})
    IN  <<sheet, Min({l[2] : l \in {x \in DOMAIN left : x[1] = sheet}})>>

\* One row: an update of the row that was read, or an insert, which the constraint refuses
\* for a day that somebody has entered since; then the rest is not written.
apply_patch(i) ==
    LET line == NextLine(clerk[i].left)
        w == clerk[i].left[line]
        row == timesheets[w.key]
        crossed == row # w.existing /\ row # Patched(w.existing, w.patch)
        rest == [l \in DOMAIN clerk[i].left \ {line} |-> clerk[i].left[l]]
        mine == [clerk[i] EXCEPT !.left = rest, !.pc = IF DOMAIN rest = {} THEN "report" ELSE "rows"]
    IN  /\ clerk[i].pc = "rows"
        /\ \/ /\ w.existing # NoSheet /\ row # NoSheet /\ row.id = w.existing.id
              /\ timesheets' = [timesheets EXCEPT ![w.key] = Patched(row, w.patch)]
              /\ loose' = IF crossed \/ w.extra THEN loose \cup {w.key} ELSE loose
              /\ clerk' = [Disturbed EXCEPT ![i] = mine] /\ UNCHANGED row_ids
           \/ /\ w.existing = NoSheet /\ row = NoSheet
              /\ timesheets' = [timesheets EXCEPT ![w.key] = NewRow(row_ids + 1, Patched(NoSheet, w.patch))]
              /\ row_ids' = row_ids + 1
              /\ loose' = IF w.extra THEN loose \cup {w.key} ELSE loose \ {w.key}
              /\ clerk' = [Disturbed EXCEPT ![i] = mine]
           \/ /\ w.existing # NoSheet /\ ~StillThere(row, w.existing.id)
              /\ clerk' = [clerk EXCEPT ![i] = mine] /\ UNCHANGED <<timesheets, row_ids, loose>>
           \/ /\ w.existing = NoSheet /\ row # NoSheet
              /\ Clerk(i, Free) /\ UNCHANGED <<timesheets, row_ids, loose>>
        /\ settled' = NoReview
        /\ UNCHANGED <<leave_days, job, review_json, hand, counts>>

\* The report, and the job is completed.
save_apply_report(i) ==
    /\ clerk[i].pc = "report" /\ Clerk(i, Free)
    /\ job' = IF clerk[i].apply THEN [job EXCEPT !.status = "completed"] ELSE job
    /\ settled' = IF clerk[i].apply /\ ~clerk[i].aborted /\ clerk[i].alone THEN clerk[i].review ELSE settled
    /\ UNCHANGED <<sheet_tables, review_json, hand, loose, counts>>
ImportFails(i) ==
    /\ clerk[i].pc \in {"table", "leave", "rows", "report", "preview"} /\ import_faults < MaxImportFaults
    /\ import_faults' = import_faults + 1 /\ Clerk(i, Free)
    /\ UNCHANGED <<sheet_tables, job, review_json, hand, loose, settled, imports, hand_saves, leave_edits>>

-----------------------------------------------------------------------------
(* By hand. *)
MaySave(h) == hand[h] = Free /\ hand_saves < MaxHandSaves /\ hand_saves' = hand_saves + 1
OnlyTheHand == UNCHANGED <<leave_days, job, review_json, imports, leave_edits, import_faults>>

\* Looks for a row of that day first.
create_timesheet_entry(h, k, hours) ==
    /\ MaySave(h)
    /\ hand' = [hand EXCEPT ![h] =
          IF timesheets[k] = NoSheet THEN [pc |-> "insert", key |-> k, hours |-> hours]
          ELSE [pc |-> "update", key |-> k, hours |-> hours, id |-> timesheets[k].id]]
    /\ OnlyTheHand /\ UNCHANGED <<timesheets, row_ids, clerk, loose, settled>>

\* The form was opened with the row that is there.
update_timesheet_entry(h, k, hours) ==
    /\ MaySave(h) /\ timesheets[k] # NoSheet
    /\ hand' = [hand EXCEPT ![h] = [pc |-> "update", key |-> k, hours |-> hours, id |-> timesheets[k].id]]
    /\ OnlyTheHand /\ UNCHANGED <<timesheets, row_ids, clerk, loose, settled>>
Entered(k, row) == timesheets' = [timesheets EXCEPT ![k] = row] /\ loose' = IF AddsUp(row) THEN loose \ {k} ELSE loose \cup {k}
SaveEntry(h) ==
    LET k == hand[h].key
        row == timesheets[k]
    IN  /\ hand[h].pc # "free" /\ hand' = [hand EXCEPT ![h] = Free]
        /\ \/ /\ hand[h].pc = "insert" /\ row = NoSheet
              /\ Entered(k, NewRow(row_ids + 1, hand[h].hours))
              /\ row_ids' = row_ids + 1 /\ settled' = NoReview /\ clerk' = Disturbed
           \/ /\ hand[h].pc = "update" /\ StillThere(row, hand[h].id)
              /\ Entered(k, Over(row, hand[h].hours))
              /\ settled' = NoReview /\ clerk' = Disturbed /\ UNCHANGED row_ids
           \/ /\ IF hand[h].pc = "insert" THEN row # NoSheet ELSE ~StillThere(row, hand[h].id)
              /\ UNCHANGED <<timesheets, row_ids, loose, settled, clerk>>
        /\ OnlyTheHand /\ UNCHANGED hand_saves
delete_timesheet_entry(h, k) ==
    /\ MaySave(h) /\ timesheets[k] # NoSheet /\ timesheets' = [timesheets EXCEPT ![k] = NoSheet]
    /\ loose' = loose \ {k} /\ settled' = NoReview /\ clerk' = Disturbed
    /\ OnlyTheHand /\ UNCHANGED <<row_ids, hand>>

\* Leave is asked for, or rejected.
LeaveChanges(k) ==
    /\ leave_edits < MaxLeaveEdits /\ leave_edits' = leave_edits + 1
    /\ leave_days' = IF k \in leave_days THEN leave_days \ {k} ELSE leave_days \cup {k}
    /\ settled' = NoReview /\ clerk' = Disturbed
    /\ UNCHANGED <<timesheets, row_ids, job, review_json, hand, loose, imports, hand_saves, import_faults>>

SheetsNext ==
    \/ \E i \in Importers :
          \/ upload_pdf(i) \/ cancel_job(i) \/ run_extract(i) \/ EndExtract(i) \/ ShowPreview(i)
          \/ fetch_timesheets_map(i) \/ fetch_leaves(i) \/ apply_patch(i) \/ save_apply_report(i) \/ ImportFails(i)
          \/ \E review \in Reviews : upload_review_json(i, review)
          \/ \E visible \in Watchers : get_preview(i, visible)
          \/ \E dry_run \in BOOLEAN : apply_import(i, dry_run)
    \/ \E h \in Keepers :
          \/ SaveEntry(h)
          \/ \E k \in Keys : delete_timesheet_entry(h, k)
                             \/ \E hours \in HandRows : create_timesheet_entry(h, k, hours) \/ update_timesheet_entry(h, k, hours)
    \/ \E k \in Keys : LeaveChanges(k)

\* Any table to begin with.
Timetables ==
    {table \in [Keys -> SheetRows \cup {NoSheet}] :
        \A k \in Keys : table[k] # NoSheet => table[k].id \in 1 .. Cardinality({x \in Keys : table[x] # NoSheet})}
SheetsBegin == \E table \in Timetables, review \in Reviews \cup {NoReview} : SheetsInit(table, review)
SheetsSpec == SheetsBegin /\ [][SheetsNext]_sheet_vars

-----------------------------------------------------------------------------
(* "The total moves by exactly the change in the two fields the import owns": a day's     *)
(* total, once entered as the sum of its hours, stays that through any number of imports  *)
(* and retries after one that stopped half way, unless an import wrote over a day that    *)
(* was saved after it read it, or wrote a night on a day of leave.  An import that        *)
(* nothing crossed leaves every day as the scan has it: applied again it changes nothing, *)
(* unless two sheets it could not tell apart are about one day.  A preview proposes the   *)
(* writes of an import of the same moment, and of no person its reader may not see.       *)
Told(w) == LET row == timesheets[w.key]
           IN  w.patch = NoSheet \/ (row # NoSheet /\ Patched(row, w.patch) = row)
OncePerDay(review) ==
    \A a, b \in SheetLines(review) : KeyOf(review, a) = KeyOf(review, b) => a = b
ImportsAddUp ==
    /\ \A k \in Keys \ loose : timesheets[k] # NoSheet => AddsUp(timesheets[k])
    /\ settled # NoReview /\ OncePerDay(settled) =>
          \A line \in SheetLines(settled) : Told(WriteOf(settled, line, timesheets, leave_days))
    /\ \A i \in Importers : clerk[i].pc = "shown" =>
          LET planned == PlannedWrites(clerk[i].review, timesheets, leave_days)
          IN  {l.key : l \in clerk[i].lines} =
              {planned[l].key : l \in {x \in DOMAIN planned : planned[x].key[1] \in clerk[i].visible}}
=============================================================================
