---------------------------- MODULE PPERegister ----------------------------
(***************************************************************************)
(* The register of protective equipment (src/app/routers/ppe.py): records  *)
(* of issues, the events that move them under an idempotency key, and the  *)
(* replacement matrix whose every change recalculates the expiry of the    *)
(* active records, row by row; with what other parts write there: a change *)
(* of a person's department is carried into the records (employees.py), a  *)
(* deleted record is put back as it was (recently_deleted.py).  Dates are  *)
(* counted in months; an expiry is so many months after the issue, or      *)
(* none.  Each database call of a request is one step, the two reads of    *)
(* the effective matrix counting as one: a department's row is never       *)
(* removed, so they see one moment.                                        *)
(***************************************************************************)
EXTENDS Integers, FiniteSets

CONSTANTS
    PPERequests,   \* requests that may run at once
    PPERecords,    \* ids ppe_records may give out
    People, Types, Departments,
    Register0,     \* the department of each person, to begin with
    Shelf0,        \* the records, to begin with
    Separate,      \* SEPARATE_DEPARTMENTS, which may have a matrix of their own
    Company,       \* the scope that is no department
    Default,       \* PPE_MATRIX_DEFAULTS
    Intervals,     \* months a matrix entry may be set to; 0 is no expiry
    IssueDates,
    Patches,       \* what an edit form may send
    Keys, Form,    \* idempotency keys, and the event each is sent with
    NoPPE,         \* no row
    MaxPPECalls,   \* bound: requests in all
    MaxPPELost     \* bound: calls that fail

Scopes == Separate \cup {Company}
NoExpiry == -1
Expiries == Int
PPEPatch == [issued : IssueDates] \cup [expiry : Expiries] \cup [status : {"active", "returned"}]
            \cup [person : People] \cup [type : Types] \cup [department : Departments]
PPERow == [person : People, department : Departments, type : Types, issued : IssueDates,
           expiry : Expiries, status : {"active", "returned"}]
Events ==
    [kind : {"issue"}, person : People, type : Types, date : IssueDates]
    \cup [kind : {"return"}, record : PPERecords]
    \cup [kind : {"correction"}, record : PPERecords,
          patch : [issued : IssueDates] \cup [expiry : Expiries]
                    \cup [issued : IssueDates, expiry : Expiries]]

ASSUME PPEAssumption ==
    /\ Register0 \in [People -> Departments] /\ Separate \subseteq Departments
    /\ Shelf0 \in [PPERecords -> PPERow \cup {NoPPE}]
    /\ Company \notin Departments /\ NoPPE \notin PPERow
    /\ Intervals \subseteq Nat /\ Default \in [Types -> Nat] /\ IssueDates \subseteq Nat
    /\ Patches \subseteq PPEPatch /\ Form \in [Keys -> Events]
ASSUME PPEBoundAssumption == MaxPPECalls \in Nat /\ MaxPPELost \in Nat

VARIABLES
    works_in,    \* employees: the department of each person
    records,     \* ppe_records
    recordIds,   \* ids given out
    bin,         \* deleted_records, per record: its copies not put back (alike, they are one)
    events,      \* ppe_events: the idempotency keys it holds
    matrix,      \* ppe_matrix, per type and scope: months, or Unset
    ask,         \* per request: what it is about to do
    written,     \* history, per key: movements of the register under it
    shared,      \* history: keys worked on again beside a request or past their event
    unlogged,    \* history: keys whose event was not written after its movement
    settled,     \* history: records whose expiry came of the matrix last
    drifted,     \* history: <<type, department>> whose records need not follow it
    ppeCalls, ppeLost

ppe_vars == <<works_in, records, recordIds, bin, events, matrix, ask, written, shared, unlogged,
              settled, drifted, ppeCalls, ppeLost>>

Unset == -1
Resting == [step |-> "rest"]
Matrices == [Types \X Scopes -> Intervals \cup {Unset}]

PPETypeOK ==
    /\ works_in \in [People -> Departments] /\ bin \in [PPERecords -> SUBSET PPERow]
    /\ records \in [PPERecords -> PPERow \cup {NoPPE}]
    /\ {i \in PPERecords : records[i] # NoPPE \/ bin[i] # {}} \subseteq recordIds /\ recordIds \subseteq PPERecords
    /\ events \subseteq Keys /\ shared \subseteq Keys /\ unlogged \subseteq Keys
    /\ matrix \in Matrices
    /\ written \in [Keys -> Nat]
    /\ settled \subseteq recordIds /\ drifted \subseteq Types \X Departments
    /\ ppeCalls \in 0 .. MaxPPECalls /\ ppeLost \in 0 .. MaxPPELost

PPEInit ==
    /\ works_in = Register0
    /\ records = Shelf0 /\ recordIds = {i \in PPERecords : Shelf0[i] # NoPPE}
    /\ bin = [i \in PPERecords |-> {}]
    /\ events = {}
    /\ matrix = [k \in Types \X Scopes |-> Unset]
    /\ ask = [c \in PPERequests |-> Resting]
    /\ written = [k \in Keys |-> 0] /\ shared = {} /\ unlogged = {}
    /\ settled = {} /\ drifted = {}
    /\ ppeCalls = 0 /\ ppeLost = 0

-----------------------------------------------------------------------------
Ask(c, next) == ask' = [ask EXCEPT ![c] = next]
Rest(c) == Ask(c, Resting)

PPEBegins(c) ==
    /\ ask[c] = Resting
    /\ ppeCalls < MaxPPECalls
    /\ ppeCalls' = ppeCalls + 1

PPEGoes(c, step) ==
    /\ ask[c].step = step
    /\ UNCHANGED <<ppeCalls, ppeLost>>

\* existing_duplicate: a record not closed, of the same person, kind and day.
Duplicate(row, i) ==
    \E j \in PPERecords \ {i} :
        /\ records[j] # NoPPE
        /\ records[j].status # "returned"
        /\ <<records[j].person, records[j].type, records[j].issued>>
             = <<row.person, row.type, row.issued>>

\* ppe_one_record_per_issue, the unique index over the records not closed.
Refuses(row, i) == row.status # "returned" /\ Duplicate(row, i)

\* _effective_matrix of one type: the scope's own row, the company's, the default.
Effective(type, scope) ==
    IF scope \in Separate /\ matrix[<<type, scope>>] # Unset THEN matrix[<<type, scope>>]
    ELSE IF matrix[<<type, Company>>] # Unset THEN matrix[<<type, Company>>]
    ELSE Default[type]

\* _add_months, where an interval of 0 clears the date.
Expiry(issued, interval) == IF interval = 0 THEN NoExpiry ELSE issued + interval

\* Where a record stands: its type and the department it was stamped with.
Place(row) == <<row.type, row.department>>
Covers(scope) == IF scope = Company THEN Departments ELSE {scope}

\* What requests under way are about to give records an expiry for.
Plans(c) == IF "plan" \in DOMAIN ask[c] THEN (DOMAIN ask[c].plan) \X Covers(ask[c].scope) ELSE {}
Doing(c) ==
    IF ask[c].step = "recalculate" THEN {ask[c].type} \X Covers(ask[c].scope) ELSE {}
Stamps(c) ==
    IF ask[c].step = "insert" /\ "key" \in DOMAIN ask[c] THEN {Place(ask[c].row)} ELSE {}
\* Rows it has yet to write, which may have been moved to another place.
RowsLeft(c) == IF ask[c].step = "recalculate" THEN {row.id : row \in ask[c].todo} ELSE {}
Strays(c) == {Place(records[i]) : i \in {i \in RowsLeft(c) : records[i] # NoPPE}}
UnderWay(c) == Plans(c) \cup Doing(c) \cup Strays(c) \cup Stamps(c)

\* History: rows written otherwise than by the matrix.  Where they come to stand
\* need not follow it if they are being recalculated.
Edited ==
    LET rows == {i \in PPERecords : records'[i] # records[i]} IN
    /\ settled' = settled \ rows
    /\ drifted' = drifted \cup {Place(records'[i]) :
            i \in {i \in rows : records'[i] # NoPPE /\ \E c \in PPERequests : i \in RowsLeft(c)}}

Untouched == UNCHANGED <<settled, drifted>>
NoMovement == UNCHANGED <<written, shared, unlogged>>
NobodyMoved == UNCHANGED <<works_in, bin>>

-----------------------------------------------------------------------------
(* Records entered and edited by hand *)

create_ppe_record(c, row) ==
    /\ PPEBegins(c) /\ UNCHANGED ppeLost
    /\ row.status = "active" /\ row.department = works_in[row.person]
    /\ ~Duplicate(row, NoPPE)
    /\ Ask(c, [step |-> "insert", row |-> row])
    /\ Untouched /\ NoMovement /\ NobodyMoved
    /\ UNCHANGED <<records, recordIds, events, matrix>>

Patched(row, patch) ==
    [f \in DOMAIN row |-> IF f \in DOMAIN patch THEN patch[f] ELSE row[f]]

\* A row that goes to another person is stamped with that person's department.
Stamped(row, patch) ==
    IF "person" \notin DOMAIN patch THEN patch
    ELSE IF patch.person = row.person THEN <<>>
    ELSE [person |-> patch.person, department |-> works_in[patch.person]]

\* The row is read and, where the form moves its person, its type or its date,
\* looked up among the others; the reads are one step, since each can only refuse.
update_ppe_record(c, i, patch) ==
    LET stamped == Stamped(records[i], patch) IN
    /\ PPEBegins(c) /\ UNCHANGED ppeLost
    /\ records[i] # NoPPE
    /\ DOMAIN stamped \cap {"person", "type", "issued"} # {} => ~Duplicate(Patched(records[i], stamped), i)
    /\ Ask(c, [step |-> "update", id |-> i, patch |-> stamped])
    /\ Untouched /\ NoMovement /\ NobodyMoved
    /\ UNCHANGED <<records, recordIds, events, matrix>>

UpdateRecord(c) ==
    LET i == ask[c].id  row == Patched(records[i], ask[c].patch) IN
    /\ PPEGoes(c, "update")
    /\ Rest(c)
    /\ IF records[i] = NoPPE \/ Refuses(row, i) THEN Untouched /\ UNCHANGED records
       ELSE records' = [records EXCEPT ![i] = row] /\ Edited
    /\ NoMovement /\ NobodyMoved
    /\ UNCHANGED <<recordIds, events, matrix>>

delete_ppe_record(c, i) ==
    /\ PPEBegins(c) /\ UNCHANGED ppeLost
    /\ records[i] # NoPPE
    /\ records' = [records EXCEPT ![i] = NoPPE]
    /\ bin' = [bin EXCEPT ![i] = @ \cup {records[i]}]
    /\ Edited
    /\ NoMovement
    /\ UNCHANGED <<recordIds, events, matrix, ask, works_in>>

-----------------------------------------------------------------------------
(* What Recently deleted and the employee register write *)

\* A copy that was not put back, of a record that is not there.
restore_record(c, i, row) ==
    /\ PPEBegins(c) /\ UNCHANGED ppeLost
    /\ row \in bin[i] /\ records[i] = NoPPE
    /\ Ask(c, [step |-> "restore", id |-> i, row |-> row])
    /\ Untouched /\ NoMovement /\ NobodyMoved
    /\ UNCHANGED <<records, recordIds, events, matrix>>

\* The row exactly as it was, unless the database refuses it.
PutRecordBack(c) ==
    LET i == ask[c].id  row == ask[c].row IN
    /\ PPEGoes(c, "restore")
    /\ IF records[i] # NoPPE \/ Refuses(row, i) THEN Rest(c) /\ Untouched /\ UNCHANGED records
       ELSE /\ records' = [records EXCEPT ![i] = row]
            /\ Ask(c, [step |-> "mark", id |-> i, row |-> row])
            /\ Edited
    /\ NoMovement /\ NobodyMoved
    /\ UNCHANGED <<recordIds, events, matrix>>

MarkBack(c) ==
    /\ PPEGoes(c, "mark")
    /\ bin' = [bin EXCEPT ![ask[c].id] = @ \ {ask[c].row}]
    /\ Rest(c)
    /\ Untouched /\ NoMovement
    /\ UNCHANGED <<records, recordIds, events, matrix, works_in>>

\* update_employee: the person is read, written, and followed if the department
\* is not the one that was read.
edit_department(c, p, d) ==
    /\ PPEBegins(c) /\ UNCHANGED ppeLost
    /\ Ask(c, [step |-> "employ", person |-> p, department |-> d, moved |-> d # works_in[p]])
    /\ Untouched /\ NoMovement /\ NobodyMoved
    /\ UNCHANGED <<records, recordIds, events, matrix>>

EmployIn(c) ==
    LET person == ask[c].person  department == ask[c].department IN
    /\ PPEGoes(c, "employ")
    /\ works_in' = [works_in EXCEPT ![person] = department]
    /\ IF ask[c].moved THEN Ask(c, [step |-> "follow", person |-> person, department |-> department])
       ELSE Rest(c)
    /\ Untouched /\ NoMovement
    /\ UNCHANGED <<records, recordIds, events, matrix, bin>>

\* _follow_changed_employee: every record of the person, whose expiry stays.
FollowPerson(c) ==
    /\ PPEGoes(c, "follow")
    /\ records' = [i \in PPERecords |->
            IF records[i] # NoPPE /\ records[i].person = ask[c].person
            THEN [records[i] EXCEPT !.department = ask[c].department] ELSE records[i]]
    /\ Rest(c)
    /\ Edited
    /\ NoMovement /\ NobodyMoved
    /\ UNCHANGED <<recordIds, events, matrix>>

-----------------------------------------------------------------------------
(* Events *)

\* A mutant: the key is not looked up.
NeverReplayed(k) == FALSE

\* A key that has its event answers the stored result and changes nothing.
Replayed(k) == k \in events

Works(k) == \E d \in PPERequests : "key" \in DOMAIN ask[d] /\ ask[d].key = k

TakesForm(c, k) ==
    /\ PPEBegins(c)
    /\ Ask(c, [step |-> IF Form[k].kind = "issue" THEN "check" ELSE "read", key |-> k])
    /\ Untouched /\ NobodyMoved
    /\ UNCHANGED <<records, recordIds, events, matrix, written, unlogged>>

record_ppe_event(c, k) ==
    /\ TakesForm(c, k) /\ UNCHANGED ppeLost
    /\ ~Replayed(k)
    /\ shared' = shared \cup {j \in {k} : Works(k)}

\* The lookup of the key fails, which is taken for a key that has no event.
KeyUnread(c, k) ==
    /\ TakesForm(c, k) /\ ppeLost < MaxPPELost /\ ppeLost' = ppeLost + 1
    /\ shared' = shared \cup {j \in {k} : Works(k) \/ k \in events}

IssueRow(form, department, expiry) ==
    [person |-> form.person, department |-> department, type |-> form.type, issued |-> form.date,
     expiry |-> expiry, status |-> "active"]

\* _event_issue: the person is read; refused as a duplicate, or on to the matrix.
CheckIssue(c) ==
    LET form == Form[ask[c].key]  department == works_in[form.person] IN
    /\ PPEGoes(c, "check")
    /\ IF Duplicate(IssueRow(form, department, NoExpiry), NoPPE) THEN Rest(c)
       ELSE Ask(c, [step |-> "matrix", key |-> ask[c].key, department |-> department])
    /\ Untouched /\ NoMovement /\ NobodyMoved
    /\ UNCHANGED <<records, recordIds, events, matrix>>

ReadMatrix(c) ==
    LET form == Form[ask[c].key]  department == ask[c].department
        interval == Effective(form.type, department)
    IN
    /\ PPEGoes(c, "matrix")
    /\ Ask(c, [step |-> "insert", key |-> ask[c].key,
               row |-> IssueRow(form, department, Expiry(form.date, interval))])
    /\ Untouched /\ NoMovement /\ NobodyMoved
    /\ UNCHANGED <<records, recordIds, events, matrix>>

\* The row is stored: by hand, or by an event, which goes on to be logged.
InsertRecord(c) ==
    LET row == ask[c].row IN
    /\ PPEGoes(c, "insert")
    /\ IF Refuses(row, NoPPE)
       THEN Rest(c) /\ UNCHANGED <<records, recordIds, written, settled>>
       ELSE \E i \in PPERecords \ recordIds :
              /\ records' = [records EXCEPT ![i] = row]
              /\ recordIds' = recordIds \cup {i}
              /\ IF "key" \in DOMAIN ask[c]
                 THEN /\ written' = [written EXCEPT ![ask[c].key] = @ + 1]
                      /\ settled' = settled \cup {i}
                      /\ Ask(c, [step |-> "log", key |-> ask[c].key])
                 ELSE Rest(c) /\ UNCHANGED <<written, settled>>
    /\ NobodyMoved
    /\ UNCHANGED <<events, matrix, shared, unlogged, drifted>>

\* What _event_return asks of the row it read.
Returnable(row) == row # NoPPE /\ row.status = "active"

\* _event_return and _event_correction read the record they move.
ReadRecord(c) ==
    LET form == Form[ask[c].key]
        ok == IF form.kind = "return" THEN Returnable(records[form.record])
              ELSE records[form.record] # NoPPE
    IN
    /\ PPEGoes(c, "read")
    /\ IF ok THEN Ask(c, [step |-> "move", key |-> ask[c].key]) ELSE Rest(c)
    /\ Untouched /\ NoMovement /\ NobodyMoved
    /\ UNCHANGED <<records, recordIds, events, matrix>>

\* The UPDATE, by id alone: the status, or a date without a look for duplicates.
MoveRecord(c) ==
    LET form == Form[ask[c].key]
        i == form.record
        moved == IF form.kind = "return" THEN [records[i] EXCEPT !.status = "returned"]
                 ELSE Patched(records[i], form.patch)
    IN
    /\ PPEGoes(c, "move")
    /\ IF records[i] # NoPPE /\ Refuses(moved, i)
       THEN Rest(c) /\ Untouched /\ UNCHANGED <<records, written>>
       ELSE /\ Ask(c, [step |-> "log", key |-> ask[c].key])
            /\ written' = [written EXCEPT ![ask[c].key] = @ + 1]
            /\ IF records[i] = NoPPE THEN Untouched /\ UNCHANGED records
               ELSE records' = [records EXCEPT ![i] = moved] /\ Edited
    /\ NobodyMoved
    /\ UNCHANGED <<recordIds, events, matrix, shared, unlogged>>

\* The event; its key is unique, and a key taken meanwhile answers its result.
LogEvent(c) ==
    /\ PPEGoes(c, "log")
    /\ events' = events \cup {ask[c].key}
    /\ Rest(c)
    /\ Untouched /\ NoMovement /\ NobodyMoved
    /\ UNCHANGED <<records, recordIds, matrix>>

-----------------------------------------------------------------------------
(* The matrix *)

\* History: the records a change of the matrix finds, unless they are kept by a
\* matrix of their own, follow it from now on; those that another request is
\* giving an expiry for need not.
Follows(type, scope, others) ==
    LET own == {d \in Covers(scope) :
                  scope = Company /\ d \in Separate /\ matrix[<<type, d>>] # Unset}
        hit == {type} \X Covers(scope)
        busy == hit \cap UNION {UnderWay(c) : c \in others}
    IN (drifted \ (hit \ busy)) \cup busy \cup ({type} \X own)

Planned(c, scope, plan) ==
    Ask(c, [step |-> "select", scope |-> scope, plan |-> plan])

\* The upsert, then every active record of the type.
set_ppe_matrix_entry(c, type, scope, interval) ==
    /\ PPEBegins(c) /\ UNCHANGED ppeLost
    /\ matrix' = [matrix EXCEPT ![<<type, scope>>] = interval]
    /\ Planned(c, scope, [t \in {type} |-> interval])
    /\ drifted' = Follows(type, scope, PPERequests \ {c})
    /\ NoMovement /\ NobodyMoved
    /\ UNCHANGED <<records, recordIds, events, settled>>

\* What a read that fails is answered by: the query tried in its place does not
\* ask for the department, so any scope's row may count as the company's, and
\* without it the defaults stand.
Unread(type) == ({matrix[<<type, s>>] : s \in Scopes} \cup {Default[type]}) \ {Unset}

\* The matrix is read once for every type to be recalculated.
Applies(c, scope, plan) ==
    /\ PPEBegins(c)
    /\ Planned(c, scope, plan)
    /\ drifted' = drifted \cup
         {place \in (DOMAIN plan) \X Covers(scope) : plan[place[1]] # Effective(place[1], place[2])}
    /\ NoMovement /\ NobodyMoved
    /\ UNCHANGED <<records, recordIds, events, matrix, settled>>

\* One type, or with apply_ppe_matrix_all every type, in the caller's scope.
apply_ppe_matrix(c, types, scope) ==
    Applies(c, scope, [t \in types |-> Effective(t, scope)]) /\ UNCHANGED ppeLost

\* _apply_matrix_to_type: the active records of the next type, as they are now.
SelectRecords(c) ==
    /\ PPEGoes(c, "select")
    /\ \E type \in DOMAIN ask[c].plan :
          Ask(c, [step |-> "recalculate", scope |-> ask[c].scope, type |-> type,
                  interval |-> ask[c].plan[type],
                  plan |-> [t \in (DOMAIN ask[c].plan) \ {type} |-> ask[c].plan[t]],
                  todo |-> {[id |-> i, issued |-> records[i].issued] : i \in
                     {i \in PPERecords :
                        /\ records[i] # NoPPE
                        /\ records[i].type = type /\ records[i].status = "active"
                        /\ records[i].department \in Covers(ask[c].scope)}}])
    /\ Untouched /\ NoMovement /\ NobodyMoved
    /\ UNCHANGED <<records, recordIds, events, matrix>>

\* A mutant: an interval of 0 leaves the old date.
KeepsOldExpiry(row, interval) ==
    IF interval = 0 THEN records[row.id].expiry ELSE row.issued + interval

\* From the date the row was read with; 0 clears it.
NewExpiry(row, interval) == Expiry(row.issued, interval)

\* One row, by id alone.
RecalculateRow(c) ==
    /\ PPEGoes(c, "recalculate")
    /\ \E row \in ask[c].todo :
          /\ Ask(c, [ask[c] EXCEPT !.todo = @ \ {row}])
          /\ IF records[row.id] = NoPPE THEN UNCHANGED <<records, settled>>
             ELSE /\ records' = [records EXCEPT
                         ![row.id].expiry = NewExpiry(row, ask[c].interval)]
                  /\ settled' = settled \cup {row.id}
    /\ NoMovement /\ NobodyMoved
    /\ UNCHANGED <<recordIds, events, matrix, drifted>>

\* On with the types that are left.
NextType(c) ==
    IF DOMAIN ask[c].plan = {} THEN Rest(c) ELSE Planned(c, ask[c].scope, ask[c].plan)

TypeDone(c) ==
    /\ PPEGoes(c, "recalculate")
    /\ ask[c].todo = {}
    /\ NextType(c)
    /\ Untouched /\ NoMovement /\ NobodyMoved
    /\ UNCHANGED <<records, recordIds, events, matrix>>

-----------------------------------------------------------------------------
(* Calls that fail *)

PPELoses(c) ==
    /\ ask[c] # Resting
    /\ ppeLost < MaxPPELost
    /\ ppeLost' = ppeLost + 1
    /\ NobodyMoved
    /\ UNCHANGED <<recordIds, events, matrix, written, shared, settled, ppeCalls, records>>

\* The request ends here, by an error or with its process.  A movement whose
\* reply or whose event is lost has none.
PPEStops(c) ==
    /\ PPELoses(c)
    /\ Rest(c)
    /\ unlogged' = unlogged \cup (IF ask[c].step = "log" THEN {ask[c].key} ELSE {})
    /\ drifted' = drifted \cup Plans(c) \cup Doing(c)

\* The matrix cannot be read, which is logged and goes on with what is left.
MatrixUnread(c) ==
    LET form == Form[ask[c].key]  department == ask[c].department IN
    /\ PPELoses(c)
    /\ ask[c].step = "matrix"
    /\ \E interval \in Unread(form.type) :
          Ask(c, [step |-> "insert", key |-> ask[c].key,
                  row |-> IssueRow(form, department, Expiry(form.date, interval))])
    /\ drifted' = drifted \cup {<<form.type, department>>}
    /\ UNCHANGED unlogged

\* Likewise, and every record of the type is recalculated by it.
apply_unread(c, type, scope) ==
    /\ ppeLost < MaxPPELost /\ ppeLost' = ppeLost + 1
    /\ \E interval \in Unread(type) : Applies(c, scope, [t \in {type} |-> interval])

\* A type fails: apply_ppe_matrix_all names it and takes the next one.
TypeFails(c) ==
    /\ PPELoses(c)
    /\ ask[c].step = "recalculate"
    /\ NextType(c)
    /\ drifted' = drifted \cup Doing(c)
    /\ UNCHANGED unlogged

-----------------------------------------------------------------------------
PPENext ==
    \/ \E c \in PPERequests :
          \/ \E p \in People, t \in Types, d \in IssueDates :
                create_ppe_record(c, [person |-> p, department |-> works_in[p], type |-> t, issued |-> d,
                                      expiry |-> NoExpiry, status |-> "active"])
          \/ \E i \in PPERecords :
                \/ \E patch \in Patches : update_ppe_record(c, i, patch)
                \/ delete_ppe_record(c, i)
                \/ \E row \in bin[i] : restore_record(c, i, row)
          \/ \E p \in People, d \in Departments : edit_department(c, p, d)
          \/ PutRecordBack(c) \/ MarkBack(c) \/ EmployIn(c) \/ FollowPerson(c)
          \/ \E k \in Keys : record_ppe_event(c, k) \/ KeyUnread(c, k)
          \/ \E t \in Types, scope \in Scopes, n \in Intervals : set_ppe_matrix_entry(c, t, scope, n)
          \/ \E types \in {{t} : t \in Types} \cup {Types}, scope \in Scopes :
                apply_ppe_matrix(c, types, scope)
          \/ \E t \in Types, scope \in Scopes : apply_unread(c, t, scope)
          \/ UpdateRecord(c) \/ CheckIssue(c) \/ ReadMatrix(c) \/ InsertRecord(c)
          \/ ReadRecord(c) \/ MoveRecord(c) \/ LogEvent(c)
          \/ SelectRecords(c) \/ RecalculateRow(c) \/ TypeDone(c)
          \/ PPEStops(c) \/ MatrixUnread(c) \/ TypeFails(c)

PPESpec == PPEInit /\ [][PPENext]_ppe_vars

-----------------------------------------------------------------------------
\* "Replaying an idempotency_key returns the stored result instead of writing
\* twice", "every Mining register movement is one event row": a key that is not
\* under way has moved the register once if it has its event and not at all if
\* it has none, unless the event was lost after its movement, or the key was
\* sent again beside a request that used it or while its lookup failed.
OneEventPerMovement ==
    \A k \in Keys \ (shared \cup unlogged) :
        (\A c \in PPERequests : "key" \in DOMAIN ask[c] => ask[c].key # k)
            => written[k] = (IF k \in events THEN 1 ELSE 0)

\* "The matrix and stored data never drift apart": an active record whose expiry
\* came of the matrix last, and that was not edited, moved to a department with
\* its person or put back since, has the expiry that the matrix of its department
\* gives it, unless a recalculation of its place failed, met another or such a
\* change, or was the company's in a department with a matrix of its own.
ExpiryFollowsMatrix ==
    /\ PPETypeOK
    /\ \A i \in settled :
        records[i] # NoPPE =>
            LET row == records[i]  place == Place(row) IN
            row.status = "active" /\ place \notin drifted
                /\ (\A c \in PPERequests : place \notin UnderWay(c))
            => row.expiry = Expiry(row.issued, Effective(place[1], place[2]))
=============================================================================
