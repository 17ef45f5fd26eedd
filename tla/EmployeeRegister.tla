-------------------------- MODULE EmployeeRegister --------------------------
(***************************************************************************)
(* The employee register and the records that name a person by number:     *)
(* entering, editing and deleting people, an edit carried into the copies  *)
(* their overtime, leave and PPE keep, the import of a workbook and its    *)
(* undo, each through the audited client of DeletedRecords, call by call.  *)
(***************************************************************************)
EXTENDS DeletedRecords, FiniteSetsExt

CONSTANTS
    Numbers,           \* what people enter as an employee id
    Abouts,            \* ... and as name, designation, department and section
    Unfilled,          \* of Abouts: with blanks an import may fill
    Elsewhere,         \* of Abouts: of another department than an import's
    Things,            \* what tells the records of one person in one table apart
    NoItem,            \* a row of a workbook that issues nothing
    Workbooks,         \* files to import: sequences of [number, about, item]
    Tasks,             \* kinds of requests, in the orders they may begin in
    MaxImports         \* bound: rows of employee_imports

VARIABLES
    imports,           \* employee_imports
    tasks, taken,      \* the kinds of this behaviour (fixed), and how many began
    whose,             \* history, per record: the person it was entered for
    crossed,           \* history: people two requests met over or an edit was only half carried for; records put back
    untold             \* history: people whose row changed in a way that is not carried on

employee_vars == <<trash_vars, imports, tasks, taken, whose, crossed, untold>>

\* Rows as the register and the tables of the records hold them.
Articles == Things \cup {NoItem} \cup UNION {{file[k].item : k \in DOMAIN file} : file \in Workbooks}
Rows == [table : Tables \cup {"employees"}, number : Numbers \cup {NoRow}, about : Abouts \cup {NoRow}, item : Articles]
ASSUME EmployeesAssumption ==
    /\ NoRow \notin Rows
    /\ \A file \in Workbooks : file \in Seq([number : Numbers, about : Abouts, item : Articles])

Staff == Held \cap PersonIds
Records == Held \cap PaperIds
Numbered(number) == {p \in Staff : personnel[p].number = number}
Person(number, about) == [table |-> "employees", number |-> number, about |-> about, item |-> NoItem]
Paper(t, person, item) == [table |-> t, number |-> person.number, about |-> person.about, item |-> item]

EmployeesInit(with, rows, kinds) ==
    /\ TrashInit(with, rows)
    /\ imports = <<>>
    /\ tasks = kinds /\ taken = 0
    /\ whose = [r \in PaperIds |-> IF r \in Records THEN CHOOSE p \in Numbered(personnel[r].number) : TRUE ELSE 0]
    /\ crossed = {} /\ untold = {}

-----------------------------------------------------------------------------
(* What the steps have in common. *)

\* The people a request is about: it read or writes them, or they or a record of theirs have
\* a number it names.
Concerns(at, rows, of) ==
    LET named == {i \in RowIds : rows[i] # NoRow /\ rows[i].number \in at.numbers}
    IN  at.people \cup (named \cap PersonIds) \cup {of[r] : r \in named \cap PaperIds}
Met(o) ==
    (Concerns(office[o], personnel, whose) \cup Concerns(office'[o], personnel', whose'))
    \cap UNION {Concerns(office[q], personnel', whose') : q \in Officers \ {o}}
Tracks(o) == crossed' = crossed \cup Met(o)

Takes(o, kind) ==
    /\ office[o] = Away /\ owed[o] = Nothing
    /\ taken < Len(tasks) /\ tasks[taken + 1] = kind
    /\ taken' = taken + 1

shelf == <<keys, copies, noted, unkept, unnoted, put_back, reopened, office_faults, tasks>>
Reads(o) == UNCHANGED <<shelf, personnel, owed, gone, imports, whose, untold>> /\ Tracks(o)
Writes(o) == UNCHANGED <<shelf, gone, imports>> /\ Tracks(o)

\* The serial of a table: ids are not used again.
Unused(S) == {i \in S : personnel[i] = NoRow /\ gone[i] = NoRow}
Stores(o, S, row) == Unused(S) # {} /\ Inserts(o, Min(Unused(S)), row)

-----------------------------------------------------------------------------
(* Records of people. *)

\* An overtime or leave form holds the person it was opened for, as the browser read the row; a
\* PPE record is stamped from the row as the handler reads it.
create_record(o, p, t, item) ==
    /\ Takes(o, "enter") /\ p \in Staff
    /\ Turns(o, Request(IF t = "ppe_records" THEN "twice" ELSE "enter", {p}, {})
                ++ [who |-> p, new |-> Paper(t, personnel[p], item)])
    /\ Reads(o)

existing_duplicate(o) ==
    /\ Ready(o, "twice")
    /\ IF Same(office[o].new) # {} THEN Answers(o) ELSE Turns(o, [office[o] EXCEPT !.pc = "enter"])
    /\ UNCHANGED taken /\ Reads(o)

EnterRecord(o) ==
    /\ Ready(o, "enter")
    /\ IF Fits(office[o].new)
       THEN /\ Stores(o, PaperIds, office[o].new)
            /\ whose' = [whose EXCEPT ![Min(Unused(PaperIds))] = office[o].who]
       ELSE UNCHANGED <<personnel, owed, whose>>
    /\ Answers(o)
    /\ UNCHANGED <<taken, untold>> /\ Writes(o)

delete_record(o, r) ==
    /\ Takes(o, "drop") /\ r \in Records
    /\ Deletes(o, r)
    /\ UNCHANGED <<office, shelf, imports, whose, crossed, untold>>

-----------------------------------------------------------------------------
(* Staff. *)

create_employee(o, number, about) ==
    /\ Takes(o, "create") /\ Numbered(number) = {}
    /\ Turns(o, Request("create", {}, {number}) ++ [new |-> Person(number, about)])
    /\ Reads(o)

InsertPerson(o) ==
    /\ Ready(o, "create")
    /\ IF Fits(office[o].new) THEN Stores(o, PersonIds, office[o].new) ELSE UNCHANGED <<personnel, owed>>
    /\ Answers(o)
    /\ UNCHANGED <<taken, whose, untold>> /\ Writes(o)

update_employee(o, p, number, about) ==
    /\ Takes(o, "edit") /\ p \in Staff
    /\ LET old == personnel[p]
       IN  Turns(o, Request(IF number # old.number THEN "number" ELSE "save", {p}, {old.number, number})
                    ++ [who |-> p, old |-> old, new |-> Person(number, about), steps |-> <<>>])
    /\ Reads(o)

FindNumber(o) ==
    /\ Ready(o, "number")
    /\ IF Numbered(office[o].new.number) \ {office[o].who} # {} THEN Answers(o)
       ELSE Turns(o, [office[o] EXCEPT !.pc = "save"])
    /\ UNCHANGED taken /\ Reads(o)

Copied == <<"overtime", "leaves", "ppe_records">>
\* A mutant: the equipment is forgotten.
TwoTables == <<"overtime", "leaves">>
_RECORDS_BY_EMPLOYEE_ID == <<"overtime", "leaves", "ppe_records">>

\* The updates an edit is followed by: of the number, then of what is copied.
_follow_changed_employee(old, new) ==
    LET On(field, tables) == [k \in DOMAIN tables |-> [field |-> field, table |-> tables[k]]]
    IN  (IF new.number # old.number THEN On("number", _RECORDS_BY_EMPLOYEE_ID) ELSE <<>>)
        \o (IF new.about # old.about THEN On("about", Copied) ELSE <<>>)

\* ids would stand beside a record that already has their number and item.
WouldClash(ids, number) == \E i \in ids : Same([personnel[i] EXCEPT !.number = number]) \ ids # {}

\* The row, with ON UPDATE CASCADE where the foreign keys are there.
SavePerson(o) ==
    /\ Ready(o, "save")
    /\ LET p == office[o].who
           new == office[o].new
           steps == _follow_changed_employee(office[o].old, new)
           moved == IF p \in Staff /\ keys THEN {r \in Records : personnel[r].number = personnel[p].number} ELSE {}
       IN  IF p \notin Staff \/ Numbered(new.number) \ {p} # {} \/ WouldClash(moved, new.number)
           THEN Answers(o) /\ UNCHANGED personnel
           ELSE /\ personnel' = [i \in RowIds |->
                       IF i = p THEN new
                       ELSE IF i \in moved THEN [personnel[i] EXCEPT !.number = new.number] ELSE personnel[i]]
                /\ IF steps = <<>> THEN Answers(o)
                   ELSE Turns(o, [office[o] EXCEPT !.pc = "follow", !.steps = steps])
    /\ UNCHANGED <<owed, taken, whose, untold>> /\ Writes(o)

\* One table at a time. A number nobody has is refused where the foreign keys are there, and
\* one that has such a record everywhere.
Follow(o) ==
    /\ Ready(o, "follow")
    /\ LET at == office[o]
           step == Head(at.steps)
           named == Papers(IF step.field = "number" THEN at.old.number ELSE at.new.number, step.table)
           refused == /\ step.field = "number"
                      /\ \/ WouldClash(named, at.new.number)
                         \/ keys /\ named # {} /\ Numbered(at.new.number) = {}
       IN  /\ personnel' = [i \in RowIds |->
                  IF i \notin named \/ refused THEN personnel[i]
                  ELSE IF step.field = "number" THEN [personnel[i] EXCEPT !.number = at.new.number]
                  ELSE [personnel[i] EXCEPT !.about = at.new.about]]
           /\ IF refused \/ Len(at.steps) = 1 THEN Answers(o) ELSE Turns(o, [at EXCEPT !.steps = Tail(@)])
           /\ UNCHANGED <<shelf, gone, imports, owed, taken, whose, untold>>
           /\ crossed' = crossed \cup Met(o) \cup IF refused THEN at.people ELSE {}

\* Written by id, and not carried on.
bulk_normalize_employees(o, p, about) ==
    /\ Takes(o, "bulk") /\ p \in Staff
    /\ personnel' = [personnel EXCEPT ![p].about = about]
    /\ untold' = untold \cup {p}
    /\ UNCHANGED <<office, shelf, gone, imports, owed, whose, crossed>>

Checks(p, import) ==
    Request("check", {p}, {personnel[p].number})
    ++ [who |-> p, old |-> personnel[p], tables |-> _RECORDS_BY_EMPLOYEE_ID, import |-> import]
NoImport == [number |-> 0, items |-> {}, people |-> {}]

delete_employee(o, p) ==
    /\ Takes(o, "delete") /\ p \in Staff
    /\ Turns(o, Checks(p, NoImport))
    /\ Reads(o)

\* Where an undo is: the equipment, then the people it has left, then its mark.
Undoing(log) ==
    IF log.number = 0 THEN Away
    ELSE Request(IF log.items # {} THEN "unissue" ELSE IF log.people # {} THEN "person" ELSE "undone", log.people, {})
         ++ [import |-> log]
NextPerson(log) == Undoing([log EXCEPT !.people = IF @ = {} THEN {} ELSE @ \ {Min(@)}])

_records_that_use(o) ==
    /\ Ready(o, "check")
    /\ LET at == office[o]
       IN  Turns(o, IF Papers(at.old.number, Head(at.tables)) # {} THEN NextPerson(at.import)
                    ELSE IF Len(at.tables) = 1 THEN [at EXCEPT !.pc = "remove"] ELSE [at EXCEPT !.tables = Tail(@)])
    /\ UNCHANGED taken /\ Reads(o)

\* delete().eq("id", id), with ON DELETE RESTRICT where the foreign keys are there.
RemovePerson(o) ==
    /\ Ready(o, "remove")
    /\ LET p == office[o].who
       IN  IF keys /\ p \in Staff /\ \E t \in Tables : Papers(personnel[p].number, t) # {}
           THEN Answers(o) /\ UNCHANGED <<personnel, owed, gone>>
           ELSE Deletes(o, p) /\ Turns(o, NextPerson(office[o].import))
    /\ UNCHANGED <<shelf, imports, taken, whose, untold>> /\ Tracks(o)

-----------------------------------------------------------------------------
(* The import of a workbook, and its undo. A row of the workbook is known by its place. *)

First(file, k) == Min({j \in DOMAIN file : file[j].number = file[k].number})

commit_import(o, file) ==
    /\ Takes(o, "import")
    /\ Turns(o, Request("register", {}, {file[k].number : k \in DOMAIN file}) ++ [file |-> file])
    /\ Reads(o)

\* Staff are decided once per number, the first row wins.
Decision(row, found) ==
    IF found = {} THEN IF row.about \in Unfilled THEN "refused" ELSE "new"
    ELSE LET have == personnel[Min(found)].about
         IN  IF have \in Elsewhere THEN "refused" ELSE IF have \in Unfilled /\ row.about # have THEN "fill" ELSE "back"

\* A person nobody has read, or whose row is gone, is one without a number or a name.
Nameless == [number |-> NoRow, about |-> NoRow]
_load_register(o) ==
    /\ Ready(o, "register")
    /\ LET file == office[o].file
           found == [k \in DOMAIN file |-> Numbered(file[k].number)]
       IN  Turns(o, Request("live", UNION {found[k] : k \in DOMAIN file}, office[o].numbers)
                    ++ [file |-> file,
                        action |-> [k \in DOMAIN file |-> Decision(file[First(file, k)], found[k])],
                        person |-> [k \in DOMAIN file |-> [id |-> IF found[k] = {} THEN 0 ELSE Min(found[k]), row |-> Nameless]]])
    /\ UNCHANGED taken /\ Reads(o)

\* Where the import is: the people it has left to write or read, then the equipment, then its log.
Importing(at) ==
    [at EXCEPT !.pc = IF at.todo # {} THEN at.action[Min(at.todo)] ELSE IF at.adds # {} THEN "again" ELSE "log"]

HasItem(person, item) == Same([table |-> "ppe_records", number |-> person.number, item |-> item])
plan_import(o) ==
    /\ Ready(o, "live")
    /\ LET at == office[o]
           file == at.file
           taken_on == {k \in DOMAIN file : at.action[k] # "refused"}
           adds == {k \in taken_on : /\ file[k].item # NoItem /\ HasItem(file[k], file[k].item) = {}
                                     /\ \A j \in 1 .. k - 1 : <<file[j].number, file[j].item>> # <<file[k].number, file[k].item>>}
       IN  Turns(o, Importing(at ++ [todo |-> {k \in taken_on : First(file, k) = k}, adds |-> adds,
                                     people_made |-> {}, items_made |-> {}]))
    /\ UNCHANGED taken /\ Reads(o)

\* The row of the workbook being written, and the import once its person is known.
RowOf(o) == Min(office[o].todo)
Known(at, k, id, row) == [at EXCEPT !.todo = @ \ {k}, !.person[k] = [id |-> id, row |-> row], !.people = @ \cup {id}]

CreateImported(o) ==
    /\ Ready(o, "new")
    /\ LET at == office[o]
           row == Person(at.file[RowOf(o)].number, at.file[RowOf(o)].about)
           id == Min(Unused(PersonIds))
       IN  IF Fits(row)
           THEN /\ Stores(o, PersonIds, row)
                /\ Turns(o, Importing([Known(at, RowOf(o), id, row) EXCEPT !.people_made = @ \cup {id}]))
           ELSE Answers(o) /\ UNCHANGED <<personnel, owed>>
    /\ UNCHANGED <<taken, whose, untold>> /\ Writes(o)

FillBlanks(o) ==
    /\ Ready(o, "fill")
    /\ LET at == office[o]
           p == at.person[RowOf(o)].id
       IN  /\ IF p \in Staff
              THEN personnel' = [personnel EXCEPT ![p].about = at.file[RowOf(o)].about] /\ untold' = untold \cup {p}
              ELSE UNCHANGED <<personnel, untold>>
           /\ Turns(o, [at EXCEPT !.pc = "back"])
    /\ UNCHANGED <<owed, taken, whose>> /\ Writes(o)

_person_by_id(o) ==
    /\ Ready(o, "back")
    /\ LET p == office[o].person[RowOf(o)].id
       IN  Turns(o, Importing(Known(office[o], RowOf(o), p, IF p \in Staff THEN personnel[p] ELSE Nameless)))
    /\ UNCHANGED taken /\ Reads(o)

Adding(o) == Min(office[o].adds)
Adds(o) == office[o].person[First(office[o].file, Adding(o))]
NextAdd(at, k) == Importing([at EXCEPT !.adds = @ \ {k}])

_load_live_ppe(o) ==
    /\ Ready(o, "again")
    /\ LET item == office[o].file[Adding(o)].item
       IN  Turns(o, IF Adds(o).row # Nameless /\ HasItem(Adds(o).row, item) # {} THEN NextAdd(office[o], Adding(o))
                    ELSE [office[o] EXCEPT !.pc = "issue"])
    /\ UNCHANGED taken /\ Reads(o)

\* Equipment without a number is stored or refused: the repository does not say if the column
\* may be null.
IssueImported(o) ==
    /\ Ready(o, "issue")
    /\ LET k == Adding(o)
           row == Paper("ppe_records", Adds(o).row, office[o].file[k].item)
           id == Min(Unused(PaperIds))
       IN  \/ /\ Fits(row)
              /\ Stores(o, PaperIds, row)
              /\ whose' = [whose EXCEPT ![id] = Adds(o).id]
              /\ Turns(o, NextAdd([office[o] EXCEPT !.items_made = @ \cup {id}], k))
           \/ /\ ~Fits(row) \/ row.number = NoRow
              /\ Answers(o) /\ UNCHANGED <<personnel, owed, whose>>
    /\ UNCHANGED <<taken, untold>> /\ Writes(o)

LogImport(o) ==
    /\ Ready(o, "log") /\ Len(imports) < MaxImports
    /\ imports' = Append(imports, [items |-> office[o].items_made, people |-> office[o].people_made, undone |-> FALSE])
    /\ Answers(o)
    /\ UNCHANGED <<shelf, personnel, owed, gone, taken, whose, untold>> /\ Tracks(o)

undo_import(o, n) ==
    /\ Takes(o, "undo") /\ n \in DOMAIN imports /\ ~imports[n].undone
    /\ Turns(o, Undoing([number |-> n, items |-> imports[n].items, people |-> imports[n].people]))
    /\ Reads(o)

\* The read before it only spares a delete that takes nothing.
RemoveIssued(o) ==
    /\ Ready(o, "unissue")
    /\ LET log == office[o].import
       IN  Deletes(o, Min(log.items)) /\ Turns(o, Undoing([log EXCEPT !.items = @ \ {Min(@)}]))
    /\ UNCHANGED <<shelf, imports, taken, whose, untold>> /\ Tracks(o)

ReadPerson(o) ==
    /\ Ready(o, "person")
    /\ LET log == office[o].import
       IN  Turns(o, IF Min(log.people) \in Staff THEN Checks(Min(log.people), log) ELSE NextPerson(log))
    /\ UNCHANGED taken /\ Reads(o)

MarkUndone(o) ==
    /\ Ready(o, "undone")
    /\ imports' = [imports EXCEPT ![office[o].import.number].undone = TRUE]
    /\ Answers(o)
    /\ UNCHANGED <<shelf, personnel, owed, gone, taken, whose, untold>> /\ Tracks(o)

-----------------------------------------------------------------------------
(* Recently deleted and the audited client, beside them. *)

kept == <<imports, tasks, whose, untold>>
Restore(o, n) == Takes(o, "restore") /\ restore_deleted(o, n) /\ UNCHANGED <<kept, crossed>>
Restoring(o) ==
    /\ FindClash(o) \/ PutBack(o) \/ MarkRestored(o)
    /\ crossed' = crossed \cup {i \in PaperIds : personnel'[i] # personnel[i]}
    /\ UNCHANGED <<kept, taken>>
Auditing(o) ==
    /\ _trash(o) \/ _record(o) \/ CopyRefused(o) \/ EntryRefused(o)
    /\ UNCHANGED <<kept, taken, crossed>>
Stopped(o) ==
    /\ Stops(o)
    /\ crossed' = crossed \cup IF office[o].pc = "follow" THEN office[o].people ELSE {}
    /\ UNCHANGED <<kept, taken>>

RecordsNext ==
    \E o \in Officers :
       \/ \E p \in PersonIds, t \in Tables, item \in Things : create_record(o, p, t, item)
       \/ existing_duplicate(o) \/ EnterRecord(o)
       \/ \E r \in PaperIds : delete_record(o, r)
StaffNext ==
    \E o \in Officers :
       \/ \E number \in Numbers, about \in Abouts :
             create_employee(o, number, about) \/ \E p \in PersonIds : update_employee(o, p, number, about)
       \/ InsertPerson(o) \/ FindNumber(o) \/ SavePerson(o) \/ Follow(o)
       \/ \E p \in PersonIds : delete_employee(o, p) \/ \E about \in Abouts : bulk_normalize_employees(o, p, about)
       \/ _records_that_use(o) \/ RemovePerson(o)
ImportNext ==
    \E o \in Officers :
       \/ \E file \in Workbooks : commit_import(o, file)
       \/ _load_register(o) \/ plan_import(o) \/ CreateImported(o) \/ FillBlanks(o) \/ _person_by_id(o)
       \/ _load_live_ppe(o) \/ IssueImported(o) \/ LogImport(o)
       \/ \E n \in 1 .. MaxImports : undo_import(o, n)
       \/ RemoveIssued(o) \/ ReadPerson(o) \/ MarkUndone(o)
TrashNext ==
    \E o \in Officers : (\E n \in CopyIds : Restore(o, n)) \/ Restoring(o) \/ Auditing(o) \/ Stopped(o)
EmployeesNext == RecordsNext \/ StaffNext \/ ImportNext \/ TrashNext

\* A register to begin with: people, and the records of those who are there.
Registers ==
    {rows \in [RowIds -> Rows \cup {NoRow}] :
        /\ \A p \in PersonIds : rows[p] # NoRow =>
              rows[p].table = "employees" /\ rows[p].number \in Numbers /\ rows[p].about \in Abouts
        /\ \A r \in PaperIds : rows[r] # NoRow =>
              rows[r].table \in Tables /\ \E p \in PersonIds : rows[p] # NoRow /\ rows[p].number = rows[r].number}
EmployeesBegin == \E with \in BOOLEAN, rows \in Registers, kinds \in Tasks : EmployeesInit(with, rows, kinds)
EmployeesSpec == EmployeesBegin /\ [][EmployeesNext]_employee_vars

-----------------------------------------------------------------------------
StaffTypeOK ==
    /\ \A p \in Staff : personnel[p].number \in Numbers /\ personnel[p].about \in Abouts
    /\ \A r \in Records : personnel[r].table \in Tables /\ whose[r] \in PersonIds
    /\ untold \subseteq PersonIds /\ crossed \subseteq RowIds /\ taken \in 0 .. Len(tasks)

\* A record stays with the person it was entered for: while nobody is carrying an edit of
\* that person, the person is on the register ("left pointing at nobody", employees.py), the
\* record has its number, and the name and job it copied are the person's. Excused are
\* people two requests met over, or whose edit failed after the row was saved; records
\* that were put back; and, for the copies, people changed in bulk or filled by an import.
RecordsFindTheirPerson ==
    /\ StaffTypeOK
    /\ \A r \in Records \ crossed :
       LET p == whose[r]
       IN  p \in crossed \/ (\E o \in Officers : office[o].pc = "follow" /\ office[o].who = p)
           \/ /\ p \in Staff
              /\ personnel[r].number = personnel[p].number
              /\ p \in untold \/ personnel[r].about = personnel[p].about
=============================================================================
