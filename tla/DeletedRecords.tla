--------------------------- MODULE DeletedRecords ---------------------------
(***************************************************************************)
(* The tables of the people and their records as the audited client writes *)
(* them: a delete or an insert is followed by the copy of what went, for   *)
(* Recently deleted, and by its entry in the log, in calls of their own    *)
(* that may fail or never be made; and a manager putting a copy back.      *)
(***************************************************************************)
EXTENDS Integers, Sequences, FiniteSets, TLC

CONSTANTS
    Officers,          \* requests being handled
    PersonIds,         \* ids of rows in employees
    PaperIds,          \* ids of rows in overtime, leaves and ppe_records
    MaxCopies,         \* bound: rows of deleted_records
    MaxOfficeFaults,   \* bound: calls that fail and requests that stop
    NoRow

ASSUME CopiesAssumption ==
    /\ MaxCopies \in Nat /\ IsFiniteSet(Officers)
    /\ PersonIds \cup PaperIds \subseteq Nat \ {0} /\ PersonIds \cap PaperIds = {}

VARIABLES
    keys,              \* whether the foreign keys of the integrity migration are there (fixed)
    personnel,         \* per id: the row, or NoRow
    copies,            \* deleted_records, in the order they were stored
    office,            \* per request: its next call and what it holds
    owed,              \* per request: the row a write of it must still copy and log
    noted,             \* audit_log, per id: entries of a create and of a delete (not those of updates)
    gone,              \* history, per id: the row as it was last deleted
    unkept, unnoted,   \* history: ids a copy or an entry of which was refused
    put_back,          \* history, per copy: times it was put back
    reopened,          \* history: copies put back by two at once, or not marked
    office_faults

trash_vars == <<keys, personnel, copies, office, owed, noted, gone, unkept, unnoted, put_back, reopened, office_faults>>
trash_history == <<gone, unkept, unnoted, put_back, reopened>>

Tables == {"overtime", "leaves", "ppe_records"}
RowIds == PersonIds \cup PaperIds
CopyIds == 1 .. MaxCopies
Held == {i \in RowIds : personnel[i] # NoRow}
Papers(number, t) == {i \in Held \cap PaperIds : personnel[i].table = t /\ personnel[i].number = number}

\* One record on top of another.
f ++ g == [x \in DOMAIN f \cup DOMAIN g |-> IF x \in DOMAIN f THEN f[x] ELSE g[x]]

Nothing == [stage |-> "none"]
\* people and numbers: who a request is about, and the numbers it names.
Away == [pc |-> "away", people |-> {}, numbers |-> {}]
Request(pc, people, numbers) == [pc |-> pc, people |-> people, numbers |-> numbers]

TrashInit(with, rows) ==
    /\ keys = with /\ personnel = rows
    /\ copies = <<>>
    /\ office = [o \in Officers |-> Away] /\ owed = [o \in Officers |-> Nothing]
    /\ noted = [i \in RowIds |-> [create |-> IF rows[i] = NoRow THEN 0 ELSE 1, delete |-> 0]]
    /\ gone = [i \in RowIds |-> NoRow] /\ unkept = {} /\ unnoted = {}
    /\ put_back = [n \in CopyIds |-> 0] /\ reopened = {}
    /\ office_faults = 0

\* employees_employee_id_key; the unique index of each table of records (one live request per
\* slot or range, one record per issue); and the foreign keys where they are there. A record
\* without a number passes.
Same(row) == {r \in Papers(row.number, row.table) : personnel[r].item = row.item}
Fits(row) ==
    LET those == {p \in Held \cap PersonIds : personnel[p].number = row.number}
    IN  IF row.table = "employees" THEN those = {}
        ELSE row.number # NoRow => Same(row) = {} /\ (keys => those # {})

-----------------------------------------------------------------------------
(* AuditedClient. *)
Ready(o, pc) == office[o].pc = pc /\ owed[o] = Nothing
Turns(o, next) == office' = [office EXCEPT ![o] = next]
Answers(o) == Turns(o, Away)

Inserts(o, i, row) ==
    /\ personnel' = [personnel EXCEPT ![i] = row]
    /\ owed' = [owed EXCEPT ![o] = [stage |-> "note", op |-> "create", id |-> i, row |-> row]]

\* A delete answers with the rows it took, and a row already gone is none.
Deletes(o, i) ==
    /\ personnel' = [personnel EXCEPT ![i] = NoRow]
    /\ owed' = IF i \in Held THEN [owed EXCEPT ![o] = [stage |-> "keep", op |-> "delete", id |-> i, row |-> personnel[i]]]
               ELSE owed
    /\ gone' = IF i \in Held THEN [gone EXCEPT ![i] = personnel[i]] ELSE gone

Noted(o) == owed' = [owed EXCEPT ![o].stage = "note"]

_trash(o) ==
    /\ owed[o].stage = "keep" /\ Len(copies) < MaxCopies
    /\ copies' = Append(copies, [id |-> owed[o].id, row |-> owed[o].row, restored |-> FALSE])
    /\ Noted(o)
    /\ UNCHANGED <<keys, personnel, office, noted, trash_history, office_faults>>

_record(o) ==
    /\ owed[o].stage = "note"
    /\ noted' = [noted EXCEPT ![owed[o].id][owed[o].op] = @ + 1]
    /\ owed' = [owed EXCEPT ![o] = Nothing]
    /\ UNCHANGED <<keys, personnel, copies, office, trash_history, office_faults>>

Faulty == office_faults < MaxOfficeFaults /\ office_faults' = office_faults + 1

\* A refused copy or entry is counted; the request goes on.
CopyRefused(o) ==
    /\ owed[o].stage = "keep" /\ Faulty
    /\ unkept' = unkept \cup {owed[o].id}
    /\ Noted(o)
    /\ UNCHANGED <<keys, personnel, copies, office, noted, gone, unnoted, put_back, reopened>>
EntryRefused(o) ==
    /\ owed[o].stage = "note" /\ Faulty
    /\ unnoted' = unnoted \cup {owed[o].id}
    /\ owed' = [owed EXCEPT ![o] = Nothing]
    /\ UNCHANGED <<keys, personnel, copies, office, noted, gone, unkept, put_back, reopened>>

\* A call of the request fails, or the process stops, with what it still owed.
Stops(o) ==
    /\ office[o] # Away \/ owed[o] # Nothing
    /\ Faulty
    /\ unkept' = IF owed[o].stage = "keep" THEN unkept \cup {owed[o].id} ELSE unkept
    /\ unnoted' = IF owed[o] # Nothing THEN unnoted \cup {owed[o].id} ELSE unnoted
    /\ reopened' = IF office[o].pc = "mark" THEN reopened \cup {office[o].copy} ELSE reopened
    /\ owed' = [owed EXCEPT ![o] = Nothing]
    /\ Answers(o)
    /\ UNCHANGED <<keys, personnel, copies, noted, gone, put_back>>

-----------------------------------------------------------------------------
(* Recently deleted. *)

Restores(o) == office[o].pc \in {"clash", "put", "mark"}
restore_deleted(o, n) ==
    /\ n \in DOMAIN copies /\ ~copies[n].restored
    /\ Turns(o, Request("clash", {}, {}) ++ [copy |-> n])
    /\ reopened' = IF \E q \in Officers : Restores(q) /\ office[q].copy = n THEN reopened \cup {n} ELSE reopened
    /\ UNCHANGED <<keys, personnel, copies, owed, noted, gone, unkept, unnoted, put_back, office_faults>>

FindClash(o) ==
    /\ Ready(o, "clash")
    /\ IF copies[office[o].copy].id \in Held THEN Answers(o) ELSE Turns(o, [office[o] EXCEPT !.pc = "put"])
    /\ UNCHANGED <<keys, personnel, copies, owed, noted, trash_history, office_faults>>

\* insert(snapshot): every rule of the database applies.
PutBack(o) ==
    /\ Ready(o, "put")
    /\ LET n == office[o].copy
           i == copies[n].id
       IN  IF i \in Held \/ ~Fits(copies[n].row)
           THEN Answers(o) /\ UNCHANGED <<personnel, owed, put_back>>
           ELSE /\ Inserts(o, i, copies[n].row)
                /\ put_back' = [put_back EXCEPT ![n] = @ + 1]
                /\ Turns(o, [office[o] EXCEPT !.pc = "mark"])
    /\ UNCHANGED <<keys, copies, noted, gone, unkept, unnoted, reopened, office_faults>>

\* A mutant: every copy of the record is marked.
MarksEvery(n) == {k \in DOMAIN copies : copies[k].id = copies[n].id}
Marks(n) == {n}
MarkRestored(o) ==
    /\ Ready(o, "mark")
    /\ copies' = [k \in DOMAIN copies |-> IF k \in Marks(office[o].copy) THEN [copies[k] EXCEPT !.restored = TRUE] ELSE copies[k]]
    /\ Answers(o)
    /\ UNCHANGED <<keys, personnel, owed, noted, trash_history, office_faults>>

-----------------------------------------------------------------------------
\* "Deletes additionally keep a full, untruncated copy of the row" (app/audit.py):
\* whatever was deleted and is not there has a copy that was not put back, of the row
\* as it went; "one row per affected record is added to audit_log": the entries of a
\* row that is there are one create more than deletes; and "restoring one marks it":
\* a copy is put back once, unless two put it back at a time or the mark was lost.
DeletedIsKept ==
    /\ \A i \in RowIds \ (Held \cup unkept) :
          gone[i] # NoRow /\ (\A o \in Officers : owed[o] # Nothing => owed[o].id # i)
          => \E n \in DOMAIN copies : copies[n].id = i /\ copies[n].row = gone[i] /\ ~copies[n].restored
    /\ \A i \in RowIds \ unnoted :
          (\A o \in Officers : owed[o] # Nothing => owed[o].id # i)
          => noted[i].create - noted[i].delete = IF i \in Held THEN 1 ELSE 0
    /\ \A n \in CopyIds \ reopened : put_back[n] <= 1
=============================================================================
