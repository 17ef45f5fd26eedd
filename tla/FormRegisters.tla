--------------------------- MODULE FormRegisters ---------------------------
(***************************************************************************)
(* Requisitions and their items, operating procedures (sops) and their     *)
(* revisions, service records with their signatures and attached files:    *)
(* registers of ScopedRegister whose handlers make a few calls more.  A    *)
(* row of these has a number (a requisition's, or the code of a sop), the  *)
(* stages that are signed, and whether it is archived.                     *)
(***************************************************************************)
EXTENDS SafetyRegisters

CONSTANT Stages    \* stages of a service somebody signs

FormTables == {"requisitions", "sop_documents", "services"}
RegisterTables ==
    {"pto_reports", "vfl_reports", "sheq_inspections", "work_stoppage_reports", "pachedu_reports",
     "nearmiss_reports", "safety_complaints"} \cup CrudTables \cup FormTables

\* The columns of a row; a patch has some of those a form sends.
Columns ==
    [section : STRING, department : STRING, people : SUBSET STRING, status : STRING, stamp : BOOLEAN,
     version : Nat, number : Nat, signed : SUBSET Stages, archived : BOOLEAN]
IsPatch(p) == \E fields \in SUBSET {"section", "department", "status"} : p \in [fields -> STRING]

ASSUME FormsAssumption ==
    /\ Blank \notin STRING /\ NoRow \notin Columns /\ NoRow \notin RowIds
    /\ Viewers \subseteq {FullView} \cup [kind : {"section", "department"}, value : STRING]
    /\ \A t \in RegisterTables : \A form \in Forms(t) :
          /\ form.row \in Columns /\ IsPatch(form.patch) /\ form.number \in Nat /\ form.version \in Nat
          /\ form.names \subseteq STRING /\ form.sent \in BOOLEAN /\ form.section \in STRING \cup {Blank}

VARIABLES
    files,     \* objects in the service-attachments bucket
    promised,  \* history: stages whose signing was answered, by the version it left
    cut        \* history: attachments whose removal took the file and failed at the row

form_vars == <<register_vars, files, promised, cut>>

FormsInit == files = {} /\ promised = {} /\ cut = {}

-----------------------------------------------------------------------------
(* The calls of these handlers. *)
Taken(number) == [op |-> "taken", number |-> number]
Look == [op |-> "look"]
Revise == [op |-> "revise"]
Archive(from) == [op |-> "archive", from |-> from]
Sign(stage) == [op |-> "sign", stage |-> stage]
Store == [op |-> "store"]
Attach == [op |-> "attach"]
Unstore == [op |-> "unstore"]

Rest == UNCHANGED <<table, arrived, refused>>
Pair(name, h) == {[name |-> name, by |-> <<h, arrived>>]}

\* select("id").eq("requisition_number", ...) within the viewer's scope: another row
\* has the number.
CheckNumber(h) ==
    /\ Doing(h, "taken")
    /\ LET others == {id \in Ids \ {handlers[h].id} :
                        /\ rows[id].number = Call(h).number
                        /\ apply_list_scope(Db, handlers[h].viewer, table, rows[id])}
       IN  handlers' = IF Call(h).number # 0 /\ others # {} THEN Over(h) ELSE On(h)
    /\ Rest /\ UNCHANGED <<rows, items, saved, torn, files, promised>>

\* The last revision of the document, then the next one; the unique index on its
\* number refuses the second of two.  Either call failing is only logged.
Revisions(id) == {i.name : i \in ItemsOf(id)}
LookForRevision(h) ==
    /\ Doing(h, "look")
    /\ LET last == {n \in Revisions(handlers[h].id) : \A m \in Revisions(handlers[h].id) : m <= n}
       IN  handlers' = [On(h) EXCEPT ![h].new = last]
    /\ Rest /\ UNCHANGED <<rows, items, saved, torn, files, promised>>
NextButOne(h) == 2 + (CHOOSE n \in handlers[h].new \cup {0} : \A m \in handlers[h].new : m <= n)  \* A mutant.
_next_revision_number(h) == 1 + (CHOOSE n \in handlers[h].new \cup {0} : \A m \in handlers[h].new : m <= n)
AddRevision(h) ==
    /\ Doing(h, "revise")
    /\ LET id == handlers[h].id
           next == _next_revision_number(h)
       IN  IF id \in Ids /\ next \notin Revisions(id)
           THEN /\ items' = items \cup {[parent |-> id, name |-> next, section |-> Blank, by |-> <<h, arrived>>]}
                /\ saved' = [saved EXCEPT ![id] = @ \cup Pair(next, h)]
           ELSE UNCHANGED <<items, saved>>
    /\ handlers' = Missed(h, On(h))
    /\ Rest /\ UNCHANGED <<rows, torn, files, promised>>

\* Archiving what is archived, or restoring what is not, is refused on the row read.
ArchiveRow(h) ==
    /\ Doing(h, "archive")
    /\ LET id == handlers[h].id
           may == handlers[h].saw.archived = Call(h).from /\ id \in Ids
       IN  IF may
           THEN rows' = [rows EXCEPT ![id].archived = ~Call(h).from] /\ handlers' = Missed(h, On(h))
           ELSE handlers' = Over(h) /\ UNCHANGED rows
    /\ Rest /\ UNCHANGED <<items, saved, torn, files, promised>>

\* A mutant: the images of the other stages are dropped.
OnlyThisStage(saw, stage) == {stage}
\* {**(signatures read), stage: image}, written back whole.
WithStage(saw, stage) == saw.signed \cup {stage}
\* History: what was signed after it looked is no longer promised, but everything before is.
SignStage(h) ==
    /\ Doing(h, "sign")
    /\ LET id == handlers[h].id
           saw == handlers[h].saw
           signed == WithStage(saw, Call(h).stage)
           kept == {p \in promised : p.id = id => p.version <= saw.version}
       IN  IF id \in Ids
           THEN /\ rows' = [rows EXCEPT ![id].signed = signed, ![id].version = @ + 1]
                /\ promised' = kept \cup {[id |-> id, stage |-> Call(h).stage, version |-> rows[id].version + 1]}
           ELSE UNCHANGED <<rows, promised>>
    /\ handlers' = Missed(h, On(h))
    /\ Rest /\ UNCHANGED <<items, saved, torn, files>>

\* The object first, then the row that names it; going, in the same order.
StoreFile(h) ==
    /\ Doing(h, "store")
    /\ files' = files \cup {<<h, arrived>>}
    /\ handlers' = [On(h) EXCEPT ![h].new = {<<h, arrived>>}]
    /\ Rest /\ UNCHANGED <<rows, items, saved, torn, promised>>
AttachFile(h) ==
    /\ Doing(h, "attach")
    /\ IF handlers[h].id \in Ids
       THEN /\ items' = items \cup {[parent |-> handlers[h].id, name |-> n, section |-> Blank, by |-> <<h, arrived>>] :
                                     n \in handlers[h].new}
            /\ saved' = [saved EXCEPT ![handlers[h].id] = @ \cup UNION {Pair(n, h) : n \in handlers[h].new}]
       ELSE UNCHANGED <<items, saved>>
    /\ handlers' = Missed(h, On(h))
    /\ Rest /\ UNCHANGED <<rows, torn, files, promised>>
RemoveFile(h) ==
    /\ Doing(h, "unstore")
    /\ \/ files' = files \ {handlers[h].item.name} /\ UNCHANGED refused
       \/ refused < MaxRefused /\ refused' = refused + 1 /\ UNCHANGED files  \* logged
    /\ handlers' = On(h)
    /\ UNCHANGED <<table, saved, arrived, rows, items, torn, promised>>
CutShort(h) == {i \in {handlers[h].item} : Doing(h, "drop_item") /\ refused' # refused}
FormStep(h) ==
    \/ CheckNumber(h) \/ LookForRevision(h) \/ AddRevision(h) \/ ArchiveRow(h)
    \/ SignStage(h) \/ StoreFile(h) \/ AttachFile(h) \/ RemoveFile(h)

-----------------------------------------------------------------------------
(* requisitions.py *)
get_requisitions == <<ReadJoined>>
get_requisition == <<Find(NoPatch, TRUE), ReadOwn>>
get_daily_total == <<ReadPage(TRUE), ReadEach>>
get_requisition_stats == <<ReadPage(TRUE), ReadItems>>
create_requisition(viewer, form) ==
    LET stored == StampAndInsert(viewer, form.row, Save(form.names, Blank))
    IN  IF stored = <<>> THEN <<>> ELSE <<Taken(form.row.number)>> \o stored
update_requisition(form) ==
    <<FindBoth(form.patch, form.version), Taken(form.number)>>
    \o (IF DOMAIN form.patch = {} THEN <<>> ELSE <<Touch(form.patch)>>)
    \o Replace(form, form.names, Blank) \o <<ReadOwn>>
delete_requisition == <<Find(NoPatch, TRUE), Clear, Drop>>

(* sops.py: a save leaves a revision behind; only an admin makes a document effective. *)
list_sops == <<ReadPage(TRUE)>>
list_archived_sops == <<ReadCall(TRUE, FALSE, FALSE, TRUE)>>
get_sop == <<Find(NoPatch, TRUE), ReadOwn>>
_snapshot == <<Look, Revise>>
create_sop(viewer, form) ==
    LET stored == StampAndInsert(viewer, form.row, _snapshot)
    IN  IF stored = <<>> THEN <<>> ELSE <<Taken(form.row.number)>> \o stored
update_sop(form, admin) ==
    IF Submits(form.patch) /\ ~admin THEN <<>>
    ELSE <<Find(form.patch, TRUE), Write(form.patch)>> \o _snapshot
archive_sop == <<Find(NoPatch, TRUE), Archive(FALSE)>>
restore_sop == <<Find(NoPatch, TRUE), Archive(TRUE)>>

(* services.py *)
list_services == <<ReadPages(TRUE)>>
create_service(viewer, form) == create_item(viewer, form.row)
update_service(form) == <<Find(form.patch, FALSE), Touch(form.patch)>>
delete_service == <<Find(NoPatch, FALSE), Drop>>
get_stage_signatures == <<Find(NoPatch, TRUE), ReadOwn>>
put_stage_signature(stage) == <<Find(NoPatch, TRUE), Sign(stage)>>
list_attachments == <<Find(NoPatch, FALSE), ReadOwn>>
upload_attachment == <<Find(NoPatch, FALSE), Store, Attach>>
delete_attachment == <<FindItem(Blank), Unstore, DropItem>>

-----------------------------------------------------------------------------
FormRequest(h) ==
    \E viewer \in Viewers, id \in RowIds, form \in Forms(table) :
       \/ /\ table = "requisitions"
          /\ \/ Arrive(h, "list", NoRow, NoRow, viewer, get_requisitions)
             \/ Arrive(h, "one", id, NoRow, viewer, get_requisition)
             \/ Arrive(h, "figures", NoRow, NoRow, viewer, get_daily_total)
             \/ Arrive(h, "figures", NoRow, NoRow, viewer, get_requisition_stats)
             \/ Arrive(h, "save", NoRow, NoRow, viewer, create_requisition(viewer, form))
             \/ Arrive(h, "save", id, NoRow, viewer, update_requisition(form))
             \/ Arrive(h, "save", id, NoRow, viewer, delete_requisition)
       \/ /\ table = "sop_documents"
          /\ \/ Arrive(h, "list", NoRow, NoRow, viewer, list_sops)
             \/ Arrive(h, "other", NoRow, NoRow, viewer, list_archived_sops)
             \/ Arrive(h, "one", id, NoRow, viewer, get_sop)
             \/ Arrive(h, "save", NoRow, NoRow, viewer, create_sop(viewer, form))
             \/ \E admin \in BOOLEAN : Arrive(h, "save", id, NoRow, viewer, update_sop(form, admin))
             \/ Arrive(h, "save", id, NoRow, viewer, archive_sop)
             \/ Arrive(h, "save", id, NoRow, viewer, restore_sop)
       \/ /\ table = "services"
          /\ \/ Arrive(h, "list", NoRow, NoRow, viewer, list_services)
             \/ Arrive(h, "one", id, NoRow, viewer, get_stage_signatures)
             \/ Arrive(h, "one", id, NoRow, viewer, list_attachments)
             \/ Arrive(h, "save", NoRow, NoRow, viewer, create_service(viewer, form))
             \/ Arrive(h, "save", id, NoRow, viewer, update_service(form))
             \/ Arrive(h, "save", id, NoRow, viewer, delete_service)
             \/ \E stage \in Stages : Arrive(h, "save", id, NoRow, viewer, put_stage_signature(stage))
             \/ Arrive(h, "save", id, NoRow, viewer, upload_attachment)
             \/ \E i \in items : Arrive(h, "save", i.parent, i, viewer, delete_attachment)

Asked(h) ==
    \/ table \notin FormTables /\ Awaits(h) /\ (Request(h) \/ RequestOnItem(h))
    \/ table \in FormTables /\ Awaits(h) /\ FormRequest(h)
FormsNext ==
    \E h \in Handlers :
       \/ Asked(h) /\ UNCHANGED <<files, promised, cut>>
       \/ FormStep(h) /\ UNCHANGED cut
       \/ /\ RegisterStep(h) /\ UNCHANGED files
          /\ promised' = {p \in promised : rows'[p.id] # NoRow}  \* goes with its row
          /\ cut' = cut \cup CutShort(h)

-----------------------------------------------------------------------------
(* Properties. *)
(* A revision is never skipped or doubled: however many saves of one document overlap, *)
(* and whichever of their history writes is refused, its revisions are 1, 2, 3 ...     *)
RevisionsHaveNoGaps ==
    table = "sop_documents" =>
        \A id \in Ids : Revisions(id) = 1 .. Cardinality(Revisions(id))

(* What a service record's pages were told is kept is kept, whatever edits, signatures *)
(* and files of this and of other records come between: the image of a stage that was  *)
(* signed, unless a signature of the same record that had looked before writes it      *)
(* away; and the file behind an attachment that is listed, unless its own removal is   *)
(* between the file and the row, or failed there.                                      *)
SignedAndFiledIsKept ==
    table = "services" =>
        /\ \A p \in promised : p.stage \in rows[p.id].signed
        /\ \A i \in items :
              \/ i.name \in files \/ i \in cut
              \/ \E h \in Handlers : handlers[h].item = i /\ Doing(h, "drop_item")
=============================================================================
