-------------------------- MODULE SafetyRegisters --------------------------
(***************************************************************************)
(* The safety registers: planned task observations (pto), visible felt     *)
(* leadership (vfl), SHEQ inspections and their findings, work stoppages,  *)
(* Pachedu observations, near misses and complaints.  Each endpoint is the *)
(* calls it makes; a report and its actions or findings are two tables,    *)
(* and nothing ties the calls of a save together.                          *)
(***************************************************************************)
EXTENDS CrudRouter

CONSTANT Incomplete  \* items that lack a field the register insists on

\* A form sends a patch and perhaps a list; `sent` tells a list from none.
Complete(names) == names \ Incomplete
Save(names, section) == IF names = {} THEN <<>> ELSE <<Fill(names, section)>>
\* A mutant: the old ones stay.
ReplaceAppends(form, names, section) == IF form.sent THEN Save(names, section) ELSE <<>>
Replace(form, names, section) == IF form.sent THEN <<Clear>> \o Save(names, section) ELSE <<>>
ReplaceOrRead(form, names, section) == IF form.sent THEN Replace(form, names, section) ELSE <<ReadOwn>>
SectionOf(viewer, section) == IF viewer.kind = "section" THEN viewer.value ELSE section

Submits(patch) == "status" \in DOMAIN patch /\ patch.status = "submitted"
Stamped(patch) ==
    IF Submits(patch)
    THEN [f \in DOMAIN patch \cup {"stamp"} |-> IF f = "stamp" THEN TRUE ELSE patch[f]] ELSE patch

-----------------------------------------------------------------------------
(* pto.py *)
get_pto_reports == <<ReadPage(TRUE), ReadEach>>
get_pto_stats == <<ReadPage(FALSE), ReadItems>>
get_pto_report == <<Find(NoPatch, TRUE), ReadOwn>>
create_pto_report(viewer, form) ==
    IF form.names \cap Incomplete # {} THEN <<>>
    ELSE StampAndInsert(viewer, [form.row EXCEPT !.stamp = Submits(form.row)], Save(form.names, Blank))
\* The header first, then the old actions go and the complete new ones come.
update_pto_report(form) ==
    <<Find(form.patch, TRUE), Touch(Stamped(form.patch))>> \o ReplaceOrRead(form, Complete(form.names), Blank)
delete_pto_report == <<Find(NoPatch, TRUE), Drop>>

(* vfl.py *)
get_vfl_reports == <<ReadPage(TRUE), ReadEach>>
get_vfl_stats == <<ReadPage(FALSE), ReadItems>>
get_vfl_report == <<Find(NoPatch, TRUE), ReadOwn>>
create_vfl_report(viewer, form) ==
    IF form.names \cap Incomplete # {} THEN <<>>
    ELSE StampAndInsert(viewer, [form.row EXCEPT !.stamp = Submits(form.row)], Save(form.names, Blank))
update_vfl_report(form) ==
    <<Find(form.patch, TRUE), Touch(Stamped(form.patch))>> \o ReplaceOrRead(form, Complete(form.names), Blank)
delete_vfl_report == <<Find(NoPatch, TRUE), Drop>>

(* sheq_inspections.py: findings also come and go one at a time, and carry the section *)
(* of whoever is limited to one.                                                       *)
get_inspections == <<ReadPage(TRUE), ReadEach>>
get_inspection_stats == <<ReadPage(FALSE), ReadItems>>
get_inspection == <<Find(NoPatch, TRUE), ReadOwn>>
create_inspection(viewer, form) ==
    StampAndInsert(viewer, form.row, Save(form.names, SectionOf(viewer, form.section)))
update_inspection(viewer, form) ==
    <<Find(form.patch, TRUE), Touch(form.patch)>>
    \o ReplaceOrRead(form, form.names, SectionOf(viewer, form.section))
delete_inspection == <<Find(NoPatch, TRUE), Drop>>
get_findings == <<Find(NoPatch, FALSE), ReadOwn>>
add_finding(viewer, name, section) == <<Find(NoPatch, TRUE), Add(name, SectionOf(viewer, section))>>
update_finding(section) ==
    <<FindItem(section)>> \o (IF section = Blank THEN <<>> ELSE <<WriteItem(section)>>)
delete_finding == <<FindItem(Blank), DropItem>>

(* work_stoppage.py: nothing is written to the report when only actions were sent. *)
get_work_stoppages == <<ReadPage(TRUE), ReadEach>>
get_work_stoppage_stats == <<ReadPage(FALSE), ReadItems>>
get_work_stoppage == <<Find(NoPatch, TRUE), ReadOwn>>
create_work_stoppage(viewer, form) ==
    IF form.names \cap Incomplete # {} THEN <<>>
    ELSE StampAndInsert(viewer, form.row, Save(form.names, Blank))
update_work_stoppage(form) ==
    <<Find(form.patch, TRUE)>>
    \o (IF DOMAIN form.patch = {} THEN <<>> ELSE <<Write(form.patch)>>)
    \o ReplaceOrRead(form, Complete(form.names), Blank)
delete_work_stoppage == <<Find(NoPatch, TRUE), Drop>>

(* pachedu.py: the lists of a report are columns of it, and its figures read every page *)
(* within the scope.                                                                    *)
get_pachedu_reports == <<ReadPage(TRUE)>>
get_pachedu_stats == <<ReadPages(TRUE)>>
get_pachedu_report == <<Find(NoPatch, TRUE), ReadOwn>>
create_pachedu_report(viewer, form) ==
    create_item(viewer, [form.row EXCEPT !.stamp = Submits(form.row)])
update_pachedu_report(form) == <<Find(form.patch, TRUE), Touch(Stamped(form.patch))>>
delete_pachedu_report == <<Find(NoPatch, TRUE), Drop>>

(* near_miss.py *)
get_near_misses == <<ReadPage(TRUE)>>
get_near_miss_stats == <<ReadPage(FALSE)>>
get_near_miss == <<Find(NoPatch, TRUE), ReadOwn>>
create_near_miss(viewer, form) == create_item(viewer, form.row)
update_near_miss(form) ==
    <<Find(form.patch, TRUE)>> \o (IF DOMAIN form.patch = {} THEN <<>> ELSE <<Write(form.patch)>>)
delete_near_miss == <<Find(NoPatch, TRUE), Drop>>

(* safety_complaints.py: everybody sees the general ones, so a limited viewer's list is *)
(* filtered in Python, and a section may stay as it is.                                 *)
list_complaints(viewer) == <<ReadPage(viewer = FullView)>>
get_complaint == <<Find(NoPatch, TRUE), ReadOwn>>
create_complaint(viewer, form) == create_item(viewer, form.row)
update_complaint(patch) == IF DOMAIN patch = {} THEN <<>> ELSE <<FindKeeping(patch), Write(patch)>>
delete_complaint == <<Find(NoPatch, FALSE), Drop>>

-----------------------------------------------------------------------------
(* Which endpoint a request to the table of this behaviour is handled by. *)
CONSTANTS Viewers, Forms(_)   \* who asks, and what they may send to a table

ListOf(viewer) ==
    CASE table = "pto_reports" -> get_pto_reports
      [] table = "vfl_reports" -> get_vfl_reports
      [] table = "sheq_inspections" -> get_inspections
      [] table = "work_stoppage_reports" -> get_work_stoppages
      [] table = "pachedu_reports" -> get_pachedu_reports
      [] table = "nearmiss_reports" -> get_near_misses
      [] table = "safety_complaints" -> list_complaints(viewer)
      [] table = "lube_schedules" -> get_schedules
      [] OTHER -> list_items(viewer)
FiguresOf ==
    CASE table = "pto_reports" -> get_pto_stats
      [] table = "vfl_reports" -> get_vfl_stats
      [] table = "sheq_inspections" -> get_inspection_stats
      [] table = "work_stoppage_reports" -> get_work_stoppage_stats
      [] table = "pachedu_reports" -> get_pachedu_stats
      [] table = "nearmiss_reports" -> get_near_miss_stats
      [] OTHER -> <<>>
OneOf ==
    CASE table = "pto_reports" -> {get_pto_report}
      [] table = "vfl_reports" -> {get_vfl_report}
      [] table = "sheq_inspections" -> {get_inspection, get_findings}
      [] table = "work_stoppage_reports" -> {get_work_stoppage}
      [] table = "pachedu_reports" -> {get_pachedu_report}
      [] table = "nearmiss_reports" -> {get_near_miss}
      [] table = "safety_complaints" -> {get_complaint}
      [] table = "job_cards" -> {get_job_card}
      [] OTHER -> {}
CreateBy(viewer, form) ==
    CASE table = "pto_reports" -> create_pto_report(viewer, form)
      [] table = "vfl_reports" -> create_vfl_report(viewer, form)
      [] table = "sheq_inspections" -> create_inspection(viewer, form)
      [] table = "work_stoppage_reports" -> create_work_stoppage(viewer, form)
      [] table = "pachedu_reports" -> create_pachedu_report(viewer, form)
      [] table = "nearmiss_reports" -> create_near_miss(viewer, form)
      [] table = "safety_complaints" -> create_complaint(viewer, form)
      [] table = "lube_schedules" -> create_lube_schedule(viewer, form.row)
      [] OTHER -> create_item(viewer, form.row)
UpdateBy(viewer, form) ==
    CASE table = "pto_reports" -> update_pto_report(form)
      [] table = "vfl_reports" -> update_vfl_report(form)
      [] table = "sheq_inspections" -> update_inspection(viewer, form)
      [] table = "work_stoppage_reports" -> update_work_stoppage(form)
      [] table = "pachedu_reports" -> update_pachedu_report(form)
      [] table = "nearmiss_reports" -> update_near_miss(form)
      [] table = "safety_complaints" -> update_complaint(form.patch)
      [] table = "job_cards" -> update_job_card(form.patch, form.version)
      [] table = "lube_schedules" -> update_lube_schedule(form.patch)
      [] OTHER -> update_item(form.patch)
DeleteBy ==
    CASE table = "pto_reports" -> delete_pto_report
      [] table = "vfl_reports" -> delete_vfl_report
      [] table = "sheq_inspections" -> delete_inspection
      [] table = "work_stoppage_reports" -> delete_work_stoppage
      [] table = "pachedu_reports" -> delete_pachedu_report
      [] table = "nearmiss_reports" -> delete_near_miss
      [] table = "safety_complaints" -> delete_complaint
      [] table = "lube_schedules" -> delete_lube_schedule
      [] OTHER -> delete_item

Request(h) ==
    \E viewer \in Viewers :
       \/ Arrive(h, "list", NoRow, NoRow, viewer, ListOf(viewer))
       \/ Arrive(h, "figures", NoRow, NoRow, viewer, FiguresOf)
       \/ \E id \in RowIds, calls \in OneOf : Arrive(h, "one", id, NoRow, viewer, calls)
       \/ \E form \in Forms(table) : Arrive(h, "save", NoRow, NoRow, viewer, CreateBy(viewer, form))
       \/ \E id \in RowIds, form \in Forms(table) : Arrive(h, "save", id, NoRow, viewer, UpdateBy(viewer, form))
       \/ \E id \in RowIds : Arrive(h, "save", id, NoRow, viewer, DeleteBy)
RequestOnItem(h) ==
    \E viewer \in Viewers, form \in Forms(table) :
       \/ /\ table = "sheq_inspections"
          /\ \/ \E id \in RowIds, n \in form.names :
                   Arrive(h, "save", id, NoRow, viewer, add_finding(viewer, n, form.section))
             \/ \E i \in items : Arrive(h, "save", i.parent, i, viewer, update_finding(form.section))
             \/ \E i \in items : Arrive(h, "save", i.parent, i, viewer, delete_finding)
       \/ /\ table = "lube_schedules"
          /\ \/ Arrive(h, "list", NoRow, NoRow, viewer, get_lube_records)
             \/ \E id \in RowIds, n \in form.names : Arrive(h, "save", id, NoRow, viewer, create_lube_record(n))

-----------------------------------------------------------------------------
(* Properties. *)
RegisterTypeOK ==
    /\ \A id \in Ids : rows[id].section # Blank /\ rows[id].version \in Nat
    /\ \A i \in items : i.parent \in Ids
    /\ torn \subseteq RowIds /\ arrived \in 0 .. MaxHandlers /\ refused \in 0 .. MaxRefused

(* The actions or findings of a report are what its saves stored, taken one after      *)
(* another, whatever other reports, reads and saves without a list happen meanwhile:   *)
(* a list replaces the list before it whole, an added finding joins, a deletion takes  *)
(* all.  Only two saves that write one report's list at once, or a save that fails     *)
(* between clearing and filling, leave something else.                                 *)
ActionsAreOneSaves ==
    /\ RegisterTypeOK
    /\ \A id \in Ids \ torn : {[name |-> i.name, by |-> i.by] : i \in ItemsOf(id)} = saved[id]

(* Nobody wrote while it was read: a list shows the rows the viewer may open, each     *)
(* with its items, one report opened shows the same, and the figures count the same    *)
(* rows and items (as long as the table fits the page PostgREST returns).  And a save  *)
(* stays within the viewer's scope, whatever is written elsewhere meanwhile: a create  *)
(* stores a row the viewer sees; a save or a removal of a row that is still as it was  *)
(* looked up changes a row the viewer sees and leaves one the viewer sees.  Only an    *)
(* edit that looks at the row as it would leave it and not as it stands (pto, vfl,     *)
(* sheq, work_stoppage, pachedu, near_miss, job_cards, sops, services and CrudRouter   *)
(* itself) takes over a row of elsewhere, and then by naming a place of the viewer's.  *)
Slice(viewer) == {id \in Ids : Sees(viewer, rows[id]) /\ ~rows[id].archived}
Fits(S) == Cardinality(S) <= Page
\* Filtered in Python: the lists by the scope, the figures by its value alone.
Listed(h) == {r.id : r \in {r \in handlers[h].seen : Sees(handlers[h].viewer, r.row)}}
Counted(h) ==
    {r.id : r \in {r \in handlers[h].seen :
                     handlers[h].viewer = FullView \/ r.row.section = handlers[h].viewer.value}}
Answers ==
    \A h \in Handlers :
      LET mine == Slice(handlers[h].viewer)
          Answered(kind) == handlers[h].kind = kind /\ handlers[h].todo = <<>> /\ ~handlers[h].met
          Of(ids) == {i \in handlers[h].got : i.parent \in ids}
      IN  /\ Answered("list") /\ (Fits(Ids) \/ table \in (CrudTables \cup {"services"}) \ {"lube_schedules"})
             => Listed(h) = mine
          /\ Answered("figures") /\ (Fits(Ids) \/ table = "pachedu_reports") => Counted(h) = mine
          /\ Answered("list") \/ Answered("one") => Of(Listed(h)) = handlers[h].got
          /\ Answered("figures") /\ Fits(Ids) /\ Fits(items) /\ handlers[h].got # {}
             => Of(Counted(h)) = UNION {ItemsOf(id) : id \in mine}
LooksAtBothEnds == {"requisitions", "safety_complaints"}
TakesOver(h) ==
    /\ Doing(h, "write") /\ table \notin LooksAtBothEnds
    /\ {"section", "department"} \cap DOMAIN Call(h).patch # {}
StaysInScope(h) ==
    LET viewer == handlers[h].viewer
        id == handlers'[h].id
    IN  /\ Doing(h, "insert") => Sees(viewer, rows'[id])
        /\ ~Doing(h, "insert") /\ handlers[h].saw = rows[id] =>
              /\ rows'[id] = NoRow \/ Sees(viewer, rows'[id])
              /\ Sees(viewer, rows[id]) \/ TakesOver(h)
AnswersShowTheSlice ==
    /\ []Answers
    /\ [][\A h \in Handlers :
            rows' # rows /\ handlers'[h].todo # handlers[h].todo => StaysInScope(h)]_register_vars
=============================================================================
