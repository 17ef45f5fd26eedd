----------------------------- MODULE CrudRouter -----------------------------
(***************************************************************************)
(* The endpoints CrudRouter gives a table (src/app/crud_router.py), and    *)
(* the routers that are a CrudRouter with a handler of their own: each is  *)
(* the calls it makes.  A patch has the fields the form sent.              *)
(***************************************************************************)
EXTENDS ScopedRegister

CrudTables == {"job_cards", "standby_rotations", "lube_schedules"}

\* A table whose scope cannot go into the query is read whole and filtered; the
\* others are read page by page with the scope in it.
list_items(viewer) == <<ReadPages(~(FiltersInPython(table) /\ viewer # FullView))>>

\* A row is stored as its creator's scope stamps it, and then what belongs to it.
StampAndInsert(viewer, row, rest) ==
    LET new == stamp_create(Db, viewer, table, row)
    IN  IF new = Refused THEN <<>> ELSE <<Insert(new)>> \o rest
create_item(viewer, row) == StampAndInsert(viewer, row, <<>>)

\* The row as the patch would leave it must be the viewer's.
update_item(patch) == <<Find(patch, FALSE), Write(patch)>>

delete_item == <<Find(NoPatch, FALSE), Drop>>

\* job_cards: an empty patch is refused, a stale copy too, and completing a card
\* signs it ("submitted" stands for the status that stamps, here and in the reports).
_stamp_update(patch) ==
    IF "status" \in DOMAIN patch /\ patch.status = "submitted"
    THEN [f \in DOMAIN patch \cup {"stamp"} |-> IF f = "stamp" THEN TRUE ELSE patch[f]] ELSE patch
update_job_card(patch, version) ==
    IF DOMAIN patch = {} THEN <<>> ELSE <<FindVersion(patch, version), Touch(_stamp_update(patch))>>
get_job_card == <<Find(NoPatch, TRUE), ReadOwn>>

\* lube_schedules: as CrudRouter, but one page of the list is all that is read.  The
\* records of lubrications take the section of their schedule: whose schedules are
\* the viewer's is read first; a new one then moves its schedule.
get_schedules == <<ReadPage(TRUE)>>
create_lube_schedule(viewer, row) == create_item(viewer, row)
update_lube_schedule(patch) == update_item(patch)
delete_lube_schedule == delete_item
get_lube_records == <<ReadPage(TRUE), ReadEach>>
create_lube_record(name) == <<Find(NoPatch, FALSE), Add(name, Blank), Write([stamp |-> TRUE])>>

-----------------------------------------------------------------------------
(* "Both ends visible, before anything is written: the row as it stands (missing/     *)
(* out-of-scope -> 404)" (update_item, which standby_rotations has as it is): what it  *)
(* writes to a row still as it was looked up is written to a row its viewer sees.      *)
BothEndsVisible ==
    [][\A h \in Handlers :
         /\ table = "standby_rotations" /\ Doing(h, "write")
         /\ rows' # rows /\ handlers'[h].todo # handlers[h].todo
         /\ handlers[h].saw = rows[handlers[h].id]
         => Sees(handlers[h].viewer, rows[handlers[h].id])]_register_vars
=============================================================================
