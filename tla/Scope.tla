------------------------------- MODULE Scope -------------------------------
(***************************************************************************)
(* Who sees which row: the registry of scope rules and the helpers the     *)
(* routers call (src/app/scope.py).  Everything here is a pure operator    *)
(* over `db`, the part of the database a rule looks at:                    *)
(*   db.people   section and department of everyone in the register        *)
(*   db.parents  section of the rows that other rows inherit from          *)
(*   db.library  the folders at or below the scope's root, per section     *)
(* A row has the fields its rule reads: section (also for section_choice), *)
(* department, people (whoever its links name), parent, folder.            *)
(***************************************************************************)
EXTENDS Naturals

CONSTANT Blank  \* NULL or the empty string

FullView == [kind |-> "full", value |-> Blank]
Limit(kind, value) == [kind |-> kind, value |-> value]

-----------------------------------------------------------------------------
(* The limit of an account. *)

\* What user_profiles.permissions may hold: nothing, a legacy section name, an
\* object with one name in it, an object with a kind and a value, or anything else.
_coerce_scope(raw) ==
    CASE raw.shape = "kind" /\ raw.kind \in {"section", "department"} /\ raw.text # Blank ->
             Limit(raw.kind, raw.text)
      [] raw.shape \in {"section", "department"} /\ raw.text # Blank -> Limit(raw.shape, raw.text)
      [] raw.shape = "text" /\ raw.text # Blank -> Limit("section", raw.text)
      [] OTHER -> FullView

\* The limit get_current_user put on the session; profile rows keep it inside
\* their permissions.
viewer_scope(user) ==
    _coerce_scope(IF user.scope.text = Blank THEN user.permissions ELSE user.scope)

\* The part of a cache key that keeps the answers to two viewers apart.
scope_cache_key(scope) == IF scope = FullView THEN <<>> ELSE <<scope.kind, scope.value>>
cache_scope_segment(raw) ==
    IF raw.shape = "text"
    THEN IF raw.text = Blank THEN <<>> ELSE <<raw.text>>
    ELSE scope_cache_key(_coerce_scope(raw))

-----------------------------------------------------------------------------
(* TABLES: the rule of each table. *)
SectionTables ==
    {"employees", "nearmiss_reports", "sheq_inspections", "work_stoppage_reports", "pto_reports",
     "requisitions", "shift_handovers", "job_cards", "pachedu_reports", "vfl_reports", "equipment",
     "work_orders", "breakdowns", "notices", "sop_documents", "services", "daily_reports",
     "maintenance_schedules", "safety_complaints", "lube_schedules"}
PersonTables ==
    {"leaves", "overtime", "timesheets", "artisan_timesheets", "ppe_records", "ppe_order_list",
     "training_certifications", "competency_matrix", "standby_schedules", "duty_roster", "stock_issues"}
MemberTables == {"standby_rotations", "duty_rotations", "rotation_covers"}
InheritTables ==
    {"sheq_findings", "requisition_items", "pto_action_plan", "vfl_action_plan", "sop_revisions",
     "service_attachments", "corrective_actions", "availabilities", "compliance_register",
     "condition_monitoring", "lube_records"}
SubtreeTables == {"documents", "document_folders", "document_activities"}
TABLES == SectionTables \cup PersonTables \cup MemberTables \cup InheritTables \cup SubtreeTables

HasDeptColumn(t) == t \in {"employees", "notices"}
DeptOpen(t) == IF t = "notices" THEN {"General"} ELSE {}
OpenValues(t) == IF t = "safety_complaints" THEN {"General", Blank} ELSE {}
\* Their scope cannot be put into a query: the router loads the rows and filters.
FiltersInPython(t) == t \in MemberTables \cup {"ppe_order_list", "document_activities"}

-----------------------------------------------------------------------------
(* Rows. *)
person_in_scope(person, scope) ==
    scope.value # Blank
    /\ (IF scope.kind = "department" THEN person.department ELSE person.section) = scope.value

scope_person_ids_for(db, scope) ==
    {p \in DOMAIN db.people : person_in_scope(db.people[p], scope)}

\* Is one row what the viewer may open?
row_visible(db, scope, t, row) ==
    \/ scope = FullView
    \/ /\ scope.kind = "department"
       /\ \/ t \in SectionTables /\ HasDeptColumn(t)
             /\ row.department \in {scope.value} \cup DeptOpen(t)
          \/ t \in PersonTables \cup MemberTables
             /\ row.people \cap scope_person_ids_for(db, scope) # {}
    \/ /\ scope.kind = "section"
       /\ \/ t \in SectionTables /\ row.section \in {scope.value} \cup OpenValues(t)
          \/ t \in PersonTables \cup MemberTables
             /\ row.people \cap scope_person_ids_for(db, scope) # {}
          \/ t = "standby_rotations" /\ row.section = scope.value
          \/ t \in InheritTables /\ row.parent \in DOMAIN db.parents
             /\ db.parents[row.parent] = scope.value
          \/ t \in SubtreeTables /\ row.folder \in db.library[scope.value]

\* Does the predicate put on a list query keep a row?  (Not for tables that filter
\* in Python.)
apply_list_scope(db, scope, t, row) ==
    \/ scope = FullView
    \/ t \in SectionTables /\ scope.kind = "section" /\ row.section = scope.value
    \/ t \in SectionTables /\ scope.kind = "department" /\ HasDeptColumn(t)
       /\ (row.department = scope.value \/ row.department \in DeptOpen(t))
    \/ t \in PersonTables /\ \E p \in scope_person_ids_for(db, scope) : p \in row.people
    \/ t \in InheritTables /\ scope.kind = "section"
       /\ row.parent \in {id \in DOMAIN db.parents : db.parents[id] = scope.value}
    \/ t \in SubtreeTables /\ scope.kind = "section" /\ row.folder \in db.library[scope.value]

filter_rows(db, scope, t, rows) == {row \in rows : row_visible(db, scope, t, row)}

\* What a create writes: stamped into the viewer's section or department, or
\* refused with 404.
Refused == [refused |-> TRUE]
stamp_create(db, scope, t, row) ==
    CASE scope = FullView -> row
      [] t \in SectionTables /\ scope.kind = "section" -> [row EXCEPT !.section = scope.value]
      [] t = "employees" /\ scope.kind = "department" -> [row EXCEPT !.department = scope.value]
      [] t \in PersonTables \cup MemberTables /\ row_visible(db, scope, t, row) -> row
      [] t \in InheritTables /\ scope.kind = "section" /\ row.parent \in DOMAIN db.parents
         /\ db.parents[row.parent] = scope.value -> row
      [] OTHER -> Refused

\* The departments kept apart: left out of what a full view lists unless a manager
\* asks for one.
SEPARATE_DEPARTMENTS == {"Mining"}
unscoped_separate_filter(db, scope, requested, manager, rows) ==
    LET In(row, d) == row.people \cap scope_person_ids_for(db, Limit("department", d)) # {}
        shown(row) == IF requested \in SEPARATE_DEPARTMENTS THEN manager /\ In(row, requested)
                      ELSE \A d \in SEPARATE_DEPARTMENTS : ~In(row, d)
    IN  {row \in rows : scope # FullView \/ shown(row)}
=============================================================================
