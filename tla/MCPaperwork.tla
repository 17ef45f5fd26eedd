---------------------------- MODULE MCPaperwork ----------------------------
(* The registers of reports and forms, and the document library: a behaviour is one *)
(* table of the former, or the folders or the files of the latter.                  *)
EXTENDS FormRegisters, DocumentFiles, TLC

VARIABLE focus

Row(section, status, n) ==
    [section |-> section, department |-> "Engineering", people |-> IF section = "North" THEN {"ann"} ELSE {"bob"},
     status |-> status, stamp |-> FALSE, version |-> 1, number |-> n, signed |-> {}, archived |-> FALSE]

MCStaff == [ann |-> [section |-> "North", department |-> "Engineering"],
            bob |-> [section |-> "South", department |-> "Mining"]]
MCViewers == {FullView, Limit("section", "North"), Limit("department", "Mining")}

MCForms(t) ==
    LET Form(patch, sent, names, section, n) ==
            [row |-> Row("South", "submitted", n), number |-> n, patch |-> patch, sent |-> sent, names |-> names,
             section |-> section, version |-> 1]
    IN  {Form([status |-> "submitted", section |-> "North"], TRUE, {"x"}, "South", 3),
         Form([section |-> "South"], TRUE, {"y", "half"}, Blank, 1),
         Form(NoPatch, FALSE, {}, Blank, 0)}

\* Two rows, one of each section (or a general one), with an item each.
MCFill(t) ==
    [id \in RowIds |-> IF id = 1 THEN Row("North", "draft", 1)
                       ELSE IF id = 2 THEN Row(IF t = "safety_complaints" THEN "General" ELSE "South", "draft", 2)
                       ELSE NoRow]
WithItems == {"pto_reports", "vfl_reports", "sheq_inspections", "work_stoppage_reports", "lube_schedules", "requisitions"}

ItemsAtFirst(t) == IF t \in WithItems THEN {"x"} ELSE IF t = "sop_documents" THEN {1} ELSE {}

\* The folder of the section with a folder made by hand in it, named as the structure has it
\* but for its section number.
MCNormalise(name) == IF name = "4 AMS" THEN "AMS" ELSE name
MCStructure == <<[key |-> "north", parent |-> Blank, name |-> "North"], [key |-> "north/ams", parent |-> "north", name |-> "4 AMS"]>>
MCFolderViewers == {FullView, Limit("section", "North")}
MCFolders ==
    [id \in FolderIds |-> IF id = 1 THEN [name |-> "North", parent |-> Top, key |-> Blank]
                          ELSE IF id = 2 THEN [name |-> "AMS", parent |-> 1, key |-> Blank] ELSE NoFolder]
MCDocs ==
    [id \in DocIds |-> IF id = 1 THEN [NewDoc(<<"a">>, 2, "k", 1) EXCEPT !.text = FALSE, !.print = 2] ELSE NoDoc]

ASSUME LibraryAssumption == MCDocs \in Libraries

Init ==
    /\ focus \in {"register", "folders", "files"}
    /\ IF focus = "register" THEN \E t \in RegisterTables : RegisterInit(t, MCFill(t), ItemsAtFirst(t))
       ELSE RegisterInit("pto_reports", MCFill("pto_reports"), {})
    /\ FormsInit
    /\ IF focus = "register" THEN TreeInit([MCFolders EXCEPT ![2] = NoFolder], [f \in Papers |-> 1])
       ELSE TreeInit(MCFolders, [f \in Papers |-> 2])
    /\ FilesInit(IF focus = "files" THEN MCDocs ELSE [id \in DocIds |-> NoDoc])

Next ==
    /\ UNCHANGED focus
    /\ \/ focus = "register" /\ FormsNext /\ UNCHANGED <<library_vars, file_vars>>
       \/ focus = "folders" /\ TreeNext /\ UNCHANGED <<form_vars, file_vars>>
       \/ focus = "files" /\ FilesNext /\ UNCHANGED <<form_vars, library_vars>>
vars == <<focus, form_vars, library_vars, file_vars>>
Spec == Init /\ [][Next]_vars

Symmetry == Permutations(Handlers)
=============================================================================
