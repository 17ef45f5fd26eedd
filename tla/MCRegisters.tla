---------------------------- MODULE MCRegisters ----------------------------
(* The smaller registers, which share nothing: a behaviour is one of them. *)
EXTENDS StockLevels, Recurrence, PPERegister, WorkOrderNumbers, CompressorMeters, EmployeeRegister

VARIABLE focus

vars == <<focus, stock_vars, recurrence_vars, ppe_vars, number_vars, meter_vars, employee_vars>>

\* Two parts; one piece of one, one and a half of it and one of the other.
MCItemLists == {[a |-> 2, b |-> 0], [a |-> 3, b |-> 2]}

MCRecurrences ==
    {[type |-> t, dom |-> 1, months |-> <<>>, dates |-> {}] : t \in {"daily", "weekly", "biweekly"}}
    \cup {[type |-> t, dom |-> d, months |-> m, dates |-> {}] :
            t \in {"monthly", "quarterly", "yearly"}, d \in {0, 15, 29, 31},
            m \in {<<>>, <<1>>, <<11, 1>>, <<2, 5, 8, 11>>}}
    \cup {[type |-> "custom", dom |-> 1, months |-> <<>>,
           dates |-> {OnDay(2024, 2, 29), OnDay(2023, 12, 31), OnDay(2024, 1, 1)}]}

\* A leap year and the ones around it, at the ends of months and inside one.
MCFirstDates ==
    {OnDay(y, m, d) : y \in {2023, 2024}, m \in {1, 2, 3, 11, 12}, d \in {1, 15, 28}}
    \cup {OnDay(y, m, DaysIn(y, m)) : y \in {2023, 2024}, m \in 1 .. 12}

\* A miner, whose department has a matrix of its own.
MCDepartment == [p \in People |-> "Mining"]
\* A record that was entered by hand.
MCShelf ==
    [i \in PPERecords |->
        IF i = "y" THEN NoPPE
        ELSE [person |-> "miner", department |-> "Mining", type |-> "boots", issued |-> 0, expiry |-> 3, status |-> "active"]]
MCDefault == [t \in Types |-> 1]
MCPatches == {[status |-> "active"], [issued |-> 1], [expiry |-> 3],
               [type |-> "suit"], [department |-> "Engineering"]}
MCForm == [k1 |-> [kind |-> "issue", person |-> "miner", type |-> "boots", date |-> 1],
           k2 |-> [kind |-> "return", record |-> "x"],
           k3 |-> [kind |-> "correction", record |-> "x", patch |-> [issued |-> 1]]]

\* Readings a day or less, a week, a month from a service; one with more load than run.
MCTotals == {[run |-> 153, load |-> 153], [run |-> 161, load |-> 337], [run |-> 393, load |-> 200]}

\* A person on the register with a leave or with equipment, or with blanks and nothing.
MCRegister(about, t) ==
    [i \in RowIds |-> IF i = 1 THEN Person("C1", about)
                     ELSE IF i = 11 /\ about # "blanks" THEN Paper(t, Person("C1", about), "boots") ELSE NoRow]
MCRegister0 == {MCRegister("miner", "leaves"), MCRegister("fitter", "ppe_records"), MCRegister("blanks", "none")}
MCRow(id, about, item) == [number |-> id, about |-> about, item |-> item]
\* Somebody who may be there and somebody new, twice; somebody new, with the same item twice.
MCWorkbooks ==
    {<<MCRow("C1", "miner", "boots"), MCRow("C2", "miner", "boots"), MCRow("C2", "blanks", "suit")>>,
     <<MCRow("C2", "miner", "boots"), MCRow("C2", "miner", "boots")>>}
MCTasks ==
    {<<"edit", "enter">>, <<"enter", "edit">>, <<"edit", "create", "edit">>, <<"edit", "create", "enter">>, <<"delete", "enter", "restore">>,
     <<"enter", "delete", "create">>, <<"drop", "restore", "drop">>, <<"drop", "edit", "restore">>, <<"drop", "enter", "restore">>, <<"bulk", "edit">>,
     <<"import", "edit">>, <<"import", "delete">>, <<"import", "enter", "undo">>, <<"import", "undo", "restore">>}

ASSUME RegistersAssumption == MCRegister0 \subseteq Registers

AnyRecurrence == CHOOSE s \in Recurrences : TRUE
AnyDate == CHOOSE d \in FirstDates : TRUE
NoRegister == [i \in RowIds |-> NoRow]
OneStock == [code \in StockCodes |-> 2]

Init ==
    /\ focus \in {"stock", "recurrence", "ppe", "numbers", "meters", "employees"}
    /\ StockInit
    /\ focus # "stock" => quantity = OneStock
    /\ IF focus = "recurrence" THEN RecurrenceInit ELSE schedule = AnyRecurrence /\ due = AnyDate
    /\ PPEInit
    /\ NumbersInit
    /\ MetersInit
    /\ IF focus = "employees"
       THEN \E with \in BOOLEAN, staff \in MCRegister0, kinds \in Tasks : EmployeesInit(with, staff, kinds)
       ELSE EmployeesInit(FALSE, NoRegister, <<>>)

Next ==
    /\ UNCHANGED focus
    /\ \/ focus = "stock" /\ StockNext /\ UNCHANGED <<recurrence_vars, ppe_vars, number_vars, meter_vars, employee_vars>>
       \/ focus = "recurrence" /\ RollForward /\ UNCHANGED <<stock_vars, ppe_vars, number_vars, meter_vars, employee_vars>>
       \/ focus = "ppe" /\ PPENext /\ UNCHANGED <<stock_vars, recurrence_vars, number_vars, meter_vars, employee_vars>>
       \/ focus = "numbers" /\ NumbersNext /\ UNCHANGED <<stock_vars, recurrence_vars, ppe_vars, meter_vars, employee_vars>>
       \/ focus = "meters" /\ MetersNext /\ UNCHANGED <<stock_vars, recurrence_vars, ppe_vars, number_vars, employee_vars>>
       \/ focus = "employees" /\ EmployeesNext /\ UNCHANGED <<stock_vars, recurrence_vars, ppe_vars, number_vars, meter_vars>>

Spec == Init /\ [][Next]_vars

\* The requests of every register have the same two names.
IdSymmetry == Permutations(StockRequests) \cup Permutations(IssueIds)
=============================================================================
