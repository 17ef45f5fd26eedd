----------------------------- MODULE People_proofs -----------------------------
(***************************************************************************)
(* What people's registers keep, for every number of people, requests and  *)
(* days: leave and overtime, the stand-ins of the rotations, and the two   *)
(* sides of the scope rules, what a list keeps and what may be opened.     *)
(* And what the Tools workspace keeps of its accounts, its gate passes and *)
(* its checks, of its tools and their sets, for every number of users,     *)
(* tools, sets and requests; and the timesheets: the daily ones, for every *)
(* review, import and save by hand, and the monthly ones.                  *)
(***************************************************************************)
EXTENDS LeaveOvertime, RotationCovers, ToolAccounts, GatePasses, ToolboxChecks, Timesheets,
        ToolRegister, ToolSets, MonthSheets,
        SequenceTheorems, FiniteSetTheorems, WellFoundedInduction, TLAPS

-----------------------------------------------------------------------------
(* Leave and overtime: the rules. *)

\* A PATCH leaves a row of overtime a row of overtime.
LEMMA MergeOvertime ==
    ASSUME NEW row \in OvertimeRows, NEW patch \in OvertimePatches
    PROVE  /\ Merge(row, patch) \in OvertimeRows
           /\ "status" \notin DOMAIN patch => Merge(row, patch).status = row.status
           /\ DOMAIN patch \cap {"day", "time"} = {} =>
                  Merge(row, patch).day = row.day /\ Merge(row, patch).time = row.time
<1>1. DOMAIN row = {"day", "time", "status", "payout"}
  BY DEF OvertimeRows
<1>2. PICK m : m = Merge(row, patch)
  OBVIOUS
<1>3. m = [f \in {"day", "time", "status", "payout"} |-> IF f \in DOMAIN patch THEN patch[f] ELSE row[f]]
  BY <1>1, <1>2 DEF Merge
<1>4. m = [day |-> IF "day" \in DOMAIN patch THEN patch.day ELSE row.day,
           time |-> IF "time" \in DOMAIN patch THEN patch.time ELSE row.time,
           status |-> IF "status" \in DOMAIN patch THEN patch.status ELSE row.status,
           payout |-> IF "payout" \in DOMAIN patch THEN patch.payout ELSE row.payout]
  BY <1>3
<1>5. /\ "day" \in DOMAIN patch => patch.day \in Days
      /\ "time" \in DOMAIN patch => patch.time \in Times \cup {<<>>}
      /\ "status" \in DOMAIN patch => patch.status \in Statuses
      /\ "payout" \in DOMAIN patch => patch.payout \in {"cash", "lieu"}
  BY DEF OvertimePatches, OvertimeMoves
<1>6. m \in OvertimeRows
  BY <1>4, <1>5 DEF OvertimeRows, AllStatuses
<1> QED BY <1>2, <1>4, <1>6

LEMMA OnlyNeighbours ==
    ASSUME NEW r \in OvertimeRows, NEW q \in OvertimeRows, SameTime(r, q)
    PROVE  q.day \in neighbour_dates(r.day)
<1> DEFINE a == r.day  b == q.day  L == DayLength
<1>1. a \in Int /\ b \in Int /\ L \in Nat \ {0}
  BY ValueAssumption DEF OvertimeRows
<1>2. \A t \in Times : t # <<>> => t[1] \in 0 .. L /\ t[2] \in 0 .. L
  BY ValueAssumption
<1>3. /\ r.time[1] \in 0 .. L /\ r.time[2] \in 0 .. L
      /\ q.time[1] \in 0 .. L /\ q.time[2] \in 0 .. L
  BY <1>2 DEF SameTime, OvertimeRows
<1>4. a * L \in Int /\ b * L \in Int
  BY <1>1
<1>5. a * L < b * L + 2 * L /\ b * L < a * L + 2 * L
  <2>1. /\ time_window(r.day, r.time)[1] >= a * L /\ time_window(r.day, r.time)[2] <= a * L + 2 * L
        /\ time_window(r.day, r.time)[1] \in Int /\ time_window(r.day, r.time)[2] \in Int
    BY <1>1, <1>3, <1>4 DEF time_window
  <2>2. /\ time_window(q.day, q.time)[1] >= b * L /\ time_window(q.day, q.time)[2] <= b * L + 2 * L
        /\ time_window(q.day, q.time)[1] \in Int /\ time_window(q.day, q.time)[2] \in Int
    BY <1>1, <1>3, <1>4 DEF time_window
  <2>3. /\ time_window(r.day, r.time)[1] < time_window(q.day, q.time)[2]
        /\ time_window(q.day, q.time)[1] < time_window(r.day, r.time)[2]
    BY DEF SameTime, Meet
  <2> HIDE DEF a, b, L
  <2> QED BY <1>1, <1>4, <2>1, <2>2, <2>3
<1>6. ASSUME b > a + 1 PROVE FALSE
  <2>1. b * L >= (a + 2) * L
    BY <1>1, <1>6
  <2>2. (a + 2) * L = a * L + 2 * L
    BY <1>1
  <2> QED BY <1>1, <1>4, <1>5, <2>1, <2>2
<1>7. ASSUME a > b + 1 PROVE FALSE
  <2>1. a * L >= (b + 2) * L
    BY <1>1, <1>7
  <2>2. (b + 2) * L = b * L + 2 * L
    BY <1>1
  <2> QED BY <1>1, <1>4, <1>5, <2>1, <2>2
<1> QED BY <1>1, <1>6, <1>7 DEF neighbour_dates

LEMMA MergeLeave ==
    ASSUME NEW row \in LeaveRows, NEW patch \in LeavePatches
    PROVE  /\ Merge(row, patch) \in LeaveRows
           /\ "status" \notin DOMAIN patch => Merge(row, patch).status = row.status
           /\ DOMAIN patch \cap {"from", "to"} = {} =>
                  Merge(row, patch).from = row.from /\ Merge(row, patch).to = row.to
<1>1. DOMAIN row = {"from", "to", "status", "overtime"}
  BY DEF LeaveRows
<1>2. PICK m : m = Merge(row, patch)
  OBVIOUS
<1>3. m = [f \in {"from", "to", "status", "overtime"} |-> IF f \in DOMAIN patch THEN patch[f] ELSE row[f]]
  BY <1>1, <1>2 DEF Merge
<1>4. m = [from |-> IF "from" \in DOMAIN patch THEN patch.from ELSE row.from,
           to |-> IF "to" \in DOMAIN patch THEN patch.to ELSE row.to,
           status |-> IF "status" \in DOMAIN patch THEN patch.status ELSE row.status,
           overtime |-> IF "overtime" \in DOMAIN patch THEN patch.overtime ELSE row.overtime]
  BY <1>3
<1>5. /\ "from" \in DOMAIN patch => patch.from \in Days
      /\ "to" \in DOMAIN patch => patch.to \in Days
      /\ "status" \in DOMAIN patch => patch.status \in Statuses
      /\ "overtime" \notin DOMAIN patch
  BY DEF LeavePatches
<1>6. m \in LeaveRows
  BY <1>4, <1>5 DEF LeaveRows, AllStatuses
<1> QED BY <1>2, <1>4, <1>6

\* A row that is there is not Null.
LEMMA RowsAreThere == Null \notin OvertimeRows /\ Null \notin LeaveRows
BY NullAssumption

-----------------------------------------------------------------------------
(* What a request holds. *)

AllIds == OvertimeIds \cup LeaveIds
Labels == {"insert_overtime", "check_overtime", "write_overtime", "delete_overtime", "check_bulk", "find_link",
           "check_lieu", "insert_leave", "read_leave", "check_leave", "write_leave", "delete_leave"}
OvertimeTables == [OvertimeIds -> OvertimeRows \cup {Null}]
LeaveTables == [LeaveIds -> LeaveRows \cup {Null}]
Holdings ==
    [pc : Labels, manager : BOOLEAN, ids : SUBSET AllIds,
     data : OvertimeRows \cup LeaveRows \cup OvertimePatches \cup LeavePatches \cup {Null},
     row : OvertimeRows \cup LeaveRows \cup OvertimeTables \cup {Null},
     todo : SUBSET AllIds, unseen : SUBSET AllIds]

EditsOvertime(x) == x.pc \in {"check_overtime", "write_overtime", "check_bulk"}
EditsLeave(x) == x.pc \in {"read_leave", "check_leave", "write_leave"}
MakesLeave(x) == x.pc \in {"find_link", "check_lieu", "insert_leave"}

Shaped(x) ==
    /\ x.pc = "insert_overtime" => x.data \in OvertimeRows
    /\ EditsOvertime(x) => x.data \in OvertimePatches /\ x.ids \subseteq OvertimeIds
    /\ x.pc = "check_overtime" => x.row \in OvertimeRows /\ \E o \in OvertimeIds : x.ids = {o}
    /\ x.pc = "check_bulk" => x.data \in OvertimeMoves /\ x.row \in OvertimeTables /\ x.todo \subseteq x.ids
    /\ x.pc = "delete_overtime" => x.manager /\ x.ids \subseteq OvertimeIds
    /\ MakesLeave(x) => x.data \in LeaveRows
    /\ EditsLeave(x) => x.data \in LeavePatches /\ \E l \in LeaveIds : x.ids = {l}
    /\ x.pc = "check_leave" => x.row \in LeaveRows
    /\ x.pc = "delete_leave" => x.manager /\ x.ids \subseteq LeaveIds

\* What nobody changed behind the back of a request is still undecided, unless its caller
\* may decide.
Undecided(x) ==
    /\ EditsOvertime(x) /\ ~x.manager =>
          \A o \in x.ids : o \in x.unseen \/ (overtime[o] # Null /\ overtime[o].status \notin OvertimeLocked)
    /\ x.pc = "delete_overtime" =>
          \A o \in x.ids : o \in x.unseen \/ (overtime[o] # Null /\ overtime[o].status \notin {"approved", "paid"})
    /\ EditsLeave(x) /\ ~x.manager =>
          \A l \in x.ids : l \in x.unseen \/ (leaves[l] # Null /\ leaves[l].status \notin {"approved", "rejected"})
    /\ x.pc = "delete_leave" =>
          \A l \in x.ids : l \in x.unseen \/ (leaves[l] # Null /\ leaves[l].status # "approved")

\* Leave made approved is for overtime that is owed.
Owed(x) ==
    MakesLeave(x) /\ x.data.status = "approved" =>
        /\ x.data.overtime \in OvertimeIds
        /\ \/ x.data.overtime \in x.unseen
           \/ /\ overtime[x.data.overtime] # Null /\ overtime[x.data.overtime].status = "approved"
              /\ overtime[x.data.overtime].payout = "lieu"

\* The row after the edit meets no other live row it did not meet before, as far as the
\* request has seen.
OvertimeClear(x, o) ==
    \A p \in OvertimeIds \ {o} :
        \/ {o, p} \cap x.unseen # {} \/ overtime[o] = Null
        \/ Live(Merge(overtime[o], x.data)) /\ Live(overtime[p]) /\ SameTime(Merge(overtime[o], x.data), overtime[p])
               => DoubleOvertime(o, p)
LeaveClear(x, l) ==
    \A m \in LeaveIds \ {l} :
        \/ {l, m} \cap x.unseen # {} \/ leaves[l] = Null
        \/ Live(Merge(leaves[l], x.data)) /\ Live(leaves[m]) /\ ShareADay(Merge(leaves[l], x.data), leaves[m])
               => DoubleLeave(l, m)

Unbooked(x) ==
    /\ x.pc = "insert_overtime" =>
          \A p \in OvertimeIds : Live(overtime[p]) /\ SameTime(x.data, overtime[p]) => p \in x.unseen
    /\ x.pc = "check_overtime" => \A o \in x.ids : o \in x.unseen \/ overtime[o] = x.row
    /\ x.pc = "check_bulk" => \A o \in OvertimeIds : o \in x.unseen \/ overtime[o] = x.row[o]
    /\ x.pc = "check_bulk" => \A o \in x.ids \ x.todo : OvertimeClear(x, o)
    /\ x.pc = "write_overtime" => \A o \in x.ids : OvertimeClear(x, o)
    /\ x.pc = "insert_leave" =>
          \A m \in LeaveIds : Live(leaves[m]) /\ ShareADay(x.data, leaves[m]) => m \in x.unseen
    /\ x.pc = "check_leave" => \A l \in x.ids : l \in x.unseen \/ leaves[l] = x.row
    /\ x.pc = "write_leave" => \A l \in x.ids : LeaveClear(x, l)

Sound(x) == Shaped(x) /\ Undecided(x) /\ Owed(x) /\ Unbooked(x)

TablesTyped ==
    /\ overtime \in OvertimeTables /\ leaves \in LeaveTables /\ used \subseteq AllIds
    /\ \A o \in OvertimeIds : overtime[o] # Null => o \in used
    /\ \A l \in LeaveIds : leaves[l] # Null => l \in used

LeaveInv ==
    /\ TablesTyped
    /\ req \in [Requests -> Holdings \cup {Idle}]
    /\ \A c \in Requests : req[c] = Idle \/ Sound(req[c])

\* A request whose call another one's write overtook knows what it has not seen.
LEMMA Overtaken ==
    ASSUME NEW x \in Holdings, Sound(x), NEW changed \in SUBSET AllIds, NEW y,
           y = [x EXCEPT !.unseen = @ \cup changed],
           \A o \in OvertimeIds \ changed : overtime'[o] = overtime[o],
           \A l \in LeaveIds \ changed : leaves'[l] = leaves[l]
    PROVE  y \in Holdings /\ Sound(y)'
<1>1. /\ y.pc = x.pc /\ y.manager = x.manager /\ y.ids = x.ids /\ y.data = x.data /\ y.row = x.row
      /\ y.todo = x.todo /\ y.unseen = x.unseen \cup changed /\ y \in Holdings
  BY DEF Holdings
<1>2. Shaped(y)'
  BY <1>1 DEF Sound, Shaped, EditsOvertime, EditsLeave, MakesLeave
<1>3. Undecided(y)'
  BY <1>1 DEF Sound, Shaped, Undecided, EditsOvertime, EditsLeave
<1>4. Owed(y)'
  BY <1>1 DEF Sound, Owed, MakesLeave
<1>5. ASSUME NEW o \in OvertimeIds, OvertimeClear(x, o)
      PROVE  OvertimeClear(y, o)'
  BY <1>1, <1>5 DEF OvertimeClear, DoubleOvertime
<1>6. ASSUME NEW l \in LeaveIds, LeaveClear(x, l)
      PROVE  LeaveClear(y, l)'
  BY <1>1, <1>6 DEF LeaveClear, DoubleLeave
<1>7. Unbooked(x) /\ Shaped(x)
  BY DEF Sound
<1>8. /\ x.pc \in {"check_bulk", "write_overtime"} => x.ids \subseteq OvertimeIds
      /\ x.pc \in {"check_leave", "write_leave"} => x.ids \subseteq LeaveIds
      /\ x.pc = "check_overtime" => x.ids \subseteq OvertimeIds
  BY <1>7 DEF Shaped, EditsOvertime, EditsLeave
<1>9. y.pc = "check_bulk" => \A o \in y.ids \ y.todo : OvertimeClear(y, o)'
  BY <1>1, <1>5, <1>7, <1>8 DEF Unbooked
<1>10. y.pc = "write_overtime" => \A o \in y.ids : OvertimeClear(y, o)'
  BY <1>1, <1>5, <1>7, <1>8 DEF Unbooked
<1>11. y.pc = "write_leave" => \A l \in y.ids : LeaveClear(y, l)'
  BY <1>1, <1>6, <1>7, <1>8 DEF Unbooked
<1>12. Unbooked(y)'
  BY <1>1, <1>7, <1>8, <1>9, <1>10, <1>11 DEF Unbooked
<1> QED BY <1>1, <1>2, <1>3, <1>4, <1>12 DEF Sound

\* A request takes its next call and the others are told what it changed.
LEMMA GoesOn ==
    ASSUME LeaveInv, NEW c \in Requests, NEW next \in Holdings \cup {Idle}, NEW changed \in SUBSET AllIds,
           Goes(c, next, changed), TablesTyped',
           \A o \in OvertimeIds \ changed : overtime'[o] = overtime[o],
           \A l \in LeaveIds \ changed : leaves'[l] = leaves[l],
           next = Idle \/ Sound(next)'
    PROVE  LeaveInv'
<1>1. /\ req'[c] = next /\ DOMAIN req' = Requests
      /\ \A d \in Requests \ {c} :
            req'[d] = IF req[d] = Idle THEN Idle ELSE [req[d] EXCEPT !.unseen = @ \cup changed]
      /\ req' = [d \in Requests |-> req'[d]]
  BY DEF Goes
<1>2. ASSUME NEW d \in Requests \ {c}
      PROVE  req'[d] = Idle \/ \E y \in Holdings : y = req'[d] /\ Sound(y)'
  <2>1. CASE req[d] = Idle
    BY <1>1, <2>1
  <2>2. CASE req[d] # Idle
    <3>1. PICK x \in Holdings : x = req[d]
      BY <2>2 DEF LeaveInv
    <3>2. PICK y : y = [x EXCEPT !.unseen = @ \cup changed]
      OBVIOUS
    <3>3. Sound(x)
      BY <2>2, <3>1 DEF LeaveInv
    <3>4. y \in Holdings /\ Sound(y)'
      BY <3>2, <3>3, Overtaken
    <3>5. req'[d] = y
      BY <1>1, <2>2, <3>1, <3>2
    <3> QED BY <3>4, <3>5
  <2> QED BY <2>1, <2>2
<1>3. req' \in [Requests -> Holdings \cup {Idle}]
  BY <1>1, <1>2
<1>4. ASSUME NEW d \in Requests
      PROVE  (req[d] = Idle \/ Sound(req[d]))'
  <2>1. CASE req'[d] = Idle
    BY <2>1
  <2>2. CASE req'[d] # Idle
    <3>1. PICK y \in Holdings \cup {Idle} : y = req'[d] /\ Sound(y)'
      BY <1>1, <1>2, <2>2
    <3> QED BY <3>1 DEF Sound, Shaped, Undecided, Owed, Unbooked, OvertimeClear, LeaveClear, DoubleOvertime,
                        DoubleLeave, EditsOvertime, EditsLeave, MakesLeave
  <2> QED BY <2>1, <2>2
<1> QED BY <1>3, <1>4 DEF LeaveInv

\* A call that changes nothing.
LEMMA LooksOn ==
    ASSUME LeaveInv, NEW c \in Requests, NEW next \in Holdings \cup {Idle}, Goes(c, next, {}), UNCHANGED tables,
           next = Idle \/ Sound(next)
    PROVE  LeaveInv'
<1>1. TablesTyped'
  BY DEF LeaveInv, TablesTyped, tables
<1>2. next = Idle \/ Sound(next)'
  BY DEF tables, Sound, Shaped, Undecided, Owed, Unbooked, OvertimeClear, LeaveClear, DoubleOvertime, DoubleLeave,
         EditsOvertime, EditsLeave, MakesLeave
<1>3. UNCHANGED <<overtime, leaves>> /\ {} \in SUBSET AllIds
  BY DEF tables
<1> QED BY <1>1, <1>2, <1>3, GoesOn

-----------------------------------------------------------------------------
(* Requests that arrive. *)

LEMMA CreateOvertimeStep ==
    ASSUME LeaveInv, NEW c \in Requests, NEW d \in Days, NEW t \in Times, NEW p \in Payouts,
           create_overtime(c, d, t, p)
    PROVE  LeaveInv' /\ UNCHANGED tables
<1>1. PICK row : row = [day |-> d, time |-> t, status |-> "pending", payout |-> p]
  OBVIOUS
<1>2. row \in OvertimeRows /\ row.status = "pending"
  BY <1>1, ValueAssumption DEF OvertimeRows, AllStatuses
<1>3. PICK next : next = Holding("insert_overtime", FALSE, {}, row)
  OBVIOUS
<1>4. /\ next \in Holdings /\ next.pc = "insert_overtime" /\ next.data = row /\ next.unseen = {}
  BY <1>2, <1>3 DEF Holding, Holdings, Labels, AllIds
<1>5. Goes(c, next, {}) /\ UNCHANGED tables /\ ~OvertimeClash(row, {})
  BY <1>1, <1>3 DEF create_overtime, Starts
<1>6. \A o \in OvertimeIds : ~(Live(overtime[o]) /\ SameTime(row, overtime[o]))
  <2>1. ASSUME NEW o \in OvertimeIds, Live(overtime[o]), SameTime(row, overtime[o])
        PROVE  FALSE
    <3>1. overtime[o] \in OvertimeRows
      BY <2>1 DEF LeaveInv, TablesTyped, OvertimeTables, Live
    <3>2. overtime[o].day \in neighbour_dates(row.day)
      BY <1>2, <2>1, <3>1, OnlyNeighbours
    <3> QED BY <1>5, <2>1, <3>2 DEF OvertimeClash
  <2> QED BY <2>1
<1>7. Sound(next)
  BY <1>2, <1>4, <1>6 DEF Sound, Shaped, Undecided, Owed, Unbooked, EditsOvertime, EditsLeave, MakesLeave
<1> QED BY <1>4, <1>5, <1>7, LooksOn

LEMMA UpdateOvertimeStep ==
    ASSUME LeaveInv, NEW c \in Requests, NEW o \in OvertimeIds, NEW patch \in OvertimePatches, NEW manager \in BOOLEAN,
           update_overtime(c, o, patch, manager)
    PROVE  LeaveInv' /\ UNCHANGED tables
<1>1. overtime[o] \in OvertimeRows /\ overtime[o] # Null /\ UNCHANGED tables
  BY DEF LeaveInv, TablesTyped, OvertimeTables, update_overtime, Starts
<1>2. ~manager => overtime[o].status \notin OvertimeLocked
  BY DEF update_overtime, MayEditOvertime
<1>3. CASE MoveChecked(overtime[o], patch)
  <2>1. PICK first : first = Holding("check_overtime", manager, {o}, patch)
    OBVIOUS
  <2>2. /\ first \in Holdings /\ first.pc = "check_overtime" /\ first.data = patch /\ first.unseen = {}
        /\ first.ids = {o} /\ first.manager = manager
    BY <2>1 DEF Holding, Holdings, Labels, AllIds
  <2>3. PICK next : next = [first EXCEPT !.row = overtime[o]]
    OBVIOUS
  <2>4. /\ next \in Holdings /\ next.pc = "check_overtime" /\ next.data = patch /\ next.unseen = {}
        /\ next.ids = {o} /\ next.manager = manager /\ next.row = overtime[o]
    BY <1>1, <2>2, <2>3 DEF Holdings
  <2>5. Goes(c, next, {})
    BY <1>3, <2>1, <2>3 DEF update_overtime
  <2>6. Sound(next)
    BY <1>1, <1>2, <2>4 DEF Sound, Shaped, Undecided, Owed, Unbooked, EditsOvertime, EditsLeave, MakesLeave
  <2> QED BY <1>1, <2>4, <2>5, <2>6, LooksOn
<1>4. CASE ~MoveChecked(overtime[o], patch)
  <2>1. PICK next : next = Holding("write_overtime", manager, {o}, patch)
    OBVIOUS
  <2>2. /\ next \in Holdings /\ next.pc = "write_overtime" /\ next.data = patch /\ next.unseen = {}
        /\ next.ids = {o} /\ next.manager = manager
    BY <2>1 DEF Holding, Holdings, Labels, AllIds
  <2>3. Goes(c, next, {})
    BY <1>4, <2>1 DEF update_overtime
  <2>4. PICK m \in OvertimeRows : m = Merge(overtime[o], patch)
    BY <1>1, MergeOvertime
  <2>5. Live(m) => Live(overtime[o]) /\ m.day = overtime[o].day /\ m.time = overtime[o].time
    BY <1>1, <1>4, <2>4 DEF MoveChecked, Live
  <2>6. OvertimeClear(next, o)
    BY <2>2, <2>4, <2>5 DEF OvertimeClear, DoubleOvertime, SameTime
  <2>7. Sound(next)
    BY <1>1, <1>2, <2>2, <2>6 DEF Sound, Shaped, Undecided, Owed, Unbooked, EditsOvertime, EditsLeave, MakesLeave
  <2> QED BY <1>1, <2>2, <2>3, <2>7, LooksOn
<1> QED BY <1>3, <1>4

LEMMA BulkEditStep ==
    ASSUME LeaveInv, NEW c \in Requests, NEW ids \in SUBSET OvertimeIds, NEW patch \in OvertimeMoves, NEW manager \in BOOLEAN,
           bulk_edit_overtime(c, ids, patch, manager)
    PROVE  LeaveInv' /\ UNCHANGED tables
<1>1. PICK editable : editable = {o \in {o \in ids : overtime[o] # Null} : MayEditOvertime(overtime[o], patch, manager)}
  OBVIOUS
<1>2. /\ editable \subseteq OvertimeIds
      /\ \A o \in editable : overtime[o] # Null /\ (~manager => overtime[o].status \notin OvertimeLocked)
  BY <1>1 DEF MayEditOvertime
<1>3. patch \in OvertimePatches /\ DOMAIN patch \cap {"day", "time"} # {} /\ "status" \notin DOMAIN patch
  BY DEF OvertimePatches, OvertimeMoves
<1>4. PICK first : first = Holding("check_bulk", manager, editable, patch)
  OBVIOUS
<1>5. /\ first \in Holdings /\ first.pc = "check_bulk" /\ first.data = patch /\ first.unseen = {}
      /\ first.ids = editable /\ first.manager = manager
  BY <1>2, <1>3, <1>4 DEF Holding, Holdings, Labels, AllIds
<1>6. PICK todo : todo = {o \in editable : Live(overtime[o])}
  OBVIOUS
<1>7. PICK next : next = [first EXCEPT !.row = overtime, !.todo = todo]
  OBVIOUS
<1>8. overtime \in OvertimeTables /\ UNCHANGED tables
  BY DEF LeaveInv, TablesTyped, bulk_edit_overtime, Starts
<1>9. /\ next \in Holdings /\ next.pc = "check_bulk" /\ next.data = patch /\ next.unseen = {}
      /\ next.ids = editable /\ next.manager = manager /\ next.row = overtime /\ next.todo = todo
  BY <1>2, <1>5, <1>6, <1>7, <1>8 DEF Holdings, AllIds
<1>10. Goes(c, next, {})
  BY <1>1, <1>3, <1>4, <1>6, <1>7 DEF bulk_edit_overtime
<1>11. \A o \in editable \ todo : OvertimeClear(next, o)
  <2> TAKE o \in editable \ todo
  <2>1. overtime[o] \in OvertimeRows /\ ~Live(overtime[o])
    BY <1>2, <1>6, <1>8 DEF OvertimeTables
  <2>2. ~Live(Merge(overtime[o], patch))
    BY <1>2, <1>3, <2>1, MergeOvertime DEF Live
  <2> QED BY <1>9, <2>2 DEF OvertimeClear
<1>12. Sound(next)
  BY <1>2, <1>3, <1>6, <1>8, <1>9, <1>11
     DEF Sound, Shaped, Undecided, Owed, Unbooked, EditsOvertime, EditsLeave, MakesLeave
<1> QED BY <1>8, <1>9, <1>10, <1>12, LooksOn

LEMMA DeleteOvertimeStarts ==
    ASSUME LeaveInv, NEW c \in Requests, NEW o \in OvertimeIds, delete_overtime(c, o)
    PROVE  LeaveInv' /\ UNCHANGED tables
<1>1. PICK next : next = Holding("delete_overtime", TRUE, {o}, Null)
  OBVIOUS
<1>2. /\ next \in Holdings /\ next.pc = "delete_overtime" /\ next.ids = {o} /\ next.manager /\ next.unseen = {}
  BY <1>1 DEF Holding, Holdings, Labels, AllIds
<1>3. /\ Goes(c, next, {}) /\ UNCHANGED tables
      /\ overtime[o] # Null /\ overtime[o].status \notin {"approved", "paid"}
  BY <1>1 DEF delete_overtime, Starts
<1>4. Sound(next)
  BY <1>2, <1>3 DEF Sound, Shaped, Undecided, Owed, Unbooked, EditsOvertime, EditsLeave, MakesLeave
<1> QED BY <1>2, <1>3, <1>4, LooksOn

LEMMA TakeStarts ==
    ASSUME LeaveInv, NEW c \in Requests, NEW o \in OvertimeIds, NEW a \in Days, NEW b \in Days, take_as_leave(c, o, a, b)
    PROVE  LeaveInv' /\ UNCHANGED tables
<1>1. PICK row : row = [from |-> a, to |-> b, status |-> "approved", overtime |-> o]
  OBVIOUS
<1>2. row \in LeaveRows /\ row.overtime = o
  BY <1>1 DEF LeaveRows, AllStatuses
<1>3. PICK next : next = Holding("find_link", TRUE, {o}, row)
  OBVIOUS
<1>4. next \in Holdings /\ next.pc = "find_link" /\ next.data = row
  BY <1>2, <1>3 DEF Holding, Holdings, Labels, AllIds
<1>5. /\ Goes(c, next, {}) /\ UNCHANGED tables
      /\ overtime[o] # Null /\ overtime[o].status = "approved" /\ overtime[o].payout = "lieu"
  BY <1>1, <1>3 DEF take_as_leave, Starts
<1>6. Sound(next)
  BY <1>2, <1>4, <1>5 DEF Sound, Shaped, Undecided, Owed, Unbooked, EditsOvertime, EditsLeave, MakesLeave
<1> QED BY <1>4, <1>5, <1>6, LooksOn

LEMMA CreateLeaveStep ==
    ASSUME LeaveInv, NEW c \in Requests, NEW a \in Days, NEW b \in Days, NEW o \in OvertimeIds \cup {Null},
           create_leave(c, a, b, o)
    PROVE  LeaveInv' /\ UNCHANGED tables
<1>1. PICK row : row = [from |-> a, to |-> b, status |-> "pending", overtime |-> o]
  OBVIOUS
<1>2. row \in LeaveRows /\ row.status = "pending"
  BY <1>1 DEF LeaveRows, AllStatuses
<1>3. PICK next : next = Holding("insert_leave", FALSE, {}, row)
  OBVIOUS
<1>4. next \in Holdings /\ next.pc = "insert_leave" /\ next.data = row /\ next.unseen = {}
  BY <1>2, <1>3 DEF Holding, Holdings, Labels, AllIds
<1>5. Goes(c, next, {}) /\ UNCHANGED tables /\ ~LeaveClash(row, {})
  BY <1>1, <1>3 DEF create_leave, Starts
<1>6. \A m \in LeaveIds : ~(Live(leaves[m]) /\ ShareADay(row, leaves[m]))
  BY <1>5 DEF LeaveClash
<1>7. Sound(next)
  BY <1>2, <1>4, <1>6 DEF Sound, Shaped, Undecided, Owed, Unbooked, EditsOvertime, EditsLeave, MakesLeave
<1> QED BY <1>4, <1>5, <1>7, LooksOn

LEMMA UpdateLeaveStarts ==
    ASSUME LeaveInv, NEW c \in Requests, NEW l \in LeaveIds, NEW patch \in LeavePatches, NEW manager \in BOOLEAN,
           update_leave(c, l, patch, manager)
    PROVE  LeaveInv' /\ UNCHANGED tables
<1>1. PICK next : next = Holding("read_leave", manager, {l}, patch)
  OBVIOUS
<1>2. /\ next \in Holdings /\ next.pc = "read_leave" /\ next.data = patch /\ next.ids = {l}
      /\ next.manager = manager
  BY <1>1 DEF Holding, Holdings, Labels, AllIds
<1>3. /\ Goes(c, next, {}) /\ UNCHANGED tables /\ leaves[l] # Null
      /\ ~manager => leaves[l].status \notin {"approved", "rejected"}
  BY <1>1 DEF update_leave, Starts
<1>4. Sound(next)
  BY <1>2, <1>3 DEF Sound, Shaped, Undecided, Owed, Unbooked, EditsOvertime, EditsLeave, MakesLeave
<1> QED BY <1>2, <1>3, <1>4, LooksOn

LEMMA DeleteLeaveStarts ==
    ASSUME LeaveInv, NEW c \in Requests, NEW l \in LeaveIds, delete_leave(c, l)
    PROVE  LeaveInv' /\ UNCHANGED tables
<1>1. PICK next : next = Holding("delete_leave", TRUE, {l}, Null)
  OBVIOUS
<1>2. /\ next \in Holdings /\ next.pc = "delete_leave" /\ next.ids = {l} /\ next.manager
  BY <1>1 DEF Holding, Holdings, Labels, AllIds
<1>3. /\ Goes(c, next, {}) /\ UNCHANGED tables
      /\ leaves[l] # Null /\ leaves[l].status # "approved"
  BY <1>1 DEF delete_leave, Starts
<1>4. Sound(next)
  BY <1>2, <1>3 DEF Sound, Shaped, Undecided, Owed, Unbooked, EditsOvertime, EditsLeave, MakesLeave
<1> QED BY <1>2, <1>3, <1>4, LooksOn

-----------------------------------------------------------------------------
(* Later calls that only read. *)

LEMMA AtRequest ==
    ASSUME LeaveInv, NEW c \in Requests, req[c].pc \in Labels
    PROVE  req[c] # Idle /\ req[c] \in Holdings /\ Sound(req[c])
<1>1. "idle" \notin Labels
  BY DEF Labels
<1> QED BY <1>1 DEF LeaveInv, Idle

LEMMA DeclineStep ==
    ASSUME LeaveInv, NEW c \in Requests, Declines(c), UNCHANGED tables
    PROVE  LeaveInv'
BY LooksOn DEF Declines

LEMMA CheckOvertimeStep ==
    ASSUME LeaveInv, NEW c \in Requests, CheckOvertime(c)
    PROVE  LeaveInv' /\ UNCHANGED tables
<1>1. req[c].pc = "check_overtime" /\ UNCHANGED tables
  BY DEF CheckOvertime, At
<1>2. PICK x \in Holdings : x = req[c] /\ Sound(x) /\ x.pc = "check_overtime"
  BY <1>1, AtRequest DEF Labels
<1>3. CASE OvertimeClash(Merge(x.row, x.data), x.ids)
  BY <1>1, <1>2, <1>3, DeclineStep DEF CheckOvertime
<1>4. CASE ~OvertimeClash(Merge(x.row, x.data), x.ids)
  <2>1. PICK next : next = [x EXCEPT !.pc = "write_overtime", !.row = Null]
    OBVIOUS
  <2>2. /\ next \in Holdings /\ next.pc = "write_overtime" /\ next.data = x.data /\ next.unseen = x.unseen
        /\ next.ids = x.ids /\ next.manager = x.manager
    BY <2>1 DEF Holdings, Labels
  <2>3. Goes(c, next, {})
    BY <1>2, <1>4, <2>1 DEF CheckOvertime
  <2>4. x.ids \subseteq OvertimeIds /\ x.row \in OvertimeRows /\ x.data \in OvertimePatches
    BY <1>2 DEF Sound, Shaped, EditsOvertime
  <2>5. PICK m \in OvertimeRows : m = Merge(x.row, x.data)
    BY <2>4, MergeOvertime
  <2>6. ASSUME NEW o \in x.ids, NEW p \in OvertimeIds \ {o}, {o, p} \cap x.unseen = {},
               Live(m), Live(overtime[p]), SameTime(m, overtime[p])
        PROVE  p \in x.ids
    <3>1. overtime[p] \in OvertimeRows
      BY <2>6 DEF LeaveInv, TablesTyped, OvertimeTables, Live
    <3>2. overtime[p].day \in neighbour_dates(m.day)
      BY <2>6, <3>1, OnlyNeighbours
    <3> QED BY <1>4, <2>5, <2>6, <3>2 DEF OvertimeClash
  <2>7. \A o \in x.ids : o \in x.unseen \/ overtime[o] = x.row
    BY <1>2 DEF Sound, Unbooked
  <2>8. \A o \in x.ids : OvertimeClear(next, o)
    <3> TAKE o \in x.ids
    <3>1. SUFFICES ASSUME NEW p \in OvertimeIds \ {o}, {o, p} \cap x.unseen = {},
                          Live(Merge(overtime[o], x.data)), Live(overtime[p]),
                          SameTime(Merge(overtime[o], x.data), overtime[p])
                   PROVE  DoubleOvertime(o, p)
      BY <2>2 DEF OvertimeClear
    <3>2. overtime[o] = x.row
      BY <2>7, <3>1
    <3>3. p \in x.ids
      BY <2>5, <2>6, <3>1, <3>2
    <3>4. x.ids = {o}
      BY <1>2, <3>3 DEF Sound, Shaped
    <3> QED BY <3>1, <3>3, <3>4
  <2>9. Undecided(next)
    BY <1>2, <2>2 DEF Sound, Undecided, EditsOvertime, EditsLeave
  <2>10. Sound(next)
    BY <2>2, <2>4, <2>8, <2>9 DEF Sound, Shaped, Owed, Unbooked, EditsOvertime, EditsLeave, MakesLeave
  <2> QED BY <1>1, <2>2, <2>3, <2>10, LooksOn
<1> QED BY <1>3, <1>4

LEMMA CheckBulkStep ==
    ASSUME LeaveInv, NEW c \in Requests, CheckBulk(c)
    PROVE  LeaveInv' /\ UNCHANGED tables
<1>1. req[c].pc = "check_bulk" /\ UNCHANGED tables
  BY DEF CheckBulk, At
<1>2. PICK x \in Holdings : x = req[c] /\ Sound(x) /\ x.pc = "check_bulk"
  BY <1>1, AtRequest DEF Labels
<1>3. PICK o \in x.todo :
          Goes(c, [x EXCEPT !.todo = @ \ {o},
                            !.ids = IF OvertimeClash(Merge(x.row[o], x.data), {o}) THEN @ \ {o} ELSE @], {})
  BY <1>2 DEF CheckBulk
<1>4. PICK ids : ids = IF OvertimeClash(Merge(x.row[o], x.data), {o}) THEN x.ids \ {o} ELSE x.ids
  OBVIOUS
<1>5. PICK next : next = [x EXCEPT !.todo = x.todo \ {o}, !.ids = ids]
  OBVIOUS
<1>6. /\ next \in Holdings /\ next.pc = "check_bulk" /\ next.data = x.data /\ next.unseen = x.unseen
      /\ next.ids = ids /\ next.manager = x.manager /\ next.row = x.row /\ next.todo = x.todo \ {o}
  BY <1>2, <1>4, <1>5 DEF Holdings
<1>7. Goes(c, next, {})
  BY <1>3, <1>4, <1>5
<1>8. /\ x.data \in OvertimeMoves /\ x.data \in OvertimePatches /\ x.row \in OvertimeTables
      /\ x.todo \subseteq x.ids /\ x.ids \subseteq OvertimeIds /\ ids \subseteq x.ids
  BY <1>2, <1>4 DEF Sound, Shaped, EditsOvertime
<1>9. o \in OvertimeIds /\ (o \in ids => ~OvertimeClash(Merge(x.row[o], x.data), {o}))
  BY <1>4, <1>8
<1>10. ASSUME o \in ids
       PROVE  OvertimeClear(next, o)
  <2>1. SUFFICES ASSUME NEW p \in OvertimeIds \ {o}, {o, p} \cap x.unseen = {}, overtime[o] # Null,
                        Live(Merge(overtime[o], x.data)), Live(overtime[p]),
                        SameTime(Merge(overtime[o], x.data), overtime[p])
                 PROVE  FALSE
    BY <1>6 DEF OvertimeClear
  <2>2. overtime[o] = x.row[o]
    BY <1>2, <1>9, <2>1 DEF Sound, Unbooked
  <2>3. overtime[p] \in OvertimeRows /\ overtime[o] \in OvertimeRows
    BY <1>9, <2>1 DEF LeaveInv, TablesTyped, OvertimeTables, Live
  <2>4. PICK m \in OvertimeRows : m = Merge(overtime[o], x.data)
    BY <1>8, <2>3, MergeOvertime
  <2>5. overtime[p].day \in neighbour_dates(m.day)
    BY <2>1, <2>3, <2>4, OnlyNeighbours
  <2> QED BY <1>9, <1>10, <2>1, <2>2, <2>4, <2>5 DEF OvertimeClash
<1>11. \A q \in ids \ next.todo : OvertimeClear(next, q)
  <2> TAKE q \in ids \ next.todo
  <2>1. CASE q = o
    BY <1>10, <2>1
  <2>2. CASE q # o
    BY <1>2, <1>6, <1>8, <2>2 DEF Sound, Unbooked, OvertimeClear
  <2> QED BY <2>1, <2>2
<1>12. next.todo \subseteq ids
  BY <1>4, <1>6, <1>8
<1>13. Undecided(next)
  BY <1>2, <1>6, <1>8 DEF Sound, Undecided, EditsOvertime, EditsLeave
<1>14. Shaped(next)
  BY <1>6, <1>8, <1>12 DEF Shaped, EditsOvertime, EditsLeave, MakesLeave
<1>15. Sound(next)
  BY <1>2, <1>6, <1>11, <1>13, <1>14 DEF Sound, Owed, Unbooked, MakesLeave
<1> QED BY <1>1, <1>6, <1>7, <1>15, LooksOn

LEMMA BulkCheckedStep ==
    ASSUME LeaveInv, NEW c \in Requests, BulkChecked(c)
    PROVE  LeaveInv' /\ UNCHANGED tables
<1>1. req[c].pc = "check_bulk" /\ UNCHANGED tables
  BY DEF BulkChecked, At
<1>2. PICK x \in Holdings : x = req[c] /\ Sound(x) /\ x.pc = "check_bulk"
  BY <1>1, AtRequest DEF Labels
<1>3. x.todo = {}
  BY <1>2 DEF BulkChecked
<1>4. CASE x.ids = {}
  BY <1>1, <1>2, <1>4, DeclineStep DEF BulkChecked
<1>5. CASE x.ids # {}
  <2>1. PICK next : next = [x EXCEPT !.pc = "write_overtime", !.row = Null]
    OBVIOUS
  <2>2. /\ next \in Holdings /\ next.pc = "write_overtime" /\ next.data = x.data /\ next.unseen = x.unseen
        /\ next.ids = x.ids /\ next.manager = x.manager
    BY <2>1 DEF Holdings, Labels
  <2>3. Goes(c, next, {})
    BY <1>2, <1>5, <2>1 DEF BulkChecked
  <2>4. \A o \in x.ids : OvertimeClear(next, o)
    BY <1>2, <1>3, <2>2 DEF Sound, Unbooked, OvertimeClear
  <2>5. Undecided(next)
    BY <1>2, <2>2 DEF Sound, Undecided, EditsOvertime, EditsLeave
  <2>6. Shaped(next)
    BY <1>2, <2>2 DEF Sound, Shaped, EditsOvertime, EditsLeave, MakesLeave
  <2>7. Sound(next)
    BY <2>2, <2>4, <2>5, <2>6 DEF Sound, Owed, Unbooked, MakesLeave
  <2> QED BY <1>1, <2>2, <2>3, <2>7, LooksOn
<1> QED BY <1>4, <1>5

LEMMA TakeLooks ==
    ASSUME LeaveInv, NEW c \in Requests, FindLink(c) \/ CheckLieu(c)
    PROVE  LeaveInv' /\ UNCHANGED tables
<1>1. req[c].pc \in {"find_link", "check_lieu"} /\ UNCHANGED tables
  BY DEF FindLink, CheckLieu, At
<1>2. PICK x \in Holdings : x = req[c] /\ Sound(x) /\ x.pc \in {"find_link", "check_lieu"}
  BY <1>1, AtRequest DEF Labels
<1>3. CASE Declines(c)
  BY <1>1, <1>3, DeclineStep
<1>4. CASE ~Declines(c)
  <2>1. PICK pc \in {"check_lieu", "insert_leave"} :
            /\ Goes(c, [x EXCEPT !.pc = pc], {})
            /\ pc = "insert_leave" => ~LeaveClash(x.data, {})
    BY <1>2, <1>4 DEF FindLink, CheckLieu, At
  <2>2. PICK next : next = [x EXCEPT !.pc = pc]
    OBVIOUS
  <2>3. next \in Holdings /\ next.pc = pc /\ next.data = x.data /\ next.unseen = x.unseen
    BY <2>2 DEF Holdings, Labels
  <2>4. Shaped(next) /\ Owed(next) /\ Undecided(next)
    BY <1>2, <2>1, <2>3 DEF Sound, Shaped, Owed, Undecided, EditsOvertime, EditsLeave, MakesLeave
  <2>5. Sound(next)
    BY <2>1, <2>3, <2>4 DEF Sound, Unbooked, LeaveClash
  <2> QED BY <1>1, <2>1, <2>2, <2>3, <2>5, LooksOn
<1> QED BY <1>3, <1>4

LEMMA ReadLeaveStep ==
    ASSUME LeaveInv, NEW c \in Requests, ReadLeave(c)
    PROVE  LeaveInv' /\ UNCHANGED tables
<1>1. req[c].pc = "read_leave" /\ UNCHANGED tables
  BY DEF ReadLeave, At
<1>2. PICK x \in Holdings : x = req[c] /\ Sound(x) /\ x.pc = "read_leave"
  BY <1>1, AtRequest DEF Labels
<1>3. PICK l \in LeaveIds : x.ids = {l}
  BY <1>2 DEF Sound, Shaped, EditsLeave
<1>4. (CHOOSE k \in req[c].ids : TRUE) = l
  BY <1>2, <1>3
<1>5. x.data \in LeavePatches
  BY <1>2 DEF Sound, Shaped, EditsLeave
<1>6. CASE Declines(c)
  BY <1>1, <1>6, DeclineStep
<1>7. CASE ~Declines(c)
  <2>1. /\ leaves[l] # Null
        /\ \/ Goes(c, [x EXCEPT !.pc = "check_leave", !.row = leaves[l]], {})
           \/ Goes(c, [x EXCEPT !.pc = "write_leave"], {}) /\ ~LeaveChecked(leaves[l], x.data)
    BY <1>2, <1>4, <1>7 DEF ReadLeave
  <2>2. leaves[l] \in LeaveRows
    BY <2>1 DEF LeaveInv, TablesTyped, LeaveTables
  <2>3. CASE Goes(c, [x EXCEPT !.pc = "check_leave", !.row = leaves[l]], {})
    <3>1. PICK next : next = [x EXCEPT !.pc = "check_leave", !.row = leaves[l]]
      OBVIOUS
    <3>2. /\ next \in Holdings /\ next.pc = "check_leave" /\ next.data = x.data /\ next.unseen = x.unseen
          /\ next.ids = {l} /\ next.manager = x.manager /\ next.row = leaves[l]
      BY <1>3, <2>2, <3>1 DEF Holdings, Labels
    <3>3. Undecided(next)
      BY <1>2, <1>3, <3>2 DEF Sound, Undecided, EditsOvertime, EditsLeave
    <3>4. Sound(next)
      BY <1>5, <2>2, <3>2, <3>3 DEF Sound, Shaped, Owed, Unbooked, EditsOvertime, EditsLeave, MakesLeave
    <3> QED BY <1>1, <2>3, <3>1, <3>2, <3>4, LooksOn
  <2>4. CASE Goes(c, [x EXCEPT !.pc = "write_leave"], {}) /\ ~LeaveChecked(leaves[l], x.data)
    <3>1. PICK next : next = [x EXCEPT !.pc = "write_leave"]
      OBVIOUS
    <3>2. /\ next \in Holdings /\ next.pc = "write_leave" /\ next.data = x.data /\ next.unseen = x.unseen
          /\ next.ids = {l} /\ next.manager = x.manager
      BY <1>3, <3>1 DEF Holdings, Labels
    <3>3. PICK m \in LeaveRows : /\ m = Merge(leaves[l], x.data)
                                 /\ "status" \notin DOMAIN x.data => m.status = leaves[l].status
                                 /\ DOMAIN x.data \cap {"from", "to"} = {} => m.from = leaves[l].from /\ m.to = leaves[l].to
      BY <1>5, <2>2, MergeLeave
    <3>4. Live(m) => Live(leaves[l]) /\ m.from = leaves[l].from /\ m.to = leaves[l].to
      BY <2>1, <2>4, <3>3 DEF LeaveChecked, Live
    <3>5. LeaveClear(next, l)
      BY <3>2, <3>3, <3>4 DEF LeaveClear, DoubleLeave, ShareADay
    <3>6. Undecided(next)
      BY <1>2, <1>3, <3>2 DEF Sound, Undecided, EditsOvertime, EditsLeave
    <3>7. Sound(next)
      BY <1>5, <3>2, <3>5, <3>6 DEF Sound, Shaped, Owed, Unbooked, EditsOvertime, EditsLeave, MakesLeave
    <3> QED BY <1>1, <2>4, <3>1, <3>2, <3>7, LooksOn
  <2> QED BY <2>1, <2>3, <2>4
<1> QED BY <1>6, <1>7

LEMMA CheckLeaveStep ==
    ASSUME LeaveInv, NEW c \in Requests, CheckLeave(c)
    PROVE  LeaveInv' /\ UNCHANGED tables
<1>1. req[c].pc = "check_leave" /\ UNCHANGED tables
  BY DEF CheckLeave, At
<1>2. PICK x \in Holdings : x = req[c] /\ Sound(x) /\ x.pc = "check_leave"
  BY <1>1, AtRequest DEF Labels
<1>3. PICK l \in LeaveIds : x.ids = {l}
  BY <1>2 DEF Sound, Shaped, EditsLeave
<1>4. x.data \in LeavePatches
  BY <1>2 DEF Sound, Shaped, EditsLeave
<1>5. CASE LeaveClash(Merge(x.row, x.data), x.ids)
  BY <1>1, <1>2, <1>5, DeclineStep DEF CheckLeave
<1>6. CASE ~LeaveClash(Merge(x.row, x.data), x.ids)
  <2>1. PICK next : next = [x EXCEPT !.pc = "write_leave", !.row = Null]
    OBVIOUS
  <2>2. /\ next \in Holdings /\ next.pc = "write_leave" /\ next.data = x.data /\ next.unseen = x.unseen
        /\ next.ids = {l} /\ next.manager = x.manager
    BY <1>3, <2>1 DEF Holdings, Labels
  <2>3. Goes(c, next, {})
    BY <1>2, <1>6, <2>1 DEF CheckLeave
  <2>4. l \in x.unseen \/ leaves[l] = x.row
    BY <1>2, <1>3 DEF Sound, Unbooked
  <2>5. LeaveClear(next, l)
    BY <1>3, <1>6, <2>2, <2>4 DEF LeaveClear, LeaveClash
  <2>6. Undecided(next)
    BY <1>2, <1>3, <2>2 DEF Sound, Undecided, EditsOvertime, EditsLeave
  <2>7. Sound(next)
    BY <1>4, <2>2, <2>5, <2>6 DEF Sound, Shaped, Owed, Unbooked, EditsOvertime, EditsLeave, MakesLeave
  <2> QED BY <1>1, <2>2, <2>3, <2>7, LooksOn
<1> QED BY <1>5, <1>6

-----------------------------------------------------------------------------
(* The calls that write, and what no write may do. *)

OvertimeStands ==
    \A o \in OvertimeIds :
        /\ overtime[o] # Null /\ overtime[o].status \in {"approved", "paid", "rejected"}
              /\ overtime'[o] # overtime[o] => ByManager \/ Excused({o})
        /\ overtime[o] # Null /\ overtime[o].status \in {"approved", "paid"}
              /\ overtime'[o] = Null => Excused({o})
LeavesStand ==
    \A l \in LeaveIds :
        /\ leaves[l] # Null /\ leaves[l].status \in {"approved", "rejected"}
              /\ leaves'[l] # leaves[l] => ByManager \/ Excused({l})
        /\ leaves[l] # Null /\ leaves[l].status = "approved"
              /\ leaves'[l] = Null => Excused({l})
OvertimeOnce ==
    \A o \in OvertimeIds : \A p \in OvertimeIds \ {o} :
        DoubleOvertime(o, p)' /\ ~DoubleOvertime(o, p) =>
            Excused({o, p}) \/ \E c \in Requests : By(c) /\ {o, p} \subseteq req[c].ids
LeavesOnce ==
    \A l \in LeaveIds : \A m \in LeaveIds \ {l} :
        DoubleLeave(l, m)' /\ ~DoubleLeave(l, m) => Excused({l, m})
LieuPaid ==
    \A l \in LeaveIds :
        leaves[l] = Null /\ leaves'[l] # Null /\ leaves'[l].status = "approved" =>
            LET o == leaves'[l].overtime IN
            Excused({o}) \/ (overtime[o] # Null /\ overtime[o].status = "approved"
                             /\ overtime[o].payout = "lieu")
OvertimeKept == OvertimeStands /\ OvertimeOnce
LeavesKept == LeavesStand /\ LeavesOnce /\ LieuPaid

LEMMA OvertimeUntouched ==
    ASSUME UNCHANGED overtime
    PROVE  OvertimeKept
<1>1. OvertimeStands
  BY DEF OvertimeStands
<1>2. OvertimeOnce
  BY DEF OvertimeOnce, DoubleOvertime
<1> QED BY <1>1, <1>2 DEF OvertimeKept

LEMMA LeavesUntouched ==
    ASSUME UNCHANGED leaves
    PROVE  LeavesKept
<1>1. LeavesStand /\ LieuPaid
  BY DEF LeavesStand, LieuPaid
<1>2. LeavesOnce
  BY DEF LeavesOnce, DoubleLeave
<1> QED BY <1>1, <1>2 DEF LeavesKept

\* A write ends its request.
LEMMA EndsIt ==
    ASSUME LeaveInv, NEW c \in Requests, NEW x \in Holdings, x = req[c], NEW changed, Goes(c, Idle, changed)
    PROVE  By(c) /\ (\A ids : ids \cap x.unseen # {} => Excused(ids)) /\ (x.manager => ByManager)
<1>1. req'[c] = Idle
  BY DEF Goes
<1>2. x # Idle
  BY DEF Holdings, Labels, Idle
<1>3. By(c)
  BY <1>1, <1>2 DEF By
<1> QED BY <1>3 DEF Excused, ByManager

LEMMA InsertOvertimeStep ==
    ASSUME LeaveInv, NEW c \in Requests, InsertOvertime(c)
    PROVE  LeaveInv' /\ OvertimeKept /\ LeavesKept
<1>1. req[c].pc = "insert_overtime" /\ UNCHANGED leaves
  BY DEF InsertOvertime, At
<1>2. PICK x \in Holdings : x = req[c] /\ Sound(x) /\ x.pc = "insert_overtime"
  BY <1>1, AtRequest DEF Labels
<1>3. PICK row \in OvertimeRows : row = x.data
  BY <1>2 DEF Sound, Shaped
<1>4. PICK o \in OvertimeIds \ used : /\ overtime' = [overtime EXCEPT ![o] = row]
                                      /\ used' = used \cup {o} /\ Goes(c, Idle, {o})
  BY <1>2, <1>3 DEF InsertOvertime
<1>5. /\ overtime[o] = Null /\ overtime \in OvertimeTables
      /\ overtime'[o] = row /\ \A p \in OvertimeIds \ {o} : overtime'[p] = overtime[p]
  BY <1>4 DEF LeaveInv, TablesTyped, OvertimeTables
<1>6. TablesTyped'
  BY <1>1, <1>4, <1>5 DEF LeaveInv, TablesTyped, OvertimeTables, AllIds
<1>7. LeaveInv'
  BY <1>1, <1>4, <1>5, <1>6, GoesOn DEF AllIds
<1>8. \A ids : ids \cap x.unseen # {} => Excused(ids)
  BY <1>2, <1>4, EndsIt
<1>9. OvertimeStands
  BY <1>5 DEF OvertimeStands, Live
<1>10. \A p \in OvertimeIds : Live(overtime[p]) /\ SameTime(row, overtime[p]) => p \in x.unseen
  BY <1>2, <1>3 DEF Sound, Unbooked
<1>11. OvertimeOnce
  <2>1. SUFFICES ASSUME NEW a \in OvertimeIds, NEW b \in OvertimeIds \ {a},
                        DoubleOvertime(a, b)', ~DoubleOvertime(a, b)
                 PROVE  Excused({a, b})
    BY DEF OvertimeOnce
  <2>2. Live(overtime'[a]) /\ Live(overtime'[b]) /\ SameTime(overtime'[a], overtime'[b])
    BY <2>1 DEF DoubleOvertime, Live, SameTime
  <2>3. SameTime(overtime'[b], overtime'[a])
    BY <2>2 DEF SameTime, Meet
  <2>4. CASE a = o
    BY <1>5, <1>8, <1>10, <2>2, <2>4
  <2>5. CASE b = o
    BY <1>5, <1>8, <1>10, <2>2, <2>3, <2>5
  <2>6. CASE a # o /\ b # o
    BY <1>5, <2>1, <2>2, <2>6 DEF DoubleOvertime
  <2> QED BY <2>4, <2>5, <2>6
<1> QED BY <1>1, <1>7, <1>9, <1>11, LeavesUntouched DEF OvertimeKept

LEMMA BulkOvertimeStep ==
    ASSUME LeaveInv, NEW c \in Requests, NEW ids \in SUBSET OvertimeIds, NEW status \in Decisions,
           bulk_update_overtime_status(c, ids, status)
    PROVE  LeaveInv' /\ OvertimeKept /\ LeavesKept
<1>1. PICK pending : pending = {o \in ids : overtime[o] # Null /\ overtime[o].status = "pending"}
  OBVIOUS
<1>2. /\ overtime' = [o \in OvertimeIds |->
            IF o \in pending THEN [overtime[o] EXCEPT !.status = status] ELSE overtime[o]]
      /\ Goes(c, Idle, pending) /\ UNCHANGED <<leaves, used>>
  BY <1>1 DEF bulk_update_overtime_status
<1>3. ASSUME NEW o \in OvertimeIds
      PROVE  /\ overtime'[o] \in OvertimeRows \cup {Null}
             /\ overtime'[o] # Null => overtime[o] # Null
             /\ o \notin pending => overtime'[o] = overtime[o]
             /\ o \in pending => /\ overtime[o] \in OvertimeRows /\ overtime[o].status = "pending"
                                 /\ overtime'[o] # Null
                                 /\ overtime'[o].day = overtime[o].day /\ overtime'[o].time = overtime[o].time
  <2>1. CASE o \in pending
    <3>1. PICK row \in OvertimeRows : row = overtime[o] /\ row.status = "pending" /\ row # Null
      BY <1>1, <2>1 DEF LeaveInv, TablesTyped, OvertimeTables
    <3>2. PICK new : new = [row EXCEPT !.status = status]
      OBVIOUS
    <3>3. new \in OvertimeRows /\ new.day = row.day /\ new.time = row.time
      BY <3>2 DEF OvertimeRows, AllStatuses, Decisions
    <3>4. overtime'[o] = new
      BY <1>2, <2>1, <3>1, <3>2
    <3> QED BY <2>1, <3>1, <3>3, <3>4, RowsAreThere
  <2>2. CASE o \notin pending
    BY <1>2, <2>2 DEF LeaveInv, TablesTyped, OvertimeTables
  <2> QED BY <2>1, <2>2
<1>4. TablesTyped'
  BY <1>2, <1>3 DEF LeaveInv, TablesTyped, OvertimeTables
<1>5. LeaveInv'
  BY <1>1, <1>2, <1>3, <1>4, GoesOn DEF AllIds
<1>6. OvertimeStands
  BY <1>3 DEF OvertimeStands, OvertimeLocked
<1>7. \A o \in OvertimeIds : Live(overtime'[o]) =>
          Live(overtime[o]) /\ overtime'[o].day = overtime[o].day /\ overtime'[o].time = overtime[o].time
  BY <1>3, RowsAreThere DEF Live, Inactive
<1>8. OvertimeOnce
  BY <1>7 DEF OvertimeOnce, DoubleOvertime, SameTime, Live
<1> QED BY <1>2, <1>5, <1>6, <1>8, LeavesUntouched DEF OvertimeKept

LEMMA WriteOvertimeStep ==
    ASSUME LeaveInv, NEW c \in Requests, WriteOvertime(c)
    PROVE  LeaveInv' /\ OvertimeKept /\ LeavesKept
<1>1. req[c].pc = "write_overtime" /\ UNCHANGED <<leaves, used>>
  BY DEF WriteOvertime, At
<1>2. PICK x \in Holdings : x = req[c] /\ Sound(x) /\ x.pc = "write_overtime"
  BY <1>1, AtRequest DEF Labels
<1>3. CASE Declines(c) /\ UNCHANGED overtime
  BY <1>1, <1>3, DeclineStep, OvertimeUntouched, LeavesUntouched DEF tables
<1>4. CASE ~(Declines(c) /\ UNCHANGED overtime)
  <2>1. PICK ids : ids = {o \in x.ids : overtime[o] # Null}
    OBVIOUS
  <2>2. /\ overtime' = [o \in OvertimeIds |-> IF o \in ids THEN Merge(overtime[o], x.data) ELSE overtime[o]]
        /\ Goes(c, Idle, ids)
    BY <1>2, <1>4, <2>1 DEF WriteOvertime
  <2>3. x.data \in OvertimePatches /\ x.ids \subseteq OvertimeIds /\ ids \subseteq x.ids
    BY <1>2, <2>1 DEF Sound, Shaped, EditsOvertime
  <2>4. ASSUME NEW o \in OvertimeIds
        PROVE  /\ o \in ids => overtime'[o] = Merge(overtime[o], x.data) /\ overtime'[o] \in OvertimeRows /\ overtime'[o] # Null
               /\ o \notin ids => overtime'[o] = overtime[o]
               /\ overtime'[o] \in OvertimeRows \cup {Null} /\ (overtime'[o] # Null => overtime[o] # Null)
    <3>1. CASE o \in ids
      <4>1. PICK row \in OvertimeRows : row = overtime[o] /\ row # Null
        BY <2>1, <3>1 DEF LeaveInv, TablesTyped, OvertimeTables
      <4>2. Merge(row, x.data) \in OvertimeRows
        BY <2>3, MergeOvertime
      <4> QED BY <2>2, <3>1, <4>1, <4>2, RowsAreThere
    <3>2. CASE o \notin ids
      BY <2>2, <3>2 DEF LeaveInv, TablesTyped, OvertimeTables
    <3> QED BY <3>1, <3>2
  <2>5. TablesTyped'
    BY <1>1, <2>2, <2>4 DEF LeaveInv, TablesTyped, OvertimeTables
  <2>6. LeaveInv'
    BY <1>1, <2>2, <2>3, <2>4, <2>5, GoesOn DEF AllIds
  <2>7. By(c) /\ (\A s : s \cap x.unseen # {} => Excused(s)) /\ (x.manager => ByManager)
    BY <1>2, <2>2, EndsIt
  <2>8. OvertimeStands
    <3>1. \A o \in x.ids : x.manager \/ o \in x.unseen \/ overtime[o].status \notin OvertimeLocked
      BY <1>2 DEF Sound, Undecided, EditsOvertime
    <3> QED BY <2>3, <2>4, <2>7, <3>1 DEF OvertimeStands, OvertimeLocked
  <2>9. OvertimeOnce
    <3>1. SUFFICES ASSUME NEW a \in OvertimeIds, NEW b \in OvertimeIds \ {a},
                          DoubleOvertime(a, b)', ~DoubleOvertime(a, b), ~({a, b} \subseteq x.ids)
                   PROVE  Excused({a, b})
      BY <1>2, <2>7 DEF OvertimeOnce
    <3>2. Live(overtime'[a]) /\ Live(overtime'[b]) /\ SameTime(overtime'[a], overtime'[b])
      BY <3>1 DEF DoubleOvertime, Live, SameTime
    <3>3. SameTime(overtime'[b], overtime'[a])
      BY <3>2 DEF SameTime, Meet
    <3>4. ~DoubleOvertime(b, a)
      BY <3>1 DEF DoubleOvertime, SameTime, Meet
    <3>5. \A o \in x.ids : \A p \in OvertimeIds \ {o} :
              \/ {o, p} \cap x.unseen # {} \/ overtime[o] = Null
              \/ Live(Merge(overtime[o], x.data)) /\ Live(overtime[p]) /\ SameTime(Merge(overtime[o], x.data), overtime[p])
                     => DoubleOvertime(o, p)
      BY <1>2 DEF Sound, Unbooked, OvertimeClear
    <3>6. CASE a \in ids
      <4>1. b \notin ids /\ overtime'[b] = overtime[b] /\ overtime'[a] = Merge(overtime[a], x.data)
        BY <2>3, <2>4, <3>1, <3>6
      <4>2. a \in x.ids /\ overtime[a] # Null
        BY <2>1, <3>6
      <4>3. {a, b} \cap x.unseen # {}
        BY <3>1, <3>2, <3>5, <4>1, <4>2
      <4> QED BY <2>7, <4>3
    <3>7. CASE b \in ids
      <4>1. a \notin ids /\ overtime'[a] = overtime[a] /\ overtime'[b] = Merge(overtime[b], x.data)
        BY <2>3, <2>4, <3>1, <3>7
      <4>2. b \in x.ids /\ overtime[b] # Null
        BY <2>1, <3>7
      <4>3. {b, a} \cap x.unseen # {}
        BY <3>1, <3>2, <3>3, <3>4, <3>5, <4>1, <4>2
      <4>4. {a, b} \cap x.unseen # {}
        BY <4>3
      <4> QED BY <2>7, <4>4
    <3>8. CASE a \notin ids /\ b \notin ids
      BY <2>4, <3>1, <3>2, <3>8 DEF DoubleOvertime
    <3> QED BY <3>6, <3>7, <3>8
  <2> QED BY <1>1, <2>6, <2>8, <2>9, LeavesUntouched DEF OvertimeKept
<1> QED BY <1>3, <1>4

LEMMA DeleteOvertimeStep ==
    ASSUME LeaveInv, NEW c \in Requests, DeleteOvertime(c)
    PROVE  LeaveInv' /\ OvertimeKept /\ LeavesKept
<1>1. req[c].pc = "delete_overtime" /\ UNCHANGED <<leaves, used>>
  BY DEF DeleteOvertime, At
<1>2. PICK x \in Holdings : x = req[c] /\ Sound(x) /\ x.pc = "delete_overtime"
  BY <1>1, AtRequest DEF Labels
<1>3. /\ overtime' = [o \in OvertimeIds |-> IF o \in x.ids THEN Null ELSE overtime[o]]
      /\ Goes(c, Idle, x.ids) /\ x.ids \in SUBSET AllIds
  BY <1>2 DEF DeleteOvertime, Holdings
<1>4. TablesTyped'
  BY <1>1, <1>3 DEF LeaveInv, TablesTyped, OvertimeTables
<1>5. LeaveInv'
  BY <1>1, <1>3, <1>4, GoesOn
<1>6. By(c) /\ (\A s : s \cap x.unseen # {} => Excused(s)) /\ (x.manager => ByManager)
  BY <1>2, <1>3, EndsIt
<1>7. /\ x.manager
      /\ \A o \in x.ids : o \in x.unseen \/ overtime[o].status \notin {"approved", "paid"}
  BY <1>2 DEF Sound, Shaped, Undecided
<1>8. OvertimeStands
  BY <1>3, <1>6, <1>7 DEF OvertimeStands
<1>9. OvertimeOnce
  BY <1>3 DEF OvertimeOnce, DoubleOvertime, Live
<1> QED BY <1>1, <1>5, <1>8, <1>9, LeavesUntouched DEF OvertimeKept

LEMMA InsertLeaveStep ==
    ASSUME LeaveInv, NEW c \in Requests, InsertLeave(c)
    PROVE  LeaveInv' /\ OvertimeKept /\ LeavesKept
<1>1. req[c].pc = "insert_leave" /\ UNCHANGED overtime
  BY DEF InsertLeave, At
<1>2. PICK x \in Holdings : x = req[c] /\ Sound(x) /\ x.pc = "insert_leave"
  BY <1>1, AtRequest DEF Labels
<1>3. PICK row \in LeaveRows : row = x.data
  BY <1>2 DEF Sound, Shaped, MakesLeave
<1>4. PICK l \in LeaveIds \ used : /\ leaves' = [leaves EXCEPT ![l] = row]
                                   /\ used' = used \cup {l} /\ Goes(c, Idle, {l})
  BY <1>2, <1>3 DEF InsertLeave
<1>5. /\ leaves[l] = Null /\ leaves \in LeaveTables
      /\ leaves'[l] = row /\ \A m \in LeaveIds \ {l} : leaves'[m] = leaves[m]
  BY <1>4 DEF LeaveInv, TablesTyped, LeaveTables
<1>6. TablesTyped'
  BY <1>1, <1>4, <1>5 DEF LeaveInv, TablesTyped, LeaveTables, AllIds
<1>7. LeaveInv'
  BY <1>1, <1>4, <1>5, <1>6, GoesOn DEF AllIds
<1>8. \A ids : ids \cap x.unseen # {} => Excused(ids)
  BY <1>2, <1>4, EndsIt
<1>9. LeavesStand
  BY <1>5 DEF LeavesStand
<1>10. \A m \in LeaveIds : Live(leaves[m]) /\ ShareADay(row, leaves[m]) => m \in x.unseen
  BY <1>2, <1>3 DEF Sound, Unbooked
<1>11. LeavesOnce
  <2>1. SUFFICES ASSUME NEW a \in LeaveIds, NEW b \in LeaveIds \ {a},
                        DoubleLeave(a, b)', ~DoubleLeave(a, b)
                 PROVE  Excused({a, b})
    BY DEF LeavesOnce
  <2>2. Live(leaves'[a]) /\ Live(leaves'[b]) /\ ShareADay(leaves'[a], leaves'[b])
    BY <2>1 DEF DoubleLeave, Live, ShareADay
  <2>3. ShareADay(leaves'[b], leaves'[a])
    BY <2>2 DEF ShareADay
  <2>4. CASE a = l
    BY <1>5, <1>8, <1>10, <2>2, <2>4
  <2>5. CASE b = l
    BY <1>5, <1>8, <1>10, <2>2, <2>3, <2>5
  <2>6. CASE a # l /\ b # l
    BY <1>5, <2>1, <2>2, <2>6 DEF DoubleLeave
  <2> QED BY <2>4, <2>5, <2>6
<1>12. LieuPaid
  <2>1. row.status = "approved" =>
            \/ {row.overtime} \cap x.unseen # {}
            \/ /\ overtime[row.overtime] # Null /\ overtime[row.overtime].status = "approved"
               /\ overtime[row.overtime].payout = "lieu"
    BY <1>2, <1>3 DEF Sound, Owed, MakesLeave
  <2> QED BY <1>5, <1>8, <2>1 DEF LieuPaid
<1> QED BY <1>1, <1>7, <1>9, <1>11, <1>12, OvertimeUntouched DEF LeavesKept

LEMMA BulkLeaveStep ==
    ASSUME LeaveInv, NEW c \in Requests, NEW ids \in SUBSET LeaveIds, NEW status \in Decisions,
           bulk_update_leave_status(c, ids, status)
    PROVE  LeaveInv' /\ OvertimeKept /\ LeavesKept
<1>1. PICK pending : pending = {l \in ids : leaves[l] # Null /\ leaves[l].status = "pending"}
  OBVIOUS
<1>2. /\ leaves' = [l \in LeaveIds |->
            IF l \in pending THEN [leaves[l] EXCEPT !.status = status] ELSE leaves[l]]
      /\ Goes(c, Idle, pending) /\ UNCHANGED <<overtime, used>>
  BY <1>1 DEF bulk_update_leave_status
<1>3. ASSUME NEW l \in LeaveIds
      PROVE  /\ leaves'[l] \in LeaveRows \cup {Null}
             /\ leaves'[l] # Null => leaves[l] # Null
             /\ l \notin pending => leaves'[l] = leaves[l]
             /\ l \in pending => /\ leaves[l] \in LeaveRows /\ leaves[l].status = "pending"
                                 /\ leaves'[l] # Null
                                 /\ leaves'[l].from = leaves[l].from /\ leaves'[l].to = leaves[l].to
  <2>1. CASE l \in pending
    <3>1. PICK row \in LeaveRows : row = leaves[l] /\ row.status = "pending" /\ row # Null
      BY <1>1, <2>1 DEF LeaveInv, TablesTyped, LeaveTables
    <3>2. PICK new : new = [row EXCEPT !.status = status]
      OBVIOUS
    <3>3. new \in LeaveRows /\ new.from = row.from /\ new.to = row.to
      BY <3>2 DEF LeaveRows, AllStatuses, Decisions
    <3>4. leaves'[l] = new
      BY <1>2, <2>1, <3>1, <3>2
    <3> QED BY <2>1, <3>1, <3>3, <3>4, RowsAreThere
  <2>2. CASE l \notin pending
    BY <1>2, <2>2 DEF LeaveInv, TablesTyped, LeaveTables
  <2> QED BY <2>1, <2>2
<1>4. TablesTyped'
  BY <1>2, <1>3 DEF LeaveInv, TablesTyped, LeaveTables
<1>5. LeaveInv'
  BY <1>1, <1>2, <1>3, <1>4, GoesOn DEF AllIds
<1>6. LeavesStand /\ LieuPaid
  BY <1>3 DEF LeavesStand, LieuPaid
<1>7. \A l \in LeaveIds : Live(leaves'[l]) =>
          Live(leaves[l]) /\ leaves'[l].from = leaves[l].from /\ leaves'[l].to = leaves[l].to
  BY <1>3, RowsAreThere DEF Live, Inactive
<1>8. LeavesOnce
  BY <1>7 DEF LeavesOnce, DoubleLeave, ShareADay, Live
<1> QED BY <1>2, <1>5, <1>6, <1>8, OvertimeUntouched DEF LeavesKept

LEMMA WriteLeaveStep ==
    ASSUME LeaveInv, NEW c \in Requests, WriteLeave(c)
    PROVE  LeaveInv' /\ OvertimeKept /\ LeavesKept
<1>1. req[c].pc = "write_leave" /\ UNCHANGED <<overtime, used>>
  BY DEF WriteLeave, At
<1>2. PICK x \in Holdings : x = req[c] /\ Sound(x) /\ x.pc = "write_leave"
  BY <1>1, AtRequest DEF Labels
<1>3. PICK l \in LeaveIds : x.ids = {l}
  BY <1>2 DEF Sound, Shaped, EditsLeave
<1>4. (CHOOSE k \in req[c].ids : TRUE) = l
  BY <1>2, <1>3
<1>5. CASE Declines(c) /\ UNCHANGED leaves
  BY <1>1, <1>5, DeclineStep, OvertimeUntouched, LeavesUntouched DEF tables
<1>6. CASE ~(Declines(c) /\ UNCHANGED leaves)
  <2>1. /\ leaves[l] # Null /\ leaves' = [leaves EXCEPT ![l] = Merge(leaves[l], x.data)]
        /\ Goes(c, Idle, {l})
    BY <1>2, <1>4, <1>6 DEF WriteLeave
  <2>2. x.data \in LeavePatches
    BY <1>2 DEF Sound, Shaped, EditsLeave
  <2>3. leaves[l] \in LeaveRows /\ leaves \in LeaveTables
    BY <2>1 DEF LeaveInv, TablesTyped, LeaveTables
  <2>4. PICK m \in LeaveRows : m = Merge(leaves[l], x.data) /\ m # Null
    BY <2>2, <2>3, MergeLeave, RowsAreThere
  <2>5. leaves'[l] = m /\ \A k \in LeaveIds \ {l} : leaves'[k] = leaves[k]
    BY <2>1, <2>3, <2>4 DEF LeaveTables
  <2>6. TablesTyped'
    BY <1>1, <2>1, <2>4, <2>5 DEF LeaveInv, TablesTyped, LeaveTables
  <2>7. LeaveInv'
    BY <1>1, <2>1, <2>5, <2>6, GoesOn DEF AllIds
  <2>8. By(c) /\ (\A s : s \cap x.unseen # {} => Excused(s)) /\ (x.manager => ByManager)
    BY <1>2, <2>1, EndsIt
  <2>9. LeavesStand
    <3>1. x.manager \/ l \in x.unseen \/ leaves[l].status \notin {"approved", "rejected"}
      BY <1>2, <1>3 DEF Sound, Undecided, EditsLeave
    <3> QED BY <2>4, <2>5, <2>8, <3>1 DEF LeavesStand
  <2>10. LeavesOnce
    <3>1. SUFFICES ASSUME NEW a \in LeaveIds, NEW b \in LeaveIds \ {a},
                          DoubleLeave(a, b)', ~DoubleLeave(a, b)
                   PROVE  Excused({a, b})
      BY DEF LeavesOnce
    <3>2. Live(leaves'[a]) /\ Live(leaves'[b]) /\ ShareADay(leaves'[a], leaves'[b])
      BY <3>1 DEF DoubleLeave, Live, ShareADay
    <3>3. ShareADay(leaves'[b], leaves'[a]) /\ ~DoubleLeave(b, a)
      BY <3>1, <3>2 DEF ShareADay, DoubleLeave
    <3>4. \A k \in LeaveIds \ {l} :
              {l, k} \cap x.unseen # {} \/ (Live(m) /\ Live(leaves[k]) /\ ShareADay(m, leaves[k]) => DoubleLeave(l, k))
      BY <1>2, <1>3, <2>1, <2>4 DEF Sound, Unbooked, LeaveClear
    <3>5. CASE a = l
      BY <2>5, <2>8, <3>1, <3>2, <3>4, <3>5
    <3>6. CASE b = l
      <4>1. {b, a} \cap x.unseen # {}
        BY <2>5, <3>2, <3>3, <3>4, <3>6
      <4>2. {a, b} \cap x.unseen # {}
        BY <4>1
      <4> QED BY <2>8, <4>2
    <3>7. CASE a # l /\ b # l
      BY <2>5, <3>1, <3>2, <3>7 DEF DoubleLeave
    <3> QED BY <3>5, <3>6, <3>7
  <2>11. LieuPaid
    BY <2>1, <2>5 DEF LieuPaid
  <2> QED BY <1>1, <2>7, <2>9, <2>10, <2>11, OvertimeUntouched DEF LeavesKept
<1> QED BY <1>5, <1>6

LEMMA DeleteLeaveStep ==
    ASSUME LeaveInv, NEW c \in Requests, DeleteLeave(c)
    PROVE  LeaveInv' /\ OvertimeKept /\ LeavesKept
<1>1. req[c].pc = "delete_leave" /\ UNCHANGED <<overtime, used>>
  BY DEF DeleteLeave, At
<1>2. PICK x \in Holdings : x = req[c] /\ Sound(x) /\ x.pc = "delete_leave"
  BY <1>1, AtRequest DEF Labels
<1>3. /\ leaves' = [l \in LeaveIds |-> IF l \in x.ids THEN Null ELSE leaves[l]]
      /\ Goes(c, Idle, x.ids) /\ x.ids \in SUBSET AllIds
  BY <1>2 DEF DeleteLeave, Holdings
<1>4. TablesTyped'
  BY <1>1, <1>3 DEF LeaveInv, TablesTyped, LeaveTables
<1>5. LeaveInv'
  BY <1>1, <1>3, <1>4, GoesOn
<1>6. By(c) /\ (\A s : s \cap x.unseen # {} => Excused(s)) /\ (x.manager => ByManager)
  BY <1>2, <1>3, EndsIt
<1>7. /\ x.manager
      /\ \A l \in x.ids : l \in x.unseen \/ leaves[l].status # "approved"
  BY <1>2 DEF Sound, Shaped, Undecided
<1>8. LeavesStand
  BY <1>3, <1>6, <1>7 DEF LeavesStand
<1>9. LeavesOnce /\ LieuPaid
  BY <1>3 DEF LeavesOnce, DoubleLeave, Live, LieuPaid
<1> QED BY <1>1, <1>5, <1>8, <1>9, OvertimeUntouched DEF LeavesKept

LEMMA LeaveSteps ==
    ASSUME LeaveInv, [LeaveNext]_leave_vars
    PROVE  LeaveInv' /\ OvertimeKept /\ LeavesKept
<1>1. CASE UNCHANGED leave_vars
  <2>1. UNCHANGED <<overtime, leaves, used, req>>
    BY <1>1 DEF leave_vars, tables
  <2>2. LeaveInv'
    BY <2>1 DEF LeaveInv, TablesTyped, Sound, Shaped, Undecided, Owed, Unbooked, OvertimeClear, LeaveClear,
                DoubleOvertime, DoubleLeave, EditsOvertime, EditsLeave, MakesLeave
  <2> QED BY <2>1, <2>2, OvertimeUntouched, LeavesUntouched
<1>2. ASSUME NEW c \in Requests, OvertimeRequest(c)
      PROVE  LeaveInv' /\ OvertimeKept /\ LeavesKept
  BY <1>2, CreateOvertimeStep, BulkOvertimeStep, UpdateOvertimeStep, BulkEditStep, DeleteOvertimeStarts, TakeStarts,
     OvertimeUntouched, LeavesUntouched DEF OvertimeRequest, tables
<1>3. ASSUME NEW c \in Requests, LeaveRequest(c)
      PROVE  LeaveInv' /\ OvertimeKept /\ LeavesKept
  BY <1>3, CreateLeaveStep, BulkLeaveStep, UpdateLeaveStarts, DeleteLeaveStarts,
     OvertimeUntouched, LeavesUntouched DEF LeaveRequest, tables
<1>4. ASSUME NEW c \in Requests, OvertimeCall(c)
      PROVE  LeaveInv' /\ OvertimeKept /\ LeavesKept
  BY <1>4, InsertOvertimeStep, CheckOvertimeStep, WriteOvertimeStep, CheckBulkStep, BulkCheckedStep, DeleteOvertimeStep,
     OvertimeUntouched, LeavesUntouched DEF OvertimeCall, tables
<1>5. ASSUME NEW c \in Requests, LeaveCall(c)
      PROVE  LeaveInv' /\ OvertimeKept /\ LeavesKept
  BY <1>5, TakeLooks, InsertLeaveStep, ReadLeaveStep, CheckLeaveStep, WriteLeaveStep, DeleteLeaveStep,
     OvertimeUntouched, LeavesUntouched DEF LeaveCall, tables
<1>6. ASSUME NEW c \in Requests, Fails(c)
      PROVE  LeaveInv' /\ OvertimeKept /\ LeavesKept
  BY <1>6, DeclineStep, OvertimeUntouched, LeavesUntouched DEF Fails, tables
<1> QED BY <1>1, <1>2, <1>3, <1>4, <1>5, <1>6 DEF LeaveNext

LeaveSpec == LeaveInit /\ [][LeaveNext]_leave_vars

LEMMA LeaveStarts == LeaveInit => LeaveInv
<1> SUFFICES ASSUME LeaveInit PROVE LeaveInv
  OBVIOUS
<1>1. TablesTyped
  BY DEF LeaveInit, TablesTyped, OvertimeTables, LeaveTables
<1> QED BY <1>1 DEF LeaveInit, LeaveInv

LEMMA LeaveInvariance == LeaveSpec => []LeaveInv
<1>1. LeaveInv /\ [LeaveNext]_leave_vars => LeaveInv'
  BY LeaveSteps
<1> QED BY <1>1, LeaveStarts, PTL DEF LeaveSpec

\* For any requests, days, times and scenario: a request of overtime that is approved, paid or
\* rejected, or of leave that is approved or rejected, is changed by a manager alone, or by a
\* save that began before the request was last changed.
THEOREM DecisionsAreKept == LeaveSpec => DecisionsStand
<1>1. LeaveInv /\ [LeaveNext]_leave_vars =>
        [/\ \A o \in OvertimeIds :
             /\ overtime[o] # Null /\ overtime[o].status \in {"approved", "paid", "rejected"}
                   /\ overtime'[o] # overtime[o] => ByManager \/ Excused({o})
             /\ overtime[o] # Null /\ overtime[o].status \in {"approved", "paid"}
                   /\ overtime'[o] = Null => Excused({o})
         /\ \A l \in LeaveIds :
             /\ leaves[l] # Null /\ leaves[l].status \in {"approved", "rejected"}
                   /\ leaves'[l] # leaves[l] => ByManager \/ Excused({l})
             /\ leaves[l] # Null /\ leaves[l].status = "approved"
                   /\ leaves'[l] = Null => Excused({l})]_leave_vars
  BY LeaveSteps DEF OvertimeKept, LeavesKept, OvertimeStands, LeavesStand
<1> QED BY <1>1, LeaveInvariance, PTL DEF LeaveSpec, DecisionsStand

\* For any requests, days and times: leave that is approved from the start pays overtime
\* that is approved and owed as leave, or that changed while it was being taken.
THEOREM LeavePaysOvertime == LeaveSpec => LieuIsOwed
<1>1. LeaveInv /\ [LeaveNext]_leave_vars =>
        [\A l \in LeaveIds :
          leaves[l] = Null /\ leaves'[l] # Null /\ leaves'[l].status = "approved" =>
              LET o == leaves'[l].overtime IN
              Excused({o}) \/ (overtime[o] # Null /\ overtime[o].status = "approved"
                               /\ overtime[o].payout = "lieu")]_leave_vars
  BY LeaveSteps DEF LeavesKept, LieuPaid
<1> QED BY <1>1, LeaveInvariance, PTL DEF LeaveSpec, LieuIsOwed

\* For any requests, days, times and length of a day: no save puts two live requests of one
\* person on the same time, or two of leave on the same day, unless one of the two was changed
\* after the save began or a bulk edit moved both (the first part of BookedOnce).
THEOREM NobodyTwice == LeaveSpec => NoDoubleBooking
<1>1. LeaveInv /\ [LeaveNext]_leave_vars =>
        [/\ \A o \in OvertimeIds : \A p \in OvertimeIds \ {o} :
             DoubleOvertime(o, p)' /\ ~DoubleOvertime(o, p) =>
                 Excused({o, p}) \/ \E c \in Requests : By(c) /\ {o, p} \subseteq req[c].ids
         /\ \A l \in LeaveIds : \A m \in LeaveIds \ {l} :
             DoubleLeave(l, m)' /\ ~DoubleLeave(l, m) => Excused({l, m})]_leave_vars
  BY LeaveSteps DEF OvertimeKept, LeavesKept, OvertimeOnce, LeavesOnce
<1> QED BY <1>1, LeaveInvariance, PTL DEF LeaveSpec, NoDoubleBooking

-----------------------------------------------------------------------------
(* Stand-ins. *)

CoverData == Changes \cup CoverRows \cup {<<>>}
CoverPlans ==
    [pc : {"visible", "overlap", "insert", "update", "delete"}, id : CoverIds \cup {NoCover}, scope : Planners,
     row : CoverRows, data : CoverData, visible : SUBSET CoverIds, unseen : SUBSET CoverIds]

\* A save is about a row nobody stands in for themselves in; an update's is the one it read,
\* with its columns, or somebody has written it since; and once it has looked, it meets no
\* row it could see.
Planned(x) ==
    x.pc # "delete" =>
        /\ x.row.absent # x.row.cover
        /\ x.id = NoCover => x.pc # "update"
        /\ x.id # NoCover => /\ x.pc # "insert"
                             /\ x.id \in x.unseen \/ (covers[x.id] # NoCover /\ x.row = Merged(covers[x.id], x.data))
        /\ x.pc \in {"insert", "update"} =>
              \A c \in x.visible \ x.unseen : c # x.id /\ covers[c] # NoCover => ~Overlap(covers[c], x.row)

CoverInv ==
    /\ covers \in [CoverIds -> CoverRows \cup {NoCover}]
    /\ planner \in [CoverRequests -> CoverPlans \cup {Elsewhere}]
    /\ \A r \in CoverRequests : planner[r] = Elsewhere \/ Planned(planner[r])
    /\ \A r \in CoverRequests : planner[r].pc = "delete" => planner[r].id \in CoverIds

LEMMA OverlapsEitherWay ==
    ASSUME NEW a, NEW b
    PROVE  Overlap(a, b) <=> Overlap(b, a)
BY DEF Overlap

ColumnsFit(data) ==
    /\ "post" \in DOMAIN data => data["post"] \in Rotations
    /\ "absent" \in DOMAIN data => data["absent"] \in Members
    /\ "cover" \in DOMAIN data => data["cover"] \in Members
    /\ "from" \in DOMAIN data => data["from"] \in CoverDays
    /\ "to" \in DOMAIN data => data["to"] \in CoverDays

\* Some columns over a row make a row.
LEMMA MergedIsACover ==
    ASSUME NEW row \in CoverRows, NEW data \in CoverData
    PROVE  Merged(row, data) \in CoverRows
<1>1. ColumnsFit(data)
  <2>1. CASE data \in CoverRows
    <3>1. PICK p \in Rotations, a, c \in Members, f, t \in CoverDays :
            data = [post |-> p, absent |-> a, cover |-> c, from |-> f, to |-> t]
      BY <2>1 DEF CoverRows
    <3> QED BY <3>1 DEF ColumnsFit
  <2>2. CASE data = << >>
    <3>1. DOMAIN data = {}
      BY <2>2
    <3> QED BY <3>1 DEF ColumnsFit
  <2>3. ASSUME NEW S \in {{"absent"}, {"cover"}}, data \in [S -> Members]
        PROVE  ColumnsFit(data)
    BY <2>3 DEF ColumnsFit
  <2>4. ASSUME NEW S \in {{"from"}, {"to"}}, data \in [S -> CoverDays]
        PROVE  ColumnsFit(data)
    BY <2>4 DEF ColumnsFit
  <2>5. CASE data \in Changes
    <3>1. \/ data \in UNION {[S -> Members] : S \in {{"absent"}, {"cover"}}}
          \/ data \in UNION {[S -> CoverDays] : S \in {{"from"}, {"to"}}}
      BY <2>5, Zenon DEF Changes
    <3>2. CASE data \in UNION {[S -> Members] : S \in {{"absent"}, {"cover"}}}
      <4>1. PICK T \in {[S -> Members] : S \in {{"absent"}, {"cover"}}} : data \in T
        BY <3>2
      <4>2. PICK S \in {{"absent"}, {"cover"}} : T = [S -> Members]
        BY <4>1
      <4> QED BY <2>3, <4>1, <4>2
    <3>3. CASE data \in UNION {[S -> CoverDays] : S \in {{"from"}, {"to"}}}
      <4>1. PICK T \in {[S -> CoverDays] : S \in {{"from"}, {"to"}}} : data \in T
        BY <3>3
      <4>2. PICK S \in {{"from"}, {"to"}} : T = [S -> CoverDays]
        BY <4>1
      <4> QED BY <2>4, <4>1, <4>2
    <3> QED BY <3>1, <3>2, <3>3
  <2> QED BY <2>1, <2>2, <2>5, Zenon DEF CoverData
<1>2. PICK m : m = Merged(row, data)
  OBVIOUS
<1>3. m = [post |-> IF "post" \in DOMAIN data THEN data["post"] ELSE row.post,
           absent |-> IF "absent" \in DOMAIN data THEN data["absent"] ELSE row.absent,
           cover |-> IF "cover" \in DOMAIN data THEN data["cover"] ELSE row.cover,
           from |-> IF "from" \in DOMAIN data THEN data["from"] ELSE row.from,
           to |-> IF "to" \in DOMAIN data THEN data["to"] ELSE row.to]
  BY <1>2 DEF Merged, Columns
<1> QED BY <1>1, <1>2, <1>3 DEF CoverRows, ColumnsFit

\* A request goes on and no row is written.
LEMMA PlannerMoves ==
    ASSUME CoverInv, NEW r \in CoverRequests, NEW next \in CoverPlans \cup {Elsewhere}, Plans(r, next), UNCHANGED covers,
           next = Elsewhere \/ Planned(next), next.pc = "delete" => next.id \in CoverIds
    PROVE  CoverInv'
<1>1. planner' = [planner EXCEPT ![r] = next] /\ planner \in [CoverRequests -> CoverPlans \cup {Elsewhere}]
  BY DEF CoverInv, Plans
<1>2. planner'[r] = next /\ \A o \in CoverRequests \ {r} : planner'[o] = planner[o]
  BY <1>1
<1>3. planner' \in [CoverRequests -> CoverPlans \cup {Elsewhere}]
  BY <1>1
<1> QED BY <1>2, <1>3 DEF CoverInv, Planned

\* A row is written: the requests under way have not seen it.
LEMMA CoverWritten ==
    ASSUME CoverInv, NEW r \in CoverRequests, NEW c \in CoverIds, Written(r, c),
           covers' \in [CoverIds -> CoverRows \cup {NoCover}],
           \A o \in CoverIds \ {c} : covers'[o] = covers[o]
    PROVE  CoverInv'
<1>1. ASSUME NEW o \in CoverRequests
      PROVE  /\ planner'[o] \in CoverPlans \cup {Elsewhere}
             /\ (planner[o] = Elsewhere \/ Planned(planner[o]))'
             /\ planner'[o].pc = "delete" => planner'[o].id \in CoverIds
  <2>1. CASE o = r \/ planner[o] = Elsewhere
    <3>1. planner'[o] = Elsewhere
      BY <2>1 DEF Written
    <3> QED BY <3>1 DEF Elsewhere
  <2>2. CASE o # r /\ planner[o] # Elsewhere
    <3>1. PICK x \in CoverPlans : x = planner[o] /\ Planned(x) /\ (x.pc = "delete" => x.id \in CoverIds)
      BY <2>2 DEF CoverInv
    <3>2. PICK y : y = [x EXCEPT !.unseen = @ \cup {c}]
      OBVIOUS
    <3>3. /\ y \in CoverPlans /\ y.pc = x.pc /\ y.id = x.id /\ y.row = x.row /\ y.data = x.data
          /\ y.visible = x.visible /\ y.unseen = x.unseen \cup {c}
      BY <3>2 DEF CoverPlans
    <3>4. planner'[o] = y
      BY <2>2, <3>1, <3>2 DEF Written
    <3>5. y.id # NoCover => y.id \in CoverIds
      BY <3>3 DEF CoverPlans
    <3>6. y.visible \subseteq CoverIds
      BY <3>3 DEF CoverPlans
    <3>7. Planned(y)'
      BY <3>1, <3>3, <3>5, <3>6 DEF Planned
    <3>8. Planned(planner[o])'
      BY <3>4, <3>7 DEF Planned
    <3> QED BY <3>1, <3>3, <3>4, <3>8
  <2> QED BY <2>1, <2>2
<1>2. planner' \in [CoverRequests -> CoverPlans \cup {Elsewhere}]
  BY <1>1 DEF Written
<1> QED BY <1>1, <1>2 DEF CoverInv

CoversMeetUnseen ==
    \A a \in CoverIds : \A b \in CoverIds \ {a} :
        Meets(covers[a], covers[b])' /\ ~Meets(covers[a], covers[b]) =>
            \E r \in CoverRequests : Writing(r) /\ (planner[r].unseen \cup (CoverIds \ planner[r].visible)) \cap {a, b} # {}
NobodyForThemselves ==
    \A a \in Stored' : covers'[a].absent = covers'[a].cover /\ (a \in Stored => covers[a].absent # covers[a].cover) =>
        \E r \in CoverRequests : Writing(r) /\ a \in planner[r].unseen

LEMMA CoversUntouched ==
    ASSUME UNCHANGED covers
    PROVE  CoversMeetUnseen /\ NobodyForThemselves
BY DEF CoversMeetUnseen, NobodyForThemselves, Meets, Stored

\* What a save writes in place of a row.
LEMMA SaveStep ==
    ASSUME CoverInv, NEW r \in CoverRequests, NEW x \in CoverPlans, x = planner[r], x.pc \in {"insert", "update"},
           NEW c \in CoverIds, NEW row \in CoverRows, covers' = [covers EXCEPT ![c] = row], Written(r, c),
           c = x.id \/ (x.id = NoCover /\ covers[c] = NoCover),
           c \in x.unseen \/ row = x.row
    PROVE  CoverInv' /\ CoversMeetUnseen /\ NobodyForThemselves
<1>1. /\ covers'[c] = row /\ \A o \in CoverIds \ {c} : covers'[o] = covers[o]
      /\ covers' \in [CoverIds -> CoverRows \cup {NoCover}]
  BY DEF CoverInv
<1>2. CoverInv'
  BY <1>1, CoverWritten
<1>3. Writing(r)
  <2>1. planner'[r] = Elsewhere
    BY DEF Written
  <2> QED BY <2>1 DEF Writing
<1>4. Planned(x) /\ row # NoCover
  BY NoCoverAssumption DEF CoverInv, Elsewhere
<1>5. /\ x.row.absent # x.row.cover
      /\ \A o \in x.visible \ x.unseen : o # x.id /\ covers[o] # NoCover => ~Overlap(covers[o], x.row)
  BY <1>4 DEF Planned
<1>6. \A o \in CoverIds \ {c} : covers[o] # NoCover /\ Overlap(covers[o], row) =>
          c \in x.unseen \/ o \in x.unseen \cup (CoverIds \ x.visible)
  BY <1>5, NoCoverAssumption
<1>7. CoversMeetUnseen
  <2>1. SUFFICES ASSUME NEW a \in CoverIds, NEW b \in CoverIds \ {a},
                        Meets(covers'[a], covers'[b]), ~Meets(covers[a], covers[b])
                 PROVE  (x.unseen \cup (CoverIds \ x.visible)) \cap {a, b} # {}
    BY <1>3 DEF CoversMeetUnseen, Meets, Overlap
  <2>2. CASE a = c
    <3>1. covers[b] # NoCover /\ Overlap(covers[b], row)
      BY <1>1, <2>1, <2>2, OverlapsEitherWay DEF Meets
    <3> QED BY <1>6, <2>2, <3>1
  <2>3. CASE b = c
    BY <1>1, <1>6, <2>1, <2>3 DEF Meets
  <2>4. CASE a # c /\ b # c
    BY <1>1, <2>1, <2>4
  <2> QED BY <2>2, <2>3, <2>4
<1>8. NobodyForThemselves
  BY <1>1, <1>3, <1>5 DEF NobodyForThemselves, Stored
<1> QED BY <1>2, <1>7, <1>8

LEMMA SaveStarts ==
    ASSUME CoverInv, NEW r \in CoverRequests, NEW scope \in Planners, NEW row \in CoverRows,
           create_cover(r, scope, row) \/ \E c \in CoverIds : \E data \in Changes : update_cover(r, scope, c, data) /\ row = Merged(covers[c], data)
    PROVE  CoverInv' /\ UNCHANGED covers
<1>1. CASE create_cover(r, scope, row)
  <2>1. PICK next : next = [pc |-> "visible", id |-> NoCover, scope |-> scope, row |-> row, data |-> row,
                            visible |-> CoverIds, unseen |-> {}]
    OBVIOUS
  <2>2. next \in CoverPlans /\ next.pc = "visible" /\ next.row = row /\ next.id = NoCover
    BY <2>1 DEF CoverPlans, CoverData
  <2>3. Plans(r, next) /\ UNCHANGED covers /\ row.absent # row.cover
    BY <1>1, <2>1 DEF create_cover
  <2> QED BY <2>2, <2>3, PlannerMoves DEF Planned
<1>2. ASSUME NEW c \in CoverIds, NEW data \in Changes, update_cover(r, scope, c, data), row = Merged(covers[c], data)
      PROVE  CoverInv' /\ UNCHANGED covers
  <2>1. PICK next : next = [pc |-> "visible", id |-> c, scope |-> scope, row |-> row, data |-> data,
                            visible |-> CoverIds, unseen |-> {}]
    OBVIOUS
  <2>2. next \in CoverPlans /\ next.pc = "visible" /\ next.row = row /\ next.id = c /\ next.data = data
    BY <2>1 DEF CoverPlans, CoverData
  <2>3. Plans(r, next) /\ UNCHANGED covers /\ row.absent # row.cover /\ covers[c] # NoCover
    BY <1>2, <2>1 DEF update_cover, Stored
  <2>4. Planned(next)
    BY <1>2, <2>2, <2>3, NoCoverAssumption DEF Planned
  <2> QED BY <2>2, <2>3, <2>4, PlannerMoves
<1> QED BY <1>1, <1>2

LEMMA DeleteCoverStarts ==
    ASSUME CoverInv, NEW r \in CoverRequests, NEW scope \in Planners, NEW c \in CoverIds, delete_cover(r, scope, c)
    PROVE  CoverInv' /\ UNCHANGED covers
<1>1. covers[c] \in CoverRows
  BY DEF CoverInv, delete_cover, Stored
<1>2. PICK next : next = [pc |-> "delete", id |-> c, scope |-> scope, row |-> covers[c], data |-> <<>>,
                          visible |-> {}, unseen |-> {}]
  OBVIOUS
<1>3. next \in CoverPlans /\ next.pc = "delete" /\ next.id = c
  BY <1>1, <1>2 DEF CoverPlans, CoverData
<1>4. Plans(r, next) /\ UNCHANGED covers
  BY <1>2 DEF delete_cover
<1> QED BY <1>3, <1>4, PlannerMoves DEF Planned

LEMMA LooksAround ==
    ASSUME CoverInv, NEW r \in CoverRequests, _visible_ids(r) \/ _reject_overlap(r)
    PROVE  CoverInv' /\ UNCHANGED covers
<1>1. planner[r].pc \in {"visible", "overlap"} /\ UNCHANGED covers
  BY DEF _visible_ids, _reject_overlap
<1>2. PICK x \in CoverPlans : x = planner[r] /\ Planned(x) /\ x.pc \in {"visible", "overlap"}
  BY <1>1 DEF CoverInv, Elsewhere
<1>3. CASE _visible_ids(r)
  <2>1. PICK ids : ids = IF x.scope = FullView THEN CoverIds ELSE Listed_covers(x.scope)
    OBVIOUS
  <2>2. ids \subseteq CoverIds
    BY <2>1 DEF Listed_covers, filter_rows, Stored
  <2>3. PICK next : next = [x EXCEPT !.pc = "overlap", !.visible = ids]
    OBVIOUS
  <2>4. /\ next \in CoverPlans /\ next.pc = "overlap" /\ next.id = x.id /\ next.row = x.row /\ next.data = x.data
        /\ next.unseen = x.unseen
    BY <2>2, <2>3 DEF CoverPlans
  <2>5. Plans(r, next)
    BY <1>2, <1>3, <2>1, <2>3 DEF _visible_ids, Plans, CoverInv
  <2>6. Planned(next)
    BY <1>2, <2>4 DEF Planned
  <2> QED BY <1>1, <2>4, <2>5, <2>6, PlannerMoves
<1>4. CASE _reject_overlap(r)
  <2>1. CASE _find_overlap(x.row, x.id, x.visible)
    <3>1. Plans(r, Elsewhere)
      BY <1>2, <1>4, <2>1 DEF _reject_overlap
    <3> QED BY <1>1, <3>1, PlannerMoves DEF Elsewhere
  <2>2. CASE ~_find_overlap(x.row, x.id, x.visible)
    <3>1. PICK pc \in {"insert", "update"} : pc = IF x.id = NoCover THEN "insert" ELSE "update"
      OBVIOUS
    <3>2. PICK next : next = [x EXCEPT !.pc = pc]
      OBVIOUS
    <3>3. /\ next \in CoverPlans /\ next.pc = pc /\ next.id = x.id /\ next.row = x.row /\ next.data = x.data
          /\ next.unseen = x.unseen /\ next.visible = x.visible
      BY <3>2 DEF CoverPlans
    <3>4. Plans(r, next)
      BY <1>2, <1>4, <2>2, <3>1, <3>2 DEF _reject_overlap
    <3>5. \A c \in x.visible : c # x.id /\ covers[c] # NoCover => ~Overlap(covers[c], x.row)
      BY <2>2 DEF _find_overlap, Stored, CoverPlans
    <3>6. Planned(next)
      BY <1>2, <3>1, <3>3, <3>5 DEF Planned
    <3> QED BY <1>1, <3>3, <3>4, <3>6, PlannerMoves
  <2> QED BY <2>1, <2>2
<1> QED BY <1>3, <1>4

LEMMA CoverWrites ==
    ASSUME CoverInv, NEW r \in CoverRequests,
           UpdateCover(r) \/ DeleteCover(r) \/ \E c \in CoverIds : InsertCover(r, c)
    PROVE  CoverInv' /\ CoversMeetUnseen /\ NobodyForThemselves
<1>1. planner[r].pc \in {"insert", "update", "delete"}
  BY DEF UpdateCover, DeleteCover, InsertCover
<1>2. PICK x \in CoverPlans : x = planner[r] /\ Planned(x) /\ x.pc \in {"insert", "update", "delete"}
  BY <1>1 DEF CoverInv, Elsewhere
<1>3. ASSUME NEW c \in CoverIds, InsertCover(r, c)
      PROVE  CoverInv' /\ CoversMeetUnseen /\ NobodyForThemselves
  <2>1. x.pc = "insert" /\ covers[c] = NoCover /\ covers' = [covers EXCEPT ![c] = x.row] /\ Written(r, c)
    BY <1>2, <1>3 DEF InsertCover, Stored
  <2>2. x.id = NoCover /\ x.row \in CoverRows
    BY <1>2, <2>1 DEF Planned, CoverPlans
  <2> QED BY <1>2, <2>1, <2>2, SaveStep
<1>4. CASE UpdateCover(r)
  <2>1. x.pc = "update" /\ x.id \in CoverIds
    BY <1>2, <1>4 DEF UpdateCover, Planned, CoverPlans
  <2>2. CASE Plans(r, Elsewhere) /\ UNCHANGED covers
    BY <2>2, PlannerMoves, CoversUntouched DEF Elsewhere
  <2>3. CASE ~(Plans(r, Elsewhere) /\ UNCHANGED covers)
    <3>1. /\ covers[x.id] # NoCover /\ Written(r, x.id)
          /\ covers' = [covers EXCEPT ![x.id] = Merged(covers[x.id], x.data)]
      BY <1>2, <1>4, <2>3 DEF UpdateCover, Stored
    <3>2. covers[x.id] \in CoverRows /\ x.data \in CoverData
      BY <2>1, <3>1 DEF CoverInv, CoverPlans
    <3>3. Merged(covers[x.id], x.data) \in CoverRows
      BY <3>2, MergedIsACover
    <3>4. x.id \in x.unseen \/ Merged(covers[x.id], x.data) = x.row
      BY <1>2, <2>1, NoCoverAssumption DEF Planned
    <3> QED BY <1>2, <2>1, <3>1, <3>3, <3>4, SaveStep
  <2> QED BY <2>2, <2>3
<1>5. CASE DeleteCover(r)
  <2>1. x.id \in CoverIds /\ covers' = [covers EXCEPT ![x.id] = NoCover] /\ Written(r, x.id)
    BY <1>2, <1>5 DEF DeleteCover, CoverInv
  <2>2. /\ covers'[x.id] = NoCover /\ \A o \in CoverIds \ {x.id} : covers'[o] = covers[o]
        /\ covers' \in [CoverIds -> CoverRows \cup {NoCover}]
    BY <2>1 DEF CoverInv
  <2>3. CoverInv'
    BY <2>1, <2>2, CoverWritten
  <2>4. CoversMeetUnseen
    BY <2>2 DEF CoversMeetUnseen, Meets
  <2>5. NobodyForThemselves
    BY <2>2 DEF NobodyForThemselves, Stored
  <2> QED BY <2>3, <2>4, <2>5
<1> QED BY <1>3, <1>4, <1>5

LEMMA CoverSteps ==
    ASSUME CoverInv, [CoversNext]_cover_vars
    PROVE  CoverInv' /\ CoversMeetUnseen /\ NobodyForThemselves
<1>1. CASE UNCHANGED cover_vars
  <2>1. UNCHANGED <<covers, planner>>
    BY <1>1 DEF cover_vars
  <2> QED BY <2>1, CoversUntouched DEF CoverInv, Planned
<1>2. ASSUME NEW r \in CoverRequests, NEW scope \in Planners, NEW c \in CoverIds, NEW data \in Changes,
             update_cover(r, scope, c, data)
      PROVE  CoverInv' /\ CoversMeetUnseen /\ NobodyForThemselves
  <2>1. covers[c] \in CoverRows /\ data \in CoverData
    BY <1>2 DEF update_cover, Stored, CoverInv, CoverData
  <2>2. Merged(covers[c], data) \in CoverRows
    BY <2>1, MergedIsACover
  <2> QED BY <1>2, <2>2, SaveStarts, CoversUntouched
<1>3. ASSUME NEW r \in CoverRequests, NEW scope \in Planners,
             \/ \E row \in CoverRows : create_cover(r, scope, row)
             \/ \E c \in CoverIds : delete_cover(r, scope, c)
      PROVE  CoverInv' /\ CoversMeetUnseen /\ NobodyForThemselves
  BY <1>3, SaveStarts, DeleteCoverStarts, CoversUntouched
<1>4. CASE CoversNext
  BY <1>2, <1>3, <1>4, LooksAround, CoverWrites, CoversUntouched DEF CoversNext
<1> QED BY <1>1, <1>4

CoverSpec(at_first) == CoversInit(at_first) /\ [][CoversNext]_cover_vars

\* For any people, rotations, days, requests and covers at first: two covers of one person in
\* one rotation meet only by a save that had not seen the other row, or whose planner may not
\* see it, and nobody stands in for themselves unless two saves of one row crossed (the second
\* part of BookedOnce).
THEOREM StandsInOnce ==
    ASSUME NEW at_first \in [CoverIds -> CoverRows \cup {NoCover}]
    PROVE  CoverSpec(at_first) => OneStandIn
<1>1. CoversInit(at_first) => CoverInv
  BY DEF CoversInit, CoverInv, Elsewhere
<1>2. CoverInv /\ [CoversNext]_cover_vars => CoverInv'
  BY CoverSteps
<1>3. CoverInv /\ [CoversNext]_cover_vars =>
        [/\ \A a \in CoverIds : \A b \in CoverIds \ {a} :
             Meets(covers[a], covers[b])' /\ ~Meets(covers[a], covers[b]) =>
                 \E r \in CoverRequests : Writing(r) /\ (planner[r].unseen \cup (CoverIds \ planner[r].visible)) \cap {a, b} # {}
         /\ \A a \in Stored' : covers'[a].absent = covers'[a].cover /\ (a \in Stored => covers[a].absent # covers[a].cover) =>
             \E r \in CoverRequests : Writing(r) /\ a \in planner[r].unseen]_cover_vars
  BY CoverSteps DEF CoversMeetUnseen, NobodyForThemselves
<1> QED BY <1>1, <1>2, <1>3, PTL DEF CoverSpec, OneStandIn

-----------------------------------------------------------------------------
(* Scope: a list keeps what may be opened. *)

Scopes == {FullView} \cup {s \in [kind : {"section", "department"}, value : STRING] : s.value # Blank}
Raws == [shape : {"none", "kind", "section", "department", "text", "other"},
         kind : {"section", "department", "none"}, text : STRING \cup {Blank}]

\* Tables whose list is a query, and whose rows carry the link their rule names.
Queried == (SectionTables \cup PersonTables \cup InheritTables \cup {"documents", "document_folders"})
               \ {"safety_complaints", "ppe_order_list"}

\* apply_list_scope and row_visible are two translations of one rule: a list query
\* keeps exactly the rows that may be opened one by one, for every viewer and table
\* but the complaints, whose general rows a list must not lose (list_complaints).
THEOREM ListShowsWhatOpens ==
    ASSUME NEW db, NEW scope \in Scopes, NEW t \in Queried, NEW row
    PROVE  apply_list_scope(db, scope, t, row) <=> row_visible(db, scope, t, row)
<1>1. CASE scope = FullView
  BY <1>1 DEF apply_list_scope, row_visible
<1>2. CASE scope # FullView
  <2>1. scope.kind \in {"section", "department"} /\ scope.value # Blank
    BY <1>2 DEF Scopes
  <2>2. CASE t \in SectionTables
    <3>1. t \notin PersonTables /\ t \notin MemberTables /\ t \notin InheritTables /\ t \notin SubtreeTables
      BY <2>2 DEF SectionTables, PersonTables, MemberTables, InheritTables, SubtreeTables
    <3>2. OpenValues(t) = {} /\ t # "standby_rotations"
      BY <2>2 DEF Queried, OpenValues, SectionTables
    <3>. QED
      BY <1>2, <2>1, <2>2, <3>1, <3>2 DEF apply_list_scope, row_visible
  <2>3. CASE t \in PersonTables
    <3>1. t \notin SectionTables /\ t \notin MemberTables /\ t \notin InheritTables /\ t \notin SubtreeTables
      BY <2>3 DEF SectionTables, PersonTables, MemberTables, InheritTables, SubtreeTables
    <3>2. t # "standby_rotations"
      BY <2>3 DEF PersonTables
    <3>. QED
      BY <1>2, <2>1, <2>3, <3>1, <3>2 DEF apply_list_scope, row_visible
  <2>4. CASE t \in InheritTables
    <3>1. t \notin SectionTables /\ t \notin PersonTables /\ t \notin MemberTables /\ t \notin SubtreeTables
      BY <2>4 DEF SectionTables, PersonTables, MemberTables, InheritTables, SubtreeTables
    <3>2. t # "standby_rotations"
      BY <2>4 DEF InheritTables
    <3>. QED
      BY <1>2, <2>1, <2>4, <3>1, <3>2 DEF apply_list_scope, row_visible
  <2>5. CASE t \in {"documents", "document_folders"}
    <3>1. t \notin SectionTables /\ t \notin PersonTables /\ t \notin MemberTables /\ t \notin InheritTables
      BY <2>5 DEF SectionTables, PersonTables, MemberTables, InheritTables
    <3>2. t \in SubtreeTables /\ t # "standby_rotations"
      BY <2>5 DEF SubtreeTables
    <3>. QED
      BY <1>2, <2>1, <3>1, <3>2 DEF apply_list_scope, row_visible
  <2>. QED
    BY <2>2, <2>3, <2>4, <2>5 DEF Queried
<1>. QED
  BY <1>1, <1>2

Rows == [section : STRING, department : STRING, people : SUBSET STRING, parent : Nat, folder : Nat]

\* Whoever creates a row may open it: stamp_create refuses, or leaves a row its
\* creator sees.
THEOREM CreatedIsVisible ==
    ASSUME NEW db, NEW scope \in Scopes, NEW t \in TABLES, NEW row \in Rows,
           stamp_create(db, scope, t, row) # Refused
    PROVE  row_visible(db, scope, t, stamp_create(db, scope, t, row))
<1>1. CASE scope = FullView
  BY <1>1 DEF row_visible
<1>2. CASE scope # FullView /\ t \in SectionTables /\ scope.kind = "section"
  <2>. t \notin PersonTables \cup MemberTables /\ t \notin InheritTables
    BY <1>2 DEF SectionTables, PersonTables, MemberTables, InheritTables
  <2>1. stamp_create(db, scope, t, row) = [row EXCEPT !.section = scope.value]
    BY <1>2 DEF stamp_create
  <2>2. stamp_create(db, scope, t, row).section = scope.value
    BY <2>1 DEF Rows
  <2>. QED
    BY <1>2, <2>2 DEF row_visible
<1>3. CASE scope # FullView /\ t = "employees" /\ scope.kind = "department"
  <2>. t \notin PersonTables \cup MemberTables /\ t \notin InheritTables
    BY <1>3 DEF PersonTables, MemberTables, InheritTables
  <2>1. stamp_create(db, scope, t, row) = [row EXCEPT !.department = scope.value]
    BY <1>3 DEF stamp_create
  <2>2. stamp_create(db, scope, t, row).department = scope.value
    BY <2>1 DEF Rows
  <2>3. t \in SectionTables /\ HasDeptColumn(t)
    BY <1>3 DEF SectionTables, HasDeptColumn
  <2>. QED
    BY <1>3, <2>2, <2>3 DEF row_visible
<1>4. CASE /\ scope # FullView
           /\ ~(t \in SectionTables /\ scope.kind = "section")
           /\ ~(t = "employees" /\ scope.kind = "department")
           /\ t \in PersonTables \cup MemberTables /\ row_visible(db, scope, t, row)
  <2>1. stamp_create(db, scope, t, row) = row
    BY <1>4 DEF stamp_create
  <2>. QED
    BY <1>4, <2>1
<1>5. CASE /\ scope # FullView
           /\ ~(t \in SectionTables /\ scope.kind = "section")
           /\ ~(t = "employees" /\ scope.kind = "department")
           /\ ~(t \in PersonTables \cup MemberTables /\ row_visible(db, scope, t, row))
           /\ t \in InheritTables /\ scope.kind = "section" /\ row.parent \in DOMAIN db.parents
           /\ db.parents[row.parent] = scope.value
  <2>1. stamp_create(db, scope, t, row) = row
    BY <1>5 DEF stamp_create
  <2>. QED
    BY <1>5, <2>1 DEF row_visible
<1>. QED
  BY <1>1, <1>2, <1>3, <1>4, <1>5 DEF stamp_create

\* What a verified session knows of its account: get_current_user puts the stored
\* limit on it, and no permissions.
Sessions == {u \in [scope : Raws, permissions : Raws] : u.permissions.text = Blank}

\* Two sessions whose cached answers share a key have the same limit, so neither is
\* given the rows of the other (cache_scope_segment against viewer_scope), whichever
\* of the stored shapes it came in; names hold no colon, so that a kind and a name
\* cannot be read as a name.
THEOREM SegmentsSeparate ==
    ASSUME NEW a \in Sessions, NEW b \in Sessions,
           cache_scope_segment(a.scope) = cache_scope_segment(b.scope)
    PROVE  viewer_scope(a) = viewer_scope(b)
<1>. DEFINE Seg(r) == cache_scope_segment(r)
            \* The limit can be read back from the segment.
            Read(s) == IF Len(s) = 0 THEN FullView
                       ELSE IF Len(s) = 1 THEN Limit("section", s[1]) ELSE Limit(s[1], s[2])
<1>1. ASSUME NEW r \in Raws PROVE _coerce_scope(r) = Read(Seg(r))
  <2>1. CASE r.shape = "text" /\ r.text = Blank
    <3>1. Seg(r) = <<>> /\ _coerce_scope(r) = FullView
      BY <2>1 DEF _coerce_scope, cache_scope_segment
    <3>. QED
      BY <3>1
  <2>2. CASE r.shape = "text" /\ r.text # Blank
    <3>1. Seg(r) = <<r.text>> /\ _coerce_scope(r) = Limit("section", r.text)
      BY <2>2 DEF _coerce_scope, cache_scope_segment
    <3>. QED
      BY <3>1
  <2>3. CASE r.shape # "text"
    <3>1. Seg(r) = scope_cache_key(_coerce_scope(r))
      BY <2>3 DEF cache_scope_segment
    <3>2. CASE _coerce_scope(r) = FullView
      <4>1. Seg(r) = <<>>
        BY <3>1, <3>2 DEF scope_cache_key
      <4>. QED
        BY <3>2, <4>1
    <3>3. ASSUME NEW k \in {"section", "department"}, _coerce_scope(r) = Limit(k, r.text)
          PROVE  _coerce_scope(r) = Read(Seg(r))
      <4>1. Limit(k, r.text) # FullView /\ Limit(k, r.text).kind = k /\ Limit(k, r.text).value = r.text
        BY DEF Limit, FullView
      <4>2. Seg(r) = <<k, r.text>>
        BY <3>1, <3>3, <4>1 DEF scope_cache_key
      <4>3. Len(Seg(r)) = 2 /\ Seg(r)[1] = k /\ Seg(r)[2] = r.text
        BY <4>2
      <4>. QED
        BY <3>3, <4>3
    <3>4. \/ _coerce_scope(r) = FullView
          \/ \E k \in {"section", "department"} : _coerce_scope(r) = Limit(k, r.text)
      BY <1>1, <2>3 DEF _coerce_scope, Raws
    <3>. QED
      BY <3>2, <3>3, <3>4
  <2>. QED
    BY <2>1, <2>2, <2>3
<1>2. ASSUME NEW u \in Sessions PROVE u.scope \in Raws /\ viewer_scope(u) = _coerce_scope(u.scope)
  <2>1. u.scope \in Raws /\ u.permissions.text = Blank
    BY DEF Sessions
  <2>2. CASE u.scope.text = Blank
    BY <2>1, <2>2 DEF viewer_scope, _coerce_scope
  <2>. QED
    BY <2>1, <2>2 DEF viewer_scope
<1>3. Read(Seg(a.scope)) = Read(Seg(b.scope))
  OBVIOUS
<1>. HIDE DEF Seg, Read
<1>. QED
  BY <1>1, <1>2, <1>3

\* Emptying the order list of one side never takes a line of the other: what a full
\* view lists when it asks for nothing, and what a manager who asks for a separate
\* department lists, have no line in common, and together are the whole list
\* (unscoped_separate_filter, by which lines are also removed and cleared).
THEOREM SlicesAreApart ==
    ASSUME NEW db, NEW rows, NEW d \in SEPARATE_DEPARTMENTS, NEW manager \in BOOLEAN
    PROVE  LET ours   == unscoped_separate_filter(db, FullView, Blank, manager, rows)
               theirs == unscoped_separate_filter(db, FullView, d, TRUE, rows)
           IN  Blank \notin SEPARATE_DEPARTMENTS => ours \cap theirs = {} /\ ours \cup theirs = rows
<1>. DEFINE In(row, x) == row.people \cap scope_person_ids_for(db, Limit("department", x)) # {}
<1>. SUFFICES ASSUME Blank \notin SEPARATE_DEPARTMENTS
              PROVE  LET ours   == unscoped_separate_filter(db, FullView, Blank, manager, rows)
                         theirs == unscoped_separate_filter(db, FullView, d, TRUE, rows)
                     IN  ours \cap theirs = {} /\ ours \cup theirs = rows
  OBVIOUS
<1>1. SEPARATE_DEPARTMENTS = {d}
  BY DEF SEPARATE_DEPARTMENTS
<1>2. unscoped_separate_filter(db, FullView, d, TRUE, rows) = {row \in rows : In(row, d)}
  BY DEF unscoped_separate_filter
<1>3. unscoped_separate_filter(db, FullView, Blank, manager, rows) = {row \in rows : ~In(row, d)}
  BY <1>1 DEF unscoped_separate_filter
<1>. HIDE DEF In
<1>. QED
  BY <1>2, <1>3

-----------------------------------------------------------------------------
(* The Tools workspace: accounts. *)

Roles == {"admin", "issuer", "viewer"}
UserRows == [role : Roles, password : Passwords]
Tokens == [of : Usernames, password : Passwords, crossed : BOOLEAN]
Signups == [pc : {"register"}, of : Usernames, password : Passwords, role : {"admin", "viewer"}]
Openings == [pc : {"open"}, of : Usernames, password : Passwords, crossed : BOOLEAN]
RoleChanges == [pc : {"role"}, of : Usernames, role : Roles]
NewPasswords == [pc : {"password", "end", "close"}, of : Usernames, password : Passwords, then : {"close", "done"}]
AsksOf == [pc : {"ask"}, of : Usernames]
Guests == {Nowhere} \cup Signups \cup Openings \cup RoleChanges \cup NewPasswords \cup AsksOf

AccountShapes ==
    /\ tool_accounts \in [Usernames -> UserRows \cup {NoAccount}]
    /\ sessions \subseteq Tokens
    /\ visit \in [Visits -> Guests]
    /\ crossed_roles \in BOOLEAN

\* What is under way is about an account that is there.
AccountsKnown ==
    /\ \A v \in Visits : visit[v].pc \notin {"nowhere", "register"} => visit[v].of \in Known
    /\ \A s \in sessions : s.of \in Known

\* A sign-in that no change of the password overlapped holds the password in force.
OpensCurrent ==
    \A v \in Visiting("open") : visit[v].crossed \/ visit[v].password = tool_accounts[visit[v].of].password

Admins == {u \in Known : _account_role(u) = "admin"}

\* One change of roles at a time leaves an administrator beside the account it changes.
RolesGuarded ==
    ~crossed_roles =>
        /\ \A v, w \in Visiting("role") : v = w
        /\ \A v, w \in Visiting("register") : v = w
        /\ \A v \in Visiting("role") : visit[v].role = "admin" \/ Admins \ {visit[v].of} # {}
        /\ \A v \in Visiting("register") : visit[v].role = "admin" <=> Known = {}
        /\ Known # {} => Admins # {}

AccountInv == AccountShapes /\ AccountsKnown /\ OpensCurrent /\ TokensDieWithPasswords /\ RolesGuarded

LEMMA GuestFields ==
  ASSUME NEW x \in Guests
  PROVE  /\ x.pc \in {"nowhere", "register", "open", "role", "password", "end", "close", "ask"}
         /\ x.pc = "nowhere" <=> x = Nowhere
         /\ x.pc = "register" => x \in Signups
         /\ x.pc = "open" => x \in Openings
         /\ x.pc = "role" => x \in RoleChanges
         /\ x.pc \in {"password", "end", "close"} => x \in NewPasswords
         /\ x.pc = "ask" => x \in AsksOf
  BY DEF Guests, Nowhere, Signups, Openings, RoleChanges, NewPasswords, AsksOf

LEMMA KnownFields ==
  ASSUME AccountShapes
  PROVE  \A u \in Usernames : u \in Known <=> tool_accounts[u] \in UserRows
  BY AccountsAssumption DEF AccountShapes, Known, UserRows, Roles

\* A request that neither signs up, nor opens a session, nor changes a role, nor has
\* changed a password disturbs nothing.
LEMMA QuietVisit ==
  ASSUME AccountInv, UNCHANGED <<tool_accounts, unfinished, crossed_roles>>, sessions' \subseteq sessions,
         visit' \in [Visits -> Guests],
         \A v \in Visits :
            \/ visit'[v] = visit[v]
            \/ visit[v].pc # "end" /\ visit'[v] = Nowhere
            \/ visit[v].pc # "end" /\ visit'[v].pc \in {"password", "close", "ask"} /\ visit'[v].of \in Known
  PROVE  AccountInv'
<1> USE DEF AccountInv, Nowhere
<1>1. AccountShapes'
  BY DEF AccountShapes
<1>2. Known' = Known /\ Admins' = Admins /\ \A u \in Usernames : tool_accounts'[u] = tool_accounts[u]
  BY DEF Known, Admins, _account_role
<1>3. \A v \in Visits : visit'[v].pc \in {"open", "role", "register"} => visit'[v] = visit[v]
  OBVIOUS
<1>4. AccountsKnown'
  BY <1>2 DEF AccountsKnown
<1>5. OpensCurrent'
  BY <1>3 DEF OpensCurrent, Visiting
<1>6. TokensDieWithPasswords'
  <2>1. \A v \in Visiting("end") : v \in Visiting("end")' /\ visit'[v] = visit[v]
    BY DEF Visiting
  <2> QED BY <2>1 DEF TokensDieWithPasswords
<1>7. RolesGuarded'
  BY <1>2, <1>3 DEF RolesGuarded, Visiting
<1> QED BY <1>1, <1>4, <1>5, <1>6, <1>7

LEMMA RegisterStep ==
  ASSUME AccountInv, NEW v \in Visits, NEW u \in Usernames, NEW p \in Passwords, register(v, u, p)
  PROVE  AccountInv'
<1> DEFINE d == [pc |-> "register", of |-> u, password |-> p, role |-> IF Known = {} THEN "admin" ELSE "viewer"]
<1>1. /\ visit[v] = Nowhere /\ visit' = [visit EXCEPT ![v] = d]
      /\ UNCHANGED <<tool_accounts, sessions, unfinished>>
      /\ crossed_roles' = (crossed_roles \/ Visiting("register") # {})
  BY DEF register, Enters
<1>2. d \in Signups /\ d.pc = "register" /\ (d.role = "admin" <=> Known = {})
  BY DEF Signups
<1> HIDE DEF d
<1>3. AccountShapes'
  BY <1>1, <1>2 DEF AccountInv, AccountShapes, Guests
<1>4. \A w \in Visits : visit'[w] = IF w = v THEN d ELSE visit[w]
  BY <1>1 DEF AccountInv, AccountShapes
<1>5. Known' = Known /\ Admins' = Admins
  BY <1>1 DEF Known, Admins, _account_role
<1>6. AccountsKnown'
  BY <1>1, <1>2, <1>4, <1>5 DEF AccountInv, AccountsKnown
<1>7. \A w \in Visits, x \in {"open", "role", "end"} : visit'[w].pc = x <=> visit[w].pc = x
  BY <1>1, <1>2, <1>4 DEF Nowhere
<1>8. OpensCurrent'
  BY <1>1, <1>2, <1>4, <1>7 DEF AccountInv, OpensCurrent, Visiting
<1>9. TokensDieWithPasswords'
  <2>1. \A w \in Visiting("end") : w \in Visiting("end")' /\ visit'[w] = visit[w]
    BY <1>1, <1>2, <1>4 DEF Visiting, Nowhere
  <2> QED BY <1>1, <2>1 DEF AccountInv, TokensDieWithPasswords
<1>10. RolesGuarded'
  <2> SUFFICES ASSUME ~crossed_roles' PROVE RolesGuarded'
    BY DEF RolesGuarded
  <2>1. ~crossed_roles /\ Visiting("register") = {}
    BY <1>1 DEF AccountInv, AccountShapes
  <2>2. /\ \A w, x \in Visiting("role") : w = x
        /\ \A w \in Visiting("role") : visit[w].role = "admin" \/ Admins \ {visit[w].of} # {}
        /\ Known # {} => Admins # {}
    BY <2>1 DEF AccountInv, RolesGuarded
  <2>3. Visiting("role")' = Visiting("role") /\ \A w \in Visiting("role") : visit'[w] = visit[w]
    BY <1>1, <1>2, <1>4 DEF Visiting, Nowhere
  <2>4. Visiting("register")' = {v}
    BY <1>2, <1>4, <2>1 DEF Visiting
  <2>5. visit'[v] = d
    BY <1>4
  <2> QED BY <1>2, <1>5, <2>2, <2>3, <2>4, <2>5 DEF RolesGuarded
<1> QED BY <1>3, <1>6, <1>8, <1>9, <1>10 DEF AccountInv

LEMMA InsertAccountStep ==
  ASSUME AccountInv, NEW v \in Visits, InsertAccount(v)
  PROVE  AccountInv'
<1> DEFINE u == visit[v].of
           new == [role |-> visit[v].role, password |-> visit[v].password]
           d == [pc |-> "open", of |-> u, password |-> visit[v].password, crossed |-> FALSE]
<1>1. visit[v].pc = "register" /\ visit[v] \in Signups
  BY GuestFields DEF InsertAccount, AccountInv, AccountShapes
<1>2. u \in Usernames /\ new \in UserRows /\ new.password = visit[v].password /\ new.role = visit[v].role
      /\ d \in Openings /\ d.pc = "open" /\ d.of = u /\ d.password = new.password /\ visit[v].role \in {"admin", "viewer"}
  BY <1>1 DEF Signups, UserRows, Roles, Openings
<1>3. UNCHANGED <<sessions, unfinished, crossed_roles>>
  BY DEF InsertAccount
<1>4. CASE u \in Known
  <2>1. visit' = [visit EXCEPT ![v] = Nowhere] /\ UNCHANGED tool_accounts
    BY <1>4 DEF InsertAccount, Moves
  <2> QED BY <1>1, <1>3, <2>1, QuietVisit DEF AccountInv, AccountShapes, Guests
<1>5. CASE u \notin Known
  <2>1. visit' = [visit EXCEPT ![v] = d] /\ tool_accounts' = [tool_accounts EXCEPT ![u] = new]
    BY <1>5 DEF InsertAccount, Moves
  <2> HIDE DEF u, new, d
  <2>2. AccountShapes'
    BY <1>2, <1>3, <2>1 DEF AccountInv, AccountShapes, Guests
  <2>3. /\ \A w \in Visits : visit'[w] = IF w = v THEN d ELSE visit[w]
        /\ \A x \in Usernames : tool_accounts'[x] = IF x = u THEN new ELSE tool_accounts[x]
    BY <1>2, <2>1 DEF AccountInv, AccountShapes
  <2>4. Known' = Known \cup {u}
    BY <1>2, <2>3, AccountsAssumption DEF Known, UserRows, Roles
  <2>5. AccountsKnown'
    BY <1>2, <1>3, <2>3, <2>4 DEF AccountInv, AccountsKnown
  <2>6. OpensCurrent'
    <3> SUFFICES ASSUME NEW w \in Visits, visit'[w].pc = "open"
                 PROVE  visit'[w].crossed \/ visit'[w].password = tool_accounts'[visit'[w].of].password
      BY DEF OpensCurrent, Visiting
    <3>1. CASE w = v
      BY <1>2, <2>3, <3>1
    <3>2. CASE w # v
      <4>1. visit[w].of \in Known /\ visit[w].of \in Usernames
        BY <2>3, <3>2 DEF AccountInv, AccountsKnown, Known
      <4> QED BY <1>5, <2>3, <3>2, <4>1 DEF AccountInv, OpensCurrent, Visiting
    <3> QED BY <3>1, <3>2
  <2>7. TokensDieWithPasswords'
    <3>1. \A s \in sessions : s.of \in Known /\ s.of \in Usernames /\ tool_accounts'[s.of] = tool_accounts[s.of]
      BY <1>5, <2>3 DEF AccountInv, AccountsKnown, Known
    <3>2. \A w \in Visiting("end") : w \in Visiting("end")' /\ visit'[w] = visit[w]
      BY <1>1, <2>3 DEF Visiting
    <3> QED BY <1>3, <3>1, <3>2 DEF AccountInv, TokensDieWithPasswords
  <2>8. RolesGuarded'
    <3> SUFFICES ASSUME ~crossed_roles PROVE RolesGuarded'
      BY <1>3 DEF RolesGuarded
    <3>1. /\ \A w, x \in Visiting("role") : w = x
          /\ \A w, x \in Visiting("register") : w = x
          /\ \A w \in Visiting("role") : visit[w].role = "admin" \/ Admins \ {visit[w].of} # {}
          /\ \A w \in Visiting("register") : visit[w].role = "admin" <=> Known = {}
          /\ Known # {} => Admins # {}
      BY DEF AccountInv, RolesGuarded
    <3>2. Admins \subseteq Admins' /\ (Known = {} => u \in Admins')
      BY <1>1, <1>2, <1>5, <2>3, <2>4, <3>1 DEF Admins, _account_role, Known, Visiting
    <3>3. Visiting("role")' = Visiting("role") /\ Visiting("register")' = {}
      BY <1>1, <1>2, <2>3, <3>1 DEF Visiting
    <3>4. \A w \in Visiting("role") : visit'[w] = visit[w]
      BY <1>1, <2>3 DEF Visiting
    <3> QED BY <2>4, <3>1, <3>2, <3>3, <3>4 DEF RolesGuarded
  <2> QED BY <2>2, <2>5, <2>6, <2>7, <2>8 DEF AccountInv
<1> QED BY <1>4, <1>5

\* A session opens with what its request found.
LEMMA OpenStep ==
  ASSUME AccountInv, NEW v \in Visits, _new_session(v)
  PROVE  AccountInv'
<1> DEFINE t == [of |-> visit[v].of, password |-> visit[v].password, crossed |-> visit[v].crossed]
<1>1. visit[v].pc = "open" /\ visit[v] \in Openings
  BY GuestFields DEF _new_session, AccountInv, AccountShapes
<1>2. /\ t \in Tokens /\ t.of = visit[v].of /\ t.password = visit[v].password /\ (t.crossed <=> visit[v].crossed)
      /\ t.of \in Known
  BY <1>1 DEF Openings, Tokens, AccountInv, AccountsKnown
<1>3. /\ sessions' = sessions \cup {t} /\ visit' = [visit EXCEPT ![v] = Nowhere]
      /\ UNCHANGED <<tool_accounts, unfinished, crossed_roles>>
  BY DEF _new_session, Moves
<1> HIDE DEF t
<1>4. t.crossed \/ t.password = tool_accounts[t.of].password
  BY <1>1, <1>2 DEF AccountInv, OpensCurrent, Visiting
<1>5. /\ visit' \in [Visits -> Guests]
      /\ \A w \in Visits : visit'[w] = IF w = v THEN Nowhere ELSE visit[w]
  BY <1>3 DEF AccountInv, AccountShapes, Guests
<1>6. Known' = Known /\ Admins' = Admins
  BY <1>3 DEF Known, Admins, _account_role
<1>7. AccountShapes' /\ AccountsKnown'
  BY <1>2, <1>3, <1>5, <1>6 DEF AccountInv, AccountShapes, AccountsKnown, Nowhere
<1>8. OpensCurrent'
  BY <1>3, <1>5 DEF AccountInv, OpensCurrent, Visiting, Nowhere
<1>9. TokensDieWithPasswords'
  <2>1. \A w \in Visiting("end") : w \in Visiting("end")' /\ visit'[w] = visit[w]
    BY <1>1, <1>5 DEF Visiting
  <2> QED BY <1>3, <1>4, <2>1 DEF AccountInv, TokensDieWithPasswords
<1>10. RolesGuarded'
  BY <1>1, <1>3, <1>5, <1>6 DEF AccountInv, RolesGuarded, Visiting, Nowhere
<1> QED BY <1>7, <1>8, <1>9, <1>10 DEF AccountInv

\* A sign-in whose password was the account's.
LEMMA SignInStep ==
  ASSUME AccountInv, NEW v \in Visits, NEW u \in Usernames, NEW p \in Passwords, login(v, u, p)
  PROVE  AccountInv'
<1> DEFINE d == [pc |-> "open", of |-> u, password |-> p, crossed |-> FALSE]
<1>1. UNCHANGED <<tool_accounts, sessions, unfinished, crossed_roles>>
  BY DEF login
<1>2. CASE ~(u \in Known /\ p = tool_accounts[u].password)
  <2>1. UNCHANGED visit
    BY <1>2 DEF login
  <2> QED BY <1>1, <2>1, QuietVisit DEF AccountInv, AccountShapes
<1>3. CASE u \in Known /\ p = tool_accounts[u].password
  <2>1. visit[v] = Nowhere /\ visit' = [visit EXCEPT ![v] = d]
    BY <1>3 DEF login, Enters
  <2>2. d \in Openings /\ d.pc = "open" /\ d.of = u /\ d.password = p
    BY DEF Openings
  <2> HIDE DEF d
  <2>3. /\ visit' \in [Visits -> Guests]
        /\ \A w \in Visits : visit'[w] = IF w = v THEN d ELSE visit[w]
    BY <2>1, <2>2 DEF AccountInv, AccountShapes, Guests
  <2>4. Known' = Known /\ Admins' = Admins
    BY <1>1 DEF Known, Admins, _account_role
  <2>5. AccountShapes' /\ AccountsKnown'
    BY <1>1, <1>3, <2>2, <2>3, <2>4 DEF AccountInv, AccountShapes, AccountsKnown
  <2>6. OpensCurrent'
    BY <1>1, <1>3, <2>2, <2>3 DEF AccountInv, OpensCurrent, Visiting
  <2>7. TokensDieWithPasswords'
    <3>1. \A w \in Visiting("end") : w \in Visiting("end")' /\ visit'[w] = visit[w]
      BY <2>1, <2>3 DEF Visiting, Nowhere
    <3> QED BY <1>1, <3>1 DEF AccountInv, TokensDieWithPasswords
  <2>8. RolesGuarded'
    <3>1. /\ Visiting("role")' = Visiting("role") /\ Visiting("register")' = Visiting("register")
          /\ \A w \in Visiting("role") \cup Visiting("register") : visit'[w] = visit[w]
      BY <2>1, <2>2, <2>3 DEF Visiting, Nowhere
    <3> QED BY <1>1, <2>4, <3>1 DEF AccountInv, RolesGuarded
  <2> QED BY <2>5, <2>6, <2>7, <2>8 DEF AccountInv
<1> QED BY <1>2, <1>3

\* A change of roles starts from an administrator who is not the account, or keeps it one.
LEMMA AssignStep ==
  ASSUME AccountInv, NEW v \in Visits, NEW a \in Usernames, NEW u \in Usernames, NEW role \in Roles,
         update_account_role(v, a, u, role)
  PROVE  AccountInv'
<1> DEFINE d == [pc |-> "role", of |-> u, role |-> role]
<1>1. /\ visit[v] = Nowhere /\ visit' = [visit EXCEPT ![v] = d]
      /\ UNCHANGED <<tool_accounts, sessions, unfinished>>
      /\ crossed_roles' = (crossed_roles \/ Visiting("role") # {})
      /\ a \in Admins /\ u \in Known /\ (a = u => role = "admin")
  BY DEF update_account_role, Enters, _admin, _session, Admins, MayAssign
<1>2. d \in RoleChanges /\ d.pc = "role" /\ d.of = u /\ d.role = role
  BY DEF RoleChanges
<1> HIDE DEF d
<1>3. /\ visit' \in [Visits -> Guests]
      /\ \A w \in Visits : visit'[w] = IF w = v THEN d ELSE visit[w]
  BY <1>1, <1>2 DEF AccountInv, AccountShapes, Guests
<1>4. Known' = Known /\ Admins' = Admins
  BY <1>1 DEF Known, Admins, _account_role
<1>5. AccountShapes' /\ AccountsKnown'
  BY <1>1, <1>2, <1>3, <1>4 DEF AccountInv, AccountShapes, AccountsKnown
<1>6. OpensCurrent'
  BY <1>1, <1>2, <1>3 DEF AccountInv, OpensCurrent, Visiting
<1>7. TokensDieWithPasswords'
  <2>1. \A w \in Visiting("end") : w \in Visiting("end")' /\ visit'[w] = visit[w]
    BY <1>1, <1>3 DEF Visiting, Nowhere
  <2> QED BY <1>1, <2>1 DEF AccountInv, TokensDieWithPasswords
<1>8. RolesGuarded'
  <2> SUFFICES ASSUME ~crossed_roles' PROVE RolesGuarded'
    BY DEF RolesGuarded
  <2>1. ~crossed_roles /\ Visiting("role") = {}
    BY <1>1 DEF AccountInv, AccountShapes
  <2>2. /\ \A w, x \in Visiting("register") : w = x
        /\ \A w \in Visiting("register") : visit[w].role = "admin" <=> Known = {}
        /\ Known # {} => Admins # {}
    BY <2>1 DEF AccountInv, RolesGuarded
  <2>3. Visiting("register")' = Visiting("register") /\ \A w \in Visiting("register") : visit'[w] = visit[w]
    BY <1>1, <1>2, <1>3 DEF Visiting, Nowhere
  <2>4. Visiting("role")' = {v} /\ visit'[v] = d
    BY <1>2, <1>3, <2>1 DEF Visiting
  <2>5. d.role = "admin" \/ Admins \ {d.of} # {}
    BY <1>1, <1>2
  <2> QED BY <1>4, <2>2, <2>3, <2>4, <2>5 DEF RolesGuarded
<1> QED BY <1>5, <1>6, <1>7, <1>8 DEF AccountInv

LEMMA RoleStep ==
  ASSUME AccountInv, NEW v \in Visits, WriteRole(v)
  PROVE  AccountInv'
<1> DEFINE u == visit[v].of
           role == visit[v].role
           new == [tool_accounts[u] EXCEPT !.role = role]
<1>1. visit[v].pc = "role" /\ visit[v] \in RoleChanges /\ u \in Known /\ u \in Usernames /\ role \in Roles
  BY GuestFields DEF WriteRole, AccountInv, AccountShapes, AccountsKnown, RoleChanges
<1>2. tool_accounts[u] \in UserRows
  BY <1>1, KnownFields DEF AccountInv
<1>3. new \in UserRows /\ new.role = role /\ new.password = tool_accounts[u].password
  BY <1>1, <1>2 DEF UserRows
<1>4. /\ tool_accounts' = [tool_accounts EXCEPT ![u] = new] /\ visit' = [visit EXCEPT ![v] = Nowhere]
      /\ UNCHANGED <<sessions, unfinished, crossed_roles>>
  BY DEF WriteRole, Moves
<1> HIDE DEF u, role, new
<1>5. AccountShapes'
  BY <1>1, <1>3, <1>4 DEF AccountInv, AccountShapes, Guests
<1>6. /\ \A w \in Visits : visit'[w] = IF w = v THEN Nowhere ELSE visit[w]
      /\ \A x \in Usernames : tool_accounts'[x] = IF x = u THEN new ELSE tool_accounts[x]
  BY <1>1, <1>4 DEF AccountInv, AccountShapes
<1>7. Known' = Known
  BY <1>1, <1>3, <1>6, AccountsAssumption DEF Known, UserRows, Roles
<1>8. \A x \in Known : tool_accounts'[x].password = tool_accounts[x].password
  BY <1>3, <1>6 DEF Known
<1>9. AccountsKnown'
  BY <1>4, <1>6, <1>7 DEF AccountInv, AccountsKnown, Nowhere
<1>10. OpensCurrent'
  BY <1>6, <1>8 DEF AccountInv, OpensCurrent, AccountsKnown, Visiting, Nowhere
<1>11. TokensDieWithPasswords'
  <2>1. \A w \in Visiting("end") : w \in Visiting("end")' /\ visit'[w] = visit[w]
    BY <1>1, <1>6 DEF Visiting
  <2> QED BY <1>4, <1>8, <2>1 DEF AccountInv, AccountsKnown, TokensDieWithPasswords
<1>12. RolesGuarded'
  <2> SUFFICES ASSUME ~crossed_roles PROVE RolesGuarded'
    BY <1>4 DEF RolesGuarded
  <2>1. /\ Visiting("role") = {v}
        /\ \A w, x \in Visiting("register") : w = x
        /\ role = "admin" \/ Admins \ {u} # {}
        /\ \A w \in Visiting("register") : visit[w].role = "admin" <=> Known = {}
    BY <1>1 DEF AccountInv, RolesGuarded, Visiting, u, role
  <2>2. Admins' = IF role = "admin" THEN Admins \cup {u} ELSE Admins \ {u}
    BY <1>1, <1>3, <1>6, <1>7 DEF Admins, _account_role, Known
  <2>3. Visiting("role")' = {}
    BY <1>6, <2>1 DEF Visiting, Nowhere
  <2>4. Visiting("register")' = Visiting("register") /\ \A w \in Visiting("register") : visit'[w] = visit[w]
    BY <1>1, <1>6 DEF Visiting, Nowhere
  <2> QED BY <1>7, <2>1, <2>2, <2>3, <2>4 DEF RolesGuarded
<1> QED BY <1>5, <1>9, <1>10, <1>11, <1>12 DEF AccountInv

\* The row of a new password marks the sign-ins that have compared the old one.
LEMMA PasswordStep ==
  ASSUME AccountInv, NEW v \in Visits, WritePassword(v)
  PROVE  AccountInv'
<1> DEFINE u == visit[v].of
           new == [tool_accounts[u] EXCEPT !.password = visit[v].password]
           d == [visit[v] EXCEPT !.pc = "end"]
           overlaps(o) == o # v /\ visit[o].pc = "open" /\ visit[o].of = u
<1>1. visit[v].pc = "password" /\ visit[v] \in NewPasswords /\ u \in Known /\ u \in Usernames /\ visit[v].password \in Passwords
  BY GuestFields DEF WritePassword, AccountInv, AccountShapes, AccountsKnown, NewPasswords
<1>2. tool_accounts[u] \in UserRows
  BY <1>1, KnownFields DEF AccountInv
<1>3. new \in UserRows /\ new.role = tool_accounts[u].role
  BY <1>1, <1>2 DEF UserRows
<1>4. d \in NewPasswords /\ d.pc = "end" /\ d.of = u
  BY <1>1 DEF NewPasswords
<1>5. /\ tool_accounts' = [tool_accounts EXCEPT ![u] = new]
      /\ visit' = [o \in Visits |-> IF o = v THEN d ELSE IF overlaps(o) THEN [visit[o] EXCEPT !.crossed = TRUE] ELSE visit[o]]
      /\ UNCHANGED <<sessions, unfinished, crossed_roles>>
  BY DEF WritePassword
<1>6. ASSUME NEW x \in Openings
      PROVE  /\ [x EXCEPT !.crossed = TRUE] \in Openings /\ [x EXCEPT !.crossed = TRUE].crossed
             /\ [x EXCEPT !.crossed = TRUE].pc = "open" /\ [x EXCEPT !.crossed = TRUE].of = x.of /\ x.pc = "open"
  BY DEF Openings
<1> HIDE DEF u, new, d
<1>7. ASSUME NEW w \in Visits
      PROVE  /\ visit'[w] \in Guests /\ (visit'[w].pc # "end" => visit'[w].pc = visit[w].pc)
             /\ visit[w].pc = "end" => visit'[w] = visit[w]
             /\ visit'[w].pc \notin {"open", "end"} => visit'[w] = visit[w]
             /\ visit'[w].pc = "open" => visit'[w].crossed \/ (visit'[w] = visit[w] /\ visit[w].of # u)
             /\ visit'[w].pc \notin {"nowhere", "register"} => visit[w].pc \notin {"nowhere", "register"}
                                                              /\ visit'[w].of = visit[w].of
  <2>1. CASE w = v
    BY <1>1, <1>4, <1>5, <2>1 DEF Guests, u
  <2>2. CASE overlaps(w)
    <3>1. visit[w] \in Openings
      BY <2>2, GuestFields DEF AccountInv, AccountShapes
    <3>2. visit'[w] = [visit[w] EXCEPT !.crossed = TRUE]
      BY <1>5, <2>2
    <3>3. PICK y : y = visit'[w]
      OBVIOUS
    <3>4. y \in Openings /\ y.crossed /\ y.pc = "open" /\ y.of = visit[w].of
      BY <1>6, <3>1, <3>2, <3>3
    <3> QED BY <2>2, <3>3, <3>4 DEF Guests
  <2>3. CASE w # v /\ ~overlaps(w)
    <3>1. visit'[w] = visit[w] /\ visit[w] \in Guests
      BY <1>5, <2>3 DEF AccountInv, AccountShapes
    <3> QED BY <2>3, <3>1
  <2> QED BY <2>1, <2>2, <2>3
<1>8. \A x \in Usernames : tool_accounts'[x] = IF x = u THEN new ELSE tool_accounts[x]
  BY <1>1, <1>5 DEF AccountInv, AccountShapes
<1>9. AccountShapes'
  <2>1. visit' \in [Visits -> Guests]
    BY <1>5, <1>7
  <2> QED BY <1>1, <1>3, <1>5, <2>1 DEF AccountInv, AccountShapes
<1>10. Known' = Known /\ Admins' = Admins
  <2>1. Known' = Known
    BY <1>1, <1>3, <1>8, AccountsAssumption DEF Known, UserRows, Roles
  <2> QED BY <1>1, <1>3, <1>8, <2>1 DEF Admins, _account_role, Known
<1>11. AccountsKnown'
  <2>1. \A w \in Visits : visit'[w].pc \notin {"nowhere", "register"} => visit'[w].of \in Known
    BY <1>7 DEF AccountInv, AccountsKnown
  <2>2. \A s \in sessions : s.of \in Known
    BY DEF AccountInv, AccountsKnown
  <2> QED BY <1>5, <1>10, <2>1, <2>2 DEF AccountsKnown
<1>12. OpensCurrent'
  <2> SUFFICES ASSUME NEW w \in Visits, visit'[w].pc = "open"
               PROVE  visit'[w].crossed \/ visit'[w].password = tool_accounts'[visit'[w].of].password
    BY DEF OpensCurrent, Visiting
  <2>1. CASE visit'[w].crossed
    BY <2>1
  <2>2. CASE visit'[w] = visit[w] /\ visit[w].of # u
    <3>1. visit[w].of \in Known /\ visit[w].of \in Usernames
      BY <2>2 DEF AccountInv, AccountsKnown, Known
    <3> QED BY <1>8, <2>2, <3>1 DEF AccountInv, OpensCurrent, Visiting
  <2> QED BY <1>7, <2>1, <2>2
<1>13. TokensDieWithPasswords'
  <2> SUFFICES ASSUME NEW s \in sessions
               PROVE  \/ s.password = tool_accounts'[s.of].password \/ s.crossed
                      \/ s.of \in unfinished \/ \E w \in Visiting("end")' : visit'[w].of = s.of
    BY <1>5 DEF TokensDieWithPasswords
  <2>1. v \in Visiting("end")' /\ visit'[v].of = u
    BY <1>4, <1>5 DEF Visiting
  <2>2. \A w \in Visiting("end") : w \in Visiting("end")' /\ visit'[w] = visit[w]
    BY <1>7 DEF Visiting
  <2>3. s.of \in Usernames
    BY DEF AccountInv, AccountsKnown, Known
  <2> QED BY <1>8, <2>1, <2>2, <2>3 DEF AccountInv, TokensDieWithPasswords
<1>14. RolesGuarded'
  <2>1. /\ Visiting("role")' = Visiting("role") /\ Visiting("register")' = Visiting("register")
        /\ \A w \in Visiting("role") \cup Visiting("register") : visit'[w] = visit[w]
    BY <1>1, <1>4, <1>5, <1>7 DEF Visiting
  <2> QED BY <1>5, <1>10, <2>1 DEF AccountInv, RolesGuarded
<1> QED BY <1>9, <1>11, <1>12, <1>13, <1>14 DEF AccountInv

LEMMA EndStep ==
  ASSUME AccountInv, NEW v \in Visits, EndSessions(v)
  PROVE  AccountInv'
<1> DEFINE u == visit[v].of
           d == IF visit[v].then = "close" THEN [visit[v] EXCEPT !.pc = "close"] ELSE Nowhere
<1>1. visit[v].pc = "end" /\ visit[v] \in NewPasswords /\ u \in Known
  BY GuestFields DEF EndSessions, AccountInv, AccountShapes, AccountsKnown
<1>2. d \in Guests /\ (d = Nowhere \/ (d.pc = "close" /\ d.of = u))
  <2>1. [visit[v] EXCEPT !.pc = "close"] \in NewPasswords
        /\ [visit[v] EXCEPT !.pc = "close"].pc = "close" /\ [visit[v] EXCEPT !.pc = "close"].of = u
    BY <1>1 DEF NewPasswords
  <2>2. PICK y \in NewPasswords : y = [visit[v] EXCEPT !.pc = "close"] /\ y.pc = "close" /\ y.of = u
    BY <2>1
  <2>3. d = Nowhere \/ d = y
    BY <2>2
  <2>4. NewPasswords \subseteq Guests /\ Nowhere \in Guests
    BY DEF Guests
  <2> HIDE DEF u, d
  <2> QED BY <2>2, <2>3, <2>4
<1>3. /\ sessions' = {s \in sessions : s.of # u} /\ unfinished' = unfinished \ {u}
      /\ visit' = [visit EXCEPT ![v] = d] /\ UNCHANGED <<tool_accounts, crossed_roles>>
  BY DEF EndSessions, Moves, Ended, SessionsOf
<1> HIDE DEF d, u
<1>4. /\ visit' \in [Visits -> Guests]
      /\ \A w \in Visits : visit'[w] = IF w = v THEN d ELSE visit[w]
  BY <1>2, <1>3 DEF AccountInv, AccountShapes
<1>5. Known' = Known /\ Admins' = Admins
  BY <1>3 DEF Known, Admins, _account_role
<1>6. AccountShapes' /\ AccountsKnown'
  BY <1>1, <1>2, <1>3, <1>4, <1>5 DEF AccountInv, AccountShapes, AccountsKnown, Nowhere
<1>7. OpensCurrent'
  BY <1>2, <1>3, <1>4 DEF AccountInv, OpensCurrent, Visiting, Nowhere
<1>8. TokensDieWithPasswords'
  <2>1. \A w \in Visiting("end") : visit[w].of # u => w \in Visiting("end")' /\ visit'[w] = visit[w]
    BY <1>4 DEF Visiting, u
  <2> QED BY <1>3, <2>1 DEF AccountInv, TokensDieWithPasswords
<1>9. RolesGuarded'
  <2>1. /\ Visiting("role")' = Visiting("role") /\ Visiting("register")' = Visiting("register")
        /\ \A w \in Visiting("role") \cup Visiting("register") : visit'[w] = visit[w]
    BY <1>1, <1>2, <1>4 DEF Visiting, Nowhere
  <2> QED BY <1>3, <1>5, <2>1 DEF AccountInv, RolesGuarded
<1> QED BY <1>6, <1>7, <1>8, <1>9 DEF AccountInv

\* A password change that fails before the sessions end is remembered as unfinished.
LEMMA FailStep ==
  ASSUME AccountInv, NEW v \in Visits, VisitFails(v)
  PROVE  AccountInv'
<1>1. /\ visit' = [visit EXCEPT ![v] = Nowhere] /\ UNCHANGED <<tool_accounts, sessions, crossed_roles>>
      /\ unfinished' = IF visit[v].pc = "end" THEN unfinished \cup {visit[v].of} ELSE unfinished
  BY DEF VisitFails, Moves
<1>2. /\ visit' \in [Visits -> Guests]
      /\ \A w \in Visits : visit'[w] = IF w = v THEN Nowhere ELSE visit[w]
  BY <1>1 DEF AccountInv, AccountShapes, Guests
<1>3. Known' = Known /\ Admins' = Admins
  BY <1>1 DEF Known, Admins, _account_role
<1>4. AccountShapes' /\ AccountsKnown'
  BY <1>1, <1>2, <1>3 DEF AccountInv, AccountShapes, AccountsKnown, Nowhere
<1>5. OpensCurrent'
  BY <1>1, <1>2 DEF AccountInv, OpensCurrent, Visiting, Nowhere
<1>6. TokensDieWithPasswords'
  <2>1. \A w \in Visiting("end") : w = v \/ (w \in Visiting("end")' /\ visit'[w] = visit[w])
    BY <1>2 DEF Visiting
  <2>2. v \in Visiting("end") => visit[v].of \in unfinished'
    BY <1>1 DEF Visiting
  <2>3. unfinished \subseteq unfinished'
    BY <1>1
  <2> QED BY <1>1, <2>1, <2>2, <2>3 DEF AccountInv, TokensDieWithPasswords
<1>7. RolesGuarded'
  <2>1. /\ Visiting("role")' = Visiting("role") \ {v} /\ Visiting("register")' = Visiting("register") \ {v}
        /\ \A w \in Visits : w # v => visit'[w] = visit[w]
    BY <1>2 DEF Visiting, Nowhere
  <2> QED BY <1>1, <1>3, <2>1 DEF AccountInv, RolesGuarded
<1> QED BY <1>4, <1>5, <1>6, <1>7 DEF AccountInv

LEMMA AccountsInductive == AccountInv /\ [AccountsNext]_account_vars => AccountInv'
<1> SUFFICES ASSUME AccountInv, [AccountsNext]_account_vars PROVE AccountInv'
  OBVIOUS
<1>1. visit \in [Visits -> Guests]
  BY DEF AccountInv, AccountShapes
<1>2. CASE UNCHANGED account_vars
  BY <1>1, <1>2, QuietVisit DEF account_vars
<1>3. ASSUME NEW u \in Usernames, FailuresExpire(u)
      PROVE  AccountInv'
  BY <1>1, <1>3, QuietVisit DEF FailuresExpire
<1>4. ASSUME NEW s \in sessions, logout(s)
      PROVE  AccountInv'
  <2>1. sessions' \subseteq sessions /\ UNCHANGED <<tool_accounts, visit, unfinished, crossed_roles>>
    BY <1>4 DEF logout
  <2> QED BY <1>1, <2>1, QuietVisit
<1>5. ASSUME NEW v \in Visits, CloseRequests(v) \/ InsertRequest(v)
      PROVE  AccountInv'
  <2>1. /\ visit[v].pc \in {"close", "ask"} /\ visit' = [visit EXCEPT ![v] = Nowhere]
        /\ UNCHANGED <<tool_accounts, sessions, unfinished, crossed_roles>>
    BY <1>5 DEF CloseRequests, InsertRequest, Moves
  <2>2. visit' \in [Visits -> Guests]
    BY <1>1, <2>1 DEF Guests
  <2> QED BY <1>1, <2>1, <2>2, QuietVisit
<1>6. ASSUME NEW v \in Visits, NEW u \in Usernames, NEW d \in NewPasswords \cup AsksOf,
             d.pc \in {"password", "ask"}, d.of \in Known, Enters(v, d),
             UNCHANGED <<tool_accounts, sessions, unfinished, crossed_roles>>
      PROVE  AccountInv'
  <2>1. visit[v].pc # "end" /\ visit' = [visit EXCEPT ![v] = d]
    BY <1>6 DEF Enters, Nowhere
  <2>2. visit' \in [Visits -> Guests]
    BY <1>1, <2>1 DEF Guests
  <2>3. \A w \in Visits : visit'[w] = IF w = v THEN d ELSE visit[w]
    BY <1>1, <2>1
  <2> QED BY <1>6, <2>1, <2>2, <2>3, QuietVisit
<1>7. ASSUME NEW v \in Visits, NEW u \in Usernames, NEW p \in Passwords, NEW then \in {"close", "done"},
             u \in Known, Enters(v, [pc |-> "password", of |-> u, password |-> p, then |-> then]),
             UNCHANGED <<tool_accounts, sessions, unfinished, crossed_roles>>
      PROVE  AccountInv'
  <2>1. PICK d : d = [pc |-> "password", of |-> u, password |-> p, then |-> then]
    OBVIOUS
  <2>2. d \in NewPasswords /\ d.pc = "password" /\ d.of = u
    BY <2>1 DEF NewPasswords
  <2>3. Enters(v, d)
    BY <1>7, <2>1
  <2> QED BY <1>6, <1>7, <2>2, <2>3
<1>8. ASSUME NEW v \in Visits, NEW u \in Usernames, request_password_reset(v, u)
      PROVE  AccountInv'
  <2>1. PICK d : d = [pc |-> "ask", of |-> u]
    OBVIOUS
  <2>2. d \in AsksOf /\ d.pc = "ask" /\ d.of = u
    BY <2>1 DEF AsksOf
  <2>3. Enters(v, d) /\ u \in Known /\ UNCHANGED <<tool_accounts, sessions, unfinished, crossed_roles>>
    BY <1>8, <2>1 DEF request_password_reset
  <2> QED BY <1>6, <2>2, <2>3
<1>9. ASSUME NEW v \in Visits, NEW u \in Usernames, NEW p \in Passwords, NEW a \in Usernames,
             reset_account_password(v, a, u, p)
      PROVE  AccountInv'
  BY <1>7, <1>9 DEF reset_account_password
<1>10. ASSUME NEW v \in Visits, NEW u \in Usernames, NEW p \in Passwords, NEW c \in Passwords,
              change_own_password(v, u, c, p)
       PROVE  AccountInv'
  BY <1>7, <1>10 DEF change_own_password, _session
<1>11. ASSUME NEW v \in Visits, NEW a \in Usernames, NEW u \in Usernames, NEW role \in Roles,
              update_account_role(v, a, u, role)
       PROVE  AccountInv'
  BY <1>11, AssignStep
<1>12. ASSUME NEW v \in Visits, \/ InsertAccount(v) \/ _new_session(v) \/ WriteRole(v) \/ WritePassword(v)
                                \/ EndSessions(v) \/ VisitFails(v)
       PROVE  AccountInv'
  BY <1>12, InsertAccountStep, OpenStep, RoleStep, PasswordStep, EndStep, FailStep
<1>13. ASSUME NEW v \in Visits, NEW u \in Usernames, NEW p \in Passwords, register(v, u, p) \/ login(v, u, p)
       PROVE  AccountInv'
  BY <1>13, RegisterStep, SignInStep
<1> QED BY <1>2, <1>3, <1>4, <1>5, <1>8, <1>9, <1>10, <1>11, <1>12, <1>13 DEF AccountsNext, Roles

\* The accounts and sessions there are at first: nobody, or an administrator among them,
\* and every session opened with its account's password.
FirstAccounts(first, opened) ==
    /\ first \in [Usernames -> UserRows \cup {NoAccount}] /\ opened \subseteq Tokens
    /\ \A s \in opened : first[s.of] # NoAccount /\ first[s.of].password = s.password
    /\ (\E u \in Usernames : first[u] # NoAccount) => \E u \in Usernames : first[u] # NoAccount /\ first[u].role = "admin"

AccountsSpec(first, opened) == AccountsInit(first, opened) /\ [][AccountsNext]_account_vars

\* No token outlives a change of its account's password that was finished and did not
\* overlap the sign-in, and somebody stays an administrator, for any number of accounts,
\* requests and failures, from any accounts the workspace may begin with.
THEOREM SafeAccounts ==
  ASSUME NEW first, NEW opened, FirstAccounts(first, opened)
  PROVE  AccountsSpec(first, opened) => []AccountsAreSafe
<1>1. AccountsInit(first, opened) => AccountInv
  <2> SUFFICES ASSUME AccountsInit(first, opened) PROVE AccountInv
    OBVIOUS
  <2> USE DEF AccountsInit, FirstAccounts
  <2>1. AccountShapes
    BY DEF AccountShapes, Guests
  <2>2. Known = {u \in Usernames : first[u] # NoAccount} /\ Admins = {u \in Known : first[u].role = "admin"}
    BY DEF Known, Admins, _account_role
  <2>3. \A pc \in {"role", "register", "open", "end"} : Visiting(pc) = {}
    BY DEF Visiting, Nowhere
  <2>4. AccountsKnown
    BY <2>2 DEF AccountsKnown, Nowhere, Tokens
  <2>5. OpensCurrent
    BY <2>3 DEF OpensCurrent
  <2>6. TokensDieWithPasswords
    BY DEF TokensDieWithPasswords
  <2>7. RolesGuarded
    BY <2>2, <2>3 DEF RolesGuarded
  <2> QED BY <2>1, <2>4, <2>5, <2>6, <2>7 DEF AccountInv
<1>2. AccountInv => AccountsAreSafe
  <2> SUFFICES ASSUME AccountInv PROVE AnAdminStays
    BY DEF AccountsAreSafe, AccountInv
  <2> QED BY DEF AccountInv, RolesGuarded, AnAdminStays, Admins, Visiting
<1> QED BY <1>1, <1>2, AccountsInductive, PTL DEF AccountsSpec

-----------------------------------------------------------------------------
(* Gate passes. *)

RoleNames == {"hos", "hod", "security", "finance", "general_manager"}
Steps == [role : RoleNames, status : {"pending", "approved", "rejected"}, by : SUBSET Officers]
Signings == [pc : {"steps", "sign", "close"}, by : Officers, status : {"approved", "rejected"},
              current : Nat, all : BOOLEAN]
Makers == [pc : {"before", "items", "steps", "gone"}, left : SUBSET Movable]
Acting(g) == gate[g].pc \in {"sign", "close"}

PassShapes ==
    /\ gate_pass \in {"none", "pending", "approved", "rejected"}
    /\ unfit \subseteq Movable /\ pass_items \subseteq Movable
    /\ printed \in BOOLEAN /\ uneven \in BOOLEAN
    /\ steps \in Seq(Steps) /\ Len(steps) <= Len(roles)
    /\ \A k \in 1 .. Len(steps) : steps[k].role = roles[k]
    /\ maker \in Makers
    /\ gate \in [Gates -> Signings \cup {Gone}]
    /\ \A g \in Gates : Acting(g) => gate[g].current \in 1 .. Len(steps)

\* How far the request that makes the pass is.
MadeInOrder ==
    /\ maker.pc \in {"before", "items"} => steps = <<>>
    /\ maker.pc = "before" => gate_pass = "none" /\ ~printed
    /\ maker.pc = "items" => maker.left # {}
    /\ maker.pc = "steps" => pass_items # {} /\ Len(steps) < Len(roles)
    /\ maker.pc = "gone" /\ ~uneven => pass_items # {} /\ Len(steps) = Len(roles)

ApprovedPass(k) == steps[k].status = "approved"
AllApproved == \A k \in 1 .. Len(steps) : ApprovedPass(k)

\* Who decides a step is the only one to, may, and saw the others as they are.
SignedOnce ==
    ~uneven =>
        /\ \A g \in Gates : Acting(g) => maker.pc = "gone"
        /\ \A g, h \in Gates : Acting(g) /\ Acting(h) /\ gate[g].current = gate[h].current => g = h
        /\ \A g \in Gates : gate[g].pc = "sign" =>
              /\ steps[gate[g].current].status = "pending"
              /\ roles[gate[g].current] \in ApprovalRoles(gate[g].by)
              /\ gate[g].all => \A k \in 1 .. Len(steps) : k = gate[g].current \/ ApprovedPass(k)
        /\ \A g \in Gates : gate[g].pc = "close" /\ gate[g].status = "approved" => AllApproved
        /\ \A k \in 1 .. Len(steps) : ApprovedPass(k) => \E a \in steps[k].by : roles[k] \in ApprovalRoles(a)
        /\ gate_pass = "approved" \/ printed => maker.pc = "gone" /\ AllApproved

PassInv == PassShapes /\ MadeInOrder /\ SignedOnce

LEMMA DecisionFields ==
  ASSUME NEW d \in Signings \cup {Gone}
  PROVE  /\ d = Gone <=> d.pc = "gone"
         /\ d # Gone => /\ d \in Signings /\ d.pc \in {"steps", "sign", "close"} /\ d.by \in Officers
                        /\ d.status \in {"approved", "rejected"} /\ d.current \in Nat /\ d.all \in BOOLEAN
  BY DEF Signings, Gone

\* The movement asks for one signature at least.
LEMMA RolesOfKind == roles \in Seq(RoleNames) /\ Len(roles) \in 1 .. 5
<1>1. <<"hos">> \in Seq(RoleNames) /\ Len(<<"hos">>) = 1
  BY DEF RoleNames
<1>2. ASSUME NEW s \in Seq(RoleNames), Len(s) \in 0 .. 1
      PROVE  /\ <<"hos", "hod", "security">> \o s \o <<"general_manager">> \in Seq(RoleNames)
             /\ Len(<<"hos", "hod", "security">> \o s \o <<"general_manager">>) \in 1 .. 5
  <2>1. <<"hos", "hod", "security">> \in Seq(RoleNames) /\ Len(<<"hos", "hod", "security">>) = 3
        /\ <<"general_manager">> \in Seq(RoleNames) /\ Len(<<"general_manager">>) = 1
    BY DEF RoleNames
  <2>2. <<"hos", "hod", "security">> \o s \in Seq(RoleNames) /\ Len(<<"hos", "hod", "security">> \o s) \in 3 .. 4
    BY <1>2, <2>1, ConcatProperties, LenProperties
  <2> QED BY <2>1, <2>2, ConcatProperties
<1>3. PICK s : s = IF kind.finance THEN <<"finance">> ELSE <<>>
  OBVIOUS
<1>4. s \in Seq(RoleNames) /\ Len(s) \in 0 .. 1
  <2>1. <<"finance">> \in Seq(RoleNames) /\ Len(<<"finance">>) = 1 /\ <<>> \in Seq(RoleNames) /\ Len(<<>>) = 0
    BY DEF RoleNames
  <2>2. s = <<"finance">> \/ s = <<>>
    BY <1>3
  <2>3. s \in Seq(RoleNames) /\ (Len(s) = 1 \/ Len(s) = 0)
    BY <2>1, <2>2, Zenon
  <2>4. Len(s) \in 0 .. 1
    BY <2>3
  <2> QED BY <2>3, <2>4
<1>5. roles = IF kind.scope = "internal" THEN <<"hos">> ELSE <<"hos", "hod", "security">> \o s \o <<"general_manager">>
  BY <1>3 DEF roles
<1>6. CASE kind.scope = "internal"
  BY <1>1, <1>5, <1>6
<1>7. CASE kind.scope # "internal"
  BY <1>2, <1>4, <1>5, <1>7
<1> QED BY <1>6, <1>7

\* A list with a pending step has a first one.
LEMMA FirstPending ==
  ASSUME PassShapes, Pending(steps) # {}
  PROVE  /\ CurrentStep \in 1 .. Len(steps) /\ steps[CurrentStep].status = "pending"
         /\ steps[CurrentStep].role = roles[CurrentStep]
<1>1. Pending(steps) \subseteq 1 .. Len(steps) /\ Len(steps) \in Nat
  BY LenProperties DEF PassShapes, Pending
<1>2. Pending(steps) \subseteq 1 .. 5
  BY <1>1, RolesOfKind DEF PassShapes
<1>3. \E k \in Pending(steps) : \A o \in Pending(steps) : k <= o
  <2>1. ASSUME NEW S \in SUBSET (1 .. 5), S # {}
        PROVE  \E k \in S : \A o \in S : k <= o
    <3>1. CASE 1 \in S
      BY <3>1
    <3>2. CASE 1 \notin S /\ 2 \in S
      BY <3>2
    <3>3. CASE 1 \notin S /\ 2 \notin S /\ 3 \in S
      BY <3>3
    <3>4. CASE S \subseteq {4, 5} /\ 4 \in S
      BY <3>4
    <3>5. CASE S = {5}
      BY <3>5
    <3>6. \A x \in S : x = 1 \/ x = 2 \/ x = 3 \/ x = 4 \/ x = 5
      OBVIOUS
    <3>7. 1 \in S \/ 2 \in S \/ 3 \in S \/ 4 \in S \/ S = {5}
      BY <2>1, <3>6
    <3>8. 1 \notin S /\ 2 \notin S /\ 3 \notin S => S \subseteq {4, 5}
      BY <3>6
    <3> QED BY <3>1, <3>2, <3>3, <3>4, <3>5, <3>7, <3>8, Zenon
  <2> QED BY <1>2, <2>1
<1>4. CurrentStep \in Pending(steps)
  BY <1>3 DEF CurrentStep
<1> QED BY <1>1, <1>4 DEF Pending, PassShapes

\* A decision that reads what it asks for, or is given up, holds no more than it did.
LEMMA GateKeeps ==
  ASSUME PassInv, NEW g \in Gates, NEW d \in Signings \cup {Gone}, gate' = [gate EXCEPT ![g] = d],
         d.pc \in {"gone", "steps"},
         UNCHANGED <<unfit, gate_pass, kind, pass_items, steps, maker, printed, uneven>>
  PROVE  PassInv'
<1>1. \A h \in Gates : gate'[h] = IF h = g THEN d ELSE gate[h]
  BY DEF PassInv, PassShapes
<1>2. roles' = roles
  BY DEF roles
<1>3. \A h \in Gates : Acting(h)' => Acting(h) /\ gate'[h] = gate[h]
  BY <1>1 DEF Acting
<1>4. PassShapes'
  BY <1>2, <1>3 DEF PassInv, PassShapes
<1>5. MadeInOrder'
  BY <1>2 DEF PassInv, MadeInOrder
<1>6. AllApproved' = AllApproved /\ \A k : ApprovedPass(k)' = ApprovedPass(k)
  BY DEF AllApproved, ApprovedPass
<1>7. SignedOnce'
  <2>1. /\ \A h \in Gates : gate'[h].pc = "sign" => Acting(h) /\ gate'[h] = gate[h]
        /\ \A h \in Gates : gate'[h].pc = "close" => Acting(h) /\ gate'[h] = gate[h]
    BY <1>1, <1>3 DEF Acting
  <2> QED BY <1>2, <1>3, <1>6, <2>1 DEF PassInv, SignedOnce, ApprovedPass
<1> QED BY <1>4, <1>5, <1>7 DEF PassInv

\* Making the pass goes on before anybody acts on it.
LEMMA MakeStep ==
  ASSUME PassInv, \/ \E t \in Movable : ToolChanges(t) \/ InsertPassItem(t)
                  \/ \E selected \in SUBSET Movable : create_gate_pass(selected)
                  \/ MakingFails
  PROVE  PassInv'
<1>1. UNCHANGED <<kind, steps, gate, printed>>
  BY DEF ToolChanges, InsertPassItem, create_gate_pass, MakingFails
<1>2. roles' = roles
  BY <1>1 DEF roles
<1>3. maker.pc # "gone" /\ maker \in Makers
  BY DEF ToolChanges, InsertPassItem, create_gate_pass, MakingFails, PassInv, PassShapes, Makers
<1>4. PassShapes' /\ MadeInOrder'
  <2>1. ASSUME NEW t \in Movable, ToolChanges(t)
        PROVE  PassShapes' /\ MadeInOrder'
    <3>1. unfit' \subseteq Movable /\ UNCHANGED <<gate_pass, pass_items, maker, uneven>>
      BY <2>1 DEF ToolChanges, PassInv, PassShapes
    <3> QED BY <1>1, <1>2, <3>1 DEF PassInv, PassShapes, MadeInOrder, Acting
  <2>2. ASSUME NEW t \in Movable, InsertPassItem(t)
        PROVE  PassShapes' /\ MadeInOrder'
    <3>1. /\ maker.pc = "items" /\ t \in maker.left
          /\ pass_items' = pass_items \cup {t} /\ UNCHANGED <<unfit, gate_pass, uneven>>
          /\ maker' = [pc |-> IF maker.left = {t} THEN "steps" ELSE "items", left |-> maker.left \ {t}]
      BY <2>2 DEF InsertPassItem
    <3>2. /\ maker' \in Makers /\ maker'.pc = (IF maker.left = {t} THEN "steps" ELSE "items")
          /\ maker'.left = maker.left \ {t}
      BY <1>3, <3>1 DEF Makers
    <3>3. PassShapes'
      BY <1>1, <1>2, <2>2, <3>1, <3>2 DEF PassInv, PassShapes, Acting
    <3>4. Len(steps) = 0 /\ steps = <<>>
      BY <3>1 DEF PassInv, MadeInOrder
    <3>5. MadeInOrder'
      <4>1. CASE maker.left = {t}
        <5>0. Len(steps) < Len(roles)
          BY <3>4, RolesOfKind
        <5>1. maker'.pc = "steps" /\ t \in pass_items' /\ steps' = <<>> /\ Len(steps') < Len(roles')
          BY <1>1, <1>2, <3>1, <3>2, <3>4, <4>1, <5>0
        <5> QED BY <5>1 DEF MadeInOrder
      <4>2. CASE maker.left # {t}
        BY <1>1, <1>2, <3>1, <3>2, <3>4, <4>2 DEF MadeInOrder
      <4> QED BY <4>1, <4>2
    <3> QED BY <3>3, <3>5
  <2>3. ASSUME NEW selected \in SUBSET Movable, create_gate_pass(selected)
        PROVE  PassShapes' /\ MadeInOrder'
    <3>1. /\ maker.pc = "before" /\ selected # {} /\ gate_pass' = "pending"
          /\ maker' = [pc |-> "items", left |-> selected] /\ UNCHANGED <<unfit, pass_items, uneven>>
      BY <2>3 DEF create_gate_pass
    <3>2. maker' \in Makers /\ maker'.pc = "items" /\ maker'.left = selected
      BY <2>3, <3>1 DEF Makers
    <3> QED BY <1>1, <1>2, <3>1, <3>2 DEF PassInv, PassShapes, MadeInOrder, Acting
  <2>4. ASSUME MakingFails
        PROVE  PassShapes' /\ MadeInOrder'
    <3>1. /\ maker' = [maker EXCEPT !.pc = "gone"] /\ uneven' = TRUE /\ UNCHANGED <<unfit, gate_pass, pass_items>>
      BY <2>4 DEF MakingFails
    <3>2. maker' \in Makers /\ maker'.pc = "gone"
      BY <1>3, <3>1 DEF Makers
    <3> QED BY <1>1, <1>2, <3>1, <3>2 DEF PassInv, PassShapes, MadeInOrder, Acting
  <2> QED BY <2>1, <2>2, <2>3, <2>4
<1>5. SignedOnce'
  <2>1. (uneven => uneven') /\ (uneven \in BOOLEAN)
    BY DEF ToolChanges, InsertPassItem, create_gate_pass, MakingFails, PassInv, PassShapes
  <2>2. gate_pass' = gate_pass \/ gate_pass' = "pending"
    BY DEF ToolChanges, InsertPassItem, create_gate_pass, MakingFails
  <2>3. ~uneven => (\A g \in Gates : ~Acting(g)) /\ gate_pass # "approved" /\ ~printed
    BY <1>3 DEF PassInv, SignedOnce
  <2>4. ~uneven => \A k \in 1 .. Len(steps) : ApprovedPass(k) => \E a \in steps[k].by : roles[k] \in ApprovalRoles(a)
    BY DEF PassInv, SignedOnce
  <2>5. ~uneven' => /\ \A g \in Gates : ~Acting(g)' /\ gate'[g].pc # "sign" /\ gate'[g].pc # "close"
                    /\ gate_pass' # "approved" /\ ~printed'
                    /\ \A k \in 1 .. Len(steps') : ApprovedPass(k)' => \E a \in steps'[k].by : roles'[k] \in ApprovalRoles(a)
    BY <1>1, <1>2, <2>1, <2>2, <2>3, <2>4 DEF Acting, ApprovedPass
  <2> QED BY <2>5 DEF SignedOnce
<1> QED BY <1>4, <1>5 DEF PassInv

LEMMA AddStep ==
  ASSUME PassInv, InsertStep
  PROVE  PassInv'
<1> DEFINE n == Len(steps) + 1
           new == [role |-> roles[n], status |-> "pending", by |-> {}]
<1>1. /\ maker.pc = "steps" /\ steps' = Append(steps, new)
      /\ maker' = [maker EXCEPT !.pc = IF Len(steps') = Len(roles) THEN "gone" ELSE "steps"]
      /\ UNCHANGED <<unfit, gate_pass, kind, pass_items, gate, printed, uneven>>
  BY DEF InsertStep
<1>2. roles' = roles /\ roles \in Seq(RoleNames) /\ Len(roles) \in Nat
  BY <1>1, RolesOfKind, LenProperties DEF roles
<1>3. steps \in Seq(Steps) /\ Len(steps) \in Nat /\ Len(steps) < Len(roles)
  BY <1>1, LenProperties DEF PassInv, PassShapes, MadeInOrder
<1>4. new \in Steps /\ new.role = roles[n] /\ new.status = "pending"
  BY <1>2, <1>3, ElementOfSeq DEF Steps
<1> HIDE DEF new
<1>5. /\ steps' \in Seq(Steps) /\ Len(steps') = n /\ n \in Nat /\ n <= Len(roles)
      /\ \A k \in 1 .. Len(steps) : steps'[k] = steps[k]
      /\ steps'[n] = new /\ steps' # <<>>
  BY <1>1, <1>2, <1>3, <1>4, AppendProperties
<1>6. maker' \in Makers /\ maker'.pc = IF n = Len(roles) THEN "gone" ELSE "steps"
  <2>1. maker \in Makers
    BY DEF PassInv, PassShapes
  <2>2. PICK x \in {"gone", "steps"} : x = IF Len(steps') = Len(roles) THEN "gone" ELSE "steps"
    OBVIOUS
  <2>3. maker' = [maker EXCEPT !.pc = x]
    BY <1>1, <2>2
  <2>4. maker' \in Makers /\ maker'.pc = x
    BY <2>1, <2>3 DEF Makers
  <2> QED BY <1>5, <2>2, <2>4
<1>7. PassShapes'
  <2>1. \A k \in 1 .. Len(steps') : steps'[k].role = roles'[k]
    BY <1>2, <1>3, <1>4, <1>5 DEF PassInv, PassShapes
  <2>2. \A g \in Gates : Acting(g)' => gate'[g].current \in 1 .. Len(steps')
    BY <1>1, <1>3, <1>5 DEF PassInv, PassShapes, Acting
  <2> QED BY <1>1, <1>2, <1>5, <1>6, <2>1, <2>2 DEF PassInv, PassShapes
<1>8. MadeInOrder'
  <2>1. pass_items' # {}
    BY <1>1 DEF PassInv, MadeInOrder
  <2>2. maker'.pc \notin {"before", "items"}
    BY <1>6
  <2>3. maker'.pc = "steps" => Len(steps') < Len(roles')
    BY <1>2, <1>5, <1>6
  <2>4. maker'.pc = "gone" => Len(steps') = Len(roles')
    BY <1>2, <1>5, <1>6
  <2> QED BY <2>1, <2>2, <2>3, <2>4 DEF MadeInOrder
<1>9. SignedOnce'
  <2>1. ~uneven => (\A g \in Gates : ~Acting(g)) /\ gate_pass # "approved" /\ ~printed
    BY <1>1 DEF PassInv, SignedOnce
  <2>2. ~uneven => \A k \in 1 .. Len(steps') : ApprovedPass(k)' => \E a \in steps'[k].by : roles'[k] \in ApprovalRoles(a)
    BY <1>2, <1>3, <1>4, <1>5 DEF PassInv, SignedOnce, ApprovedPass
  <2>3. ~uneven' => /\ \A g \in Gates : ~Acting(g)' /\ gate'[g].pc # "sign" /\ gate'[g].pc # "close"
                    /\ gate_pass' # "approved" /\ ~printed'
                    /\ \A k \in 1 .. Len(steps') : ApprovedPass(k)' => \E a \in steps'[k].by : roles'[k] \in ApprovalRoles(a)
    BY <1>1, <2>1, <2>2 DEF Acting
  <2> QED BY <2>3 DEF SignedOnce
<1> QED BY <1>7, <1>8, <1>9 DEF PassInv

\* What a decision reads: the first pending step, which is its own unless something was uneven.
LEMMA ReadStep ==
  ASSUME PassInv, NEW g \in Gates, ReadSteps(g)
  PROVE  PassInv'
<1> DEFINE k == CurrentStep
           c == gate[g]
<1>1. c.pc = "steps" /\ c \in Signings
  BY DecisionFields DEF ReadSteps, PassInv, PassShapes
<1>2. UNCHANGED <<unfit, gate_pass, kind, pass_items, steps, maker, printed>> /\ roles' = roles
  BY DEF ReadSteps, roles
<1>3. CASE Pending(steps) = {} \/ steps[CurrentStep].role \notin ApprovalRoles(gate[g].by)
  <2>1. gate' = [gate EXCEPT ![g] = Gone] /\ UNCHANGED uneven
    BY <1>3 DEF ReadSteps
  <2> QED BY <1>2, <2>1, GateKeeps DEF Gone
<1>4. CASE ~(Pending(steps) = {} \/ steps[CurrentStep].role \notin ApprovalRoles(gate[g].by))
  <2>1. PICK all \in BOOLEAN : /\ all <=> AllSigned(steps, k)
                               /\ gate' = [gate EXCEPT ![g] = [c EXCEPT !.pc = "sign", !.current = k, !.all = all]]
    BY <1>4 DEF ReadSteps, AllSigned
  <2>2. uneven' = (uneven \/ maker.pc # "gone"
                   \/ \E o \in Gates \ {g} : gate[o].pc \in {"sign", "close"} /\ gate[o].current = k)
    BY <1>4 DEF ReadSteps
  <2>3. k \in 1 .. Len(steps) /\ k \in Nat /\ steps[k].status = "pending" /\ steps[k].role = roles[k]
        /\ roles[k] \in ApprovalRoles(c.by)
    BY <1>4, FirstPending DEF PassInv
  <2> DEFINE d == [c EXCEPT !.pc = "sign", !.current = k, !.all = all]
  <2>4. d \in Signings /\ d.pc = "sign" /\ d.by = c.by /\ d.current = k /\ d.all = all
    BY <1>1, <2>3 DEF Signings
  <2> HIDE DEF d, k, c
  <2>5. \A h \in Gates : gate'[h] = IF h = g THEN d ELSE gate[h]
    BY <2>1 DEF PassInv, PassShapes, d
  <2>6. \A h \in Gates : Acting(h)' => h = g \/ (Acting(h) /\ gate'[h] = gate[h])
    BY <2>5 DEF Acting
  <2>7. PassShapes'
    <3>1. gate' \in [Gates -> Signings \cup {Gone}]
      BY <2>1, <2>4 DEF PassInv, PassShapes, d
    <3>2. uneven' \in BOOLEAN
      BY <2>2
    <3>3. \A h \in Gates : Acting(h)' => gate'[h].current \in 1 .. Len(steps')
      BY <1>2, <2>3, <2>4, <2>5, <2>6 DEF PassInv, PassShapes
    <3> QED BY <1>2, <3>1, <3>2, <3>3 DEF PassInv, PassShapes
  <2>8. MadeInOrder'
    BY <1>2, <2>2 DEF PassInv, PassShapes, MadeInOrder
  <2>9. SignedOnce'
    <3> SUFFICES ASSUME ~uneven' PROVE SignedOnce'
      BY DEF SignedOnce
    <3>1. ~uneven /\ maker.pc = "gone" /\ \A o \in Gates \ {g} : Acting(o) => gate[o].current # k
      BY <2>2 DEF Acting
    <3>2. AllApproved' = AllApproved /\ \A j : ApprovedPass(j)' = ApprovedPass(j)
      BY <1>2 DEF AllApproved, ApprovedPass
    <3>3. d.all => \A j \in 1 .. Len(steps) : j = d.current \/ ApprovedPass(j)
      <4>1. DOMAIN steps = 1 .. Len(steps)
        BY LenProperties DEF PassInv, PassShapes
      <4> QED BY <2>1, <2>4, <4>1 DEF AllSigned, ApprovedPass
    <3>4. \A h, o \in Gates : Acting(h)' /\ Acting(o)' /\ gate'[h].current = gate'[o].current => h = o
      BY <2>4, <2>5, <2>6, <3>1 DEF PassInv, SignedOnce
    <3>5. \A h \in Gates : gate'[h].pc = "sign" =>
              /\ steps'[gate'[h].current].status = "pending"
              /\ roles'[gate'[h].current] \in ApprovalRoles(gate'[h].by)
              /\ gate'[h].all => \A j \in 1 .. Len(steps') : j = gate'[h].current \/ ApprovedPass(j)'
      BY <1>2, <2>3, <2>4, <2>5, <3>1, <3>2, <3>3 DEF PassInv, SignedOnce
    <3>6. \A h \in Gates : gate'[h].pc = "close" /\ gate'[h].status = "approved" => AllApproved'
      BY <2>4, <2>5, <3>1, <3>2 DEF PassInv, SignedOnce
    <3> QED BY <1>2, <3>1, <3>2, <3>4, <3>5, <3>6 DEF PassInv, SignedOnce
  <2> QED BY <2>7, <2>8, <2>9 DEF PassInv
<1> QED BY <1>3, <1>4

\* A signature: of the one request that decides the step, which was pending till now.
LEMMA SignatureStep ==
  ASSUME PassInv, NEW g \in Gates, SignStep(g)
  PROVE  PassInv'
<1> DEFINE c == gate[g]
           k == c.current
           new == [steps[k] EXCEPT !.status = c.status, !.by = {c.by}]
           d == IF c.status = "rejected" \/ c.all THEN [c EXCEPT !.pc = "close"] ELSE Gone
<1>1. c.pc = "sign" /\ c \in Signings /\ Acting(g) /\ k \in 1 .. Len(steps) /\ c.by \in Officers
      /\ c.status \in {"approved", "rejected"} /\ c.all \in BOOLEAN
  BY DecisionFields DEF SignStep, PassInv, PassShapes, Acting
<1>2. /\ steps' = [steps EXCEPT ![k] = new] /\ gate' = [gate EXCEPT ![g] = d]
      /\ UNCHANGED <<unfit, gate_pass, kind, pass_items, maker, printed, uneven>> /\ roles' = roles
  BY DEF SignStep, roles
<1>3. steps \in Seq(Steps) /\ steps[k] \in Steps /\ steps[k].role = roles[k]
  BY <1>1, ElementOfSeq DEF PassInv, PassShapes
<1>4. new \in Steps /\ new.role = roles[k] /\ new.status = c.status /\ new.by = {c.by}
  BY <1>1, <1>3 DEF Steps
<1>5. [c EXCEPT !.pc = "close"] \in Signings /\ [c EXCEPT !.pc = "close"].pc = "close"
      /\ [c EXCEPT !.pc = "close"].current = k /\ [c EXCEPT !.pc = "close"].status = c.status
  BY <1>1 DEF Signings
<1>6. /\ d \in Signings \cup {Gone} /\ (d # Gone => d.pc = "close" /\ d.current = k /\ d.status = c.status)
      /\ d # Gone => c.status = "rejected" \/ c.all
  <2>1. PICK y \in Signings : y = [c EXCEPT !.pc = "close"] /\ y.pc = "close" /\ y.current = k /\ y.status = c.status
    BY <1>5
  <2>2. (d = y /\ (c.status = "rejected" \/ c.all)) \/ d = Gone
    BY <2>1
  <2> HIDE DEF c, k, d
  <2> QED BY <2>1, <2>2
<1>7. d.pc \in {"close", "gone"} /\ (d.pc = "gone" <=> d = Gone)
  BY <1>6, DecisionFields
<1>8. gate' \in [Gates -> Signings \cup {Gone}] /\ \A h \in Gates : gate'[h] = IF h = g THEN d ELSE gate[h]
  BY <1>2, <1>6 DEF PassInv, PassShapes
<1> HIDE DEF new, d, c
<1>9. steps' \in Seq(Steps) /\ Len(steps') = Len(steps) /\ \A j \in 1 .. Len(steps) : steps'[j] = IF j = k THEN new ELSE steps[j]
  BY <1>1, <1>2, <1>3, <1>4, ExceptSeq
<1>10. \A h \in Gates : Acting(h)' => Acting(h) /\ gate'[h].current = gate[h].current
  BY <1>1, <1>6, <1>7, <1>8 DEF Acting, c
<1>11. PassShapes'
  <2>1. \A j \in 1 .. Len(steps') : steps'[j].role = roles'[j]
    BY <1>2, <1>4, <1>9 DEF PassInv, PassShapes
  <2> QED BY <1>2, <1>8, <1>9, <1>10, <2>1 DEF PassInv, PassShapes
<1>12. MadeInOrder'
  <2>1. steps # <<>>
    BY <1>1, <1>3
  <2>2. maker.pc \notin {"before", "items"}
    BY <2>1 DEF PassInv, MadeInOrder
  <2> QED BY <1>2, <1>9, <2>2 DEF PassInv, MadeInOrder
<1>13. SignedOnce'
  <2> SUFFICES ASSUME ~uneven PROVE SignedOnce'
    BY <1>2 DEF SignedOnce
  <2>1. /\ \A h \in Gates : Acting(h) => maker.pc = "gone"
        /\ \A h, o \in Gates : Acting(h) /\ Acting(o) /\ gate[h].current = gate[o].current => h = o
        /\ \A h \in Gates : gate[h].pc = "sign" =>
              /\ steps[gate[h].current].status = "pending"
              /\ roles[gate[h].current] \in ApprovalRoles(gate[h].by)
              /\ gate[h].all => \A j \in 1 .. Len(steps) : j = gate[h].current \/ ApprovedPass(j)
        /\ \A h \in Gates : gate[h].pc = "close" /\ gate[h].status = "approved" => AllApproved
        /\ \A j \in 1 .. Len(steps) : ApprovedPass(j) => \E a \in steps[j].by : roles[j] \in ApprovalRoles(a)
        /\ gate_pass = "approved" \/ printed => maker.pc = "gone" /\ AllApproved
    BY DEF PassInv, SignedOnce
  <2>2. steps[k].status = "pending" /\ ~ApprovedPass(k) /\ ~AllApproved /\ roles[k] \in ApprovalRoles(c.by)
    BY <1>1, <2>1 DEF ApprovedPass, AllApproved, c
  <2>3. \A j \in 1 .. Len(steps) : j # k => (ApprovedPass(j)' <=> ApprovedPass(j))
    BY <1>9 DEF ApprovedPass
  <2>4. c.status = "approved" /\ c.all => AllApproved'
    <3>1. c.all => \A j \in 1 .. Len(steps) : j = k \/ ApprovedPass(j)
      BY <1>1, <2>1 DEF c
    <3> QED BY <1>1, <1>4, <1>9, <2>3, <3>1 DEF AllApproved, ApprovedPass
  <2>5. \A h \in Gates : gate'[h].pc = "sign" => h # g /\ gate'[h] = gate[h] /\ Acting(h) /\ gate[h].current # k
    <3>1. \A h \in Gates : gate'[h].pc = "sign" => h # g /\ gate'[h] = gate[h] /\ Acting(h)
      BY <1>7, <1>8 DEF Acting
    <3> QED BY <1>1, <2>1, <3>1 DEF c
  <2>6. \A h \in Gates : gate'[h].pc = "sign" =>
              /\ steps'[gate'[h].current].status = "pending"
              /\ roles'[gate'[h].current] \in ApprovalRoles(gate'[h].by)
              /\ gate'[h].all => \A j \in 1 .. Len(steps') : j = gate'[h].current \/ ApprovedPass(j)'
    <3> SUFFICES ASSUME NEW h \in Gates, gate'[h].pc = "sign"
                 PROVE  /\ steps'[gate[h].current].status = "pending"
                        /\ roles[gate[h].current] \in ApprovalRoles(gate[h].by)
                        /\ ~gate[h].all
      BY <1>2, <2>5
    <3>1. gate[h].pc = "sign" /\ gate[h].current \in 1 .. Len(steps) /\ gate[h].current # k
      BY <2>5 DEF PassInv, PassShapes
    <3> QED BY <1>1, <1>9, <2>1, <2>2, <3>1
  <2>7. \A h \in Gates : gate'[h].pc = "close" /\ gate'[h].status = "approved" => AllApproved'
    <3>1. ASSUME NEW h \in Gates, h # g, gate'[h].pc = "close", gate'[h].status = "approved"
          PROVE  FALSE
      BY <1>8, <2>1, <2>2, <3>1
    <3>2. d.pc = "close" /\ d.status = "approved" => AllApproved'
      BY <1>6, <1>7, <2>4
    <3> QED BY <1>8, <3>1, <3>2
  <2>8. \A j \in 1 .. Len(steps') : ApprovedPass(j)' => \E a \in steps'[j].by : roles'[j] \in ApprovalRoles(a)
    <3> SUFFICES ASSUME NEW j \in 1 .. Len(steps), ApprovedPass(j)' PROVE \E a \in steps'[j].by : roles[j] \in ApprovalRoles(a)
      BY <1>2, <1>9
    <3>1. CASE j = k
      <4>1. steps'[j].by = {c.by}
        BY <1>4, <1>9, <3>1
      <4> QED BY <2>2, <3>1, <4>1
    <3>2. CASE j # k
      <4>1. steps'[j] = steps[j] /\ ApprovedPass(j)
        BY <1>9, <2>3, <3>2
      <4> QED BY <2>1, <4>1
    <3> QED BY <3>1, <3>2
  <2>9. gate_pass' # "approved" /\ ~printed'
    BY <1>2, <2>1, <2>2
  <2>10. (\A h \in Gates : Acting(h)' => maker'.pc = "gone")
         /\ \A h, o \in Gates : Acting(h)' /\ Acting(o)' /\ gate'[h].current = gate'[o].current => h = o
    BY <1>2, <1>10, <2>1
  <2> QED BY <2>6, <2>7, <2>8, <2>9, <2>10 DEF SignedOnce
<1> QED BY <1>11, <1>12, <1>13 DEF PassInv

LEMMA CloseStep ==
  ASSUME PassInv, NEW g \in Gates, ClosePass(g)
  PROVE  PassInv'
<1>1. gate[g].pc = "close" /\ gate[g] \in Signings /\ Acting(g) /\ gate[g].status \in {"approved", "rejected"}
  BY DecisionFields DEF ClosePass, PassInv, PassShapes, Acting
<1>2. /\ gate_pass' = gate[g].status /\ gate' = [gate EXCEPT ![g] = Gone] /\ roles' = roles
      /\ UNCHANGED <<unfit, kind, pass_items, steps, maker, printed, uneven>>
  BY DEF ClosePass, roles
<1>3. \A h \in Gates : gate'[h] = IF h = g THEN Gone ELSE gate[h]
  BY <1>2 DEF PassInv, PassShapes
<1>4. \A h \in Gates : Acting(h)' => Acting(h) /\ gate'[h] = gate[h]
  BY <1>3 DEF Acting, Gone
<1>5. PassShapes'
  BY <1>1, <1>2, <1>4 DEF PassInv, PassShapes
<1>6. MadeInOrder'
  <2>1. maker.pc # "before"
    <3>1. maker.pc = "before" => Len(steps) = 0
      BY DEF PassInv, MadeInOrder
    <3>2. gate[g].current \in 1 .. Len(steps)
      BY <1>1 DEF PassInv, PassShapes
    <3> QED BY <3>1, <3>2
  <2> QED BY <1>2, <2>1 DEF PassInv, MadeInOrder
<1>7. SignedOnce'
  <2>1. AllApproved' = AllApproved /\ \A j : ApprovedPass(j)' = ApprovedPass(j)
    BY <1>2 DEF AllApproved, ApprovedPass
  <2>2. /\ \A h \in Gates : gate'[h].pc = "sign" => gate'[h] = gate[h]
        /\ \A h \in Gates : gate'[h].pc = "close" => gate'[h] = gate[h]
    BY <1>3 DEF Gone
  <2>3. ~uneven /\ (gate_pass' = "approved" \/ printed') => maker.pc = "gone" /\ AllApproved
    BY <1>1, <1>2 DEF PassInv, SignedOnce
  <2> QED BY <1>2, <1>4, <2>1, <2>2, <2>3 DEF PassInv, SignedOnce, ApprovedPass
<1> QED BY <1>5, <1>6, <1>7 DEF PassInv

LEMMA PassInductive == PassInv /\ [PassNext]_pass_vars => PassInv'
<1> SUFFICES ASSUME PassInv, [PassNext]_pass_vars PROVE PassInv'
  OBVIOUS
<1>1. CASE UNCHANGED pass_vars
  <2>1. UNCHANGED <<unfit, gate_pass, kind, pass_items, steps, maker, gate, printed, uneven>> /\ roles' = roles
    BY <1>1 DEF pass_vars, roles
  <2> QED BY <2>1 DEF PassInv, PassShapes, MadeInOrder, SignedOnce, Acting, ApprovedPass, AllApproved
<1>2. CASE gate_pass_pdf
  <2>1. /\ gate_pass = "approved" /\ printed' = TRUE /\ roles' = roles
        /\ UNCHANGED <<unfit, gate_pass, kind, pass_items, steps, maker, gate, uneven>>
    BY <1>2 DEF gate_pass_pdf, roles
  <2>2. PassShapes' /\ MadeInOrder'
    BY <2>1 DEF PassInv, PassShapes, MadeInOrder, Acting
  <2>3. SignedOnce'
    BY <2>1 DEF PassInv, SignedOnce, Acting, ApprovedPass, AllApproved
  <2> QED BY <2>2, <2>3 DEF PassInv
<1>3. ASSUME NEW g \in Gates, DecisionFails(g)
      PROVE  PassInv'
  BY <1>3, GateKeeps DEF DecisionFails, Gone
<1>4. ASSUME NEW g \in Gates, NEW a \in Officers, NEW x \in {"approved", "rejected"}, decide_gate_pass(g, a, x)
      PROVE  PassInv'
  <2>1. PICK d : d = [pc |-> "steps", by |-> a, status |-> x, current |-> 0, all |-> FALSE]
    OBVIOUS
  <2>2. d \in Signings /\ d.pc = "steps"
    BY <2>1 DEF Signings
  <2>3. gate' = [gate EXCEPT ![g] = d] /\ UNCHANGED <<unfit, gate_pass, kind, pass_items, steps, maker, printed, uneven>>
    BY <1>4, <2>1 DEF decide_gate_pass
  <2> QED BY <2>2, <2>3, GateKeeps
<1>5. ASSUME NEW t \in Movable, ToolChanges(t) \/ InsertPassItem(t)
      PROVE  PassInv'
  BY <1>5, MakeStep
<1>6. ASSUME NEW selected \in SUBSET Movable, create_gate_pass(selected)
      PROVE  PassInv'
  BY <1>6, MakeStep
<1> QED BY <1>1, <1>2, <1>3, <1>4, <1>5, <1>6, MakeStep, AddStep, ReadStep, SignatureStep, CloseStep DEF PassNext

PassSpec == PassInit /\ [][PassNext]_pass_vars

\* For any tools, officers, roles, requests and failures: a pass made whole, with no step
\* decided by two requests at once, is approved or printed only when every role its
\* movement asks for was signed for by somebody who holds it.
THEOREM SignedPasses == PassSpec => []PassesAreSigned
<1>1. PassInit => PassInv
  <2> SUFFICES ASSUME PassInit PROVE PassInv
    OBVIOUS
  <2>1. maker \in Makers /\ maker.pc = "before"
    BY DEF PassInit, Makers
  <2>2. steps = <<>> /\ Len(steps) = 0 /\ steps \in Seq(Steps)
    BY DEF PassInit
  <2>3. PassShapes
    <3>1. Len(steps) <= Len(roles) /\ 1 .. Len(steps) = {}
      BY <2>2, RolesOfKind
    <3>2. \A g \in Gates : ~Acting(g)
      BY DEF PassInit, Acting, Gone
    <3> QED BY <2>1, <2>2, <3>1, <3>2 DEF PassInit, PassShapes
  <2>4. MadeInOrder
    BY <2>1, <2>2 DEF PassInit, MadeInOrder
  <2>5. SignedOnce
    BY <2>1, <2>2 DEF PassInit, SignedOnce, Acting, Gone
  <2> QED BY <2>3, <2>4, <2>5 DEF PassInv
<1>2. PassInv => PassesAreSigned
  <2> SUFFICES ASSUME PassInv, ~uneven, printed \/ gate_pass = "approved"
               PROVE  /\ Len(steps) = Len(roles) /\ pass_items # {}
                      /\ \A k \in DOMAIN steps :
                            /\ steps[k].status = "approved"
                            /\ \E a \in steps[k].by : roles[k] \in ApprovalRoles(a)
    BY DEF PassesAreSigned
  <2>1. maker.pc = "gone" /\ AllApproved
    BY DEF PassInv, SignedOnce
  <2>2. DOMAIN steps = 1 .. Len(steps)
    BY LenProperties DEF PassInv, PassShapes
  <2>3. \A k \in 1 .. Len(steps) : ApprovedPass(k) => \E a \in steps[k].by : roles[k] \in ApprovalRoles(a)
    BY DEF PassInv, SignedOnce
  <2> QED BY <2>1, <2>2, <2>3 DEF PassInv, MadeInOrder, AllApproved, ApprovedPass
<1> QED BY <1>1, <1>2, PassInductive, PTL DEF PassSpec

-----------------------------------------------------------------------------
(* The monthly check of a set. *)

Entries == [piece : Contents, state : FoundStates]
CheckCalls == [pc : {"rest", "open", "items", "cases", "done"}, list : Seq(Entries), left : Seq(Entries)]
Submitting(c) == checker[c].pc \in {"items", "cases", "done"}
SomeItem == \E p \in Contents : items[p] = 1

CheckShapes ==
    /\ contents \subseteq Contents /\ Contents \ Loose \subseteq contents
    /\ check \in {"none", "open", "submitted"} /\ check_torn \in BOOLEAN
    /\ items \in [Contents -> Nat]
    /\ open_cases \in [Contents -> [Cases -> Nat]]
    /\ checker \in [Checkers -> CheckCalls]
    /\ \A c \in Checkers : checker[c].pc = "rest" => checker[c] = Resting

\* An incident is raised only when none of its type is open for its piece.
CasesOnce == \A p \in Contents : \A type \in Cases : open_cases[p][type] <= 1

\* One submission at a time, while the check is open.
OneSubmission ==
    /\ \A c, o \in Checkers : (Submitting(c) /\ Submitting(o)) => c = o
    /\ \A c \in Checkers : Submitting(c) => check = "open"

\* It has no row of a piece it has still to write, and writes at least one.
ItemsWritten ==
    /\ \A p \in Contents : items[p] <= 1
    /\ (check # "submitted" /\ \A c \in Checkers : ~Submitting(c)) => \A p \in Contents : items[p] = 0
    /\ check = "submitted" => SomeItem
    /\ \A c \in Checkers : checker[c].pc \in {"cases", "done"} => SomeItem
ItemsToCome ==
    \A c \in Checkers : checker[c].pc = "items" =>
        /\ \A j, k \in 1 .. Len(checker[c].left) : checker[c].left[j].piece = checker[c].left[k].piece => j = k
        /\ \A k \in 1 .. Len(checker[c].left) : items[checker[c].left[k].piece] = 0
        /\ checker[c].left # <<>> \/ SomeItem

CheckInv ==
    /\ CheckShapes /\ CasesOnce
    /\ ~check_torn => (OneSubmission /\ ItemsWritten /\ ItemsToCome)

\* SetToSeq lists a finite set.
LEMMA ListsOfASet ==
    ASSUME NEW S, IsFiniteSet(S)
    PROVE  SetToSeq(S) \in [1 .. Cardinality(S) -> S] /\ Cardinality(S) \in Nat
<1>1. Cardinality(S) \in Nat /\ ExistsBijection(1 .. Cardinality(S), S)
  BY FS_CardinalityType
<1>2. \E f \in [1 .. Cardinality(S) -> S] : IsInjective(f)
  BY <1>1 DEF ExistsBijection, Bijection, Injection
<1> QED BY <1>1, <1>2 DEF SetToSeq

\* What a form may submit is a list of entries.
LEMMA ChecklistsAreLists ==
    ASSUME contents \subseteq Contents, NEW list \in Checklists
    PROVE  list \in Seq(Entries)
<1>1. IsFiniteSet(contents)
  BY ContentsAssumption, FS_Subset
<1>2. SetToSeq(contents) \in [1 .. Cardinality(contents) -> contents] /\ Cardinality(contents) \in Nat
  BY <1>1, ListsOfASet
<1>3. PICK found \in [contents -> FoundStates] :
          list = [k \in DOMAIN SetToSeq(contents) |-> [piece |-> SetToSeq(contents)[k], state |-> found[SetToSeq(contents)[k]]]]
  BY DEF Checklists
<1>4. DOMAIN SetToSeq(contents) = 1 .. Cardinality(contents)
  BY <1>2
<1>5. \A k \in 1 .. Cardinality(contents) :
          [piece |-> SetToSeq(contents)[k], state |-> found[SetToSeq(contents)[k]]] \in Entries
  BY <1>2, <1>3 DEF Entries
<1>6. list \in [1 .. Cardinality(contents) -> Entries]
  BY <1>3, <1>4, <1>5
<1> QED BY <1>2, <1>6 DEF Seq

\* A request moves on, and nothing else of the check does.
LEMMA CheckerMoves ==
    ASSUME CheckInv, NEW c \in Checkers, NEW next \in CheckCalls,
           checker' = [checker EXCEPT ![c] = next],
           next.pc = "rest" => next = Resting,
           UNCHANGED <<contents, items, open_cases>>,
           check' = check \/ (check = "none" /\ check' = "open"),
           check_torn' \in BOOLEAN, ~check_torn' => ~check_torn,
           ~check_torn' => \/ ~Submitting(c) /\ next.pc \notin {"items", "cases", "done"}
                           \/ checker[c].pc = "items" /\ checker[c].left = <<>> /\ next.pc = "cases"
                           \/ checker[c].pc = "cases" /\ next.pc \in {"cases", "done"}
    PROVE  CheckInv'
<1> USE DEF CheckInv
<1>1. /\ checker'[c] = next
      /\ \A o \in Checkers \ {c} : checker'[o] = checker[o]
      /\ checker' \in [Checkers -> CheckCalls]
  BY DEF CheckShapes
<1>2. CheckShapes' /\ CasesOnce'
  BY <1>1 DEF CheckShapes, CasesOnce
<1>3. SUFFICES ASSUME ~check_torn'
               PROVE  OneSubmission' /\ ItemsWritten' /\ ItemsToCome'
  BY <1>2
<1>4. OneSubmission /\ ItemsWritten /\ ItemsToCome
  BY <1>3
<1>5. \A o \in Checkers : Submitting(o)' <=> Submitting(o)
  BY <1>1, <1>3 DEF Submitting
<1>6. OneSubmission'
  BY <1>4, <1>5 DEF OneSubmission
<1>7. checker[c].pc = "items" => SomeItem \/ checker[c].left # <<>>
  BY <1>4 DEF ItemsToCome
<1>8. \A o \in Checkers : checker'[o].pc \in {"cases", "done"} => SomeItem
  BY <1>1, <1>3, <1>4, <1>7 DEF ItemsWritten, Submitting
<1>9. SomeItem' <=> SomeItem
  BY DEF SomeItem
<1>10. ItemsWritten'
  BY <1>4, <1>5, <1>8, <1>9 DEF ItemsWritten
<1>11. ItemsToCome'
  <2>1. \A o \in Checkers : checker'[o].pc = "items" => o # c
    BY <1>1, <1>3 DEF Submitting
  <2> QED BY <1>1, <1>4, <1>9, <2>1 DEF ItemsToCome
<1> QED BY <1>6, <1>10, <1>11

\* The contents and the incidents play no part in what is written.
LEMMA ContentsMove ==
    ASSUME CheckInv, contents' \subseteq Contents, Contents \ Loose \subseteq contents',
           open_cases' \in [Contents -> [Cases -> Nat]], CasesOnce',
           UNCHANGED <<check, check_torn, items, checker>>
    PROVE  CheckInv'
BY DEF CheckInv, CheckShapes, OneSubmission, ItemsWritten, ItemsToCome, Submitting, SomeItem

\* One more open incident where there was none, or one less.
LEMMA CaseMoves ==
    ASSUME CheckInv, NEW p \in Contents, NEW type \in Cases, NEW n \in 0 .. 1,
           open_cases' = [open_cases EXCEPT ![p][type] = n]
    PROVE  open_cases' \in [Contents -> [Cases -> Nat]] /\ CasesOnce'
<1>1. open_cases \in [Contents -> [Cases -> Nat]]
  BY DEF CheckInv, CheckShapes
<1>2. open_cases' = [open_cases EXCEPT ![p] = [open_cases[p] EXCEPT ![type] = n]]
  BY <1>1
<1>3. [open_cases[p] EXCEPT ![type] = n] \in [Cases -> Nat]
  BY <1>1
<1>4. open_cases' \in [Contents -> [Cases -> Nat]]
  BY <1>1, <1>2, <1>3
<1>5. \A q \in Contents : \A t \in Cases : open_cases'[q][t] = IF q = p /\ t = type THEN n ELSE open_cases[q][t]
  BY <1>1, <1>2
<1>6. CasesOnce'
  BY <1>5 DEF CheckInv, CasesOnce
<1> QED BY <1>4, <1>6

\* One row is written: of the piece that is next.
LEMMA InsertItemStep ==
    ASSUME CheckInv, NEW c \in Checkers, InsertItem(c)
    PROVE  CheckInv'
<1> USE DEF CheckInv
<1>1. checker[c] \in CheckCalls /\ checker[c].pc = "items"
  BY DEF InsertItem, CheckShapes
<1>2. CASE checker[c].left = <<>>
  <2>1. PICK next : next = [checker[c] EXCEPT !.pc = "cases", !.left = checker[c].list]
    OBVIOUS
  <2>2. next \in CheckCalls /\ next.pc = "cases"
    BY <1>1, <2>1 DEF CheckCalls
  <2>3. checker' = [checker EXCEPT ![c] = next] /\ UNCHANGED <<contents, items, open_cases, check, check_torn>>
    BY <1>2, <2>1 DEF InsertItem, Turns
  <2>4. check_torn' \in BOOLEAN
    BY <2>3 DEF CheckShapes
  <2> QED BY <1>1, <1>2, <2>2, <2>3, <2>4, CheckerMoves
<1>3. CASE checker[c].left # <<>>
  <2>1. PICK next : next = [checker[c] EXCEPT !.left = Tail(checker[c].left)]
    OBVIOUS
  <2>2. checker[c].left \in Seq(Entries)
    BY <1>1 DEF CheckCalls
  <2>3. PICK left \in Seq(Entries) : left = checker[c].left
    BY <2>2
  <2>4. /\ Head(left) \in Entries /\ Tail(left) \in Seq(Entries) /\ Len(left) \in Nat \ {0}
        /\ Len(Tail(left)) = Len(left) - 1 /\ \A k \in 1 .. Len(Tail(left)) : Tail(left)[k] = left[k + 1]
        /\ Head(left) = left[1]
    BY <1>3, <2>3, HeadTailProperties, EmptySeq, LenProperties
  <2>5. PICK p \in Contents : p = left[1].piece
    BY <2>4 DEF Entries
  <2>6. /\ next \in CheckCalls /\ next.pc = "items" /\ next.left = Tail(left)
    BY <1>1, <2>1, <2>3, <2>4 DEF CheckCalls
  <2>7. /\ checker' = [checker EXCEPT ![c] = next] /\ items' = [items EXCEPT ![p] = items[p] + 1]
        /\ UNCHANGED <<contents, open_cases, check, check_torn>>
    BY <1>3, <2>1, <2>3, <2>4, <2>5 DEF InsertItem, Turns
  <2> HIDE DEF CheckInv
  <2>8. CheckShapes /\ CasesOnce
    BY DEF CheckInv
  <2>9. /\ checker'[c] = next /\ checker' \in [Checkers -> CheckCalls]
        /\ \A o \in Checkers \ {c} : checker'[o] = checker[o]
    BY <2>6, <2>7, <2>8 DEF CheckShapes
  <2>10. /\ items' \in [Contents -> Nat] /\ items'[p] = items[p] + 1
         /\ \A q \in Contents \ {p} : items'[q] = items[q]
    BY <2>7, <2>8 DEF CheckShapes
  <2>11. CheckShapes' /\ CasesOnce'
    BY <2>6, <2>7, <2>8, <2>9, <2>10 DEF CheckShapes, CasesOnce
  <2>12. ASSUME ~check_torn'
         PROVE  OneSubmission' /\ ItemsWritten' /\ ItemsToCome'
    <3>1. OneSubmission /\ ItemsWritten /\ ItemsToCome
      BY <2>7, <2>12 DEF CheckInv
    <3>2. \A o \in Checkers : Submitting(o)' <=> Submitting(o)
      BY <1>1, <2>6, <2>9 DEF Submitting
    <3>3. Submitting(c) /\ check = "open"
      BY <1>1, <3>1 DEF Submitting, OneSubmission
    <3>4. OneSubmission'
      BY <2>7, <3>1, <3>2 DEF OneSubmission
    <3>5. /\ \A j, k \in 1 .. Len(left) : left[j].piece = left[k].piece => j = k
          /\ \A k \in 1 .. Len(left) : items[left[k].piece] = 0
      BY <1>1, <2>3, <3>1 DEF ItemsToCome
    <3>6. items[p] = 0
      BY <2>4, <2>5, <3>5
    <3>7. items'[p] = 1 /\ SomeItem'
      BY <2>10, <3>6 DEF SomeItem
    <3>8. ItemsWritten'
      BY <2>7, <2>10, <3>1, <3>2, <3>3, <3>7 DEF ItemsWritten
    <3>9. \A o \in Checkers : checker'[o].pc = "items" => o = c
      BY <2>9, <3>1, <3>3 DEF OneSubmission, Submitting
    <3>10. /\ \A j, k \in 1 .. Len(Tail(left)) : Tail(left)[j].piece = Tail(left)[k].piece => j = k
      BY <2>4, <3>5
    <3>11. \A k \in 1 .. Len(Tail(left)) : Tail(left)[k].piece \in Contents \ {p} /\ items[Tail(left)[k].piece] = 0
      <4> TAKE k \in 1 .. Len(Tail(left))
      <4>1. Tail(left)[k] = left[k + 1] /\ k + 1 \in 1 .. Len(left) /\ 1 \in 1 .. Len(left) /\ k + 1 # 1
        BY <2>4
      <4>2. left[k + 1] \in Entries
        BY <4>1, ElementOfSeq
      <4> QED BY <2>5, <3>5, <4>1, <4>2 DEF Entries
    <3>12. \A k \in 1 .. Len(Tail(left)) : items'[Tail(left)[k].piece] = 0
      BY <2>10, <3>11
    <3>13. ItemsToCome'
      <4>1. checker'[c].left = Tail(left)
        BY <2>6, <2>9
      <4>2. ASSUME NEW o \in Checkers, checker'[o].pc = "items" PROVE checker'[o].left = Tail(left)
        BY <3>9, <4>1, <4>2
      <4> QED BY ONLY <3>7, <3>10, <3>12, <4>2 DEF ItemsToCome
    <3> QED BY <3>4, <3>8, <3>13
  <2> QED BY <2>11, <2>12 DEF CheckInv
<1> QED BY <1>2, <1>3

\* A form with every piece once is taken while the check is open.
LEMMA SubmitStep ==
    ASSUME Contents \ Loose # {}, CheckInv,
           NEW c \in Checkers, NEW list \in Checklists, submit_toolbox_check(c, list)
    PROVE  CheckInv'
<1>1. CheckShapes /\ CasesOnce
  BY DEF CheckInv
<1>2. list \in Seq(Entries)
  BY <1>1, ChecklistsAreLists DEF CheckShapes
<1>3. PICK next : next = [pc |-> "items", list |-> list, left |-> list]
  OBVIOUS
<1>4. next \in CheckCalls /\ next.pc = "items" /\ next.left = list
  BY <1>2, <1>3 DEF CheckCalls
<1>5. /\ checker[c] = Resting /\ checker' = [checker EXCEPT ![c] = next] /\ check = "open"
      /\ UNCHANGED <<contents, check, items, open_cases>>
  BY <1>3 DEF submit_toolbox_check, Opens, NotSubmitted
<1>6. check_torn' \in BOOLEAN
  BY Zenon DEF submit_toolbox_check
<1>7. /\ \A j, k \in 1 .. Len(list) : list[j].piece = list[k].piece => j = k
      /\ {list[k].piece : k \in 1 .. Len(list)} = contents
  BY <1>2, LenProperties DEF submit_toolbox_check, _validate_toolbox_items
<1>8. list # <<>>
  <2>1. contents # {}
    BY <1>1 DEF CheckShapes
  <2> QED BY <1>7, <2>1, EmptySeq
<1>9. \A k \in 1 .. Len(list) : list[k].piece \in Contents
  <2>1. \A k \in 1 .. Len(list) : list[k] \in Entries
    BY <1>2, ElementOfSeq
  <2> QED BY <2>1 DEF Entries
<1>10. /\ checker'[c] = next /\ checker' \in [Checkers -> CheckCalls]
       /\ \A o \in Checkers \ {c} : checker'[o] = checker[o]
  BY <1>1, <1>4, <1>5 DEF CheckShapes
<1>11. CheckShapes' /\ CasesOnce'
  BY <1>1, <1>4, <1>5, <1>6, <1>10 DEF CheckShapes, CasesOnce
<1>12. ASSUME ~check_torn'
       PROVE  OneSubmission' /\ ItemsWritten' /\ ItemsToCome'
  <2>1. ~check_torn /\ \A o \in Checkers \ {c} : ~Submitting(o)
    BY <1>12, Zenon DEF submit_toolbox_check, Submitting
  <2>2. \A o \in Checkers : ~Submitting(o)
    BY <1>5, <2>1 DEF Submitting, Resting
  <2>3. OneSubmission /\ ItemsWritten /\ ItemsToCome
    BY <2>1 DEF CheckInv
  <2>4. \A p \in Contents : items'[p] = 0
    BY <1>5, <2>2, <2>3 DEF ItemsWritten
  <2>5. \A o \in Checkers : Submitting(o)' => o = c
    BY <1>10, <2>1 DEF Submitting
  <2>6. \A o \in Checkers : checker'[o].pc \in {"items", "cases", "done"} => o = c
    BY <2>5 DEF Submitting
  <2>7. OneSubmission'
    BY <1>5, <2>5 DEF OneSubmission
  <2>8. Submitting(c)'
    BY <1>4, <1>10 DEF Submitting
  <2>9. ItemsWritten'
    BY <1>4, <1>5, <1>10, <2>4, <2>6, <2>8 DEF ItemsWritten
  <2>10. ItemsToCome'
    BY <1>4, <1>7, <1>8, <1>9, <1>10, <2>4, <2>6 DEF ItemsToCome
  <2> QED BY <2>7, <2>9, <2>10
<1> QED BY <1>11, <1>12 DEF CheckInv

\* One line of the checklist: an incident when it asks for one and none is open.
LEMMA RaiseStep ==
    ASSUME CheckInv, NEW c \in Checkers, _raise_toolbox_incidents(c)
    PROVE  CheckInv'
<1>1. CheckShapes /\ checker[c] \in CheckCalls /\ checker[c].pc = "cases"
  BY DEF CheckInv, CheckShapes, _raise_toolbox_incidents
<1>2. UNCHANGED <<contents, check, items, check_torn>> /\ check_torn' \in BOOLEAN
  BY <1>1 DEF _raise_toolbox_incidents, CheckShapes
<1>3. CASE checker[c].left = <<>>
  <2>1. PICK next : next = [checker[c] EXCEPT !.pc = "done"]
    OBVIOUS
  <2>2. next \in CheckCalls /\ next.pc = "done"
    BY <1>1, <2>1 DEF CheckCalls
  <2>3. checker' = [checker EXCEPT ![c] = next] /\ UNCHANGED open_cases
    <3>1. Turns(c, [checker[c] EXCEPT !.pc = "done"]) /\ UNCHANGED open_cases
      BY ONLY <1>3, _raise_toolbox_incidents(c) DEF _raise_toolbox_incidents
    <3> QED BY ONLY <2>1, <3>1 DEF Turns
  <2> QED BY <1>1, <1>2, <2>2, <2>3, CheckerMoves
<1>4. CASE checker[c].left # <<>>
  <2>1. PICK next : next = [checker[c] EXCEPT !.left = Tail(checker[c].left)]
    OBVIOUS
  <2>2. PICK left \in Seq(Entries) : left = checker[c].left
    BY <1>1 DEF CheckCalls
  <2>3. Head(left) \in Entries /\ Tail(left) \in Seq(Entries)
    BY <1>4, <2>2, HeadTailProperties
  <2>4. next \in CheckCalls /\ next.pc = "cases"
    BY <1>1, <2>1, <2>2, <2>3 DEF CheckCalls
  <2>5. PICK p \in Contents : p = Head(left).piece
    BY <2>3 DEF Entries
  <2>6. checker' = [checker EXCEPT ![c] = next]
    BY <1>4, <2>1 DEF _raise_toolbox_incidents, Turns
  <2>7. \/ UNCHANGED open_cases
        \/ /\ Head(left).state \in DOMAIN Raises /\ ~OpenSame(p, Raises[Head(left).state])
           /\ open_cases' = [open_cases EXCEPT ![p][Raises[Head(left).state]] = @ + 1]
    BY <1>4, <2>2, <2>5 DEF _raise_toolbox_incidents
  <2>8. CASE UNCHANGED open_cases
    BY <1>1, <1>2, <2>4, <2>6, <2>8, CheckerMoves
  <2>9. CASE /\ Head(left).state \in DOMAIN Raises /\ ~OpenSame(p, Raises[Head(left).state])
             /\ open_cases' = [open_cases EXCEPT ![p][Raises[Head(left).state]] = @ + 1]
    <3>1. PICK type \in Cases : type = Raises[Head(left).state]
      BY <2>9 DEF Raises, Cases
    <3>2. ~(open_cases[p][type] > 0)
      BY <2>9, <3>1, ContentsAssumption DEF OpenSame
    <3>3. open_cases[p][type] \in Nat
      BY <1>1 DEF CheckShapes
    <3>4. open_cases[p][type] = 0
      BY <3>2, <3>3
    <3>5. open_cases' = [open_cases EXCEPT ![p][type] = 1]
      BY <2>9, <3>1, <3>4
    <3>6. open_cases' \in [Contents -> [Cases -> Nat]] /\ CasesOnce'
      BY <3>5, CaseMoves, 1 \in 0 .. 1
    <3> HIDE DEF CheckInv
    <3>7. /\ checker'[c] = next /\ checker' \in [Checkers -> CheckCalls]
          /\ \A o \in Checkers \ {c} : checker'[o] = checker[o]
      BY <1>1, <2>4, <2>6 DEF CheckShapes
    <3>8. CheckShapes'
      BY <1>1, <1>2, <2>4, <3>6, <3>7 DEF CheckShapes
    <3>9. ASSUME ~check_torn'
          PROVE  OneSubmission' /\ ItemsWritten' /\ ItemsToCome'
      <4>1. OneSubmission /\ ItemsWritten /\ ItemsToCome
        BY <1>2, <3>9 DEF CheckInv
      <4>2. \A o \in Checkers : checker'[o].pc = checker[o].pc
        BY <1>1, <2>4, <3>7
      <4>3. \A o \in Checkers : Submitting(o)' <=> Submitting(o)
        BY <4>2 DEF Submitting
      <4>4. OneSubmission'
        BY <1>2, <4>1, <4>3 DEF OneSubmission
      <4>5. ItemsWritten'
        BY <1>2, <4>1, <4>2, <4>3 DEF ItemsWritten, SomeItem
      <4>6. ItemsToCome'
        <5>1. \A o \in Checkers : checker'[o].pc = "items" => o # c /\ checker'[o] = checker[o]
          BY <1>1, <4>2, <3>7
        <5> QED BY <1>2, <4>1, <5>1 DEF ItemsToCome, SomeItem
      <4> QED BY <4>4, <4>5, <4>6
    <3> QED BY <3>6, <3>8, <3>9 DEF CheckInv
  <2> QED BY <2>7, <2>8, <2>9
<1> QED BY <1>3, <1>4

\* What is left of a submission is its header.
LEMMA SubmittedStep ==
    ASSUME CheckInv, NEW c \in Checkers, MarkSubmitted(c)
    PROVE  CheckInv'
<1>1. CheckShapes /\ CasesOnce
  BY DEF CheckInv
<1>2. /\ checker[c].pc = "done" /\ check' = "submitted" /\ checker' = [checker EXCEPT ![c] = Resting]
      /\ UNCHANGED <<contents, items, open_cases, check_torn>>
  BY DEF MarkSubmitted, Turns
<1>3. Resting \in CheckCalls /\ Resting.pc = "rest"
  BY EmptySeq DEF Resting, CheckCalls
<1>4. /\ checker'[c] = Resting /\ checker' \in [Checkers -> CheckCalls]
      /\ \A o \in Checkers \ {c} : checker'[o] = checker[o]
  BY <1>1, <1>2, <1>3 DEF CheckShapes
<1>5. CheckShapes' /\ CasesOnce'
  BY <1>1, <1>2, <1>4 DEF CheckShapes, CasesOnce
<1>6. ASSUME ~check_torn'
      PROVE  OneSubmission' /\ ItemsWritten' /\ ItemsToCome'
  <2>1. OneSubmission /\ ItemsWritten /\ SomeItem
    BY <1>2, <1>6 DEF CheckInv, ItemsWritten
  <2>2. \A o \in Checkers : checker'[o].pc \notin {"items", "cases", "done"}
    BY <1>2, <1>3, <1>4, <2>1 DEF OneSubmission, Submitting
  <2>3. SomeItem'
    BY <1>2, <2>1 DEF SomeItem
  <2> QED BY <1>2, <2>1, <2>2, <2>3 DEF OneSubmission, ItemsWritten, ItemsToCome, Submitting
<1> QED BY <1>5, <1>6 DEF CheckInv

\* Opening, and a call that fails.
LEMMA CallStep ==
    ASSUME CheckInv, NEW c \in Checkers,
           open_toolbox_check(c) \/ InsertHeader(c) \/ CheckCallFails(c)
    PROVE  CheckInv'
<1>1. CheckShapes
  BY DEF CheckInv
<1>2. /\ Resting \in CheckCalls /\ Resting.pc = "rest"
      /\ [Resting EXCEPT !.pc = "open"] \in CheckCalls /\ [Resting EXCEPT !.pc = "open"].pc = "open"
  BY EmptySeq DEF Resting, CheckCalls
<1>3. CASE open_toolbox_check(c)
  <2>1. /\ checker[c].pc = "rest" /\ checker' = [checker EXCEPT ![c] = [Resting EXCEPT !.pc = "open"]]
        /\ UNCHANGED <<contents, check, items, open_cases, check_torn>> /\ check_torn' \in BOOLEAN
    BY <1>1, <1>2, <1>3 DEF open_toolbox_check, Opens, CheckShapes
  <2> QED BY <1>2, <2>1, CheckerMoves DEF Submitting
<1>4. CASE InsertHeader(c)
  <2>1. /\ checker[c].pc = "open" /\ checker' = [checker EXCEPT ![c] = Resting]
        /\ check' = check \/ (check = "none" /\ check' = "open")
        /\ UNCHANGED <<contents, items, open_cases, check_torn>> /\ check_torn' \in BOOLEAN
    BY <1>1, <1>4 DEF InsertHeader, Turns, CheckShapes
  <2> QED BY <1>2, <2>1, CheckerMoves DEF Submitting
<1>5. CASE CheckCallFails(c)
  <2>1. /\ checker[c].pc # "rest" /\ checker' = [checker EXCEPT ![c] = Resting]
        /\ UNCHANGED <<contents, check, items, open_cases>>
    BY <1>1, <1>5 DEF CheckCallFails, Turns, CheckShapes
  <2>2. /\ check_torn' \in BOOLEAN
        /\ ~check_torn' => ~check_torn /\ checker[c].pc = "open"
    BY <1>5, Zenon DEF CheckCallFails
  <2> QED BY <1>2, <2>1, <2>2, CheckerMoves DEF Submitting
<1> QED BY <1>3, <1>4, <1>5

\* The pieces of the set, and the incidents that are closed.
LEMMA PieceStep ==
    ASSUME CheckInv, NEW p \in Contents,
           \/ add_content_line(p) \/ remove_content_line(p)
           \/ \E type \in Cases : ReportIncident(p, type) \/ CloseCase(p, type)
    PROVE  CheckInv'
<1>1. CheckShapes /\ CasesOnce
  BY DEF CheckInv
<1>2. CASE add_content_line(p) \/ remove_content_line(p)
  <2>1. /\ contents' \subseteq Contents /\ Contents \ Loose \subseteq contents'
        /\ UNCHANGED <<open_cases, check, check_torn, items, checker>>
    BY <1>1, <1>2 DEF add_content_line, remove_content_line, CheckShapes
  <2> QED BY <1>1, <2>1, ContentsMove DEF CheckShapes, CasesOnce
<1>3. ASSUME NEW type \in Cases, open_cases[p][type] > 0,
             open_cases' = [open_cases EXCEPT ![p][type] = @ - 1],
             UNCHANGED <<contents, check, check_torn, items, checker>>
      PROVE  CheckInv'
  <2>1. open_cases[p][type] \in Nat /\ open_cases[p][type] <= 1
    BY <1>1 DEF CheckShapes, CasesOnce
  <2>2. open_cases' = [open_cases EXCEPT ![p][type] = 0]
    <3>1. open_cases[p][type] - 1 = 0
      BY <1>3, <2>1
    <3>2. open_cases' = [open_cases EXCEPT ![p][type] = open_cases[p][type] - 1]
      BY <1>3
    <3> QED BY <3>1, <3>2
  <2>3. open_cases' \in [Contents -> [Cases -> Nat]] /\ CasesOnce'
    BY <2>2, CaseMoves, 0 \in 0 .. 1
  <2> QED BY <1>1, <1>3, <2>3, ContentsMove DEF CheckShapes
<1>4. ASSUME NEW type \in Cases, UNCHANGED open_cases,
             UNCHANGED <<contents, check, check_torn, items, checker>>
      PROVE  CheckInv'
  BY <1>1, <1>4, ContentsMove DEF CheckShapes, CasesOnce
<1> QED BY <1>2, <1>3, <1>4 DEF ReportIncident, CloseCase

LEMMA CheckInductive ==
    ASSUME Contents \ Loose # {}, CheckInv, [ChecksNext]_check_vars
    PROVE  CheckInv'
<1>1. CASE UNCHANGED check_vars
  BY <1>1 DEF check_vars, CheckInv, CheckShapes, CasesOnce, OneSubmission, ItemsWritten, ItemsToCome,
              Submitting, SomeItem
<1>2. CASE ChecksNext
  BY <1>2, InsertItemStep, SubmitStep, RaiseStep, SubmittedStep, CallStep, PieceStep DEF ChecksNext
<1> QED BY <1>1, <1>2

ChecksSpec == ChecksInit /\ [][ChecksNext]_check_vars

\* For any set with a tool of the register among its pieces (a form of content lines alone
\* may be empty), any requests, forms and failures: a check no submission of which was cut
\* short or overlapped has each piece at most once and none before it is submitted, and no
\* piece has two open incidents of one type that checks raised, whatever is reported by hand.
THEOREM EveryPieceOnce ==
    ASSUME Contents \ Loose # {}
    PROVE  ChecksSpec => []CheckedOnce
<1>1. ChecksInit => CheckInv
  <2> SUFFICES ASSUME ChecksInit PROVE CheckInv
    OBVIOUS
  <2>1. Resting \in CheckCalls /\ Resting.pc = "rest"
    BY EmptySeq DEF Resting, CheckCalls
  <2>2. CheckShapes
    BY <2>1 DEF ChecksInit, CheckShapes
  <2>3. CasesOnce
    BY DEF ChecksInit, CasesOnce
  <2>4. \A c \in Checkers : checker[c].pc = "rest"
    BY <2>1 DEF ChecksInit
  <2>5. OneSubmission /\ ItemsWritten /\ ItemsToCome
    BY <2>4 DEF ChecksInit, OneSubmission, ItemsWritten, ItemsToCome, Submitting
  <2> QED BY <2>2, <2>3, <2>5 DEF CheckInv
<1>2. CheckInv => CheckedOnce
  <2> SUFFICES ASSUME CheckInv, ~check_torn
               PROVE  CheckedOnce
    BY DEF CheckedOnce
  <2>1. (\A c \in Checkers : checker[c] = Resting) => \A c \in Checkers : ~Submitting(c)
    BY DEF Submitting, Resting
  <2> QED BY <2>1 DEF CheckInv, CasesOnce, ItemsWritten, SomeItem, CheckedOnce
<1>3. CheckInv /\ [ChecksNext]_check_vars => CheckInv'
  BY CheckInductive
<1> QED BY <1>1, <1>2, <1>3, PTL DEF ChecksSpec

-----------------------------------------------------------------------------
(* The daily timesheets, and the import into them. *)

\* The least of some numbers is one of them.
LEMMA LeastIn == ASSUME NEW S \in SUBSET Nat, S # {} PROVE Min(S) \in S
<1>1. IsWellFoundedOn(OpToRel(<, Nat), Nat)
  BY NatLessThanWellFounded
<1>2. PICK x \in S : \A y \in S : ~(<<y, x>> \in OpToRel(<, Nat))
  BY <1>1, WFMin
<1>3. ASSUME NEW y \in S, y < x PROVE FALSE
  <2>1. <<y, x>> \in OpToRel(<, Nat)
    BY <1>3 DEF OpToRel
  <2>. QED
    BY <2>1, <1>2
<1>4. \A y \in S : x <= y
  BY <1>3
<1>. QED
  BY <1>4 DEF Min

DayTables == [Keys -> SheetRows \cup {NoSheet}]
Patches == [night : Int] \cup [regular : Int, total : Int] \cup [regular : Int, night : Int, total : Int]

\* A patch once written changes nothing, and leaves the columns it does not name.
LEMMA PatchesRow ==
    ASSUME NEW row \in SheetRows, NEW p \in Patches
    PROVE  /\ Over(row, p) \in SheetRows /\ Over(row, p).id = row.id /\ Over(row, p).overtime = row.overtime
           /\ \A f \in {"regular", "night", "total"} : Over(row, p)[f] = IF f \in DOMAIN p THEN p[f] ELSE row[f]
           /\ Over(Over(row, p), p) = Over(row, p)
<1>1. DOMAIN row = {"id", "regular", "night", "overtime", "total"} /\ row = [f \in DOMAIN row |-> row[f]]
      /\ row.id \in Nat /\ row.regular \in Int /\ row.night \in Int /\ row.overtime \in Int /\ row.total \in Int
  BY DEF SheetRows
<1>2. /\ DOMAIN p \subseteq {"regular", "night", "total"} /\ \A f \in DOMAIN p : p[f] \in Int
  BY DEF Patches
<1>. DEFINE new == Over(row, p)
<1>3. /\ DOMAIN new = {"id", "regular", "night", "overtime", "total"}
      /\ \A f \in DOMAIN new : new[f] = IF f \in DOMAIN p THEN p[f] ELSE row[f]
      /\ new = [f \in {"id", "regular", "night", "overtime", "total"} |-> new[f]]
  BY <1>1 DEF Over
<1>4. new.id \in Nat /\ new.regular \in Int /\ new.night \in Int /\ new.overtime \in Int /\ new.total \in Int
      /\ new.id = row.id /\ new.overtime = row.overtime
  BY <1>1, <1>2, <1>3
<1>5. new \in SheetRows
  BY <1>3, <1>4 DEF SheetRows
<1>6. Over(new, p) = new
  <2>. HIDE DEF new
  <2>1. \A f \in DOMAIN new : (IF f \in DOMAIN p THEN p[f] ELSE new[f]) = new[f]
    BY <1>3
  <2>2. Over(new, p) = [f \in DOMAIN new |-> new[f]]
    BY <2>1 DEF Over
  <2>. QED
    BY <1>3, <2>2
<1>. QED
  BY <1>3, <1>4, <1>5, <1>6

\* A day that is new holds what a patch or a form names, and nothing else.
LEMMA PatchesNothing ==
    ASSUME NEW p \in Patches, NEW n \in Nat
    PROVE  LET new == NewRow(n, Patched(NoSheet, p))
           IN  /\ new \in SheetRows /\ new.overtime = 0
               /\ \A f \in {"regular", "night", "total"} : new[f] = IF f \in DOMAIN p THEN p[f] ELSE 0
<1>. DEFINE hours == Patched(NoSheet, p)
<1>1. hours = [f \in {"regular", "night", "overtime", "total"} |-> IF f \in DOMAIN p THEN p[f] ELSE 0]
  BY DEF Patched, Over, NoHours
<1>2. DOMAIN p \subseteq {"regular", "night", "total"} /\ \A f \in DOMAIN p : p[f] \in Int
  BY DEF Patches
<1>3. hours.regular \in Int /\ hours.night \in Int /\ hours.overtime = 0 /\ hours.total \in Int
      /\ \A f \in {"regular", "night", "total"} : hours[f] = IF f \in DOMAIN p THEN p[f] ELSE 0
  BY <1>1, <1>2
<1>. HIDE DEF hours
<1>. DEFINE new == NewRow(n, hours)
<1>4. /\ new.id = n /\ new.regular = hours.regular /\ new.night = hours.night /\ new.overtime = hours.overtime /\ new.total = hours.total
      /\ new["regular"] = hours["regular"] /\ new["night"] = hours["night"] /\ new["total"] = hours["total"]
  BY DEF NewRow
<1>5. new \in SheetRows
  BY <1>3 DEF NewRow, SheetRows
<1>. HIDE DEF new
<1>6. new.overtime = 0 /\ \A f \in {"regular", "night", "total"} : new[f] = IF f \in DOMAIN p THEN p[f] ELSE 0
  BY <1>3, <1>4
<1>. QED
  BY <1>5, <1>6 DEF new, hours

\* A patch that says what is there changes nothing.
LEMMA PatchesSame ==
    ASSUME NEW row \in SheetRows, NEW p, \A f \in DOMAIN p : p[f] = row[f]
    PROVE  Over(row, p) = row
<1>1. row = [f \in DOMAIN row |-> row[f]]
  BY DEF SheetRows
<1>2. \A f \in DOMAIN row : (IF f \in DOMAIN p THEN p[f] ELSE row[f]) = row[f]
  OBVIOUS
<1>3. Over(row, p) = [f \in DOMAIN row |-> row[f]]
  BY <1>2 DEF Over
<1>. QED
  BY <1>1, <1>3

\* Hours entered by hand make a row.
LEMMA EntersHours ==
    ASSUME NEW hours \in Hours, NEW n \in Nat
    PROVE  NewRow(n, hours) \in SheetRows /\ \A row \in SheetRows : Over(row, hours) \in SheetRows
<1>1. /\ hours.regular \in Int /\ hours.night \in Int /\ hours.overtime \in Int /\ hours.total \in Int
      /\ DOMAIN hours = {"regular", "night", "overtime", "total"}
  BY DEF Hours
<1>2. NewRow(n, hours) \in SheetRows
  BY <1>1 DEF NewRow, SheetRows
<1>3. ASSUME NEW row \in SheetRows PROVE Over(row, hours) \in SheetRows
  <2>1. DOMAIN row = {"id", "regular", "night", "overtime", "total"} /\ row.id \in Nat
    BY DEF SheetRows
  <2>2. Over(row, hours) = [id |-> row.id, regular |-> hours.regular, night |-> hours.night,
                            overtime |-> hours.overtime, total |-> hours.total]
    BY <1>1, <2>1 DEF Over
  <2>. QED
    BY <1>1, <2>1, <2>2 DEF SheetRows
<1>. QED
  BY <1>2, <1>3

\* What an import writes: the patch, by the kind of the day.
LEMMA PatchOf ==
    ASSUME NEW entry, entry.hours \in Int, entry.night \subseteq Int, NEW existing \in SheetRows \cup {NoSheet},
           NEW on_leave \in BOOLEAN, TimesheetAssumption
    PROVE  LET p == build_patch(entry, existing, on_leave)
               night == IF entry.night # {} THEN CHOOSE n \in entry.night : TRUE
                        ELSE IF existing = NoSheet THEN 0 ELSE existing.night
               regular == IF entry.kind = "off" THEN 0 ELSE entry.hours
           IN  p # NoSheet =>
                 \/ /\ on_leave /\ entry.kind # "blank" /\ {n \in entry.night : n > 0} # {}
                    /\ p = [night |-> CHOOSE n \in {n \in entry.night : n > 0} : TRUE]
                    /\ p \in Patches
                 \/ /\ ~on_leave /\ entry.kind \notin {"blank", "leave"}
                    /\ p \in Patches /\ night \in Int /\ regular \in Int
                    /\ DOMAIN p = IF entry.night # {} THEN {"regular", "night", "total"} ELSE {"regular", "total"}
                    /\ p["regular"] = regular /\ (entry.night # {} => p["night"] = night)
                    /\ p["total"] = _total_hours(existing, regular, night)
<1>. DEFINE p == build_patch(entry, existing, on_leave)
            known == {n \in entry.night : n > 0}
            night == IF entry.night # {} THEN CHOOSE n \in entry.night : TRUE
                     ELSE IF existing = NoSheet THEN 0 ELSE existing.night
            regular == IF entry.kind = "off" THEN 0 ELSE entry.hours
            total == _total_hours(existing, regular, night)
            patch == IF entry.night # {} THEN [regular |-> regular, night |-> night, total |-> total]
                     ELSE [regular |-> regular, total |-> total]
<1>1. night \in Int /\ regular \in Int
  <2>1. entry.night # {} => (CHOOSE n \in entry.night : TRUE) \in entry.night
    OBVIOUS
  <2>2. existing # NoSheet => existing.night \in Int
    BY DEF SheetRows
  <2>. QED
    BY <2>1, <2>2
<1>. HIDE DEF night, regular
<1>2. total \in Int
  <2>1. existing # NoSheet => existing.night \in Int /\ existing.regular \in Int /\ existing.total \in Int
    BY DEF SheetRows
  <2>. QED
    BY <1>1, <2>1 DEF _total_hours
<1>. HIDE DEF total
<1>3. /\ patch \in Patches
      /\ DOMAIN patch = IF entry.night # {} THEN {"regular", "night", "total"} ELSE {"regular", "total"}
      /\ patch["regular"] = regular /\ (entry.night # {} => patch["night"] = night) /\ patch["total"] = total
  BY <1>1, <1>2 DEF Patches
<1>4. known # {} => (CHOOSE n \in known : TRUE) \in Int
  <2>1. known # {} => (CHOOSE n \in known : TRUE) \in known
    OBVIOUS
  <2>. QED
    BY <2>1
<1>5. known # {} => [night |-> CHOOSE n \in known : TRUE] \in Patches
  BY <1>4 DEF Patches
<1>. HIDE DEF patch, known
<1>6. p = IF entry.kind = "blank" THEN NoSheet
          ELSE IF on_leave \/ entry.kind = "leave"
          THEN IF on_leave /\ known # {} THEN [night |-> CHOOSE n \in known : TRUE] ELSE NoSheet
          ELSE IF existing # NoSheet /\ \A f \in DOMAIN patch : patch[f] = existing[f] THEN NoSheet ELSE patch
  BY DEF build_patch, patch, known, night, regular, total
<1>. HIDE DEF p
<1>7. CASE entry.kind = "blank"
  BY <1>6, <1>7 DEF p
<1>8. CASE entry.kind # "blank" /\ (on_leave \/ entry.kind = "leave")
  <2>1. p # NoSheet => on_leave /\ known # {} /\ p = [night |-> CHOOSE n \in known : TRUE]
    BY <1>6, <1>8
  <2>. QED
    BY <1>5, <1>8, <2>1 DEF p, known
<1>9. CASE entry.kind # "blank" /\ ~on_leave /\ entry.kind # "leave"
  <2>1. p # NoSheet => p = patch
    BY <1>6, <1>9
  <2>. QED
    BY <1>1, <1>3, <1>9, <2>1 DEF p, night, regular, total
<1>. QED
  BY <1>7, <1>8, <1>9
\* What has been written is told: made out again of the row it left, the patch changes nothing.
LEMMA WrittenIsTold ==
    ASSUME TimesheetAssumption, NEW entry, entry.hours \in Int, entry.night \subseteq Int, NEW n \in Nat,
           NEW existing \in SheetRows \cup {NoSheet}, NEW on_leave \in BOOLEAN,
           NEW p, p = build_patch(entry, existing, on_leave), p # NoSheet, NEW row,
           row = (IF existing = NoSheet THEN NewRow(n, Patched(NoSheet, p)) ELSE Over(existing, p)),
           NEW q, q = build_patch(entry, row, on_leave), q # NoSheet
    PROVE  Over(row, q) = row
<1>1. /\ row \in SheetRows /\ p \in Patches
      /\ \A f \in DOMAIN p : row[f] = p[f]
      /\ "night" \notin DOMAIN p => row.night = IF existing = NoSheet THEN 0 ELSE existing.night
  <2>1. p \in Patches
    BY PatchOf
  <2>2. DOMAIN p \subseteq {"regular", "night", "total"}
    BY <2>1 DEF Patches
  <2>3. CASE existing = NoSheet
    BY <2>1, <2>2, <2>3, PatchesNothing
  <2>4. CASE existing # NoSheet
    BY <2>1, <2>2, <2>4, PatchesRow
  <2>. QED
    BY <2>1, <2>3, <2>4
<1>2. row # NoSheet
  BY <1>1 DEF TimesheetAssumption
<1>3. CASE on_leave
  <2>. DEFINE known == {m \in entry.night : m > 0}
  <2>2. p = [night |-> CHOOSE m \in known : TRUE]
    BY <1>3, PatchOf
  <2>3. q = [night |-> CHOOSE m \in known : TRUE]
    BY <1>1, <1>3, PatchOf
  <2>1. q = p
    BY <2>2, <2>3
  <2>. QED
    BY <1>1, <2>1, PatchesSame
<1>4. CASE ~on_leave
  <2>. DEFINE regular == IF entry.kind = "off" THEN 0 ELSE entry.hours
              chosen == CHOOSE m \in entry.night : TRUE
  <2>1. /\ DOMAIN p = IF entry.night # {} THEN {"regular", "night", "total"} ELSE {"regular", "total"}
        /\ p["regular"] = regular /\ (entry.night # {} => p["night"] = chosen)
    BY <1>4, PatchOf
  <2>2. /\ DOMAIN q = IF entry.night # {} THEN {"regular", "night", "total"} ELSE {"regular", "total"}
        /\ q["regular"] = regular /\ (entry.night # {} => q["night"] = chosen)
        /\ q["total"] = _total_hours(row, regular, IF entry.night # {} THEN chosen ELSE row.night)
    BY <1>1, <1>2, <1>4, PatchOf
  <2>. HIDE DEF regular, chosen
  <2>3. row.regular = regular /\ (entry.night # {} => row.night = chosen)
    BY <1>1, <2>1
  <2>4. row.regular \in Int /\ row.night \in Int /\ row.total \in Int
    BY <1>1 DEF SheetRows
  <2>5. q["total"] = row.total
    BY <1>2, <2>2, <2>3, <2>4 DEF _total_hours
  <2>6. \A f \in DOMAIN q : q[f] = row[f]
    BY <2>2, <2>3, <2>5
  <2>. QED
    BY <1>1, <2>6, PatchesSame
<1>. QED
  BY <1>3, <1>4

\* The lines of a review are days of people.
LEMMA LinesAreDays ==
    ASSUME TimesheetAssumption, NEW review \in Reviews, NEW line \in SheetLines(review)
    PROVE  /\ line \in Nat \X Nat /\ KeyOf(review, line) \in Keys
           /\ Entry(review, line).hours \in Int /\ Entry(review, line).night \subseteq Int
<1>1. PICK s \in eligible_review_sheets(review) : line \in {s} \X DOMAIN review[s].rows
  BY DEF SheetLines
<1>2. s \in DOMAIN review /\ line[1] = s /\ line[2] \in DOMAIN review[s].rows /\ line = <<line[1], line[2]>>
  BY <1>1 DEF eligible_review_sheets
<1>3. /\ line[1] \in Nat /\ line[2] \in Nat
      /\ Entry(review, line).hours \in Int /\ Entry(review, line).night \subseteq Int
  BY <1>2 DEF TimesheetAssumption, Entry
<1>4. resolve_employee(review[line[1]]) # {} /\ Entry(review, line).day \in Period
  BY DEF SheetLines
<1>5. \A sheet : resolve_employee(sheet) \subseteq Persons
  BY DEF resolve_employee, Persons
<1>6. (CHOOSE p \in resolve_employee(review[line[1]]) : TRUE) \in Persons
  BY <1>4, <1>5
<1>7. Entry(review, line).day \in ShiftDays
  BY <1>4 DEF TimesheetAssumption
<1>8. KeyOf(review, line) \in Keys
  <2>. DEFINE who == CHOOSE p \in resolve_employee(review[line[1]]) : TRUE
  <2>1. KeyOf(review, line) = <<who, Entry(review, line).day>>
    BY DEF KeyOf
  <2>2. who \in Persons
    BY <1>6
  <2>. HIDE DEF who
  <2>. QED
    BY <1>7, <2>1, <2>2 DEF Keys
<1>9. line \in Nat \X Nat
  BY <1>2, <1>3
<1>. QED
  BY <1>3, <1>8, <1>9

\* A write of an import knows its day, and keeps a total that is that of its hours, unless it
\* writes on a day of leave.
GoodWrite(w) ==
    /\ w.key \in Keys /\ w.existing \in SheetRows \cup {NoSheet} /\ w.patch \in Patches \ {NoSheet} /\ w.extra \in BOOLEAN
    /\ ~w.extra /\ w.existing # NoSheet /\ AddsUp(w.existing) => AddsUp(Over(w.existing, w.patch))
    /\ ~w.extra /\ w.existing = NoSheet => \A n \in Nat : AddsUp(NewRow(n, Patched(NoSheet, w.patch)))

LEMMA WritesAreGood ==
    ASSUME TimesheetAssumption, NEW review \in Reviews, NEW line \in SheetLines(review), NEW day_table \in DayTables,
           NEW on_leave, WriteOf(review, line, day_table, on_leave).patch # NoSheet
    PROVE  GoodWrite(WriteOf(review, line, day_table, on_leave))
<1>. DEFINE w == WriteOf(review, line, day_table, on_leave)
            entry == Entry(review, line)
            k == KeyOf(review, line)
            there == k \in on_leave
<1>1. k \in Keys /\ entry.hours \in Int /\ entry.night \subseteq Int
  BY LinesAreDays
<1>2. w.key = k /\ w.existing = day_table[k] /\ w.patch = build_patch(entry, day_table[k], there) /\ w.extra = there
  BY DEF WriteOf
<1>3. w.existing \in SheetRows \cup {NoSheet} /\ there \in BOOLEAN
  BY <1>1, <1>2 DEF DayTables
<1>. DEFINE night == IF entry.night # {} THEN CHOOSE n \in entry.night : TRUE
                     ELSE IF w.existing = NoSheet THEN 0 ELSE w.existing.night
            regular == IF entry.kind = "off" THEN 0 ELSE entry.hours
<1>. HIDE DEF w, entry, k, there
<1>4. /\ w.patch \in Patches
      /\ ~there => /\ night \in Int /\ regular \in Int
                   /\ DOMAIN w.patch = IF entry.night # {} THEN {"regular", "night", "total"} ELSE {"regular", "total"}
                   /\ w.patch["regular"] = regular /\ (entry.night # {} => w.patch["night"] = night)
                   /\ w.patch["total"] = _total_hours(w.existing, regular, night)
  <2>1. w.patch # NoSheet /\ w.patch = build_patch(entry, w.existing, there)
    BY <1>2 DEF w
  <2>. QED
    BY <1>1, <1>3, <2>1, PatchOf
<1>5. ASSUME ~there, w.existing # NoSheet, AddsUp(w.existing) PROVE AddsUp(Over(w.existing, w.patch))
  <2>1. w.existing.regular \in Int /\ w.existing.night \in Int /\ w.existing.overtime \in Int /\ w.existing.total \in Int
    BY <1>3, <1>5 DEF SheetRows
  <2>. DEFINE new == Over(w.existing, w.patch)
  <2>2. /\ new.overtime = w.existing.overtime
        /\ \A f \in {"regular", "night", "total"} : new[f] = IF f \in DOMAIN w.patch THEN w.patch[f] ELSE w.existing[f]
    BY <1>3, <1>4, <1>5, PatchesRow
  <2>. HIDE DEF new, regular
  <2>3. new.regular = regular /\ new.night = night /\ new.total = _total_hours(w.existing, regular, night)
    BY <1>4, <1>5, <2>2
  <2>. HIDE DEF night
  <2>. QED
    BY <1>4, <1>5, <2>1, <2>2, <2>3 DEF AddsUp, _total_hours, new
<1>6. ASSUME ~there, w.existing = NoSheet, NEW n \in Nat PROVE AddsUp(NewRow(n, Patched(NoSheet, w.patch)))
  <2>. DEFINE new == NewRow(n, Patched(NoSheet, w.patch))
  <2>1. /\ new.overtime = 0
        /\ \A f \in {"regular", "night", "total"} : new[f] = IF f \in DOMAIN w.patch THEN w.patch[f] ELSE 0
    BY <1>4, PatchesNothing
  <2>. HIDE DEF new, regular
  <2>2. new.regular = regular /\ new.night = night /\ new.total = _total_hours(w.existing, regular, night)
    BY <1>4, <1>6, <2>1
  <2>. HIDE DEF night
  <2>. QED
    BY <1>4, <1>6, <2>1, <2>2 DEF AddsUp, _total_hours, new
<1>. QED
  BY <1>1, <1>2, <1>3, <1>4, <1>5, <1>6 DEF GoodWrite, w

Jobs == [status : {"draft", "uploaded", "extracting", "review_ready", "cancelled", "completed"},
         documents : {0, 1}, review : BOOLEAN]
KeeperHands ==
    [pc : {"free"}] \cup [pc : {"insert"}, key : Keys, hours : HandRows]
    \cup [pc : {"update"}, key : Keys, hours : HandRows, id : Nat]
Working == {"rows", "report"}
ClerkTyped(c) ==
    /\ "pc" \in DOMAIN c
    /\ c.pc = "preview" => c.job \in Jobs /\ c.job.review /\ c.review \in Reviews
    /\ c.pc \in {"table", "leave", "shown"} \cup Working => c.review \in Reviews
    /\ c.pc = "leave" => "alone" \in DOMAIN c /\ c.table \in DayTables
    /\ c.pc \in Working =>
          /\ {"left", "alone"} \subseteq DOMAIN c
          /\ DOMAIN c.left \subseteq SheetLines(c.review) /\ \A line \in DOMAIN c.left : GoodWrite(c.left[line])
          /\ c.pc = "rows" <=> DOMAIN c.left # {}
SheetsTyped ==
    /\ timesheets \in DayTables /\ row_ids \in Nat
    /\ job \in Jobs /\ (job.review => review_json \in Reviews)
    /\ DOMAIN clerk = Importers
    /\ \A i \in Importers : ClerkTyped(clerk[i]) /\ (clerk[i].pc = "preview" => review_json \in Reviews)
    /\ hand \in [Keepers -> KeeperHands]
    /\ settled \in Reviews \cup {NoReview}

\* What a request has read is so, as long as nobody has written: the table, the writes it has
\* left, and what a preview shows; the lines it has no write for are told.
Now(review, line) == WriteOf(review, line, timesheets, leave_days)
ClerkAgrees(c) ==
    /\ c.pc = "leave" /\ c.alone => c.table = timesheets
    /\ c.pc \in Working /\ c.apply /\ ~c.aborted /\ c.alone /\ OncePerDay(c.review) =>
          \A line \in SheetLines(c.review) :
             IF line \in DOMAIN c.left THEN c.left[line] = Now(c.review, line) ELSE Told(Now(c.review, line))
    /\ c.pc = "shown" =>
          LET planned == PlannedWrites(c.review, timesheets, leave_days)
          IN  {l.key : l \in c.lines} = {planned[l].key : l \in {x \in DOMAIN planned : planned[x].key[1] \in c.visible}}
SettledHolds == settled # NoReview /\ OncePerDay(settled) => \A line \in SheetLines(settled) : Told(Now(settled, line))
DaysAddUp == \A k \in Keys \ loose : timesheets[k] # NoSheet => AddsUp(timesheets[k])
SheetsInv == SheetsTyped /\ DaysAddUp /\ SettledHolds /\ \A i \in Importers : ClerkAgrees(clerk[i])

\* A step that leaves the days and the leave alone.
LEMMA QuietSheets ==
    ASSUME SheetsInv, UNCHANGED <<timesheets, row_ids, leave_days, loose>>, hand' \in [Keepers -> KeeperHands],
           job' \in Jobs, job'.review => review_json' \in Reviews, review_json \in Reviews => review_json' \in Reviews,
           settled' \in Reviews \cup {NoReview}, SettledHolds', DOMAIN clerk' = Importers,
           \A i \in Importers :
              \/ clerk'[i] = clerk[i]
              \/ /\ ClerkTyped(clerk'[i]) /\ ClerkAgrees(clerk'[i])
                 /\ clerk'[i].pc = "preview" => review_json' \in Reviews
    PROVE  SheetsInv'
<1>1. ASSUME NEW c PROVE ClerkAgrees(c) => ClerkAgrees(c)'
  BY DEF ClerkAgrees, Now, Told
<1>2. ASSUME NEW i \in Importers PROVE ClerkAgrees(clerk[i])'
  <2>1. CASE clerk'[i] = clerk[i]
    <3>1. ClerkAgrees(clerk[i])
      BY DEF SheetsInv
    <3>. QED
      BY <2>1, <3>1 DEF ClerkAgrees, Now, Told
  <2>2. CASE ClerkAgrees(clerk'[i])
    BY <2>2 DEF ClerkAgrees, Now, Told
  <2>. QED
    BY <2>1, <2>2
<1>3. SheetsTyped'
  BY DEF SheetsInv, SheetsTyped, ClerkTyped
<1>4. DaysAddUp'
  BY DEF SheetsInv, DaysAddUp
<1>. QED
  BY <1>2, <1>3, <1>4 DEF SheetsInv

LEMMA SettledStays ==
    ASSUME SheetsInv, UNCHANGED <<timesheets, leave_days, settled>> PROVE SettledHolds'
BY DEF SheetsInv, SettledHolds, Now, Told

\* Whoever reads, or works on what it read, is disturbed by a write.
LEMMA DisturbsAll ==
    ASSUME SheetsInv, NEW i \in Importers
    PROVE  \E c : /\ c = Disturbed[i] /\ ClerkTyped(c) /\ ClerkAgrees(c)'
                  /\ c.pc = "preview" => review_json \in Reviews
<1>1. ClerkTyped(clerk[i]) /\ (clerk[i].pc = "preview" => review_json \in Reviews)
  BY DEF SheetsInv, SheetsTyped
<1>2. CASE clerk[i].pc \in {"leave", "rows", "report"}
  <2>. PICK c : c = [clerk[i] EXCEPT !.alone = FALSE]
    OBVIOUS
  <2>1. Disturbed[i] = c
    BY <1>2 DEF Disturbed
  <2>2. /\ DOMAIN c = DOMAIN clerk[i] /\ "alone" \in DOMAIN c /\ c.alone = FALSE
        /\ \A f \in DOMAIN c \ {"alone"} : c[f] = clerk[i][f]
    BY <1>1, <1>2 DEF ClerkTyped, Working
  <2>3. c.pc = clerk[i].pc /\ c.review = clerk[i].review /\ c.table = clerk[i].table /\ c.left = clerk[i].left
    BY <1>1, <1>2 DEF ClerkTyped, Working
  <2>4. ClerkTyped(c)
    BY <1>1, <1>2, <2>2, <2>3 DEF ClerkTyped, Working
  <2>5. ClerkAgrees(c)'
    BY <1>2, <2>2, <2>3 DEF ClerkAgrees, Working
  <2>. QED
    BY <1>2, <2>1, <2>3, <2>4, <2>5
<1>3. CASE clerk[i].pc = "shown"
  <2>1. Disturbed[i] = Free
    BY <1>3 DEF Disturbed
  <2>. QED
    BY <2>1 DEF Free, ClerkTyped, ClerkAgrees, Working
<1>4. CASE clerk[i].pc \notin {"leave", "rows", "report", "shown"}
  <2>. PICK c : c = clerk[i]
    OBVIOUS
  <2>1. Disturbed[i] = c
    BY <1>4 DEF Disturbed
  <2>2. ClerkAgrees(c)'
    BY <1>4 DEF ClerkAgrees, Working
  <2>. QED
    BY <1>1, <2>1, <2>2
<1>. QED
  BY <1>2, <1>3, <1>4

\* A step that writes a day, or changes the leave.
LEMMA LoudSheets ==
    ASSUME SheetsInv, timesheets' \in DayTables, row_ids' \in Nat, DaysAddUp', settled' = NoReview,
           hand' \in [Keepers -> KeeperHands], UNCHANGED <<job, review_json>>, DOMAIN clerk' = Importers,
           \A i \in Importers :
              \/ clerk'[i] = Disturbed[i]
              \/ ClerkTyped(clerk'[i]) /\ ClerkAgrees(clerk[i])' /\ clerk'[i].pc # "preview"
    PROVE  SheetsInv'
<1>1. ASSUME NEW i \in Importers
      PROVE  ClerkTyped(clerk[i])' /\ (clerk'[i].pc = "preview" => review_json' \in Reviews) /\ ClerkAgrees(clerk[i])'
  <2>1. CASE clerk'[i] = Disturbed[i]
    <3>1. PICK c : c = Disturbed[i] /\ ClerkTyped(c) /\ ClerkAgrees(c)' /\ (c.pc = "preview" => review_json \in Reviews)
      BY DisturbsAll
    <3>2. clerk'[i] = c
      BY <2>1, <3>1
    <3>. QED
      BY <3>1, <3>2
  <2>2. CASE clerk'[i] # Disturbed[i]
    BY <2>2 DEF ClerkTyped
  <2>. QED
    BY <2>1, <2>2
<1>2. SheetsTyped'
  BY <1>1 DEF SheetsInv, SheetsTyped
<1>. QED
  BY <1>1, <1>2 DEF SheetsInv, SettledHolds

LEMMA SheetsBegun ==
    ASSUME TimesheetAssumption, SheetsBegin PROVE SheetsInv
<1>. PICK first \in Timetables, review \in Reviews \cup {NoReview} : SheetsInit(first, review)
  BY DEF SheetsBegin
<1>1. first \in DayTables
  BY DEF Timetables, DayTables
<1>2. row_ids \in Nat
  <2>. DEFINE filled == {k \in Keys : first[k] # NoSheet}
  <2>1. IsFiniteSet(Keys)
    BY FS_Product DEF TimesheetAssumption, Keys
  <2>2. Cardinality(filled) \in Nat
    BY <2>1, FS_Subset, FS_CardinalityType
  <2>. QED
    BY <2>2 DEF SheetsInit
<1>3. /\ timesheets \in DayTables /\ settled = NoReview /\ DaysAddUp
      /\ \A i \in Importers : clerk[i] = Free
      /\ DOMAIN clerk = Importers
  BY <1>1 DEF SheetsInit, DaysAddUp
<1>4. job \in Jobs /\ (job.review => review_json \in Reviews)
  BY DEF SheetsInit, Jobs
<1>5. hand \in [Keepers -> KeeperHands]
  BY DEF SheetsInit, KeeperHands, Free
<1>6. ClerkTyped(Free) /\ ClerkAgrees(Free) /\ Free.pc = "free"
  BY DEF ClerkTyped, ClerkAgrees, Free, Working
<1>. QED
  BY <1>2, <1>3, <1>4, <1>5, <1>6 DEF SheetsInv, SheetsTyped, SettledHolds

\* Somebody's request goes on, and nothing is written.
LEMMA ClerkGoes ==
    ASSUME SheetsInv, NEW i \in Importers, NEW next, clerk' = [clerk EXCEPT ![i] = next],
           UNCHANGED <<timesheets, row_ids, leave_days, loose, hand>>,
           ClerkTyped(next), ClerkAgrees(next), next.pc = "preview" => review_json' \in Reviews,
           job' \in Jobs, job'.review => review_json' \in Reviews, review_json \in Reviews => review_json' \in Reviews,
           settled' \in Reviews \cup {NoReview}, SettledHolds'
    PROVE  SheetsInv'
<1>1. DOMAIN clerk = Importers /\ hand \in [Keepers -> KeeperHands]
  BY DEF SheetsInv, SheetsTyped
<1>2. DOMAIN clerk' = Importers /\ clerk'[i] = next /\ \A j \in Importers \ {i} : clerk'[j] = clerk[j]
  BY <1>1
<1>. QED
  BY <1>1, <1>2, QuietSheets

LEMMA JobMoves ==
    ASSUME TimesheetAssumption, SheetsInv, NEW i \in Importers,
           \/ upload_pdf(i) \/ cancel_job(i) \/ run_extract(i) \/ EndExtract(i) \/ ImportFails(i)
           \/ (\E review \in Reviews : upload_review_json(i, review))
           \/ (\E visible \in Watchers : get_preview(i, visible))
           \/ (\E dry_run \in BOOLEAN : apply_import(i, dry_run))
    PROVE  SheetsInv'
<1>1. /\ job \in Jobs /\ (job.review => review_json \in Reviews) /\ DOMAIN clerk = Importers
      /\ job.status \in {"draft", "uploaded", "extracting", "review_ready", "cancelled", "completed"}
      /\ job.documents \in {0, 1} /\ job.review \in BOOLEAN /\ hand \in [Keepers -> KeeperHands]
      /\ settled \in Reviews \cup {NoReview}
  BY DEF SheetsInv, SheetsTyped, Jobs
<1>2. ClerkTyped(Free) /\ ClerkAgrees(Free) /\ Free.pc = "free"
  BY DEF ClerkTyped, ClerkAgrees, Free, Working
<1>3. UNCHANGED <<timesheets, row_ids, leave_days, loose, hand, settled>>
  BY DEF upload_pdf, cancel_job, run_extract, EndExtract, ImportFails, upload_review_json, get_preview, apply_import,
         OnlyTheJob, sheet_tables
<1>4. SettledHolds'
  BY <1>3, SettledStays
<1>5. CASE upload_pdf(i) \/ cancel_job(i) \/ \E review \in Reviews : upload_review_json(i, review)
  <2>1. clerk' = clerk
    BY <1>5 DEF upload_pdf, cancel_job, upload_review_json
  <2>2. job' \in Jobs /\ (job'.review => review_json' \in Reviews) /\ (review_json \in Reviews => review_json' \in Reviews)
    BY <1>1, <1>5 DEF upload_pdf, cancel_job, upload_review_json, save_review_json, Jobs
  <2>. QED
    BY <1>1, <1>3, <1>4, <2>1, <2>2, QuietSheets
<1>6. CASE run_extract(i)
  <2>. DEFINE next == [pc |-> "extract"]
  <2>1. clerk' = [clerk EXCEPT ![i] = next] /\ job' \in Jobs /\ job'.review = job.review /\ review_json' = review_json
    BY <1>1, <1>6 DEF run_extract, Clerk, Jobs
  <2>2. ClerkTyped(next) /\ ClerkAgrees(next) /\ next.pc # "preview"
    BY DEF ClerkTyped, ClerkAgrees, Working
  <2>. QED
    BY <1>1, <1>3, <1>4, <2>1, <2>2, ClerkGoes
<1>7. CASE EndExtract(i) \/ ImportFails(i)
  <2>1. clerk' = [clerk EXCEPT ![i] = Free]
    BY <1>7 DEF EndExtract, ImportFails, Clerk
  <2>2. job' \in Jobs /\ (job'.review => review_json' \in Reviews) /\ (review_json \in Reviews => review_json' \in Reviews)
    BY <1>1, <1>7 DEF EndExtract, ImportFails, save_review_json, Jobs
  <2>. QED
    BY <1>1, <1>2, <1>3, <1>4, <2>1, <2>2, ClerkGoes
<1>8. ASSUME NEW visible \in Watchers, get_preview(i, visible) PROVE SheetsInv'
  <2>. DEFINE next == [pc |-> "preview", job |-> job, review |-> review_json, visible |-> visible]
  <2>1. clerk' = [clerk EXCEPT ![i] = next] /\ job' = job /\ job.review /\ review_json' = review_json
    BY <1>8 DEF get_preview, Clerk
  <2>2. ClerkTyped(next) /\ ClerkAgrees(next)
    BY <1>1, <2>1 DEF ClerkTyped, ClerkAgrees, Working
  <2>. QED
    BY <1>1, <1>3, <1>4, <2>1, <2>2, ClerkGoes
<1>9. ASSUME NEW dry_run \in BOOLEAN, apply_import(i, dry_run) PROVE SheetsInv'
  <2>. DEFINE next == [pc |-> "table", apply |-> ~dry_run, review |-> review_json, alone |-> TRUE]
  <2>1. clerk' = [clerk EXCEPT ![i] = next] /\ job' = job /\ job.review /\ review_json' = review_json
    BY <1>9 DEF apply_import, Clerk
  <2>2. ClerkTyped(next) /\ ClerkAgrees(next) /\ next.pc = "table"
    BY <1>1, <2>1 DEF ClerkTyped, ClerkAgrees, Working
  <2>. QED
    BY <1>1, <1>3, <1>4, <2>1, <2>2, ClerkGoes
<1>. QED
  BY <1>5, <1>6, <1>7, <1>8, <1>9

\* A preview shows the writes of this moment; an import takes down the table, and what it
\* has to write of it.
LEMMA ReadingsHold ==
    ASSUME TimesheetAssumption, SheetsInv, NEW i \in Importers,
           ShowPreview(i) \/ fetch_timesheets_map(i) \/ fetch_leaves(i)
    PROVE  SheetsInv'
<1>1. /\ job \in Jobs /\ (job.review => review_json \in Reviews) /\ timesheets \in DayTables
      /\ ClerkTyped(clerk[i]) /\ ClerkAgrees(clerk[i]) /\ (clerk[i].pc = "preview" => review_json \in Reviews)
      /\ settled \in Reviews \cup {NoReview}
  BY DEF SheetsInv, SheetsTyped
<1>2. UNCHANGED <<timesheets, row_ids, leave_days, loose, hand, settled, review_json>>
  BY DEF ShowPreview, fetch_timesheets_map, fetch_leaves, OnlyTheJob, sheet_tables
<1>3. SettledHolds'
  BY <1>2, SettledStays
<1>4. CASE ShowPreview(i)
  <2>. DEFINE review == clerk[i].review
              lines == _filter_preview_for_scope(build_preview(review, timesheets, leave_days), clerk[i].visible)
              next == [pc |-> "shown", review |-> review, visible |-> clerk[i].visible, lines |-> lines]
              planned == PlannedWrites(review, timesheets, leave_days)
  <2>1. clerk' = [clerk EXCEPT ![i] = next] /\ job' = clerk[i].job /\ clerk[i].pc = "preview"
    BY <1>4 DEF ShowPreview, Clerk
  <2>2. review \in Reviews /\ clerk[i].job \in Jobs
    BY <1>1, <2>1 DEF ClerkTyped
  <2>3. {l.key : l \in lines} = {planned[l].key : l \in {x \in DOMAIN planned : planned[x].key[1] \in clerk[i].visible}}
    <3>. HIDE DEF planned
    <3>1. lines = {l \in {[key |-> planned[x].key, kind |-> IF planned[x].existing = NoSheet THEN "create" ELSE "update"] :
                          x \in DOMAIN planned} : l.key[1] \in clerk[i].visible}
      BY DEF _filter_preview_for_scope, build_preview, planned
    <3>. DEFINE of(x) == [key |-> planned[x].key, kind |-> IF planned[x].existing = NoSheet THEN "create" ELSE "update"]
                shown == {x \in DOMAIN planned : planned[x].key[1] \in clerk[i].visible}
    <3>2. \A x : of(x).key = planned[x].key
      OBVIOUS
    <3>. HIDE DEF of
    <3>3. lines = {l \in {of(x) : x \in DOMAIN planned} : l.key[1] \in clerk[i].visible}
      BY <3>1 DEF of
    <3>4. lines = {of(x) : x \in shown}
      BY <3>2, <3>3
    <3>. HIDE DEF lines, shown
    <3>5. {l.key : l \in lines} = {planned[x].key : x \in shown}
      BY <3>2, <3>4
    <3>. QED
      BY <3>5 DEF shown
  <2>4. ClerkTyped(next)
    BY <2>2 DEF ClerkTyped, Working
  <2>5. ClerkAgrees(next)
    <3>1. next.pc = "shown" /\ next.review = review /\ next.visible = clerk[i].visible /\ next.lines = lines
      OBVIOUS
    <3>. HIDE DEF next, lines
    <3>. QED
      BY <2>3, <3>1 DEF ClerkAgrees, Working
  <2>. QED
    BY <1>1, <1>2, <1>3, <2>1, <2>2, <2>4, <2>5, ClerkGoes
<1>5. CASE fetch_timesheets_map(i)
  <2>. DEFINE next == [pc |-> "leave", apply |-> clerk[i].apply, review |-> clerk[i].review, table |-> timesheets, alone |-> TRUE]
  <2>1. clerk' = [clerk EXCEPT ![i] = next] /\ job' = job /\ clerk[i].pc = "table"
    BY <1>5 DEF fetch_timesheets_map, Clerk
  <2>2. clerk[i].review \in Reviews
    BY <1>1, <2>1 DEF ClerkTyped
  <2>3. ClerkTyped(next) /\ ClerkAgrees(next) /\ next.pc = "leave"
    BY <1>1, <2>2 DEF ClerkTyped, ClerkAgrees, Working
  <2>. QED
    BY <1>1, <1>2, <1>3, <2>1, <2>3, ClerkGoes
<1>6. CASE fetch_leaves(i)
  <2>. DEFINE c == clerk[i]
              aborts == c.apply /\ duplicate_sheet_groups(c.review)
              left == IF aborts \/ ~c.apply THEN <<>> ELSE PlannedWrites(c.review, c.table, leave_days)
              next == [pc |-> IF DOMAIN left = {} THEN "report" ELSE "rows", apply |-> c.apply, aborted |-> aborts,
                       review |-> c.review, left |-> left, alone |-> c.alone]
  <2>1. clerk' = [clerk EXCEPT ![i] = next] /\ job' = job /\ c.pc = "leave"
    BY <1>6 DEF fetch_leaves, Clerk
  <2>2. c.review \in Reviews /\ c.table \in DayTables /\ (c.alone => c.table = timesheets)
    BY <1>1, <2>1 DEF ClerkTyped, ClerkAgrees
  <2>. DEFINE planned == PlannedWrites(c.review, c.table, leave_days)
  <2>3. /\ DOMAIN planned \subseteq SheetLines(c.review)
        /\ \A line \in DOMAIN planned : GoodWrite(planned[line])
        /\ \A line \in SheetLines(c.review) :
              LET w == WriteOf(c.review, line, c.table, leave_days)
              IN  IF line \in DOMAIN planned THEN planned[line] = w ELSE w.patch = NoSheet
    <3>1. /\ DOMAIN planned = {l \in SheetLines(c.review) : WriteOf(c.review, l, c.table, leave_days).patch # NoSheet}
          /\ \A line \in DOMAIN planned : planned[line] = WriteOf(c.review, line, c.table, leave_days)
      BY DEF PlannedWrites
    <3>. HIDE DEF planned
    <3>2. \A line \in DOMAIN planned : GoodWrite(planned[line])
      BY <2>2, <3>1, WritesAreGood
    <3>. QED
      BY <3>1, <3>2
  <2>. HIDE DEF planned, aborts
  <2>4. left = IF aborts \/ ~c.apply THEN <<>> ELSE planned
    BY DEF planned
  <2>5. /\ next.pc = (IF DOMAIN left = {} THEN "report" ELSE "rows") /\ next.apply = c.apply /\ next.aborted = aborts
        /\ next.review = c.review /\ next.left = left /\ next.alone = c.alone
        /\ DOMAIN next = {"pc", "apply", "aborted", "review", "left", "alone"}
    OBVIOUS
  <2>. HIDE DEF left, next
  <2>6. ClerkTyped(next)
    <3>1. DOMAIN left \subseteq SheetLines(c.review) /\ \A line \in DOMAIN left : GoodWrite(left[line])
      BY <2>3, <2>4
    <3>. QED
      BY <2>2, <2>5, <3>1 DEF ClerkTyped, Working
  <2>7. ClerkAgrees(next)
    <3>1. next.pc \in Working
      BY <2>5 DEF Working
    <3>2. ASSUME c.apply, ~aborts, c.alone, NEW line \in SheetLines(c.review)
          PROVE  IF line \in DOMAIN left THEN left[line] = Now(c.review, line) ELSE Told(Now(c.review, line))
      BY <2>2, <2>3, <2>4, <3>2 DEF Now, Told
    <3>. QED
      BY <2>5, <3>1, <3>2 DEF ClerkAgrees, Working
  <2>. QED
    BY <1>1, <1>2, <1>3, <2>1, <2>5, <2>6, <2>7, ClerkGoes
<1>. QED
  BY <1>4, <1>5, <1>6

\* A report closes an import; one that nobody disturbed has told every line.
LEMMA ReportsHold ==
    ASSUME SheetsInv, NEW i \in Importers, save_apply_report(i)
    PROVE  SheetsInv'
<1>. DEFINE c == clerk[i]
<1>1. /\ job \in Jobs /\ (job.review => review_json \in Reviews)
      /\ ClerkTyped(c) /\ ClerkAgrees(c) /\ settled \in Reviews \cup {NoReview} /\ SettledHolds
  BY DEF SheetsInv, SheetsTyped
<1>2. /\ UNCHANGED <<timesheets, row_ids, leave_days, loose, hand, review_json>>
      /\ clerk' = [clerk EXCEPT ![i] = Free] /\ c.pc = "report"
      /\ job' = (IF c.apply THEN [job EXCEPT !.status = "completed"] ELSE job)
      /\ settled' = (IF c.apply /\ ~c.aborted /\ c.alone THEN c.review ELSE settled)
  BY DEF save_apply_report, Clerk, sheet_tables
<1>3. job' \in Jobs /\ job'.review = job.review
  BY <1>1, <1>2 DEF Jobs
<1>4. c.review \in Reviews /\ DOMAIN c.left = {}
  BY <1>1, <1>2 DEF ClerkTyped, Working
<1>5. SettledHolds'
  <2>1. CASE c.apply /\ ~c.aborted /\ c.alone
    <3>1. settled' = c.review
      BY <1>2, <2>1
    <3>2. OncePerDay(c.review) => \A line \in SheetLines(c.review) : Told(Now(c.review, line))
      BY <1>1, <1>2, <1>4, <2>1 DEF ClerkAgrees, Working
    <3>. HIDE DEF c
    <3>. QED
      BY <1>2, <3>1, <3>2 DEF SettledHolds, Now, Told
  <2>2. CASE ~(c.apply /\ ~c.aborted /\ c.alone)
    BY <1>1, <1>2, <2>2 DEF SettledHolds, Now, Told
  <2>. QED
    BY <2>1, <2>2
<1>6. ClerkTyped(Free) /\ ClerkAgrees(Free) /\ Free.pc = "free"
  BY DEF ClerkTyped, ClerkAgrees, Free, Working
<1>7. settled' \in Reviews \cup {NoReview}
  BY <1>1, <1>2, <1>4
<1>. HIDE DEF SheetsInv
<1>. QED
  BY <1>1, <1>2, <1>3, <1>5, <1>6, <1>7, ClerkGoes

LEMMA NextLineIsLeft ==
    ASSUME NEW left, DOMAIN left \subseteq Nat \X Nat, DOMAIN left # {}
    PROVE  NextLine(left) \in DOMAIN left
<1>. DEFINE lines == DOMAIN left
            of == {l[1] : l \in lines}
            sheet == Min(of)
            days == {l[2] : l \in {x \in lines : x[1] = sheet}}
<1>1. of \subseteq Nat /\ of # {}
  OBVIOUS
<1>. HIDE DEF of
<1>2. sheet \in of
  BY <1>1, LeastIn
<1>. HIDE DEF sheet
<1>3. days \subseteq Nat /\ days # {}
  BY <1>2 DEF of
<1>. HIDE DEF days
<1>4. Min(days) \in days
  BY <1>3, LeastIn
<1>5. PICK l \in lines : l[1] = sheet /\ l[2] = Min(days)
  BY <1>4 DEF days
<1>6. l = <<sheet, Min(days)>>
  BY <1>5
<1>7. NextLine(left) = <<sheet, Min(days)>>
  BY DEF NextLine, sheet, of, days
<1>. QED
  BY <1>5, <1>6, <1>7

\* A line is about its day.
LEMMA LineStays ==
    ASSUME NEW review, NEW line, timesheets'[KeyOf(review, line)] = timesheets[KeyOf(review, line)], leave_days' = leave_days
    PROVE  Now(review, line)' = Now(review, line) /\ (Told(Now(review, line))' <=> Told(Now(review, line)))
<1>. PICK k : k = KeyOf(review, line)
  OBVIOUS
<1>. PICK w : w = Now(review, line)
  OBVIOUS
<1>1. w.key = k
  BY DEF Now, WriteOf
<1>2. Now(review, line)' = w
  BY DEF Now, WriteOf
<1>3. Told(w)' <=> Told(w)
  BY <1>1 DEF Told
<1>4. Told(Now(review, line))' <=> Told(w)'
  BY <1>2 DEF Told
<1>. QED
  BY <1>2, <1>3, <1>4

\* The write of a line of a review, as things are: its day is r afterwards.
IsWrite(review, line, w, n, r) ==
    /\ review \in Reviews /\ line \in SheetLines(review) /\ OncePerDay(review)
    /\ w = Now(review, line) /\ w.patch # NoSheet /\ n \in Nat
    /\ r = IF w.existing = NoSheet THEN NewRow(n, Patched(NoSheet, w.patch)) ELSE Over(w.existing, w.patch)

LEMMA WriteTells ==
    ASSUME TimesheetAssumption, NEW review, NEW line, NEW w, NEW n, NEW r, IsWrite(review, line, w, n, r),
           timesheets \in DayTables, leave_days' = leave_days, timesheets' = [timesheets EXCEPT ![w.key] = r]
    PROVE  /\ Told(Now(review, line))'
           /\ \A l \in SheetLines(review) \ {line} : Now(review, l)' = Now(review, l)
                                                   /\ (Told(Now(review, l))' <=> Told(Now(review, l)))
<1>. /\ review \in Reviews /\ line \in SheetLines(review) /\ OncePerDay(review)
     /\ w = Now(review, line) /\ w.patch # NoSheet /\ n \in Nat
     /\ r = IF w.existing = NoSheet THEN NewRow(n, Patched(NoSheet, w.patch)) ELSE Over(w.existing, w.patch)
  BY DEF IsWrite
<1>. DEFINE entry == Entry(review, line)
            k == KeyOf(review, line)
            there == k \in leave_days
<1>1. k \in Keys /\ entry.hours \in Int /\ entry.night \subseteq Int
  BY LinesAreDays
<1>2. w.key = k /\ w.existing = timesheets[k] /\ w.patch = build_patch(entry, timesheets[k], there)
  BY DEF Now, WriteOf
<1>3. w.existing \in SheetRows \cup {NoSheet} /\ timesheets'[k] = r
  BY <1>1, <1>2 DEF DayTables
<1>4. ASSUME NEW l \in SheetLines(review) \ {line}
      PROVE  Now(review, l)' = Now(review, l) /\ (Told(Now(review, l))' <=> Told(Now(review, l)))
  <2>1. KeyOf(review, l) # k /\ KeyOf(review, l) \in Keys
    BY LinesAreDays DEF OncePerDay
  <2>2. timesheets'[KeyOf(review, l)] = timesheets[KeyOf(review, l)]
    BY <1>2, <2>1 DEF DayTables
  <2>. QED
    BY <2>2, LineStays
<1>5. Told(Now(review, line))'
  <2>. PICK q : q = build_patch(entry, r, there)
    OBVIOUS
  <2>. PICK v : v = [key |-> k, existing |-> r, patch |-> q, extra |-> there]
    OBVIOUS
  <2>1. Now(review, line)' = v
    BY <1>3 DEF Now, WriteOf
  <2>. HIDE DEF entry, there, k
  <2>2. r # NoSheet /\ r \in SheetRows
    <3>1. there \in BOOLEAN /\ w.patch = build_patch(entry, w.existing, there)
      BY <1>2 DEF there
    <3>2. w.patch \in Patches
      BY <1>1, <1>3, <3>1, PatchOf
    <3>3. r \in SheetRows
      BY <1>3, <3>2, PatchesRow, PatchesNothing
    <3>. QED
      BY <3>3 DEF TimesheetAssumption
  <2>3. q # NoSheet => Over(r, q) = r
    <3>1. there \in BOOLEAN /\ w.patch = build_patch(entry, w.existing, there)
      BY <1>2 DEF there
    <3>. QED
      BY <1>1, <1>3, <3>1, WrittenIsTold
  <2>4. Told(v)'
    BY <1>3, <2>2, <2>3 DEF Told, Patched
  <2>. QED
    BY <2>1, <2>4 DEF Told
<1>. QED
  BY <1>4, <1>5

\* One write of an import.
LEMMA PatchesHold ==
    ASSUME TimesheetAssumption, SheetsInv, NEW i \in Importers, apply_patch(i)
    PROVE  SheetsInv'
<1>. DEFINE c == clerk[i]
            line == NextLine(c.left)
            w == c.left[line]
            row == timesheets[w.key]
            crossed == row # w.existing /\ row # Patched(w.existing, w.patch)
            rest == [l \in DOMAIN c.left \ {line} |-> c.left[l]]
            mine == [c EXCEPT !.left = rest, !.pc = IF DOMAIN rest = {} THEN "report" ELSE "rows"]
            old == /\ w.existing # NoSheet /\ row # NoSheet /\ row.id = w.existing.id
                   /\ timesheets' = [timesheets EXCEPT ![w.key] = Patched(row, w.patch)]
                   /\ loose' = IF crossed \/ w.extra THEN loose \cup {w.key} ELSE loose
                   /\ clerk' = [Disturbed EXCEPT ![i] = mine] /\ UNCHANGED row_ids
            new == /\ w.existing = NoSheet /\ row = NoSheet
                   /\ timesheets' = [timesheets EXCEPT ![w.key] = NewRow(row_ids + 1, Patched(NoSheet, w.patch))]
                   /\ row_ids' = row_ids + 1
                   /\ loose' = IF w.extra THEN loose \cup {w.key} ELSE loose \ {w.key}
                   /\ clerk' = [Disturbed EXCEPT ![i] = mine]
            gone == /\ w.existing # NoSheet /\ ~StillThere(row, w.existing.id)
                    /\ clerk' = [clerk EXCEPT ![i] = mine] /\ UNCHANGED <<timesheets, row_ids, loose>>
            taken == /\ w.existing = NoSheet /\ row # NoSheet
                     /\ clerk' = [clerk EXCEPT ![i] = Free] /\ UNCHANGED <<timesheets, row_ids, loose>>
<1>1. /\ c.pc = "rows" /\ (old \/ new \/ gone \/ taken)
      /\ settled' = NoReview /\ UNCHANGED <<leave_days, job, review_json, hand>>
  BY DEF apply_patch, Clerk
<1>2. /\ ClerkTyped(c) /\ ClerkAgrees(c) /\ timesheets \in DayTables /\ row_ids \in Nat
      /\ job \in Jobs /\ (job.review => review_json \in Reviews) /\ hand \in [Keepers -> KeeperHands]
      /\ DOMAIN clerk = Importers /\ DaysAddUp
  <2>1. SheetsTyped /\ DaysAddUp /\ ClerkAgrees(c)
    BY ONLY SheetsInv, i \in Importers DEF SheetsInv
  <2>. QED
    BY ONLY <2>1, i \in Importers DEF SheetsTyped
<1>3. /\ c.review \in Reviews /\ {"left", "alone", "pc"} \subseteq DOMAIN c
      /\ DOMAIN c.left \subseteq SheetLines(c.review) /\ \A l \in DOMAIN c.left : GoodWrite(c.left[l])
      /\ DOMAIN c.left # {}
  BY <1>1, <1>2 DEF ClerkTyped, Working
<1>4. line \in DOMAIN c.left
  <2>1. DOMAIN c.left \subseteq Nat \X Nat
    BY <1>3, LinesAreDays
  <2>. QED
    BY <1>3, <2>1, NextLineIsLeft
<1>5. /\ mine.left = rest /\ mine.pc = (IF DOMAIN rest = {} THEN "report" ELSE "rows") /\ DOMAIN mine = DOMAIN c
      /\ mine.alone = c.alone /\ mine.review = c.review /\ mine.apply = c.apply /\ mine.aborted = c.aborted
      /\ DOMAIN rest = DOMAIN c.left \ {line} /\ \A l \in DOMAIN rest : rest[l] = c.left[l]
  BY <1>3
<1>. HIDE DEF mine, rest, line
<1>6. ClerkTyped(mine) /\ mine.pc \in Working
  BY <1>3, <1>5 DEF ClerkTyped, Working
<1>7. GoodWrite(w)
  BY <1>3, <1>4
<1>8. w.key \in Keys /\ row \in SheetRows \cup {NoSheet}
  BY <1>2, <1>7 DEF GoodWrite, DayTables
<1>. HIDE DEF w
<1>. PICK review : review = c.review
  OBVIOUS
<1>. PICK write : write = w
  OBVIOUS
<1>. PICK m : m = mine
  OBVIOUS
<1>. PICK place : place = line
  OBVIOUS
<1>9. ASSUME c.apply, ~c.aborted, c.alone, OncePerDay(review)
      PROVE  /\ \A l \in SheetLines(review) : IF l \in DOMAIN c.left THEN c.left[l] = Now(review, l) ELSE Told(Now(review, l))
             /\ place \in SheetLines(review) /\ write = Now(review, place) /\ w.existing = row
  <2>1. \A l \in SheetLines(review) : IF l \in DOMAIN c.left THEN c.left[l] = Now(review, l) ELSE Told(Now(review, l))
    BY <1>1, <1>2, <1>9 DEF ClerkAgrees, Working
  <2>2. line \in SheetLines(review) /\ w = Now(review, line)
    BY <1>3, <1>4, <2>1 DEF w
  <2>3. w.existing = row
    BY <2>2 DEF Now, WriteOf
  <2>. QED
    BY <2>1, <2>2, <2>3
<1>10. ASSUME NEW n \in Nat, NEW r, timesheets' = [timesheets EXCEPT ![w.key] = r],
              w.existing = row => r = IF w.existing = NoSheet THEN NewRow(n, Patched(NoSheet, w.patch)) ELSE Over(w.existing, w.patch)
       PROVE  ClerkAgrees(m)'
  <2>1. SUFFICES ASSUME m.apply, ~m.aborted, m.alone, OncePerDay(m.review), NEW l \in SheetLines(m.review)
                 PROVE  IF l \in DOMAIN m.left THEN m.left[l] = Now(m.review, l)' ELSE Told(Now(m.review, l))'
    BY <1>6 DEF ClerkAgrees, Working, Now
  <2>2. c.apply /\ ~c.aborted /\ c.alone /\ OncePerDay(review) /\ m.review = review /\ l \in SheetLines(review)
    BY <1>5, <2>1
  <2>3. /\ IF l \in DOMAIN c.left THEN c.left[l] = Now(review, l) ELSE Told(Now(review, l))
        /\ place \in SheetLines(review) /\ write = Now(review, place) /\ w.existing = row
    BY <1>9, <2>2
  <2>4. /\ review \in Reviews /\ write.patch # NoSheet /\ leave_days' = leave_days
        /\ timesheets' = [timesheets EXCEPT ![write.key] = r]
        /\ r = IF write.existing = NoSheet THEN NewRow(n, Patched(NoSheet, write.patch)) ELSE Over(write.existing, write.patch)
    <3>1. w.existing = row /\ write = w
      BY <2>3
    <3>2. r = IF write.existing = NoSheet THEN NewRow(n, Patched(NoSheet, write.patch)) ELSE Over(write.existing, write.patch)
      BY ONLY <1>10, <3>1
    <3>3. write.patch # NoSheet
      BY <1>7, <3>1 DEF GoodWrite
    <3>. QED
      BY <1>1, <1>3, <1>10, <3>1, <3>2, <3>3
  <2>5. /\ Told(Now(review, place))'
        /\ l # place => Now(review, l)' = Now(review, l) /\ (Told(Now(review, l))' <=> Told(Now(review, l)))
    <3>1. IsWrite(review, place, write, n, r)
      BY <2>2, <2>3, <2>4 DEF IsWrite
    <3>2. timesheets \in DayTables /\ leave_days' = leave_days /\ timesheets' = [timesheets EXCEPT ![write.key] = r]
      BY <1>2, <2>4
    <3>3. Told(Now(review, place))'
      BY ONLY TimesheetAssumption, <3>1, <3>2, WriteTells
    <3>4. \A x \in SheetLines(review) \ {place} : Now(review, x)' = Now(review, x)
                                                   /\ (Told(Now(review, x))' <=> Told(Now(review, x)))
      BY ONLY TimesheetAssumption, <3>1, <3>2, WriteTells
    <3>. QED
      BY <2>2, <3>3, <3>4
  <2>6. CASE l = place
    <3>1. l \notin DOMAIN m.left
      BY <1>5, <2>6
    <3>. QED
      BY <2>2, <2>5, <2>6, <3>1 DEF Told, Now
  <2>7. CASE l # place
    <3>1. l \in DOMAIN m.left <=> l \in DOMAIN c.left
      BY <1>5, <2>7
    <3>2. l \in DOMAIN m.left => m.left[l] = c.left[l]
      BY <1>5, <2>7
    <3>. QED
      BY <2>2, <2>3, <2>5, <2>7, <3>1, <3>2
  <2>. QED
    BY <2>6, <2>7
<1>11. CASE old
  <2>. PICK r : r = Patched(row, w.patch)
    OBVIOUS
  <2>1. /\ timesheets' = [timesheets EXCEPT ![w.key] = r] /\ row_ids' = row_ids
        /\ clerk' = [Disturbed EXCEPT ![i] = m] /\ row \in SheetRows /\ w.existing # NoSheet /\ row # NoSheet
        /\ loose' = IF crossed \/ w.extra THEN loose \cup {w.key} ELSE loose
    BY <1>8, <1>11
  <2>2. r = Over(row, w.patch) /\ r \in SheetRows /\ Over(r, w.patch) = r
    BY <1>7, <2>1, PatchesRow DEF Patched, GoodWrite
  <2>3. timesheets' \in DayTables /\ timesheets'[w.key] = r /\ \A k \in Keys \ {w.key} : timesheets'[k] = timesheets[k]
    BY <1>2, <1>8, <2>1, <2>2 DEF DayTables
  <2>4. ClerkAgrees(m)'
    BY <1>10, <2>1, <2>2
  <2>5. DaysAddUp'
    <3>1. ASSUME w.key \notin loose' PROVE AddsUp(r)
      <4>1. ~crossed /\ ~w.extra /\ w.key \notin loose
        BY <2>1, <3>1
      <4>2. AddsUp(row)
        BY <1>2, <1>8, <2>1, <4>1 DEF DaysAddUp
      <4>3. CASE row = w.existing
        BY <1>7, <2>1, <2>2, <4>1, <4>2, <4>3 DEF GoodWrite
      <4>4. CASE row = Patched(w.existing, w.patch)
        <5>1. row = Over(w.existing, w.patch)
          BY <2>1, <4>4 DEF Patched
        <5>2. Over(row, w.patch) = row
          BY <1>7, <2>1, <5>1, PatchesRow DEF GoodWrite
        <5>. QED
          BY <2>2, <4>2, <5>2
      <4>. QED
        BY <4>1, <4>3, <4>4
    <3>2. \A k \in Keys \ {w.key} : k \in loose' <=> k \in loose
      BY <2>1
    <3>3. ASSUME NEW k \in Keys \ loose', timesheets'[k] # NoSheet PROVE AddsUp(timesheets'[k])
      BY <1>2, <2>3, <3>1, <3>2, <3>3 DEF DaysAddUp
    <3>. QED
      BY <3>3 DEF DaysAddUp, AddsUp
  <2>6. DOMAIN clerk' = Importers /\ clerk'[i] = m /\ \A j \in Importers \ {i} : clerk'[j] = Disturbed[j]
    BY <2>1 DEF Disturbed
  <2>7. ClerkAgrees(clerk[i])' /\ ClerkTyped(clerk'[i]) /\ clerk'[i].pc # "preview"
    BY <1>6, <2>4, <2>6 DEF Working
  <2>. QED
    BY ONLY SheetsInv, <1>1, <1>2, <2>1, <2>3, <2>5, <2>6, <2>7, LoudSheets
<1>12. CASE new
  <2>. PICK r : r = NewRow(row_ids + 1, Patched(NoSheet, w.patch))
    OBVIOUS
  <2>1. /\ timesheets' = [timesheets EXCEPT ![w.key] = r] /\ row_ids' = row_ids + 1 /\ row_ids' \in Nat
        /\ clerk' = [Disturbed EXCEPT ![i] = m] /\ w.existing = NoSheet
        /\ loose' = IF w.extra THEN loose \cup {w.key} ELSE loose \ {w.key}
    BY <1>2, <1>12
  <2>2. r \in SheetRows /\ (~w.extra => AddsUp(r))
    BY <1>2, <1>7, <2>1, PatchesNothing DEF GoodWrite
  <2>3. timesheets' \in DayTables /\ timesheets'[w.key] = r /\ \A k \in Keys \ {w.key} : timesheets'[k] = timesheets[k]
    BY <1>2, <1>8, <2>1, <2>2 DEF DayTables
  <2>4. ClerkAgrees(m)'
    BY <1>2, <1>10, <2>1
  <2>5. DaysAddUp'
    <3>1. \A k \in Keys \ {w.key} : k \in loose' <=> k \in loose
      BY <2>1
    <3>2. ASSUME NEW k \in Keys \ loose', timesheets'[k] # NoSheet PROVE AddsUp(timesheets'[k])
      BY <1>2, <2>1, <2>2, <2>3, <3>1, <3>2 DEF DaysAddUp
    <3>. QED
      BY <3>2 DEF DaysAddUp, AddsUp
  <2>6. DOMAIN clerk' = Importers /\ clerk'[i] = m /\ \A j \in Importers \ {i} : clerk'[j] = Disturbed[j]
    BY <2>1 DEF Disturbed
  <2>7. ClerkAgrees(clerk[i])' /\ ClerkTyped(clerk'[i]) /\ clerk'[i].pc # "preview"
    BY <1>6, <2>4, <2>6 DEF Working
  <2>. QED
    BY ONLY SheetsInv, <1>1, <1>2, <2>1, <2>3, <2>5, <2>6, <2>7, LoudSheets
<1>13. CASE gone
  <2>1. UNCHANGED <<timesheets, row_ids, loose, leave_days, hand>> /\ clerk' = [clerk EXCEPT ![i] = m]
    BY <1>1, <1>13
  <2>2. ClerkAgrees(m)
    <3>1. w.existing # row
      BY <1>13 DEF StillThere
    <3>. QED
      BY <1>5, <1>6, <1>9, <3>1 DEF ClerkAgrees, Working
  <2>3. SettledHolds' /\ settled' \in Reviews \cup {NoReview}
    BY <1>1 DEF SettledHolds
  <2>4. m.pc # "preview" /\ ClerkTyped(m)
    BY <1>6 DEF Working
  <2>. QED
    BY ONLY SheetsInv, i \in Importers, <1>1, <1>2, <2>1, <2>2, <2>3, <2>4, ClerkGoes
<1>14. CASE taken
  <2>1. UNCHANGED <<timesheets, row_ids, loose, leave_days, hand>> /\ clerk' = [clerk EXCEPT ![i] = Free]
    BY <1>1, <1>14
  <2>2. ClerkTyped(Free) /\ ClerkAgrees(Free) /\ Free.pc # "preview"
    BY DEF ClerkTyped, ClerkAgrees, Free, Working
  <2>3. SettledHolds' /\ settled' \in Reviews \cup {NoReview}
    BY <1>1 DEF SettledHolds
  <2>. QED
    BY ONLY SheetsInv, i \in Importers, <1>1, <1>2, <2>1, <2>2, <2>3, ClerkGoes
<1>. HIDE DEF old, new, gone, taken
<1>. QED
  BY ONLY <1>1, <1>11, <1>12, <1>13, <1>14

\* Somebody opens a day, and saves it later.
LEMMA OpensHold ==
    ASSUME SheetsInv, NEW h \in Keepers, NEW k \in Keys, NEW hours \in HandRows,
           create_timesheet_entry(h, k, hours) \/ update_timesheet_entry(h, k, hours)
    PROVE  SheetsInv'
<1>1. /\ job \in Jobs /\ (job.review => review_json \in Reviews) /\ timesheets \in DayTables
      /\ DOMAIN clerk = Importers /\ hand \in [Keepers -> KeeperHands] /\ settled \in Reviews \cup {NoReview}
  BY DEF SheetsInv, SheetsTyped
<1>2. UNCHANGED <<timesheets, row_ids, leave_days, loose, job, review_json, clerk, settled>>
  BY DEF create_timesheet_entry, update_timesheet_entry, OnlyTheHand
<1>. DEFINE insert == [pc |-> "insert", key |-> k, hours |-> hours]
            update == [pc |-> "update", key |-> k, hours |-> hours, id |-> timesheets[k].id]
<1>3. insert \in KeeperHands
  BY DEF KeeperHands
<1>4. timesheets[k] # NoSheet => update \in KeeperHands
  BY <1>1 DEF DayTables, SheetRows, KeeperHands
<1>5. \/ hand' = [hand EXCEPT ![h] = insert]
      \/ timesheets[k] # NoSheet /\ hand' = [hand EXCEPT ![h] = update]
  BY DEF create_timesheet_entry, update_timesheet_entry
<1>. HIDE DEF insert, update
<1>6. hand' \in [Keepers -> KeeperHands]
  BY <1>1, <1>3, <1>4, <1>5
<1>7. SettledHolds'
  BY <1>2, SettledStays
<1>. QED
  BY ONLY SheetsInv, <1>1, <1>2, <1>6, <1>7, QuietSheets

\* Whoever writes a day by hand, or changes the leave, disturbs everybody.
LEMMA HandWrites ==
    ASSUME SheetsInv, timesheets' \in DayTables, row_ids' \in Nat, DaysAddUp', settled' = NoReview,
           hand' \in [Keepers -> KeeperHands], UNCHANGED <<job, review_json>>, clerk' = Disturbed
    PROVE  SheetsInv'
<1>1. DOMAIN clerk' = Importers /\ \A i \in Importers : clerk'[i] = Disturbed[i]
  BY DEF Disturbed
<1>. QED
  BY <1>1, LoudSheets

LEMMA SavesHold ==
    ASSUME TimesheetAssumption, SheetsInv, NEW h \in Keepers, SaveEntry(h)
    PROVE  SheetsInv'
<1>. DEFINE k == hand[h].key
            row == timesheets[k]
            hours == hand[h].hours
            inserts == /\ hand[h].pc = "insert" /\ row = NoSheet
                       /\ Entered(k, NewRow(row_ids + 1, hours))
                       /\ row_ids' = row_ids + 1 /\ settled' = NoReview /\ clerk' = Disturbed
            updates == /\ hand[h].pc = "update" /\ StillThere(row, hand[h].id)
                       /\ Entered(k, Over(row, hours))
                       /\ settled' = NoReview /\ clerk' = Disturbed /\ UNCHANGED row_ids
            refused == UNCHANGED <<timesheets, row_ids, loose, settled, clerk>>
<1>1. /\ hand[h].pc # "free" /\ hand' = [hand EXCEPT ![h] = Free] /\ (inserts \/ updates \/ refused)
      /\ UNCHANGED <<leave_days, job, review_json>>
  BY DEF SaveEntry, OnlyTheHand
<1>2. /\ job \in Jobs /\ (job.review => review_json \in Reviews) /\ timesheets \in DayTables /\ row_ids \in Nat
      /\ DOMAIN clerk = Importers /\ hand \in [Keepers -> KeeperHands] /\ settled \in Reviews \cup {NoReview} /\ DaysAddUp
  BY DEF SheetsInv, SheetsTyped
<1>3. hand' \in [Keepers -> KeeperHands]
  BY <1>1, <1>2 DEF KeeperHands, Free
<1>4. k \in Keys /\ hours \in HandRows
  BY <1>1, <1>2 DEF KeeperHands
<1>5. hours \in Hours
  BY <1>4 DEF TimesheetAssumption
<1>. HIDE DEF hours, k
<1>6. ASSUME NEW r \in SheetRows, Entered(k, r) PROVE timesheets' \in DayTables /\ DaysAddUp'
  <2>1. /\ timesheets'[k] = r /\ (k \notin loose' => AddsUp(r))
        /\ \A x \in Keys \ {k} : timesheets'[x] = timesheets[x] /\ (x \in loose' <=> x \in loose)
    BY <1>2, <1>4, <1>6 DEF DayTables, Entered
  <2>2. timesheets' \in DayTables
    BY <1>2, <1>4, <1>6 DEF DayTables, Entered
  <2>3. ASSUME NEW x \in Keys \ loose', timesheets'[x] # NoSheet PROVE AddsUp(timesheets'[x])
    BY <1>2, <1>6, <2>1, <2>3 DEF DaysAddUp
  <2>. QED
    BY <2>2, <2>3 DEF DaysAddUp, AddsUp
<1>7. CASE inserts
  <2>1. NewRow(row_ids + 1, hours) \in SheetRows /\ row_ids' \in Nat
    BY <1>2, <1>5, <1>7, EntersHours
  <2>2. timesheets' \in DayTables /\ DaysAddUp'
    BY <1>6, <1>7, <2>1
  <2>. QED
    BY ONLY SheetsInv, <1>1, <1>3, <1>7, <2>1, <2>2, HandWrites
<1>8. CASE updates
  <2>1. row \in SheetRows
    BY <1>2, <1>4, <1>8 DEF StillThere, DayTables
  <2>2. Over(row, hours) \in SheetRows
    BY <1>5, <2>1, EntersHours
  <2>3. timesheets' \in DayTables /\ DaysAddUp'
    BY <1>6, <1>8, <2>2
  <2>. QED
    BY ONLY SheetsInv, <1>1, <1>2, <1>3, <1>8, <2>3, HandWrites
<1>9. CASE refused
  <2>1. SettledHolds'
    BY <1>1, <1>9, SettledStays
  <2>. QED
    BY ONLY SheetsInv, <1>1, <1>2, <1>3, <1>9, <2>1, QuietSheets
<1>. QED
  BY <1>1, <1>7, <1>8, <1>9

LEMMA DeletesHold ==
    ASSUME TimesheetAssumption, SheetsInv, NEW h \in Keepers, NEW k \in Keys, delete_timesheet_entry(h, k)
    PROVE  SheetsInv'
<1>1. /\ timesheets \in DayTables /\ row_ids \in Nat /\ hand \in [Keepers -> KeeperHands] /\ DaysAddUp
  BY DEF SheetsInv, SheetsTyped
<1>2. /\ timesheets' = [timesheets EXCEPT ![k] = NoSheet] /\ loose' = loose \ {k} /\ settled' = NoReview
      /\ clerk' = Disturbed /\ UNCHANGED <<row_ids, hand, job, review_json>>
  BY DEF delete_timesheet_entry, OnlyTheHand
<1>3. timesheets' \in DayTables
  BY <1>1, <1>2 DEF DayTables
<1>4. ASSUME NEW x \in Keys \ loose', timesheets'[x] # NoSheet PROVE AddsUp(timesheets'[x])
  <2>1. x # k /\ timesheets'[x] = timesheets[x] /\ x \notin loose
    BY <1>1, <1>2, <1>4 DEF DayTables
  <2>. QED
    BY <1>1, <1>4, <2>1 DEF DaysAddUp
<1>5. DaysAddUp'
  BY <1>4 DEF DaysAddUp, AddsUp
<1>. QED
  BY ONLY SheetsInv, <1>1, <1>2, <1>3, <1>5, HandWrites

LEMMA LeaveHolds ==
    ASSUME SheetsInv, NEW k \in Keys, LeaveChanges(k) PROVE SheetsInv'
<1>1. /\ timesheets \in DayTables /\ row_ids \in Nat /\ hand \in [Keepers -> KeeperHands] /\ DaysAddUp
  BY DEF SheetsInv, SheetsTyped
<1>2. settled' = NoReview /\ clerk' = Disturbed /\ UNCHANGED <<timesheets, row_ids, hand, job, review_json, loose>>
  BY DEF LeaveChanges
<1>3. DaysAddUp'
  BY <1>1, <1>2 DEF DaysAddUp
<1>. QED
  BY ONLY SheetsInv, <1>1, <1>2, <1>3, HandWrites

LEMMA SheetsStep ==
    ASSUME TimesheetAssumption, SheetsInv, [SheetsNext]_sheet_vars PROVE SheetsInv'
<1>1. ASSUME NEW i \in Importers, apply_patch(i) PROVE SheetsInv'
  BY <1>1, PatchesHold
<1>2. ASSUME NEW i \in Importers, save_apply_report(i) PROVE SheetsInv'
  BY <1>2, ReportsHold
<1>3. ASSUME NEW i \in Importers, ShowPreview(i) \/ fetch_timesheets_map(i) \/ fetch_leaves(i) PROVE SheetsInv'
  BY <1>3, ReadingsHold
<1>4. ASSUME NEW i \in Importers,
             \/ upload_pdf(i) \/ cancel_job(i) \/ run_extract(i) \/ EndExtract(i) \/ ImportFails(i)
             \/ (\E review \in Reviews : upload_review_json(i, review))
             \/ (\E visible \in Watchers : get_preview(i, visible))
             \/ (\E dry_run \in BOOLEAN : apply_import(i, dry_run))
      PROVE  SheetsInv'
  BY <1>4, JobMoves
<1>5. ASSUME NEW h \in Keepers, SaveEntry(h) PROVE SheetsInv'
  BY <1>5, SavesHold
<1>6. ASSUME NEW h \in Keepers, NEW k \in Keys, delete_timesheet_entry(h, k) PROVE SheetsInv'
  BY <1>6, DeletesHold
<1>7. ASSUME NEW h \in Keepers, NEW k \in Keys, NEW hours \in HandRows,
             create_timesheet_entry(h, k, hours) \/ update_timesheet_entry(h, k, hours)
      PROVE  SheetsInv'
  BY <1>7, OpensHold
<1>8. ASSUME NEW k \in Keys, LeaveChanges(k) PROVE SheetsInv'
  BY <1>8, LeaveHolds
<1>9. CASE UNCHANGED sheet_vars
  <2>1. UNCHANGED <<timesheets, row_ids, leave_days, loose, hand, job, review_json, clerk, settled>>
    BY <1>9 DEF sheet_vars, sheet_tables
  <2>2. SettledHolds'
    BY <2>1, SettledStays
  <2>3. /\ job \in Jobs /\ (job.review => review_json \in Reviews)
        /\ DOMAIN clerk = Importers /\ hand \in [Keepers -> KeeperHands] /\ settled \in Reviews \cup {NoReview}
    BY DEF SheetsInv, SheetsTyped
  <2>. QED
    BY ONLY SheetsInv, <2>1, <2>2, <2>3, QuietSheets
<1>. QED
  BY <1>1, <1>2, <1>3, <1>4, <1>5, <1>6, <1>7, <1>8, <1>9 DEF SheetsNext

\* The days' totals are those of their hours, through imports, retries and saves by hand; a
\* review that was applied alone is told by the table as it is; and a preview shows the
\* writes of an import of the same moment.
THEOREM SheetsAddUp == SheetsSpec => []ImportsAddUp
<1>1. SheetsBegin => SheetsInv
  BY TimesheetAssumption, SheetsBegun
<1>2. SheetsInv /\ [SheetsNext]_sheet_vars => SheetsInv'
  BY TimesheetAssumption, SheetsStep
<1>3. SheetsInv => ImportsAddUp
  <2>. SUFFICES ASSUME SheetsInv PROVE ImportsAddUp
    OBVIOUS
  <2>1. \A k \in Keys \ loose : timesheets[k] # NoSheet => AddsUp(timesheets[k])
    BY DEF SheetsInv, DaysAddUp
  <2>2. settled # NoReview /\ OncePerDay(settled) =>
           \A line \in SheetLines(settled) : Told(WriteOf(settled, line, timesheets, leave_days))
    BY DEF SheetsInv, SettledHolds, Now
  <2>3. ASSUME NEW i \in Importers, clerk[i].pc = "shown"
        PROVE  LET planned == PlannedWrites(clerk[i].review, timesheets, leave_days)
               IN  {l.key : l \in clerk[i].lines} =
                   {planned[l].key : l \in {x \in DOMAIN planned : planned[x].key[1] \in clerk[i].visible}}
    BY <2>3 DEF SheetsInv, ClerkAgrees
  <2>. QED
    BY <2>1, <2>2, <2>3 DEF ImportsAddUp
<1>. QED
  BY <1>1, <1>2, <1>3, PTL DEF SheetsSpec

-----------------------------------------------------------------------------
(* The register of tools: what a request under way has in hand. *)
ToolActions ==
    {"created", "imported", "updated", "archived", "released", "members_updated", "issue", "transfer",
     "return", "extend", "inspection_failed", "pre_use_recorded", "incident"}
Applies ==
    [pc : {"apply"}, by : Accounts, tool : Tools, before : ToolRows \cup {NoTool}, after : ToolRows,
     action : ToolActions, key : SendKeys \cup {NoKey}, crossed : BOOLEAN]
Restores == [pc : {"restore"}, change : Nat, redo : BOOLEAN, crossed : BOOLEAN]
Closings == [pc : {"close"}, incident : Nat, crossed : BOOLEAN]
Leavings == [pc : {"deactivate"}, employee : Artisans, crossed : BOOLEAN]
InHand == Applies \cup Restores \cup Closings \cup Leavings
ToolTrailRows ==
    [tool : Tools, before : ToolRows, after : ToolRows, by : Accounts, undone : BOOLEAN, key : SendKeys \cup {NoKey}]

ToolTables ==
    /\ tools \in [Tools -> ToolRows \cup {NoTool}]
    /\ trail \in Seq(ToolTrailRows)
    /\ incidents \in Seq([tool : Tools, open : BOOLEAN])
    /\ desk \in [Desks -> InHand \cup {Away}]
    /\ \A k \in DOMAIN trail : tools[trail[k].tool] # NoTool

\* The call under way takes a tool out of the store.
Lends(x) == x.pc = "apply" /\ x.before # NoTool /\ x.before.holder = NoOne /\ x.after.holder # NoOne

\* What it found was fit to go out, and a new tool is in.
SoundCall(x) ==
    /\ Lends(x) => x.before.status = "available" /\ ~_needs_attention(x.before) /\ ~x.before.archived
    /\ x.pc = "apply" /\ x.before = NoTool => x.after.holder = NoOne
\* The row it read is the row there, or one of an earlier version.
ReadFrom(x, rows) ==
    x.pc = "apply" /\ x.before # NoTool =>
        /\ rows[x.tool] # NoTool /\ x.before.version <= rows[x.tool].version
        /\ x.before.version = rows[x.tool].version => rows[x.tool] = x.before
OnTrail(x, log) == x.pc = "restore" => x.change \in DOMAIN log
\* Unless another request wrote since, it lends to somebody eligible ...
StillEligible(x) == Lends(x) /\ ~x.crossed => _eligibility_basis(x.after.holder, x.tool)
\* ... and who is to be deactivated holds nothing.
HoldsNothing(x, rows) ==
    x.pc = "deactivate" /\ ~x.crossed => \A t \in Tools : rows[t] # NoTool => rows[t].holder # x.employee

DeskInv(d) ==
    /\ SoundCall(desk[d]) /\ ReadFrom(desk[d], tools) /\ OnTrail(desk[d], trail)
    /\ StillEligible(desk[d]) /\ HoldsNothing(desk[d], tools)
ToolsInv == ToolTables /\ \A d \in Desks : DeskInv(d)

\* One request has another in hand, and those who crossed it have the rest.
Crossed(x) == [x EXCEPT !.crossed = TRUE]
LEMMA CrossedHand ==
    ASSUME NEW x \in InHand
    PROVE  /\ Crossed(x) \in InHand /\ Crossed(x).crossed /\ Crossed(x).pc = x.pc
           /\ x # Away /\ x.pc # "away"
           /\ x.pc = "apply" => x \in Applies /\ Crossed(x).before = x.before /\ Crossed(x).after = x.after /\ Crossed(x).tool = x.tool
           /\ x.pc = "restore" => Crossed(x).change = x.change
<1>1. CASE x \in Applies
  <2>1. Crossed(x) \in Applies
    BY <1>1 DEF Applies, Crossed
  <2>2. /\ x.pc = "apply" /\ Crossed(x).pc = x.pc /\ Crossed(x).crossed
        /\ Crossed(x).before = x.before /\ Crossed(x).after = x.after /\ Crossed(x).tool = x.tool
    BY <1>1 DEF Applies, Crossed
  <2> QED
    BY <1>1, <2>1, <2>2 DEF InHand, Away
<1>2. CASE x \in Restores
  <2>1. Crossed(x) \in Restores
    BY <1>2 DEF Restores, Crossed
  <2>2. x.pc = "restore" /\ Crossed(x).pc = x.pc /\ Crossed(x).crossed /\ Crossed(x).change = x.change
    BY <1>2 DEF Restores, Crossed
  <2> QED
    BY <2>1, <2>2 DEF InHand, Away
<1>3. CASE x \in Closings
  <2>1. Crossed(x) \in Closings
    BY <1>3 DEF Closings, Crossed
  <2>2. x.pc = "close" /\ Crossed(x).pc = x.pc /\ Crossed(x).crossed
    BY <1>3 DEF Closings, Crossed
  <2> QED
    BY <2>1, <2>2 DEF InHand, Away
<1>4. CASE x \in Leavings
  <2>1. Crossed(x) \in Leavings
    BY <1>4 DEF Leavings, Crossed
  <2>2. x.pc = "deactivate" /\ Crossed(x).pc = x.pc /\ Crossed(x).crossed
    BY <1>4 DEF Leavings, Crossed
  <2> QED
    BY <2>1, <2>2 DEF InHand, Away
<1> QED
  BY <1>1, <1>2, <1>3, <1>4 DEF InHand

\* A call that writes no tool: what it has in hand next is sound, the others have what
\* they had, and whoever was overtaken by a write of another table is marked.
LEMMA NoToolWritten ==
    ASSUME ToolsInv, UNCHANGED <<tools, trail>>, incidents' \in Seq([tool : Tools, open : BOOLEAN]),
           NEW d \in Desks, NEW x \in InHand \cup {Away}, desk' \in [Desks -> InHand \cup {Away}], desk'[d] = x,
           SoundCall(x), ReadFrom(x, tools), OnTrail(x, trail), HoldsNothing(x, tools),
           Lends(x) => UNCHANGED <<approvals, working>> /\ StillEligible(x),
           \A o \in Desks \ {d} :
               \/ desk'[o] = desk[o] /\ (UNCHANGED <<approvals, working>> \/ desk[o] = Away)
               \/ desk[o] # Away /\ desk'[o] = Crossed(desk[o])
    PROVE  ToolsInv'
<1>1. ToolTables'
  BY DEF ToolsInv, ToolTables
<1>2. ASSUME NEW o \in Desks PROVE DeskInv(o)'
  <2>1. CASE o = d
    <3>1. StillEligible(x) => StillEligible(x)'
      BY DEF StillEligible, _eligibility_basis, Lends
    <3> QED
      BY <2>1, <3>1 DEF DeskInv, StillEligible, SoundCall, ReadFrom, OnTrail, HoldsNothing, Lends
  <2>2. CASE o # d /\ desk'[o] = desk[o] /\ UNCHANGED <<approvals, working>>
    BY <2>2 DEF ToolsInv, DeskInv, StillEligible, _eligibility_basis, SoundCall, ReadFrom, OnTrail, HoldsNothing, Lends
  <2>3. CASE o # d /\ desk'[o] = Away
    BY <2>3 DEF DeskInv, StillEligible, SoundCall, ReadFrom, OnTrail, HoldsNothing, Lends, Away
  <2>4. CASE o # d /\ desk[o] # Away /\ desk'[o] = Crossed(desk[o])
    <3> PICK y \in InHand : y = desk[o]
      BY <2>4 DEF ToolsInv, ToolTables
    <3>1. desk'[o] = Crossed(y)
      BY <2>4
    <3>2. SoundCall(y) /\ ReadFrom(y, tools) /\ OnTrail(y, trail)
      BY DEF ToolsInv, DeskInv
    <3>3. /\ SoundCall(Crossed(y)) /\ ReadFrom(Crossed(y), tools) /\ OnTrail(Crossed(y), trail)
          /\ Crossed(y).crossed
      BY <3>2, CrossedHand DEF SoundCall, ReadFrom, OnTrail, Lends
    <3> HIDE DEF Crossed
    <3> QED
      BY <3>1, <3>3 DEF DeskInv, StillEligible, HoldsNothing, SoundCall, ReadFrom, OnTrail, Lends
  <2> QED
    BY <2>1, <2>2, <2>3, <2>4
<1> QED
  BY <1>1, <1>2 DEF ToolsInv
\* What a request finds and what it asks for.
AskedFor(d, a, t, after, action, key) ==
    [pc |-> "apply", by |-> a, tool |-> t, before |-> tools[t], after |-> after,
     action |-> action, key |-> key, crossed |-> FALSE]

LEMMA FoundRow ==
    ASSUME ToolsInv, NEW t \in Tools
    PROVE  tools[t] \in ToolRows \cup {NoTool} /\ (tools[t] # NoTool => tools[t] \in ToolRows)
BY DEF ToolsInv, ToolTables

\* A call that was just asked for is typed, and has read the row that is there.
LEMMA AskedIsRead ==
    ASSUME ToolsInv, NEW d \in Desks, NEW a \in Accounts, NEW t \in Tools, NEW after \in ToolRows,
           NEW action \in ToolActions, NEW key \in SendKeys \cup {NoKey},
           NEW x, x = AskedFor(d, a, t, after, action, key)
    PROVE  /\ x \in InHand /\ x \in Applies
           /\ ReadFrom(x, tools) /\ OnTrail(x, trail) /\ HoldsNothing(x, tools)
           /\ x.pc = "apply" /\ x.before = tools[t] /\ x.after = after /\ x.tool = t /\ ~x.crossed
<1>1. x \in Applies
  BY FoundRow DEF AskedFor, Applies
<1>2. x.pc = "apply" /\ x.before = tools[t] /\ x.after = after /\ x.tool = t /\ ~x.crossed
  BY DEF AskedFor
<1>3. tools[t] # NoTool => tools[t].version \in Nat
  BY FoundRow DEF ToolRows
<1> QED
  BY <1>1, <1>2, <1>3 DEF InHand, ReadFrom, OnTrail, HoldsNothing

\* A request that only reads.
LEMMA AskingKeeps ==
    ASSUME ToolsInv, UNCHANGED <<tools, trail, side_tables>>,
           NEW d \in Desks, NEW a \in Accounts, NEW t \in Tools, NEW after \in ToolRows,
           NEW action \in ToolActions, NEW key \in SendKeys \cup {NoKey},
           desk' = _apply_change(d, a, t, after, action, key),
           tools[t] = NoTool => after.holder = NoOne,
           tools[t] # NoTool /\ tools[t].holder = NoOne /\ after.holder # NoOne =>
               /\ tools[t].status = "available" /\ ~_needs_attention(tools[t]) /\ ~tools[t].archived
               /\ _eligibility_basis(after.holder, t)
    PROVE  ToolsInv'
<1> PICK x : x = AskedFor(d, a, t, after, action, key)
  OBVIOUS
<1>1. /\ x \in InHand
      /\ ReadFrom(x, tools) /\ OnTrail(x, trail) /\ HoldsNothing(x, tools)
      /\ x.pc = "apply" /\ x.before = tools[t] /\ x.after = after /\ x.tool = t /\ ~x.crossed
  BY AskedIsRead
<1>2. desk' = [desk EXCEPT ![d] = x]
  BY DEF _apply_change, AskedFor
<1>3. desk \in [Desks -> InHand \cup {Away}] /\ incidents \in Seq([tool : Tools, open : BOOLEAN])
  BY DEF ToolsInv, ToolTables
<1>4. SoundCall(x) /\ StillEligible(x)
  BY <1>1 DEF SoundCall, StillEligible, Lends
<1>5. /\ desk' \in [Desks -> InHand \cup {Away}] /\ desk'[d] = x
      /\ \A o \in Desks \ {d} : desk'[o] = desk[o]
  BY <1>1, <1>2, <1>3
<1>6. UNCHANGED <<approvals, working, incidents>>
  BY DEF side_tables
<1> QED
  BY <1>1, <1>3, <1>4, <1>5, <1>6, NoToolWritten

\* A request that wrote another table: those under way are marked.
LEMMA NoticedDesk ==
    ASSUME desk \in [Desks -> InHand \cup {Away}], NEW d \in Desks, NEW x \in InHand \cup {Away},
           NEW base \in {desk, [desk EXCEPT ![d] = x]}, desk' = Noticed(base, d), base[d] = x
    PROVE  /\ desk' \in [Desks -> InHand \cup {Away}] /\ desk'[d] = x
           /\ \A o \in Desks \ {d} :
                 \/ desk'[o] = desk[o] /\ desk[o] = Away
                 \/ desk[o] # Away /\ desk'[o] = Crossed(desk[o])
<1>1. ASSUME NEW o \in Desks PROVE desk'[o] = IF o = d \/ base[o] = Away THEN base[o] ELSE Crossed(base[o])
  BY DEF Noticed, Crossed
<1>2. \A o \in Desks \ {d} : base[o] = desk[o]
  OBVIOUS
<1>3. base \in [Desks -> InHand \cup {Away}]
  OBVIOUS
<1>4. \A o \in Desks : base[o] # Away => Crossed(base[o]) \in InHand
  BY <1>3, CrossedHand
<1>5. desk' = [o \in Desks |-> desk'[o]]
  BY DEF Noticed
<1> HIDE DEF Crossed
<1>6. desk' \in [Desks -> InHand \cup {Away}]
  BY <1>1, <1>3, <1>4, <1>5
<1> QED
  BY <1>1, <1>2, <1>6

LEMMA TellingKeeps ==
    ASSUME ToolsInv, UNCHANGED <<tools, trail>>, incidents' \in Seq([tool : Tools, open : BOOLEAN]),
           NEW d \in Desks, NEW x \in InHand \cup {Away},
           NEW base \in {desk, [desk EXCEPT ![d] = x]}, desk' = Noticed(base, d), base[d] = x,
           SoundCall(x), ReadFrom(x, tools), OnTrail(x, trail), HoldsNothing(x, tools), ~Lends(x)
    PROVE  ToolsInv'
<1>1. desk \in [Desks -> InHand \cup {Away}]
  BY DEF ToolsInv, ToolTables
<1>2. /\ desk' \in [Desks -> InHand \cup {Away}] /\ desk'[d] = x
      /\ \A o \in Desks \ {d} :
            \/ desk'[o] = desk[o] /\ desk[o] = Away
            \/ desk[o] # Away /\ desk'[o] = Crossed(desk[o])
  BY <1>1, NoticedDesk
<1> QED
  BY <1>2, NoToolWritten

\* One that wrote another table and asks for a change of the tool that lends nothing.
LEMMA TellingAndAsking ==
    ASSUME ToolsInv, UNCHANGED <<tools, trail>>, incidents' \in Seq([tool : Tools, open : BOOLEAN]),
           NEW d \in Desks, NEW a \in Accounts, NEW t \in Tools, NEW after \in ToolRows,
           NEW action \in ToolActions, NEW key \in SendKeys \cup {NoKey},
           desk' = Noticed(_apply_change(d, a, t, after, action, key), d),
           tools[t] # NoTool, after.holder = tools[t].holder
    PROVE  ToolsInv'
<1> PICK x : x = AskedFor(d, a, t, after, action, key)
  OBVIOUS
<1>1. /\ x \in InHand
      /\ ReadFrom(x, tools) /\ OnTrail(x, trail) /\ HoldsNothing(x, tools)
      /\ x.pc = "apply" /\ x.before = tools[t] /\ x.after = after /\ x.tool = t /\ ~x.crossed
  BY AskedIsRead
<1> PICK base : base = [desk EXCEPT ![d] = x]
  OBVIOUS
<1>2. desk' = Noticed(base, d)
  BY DEF _apply_change, AskedFor
<1>3. desk \in [Desks -> InHand \cup {Away}]
  BY DEF ToolsInv, ToolTables
<1>4. SoundCall(x) /\ ~Lends(x)
  BY <1>1 DEF SoundCall, Lends
<1>5. base[d] = x
  BY <1>3
<1> QED
  BY <1>1, <1>2, <1>4, <1>5, TellingKeeps

\* A request whose other columns come to nothing, or end here.
LEMMA AwayIsSound ==
    /\ SoundCall(Away) /\ ReadFrom(Away, tools) /\ OnTrail(Away, trail) /\ HoldsNothing(Away, tools) /\ ~Lends(Away)
BY DEF SoundCall, ReadFrom, OnTrail, HoldsNothing, Lends, Away

-----------------------------------------------------------------------------
(* The register of tools: the requests. *)
LEMMA create_toolKeeps ==
    ASSUME ToolsInv, NEW d \in Desks, NEW a \in Accounts, NEW t \in Tools, NEW c \in {"Good", "Damaged"},
           create_tool(d, a, t, c) \/ commit_import(d, a, t, c)
    PROVE  ToolsInv'
<1> DEFINE made == New(c, "available")
           sent == [made EXCEPT !.status = IF _needs_attention(made) THEN "attention" ELSE "available"]
<1>1. made \in ToolRows /\ sent \in ToolRows /\ made.holder = NoOne /\ sent.holder = NoOne
  BY DEF New, ToolRows, _needs_attention
<1>2. PICK x \in ToolRows, action \in ToolActions :
         x.holder = NoOne /\ desk' = _apply_change(d, a, t, x, action, NoKey)
  <2>1. CASE create_tool(d, a, t, c)
    BY <2>1, <1>1 DEF create_tool, ToolActions
  <2>2. CASE commit_import(d, a, t, c)
    BY <2>2, <1>1 DEF commit_import, ToolActions
  <2> QED
    BY <2>1, <2>2
<1>3. tools[t] = NoTool /\ UNCHANGED <<tools, trail, side_tables>>
  BY DEF create_tool, commit_import
<1> QED
  BY <1>2, <1>3, AskingKeeps

LEMMA update_toolKeeps ==
    ASSUME ToolsInv, NEW d \in Desks, NEW a \in Accounts, NEW t \in Tools, NEW c \in {"Good", "Damaged"},
           update_tool(d, a, t, c)
    PROVE  ToolsInv'
<1>1. tools[t] # NoTool /\ tools[t] \in ToolRows
  BY FoundRow DEF update_tool, InUse
<1> PICK row \in ToolRows : row = tools[t]
  BY <1>1
<1> DEFINE held == row.status = "available" /\ _needs_attention([row EXCEPT !.condition = c])
           sent == [[row EXCEPT !.condition = c] EXCEPT !.status = IF held THEN "attention" ELSE @]
<1>2. sent \in ToolRows /\ sent.holder = row.holder
  BY DEF ToolRows
<1>3. desk' = _apply_change(d, a, t, sent, "updated", NoKey) /\ UNCHANGED <<tools, trail, side_tables>>
  BY DEF update_tool, ToolRows
<1>4. "updated" \in ToolActions
  BY DEF ToolActions
<1> HIDE DEF sent
<1> QED
  BY <1>1, <1>2, <1>3, <1>4, AskingKeeps

LEMMA archive_toolKeeps ==
    ASSUME ToolsInv, NEW d \in Desks, NEW a \in Accounts, NEW t \in Tools,
           archive_tool(d, a, t) \/ mark_tool_ready(d, a, t)
    PROVE  ToolsInv'
<1>1. tools[t] # NoTool /\ tools[t] \in ToolRows
  BY FoundRow DEF archive_tool, mark_tool_ready, InUse
<1>2. PICK sent \in ToolRows, action \in ToolActions :
         sent.holder = tools[t].holder /\ desk' = _apply_change(d, a, t, sent, action, NoKey)
  <2>1. CASE archive_tool(d, a, t)
    BY <2>1, <1>1 DEF archive_tool, ToolRows, ToolActions
  <2>2. CASE mark_tool_ready(d, a, t)
    BY <2>2, <1>1 DEF mark_tool_ready, ToolRows, ToolActions
  <2> QED
    BY <2>1, <2>2
<1>3. UNCHANGED <<tools, trail, side_tables>>
  BY DEF archive_tool, mark_tool_ready
<1> QED
  BY <1>1, <1>2, <1>3, AskingKeeps

LEMMA remove_set_memberKeeps ==
    ASSUME ToolsInv, NEW d \in Desks, NEW a \in Accounts, NEW t \in Tools, NEW m \in Tools,
           remove_set_member(d, a, t, m)
    PROVE  ToolsInv'
<1>1. tools[t] # NoTool /\ tools[t] \in ToolRows
  BY FoundRow DEF remove_set_member, InUse
<1> PICK row \in ToolRows : row = tools[t]
  BY <1>1
<1>2. /\ desk' = Noticed(_apply_change(d, a, t, row, "members_updated", NoKey), d)
      /\ UNCHANGED <<tools, trail, incidents>>
  BY DEF remove_set_member
<1>3. incidents \in Seq([tool : Tools, open : BOOLEAN]) /\ "members_updated" \in ToolActions
  BY DEF ToolsInv, ToolTables, ToolActions
<1> QED
  BY <1>1, <1>2, <1>3, TellingAndAsking

\* Movements: a loan takes what is in, fit and not archived, to somebody eligible.
LEMMA _moveKeeps ==
    ASSUME ToolsInv, NEW d \in Desks, NEW a \in Accounts, NEW t \in Tools,
           NEW move \in {"issue", "transfer", "return", "extend"}, NEW e \in Artisans \cup {NoOne},
           NEW condition \in {"Good", "Missing parts"}, NEW override \in BOOLEAN, NEW key \in SendKeys \cup {NoKey},
           move \in {"issue", "transfer"} => e \in Artisans,
           _move(d, a, t, move, e, condition, override, key)
    PROVE  ToolsInv'
<1>1. tools[t] # NoTool /\ tools[t] \in ToolRows
  BY FoundRow DEF _move, InUse
<1> PICK row \in ToolRows : row = tools[t]
  BY <1>1
<1> DEFINE back == [row EXCEPT !.status = IF condition = "Good" THEN "available" ELSE "attention",
                               !.condition = condition, !.holder = NoOne, !.pending = FALSE]
           longer == [row EXCEPT !.status = "issued"]
           lent == [row EXCEPT !.status = "issued", !.holder = e, !.pending = TRUE]
           sent == CASE move = "return" -> back [] move = "extend" -> longer [] OTHER -> lent
<1>2. desk' = _apply_change(d, a, t, sent, move, key) /\ UNCHANGED <<tools, trail, side_tables>>
  BY DEF _move
<1>3. move \in ToolActions
  BY DEF ToolActions
<1>4. CASE move = "return"
  <2>1. sent = back
    BY <1>4
  <2>2. back \in ToolRows /\ back.holder = NoOne
    BY DEF ToolRows
  <2> HIDE DEF sent, back
  <2> QED
    BY <1>1, <1>2, <1>3, <2>1, <2>2, AskingKeeps
<1>5. CASE move = "extend"
  <2>1. sent = longer
    BY <1>5
  <2>2. longer \in ToolRows /\ longer.holder = row.holder
    BY DEF ToolRows
  <2> HIDE DEF sent, longer
  <2> QED
    BY <1>1, <1>2, <1>3, <2>1, <2>2, AskingKeeps
<1>6. CASE move \in {"issue", "transfer"}
  <2>1. sent = lent /\ e \in Artisans
    BY <1>6
  <2>2. lent \in ToolRows /\ lent.holder = e
    BY <2>1 DEF ToolRows
  <2>3. _eligibility_basis(e, t)
    BY <1>6 DEF _move, _check_loan_row
  <2>4. tools[t].holder = NoOne =>
           tools[t].status = "available" /\ ~_needs_attention(tools[t]) /\ ~tools[t].archived
    BY <1>6 DEF _move
  <2> HIDE DEF sent, lent
  <2> QED
    BY <1>1, <1>2, <1>3, <2>1, <2>2, <2>3, <2>4, AskingKeeps
<1> QED
  BY <1>4, <1>5, <1>6

LEMMA record_inspectionKeeps ==
    ASSUME ToolsInv, NEW d \in Desks, NEW a \in Accounts, NEW t \in Tools,
           NEW type \in {"required", "pre_use"}, NEW outcome \in {"passed", "failed"},
           record_inspection(d, a, t, type, outcome)
    PROVE  ToolsInv'
<1>1. tools[t] # NoTool /\ tools[t] \in ToolRows
  BY FoundRow DEF record_inspection, InUse
<1> PICK row \in ToolRows : row = tools[t]
  BY <1>1
<1> DEFINE broken == [row EXCEPT !.status = "attention", !.condition = "Damaged"]
           seen == [row EXCEPT !.pending = FALSE]
<1>2. broken \in ToolRows /\ broken.holder = row.holder /\ seen \in ToolRows /\ seen.holder = row.holder
  BY DEF ToolRows
<1>3. UNCHANGED <<tools, trail, incidents>>
  BY DEF record_inspection
<1>4. incidents \in Seq([tool : Tools, open : BOOLEAN]) /\ desk \in [Desks -> InHand \cup {Away}]
  BY DEF ToolsInv, ToolTables
<1>5. {"inspection_failed", "pre_use_recorded"} \subseteq ToolActions
  BY DEF ToolActions
<1>6. \/ desk' = Noticed(_apply_change(d, a, t, broken, "inspection_failed", NoKey), d)
      \/ desk' = Noticed(_apply_change(d, a, t, seen, "pre_use_recorded", NoKey), d)
      \/ desk' = Noticed(desk, d) /\ desk[d] = Away
  BY DEF record_inspection, Comes
<1> HIDE DEF broken, seen
<1>7. CASE desk' = Noticed(_apply_change(d, a, t, broken, "inspection_failed", NoKey), d)
  BY <1>1, <1>2, <1>3, <1>4, <1>5, <1>7, TellingAndAsking
<1>8. CASE desk' = Noticed(_apply_change(d, a, t, seen, "pre_use_recorded", NoKey), d)
  BY <1>1, <1>2, <1>3, <1>4, <1>5, <1>8, TellingAndAsking
<1>9. CASE desk' = Noticed(desk, d) /\ desk[d] = Away
  <2> PICK base : base = desk
    OBVIOUS
  <2> QED
    BY <1>3, <1>4, <1>9, AwayIsSound, TellingKeeps
<1> QED
  BY <1>6, <1>7, <1>8, <1>9

\* A check that falls due marks whoever is under way, and decides nothing.
LEMMA CheckLapsesKeeps ==
    ASSUME ToolsInv, NEW t \in Tools, CheckLapses(t)
    PROVE  ToolsInv'
<1>1. UNCHANGED <<tools, trail, incidents, approvals, working>> /\ desk' = Noticed(desk, NoOne)
  BY DEF CheckLapses
<1>2. desk \in [Desks -> InHand \cup {Away}] /\ ToolTables
  BY DEF ToolsInv, ToolTables
<1>3. ASSUME NEW o \in Desks PROVE desk'[o] = desk[o] \/ (desk[o] \in InHand /\ desk'[o] = Crossed(desk[o]))
  BY <1>1, <1>2 DEF Noticed, Crossed
<1>4. ASSUME NEW o \in Desks PROVE desk'[o] \in InHand \cup {Away} /\ DeskInv(o)'
  <2>1. CASE desk'[o] = desk[o]
    BY <1>1, <1>2, <2>1 DEF ToolsInv, DeskInv, StillEligible, _eligibility_basis, SoundCall, ReadFrom, OnTrail, HoldsNothing, Lends
  <2>2. CASE desk[o] \in InHand /\ desk'[o] = Crossed(desk[o])
    <3> PICK y \in InHand : y = desk[o]
      BY <2>2
    <3>1. desk'[o] = Crossed(y) /\ Crossed(y) \in InHand
      BY <2>2, CrossedHand
    <3>2. SoundCall(y) /\ ReadFrom(y, tools) /\ OnTrail(y, trail)
      BY DEF ToolsInv, DeskInv
    <3>3. /\ SoundCall(Crossed(y)) /\ ReadFrom(Crossed(y), tools) /\ OnTrail(Crossed(y), trail)
          /\ Crossed(y).crossed
      BY <3>2, CrossedHand DEF SoundCall, ReadFrom, OnTrail, Lends
    <3> HIDE DEF Crossed
    <3> QED
      BY <1>1, <3>1, <3>3 DEF DeskInv, StillEligible, HoldsNothing, SoundCall, ReadFrom, OnTrail, Lends
  <2> QED
    BY <1>3, <2>1, <2>2
<1>5. desk' \in [Desks -> InHand \cup {Away}]
  <2>1. desk' = [o \in Desks |-> desk'[o]]
    BY <1>1 DEF Noticed
  <2> QED
    BY <2>1, <1>4
<1> QED
  BY <1>1, <1>2, <1>4, <1>5 DEF ToolsInv, ToolTables

LEMMA report_incidentKeeps ==
    ASSUME ToolsInv, NEW d \in Desks, NEW a \in Accounts, NEW t \in Tools, report_incident(d, a, t)
    PROVE  ToolsInv'
<1>1. tools[t] # NoTool /\ tools[t] \in ToolRows
  BY FoundRow DEF report_incident, InUse
<1> PICK row \in ToolRows : row = tools[t]
  BY <1>1
<1> DEFINE sent == [row EXCEPT !.status = "attention", !.condition = "Damaged"]
<1>2. sent \in ToolRows /\ sent.holder = row.holder
  BY DEF ToolRows
<1>3. incidents' \in Seq([tool : Tools, open : BOOLEAN])
  <2>1. incidents' = Append(incidents, [tool |-> t, open |-> TRUE])
    BY DEF report_incident
  <2> QED
    BY <2>1 DEF ToolsInv, ToolTables
<1>4. desk' = Noticed(_apply_change(d, a, t, sent, "incident", NoKey), d) /\ UNCHANGED <<tools, trail>>
  BY DEF report_incident
<1>5. "incident" \in ToolActions
  BY DEF ToolActions
<1> HIDE DEF sent
<1> QED
  BY <1>1, <1>2, <1>3, <1>4, <1>5, TellingAndAsking

\* Requests that touch no tool: what they have in hand is not a call for one.
LEMMA HandSound ==
    ASSUME NEW x, x.pc \notin {"apply", "restore", "deactivate"}
    PROVE  SoundCall(x) /\ ReadFrom(x, tools) /\ OnTrail(x, trail) /\ HoldsNothing(x, tools) /\ ~Lends(x)
BY DEF SoundCall, ReadFrom, OnTrail, HoldsNothing, Lends

LEMMA close_incidentKeeps ==
    ASSUME ToolsInv, NEW d \in Desks, NEW k \in DOMAIN incidents, close_incident(d, k)
    PROVE  ToolsInv'
<1>1. PICK x : x = [pc |-> "close", incident |-> k, crossed |-> FALSE]
  OBVIOUS
<1>2. incidents \in Seq([tool : Tools, open : BOOLEAN]) /\ desk \in [Desks -> InHand \cup {Away}]
  BY DEF ToolsInv, ToolTables
<1>3. x \in InHand /\ x.pc = "close"
  BY <1>1, <1>2 DEF Closings, InHand
<1>4. desk' = [desk EXCEPT ![d] = x] /\ UNCHANGED <<tools, trail, side_tables>>
  BY <1>1 DEF close_incident
<1>5. UNCHANGED <<approvals, working, incidents>>
  BY <1>4 DEF side_tables
<1>6. /\ desk' \in [Desks -> InHand \cup {Away}] /\ desk'[d] = x
      /\ \A o \in Desks \ {d} : desk'[o] = desk[o]
  BY <1>2, <1>3, <1>4
<1>7. SoundCall(x) /\ ReadFrom(x, tools) /\ OnTrail(x, trail) /\ HoldsNothing(x, tools) /\ ~Lends(x)
  BY <1>3, HandSound
<1> QED
  BY <1>2, <1>3, <1>4, <1>5, <1>6, <1>7, NoToolWritten

LEMMA SeqAt ==
    ASSUME NEW S, NEW s \in Seq(S)
    PROVE  /\ DOMAIN s = 1 .. Len(s) /\ Len(s) \in Nat
           /\ \A k \in 1 .. Len(s) : s[k] \in S
OBVIOUS
LEMMA SeqMade ==
    ASSUME NEW S, NEW n \in Nat, NEW s, s = [k \in 1 .. n |-> s[k]], \A k \in 1 .. n : s[k] \in S
    PROVE  s \in Seq(S)
<1>1. s \in [1 .. n -> S]
  OBVIOUS
<1> QED
  BY <1>1, SeqDef

LEMMA CloseIncidentKeeps ==
    ASSUME ToolsInv, NEW d \in Desks, CloseIncident(d)
    PROVE  ToolsInv'
<1>1. incidents \in Seq([tool : Tools, open : BOOLEAN]) /\ desk \in [Desks -> InHand \cup {Away}]
  BY DEF ToolsInv, ToolTables
<1>2. incidents' \in Seq([tool : Tools, open : BOOLEAN])
  <2> PICK i : i = desk[d].incident
    OBVIOUS
  <2>1. incidents' = [incidents EXCEPT ![i].open = FALSE]
    BY DEF CloseIncident
  <2> PICK T : T = [tool : Tools, open : BOOLEAN]
    OBVIOUS
  <2>2. /\ DOMAIN incidents = 1 .. Len(incidents) /\ Len(incidents) \in Nat
        /\ \A k \in 1 .. Len(incidents) : incidents[k] \in T
    BY <1>1, SeqAt
  <2>3. \A k \in 1 .. Len(incidents) : incidents'[k] \in T
    BY <2>1, <2>2
  <2>4. incidents' = [k \in 1 .. Len(incidents) |-> incidents'[k]]
    BY <2>1, <2>2
  <2> QED
    BY <2>2, <2>3, <2>4, SeqMade
<1> PICK base : base = [desk EXCEPT ![d] = Away]
  OBVIOUS
<1>3. base[d] = Away /\ desk' = Noticed(base, d) /\ UNCHANGED <<tools, trail>>
  BY <1>1 DEF CloseIncident
<1> QED
  BY <1>2, <1>3, AwayIsSound, TellingKeeps

LEMMA save_competencyKeeps ==
    ASSUME ToolsInv, NEW d \in Desks, NEW e \in Artisans, NEW t \in Tools,
           NEW record \in {"current", "lapsed", "withheld"}, save_competency(d, e, t, record)
    PROVE  ToolsInv'
<1>1. incidents \in Seq([tool : Tools, open : BOOLEAN])
  BY DEF ToolsInv, ToolTables
<1> PICK base : base = desk
  OBVIOUS
<1>2. base[d] = Away /\ desk' = Noticed(base, d) /\ UNCHANGED <<tools, trail, incidents>>
  BY DEF save_competency, Comes
<1> QED
  BY <1>1, <1>2, AwayIsSound, TellingKeeps

LEMMA update_employeeKeeps ==
    ASSUME ToolsInv, NEW d \in Desks, NEW e \in Artisans, update_employee(d, e)
    PROVE  ToolsInv'
<1>1. incidents \in Seq([tool : Tools, open : BOOLEAN]) /\ desk \in [Desks -> InHand \cup {Away}]
  BY DEF ToolsInv, ToolTables
<1>2. UNCHANGED <<tools, trail, incidents, approvals>>
  BY DEF update_employee
<1>3. CASE e \in working
  <2>1. PICK x : x = [pc |-> "deactivate", employee |-> e, crossed |-> FALSE]
    OBVIOUS
  <2>2. x \in InHand /\ x.pc = "deactivate" /\ x.employee = e
    BY <2>1 DEF Leavings, InHand
  <2>3. /\ desk' = [desk EXCEPT ![d] = x] /\ UNCHANGED working
        /\ \A t \in Tools : tools[t] # NoTool => tools[t].holder # e
    BY <1>3, <2>1 DEF update_employee, InUse
  <2>4. SoundCall(x) /\ ReadFrom(x, tools) /\ OnTrail(x, trail) /\ HoldsNothing(x, tools) /\ ~Lends(x)
    BY <2>2, <2>3 DEF SoundCall, ReadFrom, OnTrail, HoldsNothing, Lends
  <2>5. /\ desk' \in [Desks -> InHand \cup {Away}] /\ desk'[d] = x
        /\ \A o \in Desks \ {d} : desk'[o] = desk[o]
    BY <1>1, <2>2, <2>3
  <2> QED
    BY <1>1, <1>2, <2>2, <2>3, <2>4, <2>5, NoToolWritten
<1>4. CASE e \notin working
  <2> PICK base : base = desk
    OBVIOUS
  <2>1. base[d] = Away /\ desk' = Noticed(base, d)
    BY <1>4 DEF update_employee, Comes
  <2> QED
    BY <1>1, <1>2, <2>1, AwayIsSound, TellingKeeps
<1> QED
  BY <1>3, <1>4

LEMMA DeactivateKeeps ==
    ASSUME ToolsInv, NEW d \in Desks, Deactivate(d)
    PROVE  ToolsInv'
<1>1. incidents \in Seq([tool : Tools, open : BOOLEAN]) /\ desk \in [Desks -> InHand \cup {Away}]
  BY DEF ToolsInv, ToolTables
<1> PICK base : base = [desk EXCEPT ![d] = Away]
  OBVIOUS
<1>2. base[d] = Away /\ desk' = Noticed(base, d) /\ UNCHANGED <<tools, trail, incidents>>
  BY <1>1 DEF Deactivate
<1> QED
  BY <1>1, <1>2, AwayIsSound, TellingKeeps

\* A bounded set of naturals has a greatest one.
LEMMA GreatestOfBounded ==
    ASSUME NEW S, S # {}, S \subseteq Nat, NEW n \in Nat, \A j \in S : j <= n
    PROVE  \E k \in S : \A j \in S : j <= k
<1> DEFINE B == {b \in Nat : \A j \in S : j <= b}
<1>1. B \subseteq Nat /\ n \in B
  OBVIOUS
<1>2. PICK b \in B : \A c \in B : <<c, b>> \notin OpToRel(<, Nat)
  <2>1. IsWellFoundedOn(OpToRel(<, Nat), Nat)
    BY NatLessThanWellFounded
  <2> QED
    BY <1>1, <2>1, WFMin
<1>3. \A c \in B : ~(c < b)
  BY <1>1, <1>2 DEF OpToRel
<1>4. b \in S
  <2> SUFFICES ASSUME b \notin S PROVE FALSE
    OBVIOUS
  <2>1. \A j \in S : j < b
    BY <1>1
  <2>2. b # 0
    <3> PICK j \in S : TRUE
      OBVIOUS
    <3> QED
      BY <1>1, <2>1
  <2>3. b - 1 \in Nat /\ \A j \in S : j <= b - 1
    BY <1>1, <2>1, <2>2
  <2> QED
    BY <1>1, <1>3, <2>3
<1> QED
  BY <1>4

\* Undo and redo: the change that is chosen is in the trail.
LEMMA restore_changeKeeps ==
    ASSUME ToolsInv, NEW d \in Desks, NEW a \in Accounts, NEW redo \in BOOLEAN, restore_change(d, a, redo)
    PROVE  ToolsInv'
<1> DEFINE own == {k \in DOMAIN trail : trail[k].by = a /\ trail[k].undone = redo}
           chosen == CHOOSE k \in own : \A j \in own : j <= k
<1>1. /\ incidents \in Seq([tool : Tools, open : BOOLEAN]) /\ desk \in [Desks -> InHand \cup {Away}]
      /\ trail \in Seq(ToolTrailRows)
  BY DEF ToolsInv, ToolTables
<1>2. chosen \in DOMAIN trail
  <2>1. own # {} /\ own \subseteq Nat /\ DOMAIN trail = 1 .. Len(trail) /\ Len(trail) \in Nat
    BY <1>1 DEF restore_change
  <2>2. \A j \in own : j \in Nat /\ j <= Len(trail)
    BY <2>1
  <2>3. \E k \in own : \A j \in own : j <= k
    <3> HIDE DEF own
    <3> QED
      BY <2>1, <2>2, GreatestOfBounded
  <2> QED
    BY <2>3
<1> PICK x : x = [pc |-> "restore", change |-> chosen, redo |-> redo, crossed |-> FALSE]
  OBVIOUS
<1>3. x \in InHand /\ x.pc = "restore" /\ x.change = chosen
  BY <1>1, <1>2 DEF Restores, InHand
<1>4. desk' = [desk EXCEPT ![d] = x] /\ UNCHANGED <<tools, trail, side_tables>>
  BY DEF restore_change
<1>5. UNCHANGED <<approvals, working, incidents>>
  BY <1>4 DEF side_tables
<1>6. /\ desk' \in [Desks -> InHand \cup {Away}] /\ desk'[d] = x
      /\ \A o \in Desks \ {d} : desk'[o] = desk[o]
  BY <1>1, <1>3, <1>4
<1>7. SoundCall(x) /\ ReadFrom(x, tools) /\ OnTrail(x, trail) /\ HoldsNothing(x, tools) /\ ~Lends(x)
  BY <1>2, <1>3 DEF SoundCall, ReadFrom, OnTrail, HoldsNothing, Lends
<1> QED
  BY <1>1, <1>3, <1>4, <1>5, <1>6, <1>7, NoToolWritten

-----------------------------------------------------------------------------
(* The register of tools: the two functions of the database. *)

\* A row is written with a higher version: who read the one before is overtaken.
LEMMA RowWritten ==
    ASSUME ToolsInv, NEW d \in Desks, NEW t \in Tools, NEW row \in ToolRows,
           tools' = [tools EXCEPT ![t] = row], tools[t] # NoTool => tools[t].version < row.version,
           trail' \in Seq(ToolTrailRows), DOMAIN trail \subseteq DOMAIN trail',
           \A k \in DOMAIN trail' : trail'[k].tool = t \/ tools[trail'[k].tool] # NoTool,
           UNCHANGED <<incidents, approvals, working>>,
           desk' = Noticed([desk EXCEPT ![d] = Away], d)
    PROVE  ToolsInv'
<1>1. /\ desk \in [Desks -> InHand \cup {Away}] /\ tools \in [Tools -> ToolRows \cup {NoTool}]
      /\ incidents \in Seq([tool : Tools, open : BOOLEAN])
  BY DEF ToolsInv, ToolTables
<1>2. /\ desk' \in [Desks -> InHand \cup {Away}] /\ desk'[d] = Away
      /\ \A o \in Desks \ {d} :
            \/ desk'[o] = desk[o] /\ desk[o] = Away
            \/ desk[o] # Away /\ desk'[o] = Crossed(desk[o])
  <2> PICK base : base = [desk EXCEPT ![d] = Away]
    OBVIOUS
  <2>1. base[d] = Away /\ desk' = Noticed(base, d)
    BY <1>1
  <2> PICK x : x = Away
    OBVIOUS
  <2>2. base \in {desk, [desk EXCEPT ![d] = x]} /\ x \in InHand \cup {Away} /\ base[d] = x
    BY <2>1
  <2> QED
    BY <1>1, <2>1, <2>2, NoticedDesk
<1>3. /\ tools' \in [Tools -> ToolRows \cup {NoTool}] /\ tools'[t] = row /\ row # NoTool
      /\ \A s \in Tools \ {t} : tools'[s] = tools[s]
  BY <1>1, RowsAssumption
<1>4. \A k \in DOMAIN trail' : tools'[trail'[k].tool] # NoTool
  <2> SUFFICES ASSUME NEW k \in DOMAIN trail' PROVE tools'[trail'[k].tool] # NoTool
    OBVIOUS
  <2>1. trail'[k].tool \in Tools
    <3> PICK log \in Seq(ToolTrailRows) : log = trail'
      OBVIOUS
    <3>1. log[k] \in ToolTrailRows
      BY SeqAt
    <3> QED
      BY <3>1 DEF ToolTrailRows
  <2> QED
    BY <1>3, <2>1
<1>5. ToolTables'
  BY <1>1, <1>2, <1>3, <1>4 DEF ToolTables
<1>6. ASSUME NEW o \in Desks PROVE DeskInv(o)'
  <2>1. CASE desk'[o] = Away
    BY <2>1 DEF DeskInv, StillEligible, SoundCall, ReadFrom, OnTrail, HoldsNothing, Lends, Away
  <2>2. CASE o # d /\ desk[o] # Away /\ desk'[o] = Crossed(desk[o])
    <3> PICK y \in InHand : y = desk[o]
      BY <1>1, <2>2
    <3>1. desk'[o] = Crossed(y)
      BY <2>2
    <3>2. SoundCall(y) /\ ReadFrom(y, tools) /\ OnTrail(y, trail)
      BY DEF ToolsInv, DeskInv
    <3>3. SoundCall(Crossed(y)) /\ OnTrail(Crossed(y), trail') /\ Crossed(y).crossed
      BY <3>2, CrossedHand DEF SoundCall, OnTrail, Lends
    <3>4. ReadFrom(Crossed(y), tools')
      <4> SUFFICES ASSUME y.pc = "apply", y.before # NoTool
                   PROVE  /\ tools'[y.tool] # NoTool /\ y.before.version <= tools'[y.tool].version
                          /\ y.before.version = tools'[y.tool].version => tools'[y.tool] = y.before
        BY CrossedHand DEF ReadFrom
      <4>1. y \in Applies
        BY CrossedHand
      <4>2. y.before \in ToolRows /\ y.tool \in Tools
        BY <4>1 DEF Applies
      <4>3. y.before.version \in Nat /\ row.version \in Nat
        BY <4>2 DEF ToolRows
      <4>4. /\ tools[y.tool] # NoTool /\ y.before.version <= tools[y.tool].version
            /\ y.before.version = tools[y.tool].version => tools[y.tool] = y.before
        BY <3>2 DEF ReadFrom
      <4>5. tools[y.tool].version \in Nat
        BY <4>2, <4>4, FoundRow DEF ToolRows
      <4>6. CASE y.tool = t
        BY <1>3, <4>3, <4>4, <4>5, <4>6
      <4>7. CASE y.tool # t
        BY <1>3, <4>2, <4>4, <4>7
      <4> QED
        BY <4>6, <4>7
    <3> HIDE DEF Crossed
    <3> QED
      BY <3>1, <3>3, <3>4 DEF DeskInv, StillEligible, HoldsNothing, SoundCall, ReadFrom, OnTrail, Lends
  <2> QED
    BY <1>2, <2>1, <2>2
<1> QED
  BY <1>5, <1>6 DEF ToolsInv

\* A request that is refused ends without a trace.
LEMMA RefusedKeeps ==
    ASSUME ToolsInv, NEW d \in Desks, desk' = [desk EXCEPT ![d] = Away], UNCHANGED <<tools, trail, side_tables>>
    PROVE  ToolsInv'
<1>1. desk \in [Desks -> InHand \cup {Away}] /\ incidents \in Seq([tool : Tools, open : BOOLEAN])
  BY DEF ToolsInv, ToolTables
<1>2. UNCHANGED <<approvals, working, incidents>>
  BY DEF side_tables
<1>3. /\ desk' \in [Desks -> InHand \cup {Away}] /\ desk'[d] = Away
      /\ \A o \in Desks \ {d} : desk'[o] = desk[o]
  BY <1>1
<1> QED
  BY <1>1, <1>2, <1>3, AwayIsSound, NoToolWritten

LEMMA Renumbered ==
    ASSUME NEW row \in ToolRows, NEW v \in Nat
    PROVE  /\ [row EXCEPT !.version = v] \in ToolRows
           /\ [row EXCEPT !.version = v].version = v /\ [row EXCEPT !.version = v].holder = row.holder
BY DEF ToolRows

\* What a call of the database that is taken writes.
Taken(d) == desk[d].pc = "apply" /\ ~Replayed(desk[d]) /\ Current(desk[d])
LEMMA TakenWrites ==
    ASSUME ToolsInv, NEW d \in Desks, tools_workspace_apply_change(d), Taken(d),
           NEW x \in Applies, x = desk[d]
    PROVE  \E row \in ToolRows, change \in ToolTrailRows :
              /\ tools' = [tools EXCEPT ![x.tool] = row] /\ trail' = Append(trail, change)
              /\ tools[x.tool] # NoTool => tools[x.tool].version < row.version /\ change.before = tools[x.tool]
              /\ tools[x.tool] = NoTool => x.before = NoTool
              /\ tools[x.tool] # NoTool => x.before = tools[x.tool]
              /\ change.tool = x.tool /\ change.after = row /\ change.key = x.key
              /\ row.holder = x.after.holder
              /\ desk' = Noticed([desk EXCEPT ![d] = Away], d)
<1> DEFINE row == [x.after EXCEPT !.version = IF tools[x.tool] = NoTool THEN 1 ELSE tools[x.tool].version + 1]
           change == [tool |-> x.tool, before |-> IF x.before = NoTool THEN x.after ELSE x.before,
                      after |-> row, by |-> x.by, undone |-> FALSE, key |-> x.key]
<1>1. /\ x.tool \in Tools /\ x.before \in ToolRows \cup {NoTool} /\ x.after \in ToolRows /\ x.by \in Accounts
      /\ x.key \in SendKeys \cup {NoKey} /\ x.pc = "apply"
  BY DEF Applies
<1>2. tools[x.tool] # NoTool => tools[x.tool] \in ToolRows /\ tools[x.tool].version \in Nat
  BY <1>1, FoundRow DEF ToolRows
<1>3. row \in ToolRows /\ row.holder = x.after.holder
  <2> PICK v \in Nat : v = IF tools[x.tool] = NoTool THEN 1 ELSE tools[x.tool].version + 1
    BY <1>2
  <2> QED
    BY <1>1, Renumbered
<1>4. tools[x.tool] # NoTool => row.version = tools[x.tool].version + 1
  BY <1>1 DEF ToolRows
<1>5. /\ x.before = NoTool => tools[x.tool] = NoTool
      /\ x.before # NoTool => tools[x.tool].version = x.before.version
  BY DEF Taken, Current, SameVersion
<1>6. ReadFrom(x, tools)
  BY DEF ToolsInv, DeskInv
<1>7. /\ tools[x.tool] = NoTool => x.before = NoTool
      /\ tools[x.tool] # NoTool => x.before = tools[x.tool]
  BY <1>1, <1>5, <1>6 DEF ReadFrom
<1>8. /\ tools' = [tools EXCEPT ![x.tool] = row] /\ trail' = Append(trail, change)
      /\ desk' = Noticed([desk EXCEPT ![d] = Away], d)
  BY DEF tools_workspace_apply_change, Taken
<1> HIDE DEF row
<1>9. change \in ToolTrailRows
  BY <1>1, <1>3 DEF ToolTrailRows
<1>10. change.tool = x.tool /\ change.after = row /\ change.key = x.key /\ (x.before # NoTool => change.before = x.before)
  OBVIOUS
<1>11. tools[x.tool] # NoTool => tools[x.tool].version < row.version
  BY <1>2, <1>4
<1>12. tools[x.tool] # NoTool => change.before = tools[x.tool]
  BY <1>5, <1>7, <1>10
<1> HIDE DEF change
<1> QED
  BY <1>3, <1>7, <1>8, <1>9, <1>10, <1>11, <1>12

LEMMA InHandByPc ==
    ASSUME ToolsInv, NEW d \in Desks
    PROVE  /\ desk[d].pc = "apply" => desk[d] \in Applies
           /\ desk[d].pc = "restore" => desk[d] \in Restores
BY DEF ToolsInv, ToolTables, InHand, Applies, Restores, Closings, Leavings, Away

LEMMA tools_workspace_apply_changeKeeps ==
    ASSUME ToolsInv, NEW d \in Desks, tools_workspace_apply_change(d)
    PROVE  ToolsInv'
<1>1. UNCHANGED side_tables /\ desk[d].pc = "apply"
  BY DEF tools_workspace_apply_change
<1>2. CASE Taken(d)
  <2> PICK x \in Applies : x = desk[d]
    BY <1>1, InHandByPc
  <2>1. PICK row \in ToolRows, change \in ToolTrailRows :
          /\ tools' = [tools EXCEPT ![x.tool] = row] /\ trail' = Append(trail, change)
          /\ tools[x.tool] # NoTool => tools[x.tool].version < row.version
          /\ change.tool = x.tool
          /\ desk' = Noticed([desk EXCEPT ![d] = Away], d)
    BY <1>2, TakenWrites
  <2>2. trail \in Seq(ToolTrailRows) /\ \A k \in DOMAIN trail : tools[trail[k].tool] # NoTool
    BY DEF ToolsInv, ToolTables
  <2>3. /\ trail' \in Seq(ToolTrailRows) /\ DOMAIN trail \subseteq DOMAIN trail'
        /\ \A k \in DOMAIN trail' : trail'[k].tool = x.tool \/ tools[trail'[k].tool] # NoTool
    BY <2>1, <2>2
  <2>4. UNCHANGED <<incidents, approvals, working>> /\ x.tool \in Tools
    BY <1>1 DEF side_tables, Applies
  <2> QED
    BY <2>1, <2>3, <2>4, RowWritten
<1>3. CASE ~Taken(d)
  BY <1>1, <1>3, RefusedKeeps DEF tools_workspace_apply_change, Taken
<1> QED
  BY <1>2, <1>3

LEMMA tools_workspace_restore_changeKeeps ==
    ASSUME ToolsInv, NEW d \in Desks, tools_workspace_restore_change(d)
    PROVE  ToolsInv'
<1>1. UNCHANGED side_tables /\ desk[d].pc = "restore"
  BY DEF tools_workspace_restore_change
<1>2. CASE Undoable(d)
  <2> PICK n : n = desk[d].change
    OBVIOUS
  <2>1. /\ trail \in Seq(ToolTrailRows) /\ \A k \in DOMAIN trail : tools[trail[k].tool] # NoTool
        /\ n \in DOMAIN trail
    BY <1>1 DEF ToolsInv, ToolTables, DeskInv, OnTrail
  <2>2. PICK change \in ToolTrailRows : change = trail[n]
    BY <2>1, SeqAt
  <2>3. /\ change.tool \in Tools /\ {change.before, change.after} \subseteq ToolRows /\ tools[change.tool] # NoTool
        /\ change.undone \in BOOLEAN
    BY <2>1, <2>2 DEF ToolTrailRows
  <2>4. tools[change.tool].version \in Nat
    BY <2>3, FoundRow DEF ToolRows
  <2>5. PICK desired \in ToolRows :
          tools' = [tools EXCEPT ![change.tool] = [desired EXCEPT !.version = tools[change.tool].version + 1]]
    <3>1. (IF desk[d].redo THEN change.after ELSE change.before) \in ToolRows
      BY <2>3
    <3> QED
      BY <1>2, <2>2, <3>1 DEF tools_workspace_restore_change
  <2> DEFINE row == [desired EXCEPT !.version = tools[change.tool].version + 1]
  <2>6. row \in ToolRows /\ row.version = tools[change.tool].version + 1
    <3> PICK v \in Nat : v = tools[change.tool].version + 1
      BY <2>4
    <3> QED
      BY Renumbered
  <2>7. trail' = [trail EXCEPT ![n].undone = ~@] /\ desk' = Noticed([desk EXCEPT ![d] = Away], d)
    BY <1>2 DEF tools_workspace_restore_change
  <2>8. /\ DOMAIN trail = 1 .. Len(trail) /\ Len(trail) \in Nat
        /\ \A k \in 1 .. Len(trail) : trail[k] \in ToolTrailRows
    BY <2>1, SeqAt
  <2>9. /\ trail' = [k \in 1 .. Len(trail) |-> trail'[k]]
        /\ \A k \in 1 .. Len(trail) : trail'[k] \in ToolTrailRows /\ trail'[k].tool = trail[k].tool
    <3>1. \A k \in 1 .. Len(trail) : trail'[k] = IF k = n THEN [change EXCEPT !.undone = ~@] ELSE trail[k]
      BY <2>2, <2>7, <2>8
    <3>2. [change EXCEPT !.undone = ~@] \in ToolTrailRows /\ [change EXCEPT !.undone = ~@].tool = change.tool
      BY DEF ToolTrailRows
    <3>3. trail' = [k \in 1 .. Len(trail) |-> trail'[k]]
      BY <2>7, <2>8
    <3> QED
      BY <2>2, <2>8, <3>1, <3>2, <3>3
  <2>10. /\ trail' \in Seq(ToolTrailRows) /\ DOMAIN trail \subseteq DOMAIN trail'
         /\ \A k \in DOMAIN trail' : trail'[k].tool = change.tool \/ tools[trail'[k].tool] # NoTool
    <3> PICK log : log = trail'
      OBVIOUS
    <3> PICK m \in Nat : m = Len(trail)
      BY <2>8
    <3>1. log = [k \in 1 .. m |-> log[k]] /\ \A k \in 1 .. m : log[k] \in ToolTrailRows
      BY <2>9
    <3>2. log \in Seq(ToolTrailRows)
      BY <3>1, SeqMade
    <3> QED
      BY <2>1, <2>8, <2>9, <3>1, <3>2
  <2>11. UNCHANGED <<incidents, approvals, working>>
    BY <1>1 DEF side_tables
  <2>12. tools' = [tools EXCEPT ![change.tool] = row] /\ tools[change.tool].version < row.version
    BY <2>4, <2>5, <2>6
  <2> HIDE DEF row
  <2>13. PICK r \in ToolRows : r = row
    BY <2>6
  <2> QED
    BY <2>3, <2>7, <2>10, <2>11, <2>12, <2>13, RowWritten
<1>3. CASE ~Undoable(d)
  BY <1>1, <1>3, RefusedKeeps DEF tools_workspace_restore_change
<1> QED
  BY <1>2, <1>3

-----------------------------------------------------------------------------
LEMMA ToolsBeginSound == ToolsBegin => ToolsInv
<1> SUFFICES ASSUME ToolsBegin PROVE ToolsInv
  OBVIOUS
<1>1. PICK rows \in [Tools -> ToolRows \cup {NoTool}],
           cleared \in [Artisans -> [Tools -> {"none", "current", "lapsed", "withheld"}]],
           sets \in [Tools -> Tools \cup {NoTool}] : ToolsInit(rows, cleared, sets)
  BY DEF ToolsBegin
<1>2. ToolTables
  BY <1>1 DEF ToolsInit, ToolTables
<1>3. ASSUME NEW d \in Desks PROVE DeskInv(d)
  <2>1. desk[d] = Away
    BY <1>1 DEF ToolsInit
  <2> QED
    BY <2>1 DEF DeskInv, StillEligible, SoundCall, ReadFrom, OnTrail, HoldsNothing, Lends, Away
<1> QED
  BY <1>2, <1>3 DEF ToolsInv

LEMMA ToolRequestKeeps ==
    ASSUME ToolsInv, NEW d \in Desks, ToolRequest(d)
    PROVE  ToolsInv'
<1>1. ASSUME NEW a \in Accounts, NEW t \in Tools, NEW c \in {"Good", "Damaged"},
             create_tool(d, a, t, c) \/ commit_import(d, a, t, c) \/ update_tool(d, a, t, c)
      PROVE  ToolsInv'
  BY <1>1, create_toolKeeps, update_toolKeeps
<1>2. ASSUME NEW a \in Accounts, NEW t \in Tools, NEW m \in Tools,
             \/ archive_tool(d, a, t) \/ mark_tool_ready(d, a, t) \/ report_incident(d, a, t)
             \/ remove_set_member(d, a, t, m)
      PROVE  ToolsInv'
  BY <1>2, archive_toolKeeps, report_incidentKeeps, remove_set_memberKeeps
<1>3. ASSUME NEW a \in Accounts, NEW t \in Tools, NEW e \in Artisans, NEW override \in BOOLEAN,
             _move(d, a, t, "issue", e, "Good", override, NoKey)
      PROVE  ToolsInv'
  BY <1>3, _moveKeeps
<1>4. ASSUME NEW a \in Accounts, NEW t \in Tools, NEW e \in Artisans, NEW k \in SendKeys,
             _move(d, a, t, "transfer", e, "Good", TRUE, k)
      PROVE  ToolsInv'
  BY <1>4, _moveKeeps
<1>5. ASSUME NEW a \in Accounts, NEW t \in Tools, NEW c \in {"Good", "Missing parts"},
             _move(d, a, t, "return", NoOne, c, FALSE, NoKey)
      PROVE  ToolsInv'
  BY <1>5, _moveKeeps
<1>6. ASSUME NEW a \in Accounts, NEW t \in Tools, NEW k \in SendKeys,
             _move(d, a, t, "extend", NoOne, "Good", FALSE, k)
      PROVE  ToolsInv'
  BY <1>6, _moveKeeps
<1>7. ASSUME NEW a \in Accounts, NEW t \in Tools, NEW type \in {"required", "pre_use"},
             NEW outcome \in {"passed", "failed"}, record_inspection(d, a, t, type, outcome)
      PROVE  ToolsInv'
  BY <1>7, record_inspectionKeeps
<1>8. ASSUME NEW k \in DOMAIN incidents, close_incident(d, k) PROVE ToolsInv'
  BY <1>8, close_incidentKeeps
<1>9. ASSUME NEW e \in Artisans, NEW t \in Tools, NEW record \in {"current", "lapsed", "withheld"},
             save_competency(d, e, t, record)
      PROVE  ToolsInv'
  BY <1>9, save_competencyKeeps
<1>10. ASSUME NEW e \in Artisans, update_employee(d, e) PROVE ToolsInv'
  BY <1>10, update_employeeKeeps
<1>11. ASSUME NEW a \in Accounts, NEW redo \in BOOLEAN, restore_change(d, a, redo) PROVE ToolsInv'
  BY <1>11, restore_changeKeeps
<1> QED
  BY <1>1, <1>2, <1>3, <1>4, <1>5, <1>6, <1>7, <1>8, <1>9, <1>10, <1>11 DEF ToolRequest

LEMMA ToolsNextKeeps == ToolsInv /\ [ToolsNext]_tool_vars => ToolsInv'
<1> SUFFICES ASSUME ToolsInv, [ToolsNext]_tool_vars PROVE ToolsInv'
  OBVIOUS
<1>1. CASE UNCHANGED tool_vars
  BY <1>1 DEF tool_vars, ToolsInv, ToolTables, DeskInv, StillEligible, _eligibility_basis, SoundCall,
              ReadFrom, OnTrail, HoldsNothing, Lends
<1>2. ASSUME NEW t \in InUse, CheckLapses(t) PROVE ToolsInv'
  BY <1>2, CheckLapsesKeeps DEF InUse
<1>3. ASSUME NEW d \in Desks,
             \/ ToolRequest(d) \/ CloseIncident(d) \/ Deactivate(d)
             \/ tools_workspace_apply_change(d) \/ tools_workspace_restore_change(d)
      PROVE  ToolsInv'
  BY <1>3, ToolRequestKeeps, CloseIncidentKeeps, DeactivateKeeps,
     tools_workspace_apply_changeKeeps, tools_workspace_restore_changeKeeps
<1> QED
  BY <1>1, <1>2, <1>3 DEF ToolsNext

\* What a step of the register may do: one case for each action that writes a row.
LEMMA RequestsOnlyAsk ==
    ASSUME NEW d \in Desks, ToolRequest(d)
    PROVE  UNCHANGED <<tools, trail>> /\ working \subseteq working'
<1> DEFINE told == UNCHANGED <<tools, trail>> /\ working \subseteq working'
<1>1. ASSUME NEW a \in Accounts, NEW t \in Tools, NEW c \in {"Good", "Damaged"},
             create_tool(d, a, t, c) \/ commit_import(d, a, t, c) \/ update_tool(d, a, t, c)
      PROVE  told
  BY <1>1 DEF create_tool, commit_import, update_tool, side_tables
<1>2. ASSUME NEW a \in Accounts, NEW t \in Tools, NEW m \in Tools,
             \/ archive_tool(d, a, t) \/ mark_tool_ready(d, a, t) \/ report_incident(d, a, t)
             \/ remove_set_member(d, a, t, m)
      PROVE  told
  BY <1>2 DEF archive_tool, mark_tool_ready, report_incident, remove_set_member, side_tables
<1>3. ASSUME NEW a, NEW t, NEW move, NEW e, NEW c, NEW override, NEW k, _move(d, a, t, move, e, c, override, k)
      PROVE  told
  BY <1>3 DEF _move, side_tables
<1>4. ASSUME NEW a \in Accounts, NEW t \in Tools, NEW type, NEW outcome, record_inspection(d, a, t, type, outcome)
      PROVE  told
  BY <1>4 DEF record_inspection
<1>5. ASSUME NEW k, close_incident(d, k) PROVE told
  BY <1>5 DEF close_incident, side_tables
<1>6. ASSUME NEW e, NEW t, NEW record, save_competency(d, e, t, record) PROVE told
  BY <1>6 DEF save_competency
<1>7. ASSUME NEW e, update_employee(d, e) PROVE told
  BY <1>7 DEF update_employee
<1>8. ASSUME NEW a, NEW redo, restore_change(d, a, redo) PROVE told
  BY <1>8 DEF restore_change, side_tables
<1> HIDE DEF told
<1> QED
  BY <1>1, <1>2, <1>3, <1>4, <1>5, <1>6, <1>7, <1>8 DEF ToolRequest, told

LEMMA TakenIsTold ==
    ASSUME ToolsInv, NEW d \in Desks, tools_workspace_apply_change(d), Taken(d)
    PROVE  TrailIsTrue /\ OnlyFitGoesOut
<1> PICK x \in Applies : x = desk[d] /\ x.pc = "apply"
  BY InHandByPc DEF Taken
<1>1. PICK row \in ToolRows, change \in ToolTrailRows :
         /\ tools' = [tools EXCEPT ![x.tool] = row] /\ trail' = Append(trail, change)
         /\ tools[x.tool] # NoTool => change.before = tools[x.tool]
         /\ tools[x.tool] # NoTool => x.before = tools[x.tool]
         /\ change.tool = x.tool /\ change.after = row /\ change.key = x.key
         /\ row.holder = x.after.holder
         /\ desk' = Noticed([desk EXCEPT ![d] = Away], d)
  BY TakenWrites
<1>2. /\ trail \in Seq(ToolTrailRows) /\ tools \in [Tools -> ToolRows \cup {NoTool}] /\ x.tool \in Tools
      /\ desk \in [Desks -> InHand \cup {Away}]
  BY DEF ToolsInv, ToolTables, Applies
<1>3. Last(trail') = change /\ Len(trail') > Len(trail)
  BY <1>1, <1>2 DEF Last
<1>4. TrailIsTrue
  <2>1. tools'[change.tool] = row
    BY <1>1, <1>2
  <2>2. x.key # NoKey => \A k \in DOMAIN trail : trail[k].key # x.key
    BY DEF Taken, Replayed
  <2> QED
    BY <1>1, <1>3, <2>1, <2>2 DEF TrailIsTrue, Recorded
<1>5. ASSUME NEW t \in Tools, Lent(t)
      PROVE  /\ tools[t].status = "available" /\ ~_needs_attention(tools[t]) /\ ~tools[t].archived
             /\ Applying(d) /\ (desk[d].crossed \/ _eligibility_basis(tools'[t].holder, t))
  <2>1. tools[t] # NoTool /\ tools[t].holder = NoOne /\ tools'[t].holder # NoOne
    BY <1>5 DEF Lent, InUse
  <2>2. t = x.tool /\ tools'[t] = row
    BY <1>1, <1>2, <2>1
  <2>3. Lends(x) /\ x.before = tools[t]
    BY <1>1, <2>1, <2>2 DEF Lends
  <2>4. SoundCall(x) /\ StillEligible(x)
    BY DEF ToolsInv, DeskInv
  <2>5. tools[t].status = "available" /\ ~_needs_attention(tools[t]) /\ ~tools[t].archived
    BY <2>3, <2>4 DEF SoundCall
  <2>6. x.crossed \/ _eligibility_basis(row.holder, t)
    BY <1>1, <2>2, <2>3, <2>4 DEF StillEligible
  <2>7. Applying(d)
    BY <1>1, <1>2 DEF Applying, Noticed
  <2> QED
    BY <2>2, <2>5, <2>6, <2>7
<1> QED
  BY <1>4, <1>5 DEF OnlyFitGoesOut

\* Undo and redo record nothing, and mark the change they went back on.
LEMMA RestoreIsTold ==
    ASSUME ToolsInv, NEW d \in Desks, tools_workspace_restore_change(d), Undoable(d)
    PROVE  TrailIsTrue /\ OnlyFitGoesOut
<1>1. /\ trail \in Seq(ToolTrailRows) /\ desk[d].change \in DOMAIN trail
      /\ trail' = [trail EXCEPT ![desk[d].change].undone = ~@]
  BY DEF ToolsInv, ToolTables, DeskInv, OnTrail, tools_workspace_restore_change
<1> PICK n \in DOMAIN trail : n = desk[d].change
  BY <1>1
<1>2. PICK change \in ToolTrailRows : change = trail[n]
  BY <1>1, SeqAt
<1>3. trail' = [trail EXCEPT ![n] = [change EXCEPT !.undone = ~@]]
  BY <1>1, <1>2
<1>4. [change EXCEPT !.undone = ~@].undone # change.undone /\ Len(trail') = Len(trail)
  <2>1. [change EXCEPT !.undone = ~@].undone # change.undone
    BY DEF ToolTrailRows
  <2>2. DOMAIN trail = 1 .. Len(trail) /\ Len(trail) \in Nat
    BY <1>1, SeqAt
  <2>3. trail' = [k \in 1 .. Len(trail) |-> trail'[k]]
    BY <1>3, <2>2
  <2> PICK m \in Nat : m = Len(trail)
    BY <2>2
  <2> PICK log : log = trail'
    OBVIOUS
  <2>4. Len(log) = m
    BY <2>3
  <2> QED
    BY <2>1, <2>4
<1>5. ~Recorded
  BY <1>1, <1>4 DEF Recorded
<1>6. trail'[n].undone # trail[n].undone
  BY <1>2, <1>3, <1>4
<1> QED
  BY <1>5, <1>6 DEF TrailIsTrue, OnlyFitGoesOut

LEMMA NothingWritten ==
    ASSUME ToolsInv, UNCHANGED <<tools, trail>>
    PROVE  TrailIsTrue /\ OnlyFitGoesOut
<1>1. Len(trail) \in Nat
  BY DEF ToolsInv, ToolTables
<1> QED
  BY <1>1 DEF TrailIsTrue, OnlyFitGoesOut, Recorded

LEMMA StepIsTold ==
    ASSUME ToolsInv, [ToolsNext]_tool_vars
    PROVE  TrailIsTrue /\ OnlyFitGoesOut
<1>1. CASE UNCHANGED tool_vars
  BY <1>1, NothingWritten DEF tool_vars
<1>2. ASSUME NEW t \in InUse, CheckLapses(t) PROVE TrailIsTrue /\ OnlyFitGoesOut
  BY <1>2, NothingWritten DEF CheckLapses
<1>3. ASSUME NEW d \in Desks, ToolRequest(d) \/ CloseIncident(d) \/ Deactivate(d)
      PROVE  TrailIsTrue /\ OnlyFitGoesOut
  BY <1>3, RequestsOnlyAsk, NothingWritten DEF CloseIncident, Deactivate
<1>4. ASSUME NEW d \in Desks, tools_workspace_apply_change(d) PROVE TrailIsTrue /\ OnlyFitGoesOut
  <2>1. CASE Taken(d)
    BY <1>4, <2>1, TakenIsTold
  <2>2. CASE ~Taken(d)
    BY <1>4, <2>2, NothingWritten DEF tools_workspace_apply_change, Taken
  <2> QED
    BY <2>1, <2>2
<1>5. ASSUME NEW d \in Desks, tools_workspace_restore_change(d) PROVE TrailIsTrue /\ OnlyFitGoesOut
  <2>1. CASE Undoable(d)
    BY <1>5, <2>1, RestoreIsTold
  <2>2. CASE ~Undoable(d)
    BY <1>5, <2>2, NothingWritten DEF tools_workspace_restore_change
  <2> QED
    BY <2>1, <2>2
<1> QED
  BY <1>1, <1>2, <1>3, <1>4, <1>5 DEF ToolsNext

\* Only the second call of a request to deactivate somebody takes an employee out.
LEMMA StaffKept ==
    ASSUME NEW d \in Desks,
           ToolRequest(d) \/ CloseIncident(d) \/ tools_workspace_apply_change(d) \/ tools_workspace_restore_change(d)
    PROVE  working \subseteq working'
<1>1. ASSUME ToolRequest(d) PROVE working \subseteq working'
  BY <1>1, RequestsOnlyAsk
<1> QED
  BY <1>1 DEF CloseIncident, tools_workspace_apply_change, tools_workspace_restore_change, side_tables

LEMMA LeaversToldApart ==
    ASSUME ToolsInv, [ToolsNext]_tool_vars
    PROVE  LeaversHoldNothing
<1> SUFFICES ASSUME NEW e \in working \ working', NEW t \in InUse, tools[t].holder = e
             PROVE  \E d \in Desks : desk[d].pc = "deactivate" /\ desk[d].employee = e /\ desk[d].crossed
  BY DEF LeaversHoldNothing
<1>1. working' # working /\ ~(working \subseteq working')
  OBVIOUS
<1>2. PICK d \in Desks : Deactivate(d)
  BY <1>1, StaffKept DEF ToolsNext, tool_vars, CheckLapses
<1>3. desk[d].pc = "deactivate" /\ desk[d].employee = e
  BY <1>2 DEF Deactivate
<1>4. desk[d].crossed
  BY <1>3 DEF ToolsInv, DeskInv, HoldsNothing, InUse
<1> QED
  BY <1>3, <1>4

\* However requests overlap, undo and redo among them, the trail shows each change as it
\* was made and one key makes one; a tool goes out only when it was in and fit, and to
\* somebody whose approval stands; and who is deactivated holds no tool: the last two as
\* far as no other request wrote between the question and the call that acts on it.
THEOREM ToolsAccounted == ToolsSpec => ToolsAreAccountedFor
<1>1. ToolsBegin => ToolsInv
  BY ToolsBeginSound
<1>2. ToolsInv /\ [ToolsNext]_tool_vars => ToolsInv'
  BY ToolsNextKeeps
<1>3. ToolsInv /\ [ToolsNext]_tool_vars => [TrailIsTrue /\ OnlyFitGoesOut /\ LeaversHoldNothing]_tool_vars
  BY StepIsTold, LeaversToldApart
<1> QED
  BY <1>1, <1>2, <1>3, PTL DEF ToolsSpec, ToolsAreAccountedFor

-----------------------------------------------------------------------------
(* The sets: what a request under way has in hand. *)
LineIds == {PieceLines[l] : l \in DOMAIN PieceLines}
Makings ==
    [pc : {"make"}, key : RequestKeys, todo : Seq(Names), seen : SUBSET Names, count : Nat, crossed : BOOLEAN]
Pickings ==
    [pc : {"pick", "answer"}, key : RequestKeys, todo : Seq(Names), seen : SUBSET Names, count : Nat, crossed : BOOLEAN]
Servings ==
    [pc : {"fill", "issue"}, key : RequestKeys, todo : Seq(Names), seen : SUBSET Names, count : Nat, crossed : BOOLEAN,
     set : Sets, version : Nat, left : Seq(LineIds)]
Lookings == [pc : {"look"}, set : Sets, version : Nat, crossed : BOOLEAN]
Returnings ==
    [pc : {"return"}, set : Sets, version : Nat,
     changes : [status : {"available", "attention"}, holder : {Nobody}], crossed : BOOLEAN]
Editings == [pc : {"write"}, set : Sets, version : Nat, changes : {<<>>}, crossed : BOOLEAN]
Movings ==
    [pc : {"move"}, set : Sets, version : Nat,
     changes : [status : {"available", "issued", "attention"}, holder : Employees \cup {Nobody}], crossed : BOOLEAN]
AtCounter == Makings \cup Pickings \cup Servings \cup Lookings \cup Returnings \cup Editings \cup Movings

\* The request hands sets out under its key; one that makes them in store does not.
Hands(x) == x.pc \in {"pick", "issue", "answer"} \/ (x.pc \in {"make", "fill"} /\ x.todo # <<>>)
HandsUnder(x, k) == Hands(x) /\ x.key = k
PeopleIn(names, e) == {n \in names : Who(n) = e}

SetTables ==
    /\ heads \in [Sets -> SetRows \cup {NoSet}]
    /\ handed \in [RequestKeys -> [Employees -> Nat]]
    /\ counter \in [Counters -> AtCounter \cup {Closed}]
    /\ In_use = 1 .. Cardinality(In_use)

\* The person to be served next was not served before.
NextIsNew(x) ==
    x.pc = "issue" \/ (x.pc \in {"make", "fill"} /\ x.todo # <<>>) => x.todo # <<>> /\ Head(x.todo) \notin x.seen
\* The set it has in hand is there; one it is about to issue is free, or moved on, and
\* one that it hands out as a tool of the register was available.
SetIsThere(x, hs) ==
    x.pc \in {"fill", "issue", "look", "return", "write", "move"} =>
        /\ hs[x.set] # NoSet /\ x.version <= hs[x.set].version
        /\ x.pc \in {"fill", "issue"} /\ x.version = hs[x.set].version =>
              hs[x.set].status = "available" /\ hs[x.set].holder = Nobody
        /\ x.pc = "move" /\ x.version = hs[x.set].version /\ hs[x.set].holder = Nobody /\ x.changes.holder # Nobody =>
              hs[x.set].status = "available"
\* Unless another request wrote since, a set to be put away has every piece fit.
PiecesFit(x, ps) == x.pc = "return" /\ x.changes.status = "available" /\ ~x.crossed => ~Unfit(ps[x.set])
CounterOK(x, hs, ps) == NextIsNew(x) /\ SetIsThere(x, hs) /\ PiecesFit(x, ps)

\* Of each key that no request broke off under, and none overlapped.
OneHands(k) ==
    \A c1, c2 \in Counters : HandsUnder(counter[c1], k) /\ HandsUnder(counter[c2], k) => c1 = c2
HandedOut(k) ==
    /\ \A c \in Counters : HandsUnder(counter[c], k) =>
          k \notin stored /\ \A e \in Employees : handed[k][e] <= Cardinality(PeopleIn(counter[c].seen, e))
    /\ k \notin stored /\ (\A c \in Counters : ~HandsUnder(counter[c], k)) => \A e \in Employees : handed[k][e] = 0
    /\ \A e \in Employees : handed[k][e] <= Cardinality(PeopleIn(Names, e))
KeyInv(k) == OneHands(k) /\ HandedOut(k)

SetsInv ==
    /\ SetTables
    /\ \A c \in Counters : CounterOK(counter[c], heads, pieces)
    /\ \A k \in RequestKeys \ cut_short : KeyInv(k)

-----------------------------------------------------------------------------
(* The sets: rules. *)
OverTaken(x) == [x EXCEPT !.crossed = TRUE]

\* A request overtaken by another has in hand what it had.
LEMMA OverTakenHand ==
    ASSUME NEW x \in AtCounter
    PROVE  /\ OverTaken(x) \in AtCounter /\ OverTaken(x).crossed /\ OverTaken(x).pc = x.pc
           /\ x # Closed /\ x.pc # "closed"
           /\ x.pc \in {"make", "pick", "answer", "fill", "issue"} =>
                 OverTaken(x).key = x.key /\ OverTaken(x).todo = x.todo /\ OverTaken(x).seen = x.seen
           /\ x.pc \in {"fill", "issue", "look", "return", "write", "move"} =>
                 OverTaken(x).set = x.set /\ OverTaken(x).version = x.version
           /\ x.pc = "move" => OverTaken(x).changes = x.changes
<1>1. CASE x \in Makings
  <2>1. OverTaken(x) \in Makings
    BY <1>1 DEF Makings, OverTaken
  <2>2. /\ x.pc = "make" /\ OverTaken(x).pc = x.pc /\ OverTaken(x).crossed
        /\ OverTaken(x).key = x.key /\ OverTaken(x).todo = x.todo /\ OverTaken(x).seen = x.seen
    BY <1>1 DEF Makings, OverTaken
  <2> QED
    BY <2>1, <2>2 DEF AtCounter, Closed
<1>2. CASE x \in Pickings
  <2>1. OverTaken(x) \in Pickings
    BY <1>2 DEF Pickings, OverTaken
  <2>2. /\ x.pc \in {"pick", "answer"} /\ OverTaken(x).pc = x.pc /\ OverTaken(x).crossed
        /\ OverTaken(x).key = x.key /\ OverTaken(x).todo = x.todo /\ OverTaken(x).seen = x.seen
    BY <1>2 DEF Pickings, OverTaken
  <2> QED
    BY <2>1, <2>2 DEF AtCounter, Closed
<1>3. CASE x \in Servings
  <2>1. OverTaken(x) \in Servings
    BY <1>3 DEF Servings, OverTaken
  <2>2. /\ x.pc \in {"fill", "issue"} /\ OverTaken(x).pc = x.pc /\ OverTaken(x).crossed
        /\ OverTaken(x).key = x.key /\ OverTaken(x).todo = x.todo /\ OverTaken(x).seen = x.seen
        /\ OverTaken(x).set = x.set /\ OverTaken(x).version = x.version
    BY <1>3 DEF Servings, OverTaken
  <2> QED
    BY <2>1, <2>2 DEF AtCounter, Closed
<1>4. CASE x \in Lookings
  <2>1. OverTaken(x) \in Lookings
    BY <1>4 DEF Lookings, OverTaken
  <2>2. /\ x.pc = "look" /\ OverTaken(x).pc = x.pc /\ OverTaken(x).crossed
        /\ OverTaken(x).set = x.set /\ OverTaken(x).version = x.version
    BY <1>4 DEF Lookings, OverTaken
  <2> QED
    BY <2>1, <2>2 DEF AtCounter, Closed
<1>5. CASE x \in Returnings
  <2>1. OverTaken(x) \in Returnings
    BY <1>5 DEF Returnings, OverTaken
  <2>2. /\ x.pc = "return" /\ OverTaken(x).pc = x.pc /\ OverTaken(x).crossed
        /\ OverTaken(x).set = x.set /\ OverTaken(x).version = x.version
    BY <1>5 DEF Returnings, OverTaken
  <2> QED
    BY <2>1, <2>2 DEF AtCounter, Closed
<1>6. CASE x \in Editings
  <2>1. OverTaken(x) \in Editings
    BY <1>6 DEF Editings, OverTaken
  <2>2. /\ x.pc = "write" /\ OverTaken(x).pc = x.pc /\ OverTaken(x).crossed
        /\ OverTaken(x).set = x.set /\ OverTaken(x).version = x.version
    BY <1>6 DEF Editings, OverTaken
  <2> QED
    BY <2>1, <2>2 DEF AtCounter, Closed
<1>7. CASE x \in Movings
  <2>1. OverTaken(x) \in Movings
    BY <1>7 DEF Movings, OverTaken
  <2>2. /\ x.pc = "move" /\ OverTaken(x).pc = x.pc /\ OverTaken(x).crossed
        /\ OverTaken(x).set = x.set /\ OverTaken(x).version = x.version /\ OverTaken(x).changes = x.changes
    BY <1>7 DEF Movings, OverTaken
  <2> QED
    BY <2>1, <2>2 DEF AtCounter, Closed
<1> QED
  BY <1>1, <1>2, <1>3, <1>4, <1>5, <1>6, <1>7 DEF AtCounter

\* What a step of one request leaves the others with: what they had, or overtaken.
Overtook(o) ==
    \/ counter[o] = Closed /\ counter'[o] = Closed
    \/ counter[o] \in AtCounter /\ counter'[o] = OverTaken(counter[o])
Standing(o) == counter'[o] = counter[o] \/ Overtook(o)
LEMMA KeptHands ==
    ASSUME SetTables, NEW o \in Counters, Standing(o)
    PROVE  /\ Hands(counter'[o]) <=> Hands(counter[o])
           /\ \A k : HandsUnder(counter'[o], k) <=> HandsUnder(counter[o], k)
           /\ Hands(counter[o]) => counter'[o].seen = counter[o].seen /\ counter'[o].key = counter[o].key
<1>1. CASE counter'[o] = counter[o]
  BY <1>1 DEF HandsUnder, Hands
<1>2. CASE counter[o] \in AtCounter /\ counter'[o] = OverTaken(counter[o])
  <2> PICK x \in AtCounter : x = counter[o]
    BY <1>2
  <2>1. counter'[o] = OverTaken(x)
    BY <1>2
  <2>2. /\ Hands(OverTaken(x)) <=> Hands(x)
        /\ Hands(x) => OverTaken(x).seen = x.seen /\ OverTaken(x).key = x.key
    BY OverTakenHand DEF Hands
  <2> HIDE DEF OverTaken
  <2> QED
    BY <2>1, <2>2 DEF HandsUnder
<1> QED
  BY <1>1, <1>2 DEF Standing, Overtook

\* The heads only move on.
MoveOn ==
    \A s \in Sets : heads[s] # NoSet =>
        heads'[s] # NoSet /\ (heads'[s] = heads[s] \/ heads[s].version < heads'[s].version)
LEMMA OthersKept ==
    ASSUME SetsInv, heads' \in [Sets -> SetRows \cup {NoSet}], MoveOn, NEW o \in Counters,
           Overtook(o) \/ (counter'[o] = counter[o] /\ UNCHANGED <<heads, pieces>>)
    PROVE  counter'[o] \in AtCounter \cup {Closed} /\ CounterOK(counter'[o], heads', pieces')
<1>1. counter[o] \in AtCounter \cup {Closed} /\ CounterOK(counter[o], heads, pieces)
  BY DEF SetsInv, SetTables
<1>2. CASE counter'[o] = counter[o] /\ UNCHANGED <<heads, pieces>>
  BY <1>1, <1>2
<1>3. CASE counter'[o] = Closed
  BY <1>3 DEF CounterOK, NextIsNew, SetIsThere, PiecesFit, Closed
<1>4. CASE counter[o] \in AtCounter /\ counter'[o] = OverTaken(counter[o])
  <2> PICK x \in AtCounter : x = counter[o]
    BY <1>4
  <2>1. counter'[o] = OverTaken(x)
    BY <1>4
  <2>2. NextIsNew(x) /\ SetIsThere(x, heads)
    BY <1>1 DEF CounterOK
  <2>3. NextIsNew(OverTaken(x)) /\ PiecesFit(OverTaken(x), pieces') /\ OverTaken(x) \in AtCounter
    BY <2>2, OverTakenHand DEF NextIsNew, PiecesFit
  <2>4. SetIsThere(OverTaken(x), heads')
    <3> SUFFICES ASSUME x.pc \in {"fill", "issue", "look", "return", "write", "move"} PROVE SetIsThere(OverTaken(x), heads')
      BY OverTakenHand DEF SetIsThere
    <3>1. x.set \in Sets /\ x.version \in Nat
      BY DEF AtCounter, Makings, Pickings, Servings, Lookings, Returnings, Editings, Movings
    <3>2. heads[x.set] # NoSet /\ heads[x.set] \in SetRows /\ heads'[x.set] # NoSet /\ heads'[x.set] \in SetRows
      BY <2>2, <3>1 DEF SetIsThere, SetsInv, SetTables, MoveOn
    <3>3. heads[x.set].version \in Nat /\ heads'[x.set].version \in Nat
      BY <3>2 DEF SetRows
    <3>4. heads'[x.set] = heads[x.set] \/ heads[x.set].version < heads'[x.set].version
      BY <3>1, <3>2 DEF MoveOn
    <3>5. /\ x.version <= heads[x.set].version
          /\ x.pc \in {"fill", "issue"} /\ x.version = heads[x.set].version =>
                heads[x.set].status = "available" /\ heads[x.set].holder = Nobody
          /\ x.pc = "move" /\ x.version = heads[x.set].version /\ heads[x.set].holder = Nobody /\ x.changes.holder # Nobody =>
                heads[x.set].status = "available"
      BY <2>2 DEF SetIsThere
    <3>6. /\ OverTaken(x).set = x.set /\ OverTaken(x).version = x.version /\ OverTaken(x).pc = x.pc
          /\ x.pc = "move" => OverTaken(x).changes = x.changes
      BY OverTakenHand
    <3> HIDE DEF OverTaken
    <3> QED
      BY <3>1, <3>2, <3>3, <3>4, <3>5, <3>6 DEF SetIsThere
  <2> HIDE DEF OverTaken
  <2> QED
    BY <2>1, <2>3, <2>4 DEF CounterOK
<1> QED
  BY <1>2, <1>3, <1>4 DEF Overtook

\* What is written next: the counter has a sound request, the others are overtaken.
LEMMA GoesOnKept ==
    ASSUME SetTables, NEW c \in Counters, NEW x \in AtCounter \cup {Closed}, Goes_on(c, x)
    PROVE  /\ counter' \in [Counters -> AtCounter \cup {Closed}] /\ counter'[c] = x
           /\ \A o \in Counters \ {c} : Overtook(o)
<1>1. counter \in [Counters -> AtCounter \cup {Closed}]
  BY DEF SetTables
<1>2. ASSUME NEW o \in Counters
      PROVE  counter'[o] = IF o = c THEN x ELSE IF counter[o] = Closed THEN Closed ELSE OverTaken(counter[o])
  BY DEF Goes_on, OverTaken
<1>3. \A o \in Counters : counter[o] # Closed => counter[o] \in AtCounter /\ OverTaken(counter[o]) \in AtCounter
  BY <1>1, OverTakenHand
<1>4. counter' = [o \in Counters |-> counter'[o]]
  BY DEF Goes_on
<1> HIDE DEF OverTaken
<1> QED
  BY <1>1, <1>2, <1>3, <1>4 DEF Overtook

\* A step that leaves who hands out under a key, and what they handed out, as it was.
LEMMA KeyKept ==
    ASSUME SetsInv, NEW c \in Counters, \A o \in Counters \ {c} : Standing(o), cut_short \subseteq cut_short',
           NEW k \in RequestKeys \ cut_short', k \in stored' <=> k \in stored, handed'[k] = handed[k],
           HandsUnder(counter'[c], k) <=> HandsUnder(counter[c], k),
           HandsUnder(counter'[c], k) => counter'[c].seen = counter[c].seen
    PROVE  KeyInv(k)'
<1>1. KeyInv(k) /\ SetTables
  BY DEF SetsInv
<1>2. \A o \in Counters :
         /\ HandsUnder(counter'[o], k) <=> HandsUnder(counter[o], k)
         /\ HandsUnder(counter'[o], k) => counter'[o].seen = counter[o].seen
  <2> SUFFICES ASSUME NEW o \in Counters
               PROVE  /\ HandsUnder(counter'[o], k) <=> HandsUnder(counter[o], k)
                      /\ HandsUnder(counter'[o], k) => counter'[o].seen = counter[o].seen
    OBVIOUS
  <2>1. CASE o = c
    BY <2>1
  <2>2. CASE o # c
    BY <1>1, <2>2, KeptHands DEF HandsUnder
  <2> QED
    BY <2>1, <2>2
<1>3. OneHands(k)'
  BY <1>1, <1>2 DEF KeyInv, OneHands
<1>4. HandedOut(k)'
  BY <1>1, <1>2 DEF KeyInv, HandedOut
<1> QED
  BY <1>3, <1>4 DEF KeyInv

LEMMA KeysKept ==
    ASSUME SetsInv, NEW c \in Counters, \A o \in Counters \ {c} : Standing(o),
           UNCHANGED <<stored, handed>>, cut_short \subseteq cut_short',
           \A k \in RequestKeys \ cut_short' : HandsUnder(counter'[c], k) <=> HandsUnder(counter[c], k),
           Hands(counter[c]) /\ Hands(counter'[c]) => counter'[c].seen = counter[c].seen
    PROVE  \A k \in RequestKeys \ cut_short' : KeyInv(k)'
<1> SUFFICES ASSUME NEW k \in RequestKeys \ cut_short' PROVE KeyInv(k)'
  OBVIOUS
<1>1. HandsUnder(counter'[c], k) => counter'[c].seen = counter[c].seen
  BY DEF HandsUnder
<1> QED
  BY <1>1, KeyKept

LEMMA SetStepKeeps ==
    ASSUME SetsInv, NEW c \in Counters, NEW x \in AtCounter \cup {Closed},
           counter' \in [Counters -> AtCounter \cup {Closed}], counter'[c] = x,
           heads' \in [Sets -> SetRows \cup {NoSet}], MoveOn, (In_use = 1 .. Cardinality(In_use))',
           handed' \in [RequestKeys -> [Employees -> Nat]],
           \A o \in Counters \ {c} : Overtook(o) \/ (counter'[o] = counter[o] /\ UNCHANGED <<heads, pieces>>),
           CounterOK(x, heads', pieces'),
           \A k \in RequestKeys \ cut_short' : KeyInv(k)'
    PROVE  SetsInv'
<1>1. SetTables'
  BY DEF SetTables
<1>2. ASSUME NEW o \in Counters PROVE CounterOK(counter'[o], heads', pieces')
  <2>1. CASE o = c
    BY <2>1
  <2>2. CASE o # c
    BY <2>2, OthersKept
  <2> QED
    BY <2>1, <2>2
<1> QED
  BY <1>1, <1>2 DEF SetsInv

\* The heads as they were, or one of them saved with its next version.
LEMMA HeadsAsTheyWere ==
    ASSUME SetTables, UNCHANGED heads
    PROVE  heads' \in [Sets -> SetRows \cup {NoSet}] /\ MoveOn /\ (In_use = 1 .. Cardinality(In_use))'
BY DEF SetTables, MoveOn, In_use

LEMMA SavedRow ==
    ASSUME NEW row \in SetRows,
           NEW changes \in {<<>>} \cup [status : {"available", "issued", "attention"}, holder : Employees \cup {Nobody}],
           NEW saved, saved = [f \in DOMAIN row |-> IF f = "version" THEN row[f] + 1
                                                   ELSE IF f \in DOMAIN changes THEN changes[f] ELSE row[f]]
    PROVE  /\ saved \in SetRows /\ saved.version = row.version + 1
           /\ changes = <<>> => saved.status = row.status /\ saved.holder = row.holder
           /\ changes # <<>> => saved.status = changes.status /\ saved.holder = changes.holder
<1>1. DOMAIN row = {"status", "version", "holder"}
  BY DEF SetRows
<1>2. row.version \in Nat /\ row.status \in {"available", "issued", "attention"} /\ row.holder \in Employees \cup {Nobody}
  BY DEF SetRows
<1>3. CASE changes = <<>>
  <2>1. DOMAIN changes = {}
    BY <1>3
  <2>2. saved.version = row.version + 1 /\ saved.status = row.status /\ saved.holder = row.holder
    BY <1>1, <2>1
  <2>3. saved = [status |-> row.status, version |-> row.version + 1, holder |-> row.holder]
    BY <1>1, <2>1
  <2> QED
    BY <1>2, <1>3, <2>2, <2>3 DEF SetRows
<1>4. CASE changes \in [status : {"available", "issued", "attention"}, holder : Employees \cup {Nobody}]
  <2>1. DOMAIN changes = {"status", "holder"} /\ changes.status \in {"available", "issued", "attention"} /\ changes.holder \in Employees \cup {Nobody}
    BY <1>4
  <2>2. saved.version = row.version + 1 /\ saved.status = changes.status /\ saved.holder = changes.holder
    BY <1>1, <2>1
  <2>3. saved = [status |-> changes.status, version |-> row.version + 1, holder |-> changes.holder]
    BY <1>1, <2>1
  <2>4. changes # <<>>
    BY <2>1
  <2> QED
    BY <1>2, <2>1, <2>2, <2>3, <2>4 DEF SetRows
<1> QED
  BY <1>3, <1>4

LEMMA SavedKept ==
    ASSUME SetTables, NEW s \in Sets, heads[s] # NoSet,
           NEW changes \in {<<>>} \cup [status : {"available", "issued", "attention"}, holder : Employees \cup {Nobody}],
           Saved(s, changes)
    PROVE  /\ heads' \in [Sets -> SetRows \cup {NoSet}] /\ MoveOn /\ (In_use = 1 .. Cardinality(In_use))'
           /\ \A o \in Sets \ {s} : heads'[o] = heads[o]
           /\ heads[s].version < heads'[s].version /\ heads'[s] # NoSet
           /\ changes = <<>> => heads'[s].status = heads[s].status /\ heads'[s].holder = heads[s].holder
           /\ changes # <<>> => heads'[s].status = changes.status /\ heads'[s].holder = changes.holder
<1>1. heads \in [Sets -> SetRows \cup {NoSet}] /\ heads[s] \in SetRows
  BY DEF SetTables
<1> PICK row \in SetRows : row = heads[s]
  BY <1>1
<1> PICK saved : saved = [f \in DOMAIN row |-> IF f = "version" THEN row[f] + 1
                                               ELSE IF f \in DOMAIN changes THEN changes[f] ELSE row[f]]
  OBVIOUS
<1>2. /\ saved \in SetRows /\ saved.version = row.version + 1
      /\ changes = <<>> => saved.status = row.status /\ saved.holder = row.holder
      /\ changes # <<>> => saved.status = changes.status /\ saved.holder = changes.holder
  BY SavedRow
<1>3. heads' = [heads EXCEPT ![s] = saved]
  BY DEF Saved
<1>4. heads'[s] = saved /\ heads' \in [Sets -> SetRows \cup {NoSet}] /\ \A o \in Sets \ {s} : heads'[o] = heads[o]
  BY <1>1, <1>2, <1>3
<1>5. saved # NoSet /\ row.version \in Nat
  BY <1>2, SetRowsAssumption DEF SetRows
<1>6. In_use' = In_use
  BY <1>4, <1>5 DEF In_use
<1>7. MoveOn
  BY <1>2, <1>4, <1>5 DEF MoveOn
<1> QED
  BY <1>2, <1>4, <1>5, <1>6, <1>7 DEF SetTables

-----------------------------------------------------------------------------
(* The sets: the steps. *)
LEMMA AtCounterByPc ==
    ASSUME SetTables, NEW c \in Counters
    PROVE  /\ counter[c] \in AtCounter \cup {Closed}
           /\ counter[c].pc = "make" => counter[c] \in Makings
           /\ counter[c].pc \in {"pick", "answer"} => counter[c] \in Pickings
           /\ counter[c].pc \in {"fill", "issue"} => counter[c] \in Servings
           /\ counter[c].pc = "look" => counter[c] \in Lookings
           /\ counter[c].pc = "return" => counter[c] \in Returnings
           /\ counter[c].pc = "write" => counter[c] \in Editings
           /\ counter[c].pc = "move" => counter[c] \in Movings
BY DEF SetTables, AtCounter, Makings, Pickings, Servings, Lookings, Returnings, Editings, Movings, Closed

LEMMA ClosedIsSound ==
    /\ \A hs, ps : CounterOK(Closed, hs, ps)
    /\ ~Hands(Closed) /\ Closed \in AtCounter \cup {Closed}
BY DEF CounterOK, NextIsNew, SetIsThere, PiecesFit, Hands, Closed

\* A request comes to a counter that is closed, and reads.
LEMMA SetCallKeeps ==
    ASSUME SetsInv, NEW c \in Counters, NEW x \in AtCounter, SetCall(c, x),
           CounterOK(x, heads, pieces), ~Hands(x), UNCHANGED cut_short
    PROVE  SetsInv'
<1>1. /\ counter[c] = Closed /\ counter' = [counter EXCEPT ![c] = x]
      /\ UNCHANGED <<heads, pieces, stored, handed>>
  BY DEF SetCall
<1>2. SetTables /\ counter \in [Counters -> AtCounter \cup {Closed}] /\ handed \in [RequestKeys -> [Employees -> Nat]]
  BY DEF SetsInv, SetTables
<1>3. /\ counter' \in [Counters -> AtCounter \cup {Closed}] /\ counter'[c] = x
      /\ \A o \in Counters \ {c} : counter'[o] = counter[o]
  BY <1>1, <1>2
<1>4. \A k \in RequestKeys \ cut_short' : KeyInv(k)'
  BY <1>1, <1>3, ClosedIsSound, KeysKept DEF Standing, HandsUnder
<1>5. heads' \in [Sets -> SetRows \cup {NoSet}] /\ MoveOn /\ (In_use = 1 .. Cardinality(In_use))'
  BY <1>1, <1>2, HeadsAsTheyWere
<1> QED
  BY <1>1, <1>2, <1>3, <1>4, <1>5, SetStepKeeps

\* A step that goes on with what it hands out under its key, whoever it overtakes.
LEMMA GoingOnKeeps ==
    ASSUME SetsInv, NEW c \in Counters, NEW x \in AtCounter \cup {Closed}, Goes_on(c, x),
           heads' \in [Sets -> SetRows \cup {NoSet}], MoveOn, (In_use = 1 .. Cardinality(In_use))',
           CounterOK(x, heads', pieces'), UNCHANGED <<stored, handed>>, cut_short \subseteq cut_short',
           \A k \in RequestKeys \ cut_short' : HandsUnder(x, k) <=> HandsUnder(counter[c], k),
           Hands(counter[c]) /\ Hands(x) => x.seen = counter[c].seen
    PROVE  SetsInv'
<1>1. SetTables /\ handed' \in [RequestKeys -> [Employees -> Nat]]
  BY DEF SetsInv, SetTables
<1>2. /\ counter' \in [Counters -> AtCounter \cup {Closed}] /\ counter'[c] = x
      /\ \A o \in Counters \ {c} : Overtook(o)
  BY <1>1, GoesOnKept
<1>3. \A k \in RequestKeys \ cut_short' : KeyInv(k)'
  BY <1>2, KeysKept DEF Standing
<1> QED
  BY <1>1, <1>2, <1>3, SetStepKeeps

\* One that tells nobody: it only looks, or ends.
LEMMA LookingKeeps ==
    ASSUME SetsInv, NEW c \in Counters, NEW x \in AtCounter \cup {Closed}, counter' = [counter EXCEPT ![c] = x],
           UNCHANGED <<heads, pieces, stored, handed, cut_short>>, CounterOK(x, heads, pieces),
           \A k \in RequestKeys : HandsUnder(x, k) <=> HandsUnder(counter[c], k),
           Hands(counter[c]) /\ Hands(x) => x.seen = counter[c].seen
    PROVE  SetsInv'
<1>1. SetTables /\ counter \in [Counters -> AtCounter \cup {Closed}] /\ handed \in [RequestKeys -> [Employees -> Nat]]
  BY DEF SetsInv, SetTables
<1>2. /\ counter' \in [Counters -> AtCounter \cup {Closed}] /\ counter'[c] = x
      /\ \A o \in Counters \ {c} : counter'[o] = counter[o]
  BY <1>1
<1>3. \A k \in RequestKeys \ cut_short' : KeyInv(k)'
  BY <1>2, KeysKept DEF Standing
<1>4. heads' \in [Sets -> SetRows \cup {NoSet}] /\ MoveOn /\ (In_use = 1 .. Cardinality(In_use))'
  BY <1>1, HeadsAsTheyWere
<1> QED
  BY <1>1, <1>2, <1>3, <1>4, SetStepKeeps

\* A request that breaks off leaves its key cut short.
LEMMA BreaksKeeps ==
    ASSUME SetsInv, NEW c \in Counters, Breaks(c), UNCHANGED <<heads, pieces, stored, handed>>
    PROVE  SetsInv'
<1>1. SetTables
  BY DEF SetsInv
<1>2. Goes_on(c, Closed) /\ cut_short \subseteq cut_short'
  BY DEF Breaks
<1>3. Hands(counter[c]) => "key" \in DOMAIN counter[c]
  <2>1. CASE counter[c] \in Makings
    BY <2>1 DEF Makings
  <2>2. CASE counter[c] \in Pickings
    BY <2>2 DEF Pickings
  <2>3. CASE counter[c] \in Servings
    BY <2>3 DEF Servings
  <2>4. Hands(counter[c]) => counter[c] \in Makings \cup Pickings \cup Servings
    BY <1>1, AtCounterByPc DEF Hands
  <2> QED
    BY <2>1, <2>2, <2>3, <2>4
<1>4. \A k \in RequestKeys \ cut_short' : ~HandsUnder(counter[c], k)
  BY <1>3 DEF Breaks, HandsUnder
<1>5. \A k : ~HandsUnder(Closed, k)
  BY ClosedIsSound DEF HandsUnder
<1>6. heads' \in [Sets -> SetRows \cup {NoSet}] /\ MoveOn /\ (In_use = 1 .. Cardinality(In_use))'
  BY <1>1, HeadsAsTheyWere
<1>7. CounterOK(Closed, heads', pieces')
  BY ClosedIsSound
<1>8. PICK x \in AtCounter \cup {Closed} : x = Closed
  OBVIOUS
<1> QED
  BY <1>2, <1>4, <1>5, <1>6, <1>7, <1>8, ClosedIsSound, GoingOnKeeps

LEMMA make_sets_in_storeKeeps ==
    ASSUME SetsInv, NEW c \in Counters, NEW k \in RequestKeys, make_sets_in_store(c, k, 2)
    PROVE  SetsInv'
<1> DEFINE x == [pc |-> "make", key |-> k, todo |-> <<>>, seen |-> {}, count |-> 2, crossed |-> FALSE]
<1>1. x \in Makings /\ x.pc = "make" /\ x.todo = <<>>
  BY DEF Makings
<1>2. SetCall(c, x) /\ UNCHANGED cut_short
  BY DEF make_sets_in_store
<1> HIDE DEF x
<1>3. x \in AtCounter /\ ~Hands(x) /\ CounterOK(x, heads, pieces)
  BY <1>1 DEF AtCounter, Hands, CounterOK, NextIsNew, SetIsThere, PiecesFit
<1> QED
  BY <1>2, <1>3, SetCallKeeps

\* The set made is the next of the sequence, new, and free.
LEMMA NextSetIsNew ==
    ASSUME SetTables, NEW s \in Sets, s = Cardinality(In_use) + 1,
           heads' = [heads EXCEPT ![s] = [status |-> "available", version |-> 1, holder |-> Nobody]]
    PROVE  /\ heads[s] = NoSet
           /\ heads' \in [Sets -> SetRows \cup {NoSet}] /\ MoveOn /\ (In_use = 1 .. Cardinality(In_use))'
           /\ heads'[s] # NoSet /\ heads'[s].version = 1 /\ heads'[s].status = "available" /\ heads'[s].holder = Nobody
           /\ \A o \in Sets \ {s} : heads'[o] = heads[o]
<1> DEFINE new == [status |-> "available", version |-> 1, holder |-> Nobody]
<1>1. heads \in [Sets -> SetRows \cup {NoSet}] /\ In_use = 1 .. Cardinality(In_use)
  BY DEF SetTables
<1>2. new \in SetRows /\ new # NoSet /\ new.version = 1 /\ new.status = "available" /\ new.holder = Nobody
  BY SetRowsAssumption DEF SetRows
<1>3. In_use \subseteq Sets /\ IsFiniteSet(In_use) /\ Cardinality(In_use) \in Nat
  <2>1. In_use \subseteq Sets
    BY DEF In_use
  <2> QED
    BY <2>1, SetNumberAssumption, FS_Subset, FS_CardinalityType
<1> PICK n \in Nat : n = Cardinality(In_use)
  BY <1>3
<1>4. s = n + 1 /\ In_use = 1 .. n
  BY <1>1
<1>5. heads[s] = NoSet
  <2>1. s \notin In_use
    <3>1. n + 1 \notin 1 .. n
      OBVIOUS
    <3> QED
      BY ONLY <1>4, <3>1
  <2> QED
    BY <2>1 DEF In_use
<1>6. heads' \in [Sets -> SetRows \cup {NoSet}] /\ heads'[s] = new /\ \A o \in Sets \ {s} : heads'[o] = heads[o]
  BY <1>1, <1>2
<1>7. MoveOn
  BY <1>5, <1>6 DEF MoveOn
<1>8. In_use' = 1 .. (n + 1)
  <2>1. In_use' = In_use \cup {s}
    BY <1>2, <1>6 DEF In_use
  <2>2. \A j : j \in 1 .. (n + 1) <=> j \in 1 .. n \/ j = n + 1
    OBVIOUS
  <2> QED
    BY <1>4, <2>1, <2>2
<1>9. Cardinality(1 .. (n + 1)) = n + 1
  BY FS_Interval
<1> QED
  BY <1>2, <1>5, <1>6, <1>7, <1>8, <1>9

LEMMA _make_physical_setKeeps ==
    ASSUME SetsInv, NEW c \in Counters, _make_physical_set(c)
    PROVE  SetsInv'
<1>1. SetTables /\ counter[c].pc = "make" /\ CounterOK(counter[c], heads, pieces)
  BY DEF SetsInv, _make_physical_set
<1> PICK at \in Makings : at = counter[c]
  BY <1>1, AtCounterByPc
<1>2. PICK s \in Sets :
         /\ s = Cardinality(In_use) + 1
         /\ heads' = [heads EXCEPT ![s] = [status |-> "available", version |-> 1, holder |-> Nobody]]
         /\ Goes_on(c, WithSet(at, "fill", s, 1, PieceLines))
  BY DEF _make_physical_set
<1> DEFINE x == WithSet(at, "fill", s, 1, PieceLines)
<1>3. x \in Servings
  BY LinesAssumption DEF Makings, Servings, WithSet, LineIds
<1>4. x.pc = "fill" /\ x.key = at.key /\ x.todo = at.todo /\ x.seen = at.seen /\ x.set = s /\ x.version = 1
  BY DEF WithSet
<1> HIDE DEF x
<1>5. at.pc = "make"
  BY DEF Makings
<1>6. /\ heads' \in [Sets -> SetRows \cup {NoSet}] /\ MoveOn /\ (In_use = 1 .. Cardinality(In_use))'
      /\ heads'[s] # NoSet /\ heads'[s].version = 1 /\ heads'[s].status = "available" /\ heads'[s].holder = Nobody
  BY <1>1, <1>2, NextSetIsNew
<1>7. CounterOK(x, heads', pieces')
  BY <1>1, <1>4, <1>5, <1>6 DEF CounterOK, NextIsNew, SetIsThere, PiecesFit
<1>8. \A k : HandsUnder(x, k) <=> HandsUnder(at, k)
  BY <1>4, <1>5 DEF HandsUnder, Hands
<1>9. Goes_on(c, x) /\ UNCHANGED <<stored, handed, cut_short>> /\ x \in AtCounter
  BY <1>2, <1>3 DEF _make_physical_set, AtCounter, x
<1> QED
  BY <1>4, <1>6, <1>7, <1>8, <1>9, GoingOnKeeps

LEMMA InsertPieceKeeps ==
    ASSUME SetsInv, NEW c \in Counters, InsertPiece(c)
    PROVE  SetsInv'
<1>1. SetTables /\ counter[c].pc = "fill" /\ counter[c].left # <<>> /\ CounterOK(counter[c], heads, pieces)
      /\ UNCHANGED <<heads, stored, handed>>
  BY DEF SetsInv, InsertPiece
<1>2. CASE ~defaults
  BY <1>1, <1>2, BreaksKeeps DEF InsertPiece
<1>3. CASE defaults
  <2> PICK at \in Servings : at = counter[c]
    BY <1>1, AtCounterByPc
  <2> DEFINE x == [at EXCEPT !.left = Tail(@)]
  <2>1. x \in Servings
    <3>1. at.left \in Seq(LineIds) /\ at.left # <<>>
      BY <1>1 DEF Servings
    <3>2. Tail(at.left) \in Seq(LineIds)
      BY <3>1
    <3> QED
      BY <3>2 DEF Servings
  <2>2. x.pc = at.pc /\ x.key = at.key /\ x.todo = at.todo /\ x.seen = at.seen /\ x.set = at.set /\ x.version = at.version
    BY DEF Servings
  <2>3. Goes_on(c, x) /\ UNCHANGED cut_short
    BY <1>3 DEF InsertPiece
  <2> HIDE DEF x
  <2>4. CounterOK(x, heads', pieces')
    BY <1>1, <2>2 DEF CounterOK, NextIsNew, SetIsThere, PiecesFit
  <2>5. \A k : HandsUnder(x, k) <=> HandsUnder(at, k)
    BY <2>2 DEF HandsUnder, Hands
  <2>6. heads' \in [Sets -> SetRows \cup {NoSet}] /\ MoveOn /\ (In_use = 1 .. Cardinality(In_use))'
    BY <1>1, HeadsAsTheyWere
  <2>7. x \in AtCounter
    BY <2>1 DEF AtCounter
  <2> QED
    BY <1>1, <2>2, <2>3, <2>4, <2>5, <2>6, <2>7, GoingOnKeeps
<1> QED
  BY <1>2, <1>3

LEMMA SetMadeKeeps ==
    ASSUME SetsInv, NEW c \in Counters, SetMade(c)
    PROVE  SetsInv'
<1>1. SetTables /\ counter[c].pc = "fill" /\ CounterOK(counter[c], heads, pieces)
      /\ UNCHANGED <<heads, pieces, stored, handed, cut_short>>
  BY DEF SetsInv, SetMade, quiet
<1> PICK at \in Servings : at = counter[c]
  BY <1>1, AtCounterByPc
<1> DEFINE more == [pc |-> "make", key |-> at.key, todo |-> <<>>, seen |-> {}, count |-> at.count - 1, crossed |-> at.crossed]
           on == [at EXCEPT !.pc = "issue"]
<1>2. counter' = [counter EXCEPT ![c] = IF at.todo # <<>> THEN on ELSE IF at.count > 1 THEN more ELSE Closed]
  <2>1. counter \in [Counters -> AtCounter \cup {Closed}]
    BY <1>1 DEF SetTables
  <2> QED
    BY <2>1 DEF SetMade
<1>3. at.pc = "fill"
  BY <1>1
<1>4. CASE at.todo # <<>>
  <2>1. on \in Servings /\ on.pc = "issue"
    BY DEF Servings
  <2>2. on.key = at.key /\ on.todo = at.todo /\ on.seen = at.seen /\ on.set = at.set /\ on.version = at.version
    BY DEF Servings
  <2>3. counter' = [counter EXCEPT ![c] = on]
    BY <1>2, <1>4
  <2> HIDE DEF on
  <2>4. CounterOK(on, heads, pieces)
    BY <1>1, <1>3, <1>4, <2>1, <2>2 DEF CounterOK, NextIsNew, SetIsThere, PiecesFit
  <2>5. \A k : HandsUnder(on, k) <=> HandsUnder(at, k)
    BY <1>3, <1>4, <2>1, <2>2 DEF HandsUnder, Hands
  <2>6. on \in AtCounter
    BY <2>1 DEF AtCounter
  <2> QED
    BY <1>1, <2>2, <2>3, <2>4, <2>5, <2>6, LookingKeeps
<1>5. CASE at.todo = <<>> /\ at.count > 1
  <2>1. more \in Makings /\ more.pc = "make" /\ more.todo = <<>>
    BY <1>5 DEF Servings, Makings
  <2>2. counter' = [counter EXCEPT ![c] = more]
    BY <1>2, <1>5
  <2> HIDE DEF more
  <2>3. CounterOK(more, heads, pieces)
    BY <2>1 DEF CounterOK, NextIsNew, SetIsThere, PiecesFit
  <2>4. ~Hands(more) /\ ~Hands(at)
    BY <1>3, <1>5, <2>1 DEF Hands
  <2>5. more \in AtCounter
    BY <2>1 DEF AtCounter
  <2> QED
    BY <1>1, <2>2, <2>3, <2>4, <2>5, LookingKeeps DEF HandsUnder
<1>6. CASE at.todo = <<>> /\ ~(at.count > 1)
  <2>1. counter' = [counter EXCEPT ![c] = Closed] /\ ~Hands(at)
    BY <1>2, <1>3, <1>6 DEF Hands
  <2> PICK x \in AtCounter \cup {Closed} : x = Closed
    OBVIOUS
  <2> QED
    BY <1>1, <2>1, ClosedIsSound, LookingKeeps DEF HandsUnder
<1> QED
  BY <1>4, <1>5, <1>6

\* A piece added, edited or found: the head is written next, as it was read.
LEMMA PieceWritten ==
    ASSUME SetsInv, NEW c \in Counters, NEW x \in Lookings \cup Editings, counter[c] = Closed, Goes_on(c, x),
           heads[x.set] # NoSet, x.version = heads[x.set].version,
           UNCHANGED <<heads, stored, handed, cut_short>>
    PROVE  SetsInv'
<1>1. SetTables
  BY DEF SetsInv
<1>2. x.set \in Sets /\ x.version \in Nat /\ x.pc \in {"look", "write"}
  BY DEF Lookings, Editings
<1>3. CounterOK(x, heads', pieces')
  BY <1>2 DEF CounterOK, NextIsNew, SetIsThere, PiecesFit
<1>4. ~Hands(x) /\ ~Hands(counter[c])
  BY <1>2, ClosedIsSound DEF Hands
<1>5. heads' \in [Sets -> SetRows \cup {NoSet}] /\ MoveOn /\ (In_use = 1 .. Cardinality(In_use))'
  BY <1>1, HeadsAsTheyWere
<1>6. x \in AtCounter
  BY DEF AtCounter
<1> QED
  BY <1>3, <1>4, <1>5, <1>6, GoingOnKeeps DEF HandsUnder

LEMMA HeadVersion ==
    ASSUME SetsInv, NEW s \in In_use
    PROVE  s \in Sets /\ heads[s] # NoSet /\ heads[s] \in SetRows /\ heads[s].version \in Nat
BY DEF SetsInv, SetTables, In_use, SetRows

LEMMA edit_pieceKeeps ==
    ASSUME SetsInv, NEW c \in Counters, NEW s \in Sets, NEW l, NEW state,
           add_set_line(c, s, l) \/ edit_piece(c, s, l, state)
    PROVE  SetsInv'
<1> DEFINE x == [pc |-> "write", set |-> s, version |-> heads[s].version, changes |-> <<>>, crossed |-> FALSE]
<1>1. s \in In_use /\ counter[c] = Closed /\ Goes_on(c, x) /\ UNCHANGED <<heads, stored, handed, cut_short>>
  BY DEF add_set_line, edit_piece
<1>2. x \in Editings /\ x.set = s /\ x.version = heads[s].version
  BY <1>1, HeadVersion DEF Editings
<1> HIDE DEF x
<1>3. PICK y \in Lookings \cup Editings : y = x
  BY <1>2
<1> QED
  BY <1>1, <1>2, <1>3, HeadVersion, PieceWritten

LEMMA return_setKeeps ==
    ASSUME SetsInv, NEW c \in Counters, NEW s \in Sets, NEW found, return_set(c, s, found)
    PROVE  SetsInv'
<1> DEFINE x == [pc |-> "look", set |-> s, version |-> heads[s].version, crossed |-> FALSE]
<1>1. s \in In_use /\ counter[c] = Closed /\ Goes_on(c, x) /\ UNCHANGED <<heads, stored, handed, cut_short>>
  BY DEF return_set
<1>2. x \in Lookings /\ x.set = s /\ x.version = heads[s].version
  BY <1>1, HeadVersion DEF Lookings
<1> HIDE DEF x
<1>3. PICK y \in Lookings \cup Editings : y = x
  BY <1>2
<1> QED
  BY <1>1, <1>2, <1>3, HeadVersion, PieceWritten

\* The pieces are read again: the head is to be available only if they are fit.
LEMMA LookAtPiecesKeeps ==
    ASSUME SetsInv, NEW c \in Counters, LookAtPieces(c)
    PROVE  SetsInv'
<1>1. SetTables /\ counter[c].pc = "look" /\ CounterOK(counter[c], heads, pieces)
      /\ UNCHANGED <<heads, pieces, stored, handed, cut_short>>
  BY DEF SetsInv, LookAtPieces, quiet
<1> PICK at \in Lookings : at = counter[c]
  BY <1>1, AtCounterByPc
<1> DEFINE x == [pc |-> "return", set |-> at.set, version |-> at.version,
                 changes |-> [status |-> StatusOf(pieces[at.set]), holder |-> Nobody], crossed |-> FALSE]
<1>2. counter' = [counter EXCEPT ![c] = x]
  <2>1. counter \in [Counters -> AtCounter \cup {Closed}]
    BY <1>1 DEF SetTables
  <2> QED
    BY <2>1 DEF LookAtPieces
<1>3. x \in Returnings /\ x.pc = "return" /\ x.set = at.set /\ x.version = at.version
      /\ x.changes.status = StatusOf(pieces[at.set])
  BY DEF Lookings, Returnings, StatusOf
<1> HIDE DEF x
<1>4. CounterOK(x, heads, pieces)
  BY <1>1, <1>3 DEF CounterOK, NextIsNew, SetIsThere, PiecesFit, StatusOf
<1>5. ~Hands(x) /\ ~Hands(at)
  BY <1>1, <1>3 DEF Hands
<1>6. x \in AtCounter
  BY <1>3 DEF AtCounter
<1> QED
  BY <1>1, <1>2, <1>4, <1>5, <1>6, LookingKeeps DEF HandsUnder

LEMMA mark_set_readyKeeps ==
    ASSUME SetsInv, NEW c \in Counters, NEW s \in Sets, mark_set_ready(c, s)
    PROVE  SetsInv'
<1> DEFINE x == [pc |-> "return", set |-> s, version |-> heads[s].version,
                 changes |-> [status |-> "available", holder |-> Nobody], crossed |-> FALSE]
<1>1. s \in In_use /\ ~Unfit(pieces[s]) /\ SetCall(c, x) /\ UNCHANGED cut_short
  BY DEF mark_set_ready
<1>2. s \in Sets /\ heads[s] # NoSet /\ heads[s].version \in Nat
  BY <1>1, HeadVersion
<1>3. x \in Returnings /\ x.pc = "return" /\ x.set = s /\ x.version = heads[s].version
  BY <1>2 DEF Returnings
<1> HIDE DEF x
<1>4. CounterOK(x, heads, pieces) /\ ~Hands(x) /\ x \in AtCounter
  BY <1>1, <1>2, <1>3 DEF CounterOK, NextIsNew, SetIsThere, PiecesFit, Hands, AtCounter
<1> QED
  BY <1>1, <1>4, SetCallKeeps

\* A movement of the head as a tool: the head as it was read, and as it is to be.
HeadMoves(c) ==
    \E s \in Sets :
        \/ report_head(c, s) \/ \E good \in BOOLEAN : return_head(c, s, good)
        \/ \E e \in Employees : issue_head(c, s, e) \/ transfer_head(c, s, e)
LEMMA MovesComes ==
    ASSUME SetsInv, NEW c \in Counters, HeadMoves(c)
    PROVE  \E s \in In_use, changes \in [status : {"available", "issued", "attention"}, holder : Employees \cup {Nobody}] :
              /\ heads[s].holder = Nobody /\ changes.holder # Nobody => heads[s].status = "available"
              /\ MoveHead(c, s, changes.status, changes.holder)
<1> SUFFICES ASSUME NEW s \in In_use, NEW status \in {"available", "issued", "attention"}, NEW holder \in Employees \cup {Nobody},
                    heads[s].holder = Nobody /\ holder # Nobody => heads[s].status = "available",
                    MoveHead(c, s, status, holder)
             PROVE  \E t \in In_use, changes \in [status : {"available", "issued", "attention"}, holder : Employees \cup {Nobody}] :
                       /\ heads[t].holder = Nobody /\ changes.holder # Nobody => heads[t].status = "available"
                       /\ MoveHead(c, t, changes.status, changes.holder)
  <2>1. PICK s \in Sets : \/ report_head(c, s) \/ \E good \in BOOLEAN : return_head(c, s, good)
                         \/ \E e \in Employees : issue_head(c, s, e) \/ transfer_head(c, s, e)
    BY DEF HeadMoves
  <2>2. s \in In_use
    BY <2>1 DEF report_head, return_head, issue_head, transfer_head
  <2>3. heads[s].holder \in Employees \cup {Nobody}
    BY <2>2, HeadVersion DEF SetRows
  <2>4. CASE report_head(c, s)
    BY <2>2, <2>3, <2>4 DEF report_head
  <2>5. ASSUME NEW good \in BOOLEAN, return_head(c, s, good) PROVE MoveHead(c, s, IF good THEN "available" ELSE "attention", Nobody)
    BY <2>5 DEF return_head
  <2>6. ASSUME NEW e \in Employees, issue_head(c, s, e) PROVE heads[s].status = "available" /\ MoveHead(c, s, "issued", e)
    BY <2>6 DEF issue_head
  <2>7. ASSUME NEW e \in Employees, transfer_head(c, s, e) PROVE heads[s].holder # Nobody /\ MoveHead(c, s, "issued", e)
    BY <2>7 DEF transfer_head
  <2> QED
    BY <2>1, <2>2, <2>4, <2>5, <2>6, <2>7
<1> PICK changes \in [status : {"available", "issued", "attention"}, holder : Employees \cup {Nobody}] :
         changes.status = status /\ changes.holder = holder
  <2>1. [status |-> status, holder |-> holder] \in [status : {"available", "issued", "attention"}, holder : Employees \cup {Nobody}]
    OBVIOUS
  <2> QED
    BY <2>1
<1> QED
  OBVIOUS

LEMMA HeadMovesKeeps ==
    ASSUME SetsInv, NEW c \in Counters, HeadMoves(c)
    PROVE  SetsInv' /\ UNCHANGED <<heads, set_trail>>
<1> PICK s \in In_use, changes \in [status : {"available", "issued", "attention"}, holder : Employees \cup {Nobody}] :
         /\ heads[s].holder = Nobody /\ changes.holder # Nobody => heads[s].status = "available"
         /\ MoveHead(c, s, changes.status, changes.holder)
  BY MovesComes
<1> DEFINE x == [pc |-> "move", set |-> s, version |-> heads[s].version,
                 changes |-> [status |-> changes.status, holder |-> changes.holder], crossed |-> FALSE]
<1>1. SetCall(c, x) /\ UNCHANGED cut_short
  BY DEF MoveHead
<1>2. s \in Sets /\ heads[s] # NoSet /\ heads[s].version \in Nat
  BY HeadVersion
<1>3. x \in Movings /\ x.pc = "move" /\ x.set = s /\ x.version = heads[s].version /\ x.changes.holder = changes.holder
  BY <1>2 DEF Movings
<1> HIDE DEF x
<1>4. CounterOK(x, heads, pieces) /\ ~Hands(x) /\ x \in AtCounter
  BY <1>2, <1>3 DEF CounterOK, NextIsNew, SetIsThere, PiecesFit, Hands, AtCounter
<1> QED
  BY <1>1, <1>4, SetCallKeeps DEF SetCall

\* Undo and redo: the head moves on, and whoever has it in hand is overtaken.
HeadChanges == [set : Sets, before : SetRows, after : SetRows, undone : BOOLEAN]
InTrail(ch) == ch \in HeadChanges /\ heads[ch.set] # NoSet
TrailOfSets == \A ch \in set_trail : InTrail(ch)
LEMMA RestoredKept ==
    ASSUME SetsInv, TrailOfSets, NEW ch \in set_trail, restore_head(ch)
    PROVE  /\ heads' \in [Sets -> SetRows \cup {NoSet}] /\ MoveOn /\ (In_use = 1 .. Cardinality(In_use))'
           /\ \A o \in Sets \ {ch.set} : heads'[o] = heads[o]
           /\ \A c \in Counters : Overtook(c)
           /\ counter' \in [Counters -> AtCounter \cup {Closed}]
<1>1. ch.set \in Sets /\ heads[ch.set] # NoSet /\ ch.before \in SetRows /\ ch.after \in SetRows
  BY DEF TrailOfSets, InTrail, HeadChanges
<1>2. heads \in [Sets -> SetRows \cup {NoSet}] /\ heads[ch.set] \in SetRows /\ counter \in [Counters -> AtCounter \cup {Closed}]
      /\ In_use = 1 .. Cardinality(In_use)
  BY <1>1 DEF SetsInv, SetTables
<1> PICK row \in SetRows : row = (IF ch.undone THEN ch.after ELSE ch.before)
  BY <1>1
<1> PICK v \in Nat : v = heads[ch.set].version
  BY <1>2 DEF SetRows
<1> PICK new : new = [row EXCEPT !.version = v + 1]
  OBVIOUS
<1>3. new \in SetRows /\ new.version = v + 1 /\ new # NoSet
  BY SetRowsAssumption DEF SetRows
<1>4. heads' = [heads EXCEPT ![ch.set] = new]
  BY DEF restore_head
<1>5. heads'[ch.set] = new /\ heads' \in [Sets -> SetRows \cup {NoSet}] /\ \A o \in Sets \ {ch.set} : heads'[o] = heads[o]
  BY <1>1, <1>2, <1>3, <1>4
<1>6. MoveOn
  <2>1. heads[ch.set].version < heads'[ch.set].version
    BY <1>3, <1>5
  <2> QED
    BY <1>3, <1>5, <2>1 DEF MoveOn
<1>7. In_use' = In_use
  BY <1>1, <1>3, <1>5 DEF In_use
<1>8. counter' = [o \in Counters |-> IF counter[o] = Closed THEN Closed ELSE OverTaken(counter[o])]
  BY DEF restore_head, OverTaken
<1>9. \A o \in Counters : counter[o] # Closed => counter[o] \in AtCounter /\ OverTaken(counter[o]) \in AtCounter
  BY <1>2, OverTakenHand
<1> HIDE DEF OverTaken
<1> QED
  BY <1>2, <1>5, <1>6, <1>7, <1>8, <1>9 DEF Overtook

LEMMA restore_headKeeps ==
    ASSUME SetsInv, TrailOfSets, NEW ch \in set_trail, restore_head(ch)
    PROVE  SetsInv'
<1>1. /\ heads' \in [Sets -> SetRows \cup {NoSet}] /\ MoveOn /\ (In_use = 1 .. Cardinality(In_use))'
      /\ \A c \in Counters : Overtook(c)
      /\ counter' \in [Counters -> AtCounter \cup {Closed}]
  BY RestoredKept
<1>2. UNCHANGED <<pieces, stored, handed, cut_short>> /\ SetTables
  BY DEF restore_head, SetsInv
<1>3. SetTables'
  BY <1>1, <1>2 DEF SetTables
<1>4. \A c \in Counters : CounterOK(counter'[c], heads', pieces')
  BY <1>1, OthersKept
<1>5. ASSUME NEW k \in RequestKeys \ cut_short' PROVE KeyInv(k)'
  <2>1. KeyInv(k)
    BY <1>2 DEF SetsInv
  <2>2. \A o \in Counters :
           /\ HandsUnder(counter'[o], k) <=> HandsUnder(counter[o], k)
           /\ HandsUnder(counter'[o], k) => counter'[o].seen = counter[o].seen
    BY <1>1, <1>2, KeptHands DEF Standing, HandsUnder
  <2>3. OneHands(k)'
    BY <2>1, <2>2 DEF KeyInv, OneHands
  <2>4. HandedOut(k)'
    BY <1>2, <2>1, <2>2 DEF KeyInv, HandedOut
  <2> QED
    BY <2>3, <2>4 DEF KeyInv
<1> QED
  BY <1>3, <1>4, <1>5 DEF SetsInv

LEMMA WriteHeadKeeps ==
    ASSUME SetsInv, NEW c \in Counters, WriteHead(c)
    PROVE  SetsInv'
<1>1. /\ SetTables /\ counter[c].pc \in {"return", "write", "move"} /\ CounterOK(counter[c], heads, pieces)
      /\ UNCHANGED <<pieces, stored, handed, cut_short>>
  BY DEF SetsInv, WriteHead
<1> PICK at \in Returnings \cup Editings \cup Movings : at = counter[c]
  BY <1>1, AtCounterByPc
<1>2. /\ at.set \in Sets /\ heads[at.set] # NoSet
      /\ at.changes \in {<<>>} \cup [status : {"available", "issued", "attention"}, holder : Employees \cup {Nobody}]
  BY <1>1 DEF Returnings, Editings, Movings, CounterOK, SetIsThere
<1>3. ~Hands(at)
  BY <1>1 DEF Hands
<1> PICK x \in AtCounter \cup {Closed} : x = Closed
  OBVIOUS
<1>4. CASE Stands(at.set, at.version)
  <2>1. Saved(at.set, at.changes) /\ Goes_on(c, x)
    BY <1>4 DEF WriteHead
  <2>2. heads' \in [Sets -> SetRows \cup {NoSet}] /\ MoveOn /\ (In_use = 1 .. Cardinality(In_use))'
    BY <1>1, <1>2, <2>1, SavedKept
  <2> QED
    BY <1>1, <1>3, <2>1, <2>2, ClosedIsSound, GoingOnKeeps DEF HandsUnder
<1>5. CASE ~Stands(at.set, at.version)
  <2>1. UNCHANGED heads /\ counter' = [counter EXCEPT ![c] = x]
    BY <1>5 DEF WriteHead
  <2> QED
    BY <1>1, <1>3, <2>1, ClosedIsSound, LookingKeeps DEF HandsUnder
<1> QED
  BY <1>4, <1>5

LEMMA update_set_typeKeeps ==
    ASSUME SetsInv, update_set_type \/ UNCHANGED set_vars
    PROVE  SetsInv'
<1>1. UNCHANGED <<heads, pieces, stored, handed, counter, cut_short>>
  BY DEF update_set_type, set_vars
<1> QED
  BY <1>1 DEF SetsInv, SetTables, In_use, KeyInv, OneHands, HandedOut, HandsUnder

LEMMA SetCallFailsKeeps ==
    ASSUME SetsInv, NEW c \in Counters, SetCallFails(c)
    PROVE  SetsInv'
BY BreaksKeeps DEF SetCallFails

\* The first of the free sets is one of them.
LEMMA FirstFree ==
    ASSUME SetTables, _free_store_set # {}
    PROVE  LET s == CHOOSE s \in _free_store_set : \A o \in _free_store_set : s <= o
           IN  s \in Sets /\ heads[s] # NoSet /\ heads[s].status = "available" /\ heads[s].holder = Nobody
<1>1. Sets \subseteq Nat
  <2>1. Cardinality(Sets) \in Nat
    BY SetNumberAssumption, FS_CardinalityType
  <2> PICK n \in Nat : n = Cardinality(Sets)
    BY <2>1
  <2>2. 1 .. n \subseteq Nat
    OBVIOUS
  <2> QED
    BY <2>2, SetNumberAssumption
<1>2. _free_store_set \subseteq Sets
  BY DEF _free_store_set, In_use
<1>3. PICK s \in _free_store_set : \A o \in _free_store_set : <<o, s>> \notin OpToRel(<, Nat)
  <2>1. IsWellFoundedOn(OpToRel(<, Nat), Nat)
    BY NatLessThanWellFounded
  <2> QED
    BY <1>1, <1>2, <2>1, WFMin
<1>4. \A o \in _free_store_set : s <= o
  <2> SUFFICES ASSUME NEW o \in _free_store_set PROVE s <= o
    OBVIOUS
  <2>1. s \in Nat /\ o \in Nat
    BY <1>1, <1>2
  <2>2. ~(o < s)
    BY <1>3, <2>1 DEF OpToRel
  <2> QED
    BY <2>1, <2>2
<1>5. (CHOOSE t \in _free_store_set : \A o \in _free_store_set : t <= o) \in _free_store_set
  BY <1>4
<1> QED
  BY <1>5 DEF _free_store_set, In_use

LEMMA NextPersonKeeps ==
    ASSUME SetsInv, NEW c \in Counters, NextPerson(c)
    PROVE  SetsInv'
<1>1. SetTables /\ counter[c].pc = "pick" /\ UNCHANGED <<heads, pieces, stored, handed, cut_short>>
  BY DEF SetsInv, NextPerson, quiet
<1> PICK at \in Pickings : at = counter[c]
  BY <1>1, AtCounterByPc
<1> DEFINE entry(pc, todo) == [pc |-> pc, key |-> at.key, todo |-> todo, seen |-> at.seen, count |-> 0, crossed |-> at.crossed]
           first == CHOOSE s \in _free_store_set : \A o \in _free_store_set : s <= o
           lent == WithSet(entry("pick", at.todo), "issue", first, heads[first].version, <<>>)
<1>2. counter' = [counter EXCEPT ![c] =
         IF at.todo = <<>> THEN entry("answer", at.todo)
         ELSE IF Head(at.todo) \in at.seen THEN entry("pick", Tail(at.todo))
         ELSE IF _free_store_set = {} THEN entry("make", at.todo)
         ELSE lent]
  BY DEF NextPerson, Queued
<1>3. at.pc = "pick" /\ at.key \in RequestKeys /\ at.todo \in Seq(Names) /\ at.seen \in SUBSET Names /\ at.crossed \in BOOLEAN
  BY <1>1 DEF Pickings
<1> SUFFICES ASSUME NEW x, x \in AtCounter, counter' = [counter EXCEPT ![c] = x],
                    x.key = at.key, x.seen = at.seen, Hands(x), CounterOK(x, heads, pieces)
             PROVE  SetsInv'
  <2>1. CASE at.todo = <<>>
    <3> DEFINE x == entry("answer", at.todo)
    <3>1. x \in Pickings /\ x.pc = "answer" /\ x.key = at.key /\ x.seen = at.seen
      BY <1>3 DEF Pickings
    <3>2. counter' = [counter EXCEPT ![c] = x]
      BY <1>2, <2>1
    <3> HIDE DEF x
    <3>3. CounterOK(x, heads, pieces) /\ Hands(x) /\ x \in AtCounter
      BY <3>1 DEF CounterOK, NextIsNew, SetIsThere, PiecesFit, Hands, AtCounter
    <3> QED
      BY <3>1, <3>2, <3>3
  <2>2. CASE at.todo # <<>> /\ Head(at.todo) \in at.seen
    <3> DEFINE x == entry("pick", Tail(at.todo))
    <3>1. Tail(at.todo) \in Seq(Names)
      BY <1>3, <2>2
    <3>2. x \in Pickings /\ x.pc = "pick" /\ x.key = at.key /\ x.seen = at.seen
      BY <1>3, <3>1 DEF Pickings
    <3>3. counter' = [counter EXCEPT ![c] = x]
      BY <1>2, <2>2
    <3> HIDE DEF x
    <3>4. CounterOK(x, heads, pieces) /\ Hands(x) /\ x \in AtCounter
      BY <3>2 DEF CounterOK, NextIsNew, SetIsThere, PiecesFit, Hands, AtCounter
    <3> QED
      BY <3>2, <3>3, <3>4
  <2>3. CASE at.todo # <<>> /\ Head(at.todo) \notin at.seen /\ _free_store_set = {}
    <3> DEFINE x == entry("make", at.todo)
    <3>1. x \in Makings /\ x.pc = "make" /\ x.key = at.key /\ x.seen = at.seen /\ x.todo = at.todo
      BY <1>3 DEF Makings
    <3>2. counter' = [counter EXCEPT ![c] = x]
      BY <1>2, <2>3
    <3> HIDE DEF x
    <3>3. CounterOK(x, heads, pieces) /\ Hands(x) /\ x \in AtCounter
      BY <2>3, <3>1 DEF CounterOK, NextIsNew, SetIsThere, PiecesFit, Hands, AtCounter
    <3> QED
      BY <3>1, <3>2, <3>3
  <2>4. CASE at.todo # <<>> /\ Head(at.todo) \notin at.seen /\ _free_store_set # {}
    <3> PICK s : s = first
      OBVIOUS
    <3>1. s \in Sets /\ heads[s] # NoSet /\ heads[s].status = "available" /\ heads[s].holder = Nobody
      BY <1>1, <2>4, FirstFree
    <3>2. heads[s].version \in Nat
      BY <1>1, <3>1 DEF SetTables, SetRows
    <3> DEFINE x == WithSet(entry("pick", at.todo), "issue", s, heads[s].version, <<>>)
    <3>3. x = [pc |-> "issue", key |-> at.key, todo |-> at.todo, seen |-> at.seen, count |-> 0, crossed |-> at.crossed,
               set |-> s, version |-> heads[s].version, left |-> <<>>]
      BY DEF WithSet
    <3> HIDE DEF x
    <3>4. /\ x \in Servings /\ x.pc = "issue" /\ x.key = at.key /\ x.seen = at.seen /\ x.todo = at.todo
          /\ x.set = s /\ x.version = heads[s].version
      <4>1. <<>> \in Seq(LineIds)
        OBVIOUS
      <4> QED
        BY <1>3, <3>1, <3>2, <3>3, <4>1 DEF Servings
    <3>5. counter' = [counter EXCEPT ![c] = x]
      BY <1>2, <2>4 DEF x
    <3>6. CounterOK(x, heads, pieces) /\ Hands(x) /\ x \in AtCounter
      BY <2>4, <3>1, <3>2, <3>4 DEF CounterOK, NextIsNew, SetIsThere, PiecesFit, Hands, AtCounter
    <3> QED
      BY <3>4, <3>5, <3>6
  <2> QED
    BY <2>1, <2>2, <2>3, <2>4
<1>4. Hands(at)
  BY <1>3 DEF Hands
<1>5. \A k : HandsUnder(x, k) <=> HandsUnder(at, k)
  BY <1>4 DEF HandsUnder
<1> QED
  BY <1>1, <1>5, LookingKeeps

-----------------------------------------------------------------------------
(* The sets: who got one under which key. *)

\* Served once more, a person is one name further.
LEMMA OneNameMore ==
    ASSUME NEW seen \in SUBSET Names, NEW h \in Names, h \notin seen, NEW e
    PROVE  /\ Cardinality(PeopleIn(seen, e)) \in Nat
           /\ Cardinality(PeopleIn(seen, e)) <= Cardinality(PeopleIn(Names, e))
           /\ Cardinality(PeopleIn(Names, e)) \in Nat
           /\ PeopleIn(seen \cup {h}, e) \subseteq PeopleIn(Names, e)
           /\ Cardinality(PeopleIn(seen \cup {h}, e)) \in Nat
           /\ Cardinality(PeopleIn(seen \cup {h}, e)) <= Cardinality(PeopleIn(Names, e))
           /\ Cardinality(PeopleIn(seen \cup {h}, e)) = Cardinality(PeopleIn(seen, e)) + (IF Who(h) = e THEN 1 ELSE 0)
<1>1. /\ PeopleIn(seen, e) \subseteq PeopleIn(Names, e) /\ PeopleIn(seen \cup {h}, e) \subseteq PeopleIn(Names, e)
      /\ PeopleIn(Names, e) \subseteq Names
  BY DEF PeopleIn
<1>2. IsFiniteSet(PeopleIn(Names, e)) /\ IsFiniteSet(PeopleIn(seen, e))
  BY <1>1, QueueAssumption, FS_Subset
<1>3. CASE Who(h) = e
  <2>1. PeopleIn(seen \cup {h}, e) = PeopleIn(seen, e) \cup {h} /\ h \notin PeopleIn(seen, e)
    BY <1>3 DEF PeopleIn
  <2>2. Cardinality(PeopleIn(seen, e) \cup {h}) = Cardinality(PeopleIn(seen, e)) + 1
    BY <1>2, <2>1, FS_AddElement
  <2> QED
    BY <1>1, <1>2, <1>3, <2>1, <2>2, FS_Subset, FS_CardinalityType
<1>4. CASE Who(h) # e
  <2>1. PeopleIn(seen \cup {h}, e) = PeopleIn(seen, e)
    BY <1>4 DEF PeopleIn
  <2>2. /\ Cardinality(PeopleIn(seen, e)) \in Nat /\ Cardinality(PeopleIn(Names, e)) \in Nat
        /\ Cardinality(PeopleIn(seen, e)) <= Cardinality(PeopleIn(Names, e))
    BY <1>1, <1>2, FS_Subset, FS_CardinalityType
  <2> QED
    BY <1>1, <1>4, <2>1, <2>2
<1> QED
  BY <1>3, <1>4

LEMMA issue_sets_to_peopleKeeps ==
    ASSUME SetsInv, NEW c \in Counters, NEW queue \in Queues, NEW key \in RequestKeys, issue_sets_to_people(c, queue, key)
    PROVE  SetsInv'
<1> DEFINE x == [pc |-> "pick", key |-> key, todo |-> queue, seen |-> {}, count |-> 0, crossed |-> FALSE]
<1>1. /\ key \notin stored /\ counter[c] = Closed /\ counter' = [counter EXCEPT ![c] = x]
      /\ UNCHANGED <<heads, pieces, stored, handed>> /\ cut_short' = cut_short \cup Overlaps(key)
  BY DEF issue_sets_to_people, SetCall, _idem_result
<1>2. x \in Pickings /\ x.pc = "pick" /\ x.key = key /\ x.seen = {}
  BY QueueAssumption DEF Pickings
<1> HIDE DEF x
<1>3. CounterOK(x, heads, pieces) /\ x \in AtCounter
  BY <1>2 DEF CounterOK, NextIsNew, SetIsThere, PiecesFit, AtCounter
<1>4. SetTables /\ counter \in [Counters -> AtCounter \cup {Closed}] /\ handed \in [RequestKeys -> [Employees -> Nat]]
  BY DEF SetsInv, SetTables
<1>5. /\ counter' \in [Counters -> AtCounter \cup {Closed}] /\ counter'[c] = x
      /\ \A o \in Counters \ {c} : counter'[o] = counter[o]
  BY <1>1, <1>3, <1>4
<1>6. heads' \in [Sets -> SetRows \cup {NoSet}] /\ MoveOn /\ (In_use = 1 .. Cardinality(In_use))'
  BY <1>1, <1>4, HeadsAsTheyWere
<1>7. ASSUME NEW k \in RequestKeys \ cut_short' PROVE KeyInv(k)'
  <2>1. CASE k # key
    <3>1. ~HandsUnder(x, k) /\ ~HandsUnder(counter[c], k)
      BY <1>1, <1>2, <2>1, ClosedIsSound DEF HandsUnder
    <3> QED
      BY <1>1, <1>5, <3>1, KeyKept DEF Standing
  <2>2. CASE k = key
    <3>1. Overlaps(key) = {}
      BY <1>1, <1>7, <2>2 DEF Overlaps
    <3>2. \A o \in Counters : ~HandsUnder(counter[o], k)
      BY <2>2, <3>1 DEF Overlaps, HandsUnder, Hands
    <3>3. KeyInv(k)
      BY <1>1, <1>7 DEF SetsInv
    <3>4. \A e \in Employees : handed'[k][e] = 0
      BY <1>1, <2>2, <3>2, <3>3 DEF KeyInv, HandedOut
    <3>5. \A o \in Counters : HandsUnder(counter'[o], k) => o = c
      BY <1>5, <3>2
    <3>6. \A e : Cardinality(PeopleIn({}, e)) = 0
      <4>1. \A e : PeopleIn({}, e) = {}
        BY DEF PeopleIn
      <4> QED
        BY <4>1, FS_EmptySet
    <3>7. HandsUnder(counter'[c], k) /\ counter'[c].seen = {}
      BY <1>2, <1>5, <2>2 DEF HandsUnder, Hands
    <3>8. OneHands(k)'
      BY <3>5 DEF OneHands
    <3>9. HandedOut(k)'
      <4>1. k \notin stored'
        BY <1>1, <2>2
      <4>2. ASSUME NEW o \in Counters, HandsUnder(counter'[o], k), NEW e \in Employees
            PROVE  handed'[k][e] <= Cardinality(PeopleIn(counter'[o].seen, e))
        <5>1. counter'[o].seen = {}
          BY <3>5, <3>7, <4>2
        <5>2. handed'[k][e] = 0 /\ Cardinality(PeopleIn({}, e)) = 0
          BY <3>4, <3>6
        <5> QED
          BY <5>1, <5>2
      <4>3. \A e \in Employees : handed'[k][e] <= Cardinality(PeopleIn(Names, e))
        BY <1>1, <3>3 DEF KeyInv, HandedOut
      <4> QED
        BY <3>7, <4>1, <4>2, <4>3 DEF HandedOut
    <3> QED
      BY <3>8, <3>9 DEF KeyInv
  <2> QED
    BY <2>1, <2>2
<1> QED
  BY <1>1, <1>3, <1>4, <1>5, <1>6, <1>7, SetStepKeeps

LEMMA _idem_storeKeeps ==
    ASSUME SetsInv, NEW c \in Counters, _idem_store(c)
    PROVE  SetsInv'
<1>1. /\ counter[c].pc = "answer" /\ stored' = stored \cup {counter[c].key}
      /\ counter' = [counter EXCEPT ![c] = Closed] /\ UNCHANGED <<heads, pieces, handed, cut_short>>
  BY DEF _idem_store, quiet
<1>2. SetTables /\ counter \in [Counters -> AtCounter \cup {Closed}] /\ handed \in [RequestKeys -> [Employees -> Nat]]
  BY DEF SetsInv, SetTables
<1> PICK x \in AtCounter \cup {Closed} : x = Closed
  OBVIOUS
<1>3. /\ counter' \in [Counters -> AtCounter \cup {Closed}] /\ counter'[c] = x
      /\ \A o \in Counters \ {c} : counter'[o] = counter[o]
  BY <1>1, <1>2
<1>4. heads' \in [Sets -> SetRows \cup {NoSet}] /\ MoveOn /\ (In_use = 1 .. Cardinality(In_use))'
  BY <1>1, <1>2, HeadsAsTheyWere
<1>5. ASSUME NEW k \in RequestKeys \ cut_short' PROVE KeyInv(k)'
  <2>1. KeyInv(k)
    BY <1>1, <1>5 DEF SetsInv
  <2>2. ~HandsUnder(counter'[c], k)
    BY <1>3, ClosedIsSound DEF HandsUnder
  <2>3. CASE k # counter[c].key
    <3>1. ~HandsUnder(counter[c], k)
      BY <2>3 DEF HandsUnder
    <3> QED
      BY <1>1, <1>3, <2>2, <2>3, <3>1, KeyKept DEF Standing
  <2>4. CASE k = counter[c].key
    <3>1. HandsUnder(counter[c], k)
      BY <1>1, <2>4 DEF HandsUnder, Hands
    <3>2. \A o \in Counters : ~HandsUnder(counter'[o], k)
      BY <1>3, <2>1, <2>2, <3>1 DEF KeyInv, OneHands
    <3>3. k \in stored' /\ \A e \in Employees : handed'[k][e] <= Cardinality(PeopleIn(Names, e))
      BY <1>1, <2>1, <2>4 DEF KeyInv, HandedOut
    <3> QED
      BY <3>2, <3>3 DEF KeyInv, OneHands, HandedOut
  <2> QED
    BY <2>3, <2>4
<1> QED
  BY <1>1, <1>2, <1>3, <1>4, <1>5, ClosedIsSound, SetStepKeeps

\* The loan of one set: the head moves on, or the person is refused; either is served.
LEMMA IssueWrites ==
    ASSUME SetsInv, NEW c \in Counters, NEW noted, _issue_one_set(c, noted), NEW at \in Servings, at = counter[c]
    PROVE  /\ at.todo # <<>> /\ Head(at.todo) \notin at.seen /\ Head(at.todo) \in Names /\ at.pc = "issue"
           /\ at.set \in Sets /\ heads[at.set] # NoSet
           /\ \/ UNCHANGED <<heads, handed>>
              \/ /\ heads[at.set].status = "available" /\ heads[at.set].holder = Nobody
                 /\ Saved(at.set, [status |-> "issued", holder |-> Who(Head(at.todo))])
                 /\ handed' = [handed EXCEPT ![at.key][Who(Head(at.todo))] = @ + 1]
<1>1. at.pc = "issue" /\ CounterOK(at, heads, pieces)
  BY DEF _issue_one_set, SetsInv
<1>2. at.todo # <<>> /\ Head(at.todo) \notin at.seen /\ heads[at.set] # NoSet
  BY <1>1 DEF CounterOK, NextIsNew, SetIsThere
<1>3. Head(at.todo) \in Names /\ at.set \in Sets
  <2>1. at.todo \in Seq(Names) /\ at.set \in Sets
    BY DEF Servings
  <2> QED
    BY <1>2, <2>1
<1>4. Stands(at.set, at.version) => heads[at.set].status = "available" /\ heads[at.set].holder = Nobody
  BY <1>1 DEF Stands, CounterOK, SetIsThere
<1> QED
  BY <1>1, <1>2, <1>3, <1>4 DEF _issue_one_set

LEMMA IssueSaved ==
    ASSUME SetTables, NEW s \in Sets, heads[s] # NoSet, NEW n \in Names,
           Saved(s, [status |-> "issued", holder |-> Who(n)])
    PROVE  /\ heads' \in [Sets -> SetRows \cup {NoSet}] /\ MoveOn /\ (In_use = 1 .. Cardinality(In_use))'
           /\ \A o \in Sets \ {s} : heads'[o] = heads[o]
<1> DEFINE changes == [status |-> "issued", holder |-> Who(n)]
<1>1. changes \in [status : {"available", "issued", "attention"}, holder : Employees \cup {Nobody}]
  BY DEF Employees
<1> PICK ch \in {<<>>} \cup [status : {"available", "issued", "attention"}, holder : Employees \cup {Nobody}] : ch = changes
  BY <1>1
<1> QED
  BY SavedKept

LEMMA _issue_one_setKeeps ==
    ASSUME SetsInv, NEW c \in Counters, NEW noted, _issue_one_set(c, noted)
    PROVE  SetsInv'
<1>1. SetTables /\ counter[c].pc = "issue" /\ UNCHANGED <<stored, cut_short>>
      /\ handed \in [RequestKeys -> [Employees -> Nat]]
  BY DEF SetsInv, SetTables, _issue_one_set
<1> PICK at \in Servings : at = counter[c]
  BY <1>1, AtCounterByPc
<1> PICK h : h = Head(at.todo)
  OBVIOUS
<1>2. /\ at.todo # <<>> /\ h \notin at.seen /\ h \in Names /\ at.pc = "issue"
      /\ at.set \in Sets /\ heads[at.set] # NoSet
      /\ \/ UNCHANGED <<heads, handed>>
         \/ /\ Saved(at.set, [status |-> "issued", holder |-> Who(h)])
            /\ handed' = [handed EXCEPT ![at.key][Who(h)] = @ + 1]
  BY IssueWrites
<1>3. at.key \in RequestKeys /\ at.todo \in Seq(Names) /\ at.seen \in SUBSET Names /\ at.crossed \in BOOLEAN
  BY DEF Servings
<1>4. Tail(at.todo) \in Seq(Names) /\ Who(h) \in Employees
  BY <1>2, <1>3 DEF Employees
<1> DEFINE x == [pc |-> "pick", key |-> at.key, todo |-> Tail(at.todo), seen |-> at.seen \cup {h}, count |-> 0, crossed |-> at.crossed]
<1>5. x \in Pickings /\ x.pc = "pick" /\ x.key = at.key /\ x.seen = at.seen \cup {h}
  BY <1>2, <1>3, <1>4 DEF Pickings
<1>6. Goes_on(c, x)
  BY DEF _issue_one_set
<1> HIDE DEF x
<1>7. x \in AtCounter /\ CounterOK(x, heads', pieces') /\ Hands(x)
  BY <1>5 DEF AtCounter, CounterOK, NextIsNew, SetIsThere, PiecesFit, Hands
<1>8. heads' \in [Sets -> SetRows \cup {NoSet}] /\ MoveOn /\ (In_use = 1 .. Cardinality(In_use))'
  <2>1. CASE UNCHANGED heads
    BY <1>1, <2>1, HeadsAsTheyWere
  <2>2. CASE Saved(at.set, [status |-> "issued", holder |-> Who(h)])
    BY <1>1, <1>2, <2>2, IssueSaved
  <2> QED
    BY <1>2, <2>1, <2>2
<1>9. /\ handed' \in [RequestKeys -> [Employees -> Nat]]
      /\ \A k \in RequestKeys \ {at.key} : handed'[k] = handed[k]
      /\ \A e \in Employees : handed'[at.key][e] = handed[at.key][e] \/ (e = Who(h) /\ handed'[at.key][e] = handed[at.key][e] + 1)
  <2>1. CASE UNCHANGED handed
    BY <1>1, <1>3, <2>1
  <2>2. CASE handed' = [handed EXCEPT ![at.key][Who(h)] = @ + 1]
    BY <1>1, <1>3, <1>4, <2>2
  <2> QED
    BY <1>2, <2>1, <2>2
<1>10. /\ counter' \in [Counters -> AtCounter \cup {Closed}] /\ counter'[c] = x
       /\ \A o \in Counters \ {c} : Overtook(o)
  BY <1>1, <1>6, <1>7, GoesOnKept
<1>11. ASSUME NEW k \in RequestKeys \ cut_short' PROVE KeyInv(k)'
  <2>1. KeyInv(k)
    BY <1>1, <1>11 DEF SetsInv
  <2>2. CASE k # at.key
    <3>1. ~HandsUnder(x, k) /\ ~HandsUnder(at, k)
      BY <1>5, <2>2 DEF HandsUnder
    <3> QED
      BY <1>1, <1>9, <1>10, <2>2, <3>1, KeyKept DEF Standing
  <2>3. CASE k = at.key
    <3>1. HandsUnder(at, k) /\ HandsUnder(x, k)
      BY <1>2, <1>5, <1>7, <2>3 DEF HandsUnder, Hands
    <3>2. \A o \in Counters : HandsUnder(counter'[o], k) => o = c
      <4> SUFFICES ASSUME NEW o \in Counters, o # c, HandsUnder(counter'[o], k) PROVE FALSE
        OBVIOUS
      <4>1. HandsUnder(counter[o], k)
        BY <1>1, <1>10, KeptHands DEF Standing
      <4> QED
        BY <2>1, <3>1, <4>1 DEF KeyInv, OneHands
    <3>3. k \notin stored /\ \A e \in Employees : handed[k][e] <= Cardinality(PeopleIn(at.seen, e))
      BY <2>1, <3>1 DEF KeyInv, HandedOut
    <3>4. ASSUME NEW e \in Employees
          PROVE  /\ handed'[k][e] <= Cardinality(PeopleIn(x.seen, e))
                 /\ handed'[k][e] <= Cardinality(PeopleIn(Names, e))
      <4>1. handed[k][e] \in Nat /\ handed[k][e] <= Cardinality(PeopleIn(at.seen, e))
        BY <1>1, <3>3
      <4>2. handed'[k][e] = handed[k][e] \/ (e = Who(h) /\ handed'[k][e] = handed[k][e] + 1)
        BY <1>9, <2>3
      <4> PICK seen \in SUBSET Names : seen = at.seen
        BY <1>3
      <4>5. h \notin seen /\ h \in Names
        BY <1>2
      <4>3. /\ Cardinality(PeopleIn(seen, e)) \in Nat /\ Cardinality(PeopleIn(Names, e)) \in Nat
            /\ Cardinality(PeopleIn(seen \cup {h}, e)) <= Cardinality(PeopleIn(Names, e))
            /\ Cardinality(PeopleIn(seen \cup {h}, e)) = Cardinality(PeopleIn(seen, e)) + (IF Who(h) = e THEN 1 ELSE 0)
        BY ONLY <4>5, OneNameMore, seen \in SUBSET Names
      <4>4. x.seen = seen \cup {h}
        BY <1>5
      <4> QED
        BY <4>1, <4>2, <4>3, <4>4
    <3>5. OneHands(k)'
      BY <3>2 DEF OneHands
    <3>6. HandedOut(k)'
      BY <1>1, <1>10, <3>1, <3>2, <3>3, <3>4 DEF HandedOut
    <3> QED
      BY <3>5, <3>6 DEF KeyInv
  <2> QED
    BY <2>2, <2>3
<1> QED
  BY <1>7, <1>8, <1>9, <1>10, <1>11, SetStepKeeps

-----------------------------------------------------------------------------
LEMMA SetsBeginSound == SetsBegin => SetsInv
<1> SUFFICES ASSUME SetsBegin PROVE SetsInv
  OBVIOUS
<1>1. PICK n \in 0 .. Cardinality(Sets), parts \in [Sets -> [DOMAIN PieceLines -> {"fit", "damaged", "missing", NoPiece}]] :
         \E made \in [1 .. n -> SetRows] : SetsInit([s \in Sets |-> IF s <= n THEN made[s] ELSE NoSet], parts)
  BY DEF SetsBegin
<1> PICK made \in [1 .. n -> SetRows] : SetsInit([s \in Sets |-> IF s <= n THEN made[s] ELSE NoSet], parts)
  BY <1>1
<1> PICK m \in Nat : m = Cardinality(Sets)
  BY SetNumberAssumption, FS_CardinalityType
<1>2. Sets = 1 .. m /\ n \in 0 .. m
  BY SetNumberAssumption
<1>3. /\ heads = [s \in Sets |-> IF s <= n THEN made[s] ELSE NoSet] /\ counter = [c \in Counters |-> Closed]
      /\ handed = [k \in RequestKeys |-> [e \in Employees |-> 0]]
  BY DEF SetsInit
<1>4. \A s \in Sets : s \in Nat /\ (s <= n => heads[s] \in SetRows /\ heads[s] # NoSet) /\ (~(s <= n) => heads[s] = NoSet)
  BY <1>2, <1>3, SetRowsAssumption
<1>5. In_use = 1 .. n
  <2>1. \A s : s \in 1 .. n <=> s \in Sets /\ s <= n
    <3>1. n \in Nat /\ n <= m
      BY <1>2
    <3>2. \A s : s \in 1 .. n <=> s \in 1 .. m /\ s <= n
      BY ONLY <3>1, m \in Nat
    <3> QED
      BY <1>2, <3>2
  <2> QED
    BY <1>4, <2>1 DEF In_use
<1>6. Cardinality(1 .. n) = n
  BY <1>2, FS_Interval
<1>7. heads \in [Sets -> SetRows \cup {NoSet}]
  BY <1>3, <1>4
<1>8. SetTables
  <2>1. handed \in [RequestKeys -> [Employees -> Nat]] /\ counter \in [Counters -> AtCounter \cup {Closed}]
    BY <1>3
  <2> QED
    BY <1>5, <1>6, <1>7, <2>1 DEF SetTables
<1>9. \A c \in Counters : CounterOK(counter[c], heads, pieces) /\ ~Hands(counter[c])
  BY <1>3, ClosedIsSound
<1>10. ASSUME NEW k \in RequestKeys PROVE KeyInv(k)
  <2>1. \A c \in Counters : ~HandsUnder(counter[c], k)
    BY <1>9 DEF HandsUnder
  <2>2. \A e \in Employees : handed[k][e] = 0
    BY <1>3
  <2>3. \A e \in Employees : Cardinality(PeopleIn(Names, e)) \in Nat
    <3>1. \A e \in Employees : PeopleIn(Names, e) \subseteq Names
      BY DEF PeopleIn
    <3> QED
      BY <3>1, QueueAssumption, FS_Subset, FS_CardinalityType
  <2>4. \A e \in Employees : handed[k][e] <= Cardinality(PeopleIn(Names, e))
    BY <2>2, <2>3
  <2> QED
    BY <2>1, <2>2, <2>4 DEF KeyInv, OneHands, HandedOut
<1> QED
  BY <1>8, <1>9, <1>10 DEF SetsInv

\* The steps that write no head.
HeadsStill ==
    \/ update_set_type
    \/ \E c \in Counters :
          \/ InsertPiece(c) \/ SetMade(c) \/ NextPerson(c) \/ _idem_store(c) \/ LookAtPieces(c) \/ SetCallFails(c)
          \/ \E k \in RequestKeys : make_sets_in_store(c, k, 2) \/ \E queue \in Queues : issue_sets_to_people(c, queue, k)
          \/ HeadMoves(c)
          \/ \E s \in Sets :
                \/ mark_set_ready(c, s) \/ \E found : return_set(c, s, found)
                \/ \E l : add_set_line(c, s, l) \/ \E state : edit_piece(c, s, l, state)

LEMMA SetsNextSplit ==
    SetsNext => \/ HeadsStill
                \/ \E c \in Counters : _make_physical_set(c) \/ WriteHead(c) \/ \E noted : _issue_one_set(c, noted)
                \/ \E ch \in set_trail : restore_head(ch)
BY DEF SetsNext, HeadsStill, HeadMoves

LEMMA HeadsStillKeeps ==
    ASSUME SetsInv, HeadsStill
    PROVE  SetsInv' /\ UNCHANGED <<heads, set_trail>>
<1>1. CASE update_set_type
  BY <1>1, update_set_typeKeeps DEF update_set_type
<1>2. ASSUME NEW c \in Counters,
             InsertPiece(c) \/ SetMade(c) \/ NextPerson(c) \/ _idem_store(c) \/ LookAtPieces(c) \/ SetCallFails(c)
      PROVE  SetsInv' /\ UNCHANGED <<heads, set_trail>>
  <2>1. SetsInv'
    BY <1>2, InsertPieceKeeps, SetMadeKeeps, NextPersonKeeps, _idem_storeKeeps, LookAtPiecesKeeps, SetCallFailsKeeps
  <2>2. UNCHANGED <<heads, set_trail>>
    BY <1>2 DEF quiet, InsertPiece, SetMade, NextPerson, _idem_store, LookAtPieces, SetCallFails
  <2> QED
    BY <2>1, <2>2
<1>3. ASSUME NEW c \in Counters, NEW k \in RequestKeys,
             make_sets_in_store(c, k, 2) \/ \E queue \in Queues : issue_sets_to_people(c, queue, k)
      PROVE  SetsInv' /\ UNCHANGED <<heads, set_trail>>
  <2>1. SetsInv'
    BY <1>3, make_sets_in_storeKeeps, issue_sets_to_peopleKeeps
  <2>2. UNCHANGED <<heads, set_trail>>
    BY <1>3 DEF make_sets_in_store, issue_sets_to_people, SetCall
  <2> QED
    BY <2>1, <2>2
<1>4. ASSUME NEW c \in Counters, NEW s \in Sets,
             \/ mark_set_ready(c, s) \/ \E found : return_set(c, s, found)
             \/ \E l : add_set_line(c, s, l) \/ \E state : edit_piece(c, s, l, state)
      PROVE  SetsInv' /\ UNCHANGED <<heads, set_trail>>
  <2>1. SetsInv'
    BY <1>4, mark_set_readyKeeps, return_setKeeps, edit_pieceKeeps
  <2>2. UNCHANGED <<heads, set_trail>>
    BY <1>4 DEF mark_set_ready, return_set, add_set_line, edit_piece, SetCall
  <2> QED
    BY <2>1, <2>2
<1> QED
  BY <1>1, <1>2, <1>3, <1>4, HeadMovesKeeps DEF HeadsStill

\* What is recorded of a head can be put back: the head is there, and was as it is told.
LEMMA TrailOfSetsKept ==
    ASSUME SetsInv, TrailOfSets, [SetsNext]_set_vars
    PROVE  TrailOfSets'
<1>1. SetTables
  BY DEF SetsInv
<1> SUFFICES ASSUME NEW ch \in set_trail' PROVE InTrail(ch)'
  BY DEF TrailOfSets
<1>2. CASE UNCHANGED <<heads, set_trail>>
  BY <1>2 DEF TrailOfSets, InTrail, HeadChanges
<1>3. ASSUME NEW s \in Sets, heads[s] # NoSet,
             NEW changes \in {<<>>} \cup [status : {"available", "issued", "attention"}, holder : Employees \cup {Nobody}],
             Saved(s, changes)
      PROVE  InTrail(ch)'
  <2>1. /\ heads' \in [Sets -> SetRows \cup {NoSet}] /\ MoveOn /\ heads'[s] # NoSet
        /\ heads[s] \in SetRows
    BY <1>1, <1>3, SavedKept DEF SetTables
  <2>2. set_trail' = set_trail \cup {Change(s, heads[s], heads'[s])}
    BY <1>3 DEF Saved
  <2>3. heads'[s] \in SetRows
    BY <2>1
  <2> PICK new : new = Change(s, heads[s], heads'[s])
    OBVIOUS
  <2>4. InTrail(new)'
    BY <2>1, <2>3 DEF InTrail, HeadChanges, Change
  <2> QED
    BY <2>1, <2>2, <2>4 DEF TrailOfSets, InTrail, HeadChanges, MoveOn
<1>4. ASSUME NEW c \in Counters, _make_physical_set(c) PROVE InTrail(ch)'
  <2>1. PICK s \in Sets :
           /\ s = Cardinality(In_use) + 1
           /\ heads' = [heads EXCEPT ![s] = [status |-> "available", version |-> 1, holder |-> Nobody]]
           /\ set_trail' = set_trail \cup {Change(s, heads'[s], heads'[s])}
    BY <1>4 DEF _make_physical_set
  <2>2. heads' \in [Sets -> SetRows \cup {NoSet}] /\ MoveOn /\ heads'[s] # NoSet
    BY <1>1, <2>1, NextSetIsNew
  <2> PICK new : new = Change(s, heads'[s], heads'[s])
    OBVIOUS
  <2>3. InTrail(new)'
    BY <2>2 DEF InTrail, HeadChanges, Change
  <2> QED
    BY <2>1, <2>2, <2>3 DEF TrailOfSets, InTrail, HeadChanges, MoveOn
<1>5. ASSUME NEW c \in Counters, NEW noted, _issue_one_set(c, noted) PROVE InTrail(ch)'
  <2>1. counter[c].pc = "issue"
    BY <1>5 DEF _issue_one_set
  <2> PICK at \in Servings : at = counter[c]
    BY <1>1, <2>1, AtCounterByPc
  <2>2. /\ Head(at.todo) \in Names /\ at.set \in Sets /\ heads[at.set] # NoSet
        /\ UNCHANGED <<heads, set_trail>> \/ Saved(at.set, [status |-> "issued", holder |-> Who(Head(at.todo))])
    BY <1>5, IssueWrites DEF _issue_one_set
  <2>3. [status |-> "issued", holder |-> Who(Head(at.todo))] \in
           [status : {"available", "issued", "attention"}, holder : Employees \cup {Nobody}]
    BY <2>2 DEF Employees
  <2> QED
    BY <1>2, <1>3, <2>2, <2>3
<1>6. ASSUME NEW c \in Counters, WriteHead(c) PROVE InTrail(ch)'
  <2>1. counter[c].pc \in {"return", "write", "move"} /\ CounterOK(counter[c], heads, pieces)
    BY <1>6 DEF WriteHead, SetsInv
  <2> PICK at \in Returnings \cup Editings \cup Movings : at = counter[c]
    BY <1>1, <2>1, AtCounterByPc
  <2>2. /\ at.set \in Sets /\ heads[at.set] # NoSet
        /\ at.changes \in {<<>>} \cup [status : {"available", "issued", "attention"}, holder : Employees \cup {Nobody}]
    BY <2>1 DEF Returnings, Editings, Movings, CounterOK, SetIsThere
  <2>3. UNCHANGED <<heads, set_trail>> \/ Saved(at.set, at.changes)
    BY <1>6 DEF WriteHead
  <2> QED
    BY <1>2, <1>3, <2>2, <2>3
<1>7. ASSUME NEW old \in set_trail, restore_head(old) PROVE InTrail(ch)'
  <2>1. MoveOn
    BY <1>7, RestoredKept
  <2>2. ch \in set_trail \/ ch = [old EXCEPT !.undone = ~@]
    BY <1>7 DEF restore_head
  <2>3. InTrail(old)
    BY DEF TrailOfSets
  <2>4. CASE ch \in set_trail
    BY <2>1, <2>4 DEF TrailOfSets, InTrail, HeadChanges, MoveOn
  <2>5. CASE ch = [old EXCEPT !.undone = ~@]
    <3>1. ch \in HeadChanges /\ ch.set = old.set
      BY <2>3, <2>5 DEF InTrail, HeadChanges
    <3> QED
      BY <2>1, <2>3, <3>1 DEF InTrail, HeadChanges, MoveOn
  <2> QED
    BY <2>2, <2>4, <2>5
<1>8. CASE HeadsStill \/ UNCHANGED set_vars
  BY <1>2, <1>8, HeadsStillKeeps DEF set_vars
<1> QED
  BY <1>4, <1>5, <1>6, <1>7, <1>8, SetsNextSplit

LEMMA SetsNextKeeps == SetsInv /\ TrailOfSets /\ [SetsNext]_set_vars => SetsInv' /\ TrailOfSets'
<1> SUFFICES ASSUME SetsInv, TrailOfSets, [SetsNext]_set_vars PROVE SetsInv'
  BY TrailOfSetsKept
<1>1. CASE UNCHANGED set_vars
  BY <1>1, update_set_typeKeeps
<1>2. ASSUME NEW c \in Counters, _make_physical_set(c) \/ WriteHead(c) \/ \E noted : _issue_one_set(c, noted)
      PROVE  SetsInv'
  BY <1>2, _make_physical_setKeeps, WriteHeadKeeps, _issue_one_setKeeps
<1>3. CASE HeadsStill
  BY <1>3, HeadsStillKeeps
<1>4. ASSUME NEW ch \in set_trail, restore_head(ch) PROVE SetsInv'
  BY <1>4, restore_headKeeps
<1> QED
  BY <1>1, <1>2, <1>3, <1>4, SetsNextSplit

\* A step of the sets, of one head: it is put away fit, and goes out from the store.
PutAwayFit(s) ==
    heads[s].status # "available" /\ heads'[s].status = "available" =>
        \/ ~Unfit(pieces[s]) \/ PutBack(s)
        \/ \E c \in Counters : (counter[c].pc = "move" \/ (counter[c].pc = "return" /\ counter[c].crossed)) /\ Wrote(c, s)
OutOfStore(s) ==
    heads[s].holder = Nobody /\ heads'[s].holder # Nobody => heads[s].status = "available" \/ PutBack(s)

LEMMA SetsMoveAsTheyShould ==
    ASSUME SetsInv, TrailOfSets, [SetsNext]_set_vars, NEW s \in In_use
    PROVE  PutAwayFit(s) /\ OutOfStore(s)
<1>1. s \in Sets /\ heads[s] # NoSet /\ SetTables
  BY HeadVersion DEF SetsInv
<1>2. ASSUME heads'[s] = heads[s] PROVE PutAwayFit(s) /\ OutOfStore(s)
  BY <1>2 DEF PutAwayFit, OutOfStore
<1>3. ASSUME NEW c \in Counters, _make_physical_set(c) PROVE heads'[s] = heads[s]
  BY <1>1, <1>3, NextSetIsNew DEF _make_physical_set
<1>4. ASSUME NEW c \in Counters, NEW noted, _issue_one_set(c, noted) PROVE PutAwayFit(s) /\ OutOfStore(s)
  <2>1. counter[c].pc = "issue"
    BY <1>4 DEF _issue_one_set
  <2> PICK at \in Servings : at = counter[c]
    BY <1>1, <2>1, AtCounterByPc
  <2> PICK h : h = Head(at.todo)
    OBVIOUS
  <2>2. /\ h \in Names /\ at.set \in Sets /\ heads[at.set] # NoSet
        /\ \/ UNCHANGED heads
           \/ /\ heads[at.set].status = "available" /\ heads[at.set].holder = Nobody
              /\ Saved(at.set, [status |-> "issued", holder |-> Who(h)])
    BY <1>4, IssueWrites
  <2>3. CASE UNCHANGED heads
    BY <1>2, <2>3
  <2>4. CASE /\ heads[at.set].status = "available" /\ heads[at.set].holder = Nobody
             /\ Saved(at.set, [status |-> "issued", holder |-> Who(h)])
    <3>1. CASE s = at.set
      <4>1. [status |-> "issued", holder |-> Who(h)] \in
               [status : {"available", "issued", "attention"}, holder : Employees \cup {Nobody}]
        BY <2>2 DEF Employees
      <4> PICK ch \in {<<>>} \cup [status : {"available", "issued", "attention"}, holder : Employees \cup {Nobody}] :
               ch = [status |-> "issued", holder |-> Who(h)]
        BY <4>1
      <4>2. ch # <<>> => heads'[s].status = ch.status
        BY <1>1, <2>2, <2>4, <3>1, SavedKept
      <4> QED
        BY <2>4, <3>1, <4>1, <4>2 DEF PutAwayFit, OutOfStore
    <3>2. CASE s # at.set
      BY <1>1, <1>2, <2>2, <2>4, <3>2, IssueSaved
    <3> QED
      BY <3>1, <3>2
  <2> QED
    BY <2>2, <2>3, <2>4
<1>5. ASSUME NEW c \in Counters, WriteHead(c) PROVE PutAwayFit(s) /\ OutOfStore(s)
  <2>1. counter[c].pc \in {"return", "write", "move"} /\ CounterOK(counter[c], heads, pieces)
    BY <1>5 DEF WriteHead, SetsInv
  <2> PICK at \in Returnings \cup Editings \cup Movings : at = counter[c]
    BY <1>1, <2>1, AtCounterByPc
  <2>2. CASE UNCHANGED heads
    BY <1>2, <2>2
  <2>3. CASE Stands(at.set, at.version) /\ Saved(at.set, at.changes) /\ Goes_on(c, Closed)
    <3>1. /\ at.set \in Sets /\ heads[at.set] # NoSet
          /\ at.changes \in {<<>>} \cup [status : {"available", "issued", "attention"}, holder : Employees \cup {Nobody}]
          /\ at.changes # <<>> => at.pc \in {"return", "move"}
          /\ at.pc = "return" => at.changes.holder = Nobody
      BY <2>1 DEF Returnings, Editings, Movings, CounterOK, SetIsThere
    <3>2. /\ \A o \in Sets \ {at.set} : heads'[o] = heads[o]
          /\ at.changes = <<>> => heads'[at.set].status = heads[at.set].status /\ heads'[at.set].holder = heads[at.set].holder
          /\ at.changes # <<>> => heads'[at.set].status = at.changes.status /\ heads'[at.set].holder = at.changes.holder
      BY <1>1, <2>3, <3>1, SavedKept
    <3>3. CASE s # at.set
      BY <1>1, <1>2, <3>2, <3>3
    <3>4. CASE s = at.set /\ at.changes = <<>>
      BY <3>2, <3>4 DEF PutAwayFit, OutOfStore
    <3>5. CASE s = at.set /\ at.changes # <<>>
      <4>1. counter'[c] = Closed /\ counter[c] # Closed
        <5>1. Closed \in AtCounter \cup {Closed}
          OBVIOUS
        <5> QED
          BY <1>1, <2>1, <2>3, <5>1, GoesOnKept DEF Closed
      <4>2. Wrote(c, s)
        BY <3>5, <4>1 DEF Wrote
      <4>3. PutAwayFit(s)
        BY <2>1, <3>1, <3>2, <3>5, <4>2 DEF PutAwayFit, CounterOK, PiecesFit
      <4>4. at.version = heads[s].version
        BY <2>3, <3>5 DEF Stands
      <4>5. OutOfStore(s)
        BY <2>1, <3>1, <3>2, <3>5, <4>4 DEF OutOfStore, CounterOK, SetIsThere
      <4> QED
        BY <4>3, <4>5
    <3> QED
      BY <3>3, <3>4, <3>5
  <2> QED
    BY <1>5, <2>2, <2>3 DEF WriteHead
<1>7. ASSUME NEW ch \in set_trail, restore_head(ch) PROVE PutAwayFit(s) /\ OutOfStore(s)
  <2>1. CASE s # ch.set
    BY <1>1, <1>2, <1>7, <2>1, RestoredKept
  <2>2. CASE s = ch.set
    <3>1. ch \notin set_trail'
      <4>1. ch \notin set_trail \ {ch} /\ ch # [ch EXCEPT !.undone = ~@]
        <5> PICK other : other = [ch EXCEPT !.undone = ~@]
          OBVIOUS
        <5>1. InTrail(ch) /\ ch.undone \in BOOLEAN /\ "undone" \in DOMAIN ch
          BY DEF TrailOfSets, InTrail, HeadChanges
        <5>2. other.undone = ~ch.undone
          BY <5>1
        <5> QED
          BY <5>1, <5>2
      <4> QED
        BY <1>7, <4>1 DEF restore_head
    <3> QED
      BY <2>2, <3>1 DEF PutAwayFit, OutOfStore, PutBack
  <2> QED
    BY <2>1, <2>2
<1>6. CASE UNCHANGED set_vars \/ HeadsStill
  BY <1>2, <1>6, HeadsStillKeeps DEF set_vars
<1> QED
  BY <1>2, <1>3, <1>4, <1>5, <1>6, <1>7, SetsNextSplit

\* However requests overlap, fail or are sent again, and whatever is moved as a tool or
\* undone meanwhile, a key that no request broke off under hands nobody more sets than it
\* names them; a set received piece by piece or marked ready is available only with every
\* piece fit, as far as nobody wrote since the pieces were read; and a set is handed out
\* only from the store, or to whom undo or redo gives it back: for every number of sets,
\* pieces, people and requests.
THEOREM SetsWhole == SetsSpec => SetsAreWhole
<1>1. SetsBegin => SetsInv /\ TrailOfSets
  <2>1. SetsBegin => set_trail = {}
    BY DEF SetsBegin, SetsInit
  <2> QED
    BY <2>1, SetsBeginSound DEF TrailOfSets
<1>2. SetsInv /\ TrailOfSets /\ [SetsNext]_set_vars => SetsInv' /\ TrailOfSets'
  BY SetsNextKeeps
<1>3. SetsInv => OneSetForEach
  BY DEF SetsInv, KeyInv, HandedOut, PeopleIn, OneSetForEach
<1>4. SetsInv /\ TrailOfSets /\ [SetsNext]_set_vars => [\A s \in In_use : PutAwayFit(s) /\ OutOfStore(s)]_set_vars
  BY SetsMoveAsTheyShould
<1>5. [\A s \in In_use : PutAwayFit(s) /\ OutOfStore(s)]_set_vars =>
        [\A s \in In_use :
             /\ heads[s].status # "available" /\ heads'[s].status = "available" =>
                   \/ ~Unfit(pieces[s]) \/ PutBack(s)
                   \/ \E c \in Counters : (counter[c].pc = "move" \/ (counter[c].pc = "return" /\ counter[c].crossed)) /\ Wrote(c, s)
             /\ heads[s].holder = Nobody /\ heads'[s].holder # Nobody => heads[s].status = "available" \/ PutBack(s)]_set_vars
  BY DEF PutAwayFit, OutOfStore
<1> QED
  BY <1>1, <1>2, <1>3, <1>4, <1>5, PTL DEF SetsSpec, SetsAreWhole

-----------------------------------------------------------------------------
(* The monthly sheets. *)
Saves ==
    [pc : {"leave", "insert", "update"}, id : MonthIds \cup {NoMonth}, who : Workers, month : Months,
     leave : SUBSET Dates, data : Sent \cup MonthRows]

\* A save that was checked has no work on the leave it read.
SaveSound(x) ==
    /\ x.pc = "leave" => "worked" \in DOMAIN x.data
    /\ x.pc \in {"insert", "update"} /\ "worked" \in DOMAIN x.data => x.data.worked \cap x.leave = {}
    /\ x.id = NoMonth => x.data \in MonthRows
    /\ x.pc = "insert" => x.id = NoMonth
    /\ x.pc = "update" => x.id \in MonthIds

MonthsInv ==
    /\ month_sheets \in [MonthIds -> MonthRows \cup {NoMonth}]
    /\ foreman \in [Foremen -> Saves \cup {NotHere}]
    /\ \A f \in Foremen : foreman[f] # NotHere => SaveSound(foreman[f])
    /\ NobodyWorksOnLeave

\* What was sent, and whether the days were.
LEMMA SentDays ==
    ASSUME NEW data \in Sent \cup MonthRows
    PROVE  /\ "worked" \in DOMAIN data => data.worked \in SUBSET Dates
           /\ "who" \in DOMAIN data => data.who \in Workers
           /\ "month" \in DOMAIN data => data.month \in Months
<1>1. CASE data \in [worked : SUBSET Dates]
  BY <1>1
<1>2. CASE data \in [who : Workers]
  BY <1>2
<1>3. CASE data \in [month : Months]
  BY <1>3
<1>4. CASE data \in [who : Workers, worked : SUBSET Dates]
  BY <1>4
<1>5. CASE data \in MonthRows
  BY <1>5 DEF MonthRows
<1> QED
  BY <1>1, <1>2, <1>3, <1>4, <1>5 DEF Sent

\* The columns sent over a row leave a row.
LEMMA Over_rowIsRow ==
    ASSUME NEW row \in MonthRows, NEW data \in Sent \cup MonthRows
    PROVE  /\ Over_row(row, data) \in MonthRows
           /\ "worked" \in DOMAIN data => Over_row(row, data).worked = data.worked
           /\ "worked" \notin DOMAIN data => Over_row(row, data).worked = row.worked
<1>1. DOMAIN row = {"who", "month", "worked"}
  BY DEF MonthRows
<1>2. row.who \in Workers /\ row.month \in Months /\ row.worked \in SUBSET Dates
  BY DEF MonthRows
<1> PICK who \in Workers, month \in Months, worked \in SUBSET Dates :
       /\ who = (IF "who" \in DOMAIN data THEN data.who ELSE row.who)
       /\ month = (IF "month" \in DOMAIN data THEN data.month ELSE row.month)
       /\ worked = (IF "worked" \in DOMAIN data THEN data.worked ELSE row.worked)
  BY <1>2, SentDays
<1>3. Over_row(row, data) = [who |-> who, month |-> month, worked |-> worked]
  BY <1>1 DEF Over_row
<1>4. [who |-> who, month |-> month, worked |-> worked] \in MonthRows
  BY DEF MonthRows
<1> QED
  BY <1>3, <1>4

LEMMA MonthsBeginSound == MonthsBegin => MonthsInv
BY DEF MonthsBegin, MonthsInit, MonthsInv, NobodyWorksOnLeave

\* A foreman comes with a save, or goes, and nothing is stored.
LEMMA SaveComes ==
    ASSUME MonthsInv, NEW f \in Foremen, NEW x \in Saves \cup {NotHere}, x # NotHere => SaveSound(x), Foreman(f, x),
           UNCHANGED <<month_sheets, approved, late, unread>>
    PROVE  MonthsInv'
<1>1. foreman' = [foreman EXCEPT ![f] = x] /\ foreman \in [Foremen -> Saves \cup {NotHere}]
  BY DEF Foreman, MonthsInv
<1>2. foreman' \in [Foremen -> Saves \cup {NotHere}] /\ foreman'[f] = x /\ \A g \in Foremen \ {f} : foreman'[g] = foreman[g]
  BY <1>1
<1>3. NobodyWorksOnLeave'
  BY DEF MonthsInv, NobodyWorksOnLeave, Kept
<1> QED
  BY <1>2, <1>3 DEF MonthsInv, SaveSound

LEMMA create_artisan_timesheetKeeps ==
    ASSUME MonthsInv, NEW f \in Foremen, NEW who \in Workers, NEW m \in Months, NEW worked \in SUBSET Dates,
           create_artisan_timesheet(f, who, m, worked)
    PROVE  MonthsInv'
<1> DEFINE row == [who |-> who, month |-> m, worked |-> worked]
           x == [pc |-> "leave", id |-> NoMonth, who |-> who, month |-> m, leave |-> {}, data |-> row]
<1>1. row \in MonthRows /\ "worked" \in DOMAIN row
  BY DEF MonthRows
<1>2. Foreman(f, x) /\ UNCHANGED <<month_sheets, approved, late, unread>>
  BY DEF create_artisan_timesheet
<1> HIDE DEF row
<1>3. x \in Saves /\ x.pc = "leave" /\ x.data = row
  BY <1>1 DEF Saves
<1>4. SaveSound(x)
  BY <1>1, <1>3 DEF SaveSound
<1> HIDE DEF x
<1> QED
  BY <1>2, <1>3, <1>4, SaveComes

LEMMA update_artisan_timesheetKeeps ==
    ASSUME MonthsInv, NEW f \in Foremen, NEW s \in MonthIds, NEW data \in Sent, update_artisan_timesheet(f, s, data)
    PROVE  MonthsInv'
<1>1. month_sheets[s] \in MonthRows
  BY DEF update_artisan_timesheet, Kept, MonthsInv
<1> PICK row : row = Over_row(month_sheets[s], data)
  OBVIOUS
<1>2. row \in MonthRows
  BY <1>1, Over_rowIsRow
<1> DEFINE x == [pc |-> IF "worked" \in DOMAIN data THEN "leave" ELSE "update", id |-> s,
                 who |-> row.who, month |-> row.month, leave |-> {}, data |-> data]
<1>3. Foreman(f, x) /\ UNCHANGED <<month_sheets, approved, late, unread>>
  BY DEF update_artisan_timesheet
<1>4. x \in Saves /\ x.id = s /\ x.data = data /\ x.leave = {}
      /\ (x.pc = "leave" <=> "worked" \in DOMAIN data) /\ x.pc \in {"leave", "update"}
  BY <1>2 DEF Saves, MonthRows
<1> HIDE DEF x
<1>5. SaveSound(x)
  BY <1>4, MonthAssumption DEF SaveSound
<1> QED
  BY <1>3, <1>4, <1>5, SaveComes

\* The register of leave is read: work on leave is refused.
LEMMA _reject_work_on_leaveKeeps ==
    ASSUME MonthsInv, NEW f \in Foremen, _reject_work_on_leave(f)
    PROVE  MonthsInv'
<1>1. foreman[f] \in Saves /\ SaveSound(foreman[f])
  BY DEF MonthsInv, NotHere, _reject_work_on_leave
<1> PICK was \in Saves : was = foreman[f]
  BY <1>1
<1> PICK leave : leave = _approved_leave_dates(was.who, was.month)
  OBVIOUS
<1>2. leave \in SUBSET Dates
  BY DEF _approved_leave_dates, DaysOf
<1> DEFINE x == [was EXCEPT !.pc = IF was.id = NoMonth THEN "insert" ELSE "update", !.leave = leave]
<1>3. /\ UNCHANGED <<month_sheets, approved, late, unread>> /\ was.pc = "leave"
      /\ \/ Foreman(f, NotHere)
         \/ Foreman(f, x) /\ was.data.worked \cap leave = {}
  BY DEF _reject_work_on_leave, _leave_violations
<1>4. x \in Saves /\ x.id = was.id /\ x.data = was.data /\ x.leave = leave /\ x.pc = (IF was.id = NoMonth THEN "insert" ELSE "update")
  BY <1>2 DEF Saves
<1> HIDE DEF x
<1>5. CASE Foreman(f, NotHere)
  <2> PICK y \in Saves \cup {NotHere} : y = NotHere
    OBVIOUS
  <2> QED
    BY <1>3, <1>5, SaveComes
<1>6. CASE Foreman(f, x) /\ was.data.worked \cap leave = {}
  <2>1. was.id \in MonthIds \cup {NoMonth}
    BY DEF Saves
  <2>2. SaveSound(x)
    BY <1>1, <1>4, <1>6, <2>1 DEF SaveSound
  <2> QED
    BY <1>3, <1>4, <1>6, <2>2, SaveComes
<1> QED
  BY <1>3, <1>5, <1>6

\* A row is stored: with its days, checked against the leave that was read, or without
\* them over a row of the same person and month; any other one is not read against leave.
LEMMA StoresKeeps ==
    ASSUME MonthsInv, NEW f \in Foremen, foreman[f] \in Saves, NEW s \in MonthIds, NEW row \in MonthRows, Stores(f, s, row),
           Foreman(f, NotHere), UNCHANGED approved,
           "worked" \in DOMAIN foreman[f].data => row.worked \cap foreman[f].leave = {},
           "worked" \notin DOMAIN foreman[f].data => s \in Kept /\ row.worked = month_sheets[s].worked
    PROVE  MonthsInv'
<1>1. /\ month_sheets \in [MonthIds -> MonthRows \cup {NoMonth}] /\ month_sheets' = [month_sheets EXCEPT ![s] = row]
      /\ foreman \in [Foremen -> Saves \cup {NotHere}] /\ foreman' = [foreman EXCEPT ![f] = NotHere]
  BY DEF MonthsInv, Stores, Foreman
<1>2. month_sheets' \in [MonthIds -> MonthRows \cup {NoMonth}] /\ month_sheets'[s] = row
      /\ \A o \in MonthIds \ {s} : month_sheets'[o] = month_sheets[o]
  BY <1>1
<1>3. foreman' \in [Foremen -> Saves \cup {NotHere}]
      /\ \A g \in Foremen : foreman'[g] = NotHere \/ foreman'[g] = foreman[g]
  BY <1>1
<1>4. ASSUME NEW o \in Kept' \ unread', NEW d \in month_sheets'[o].worked \cap DaysOf(month_sheets'[o].month), <<month_sheets'[o].who, d>> \in approved'
      PROVE  <<o, d>> \in late'
  <2> DEFINE sent == "worked" \in DOMAIN foreman[f].data
  <2>1. o \in MonthIds /\ month_sheets'[o] # NoMonth
    BY <1>4 DEF Kept
  <2>2. CASE o # s
    <3>1. month_sheets'[o] = month_sheets[o] /\ o \in Kept /\ o \notin unread
      BY <1>2, <1>4, <2>1, <2>2 DEF Kept, Stores
    <3>2. <<o, d>> \in late
      BY <1>4, <3>1 DEF MonthsInv, NobodyWorksOnLeave
    <3>3. <<o, d>>[1] = o
      OBVIOUS
    <3> QED
      BY <2>2, <3>2, <3>3 DEF Stores
  <2>3. CASE o = s /\ sent
    <3>1. d \in row.worked \cap DaysOf(row.month) /\ <<row.who, d>> \in approved /\ d \notin foreman[f].leave
      BY <1>2, <1>4, <2>3
    <3>2. <<s, d>> \in Since(f, s, row)
      BY <3>1 DEF Since
    <3>3. late' = {p \in late : p[1] # s} \cup Since(f, s, row)
      BY <2>3 DEF Stores
    <3> QED
      BY <2>3, <3>2, <3>3
  <2>4. CASE o = s /\ ~sent
    <3>1. s \in Kept /\ row.worked = month_sheets[s].worked /\ s \notin unread'
      BY <1>4, <2>4
    <3>2. late' = late /\ s \notin unread /\ month_sheets[s].who = row.who /\ month_sheets[s].month = row.month
      BY <2>4, <3>1 DEF Stores
    <3>3. d \in month_sheets[s].worked \cap DaysOf(month_sheets[s].month) /\ <<month_sheets[s].who, d>> \in approved
      BY <1>2, <1>4, <2>4, <3>1, <3>2
    <3> QED
      BY <2>4, <3>1, <3>2, <3>3 DEF MonthsInv, NobodyWorksOnLeave
  <2> QED
    BY <2>2, <2>3, <2>4
<1>5. NobodyWorksOnLeave'
  BY <1>4 DEF NobodyWorksOnLeave
<1> QED
  BY <1>2, <1>3, <1>5 DEF MonthsInv

LEMMA RefusedMonth ==
    ASSUME MonthsInv, NEW f \in Foremen, Foreman(f, NotHere), UNCHANGED <<month_sheets, approved, late, unread>>
    PROVE  MonthsInv'
<1> PICK y \in Saves \cup {NotHere} : y = NotHere
  OBVIOUS
<1> QED
  BY SaveComes

LEMMA InsertMonthKeeps ==
    ASSUME MonthsInv, NEW f \in Foremen, NEW s \in MonthIds, InsertMonth(f, s)
    PROVE  MonthsInv'
<1>1. foreman[f] \in Saves /\ SaveSound(foreman[f]) /\ foreman[f].pc = "insert" /\ Foreman(f, NotHere) /\ UNCHANGED approved
  BY DEF MonthsInv, NotHere, InsertMonth
<1>2. CASE Stores(f, s, foreman[f].data)
  <2> PICK row \in MonthRows : row = foreman[f].data
    BY <1>1 DEF SaveSound
  <2>1. "worked" \in DOMAIN row
    BY DEF MonthRows
  <2> QED
    BY <1>1, <1>2, <2>1, StoresKeeps DEF SaveSound
<1>3. CASE UNCHANGED <<month_sheets, late, unread>>
  BY <1>1, <1>3, RefusedMonth
<1> QED
  BY <1>2, <1>3 DEF InsertMonth

LEMMA UpdateMonthKeeps ==
    ASSUME MonthsInv, NEW f \in Foremen, UpdateMonth(f)
    PROVE  MonthsInv'
<1>1. foreman[f] \in Saves /\ SaveSound(foreman[f]) /\ foreman[f].pc = "update" /\ Foreman(f, NotHere) /\ UNCHANGED approved
  BY DEF MonthsInv, NotHere, UpdateMonth
<1>2. CASE foreman[f].id \in Kept /\ Stores(f, foreman[f].id, Over_row(month_sheets[foreman[f].id], foreman[f].data))
  <2> PICK s \in MonthIds : s = foreman[f].id /\ s \in Kept
    BY <1>2 DEF Kept
  <2>1. month_sheets[s] \in MonthRows /\ foreman[f].data \in Sent \cup MonthRows
    BY <1>1 DEF Kept, MonthsInv, Saves
  <2> PICK data \in Sent \cup MonthRows : data = foreman[f].data
    BY <2>1
  <2> PICK row : row = Over_row(month_sheets[s], data)
    OBVIOUS
  <2>2. /\ row \in MonthRows
        /\ "worked" \in DOMAIN data => row.worked = data.worked
        /\ "worked" \notin DOMAIN data => row.worked = month_sheets[s].worked
    BY <2>1, Over_rowIsRow
  <2>3. "worked" \in DOMAIN data => row.worked \cap foreman[f].leave = {}
    BY <1>1, <2>2 DEF SaveSound
  <2>4. Stores(f, s, row)
    BY <1>2
  <2> QED
    BY <1>1, <2>2, <2>3, <2>4, StoresKeeps
<1>3. CASE UNCHANGED <<month_sheets, late, unread>>
  BY <1>1, <1>3, RefusedMonth
<1> QED
  BY <1>2, <1>3 DEF UpdateMonth

LEMMA delete_artisan_timesheetKeeps ==
    ASSUME MonthsInv, NEW f \in Foremen, NEW s \in MonthIds, delete_artisan_timesheet(f, s)
    PROVE  MonthsInv'
<1>1. /\ month_sheets' \in [MonthIds -> MonthRows \cup {NoMonth}] /\ month_sheets'[s] = NoMonth
      /\ \A o \in MonthIds \ {s} : month_sheets'[o] = month_sheets[o]
  BY DEF MonthsInv, delete_artisan_timesheet
<1>2. late' = {p \in late : p[1] # s} /\ unread' = unread \ {s} /\ UNCHANGED <<approved, foreman>>
  BY DEF delete_artisan_timesheet
<1>3. ASSUME NEW o \in Kept' \ unread', NEW d \in month_sheets'[o].worked \cap DaysOf(month_sheets'[o].month), <<month_sheets'[o].who, d>> \in approved'
      PROVE  <<o, d>> \in late'
  <2>1. o \in MonthIds /\ o # s /\ month_sheets'[o] = month_sheets[o] /\ o \in Kept /\ o \notin unread
    BY <1>1, <1>2, <1>3 DEF Kept
  <2>2. <<o, d>> \in late /\ <<o, d>>[1] = o
    BY <1>2, <1>3, <2>1 DEF MonthsInv, NobodyWorksOnLeave
  <2> QED
    BY <1>2, <2>1, <2>2
<1>4. NobodyWorksOnLeave'
  BY <1>3 DEF NobodyWorksOnLeave
<1> QED
  BY <1>1, <1>2, <1>4 DEF MonthsInv

LEMMA ApprovalKeeps ==
    ASSUME MonthsInv, NEW who \in Workers, NEW d \in Dates, Approval(who, d)
    PROVE  MonthsInv'
<1>1. UNCHANGED <<month_sheets, foreman, unread>>
  BY DEF Approval
<1>2. ASSUME NEW s \in Kept' \ unread', NEW x \in month_sheets'[s].worked \cap DaysOf(month_sheets'[s].month), <<month_sheets'[s].who, x>> \in approved'
      PROVE  <<s, x>> \in late'
  <2>1. s \in Kept \ unread /\ x \in month_sheets[s].worked \cap DaysOf(month_sheets[s].month)
    BY <1>1, <1>2 DEF Kept
  <2>2. CASE <<month_sheets[s].who, x>> \in approved
    <3>1. <<s, x>> \in late /\ late \subseteq late'
      BY <2>1, <2>2 DEF MonthsInv, NobodyWorksOnLeave, Approval
    <3> QED
      BY <3>1
  <2>3. CASE <<month_sheets[s].who, x>> \notin approved
    <3>1. /\ approved' = approved \cup {<<who, d>>} /\ <<month_sheets[s].who, x>> = <<who, d>>
          /\ late' = late \cup {<<t, d>> : t \in {y \in Kept : month_sheets[y].who = who /\ d \in month_sheets[y].worked}}
      BY <1>1, <1>2, <2>3 DEF Approval
    <3>2. month_sheets[s].who = who /\ x = d
      BY <3>1
    <3> QED
      BY <2>1, <3>1, <3>2
  <2> QED
    BY <2>2, <2>3
<1>3. NobodyWorksOnLeave'
  BY <1>2 DEF NobodyWorksOnLeave
<1> QED
  BY <1>1, <1>3 DEF MonthsInv

LEMMA MonthsNextKeeps == MonthsInv /\ [MonthsNext]_month_vars => MonthsInv'
<1> SUFFICES ASSUME MonthsInv, [MonthsNext]_month_vars PROVE MonthsInv'
  OBVIOUS
<1>1. CASE UNCHANGED month_vars
  BY <1>1 DEF month_vars, MonthsInv, NobodyWorksOnLeave, Kept
<1>2. ASSUME NEW f \in Foremen,
             \/ _reject_work_on_leave(f) \/ UpdateMonth(f)
             \/ \E who \in Workers, m \in Months, worked \in SUBSET Dates : create_artisan_timesheet(f, who, m, worked)
             \/ \E s \in MonthIds : InsertMonth(f, s) \/ delete_artisan_timesheet(f, s)
                                    \/ \E data \in Sent : update_artisan_timesheet(f, s, data)
      PROVE  MonthsInv'
  BY <1>2, _reject_work_on_leaveKeeps, UpdateMonthKeeps, create_artisan_timesheetKeeps, InsertMonthKeeps,
     delete_artisan_timesheetKeeps, update_artisan_timesheetKeeps
<1>3. ASSUME NEW who \in Workers, NEW d \in Dates, Approval(who, d) PROVE MonthsInv'
  BY <1>3, ApprovalKeeps
<1> QED
  BY <1>1, <1>2, <1>3 DEF MonthsNext

\* Whatever saves and decisions on leave cross: a sheet has work on a day of its month that is approved leave
\* only if the leave was approved after the save had read the register, or the sheet was
\* given to that person or month by a save without its days, or one that crossed another.
THEOREM NobodyOnLeave == MonthsSpec => []NobodyWorksOnLeave
<1>1. MonthsBegin => MonthsInv
  BY MonthsBeginSound
<1>2. MonthsInv /\ [MonthsNext]_month_vars => MonthsInv'
  BY MonthsNextKeeps
<1>3. MonthsInv => NobodyWorksOnLeave
  BY DEF MonthsInv
<1> QED
  BY <1>1, <1>2, <1>3, PTL DEF MonthsSpec
=============================================================================
