-------------------------- MODULE Registers_proofs --------------------------
(***************************************************************************)
(* What the smaller registers keep for every value of their constants.  A  *)
(* register shares nothing with the others.                                *)
(***************************************************************************)
EXTENDS Recurrence, WorkOrderNumbers, StockLevels, PPERegister, CompressorMeters, EmployeeRegister, FiniteSetTheorems, WellFoundedInduction, TLAPS

-----------------------------------------------------------------------------
(* The roll-forward, for every recurrence and every date. *)

Months == 0 .. 11

\* A list of months has an earliest one.
LEMMA LeastMonth ==
    ASSUME NEW S \in SUBSET Months, S # {}
    PROVE  Least(S) \in S /\ \A y \in S : Least(S) <= y
<1>1. \E x \in S : \A y \in S : x <= y
  <2>. SUFFICES ASSUME \A x \in S : \E y \in S : y < x PROVE FALSE
    BY DEF Months
  <2>1. \A y \in S : y >= 0 /\ y <= 11 /\ y \in Int
    BY DEF Months
  <2>2. 0 \notin S /\ 1 \notin S /\ 2 \notin S
    BY <2>1
  <2>3. 3 \notin S /\ 4 \notin S /\ 5 \notin S
    BY <2>1, <2>2
  <2>4. 6 \notin S /\ 7 \notin S /\ 8 \notin S
    BY <2>1, <2>2, <2>3
  <2>5. 9 \notin S /\ 10 \notin S /\ 11 \notin S
    BY <2>1, <2>2, <2>3, <2>4
  <2>. QED
    BY <2>1, <2>2, <2>3, <2>4, <2>5
<1>. QED
  BY <1>1 DEF Least

\* The months a recurrence names.
LEMMA MonthsNamed ==
    ASSUME NEW s \in Recurrences
    PROVE  /\ QuarterMonths(s) \subseteq Months /\ QuarterMonths(s) # {}
           /\ YearMonth(s) \in Months
<1>1. s.months \in Seq(0 .. 11)
  BY RecurrenceAssumption
<1>2. CASE s.months = <<>>
  BY <1>2 DEF QuarterMonths, YearMonth, Months
<1>3. CASE s.months # <<>>
  <2>1. Len(s.months) \in Nat /\ Len(s.months) > 0 /\ s.months \in [1 .. Len(s.months) -> 0 .. 11]
    BY <1>1, <1>3
  <2>2. 1 \in DOMAIN s.months
    BY <2>1
  <2>. QED
    BY <1>3, <2>1, <2>2 DEF QuarterMonths, YearMonth, Months
<1>. QED
  BY <1>2, <1>3

\* A date in a later month is a later date, whatever its day.
LEMMA LaterMonth ==
    ASSUME NEW frm \in CalendarDate, NEW year \in Nat, NEW month \in 1 .. 13, NEW dom \in Nat,
           year > frm.year \/ (year = frm.year /\ month > frm.month)
    PROVE  Before(frm, _clamp_dom(year, month, dom))
<1>1. frm.year \in Nat /\ frm.month \in 1 .. 12
  BY DEF CalendarDate
<1>2. LET d == _clamp_dom(year, month, dom) IN
      d.year > frm.year \/ (d.year = frm.year /\ d.month > frm.month)
  BY <1>1 DEF _clamp_dom, OnDay
<1>. QED
  BY <1>1, <1>2 DEF Before

\* A few days on is later, at the end of a month and of a year too.
LEMMA LaterDay ==
    ASSUME NEW frm \in CalendarDate, IsDate(frm), NEW n \in Nat \ {0}
    PROVE  Before(frm, PlusDays(frm, n))
<1>1. /\ frm.year \in Nat /\ frm.month \in 1 .. 12 /\ frm.day \in Nat
      /\ frm.day <= DaysIn(frm.year, frm.month) /\ DaysIn(frm.year, frm.month) \in Nat
  BY DEF CalendarDate, IsDate, DaysIn
<1>2. frm = [year |-> frm.year, month |-> frm.month, day |-> frm.day]
  BY DEF CalendarDate
<1>3. CASE n <= DaysIn(frm.year, frm.month) - frm.day
  <2>1. PlusDays(frm, n) = [year |-> frm.year, month |-> frm.month, day |-> frm.day + n]
    BY <1>2, <1>3 DEF PlusDays
  <2>. QED
    BY <1>1, <2>1 DEF Before
<1>4. CASE ~(n <= DaysIn(frm.year, frm.month) - frm.day)
  BY <1>1, <1>4 DEF PlusDays, OnDay, Before
<1>. QED
  BY <1>3, <1>4

\* "The next due date strictly after `frm`": whatever the recurrence, unless it
\* is a list of dates, a schedule is rolled forward to a later date.  This is
\* what ScheduleGeneration assumes of NextOccurrence.
THEOREM RollsForward ==
    ASSUME NEW s \in Recurrences, s.type # "custom",
           NEW frm \in CalendarDate, IsDate(frm)
    PROVE  Before(frm, next_occurrence(s, frm))
<1>1. DayOfMonth(s) \in Nat
  BY RecurrenceAssumption DEF DayOfMonth
<1>2. frm.year \in Nat /\ frm.month \in 1 .. 12
  BY DEF CalendarDate
<1>3. CASE s.type \in {"daily", "weekly", "biweekly"}
  BY <1>3, LaterDay DEF next_occurrence
<1>4. CASE s.type = "monthly"
  <2>1. next_occurrence(s, frm) = _clamp_dom(frm.year, frm.month + 1, DayOfMonth(s))
    BY <1>4 DEF next_occurrence
  <2>. QED
    BY <1>1, <1>2, <2>1, LaterMonth
<1>5. CASE s.type = "quarterly"
  <2>. DEFINE later == {m \in QuarterMonths(s) : m > frm.month - 1}
  <2>1. next_occurrence(s, frm) = NextQuarter(s, frm)
    BY <1>5 DEF next_occurrence
  <2>2. QuarterMonths(s) \in SUBSET Months /\ QuarterMonths(s) # {}
    BY MonthsNamed
  <2>3. CASE later # {}
    <3>1. Least(later) \in later
      BY <2>2, <2>3, LeastMonth
    <3>2. Least(later) + 1 \in 1 .. 13 /\ Least(later) + 1 > frm.month
      <4>1. \A m \in later : m \in 0 .. 11 /\ m > frm.month - 1
        BY <2>2 DEF Months
      <4>2. \A m \in 0 .. 11 : m > frm.month - 1 => m + 1 \in 1 .. 13 /\ m + 1 > frm.month
        BY <1>2
      <4>. QED
        BY <3>1, <4>1, <4>2
    <3>3. NextQuarter(s, frm) = _clamp_dom(frm.year, Least(later) + 1, DayOfMonth(s))
      BY <2>3 DEF NextQuarter
    <3>. QED
      BY <1>1, <1>2, <2>1, <3>2, <3>3, LaterMonth
  <2>4. CASE later = {}
    <3>1. Least(QuarterMonths(s)) + 1 \in 1 .. 13
      <4>1. Least(QuarterMonths(s)) \in QuarterMonths(s)
        BY ONLY <2>2, LeastMonth
      <4>2. Least(QuarterMonths(s)) \in 0 .. 11
        BY ONLY <2>2, <4>1 DEF Months
      <4>. QED
        BY ONLY <4>2
    <3>2. NextQuarter(s, frm) = _clamp_dom(frm.year + 1, Least(QuarterMonths(s)) + 1, DayOfMonth(s))
      BY <2>4 DEF NextQuarter
    <3>. QED
      BY <1>1, <1>2, <2>1, <3>1, <3>2, LaterMonth
  <2>. QED
    BY <2>3, <2>4
<1>6. CASE s.type = "yearly"
  <2>1. next_occurrence(s, frm) = _clamp_dom(frm.year + 1, YearMonth(s) + 1, DayOfMonth(s))
    BY <1>6 DEF next_occurrence
  <2>2. YearMonth(s) + 1 \in 1 .. 13
    BY MonthsNamed DEF Months
  <2>. QED
    BY <1>1, <1>2, <2>1, <2>2, LaterMonth
<1>. QED
  BY <1>3, <1>4, <1>5, <1>6, RecurrenceAssumption DEF RecurrenceTypes

-----------------------------------------------------------------------------
(* Work order numbers, while the table fits one page. *)

\* How many inserts each collision of a request already stands for.
TriesCounted ==
    \A a \in Actors :
        /\ pc[a] = "idle" => attempt[a] = 0
        /\ pc[a] \in {"read", "insert", "gave_up"} => start[a] <= inserted
        /\ pc[a] = "read" => attempt[a] < MaxAttempts /\ inserted - start[a] >= attempt[a]
        /\ pc[a] = "insert" =>
             /\ attempt[a] < MaxAttempts
             /\ base[a] <= inserted
             /\ base[a] - start[a] >= attempt[a]
             /\ Taken(number[a]) => inserted > base[a]
        /\ pc[a] = "gave_up" =>
             /\ a \in Creators => inserted - start[a] >= MaxAttempts
             /\ a \in Generators => inserted > base[a]

RowsCounted == IsFiniteSet(rows) /\ Cardinality(rows) <= inserted

NumbersInv == NumbersTypeOK /\ RowsCounted /\ TriesCounted

-----------------------------------------------------------------------------
\* Below the cap a page is the whole table.
LEMMA WholePage ==
    ASSUME NumbersInv, MaxJobs <= PageCap
    PROVE  Pages = {rows}
<1>1. Cardinality(rows) \in Nat
  BY FS_CardinalityType DEF NumbersInv, RowsCounted
<1>2. Cardinality(rows) <= PageCap
  BY <1>1, BoundAssumption DEF NumbersInv, RowsCounted, NumbersTypeOK
<1> QED BY <1>2 DEF Pages

\* Below its window the generator sees the whole table.
LEMMA WholeWindow ==
    ASSUME NumbersInv, MaxJobs <= Recent
    PROVE  LatestRows = rows
<1> SUFFICES ASSUME NEW r \in rows
             PROVE  Cardinality({q \in rows : q.id > r.id}) < Recent
  BY DEF LatestRows
<1> DEFINE later == {q \in rows : q.id > r.id}
<1>1. r.id \in Nat /\ IsFiniteSet(rows)
  BY DEF NumbersInv, NumbersTypeOK, RowsCounted
<1>2. later \subseteq rows /\ r \notin later
  BY <1>1
<1>3. later \subseteq rows \ {r}
  BY <1>2
<1>4. IsFiniteSet(rows \ {r}) /\ Cardinality(rows \ {r}) = Cardinality(rows) - 1
  BY <1>1, FS_RemoveElement
<1>5. Cardinality(later) <= Cardinality(rows \ {r})
  BY <1>3, <1>4, FS_Subset
<1>6. IsFiniteSet(later)
  BY <1>3, <1>4, FS_Subset
<1>7. /\ Cardinality(rows) \in Nat
      /\ Cardinality(later) \in Nat
  BY <1>1, <1>6, FS_CardinalityType
<1> QED BY <1>4, <1>5, <1>7, BoundAssumption DEF NumbersInv, RowsCounted, NumbersTypeOK

\* A number above every row of the table is free.
LEMMA HighestIsFree ==
    ASSUME NumbersInv, NEW n \in Nat, IsHighest(n, rows), NEW k \in Nat
    PROVE  ~Taken(n + 1 + k)
<1>1. \A r \in rows : r.number \in Nat /\ r.number <= n
  BY DEF NumbersInv, NumbersTypeOK, IsHighest
<1> QED BY <1>1 DEF Taken

\* The variables of an actor that is idle say nothing.
LEMMA OverKeeps ==
    ASSUME NumbersTypeOK, TriesCounted, NEW a \in Actors, Over(a),
           inserted' \in Nat, inserted' >= inserted,
           \A b \in Actors : b # a /\ pc[b] = "insert" /\ Taken(number[b])'
                               => Taken(number[b]) \/ inserted' > inserted
    PROVE  TriesCounted'
<1> SUFFICES ASSUME NEW b \in Actors PROVE
        /\ pc'[b] = "idle" => attempt'[b] = 0
        /\ pc'[b] \in {"read", "insert", "gave_up"} => start'[b] <= inserted'
        /\ pc'[b] = "read" => attempt'[b] < MaxAttempts /\ inserted' - start'[b] >= attempt'[b]
        /\ pc'[b] = "insert" =>
             /\ attempt'[b] < MaxAttempts
             /\ base'[b] <= inserted'
             /\ base'[b] - start'[b] >= attempt'[b]
             /\ Taken(number[b])' => inserted' > base'[b]
        /\ pc'[b] = "gave_up" =>
             /\ b \in Creators => inserted' - start'[b] >= MaxAttempts
             /\ b \in Generators => inserted' > base'[b]
  BY DEF TriesCounted
<1>1. CASE b = a
  BY <1>1 DEF Over, NumbersTypeOK
<1>2. CASE b # a
  <2>1. /\ pc'[b] = pc[b] /\ attempt'[b] = attempt[b] /\ number'[b] = number[b]
        /\ start'[b] = start[b] /\ base'[b] = base[b]
    BY <1>2 DEF Over, NumbersTypeOK
  <2>2. /\ attempt[b] \in Nat /\ start[b] \in Nat /\ base[b] \in Nat
        /\ inserted \in Nat /\ MaxAttempts \in Nat
    BY BoundAssumption DEF NumbersTypeOK
  <2> QED BY <1>2, <2>1, <2>2 DEF TriesCounted
<1> QED BY <1>1, <1>2

\* What a step of one actor that inserts nothing must show for the invariant.
LEMMA QuietActor ==
    ASSUME NumbersInv, UNCHANGED <<rows, inserted>>, NumbersTypeOK', TriesCounted'
    PROVE  NumbersInv'
BY DEF NumbersInv, RowsCounted

-----------------------------------------------------------------------------
LEMMA NumbersInitially == NumbersInit => NumbersInv
<1>1. NumbersInit => NumbersTypeOK /\ TriesCounted
  BY BoundAssumption DEF NumbersInit, NumbersTypeOK, TriesCounted, Actors
<1>2. NumbersInit => RowsCounted
  BY FS_EmptySet DEF NumbersInit, RowsCounted
<1> QED BY <1>1, <1>2 DEF NumbersInv

LEMMA NumbersInductive ==
    ASSUME MaxJobs <= PageCap, MaxJobs <= Recent
    PROVE  NumbersInv /\ [NumbersNext]_number_vars => NumbersInv'
<1> SUFFICES ASSUME NumbersInv, [NumbersNext]_number_vars PROVE NumbersInv'
  OBVIOUS
<1> USE BoundAssumption
<1>1. ASSUME NEW a \in Actors, Begin(a) PROVE NumbersInv'
  <2>1. NumbersTypeOK'
    BY <1>1 DEF NumbersInv, NumbersTypeOK, Begin
  <2>2. TriesCounted'
    BY <1>1 DEF NumbersInv, NumbersTypeOK, TriesCounted, Begin, Taken
  <2> QED BY <1>1, <2>1, <2>2, QuietActor DEF Begin
<1>2. ASSUME NEW a \in Actors, GenerateNumber(a, rows) PROVE NumbersInv'
  <2>1. PICK n \in 0 .. MaxNumber :
           /\ IsHighest(n, rows)
           /\ number' = [number EXCEPT ![a] = n + 1 + attempt[a]]
    BY <1>2 DEF GenerateNumber
  <2>2. attempt[a] \in Nat /\ n \in Nat /\ n + 1 + attempt[a] \in Nat
    BY <2>1 DEF NumbersInv, NumbersTypeOK
  <2>3. NumbersTypeOK'
    BY <1>2, <2>1, <2>2 DEF NumbersInv, NumbersTypeOK, GenerateNumber
  <2>4. ~Taken(n + 1 + attempt[a])
    BY <2>1, <2>2, HighestIsFree
  <2>5. ~Taken(number[a])'
    <3>1. number'[a] = n + 1 + attempt[a]
      BY <2>1 DEF NumbersInv, NumbersTypeOK
    <3>2. rows' = rows
      BY <1>2 DEF GenerateNumber
    <3> QED BY <2>4, <3>1, <3>2 DEF Taken
  <2>6. TriesCounted'
    <3>1. /\ pc' = [pc EXCEPT ![a] = "insert"]
          /\ base' = [base EXCEPT ![a] = inserted]
          /\ number' = [number EXCEPT ![a] = n + 1 + attempt[a]]
          /\ UNCHANGED <<rows, inserted, attempt, start>>
          /\ pc[a] = "read"
      BY <1>2, <2>1 DEF GenerateNumber
    <3>2. \A b \in Actors : b # a =>
              /\ pc'[b] = pc[b] /\ base'[b] = base[b] /\ number'[b] = number[b]
              /\ Taken(number[b])' => Taken(number[b])
      BY <3>1 DEF NumbersInv, NumbersTypeOK, Taken
    <3>3. pc'[a] = "insert" /\ base'[a] = inserted /\ inserted \in Nat
      BY <3>1 DEF NumbersInv, NumbersTypeOK
    <3> QED BY <3>1, <3>2, <3>3, <2>5 DEF NumbersInv, TriesCounted
  <2> QED BY <1>2, <2>3, <2>6, QuietActor DEF GenerateNumber
<1>3. ASSUME NEW a \in Actors, Insert(a) PROVE NumbersInv'
  <2>1. number[a] \in Nat /\ inserted \in Nat /\ inserted' = inserted + 1
    BY <1>3 DEF NumbersInv, NumbersTypeOK, Insert
  <2>2. NumbersTypeOK'
    BY <1>3, <2>1 DEF NumbersInv, NumbersTypeOK, Insert, Over
  <2>3. RowsCounted'
    <3>1. [id |-> inserted + 1, number |-> number[a]] \notin rows
      BY <1>3 DEF Insert, Taken
    <3>2. IsFiniteSet(rows) /\ Cardinality(rows) \in Nat /\ Cardinality(rows) <= inserted
      BY FS_CardinalityType DEF NumbersInv, RowsCounted
    <3>3. rows' = rows \cup {[id |-> inserted + 1, number |-> number[a]]}
      BY <1>3 DEF Insert
    <3>4. IsFiniteSet(rows') /\ Cardinality(rows') = Cardinality(rows) + 1
      BY <3>1, <3>2, <3>3, FS_AddElement
    <3> QED BY <2>1, <3>2, <3>4 DEF RowsCounted
  <2>4. TriesCounted'
    BY <1>3, <2>1, OverKeeps DEF NumbersInv, Insert
  <2> QED BY <2>2, <2>3, <2>4 DEF NumbersInv
<1>4. ASSUME NEW c \in Creators, Collide(c) PROVE NumbersInv'
  <2>1. c \in Actors /\ c \notin Generators
    BY ActorAssumption DEF Actors
  <2>2. /\ attempt[c] \in Nat /\ attempt[c] < MaxAttempts
        /\ inserted - start[c] >= attempt[c] + 1 /\ start[c] <= inserted
    BY <1>4, <2>1 DEF NumbersInv, NumbersTypeOK, TriesCounted, Collide
  <2>3. NumbersTypeOK'
    BY <1>4, <2>1, <2>2 DEF NumbersInv, NumbersTypeOK, Collide
  <2>4. TriesCounted'
    BY <1>4, <2>1, <2>2 DEF NumbersInv, NumbersTypeOK, TriesCounted, Collide, Taken
  <2> QED BY <1>4, <2>3, <2>4, QuietActor DEF Collide
<1>5. ASSUME NEW g \in Generators, Refused(g) PROVE NumbersInv'
  <2>1. g \in Actors /\ g \notin Creators
    BY ActorAssumption DEF Actors
  <2>2. NumbersTypeOK'
    BY <1>5, <2>1 DEF NumbersInv, NumbersTypeOK, Refused
  <2>3. TriesCounted'
    BY <1>5, <2>1 DEF NumbersInv, NumbersTypeOK, TriesCounted, Refused, Taken
  <2> QED BY <1>5, <2>2, <2>3, QuietActor DEF Refused
<1>6. ASSUME NEW a \in Actors, Ends(a) PROVE NumbersInv'
  <2>1. NumbersTypeOK'
    BY <1>6 DEF NumbersInv, NumbersTypeOK, Ends, Over
  <2>2. TriesCounted'
    <3>1. inserted' \in Nat /\ inserted' >= inserted
      BY <1>6 DEF NumbersInv, NumbersTypeOK, Ends
    <3>2. \A b \in Actors : b # a /\ Taken(number[b])' => Taken(number[b])
      BY <1>6 DEF NumbersInv, NumbersTypeOK, Ends, Over, Taken
    <3> QED BY <1>6, <3>1, <3>2, OverKeeps DEF NumbersInv, Ends
  <2> QED BY <1>6, <2>1, <2>2, QuietActor DEF Ends
<1>7. ASSUME NEW r \in rows, Delete(r) PROVE NumbersInv'
  <2>1. NumbersTypeOK'
    BY <1>7 DEF NumbersInv, NumbersTypeOK, Delete
  <2>2. RowsCounted'
    <3>1. IsFiniteSet(rows) /\ Cardinality(rows) \in Nat /\ Cardinality(rows) <= inserted
      BY FS_CardinalityType DEF NumbersInv, RowsCounted
    <3>2. rows' = rows \ {r} /\ inserted' = inserted /\ inserted \in Nat
      BY <1>7 DEF Delete, NumbersInv, NumbersTypeOK
    <3>3. IsFiniteSet(rows') /\ Cardinality(rows') = Cardinality(rows) - 1
      BY <3>1, <3>2, FS_RemoveElement
    <3> QED BY <3>1, <3>2, <3>3 DEF RowsCounted
  <2>3. \A n : Taken(n)' => Taken(n)
    BY <1>7 DEF Delete, Taken
  <2>4. TriesCounted'
    BY <1>7, <2>3 DEF NumbersInv, TriesCounted, Delete, Taken
  <2> QED BY <2>1, <2>2, <2>4 DEF NumbersInv
<1>8. CASE UNCHANGED number_vars
  BY <1>8 DEF number_vars, NumbersInv, NumbersTypeOK, RowsCounted, TriesCounted, Taken
<1>9. Pages = {rows} /\ LatestRows = rows
  BY WholePage, WholeWindow
<1>10. Creators \subseteq Actors /\ Generators \subseteq Actors
  BY DEF Actors
<1> QED BY <1>1, <1>2, <1>3, <1>4, <1>5, <1>6, <1>7, <1>8, <1>9, <1>10 DEF NumbersNext

THEOREM NumbersInvariance ==
    ASSUME MaxJobs <= PageCap, MaxJobs <= Recent
    PROVE  NumbersSpec => []NumbersInv
<1> QED BY NumbersInitially, NumbersInductive, PTL DEF NumbersSpec

\* The variables keep their types, and no request counts past its last try.
THEOREM NumbersTyped ==
    ASSUME MaxJobs <= PageCap, MaxJobs <= Recent
    PROVE  NumbersSpec => []NumbersTypeOK
<1>1. NumbersInv => NumbersTypeOK
  BY DEF NumbersInv
<1> QED BY <1>1, NumbersInvariance, PTL

\* While the table fits a page, a request that gives up lost a number to as
\* many other inserts as it has tries.
THEOREM GivesUpRarely ==
    ASSUME MaxJobs <= PageCap, MaxJobs <= Recent
    PROVE  NumbersSpec => []GivesUpOnlyUnderLoad
<1>1. NumbersInv => GivesUpOnlyUnderLoad
  BY DEF NumbersInv, TriesCounted, GivesUpOnlyUnderLoad, Actors
<1> QED BY <1>1, NumbersInvariance, PTL

\* While its window holds the table, the generator is refused only by a race.
THEOREM RefusedRarely ==
    ASSUME MaxJobs <= PageCap, MaxJobs <= Recent
    PROVE  NumbersSpec => []RefusedOnlyByARace
<1>1. NumbersInv => RefusedOnlyByARace
  BY DEF NumbersInv, TriesCounted, RefusedOnlyByARace, Actors
<1> QED BY <1>1, NumbersInvariance, PTL

\* Both: nobody is refused a number but by others who took one meanwhile.
THEOREM RefusedByRaces ==
    ASSUME MaxJobs <= PageCap, MaxJobs <= Recent
    PROVE  NumbersSpec => []RefusedOnlyByRaces
<1>1. GivesUpOnlyUnderLoad /\ RefusedOnlyByARace => RefusedOnlyByRaces
  BY DEF RefusedOnlyByRaces
<1> QED BY <1>1, GivesUpRarely, RefusedRarely, PTL

-----------------------------------------------------------------------------
(* Sums over a finite set, whichever element is taken first. *)

\* A family of subsets of a finite set has a smallest member: what induction over finite
\* sets comes to when the family is the one of the sets that fail.
LEMMA SmallestSubset ==
    ASSUME NEW S, IsFiniteSet(S), NEW T \in SUBSET SUBSET S, T # {}
    PROVE  \E U \in T : \A V \in T : ~(V \subseteq U /\ V # U)
<1>1. IsWellFoundedOn(StrictSubsetOrdering(S), SUBSET S)
  BY FS_StrictSubsetOrderingWellFounded, FS_FiniteSubsetsOfFinite
<1>2. \E U \in T : \A V \in T : ~(<<V, U>> \in StrictSubsetOrdering(S))
  BY <1>1, WFMin
<1>. QED
  BY <1>2 DEF StrictSubsetOrdering

\* The sum of a function over a set, and the table of the sums over its subsets that it is read from.
SumOver(f, S) == MapThenSumSet(LAMBDA x : f[x], S)
AnyOf(s) == CHOOSE x \in s : TRUE
Table(f, S, g) == g = [s \in SUBSET S |-> IF s = {} THEN 0 ELSE f[AnyOf(s)] + g[s \ {AnyOf(s)}]]

LEMMA AnyIn ==
    ASSUME NEW s, s # {}
    PROVE  AnyOf(s) \in s
  BY DEF AnyOf

LEMMA SumFromTable ==
    ASSUME NEW S, NEW f
    PROVE  SumOver(f, S) = (CHOOSE g : Table(f, S, g))[S]
  BY DEF SumOver, MapThenSumSet, MapThenFoldSet, Table, AnyOf

\* Two tables agree where both are defined.
LEMMA TablesAgree ==
    ASSUME NEW S, IsFiniteSet(S), NEW T, T \subseteq S, NEW f, NEW g, NEW h, Table(f, S, g), Table(f, T, h)
    PROVE  \A s \in SUBSET T : g[s] = h[s]
<1>. DEFINE wrong == {s \in SUBSET T : g[s] # h[s]}
<1>. SUFFICES ASSUME wrong # {} PROVE FALSE
  OBVIOUS
<1>1. wrong \in SUBSET SUBSET S
  OBVIOUS
<1>2. PICK U \in wrong : \A V \in wrong : ~(V \subseteq U /\ V # U)
  <2>. HIDE DEF wrong
  <2>. QED
    BY <1>1, SmallestSubset
<1>3. CASE U = {}
  BY <1>3 DEF Table
<1>4. CASE U # {}
  <2>1. AnyOf(U) \in U
    BY <1>4, AnyIn
  <2>. DEFINE V == U \ {AnyOf(U)}
  <2>2. V \in SUBSET T /\ V \in SUBSET S /\ V \subseteq U /\ V # U
    BY <2>1
  <2>3. g[V] = h[V]
    BY <1>2, <2>2
  <2>4. g[U] = f[AnyOf(U)] + g[V] /\ h[U] = f[AnyOf(U)] + h[V]
    BY <1>4 DEF Table
  <2>. QED
    BY <2>3, <2>4
<1>. QED
  BY <1>3, <1>4

LEMMA TableExists ==
    ASSUME NEW S, IsFiniteSet(S), NEW f
    PROVE  \A T \in SUBSET S : \E g : Table(f, T, g)
<1>. DEFINE wrong == {T \in SUBSET S : ~\E g : Table(f, T, g)}
<1>. SUFFICES ASSUME wrong # {} PROVE FALSE
  OBVIOUS
<1>2. PICK U \in wrong : \A V \in wrong : ~(V \subseteq U /\ V # U)
  <2>1. wrong \in SUBSET SUBSET S
    OBVIOUS
  <2>. HIDE DEF wrong
  <2>. QED
    BY <2>1, SmallestSubset
<1>. DEFINE H(V) == CHOOSE h : Table(f, V, h)
<1>3. \A V : V \subseteq U /\ V # U => Table(f, V, H(V))
  BY <1>2
<1>. DEFINE G == [s \in SUBSET U |-> IF s = {} THEN 0 ELSE f[AnyOf(s)] + H(s \ {AnyOf(s)})[s \ {AnyOf(s)}]]
<1>4. ASSUME NEW t, t \subseteq U, t # U PROVE G[t] = H(t)[t]
  <2>1. Table(f, t, H(t)) /\ IsFiniteSet(t)
    BY <1>3, <1>4, FS_Subset
  <2>. HIDE DEF H
  <2>2. CASE t = {}
    BY <2>1, <2>2 DEF Table
  <2>3. CASE t # {}
    <3>. DEFINE v == t \ {AnyOf(t)}
    <3>1. AnyOf(t) \in t /\ v \subseteq t /\ v # t /\ v \subseteq U /\ v # U
      BY <1>4, <2>3, AnyIn
    <3>2. Table(f, v, H(v))
      BY <1>3, <3>1
    <3>3. H(t)[v] = H(v)[v]
      BY <2>1, <3>1, <3>2, TablesAgree
    <3>4. H(t)[t] = f[AnyOf(t)] + H(t)[v]
      BY <2>1, <2>3 DEF Table
    <3>. QED
      BY <2>3, <3>3, <3>4, <1>4
  <2>. QED
    BY <2>2, <2>3
<1>5. Table(f, U, G)
  <2>1. ASSUME NEW s \in SUBSET U, s # {} PROVE G[s \ {AnyOf(s)}] = H(s \ {AnyOf(s)})[s \ {AnyOf(s)}]
    <3>1. AnyOf(s) \in s
      BY <2>1, AnyIn
    <3>. QED
      BY <1>4, <3>1
  <2>. HIDE DEF H
  <2>. QED
    BY <2>1 DEF Table
<1>. QED
  BY <1>5

\* The sum over no elements, and over some: one of them, and the rest.
LEMMA SumOverNone ==
    ASSUME NEW f
    PROVE  SumOver(f, {}) = 0
<1>1. PICK g : Table(f, {}, g)
  BY FS_EmptySet, TableExists
<1>2. Table(f, {}, CHOOSE h : Table(f, {}, h))
  BY <1>1
<1>. QED
  BY <1>2, SumFromTable DEF Table

LEMMA SumOverAny ==
    ASSUME NEW S, IsFiniteSet(S), S # {}, NEW f
    PROVE  SumOver(f, S) = f[AnyOf(S)] + SumOver(f, S \ {AnyOf(S)})
<1>. DEFINE R == S \ {AnyOf(S)}
             g == CHOOSE h : Table(f, S, h)
             r == CHOOSE h : Table(f, R, h)
<1>1. Table(f, S, g) /\ Table(f, R, r)
  BY TableExists
<1>2. SumOver(f, S) = g[S] /\ SumOver(f, R) = r[R]
  BY SumFromTable
<1>. HIDE DEF g, r
<1>3. g[R] = r[R]
  BY <1>1, TablesAgree
<1>4. g[S] = f[AnyOf(S)] + g[R]
  BY <1>1 DEF Table
<1>. QED
  BY <1>2, <1>3, <1>4

LEMMA SumOverType ==
    ASSUME NEW S, IsFiniteSet(S), NEW f, \A x \in S : f[x] \in Int
    PROVE  SumOver(f, S) \in Int
<1>. DEFINE wrong == {T \in SUBSET S : SumOver(f, T) \notin Int}
<1>. SUFFICES ASSUME wrong # {} PROVE FALSE
  OBVIOUS
<1>2. PICK U \in wrong : \A V \in wrong : ~(V \subseteq U /\ V # U)
  <2>1. wrong \in SUBSET SUBSET S
    OBVIOUS
  <2>. HIDE DEF wrong
  <2>. QED
    BY <2>1, SmallestSubset
<1>3. U # {} /\ IsFiniteSet(U)
  <2>1. U \in SUBSET S
    OBVIOUS
  <2>2. SumOver(f, {}) = 0
    BY SumOverNone
  <2>3. U # {}
    BY <2>2
  <2>. QED
    BY <2>1, <2>3, FS_Subset
<1>4. AnyOf(U) \in U
  BY <1>3, AnyIn
<1>5. SumOver(f, U) = f[AnyOf(U)] + SumOver(f, U \ {AnyOf(U)})
  BY <1>3, SumOverAny
<1>6. SumOver(f, U \ {AnyOf(U)}) \in Int
  BY <1>2, <1>4
<1>. QED
  BY <1>4, <1>5, <1>6

\* Any element may be the one that is taken out.
LEMMA SumOverTakeOut ==
    ASSUME NEW S, IsFiniteSet(S), NEW f, \A x \in S : f[x] \in Int, NEW e \in S
    PROVE  SumOver(f, S) = f[e] + SumOver(f, S \ {e})
<1>. DEFINE right(T) == \A x \in T : SumOver(f, T) = f[x] + SumOver(f, T \ {x})
            wrong == {T \in SUBSET S : ~right(T)}
<1>. SUFFICES ASSUME wrong # {} PROVE FALSE
  OBVIOUS
<1>2. PICK U \in wrong : \A V \in wrong : ~(V \subseteq U /\ V # U)
  <2>1. wrong \in SUBSET SUBSET S
    OBVIOUS
  <2>. HIDE DEF wrong
  <2>. QED
    BY <2>1, SmallestSubset
<1>3. PICK x \in U : SumOver(f, U) # f[x] + SumOver(f, U \ {x})
  OBVIOUS
<1>. DEFINE c == AnyOf(U)
<1>4. c \in U /\ IsFiniteSet(U) /\ U # {} /\ U \subseteq S
  BY AnyIn, FS_Subset
<1>5. SumOver(f, U) = f[c] + SumOver(f, U \ {c})
  BY <1>4, SumOverAny
<1>6. x # c
  BY <1>3, <1>5
<1>. HIDE DEF c
<1>7. right(U \ {c}) /\ right(U \ {x})
  BY <1>2, <1>4
<1>. HIDE DEF wrong
<1>. DEFINE rest == (U \ {c}) \ {x}
<1>8. SumOver(f, U \ {c}) = f[x] + SumOver(f, rest)
  BY <1>6, <1>7
<1>9. SumOver(f, U \ {x}) = f[c] + SumOver(f, rest)
  <2>1. rest = (U \ {x}) \ {c}
    OBVIOUS
  <2>. QED
    BY <1>4, <1>6, <1>7, <2>1
<1>10. SumOver(f, rest) \in Int
  BY <1>4, FS_Subset, SumOverType
<1>11. f[x] \in Int /\ f[c] \in Int
  BY <1>4
<1>. HIDE DEF rest
<1>. QED
  BY <1>3, <1>5, <1>8, <1>9, <1>10, <1>11

\* The sum sees the values over the set and nothing else.
LEMMA SumOverSame ==
    ASSUME NEW S, IsFiniteSet(S), NEW f, NEW g, \A x \in S : f[x] = g[x]
    PROVE  SumOver(f, S) = SumOver(g, S)
<1>. DEFINE wrong == {T \in SUBSET S : SumOver(f, T) # SumOver(g, T)}
<1>. SUFFICES ASSUME wrong # {} PROVE FALSE
  OBVIOUS
<1>2. PICK U \in wrong : \A V \in wrong : ~(V \subseteq U /\ V # U)
  <2>1. wrong \in SUBSET SUBSET S
    OBVIOUS
  <2>. HIDE DEF wrong
  <2>. QED
    BY <2>1, SmallestSubset
<1>3. U # {} /\ IsFiniteSet(U)
  BY SumOverNone, FS_Subset
<1>4. AnyOf(U) \in U
  BY <1>3, AnyIn
<1>5. SumOver(f, U) = f[AnyOf(U)] + SumOver(f, U \ {AnyOf(U)}) /\ SumOver(g, U) = g[AnyOf(U)] + SumOver(g, U \ {AnyOf(U)})
  BY <1>3, SumOverAny
<1>6. SumOver(f, U \ {AnyOf(U)}) = SumOver(g, U \ {AnyOf(U)})
  BY <1>2, <1>4
<1>. QED
  BY <1>4, <1>5, <1>6

\* A value that changes changes the sum by as much.
LEMMA SumOverChange ==
    ASSUME NEW S, IsFiniteSet(S), NEW f, NEW g, \A x \in S : f[x] \in Int /\ g[x] \in Int,
           NEW e \in S, \A x \in S \ {e} : f[x] = g[x]
    PROVE  SumOver(g, S) = SumOver(f, S) - f[e] + g[e]
<1>1. SumOver(f, S) = f[e] + SumOver(f, S \ {e}) /\ SumOver(g, S) = g[e] + SumOver(g, S \ {e})
  BY SumOverTakeOut
<1>2. IsFiniteSet(S \ {e})
  BY FS_Subset
<1>3. SumOver(f, S \ {e}) = SumOver(g, S \ {e}) /\ SumOver(f, S \ {e}) \in Int
  BY <1>2, SumOverSame, SumOverType
<1>. QED
  BY <1>1, <1>3

-----------------------------------------------------------------------------
(* Stock, for every form and every bound. *)

\* Every adjustment leaves a whole number that is not below zero on hand.
LEMMA Rounds == ASSUME NEW n \in Int PROVE AtLeastZero(Round(n)) \in Nat
<1>1. Round(n) \in Int
  BY DEF Round
<1>. QED
  BY <1>1 DEF AtLeastZero

\* What a request goes on to adjust is again a request.
LEMMA Goes_on ==
    ASSUME NEW todo \in Changes
    PROVE  [step |-> "adjust", todo |-> todo] \in Calls
BY DEF Calls

\* The type of what a request about to read or write a spare holds.
LEMMA Holds_changes ==
    ASSUME NEW k \in Calls, k.step \in {"adjust", "read", "write"}
    PROVE  /\ k.todo \in Changes
           /\ k.step # "adjust" => k.code \in StockCodes /\ k.tries \in Tries
           /\ k.step = "write" => k.read \in Nat
BY DEF Calls, Free

\* Stock on hand is a natural number or no row at all, and every request holds
\* what its next call needs, whatever is issued, edited, deleted, counted, lost
\* or interrupted: "a quantity is never taken below zero".
THEOREM StockTyped == StockSpec => []StockTypeOK
<1>. USE StockAssumption, StockBoundAssumption
<1>1. StockInit => StockTypeOK
  <2>. SUFFICES ASSUME StockInit PROVE StockTypeOK
    OBVIOUS
  <2>1. Free \in Calls
    BY DEF Calls
  <2>2. call \in [StockRequests -> Calls]
    BY <2>1 DEF StockInit
  <2>3. quantity \in [StockCodes -> Nat \cup {Missing}] /\ drift \in [StockCodes -> Nat]
    BY DEF StockInit, NoChange
  <2>. QED
    BY <2>2, <2>3 DEF StockInit, StockTypeOK
<1>2. StockTypeOK /\ [StockNext]_stock_vars => StockTypeOK'
  <2>. SUFFICES ASSUME StockTypeOK, [StockNext]_stock_vars PROVE StockTypeOK'
    OBVIOUS
  <2>. USE DEF StockTypeOK
  <2>1. CASE \E c \in StockRequests : \E items \in ItemLists : _create_issue(c, items)
    <3>. PICK c \in StockRequests, items \in ItemLists : _create_issue(c, items)
      BY <2>1
    <3>1. [code \in StockCodes |-> -items[code]] \in Changes
      BY DEF Changes
    <3>2. call' \in [StockRequests -> Calls]
      BY <3>1, Goes_on DEF _create_issue, Adjusting, Become
    <3>. QED
      BY <3>2 DEF _create_issue, StartsCall
  <2>2. CASE \E c \in StockRequests : \E i \in IssueIds, items \in ItemLists :
                _update_issue(c, i, items)
    <3>. PICK c \in StockRequests, i \in IssueIds, items \in ItemLists : _update_issue(c, i, items)
      BY <2>2
    <3>1. issues[i] \in ItemLists
      BY DEF _update_issue
    <3>2. call' \in [StockRequests -> Calls]
      BY <3>1 DEF _update_issue, Become, Calls
    <3>. QED
      BY <3>2 DEF _update_issue, StartsCall
  <2>3. CASE \E c \in StockRequests : \E i \in IssueIds : _delete_issue(c, i)
    <3>. PICK c \in StockRequests, i \in IssueIds : _delete_issue(c, i)
      BY <2>3
    <3>1. issues[i] \in ItemLists
      BY DEF _delete_issue
    <3>2. call' \in [StockRequests -> Calls]
      BY <3>1 DEF _delete_issue, Become, Calls
    <3>. QED
      BY <3>2 DEF _delete_issue, StartsCall
  <2>4. CASE \E c \in StockRequests : UpdateIssueRow(c)
    <3>. PICK c \in StockRequests : UpdateIssueRow(c)
      BY <2>4
    <3>. DEFINE k == call[c]
    <3>1. k.id \in IssueIds /\ k.before \in ItemLists /\ k.items \in ItemLists
      BY DEF UpdateIssueRow, Continues, Calls, Free
    <3>2. [code \in StockCodes |-> k.before[code] - k.items[code]] \in Changes
      BY <3>1 DEF Changes
    <3>3. call' \in [StockRequests -> Calls]
      BY <3>2, Goes_on DEF UpdateIssueRow, Adjusting, Become, Calls
    <3>4. issues' \in [IssueIds -> ItemLists \cup {NoIssue}]
          /\ {i \in IssueIds : issues'[i] # NoIssue} \subseteq issueIds'
      BY <3>1 DEF UpdateIssueRow
    <3>5. upset' \subseteq StockCodes
      BY DEF UpdateIssueRow, Upsets, Differing
    <3>. QED
      BY <3>3, <3>4, <3>5 DEF UpdateIssueRow, Continues
  <2>5. CASE \E c \in StockRequests : DeleteIssueRow(c)
    <3>. PICK c \in StockRequests : DeleteIssueRow(c)
      BY <2>5
    <3>1. call[c].id \in IssueIds /\ call[c].before \in Changes
      BY DEF DeleteIssueRow, Continues, Calls, Free, Changes
    <3>2. call' \in [StockRequests -> Calls]
      BY <3>1, Goes_on DEF DeleteIssueRow, Adjusting, Become
    <3>3. issues' \in [IssueIds -> ItemLists \cup {NoIssue}]
          /\ {i \in IssueIds : issues'[i] # NoIssue} \subseteq issueIds'
      BY <3>1 DEF DeleteIssueRow
    <3>4. upset' \subseteq StockCodes
      BY DEF DeleteIssueRow, Upsets, Differing
    <3>. QED
      BY <3>2, <3>3, <3>4 DEF DeleteIssueRow, Continues
  <2>6. CASE \E c \in StockRequests : AdjustNext(c)
    <3>. PICK c \in StockRequests : AdjustNext(c)
      BY <2>6
    <3>1. call[c].todo \in Changes /\ NextCodes(call[c].todo) \subseteq StockCodes
      BY Holds_changes DEF AdjustNext, Continues, NextCodes, Touched
    <3>2. call' \in [StockRequests -> Calls]
      BY <3>1 DEF AdjustNext, Become, Calls, Tries
    <3>. QED
      BY <3>2 DEF AdjustNext, Continues
  <2>7. CASE \E c \in StockRequests : ReadSpare(c)
    <3>. PICK c \in StockRequests : ReadSpare(c)
      BY <2>7
    <3>1. /\ call[c].todo \in Changes /\ call[c].code \in StockCodes
          /\ call[c].tries \in Tries
      BY Holds_changes DEF ReadSpare, Continues
    <3>2. [call[c].todo EXCEPT ![call[c].code] = 0] \in Changes
      BY <3>1 DEF Changes
    <3>3. call' \in [StockRequests -> Calls]
      BY <3>1, <3>2, Goes_on DEF ReadSpare, NextCode, Adjusting, Become, Calls
    <3>4. upset' \subseteq StockCodes
      BY <3>1 DEF ReadSpare, Upsets
    <3>. QED
      BY <3>3, <3>4 DEF ReadSpare, Continues
  <2>8. CASE \E c \in StockRequests : ApplyChange(c)
    <3>. PICK c \in StockRequests : ApplyChange(c)
      BY <2>8
    <3>. DEFINE code == call[c].code  change == call[c].todo[code]
                wanted == 2 * call[c].read + change
    <3>1. /\ call[c].todo \in Changes /\ code \in StockCodes
          /\ call[c].read \in Nat
      BY Holds_changes DEF ApplyChange, Continues
    <3>2. change \in Int /\ wanted \in Int /\ change % 2 \in Nat
      BY <3>1 DEF Changes
    <3>3. quantity' \in [StockCodes -> Nat \cup {Missing}]
      BY <3>2, Rounds DEF ApplyChange
    <3>4. drift' \in [StockCodes -> Nat]
      <4>1. drift[code] + (change % 2) \in Nat
        BY <3>1, <3>2
      <4>. QED
        BY <4>1 DEF ApplyChange
    <3>5. upset' \subseteq StockCodes
      BY <3>1 DEF ApplyChange, Upsets
    <3>6. [call[c].todo EXCEPT ![code] = 0] \in Changes
      BY <3>1 DEF Changes
    <3>7. call' \in [StockRequests -> Calls]
      BY <3>6, Goes_on DEF ApplyChange, NextCode, Adjusting, Become
    <3>. QED
      BY <3>3, <3>4, <3>5, <3>7 DEF ApplyChange, Continues
  <2>9. CASE \E c \in StockRequests : ApplyAgain(c)
    <3>. PICK c \in StockRequests : ApplyAgain(c)
      BY <2>9
    <3>1. /\ call[c].todo \in Changes /\ call[c].code \in StockCodes
          /\ call[c].tries \in Tries
      BY Holds_changes DEF ApplyAgain, Continues
    <3>2. [call[c].todo EXCEPT ![call[c].code] = 0] \in Changes
      BY <3>1 DEF Changes
    <3>3. call[c].tries + 1 < Attempts => call[c].tries + 1 \in Tries
      BY <3>1 DEF Tries
    <3>4. call' \in [StockRequests -> Calls]
      BY <3>1, <3>2, <3>3, Goes_on DEF ApplyAgain, NextCode, Adjusting, Become, Calls
    <3>5. upset' \subseteq StockCodes
      BY <3>1 DEF ApplyAgain, Upsets
    <3>. QED
      BY <3>4, <3>5 DEF ApplyAgain, Continues
  <2>10. CASE \E c \in StockRequests : StockCallFails(c)
    <3>. PICK c \in StockRequests : StockCallFails(c)
      BY <2>10
    <3>1. CASE call[c].step \in {"read", "write"}
      <4>1. call[c].todo \in Changes /\ call[c].code \in StockCodes
        BY <3>1, Holds_changes
      <4>2. [call[c].todo EXCEPT ![call[c].code] = 0] \in Changes
        BY <4>1 DEF Changes
      <4>3. call' \in [StockRequests -> Calls]
        BY <3>1, <4>2, Goes_on DEF StockCallFails, NextCode, Adjusting, Become
      <4>4. upset' \subseteq StockCodes
        BY <3>1, <4>1 DEF StockCallFails, Upsets
      <4>. QED
        BY <4>3, <4>4 DEF StockCallFails
    <3>2. CASE call[c].step \notin {"read", "write"}
      BY <3>2 DEF StockCallFails, Become, Calls
    <3>. QED
      BY <3>1, <3>2
  <2>11. CASE \E c \in StockRequests : StockCrash(c)
    <3>. PICK c \in StockRequests : StockCrash(c)
      BY <2>11
    <3>1. call' \in [StockRequests -> Calls]
      BY DEF StockCrash, Become, Calls
    <3>. QED
      BY <3>1 DEF StockCrash, Upsets, Touched
  <2>12. CASE \E code \in StockCodes, n \in Counts : EnterQuantity(code, n)
    BY <2>12 DEF EnterQuantity, CountsNow
  <2>13. CASE \E code \in StockCodes : delete_spare(code)
    BY <2>13 DEF delete_spare, CountsNow, Upsets
  <2>14. CASE UNCHANGED stock_vars
    BY <2>14 DEF stock_vars
  <2>. QED
    BY <2>1, <2>2, <2>3, <2>4, <2>5, <2>6, <2>7, <2>8, <2>9, <2>10, <2>11, <2>12, <2>13,
       <2>14 DEF StockNext
<1>. QED
  BY <1>1, <1>2, PTL DEF StockSpec

\* A total of integers is an integer, and changes by what one of them changes.
LEMMA TotalType ==
    ASSUME NEW S, IsFiniteSet(S), NEW f \in [S -> Int]
    PROVE  Total(f) \in Int
<1>1. Total(f) = SumOver(f, S)
  BY DEF Total, SumOver
<1>. QED
  BY <1>1, SumOverType

LEMMA TotalChange ==
    ASSUME NEW S, IsFiniteSet(S), NEW f \in [S -> Int], NEW g \in [S -> Int],
           NEW e \in S, \A x \in S \ {e} : f[x] = g[x]
    PROVE  Total(g) = Total(f) - f[e] + g[e]
<1>1. Total(f) = SumOver(f, S) /\ Total(g) = SumOver(g, S)
  BY DEF Total, SumOver
<1>2. \A x \in S : f[x] \in Int /\ g[x] \in Int
  OBVIOUS
<1>. QED
  BY <1>1, <1>2, SumOverChange

LEMMA TotalOfZeros ==
    ASSUME NEW S, IsFiniteSet(S), NEW f \in [S -> Int], \A x \in S : f[x] = 0
    PROVE  Total(f) = 0
<1>1. Total(f) = SumOver(f, S)
  BY DEF Total, SumOver
<1>. DEFINE wrong == {T \in SUBSET S : SumOver(f, T) # 0}
<1>. SUFFICES ASSUME wrong # {} PROVE FALSE
  BY <1>1
<1>2. PICK U \in wrong : \A V \in wrong : ~(V \subseteq U /\ V # U)
  <2>1. wrong \in SUBSET SUBSET S
    OBVIOUS
  <2>. HIDE DEF wrong
  <2>. QED
    BY <2>1, SmallestSubset
<1>3. U # {} /\ U \subseteq S
  BY SumOverNone
<1>4. IsFiniteSet(U) /\ AnyOf(U) \in U
  BY <1>3, FS_Subset, AnyIn
<1>5. SumOver(f, U) = f[AnyOf(U)] + SumOver(f, U \ {AnyOf(U)})
  BY <1>3, <1>4, SumOverAny
<1>6. SumOver(f, U \ {AnyOf(U)}) = 0
  BY <1>2, <1>3, <1>4
<1>. QED
  BY <1>3, <1>4, <1>5, <1>6

\* What the live issues hold changes by one row, what is to move by one request.
Holding(t, code) == [i \in IssueIds |-> Items(t[i])[code]]
TodoOf(k) == IF "todo" \in DOMAIN k THEN k.todo ELSE NoChange
Moving(k, code) == [c \in StockRequests |-> TodoOf(k[c])[code]]
StockRows == [IssueIds -> ItemLists \cup {NoIssue}]
StockCalls == [StockRequests -> Calls]

LEMMA TodoTyped ==
    ASSUME NEW k \in Calls
    PROVE  TodoOf(k) \in Changes
<1>1. NoChange \in Changes
  BY DEF NoChange, Changes
<1>2. CASE k = Free
  BY <1>1, <1>2 DEF TodoOf, Free
<1>3. CASE k # Free
  BY <1>1, <1>3 DEF TodoOf, Calls
<1>. QED
  BY <1>2, <1>3

LEMMA ItemsTyped ==
    ASSUME NEW row \in ItemLists \cup {NoIssue}, NEW code \in StockCodes
    PROVE  Items(row)[code] \in Int
  BY StockAssumption DEF Items, NoChange

LEMMA IssuedStep ==
    ASSUME issues \in StockRows, issues' \in StockRows, NEW code \in StockCodes,
           NEW i \in IssueIds, \A j \in IssueIds \ {i} : issues'[j] = issues[j]
    PROVE  /\ Issued(code) \in Int /\ Items(issues[i])[code] \in Int /\ Items(issues'[i])[code] \in Int
           /\ Issued(code)' = Issued(code) - Items(issues[i])[code] + Items(issues'[i])[code]
<1>1. Issued(code) = Total(Holding(issues, code)) /\ Issued(code)' = Total(Holding(issues', code))
  BY DEF Issued, Holding
<1>2. Holding(issues, code) \in [IssueIds -> Int] /\ Holding(issues', code) \in [IssueIds -> Int]
  BY ItemsTyped DEF Holding, StockRows
<1>3. \A j \in IssueIds \ {i} : Holding(issues, code)[j] = Holding(issues', code)[j]
  BY DEF Holding
<1>4. Total(Holding(issues', code)) = Total(Holding(issues, code)) - Holding(issues, code)[i] + Holding(issues', code)[i]
  BY <1>2, <1>3, TotalChange, StockAssumption
<1>5. Total(Holding(issues, code)) \in Int
  BY <1>2, TotalType, StockAssumption
<1>6. Holding(issues, code)[i] = Items(issues[i])[code] /\ Holding(issues', code)[i] = Items(issues'[i])[code]
  BY DEF Holding
<1>. QED
  BY <1>1, <1>2, <1>4, <1>5, <1>6

LEMMA ToMoveStep ==
    ASSUME call \in StockCalls, call' \in StockCalls, NEW code \in StockCodes,
           NEW c \in StockRequests, \A d \in StockRequests \ {c} : call'[d] = call[d]
    PROVE  /\ ToMove(code) \in Int /\ TodoOf(call[c])[code] \in Int /\ TodoOf(call'[c])[code] \in Int
           /\ ToMove(code)' = ToMove(code) - TodoOf(call[c])[code] + TodoOf(call'[c])[code]
<1>1. ToMove(code) = Total(Moving(call, code)) /\ ToMove(code)' = Total(Moving(call', code))
  BY DEF ToMove, Todo, TodoOf, Moving
<1>2. Moving(call, code) \in [StockRequests -> Int] /\ Moving(call', code) \in [StockRequests -> Int]
  BY TodoTyped DEF Moving, StockCalls, Changes
<1>3. \A d \in StockRequests \ {c} : Moving(call, code)[d] = Moving(call', code)[d]
  BY DEF Moving
<1>4. Total(Moving(call', code)) = Total(Moving(call, code)) - Moving(call, code)[c] + Moving(call', code)[c]
  BY <1>2, <1>3, TotalChange, StockAssumption
<1>5. Total(Moving(call, code)) \in Int
  BY <1>2, TotalType, StockAssumption
<1>6. Moving(call, code)[c] = TodoOf(call[c])[code] /\ Moving(call', code)[c] = TodoOf(call'[c])[code]
  BY DEF Moving
<1>. QED
  BY <1>1, <1>2, <1>4, <1>5, <1>6

\* Python's rounding is off by no more than the half unit that was there.
LEMMA RoundsNear ==
    ASSUME NEW n \in Int, n >= 0
    PROVE  /\ 2 * AtLeastZero(Round(n)) - n <= n % 2
           /\ n - 2 * AtLeastZero(Round(n)) <= n % 2
<1>1. CASE n % 4 = 3
  <2>1. n % 2 = 1 /\ 2 * ((n + 1) \div 2) = n + 1
    BY <1>1
  <2>. QED
    BY <1>1, <2>1 DEF Round, AtLeastZero
<1>2. CASE n % 4 # 3
  <2>1. 2 * (n \div 2) = n - (n % 2) /\ n % 2 \in {0, 1}
    OBVIOUS
  <2>. QED
    BY <1>2, <2>1 DEF Round, AtLeastZero
<1>. QED
  BY <1>1, <1>2

\* The tallies of StockAddsUp, with the types they stand on.
StockTallied == StockTypeOK /\ baseline \in [StockCodes -> Int] /\ StockAddsUp

\* What moves and what is held are sums over requests and over rows.
LEMMA SumsAreInts ==
    ASSUME StockTypeOK, NEW code \in StockCodes
    PROVE  Issued(code) \in Int /\ ToMove(code) \in Int
<1>1. Issued(code) = Total(Holding(issues, code)) /\ ToMove(code) = Total(Moving(call, code))
  BY DEF Issued, Holding, ToMove, Moving, Todo, TodoOf
<1>2. Holding(issues, code) \in [IssueIds -> Int]
  BY ItemsTyped DEF Holding, StockTypeOK
<1>3. Moving(call, code) \in [StockRequests -> Int]
  BY TodoTyped DEF Moving, StockTypeOK, Changes
<1>. QED
  BY <1>1, <1>2, <1>3, TotalType, StockAssumption

\* A step of one request that leaves the rows alone: what it changes on hand and what it
\* still has to move make up for each other, but for the fraction that drifts.
LEMMA RequestTallies ==
    ASSUME StockTallied, StockTypeOK', baseline' = baseline, issues' = issues, upset \subseteq upset',
           NEW c \in StockRequests, \A d \in StockRequests \ {c} : call'[d] = call[d],
           \A code \in StockCodes \ upset' :
              LET off == 2 * quantity'[code] + TodoOf(call'[c])[code] - 2 * quantity[code] - TodoOf(call[c])[code]
              IN  off <= drift'[code] - drift[code] /\ -off <= drift'[code] - drift[code]
    PROVE  StockTallied'
<1>. SUFFICES ASSUME NEW code \in StockCodes \ upset'
              PROVE  LET gap == 2 * quantity'[code] + ToMove(code)' - (baseline'[code] - Issued(code)')
                     IN  gap <= drift'[code] /\ -gap <= drift'[code]
  BY DEF StockTallied, StockAddsUp
<1>1. /\ ToMove(code) \in Int /\ TodoOf(call[c])[code] \in Int /\ TodoOf(call'[c])[code] \in Int
      /\ ToMove(code)' = ToMove(code) - TodoOf(call[c])[code] + TodoOf(call'[c])[code]
  BY ToMoveStep DEF StockTallied, StockTypeOK, StockCalls
<1>2. Issued(code)' = Issued(code) /\ Issued(code) \in Int
  BY SumsAreInts DEF Issued, StockTallied
<1>3. /\ quantity[code] \in Int /\ quantity'[code] \in Int /\ baseline[code] \in Int
      /\ drift[code] \in Int /\ drift'[code] \in Int
  BY DEF StockTallied, StockTypeOK, Missing
<1>4. LET gap == 2 * quantity[code] + ToMove(code) - (baseline[code] - Issued(code))
      IN  gap <= drift[code] /\ -gap <= drift[code]
  BY DEF StockTallied, StockAddsUp
<1>. QED
  BY <1>1, <1>2, <1>3, <1>4

\* A step of one request on one row: what the row now holds more it has to move.
LEMMA RowTallies ==
    ASSUME StockTallied, StockTypeOK', UNCHANGED <<baseline, quantity, drift>>, upset \subseteq upset',
           NEW c \in StockRequests, \A d \in StockRequests \ {c} : call'[d] = call[d],
           NEW i \in IssueIds, \A j \in IssueIds \ {i} : issues'[j] = issues[j],
           \A code \in StockCodes \ upset' :
              TodoOf(call'[c])[code] - TodoOf(call[c])[code] = Items(issues[i])[code] - Items(issues'[i])[code]
    PROVE  StockTallied'
<1>. SUFFICES ASSUME NEW code \in StockCodes \ upset'
              PROVE  LET gap == 2 * quantity'[code] + ToMove(code)' - (baseline'[code] - Issued(code)')
                     IN  gap <= drift'[code] /\ -gap <= drift'[code]
  BY DEF StockTallied, StockAddsUp
<1>1. /\ ToMove(code) \in Int /\ TodoOf(call[c])[code] \in Int /\ TodoOf(call'[c])[code] \in Int
      /\ ToMove(code)' = ToMove(code) - TodoOf(call[c])[code] + TodoOf(call'[c])[code]
  BY ToMoveStep DEF StockTallied, StockTypeOK, StockCalls
<1>2. /\ Issued(code) \in Int /\ Items(issues[i])[code] \in Int /\ Items(issues'[i])[code] \in Int
      /\ Issued(code)' = Issued(code) - Items(issues[i])[code] + Items(issues'[i])[code]
  BY IssuedStep DEF StockTallied, StockTypeOK, StockRows
<1>3. quantity[code] \in Int /\ baseline[code] \in Int /\ drift[code] \in Int
  BY DEF StockTallied, StockTypeOK, Missing
<1>4. LET gap == 2 * quantity[code] + ToMove(code) - (baseline[code] - Issued(code))
      IN  gap <= drift[code] /\ -gap <= drift[code]
  BY DEF StockTallied, StockAddsUp
<1>. QED
  BY <1>1, <1>2, <1>3, <1>4

\* What is still to move of a code is nothing when it is done with, and as it was for the others.
LEMMA DoneWithCode ==
    ASSUME NEW k \in Calls, k.step \in {"read", "write"}, NEW code \in StockCodes
    PROVE  LET next == [step |-> "adjust", todo |-> [k.todo EXCEPT ![k.code] = 0]]
           IN  TodoOf(next)[code] = IF code = k.code THEN 0 ELSE TodoOf(k)[code]
<1>1. k.todo \in Changes /\ k.code \in StockCodes
  BY Holds_changes
<1>2. TodoOf(k) = k.todo
  BY DEF TodoOf, Calls, Free
<1>. QED
  BY <1>1, <1>2 DEF TodoOf, Changes

\* "Two people issuing the same part at once do not overwrite each other", "deleting an
\* issue puts the quantity back; editing adjusts by the difference": for every number of
\* requests, rows, codes and forms, what is on hand, what live issues hold and what is yet
\* to move add up to the last count, but for the codes that are listed as off.
THEOREM StockBalances == StockSpec => []StockAddsUp
<1>1. StockInit => baseline \in [StockCodes -> Int] /\ StockAddsUp
  <2>. SUFFICES ASSUME StockInit PROVE baseline \in [StockCodes -> Int] /\ StockAddsUp
    OBVIOUS
  <2>1. quantity \in [StockCodes -> Nat] /\ baseline = [code \in StockCodes |-> 2 * quantity[code]]
    BY StockAssumption DEF StockInit
  <2>2. ASSUME NEW code \in StockCodes PROVE Issued(code) = 0 /\ ToMove(code) = 0
    <3>1. Issued(code) = Total(Holding(issues, code)) /\ ToMove(code) = Total(Moving(call, code))
      BY DEF Issued, Holding, ToMove, Moving, Todo, TodoOf
    <3>2. Holding(issues, code) = [i \in IssueIds |-> 0] /\ Moving(call, code) = [c \in StockRequests |-> 0]
      BY DEF StockInit, Holding, Moving, Items, NoChange, TodoOf, Free
    <3>. QED
      BY <3>1, <3>2, TotalOfZeros, StockAssumption
  <2>3. drift = [code \in StockCodes |-> 0]
    BY DEF StockInit, NoChange
  <2>. QED
    BY <2>1, <2>2, <2>3 DEF StockAddsUp
<1>2. StockTallied /\ StockTypeOK' /\ [StockNext]_stock_vars => StockTallied'
  <2>. SUFFICES ASSUME StockTallied, StockTypeOK', [StockNext]_stock_vars PROVE StockTallied'
    OBVIOUS
  <2>. USE StockAssumption
  <2>0. call \in StockCalls /\ issues \in StockRows /\ StockTypeOK /\ TodoOf(Free) = NoChange
    BY DEF StockTallied, StockTypeOK, StockCalls, StockRows, TodoOf, Free
  <2>1. ASSUME NEW c \in StockRequests, NEW items \in ItemLists, _create_issue(c, items) PROVE StockTallied'
    <3>1. PICK i \in IssueIds \ issueIds : issues' = [issues EXCEPT ![i] = items]
      BY <2>1 DEF _create_issue
    <3>2. issues[i] = NoIssue
      BY <2>0 DEF StockTypeOK
    <3>3. /\ call[c] = Free /\ call' = [call EXCEPT ![c] = [step |-> "adjust", todo |-> [code \in StockCodes |-> -items[code]]]]
          /\ UNCHANGED <<baseline, quantity, drift, upset>>
      BY <2>1 DEF _create_issue, StartsCall, Adjusting, Become
    <3>4. ASSUME NEW code \in StockCodes
          PROVE  TodoOf(call'[c])[code] - TodoOf(call[c])[code] = Items(issues[i])[code] - Items(issues'[i])[code]
      <4>1. TodoOf(call'[c])[code] = -items[code] /\ TodoOf(call[c])[code] = 0
        BY <2>0, <3>3 DEF TodoOf, NoChange, StockCalls
      <4>2. Items(issues[i])[code] = 0 /\ Items(issues'[i])[code] = items[code]
        BY <2>0, <3>1, <3>2 DEF Items, NoChange, StockRows
      <4>. QED
        BY <4>1, <4>2
    <3>. QED
      BY <2>0, <3>1, <3>3, <3>4, RowTallies DEF StockCalls, StockRows
  <2>2. ASSUME NEW c \in StockRequests, NEW i \in IssueIds,
               (\E items \in ItemLists : _update_issue(c, i, items)) \/ _delete_issue(c, i)
        PROVE  StockTallied'
    <3>1. /\ call[c] = Free /\ UNCHANGED <<baseline, quantity, drift, upset, issues>>
          /\ \A d \in StockRequests \ {c} : call'[d] = call[d]
          /\ TodoOf(call'[c]) = NoChange
      BY <2>0, <2>2 DEF _update_issue, _delete_issue, StartsCall, Become, TodoOf, StockCalls
    <3>. QED
      BY <2>0, <3>1, RequestTallies DEF StockTypeOK, NoChange, Missing
  <2>3. ASSUME NEW c \in StockRequests, UpdateIssueRow(c) PROVE StockTallied'
    <3>. DEFINE i == call[c].id  before == call[c].before  items == call[c].items
    <3>1. i \in IssueIds /\ before \in ItemLists /\ items \in ItemLists /\ TodoOf(call[c]) = NoChange
      BY <2>0, <2>3 DEF UpdateIssueRow, Continues, StockCalls, Calls, TodoOf, Free
    <3>2. CASE issues[i] = NoIssue
      <4>1. call' = [call EXCEPT ![c] = Free] /\ UNCHANGED <<baseline, quantity, drift, upset, issues>>
        BY <2>3, <3>2 DEF UpdateIssueRow, Continues, Become
      <4>2. TodoOf(call'[c]) = NoChange /\ \A d \in StockRequests \ {c} : call'[d] = call[d]
        BY <2>0, <4>1 DEF StockCalls
      <4>. QED
        BY <2>0, <3>1, <4>1, <4>2, RequestTallies DEF StockTypeOK, NoChange, Missing
    <3>3. CASE issues[i] # NoIssue
      <4>1. /\ issues' = [issues EXCEPT ![i] = items] /\ upset' = upset \cup Differing(before, issues[i])
            /\ call' = [call EXCEPT ![c] = [step |-> "adjust", todo |-> [code \in StockCodes |-> before[code] - items[code]]]]
            /\ UNCHANGED <<baseline, quantity, drift>>
        BY <2>3, <3>3 DEF UpdateIssueRow, Continues, Adjusting, Become, Upsets
      <4>2. ASSUME NEW code \in StockCodes \ upset'
            PROVE  TodoOf(call'[c])[code] - TodoOf(call[c])[code] = Items(issues[i])[code] - Items(issues'[i])[code]
        <5>1. TodoOf(call'[c])[code] = before[code] - items[code] /\ TodoOf(call[c])[code] = 0
          BY <2>0, <3>1, <4>1 DEF TodoOf, NoChange, StockCalls
        <5>2. Items(issues[i])[code] = before[code] /\ Items(issues'[i])[code] = items[code]
          BY <2>0, <3>1, <4>1 DEF Items, Differing, StockRows
        <5>3. before[code] \in Int /\ items[code] \in Int
          BY <3>1
        <5>. QED
          BY <5>1, <5>2, <5>3
      <4>3. /\ \A j \in IssueIds \ {i} : issues'[j] = issues[j]
            /\ \A d \in StockRequests \ {c} : call'[d] = call[d]
        BY <2>0, <4>1 DEF StockCalls, StockRows
      <4>4. UNCHANGED <<baseline, quantity, drift>> /\ upset \subseteq upset' /\ i \in IssueIds
        BY <3>1, <4>1
      <4>. HIDE DEF i, before, items
      <4>. QED
        BY <4>2, <4>3, <4>4, RowTallies
    <3>. QED
      BY <3>2, <3>3
  <2>4. ASSUME NEW c \in StockRequests, DeleteIssueRow(c) PROVE StockTallied'
    <3>. DEFINE i == call[c].id  before == call[c].before
    <3>1. i \in IssueIds /\ before \in ItemLists /\ TodoOf(call[c]) = NoChange
      BY <2>0, <2>4 DEF DeleteIssueRow, Continues, StockCalls, Calls, TodoOf, Free
    <3>2. /\ issues' = [issues EXCEPT ![i] = NoIssue] /\ upset' = upset \cup Differing(before, issues[i])
          /\ call' = [call EXCEPT ![c] = [step |-> "adjust", todo |-> before]]
          /\ UNCHANGED <<baseline, quantity, drift>>
      BY <2>4 DEF DeleteIssueRow, Continues, Adjusting, Become, Upsets
    <3>3. ASSUME NEW code \in StockCodes \ upset'
          PROVE  TodoOf(call'[c])[code] - TodoOf(call[c])[code] = Items(issues[i])[code] - Items(issues'[i])[code]
      <4>1. TodoOf(call'[c])[code] = before[code] /\ TodoOf(call[c])[code] = 0
        BY <2>0, <3>1, <3>2 DEF TodoOf, NoChange, StockCalls
      <4>2. Items(issues[i])[code] = Items(before)[code] /\ Items(issues'[i])[code] = 0
        BY <2>0, <3>1, <3>2 DEF Items, Differing, StockRows, NoChange
      <4>3. Items(before)[code] = before[code] /\ before[code] \in Int
        BY <3>1 DEF Items
      <4>. QED
        BY <4>1, <4>2, <4>3
    <3>4. /\ \A j \in IssueIds \ {i} : issues'[j] = issues[j]
          /\ \A d \in StockRequests \ {c} : call'[d] = call[d]
      BY <2>0, <3>2 DEF StockCalls, StockRows
    <3>. QED
      BY <2>0, <3>1, <3>2, <3>3, <3>4, RowTallies
  <2>5. ASSUME NEW c \in StockRequests, AdjustNext(c) PROVE StockTallied'
    <3>1. /\ call[c].step = "adjust" /\ UNCHANGED <<baseline, quantity, drift, upset, issues>>
          /\ \A d \in StockRequests \ {c} : call'[d] = call[d]
      BY <2>0, <2>5 DEF AdjustNext, Continues, Become, StockCalls
    <3>2. call[c].todo \in Changes /\ TodoOf(call[c]) = call[c].todo
      BY <2>0, <3>1, Holds_changes DEF StockCalls, Calls, Free, TodoOf
    <3>3. \A code \in StockCodes : TodoOf(call'[c])[code] = TodoOf(call[c])[code]
      <4>1. CASE Touched(call[c].todo) = {}
        <5>1. call'[c] = Free /\ \A code \in StockCodes : call[c].todo[code] = 0
          BY <2>0, <2>5, <4>1 DEF AdjustNext, Become, Touched, StockCalls
        <5>. QED
          BY <2>0, <3>2, <5>1 DEF NoChange
      <4>2. CASE Touched(call[c].todo) # {}
        <5>1. TodoOf(call'[c]) = call[c].todo
          BY <2>0, <2>5, <4>2 DEF AdjustNext, Become, TodoOf, StockCalls
        <5>. QED
          BY <3>2, <5>1
      <4>. QED
        BY <4>1, <4>2
    <3>4. \A code \in StockCodes : TodoOf(call[c])[code] \in Int /\ quantity[code] \in Int /\ drift[code] \in Int
      BY <2>0, <3>2 DEF Changes, StockTypeOK, Missing
    <3>. QED
      BY <2>0, <3>1, <3>3, <3>4, RequestTallies
  <2>6. ASSUME NEW c \in StockRequests, call[c].step \in {"read", "write"}, NextCode(c), upset \cup {call[c].code} \subseteq upset',
               UNCHANGED <<baseline, quantity, drift, issues>>
        PROVE  StockTallied'
    <3>1. call' = [call EXCEPT ![c] = [step |-> "adjust", todo |-> [call[c].todo EXCEPT ![call[c].code] = 0]]]
      BY <2>6 DEF NextCode, Adjusting, Become
    <3>2. call[c] \in Calls /\ \A d \in StockRequests \ {c} : call'[d] = call[d]
      BY <2>0, <3>1 DEF StockCalls
    <3>3. \A code \in StockCodes \ upset' : TodoOf(call'[c])[code] = TodoOf(call[c])[code]
      BY <2>0, <2>6, <3>1, <3>2, DoneWithCode DEF StockCalls
    <3>4. \A code \in StockCodes : TodoOf(call[c])[code] \in Int /\ quantity[code] \in Int /\ drift[code] \in Int
      BY <2>0, <3>2, TodoTyped DEF Changes, StockTypeOK, Missing
    <3>. QED
      BY <2>0, <2>6, <3>2, <3>3, <3>4, RequestTallies
  <2>7. ASSUME NEW c \in StockRequests, call[c].step \in {"read", "write"}, TodoOf(call'[c]) = TodoOf(call[c]), call[c] \in Calls,
               \A d \in StockRequests \ {c} : call'[d] = call[d], UNCHANGED <<baseline, quantity, drift, issues, upset>>
        PROVE  StockTallied'
    <3>1. \A code \in StockCodes : TodoOf(call[c])[code] \in Int /\ quantity[code] \in Int /\ drift[code] \in Int
      BY <2>0, <2>7, TodoTyped DEF Changes, StockTypeOK, Missing
    <3>. QED
      BY <2>7, <3>1, RequestTallies
  <2>8. ASSUME NEW c \in StockRequests, ReadSpare(c) PROVE StockTallied'
    <3>1. call[c].step = "read" /\ call[c] \in Calls /\ UNCHANGED <<baseline, quantity, drift, issues>>
      BY <2>0, <2>8 DEF ReadSpare, Continues, StockCalls
    <3>2. CASE quantity[call[c].code] = Missing
      BY <2>6, <2>8, <3>1, <3>2 DEF ReadSpare, Upsets
    <3>3. CASE quantity[call[c].code] # Missing
      <4>1. /\ call' = [call EXCEPT ![c] = [step |-> "write", read |-> quantity[call[c].code], code |-> call[c].code,
                                            todo |-> call[c].todo, tries |-> call[c].tries]]
            /\ UNCHANGED upset
        BY <2>8, <3>3 DEF ReadSpare, Become
      <4>2. TodoOf(call'[c]) = TodoOf(call[c]) /\ \A d \in StockRequests \ {c} : call'[d] = call[d]
        BY <2>0, <3>1, <4>1 DEF StockCalls, Calls, Free, TodoOf
      <4>. QED
        BY <2>7, <3>1, <4>1, <4>2
    <3>. QED
      BY <3>2, <3>3
  <2>9. ASSUME NEW c \in StockRequests, ApplyAgain(c) PROVE StockTallied'
    <3>1. call[c].step = "write" /\ call[c] \in Calls /\ UNCHANGED <<baseline, quantity, drift, issues>>
      BY <2>0, <2>9 DEF ApplyAgain, Continues, StockCalls
    <3>2. CASE call[c].tries + 1 < Attempts
      <4>1. /\ call' = [call EXCEPT ![c] = [step |-> "read", code |-> call[c].code, todo |-> call[c].todo,
                                            tries |-> call[c].tries + 1]]
            /\ UNCHANGED upset
        BY <2>9, <3>2 DEF ApplyAgain, Become
      <4>2. TodoOf(call'[c]) = TodoOf(call[c]) /\ \A d \in StockRequests \ {c} : call'[d] = call[d]
        BY <2>0, <3>1, <4>1 DEF StockCalls, Calls, Free, TodoOf
      <4>. QED
        BY <2>7, <3>1, <4>1, <4>2
    <3>3. CASE ~(call[c].tries + 1 < Attempts)
      BY <2>6, <2>9, <3>1, <3>3 DEF ApplyAgain, Upsets
    <3>. QED
      BY <3>2, <3>3
  <2>10. ASSUME NEW c \in StockRequests, ApplyChange(c) PROVE StockTallied'
    <3>. DEFINE at == call[c].code  change == call[c].todo[at]  wanted == 2 * call[c].read + change
    <3>1. /\ call[c].step = "write" /\ call[c] \in Calls /\ UNCHANGED <<baseline, issues>>
          /\ quantity[at] = call[c].read
          /\ quantity' = [quantity EXCEPT ![at] = AtLeastZero(Round(wanted))]
          /\ drift' = [drift EXCEPT ![at] = @ + (change % 2)]
          /\ upset' = upset \cup (IF wanted < 0 THEN {at} ELSE {})
          /\ call' = [call EXCEPT ![c] = [step |-> "adjust", todo |-> [call[c].todo EXCEPT ![at] = 0]]]
      BY <2>0, <2>10 DEF ApplyChange, StillAsRead, Continues, StockCalls, Upsets, NextCode, Adjusting, Become
    <3>2. call[c].todo \in Changes /\ at \in StockCodes /\ call[c].read \in Nat /\ change \in Int
      BY <3>1, Holds_changes DEF Changes
    <3>3. TodoOf(call[c]) = call[c].todo
      BY <3>1 DEF Calls, Free, TodoOf
    <3>4. \A d \in StockRequests \ {c} : call'[d] = call[d]
      BY <2>0, <3>1 DEF StockCalls
    <3>5. ASSUME NEW code \in StockCodes \ upset'
          PROVE  LET off == 2 * quantity'[code] + TodoOf(call'[c])[code] - 2 * quantity[code] - TodoOf(call[c])[code]
                 IN  off <= drift'[code] - drift[code] /\ -off <= drift'[code] - drift[code]
      <4>1. TodoOf(call'[c])[code] = IF code = at THEN 0 ELSE call[c].todo[code]
        BY <2>0, <3>1, <3>3, DoneWithCode DEF StockCalls
      <4>2. CASE code # at
        <5>1. quantity'[code] = quantity[code] /\ drift'[code] = drift[code] /\ TodoOf(call'[c])[code] = TodoOf(call[c])[code]
          BY <2>0, <3>1, <3>3, <4>1, <4>2 DEF StockTypeOK
        <5>2. quantity[code] \in Int /\ drift[code] \in Int /\ TodoOf(call[c])[code] \in Int
          BY <2>0, <3>2, <3>3 DEF StockTypeOK, Missing, Changes
        <5>. QED
          BY <5>1, <5>2
      <4>3. CASE code = at
        <5>1. wanted >= 0
          BY <3>1, <3>2, <4>3
        <5>2. 2 * AtLeastZero(Round(wanted)) - wanted <= wanted % 2 /\ wanted - 2 * AtLeastZero(Round(wanted)) <= wanted % 2
          BY <3>2, <5>1, RoundsNear
        <5>3. wanted % 2 = change % 2
          BY <3>2
        <5>4. /\ quantity'[code] = AtLeastZero(Round(wanted)) /\ drift'[code] - drift[code] = change % 2
              /\ TodoOf(call'[c])[code] = 0 /\ TodoOf(call[c])[code] = change /\ quantity[code] = call[c].read
          BY <2>0, <3>1, <3>2, <3>3, <4>1, <4>3 DEF StockTypeOK
        <5>5. AtLeastZero(Round(wanted)) \in Nat
          BY <3>2, Rounds
        <5>. HIDE DEF change
        <5>. QED
          BY <3>2, <5>2, <5>3, <5>4, <5>5
      <4>. QED
        BY <4>2, <4>3
    <3>. QED
      BY <3>1, <3>4, <3>5, RequestTallies
  <2>11. ASSUME NEW c \in StockRequests, StockCallFails(c) PROVE StockTallied'
    <3>1. call[c] # Free /\ call[c] \in Calls /\ UNCHANGED <<baseline, quantity, drift, issues>>
      BY <2>0, <2>11 DEF StockCallFails, StockCalls
    <3>2. CASE call[c].step \in {"read", "write"}
      BY <2>6, <2>11, <3>1, <3>2 DEF StockCallFails, Upsets
    <3>3. CASE call[c].step \notin {"read", "write"}
      <4>1. call[c].step # "adjust" /\ call' = [call EXCEPT ![c] = Free] /\ UNCHANGED upset
        BY <2>11, <3>3 DEF StockCallFails, Become
      <4>2. TodoOf(call[c]) = NoChange /\ TodoOf(call'[c]) = NoChange /\ \A d \in StockRequests \ {c} : call'[d] = call[d]
        BY <2>0, <3>1, <3>3, <4>1 DEF StockCalls, Calls, Free, TodoOf
      <4>. QED
        BY <2>0, <3>1, <4>1, <4>2, RequestTallies DEF StockTypeOK, NoChange, Missing
    <3>. QED
      BY <3>2, <3>3
  <2>12. ASSUME NEW c \in StockRequests, StockCrash(c) PROVE StockTallied'
    <3>1. /\ call' = [call EXCEPT ![c] = Free] /\ upset' = upset \cup Touched(TodoOf(call[c]))
          /\ UNCHANGED <<baseline, quantity, drift, issues>>
      BY <2>12 DEF StockCrash, Become, Upsets, Todo, TodoOf
    <3>2. TodoOf(call'[c]) = NoChange /\ \A d \in StockRequests \ {c} : call'[d] = call[d]
      BY <2>0, <3>1 DEF StockCalls
    <3>3. \A code \in StockCodes \ upset' : TodoOf(call[c])[code] = 0
      BY <3>1 DEF Touched
    <3>. QED
      BY <2>0, <3>1, <3>2, <3>3, RequestTallies DEF StockTypeOK, NoChange, Missing
  <2>13. ASSUME NEW at \in StockCodes, NEW n \in Counts, EnterQuantity(at, n) PROVE StockTallied'
    <3>1. /\ UNCHANGED <<issues, call>> /\ quantity' = [quantity EXCEPT ![at] = n]
          /\ baseline' = [baseline EXCEPT ![at] = 2 * n + Issued(at)] /\ drift' = [drift EXCEPT ![at] = 0]
          /\ upset' = IF \E c \in StockRequests : at \in Touched(Todo(c)) THEN upset \cup {at} ELSE upset \ {at}
      BY <2>13 DEF EnterQuantity, CountsNow
    <3>2. Issued(at) \in Int /\ n \in Nat
      BY <2>0, SumsAreInts
    <3>3. baseline' \in [StockCodes -> Int]
      BY <3>1, <3>2 DEF StockTallied
    <3>4. ASSUME NEW code \in StockCodes \ upset'
          PROVE  LET gap == 2 * quantity'[code] + ToMove(code)' - (baseline'[code] - Issued(code)')
                 IN  gap <= drift'[code] /\ -gap <= drift'[code]
      <4>1. ToMove(code)' = ToMove(code) /\ Issued(code)' = Issued(code)
        BY <3>1 DEF ToMove, Todo, Issued
      <4>2. CASE code # at
        <5>1. code \notin upset /\ quantity'[code] = quantity[code] /\ baseline'[code] = baseline[code] /\ drift'[code] = drift[code]
          BY <2>0, <3>1, <4>2 DEF StockTallied, StockTypeOK
        <5>. QED
          BY <4>1, <5>1 DEF StockTallied, StockAddsUp
      <4>3. CASE code = at
        <5>1. \A c \in StockRequests : Todo(c)[at] = 0
          BY <3>1, <4>3 DEF Touched
        <5>2. ToMove(at) = Total(Moving(call, at)) /\ Moving(call, at) = [c \in StockRequests |-> 0]
          BY <5>1 DEF ToMove, Moving, Todo, TodoOf
        <5>3. ToMove(at) = 0
          BY <5>2, TotalOfZeros
        <5>4. quantity'[at] = n /\ baseline'[at] = 2 * n + Issued(at) /\ drift'[at] = 0
          BY <2>0, <3>1 DEF StockTallied, StockTypeOK
        <5>. QED
          BY <3>2, <4>1, <4>3, <5>3, <5>4
      <4>. QED
        BY <4>2, <4>3
    <3>. QED
      BY <3>3, <3>4 DEF StockTallied, StockAddsUp
  <2>14. ASSUME NEW at \in StockCodes, delete_spare(at) PROVE StockTallied'
    <3>1. /\ UNCHANGED <<issues, call, baseline, drift>> /\ upset' = upset \cup {at}
          /\ \A code \in StockCodes \ {at} : quantity'[code] = quantity[code]
      BY <2>0, <2>14 DEF delete_spare, CountsNow, Upsets, StockTypeOK
    <3>2. \A code \in StockCodes : ToMove(code)' = ToMove(code) /\ Issued(code)' = Issued(code)
      BY <3>1 DEF ToMove, Todo, Issued
    <3>. QED
      BY <3>1, <3>2 DEF StockTallied, StockAddsUp
  <2>15. CASE UNCHANGED stock_vars
    <3>1. \A code \in StockCodes : ToMove(code)' = ToMove(code) /\ Issued(code)' = Issued(code)
      BY <2>15 DEF ToMove, Todo, Issued, stock_vars
    <3>. QED
      BY <2>15, <3>1 DEF StockTallied, StockAddsUp, stock_vars
  <2>16. CASE \E c \in StockRequests :
                \/ \E items \in ItemLists : _create_issue(c, items)
                \/ \E i \in IssueIds, items \in ItemLists : _update_issue(c, i, items)
                \/ \E i \in IssueIds : _delete_issue(c, i)
    BY <2>1, <2>2, <2>16
  <2>17. CASE \E c \in StockRequests : UpdateIssueRow(c) \/ DeleteIssueRow(c) \/ AdjustNext(c) \/ ReadSpare(c)
    BY <2>3, <2>4, <2>5, <2>8, <2>17
  <2>18. CASE \E c \in StockRequests : ApplyChange(c) \/ ApplyAgain(c) \/ StockCallFails(c) \/ StockCrash(c)
    BY <2>9, <2>10, <2>11, <2>12, <2>18
  <2>19. CASE \/ \E code \in StockCodes, n \in Counts : EnterQuantity(code, n)
              \/ \E code \in StockCodes : delete_spare(code)
    BY <2>13, <2>14, <2>19
  <2>. QED
    BY <2>15, <2>16, <2>17, <2>18, <2>19 DEF StockNext
<1>3. StockTallied => StockAddsUp
  BY DEF StockTallied
<1>4. StockInit /\ StockTypeOK => StockTallied
  BY <1>1 DEF StockTallied
<1>. QED
  BY <1>2, <1>3, <1>4, StockTyped, PTL DEF StockSpec

-----------------------------------------------------------------------------
(* Protective equipment, for every register, matrix and bound. *)

\* An event under way: before its movement is written, and after.
Unmoved == {"check", "matrix", "insert", "read", "move"}
EventSteps == {"check", "matrix", "read", "move", "log"}
Holds(c, k) == "key" \in DOMAIN ask[c] /\ ask[c].key = k

KeysAreForms ==
    /\ DOMAIN ask = PPERequests /\ ask = [c \in PPERequests |-> ask[c]]
    /\ written \in [Keys -> Nat]
    /\ \A c \in PPERequests :
         /\ "key" \in DOMAIN ask[c] => ask[c].key \in Keys /\ ask[c].step \in Unmoved \cup {"log"}
         /\ ask[c].step \in EventSteps => "key" \in DOMAIN ask[c]

\* A key used by one request at a time is behind by its own movement only.
KeyIsCounted(k) ==
    /\ \A c, d \in PPERequests : Holds(c, k) /\ Holds(d, k) => c = d
    /\ \A c \in PPERequests : Holds(c, k) =>
         k \notin events /\ written[k] = (IF ask[c].step = "log" THEN 1 ELSE 0)
    /\ (\A c \in PPERequests : ~Holds(c, k)) => written[k] = (IF k \in events THEN 1 ELSE 0)

KeyInv == KeysAreForms /\ \A k \in Keys \ (shared \cup unlogged) : KeyIsCounted(k)

\* A step of request c that moves nothing: it takes no key, keeps the one it
\* has, or ends before its movement.
LEMMA QuietKey ==
    ASSUME KeyInv, NEW c \in PPERequests, NEW next,
           ask' = [ask EXCEPT ![c] = next],
           UNCHANGED <<events, written, shared>>,
           unlogged \subseteq unlogged',
           \A k \in Keys \ unlogged' : Holds(c, k) => ask[c].step \in Unmoved,
           "key" \in DOMAIN next => Holds(c, next.key) /\ next.step \in Unmoved,
           next.step \in EventSteps => "key" \in DOMAIN next
    PROVE  KeyInv'
<1>1. ask'[c] = next /\ \A d \in PPERequests \ {c} : ask'[d] = ask[d]
  BY DEF KeyInv, KeysAreForms
<1>2. KeysAreForms'
  BY <1>1 DEF KeyInv, KeysAreForms, Holds
<1>3. ASSUME NEW k \in Keys, k \notin (shared \cup unlogged)'
      PROVE  KeyIsCounted(k)'
  <2>1. KeyIsCounted(k)
    BY <1>3 DEF KeyInv
  <2>2. \A d \in PPERequests : Holds(d, k)' => Holds(d, k)
    BY <1>1 DEF Holds
  <2>3. \A d \in PPERequests : Holds(d, k)' => (ask'[d].step = "log" <=> ask[d].step = "log")
    BY <1>1, <1>3 DEF Holds, Unmoved
  <2>4. Holds(c, k) => ask[c].step # "log"
    BY <1>3 DEF Unmoved
  <2>5. \A d \in PPERequests \ {c} : Holds(d, k)' <=> Holds(d, k)
    BY <1>1 DEF Holds
  <2>6. (\A d \in PPERequests : ~Holds(d, k)') => written[k] = (IF k \in events THEN 1 ELSE 0)
    <3>1. CASE Holds(c, k)
      BY <2>1, <2>4, <3>1 DEF KeyIsCounted
    <3>2. CASE ~Holds(c, k)
      BY <2>1, <2>5, <3>2 DEF KeyIsCounted
    <3>. QED
      BY <3>1, <3>2
  <2>. QED
    BY <2>1, <2>2, <2>3, <2>6 DEF KeyIsCounted
<1>. QED
  BY <1>2, <1>3 DEF KeyInv

\* The movement, after which the event is still to be logged.
LEMMA WriteStep ==
    ASSUME KeyInv, NEW c \in PPERequests, NEW k \in Keys,
           Holds(c, k), ask[c].step \in Unmoved,
           ask' = [ask EXCEPT ![c] = [step |-> "log", key |-> k]],
           written' = [written EXCEPT ![k] = @ + 1],
           UNCHANGED <<events, shared, unlogged>>
    PROVE  KeyInv'
<1>. DEFINE log == [step |-> "log", key |-> k]
<1>0. "key" \in DOMAIN log /\ log.key = k /\ log.step = "log"
  OBVIOUS
<1>1. ask'[c] = log /\ \A d \in PPERequests \ {c} : ask'[d] = ask[d]
  BY DEF KeyInv, KeysAreForms
<1>2. KeysAreForms'
  BY <1>0, <1>1 DEF KeyInv, KeysAreForms, Holds
<1>3. ASSUME NEW j \in Keys, j \notin (shared \cup unlogged)'
      PROVE  KeyIsCounted(j)'
  <2>1. KeyIsCounted(j)
    BY <1>3 DEF KeyInv
  <2>2. \A d \in PPERequests : Holds(d, j)' <=> Holds(d, j)
    BY <1>0, <1>1 DEF Holds
  <2>3. CASE j = k
    <3>1. written[k] = 0 /\ k \notin events
      BY <2>1, <2>3 DEF KeyIsCounted, Unmoved
    <3>2. written'[k] = 1
      BY <3>1 DEF KeyInv, KeysAreForms
    <3>3. \A d \in PPERequests : Holds(d, k) => d = c
      BY <2>1, <2>3 DEF KeyIsCounted
    <3>. QED
      BY <1>0, <1>1, <2>2, <2>3, <3>1, <3>2, <3>3 DEF KeyIsCounted
  <2>4. CASE j # k
    <3>1. ~Holds(c, j) /\ written'[j] = written[j]
      BY <2>4 DEF Holds, KeyInv, KeysAreForms
    <3>2. \A d \in PPERequests : Holds(d, j)' => ask'[d] = ask[d]
      BY <1>1, <2>2, <3>1
    <3>. QED
      BY <2>1, <2>2, <3>1, <3>2 DEF KeyIsCounted
  <2>. QED
    BY <2>3, <2>4
<1>. QED
  BY <1>2, <1>3 DEF KeyInv

\* The event is stored and the request ends.
LEMMA LogStep ==
    ASSUME KeyInv, NEW c \in PPERequests, LogEvent(c),
           "key" \in DOMAIN ask[c]
    PROVE  KeyInv'
<1>. DEFINE k == ask[c].key
<1>0. "key" \notin DOMAIN Resting /\ Resting.step \notin EventSteps
  BY DEF Resting, EventSteps
<1>1. ask'[c] = Resting /\ \A d \in PPERequests \ {c} : ask'[d] = ask[d]
  BY DEF KeyInv, KeysAreForms, LogEvent, Rest, Ask
<1>2. KeysAreForms'
  BY <1>0, <1>1 DEF KeyInv, KeysAreForms, LogEvent, Rest, Ask, NoMovement
<1>3. ASSUME NEW j \in Keys, j \notin (shared \cup unlogged)'
      PROVE  KeyIsCounted(j)'
  <2>1. KeyIsCounted(j) /\ written' = written
    BY <1>3 DEF KeyInv, LogEvent, NoMovement
  <2>2. ~Holds(c, j)' /\ \A d \in PPERequests \ {c} : Holds(d, j)' <=> Holds(d, j)
    BY <1>0, <1>1 DEF Holds
  <2>3. CASE j = k
    <3>1. Holds(c, j) /\ ask[c].step = "log" /\ j \in events'
      BY <2>3 DEF Holds, LogEvent, PPEGoes
    <3>2. written[j] = 1 /\ \A d \in PPERequests : ~Holds(d, j)'
      BY <2>1, <2>2, <3>1 DEF KeyIsCounted
    <3>. QED
      BY <2>1, <3>1, <3>2 DEF KeyIsCounted
  <2>4. CASE j # k
    <3>1. ~Holds(c, j) /\ (j \in events' <=> j \in events)
      BY <2>4 DEF Holds, LogEvent
    <3>. QED
      BY <1>1, <2>1, <2>2, <3>1 DEF KeyIsCounted
  <2>. QED
    BY <2>3, <2>4
<1>. QED
  BY <1>2, <1>3 DEF KeyInv

\* A request takes a key; another that works on it, or an event, makes it shared.
LEMMA TakesKey ==
    ASSUME KeyInv, NEW c \in PPERequests, NEW k \in Keys, record_ppe_event(c, k) \/ KeyUnread(c, k)
    PROVE  KeyInv'
<1>. DEFINE step == IF Form[k].kind = "issue" THEN "check" ELSE "read"
            next == [step |-> step, key |-> k]
<1>0. /\ "key" \in DOMAIN next /\ next.key = k /\ next.step = step /\ step \in Unmoved
      /\ "key" \notin DOMAIN Resting
  BY DEF Unmoved, Resting
<1>1. ask'[c] = next /\ ask[c] = Resting /\ \A d \in PPERequests \ {c} : ask'[d] = ask[d]
  BY DEF KeyInv, KeysAreForms, record_ppe_event, KeyUnread, TakesForm, PPEBegins, Ask
<1>2. KeysAreForms'
  BY <1>0, <1>1 DEF KeyInv, KeysAreForms, record_ppe_event, KeyUnread, TakesForm, Ask
<1>3. ASSUME NEW j \in Keys, j \notin (shared \cup unlogged)'
      PROVE  KeyIsCounted(j)'
  <2>1. KeyIsCounted(j) /\ written' = written /\ events' = events
    BY <1>3 DEF KeyInv, record_ppe_event, KeyUnread, TakesForm
  <2>2. ~Holds(c, j) /\ (Holds(c, j)' <=> j = k)
        /\ \A d \in PPERequests \ {c} : Holds(d, j)' <=> Holds(d, j)
    BY <1>0, <1>1 DEF Holds
  <2>3. CASE j = k
    <3>1. \A d \in PPERequests : ~Holds(d, j)
      BY <1>3, <2>3 DEF record_ppe_event, KeyUnread, Works, Holds
    <3>2. j \notin events
      BY <1>3, <2>3 DEF record_ppe_event, KeyUnread, Replayed
    <3>3. written[j] = 0 /\ ask'[c].step # "log"
      BY <1>0, <1>1, <2>1, <3>1, <3>2 DEF KeyIsCounted, Unmoved
    <3>. QED
      BY <2>1, <2>2, <2>3, <3>1, <3>2, <3>3 DEF KeyIsCounted
  <2>4. CASE j # k
    BY <1>1, <2>1, <2>2, <2>4 DEF KeyIsCounted
  <2>. QED
    BY <2>3, <2>4
<1>. QED
  BY <1>2, <1>3 DEF KeyInv

\* A step of a request that has no key, or that rests: the other actions.
LEMMA KeylessStep ==
    ASSUME KeyInv, NEW c \in PPERequests, NEW next,
           ask' = [ask EXCEPT ![c] = next],
           "key" \notin DOMAIN ask[c], "key" \notin DOMAIN next, next.step \notin EventSteps,
           UNCHANGED <<events, written, shared, unlogged>>
    PROVE  KeyInv'
BY QuietKey DEF Holds

\* A request at a step without a key has none.
LEMMA NoKeyThere ==
    ASSUME KeyInv, NEW c \in PPERequests,
           ask[c].step \notin Unmoved \cup {"log"}
    PROVE  "key" \notin DOMAIN ask[c]
BY DEF KeyInv, KeysAreForms

\* "Replaying an idempotency_key returns the stored result instead of writing
\* twice": for any number of requests, keys and failures, the register has moved
\* once under a key that has its event and not at all under one that has none,
\* unless its event was lost after its movement, or the key was sent again beside
\* a request that used it or while its lookup failed.
THEOREM OneEvent == PPESpec => []OneEventPerMovement
<1>1. PPEInit => KeyInv
  <2>. SUFFICES ASSUME PPEInit PROVE KeyInv
    OBVIOUS
  <2>1. \A c \in PPERequests : "key" \notin DOMAIN ask[c]
    BY DEF PPEInit, Resting
  <2>2. KeysAreForms
    BY <2>1 DEF PPEInit, KeysAreForms, Resting, EventSteps
  <2>. QED
    BY <2>1, <2>2 DEF PPEInit, KeyInv, KeyIsCounted, Holds
<1>2. KeyInv /\ [PPENext]_ppe_vars => KeyInv'
  <2>. SUFFICES ASSUME KeyInv, [PPENext]_ppe_vars PROVE KeyInv'
    OBVIOUS
  <2>0. "key" \notin DOMAIN Resting /\ Resting.step \notin EventSteps
    BY DEF Resting, EventSteps
  <2>1. ASSUME NEW c \in PPERequests, NEW row, create_ppe_record(c, row) PROVE KeyInv'
    <3>. "key" \notin DOMAIN [step |-> "insert", row |-> row] /\ "insert" \notin EventSteps
      BY DEF EventSteps
    <3>. QED
      BY <2>0, <2>1, KeylessStep DEF create_ppe_record, PPEBegins, Ask, NoMovement
  <2>2. ASSUME NEW c \in PPERequests, NEW i, NEW patch, update_ppe_record(c, i, patch) PROVE KeyInv'
    <3>. DEFINE next == [step |-> "update", id |-> i, patch |-> Stamped(records[i], patch)]
    <3>. "key" \notin DOMAIN next /\ next.step \notin EventSteps
      BY DEF EventSteps
    <3>1. ask' = [ask EXCEPT ![c] = next]
      BY <2>2 DEF update_ppe_record, Ask
    <3>. HIDE DEF next
    <3>. QED
      BY <2>0, <2>2, <3>1, KeylessStep DEF update_ppe_record, PPEBegins, NoMovement
  <2>3. ASSUME NEW c \in PPERequests, NEW i, delete_ppe_record(c, i) PROVE KeyInv'
    BY <2>3 DEF delete_ppe_record, NoMovement, KeyInv, KeysAreForms, KeyIsCounted, Holds
  <2>4. ASSUME NEW c \in PPERequests, NEW k \in Keys, record_ppe_event(c, k) \/ KeyUnread(c, k) PROVE KeyInv'
    BY <2>4, TakesKey
  <2>5. ASSUME NEW c \in PPERequests, NEW type, NEW scope, NEW n,
               set_ppe_matrix_entry(c, type, scope, n)
        PROVE  KeyInv'
    <3>. "key" \notin DOMAIN [step |-> "select", scope |-> scope, plan |-> [t \in {type} |-> n]] /\ "select" \notin EventSteps
      BY DEF EventSteps
    <3>. QED
      BY <2>0, <2>5, KeylessStep DEF set_ppe_matrix_entry, Planned, PPEBegins, Ask, NoMovement
  <2>6. ASSUME NEW c \in PPERequests, NEW scope, NEW plan, Applies(c, scope, plan) PROVE KeyInv'
    <3>. "key" \notin DOMAIN [step |-> "select", scope |-> scope, plan |-> plan] /\ "select" \notin EventSteps
      BY DEF EventSteps
    <3>. QED
      BY <2>0, <2>6, KeylessStep DEF Applies, Planned, PPEBegins, Ask, NoMovement
  <2>7. ASSUME NEW c \in PPERequests, UpdateRecord(c) PROVE KeyInv'
    <3>. "key" \notin DOMAIN ask[c]
      BY <2>7, NoKeyThere DEF UpdateRecord, PPEGoes, Unmoved
    <3>. QED
      BY <2>0, <2>7, KeylessStep DEF UpdateRecord, Rest, Ask, NoMovement
  <2>8. ASSUME NEW c \in PPERequests, CheckIssue(c) PROVE KeyInv'
    <3>1. ask[c].step \in Unmoved
      BY <2>8 DEF CheckIssue, PPEGoes, Unmoved
    <3>2. CASE ask' = [ask EXCEPT ![c] = Resting]
      BY <2>0, <2>8, <3>1, <3>2, QuietKey DEF CheckIssue, NoMovement
    <3>3. CASE "key" \in DOMAIN ask[c]
               /\ \E d : ask' = [ask EXCEPT ![c] = [step |-> "matrix", key |-> ask[c].key, department |-> d]]
      <4>. PICK d : ask' = [ask EXCEPT ![c] = [step |-> "matrix", key |-> ask[c].key, department |-> d]]
        BY <3>3
      <4>. DEFINE next == [step |-> "matrix", key |-> ask[c].key, department |-> d]
      <4>1. "key" \in DOMAIN next /\ next.key = ask[c].key /\ next.step \in Unmoved
        BY DEF Unmoved
      <4>. QED
        BY <2>8, <3>1, <3>3, <4>1, QuietKey DEF CheckIssue, NoMovement, Holds
    <3>4. "key" \in DOMAIN ask[c]
      BY <2>8 DEF CheckIssue, PPEGoes, KeyInv, KeysAreForms, EventSteps
    <3>. QED
      BY <2>8, <3>2, <3>3, <3>4 DEF CheckIssue, Rest, Ask
  <2>9. ASSUME NEW c \in PPERequests, ReadMatrix(c) PROVE KeyInv'
    <3>1. ask[c].step \in Unmoved /\ "key" \in DOMAIN ask[c]
      BY <2>9 DEF ReadMatrix, PPEGoes, Unmoved, KeyInv, KeysAreForms, EventSteps
    <3>2. PICK row : ask' = [ask EXCEPT ![c] = [step |-> "insert", key |-> ask[c].key, row |-> row]]
      BY <2>9 DEF ReadMatrix, Ask
    <3>. DEFINE next == [step |-> "insert", key |-> ask[c].key, row |-> row]
    <3>3. "key" \in DOMAIN next /\ next.key = ask[c].key /\ next.step \in Unmoved
      BY DEF Unmoved
    <3>. QED
      BY <2>9, <3>1, <3>2, <3>3, QuietKey DEF ReadMatrix, NoMovement, Holds
  <2>10. ASSUME NEW c \in PPERequests, MatrixUnread(c) PROVE KeyInv'
    <3>1. ask[c].step \in Unmoved /\ "key" \in DOMAIN ask[c]
      BY <2>10 DEF MatrixUnread, Unmoved, KeyInv, KeysAreForms, EventSteps
    <3>2. PICK row : ask' = [ask EXCEPT ![c] = [step |-> "insert", key |-> ask[c].key, row |-> row]]
      BY <2>10 DEF MatrixUnread, Ask
    <3>. DEFINE next == [step |-> "insert", key |-> ask[c].key, row |-> row]
    <3>3. "key" \in DOMAIN next /\ next.key = ask[c].key /\ next.step \in Unmoved
      BY DEF Unmoved
    <3>. QED
      BY <2>10, <3>1, <3>2, <3>3, QuietKey DEF MatrixUnread, PPELoses, Holds
  <2>11. ASSUME NEW c \in PPERequests, InsertRecord(c) PROVE KeyInv'
    <3>1. ask[c].step \in Unmoved
      BY <2>11 DEF InsertRecord, PPEGoes, Unmoved
    <3>2. CASE ask' = [ask EXCEPT ![c] = Resting] /\ written' = written
      BY <2>0, <2>11, <3>1, <3>2, QuietKey DEF InsertRecord
    <3>3. CASE /\ "key" \in DOMAIN ask[c]
               /\ written' = [written EXCEPT ![ask[c].key] = @ + 1]
               /\ ask' = [ask EXCEPT ![c] = [step |-> "log", key |-> ask[c].key]]
      <4>1. ask[c].key \in Keys
        BY <3>3 DEF KeyInv, KeysAreForms
      <4>. QED
        BY <2>11, <3>1, <3>3, <4>1, WriteStep DEF InsertRecord, Holds
    <3>. QED
      BY <2>11, <3>2, <3>3 DEF InsertRecord, Rest, Ask
  <2>12. ASSUME NEW c \in PPERequests, ReadRecord(c) PROVE KeyInv'
    <3>1. ask[c].step \in Unmoved /\ "key" \in DOMAIN ask[c]
      BY <2>12 DEF ReadRecord, PPEGoes, Unmoved, KeyInv, KeysAreForms, EventSteps
    <3>2. CASE ask' = [ask EXCEPT ![c] = Resting]
      BY <2>0, <2>12, <3>1, <3>2, QuietKey DEF ReadRecord, NoMovement
    <3>3. CASE ask' = [ask EXCEPT ![c] = [step |-> "move", key |-> ask[c].key]]
      <4>. DEFINE next == [step |-> "move", key |-> ask[c].key]
      <4>1. next.key = ask[c].key /\ next.step \in Unmoved
        BY DEF Unmoved
      <4>. QED
        BY <2>12, <3>1, <3>3, <4>1, QuietKey DEF ReadRecord, NoMovement, Holds
    <3>. QED
      BY <2>12, <3>2, <3>3 DEF ReadRecord, Rest, Ask
  <2>13. ASSUME NEW c \in PPERequests, MoveRecord(c) PROVE KeyInv'
    <3>1. ask[c].step \in Unmoved /\ "key" \in DOMAIN ask[c]
      BY <2>13 DEF MoveRecord, PPEGoes, Unmoved, KeyInv, KeysAreForms, EventSteps
    <3>2. CASE ask' = [ask EXCEPT ![c] = Resting] /\ written' = written
      BY <2>0, <2>13, <3>1, <3>2, QuietKey DEF MoveRecord
    <3>3. CASE /\ written' = [written EXCEPT ![ask[c].key] = @ + 1]
               /\ ask' = [ask EXCEPT ![c] = [step |-> "log", key |-> ask[c].key]]
      <4>1. ask[c].key \in Keys
        BY <3>1 DEF KeyInv, KeysAreForms
      <4>. QED
        BY <2>13, <3>1, <3>3, <4>1, WriteStep DEF MoveRecord, Holds
    <3>. QED
      BY <2>13, <3>2, <3>3 DEF MoveRecord, Rest, Ask
  <2>14. ASSUME NEW c \in PPERequests, LogEvent(c) PROVE KeyInv'
    <3>. "key" \in DOMAIN ask[c]
      BY <2>14 DEF LogEvent, PPEGoes, KeyInv, KeysAreForms, EventSteps
    <3>. QED
      BY <2>14, LogStep
  <2>15. ASSUME NEW c \in PPERequests, SelectRecords(c) PROVE KeyInv'
    <3>1. "key" \notin DOMAIN ask[c]
      BY <2>15, NoKeyThere DEF SelectRecords, PPEGoes, Unmoved
    <3>2. \E scope, type, interval, plan, todo :
            ask' = [ask EXCEPT ![c] = [step |-> "recalculate", scope |-> scope, type |-> type,
                      interval |-> interval, plan |-> plan, todo |-> todo]]
      <4>1. PICK type : ask' = [ask EXCEPT ![c] =
              [step |-> "recalculate", scope |-> ask[c].scope, type |-> type,
                  interval |-> ask[c].plan[type],
                  plan |-> [t \in (DOMAIN ask[c].plan) \ {type} |-> ask[c].plan[t]],
                  todo |-> {[id |-> i, issued |-> records[i].issued] : i \in
                     {i \in PPERecords :
                        /\ records[i] # NoPPE
                        /\ records[i].type = type /\ records[i].status = "active"
                        /\ records[i].department \in Covers(ask[c].scope)}}]]
        BY <2>15 DEF SelectRecords, Ask
      <4>. QED
        BY <4>1, Zenon
    <3>. PICK scope, type, interval, plan, todo :
            ask' = [ask EXCEPT ![c] = [step |-> "recalculate", scope |-> scope, type |-> type,
                      interval |-> interval, plan |-> plan, todo |-> todo]]
      BY <3>2, Zenon
    <3>. DEFINE next == [step |-> "recalculate", scope |-> scope, type |-> type,
                         interval |-> interval, plan |-> plan, todo |-> todo]
    <3>3. "key" \notin DOMAIN next /\ next.step \notin EventSteps
      BY DEF EventSteps
    <3>. QED
      BY <2>15, <3>1, <3>3, KeylessStep DEF SelectRecords, NoMovement
  <2>16. ASSUME NEW c \in PPERequests, RecalculateRow(c) PROVE KeyInv'
    <3>1. "key" \notin DOMAIN ask[c] /\ ask[c].step = "recalculate"
      BY <2>16, NoKeyThere DEF RecalculateRow, PPEGoes, Unmoved
    <3>2. PICK todo : ask' = [ask EXCEPT ![c] = [ask[c] EXCEPT !.todo = todo]]
      BY <2>16 DEF RecalculateRow, Ask
    <3>. DEFINE next == [ask[c] EXCEPT !.todo = todo]
    <3>3. "key" \notin DOMAIN next /\ next.step \notin EventSteps
      BY <3>1 DEF EventSteps
    <3>. QED
      BY <2>16, <3>1, <3>2, <3>3, KeylessStep DEF RecalculateRow, NoMovement
  <2>17. ASSUME NEW c \in PPERequests, "key" \notin DOMAIN ask[c], NextType(c),
                UNCHANGED <<events, written, shared, unlogged>>
         PROVE  KeyInv'
    <3>1. CASE ask' = [ask EXCEPT ![c] = Resting]
      BY <2>0, <2>17, <3>1, KeylessStep
    <3>2. CASE ask' = [ask EXCEPT ![c] = [step |-> "select", scope |-> ask[c].scope,
                                          plan |-> ask[c].plan]]
      <4>. DEFINE next == [step |-> "select", scope |-> ask[c].scope, plan |-> ask[c].plan]
      <4>1. "key" \notin DOMAIN next /\ next.step \notin EventSteps
        BY DEF EventSteps
      <4>. QED
        BY <2>17, <3>2, <4>1, KeylessStep
    <3>. QED
      BY <2>17, <3>1, <3>2 DEF NextType, Rest, Planned, Ask
  <2>18. ASSUME NEW c \in PPERequests, TypeDone(c) \/ TypeFails(c) PROVE KeyInv'
    <3>1. "key" \notin DOMAIN ask[c]
      BY <2>18, NoKeyThere DEF TypeDone, TypeFails, PPEGoes, Unmoved
    <3>. QED
      BY <2>17, <2>18, <3>1 DEF TypeDone, TypeFails, PPELoses, NoMovement
  <2>19. ASSUME NEW c \in PPERequests, PPEStops(c) PROVE KeyInv'
    <3>1. \A k \in Keys \ unlogged' : Holds(c, k) => ask[c].step \in Unmoved
      BY <2>19 DEF PPEStops, Holds, KeyInv, KeysAreForms
    <3>. QED
      BY <2>0, <2>19, <3>1, QuietKey DEF PPEStops, PPELoses, Rest, Ask
  <2>20. ASSUME NEW c \in PPERequests, NEW next, "key" \notin DOMAIN next, next.step \notin EventSteps,
                \/ ask[c] = Resting
                \/ ask[c].step \in {"restore", "mark", "employ", "follow"},
                ask' = [ask EXCEPT ![c] = next], UNCHANGED <<events, written, shared, unlogged>>
         PROVE  KeyInv'
    <3>. "key" \notin DOMAIN ask[c]
      BY <2>0, <2>20, NoKeyThere DEF Unmoved
    <3>. QED
      BY <2>20, KeylessStep
  <2>21. ASSUME NEW c \in PPERequests, NEW i, NEW row, restore_record(c, i, row) PROVE KeyInv'
    <3>. DEFINE next == [step |-> "restore", id |-> i, row |-> row]
    <3>. "key" \notin DOMAIN next /\ next.step \notin EventSteps
      BY DEF EventSteps
    <3>. QED
      BY <2>20, <2>21 DEF restore_record, PPEBegins, Ask, NoMovement
  <2>22. ASSUME NEW c \in PPERequests, PutRecordBack(c) PROVE KeyInv'
    <3>. DEFINE next == [step |-> "mark", id |-> ask[c].id, row |-> ask[c].row]
    <3>. "key" \notin DOMAIN next /\ next.step \notin EventSteps
      BY DEF EventSteps
    <3>. QED
      BY <2>0, <2>20, <2>22 DEF PutRecordBack, PPEGoes, Rest, Ask, NoMovement
  <2>23. ASSUME NEW c \in PPERequests, NEW p, NEW d, edit_department(c, p, d) PROVE KeyInv'
    <3>. DEFINE next == [step |-> "employ", person |-> p, department |-> d, moved |-> d # works_in[p]]
    <3>. "key" \notin DOMAIN next /\ next.step \notin EventSteps
      BY DEF EventSteps
    <3>. QED
      BY <2>20, <2>23 DEF edit_department, PPEBegins, Ask, NoMovement
  <2>24. ASSUME NEW c \in PPERequests, EmployIn(c) PROVE KeyInv'
    <3>. DEFINE next == [step |-> "follow", person |-> ask[c].person, department |-> ask[c].department]
    <3>. "key" \notin DOMAIN next /\ next.step \notin EventSteps
      BY DEF EventSteps
    <3>. QED
      BY <2>0, <2>20, <2>24 DEF EmployIn, PPEGoes, Rest, Ask, NoMovement
  <2>25. ASSUME NEW c \in PPERequests, MarkBack(c) \/ FollowPerson(c) PROVE KeyInv'
    BY <2>0, <2>20, <2>25 DEF MarkBack, FollowPerson, PPEGoes, Rest, Ask, NoMovement
  <2>26. CASE UNCHANGED ppe_vars
    BY <2>26 DEF ppe_vars, KeyInv, KeysAreForms, KeyIsCounted, Holds
  <2>. QED
    BY <2>1, <2>2, <2>3, <2>4, <2>5, <2>6, <2>7, <2>8, <2>9, <2>10, <2>11, <2>12, <2>13, <2>14,
       <2>15, <2>16, <2>18, <2>19, <2>21, <2>22, <2>23, <2>24, <2>25, <2>26
       DEF PPENext, apply_ppe_matrix, apply_unread
<1>3. KeyInv => OneEventPerMovement
  BY DEF KeyInv, KeyIsCounted, Holds, OneEventPerMovement
<1>. QED
  BY <1>1, <1>2, <1>3, PTL DEF PPESpec
\* What a request holds at each of its steps.
Planning == {"select", "recalculate"}
\* What an edit may write into a row.
Edits == PPEPatch \cup [issued : IssueDates, expiry : Expiries] \cup [person : People, department : Departments] \cup {<<>>}
AskTyped(a) ==
    /\ a.step = "insert" => a.row \in PPERow
    /\ a.step = "update" => a.id \in PPERecords /\ a.patch \in Edits
    /\ a.step = "restore" => a.id \in recordIds /\ a.row \in PPERow
    /\ a.step = "mark" => a.id \in PPERecords
    /\ a.step = "matrix" => a.department \in Departments
    /\ a.step \in {"employ", "follow"} => a.person \in People /\ a.department \in Departments
    /\ "key" \in DOMAIN a => a.key \in Keys /\ a.step \in Unmoved \cup {"log"}
    /\ a.step \in EventSteps => "key" \in DOMAIN a
    /\ a.step \in {"check", "matrix"} => Form[a.key].kind = "issue"
    /\ a.step \in {"read", "move"} => Form[a.key].kind # "issue"
    /\ "plan" \in DOMAIN a <=> a.step \in Planning
    /\ a.step \in Planning =>
         a.scope \in Scopes /\ DOMAIN a.plan \subseteq Types /\ \A t \in DOMAIN a.plan : a.plan[t] \in Nat
    /\ a.step = "recalculate" =>
         /\ "todo" \in DOMAIN a /\ a.type \in Types /\ a.interval \in Nat
         /\ a.todo \subseteq [id : recordIds, issued : IssueDates]

\* Where the register and the matrix agree, a request that recalculates a place has
\* the interval the matrix gives it and the rows as they are, and one that issues
\* there has the expiry; a settled record has it, or somebody is about to write it.
Carried(row, i, place, c) ==
    \/ place \in Plans(c)
    \/ ask[c].step = "recalculate" /\ place \in Doing(c) /\ [id |-> i, issued |-> row.issued] \in ask[c].todo

PlanAgrees(c) ==
    \A t \in DOMAIN ask[c].plan, d \in Covers(ask[c].scope) :
        <<t, d>> \notin drifted => ask[c].plan[t] = Effective(t, d)
WorkAgrees(c) ==
    /\ \A d \in Covers(ask[c].scope) : <<ask[c].type, d>> \notin drifted => ask[c].interval = Effective(ask[c].type, d)
    /\ \A todo \in ask[c].todo : records[todo.id] # NoPPE /\ Place(records[todo.id]) \notin drifted =>
          Place(records[todo.id]) \in Doing(c) /\ records[todo.id].issued = todo.issued
StampAgrees(c) ==
    Place(ask[c].row) \notin drifted =>
        ask[c].row.expiry = Expiry(ask[c].row.issued, Effective(Place(ask[c].row)[1], Place(ask[c].row)[2]))
RequestAgrees(c) ==
    /\ "plan" \in DOMAIN ask[c] => PlanAgrees(c)
    /\ ask[c].step = "recalculate" => WorkAgrees(c)
    /\ ask[c].step = "insert" /\ "key" \in DOMAIN ask[c] => StampAgrees(c)
RecordAgrees(i) ==
    LET row == records[i]  place == Place(row) IN
    row # NoPPE /\ row.status = "active" /\ place \notin drifted =>
        \/ row.expiry = Expiry(row.issued, Effective(place[1], place[2]))
        \/ \E c \in PPERequests : Carried(row, i, place, c)

AsksTyped ==
    /\ DOMAIN ask = PPERequests /\ ask = [c \in PPERequests |-> ask[c]]
    /\ \A c \in PPERequests : AskTyped(ask[c])

\* The requests once one of them goes on.
LEMMA AskGoes ==
    ASSUME AsksTyped, NEW c \in PPERequests, NEW next, ask' = [ask EXCEPT ![c] = next],
           recordIds \subseteq recordIds', AskTyped(next)'
    PROVE  AsksTyped'
<1>1. ask'[c] = next /\ \A d \in PPERequests \ {c} : ask'[d] = ask[d]
  BY DEF AsksTyped
<1>2. DOMAIN ask' = PPERequests /\ ask' = [d \in PPERequests |-> ask'[d]]
  BY DEF AsksTyped
<1>3. ASSUME NEW d \in PPERequests PROVE AskTyped(ask[d])'
  <2>1. CASE d = c
    BY <1>1, <2>1 DEF AskTyped
  <2>2. CASE d # c
    <3>1. AskTyped(ask[d]) /\ ask'[d] = ask[d]
      BY <1>1, <2>2 DEF AsksTyped
    <3>. QED
      BY <3>1 DEF AskTyped
  <2>. QED
    BY <2>1, <2>2
<1>. QED
  BY <1>2, <1>3 DEF AsksTyped

\* What the parts of a state are.
LEMMA PPEParts ==
    ASSUME PPETypeOK
    PROVE  /\ \A i \in PPERecords : records[i] # NoPPE => records[i] \in PPERow /\ i \in recordIds
           /\ \A row \in PPERow : Place(row) \in Types \X Departments /\ Place(row)[1] = row.type
                                  /\ Place(row)[2] = row.department
           /\ \A k \in Keys : Form[k] \in Events
           /\ \A s \in Scopes : Covers(s) \subseteq Departments
           /\ \A t \in Types, d \in Departments : Effective(t, d) \in Nat
<1>1. \A i \in PPERecords : records[i] # NoPPE => records[i] \in PPERow /\ i \in recordIds
  BY DEF PPETypeOK
<1>2. \A row \in PPERow : Place(row) \in Types \X Departments /\ Place(row)[1] = row.type
                          /\ Place(row)[2] = row.department
  BY PPEAssumption DEF PPERow, Place
<1>3. \A k \in Keys : Form[k] \in Events
  BY PPEAssumption
<1>4. \A s \in Scopes : Covers(s) \subseteq Departments
  BY PPEAssumption DEF Scopes, Covers
<1>5. ASSUME NEW t \in Types, NEW d \in Departments PROVE Effective(t, d) \in Nat
  <2>1. \A s \in Scopes : matrix[<<t, s>>] \in Nat \cup {Unset}
    BY PPEAssumption DEF PPETypeOK, Matrices
  <2>2. Company \in Scopes /\ Separate \subseteq Scopes /\ Default[t] \in Nat
    BY PPEAssumption DEF Scopes
  <2>. QED
    BY <2>1, <2>2 DEF Effective
<1>. QED
  BY <1>1, <1>2, <1>3, <1>4, <1>5

\* A form is of the kind it says, and an edit leaves a row a row.
LEMMA FormParts ==
    ASSUME NEW form \in Events
    PROVE  /\ form.kind = "issue" => form.person \in People /\ form.type \in Types /\ form.date \in IssueDates
           /\ form.kind # "issue" => form.record \in PPERecords
           /\ form.kind \notin {"issue", "return"} =>
                form.patch \in [issued : IssueDates] \cup [expiry : Expiries] \cup [issued : IssueDates, expiry : Expiries]
<1>1. CASE form \in [kind : {"issue"}, person : People, type : Types, date : IssueDates]
  BY <1>1
<1>2. CASE form \in [kind : {"return"}, record : PPERecords]
  BY <1>2
<1>3. CASE form \in [kind : {"correction"}, record : PPERecords,
                     patch : [issued : IssueDates] \cup [expiry : Expiries] \cup [issued : IssueDates, expiry : Expiries]]
  BY <1>3
<1>. QED
  BY <1>1, <1>2, <1>3 DEF Events

LEMMA PatchedRow ==
    ASSUME NEW row \in PPERow, NEW patch \in Edits
    PROVE  Patched(row, patch) \in PPERow
<1>. DEFINE new == Patched(row, patch)
            fields == {"person", "department", "type", "issued", "expiry", "status"}
<1>1. row = [person |-> row.person, department |-> row.department, type |-> row.type, issued |-> row.issued,
             expiry |-> row.expiry, status |-> row.status]
      /\ row.person \in People /\ row.department \in Departments /\ row.type \in Types
      /\ row.issued \in IssueDates /\ row.expiry \in Expiries /\ row.status \in {"active", "returned"}
  BY DEF PPERow
<1>2. DOMAIN row = fields
  BY <1>1
<1>3. /\ DOMAIN patch \subseteq fields
      /\ "person" \in DOMAIN patch => patch.person \in People
      /\ "department" \in DOMAIN patch => patch.department \in Departments
      /\ "type" \in DOMAIN patch => patch.type \in Types
      /\ "issued" \in DOMAIN patch => patch.issued \in IssueDates
      /\ "expiry" \in DOMAIN patch => patch.expiry \in Expiries
      /\ "status" \in DOMAIN patch => patch.status \in {"active", "returned"}
  <2>1. CASE patch \in [issued : IssueDates]
    BY <2>1
  <2>2. CASE patch \in [expiry : Expiries]
    BY <2>2
  <2>3. CASE patch \in [status : {"active", "returned"}]
    BY <2>3
  <2>4. CASE patch \in [issued : IssueDates, expiry : Expiries]
    BY <2>4
  <2>5. CASE patch \in [person : People]
    BY <2>5
  <2>6. CASE patch \in [type : Types]
    BY <2>6
  <2>7. CASE patch \in [department : Departments]
    BY <2>7
  <2>8. CASE patch \in [person : People, department : Departments]
    BY <2>8
  <2>9. CASE patch = <<>>
    <3>1. DOMAIN patch = {}
      BY <2>9
    <3>. QED
      BY <3>1
  <2>. QED
    BY <2>1, <2>2, <2>3, <2>4, <2>5, <2>6, <2>7, <2>8, <2>9 DEF Edits, PPEPatch
<1>4. DOMAIN new = fields /\ new = [f \in fields |-> new[f]]
  BY <1>2 DEF Patched
<1>5. /\ new.person \in People /\ new.department \in Departments /\ new.type \in Types
      /\ new.issued \in IssueDates /\ new.expiry \in Expiries /\ new.status \in {"active", "returned"}
  BY <1>1, <1>2, <1>3 DEF Patched
<1>6. new = [person |-> new.person, department |-> new.department, type |-> new.type, issued |-> new.issued,
             expiry |-> new.expiry, status |-> new.status]
  BY <1>4
<1>. QED
  BY <1>5, <1>6 DEF PPERow

LEMMA StampedPatch ==
    ASSUME PPETypeOK, NEW row, NEW patch \in PPEPatch
    PROVE  Stamped(row, patch) \in Edits
<1>1. CASE "person" \notin DOMAIN patch
  BY <1>1 DEF Stamped, Edits
<1>2. CASE "person" \in DOMAIN patch
  <2>1. patch.person \in People
    BY <1>2 DEF PPEPatch
  <2>2. works_in[patch.person] \in Departments
    BY <2>1 DEF PPETypeOK
  <2>. QED
    BY <1>2, <2>1, <2>2 DEF Stamped, Edits
<1>. QED
  BY <1>1, <1>2

PPETyped == PPETypeOK /\ AsksTyped

\* A step that only moves a request on.
LEMMA TypedQuiet ==
    ASSUME PPETyped, NEW c \in PPERequests, NEW next, ask' = [ask EXCEPT ![c] = next],
           UNCHANGED <<works_in, bin, records, recordIds, matrix, settled>>, AskTyped(next)',
           events' \subseteq Keys, written' \in [Keys -> Nat], shared' \subseteq Keys, unlogged' \subseteq Keys,
           drifted' \subseteq Types \X Departments,
           ppeCalls' \in 0 .. MaxPPECalls, ppeLost' \in 0 .. MaxPPELost
    PROVE  PPETyped'
<1>1. AsksTyped'
  BY AskGoes DEF PPETyped
<1>2. PPETypeOK'
  BY DEF PPETyped, PPETypeOK, Matrices
<1>. QED
  BY <1>1, <1>2 DEF PPETyped

LEMMA CountsTyped ==
    ASSUME PPETyped, NEW c \in PPERequests
    PROVE  /\ PPEBegins(c) => ppeCalls' \in 0 .. MaxPPECalls
           /\ PPELoses(c) => ppeLost' \in 0 .. MaxPPELost
           /\ ppeLost < MaxPPELost /\ ppeLost' = ppeLost + 1 => ppeLost' \in 0 .. MaxPPELost
           /\ ppeCalls \in 0 .. MaxPPECalls /\ ppeLost \in 0 .. MaxPPELost
BY PPEBoundAssumption DEF PPETyped, PPETypeOK, PPEBegins, PPELoses

\* Requests that have nothing yet, or only a key.
LEMMA PlainAsks ==
    ASSUME PPETyped
    PROVE  /\ AskTyped(Resting)'
           /\ \A k \in Keys : Form[k].kind = "issue" => AskTyped([step |-> "check", key |-> k])'
           /\ \A k \in Keys, d \in Departments :
                Form[k].kind = "issue" => AskTyped([step |-> "matrix", key |-> k, department |-> d])'
           /\ \A k \in Keys, step \in {"read", "move"} :
                Form[k].kind # "issue" => AskTyped([step |-> step, key |-> k])'
           /\ \A k \in Keys : AskTyped([step |-> "log", key |-> k])'
           /\ \A k \in Keys, row \in PPERow : AskTyped([step |-> "insert", key |-> k, row |-> row])'
           /\ \A row \in PPERow : AskTyped([step |-> "insert", row |-> row])'
           /\ \A i \in PPERecords, patch \in Edits : AskTyped([step |-> "update", id |-> i, patch |-> patch])'
           /\ \A i \in recordIds', row \in PPERow : AskTyped([step |-> "restore", id |-> i, row |-> row])'
           /\ \A i \in PPERecords, row \in PPERow : AskTyped([step |-> "mark", id |-> i, row |-> row])'
           /\ \A p \in People, d \in Departments, moved \in BOOLEAN :
                AskTyped([step |-> "employ", person |-> p, department |-> d, moved |-> moved])'
           /\ \A p \in People, d \in Departments : AskTyped([step |-> "follow", person |-> p, department |-> d])'
<1>1. AskTyped(Resting)'
  BY DEF AskTyped, Resting, EventSteps, Planning, Unmoved
<1>2. ASSUME NEW k \in Keys, Form[k].kind = "issue", NEW d \in Departments
      PROVE  AskTyped([step |-> "matrix", key |-> k, department |-> d])'
  BY <1>2 DEF AskTyped, EventSteps, Planning, Unmoved
<1>8. ASSUME NEW k \in Keys, Form[k].kind = "issue"
      PROVE  AskTyped([step |-> "check", key |-> k])'
  BY <1>8 DEF AskTyped, EventSteps, Planning, Unmoved
<1>3. ASSUME NEW k \in Keys, NEW step \in {"read", "move"}, Form[k].kind # "issue"
      PROVE  AskTyped([step |-> step, key |-> k])'
  BY <1>3 DEF AskTyped, EventSteps, Planning, Unmoved
<1>4. ASSUME NEW k \in Keys PROVE AskTyped([step |-> "log", key |-> k])'
  BY DEF AskTyped, EventSteps, Planning, Unmoved
<1>5. ASSUME NEW k \in Keys, NEW row \in PPERow PROVE AskTyped([step |-> "insert", key |-> k, row |-> row])'
  BY DEF AskTyped, EventSteps, Planning, Unmoved
<1>6. ASSUME NEW row \in PPERow PROVE AskTyped([step |-> "insert", row |-> row])'
  BY DEF AskTyped, EventSteps, Planning, Unmoved
<1>7. ASSUME NEW i \in PPERecords, NEW patch \in Edits
      PROVE  AskTyped([step |-> "update", id |-> i, patch |-> patch])'
  BY DEF AskTyped, EventSteps, Planning, Unmoved
<1>9. ASSUME NEW i \in recordIds', NEW row \in PPERow
      PROVE  AskTyped([step |-> "restore", id |-> i, row |-> row])'
  BY DEF AskTyped, EventSteps, Planning, Unmoved
<1>10. ASSUME NEW i \in PPERecords, NEW row \in PPERow
       PROVE  AskTyped([step |-> "mark", id |-> i, row |-> row])'
  BY DEF AskTyped, EventSteps, Planning, Unmoved
<1>11. ASSUME NEW p \in People, NEW d \in Departments, NEW moved \in BOOLEAN
       PROVE  AskTyped([step |-> "employ", person |-> p, department |-> d, moved |-> moved])'
  BY DEF AskTyped, EventSteps, Planning, Unmoved
<1>12. ASSUME NEW p \in People, NEW d \in Departments
       PROVE  AskTyped([step |-> "follow", person |-> p, department |-> d])'
  BY DEF AskTyped, EventSteps, Planning, Unmoved
<1>. QED
  BY <1>1, <1>2, <1>3, <1>4, <1>5, <1>6, <1>7, <1>8, <1>9, <1>10, <1>11, <1>12

\* A request that is about to recalculate, or does.
LEMMA PlanAsked ==
    ASSUME NEW scope \in Scopes, NEW plan, DOMAIN plan \subseteq Types, \A t \in DOMAIN plan : plan[t] \in Nat
    PROVE  AskTyped([step |-> "select", scope |-> scope, plan |-> plan])'
BY DEF AskTyped, EventSteps, Planning, Unmoved

LEMMA WorkAsked ==
    ASSUME NEW scope \in Scopes, NEW plan, DOMAIN plan \subseteq Types, \A t \in DOMAIN plan : plan[t] \in Nat,
           NEW type \in Types, NEW interval \in Nat, NEW todo, todo \subseteq [id : recordIds', issued : IssueDates]
    PROVE  AskTyped([step |-> "recalculate", scope |-> scope, type |-> type, interval |-> interval,
                     plan |-> plan, todo |-> todo])'
BY DEF AskTyped, EventSteps, Planning, Unmoved

\* The places a request's plan and work are about.
LEMMA PlacesTyped ==
    ASSUME PPETyped, NEW c \in PPERequests
    PROVE  Plans(c) \subseteq Types \X Departments /\ Doing(c) \subseteq Types \X Departments
           /\ Stamps(c) \subseteq Types \X Departments
<1>1. AskTyped(ask[c])
  BY DEF PPETyped, AsksTyped
<1>2. Plans(c) \subseteq Types \X Departments
  BY <1>1, PPEParts DEF PPETyped, Plans, AskTyped, Planning
<1>3. Doing(c) \subseteq Types \X Departments
  BY <1>1, PPEParts DEF PPETyped, Doing, AskTyped, Planning
<1>4. Stamps(c) \subseteq Types \X Departments
  BY <1>1, PPEParts DEF PPETyped, Stamps, AskTyped
<1>. QED
  BY <1>2, <1>3, <1>4

\* Records edited, moved, returned, removed or put back.
LEMMA EditsTyped ==
    ASSUME PPETyped, Edited, records' \in [PPERecords -> PPERow \cup {NoPPE}],
           \A j \in PPERecords : records'[j] # NoPPE => j \in recordIds
    PROVE  settled' \subseteq recordIds /\ drifted' \subseteq Types \X Departments
<1>1. \A j \in PPERecords : records'[j] # NoPPE => Place(records'[j]) \in Types \X Departments
  BY PPEParts DEF PPETyped
<1>. QED
  BY <1>1 DEF Edited, PPETyped, PPETypeOK

LEMMA EditTyped ==
    ASSUME PPETyped, NEW i \in recordIds, Edited,
           NEW new \in PPERow \cup {NoPPE}, records' = [records EXCEPT ![i] = new]
    PROVE  /\ records' \in [PPERecords -> PPERow \cup {NoPPE}]
           /\ \A j \in PPERecords : records'[j] # NoPPE => j \in recordIds
           /\ settled' \subseteq recordIds /\ drifted' \subseteq Types \X Departments
<1>1. records' \in [PPERecords -> PPERow \cup {NoPPE}]
  BY DEF PPETyped, PPETypeOK
<1>2. \A j \in PPERecords : records'[j] # NoPPE => j \in recordIds
  BY DEF PPETyped, PPETypeOK
<1>. QED
  BY <1>1, <1>2, EditsTyped

LEMMA TypedWith ==
    ASSUME PPETyped, NEW c \in PPERequests, NEW next, ask' = [ask EXCEPT ![c] = next], AskTyped(next)',
           recordIds \subseteq recordIds', recordIds' \subseteq PPERecords,
           works_in' \in [People -> Departments], bin' \in [PPERecords -> SUBSET PPERow],
           \A j \in PPERecords : bin'[j] # {} => j \in recordIds',
           records' \in [PPERecords -> PPERow \cup {NoPPE}],
           \A j \in PPERecords : records'[j] # NoPPE => j \in recordIds',
           settled' \subseteq recordIds', matrix' \in Matrices,
           events' \subseteq Keys, written' \in [Keys -> Nat], shared' \subseteq Keys, unlogged' \subseteq Keys,
           drifted' \subseteq Types \X Departments,
           ppeCalls' \in 0 .. MaxPPECalls, ppeLost' \in 0 .. MaxPPELost
    PROVE  PPETyped'
<1>1. AsksTyped'
  BY AskGoes DEF PPETyped
<1>2. PPETypeOK'
  BY DEF PPETypeOK, Matrices
<1>. QED
  BY <1>1, <1>2 DEF PPETyped

LEMMA TypedSame ==
    ASSUME PPETyped
    PROVE  /\ records \in [PPERecords -> PPERow \cup {NoPPE}] /\ recordIds \subseteq PPERecords
           /\ works_in \in [People -> Departments] /\ bin \in [PPERecords -> SUBSET PPERow]
           /\ \A j \in PPERecords : records[j] # NoPPE \/ bin[j] # {} => j \in recordIds
           /\ settled \subseteq recordIds /\ matrix \in Matrices /\ events \subseteq Keys
           /\ written \in [Keys -> Nat] /\ shared \subseteq Keys /\ unlogged \subseteq Keys
           /\ drifted \subseteq Types \X Departments
           /\ ppeCalls \in 0 .. MaxPPECalls /\ ppeLost \in 0 .. MaxPPELost
           /\ DOMAIN ask = PPERequests /\ ask = [c \in PPERequests |-> ask[c]]
           /\ \A c \in PPERequests : AskTyped(ask[c])
BY DEF PPETyped, PPETypeOK, AsksTyped

LEMMA ByHandTyped ==
    ASSUME PPETyped, NEW c \in PPERequests
    PROVE  /\ \A row \in PPERow : create_ppe_record(c, row) => PPETyped'
           /\ \A i \in PPERecords, patch \in Patches : update_ppe_record(c, i, patch) => PPETyped'
           /\ \A i \in PPERecords : delete_ppe_record(c, i) => PPETyped'
           /\ UpdateRecord(c) => PPETyped'
<1>0. AskTyped(ask[c])
  BY TypedSame
<1>1. ASSUME NEW row \in PPERow, create_ppe_record(c, row) PROVE PPETyped'
  BY <1>1, TypedSame, TypedQuiet, PlainAsks, CountsTyped DEF create_ppe_record, Ask, Untouched, NoMovement, NobodyMoved
<1>2. ASSUME NEW i \in PPERecords, NEW patch \in Patches, update_ppe_record(c, i, patch) PROVE PPETyped'
  <2>1. PICK edit \in Edits : edit = Stamped(records[i], patch)
    BY StampedPatch, PPEAssumption DEF PPETyped
  <2>. DEFINE next == [step |-> "update", id |-> i, patch |-> edit]
  <2>2. AskTyped(next)'
    BY PlainAsks
  <2>3. ask' = [ask EXCEPT ![c] = next]
    BY <1>2, <2>1 DEF update_ppe_record, Ask
  <2>. HIDE DEF next
  <2>. QED
    BY <1>2, <2>2, <2>3, TypedSame, TypedQuiet, CountsTyped DEF update_ppe_record, Untouched, NoMovement, NobodyMoved
<1>3. ASSUME NEW i \in PPERecords, delete_ppe_record(c, i) PROVE PPETyped'
  <2>1. ask' = [ask EXCEPT ![c] = Resting] /\ i \in recordIds /\ records[i] \in PPERow
    BY <1>3, TypedSame DEF delete_ppe_record, PPEBegins
  <2>2. /\ records' \in [PPERecords -> PPERow \cup {NoPPE}]
        /\ \A j \in PPERecords : records'[j] # NoPPE => j \in recordIds
        /\ settled' \subseteq recordIds /\ drifted' \subseteq Types \X Departments
    BY <1>3, <2>1, EditTyped DEF delete_ppe_record
  <2>3. bin' \in [PPERecords -> SUBSET PPERow] /\ \A j \in PPERecords : bin'[j] # {} => j \in recordIds
    BY <1>3, <2>1, TypedSame DEF delete_ppe_record
  <2>. QED
    BY <1>3, <2>1, <2>2, <2>3, TypedSame, TypedWith, PlainAsks, CountsTyped DEF delete_ppe_record, NoMovement
<1>4. ASSUME UpdateRecord(c) PROVE PPETyped'
  <2>. DEFINE i == ask[c].id
              new == Patched(records[i], ask[c].patch)
  <2>1. i \in PPERecords /\ ask[c].patch \in Edits
    BY <1>0, <1>4 DEF UpdateRecord, PPEGoes, AskTyped
  <2>2. CASE Untouched /\ UNCHANGED records
    BY <1>4, <2>2, TypedSame, TypedQuiet, PlainAsks DEF UpdateRecord, PPEGoes, Rest, Ask, Untouched, NoMovement, NobodyMoved
  <2>3. CASE records[i] # NoPPE /\ records' = [records EXCEPT ![i] = new] /\ Edited
    <3>1. new \in PPERow /\ i \in recordIds
      BY <2>1, <2>3, PatchedRow, TypedSame
    <3>. HIDE DEF new
    <3>2. /\ records' \in [PPERecords -> PPERow \cup {NoPPE}]
          /\ \A j \in PPERecords : records'[j] # NoPPE => j \in recordIds
          /\ settled' \subseteq recordIds /\ drifted' \subseteq Types \X Departments
      BY <2>3, <3>1, EditTyped
    <3>. QED
      BY <1>4, <3>2, TypedSame, TypedWith, PlainAsks, CountsTyped DEF UpdateRecord, PPEGoes, Rest, Ask, NoMovement, NobodyMoved
  <2>. QED
    BY <1>4, <2>2, <2>3 DEF UpdateRecord
<1>. QED
  BY <1>1, <1>2, <1>3, <1>4

\* What Recently deleted and the employee register write is typed.
LEMMA ElsewhereTyped ==
    ASSUME PPETyped, NEW c \in PPERequests
    PROVE  /\ \A i \in PPERecords : \A row : restore_record(c, i, row) => PPETyped'
           /\ \A p \in People, d \in Departments : edit_department(c, p, d) => PPETyped'
           /\ PutRecordBack(c) \/ MarkBack(c) \/ EmployIn(c) \/ FollowPerson(c) => PPETyped'
<1>0. AskTyped(ask[c])
  BY TypedSame
<1>1. ASSUME NEW i \in PPERecords, NEW row, restore_record(c, i, row) PROVE PPETyped'
  <2>1. i \in recordIds /\ row \in PPERow /\ recordIds' = recordIds
    BY <1>1, TypedSame DEF restore_record
  <2>. QED
    BY <1>1, <2>1, TypedSame, TypedQuiet, PlainAsks, CountsTyped DEF restore_record, Ask, Untouched, NoMovement, NobodyMoved
<1>2. ASSUME NEW p \in People, NEW d \in Departments, edit_department(c, p, d) PROVE PPETyped'
  BY <1>2, TypedSame, TypedQuiet, PlainAsks, CountsTyped DEF edit_department, Ask, Untouched, NoMovement, NobodyMoved
<1>3. ASSUME PutRecordBack(c) PROVE PPETyped'
  <2>. DEFINE i == ask[c].id
              row == ask[c].row
  <2>1. i \in recordIds /\ i \in PPERecords /\ row \in PPERow
    BY <1>0, <1>3, TypedSame DEF PutRecordBack, PPEGoes, AskTyped
  <2>. HIDE DEF i, row
  <2>2. CASE Rest(c) /\ Untouched /\ UNCHANGED records
    BY <1>3, <2>2, TypedSame, TypedQuiet, PlainAsks DEF PutRecordBack, PPEGoes, Rest, Ask, Untouched, NoMovement, NobodyMoved
  <2>3. CASE /\ records' = [records EXCEPT ![i] = row] /\ Edited
             /\ Ask(c, [step |-> "mark", id |-> i, row |-> row])
    <3>1. /\ records' \in [PPERecords -> PPERow \cup {NoPPE}]
          /\ \A j \in PPERecords : records'[j] # NoPPE => j \in recordIds
          /\ settled' \subseteq recordIds /\ drifted' \subseteq Types \X Departments
      BY <2>1, <2>3, EditTyped
    <3>. QED
      BY <1>3, <2>1, <2>3, <3>1, TypedSame, TypedWith, PlainAsks DEF PutRecordBack, PPEGoes, Ask, NoMovement, NobodyMoved
  <2>. QED
    BY <1>3, <2>2, <2>3 DEF PutRecordBack, i, row
<1>4. ASSUME MarkBack(c) PROVE PPETyped'
  <2>1. bin' \in [PPERecords -> SUBSET PPERow] /\ \A j \in PPERecords : bin'[j] # {} => j \in recordIds
    BY <1>4, TypedSame DEF MarkBack
  <2>. QED
    BY <1>4, <2>1, TypedSame, TypedWith, PlainAsks DEF MarkBack, PPEGoes, Rest, Ask, Untouched, NoMovement
<1>5. ASSUME EmployIn(c) PROVE PPETyped'
  <2>1. ask[c].person \in People /\ ask[c].department \in Departments
    BY <1>0, <1>5 DEF EmployIn, PPEGoes, AskTyped
  <2>2. works_in' \in [People -> Departments]
    BY <1>5, <2>1, TypedSame DEF EmployIn
  <2>3. \E next : ask' = [ask EXCEPT ![c] = next] /\ AskTyped(next)'
    BY <1>5, <2>1, PlainAsks DEF EmployIn, Rest, Ask
  <2>. QED
    BY <1>5, <2>2, <2>3, TypedSame, TypedWith DEF EmployIn, PPEGoes, Untouched, NoMovement
<1>6. ASSUME FollowPerson(c) PROVE PPETyped'
  <2>1. ask[c].department \in Departments
    BY <1>0, <1>6 DEF FollowPerson, PPEGoes, AskTyped
  <2>2. \A row \in PPERow : [row EXCEPT !.department = ask[c].department] \in PPERow
    BY <2>1 DEF PPERow
  <2>3. /\ records' \in [PPERecords -> PPERow \cup {NoPPE}]
        /\ \A j \in PPERecords : records'[j] # NoPPE => j \in recordIds
    BY <1>6, <2>2, TypedSame DEF FollowPerson
  <2>4. settled' \subseteq recordIds /\ drifted' \subseteq Types \X Departments
    BY <1>6, <2>3, EditsTyped DEF FollowPerson
  <2>. QED
    BY <1>6, <2>3, <2>4, TypedSame, TypedWith, PlainAsks DEF FollowPerson, PPEGoes, Rest, Ask, NoMovement, NobodyMoved
<1>. QED
  BY <1>1, <1>2, <1>3, <1>4, <1>5, <1>6

LEMMA ExpiryTyped == \A date \in IssueDates, interval \in Nat : Expiry(date, interval) \in Expiries
<1>. SUFFICES ASSUME NEW date \in IssueDates, NEW interval \in Nat PROVE Expiry(date, interval) \in Int
  BY DEF Expiries
<1>1. date \in Nat
  BY PPEAssumption
<1>. QED
  BY <1>1 DEF Expiry, NoExpiry

LEMMA UnreadTyped == ASSUME PPETyped, NEW type \in Types PROVE Unread(type) \subseteq Nat
<1>1. \A s \in Scopes : matrix[<<type, s>>] \in Intervals \cup {Unset}
  BY TypedSame DEF Matrices
<1>2. Intervals \subseteq Nat /\ Default[type] \in Nat
  BY PPEAssumption
<1>. QED
  BY <1>1, <1>2 DEF Unread

LEMMA EventsTyped ==
    ASSUME PPETyped, NEW c \in PPERequests
    PROVE  /\ \A k \in Keys : record_ppe_event(c, k) \/ KeyUnread(c, k) => PPETyped'
           /\ CheckIssue(c) \/ ReadMatrix(c) \/ ReadRecord(c) \/ LogEvent(c) \/ MatrixUnread(c) => PPETyped'
<1>0. AskTyped(ask[c]) /\ (ask[c].step \in EventSteps => ask[c].key \in Keys /\ Form[ask[c].key] \in Events)
  BY TypedSame, PPEAssumption DEF AskTyped
<1>1. ASSUME NEW k \in Keys, record_ppe_event(c, k) \/ KeyUnread(c, k) PROVE PPETyped'
  <2>1. shared' \subseteq Keys
    BY <1>1, TypedSame DEF record_ppe_event, KeyUnread
  <2>2. \E next : ask' = [ask EXCEPT ![c] = next] /\ AskTyped(next)'
    BY <1>1, PlainAsks DEF record_ppe_event, KeyUnread, TakesForm, Ask
  <2>3. TakesForm(c, k) /\ ppeLost' \in 0 .. MaxPPELost
    BY <1>1, CountsTyped DEF record_ppe_event, KeyUnread
  <2>. QED
    BY <2>1, <2>2, <2>3, TypedSame, TypedQuiet, CountsTyped DEF TakesForm, Untouched, NobodyMoved
<1>2. ASSUME CheckIssue(c) PROVE PPETyped'
  <2>1. ask[c].key \in Keys /\ Form[ask[c].key].kind = "issue"
    BY <1>0, <1>2 DEF CheckIssue, PPEGoes, AskTyped, EventSteps
  <2>3. works_in[Form[ask[c].key].person] \in Departments
    BY <2>1, FormParts, PPEAssumption, TypedSame
  <2>2. \E next : ask' = [ask EXCEPT ![c] = next] /\ AskTyped(next)'
    BY <1>2, <2>1, <2>3, PlainAsks DEF CheckIssue, Ask, Rest
  <2>. QED
    BY <1>2, <2>2, TypedSame, TypedQuiet DEF CheckIssue, Untouched, NoMovement, NobodyMoved, PPEGoes
<1>3. ASSUME ReadMatrix(c) PROVE PPETyped'
  <2>. DEFINE form == Form[ask[c].key]
              department == ask[c].department
              interval == Effective(form.type, department)
  <2>1. ask[c].key \in Keys /\ form.kind = "issue" /\ form \in Events /\ department \in Departments
    BY <1>0, <1>3 DEF ReadMatrix, PPEGoes, AskTyped, EventSteps
  <2>2. form.person \in People /\ form.type \in Types /\ form.date \in IssueDates
    BY <2>1, FormParts
  <2>3. interval \in Nat
    BY <2>1, <2>2, PPEParts, PPEAssumption DEF PPETyped
  <2>4. Expiry(form.date, interval) \in Expiries
    BY <2>2, <2>3, ExpiryTyped
  <2>5. IssueRow(form, department, Expiry(form.date, interval)) \in PPERow
    BY <2>1, <2>2, <2>4 DEF IssueRow, PPERow
  <2>6. \E next : ask' = [ask EXCEPT ![c] = next] /\ AskTyped(next)'
    BY <1>3, <2>1, <2>5, PlainAsks DEF ReadMatrix, Ask
  <2>. QED
    BY <1>3, <2>6, TypedSame, TypedQuiet DEF ReadMatrix, Untouched, NoMovement, NobodyMoved, PPEGoes
<1>4. ASSUME ReadRecord(c) PROVE PPETyped'
  <2>1. ask[c].key \in Keys /\ Form[ask[c].key].kind # "issue"
    BY <1>0, <1>4 DEF ReadRecord, PPEGoes, AskTyped, EventSteps
  <2>2. \E next : ask' = [ask EXCEPT ![c] = next] /\ AskTyped(next)'
    BY <1>4, <2>1, PlainAsks DEF ReadRecord, Ask, Rest
  <2>. QED
    BY <1>4, <2>2, TypedSame, TypedQuiet DEF ReadRecord, Untouched, NoMovement, NobodyMoved, PPEGoes
<1>5. ASSUME LogEvent(c) PROVE PPETyped'
  <2>1. ask[c].key \in Keys
    BY <1>0, <1>5 DEF LogEvent, PPEGoes, EventSteps
  <2>. QED
    BY <1>5, <2>1, TypedSame, TypedQuiet, PlainAsks DEF LogEvent, Untouched, NoMovement, NobodyMoved, PPEGoes, Rest, Ask
<1>6. ASSUME MatrixUnread(c) PROVE PPETyped'
  <2>. DEFINE form == Form[ask[c].key]
              department == ask[c].department
  <2>1. ask[c].key \in Keys /\ form.kind = "issue" /\ form \in Events /\ department \in Departments
    BY <1>0, <1>6 DEF MatrixUnread, AskTyped, EventSteps
  <2>2. form.person \in People /\ form.type \in Types /\ form.date \in IssueDates
    BY <2>1, FormParts
  <2>3. Unread(form.type) \subseteq Nat
    BY <2>2, UnreadTyped
  <2>4. PICK interval \in Nat : ask' = [ask EXCEPT ![c] = [step |-> "insert", key |-> ask[c].key,
                                                           row |-> IssueRow(form, department, Expiry(form.date, interval))]]
    BY <1>6, <2>3 DEF MatrixUnread, Ask
  <2>5. \A e \in Expiries : IssueRow(form, department, e) \in PPERow
    BY <2>1, <2>2 DEF IssueRow, PPERow
  <2>6. Expiry(form.date, interval) \in Expiries
    BY <2>2, ExpiryTyped
  <2>7. drifted' \subseteq Types \X Departments
    BY <1>6, <2>1, <2>2, TypedSame DEF MatrixUnread
  <2>. QED
    BY <1>6, <2>1, <2>4, <2>5, <2>6, <2>7, TypedSame, TypedQuiet, PlainAsks, CountsTyped DEF MatrixUnread, PPELoses, NobodyMoved
<1>. QED
  BY <1>1, <1>2, <1>3, <1>4, <1>5, <1>6

LEMMA MovesTyped ==
    ASSUME PPETyped, NEW c \in PPERequests
    PROVE  InsertRecord(c) \/ MoveRecord(c) => PPETyped'
<1>0. AskTyped(ask[c])
  BY TypedSame
<1>1. ASSUME InsertRecord(c) PROVE PPETyped'
  <2>. DEFINE row == ask[c].row
  <2>1. row \in PPERow /\ ("key" \in DOMAIN ask[c] => ask[c].key \in Keys)
    BY <1>0, <1>1 DEF InsertRecord, PPEGoes, AskTyped
  <2>. HIDE DEF row
  <2>2. CASE Rest(c) /\ UNCHANGED <<records, recordIds, written, settled>>
    BY <1>1, <2>2, TypedSame, TypedQuiet, PlainAsks DEF InsertRecord, PPEGoes, Rest, Ask, NobodyMoved
  <2>3. ASSUME NEW i \in PPERecords \ recordIds,
               records' = [records EXCEPT ![i] = row], recordIds' = recordIds \cup {i},
               IF "key" \in DOMAIN ask[c]
                 THEN /\ written' = [written EXCEPT ![ask[c].key] = @ + 1]
                      /\ settled' = settled \cup {i}
                      /\ Ask(c, [step |-> "log", key |-> ask[c].key])
                 ELSE Rest(c) /\ UNCHANGED <<written, settled>>
        PROVE  PPETyped'
    <3>1. records' \in [PPERecords -> PPERow \cup {NoPPE}]
          /\ \A j \in PPERecords : records'[j] # NoPPE => j \in recordIds'
      BY <2>1, <2>3, TypedSame
    <3>2. recordIds' \subseteq PPERecords /\ recordIds \subseteq recordIds' /\ settled' \subseteq recordIds'
      BY <2>3, TypedSame
    <3>3. written' \in [Keys -> Nat] /\ \E next : ask' = [ask EXCEPT ![c] = next] /\ AskTyped(next)'
      <4>1. CASE "key" \in DOMAIN ask[c]
        BY <2>1, <2>3, <4>1, TypedSame, PlainAsks DEF Ask
      <4>2. CASE "key" \notin DOMAIN ask[c]
        BY <2>3, <4>2, TypedSame, PlainAsks DEF Rest, Ask
      <4>. QED
        BY <4>1, <4>2
    <3>. QED
      BY <1>1, <3>1, <3>2, <3>3, TypedSame, TypedWith DEF InsertRecord, PPEGoes, NobodyMoved
  <2>. QED
    BY <1>1, <2>2, <2>3 DEF InsertRecord, row
<1>2. ASSUME MoveRecord(c) PROVE PPETyped'
  <2>. DEFINE form == Form[ask[c].key]
              i == form.record
              moved == IF form.kind = "return" THEN [records[i] EXCEPT !.status = "returned"]
                       ELSE Patched(records[i], form.patch)
  <2>1. ask[c].key \in Keys /\ form.kind # "issue" /\ form \in Events
    BY <1>0, <1>2, PPEAssumption DEF MoveRecord, PPEGoes, AskTyped, EventSteps
  <2>2. i \in PPERecords
        /\ (form.kind # "return" => form.patch \in Edits)
    BY <2>1, FormParts DEF Edits, PPEPatch
  <2>3. records[i] # NoPPE => moved \in PPERow
    <3>1. records[i] # NoPPE => records[i] \in PPERow
      BY <2>2, PPEParts DEF PPETyped
    <3>2. CASE form.kind = "return"
      BY <3>1, <3>2 DEF PPERow
    <3>3. CASE form.kind # "return"
      BY <2>2, <3>1, <3>3, PatchedRow
    <3>. QED
      BY <3>2, <3>3
  <2>4. CASE Rest(c) /\ Untouched /\ UNCHANGED <<records, written>>
    BY <1>2, <2>4, TypedSame, TypedQuiet, PlainAsks DEF MoveRecord, PPEGoes, Rest, Ask, Untouched, NobodyMoved
  <2>5. CASE /\ Ask(c, [step |-> "log", key |-> ask[c].key])
             /\ written' = [written EXCEPT ![ask[c].key] = @ + 1]
             /\ IF records[i] = NoPPE THEN Untouched /\ UNCHANGED records
                ELSE records' = [records EXCEPT ![i] = moved] /\ Edited
    <3>. HIDE DEF moved, i
    <3>1. /\ records' \in [PPERecords -> PPERow \cup {NoPPE}]
          /\ \A j \in PPERecords : records'[j] # NoPPE => j \in recordIds
          /\ settled' \subseteq recordIds /\ drifted' \subseteq Types \X Departments
      <4>1. CASE records[i] = NoPPE
        BY <2>5, <4>1, TypedSame DEF Untouched
      <4>2. CASE records[i] # NoPPE
        BY <2>2, <2>3, <2>5, <4>2, TypedSame, EditTyped
      <4>. QED
        BY <4>1, <4>2
    <3>2. written' \in [Keys -> Nat]
      BY <2>1, <2>5, TypedSame
    <3>3. ask' = [ask EXCEPT ![c] = [step |-> "log", key |-> ask[c].key]]
      BY <2>5 DEF Ask
    <3>4. UNCHANGED <<works_in, bin, recordIds, events, matrix, shared, unlogged, ppeCalls, ppeLost>>
      BY <1>2 DEF MoveRecord, PPEGoes, NobodyMoved
    <3>. QED
      BY <2>1, <3>1, <3>2, <3>3, <3>4, TypedSame, TypedWith, PlainAsks
  <2>. QED
    BY <1>2, <2>4, <2>5 DEF MoveRecord
<1>. QED
  BY <1>1, <1>2

LEMMA MatrixTyped ==
    ASSUME PPETyped, NEW c \in PPERequests
    PROVE  /\ \A t \in Types, s \in Scopes, n \in Intervals : set_ppe_matrix_entry(c, t, s, n) => PPETyped'
           /\ \A types \in SUBSET Types, s \in Scopes : apply_ppe_matrix(c, types, s) => PPETyped'
           /\ \A t \in Types, s \in Scopes : apply_unread(c, t, s) => PPETyped'
<1>0. \A s \in Scopes : Covers(s) \subseteq Departments
  BY PPEParts DEF PPETyped
<1>1. ASSUME NEW t \in Types, NEW s \in Scopes, NEW n \in Intervals, set_ppe_matrix_entry(c, t, s, n)
      PROVE  PPETyped'
  <2>. DEFINE plan == [u \in {t} |-> n]
  <2>1. n \in Nat
    BY PPEAssumption
  <2>2. DOMAIN plan \subseteq Types /\ \A u \in DOMAIN plan : plan[u] \in Nat
    BY <2>1
  <2>. HIDE DEF plan
  <2>3. AskTyped([step |-> "select", scope |-> s, plan |-> plan])'
    BY <2>2, PlanAsked
  <2>4. ask' = [ask EXCEPT ![c] = [step |-> "select", scope |-> s, plan |-> plan]]
    BY <1>1 DEF set_ppe_matrix_entry, Planned, Ask, plan
  <2>5. matrix' \in Matrices
    BY <1>1, TypedSame DEF set_ppe_matrix_entry, Matrices
  <2>6. drifted' \subseteq Types \X Departments
    <3>1. drifted' = Follows(t, s, PPERequests \ {c})
      BY <1>1 DEF set_ppe_matrix_entry
    <3>2. {t} \X Covers(s) \subseteq Types \X Departments
      BY <1>0
    <3>. QED
      BY <3>1, <3>2, TypedSame DEF Follows
  <2>. QED
    BY <1>1, <2>3, <2>4, <2>5, <2>6, TypedSame, TypedWith, CountsTyped DEF set_ppe_matrix_entry, NoMovement, NobodyMoved
<1>2. ASSUME NEW s \in Scopes, NEW plan, DOMAIN plan \subseteq Types, \A u \in DOMAIN plan : plan[u] \in Nat,
             Applies(c, s, plan), ppeLost' \in 0 .. MaxPPELost
      PROVE  PPETyped'
  <2>1. AskTyped([step |-> "select", scope |-> s, plan |-> plan])'
    BY <1>2, PlanAsked
  <2>2. ask' = [ask EXCEPT ![c] = [step |-> "select", scope |-> s, plan |-> plan]]
    BY <1>2 DEF Applies, Planned, Ask
  <2>3. drifted' \subseteq Types \X Departments
    <3>1. (DOMAIN plan) \X Covers(s) \subseteq Types \X Departments
      BY <1>0, <1>2
    <3>. QED
      BY <1>2, <3>1, TypedSame DEF Applies
  <2>. QED
    BY <1>2, <2>1, <2>2, <2>3, TypedSame, TypedWith, CountsTyped DEF Applies, NoMovement, NobodyMoved
<1>3. ASSUME NEW types \in SUBSET Types, NEW s \in Scopes, apply_ppe_matrix(c, types, s) PROVE PPETyped'
  <2>. DEFINE plan == [u \in types |-> Effective(u, s)]
  <2>1. \A u \in Types : Effective(u, s) \in Nat
    <3>1. \A r \in Scopes, u \in Types : matrix[<<u, r>>] \in Nat \cup {Unset}
      BY PPEAssumption, TypedSame DEF Matrices
    <3>2. Company \in Scopes /\ Separate \subseteq Scopes /\ \A u \in Types : Default[u] \in Nat
      BY PPEAssumption DEF Scopes
    <3>. QED
      BY <3>1, <3>2 DEF Effective
  <2>2. DOMAIN plan \subseteq Types /\ \A u \in DOMAIN plan : plan[u] \in Nat
    BY <2>1
  <2>3. Applies(c, s, plan) /\ ppeLost' = ppeLost
    BY <1>3 DEF apply_ppe_matrix
  <2>. HIDE DEF plan
  <2>. QED
    BY <1>2, <2>2, <2>3, TypedSame
<1>4. ASSUME NEW t \in Types, NEW s \in Scopes, apply_unread(c, t, s) PROVE PPETyped'
  <2>1. PICK interval \in Unread(t) : Applies(c, s, [u \in {t} |-> interval])
    BY <1>4 DEF apply_unread
  <2>2. interval \in Nat /\ ppeLost' \in 0 .. MaxPPELost
    BY <1>4, UnreadTyped, CountsTyped DEF apply_unread
  <2>. DEFINE plan == [u \in {t} |-> interval]
  <2>3. DOMAIN plan \subseteq Types /\ \A u \in DOMAIN plan : plan[u] \in Nat
    BY <2>2
  <2>4. Applies(c, s, plan)
    BY <2>1
  <2>. HIDE DEF plan
  <2>. QED
    BY <1>2, <2>2, <2>3, <2>4
<1>. QED
  BY <1>1, <1>3, <1>4

\* The rows a recalculation of a type finds.
Found(scope, type) ==
    {[id |-> i, issued |-> records[i].issued] : i \in
        {i \in PPERecords :
            /\ records[i] # NoPPE
            /\ records[i].type = type /\ records[i].status = "active"
            /\ records[i].department \in Covers(scope)}}

LEMMA FoundTyped ==
    ASSUME PPETyped, NEW scope, NEW type
    PROVE  Found(scope, type) \subseteq [id : recordIds, issued : IssueDates]
<1>1. \A i \in PPERecords : records[i] # NoPPE => i \in recordIds /\ records[i].issued \in IssueDates
  BY PPEParts DEF PPETyped, PPERow
<1>. QED
  BY <1>1 DEF Found

LEMMA NextTypeTyped ==
    ASSUME PPETyped, NEW c \in PPERequests, ask[c].step = "recalculate", NextType(c),
           UNCHANGED <<works_in, bin, records, recordIds, matrix, settled, events, written, shared>>, unlogged' = unlogged,
           drifted' \subseteq Types \X Departments,
           ppeCalls' \in 0 .. MaxPPECalls, ppeLost' \in 0 .. MaxPPELost
    PROVE  PPETyped'
<1>1. AskTyped(ask[c])
  BY TypedSame
<1>2. \E next : ask' = [ask EXCEPT ![c] = next] /\ AskTyped(next)'
  <2>1. CASE Rest(c)
    BY <2>1, PlainAsks DEF Rest, Ask
  <2>2. CASE Planned(c, ask[c].scope, ask[c].plan)
    <3>1. /\ ask[c].scope \in Scopes /\ DOMAIN ask[c].plan \subseteq Types
          /\ \A t \in DOMAIN ask[c].plan : ask[c].plan[t] \in Nat
      BY <1>1 DEF AskTyped, Planning
    <3>. QED
      BY <2>2, <3>1, PlanAsked DEF Planned, Ask
  <2>. QED
    BY <2>1, <2>2 DEF NextType
<1>. QED
  BY <1>2, TypedSame, TypedQuiet

LEMMA WorkTyped ==
    ASSUME PPETyped, NEW c \in PPERequests
    PROVE  SelectRecords(c) \/ RecalculateRow(c) \/ TypeDone(c) \/ TypeFails(c) \/ PPEStops(c) => PPETyped'
<1>0. AskTyped(ask[c])
  BY TypedSame
<1>1. ASSUME SelectRecords(c) PROVE PPETyped'
  <2>1. PICK type \in DOMAIN ask[c].plan :
          Ask(c, [step |-> "recalculate", scope |-> ask[c].scope, type |-> type,
                  interval |-> ask[c].plan[type],
                  plan |-> [t \in (DOMAIN ask[c].plan) \ {type} |-> ask[c].plan[t]],
                  todo |-> Found(ask[c].scope, type)])
    BY <1>1 DEF SelectRecords, Found
  <2>. DEFINE plan == [t \in (DOMAIN ask[c].plan) \ {type} |-> ask[c].plan[t]]
              todo == Found(ask[c].scope, type)
              next == [step |-> "recalculate", scope |-> ask[c].scope, type |-> type,
                       interval |-> ask[c].plan[type], plan |-> plan, todo |-> todo]
  <2>2. ask[c].scope \in Scopes /\ type \in Types /\ ask[c].plan[type] \in Nat
        /\ DOMAIN plan \subseteq Types /\ \A t \in DOMAIN plan : plan[t] \in Nat
    BY <1>0, <1>1 DEF SelectRecords, PPEGoes, AskTyped, Planning
  <2>3. todo \subseteq [id : recordIds', issued : IssueDates]
    BY <1>1, FoundTyped DEF SelectRecords
  <2>. HIDE DEF plan, todo
  <2>4. ask' = [ask EXCEPT ![c] = next]
    BY <2>1 DEF Ask, plan, todo
  <2>5. \E work : ask' = [ask EXCEPT ![c] = work] /\ AskTyped(work)'
    BY <2>2, <2>3, <2>4, WorkAsked
  <2>. QED
    BY <1>1, <2>5, TypedSame, TypedQuiet DEF SelectRecords, Untouched, NoMovement, NobodyMoved, PPEGoes
<1>2. ASSUME RecalculateRow(c) PROVE PPETyped'
  <2>1. PICK row \in ask[c].todo :
          /\ ask' = [ask EXCEPT ![c] = [ask[c] EXCEPT !.todo = @ \ {row}]]
          /\ IF records[row.id] = NoPPE THEN UNCHANGED <<records, settled>>
             ELSE /\ records' = [records EXCEPT ![row.id].expiry = NewExpiry(row, ask[c].interval)]
                  /\ settled' = settled \cup {row.id}
    BY <1>2 DEF RecalculateRow, Ask
  <2>0. PICK next : next = [ask[c] EXCEPT !.todo = @ \ {row}]
    OBVIOUS
  <2>2. /\ ask[c].step = "recalculate" /\ row.id \in recordIds /\ row.issued \in IssueDates
        /\ ask[c].interval \in Nat
    BY <1>0, <1>2 DEF RecalculateRow, PPEGoes, AskTyped
  <2>3. AskTyped(next)'
    BY <1>0, <1>2, <2>0, <2>2 DEF AskTyped, EventSteps, Planning, Unmoved, RecalculateRow
  <2>4. /\ records' \in [PPERecords -> PPERow \cup {NoPPE}]
        /\ (\A j \in PPERecords : records'[j] # NoPPE => j \in recordIds) /\ settled' \subseteq recordIds
    <3>1. CASE records[row.id] = NoPPE
      BY <2>1, <3>1, TypedSame
    <3>2. CASE records[row.id] # NoPPE
      <4>1. NewExpiry(row, ask[c].interval) \in Expiries /\ row.id \in PPERecords
        BY <2>2, ExpiryTyped, TypedSame DEF NewExpiry
      <4>2. records[row.id] \in PPERow
        BY <3>2, <4>1, PPEParts DEF PPETyped
      <4>3. [records[row.id] EXCEPT !.expiry = NewExpiry(row, ask[c].interval)] \in PPERow
        BY <4>1, <4>2 DEF PPERow
      <4>4. records' = [records EXCEPT ![row.id] = [records[row.id] EXCEPT !.expiry = NewExpiry(row, ask[c].interval)]]
        BY <2>1, <3>2
      <4>. QED
        BY <2>1, <2>2, <3>2, <4>1, <4>3, <4>4, TypedSame
    <3>. QED
      BY <3>1, <3>2
  <2>. QED
    BY <1>2, <2>0, <2>1, <2>3, <2>4, TypedSame, TypedWith DEF RecalculateRow, NoMovement, NobodyMoved, PPEGoes
<1>3. ASSUME TypeDone(c) PROVE PPETyped'
  BY <1>3, TypedSame, NextTypeTyped DEF TypeDone, PPEGoes, Untouched, NoMovement, NobodyMoved
<1>4. ASSUME TypeFails(c) PROVE PPETyped'
  BY <1>4, TypedSame, NextTypeTyped, CountsTyped, PlacesTyped DEF TypeFails, PPELoses, NobodyMoved
<1>5. ASSUME PPEStops(c) PROVE PPETyped'
  <2>1. unlogged' \subseteq Keys
    BY <1>0, <1>5, TypedSame DEF PPEStops, AskTyped, EventSteps
  <2>2. drifted' \subseteq Types \X Departments
    BY <1>5, TypedSame, PlacesTyped DEF PPEStops
  <2>. QED
    BY <1>5, <2>1, <2>2, TypedSame, TypedQuiet, PlainAsks, CountsTyped DEF PPEStops, PPELoses, NobodyMoved, Rest, Ask
<1>. QED
  BY <1>1, <1>2, <1>3, <1>4, <1>5

LEMMA PPEInitTyped == PPEInit => PPETyped
<1>. SUFFICES ASSUME PPEInit PROVE PPETyped
  OBVIOUS
<1>1. PPETypeOK
  BY PPEAssumption, PPEBoundAssumption DEF PPEInit, PPETypeOK, Matrices
<1>2. AsksTyped
  BY DEF PPEInit, AsksTyped, AskTyped, Resting, EventSteps, Planning, Unmoved
<1>. QED
  BY <1>1, <1>2 DEF PPETyped

LEMMA PPENextTyped == PPETyped /\ [PPENext]_ppe_vars => PPETyped'
<1>. SUFFICES ASSUME PPETyped, [PPENext]_ppe_vars PROVE PPETyped'
  OBVIOUS
<1>1. \A p \in People, t \in Types, d \in IssueDates :
        [person |-> p, department |-> works_in[p], type |-> t, issued |-> d, expiry |-> NoExpiry, status |-> "active"] \in PPERow
  BY TypedSame DEF PPERow, NoExpiry, Expiries
<1>2. CASE UNCHANGED ppe_vars
  BY <1>2 DEF ppe_vars, PPETyped, PPETypeOK, AsksTyped, AskTyped, Matrices
<1>3. ASSUME NEW c \in PPERequests,
             \/ \E p \in People, t \in Types, d \in IssueDates :
                  create_ppe_record(c, [person |-> p, department |-> works_in[p], type |-> t, issued |-> d,
                                        expiry |-> NoExpiry, status |-> "active"])
             \/ \E i \in PPERecords :
                  \/ \E patch \in Patches : update_ppe_record(c, i, patch)
                  \/ delete_ppe_record(c, i)
             \/ UpdateRecord(c)
      PROVE  PPETyped'
  BY <1>1, <1>3, ByHandTyped
<1>4. ASSUME NEW c \in PPERequests,
             \/ \E k \in Keys : record_ppe_event(c, k) \/ KeyUnread(c, k)
             \/ CheckIssue(c) \/ ReadMatrix(c) \/ ReadRecord(c) \/ LogEvent(c) \/ MatrixUnread(c)
             \/ InsertRecord(c) \/ MoveRecord(c)
      PROVE  PPETyped'
  BY <1>4, EventsTyped, MovesTyped
<1>5. ASSUME NEW c \in PPERequests,
             \/ \E t \in Types, scope \in Scopes, n \in Intervals : set_ppe_matrix_entry(c, t, scope, n)
             \/ \E types \in {{t} : t \in Types} \cup {Types}, scope \in Scopes : apply_ppe_matrix(c, types, scope)
             \/ \E t \in Types, scope \in Scopes : apply_unread(c, t, scope)
      PROVE  PPETyped'
  <2>1. {{t} : t \in Types} \cup {Types} \subseteq SUBSET Types
    OBVIOUS
  <2>. QED
    BY <1>5, <2>1, MatrixTyped
<1>6. ASSUME NEW c \in PPERequests,
             SelectRecords(c) \/ RecalculateRow(c) \/ TypeDone(c) \/ TypeFails(c) \/ PPEStops(c)
      PROVE  PPETyped'
  BY <1>6, WorkTyped
<1>7. ASSUME NEW c \in PPERequests,
             \/ \E i \in PPERecords : \E row \in bin[i] : restore_record(c, i, row)
             \/ \E p \in People, d \in Departments : edit_department(c, p, d)
             \/ PutRecordBack(c) \/ MarkBack(c) \/ EmployIn(c) \/ FollowPerson(c)
      PROVE  PPETyped'
  BY <1>7, ElsewhereTyped
<1>. QED
  BY <1>2, <1>3, <1>4, <1>5, <1>6, <1>7 DEF PPENext

PPEAgrees == (\A c \in PPERequests : RequestAgrees(c)) /\ \A i \in settled : RecordAgrees(i)

LEMMA EffectiveSame == ASSUME matrix' = matrix PROVE \A t, d : Effective(t, d)' = Effective(t, d)
BY DEF Effective

\* A row that stands where it stood with the date it had, or whose place drifted,
\* or that the request has not to write.
Kept(j, d) ==
    records'[j] # NoPPE =>
        \/ /\ records[j] # NoPPE /\ Place(records'[j]) = Place(records[j])
           /\ records'[j].issued = records[j].issued
        \/ Place(records'[j]) \in drifted'
        \/ ask[d].step = "recalculate" => \A todo \in ask[d].todo : todo.id # j

\* A request that did not move stays in agreement.
LEMMA RequestStays ==
    ASSUME PPETyped, NEW d \in PPERequests, RequestAgrees(d), ask'[d] = ask[d],
           matrix' = matrix, drifted \subseteq drifted', \A j \in recordIds : Kept(j, d)
    PROVE  RequestAgrees(d)'
<1>1. AskTyped(ask[d])
  BY TypedSame
<1>2. ASSUME "plan" \in DOMAIN ask[d] PROVE PlanAgrees(d)'
  <2>1. PlanAgrees(d)
    BY <1>2 DEF RequestAgrees
  <2>. QED
    BY <2>1, EffectiveSame DEF PlanAgrees
<1>3. ASSUME ask[d].step = "recalculate" PROVE WorkAgrees(d)'
  <2>1. WorkAgrees(d)
    BY <1>3 DEF RequestAgrees
  <2>2. Doing(d)' = Doing(d)
    BY DEF Doing
  <2>3. \A u \in Covers(ask[d].scope) : <<ask[d].type, u>> \notin drifted' => ask[d].interval = Effective(ask[d].type, u)'
    BY <2>1, EffectiveSame DEF WorkAgrees
  <2>4. ASSUME NEW todo \in ask[d].todo, records'[todo.id] # NoPPE, Place(records'[todo.id]) \notin drifted'
        PROVE  Place(records'[todo.id]) \in Doing(d) /\ records'[todo.id].issued = todo.issued
    <3>1. todo.id \in recordIds
      BY <1>1, <1>3 DEF AskTyped
    <3>2. Kept(todo.id, d)
      BY <3>1
    <3>3. /\ records[todo.id] # NoPPE /\ Place(records'[todo.id]) = Place(records[todo.id])
          /\ records'[todo.id].issued = records[todo.id].issued
      BY <1>3, <2>4, <3>2 DEF Kept
    <3>4. Place(records[todo.id]) \notin drifted
      BY <2>4, <3>3
    <3>5. Place(records[todo.id]) \in Doing(d) /\ records[todo.id].issued = todo.issued
      BY <2>1, <3>3, <3>4 DEF WorkAgrees
    <3>. QED
      BY <3>3, <3>5
  <2>. QED
    BY <2>2, <2>3, <2>4 DEF WorkAgrees, Place
<1>4. ASSUME ask[d].step = "insert", "key" \in DOMAIN ask[d] PROVE StampAgrees(d)'
  <2>1. StampAgrees(d)
    BY <1>4 DEF RequestAgrees
  <2>. QED
    BY <2>1, EffectiveSame DEF StampAgrees, Place, Expiry
<1>. QED
  BY <1>2, <1>3, <1>4 DEF RequestAgrees

\* A record that did not change stays in agreement, if what carried it still does.
LEMMA RecordStays ==
    ASSUME PPETyped, NEW i \in settled, RecordAgrees(i), records'[i] = records[i],
           matrix' = matrix, drifted \subseteq drifted', NEW c \in PPERequests,
           \A d \in PPERequests \ {c} : ask'[d] = ask[d],
           Carried(records[i], i, Place(records[i]), c) =>
               Carried(records[i], i, Place(records[i]), c)' \/ Place(records[i]) \in drifted'
    PROVE  RecordAgrees(i)'
<1>. DEFINE row == records[i]
            place == Place(row)
<1>0. records' = records' /\ records'[i] = row
  OBVIOUS
<1>1. SUFFICES ASSUME row # NoPPE, row.status = "active", place \notin drifted'
               PROVE  \/ row.expiry = Expiry(row.issued, Effective(place[1], place[2]))
                      \/ \E d \in PPERequests : Carried(row, i, place, d)'
  BY EffectiveSame DEF RecordAgrees, Place, Expiry, Carried, Plans, Doing
<1>2. \/ row.expiry = Expiry(row.issued, Effective(place[1], place[2]))
      \/ \E d \in PPERequests : Carried(row, i, place, d)
  BY <1>1 DEF RecordAgrees
<1>3. ASSUME NEW d \in PPERequests, Carried(row, i, place, d)
      PROVE  \E e \in PPERequests : Carried(row, i, place, e)'
  <2>1. CASE d = c
    BY <1>1, <1>3, <2>1
  <2>2. CASE d # c
    <3>1. ask'[d] = ask[d]
      BY <2>2
    <3>2. Carried(row, i, place, d)'
      BY <1>3, <3>1 DEF Carried, Plans, Doing, Place
    <3>. QED
      BY <3>2
  <2>. QED
    BY <2>1, <2>2
<1>. QED
  BY <1>2, <1>3

LEMMA NothingCarried ==
    ASSUME PPETyped, NEW c \in PPERequests, ask[c].step \notin Planning
    PROVE  \A row, i, place : ~Carried(row, i, place, c)
BY TypedSame DEF AskTyped, Carried, Plans, Planning

\* A request that has no plan and no row to stamp.
Plain(a) == "plan" \notin DOMAIN a /\ a.step # "recalculate" /\ ("key" \in DOMAIN a => a.step # "insert")

\* A step that only moves a request on.
LEMMA AgreesQuiet ==
    ASSUME PPETyped, PPEAgrees, NEW c \in PPERequests, NEW next, ask' = [ask EXCEPT ![c] = next],
           UNCHANGED <<records, settled, matrix>>, drifted \subseteq drifted',
           Plain(next) \/ RequestAgrees(c)',
           ask[c].step \notin Planning \/
             \A i \in settled : Carried(records[i], i, Place(records[i]), c) =>
                 Carried(records[i], i, Place(records[i]), c)' \/ Place(records[i]) \in drifted'
    PROVE  PPEAgrees'
<1>1. ask'[c] = next /\ \A d \in PPERequests \ {c} : ask'[d] = ask[d]
  BY TypedSame
<1>2. \A d \in PPERequests, j \in recordIds : Kept(j, d)
  BY DEF Kept, Place
<1>3. ASSUME NEW d \in PPERequests PROVE RequestAgrees(d)'
  <2>1. CASE d = c
    BY <1>1, <2>1 DEF RequestAgrees, Plain
  <2>2. CASE d # c
    BY <1>1, <1>2, <2>2, RequestStays DEF PPEAgrees
  <2>. QED
    BY <2>1, <2>2
<1>4. ASSUME NEW i \in settled PROVE RecordAgrees(i)'
  <2>1. RecordAgrees(i) /\ records'[i] = records[i]
    BY DEF PPEAgrees
  <2>2. Carried(records[i], i, Place(records[i]), c) =>
            Carried(records[i], i, Place(records[i]), c)' \/ Place(records[i]) \in drifted'
    BY NothingCarried
  <2>. QED
    BY <1>1, <2>1, <2>2, RecordStays
<1>. QED
  BY <1>3, <1>4 DEF PPEAgrees

\* Rows edited, moved, returned, removed or put back: where they come to stand,
\* whoever recalculates them loses its place.
LEMMA AgreesEdit ==
    ASSUME PPETyped, PPEAgrees, NEW c \in PPERequests, NEW next, ask' = [ask EXCEPT ![c] = next], Plain(next),
           ask[c].step \notin Planning, Edited, matrix' = matrix
    PROVE  PPEAgrees'
<1>1. ask'[c] = next /\ \A d \in PPERequests \ {c} : ask'[d] = ask[d]
  BY TypedSame
<1>2. drifted \subseteq drifted' /\ settled' = settled \ {i \in PPERecords : records'[i] # records[i]}
  BY DEF Edited
<1>3. ASSUME NEW d \in PPERequests, NEW j \in recordIds PROVE Kept(j, d)
  <2>1. j \in PPERecords
    BY TypedSame
  <2>2. CASE records'[j] = records[j]
    BY <2>2 DEF Kept, Place
  <2>3. CASE records'[j] # records[j]
    <3>1. records'[j] # NoPPE /\ j \in RowsLeft(d) => Place(records'[j]) \in drifted'
      BY <2>1, <2>3 DEF Edited
    <3>2. ask[d].step = "recalculate" /\ (\E todo \in ask[d].todo : todo.id = j) => j \in RowsLeft(d)
      BY DEF RowsLeft
    <3>. QED
      BY <3>1, <3>2 DEF Kept
  <2>. QED
    BY <2>2, <2>3
<1>4. ASSUME NEW d \in PPERequests PROVE RequestAgrees(d)'
  <2>1. CASE d = c
    BY <1>1, <2>1 DEF RequestAgrees, Plain
  <2>2. CASE d # c
    BY <1>1, <1>2, <1>3, <2>2, RequestStays DEF PPEAgrees
  <2>. QED
    BY <2>1, <2>2
<1>5. ASSUME NEW j \in settled' PROVE RecordAgrees(j)'
  <2>1. j \in settled /\ RecordAgrees(j) /\ records'[j] = records[j]
    BY <1>2, TypedSame DEF PPEAgrees
  <2>2. ~Carried(records[j], j, Place(records[j]), c)
    BY NothingCarried
  <2>. QED
    BY <1>1, <1>2, <2>1, <2>2, RecordStays
<1>. QED
  BY <1>4, <1>5 DEF PPEAgrees

LEMMA ByHandAgrees ==
    ASSUME PPETyped, PPEAgrees, NEW c \in PPERequests
    PROVE  /\ \A row : create_ppe_record(c, row) => PPEAgrees'
           /\ \A i \in PPERecords, patch \in Patches : update_ppe_record(c, i, patch) => PPEAgrees'
           /\ \A i \in PPERecords : delete_ppe_record(c, i) => PPEAgrees'
           /\ UpdateRecord(c) => PPEAgrees'
<1>0. Resting.step \notin Planning /\ Plain(Resting)
  BY DEF Resting, Planning, Plain
<1>1. ASSUME NEW row, create_ppe_record(c, row) PROVE PPEAgrees'
  <2>1. Plain([step |-> "insert", row |-> row])
    BY DEF Plain
  <2>. QED
    BY <1>0, <1>1, <2>1, AgreesQuiet DEF create_ppe_record, PPEBegins, Ask, Untouched
<1>2. ASSUME NEW i \in PPERecords, NEW patch \in Patches, update_ppe_record(c, i, patch) PROVE PPEAgrees'
  <2>. DEFINE next == [step |-> "update", id |-> i, patch |-> Stamped(records[i], patch)]
  <2>1. Plain(next)
    BY DEF Plain
  <2>2. ask' = [ask EXCEPT ![c] = next]
    BY <1>2 DEF update_ppe_record, Ask
  <2>. HIDE DEF next
  <2>. QED
    BY <1>0, <1>2, <2>1, <2>2, AgreesQuiet DEF update_ppe_record, PPEBegins, Untouched
<1>3. ASSUME NEW i \in PPERecords, delete_ppe_record(c, i) PROVE PPEAgrees'
  <2>1. ask' = [ask EXCEPT ![c] = Resting] /\ ask[c] = Resting
    BY <1>3, TypedSame DEF delete_ppe_record, PPEBegins
  <2>. QED
    BY <1>0, <1>3, <2>1, AgreesEdit DEF delete_ppe_record
<1>4. ASSUME UpdateRecord(c) PROVE PPEAgrees'
  <2>1. ask[c].step \notin Planning /\ ask' = [ask EXCEPT ![c] = Resting] /\ matrix' = matrix
    BY <1>4 DEF UpdateRecord, PPEGoes, Planning, Rest, Ask
  <2>2. CASE Untouched /\ UNCHANGED records
    BY <1>0, <2>1, <2>2, AgreesQuiet DEF Untouched
  <2>3. CASE Edited
    BY <1>0, <2>1, <2>3, AgreesEdit
  <2>. QED
    BY <1>4, <2>2, <2>3 DEF UpdateRecord
<1>. QED
  BY <1>1, <1>2, <1>3, <1>4

\* What Recently deleted and the employee register write leaves it so.
LEMMA ElsewhereAgrees ==
    ASSUME PPETyped, PPEAgrees, NEW c \in PPERequests
    PROVE  /\ \A i, row : restore_record(c, i, row) => PPEAgrees'
           /\ \A p, d : edit_department(c, p, d) => PPEAgrees'
           /\ PutRecordBack(c) \/ MarkBack(c) \/ EmployIn(c) \/ FollowPerson(c) => PPEAgrees'
<1>0. Resting.step \notin Planning /\ Plain(Resting)
  BY DEF Resting, Planning, Plain
<1>1. ASSUME NEW i, NEW row, restore_record(c, i, row) PROVE PPEAgrees'
  <2>1. Plain([step |-> "restore", id |-> i, row |-> row])
    BY DEF Plain
  <2>. QED
    BY <1>0, <1>1, <2>1, AgreesQuiet DEF restore_record, PPEBegins, Ask, Untouched
<1>2. ASSUME NEW p, NEW d, edit_department(c, p, d) PROVE PPEAgrees'
  <2>1. Plain([step |-> "employ", person |-> p, department |-> d, moved |-> d # works_in[p]])
    BY DEF Plain
  <2>. QED
    BY <1>0, <1>2, <2>1, AgreesQuiet DEF edit_department, PPEBegins, Ask, Untouched
<1>3. ASSUME PutRecordBack(c) PROVE PPEAgrees'
  <2>1. ask[c].step \notin Planning /\ matrix' = matrix
    BY <1>3 DEF PutRecordBack, PPEGoes, Planning
  <2>2. CASE Rest(c) /\ Untouched /\ UNCHANGED records
    BY <1>0, <2>1, <2>2, AgreesQuiet DEF Rest, Ask, Untouched
  <2>3. CASE Ask(c, [step |-> "mark", id |-> ask[c].id, row |-> ask[c].row]) /\ Edited
    <3>1. Plain([step |-> "mark", id |-> ask[c].id, row |-> ask[c].row])
      BY DEF Plain
    <3>. QED
      BY <2>1, <2>3, <3>1, AgreesEdit DEF Ask
  <2>. QED
    BY <1>3, <2>2, <2>3 DEF PutRecordBack
<1>4. ASSUME MarkBack(c) PROVE PPEAgrees'
  BY <1>0, <1>4, AgreesQuiet DEF MarkBack, PPEGoes, Planning, Rest, Ask, Untouched
<1>5. ASSUME EmployIn(c) PROVE PPEAgrees'
  <2>1. Plain([step |-> "follow", person |-> ask[c].person, department |-> ask[c].department])
    BY DEF Plain
  <2>2. \E next : ask' = [ask EXCEPT ![c] = next] /\ Plain(next)
    BY <1>0, <1>5, <2>1 DEF EmployIn, Rest, Ask
  <2>. QED
    BY <1>5, <2>2, AgreesQuiet DEF EmployIn, PPEGoes, Planning, Untouched
<1>6. ASSUME FollowPerson(c) PROVE PPEAgrees'
  BY <1>0, <1>6, AgreesEdit DEF FollowPerson, PPEGoes, Planning, Rest, Ask
<1>. QED
  BY <1>1, <1>2, <1>3, <1>4, <1>5, <1>6

LEMMA EventsAgree ==
    ASSUME PPETyped, PPEAgrees, NEW c \in PPERequests
    PROVE  /\ \A k \in Keys : record_ppe_event(c, k) \/ KeyUnread(c, k) => PPEAgrees'
           /\ CheckIssue(c) \/ ReadMatrix(c) \/ ReadRecord(c) \/ LogEvent(c) \/ MatrixUnread(c) => PPEAgrees'
<1>0. AskTyped(ask[c]) /\ Resting.step \notin Planning /\ Plain(Resting)
      /\ (\A k, d : Plain([step |-> "matrix", key |-> k, department |-> d]))
      /\ \A k : \A step \in EventSteps : step \notin Planning /\ Plain([step |-> step, key |-> k])
  BY TypedSame DEF Resting, Planning, Plain, EventSteps
<1>1. ASSUME NEW k \in Keys, record_ppe_event(c, k) \/ KeyUnread(c, k) PROVE PPEAgrees'
  <2>0. TakesForm(c, k)
    BY <1>1 DEF record_ppe_event, KeyUnread
  <2>1. \E next : ask' = [ask EXCEPT ![c] = next] /\ Plain(next)
    BY <1>0, <2>0 DEF TakesForm, Ask, EventSteps
  <2>. QED
    BY <1>0, <2>0, <2>1, AgreesQuiet DEF TakesForm, PPEBegins, Untouched
<1>2. ASSUME CheckIssue(c) \/ ReadRecord(c) \/ LogEvent(c) PROVE PPEAgrees'
  <2>1. \E next : ask' = [ask EXCEPT ![c] = next] /\ Plain(next)
    BY <1>0, <1>2 DEF CheckIssue, ReadRecord, LogEvent, Ask, Rest, EventSteps
  <2>2. ask[c].step \notin Planning
    BY <1>2 DEF CheckIssue, ReadRecord, LogEvent, PPEGoes, Planning
  <2>. QED
    BY <1>2, <2>1, <2>2, AgreesQuiet DEF CheckIssue, ReadRecord, LogEvent, Untouched
<1>3. ASSUME NEW form, form = Form[ask[c].key], NEW department, NEW interval,
             ask' = [ask EXCEPT ![c] = [step |-> "insert", key |-> ask[c].key,
                                        row |-> IssueRow(form, department, Expiry(form.date, interval))]],
             ask[c].step = "matrix", UNCHANGED <<records, settled, matrix>>, drifted \subseteq drifted',
             interval = Effective(form.type, department) \/ <<form.type, department>> \in drifted'
      PROVE  PPEAgrees'
  <2>. DEFINE row == IssueRow(form, department, Expiry(form.date, interval))
              next == [step |-> "insert", key |-> ask[c].key, row |-> row]
  <2>0. PICK stamp : stamp = next
    OBVIOUS
  <2>1. ask' = [ask EXCEPT ![c] = stamp] /\ ask'[c] = stamp
    BY <1>3, <2>0, TypedSame
  <2>2. /\ stamp.step = "insert" /\ "plan" \notin DOMAIN stamp
        /\ stamp.row.issued = form.date /\ stamp.row.expiry = Expiry(form.date, interval)
        /\ stamp.row.type = form.type /\ stamp.row.department = department
    BY <2>0 DEF IssueRow
  <2>3. Place(stamp.row) = <<form.type, department>>
    BY <2>2 DEF Place
  <2>4. StampAgrees(c)'
    BY <1>3, <2>1, <2>2, <2>3, EffectiveSame DEF StampAgrees, Place, Expiry
  <2>5. RequestAgrees(c)'
    BY <2>1, <2>2, <2>4 DEF RequestAgrees
  <2>. QED
    BY <1>3, <2>1, <2>5, AgreesQuiet DEF Planning
<1>4. ASSUME ReadMatrix(c) PROVE PPEAgrees'
  <2>1. PICK form : form = Form[ask[c].key]
    OBVIOUS
  <2>2. PICK department : department = ask[c].department
    OBVIOUS
  <2>3. PICK interval : interval = Effective(form.type, department)
    OBVIOUS
  <2>. QED
    BY <1>3, <1>4, <2>1, <2>2, <2>3 DEF ReadMatrix, PPEGoes, Ask, Untouched
<1>5. ASSUME MatrixUnread(c) PROVE PPEAgrees'
  <2>1. PICK form : form = Form[ask[c].key]
    OBVIOUS
  <2>2. PICK department : department = ask[c].department
    OBVIOUS
  <2>3. PICK interval : ask' = [ask EXCEPT ![c] = [step |-> "insert", key |-> ask[c].key,
                                                   row |-> IssueRow(form, department, Expiry(form.date, interval))]]
    BY <1>5, <2>1, <2>2 DEF MatrixUnread, Ask
  <2>4. drifted' = drifted \cup {<<form.type, department>>} /\ ask[c].step = "matrix"
        /\ UNCHANGED <<records, settled, matrix>>
    BY <1>5, <2>1, <2>2 DEF MatrixUnread, PPELoses
  <2>. QED
    BY <1>3, <2>1, <2>3, <2>4
<1>. QED
  BY <1>1, <1>2, <1>4, <1>5

LEMMA MovesAgree ==
    ASSUME PPETyped, PPEAgrees, NEW c \in PPERequests
    PROVE  InsertRecord(c) \/ MoveRecord(c) => PPEAgrees'
<1>0. AskTyped(ask[c]) /\ Resting.step \notin Planning /\ Plain(Resting)
      /\ \A k : Plain([step |-> "log", key |-> k])
  BY TypedSame DEF Resting, Planning, Plain
<1>1. ASSUME InsertRecord(c) PROVE PPEAgrees'
  <2>. DEFINE row == ask[c].row
  <2>1. ask[c].step \notin Planning /\ matrix' = matrix /\ drifted' = drifted /\ row \in PPERow
    BY <1>0, <1>1 DEF InsertRecord, PPEGoes, Planning, AskTyped
  <2>2. CASE Rest(c) /\ UNCHANGED <<records, recordIds, written, settled>>
    BY <1>0, <2>1, <2>2, AgreesQuiet DEF Rest, Ask
  <2>3. ASSUME NEW i \in PPERecords \ recordIds,
               records' = [records EXCEPT ![i] = row], recordIds' = recordIds \cup {i},
               IF "key" \in DOMAIN ask[c]
                 THEN /\ written' = [written EXCEPT ![ask[c].key] = @ + 1]
                      /\ settled' = settled \cup {i}
                      /\ Ask(c, [step |-> "log", key |-> ask[c].key])
                 ELSE Rest(c) /\ UNCHANGED <<written, settled>>
        PROVE  PPEAgrees'
    <3>1. PICK next : ask' = [ask EXCEPT ![c] = next] /\ Plain(next)
      BY <1>0, <2>3 DEF Rest, Ask
    <3>2. ask'[c] = next /\ \A d \in PPERequests \ {c} : ask'[d] = ask[d]
      BY <3>1, TypedSame
    <3>3. records'[i] = row /\ \A j \in recordIds : records'[j] = records[j]
      BY <2>3, TypedSame
    <3>4. \A d \in PPERequests, j \in recordIds : Kept(j, d)
      BY <3>3 DEF Kept
    <3>5. ASSUME NEW d \in PPERequests PROVE RequestAgrees(d)'
      <4>1. CASE d = c
        BY <3>1, <3>2, <4>1 DEF RequestAgrees, Plain
      <4>2. CASE d # c
        BY <2>1, <3>2, <3>4, <4>2, RequestStays DEF PPEAgrees
      <4>. QED
        BY <4>1, <4>2
    <3>6. ASSUME NEW j \in settled PROVE RecordAgrees(j)'
      <4>1. RecordAgrees(j) /\ records'[j] = records[j]
        BY <3>3, TypedSame DEF PPEAgrees
      <4>2. ~Carried(records[j], j, Place(records[j]), c)
        BY <2>1, NothingCarried
      <4>. QED
        BY <2>1, <3>2, <4>1, <4>2, RecordStays
    <3>7. ASSUME "key" \in DOMAIN ask[c] PROVE RecordAgrees(i)'
      <4>1. StampAgrees(c)
        BY <1>1, <3>7 DEF PPEAgrees, RequestAgrees, InsertRecord, PPEGoes
      <4>. QED
        BY <2>1, <3>3, <4>1, EffectiveSame DEF StampAgrees, RecordAgrees, Place, Expiry
    <3>. QED
      BY <2>3, <3>5, <3>6, <3>7 DEF PPEAgrees
  <2>. QED
    BY <1>1, <2>2, <2>3 DEF InsertRecord
<1>2. ASSUME MoveRecord(c) PROVE PPEAgrees'
  <2>1. ask[c].step \notin Planning /\ matrix' = matrix
    BY <1>2 DEF MoveRecord, PPEGoes, Planning
  <2>2. \E next : ask' = [ask EXCEPT ![c] = next] /\ Plain(next)
    BY <1>0, <1>2 DEF MoveRecord, Rest, Ask
  <2>3. (Untouched /\ UNCHANGED records) \/ Edited
    BY <1>2 DEF MoveRecord
  <2>. QED
    BY <2>1, <2>2, <2>3, AgreesQuiet, AgreesEdit DEF Untouched
<1>. QED
  BY <1>1, <1>2

\* After an entry is set, a place it hits and no other request is busy with has its
\* months, and a place it does not hit has those it had.
LEMMA EntrySet ==
    ASSUME PPETyped, NEW c \in PPERequests, NEW t \in Types, NEW s \in Scopes, NEW n \in Intervals,
           set_ppe_matrix_entry(c, t, s, n), NEW u \in Types, NEW d \in Departments, <<u, d>> \notin drifted'
    PROVE  /\ u = t /\ d \in Covers(s) =>
                Effective(u, d)' = n /\ \A e \in PPERequests \ {c} : <<u, d>> \notin UnderWay(e)
           /\ ~(u = t /\ d \in Covers(s)) => Effective(u, d)' = Effective(u, d) /\ <<u, d>> \notin drifted
<1>. DEFINE own == {e \in Covers(s) : s = Company /\ e \in Separate /\ matrix[<<t, e>>] # Unset}
            hit == {t} \X Covers(s)
            busy == hit \cap UNION {UnderWay(e) : e \in PPERequests \ {c}}
<1>1. drifted' = (drifted \ (hit \ busy)) \cup busy \cup ({t} \X own)
  BY DEF set_ppe_matrix_entry, Follows
<1>2. n \in Nat /\ Company \notin Separate /\ d # Company /\ Separate \subseteq Departments
  BY PPEAssumption
<1>3. matrix' = [matrix EXCEPT ![<<t, s>>] = n] /\ matrix \in [Types \X Scopes -> Intervals \cup {Unset}]
  BY TypedSame DEF set_ppe_matrix_entry, Matrices
<1>4. \A e \in Scopes, v \in Types : matrix'[<<v, e>>] = IF v = t /\ e = s THEN n ELSE matrix[<<v, e>>]
  BY <1>3
<1>5. Company \in Scopes /\ Separate \subseteq Scopes
  BY DEF Scopes
<1>6. CASE u = t /\ d \in Covers(s)
  <2>1. <<u, d>> \in hit /\ <<u, d>> \notin busy /\ d \notin own
    BY <1>1, <1>6
  <2>2. Effective(u, d)' = n
    <3>1. CASE s = Company
      <4>1. d \in Separate => matrix'[<<u, d>>] = Unset
        BY <1>2, <1>4, <1>5, <1>6, <2>1, <3>1
      <4>2. matrix'[<<u, Company>>] = n
        BY <1>4, <1>5, <1>6, <3>1
      <4>. QED
        BY <1>2, <4>1, <4>2 DEF Effective, Unset
    <3>2. CASE s # Company
      <4>1. d = s /\ s \in Separate
        BY <1>6, <3>2 DEF Covers, Scopes
      <4>. QED
        BY <1>2, <1>4, <1>5, <1>6, <4>1 DEF Effective, Unset
    <3>. QED
      BY <3>1, <3>2
  <2>. QED
    BY <1>6, <2>1, <2>2
<1>7. CASE ~(u = t /\ d \in Covers(s))
  <2>1. <<u, d>> \notin hit
    BY <1>7
  <2>2. <<u, d>> \notin drifted
    BY <1>1, <2>1
  <2>3. u # t \/ (s # Company /\ d # s)
    BY <1>7 DEF Covers
  <2>4. Effective(u, d)' = Effective(u, d)
    BY <1>2, <1>4, <1>5, <2>3 DEF Effective
  <2>. QED
    BY <1>7, <2>2, <2>4
<1>. QED
  BY <1>6, <1>7

LEMMA EntryAgrees ==
    ASSUME PPETyped, PPEAgrees, NEW c \in PPERequests, NEW t \in Types, NEW s \in Scopes, NEW n \in Intervals,
           set_ppe_matrix_entry(c, t, s, n)
    PROVE  PPEAgrees'
<1>. DEFINE next == [step |-> "select", scope |-> s, plan |-> [v \in {t} |-> n]]
<1>1. ask'[c] = next /\ ask[c] = Resting /\ \A e \in PPERequests \ {c} : ask'[e] = ask[e]
  BY TypedSame DEF set_ppe_matrix_entry, Planned, Ask, PPEBegins
<1>2. Covers(s) \subseteq Departments
  BY PPEParts DEF PPETyped
<1>3. UNCHANGED <<records, settled>>
  BY DEF set_ppe_matrix_entry
<1>4. /\ next.step = "select" /\ "key" \notin DOMAIN next /\ "plan" \in DOMAIN next
      /\ next.scope = s /\ DOMAIN next.plan = {t} /\ next.plan[t] = n
  OBVIOUS
<1>. HIDE DEF next
<1>5. RequestAgrees(c)'
  <2>1. \A d \in Covers(s) : <<t, d>> \notin drifted' => Effective(t, d)' = n
    BY <1>2, EntrySet
  <2>. QED
    BY <1>1, <1>4, <2>1 DEF RequestAgrees, PlanAgrees
<1>6. ASSUME NEW e \in PPERequests, e # c PROVE RequestAgrees(e)'
  <2>0. ask'[e] = ask[e] /\ RequestAgrees(e) /\ AskTyped(ask[e])
    BY <1>1, <1>6, TypedSame DEF PPEAgrees
  <2>1. ASSUME NEW u \in Types, NEW d \in Departments, <<u, d>> \notin drifted', <<u, d>> \in UnderWay(e)
        PROVE  Effective(u, d)' = Effective(u, d) /\ <<u, d>> \notin drifted
    BY <1>6, <2>1, EntrySet
  <2>2. Plans(e) \subseteq Types \X Departments /\ Doing(e) \subseteq Types \X Departments
        /\ Stamps(e) \subseteq Types \X Departments
    BY PlacesTyped
  <2>3. ASSUME "plan" \in DOMAIN ask[e] PROVE PlanAgrees(e)'
    <3>1. \A u \in DOMAIN ask[e].plan, d \in Covers(ask[e].scope) : <<u, d>> \in Plans(e)
      BY <2>3 DEF Plans
    <3>2. \A u \in DOMAIN ask[e].plan, d \in Covers(ask[e].scope) :
              u \in Types /\ d \in Departments /\ <<u, d>> \in UnderWay(e)
      BY <2>2, <3>1 DEF UnderWay
    <3>. QED
      BY <2>0, <2>1, <2>3, <3>2 DEF RequestAgrees, PlanAgrees
  <2>4. ASSUME ask[e].step = "recalculate" PROVE WorkAgrees(e)'
    <3>1. \A d \in Covers(ask[e].scope) : <<ask[e].type, d>> \in Doing(e)
      BY <2>4 DEF Doing
    <3>2. \A d \in Covers(ask[e].scope) :
              ask[e].type \in Types /\ d \in Departments /\ <<ask[e].type, d>> \in UnderWay(e)
      BY <2>2, <3>1 DEF UnderWay
    <3>3. \A d \in Covers(ask[e].scope) :
              <<ask[e].type, d>> \notin drifted' => ask[e].interval = Effective(ask[e].type, d)'
      BY <2>0, <2>1, <2>4, <3>2 DEF RequestAgrees, WorkAgrees
    <3>4. Doing(e)' = Doing(e)
      BY <2>0 DEF Doing
    <3>5. ASSUME NEW todo \in ask[e].todo, records[todo.id] # NoPPE, Place(records[todo.id]) \notin drifted'
          PROVE  Place(records[todo.id]) \in Doing(e) /\ records[todo.id].issued = todo.issued
      <4>1. todo.id \in PPERecords /\ records[todo.id] \in PPERow
        BY <2>0, <2>4, <3>5, TypedSame DEF AskTyped
      <4>2. PICK u \in Types, d \in Departments : Place(records[todo.id]) = <<u, d>>
        BY <4>1, PPEParts DEF PPETyped
      <4>3. Place(records[todo.id]) \in Strays(e)
        <5>1. todo.id \in RowsLeft(e)
          BY <2>4 DEF RowsLeft
        <5>. QED
          BY <3>5, <5>1 DEF Strays
      <4>4. <<u, d>> \notin drifted
        BY <2>1, <3>5, <4>2, <4>3 DEF UnderWay
      <4>. QED
        BY <2>0, <2>4, <3>5, <4>2, <4>4 DEF RequestAgrees, WorkAgrees
    <3>. QED
      BY <1>3, <2>0, <3>3, <3>4, <3>5 DEF WorkAgrees, Place
  <2>5. ASSUME ask[e].step = "insert", "key" \in DOMAIN ask[e] PROVE StampAgrees(e)'
    <3>1. Place(ask[e].row) \in Stamps(e)
      BY <2>5 DEF Stamps
    <3>2. PICK u \in Types, d \in Departments : Place(ask[e].row) = <<u, d>>
      BY <2>2, <3>1
    <3>. QED
      BY <2>0, <2>1, <2>5, <3>1, <3>2 DEF RequestAgrees, StampAgrees, UnderWay, Place, Expiry
  <2>. QED
    BY <2>0, <2>3, <2>4, <2>5 DEF RequestAgrees
<1>7. ASSUME NEW i \in settled PROVE RecordAgrees(i)'
  <2>. DEFINE row == records[i]
              place == Place(row)
  <2>1. SUFFICES ASSUME row # NoPPE, row.status = "active", place \notin drifted'
                 PROVE  \/ row.expiry = Expiry(row.issued, Effective(place[1], place[2])')
                        \/ \E e \in PPERequests : Carried(row, i, place, e)'
    BY <1>3 DEF RecordAgrees, Place, Expiry
  <2>2. i \in PPERecords /\ row \in PPERow
    BY <2>1, TypedSame
  <2>3. place[1] \in Types /\ place[2] \in Departments /\ place = <<place[1], place[2]>>
    BY <2>2, PPEParts DEF PPETyped
  <2>4. CASE place[1] = t /\ place[2] \in Covers(s)
    <3>1. place \in Plans(c)'
      BY <1>1, <1>4, <2>3, <2>4 DEF Plans
    <3>. QED
      BY <1>3, <3>1 DEF Carried, Place
  <2>5. CASE ~(place[1] = t /\ place[2] \in Covers(s))
    <3>1. Effective(place[1], place[2])' = Effective(place[1], place[2]) /\ place \notin drifted
      <4>1. PICK u \in Types, d \in Departments : u = place[1] /\ d = place[2] /\ <<u, d>> = place
        BY <2>3
      <4>2. <<u, d>> \notin drifted'
        BY <2>1, <4>1
      <4>3. Effective(u, d)' = Effective(u, d) /\ <<u, d>> \notin drifted
        BY <2>5, <4>1, <4>2, EntrySet
      <4>. QED
        BY <1>3, <4>1, <4>3 DEF Place, Effective
    <3>2. row.expiry = Expiry(row.issued, Effective(place[1], place[2]))
          \/ \E e \in PPERequests : Carried(row, i, place, e)
      BY <2>1, <3>1 DEF PPEAgrees, RecordAgrees
    <3>3. ~Carried(row, i, place, c)
      BY <1>1, NothingCarried DEF Resting, Planning
    <3>4. \A e \in PPERequests \ {c} : Carried(row, i, place, e) => Carried(row, i, place, e)'
      BY <1>1, <1>3 DEF Carried, Plans, Doing, Place
    <3>. QED
      BY <3>1, <3>2, <3>3, <3>4
  <2>. QED
    BY <2>4, <2>5
<1>. QED
  BY <1>3, <1>5, <1>6, <1>7 DEF PPEAgrees

LEMMA AppliesAgrees ==
    ASSUME PPETyped, PPEAgrees, NEW c \in PPERequests, NEW s \in Scopes, NEW plan, Applies(c, s, plan)
    PROVE  PPEAgrees'
<1>. DEFINE next == [step |-> "select", scope |-> s, plan |-> plan]
<1>1. ask' = [ask EXCEPT ![c] = next] /\ ask'[c] = next /\ ask[c] = Resting
  BY TypedSame DEF Applies, Planned, Ask, PPEBegins
<1>2. next.step = "select" /\ "key" \notin DOMAIN next /\ "plan" \in DOMAIN next /\ next.scope = s /\ next.plan = plan
  OBVIOUS
<1>. HIDE DEF next
<1>3. \A t \in DOMAIN plan, d \in Covers(s) : <<t, d>> \notin drifted' => plan[t] = Effective(t, d)
  <2>. SUFFICES ASSUME NEW t \in DOMAIN plan, NEW d \in Covers(s), <<t, d>> \notin drifted'
                PROVE  plan[t] = Effective(t, d)
    OBVIOUS
  <2>1. <<t, d>> \in (DOMAIN plan) \X Covers(s) /\ <<t, d>>[1] = t /\ <<t, d>>[2] = d
    OBVIOUS
  <2>. QED
    BY <2>1 DEF Applies
<1>4. UNCHANGED <<records, settled, matrix>> /\ drifted \subseteq drifted'
  BY DEF Applies
<1>5. RequestAgrees(c)'
  BY <1>1, <1>2, <1>3, <1>4, EffectiveSame DEF RequestAgrees, PlanAgrees
<1>6. ask[c].step \notin Planning
  BY <1>1 DEF Resting, Planning
<1>. QED
  BY <1>1, <1>4, <1>5, <1>6, AgreesQuiet

\* On to the next type, or to rest: what was planned still is.
LEMMA NextTypeAgrees ==
    ASSUME PPETyped, PPEAgrees, NEW c \in PPERequests, ask[c].step = "recalculate", NextType(c),
           UNCHANGED <<records, settled, matrix>>, drifted \subseteq drifted',
           ask[c].todo = {} \/ Doing(c) \subseteq drifted'
    PROVE  PPEAgrees'
<1>0. AskTyped(ask[c]) /\ "plan" \in DOMAIN ask[c] /\ PlanAgrees(c)
  BY TypedSame DEF AskTyped, Planning, PPEAgrees, RequestAgrees
<1>1. ASSUME NEW i \in settled, Carried(records[i], i, Place(records[i]), c), Place(records[i]) \notin drifted'
      PROVE  Place(records[i]) \in Plans(c)
  BY <1>1 DEF Carried
<1>2. CASE DOMAIN ask[c].plan = {}
  <2>1. Plans(c) = {}
    BY <1>2 DEF Plans
  <2>2. ask' = [ask EXCEPT ![c] = Resting] /\ Plain(Resting)
    BY <1>2 DEF NextType, Rest, Ask, Plain, Resting
  <2>. QED
    BY <1>1, <2>1, <2>2, AgreesQuiet
<1>3. CASE DOMAIN ask[c].plan # {}
  <2>1. PICK next : next = [step |-> "select", scope |-> ask[c].scope, plan |-> ask[c].plan]
    OBVIOUS
  <2>2. ask' = [ask EXCEPT ![c] = next] /\ ask'[c] = next
    BY <1>3, <2>1, TypedSame DEF NextType, Planned, Ask
  <2>3. next.step = "select" /\ "key" \notin DOMAIN next /\ "plan" \in DOMAIN next
        /\ next.scope = ask[c].scope /\ next.plan = ask[c].plan
    BY <2>1
  <2>4. Plans(c)' = Plans(c)
    BY <1>0, <2>2, <2>3 DEF Plans
  <2>5. RequestAgrees(c)'
    BY <1>0, <2>2, <2>3, EffectiveSame DEF RequestAgrees, PlanAgrees
  <2>6. \A i \in settled : Carried(records[i], i, Place(records[i]), c) =>
            Carried(records[i], i, Place(records[i]), c)' \/ Place(records[i]) \in drifted'
    BY <1>1, <2>4 DEF Carried, Place
  <2>. QED
    BY <2>2, <2>5, <2>6, AgreesQuiet
<1>. QED
  BY <1>2, <1>3

LEMMA SelectAgrees ==
    ASSUME PPETyped, PPEAgrees, NEW c \in PPERequests, SelectRecords(c)
    PROVE  PPEAgrees'
<1>0. AskTyped(ask[c]) /\ ask[c].step = "select" /\ "plan" \in DOMAIN ask[c] /\ PlanAgrees(c)
  BY TypedSame DEF AskTyped, Planning, PPEAgrees, RequestAgrees, SelectRecords, PPEGoes
<1>1. PICK type \in DOMAIN ask[c].plan :
        Ask(c, [step |-> "recalculate", scope |-> ask[c].scope, type |-> type,
                interval |-> ask[c].plan[type],
                plan |-> [t \in (DOMAIN ask[c].plan) \ {type} |-> ask[c].plan[t]],
                todo |-> Found(ask[c].scope, type)])
  BY DEF SelectRecords, Found
<1>2. PICK next : next = [step |-> "recalculate", scope |-> ask[c].scope, type |-> type,
                interval |-> ask[c].plan[type],
                plan |-> [t \in (DOMAIN ask[c].plan) \ {type} |-> ask[c].plan[t]],
                todo |-> Found(ask[c].scope, type)]
  OBVIOUS
<1>3. ask' = [ask EXCEPT ![c] = next] /\ ask'[c] = next
  BY <1>1, <1>2, TypedSame DEF Ask
<1>4. /\ next.step = "recalculate" /\ "key" \notin DOMAIN next /\ "plan" \in DOMAIN next
      /\ next.scope = ask[c].scope /\ next.type = type /\ next.interval = ask[c].plan[type]
      /\ DOMAIN next.plan = (DOMAIN ask[c].plan) \ {type}
      /\ \A t \in DOMAIN next.plan : next.plan[t] = ask[c].plan[t]
      /\ next.todo = Found(ask[c].scope, type)
  BY <1>2
<1>5. UNCHANGED <<records, settled, matrix, drifted>>
  BY DEF SelectRecords, Untouched
<1>6. RequestAgrees(c)'
  <2>1. PlanAgrees(c)'
    BY <1>0, <1>3, <1>4, <1>5, EffectiveSame DEF PlanAgrees
  <2>2. Doing(c)' = {type} \X Covers(ask[c].scope)
    BY <1>3, <1>4 DEF Doing
  <2>3. ASSUME NEW todo \in next.todo, records[todo.id] # NoPPE
        PROVE  Place(records[todo.id]) \in Doing(c)' /\ records[todo.id].issued = todo.issued
    <3>1. PICK i \in PPERecords : /\ todo = [id |-> i, issued |-> records[i].issued]
                                  /\ records[i].type = type
                                  /\ records[i].department \in Covers(ask[c].scope)
      BY <1>4 DEF Found
    <3>. QED
      BY <2>2, <3>1 DEF Place
  <2>4. WorkAgrees(c)'
    BY <1>0, <1>3, <1>4, <1>5, <2>3, EffectiveSame DEF WorkAgrees, PlanAgrees, Place
  <2>. QED
    BY <1>3, <1>4, <2>1, <2>4 DEF RequestAgrees
<1>7. ASSUME NEW i \in settled, Carried(records[i], i, Place(records[i]), c),
             records[i] # NoPPE, records[i].status = "active"
      PROVE  Carried(records[i], i, Place(records[i]), c)'
  <2>1. i \in PPERecords /\ records[i] \in PPERow
    BY <1>7, TypedSame
  <2>2. Place(records[i]) = <<records[i].type, records[i].department>>
    BY DEF Place
  <2>3. records[i].type \in DOMAIN ask[c].plan /\ records[i].department \in Covers(ask[c].scope)
    BY <1>0, <1>7, <2>2 DEF Carried, Plans
  <2>4. CASE records[i].type = type
    <3>1. [id |-> i, issued |-> records[i].issued] \in next.todo
      BY <1>4, <1>7, <2>1, <2>3, <2>4 DEF Found
    <3>2. Place(records[i]) \in Doing(c)'
      BY <1>3, <1>4, <2>2, <2>3, <2>4 DEF Doing
    <3>. QED
      BY <1>3, <1>4, <1>5, <3>1, <3>2 DEF Carried, Place
  <2>5. CASE records[i].type # type
    <3>1. Place(records[i]) \in Plans(c)'
      BY <1>3, <1>4, <2>2, <2>3, <2>5 DEF Plans
    <3>. QED
      BY <1>5, <3>1 DEF Carried, Place
  <2>. QED
    BY <2>4, <2>5
<1>8. \A e \in PPERequests \ {c} : ask'[e] = ask[e]
  BY <1>3, TypedSame
<1>9. ASSUME NEW e \in PPERequests PROVE RequestAgrees(e)'
  <2>1. \A j \in recordIds : Kept(j, e)
    BY <1>5 DEF Kept, Place
  <2>. QED
    BY <1>5, <1>6, <1>8, <2>1, RequestStays DEF PPEAgrees
<1>10. ASSUME NEW i \in settled PROVE RecordAgrees(i)'
  <2>1. CASE records[i] # NoPPE /\ records[i].status = "active"
    BY <1>5, <1>7, <1>8, <2>1, RecordStays DEF PPEAgrees
  <2>2. CASE ~(records[i] # NoPPE /\ records[i].status = "active")
    BY <1>5, <2>2 DEF RecordAgrees
  <2>. QED
    BY <2>1, <2>2
<1>. QED
  BY <1>5, <1>9, <1>10 DEF PPEAgrees

LEMMA RowAgrees ==
    ASSUME PPETyped, PPEAgrees, NEW c \in PPERequests, RecalculateRow(c)
    PROVE  PPEAgrees'
<1>1. PICK row \in ask[c].todo :
        /\ ask' = [ask EXCEPT ![c] = [ask[c] EXCEPT !.todo = @ \ {row}]]
        /\ IF records[row.id] = NoPPE THEN UNCHANGED <<records, settled>>
           ELSE /\ records' = [records EXCEPT ![row.id].expiry = NewExpiry(row, ask[c].interval)]
                /\ settled' = settled \cup {row.id}
  BY DEF RecalculateRow, Ask
<1>2. /\ ask[c].step = "recalculate" /\ "todo" \in DOMAIN ask[c] /\ "plan" \in DOMAIN ask[c]
      /\ row.id \in recordIds /\ row.id \in PPERecords /\ row \in [id : recordIds, issued : IssueDates]
      /\ "key" \notin DOMAIN ask[c] /\ AskTyped(ask[c])
  BY TypedSame DEF RecalculateRow, PPEGoes, AskTyped, Planning, Unmoved
<1>3. PlanAgrees(c) /\ WorkAgrees(c) /\ matrix' = matrix /\ drifted' = drifted
  BY <1>2 DEF PPEAgrees, RequestAgrees, RecalculateRow
<1>4. PICK next : next = [ask[c] EXCEPT !.todo = @ \ {row}]
  OBVIOUS
<1>5. /\ next.step = "recalculate" /\ DOMAIN next = DOMAIN ask[c]
      /\ next.plan = ask[c].plan /\ next.scope = ask[c].scope /\ next.type = ask[c].type
      /\ next.interval = ask[c].interval /\ next.todo = ask[c].todo \ {row}
  BY <1>2, <1>4
<1>6. ask'[c] = next /\ \A e \in PPERequests \ {c} : ask'[e] = ask[e]
  BY <1>1, <1>4, TypedSame
<1>7. /\ \A j \in PPERecords \ {row.id} : records'[j] = records[j]
      /\ records[row.id] = NoPPE => records'[row.id] = NoPPE
      /\ records[row.id] # NoPPE =>
            /\ records'[row.id] = [records[row.id] EXCEPT !.expiry = NewExpiry(row, ask[c].interval)]
            /\ Place(records'[row.id]) = Place(records[row.id])
            /\ records'[row.id].issued = records[row.id].issued
            /\ records'[row.id].expiry = NewExpiry(row, ask[c].interval)
  <2>1. CASE records[row.id] = NoPPE
    BY <1>1, <2>1
  <2>2. CASE records[row.id] # NoPPE
    <3>1. records[row.id] \in PPERow
      BY <1>2, <2>2, TypedSame
    <3>2. records' = [records EXCEPT ![row.id] = [records[row.id] EXCEPT !.expiry = NewExpiry(row, ask[c].interval)]]
      BY <1>1, <2>2
    <3>3. records'[row.id] = [records[row.id] EXCEPT !.expiry = NewExpiry(row, ask[c].interval)]
          /\ \A j \in PPERecords \ {row.id} : records'[j] = records[j]
      BY <1>2, <3>2, TypedSame
    <3>. QED
      BY <2>2, <3>1, <3>3 DEF Place, PPERow
  <2>. QED
    BY <2>1, <2>2
<1>8. \A e \in PPERequests, j \in recordIds : Kept(j, e)
  BY <1>7, TypedSame DEF Kept
<1>9. RequestAgrees(c)'
  <2>1. PlanAgrees(c)'
    BY <1>3, <1>5, <1>6, EffectiveSame DEF PlanAgrees
  <2>2. Doing(c)' = Doing(c)
    BY <1>2, <1>5, <1>6 DEF Doing
  <2>3. \A d \in Covers(next.scope) : <<next.type, d>> \notin drifted => next.interval = Effective(next.type, d)
    BY <1>3, <1>5 DEF WorkAgrees
  <2>4. ASSUME NEW todo \in next.todo, records'[todo.id] # NoPPE, Place(records'[todo.id]) \notin drifted
        PROVE  Place(records'[todo.id]) \in Doing(c) /\ records'[todo.id].issued = todo.issued
    <3>1. todo \in ask[c].todo /\ todo.id \in recordIds /\ todo.id \in PPERecords
      BY <1>2, <1>5, TypedSame DEF AskTyped
    <3>2. /\ records[todo.id] # NoPPE /\ Place(records'[todo.id]) = Place(records[todo.id])
          /\ records'[todo.id].issued = records[todo.id].issued
      BY <1>7, <2>4, <3>1
    <3>. QED
      BY <1>3, <2>4, <3>1, <3>2 DEF WorkAgrees
  <2>5. WorkAgrees(c)'
    BY <1>3, <1>6, <2>2, <2>3, <2>4, EffectiveSame DEF WorkAgrees, Place
  <2>. QED
    BY <1>2, <1>5, <1>6, <2>1, <2>5 DEF RequestAgrees
<1>10. ASSUME NEW e \in PPERequests PROVE RequestAgrees(e)'
  BY <1>3, <1>6, <1>8, <1>9, RequestStays DEF PPEAgrees
<1>11. ASSUME NEW i \in settled, i # row.id PROVE RecordAgrees(i)'
  <2>1. i \in PPERecords /\ RecordAgrees(i) /\ records'[i] = records[i]
    BY <1>7, <1>11, TypedSame DEF PPEAgrees
  <2>2. ASSUME Carried(records[i], i, Place(records[i]), c) PROVE Carried(records[i], i, Place(records[i]), c)'
    <3>1. Doing(c)' = Doing(c) /\ Plans(c)' = Plans(c)
      BY <1>2, <1>5, <1>6 DEF Doing, Plans
    <3>2. [id |-> i, issued |-> records[i].issued] # row
      BY <1>11
    <3>. QED
      BY <1>5, <1>6, <2>1, <2>2, <3>1, <3>2 DEF Carried, Place
  <2>. QED
    BY <1>3, <1>6, <2>1, <2>2, RecordStays
<1>12. RecordAgrees(row.id)'
  <2>. SUFFICES ASSUME records'[row.id] # NoPPE, Place(records'[row.id]) \notin drifted
                PROVE  records'[row.id].expiry = Expiry(records'[row.id].issued,
                          Effective(Place(records'[row.id])[1], Place(records'[row.id])[2]))
    BY <1>3, EffectiveSame DEF RecordAgrees, Place, Expiry
  <2>1. /\ records[row.id] # NoPPE /\ Place(records'[row.id]) = Place(records[row.id])
        /\ records'[row.id].issued = records[row.id].issued
        /\ records'[row.id].expiry = Expiry(row.issued, ask[c].interval)
    BY <1>7 DEF NewExpiry
  <2>2. Place(records[row.id]) \in Doing(c) /\ records[row.id].issued = row.issued
    BY <1>3, <2>1 DEF WorkAgrees
  <2>3. PICK d \in Covers(ask[c].scope) : Place(records[row.id]) = <<ask[c].type, d>>
    BY <1>2, <2>2 DEF Doing
  <2>4. ask[c].interval = Effective(ask[c].type, d)
    BY <1>3, <2>1, <2>3 DEF WorkAgrees
  <2>. QED
    BY <2>1, <2>2, <2>3, <2>4
<1>13. settled' \subseteq settled \cup {row.id}
  BY <1>1
<1>. QED
  BY <1>10, <1>11, <1>12, <1>13 DEF PPEAgrees

LEMMA StopsAgrees ==
    ASSUME PPETyped, PPEAgrees, NEW c \in PPERequests, PPEStops(c)
    PROVE  PPEAgrees'
<1>1. ask' = [ask EXCEPT ![c] = Resting] /\ Plain(Resting)
  BY DEF PPEStops, Rest, Ask, Plain, Resting
<1>2. UNCHANGED <<records, settled, matrix>> /\ drifted' = drifted \cup Plans(c) \cup Doing(c)
  BY DEF PPEStops, PPELoses
<1>3. \A i \in settled : Carried(records[i], i, Place(records[i]), c) => Place(records[i]) \in drifted'
  BY <1>2 DEF Carried
<1>. QED
  BY <1>1, <1>2, <1>3, AgreesQuiet

LEMMA PPENextAgrees == PPETyped /\ PPEAgrees /\ [PPENext]_ppe_vars => PPEAgrees'
<1>. SUFFICES ASSUME PPETyped, PPEAgrees, [PPENext]_ppe_vars PROVE PPEAgrees'
  OBVIOUS
<1>1. CASE UNCHANGED ppe_vars
  <2>1. \A d \in PPERequests, j \in recordIds : Kept(j, d)
    BY <1>1 DEF ppe_vars, Kept, Place
  <2>2. \A d \in PPERequests : RequestAgrees(d)'
    BY <1>1, <2>1, RequestStays DEF ppe_vars, PPEAgrees
  <2>3. \A i \in settled : RecordAgrees(i)'
    BY <1>1, EffectiveSame DEF ppe_vars, PPEAgrees, RecordAgrees, Place, Expiry, Carried, Plans, Doing
  <2>. QED
    BY <1>1, <2>2, <2>3 DEF ppe_vars, PPEAgrees
<1>2. ASSUME NEW c \in PPERequests,
             \/ \E p \in People, t \in Types, d \in IssueDates :
                  create_ppe_record(c, [person |-> p, department |-> works_in[p], type |-> t, issued |-> d,
                                        expiry |-> NoExpiry, status |-> "active"])
             \/ \E i \in PPERecords :
                  \/ \E patch \in Patches : update_ppe_record(c, i, patch)
                  \/ delete_ppe_record(c, i)
             \/ UpdateRecord(c)
      PROVE  PPEAgrees'
  BY <1>2, ByHandAgrees
<1>3. ASSUME NEW c \in PPERequests,
             \/ \E k \in Keys : record_ppe_event(c, k) \/ KeyUnread(c, k)
             \/ CheckIssue(c) \/ ReadMatrix(c) \/ ReadRecord(c) \/ LogEvent(c) \/ MatrixUnread(c)
             \/ InsertRecord(c) \/ MoveRecord(c)
      PROVE  PPEAgrees'
  BY <1>3, EventsAgree, MovesAgree
<1>4. ASSUME NEW c \in PPERequests,
             \/ \E t \in Types, scope \in Scopes, n \in Intervals : set_ppe_matrix_entry(c, t, scope, n)
             \/ \E types \in {{t} : t \in Types} \cup {Types}, scope \in Scopes : apply_ppe_matrix(c, types, scope)
             \/ \E t \in Types, scope \in Scopes : apply_unread(c, t, scope)
      PROVE  PPEAgrees'
  BY <1>4, EntryAgrees, AppliesAgrees DEF apply_ppe_matrix, apply_unread
<1>5. ASSUME NEW c \in PPERequests, SelectRecords(c) \/ RecalculateRow(c) \/ PPEStops(c)
      PROVE  PPEAgrees'
  BY <1>5, SelectAgrees, RowAgrees, StopsAgrees
<1>6. ASSUME NEW c \in PPERequests, TypeDone(c) PROVE PPEAgrees'
  BY <1>6, NextTypeAgrees DEF TypeDone, PPEGoes, Untouched
<1>7. ASSUME NEW c \in PPERequests, TypeFails(c) PROVE PPEAgrees'
  BY <1>7, NextTypeAgrees DEF TypeFails, PPELoses
<1>8. ASSUME NEW c \in PPERequests,
             \/ \E i \in PPERecords : \E row \in bin[i] : restore_record(c, i, row)
             \/ \E p \in People, d \in Departments : edit_department(c, p, d)
             \/ PutRecordBack(c) \/ MarkBack(c) \/ EmployIn(c) \/ FollowPerson(c)
      PROVE  PPEAgrees'
  BY <1>8, ElsewhereAgrees
<1>. QED
  BY <1>1, <1>2, <1>3, <1>4, <1>5, <1>6, <1>7, <1>8 DEF PPENext

\* "The matrix and stored data never drift apart": for any records, matrix and
\* failures and any number of requests, an active record whose expiry came of the
\* matrix last, and that was not edited, moved to a department with its person or
\* put back since, has the expiry that the matrix of its department gives it, unless
\* a recalculation of its place is under way, failed, met another or such a change,
\* or was the company's in a department with a matrix of its own.
THEOREM ExpiryFollows == PPESpec => []ExpiryFollowsMatrix
<1>1. PPEInit => PPETyped /\ PPEAgrees
  BY PPEInitTyped DEF PPEInit, PPEAgrees, RequestAgrees, Resting
<1>2. PPETyped /\ PPEAgrees /\ [PPENext]_ppe_vars => (PPETyped /\ PPEAgrees)'
  BY PPENextTyped, PPENextAgrees
<1>3. PPETyped /\ PPEAgrees => ExpiryFollowsMatrix
  BY DEF PPETyped, PPEAgrees, RecordAgrees, Carried, UnderWay, ExpiryFollowsMatrix
<1>. QED
  BY <1>1, <1>2, <1>3, PTL DEF PPESpec
-----------------------------------------------------------------------------
(* Recently deleted. A step of a request beside it inserts a row, deletes  *)
(* a row, or leaves which rows there are; the rest are its own steps.      *)

LEMMA MinIn == ASSUME NEW S \in SUBSET Nat, S # {} PROVE Min(S) \in S
<1>1. IsWellFoundedOn(OpToRel(<, Nat), Nat)
  BY NatLessThanWellFounded
<1>2. PICK x \in S : \A y \in S : ~(<<y, x>> \in OpToRel(<, Nat))
  BY <1>1, WFMin
<1>3. ASSUME NEW y \in S, y < x PROVE FALSE
  <2>1. <<y, x>> \in OpToRel(<, Nat)
    BY <1>3 DEF OpToRel
  <2>. QED
    BY <2>1, <1>2
<1>4. \A y \in S : x <= y
  BY <1>3
<1>. QED
  BY <1>4 DEF Min

Kinds == {"refused", "new", "fill", "back"}
Names == [number : Numbers \cup {NoRow}, about : Abouts \cup {NoRow}]
Named(row) == {"number", "about"} \subseteq DOMAIN row /\ row.number \in Numbers \cup {NoRow} /\ row.about \in Abouts \cup {NoRow}

\* What a request holds, as far as the rows it writes go.
FileHeld(at) ==
    /\ {"pc", "file", "action", "person"} \subseteq DOMAIN at
    /\ at.file \in Workbooks
    /\ at.action \in [DOMAIN at.file -> Kinds]
    /\ DOMAIN at.person = DOMAIN at.file /\ \A k \in DOMAIN at.file : Named(at.person[k].row)
ImportHeld(at) ==
    /\ FileHeld(at)
    /\ {"todo", "adds"} \subseteq DOMAIN at
    /\ at.todo \subseteq DOMAIN at.file /\ at.adds \subseteq DOMAIN at.file
InHand(at) ==
    /\ "pc" \in DOMAIN at
    /\ at.pc \in {"twice", "enter", "create"} => "new" \in DOMAIN at /\ at.new \in Rows
    /\ at.pc \in {"number", "save", "follow"} =>
          "new" \in DOMAIN at /\ at.new \in Rows /\ at.new.number \in Numbers /\ at.new.about \in Abouts
    /\ at.pc = "register" => at.file \in Workbooks
    /\ at.pc = "live" => FileHeld(at) /\ DOMAIN at = {"pc", "people", "numbers", "file", "action", "person"}
    /\ at.pc \in {"new", "fill", "back", "again", "issue", "log", "refused"} => ImportHeld(at)
    /\ at.pc \in {"new", "fill", "back"} => at.todo # {}
    /\ at.pc \in {"again", "issue"} => at.adds # {}
    /\ at.pc \in {"clash", "put", "mark"} => "copy" \in DOMAIN at /\ at.copy \in DOMAIN copies

Copies == [id : RowIds, row : Rows, restored : BOOLEAN]
Debts == [stage : {"keep", "note"}, op : {"create", "delete"}, id : RowIds, row : Rows]
TrashTyped ==
    /\ personnel \in [RowIds -> Rows \cup {NoRow}]
    /\ copies \in Seq(Copies) /\ Len(copies) <= MaxCopies
    /\ DOMAIN office = Officers
    /\ owed \in [Officers -> Debts \cup {Nothing}]
    /\ \A o \in Officers : owed[o] # Nothing => (owed[o].stage = "keep" => owed[o].op = "delete")
    /\ noted \in [RowIds -> [create : Nat, delete : Nat]]
    /\ gone \in [RowIds -> Rows \cup {NoRow}]
    /\ put_back \in [CopyIds -> Nat]
Offices == \A o \in Officers : InHand(office[o])

\* A row that went and is not there has a copy to come, or one nobody has put back.
CopyOf(n, i) ==
    /\ copies[n].id = i /\ copies[n].row = gone[i] /\ ~copies[n].restored
    /\ \A q \in Officers : office[q].pc = "mark" => office[q].copy # n
Owing(q, i) == owed[q].stage = "keep" /\ owed[q].id = i /\ owed[q].row = gone[i]
KeptOrOwed ==
    \A i \in RowIds \ (Held \cup unkept) :
       gone[i] # NoRow => (\E q \in Officers : Owing(q, i)) \/ \E n \in DOMAIN copies : CopyOf(n, i)

\* The entries of a row, with those to come, say if it is there.
Share(d, i) == IF d # Nothing /\ d.id = i THEN IF d.op = "create" THEN 1 ELSE -1 ELSE 0
Coming(debts, i) == [q \in Officers |-> Share(debts[q], i)]
ToCome(i) == Total(Coming(owed, i))
Count(i) == IF i \in Held THEN 1 ELSE 0
EntriesAgree ==
    \A i \in RowIds \ unnoted : noted[i].create - noted[i].delete + ToCome(i) = Count(i)

\* Copies are put back by one request at a time, and once.
PuttingBack(q, n) == office[q].pc \in {"clash", "put", "mark"} /\ office[q].copy = n
Was(n) == n \in DOMAIN copies /\ copies[n].restored
Singly(n) ==
    /\ \A q, r \in Officers : PuttingBack(q, n) /\ PuttingBack(r, n) => q = r
    /\ \A q \in Officers : PuttingBack(q, n) => ~Was(n) /\ put_back[n] = IF office[q].pc = "mark" THEN 1 ELSE 0
    /\ (\A q \in Officers : ~PuttingBack(q, n)) => put_back[n] = IF Was(n) THEN 1 ELSE 0
PutBackOnce == \A n \in CopyIds \ reopened : Singly(n)

TrashInv == TrashTyped /\ Offices /\ KeptOrOwed /\ EntriesAgree /\ PutBackOnce

LEMMA DebtParts ==
    ASSUME TrashTyped, NEW o \in Officers
    PROVE  /\ Nothing.stage = "none" /\ Nothing \notin Debts
           /\ owed[o].stage \in {"keep", "note"} <=> owed[o] # Nothing
           /\ owed[o] # Nothing => owed[o] \in Debts
<1>1. Nothing.stage = "none"
  BY DEF Nothing
<1>2. \A d \in Debts : d.stage \in {"keep", "note"}
  BY DEF Debts
<1>3. owed[o] \in Debts \cup {Nothing}
  BY DEF TrashTyped
<1>. QED
  BY <1>1, <1>2, <1>3

LEMMA DebtStep ==
    ASSUME NEW d \in Debts
    PROVE  /\ [d EXCEPT !.stage = "note"] \in Debts /\ [d EXCEPT !.stage = "note"].stage = "note"
           /\ [d EXCEPT !.stage = "note"].id = d.id /\ [d EXCEPT !.stage = "note"].op = d.op
BY DEF Debts

LEMMA KeptHolds == TrashInv => DeletedIsKept
<1>. SUFFICES ASSUME TrashInv PROVE DeletedIsKept
  OBVIOUS
<1>1. ASSUME NEW i \in RowIds \ (Held \cup unkept), gone[i] # NoRow, \A o \in Officers : owed[o] # Nothing => owed[o].id # i
      PROVE  \E n \in DOMAIN copies : copies[n].id = i /\ copies[n].row = gone[i] /\ ~copies[n].restored
  <2>1. \A q \in Officers : ~Owing(q, i)
    BY <1>1, DebtParts DEF TrashInv, Owing
  <2>. QED
    BY <2>1, <1>1 DEF TrashInv, KeptOrOwed, CopyOf
<1>2. ASSUME NEW i \in RowIds \ unnoted, \A o \in Officers : owed[o] # Nothing => owed[o].id # i
      PROVE  noted[i].create - noted[i].delete = IF i \in Held THEN 1 ELSE 0
  <2>1. Coming(owed, i) \in [Officers -> Int] /\ \A q \in Officers : Coming(owed, i)[q] = 0
    BY <1>2 DEF Coming, Share
  <2>2. ToCome(i) = 0
    BY <2>1, TotalOfZeros, CopiesAssumption DEF ToCome
  <2>3. noted[i] \in [create : Nat, delete : Nat]
    BY DEF TrashInv, TrashTyped
  <2>. QED
    BY <2>2, <2>3 DEF TrashInv, EntriesAgree, Count
<1>3. ASSUME NEW n \in CopyIds \ reopened PROVE put_back[n] <= 1
  <2>1. Singly(n)
    BY DEF TrashInv, PutBackOnce
  <2>2. put_back[n] = 0 \/ put_back[n] = 1
    BY <2>1 DEF Singly
  <2>. QED
    BY <2>2
<1>. QED
  BY <1>1, <1>2, <1>3 DEF DeletedIsKept

-----------------------------------------------------------------------------
(* A step beside Recently deleted. *)

Putting == {"clash", "put", "mark"}
Calm == /\ UNCHANGED <<owed, gone>>
        /\ personnel' \in [RowIds -> Rows \cup {NoRow}] /\ Held' = Held
Enters(o) == /\ owed[o] = Nothing /\ gone' = gone
             /\ \E i \in RowIds \ Held, row \in Rows : Inserts(o, i, row)
Leaves(o) == owed[o] = Nothing /\ \E i : Deletes(o, i)
Moves(o) == /\ DOMAIN office' = DOMAIN office /\ \A q \in Officers : q # o => office'[q] = office[q]
            /\ office[o].pc \notin Putting /\ office'[o].pc \notin Putting
            /\ InHand(office'[o])
Besides(o) ==
    /\ UNCHANGED <<copies, noted, unkept, unnoted, put_back, reopened>>
    /\ Moves(o)
    /\ Calm \/ Enters(o) \/ Leaves(o)

LEMMA HeldRows ==
    ASSUME TrashTyped
    PROVE  \A i \in RowIds : (i \in Held <=> personnel[i] # NoRow) /\ (i \in Held => personnel[i] \in Rows)
BY DEF TrashTyped, Held

LEMMA EntersRow ==
    ASSUME TrashTyped, NEW o \in Officers, owed[o] = Nothing, gone' = gone,
           NEW i \in RowIds \ Held, NEW row \in Rows, Inserts(o, i, row)
    PROVE  /\ personnel' \in [RowIds -> Rows \cup {NoRow}] /\ Held' = Held \cup {i}
           /\ owed'[o] \in Debts /\ owed'[o].id = i /\ owed'[o].op = "create" /\ owed'[o].stage = "note"
           /\ owed' = [owed EXCEPT ![o] = owed'[o]]
<1>. DEFINE d == [stage |-> "note", op |-> "create", id |-> i, row |-> row]
<1>1. d \in Debts /\ d.id = i /\ d.op = "create" /\ d.stage = "note"
  BY DEF Debts
<1>2. owed' = [owed EXCEPT ![o] = d] /\ personnel' = [personnel EXCEPT ![i] = row]
  BY DEF Inserts
<1>. HIDE DEF d
<1>3. owed'[o] = d
  BY <1>2 DEF TrashTyped
<1>4. NoRow \notin Rows
  BY EmployeesAssumption
<1>. QED
  BY <1>1, <1>2, <1>3, <1>4 DEF TrashTyped, Held

LEMMA LeavesRow ==
    ASSUME TrashTyped, NEW o \in Officers, owed[o] = Nothing, NEW i, Deletes(o, i)
    PROVE  \/ Calm
           \/ /\ i \in Held
              /\ personnel' \in [RowIds -> Rows \cup {NoRow}] /\ Held' = Held \ {i}
              /\ owed'[o] \in Debts /\ owed'[o].id = i /\ owed'[o].op = "delete" /\ owed'[o].stage = "keep"
              /\ owed'[o].row = personnel[i]
              /\ owed' = [owed EXCEPT ![o] = owed'[o]]
              /\ gone' = [gone EXCEPT ![i] = personnel[i]]
<1>. DEFINE d == [stage |-> "keep", op |-> "delete", id |-> i, row |-> personnel[i]]
<1>1. CASE i \in Held
  <2>1. i \in RowIds /\ personnel[i] \in Rows
    BY <1>1, HeldRows DEF Held
  <2>2. d \in Debts /\ d.id = i /\ d.op = "delete" /\ d.stage = "keep" /\ d.row = personnel[i]
    BY <2>1 DEF Debts
  <2>3. /\ owed' = [owed EXCEPT ![o] = d] /\ personnel' = [personnel EXCEPT ![i] = NoRow]
        /\ gone' = [gone EXCEPT ![i] = personnel[i]]
    BY <1>1 DEF Deletes
  <2>. HIDE DEF d
  <2>4. owed'[o] = d
    BY <2>3 DEF TrashTyped
  <2>5. personnel' \in [RowIds -> Rows \cup {NoRow}] /\ Held' = Held \ {i}
    BY <2>1, <2>3 DEF TrashTyped, Held
  <2>. QED
    BY <1>1, <2>2, <2>3, <2>4, <2>5
<1>2. CASE i \notin Held
  <2>1. owed' = owed /\ gone' = gone /\ personnel' = [personnel EXCEPT ![i] = NoRow]
    BY <1>2 DEF Deletes
  <2>2. personnel' = personnel
    BY <1>2, <2>1, HeldRows DEF TrashTyped
  <2>. QED
    BY <2>1, <2>2 DEF TrashTyped, Held, Calm
<1>. QED
  BY <1>1, <1>2

LEMMA HandsElse ==
    ASSUME DOMAIN office = Officers, Offices, NEW o \in Officers,
           DOMAIN office' = DOMAIN office, \A q \in Officers : q # o => office'[q] = office[q],
           DOMAIN copies \subseteq DOMAIN copies', InHand(office[o])'
    PROVE  DOMAIN office' = Officers /\ Offices'
<1>1. DOMAIN office' = Officers /\ \A q \in Officers \ {o} : office'[q] = office[q]
  OBVIOUS
<1>2. ASSUME NEW q \in Officers \ {o} PROVE InHand(office[q])'
  BY <1>1, <1>2 DEF Offices, InHand, FileHeld, ImportHeld
<1>. QED
  BY <1>1, <1>2 DEF Offices

LEMMA DebtsGo ==
    ASSUME TrashTyped, NEW o \in Officers, NEW d \in Debts \cup {Nothing}, owed' = [owed EXCEPT ![o] = d],
           d # Nothing => (d.stage = "keep" => d.op = "delete")
    PROVE  /\ owed' \in [Officers -> Debts \cup {Nothing}]
           /\ owed'[o] = d /\ \A q \in Officers : q # o => owed'[q] = owed[q]
           /\ \A q \in Officers : owed'[q] # Nothing => (owed'[q].stage = "keep" => owed'[q].op = "delete")
BY DEF TrashTyped

LEMMA BesidesTyped ==
    ASSUME TrashTyped, Offices, NEW o \in Officers, Besides(o)
    PROVE  TrashTyped' /\ Offices'
<1>1. DOMAIN office' = Officers /\ Offices'
  <2>1. InHand(office[o])'
    BY DEF Besides, Moves, InHand, FileHeld, ImportHeld
  <2>. QED
    BY <2>1, HandsElse DEF TrashTyped, Besides, Moves
<1>2. /\ personnel' \in [RowIds -> Rows \cup {NoRow}]
      /\ owed' \in [Officers -> Debts \cup {Nothing}] /\ gone' \in [RowIds -> Rows \cup {NoRow}]
      /\ \A q \in Officers : owed'[q] # Nothing => (owed'[q].stage = "keep" => owed'[q].op = "delete")
  <2>1. CASE Calm
    BY <2>1 DEF Calm, TrashTyped
  <2>2. CASE Enters(o)
    <3>1. PICK i \in RowIds \ Held, row \in Rows : Inserts(o, i, row)
      BY <2>2 DEF Enters
    <3>2. owed'[o] \in Debts /\ owed'[o].stage # "keep" /\ owed' = [owed EXCEPT ![o] = owed'[o]] /\ gone' = gone
      BY <2>2, <3>1, EntersRow DEF Enters
    <3>3. personnel' \in [RowIds -> Rows \cup {NoRow}]
      BY <2>2, <3>1, EntersRow DEF Enters
    <3>. QED
      BY <3>2, <3>3, DebtsGo DEF TrashTyped
  <2>3. CASE Leaves(o)
    <3>1. PICK i : Deletes(o, i)
      BY <2>3 DEF Leaves
    <3>2. CASE i \in Held /\ ~Calm
      <4>1. /\ personnel' \in [RowIds -> Rows \cup {NoRow}]
            /\ owed'[o] \in Debts /\ owed'[o].op = "delete" /\ owed' = [owed EXCEPT ![o] = owed'[o]]
            /\ gone' = [gone EXCEPT ![i] = personnel[i]]
        BY <2>3, <3>1, <3>2, LeavesRow DEF Leaves
      <4>2. i \in RowIds /\ personnel[i] \in Rows
        BY <3>2, HeldRows DEF Held
      <4>3. gone' \in [RowIds -> Rows \cup {NoRow}]
        BY <4>1, <4>2 DEF TrashTyped
      <4>. QED
        BY <4>1, <4>3, DebtsGo
    <3>. QED
      BY <2>1, <2>3, <3>1, <3>2, LeavesRow DEF Leaves
  <2>. QED
    BY <2>1, <2>2, <2>3 DEF Besides
<1>. QED
  BY <1>1, <1>2 DEF TrashTyped, Besides

LEMMA BesidesSingly ==
    ASSUME TrashTyped, PutBackOnce, NEW o \in Officers, Besides(o)
    PROVE  PutBackOnce'
<1>1. /\ DOMAIN office' = Officers /\ \A q \in Officers : q # o => office'[q] = office[q]
      /\ office[o].pc \notin Putting /\ office'[o].pc \notin Putting
  BY DEF Besides, Moves, TrashTyped
<1>2. \A n \in CopyIds : \A q \in Officers :
        (PuttingBack(q, n)' <=> PuttingBack(q, n)) /\ (PuttingBack(q, n) => office'[q] = office[q])
  BY <1>1 DEF PuttingBack, Putting
<1>3. copies' = copies /\ put_back' = put_back /\ reopened' = reopened
  BY DEF Besides
<1>4. ASSUME NEW n \in CopyIds, Singly(n) PROVE Singly(n)'
  BY <1>2, <1>3, <1>4 DEF Singly, Was
<1>. QED
  BY <1>3, <1>4 DEF PutBackOnce, CopyIds

\* The marks on a copy stay what they were.
LEMMA CopyStays ==
    ASSUME NEW o \in Officers, NEW n, NEW i, CopyOf(n, i),
           \A q \in Officers : q # o => office'[q] = office[q], office'[o].pc = "mark" => office'[o].copy # n,
           copies'[n] = copies[n], gone'[i] = gone[i]
    PROVE  CopyOf(n, i)'
BY DEF CopyOf

LEMMA BesidesKept ==
    ASSUME TrashTyped, KeptOrOwed, NEW o \in Officers, Besides(o)
    PROVE  KeptOrOwed'
<1>1. /\ \A q \in Officers : q # o => office'[q] = office[q]
      /\ office'[o].pc # "mark" /\ copies' = copies /\ unkept' = unkept
  BY DEF Besides, Moves, Putting, TrashTyped
<1>2. ASSUME NEW i \in RowIds \ (Held \cup unkept), gone[i] # NoRow, gone'[i] = gone[i],
             \A q \in Officers : Owing(q, i) => owed'[q] = owed[q]
      PROVE  (\E q \in Officers : Owing(q, i))' \/ (\E n \in DOMAIN copies : CopyOf(n, i))'
  <2>1. CASE \E q \in Officers : Owing(q, i)
    BY <2>1, <1>2 DEF Owing
  <2>2. CASE \E n \in DOMAIN copies : CopyOf(n, i)
    <3>1. PICK n \in DOMAIN copies : CopyOf(n, i)
      BY <2>2
    <3>2. CopyOf(n, i)'
      BY <1>1, <1>2, <3>1, CopyStays
    <3>. QED
      BY <1>1, <3>2
  <2>. QED
    BY <1>2, <2>1, <2>2 DEF KeptOrOwed
<1>3. CASE Calm
  <2>1. Held' = Held /\ gone' = gone /\ owed' = owed
    BY <1>3 DEF Calm
  <2>. QED
    BY <1>1, <1>2, <2>1 DEF KeptOrOwed
<1>4. \A i \in RowIds : owed[o] = Nothing => \A q \in Officers : Owing(q, i) => q # o
  BY DebtParts DEF Owing
<1>5. CASE Enters(o)
  <2>1. PICK j \in RowIds \ Held, row \in Rows : Inserts(o, j, row)
    BY <1>5 DEF Enters
  <2>2. Held' = Held \cup {j} /\ owed' = [owed EXCEPT ![o] = owed'[o]] /\ gone' = gone /\ owed[o] = Nothing
    BY <1>5, <2>1, EntersRow DEF Enters
  <2>3. \A q \in Officers : q # o => owed'[q] = owed[q]
    BY <2>2 DEF TrashTyped
  <2>. QED
    BY <1>1, <1>2, <1>4, <2>2, <2>3 DEF KeptOrOwed
<1>6. CASE Leaves(o)
  <2>1. PICK j : Deletes(o, j)
    BY <1>6 DEF Leaves
  <2>2. CASE j \in Held /\ ~Calm
    <3>1. /\ Held' = Held \ {j} /\ owed' = [owed EXCEPT ![o] = owed'[o]]
          /\ owed'[o].id = j /\ owed'[o].stage = "keep" /\ owed'[o].row = personnel[j]
          /\ gone' = [gone EXCEPT ![j] = personnel[j]] /\ owed[o] = Nothing /\ j \in RowIds
      BY <1>6, <2>1, <2>2, LeavesRow DEF Leaves, Held
    <3>2. \A q \in Officers : q # o => owed'[q] = owed[q]
      BY <3>1 DEF TrashTyped
    <3>3. gone'[j] = personnel[j] /\ \A i \in RowIds : i # j => gone'[i] = gone[i]
      BY <3>1 DEF TrashTyped
    <3>4. Owing(o, j)'
      BY <3>1, <3>3 DEF Owing
    <3>5. \A i \in RowIds \ (Held' \cup unkept') : i # j => i \in RowIds \ (Held \cup unkept)
      BY <3>1, <1>1
    <3>. QED
      BY <1>1, <1>2, <1>4, <3>1, <3>2, <3>3, <3>4, <3>5 DEF KeptOrOwed
  <2>. QED
    BY <1>3, <1>6, <2>1, <2>2, LeavesRow DEF Leaves
<1>. QED
  BY <1>3, <1>5, <1>6 DEF Besides

LEMMA ComingStep ==
    ASSUME TrashTyped, NEW o \in Officers, NEW d \in Debts \cup {Nothing}, owed' = [owed EXCEPT ![o] = d], NEW i \in RowIds
    PROVE  /\ ToCome(i) \in Int
           /\ ToCome(i)' = ToCome(i) - Share(owed[o], i) + Share(d, i)
<1>1. Coming(owed, i) \in [Officers -> Int] /\ Coming(owed', i) \in [Officers -> Int]
  BY DEF Coming, Share
<1>2. \A q \in Officers \ {o} : Coming(owed, i)[q] = Coming(owed', i)[q]
  BY DEF Coming, TrashTyped
<1>6. Coming(owed, i)[o] = Share(owed[o], i) /\ Coming(owed', i)[o] = Share(d, i)
  BY DEF Coming, TrashTyped
<1>3. IsFiniteSet(Officers)
  BY CopiesAssumption
<1>4. Total(Coming(owed', i)) = Total(Coming(owed, i)) - Coming(owed, i)[o] + Coming(owed', i)[o]
  <2>. DEFINE before == Coming(owed, i)
              after == Coming(owed', i)
  <2>1. before \in [Officers -> Int] /\ after \in [Officers -> Int] /\ \A q \in Officers \ {o} : before[q] = after[q]
    BY <1>1, <1>2
  <2>. HIDE DEF before, after
  <2>2. Total(after) = Total(before) - before[o] + after[o]
    BY <1>3, <2>1, TotalChange
  <2>. QED
    BY <2>2 DEF before, after
<1>5. ToCome(i)' = Total(Coming(owed', i)) /\ ToCome(i) = Total(Coming(owed, i))
  BY DEF ToCome
<1>. QED
  BY <1>1, <1>3, <1>4, <1>5, <1>6, TotalType

\* A row is there, or gone, and its entry is to come.
LEMMA RowEntries ==
    ASSUME TrashTyped, EntriesAgree, NEW o \in Officers, noted' = noted, unnoted' = unnoted,
           NEW j \in RowIds, NEW d \in Debts, d.id = j, owed[o] = Nothing, owed' = [owed EXCEPT ![o] = d],
           \/ d.op = "create" /\ j \notin Held /\ Held' = Held \cup {j}
           \/ d.op = "delete" /\ j \in Held /\ Held' = Held \ {j}
    PROVE  EntriesAgree'
<1>1. ASSUME NEW i \in RowIds \ unnoted' PROVE (noted[i].create - noted[i].delete + ToCome(i) = Count(i))'
  <2>1. Share(owed[o], i) = 0
    BY DEF Share
  <2>2. Share(d, i) = IF i = j THEN IF d.op = "create" THEN 1 ELSE -1 ELSE 0
    BY DebtParts DEF Share
  <2>3. Count(i)' = Count(i) + Share(d, i) /\ Count(i) \in Int /\ Share(d, i) \in Int
    BY <2>2 DEF Count
  <2>4. ToCome(i) \in Int /\ ToCome(i)' = ToCome(i) - Share(owed[o], i) + Share(d, i)
    BY ComingStep
  <2>5. noted[i].create - noted[i].delete + ToCome(i) = Count(i)
    BY DEF EntriesAgree
  <2>6. noted[i].create \in Nat /\ noted[i].delete \in Nat
    BY DEF TrashTyped
  <2>. HIDE DEF Count, Share, ToCome
  <2>. QED
    BY <2>1, <2>3, <2>4, <2>5, <2>6
<1>. QED
  BY <1>1 DEF EntriesAgree

LEMMA EntriesStay ==
    ASSUME EntriesAgree, noted' = noted, unnoted \subseteq unnoted', Held' = Held,
           \A i \in RowIds \ unnoted' : ToCome(i)' = ToCome(i)
    PROVE  EntriesAgree'
BY DEF EntriesAgree, Count

LEMMA BesidesEntries ==
    ASSUME TrashTyped, EntriesAgree, NEW o \in Officers, Besides(o)
    PROVE  EntriesAgree'
<1>1. noted' = noted /\ unnoted' = unnoted
  BY DEF Besides
<1>3. CASE Calm
  <2>1. Held' = Held /\ owed' = owed
    BY <1>3 DEF Calm
  <2>2. \A i : ToCome(i)' = ToCome(i)
    BY <2>1 DEF ToCome
  <2>. QED
    BY <1>1, <2>1, <2>2, EntriesStay
<1>6. CASE Enters(o)
  <2>1. PICK j \in RowIds \ Held, row \in Rows : Inserts(o, j, row)
    BY <1>6 DEF Enters
  <2>. QED
    BY <1>1, <1>6, <2>1, EntersRow, RowEntries DEF Enters
<1>7. CASE Leaves(o)
  <2>1. PICK j : Deletes(o, j)
    BY <1>7 DEF Leaves
  <2>2. CASE j \in Held /\ ~Calm
    <3>1. j \in RowIds
      BY <2>2 DEF Held
    <3>. QED
      BY <1>1, <1>7, <2>1, <2>2, <3>1, LeavesRow, RowEntries DEF Leaves
  <2>. QED
    BY <1>3, <1>7, <2>1, <2>2, LeavesRow DEF Leaves
<1>. QED
  BY <1>3, <1>6, <1>7 DEF Besides

LEMMA BesidesKeeps ==
    ASSUME TrashInv, NEW o \in Officers, Besides(o)
    PROVE  TrashInv'
BY BesidesTyped, BesidesSingly, BesidesKept, BesidesEntries DEF TrashInv
-----------------------------------------------------------------------------
(* The steps of Recently deleted and of the audited client. *)

LEMMA KeptBut ==
    ASSUME TrashTyped, KeptOrOwed, NEW o \in Officers, \A q \in Officers : q # o => office'[q] = office[q],
           Held \subseteq Held', gone' = gone, unkept \subseteq unkept',
           NEW Skipped, \A i \in RowIds \cap Skipped : i \in Held' \cup unkept',
           \A i \in RowIds \ Skipped, q \in Officers :
              Owing(q, i) => Owing(q, i)' \/ \E n \in DOMAIN copies' : CopyOf(n, i)',
           \A i \in RowIds \ Skipped, n \in DOMAIN copies :
              CopyOf(n, i) => /\ n \in DOMAIN copies' /\ copies'[n] = copies[n]
                              /\ office'[o].pc = "mark" => office'[o].copy # n
    PROVE  KeptOrOwed'
<1>1. ASSUME NEW i \in RowIds \ (Held' \cup unkept'), gone'[i] # NoRow
      PROVE  (\E q \in Officers : Owing(q, i))' \/ (\E n \in DOMAIN copies : CopyOf(n, i))'
  <2>1. i \in RowIds \ (Held \cup unkept) /\ i \notin Skipped /\ gone[i] # NoRow
    BY <1>1
  <2>2. CASE \E q \in Officers : Owing(q, i)
    BY <2>1, <2>2
  <2>3. ASSUME NEW n \in DOMAIN copies, CopyOf(n, i) PROVE (\E m \in DOMAIN copies : CopyOf(m, i))'
    <3>1. n \in DOMAIN copies' /\ copies'[n] = copies[n] /\ (office'[o].pc = "mark" => office'[o].copy # n)
      BY <2>1, <2>3
    <3>. QED
      BY <2>3, <3>1, CopyStays
  <2>. QED
    BY <2>1, <2>2, <2>3 DEF KeptOrOwed
<1>. QED
  BY <1>1 DEF KeptOrOwed

LEMMA KeptStays ==
    ASSUME TrashTyped, KeptOrOwed, NEW o \in Officers, \A q \in Officers : q # o => office'[q] = office[q],
           Held \subseteq Held', gone' = gone, unkept \subseteq unkept',
           \A i \in RowIds, q \in Officers :
              Owing(q, i) => Owing(q, i)' \/ \E n \in DOMAIN copies' : CopyOf(n, i)',
           \A i \in RowIds, n \in DOMAIN copies :
              CopyOf(n, i) => /\ n \in DOMAIN copies' /\ copies'[n] = copies[n]
                              /\ office'[o].pc = "mark" => office'[o].copy # n
    PROVE  KeptOrOwed'
<1>. DEFINE none == {}
<1>1. \A i \in RowIds \cap none : i \in Held' \cup unkept'
  OBVIOUS
<1>2. \A i \in RowIds \ none, q \in Officers : Owing(q, i) => Owing(q, i)' \/ \E n \in DOMAIN copies' : CopyOf(n, i)'
  OBVIOUS
<1>3. \A i \in RowIds \ none, n \in DOMAIN copies :
         CopyOf(n, i) => /\ n \in DOMAIN copies' /\ copies'[n] = copies[n]
                         /\ office'[o].pc = "mark" => office'[o].copy # n
  OBVIOUS
<1>. HIDE DEF none
<1>. QED
  BY <1>1, <1>2, <1>3, KeptBut

LEMMA SinglyStays ==
    ASSUME NEW o \in Officers, DOMAIN office = Officers, office' = [office EXCEPT ![o] = office'[o]],
           NEW n \in CopyIds, Singly(n), put_back'[n] = put_back[n], Was(n)' = Was(n),
           PuttingBack(o, n)' <=> PuttingBack(o, n),
           PuttingBack(o, n) => (office'[o].pc = "mark" <=> office[o].pc = "mark")
    PROVE  Singly(n)'
<1>1. \A q \in Officers : q # o => office'[q] = office[q]
  OBVIOUS
<1>2. \A q \in Officers : /\ PuttingBack(q, n)' <=> PuttingBack(q, n)
                          /\ PuttingBack(q, n) => (office'[q].pc = "mark" <=> office[q].pc = "mark")
  BY <1>1 DEF PuttingBack
<1>. QED
  BY <1>2 DEF Singly

\* A step that only turns a request to another call of the restore, or away.
LEMMA Turning ==
    ASSUME TrashTyped, Offices, KeptOrOwed, EntriesAgree, NEW o \in Officers,
           UNCHANGED <<personnel, copies, owed, noted, gone, unkept, unnoted, put_back>>,
           office' = [office EXCEPT ![o] = office'[o]], InHand(office'[o]), office'[o].pc # "mark"
    PROVE  TrashTyped' /\ Offices' /\ KeptOrOwed' /\ EntriesAgree'
<1>1. DOMAIN office' = Officers /\ Offices'
  <2>1. InHand(office[o])'
    BY DEF InHand, FileHeld, ImportHeld
  <2>. QED
    BY <2>1, HandsElse DEF TrashTyped
<1>2. TrashTyped'
  BY <1>1 DEF TrashTyped
<1>3. Held' = Held /\ \A i : ToCome(i)' = ToCome(i)
  BY DEF Held, ToCome
<1>4. EntriesAgree'
  BY <1>3, EntriesStay
<1>5. \A i \in RowIds, q \in Officers : Owing(q, i) => Owing(q, i)'
  BY DEF Owing
<1>6. KeptOrOwed'
  <2>1. \A q \in Officers : q # o => office'[q] = office[q]
    BY DEF TrashTyped
  <2>2. \A i \in RowIds, n \in DOMAIN copies : n \in DOMAIN copies' /\ copies'[n] = copies[n]
    OBVIOUS
  <2>. QED
    BY <1>3, <1>5, <2>1, <2>2, KeptStays
<1>. QED
  BY <1>1, <1>2, <1>4, <1>6

LEMMA AwayHeld == InHand(Away) /\ Away.pc = "away" /\ Away.pc \notin Putting
BY DEF InHand, Away, Putting

LEMMA TurnsTo ==
    ASSUME DOMAIN office = Officers, NEW o \in Officers, NEW next, Turns(o, next)
    PROVE  office' = [office EXCEPT ![o] = office'[o]] /\ office'[o] = next
BY DEF Turns

LEMMA RestoreKeeps ==
    ASSUME TrashInv, NEW o \in Officers, NEW n, office[o] = Away, restore_deleted(o, n)
    PROVE  TrashInv'
<1>. DEFINE next == Request("clash", {}, {}) ++ [copy |-> n]
<1>1. "pc" \in DOMAIN next /\ next.pc = "clash" /\ "copy" \in DOMAIN next /\ next.copy = n
  BY DEF Request, ++
<1>. HIDE DEF next
<1>2. /\ Turns(o, next) /\ n \in DOMAIN copies /\ ~copies[n].restored
      /\ UNCHANGED <<personnel, copies, owed, noted, gone, unkept, unnoted, put_back>>
      /\ reopened' = IF \E q \in Officers : Restores(q) /\ office[q].copy = n THEN reopened \cup {n} ELSE reopened
  BY DEF restore_deleted, next
<1>3. office' = [office EXCEPT ![o] = office'[o]] /\ office'[o] = next
  BY <1>2, TurnsTo DEF TrashInv, TrashTyped
<1>4. InHand(next)
  BY <1>1, <1>2 DEF InHand
<1>5. TrashTyped' /\ Offices' /\ KeptOrOwed' /\ EntriesAgree'
  BY <1>1, <1>2, <1>3, <1>4, Turning DEF TrashInv
<1>6. \A m : ~PuttingBack(o, m)
  BY AwayHeld DEF PuttingBack
<1>7. ASSUME NEW m \in CopyIds \ reopened' PROVE Singly(m)'
  <2>1. Singly(m) /\ DOMAIN office = Officers /\ Was(m)' = Was(m) /\ put_back' = put_back
    BY <1>2, <1>7 DEF TrashInv, PutBackOnce, TrashTyped, Was
  <2>2. CASE m # n
    <3>1. ~PuttingBack(o, m)'
      BY <1>1, <1>3, <2>2 DEF PuttingBack
    <3>. QED
      BY <1>3, <1>6, <2>1, <3>1, SinglyStays
  <2>3. CASE m = n
    <3>1. \A q \in Officers : ~PuttingBack(q, n)
      BY <1>2, <1>7, <2>3 DEF PuttingBack, Restores
    <3>2. ~Was(n) /\ put_back[n] = 0
      BY <1>2, <2>1, <2>3, <3>1 DEF Singly, Was
    <3>3. \A q \in Officers : q # o => office'[q] = office[q]
      BY <1>3, <2>1
    <3>4. \A q \in Officers : PuttingBack(q, n)' => q = o
      BY <3>1, <3>3 DEF PuttingBack
    <3>5. office'[o].pc # "mark" /\ PuttingBack(o, n)'
      BY <1>1, <1>3 DEF PuttingBack
    <3>. QED
      BY <2>1, <2>3, <3>2, <3>4, <3>5 DEF Singly
  <2>. QED
    BY <2>2, <2>3
<1>. QED
  BY <1>5, <1>7 DEF TrashInv, PutBackOnce, CopyIds

\* A request leaves a copy it has not put back.
LEMMA LeavesCopy ==
    ASSUME TrashInv, NEW o \in Officers, office' = [office EXCEPT ![o] = Away], office[o].pc # "mark",
           copies' = copies, put_back' = put_back, NEW m \in CopyIds \ reopened
    PROVE  Singly(m)'
<1>1. Singly(m) /\ DOMAIN office = Officers /\ Was(m)' = Was(m) /\ put_back'[m] = put_back[m]
  BY DEF TrashInv, PutBackOnce, TrashTyped, Was
<1>2. office'[o] = Away /\ ~PuttingBack(o, m)' /\ office' = [office EXCEPT ![o] = office'[o]]
  BY <1>1, AwayHeld DEF PuttingBack
<1>3. CASE ~PuttingBack(o, m)
  BY <1>1, <1>2, <1>3, SinglyStays
<1>4. CASE PuttingBack(o, m)
  <2>1. ~Was(m) /\ put_back[m] = 0 /\ \A q \in Officers : q # o => ~PuttingBack(q, m)
    BY <1>1, <1>4 DEF Singly
  <2>2. \A q \in Officers : q # o => office'[q] = office[q]
    BY <1>1, <1>2
  <2>3. \A q \in Officers : ~PuttingBack(q, m)'
    BY <1>2, <2>1, <2>2 DEF PuttingBack
  <2>. QED
    BY <1>1, <2>1, <2>3 DEF Singly
<1>. QED
  BY <1>3, <1>4

LEMMA ClashKeeps ==
    ASSUME TrashInv, NEW o \in Officers, FindClash(o)
    PROVE  TrashInv'
<1>1. /\ office[o].pc = "clash" /\ UNCHANGED <<personnel, copies, owed, noted, gone, unkept, unnoted, put_back>>
      /\ reopened' = reopened /\ DOMAIN office = Officers
  BY DEF FindClash, Ready, trash_history, TrashInv, TrashTyped
<1>2. "pc" \in DOMAIN office[o] /\ "copy" \in DOMAIN office[o] /\ office[o].copy \in DOMAIN copies
  BY <1>1 DEF TrashInv, Offices, InHand
<1>. DEFINE put == [office[o] EXCEPT !.pc = "put"]
<1>3. "pc" \in DOMAIN put /\ "copy" \in DOMAIN put /\ put.pc = "put" /\ put.copy = office[o].copy
  BY <1>2
<1>. HIDE DEF put
<1>4. InHand(put)
  BY <1>2, <1>3 DEF InHand
<1>5. Turns(o, put) \/ Turns(o, Away)
  BY DEF FindClash, Answers, put
<1>6. CASE Turns(o, put)
  <2>1. office' = [office EXCEPT ![o] = office'[o]] /\ office'[o] = put
    BY <1>1, <1>6, TurnsTo
  <2>2. TrashTyped' /\ Offices' /\ KeptOrOwed' /\ EntriesAgree'
    BY <1>1, <1>3, <1>4, <2>1, Turning DEF TrashInv
  <2>3. ASSUME NEW m \in CopyIds \ reopened PROVE Singly(m)'
    <3>1. Singly(m) /\ Was(m)' = Was(m) /\ put_back'[m] = put_back[m]
      BY <1>1, <2>3 DEF TrashInv, PutBackOnce, Was
    <3>2. PuttingBack(o, m)' <=> PuttingBack(o, m)
      BY <1>1, <1>3, <2>1 DEF PuttingBack
    <3>3. office'[o].pc # "mark" /\ office[o].pc # "mark"
      BY <1>1, <1>3, <2>1
    <3>. QED
      BY <1>1, <2>1, <3>1, <3>2, <3>3, SinglyStays
  <2>. QED
    BY <1>1, <2>2, <2>3 DEF TrashInv, PutBackOnce, CopyIds
<1>7. CASE Turns(o, Away)
  <2>1. office' = [office EXCEPT ![o] = office'[o]] /\ office'[o] = Away /\ office' = [office EXCEPT ![o] = Away]
    BY <1>1, <1>7, TurnsTo DEF Turns
  <2>2. TrashTyped' /\ Offices' /\ KeptOrOwed' /\ EntriesAgree'
    BY <1>1, <2>1, AwayHeld, Turning DEF TrashInv
  <2>3. ASSUME NEW m \in CopyIds \ reopened PROVE Singly(m)'
    BY <1>1, <2>1, <2>3, LeavesCopy
  <2>. QED
    BY <1>1, <2>2, <2>3 DEF TrashInv, PutBackOnce, CopyIds
<1>. QED
  BY <1>5, <1>6, <1>7
LEMMA CopyNumbers ==
    ASSUME TrashTyped, NEW n \in DOMAIN copies
    PROVE  copies[n] \in Copies /\ n \in CopyIds
BY CopiesAssumption DEF TrashTyped, CopyIds

LEMMA PutBackKeeps ==
    ASSUME TrashInv, NEW o \in Officers, PutBack(o)
    PROVE  TrashInv'
<1>. PICK n : n = office[o].copy
  OBVIOUS
<1>. PICK i : i = copies[n].id
  OBVIOUS
<1>. PICK mark : mark = [office[o] EXCEPT !.pc = "mark"]
  OBVIOUS
<1>1. /\ office[o].pc = "put" /\ owed[o] = Nothing /\ UNCHANGED <<copies, noted, gone, unkept, unnoted, reopened>>
      /\ DOMAIN office = Officers
  BY DEF PutBack, Ready, TrashInv, TrashTyped
<1>2. "pc" \in DOMAIN office[o] /\ "copy" \in DOMAIN office[o] /\ n \in DOMAIN copies
  BY <1>1 DEF TrashInv, Offices, InHand
<1>3. "pc" \in DOMAIN mark /\ "copy" \in DOMAIN mark /\ mark.pc = "mark" /\ mark.copy = n
  BY <1>2
<1>4. copies[n] \in Copies /\ n \in CopyIds
  BY <1>2, CopyNumbers DEF TrashInv
<1>5. i \in RowIds /\ copies[n].row \in Rows
  BY <1>4 DEF Copies
<1>6. \/ Turns(o, Away) /\ UNCHANGED <<personnel, owed, put_back>>
      \/ /\ i \notin Held /\ Inserts(o, i, copies[n].row)
         /\ put_back' = [put_back EXCEPT ![n] = @ + 1] /\ Turns(o, mark)
  BY DEF PutBack, Answers
<1>7. CASE Turns(o, Away) /\ UNCHANGED <<personnel, owed, put_back>>
  <2>1. office' = [office EXCEPT ![o] = office'[o]] /\ office'[o] = Away /\ office' = [office EXCEPT ![o] = Away]
    BY <1>1, <1>7, TurnsTo DEF Turns
  <2>2. TrashTyped' /\ Offices' /\ KeptOrOwed' /\ EntriesAgree'
    BY <1>1, <1>7, <2>1, AwayHeld, Turning DEF TrashInv
  <2>3. ASSUME NEW m \in CopyIds \ reopened PROVE Singly(m)'
    BY <1>1, <1>7, <2>1, <2>3, LeavesCopy
  <2>. QED
    BY <1>1, <2>2, <2>3 DEF TrashInv, PutBackOnce, CopyIds
<1>8. CASE /\ i \notin Held /\ Inserts(o, i, copies[n].row)
           /\ put_back' = [put_back EXCEPT ![n] = @ + 1] /\ Turns(o, mark)
  <2>1. office' = [office EXCEPT ![o] = office'[o]] /\ office'[o] = mark
    BY <1>1, <1>8, TurnsTo
  <2>2. /\ personnel' \in [RowIds -> Rows \cup {NoRow}] /\ Held' = Held \cup {i}
        /\ owed'[o] \in Debts /\ owed'[o].id = i /\ owed'[o].op = "create" /\ owed'[o].stage = "note"
        /\ owed' = [owed EXCEPT ![o] = owed'[o]]
    BY <1>1, <1>5, <1>8, EntersRow DEF TrashInv
  <2>3. put_back' \in [CopyIds -> Nat] /\ put_back'[n] = put_back[n] + 1 /\ \A m \in CopyIds : m # n => put_back'[m] = put_back[m]
    BY <1>4, <1>8 DEF TrashInv, TrashTyped
  <2>4. /\ owed' \in [Officers -> Debts \cup {Nothing}]
        /\ \A q \in Officers : q # o => owed'[q] = owed[q]
        /\ \A q \in Officers : owed'[q] # Nothing => (owed'[q].stage = "keep" => owed'[q].op = "delete")
    BY <2>2, DebtsGo DEF TrashInv
  <2>5. DOMAIN office' = Officers /\ Offices'
    <3>1. InHand(mark)' /\ InHand(office[o])'
      BY <1>1, <1>2, <1>3, <2>1 DEF InHand
    <3>. QED
      BY <1>1, <2>1, <3>1, HandsElse DEF TrashInv
  <2>6. TrashTyped'
    BY <1>1, <2>2, <2>3, <2>4, <2>5 DEF TrashInv, TrashTyped
  <2>7. EntriesAgree'
    BY <1>1, <1>5, <1>8, <2>2, RowEntries DEF TrashInv
  <2>8. KeptOrOwed'
    <3>1. \A k \in RowIds, q \in Officers : Owing(q, k) => Owing(q, k)'
      BY <1>1, <2>4, DebtParts DEF Owing, TrashInv
    <3>2. \A k \in RowIds \ {i}, m \in DOMAIN copies : CopyOf(m, k) => m # n
      BY DEF CopyOf
    <3>9. \A q \in Officers : q # o => office'[q] = office[q]
      BY <1>1, <2>1
    <3>. QED
      BY <1>1, <1>3, <2>1, <2>2, <3>1, <3>2, <3>9, KeptBut DEF TrashInv
  <2>9. ASSUME NEW m \in CopyIds \ reopened PROVE Singly(m)'
    <3>1. Singly(m) /\ Was(m)' = Was(m)
      BY <1>1, <2>9 DEF TrashInv, PutBackOnce, Was
    <3>2. CASE m # n
      <4>1. ~PuttingBack(o, m) /\ ~PuttingBack(o, m)'
        BY <1>3, <2>1, <3>2 DEF PuttingBack
      <4>. QED
        BY <1>1, <2>1, <2>3, <3>1, <3>2, <4>1, SinglyStays
    <3>3. CASE m = n
      <4>1. PuttingBack(o, n)
        BY <1>1 DEF PuttingBack
      <4>2. ~Was(n) /\ put_back[n] = 0 /\ \A q \in Officers : q # o => ~PuttingBack(q, n)
        BY <1>1, <3>1, <3>3, <4>1 DEF Singly
      <4>3. \A q \in Officers : q # o => office'[q] = office[q]
        BY <1>1, <2>1
      <4>4. \A q \in Officers : PuttingBack(q, n)' => q = o
        BY <4>2, <4>3 DEF PuttingBack
      <4>5. PuttingBack(o, n)' /\ office'[o].pc = "mark" /\ put_back'[n] = 1
        BY <1>3, <2>1, <2>3, <4>2 DEF PuttingBack
      <4>. QED
        BY <3>1, <3>3, <4>2, <4>4, <4>5 DEF Singly
    <3>. QED
      BY <3>2, <3>3
  <2>. QED
    BY <1>1, <2>5, <2>6, <2>7, <2>8, <2>9 DEF TrashInv, PutBackOnce, CopyIds
<1>. QED
  BY <1>6, <1>7, <1>8

LEMMA MarkKeeps ==
    ASSUME TrashInv, NEW o \in Officers, MarkRestored(o)
    PROVE  TrashInv'
<1>. PICK n : n = office[o].copy
  OBVIOUS
<1>1. /\ office[o].pc = "mark" /\ UNCHANGED <<personnel, owed, noted, gone, unkept, unnoted, put_back, reopened>>
      /\ DOMAIN office = Officers /\ Turns(o, Away)
      /\ copies' = [k \in DOMAIN copies |-> IF k = n THEN [copies[k] EXCEPT !.restored = TRUE] ELSE copies[k]]
  BY DEF MarkRestored, Marks, Answers, Ready, trash_history, TrashInv, TrashTyped
<1>2. n \in DOMAIN copies /\ n \in CopyIds
  BY <1>1, CopyNumbers DEF TrashInv, Offices, InHand
<1>3. office' = [office EXCEPT ![o] = office'[o]] /\ office'[o] = Away
  BY <1>1, TurnsTo
<1>4. /\ copies' \in Seq(Copies) /\ Len(copies') = Len(copies) /\ DOMAIN copies' = DOMAIN copies
      /\ copies'[n].restored /\ \A k \in DOMAIN copies : k # n => copies'[k] = copies[k]
  <2>1. copies \in Seq(Copies) /\ DOMAIN copies = 1 .. Len(copies) /\ Len(copies) \in Nat
    BY DEF TrashInv, TrashTyped
  <2>2. \A c \in Copies : [c EXCEPT !.restored = TRUE] \in Copies
    BY DEF Copies
  <2>6. \A k \in DOMAIN copies : copies[k] \in Copies
    BY <2>1
  <2>3. copies[n] \in Copies
    BY <1>2, <2>6
  <2>4. copies'[n].restored
    BY <1>1, <1>2, <2>3 DEF Copies
  <2>5. copies' \in [1 .. Len(copies) -> Copies]
    BY <1>1, <2>1, <2>2, <2>6
  <2>. QED
    BY <1>1, <1>2, <2>1, <2>4, <2>5
<1>5. DOMAIN office' = Officers /\ Offices'
  <2>1. InHand(office[o])'
    BY <1>3 DEF InHand, Away
  <2>. QED
    BY <1>1, <1>3, <1>4, <2>1, HandsElse DEF TrashInv
<1>6. TrashTyped'
  BY <1>1, <1>4, <1>5 DEF TrashInv, TrashTyped
<1>7. Held' = Held /\ \A i : ToCome(i)' = ToCome(i)
  BY <1>1 DEF Held, ToCome
<1>8. EntriesAgree'
  BY <1>1, <1>7, EntriesStay DEF TrashInv
<1>9. KeptOrOwed'
  <2>1. \A k \in RowIds, q \in Officers : Owing(q, k) => Owing(q, k)'
    BY <1>1 DEF Owing
  <2>2. \A k \in RowIds, m \in DOMAIN copies : CopyOf(m, k) => m \in DOMAIN copies' /\ copies'[m] = copies[m]
    BY <1>1, <1>4 DEF CopyOf
  <2>3. Held \subseteq Held' /\ unkept \subseteq unkept' /\ office'[o].pc # "mark"
    BY <1>1, <1>3, <1>7, AwayHeld
  <2>9. \A q \in Officers : q # o => office'[q] = office[q]
    BY <1>1, <1>3
  <2>. QED
    BY <1>1, <2>1, <2>2, <2>3, <2>9, KeptStays DEF TrashInv
<1>10. ASSUME NEW m \in CopyIds \ reopened PROVE Singly(m)'
  <2>1. Singly(m)
    BY <1>10 DEF TrashInv, PutBackOnce
  <2>2. ~PuttingBack(o, m)'
    BY <1>3, AwayHeld DEF PuttingBack
  <2>3. CASE m # n
    <3>1. ~PuttingBack(o, m) /\ Was(m)' = Was(m)
      BY <1>4, <2>3 DEF PuttingBack, Was
    <3>. QED
      BY <1>1, <1>3, <2>1, <2>2, <3>1, SinglyStays
  <2>4. CASE m = n
    <3>1. PuttingBack(o, n)
      BY <1>1 DEF PuttingBack
    <3>2. put_back[n] = 1 /\ \A q \in Officers : q # o => ~PuttingBack(q, n)
      BY <1>1, <2>1, <2>4, <3>1 DEF Singly
    <3>3. \A q \in Officers : q # o => office'[q] = office[q]
      BY <1>1, <1>3
    <3>4. \A q \in Officers : ~PuttingBack(q, n)'
      BY <2>2, <2>4, <3>2, <3>3 DEF PuttingBack
    <3>5. Was(n)'
      BY <1>2, <1>4 DEF Was
    <3>. QED
      BY <1>1, <2>4, <3>2, <3>4, <3>5 DEF Singly
  <2>. QED
    BY <2>3, <2>4
<1>. QED
  BY <1>1, <1>5, <1>6, <1>8, <1>9, <1>10 DEF TrashInv, PutBackOnce, CopyIds

\* A debt is carried on to its entry, or paid.
LEMMA NotedDebt ==
    ASSUME TrashTyped, NEW o \in Officers, owed[o].stage = "keep", Noted(o)
    PROVE  /\ owed[o] \in Debts /\ owed[o].op = "delete"
           /\ owed'[o] \in Debts /\ owed' = [owed EXCEPT ![o] = owed'[o]]
           /\ owed'[o].stage = "note" /\ owed'[o].id = owed[o].id /\ owed'[o].op = owed[o].op
<1>1. owed[o] \in Debts /\ owed[o].op = "delete"
  BY DebtParts DEF TrashTyped
<1>2. owed' = [owed EXCEPT ![o] = [owed[o] EXCEPT !.stage = "note"]]
  BY DEF Noted
<1>3. owed'[o] = [owed[o] EXCEPT !.stage = "note"]
  BY <1>2 DEF TrashTyped
<1>. QED
  BY <1>1, <1>2, <1>3, DebtStep

LEMMA SameToCome ==
    ASSUME TrashTyped, NEW o \in Officers, owed'[o] \in Debts \cup {Nothing}, owed' = [owed EXCEPT ![o] = owed'[o]],
           NEW i \in RowIds, Share(owed'[o], i) = Share(owed[o], i)
    PROVE  ToCome(i)' = ToCome(i)
<1>1. ToCome(i) \in Int /\ ToCome(i)' = ToCome(i) - Share(owed[o], i) + Share(owed'[o], i)
  BY ComingStep
<1>2. Share(owed[o], i) \in Int
  BY DEF Share
<1>. HIDE DEF Share, ToCome
<1>. QED
  BY <1>1, <1>2

\* A step of the audited client turns no request.
LEMMA StillOffices ==
    ASSUME TrashInv, NEW o \in Officers, office' = office, DOMAIN copies \subseteq DOMAIN copies'
    PROVE  DOMAIN office' = Officers /\ Offices'
<1>1. DOMAIN office' = Officers
  BY DEF TrashInv, TrashTyped
<1>2. ASSUME NEW q \in Officers PROVE InHand(office[q])'
  BY DEF TrashInv, Offices, InHand, FileHeld, ImportHeld
<1>. QED
  BY <1>1, <1>2 DEF Offices

LEMMA StillSingly ==
    ASSUME TrashInv, NEW o \in Officers, office' = office, put_back' = put_back, reopened' = reopened,
           \A n \in CopyIds : Was(n)' = Was(n)
    PROVE  PutBackOnce'
BY DEF TrashInv, PutBackOnce, CopyIds, Singly, PuttingBack

LEMMA CopyingKeeps ==
    ASSUME TrashInv, NEW o \in Officers, _trash(o)
    PROVE  TrashInv'
<1>. PICK c : c = [id |-> owed[o].id, row |-> owed[o].row, restored |-> FALSE]
  OBVIOUS
<1>1. /\ owed[o].stage = "keep" /\ Len(copies) < MaxCopies /\ copies' = Append(copies, c) /\ Noted(o)
      /\ UNCHANGED <<personnel, office, noted, gone, unkept, unnoted, put_back, reopened>>
  BY DEF _trash, trash_history
<1>2. /\ owed[o] \in Debts /\ owed[o].op = "delete"
      /\ owed'[o] \in Debts /\ owed' = [owed EXCEPT ![o] = owed'[o]]
      /\ owed'[o].stage = "note" /\ owed'[o].id = owed[o].id /\ owed'[o].op = owed[o].op
  BY <1>1, NotedDebt DEF TrashInv
<1>3. c \in Copies /\ ~c.restored
  BY <1>2 DEF Debts, Copies
<1>. PICK n : n = Len(copies) + 1
  OBVIOUS
<1>4. /\ copies' \in Seq(Copies) /\ Len(copies') <= MaxCopies /\ DOMAIN copies' = DOMAIN copies \cup {n}
      /\ n \notin DOMAIN copies /\ copies'[n] = c /\ \A k \in DOMAIN copies : copies'[k] = copies[k]
  BY <1>1, <1>3, CopiesAssumption DEF TrashInv, TrashTyped
<1>5. DOMAIN office' = Officers /\ Offices'
  BY <1>1, <1>4, StillOffices
<1>6. TrashTyped'
  <2>1. /\ owed' \in [Officers -> Debts \cup {Nothing}]
        /\ \A q \in Officers : owed'[q] # Nothing => (owed'[q].stage = "keep" => owed'[q].op = "delete")
    BY <1>2, DebtsGo DEF TrashInv
  <2>. QED
    BY <1>1, <1>4, <1>5, <2>1 DEF TrashInv, TrashTyped
<1>7. EntriesAgree'
  <2>1. \A i \in RowIds : Share(owed'[o], i) = Share(owed[o], i)
    BY <1>2, DebtParts DEF Share, TrashInv
  <2>2. \A i \in RowIds : ToCome(i)' = ToCome(i)
    BY <1>2, <2>1, SameToCome DEF TrashInv
  <2>3. Held' = Held
    BY <1>1 DEF Held
  <2>. QED
    BY <1>1, <2>2, <2>3, EntriesStay DEF TrashInv
<1>8. KeptOrOwed'
  <2>1. \A q \in Officers : office[q].pc = "mark" => office[q].copy # n
    BY <1>4 DEF TrashInv, Offices, InHand
  <2>2. ASSUME NEW i \in RowIds, NEW q \in Officers, Owing(q, i)
        PROVE  Owing(q, i)' \/ \E m \in DOMAIN copies' : CopyOf(m, i)'
    <3>1. CASE q # o
      BY <1>1, <1>2, <2>2, <3>1, DebtsGo DEF Owing, TrashInv
    <3>2. CASE q = o
      <4>1. c.id = i /\ c.row = gone[i] /\ n \in DOMAIN copies'
        BY <1>4, <2>2, <3>2 DEF Owing
      <4>2. CopyOf(n, i)'
        BY <1>1, <1>3, <1>4, <2>1, <4>1 DEF CopyOf
      <4>. QED
        BY <4>1, <4>2
    <3>. QED
      BY <3>1, <3>2
  <2>3. \A m \in DOMAIN copies : m \in DOMAIN copies' /\ copies'[m] = copies[m]
    BY <1>4
  <2>4. \A i \in RowIds, m \in DOMAIN copies :
           CopyOf(m, i) => /\ m \in DOMAIN copies' /\ copies'[m] = copies[m]
                           /\ office'[o].pc = "mark" => office'[o].copy # m
    BY <1>1, <2>3 DEF CopyOf
  <2>6. \A q \in Officers : q # o => office'[q] = office[q]
    BY <1>1
  <2>5. Held' = Held
    BY <1>1 DEF Held
  <2>. QED
    BY <1>1, <2>2, <2>4, <2>5, <2>6, KeptStays DEF TrashInv
<1>9. PutBackOnce'
  <2>1. \A m \in CopyIds : Was(m)' = Was(m)
    BY <1>3, <1>4 DEF Was
  <2>. QED
    BY <1>1, <2>1, StillSingly
<1>. QED
  BY <1>5, <1>6, <1>7, <1>8, <1>9 DEF TrashInv

\* What a step of the audited client leaves as it was when it stores no copy.
LEMMA Unchanged ==
    ASSUME TrashInv, NEW o \in Officers, UNCHANGED <<personnel, copies, office, gone, put_back, reopened>>,
           owed'[o] \in Debts \cup {Nothing}, owed' = [owed EXCEPT ![o] = owed'[o]],
           owed'[o] # Nothing => owed'[o].op = "delete", noted' \in [RowIds -> [create : Nat, delete : Nat]],
           unkept \subseteq unkept', \A i \in RowIds : Owing(o, i) => i \in unkept'
    PROVE  TrashTyped' /\ Offices' /\ KeptOrOwed' /\ PutBackOnce' /\ Held' = Held
<1>1. DOMAIN office' = Officers /\ Offices'
  BY StillOffices
<1>2. /\ owed' \in [Officers -> Debts \cup {Nothing}] /\ \A q \in Officers : q # o => owed'[q] = owed[q]
      /\ \A q \in Officers : owed'[q] # Nothing => (owed'[q].stage = "keep" => owed'[q].op = "delete")
  BY DebtsGo DEF TrashInv
<1>3. TrashTyped'
  BY <1>1, <1>2 DEF TrashInv, TrashTyped
<1>4. Held' = Held
  BY DEF Held
<1>5. PutBackOnce'
  BY StillSingly DEF Was
<1>6. KeptOrOwed'
  <2>. PICK owing : owing = {i \in RowIds : Owing(o, i)}
    OBVIOUS
  <2>1. \A i \in RowIds \ owing, q \in Officers : Owing(q, i) => Owing(q, i)'
    BY <1>2 DEF Owing
  <2>2. \A i \in RowIds \ owing, m \in DOMAIN copies : CopyOf(m, i) => (office[o].pc = "mark" => office[o].copy # m)
    BY DEF CopyOf
  <2>. QED
    BY <1>1, <1>4, <2>1, <2>2, KeptBut DEF TrashInv
<1>. QED
  BY <1>1, <1>3, <1>4, <1>5, <1>6

LEMMA RefusedCopyKeeps ==
    ASSUME TrashInv, NEW o \in Officers, CopyRefused(o)
    PROVE  TrashInv'
<1>1. /\ owed[o].stage = "keep" /\ Noted(o) /\ unkept' = unkept \cup {owed[o].id}
      /\ UNCHANGED <<personnel, copies, office, noted, gone, unnoted, put_back, reopened>>
  BY DEF CopyRefused
<1>2. /\ owed[o] \in Debts /\ owed[o].op = "delete"
      /\ owed'[o] \in Debts /\ owed' = [owed EXCEPT ![o] = owed'[o]]
      /\ owed'[o].stage = "note" /\ owed'[o].id = owed[o].id /\ owed'[o].op = owed[o].op
  BY <1>1, NotedDebt DEF TrashInv
<1>3. TrashTyped' /\ Offices' /\ KeptOrOwed' /\ PutBackOnce' /\ Held' = Held
  BY <1>1, <1>2, Unchanged DEF TrashInv, TrashTyped, Owing
<1>4. \A i \in RowIds : Share(owed'[o], i) = Share(owed[o], i)
  BY <1>2, DebtParts DEF Share, TrashInv
<1>5. \A i \in RowIds : ToCome(i)' = ToCome(i)
  BY <1>2, <1>4, SameToCome DEF TrashInv
<1>. QED
  BY <1>1, <1>3, <1>5, EntriesStay DEF TrashInv

LEMMA RefusedEntryKeeps ==
    ASSUME TrashInv, NEW o \in Officers, EntryRefused(o)
    PROVE  TrashInv'
<1>1. /\ owed[o].stage = "note" /\ unnoted' = unnoted \cup {owed[o].id} /\ owed' = [owed EXCEPT ![o] = Nothing]
      /\ UNCHANGED <<personnel, copies, office, noted, gone, unkept, put_back, reopened>>
  BY DEF EntryRefused
<1>2. owed'[o] = Nothing /\ owed' = [owed EXCEPT ![o] = owed'[o]] /\ owed[o] # Nothing
  BY <1>1, DebtsGo, DebtParts DEF TrashInv
<1>3. TrashTyped' /\ Offices' /\ KeptOrOwed' /\ PutBackOnce' /\ Held' = Held
  BY <1>1, <1>2, Unchanged DEF TrashInv, TrashTyped, Owing
<1>4. \A i \in RowIds \ unnoted' : Share(owed'[o], i) = Share(owed[o], i)
  BY <1>1, <1>2 DEF Share
<1>5. \A i \in RowIds \ unnoted' : ToCome(i)' = ToCome(i)
  BY <1>2, <1>4, SameToCome DEF TrashInv
<1>. QED
  BY <1>1, <1>3, <1>5, EntriesStay DEF TrashInv

LEMMA EntryKeeps ==
    ASSUME TrashInv, NEW o \in Officers, _record(o)
    PROVE  TrashInv'
<1>. PICK d : d = owed[o]
  OBVIOUS
<1>1. /\ d.stage = "note" /\ owed' = [owed EXCEPT ![o] = Nothing] /\ noted' = [noted EXCEPT ![d.id][d.op] = @ + 1]
      /\ UNCHANGED <<personnel, copies, office, gone, unkept, unnoted, put_back, reopened>>
  BY DEF _record, trash_history
<1>2. owed'[o] = Nothing /\ owed' = [owed EXCEPT ![o] = owed'[o]] /\ d # Nothing /\ d \in Debts
  BY <1>1, DebtsGo, DebtParts DEF TrashInv
<1>3. d.id \in RowIds /\ d.op \in {"create", "delete"}
  BY <1>2 DEF Debts
<1>4. /\ noted' \in [RowIds -> [create : Nat, delete : Nat]]
      /\ \A i \in RowIds \ {d.id} : noted'[i] = noted[i]
      /\ noted'[d.id].create = noted[d.id].create + IF d.op = "create" THEN 1 ELSE 0
      /\ noted'[d.id].delete = noted[d.id].delete + IF d.op = "delete" THEN 1 ELSE 0
  <2>1. noted \in [RowIds -> [create : Nat, delete : Nat]]
    BY DEF TrashInv, TrashTyped
  <2>2. noted[d.id] \in [create : Nat, delete : Nat]
    BY <1>3, <2>1
  <2>3. noted' = [noted EXCEPT ![d.id] = [noted[d.id] EXCEPT ![d.op] = noted[d.id][d.op] + 1]]
    BY <1>1
  <2>. PICK r : r = [noted[d.id] EXCEPT ![d.op] = noted[d.id][d.op] + 1]
    OBVIOUS
  <2>4. /\ r \in [create : Nat, delete : Nat]
        /\ r.create = noted[d.id].create + IF d.op = "create" THEN 1 ELSE 0
        /\ r.delete = noted[d.id].delete + IF d.op = "delete" THEN 1 ELSE 0
    <3>1. CASE d.op = "create"
      BY <2>2, <3>1
    <3>2. CASE d.op = "delete"
      BY <2>2, <3>2
    <3>. QED
      BY <1>3, <3>1, <3>2
  <2>5. noted' = [noted EXCEPT ![d.id] = r]
    BY <2>3, Zenon
  <2>. QED
    BY <1>3, <2>1, <2>4, <2>5
<1>5. TrashTyped' /\ Offices' /\ KeptOrOwed' /\ PutBackOnce' /\ Held' = Held
  BY <1>1, <1>2, <1>4, Unchanged DEF TrashInv, TrashTyped, Owing
<1>6. ASSUME NEW i \in RowIds \ unnoted' PROVE (noted[i].create - noted[i].delete + ToCome(i) = Count(i))'
  <2>1. ToCome(i) \in Int /\ ToCome(i)' = ToCome(i) - Share(d, i) + Share(Nothing, i)
    BY <1>1, ComingStep DEF TrashInv
  <2>2. Share(Nothing, i) = 0 /\ Share(d, i) = IF i = d.id THEN IF d.op = "create" THEN 1 ELSE -1 ELSE 0
    BY <1>2 DEF Share
  <2>3. noted[i].create - noted[i].delete + ToCome(i) = Count(i) /\ Count(i)' = Count(i) /\ Count(i) \in Int
    BY <1>1, <1>5, <1>6 DEF TrashInv, EntriesAgree, Count
  <2>4. noted[i].create \in Nat /\ noted[i].delete \in Nat
    BY DEF TrashInv, TrashTyped
  <2>5. noted'[i].create - noted'[i].delete = noted[i].create - noted[i].delete + Share(d, i)
    <3>1. CASE i = d.id
      BY <1>3, <1>4, <2>2, <2>4, <3>1
    <3>2. CASE i # d.id
      BY <1>4, <2>2, <2>4, <3>2
    <3>. QED
      BY <3>1, <3>2
  <2>6. Share(d, i) \in Int
    BY <2>2
  <2>. HIDE DEF Share, Count, ToCome
  <2>. QED
    BY <2>1, <2>2, <2>3, <2>4, <2>5, <2>6
<1>. QED
  BY <1>5, <1>6 DEF TrashInv, EntriesAgree

LEMMA StopsKeeps ==
    ASSUME TrashInv, NEW o \in Officers, Stops(o)
    PROVE  TrashInv'
<1>1. /\ UNCHANGED <<personnel, copies, noted, gone, put_back>>
      /\ unkept' = IF owed[o].stage = "keep" THEN unkept \cup {owed[o].id} ELSE unkept
      /\ unnoted' = IF owed[o] # Nothing THEN unnoted \cup {owed[o].id} ELSE unnoted
      /\ reopened' = IF office[o].pc = "mark" THEN reopened \cup {office[o].copy} ELSE reopened
      /\ owed' = [owed EXCEPT ![o] = Nothing] /\ Turns(o, Away) /\ DOMAIN office = Officers
  BY DEF Stops, Answers, TrashInv, TrashTyped
<1>2. office' = [office EXCEPT ![o] = office'[o]] /\ office'[o] = Away /\ office' = [office EXCEPT ![o] = Away]
  BY <1>1, TurnsTo DEF Turns
<1>3. /\ owed' \in [Officers -> Debts \cup {Nothing}] /\ \A q \in Officers : q # o => owed'[q] = owed[q]
      /\ \A q \in Officers : owed'[q] # Nothing => (owed'[q].stage = "keep" => owed'[q].op = "delete")
      /\ owed'[o] = Nothing
  BY <1>1, DebtsGo DEF TrashInv
<1>4. DOMAIN office' = Officers /\ Offices'
  <2>1. InHand(office[o])'
    BY <1>2 DEF InHand, Away
  <2>. QED
    BY <1>1, <1>2, <2>1, HandsElse DEF TrashInv
<1>5. TrashTyped'
  BY <1>1, <1>3, <1>4 DEF TrashInv, TrashTyped
<1>6. Held' = Held /\ unkept \subseteq unkept' /\ unnoted \subseteq unnoted'
  BY <1>1 DEF Held
<1>7. EntriesAgree'
  <2>1. \A i \in RowIds \ unnoted' : Share(owed'[o], i) = Share(owed[o], i)
    BY <1>1, <1>3 DEF Share
  <2>2. owed' = [owed EXCEPT ![o] = owed'[o]] /\ owed'[o] \in Debts \cup {Nothing}
    BY <1>1, <1>3
  <2>3. \A i \in RowIds \ unnoted' : ToCome(i)' = ToCome(i)
    BY <2>1, <2>2, SameToCome DEF TrashInv
  <2>. QED
    BY <1>1, <1>6, <2>3, EntriesStay DEF TrashInv
<1>8. KeptOrOwed'
  <2>. PICK owing : owing = {i \in RowIds : Owing(o, i)}
    OBVIOUS
  <2>1. \A i \in RowIds \ owing, q \in Officers : Owing(q, i) => Owing(q, i)'
    BY <1>1, <1>3 DEF Owing
  <2>2. \A i \in RowIds \cap owing : i \in unkept'
    BY <1>1 DEF Owing
  <2>9. \A q \in Officers : q # o => office'[q] = office[q]
    BY <1>1, <1>2
  <2>. QED
    BY <1>1, <1>2, <1>6, <2>1, <2>2, AwayHeld, <2>9, KeptBut DEF TrashInv
<1>9. ASSUME NEW m \in CopyIds \ reopened' PROVE Singly(m)'
  <2>1. m \in CopyIds \ reopened
    BY <1>1, <1>9
  <2>2. CASE office[o].pc # "mark"
    BY <1>1, <1>2, <2>1, <2>2, LeavesCopy
  <2>3. CASE office[o].pc = "mark"
    <3>1. ~PuttingBack(o, m) /\ ~PuttingBack(o, m)'
      BY <1>1, <1>2, <1>9, <2>3, AwayHeld DEF PuttingBack
    <3>2. Singly(m) /\ Was(m)' = Was(m) /\ put_back'[m] = put_back[m]
      BY <1>1, <2>1 DEF TrashInv, PutBackOnce, Was
    <3>. QED
      BY <1>1, <1>2, <2>1, <3>1, <3>2, SinglyStays
  <2>. QED
    BY <2>2, <2>3
<1>. QED
  BY <1>4, <1>5, <1>7, <1>8, <1>9 DEF TrashInv, PutBackOnce, CopyIds
-----------------------------------------------------------------------------
(* The steps of the register, each beside Recently deleted. *)

LEMMA BesidesRows ==
    ASSUME TrashTyped, NEW o \in Officers, NEW next, office[o].pc \notin Putting,
           next.pc \notin Putting, InHand(next),
           \/ Turns(o, next)
           \/ office' = office /\ next = office[o],
           UNCHANGED <<copies, noted, unkept, unnoted, put_back, reopened>>,
           \/ UNCHANGED <<personnel, owed, gone>>
           \/ Calm \/ Enters(o) \/ Leaves(o)
    PROVE  Besides(o)
<1>1. /\ DOMAIN office' = DOMAIN office /\ \A q \in Officers : q # o => office'[q] = office[q]
      /\ office'[o] = next
  BY DEF Turns, TrashTyped
<1>2. UNCHANGED <<personnel, owed, gone>> => Calm
  BY DEF Calm, Held, TrashTyped
<1>. QED
  BY <1>1, <1>2 DEF Besides, Moves

LEMMA BesidesReads ==
    ASSUME TrashTyped, NEW o \in Officers, NEW next, office[o].pc \notin Putting,
           next.pc \notin Putting, InHand(next), Turns(o, next), Reads(o)
    PROVE  Besides(o)
BY BesidesRows DEF Reads, shelf

LEMMA StoresRow ==
    ASSUME NEW o \in Officers, NEW S \in SUBSET RowIds, NEW row \in Rows, owed[o] = Nothing, gone' = gone, Stores(o, S, row)
    PROVE  Enters(o)
<1>1. Unused(S) \subseteq RowIds /\ Unused(S) # {} /\ Inserts(o, Min(Unused(S)), row)
  BY DEF Stores, Unused
<1>2. Min(Unused(S)) \in Unused(S)
  BY <1>1, MinIn, CopiesAssumption DEF RowIds
<1>3. Min(Unused(S)) \in RowIds \ Held
  BY <1>2, <1>1 DEF Unused, Held
<1>. QED
  BY <1>1, <1>3 DEF Enters

LEMMA RowParts ==
    ASSUME NEW row \in Rows
    PROVE  Named(row) /\ row # NoRow
BY EmployeesAssumption DEF Rows, Named

LEMMA RowChanged ==
    ASSUME NEW row \in Rows
    PROVE  /\ \A n \in Numbers : [row EXCEPT !.number = n] \in Rows
           /\ \A about \in Abouts : [row EXCEPT !.about = about] \in Rows
BY DEF Rows

LEMMA RowMade ==
    /\ \A n \in Numbers, about \in Abouts :
          /\ Person(n, about) \in Rows
          /\ Person(n, about).number \in Numbers /\ Person(n, about).about \in Abouts
    /\ \A person : Named(person) => \A t \in Tables, item \in Articles : Paper(t, person, item) \in Rows
<1>1. NoItem \in Articles
  BY DEF Articles
<1>. QED
  BY <1>1 DEF Person, Paper, Rows, Named

LEMMA SeqParts ==
    ASSUME NEW T, NEW s \in Seq(T)
    PROVE  DOMAIN s \subseteq Nat /\ \A k \in DOMAIN s : s[k] \in T
OBVIOUS

LEMMA FileRows ==
    ASSUME NEW file \in Workbooks
    PROVE  /\ DOMAIN file \subseteq Nat
           /\ \A k \in DOMAIN file : /\ file[k].number \in Numbers /\ file[k].about \in Abouts /\ file[k].item \in Articles
                                     /\ First(file, k) \in DOMAIN file
<1>1. file \in Seq([number : Numbers, about : Abouts, item : Articles])
  BY EmployeesAssumption
<1>2. DOMAIN file \subseteq Nat
  BY <1>1, SeqParts
<1>3. ASSUME NEW k \in DOMAIN file PROVE First(file, k) \in DOMAIN file
  <2>. PICK those : those = {j \in DOMAIN file : file[j].number = file[k].number}
    OBVIOUS
  <2>1. those \in SUBSET Nat /\ those # {}
    BY <1>2
  <2>2. Min(those) \in those
    BY <2>1, MinIn
  <2>. QED
    BY <2>2 DEF First
<1>4. ASSUME NEW k \in DOMAIN file PROVE file[k] \in [number : Numbers, about : Abouts, item : Articles]
  BY <1>1, SeqParts
<1>. QED
  BY <1>2, <1>3, <1>4

\* A request goes on to another call with what it holds.
LEMMA GoesOn ==
    ASSUME NEW at, NEW stage, "pc" \in DOMAIN at
    PROVE  /\ [at EXCEPT !.pc = stage].pc = stage /\ DOMAIN [at EXCEPT !.pc = stage] = DOMAIN at
           /\ \A x \in DOMAIN at : x # "pc" => [at EXCEPT !.pc = stage][x] = at[x]
OBVIOUS

LEMMA Taking ==
    ASSUME NEW o, NEW kind, Takes(o, kind)
    PROVE  office[o] = Away /\ office[o].pc \notin Putting /\ owed[o] = Nothing
BY AwayHeld DEF Takes

LEMMA AnswersBesides ==
    ASSUME TrashTyped, NEW o \in Officers, Answers(o), office[o].pc \notin Putting,
           UNCHANGED <<copies, noted, unkept, unnoted, put_back, reopened>>,
           \/ UNCHANGED <<personnel, owed, gone>>
           \/ Calm \/ Enters(o) \/ Leaves(o)
    PROVE  Besides(o)
BY AwayHeld, BesidesRows DEF Answers

-----------------------------------------------------------------------------
LEMMA RecordSteps ==
    ASSUME TrashInv, NEW o \in Officers,
           \/ \E p \in PersonIds, t \in Tables, item \in Things : create_record(o, p, t, item)
           \/ existing_duplicate(o) \/ EnterRecord(o)
           \/ \E r \in PaperIds : delete_record(o, r)
    PROVE  Besides(o)
<1>0. TrashTyped /\ InHand(office[o])
  BY DEF TrashInv, Offices
<1>1. ASSUME NEW p \in PersonIds, NEW t \in Tables, NEW item \in Things, create_record(o, p, t, item)
      PROVE  Besides(o)
  <2>. PICK stage, g : /\ stage = IF t = "ppe_records" THEN "twice" ELSE "enter"
                    /\ g = [who |-> p, new |-> Paper(t, personnel[p], item)]
    OBVIOUS
  <2>. PICK next : next = Request(stage, {p}, {}) ++ g
    OBVIOUS
  <2>1. Takes(o, "enter") /\ p \in Staff /\ Turns(o, next) /\ Reads(o)
    BY <1>1 DEF create_record
  <2>2. Paper(t, personnel[p], item) \in Rows
    <3>1. personnel[p] \in Rows
      BY <1>0, <2>1, HeldRows DEF Staff, Held
    <3>2. item \in Articles
      BY DEF Articles
    <3>. QED
      BY <3>1, <3>2, RowParts, RowMade
  <2>3. InHand(next) /\ next.pc \notin Putting
    <3>1. next.pc = stage /\ "pc" \in DOMAIN next /\ "new" \in DOMAIN next /\ next.new = g.new /\ stage \in {"twice", "enter"}
      BY DEF Request, ++
    <3>. QED
      BY <2>2, <3>1 DEF InHand, Putting
  <2>. QED
    BY <1>0, <2>1, <2>3, Taking, BesidesReads
<1>2. CASE existing_duplicate(o)
  <2>. PICK next : next = [office[o] EXCEPT !.pc = "enter"]
    OBVIOUS
  <2>1. office[o].pc = "twice" /\ Reads(o) /\ (Answers(o) \/ Turns(o, next))
    BY <1>2 DEF existing_duplicate, Ready
  <2>2. InHand(next) /\ next.pc \notin Putting
    BY <1>0, <2>1, GoesOn DEF InHand, Putting
  <2>. QED
    BY <1>0, <2>1, <2>2, AwayHeld, BesidesReads DEF Putting, Answers
<1>3. CASE EnterRecord(o)
  <2>1. /\ office[o].pc = "enter" /\ owed[o] = Nothing /\ Answers(o) /\ Writes(o)
        /\ Stores(o, PaperIds, office[o].new) \/ UNCHANGED <<personnel, owed>>
    BY <1>3 DEF EnterRecord, Ready
  <2>2. office[o].new \in Rows /\ PaperIds \subseteq RowIds
    BY <1>0, <2>1 DEF InHand, RowIds
  <2>. QED
    BY <1>0, <2>1, <2>2, StoresRow, AnswersBesides DEF Writes, shelf, Putting
<1>4. ASSUME NEW r \in PaperIds, delete_record(o, r) PROVE Besides(o)
  <2>1. Takes(o, "drop") /\ Deletes(o, r) /\ office' = office /\ UNCHANGED shelf
    BY <1>4 DEF delete_record
  <2>. QED
    BY <1>0, <2>1, Taking, AwayHeld, BesidesRows DEF Leaves, shelf
<1>. QED
  BY <1>1, <1>2, <1>3, <1>4

\* The people an edit is carried to are rows as they were, under another number or name.
LEMMA RowsRenamed ==
    ASSUME TrashTyped, UNCHANGED <<owed, gone>>,
           \E to : personnel' = [i \in RowIds |-> to[i]] /\ \A i \in RowIds :
              \/ to[i] = personnel[i]
              \/ i \in Held /\ to[i] \in Rows
    PROVE  Calm
<1>1. \A i \in RowIds : personnel'[i] = personnel[i] \/ (i \in Held /\ personnel'[i] \in Rows)
  OBVIOUS
<1>2. \A i \in RowIds : personnel'[i] \in Rows \cup {NoRow} /\ (personnel'[i] = NoRow <=> personnel[i] = NoRow)
  BY <1>1, HeldRows, RowParts DEF TrashTyped
<1>. QED
  BY <1>2 DEF Calm, Held

LEMMA CalmAbout ==
    ASSUME TrashTyped, UNCHANGED <<owed, gone>>, NEW p \in Held, NEW about \in Abouts,
           personnel' = [personnel EXCEPT ![p].about = about]
    PROVE  Calm
<1>. PICK row : row = [personnel[p] EXCEPT !.about = about]
  OBVIOUS
<1>1. p \in RowIds /\ personnel[p] \in Rows
  BY HeldRows DEF Held
<1>2. row \in Rows
  BY <1>1, RowChanged
<1>3. personnel' = [personnel EXCEPT ![p] = row]
  OBVIOUS
<1>4. personnel' = [i \in RowIds |-> personnel'[i]] /\ \A i \in RowIds : i # p => personnel'[i] = personnel[i]
  BY <1>3 DEF TrashTyped
<1>5. personnel'[p] = row
  BY <1>1, <1>3 DEF TrashTyped
<1>6. \A i \in RowIds : personnel'[i] = personnel[i] \/ (i \in Held /\ personnel'[i] \in Rows)
  BY <1>2, <1>4, <1>5
<1>. QED
  BY <1>4, <1>6, RowsRenamed

LEMMA UndoingHeld ==
    ASSUME NEW log
    PROVE  InHand(Undoing(log)) /\ Undoing(log).pc \notin Putting
<1>1. CASE log.number = 0
  BY <1>1, AwayHeld DEF Undoing
<1>2. CASE log.number # 0
  <2>. PICK stage, g : /\ stage = IF log.items # {} THEN "unissue" ELSE IF log.people # {} THEN "person" ELSE "undone"
                    /\ g = [import |-> log]
    OBVIOUS
  <2>. PICK next : next = Request(stage, log.people, {}) ++ g
    OBVIOUS
  <2>1. Undoing(log) = next
    BY <1>2 DEF Undoing
  <2>2. next.pc = stage /\ "pc" \in DOMAIN next
    BY DEF Request, ++
  <2>3. stage \in {"unissue", "person", "undone"}
    OBVIOUS
  <2>. QED
    BY <2>1, <2>2, <2>3 DEF InHand, Putting
<1>. QED
  BY <1>1, <1>2

LEMMA NextPersonHeld ==
    ASSUME NEW log
    PROVE  InHand(NextPerson(log)) /\ NextPerson(log).pc \notin Putting
BY UndoingHeld DEF NextPerson

LEMMA ChecksHeld ==
    ASSUME NEW p, NEW log
    PROVE  InHand(Checks(p, log)) /\ Checks(p, log).pc \notin Putting
<1>. PICK g : g = [who |-> p, old |-> personnel[p], tables |-> _RECORDS_BY_EMPLOYEE_ID, import |-> log]
  OBVIOUS
<1>. PICK next : next = Request("check", {p}, {personnel[p].number}) ++ g
  OBVIOUS
<1>1. Checks(p, log) = next
  BY DEF Checks
<1>2. next.pc = "check" /\ "pc" \in DOMAIN next
  BY DEF Request, ++
<1>. QED
  BY <1>1, <1>2 DEF InHand, Putting
LEMMA StaffSteps ==
    ASSUME TrashInv, NEW o \in Officers,
           \/ \E n \in Numbers, about \in Abouts :
                 create_employee(o, n, about) \/ \E p \in PersonIds : update_employee(o, p, n, about)
           \/ InsertPerson(o) \/ FindNumber(o) \/ SavePerson(o) \/ Follow(o)
           \/ \E p \in PersonIds : delete_employee(o, p) \/ \E about \in Abouts : bulk_normalize_employees(o, p, about)
           \/ _records_that_use(o) \/ RemovePerson(o)
    PROVE  Besides(o)
<1>0. TrashTyped /\ InHand(office[o])
  BY DEF TrashInv, Offices
<1>1. ASSUME NEW n \in Numbers, NEW about \in Abouts, create_employee(o, n, about) PROVE Besides(o)
  <2>. PICK g : g = [new |-> Person(n, about)]
    OBVIOUS
  <2>. PICK next : next = Request("create", {}, {n}) ++ g
    OBVIOUS
  <2>1. Takes(o, "create") /\ Turns(o, next) /\ Reads(o)
    BY <1>1 DEF create_employee
  <2>2. next.pc = "create" /\ "pc" \in DOMAIN next /\ "new" \in DOMAIN next /\ next.new = g.new
    BY DEF Request, ++
  <2>3. InHand(next) /\ next.pc \notin Putting
    BY <2>2, RowMade DEF InHand, Putting
  <2>. QED
    BY <1>0, <2>1, <2>3, Taking, BesidesReads
<1>2. ASSUME NEW p \in PersonIds, NEW n \in Numbers, NEW about \in Abouts, update_employee(o, p, n, about) PROVE Besides(o)
  <2>. PICK stage, g : /\ stage = IF n # personnel[p].number THEN "number" ELSE "save"
                       /\ g = [who |-> p, old |-> personnel[p], new |-> Person(n, about), steps |-> <<>>]
    OBVIOUS
  <2>. PICK next : next = Request(stage, {p}, {personnel[p].number, n}) ++ g
    OBVIOUS
  <2>1. Takes(o, "edit") /\ Turns(o, next) /\ Reads(o)
    BY <1>2 DEF update_employee
  <2>2. next.pc = stage /\ "pc" \in DOMAIN next /\ "new" \in DOMAIN next /\ next.new = g.new /\ stage \in {"number", "save"}
    BY DEF Request, ++
  <2>3. InHand(next) /\ next.pc \notin Putting
    BY <2>2, RowMade DEF InHand, Putting
  <2>. QED
    BY <1>0, <2>1, <2>3, Taking, BesidesReads
<1>3. CASE InsertPerson(o)
  <2>1. /\ office[o].pc = "create" /\ owed[o] = Nothing /\ Answers(o) /\ Writes(o)
        /\ Stores(o, PersonIds, office[o].new) \/ UNCHANGED <<personnel, owed>>
    BY <1>3 DEF InsertPerson, Ready
  <2>2. office[o].new \in Rows /\ PersonIds \subseteq RowIds
    BY <1>0, <2>1 DEF InHand, RowIds
  <2>. QED
    BY <1>0, <2>1, <2>2, StoresRow, AnswersBesides DEF Writes, shelf, Putting
<1>4. CASE FindNumber(o)
  <2>. PICK next : next = [office[o] EXCEPT !.pc = "save"]
    OBVIOUS
  <2>1. office[o].pc = "number" /\ Reads(o) /\ (Answers(o) \/ Turns(o, next))
    BY <1>4 DEF FindNumber, Ready
  <2>2. InHand(next) /\ next.pc \notin Putting
    BY <1>0, <2>1, GoesOn DEF InHand, Putting
  <2>. QED
    BY <1>0, <2>1, <2>2, AwayHeld, BesidesReads DEF Putting, Answers
<1>5. CASE SavePerson(o)
  <2>. PICK p, new, steps, moved :
         /\ p = office[o].who /\ new = office[o].new /\ steps = _follow_changed_employee(office[o].old, new)
         /\ moved = IF p \in Staff /\ keys THEN {r \in Records : personnel[r].number = personnel[p].number} ELSE {}
    OBVIOUS
  <2>. PICK next : next = [office[o] EXCEPT !.pc = "follow", !.steps = steps]
    OBVIOUS
  <2>1. /\ office[o].pc = "save" /\ owed[o] = Nothing /\ owed' = owed /\ Writes(o)
        /\ \/ Answers(o) /\ personnel' = personnel
           \/ /\ p \in Staff
              /\ personnel' = [i \in RowIds |->
                    IF i = p THEN new ELSE IF i \in moved THEN [personnel[i] EXCEPT !.number = new.number] ELSE personnel[i]]
              /\ Answers(o) \/ Turns(o, next)
    BY <1>5 DEF SavePerson, Ready
  <2>2. "pc" \in DOMAIN office[o] /\ "new" \in DOMAIN office[o] /\ new \in Rows /\ new.number \in Numbers /\ new.about \in Abouts
    BY <1>0, <2>1 DEF InHand
  <2>3. next.pc = "follow" /\ "pc" \in DOMAIN next /\ "new" \in DOMAIN next /\ next.new = new
    BY <2>2
  <2>4. InHand(next) /\ next.pc \notin Putting
    BY <2>2, <2>3 DEF InHand, Putting
  <2>5. moved \subseteq Held /\ (p \in Staff => p \in Held)
    BY DEF Records, Staff
  <2>6. \A i \in moved : [personnel[i] EXCEPT !.number = new.number] \in Rows
    BY <1>0, <2>2, <2>5, HeldRows, RowChanged DEF Held
  <2>7. personnel' # personnel => Calm
    <3>. PICK to : to = [i \in RowIds |->
           IF i = p THEN new ELSE IF i \in moved THEN [personnel[i] EXCEPT !.number = new.number] ELSE personnel[i]]
      OBVIOUS
    <3>1. \A i \in RowIds : to[i] = personnel[i] \/ (p \in Staff => i \in Held /\ to[i] \in Rows)
      BY <2>2, <2>5, <2>6
    <3>2. personnel' # personnel => p \in Staff /\ personnel' = to
      BY <2>1
    <3>3. to = [i \in RowIds |-> to[i]]
      OBVIOUS
    <3>. QED
      BY <1>0, <2>1, <3>1, <3>2, <3>3, RowsRenamed DEF Writes
  <2>8. UNCHANGED <<copies, noted, unkept, unnoted, put_back, reopened, owed, gone>>
    BY <2>1 DEF Writes, shelf
  <2>9. \/ UNCHANGED <<personnel, owed, gone>>
        \/ Calm
    BY <2>7, <2>8
  <2>10. office[o].pc \notin Putting
    BY <2>1 DEF Putting
  <2>11. CASE Answers(o)
    BY <1>0, <2>8, <2>9, <2>10, <2>11, AnswersBesides
  <2>12. CASE Turns(o, next)
    BY <1>0, <2>4, <2>8, <2>9, <2>10, <2>12, BesidesRows
  <2>. QED
    BY <2>1, <2>11, <2>12
<1>6. CASE Follow(o)
  <2>. PICK at, to, next :
         /\ at = office[o] /\ next = [at EXCEPT !.steps = Tail(at.steps)]
         /\ to = personnel'
    OBVIOUS
  <2>1. /\ at.pc = "follow" /\ owed[o] = Nothing
        /\ UNCHANGED <<shelf, gone, imports, owed, taken, whose, untold>>
        /\ Answers(o) \/ Turns(o, next)
    BY <1>6 DEF Follow, Ready
  <2>2. "pc" \in DOMAIN at /\ "new" \in DOMAIN at /\ at.new \in Rows /\ at.new.number \in Numbers /\ at.new.about \in Abouts
    BY <1>0, <2>1 DEF InHand
  <2>3. next.pc = "follow" /\ "pc" \in DOMAIN next /\ "new" \in DOMAIN next /\ next.new = at.new
    BY <2>1, <2>2
  <2>4. InHand(next) /\ next.pc \notin Putting
    BY <2>2, <2>3 DEF InHand, Putting
  <2>5. PICK n : /\ n \subseteq Held /\ to = [i \in RowIds |-> to[i]]
                 /\ \A i \in RowIds \ n : to[i] = personnel[i]
                 /\ \A i \in n : to[i] \in {personnel[i], [personnel[i] EXCEPT !.number = at.new.number],
                                         [personnel[i] EXCEPT !.about = at.new.about]}
    <3>. DEFINE step == Head(at.steps)
                those == Papers(IF step.field = "number" THEN at.old.number ELSE at.new.number, step.table)
                fails == /\ step.field = "number"
                         /\ \/ WouldClash(those, at.new.number)
                            \/ keys /\ those # {} /\ Numbered(at.new.number) = {}
    <3>1. those \subseteq Held
      BY DEF Papers
    <3>2. personnel' = [i \in RowIds |->
                  IF i \notin those \/ fails THEN personnel[i]
                  ELSE IF step.field = "number" THEN [personnel[i] EXCEPT !.number = at.new.number]
                  ELSE [personnel[i] EXCEPT !.about = at.new.about]]
      BY <1>6 DEF Follow
    <3>. HIDE DEF those, fails, step
    <3>3. to = [i \in RowIds |-> to[i]] /\ \A i \in RowIds : i \notin those => to[i] = personnel[i]
      BY <3>2
    <3>4. \A i \in those : i \in RowIds
      BY <3>1 DEF Held
    <3>5. \A i \in those : to[i] \in {personnel[i], [personnel[i] EXCEPT !.number = at.new.number],
                                   [personnel[i] EXCEPT !.about = at.new.about]}
      BY <3>2, <3>4
    <3>. QED
      BY <3>1, <3>3, <3>5
  <2>6. \A i \in n : /\ [personnel[i] EXCEPT !.number = at.new.number] \in Rows
                     /\ [personnel[i] EXCEPT !.about = at.new.about] \in Rows
    BY <1>0, <2>2, <2>5, HeldRows, RowChanged DEF Held
  <2>7. Calm
    <3>1. \A i \in RowIds : to[i] = personnel[i] \/ (i \in Held /\ to[i] \in Rows)
      <4>1. \A i \in n : i \in Held /\ (to[i] = personnel[i] \/ to[i] \in Rows)
        BY <2>5, <2>6
      <4>. QED
        BY <2>5, <4>1
    <3>2. personnel' = [i \in RowIds |-> to[i]]
      BY <2>5
    <3>. QED
      BY <1>0, <2>1, <3>1, <3>2, RowsRenamed
  <2>8. UNCHANGED <<copies, noted, unkept, unnoted, put_back, reopened>> /\ office[o].pc \notin Putting
    BY <2>1 DEF shelf, Putting
  <2>9. CASE Answers(o)
    BY <1>0, <2>7, <2>8, <2>9, AnswersBesides
  <2>10. CASE Turns(o, next)
    BY <1>0, <2>4, <2>7, <2>8, <2>10, BesidesRows
  <2>. QED
    BY <2>1, <2>9, <2>10
<1>7. ASSUME NEW p \in PersonIds, delete_employee(o, p) PROVE Besides(o)
  <2>. PICK next : next = Checks(p, NoImport)
    OBVIOUS
  <2>1. Takes(o, "delete") /\ Turns(o, next) /\ Reads(o)
    BY <1>7 DEF delete_employee
  <2>2. InHand(next) /\ next.pc \notin Putting
    BY ChecksHeld
  <2>. QED
    BY <1>0, <2>1, <2>2, Taking, BesidesReads
<1>8. ASSUME NEW p \in PersonIds, NEW about \in Abouts, bulk_normalize_employees(o, p, about) PROVE Besides(o)
  <2>1. /\ Takes(o, "bulk") /\ p \in Staff /\ personnel' = [personnel EXCEPT ![p].about = about]
        /\ UNCHANGED <<office, shelf, gone, owed>>
    BY <1>8 DEF bulk_normalize_employees
  <2>2. Calm
    BY <1>0, <2>1, CalmAbout DEF Staff
  <2>. QED
    BY <1>0, <2>1, <2>2, Taking, AwayHeld, BesidesRows DEF shelf
<1>9. CASE _records_that_use(o)
  <2>. PICK at, first, remove, next : /\ at = office[o] /\ first = NextPerson(at.import)
                                      /\ remove = [at EXCEPT !.pc = "remove"] /\ next = [at EXCEPT !.tables = Tail(at.tables)]
    OBVIOUS
  <2>1. at.pc = "check" /\ Reads(o) /\ (Turns(o, first) \/ Turns(o, remove) \/ Turns(o, next))
    BY <1>9 DEF _records_that_use, Ready
  <2>2. "pc" \in DOMAIN at
    BY <1>0 DEF InHand
  <2>3. InHand(first) /\ first.pc \notin Putting
    BY NextPersonHeld
  <2>4. "pc" \in DOMAIN remove /\ remove.pc = "remove" /\ "pc" \in DOMAIN next /\ next.pc = "check"
    BY <2>1, <2>2
  <2>5. /\ InHand(remove) /\ remove.pc \notin Putting
        /\ InHand(next) /\ next.pc \notin Putting /\ office[o].pc \notin Putting
    BY <2>1, <2>4 DEF InHand, Putting
  <2>. QED
    BY <1>0, <2>1, <2>3, <2>5, BesidesReads
<1>10. CASE RemovePerson(o)
  <2>. PICK next, p : next = NextPerson(office[o].import) /\ p = office[o].who
    OBVIOUS
  <2>1. /\ office[o].pc = "remove" /\ owed[o] = Nothing /\ UNCHANGED shelf
        /\ \/ Answers(o) /\ UNCHANGED <<personnel, owed, gone>>
           \/ Deletes(o, p) /\ Turns(o, next)
    BY <1>10 DEF RemovePerson, Ready
  <2>2. InHand(next) /\ next.pc \notin Putting /\ office[o].pc \notin Putting
    BY <2>1, NextPersonHeld DEF Putting
  <2>3. UNCHANGED <<copies, noted, unkept, unnoted, put_back, reopened>>
    BY <2>1 DEF shelf
  <2>4. CASE Answers(o) /\ UNCHANGED <<personnel, owed, gone>>
    BY <1>0, <2>2, <2>3, <2>4, AnswersBesides
  <2>5. CASE Deletes(o, p) /\ Turns(o, next)
    BY <1>0, <2>1, <2>2, <2>3, <2>5, BesidesRows DEF Leaves
  <2>. QED
    BY <2>1, <2>4, <2>5
<1>. QED
  BY <1>1, <1>2, <1>3, <1>4, <1>5, <1>6, <1>7, <1>8, <1>9, <1>10
LEMMA ImportFields ==
    ASSUME NEW at, ImportHeld(at)
    PROVE  {"pc", "file", "action", "person", "todo", "adds"} \subseteq DOMAIN at
BY DEF ImportHeld, FileHeld

\* Where an import goes on to.
LEMMA ImportingHeld ==
    ASSUME NEW at, ImportHeld(at)
    PROVE  InHand(Importing(at)) /\ Importing(at).pc \notin Putting
<1>. PICK stage : stage = IF at.todo # {} THEN at.action[Min(at.todo)] ELSE IF at.adds # {} THEN "again" ELSE "log"
  OBVIOUS
<1>. PICK next : next = [at EXCEPT !.pc = stage]
  OBVIOUS
<1>1. Importing(at) = next
  BY DEF Importing
<1>2. stage \in Kinds \cup {"again", "log"} /\ (stage \in Kinds => at.todo # {}) /\ (stage = "again" => at.adds # {})
  <2>1. CASE at.todo # {}
    <3>1. at.todo \subseteq DOMAIN at.file /\ DOMAIN at.file \subseteq Nat /\ at.action \in [DOMAIN at.file -> Kinds]
      BY FileRows DEF ImportHeld, FileHeld
    <3>2. Min(at.todo) \in DOMAIN at.file
      BY <2>1, <3>1, MinIn
    <3>3. stage = at.action[Min(at.todo)]
      BY <2>1
    <3>4. "again" \notin Kinds
      BY DEF Kinds
    <3>. QED
      BY <2>1, <3>1, <3>2, <3>3, <3>4
  <2>2. CASE at.todo = {}
    BY <2>2 DEF Kinds
  <2>. QED
    BY <2>1, <2>2
<1>3. /\ {"pc", "file", "action", "person", "todo", "adds"} \subseteq DOMAIN at
      /\ "pc" \in DOMAIN next /\ next.pc = stage /\ DOMAIN next = DOMAIN at
      /\ next.file = at.file /\ next.action = at.action /\ next.person = at.person
      /\ next.todo = at.todo /\ next.adds = at.adds
  BY DEF ImportHeld, FileHeld
<1>4. ImportHeld(next)
  BY <1>3 DEF ImportHeld, FileHeld
<1>. QED
  BY <1>1, <1>2, <1>3, <1>4 DEF InHand, Putting, Kinds

LEMMA ImportGoesOn ==
    ASSUME NEW at, ImportHeld(at), NEW next, DOMAIN next = DOMAIN at,
           next.file = at.file, next.action = at.action, next.todo \subseteq at.todo, next.adds \subseteq at.adds,
           \/ next.person = at.person
           \/ \E k \in DOMAIN at.file : \E note : Named(note.row) /\ next.person = [at.person EXCEPT ![k] = note]
    PROVE  ImportHeld(next)
BY DEF ImportHeld, FileHeld

LEMMA KnownHeld ==
    ASSUME NEW at, ImportHeld(at), NEW k \in DOMAIN at.file, NEW id, NEW row, Named(row)
    PROVE  ImportHeld(Known(at, k, id, row))
<1>. DEFINE note == [id |-> id, row |-> row]
            next == [at EXCEPT !.todo = @ \ {k}, !.person[k] = note, !.people = @ \cup {id}]
<1>1. Known(at, k, id, row) = next
  BY DEF Known
<1>2. {"pc", "file", "action", "person", "todo", "adds"} \subseteq DOMAIN at
  BY ImportFields
<1>3. Named(note.row)
  OBVIOUS
<1>. HIDE DEF note
<1>4. /\ DOMAIN next = DOMAIN at /\ next.file = at.file /\ next.action = at.action
      /\ next.todo \subseteq at.todo /\ next.adds = at.adds /\ next.person = [at.person EXCEPT ![k] = note]
  BY <1>2
<1>. HIDE DEF next
<1>. QED
  BY <1>1, <1>3, <1>4, ImportGoesOn

\* The import of a row whose person it made.
Made(at, k, id, row) == [Known(at, k, id, row) EXCEPT !.people_made = @ \cup {id}]
LEMMA MadeHeld ==
    ASSUME NEW at, ImportHeld(at), NEW k \in DOMAIN at.file, NEW id, NEW row, Named(row)
    PROVE  ImportHeld(Made(at, k, id, row))
<1>. DEFINE known == Known(at, k, id, row)
            next == [known EXCEPT !.people_made = @ \cup {id}]
<1>1. ImportHeld(known) /\ Made(at, k, id, row) = next
  BY KnownHeld DEF Made
<1>. HIDE DEF known
<1>2. {"pc", "file", "action", "person", "todo", "adds"} \subseteq DOMAIN known
  BY <1>1, ImportFields
<1>3. /\ DOMAIN next = DOMAIN known /\ next.file = known.file /\ next.action = known.action
      /\ next.todo = known.todo /\ next.adds = known.adds /\ next.person = known.person
  BY <1>2
<1>. HIDE DEF next
<1>. QED
  BY <1>1, <1>3, ImportGoesOn

LEMMA NextAddHeld ==
    ASSUME NEW at, ImportHeld(at), NEW k
    PROVE  InHand(NextAdd(at, k)) /\ NextAdd(at, k).pc \notin Putting
<1>. PICK next : next = [at EXCEPT !.adds = @ \ {k}]
  OBVIOUS
<1>1. {"pc", "file", "action", "person", "todo", "adds"} \subseteq DOMAIN at
  BY ImportFields
<1>2. /\ DOMAIN next = DOMAIN at /\ next.file = at.file /\ next.action = at.action
      /\ next.todo = at.todo /\ next.adds = at.adds \ {k} /\ next.person = at.person
  BY <1>1
<1>3. ImportHeld(next)
  BY <1>2, ImportGoesOn
<1>. QED
  BY <1>3, ImportingHeld DEF NextAdd

LEMMA DecisionIn == \A row, found : Decision(row, found) \in Kinds
BY DEF Decision, Kinds

\* What an import has when it has read the register.
Loaded(file, found) ==
    [file |-> file,
     action |-> [k \in DOMAIN file |-> Decision(file[First(file, k)], found[k])],
     person |-> [k \in DOMAIN file |-> [id |-> IF found[k] = {} THEN 0 ELSE Min(found[k]), row |-> Nameless]]]

LEMMA LoadedParts ==
    ASSUME NEW file, NEW found
    PROVE  /\ Loaded(file, found).file = file /\ Loaded(file, found).action \in [DOMAIN file -> Kinds]
           /\ DOMAIN Loaded(file, found).person = DOMAIN file
           /\ \A k \in DOMAIN file : Loaded(file, found).person[k].row = Nameless
           /\ DOMAIN Loaded(file, found) = {"file", "action", "person"}
BY DecisionIn DEF Loaded

LEMMA LoadedHeld ==
    ASSUME NEW file \in Workbooks, NEW found, NEW people, NEW numbers,
           NEW next, next = Request("live", people, numbers) ++ Loaded(file, found)
    PROVE  InHand(next) /\ next.pc \notin Putting
<1>. PICK g : g = Loaded(file, found)
  OBVIOUS
<1>1. /\ g.file = file /\ g.action \in [DOMAIN file -> Kinds] /\ DOMAIN g.person = DOMAIN file
      /\ \A k \in DOMAIN file : g.person[k].row = Nameless
      /\ DOMAIN g = {"file", "action", "person"}
  BY LoadedParts
<1>2. /\ next.pc = "live" /\ DOMAIN next = {"pc", "people", "numbers", "file", "action", "person"}
      /\ next.file = g.file /\ next.action = g.action /\ next.person = g.person
  BY <1>1 DEF Request, ++
<1>3. Named(Nameless)
  BY DEF Named, Nameless
<1>4. FileHeld(next)
  BY <1>1, <1>2, <1>3 DEF FileHeld
<1>. QED
  BY <1>2, <1>4 DEF InHand, Putting

LEMMA ImportSteps ==
    ASSUME TrashInv, NEW o \in Officers,
           \/ \E file \in Workbooks : commit_import(o, file)
           \/ _load_register(o) \/ plan_import(o) \/ CreateImported(o) \/ FillBlanks(o) \/ _person_by_id(o)
           \/ _load_live_ppe(o) \/ IssueImported(o) \/ LogImport(o)
           \/ \E n \in 1 .. MaxImports : undo_import(o, n)
           \/ RemoveIssued(o) \/ ReadPerson(o) \/ MarkUndone(o)
    PROVE  Besides(o)
<1>0. TrashTyped /\ InHand(office[o])
  BY DEF TrashInv, Offices
<1>. PICK at : at = office[o]
  OBVIOUS
<1>1. ASSUME NEW file \in Workbooks, commit_import(o, file) PROVE Besides(o)
  <2>. PICK g, numbers : g = [file |-> file] /\ numbers = {file[k].number : k \in DOMAIN file}
    OBVIOUS
  <2>. PICK next : next = Request("register", {}, numbers) ++ g
    OBVIOUS
  <2>1. Takes(o, "import") /\ Turns(o, next) /\ Reads(o)
    BY <1>1 DEF commit_import
  <2>2. next.pc = "register" /\ "pc" \in DOMAIN next /\ next.file = g.file
    BY DEF Request, ++
  <2>3. InHand(next) /\ next.pc \notin Putting
    BY <2>2 DEF InHand, Putting
  <2>. QED
    BY <1>0, <2>1, <2>3, Taking, BesidesReads
<1>2. CASE _load_register(o)
  <2>1. at.pc = "register" /\ Reads(o) /\ at.file \in Workbooks
    BY <1>0, <1>2 DEF _load_register, Ready, InHand
  <2>2. PICK found, people : Turns(o, Request("live", people, at.numbers) ++ Loaded(at.file, found))
    BY <1>2 DEF _load_register, Loaded
  <2>. PICK next : next = Request("live", people, at.numbers) ++ Loaded(at.file, found)
    OBVIOUS
  <2>3. InHand(next) /\ next.pc \notin Putting
    BY <2>1, LoadedHeld
  <2>. QED
    BY <1>0, <2>1, <2>2, <2>3, BesidesReads DEF Putting
<1>3. CASE plan_import(o)
  <2>1. /\ at.pc = "live" /\ Reads(o) /\ FileHeld(at)
        /\ DOMAIN at = {"pc", "people", "numbers", "file", "action", "person"}
    BY <1>0, <1>3 DEF plan_import, Ready, InHand
  <2>2. PICK todo, adds : /\ todo \subseteq DOMAIN at.file /\ adds \subseteq DOMAIN at.file
                          /\ Turns(o, Importing(at ++ [todo |-> todo, adds |-> adds, people_made |-> {}, items_made |-> {}]))
    <3>. DEFINE file == at.file
                taken_on == {k \in DOMAIN file : at.action[k] # "refused"}
                adds == {k \in taken_on : /\ file[k].item # NoItem /\ HasItem(file[k], file[k].item) = {}
                                          /\ \A j \in 1 .. k - 1 : <<file[j].number, file[j].item>> # <<file[k].number, file[k].item>>}
                todo == {k \in taken_on : First(file, k) = k}
    <3>1. Turns(o, Importing(at ++ [todo |-> todo, adds |-> adds, people_made |-> {}, items_made |-> {}]))
      BY <1>3 DEF plan_import
    <3>2. todo \subseteq DOMAIN at.file /\ adds \subseteq DOMAIN at.file
      OBVIOUS
    <3>. HIDE DEF todo, adds
    <3>. QED
      BY <3>1, <3>2
  <2>. PICK g : g = [todo |-> todo, adds |-> adds, people_made |-> {}, items_made |-> {}]
    OBVIOUS
  <2>. PICK next : next = at ++ g
    OBVIOUS
  <2>3. /\ {"pc", "file", "action", "person", "todo", "adds"} \subseteq DOMAIN next
        /\ next.file = at.file /\ next.action = at.action /\ next.person = at.person
        /\ next.todo = g.todo /\ next.adds = g.adds
    BY <2>1 DEF ++
  <2>4. ImportHeld(next)
    BY <2>1, <2>2, <2>3 DEF ImportHeld, FileHeld
  <2>5. Turns(o, Importing(next))
    BY <2>2
  <2>. QED
    BY <1>0, <2>1, <2>4, <2>5, ImportingHeld, BesidesReads DEF Putting
<1>. PICK k : k = Min(at.todo)
  OBVIOUS
<1>4. ASSUME at.pc \in {"new", "fill", "back"}
      PROVE  ImportHeld(at) /\ k \in DOMAIN at.file /\ at.file \in Workbooks /\ at.todo # {}
  <2>1. ImportHeld(at) /\ at.todo # {} /\ at.file \in Workbooks /\ at.todo \subseteq DOMAIN at.file
    BY <1>0, <1>4 DEF InHand, ImportHeld, FileHeld
  <2>2. DOMAIN at.file \subseteq Nat
    BY <2>1, FileRows
  <2>. QED
    BY <2>1, <2>2, MinIn
<1>5. CASE CreateImported(o)
  <2>. PICK row, id : row = Person(at.file[k].number, at.file[k].about) /\ id = Min(Unused(PersonIds))
    OBVIOUS
  <2>1. /\ at.pc = "new" /\ owed[o] = Nothing /\ Writes(o)
        /\ \/ Stores(o, PersonIds, row) /\ Turns(o, Importing(Made(at, k, id, row)))
           \/ Answers(o) /\ UNCHANGED <<personnel, owed>>
    BY <1>5 DEF CreateImported, Ready, RowOf, Made
  <2>2. row \in Rows /\ PersonIds \subseteq RowIds
    BY <1>4, <2>1, FileRows, RowMade DEF RowIds
  <2>3. InHand(Importing(Made(at, k, id, row))) /\ Importing(Made(at, k, id, row)).pc \notin Putting
    BY <1>4, <2>1, <2>2, RowParts, MadeHeld, ImportingHeld
  <2>4. UNCHANGED <<copies, noted, unkept, unnoted, put_back, reopened, gone>> /\ office[o].pc \notin Putting
    BY <2>1 DEF Writes, shelf, Putting
  <2>5. CASE Answers(o) /\ UNCHANGED <<personnel, owed>>
    BY <1>0, <2>4, <2>5, AnswersBesides
  <2>6. CASE Stores(o, PersonIds, row) /\ Turns(o, Importing(Made(at, k, id, row)))
    <3>1. Enters(o)
      BY <2>1, <2>2, <2>4, <2>6, StoresRow
    <3>. QED
      BY <1>0, <2>3, <2>4, <2>6, <3>1, BesidesRows
  <2>. QED
    BY <2>1, <2>5, <2>6
<1>6. CASE FillBlanks(o)
  <2>. PICK next, p, about : next = [at EXCEPT !.pc = "back"] /\ p = at.person[k].id /\ about = at.file[k].about
    OBVIOUS
  <2>1. /\ at.pc = "fill" /\ owed' = owed /\ Writes(o) /\ Turns(o, next)
        /\ \/ p \in Staff /\ personnel' = [personnel EXCEPT ![p].about = about]
           \/ personnel' = personnel
    BY <1>6 DEF FillBlanks, Ready, RowOf
  <2>2. ImportHeld(at) /\ at.todo # {} /\ about \in Abouts
    BY <1>4, <2>1, FileRows
  <2>3. {"pc", "file", "action", "person", "todo", "adds"} \subseteq DOMAIN at
    BY <2>2, ImportFields
  <2>4. /\ DOMAIN next = DOMAIN at /\ next.file = at.file /\ next.action = at.action /\ next.pc = "back"
        /\ next.todo = at.todo /\ next.adds = at.adds /\ next.person = at.person
    BY <2>3
  <2>5. ImportHeld(next)
    BY <2>2, <2>4, ImportGoesOn
  <2>6. InHand(next) /\ next.pc \notin Putting /\ office[o].pc \notin Putting
    BY <2>1, <2>2, <2>3, <2>4, <2>5 DEF InHand, Putting
  <2>7. UNCHANGED <<copies, noted, unkept, unnoted, put_back, reopened, gone>>
    BY <2>1 DEF Writes, shelf
  <2>8. UNCHANGED <<personnel, owed, gone>> \/ Calm
    BY <1>0, <2>1, <2>2, <2>7, CalmAbout DEF Staff
  <2>. QED
    BY <1>0, <2>1, <2>6, <2>7, <2>8, BesidesRows
<1>7. CASE _person_by_id(o)
  <2>. PICK p : p = at.person[k].id
    OBVIOUS
  <2>. PICK row : row = IF p \in Staff THEN personnel[p] ELSE Nameless
    OBVIOUS
  <2>1. at.pc = "back" /\ Reads(o) /\ Turns(o, Importing(Known(at, k, p, row)))
    BY <1>7 DEF _person_by_id, Ready, RowOf
  <2>2. Named(row)
    <3>1. Named(Nameless)
      BY DEF Named, Nameless
    <3>2. p \in Staff => personnel[p] \in Rows
      BY <1>0, HeldRows DEF Staff, Held
    <3>. QED
      BY <3>1, <3>2, RowParts
  <2>3. ImportHeld(Known(at, k, p, row))
    BY <1>4, <2>1, <2>2, KnownHeld
  <2>. QED
    BY <1>0, <2>1, <2>3, ImportingHeld, BesidesReads DEF Putting
<1>. PICK add : add = Min(at.adds)
  OBVIOUS
<1>8. ASSUME at.pc \in {"again", "issue"}
      PROVE  /\ ImportHeld(at) /\ at.adds # {} /\ add \in DOMAIN at.file /\ at.file[add].item \in Articles
             /\ Named(at.person[First(at.file, add)].row)
  <2>1. ImportHeld(at) /\ at.adds # {} /\ at.file \in Workbooks /\ at.adds \subseteq DOMAIN at.file
    BY <1>0, <1>8 DEF InHand, ImportHeld, FileHeld
  <2>2. DOMAIN at.file \subseteq Nat
    BY <2>1, FileRows
  <2>3. add \in DOMAIN at.file
    BY <2>1, <2>2, MinIn
  <2>4. First(at.file, add) \in DOMAIN at.file /\ at.file[add].item \in Articles
    BY <2>1, <2>3, FileRows
  <2>. QED
    BY <2>1, <2>3, <2>4 DEF ImportHeld, FileHeld
<1>9. CASE _load_live_ppe(o)
  <2>. PICK next : next = [at EXCEPT !.pc = "issue"]
    OBVIOUS
  <2>1. at.pc = "again" /\ Reads(o) /\ (Turns(o, NextAdd(at, add)) \/ Turns(o, next))
    BY <1>9 DEF _load_live_ppe, Ready, Adding
  <2>2. {"pc", "file", "action", "person", "todo", "adds"} \subseteq DOMAIN at
    BY <1>8, <2>1, ImportFields
  <2>3. /\ DOMAIN next = DOMAIN at /\ next.file = at.file /\ next.action = at.action /\ next.pc = "issue"
        /\ next.todo = at.todo /\ next.adds = at.adds /\ next.person = at.person
    BY <2>2
  <2>4. ImportHeld(next)
    BY <1>8, <2>1, <2>3, ImportGoesOn
  <2>5. InHand(next) /\ next.pc \notin Putting /\ office[o].pc \notin Putting
    BY <1>8, <2>1, <2>2, <2>3, <2>4 DEF InHand, Putting
  <2>6. InHand(NextAdd(at, add)) /\ NextAdd(at, add).pc \notin Putting
    BY <1>8, <2>1, NextAddHeld
  <2>. QED
    BY <1>0, <2>1, <2>5, <2>6, BesidesReads
<1>10. CASE IssueImported(o)
  <2>. PICK row, id : row = Paper("ppe_records", at.person[First(at.file, add)].row, at.file[add].item) /\ id = Min(Unused(PaperIds))
    OBVIOUS
  <2>. PICK mid : mid = [at EXCEPT !.items_made = @ \cup {id}]
    OBVIOUS
  <2>1. /\ at.pc = "issue" /\ owed[o] = Nothing /\ Writes(o)
        /\ \/ Stores(o, PaperIds, row) /\ Turns(o, NextAdd(mid, add))
           \/ Answers(o) /\ UNCHANGED <<personnel, owed>>
    BY <1>10 DEF IssueImported, Ready, Adding, Adds
  <2>2. row \in Rows /\ PaperIds \subseteq RowIds
    BY <1>8, <2>1, RowMade DEF RowIds, Tables
  <2>3. {"pc", "file", "action", "person", "todo", "adds"} \subseteq DOMAIN at
    BY <1>8, <2>1, ImportFields
  <2>4. /\ DOMAIN mid = DOMAIN at /\ mid.file = at.file /\ mid.action = at.action
        /\ mid.todo = at.todo /\ mid.adds = at.adds /\ mid.person = at.person
    BY <2>3
  <2>5. ImportHeld(mid)
    BY <1>8, <2>1, <2>4, ImportGoesOn
  <2>6. UNCHANGED <<copies, noted, unkept, unnoted, put_back, reopened, gone>> /\ office[o].pc \notin Putting
    BY <2>1 DEF Writes, shelf, Putting
  <2>7. CASE Answers(o) /\ UNCHANGED <<personnel, owed>>
    BY <1>0, <2>6, <2>7, AnswersBesides
  <2>8. CASE Stores(o, PaperIds, row) /\ Turns(o, NextAdd(mid, add))
    <3>1. Enters(o)
      BY <2>1, <2>2, <2>6, <2>8, StoresRow
    <3>. QED
      BY <1>0, <2>5, <2>6, <2>8, <3>1, NextAddHeld, BesidesRows
  <2>. QED
    BY <2>1, <2>7, <2>8
<1>11. CASE LogImport(o)
  <2>1. at.pc = "log" /\ Answers(o) /\ UNCHANGED <<shelf, personnel, owed, gone>>
    BY <1>11 DEF LogImport, Ready
  <2>. QED
    BY <1>0, <2>1, AnswersBesides DEF shelf, Putting
<1>12. ASSUME NEW n \in 1 .. MaxImports, undo_import(o, n) PROVE Besides(o)
  <2>. PICK log : log = [number |-> n, items |-> imports[n].items, people |-> imports[n].people]
    OBVIOUS
  <2>1. Takes(o, "undo") /\ Turns(o, Undoing(log)) /\ Reads(o)
    BY <1>12 DEF undo_import
  <2>. QED
    BY <1>0, <2>1, UndoingHeld, Taking, BesidesReads
<1>13. CASE RemoveIssued(o)
  <2>. PICK log, i : log = [at.import EXCEPT !.items = @ \ {Min(@)}] /\ i = Min(at.import.items)
    OBVIOUS
  <2>1. /\ at.pc = "unissue" /\ owed[o] = Nothing /\ Deletes(o, i) /\ Turns(o, Undoing(log)) /\ UNCHANGED shelf
    BY <1>13 DEF RemoveIssued, Ready
  <2>2. Leaves(o)
    BY <2>1 DEF Leaves
  <2>. QED
    BY <1>0, <2>1, <2>2, UndoingHeld, BesidesRows DEF shelf, Putting
<1>14. CASE ReadPerson(o)
  <2>. PICK log, p : log = at.import /\ p = Min(log.people)
    OBVIOUS
  <2>1. at.pc = "person" /\ Reads(o) /\ (Turns(o, Checks(p, log)) \/ Turns(o, NextPerson(log)))
    BY <1>14 DEF ReadPerson, Ready
  <2>. QED
    BY <1>0, <2>1, ChecksHeld, NextPersonHeld, BesidesReads DEF Putting
<1>15. CASE MarkUndone(o)
  <2>1. at.pc = "undone" /\ Answers(o) /\ UNCHANGED <<shelf, personnel, owed, gone>>
    BY <1>15 DEF MarkUndone, Ready
  <2>. QED
    BY <1>0, <2>1, AnswersBesides DEF shelf, Putting
<1>. QED
  BY <1>1, <1>2, <1>3, <1>5, <1>6, <1>7, <1>9, <1>10, <1>11, <1>12, <1>13, <1>14, <1>15
LEMMA TrashInitially ==
    ASSUME NEW with, NEW staff \in Registers, TrashInit(with, staff)
    PROVE  TrashInv
<1>1. staff \in [RowIds -> Rows \cup {NoRow}] /\ NoRow \notin Rows
  BY EmployeesAssumption DEF Registers
<1>2. /\ personnel = staff /\ copies = <<>> /\ office = [o \in Officers |-> Away] /\ owed = [o \in Officers |-> Nothing]
      /\ noted = [i \in RowIds |-> [create |-> IF staff[i] = NoRow THEN 0 ELSE 1, delete |-> 0]]
      /\ gone = [i \in RowIds |-> NoRow] /\ put_back = [n \in CopyIds |-> 0]
  BY DEF TrashInit
<1>3. DOMAIN copies = {} /\ copies \in Seq(Copies) /\ Len(copies) = 0
  BY <1>2
<1>4. TrashTyped
  BY <1>1, <1>2, <1>3, CopiesAssumption DEF TrashTyped
<1>5. Offices /\ \A o \in Officers : office[o].pc = "away"
  BY <1>2, AwayHeld DEF Offices
<1>6. KeptOrOwed
  BY <1>2 DEF KeptOrOwed
<1>7. EntriesAgree
  <2>1. ASSUME NEW i \in RowIds PROVE noted[i].create - noted[i].delete + ToCome(i) = Count(i)
    <3>1. Coming(owed, i) \in [Officers -> Int] /\ \A q \in Officers : Coming(owed, i)[q] = 0
      BY <1>2 DEF Coming, Share
    <3>2. ToCome(i) = 0
      BY <3>1, TotalOfZeros, CopiesAssumption DEF ToCome
    <3>3. i \in Held <=> staff[i] # NoRow
      BY <1>2 DEF Held
    <3>4. noted[i].create = (IF staff[i] = NoRow THEN 0 ELSE 1) /\ noted[i].delete = 0
      BY <1>2
    <3>. QED
      BY <3>2, <3>3, <3>4 DEF Count
  <2>. QED
    BY <2>1 DEF EntriesAgree
<1>8. PutBackOnce
  BY <1>2, <1>3, <1>5 DEF PutBackOnce, Singly, PuttingBack, Was
<1>. QED
  BY <1>4, <1>5, <1>6, <1>7, <1>8 DEF TrashInv

LEMMA TrashSteps ==
    ASSUME TrashInv, NEW o \in Officers,
           (\E n \in CopyIds : Restore(o, n)) \/ Restoring(o) \/ Auditing(o) \/ Stopped(o)
    PROVE  TrashInv'
<1>1. ASSUME NEW n \in CopyIds, Restore(o, n) PROVE TrashInv'
  BY <1>1, Taking, RestoreKeeps DEF Restore
<1>2. CASE Restoring(o)
  BY <1>2, ClashKeeps, PutBackKeeps, MarkKeeps DEF Restoring
<1>3. CASE Auditing(o)
  BY <1>3, CopyingKeeps, EntryKeeps, RefusedCopyKeeps, RefusedEntryKeeps DEF Auditing
<1>4. CASE Stopped(o)
  BY <1>4, StopsKeeps DEF Stopped
<1>. QED
  BY <1>1, <1>2, <1>3, <1>4

\* What was deleted stays in Recently deleted, the log counts what is there, and a copy is
\* put back once, whoever works on the register and whenever a call fails: the inductive
\* invariant adds what a request holds at each of its calls, the copies and the entries
\* that are still to come, and that a copy is being put back by one request at most.
THEOREM DeletedKept == EmployeesSpec => []DeletedIsKept
<1>1. ASSUME NEW with \in BOOLEAN, NEW staff \in Registers, NEW kinds \in Tasks, EmployeesInit(with, staff, kinds)
      PROVE  TrashInv
  BY <1>1, TrashInitially DEF EmployeesInit
<1>2. TrashInv /\ [EmployeesNext]_employee_vars => TrashInv'
  <2>. SUFFICES ASSUME TrashInv, [EmployeesNext]_employee_vars PROVE TrashInv'
    OBVIOUS
  <2>1. CASE RecordsNext
    BY <2>1, RecordSteps, BesidesKeeps DEF RecordsNext
  <2>2. CASE StaffNext
    BY <2>2, StaffSteps, BesidesKeeps DEF StaffNext
  <2>3. CASE ImportNext
    BY <2>3, ImportSteps, BesidesKeeps DEF ImportNext
  <2>4. CASE TrashNext
    BY <2>4, TrashSteps DEF TrashNext
  <2>5. CASE UNCHANGED employee_vars
    <3>1. UNCHANGED <<personnel, copies, office, owed, noted, gone, unkept, unnoted, put_back, reopened>>
      BY <2>5 DEF employee_vars, trash_vars
    <3>2. TrashTyped' /\ Held' = Held
      BY <3>1 DEF TrashInv, TrashTyped, Held
    <3>3. Offices'
      BY <3>1 DEF TrashInv, Offices, InHand, FileHeld, ImportHeld
    <3>4. KeptOrOwed'
      BY <3>1, <3>2 DEF TrashInv, KeptOrOwed, Owing, CopyOf
    <3>5. EntriesAgree'
      <4>1. \A i : ToCome(i)' = ToCome(i)
        BY <3>1 DEF ToCome
      <4>. QED
        BY <3>1, <3>2, <4>1, EntriesStay DEF TrashInv
    <3>6. PutBackOnce'
      BY <3>1 DEF TrashInv, PutBackOnce, Singly, PuttingBack, Was, CopyIds
    <3>. QED
      BY <3>2, <3>3, <3>4, <3>5, <3>6 DEF TrashInv
  <2>. QED
    BY <2>1, <2>2, <2>3, <2>4, <2>5 DEF EmployeesNext
<1>3. TrashInv => DeletedIsKept
  BY KeptHolds
<1>4. EmployeesBegin => TrashInv
  BY <1>1 DEF EmployeesBegin
<1>. QED
  BY <1>2, <1>3, <1>4, PTL DEF EmployeesSpec
-----------------------------------------------------------------------------
(* The hour meters of a compressor. *)

Urgencies == {"critical", "high", "medium", "low"}
Readings == [id : Nat, date : Dates, total : Hours, run : Nat, load : Nat]
ServicePlans == [interval : SERVICE_MILESTONES, urgency : Urgencies, found : BOOLEAN]
Underway == {"readings", "store", "latest", "carry", "service", "schedule", "alert"}
Handling ==
    [pc : {"idle"} \cup Underway, date : Nat, total : Hours, initial : Hours,
     reading : Readings \cup {NoReading}, schedule : ServicePlans \cup {NoReading}]

\* What an entry holds at each of its calls.
Equipped(k) ==
    /\ k.pc # "idle" => k.date \in Dates
    /\ k.pc = "store" => k.reading \in Readings /\ k.reading.load <= k.reading.run
    /\ k.pc \in {"schedule", "alert"} => k.schedule \in ServicePlans

\* Without a compressor whose unit is in the register nothing was ever entered.
MetersTyped ==
    /\ register \in {"old", "new", "absent"}
    /\ meter \in Meters \cup {NoMeter}
    /\ readings \subseteq Readings /\ IsFiniteSet(readings) /\ \A r \in readings : r.load <= r.run
    /\ due_service \subseteq [interval : SERVICE_MILESTONES, urgency : Urgencies, by : Entries]
    /\ alerts \subseteq SERVICE_MILESTONES
    /\ entry \in [Entries -> Handling] /\ \A e \in Entries : Equipped(entry[e])
    /\ excuses \subseteq {"backdated", "overlapped", "reset", "typed", "failed"}
    /\ entered \in Nat /\ (entered = 0 => AllIdle)
    /\ meter # NoMeter => (meter.linked <=> register # "absent")
    /\ meter = NoMeter /\ register # "absent" => readings = {} /\ due_service = {} /\ AllIdle

\* Entries that do not overlap store one after another.
Stored == {"latest", "carry", "service", "schedule", "alert"}
OneAtATime == Without({"overlapped"}) => \A e, f \in Entries : entry[e].pc \in Stored /\ entry[f].pc \in Stored => e = f

\* A reading has a day and an id of its own.
ReadingsApart ==
    Without({"overlapped"}) =>
        \A r \in readings : /\ 0 < r.id /\ r.id < entered + Cardinality(readings)
                            /\ \A s \in readings : r.id = s.id \/ r.date = s.date => r = s

\* What an entry found is so until it stores: where the meter started, the reading of its
\* day, and the reading before it, to which it adds its hours.
Plus(total, reading) == [run |-> total.run + reading.run, load |-> total.load + reading.load]
AddsTo(reading) ==
    \/ Previous(reading.date) = {} /\ reading.total = Plus(meter.initial, reading)
    \/ \E r \in Previous(reading.date) : reading.total = Plus(r.total, reading)
FoundHolds ==
    \A e \in Entries :
        /\ entry[e].pc = "readings" /\ Without({"reset"}) => entry[e].initial = meter.initial
        /\ entry[e].pc = "store" /\ Without({"overlapped"}) =>
              LET mine == entry[e].reading
              IN  /\ mine.date = entry[e].date /\ mine.total = entry[e].total
                  /\ \/ mine.id = 0 /\ Existing(mine.date) = {}
                     \/ \E r \in Existing(mine.date) : r.id = mine.id
                  /\ Without({"reset"}) => AddsTo(mine)

\* The meter reads what it started at and the hours of the days since.
Until(some, date) == {r \in some : r.date <= date}
UpTo(date) == Until(readings, date)
HoursRun(some) == SumOf([r \in some |-> r.run])
HoursLoaded(some) == SumOf([r \in some |-> r.load])
DaysHold ==
    Without({"backdated", "overlapped", "reset"}) =>
        \A r \in readings : r.total = [run |-> meter.initial.run + HoursRun(UpTo(r.date)),
                                       load |-> meter.initial.load + HoursLoaded(UpTo(r.date))]

\* The latest reading has the totals of the compressor, or of an entry about to carry them.
NoLaterThan(date) == \A r \in readings : r.date <= date
Carries(k) == k.pc = "carry" \/ (k.pc = "latest" /\ NoLaterThan(k.date))
TotalsCarried == \E r \in readings : r.total = meter.total /\ NoLaterThan(r.date)
StoredHolds ==
    Without({"overlapped"}) =>
        \A e \in Entries :
            /\ entry[e].pc \in {"latest", "carry"} =>
                  \E r \in readings : r.date = entry[e].date /\ r.total = entry[e].total
            /\ entry[e].pc = "carry" => NoLaterThan(entry[e].date)
            /\ entry[e].pc = "latest" /\ "backdated" \notin excuses => NoLaterThan(entry[e].date)
TotalsHold ==
    Without({"overlapped", "failed", "typed"}) /\ readings # {} =>
        TotalsCarried \/ \E e \in Entries : Carries(entry[e])

\* The service that is next is in the schedule, or an entry with the totals of the
\* compressor is about to put it there.
NextAt(hours) ==
    generate_service_intervals(hours) # {} =>
        \E s \in due_service : s.interval = NextService(hours)
                               /\ Rank(s.urgency) <= Rank(StoredUrgency(NextService(hours) - hours))
Serving == {"latest", "carry", "service", "schedule"}
PlansHold ==
    Without({"overlapped"}) =>
        /\ \A s, t \in due_service : s.interval = t.interval => s = t
        /\ \A e \in Entries : entry[e].pc = "schedule" =>
              LET hours == entry[e].total.run
                  plan == entry[e].schedule
              IN  /\ generate_service_intervals(hours) # {}
                  /\ plan.interval = NextService(hours) /\ plan.urgency = StoredUrgency(plan.interval - hours)
                  /\ plan.found <=> \E s \in due_service : s.interval = plan.interval
ServiceHolds ==
    Without({"overlapped", "failed", "typed", "backdated"}) =>
        /\ \A e \in Entries : entry[e].pc \in {"service", "schedule"} => entry[e].total = meter.total
        /\ readings # {} => NextAt(meter.total.run) \/ \E e \in Entries : entry[e].pc \in Serving

MetersInv ==
    /\ MetersTyped /\ OneAtATime /\ ReadingsApart /\ FoundHolds /\ DaysHold
    /\ StoredHolds /\ TotalsHold /\ PlansHold /\ ServiceHolds

\* A step that stores nothing: an entry begins or ends, or the compressor changes, which
\* says so when its totals do.
LEMMA QuietStep ==
    ASSUME MetersInv, MetersTyped', meter # NoMeter, UNCHANGED <<readings, due_service>>,
           excuses \subseteq excuses', entered <= entered',
           meter'.initial = meter.initial \/ "reset" \in excuses',
           meter'.total = meter.total \/ "typed" \in excuses',
           \A f \in Entries :
              \/ entry'[f] = entry[f]
              \/ /\ entry'[f].pc \in {"idle", "readings"}
                 /\ entry'[f].pc = "readings" => entry'[f].initial = meter'.initial
                 /\ entry[f].pc \in Serving => "failed" \in excuses'
    PROVE  MetersInv'
<1>1. \A S : Without(S)' => Without(S)
  BY DEF Without
<1>2. Without({"reset"})' => meter'.initial = meter.initial
  BY DEF Without
<1>3. Without({"overlapped", "failed", "typed"})' => "failed" \notin excuses' /\ meter'.total = meter.total
  BY DEF Without
<1>4. Without({"overlapped", "failed", "typed", "backdated"})' => "failed" \notin excuses' /\ meter'.total = meter.total
  BY DEF Without
<1>5. Without({"backdated", "overlapped", "reset"})' => Without({"reset"})'
  BY DEF Without
<1>6. OneAtATime'
  BY <1>1 DEF MetersInv, OneAtATime, Stored
<1>7. ReadingsApart'
  <2>1. Cardinality(readings) \in Nat /\ entered \in Nat /\ entered' \in Nat /\ \A r \in readings : r.id \in Nat
    BY FS_CardinalityType DEF MetersInv, MetersTyped, Readings
  <2>. QED
    BY <1>1, <2>1 DEF MetersInv, ReadingsApart
<1>8. FoundHolds'
  BY <1>1, <1>2 DEF MetersInv, FoundHolds, AddsTo, Existing, Previous
<1>9. DaysHold'
  BY <1>1, <1>2, <1>5 DEF MetersInv, DaysHold, HoursRun, HoursLoaded, UpTo
<1>10. StoredHolds'
  BY <1>1 DEF MetersInv, StoredHolds, NoLaterThan
<1>11. TotalsHold'
  BY <1>1, <1>3 DEF MetersInv, TotalsHold, TotalsCarried, Carries, NoLaterThan, Serving
<1>12. PlansHold'
  BY <1>1 DEF MetersInv, PlansHold
<1>13. ServiceHolds'
  BY <1>1, <1>4 DEF MetersInv, ServiceHolds, NextAt, Serving
<1>. QED
  BY <1>6, <1>7, <1>8, <1>9, <1>10, <1>11, <1>12, <1>13 DEF MetersInv

\* While the unit has no compressor there is nothing to hold.
LEMMA NothingYet ==
    ASSUME MetersTyped', readings' = {}, due_service' = {}, \A e \in Entries : entry'[e].pc = "idle"
    PROVE  MetersInv'
<1>. QED
  BY DEF MetersInv, OneAtATime, Stored, ReadingsApart, FoundHolds, DaysHold, StoredHolds, TotalsHold, PlansHold, ServiceHolds
LEMMA NoMoreMeter ==
    ASSUME MetersTyped', meter' = NoMeter
    PROVE  MetersInv'
<1>1. \A S : ~Without(S)'
  BY DEF Without
<1>. QED
  BY <1>1 DEF MetersInv, OneAtATime, ReadingsApart, FoundHolds, DaysHold, StoredHolds, TotalsHold, PlansHold, ServiceHolds

LEMMA NoEntryTyped == NoEntry \in Handling /\ Equipped(NoEntry) /\ NoEntry.pc = "idle" /\ Zero \in Hours
  BY DEF NoEntry, Zero, Hours, Handling, Equipped

LEMMA FreshTyped ==
    ASSUME NEW initial \in Hours, register \in {"old", "new", "absent"}
    PROVE  /\ Fresh(register, initial) \in Meters
           /\ Fresh(register, initial).linked /\ Fresh(register, initial).initial = initial
  BY DEF Fresh, Meters, Hours

\* The compressor comes, with nothing to its name.
LEMMA Created ==
    ASSUME MetersInv, meter = NoMeter, register # "absent", NEW initial \in Hours, meter' = Fresh(register, initial),
           UNCHANGED <<register, readings, due_service, alerts, entry, excuses, entered>>
    PROVE  MetersInv'
<1>1. MetersTyped'
  BY FreshTyped DEF MetersInv, MetersTyped, AllIdle, At
<1>2. readings' = {} /\ due_service' = {} /\ \A e \in Entries : entry'[e].pc = "idle"
  BY DEF MetersInv, MetersTyped, AllIdle, At
<1>. QED
  BY <1>1, <1>2, NothingYet

\* The compressor's row is changed.
LEMMA MeterEdited ==
    ASSUME MetersInv, meter # NoMeter, meter' \in Meters,
           UNCHANGED <<readings, due_service, alerts, entry, entered>>,
           excuses \subseteq excuses', excuses' \subseteq {"backdated", "overlapped", "reset", "typed", "failed"},
           register' \in {"old", "new", "absent"}, meter'.linked <=> register' # "absent",
           meter'.initial = meter.initial \/ "reset" \in excuses',
           meter'.total = meter.total \/ "typed" \in excuses'
    PROVE  MetersInv'
<1>1. MetersTyped'
  BY MeterAssumption DEF MetersInv, MetersTyped, AllIdle, At
<1>2. CASE MetersTyped'
  <2>1. entered \in Nat
    BY DEF MetersInv, MetersTyped
  <2>2. entered <= entered' /\ \A f \in Entries : entry'[f] = entry[f]
    BY <2>1
  <2>3. UNCHANGED <<readings, due_service>>
    OBVIOUS
  <2>. QED
    BY <1>2, <2>2, <2>3, QuietStep
<1>3. CASE ~MetersTyped'
  BY <1>1, <1>3
<1>. QED
  BY <1>2, <1>3

LEMMA UpdateKeeps ==
    ASSUME MetersInv, NEW patch, update_compressor(patch),
           patch = [name |-> "typed"] \/ \E t \in Totals : patch = [total |-> t] \/ patch = [initial |-> t]
    PROVE  MetersInv'
<1>1. meter \in Meters /\ meter # NoMeter /\ (meter.linked <=> register # "absent") /\ register \in {"old", "new", "absent"}
  BY DEF MetersInv, MetersTyped, update_compressor
<1>2. DOMAIN meter = {"name", "status", "linked", "initial", "total"}
  BY <1>1 DEF Meters
<1>3. CASE patch = [name |-> "typed"]
  <2>1. DOMAIN patch = {"name"} /\ patch["name"] = "typed"
    BY <1>3
  <2>2. meter' = [meter EXCEPT !.name = IF meter.linked THEN meter.name ELSE "typed"]
    BY <1>1, <1>2, <2>1 DEF update_compressor, Meters
  <2>3. meter' \in Meters /\ meter'.linked = meter.linked /\ meter'.initial = meter.initial /\ meter'.total = meter.total
    BY <1>1, <2>2 DEF Meters
  <2>. QED
    BY <1>1, <2>1, <2>3, MeterEdited DEF update_compressor, MetersInv, MetersTyped
<1>4. ASSUME NEW t \in Totals, patch = [total |-> t] PROVE MetersInv'
  <2>1. DOMAIN patch = {"total"} /\ patch["total"] = t /\ t \in Hours
    BY <1>4, MeterAssumption
  <2>2. meter' = [meter EXCEPT !.total = t]
    BY <1>1, <1>2, <2>1 DEF update_compressor, Meters
  <2>3. meter' \in Meters /\ meter'.linked = meter.linked /\ meter'.initial = meter.initial
    BY <1>1, <2>1, <2>2 DEF Meters
  <2>4. excuses' = excuses \cup {"typed"}
    BY <2>1 DEF update_compressor
  <2>. QED
    BY <1>1, <2>3, <2>4, MeterEdited DEF update_compressor, MetersInv, MetersTyped
<1>5. ASSUME NEW t \in Totals, patch = [initial |-> t] PROVE MetersInv'
  <2>1. DOMAIN patch = {"initial"} /\ patch["initial"] = t /\ t \in Hours
    BY <1>5, MeterAssumption
  <2>2. meter' = [meter EXCEPT !.initial = t]
    BY <1>1, <1>2, <2>1 DEF update_compressor, Meters
  <2>3. meter' \in Meters /\ meter'.linked = meter.linked /\ meter'.total = meter.total
    BY <1>1, <2>1, <2>2 DEF Meters
  <2>4. excuses' = excuses \cup {"reset"}
    BY <2>1 DEF update_compressor
  <2>. QED
    BY <1>1, <2>3, <2>4, MeterEdited DEF update_compressor, MetersInv, MetersTyped
<1>. QED
  BY <1>3, <1>4, <1>5

\* The other steps that change only the register or the compressor's row.
LEMMA RowSteps ==
    ASSUME MetersInv,
           \/ sync_from_register \/ delete_compressor \/ RegisterChanges
           \/ \E t \in Totals : create_compressor(t)
           \/ \E s \in {"running", "offline"} : update_compressor_status(s)
    PROVE  MetersInv'
<1>0. meter # NoMeter => meter \in Meters /\ (meter.linked <=> register # "absent")
  BY DEF MetersInv, MetersTyped
<1>9. register \in {"old", "new", "absent"} /\ excuses \subseteq {"backdated", "overlapped", "reset", "typed", "failed"}
  BY DEF MetersInv, MetersTyped
<1>1. CASE sync_from_register
  <2>1. CASE meter = NoMeter
    BY <1>1, <2>1, Created, NoEntryTyped DEF sync_from_register
  <2>2. CASE meter # NoMeter
    <3>1. meter' = [meter EXCEPT !.name = register]
      BY <1>1, <2>2 DEF sync_from_register
    <3>2. meter' \in Meters /\ meter'.linked = meter.linked /\ meter'.initial = meter.initial /\ meter'.total = meter.total
      BY <1>0, <1>9, <2>2, <3>1 DEF Meters
    <3>. QED
      BY <1>0, <1>1, <1>9, <2>2, <3>2, MeterEdited DEF sync_from_register
  <2>. QED
    BY <2>1, <2>2
<1>2. CASE delete_compressor
  <2>1. MetersTyped'
    BY <1>0, <1>2, FS_EmptySet DEF delete_compressor, MetersInv, MetersTyped, AllIdle, At
  <2>. QED
    BY <1>2, <2>1, NoMoreMeter DEF delete_compressor
<1>3. CASE RegisterChanges
  <2>1. CASE meter = NoMeter
    <3>1. MetersTyped'
      BY <1>3, <1>9, <2>1 DEF RegisterChanges, MetersInv, MetersTyped, AllIdle, At
    <3>. QED
      BY <1>3, <2>1, <3>1, NoMoreMeter DEF RegisterChanges
  <2>2. CASE meter # NoMeter
    <3>1. meter' \in Meters /\ (meter'.linked <=> register' # "absent") /\ meter'.initial = meter.initial /\ meter'.total = meter.total
      BY <1>0, <1>3, <2>2 DEF RegisterChanges, Meters
    <3>. QED
      BY <1>3, <1>9, <2>2, <3>1, MeterEdited DEF RegisterChanges
  <2>. QED
    BY <2>1, <2>2
<1>4. CASE \E t \in Totals : create_compressor(t)
  <2>1. PICK t \in Totals : create_compressor(t)
    BY <1>4
  <2>2. t \in Hours
    BY MeterAssumption
  <2>. QED
    BY <2>1, <2>2, Created DEF create_compressor
<1>5. CASE \E s \in {"running", "offline"} : update_compressor_status(s)
  <2>1. PICK s \in {"running", "offline"} : update_compressor_status(s)
    BY <1>5
  <2>2. meter' \in Meters /\ meter'.linked = meter.linked /\ meter'.initial = meter.initial /\ meter'.total = meter.total
    BY <1>0, <2>1 DEF update_compressor_status, Meters
  <2>. QED
    BY <1>0, <1>9, <2>1, <2>2, MeterEdited DEF update_compressor_status
<1>. QED
  BY <1>1, <1>2, <1>3, <1>4, <1>5

Excuses == {"backdated", "overlapped", "reset", "typed", "failed"}

EntryIs(e, k) == entry' = [entry EXCEPT ![e] = k]

\* A step of an entry, with what it holds now.
LEMMA EntryTyped ==
    ASSUME MetersTyped, NEW e \in Entries, NEW k \in Handling, Equipped(k), EntryIs(e, k),
           register' = register, meter' = meter, readings' = readings, due_service' = due_service, alerts' \subseteq SERVICE_MILESTONES,
           excuses' \subseteq Excuses, entered' \in Nat, entered <= entered',
           entry[e].pc # "idle" \/ (meter # NoMeter /\ entered' # 0) \/ k.pc = "idle"
    PROVE  MetersTyped'
  BY DEF MetersTyped, Excuses, AllIdle, At, EntryIs

\* One that stores nothing.
LEMMA EntryQuiet ==
    ASSUME MetersInv, NEW e \in Entries, NEW k \in Handling, Equipped(k), EntryIs(e, k),
           register' = register, meter' = meter, readings' = readings, due_service' = due_service, alerts' \subseteq SERVICE_MILESTONES,
           excuses \subseteq excuses', excuses' \subseteq Excuses, entered' \in Nat, entered <= entered',
           k.pc \in {"idle", "readings"}, k.pc = "readings" => meter # NoMeter /\ entered' # 0 /\ k.initial = meter.initial,
           entry[e].pc \in Serving => "failed" \in excuses'
    PROVE  MetersInv'
<1>1. MetersTyped'
  BY EntryTyped DEF MetersInv
<1>2. CASE meter = NoMeter
  BY <1>1, <1>2, NoMoreMeter
<1>3. CASE meter # NoMeter
  <2>1. \A f \in Entries : entry'[f] = IF f = e THEN k ELSE entry[f]
    BY DEF MetersInv, MetersTyped, EntryIs
  <2>2. UNCHANGED <<readings, due_service>> /\ meter'.initial = meter.initial /\ meter'.total = meter.total
    OBVIOUS
  <2>. QED
    BY <1>1, <1>3, <2>1, <2>2, QuietStep
<1>. QED
  BY <1>2, <1>3

LEMMA LoadMeterKeeps ==
    ASSUME MetersInv, NEW e \in Entries, NEW date \in Dates, NEW total \in Totals, LoadMeter(e, date, total)
    PROVE  MetersInv'
<1>. DEFINE k == [NoEntry EXCEPT !.pc = "readings", !.date = date, !.total = total, !.initial = meter.initial]
<1>1. meter \in Meters /\ date \in Nat /\ total \in Hours /\ entered \in Nat
  BY MeterAssumption DEF LoadMeter, MetersInv, MetersTyped
<1>2. k \in Handling /\ Equipped(k) /\ k.pc = "readings" /\ k.initial = meter.initial
  BY <1>1 DEF NoEntry, Handling, Equipped, Underway, Meters
<1>3. entry[e].pc \notin Serving
  BY DEF LoadMeter, At, Serving
<1>4. EntryIs(e, k) /\ entered' = entered + 1 /\ meter # NoMeter
      /\ UNCHANGED <<register, meter, readings, due_service>> /\ alerts' = alerts /\ excuses' = excuses
  BY DEF LoadMeter, EntryIs
<1>5. alerts \subseteq SERVICE_MILESTONES /\ excuses \subseteq Excuses
  BY DEF MetersInv, MetersTyped, Excuses
<1>. HIDE DEF k
<1>. QED
  BY <1>1, <1>2, <1>3, <1>4, <1>5, EntryQuiet

LEMMA RaiseAlertKeeps ==
    ASSUME MetersInv, NEW e \in Entries, RaiseAlert(e)
    PROVE  MetersInv'
<1>1. entry[e].schedule.interval \in SERVICE_MILESTONES /\ entry[e].pc \notin Serving /\ alerts \subseteq SERVICE_MILESTONES
  BY DEF RaiseAlert, At, Serving, MetersInv, MetersTyped, Equipped, ServicePlans
<1>2. alerts' \subseteq SERVICE_MILESTONES /\ excuses' = excuses /\ excuses \subseteq Excuses /\ entered' = entered /\ entered \in Nat
  BY <1>1 DEF RaiseAlert, MetersInv, MetersTyped, Excuses
<1>3. EntryIs(e, NoEntry) /\ UNCHANGED <<register, meter, readings, due_service>>
  BY DEF RaiseAlert, EntryIs
<1>. QED
  BY <1>1, <1>2, <1>3, NoEntryTyped, EntryQuiet

LEMMA EntryFailsKeeps ==
    ASSUME MetersInv, NEW e \in Entries, EntryFails(e)
    PROVE  MetersInv'
<1>1. alerts' = alerts /\ alerts \subseteq SERVICE_MILESTONES /\ excuses \subseteq Excuses /\ entered' = entered /\ entered \in Nat
  BY DEF EntryFails, MetersInv, MetersTyped, Excuses
<1>2. excuses \subseteq excuses' /\ excuses' \subseteq Excuses /\ (entry[e].pc \in Serving => "failed" \in excuses')
  BY <1>1 DEF EntryFails, Excuses, Serving
<1>3. EntryIs(e, NoEntry) /\ UNCHANGED <<register, meter, readings, due_service>>
  BY DEF EntryFails, EntryIs
<1>. QED
  BY <1>1, <1>2, <1>3, NoEntryTyped, EntryQuiet

LEMMA UnchangedKeeps == MetersInv /\ UNCHANGED meter_vars => MetersInv'
<1>. SUFFICES ASSUME MetersInv, UNCHANGED meter_vars PROVE MetersInv'
  OBVIOUS
<1>. USE DEF meter_vars
<1>1. MetersTyped' /\ OneAtATime'
  BY DEF MetersInv, MetersTyped, AllIdle, At, OneAtATime, Without
<1>2. ReadingsApart' /\ StoredHolds' /\ TotalsHold'
  BY DEF MetersInv, ReadingsApart, StoredHolds, TotalsHold, TotalsCarried, Carries, NoLaterThan, Without
<1>3. FoundHolds'
  BY DEF MetersInv, FoundHolds, AddsTo, Existing, Previous, Without
<1>4. DaysHold'
  BY DEF MetersInv, DaysHold, HoursRun, HoursLoaded, UpTo, Without
<1>5. PlansHold' /\ ServiceHolds'
  BY DEF MetersInv, PlansHold, ServiceHolds, NextAt, Without
<1>. QED
  BY <1>1, <1>2, <1>3, <1>4, <1>5 DEF MetersInv

\* What the daily hours come to, and the total of the meter with them.
LEMMA DailyHours ==
    ASSUME NEW total \in Hours, NEW previous \in Hours,
           ~(total.run < previous.run \/ total.load < previous.load)
    PROVE  LET day == [run |-> total.run - previous.run, load |-> total.load - previous.load]
               valid == ensure_valid_daily_hours(day, previous)
           IN  /\ valid.run \in Nat /\ valid.load \in Nat /\ valid.load <= valid.run
               /\ [run |-> total.run, load |-> valid.total] \in Hours
               /\ total.run = previous.run + valid.run /\ valid.total = previous.load + valid.load
  BY DEF ensure_valid_daily_hours, Hours

LEMMA LoadReadingsKeeps ==
    ASSUME MetersInv, NEW e \in Entries, LoadReadings(e)
    PROVE  MetersInv'
<1>. DEFINE me == entry[e]
<1>1. me \in Handling /\ me.pc = "readings" /\ me.date \in Dates /\ me.total \in Hours /\ me.initial \in Hours
  BY DEF LoadReadings, At, MetersInv, MetersTyped, Handling, Equipped
<1>2. PICK previous \in IF Previous(me.date) = {} THEN {me.initial} ELSE {r.total : r \in Previous(me.date)},
           id \in IF Existing(me.date) = {} THEN {0} ELSE {r.id : r \in Existing(me.date)} :
           EntryIs(e,
            IF me.total.run < previous.run \/ me.total.load < previous.load THEN NoEntry
            ELSE LET day == [run |-> me.total.run - previous.run, load |-> me.total.load - previous.load]
                     valid == ensure_valid_daily_hours(day, previous)
                     total == [run |-> me.total.run, load |-> valid.total]
                 IN  [me EXCEPT !.pc = "store", !.total = total,
                                !.reading = [id |-> id, date |-> me.date, total |-> total,
                                             run |-> valid.run, load |-> valid.load]])
  BY DEF LoadReadings, EntryIs
<1>3. /\ UNCHANGED <<register, meter, readings, due_service, alerts, excuses, entered>>
      /\ alerts \subseteq SERVICE_MILESTONES /\ excuses \subseteq Excuses /\ entered \in Nat
      /\ entry[e].pc \notin Serving /\ readings \subseteq Readings
  BY <1>1 DEF LoadReadings, MetersInv, MetersTyped, Excuses, Serving
<1>4. previous \in Hours /\ id \in Nat
  BY <1>1, <1>2, <1>3 DEF Previous, Existing, Readings
<1>5. CASE me.total.run < previous.run \/ me.total.load < previous.load
  <2>1. EntryIs(e, NoEntry)
    BY <1>2, <1>5
  <2>. QED
    BY <1>3, <2>1, NoEntryTyped, EntryQuiet
<1>6. CASE ~(me.total.run < previous.run \/ me.total.load < previous.load)
  <2>. DEFINE day == [run |-> me.total.run - previous.run, load |-> me.total.load - previous.load]
              valid == ensure_valid_daily_hours(day, previous)
              total == [run |-> me.total.run, load |-> valid.total]
              mine == [id |-> id, date |-> me.date, total |-> total, run |-> valid.run, load |-> valid.load]
              k == [me EXCEPT !.pc = "store", !.total = total, !.reading = mine]
  <2>1. /\ valid.run \in Nat /\ valid.load \in Nat /\ valid.load <= valid.run /\ total \in Hours
        /\ me.total.run = previous.run + valid.run /\ valid.total = previous.load + valid.load
    BY <1>1, <1>4, <1>6, DailyHours
  <2>2. EntryIs(e, k)
    BY <1>2, <1>6
  <2>. HIDE DEF valid
  <2>3. mine \in Readings /\ mine.load <= mine.run /\ mine.date = me.date /\ mine.total = total /\ mine.id = id
    BY <1>1, <1>4, <2>1 DEF Readings
  <2>4. total = Plus(previous, mine)
    BY <2>1 DEF Plus
  <2>. HIDE DEF total
  <2>5. k \in Handling /\ Equipped(k)
    <3>. HIDE DEF mine
    <3>. QED
      BY <1>1, <2>1, <2>3 DEF Handling, Equipped, Underway
  <2>6. k.pc = "store" /\ k.reading = mine /\ k.total = total /\ k.date = me.date
    BY <1>1 DEF Handling
  <2>. HIDE DEF k, mine
  <2>7. MetersTyped'
    BY <1>1, <1>3, <2>2, <2>5, EntryTyped DEF MetersInv
  <2>8. \A f \in Entries : entry'[f] = IF f = e THEN k ELSE entry[f]
    BY <2>2 DEF EntryIs, MetersInv, MetersTyped
  <2>9. \A S : Without(S)' <=> Without(S)
    BY <1>3 DEF Without
  <2>10. OneAtATime'
    BY <2>6, <2>8, <2>9 DEF MetersInv, OneAtATime, Stored
  <2>11. ReadingsApart'
    BY <1>3, <2>9 DEF MetersInv, ReadingsApart
  <2>12. \/ mine.id = 0 /\ Existing(mine.date) = {}
         \/ \E r \in Existing(mine.date) : r.id = mine.id
    BY <1>2, <2>3
  <2>13. Without({"reset"}) => AddsTo(mine)
    BY <1>1, <1>2, <2>3, <2>4 DEF MetersInv, FoundHolds, AddsTo
  <2>14. FoundHolds'
    <3>1. \A d : Existing(d)' = Existing(d) /\ Previous(d)' = Previous(d)
      BY <1>3 DEF Existing, Previous
    <3>2. \A r : AddsTo(r)' <=> AddsTo(r)
      BY <1>3, <3>1 DEF AddsTo
    <3>. QED
      BY <1>3, <2>3, <2>6, <2>8, <2>9, <2>12, <2>13, <3>1, <3>2 DEF MetersInv, FoundHolds
  <2>15. DaysHold'
    BY <1>3, <2>9 DEF MetersInv, DaysHold, HoursRun, HoursLoaded, UpTo
  <2>16. StoredHolds' /\ TotalsHold'
    BY <1>1, <1>3, <2>6, <2>8, <2>9 DEF MetersInv, StoredHolds, TotalsHold, TotalsCarried, Carries, NoLaterThan
  <2>17. PlansHold' /\ ServiceHolds'
    BY <1>1, <1>3, <2>6, <2>8, <2>9 DEF MetersInv, PlansHold, ServiceHolds, NextAt, Serving
  <2>. QED
    BY <2>7, <2>10, <2>11, <2>14, <2>15, <2>16, <2>17 DEF MetersInv
<1>. QED
  BY <1>5, <1>6

\* Finitely many readings have a latest one.
LEMMA LatestReading ==
    ASSUME NEW S, IsFiniteSet(S), S # {}, \A r \in S : r.date \in Nat
    PROVE  \E r \in S : \A s \in S : s.date <= r.date
<1>. DEFINE wrong == {T \in SUBSET S : T # {} /\ ~\E r \in T : \A s \in T : s.date <= r.date}
<1>. SUFFICES ASSUME wrong # {} PROVE FALSE
  OBVIOUS
<1>1. PICK U \in wrong : \A V \in wrong : ~(V \subseteq U /\ V # U)
  <2>1. wrong \in SUBSET SUBSET S
    OBVIOUS
  <2>. HIDE DEF wrong
  <2>. QED
    BY <2>1, SmallestSubset
<1>2. PICK x \in U : TRUE
  OBVIOUS
<1>3. CASE U = {x}
  BY <1>3
<1>4. CASE U # {x}
  <2>1. U \ {x} # {} /\ U \ {x} \subseteq U /\ U \ {x} # U /\ U \ {x} \in SUBSET S
    BY <1>2, <1>4
  <2>2. PICK r \in U \ {x} : \A s \in U \ {x} : s.date <= r.date
    BY <1>1, <2>1
  <2>3. x.date \in Nat /\ r.date \in Nat /\ \A s \in U : s.date \in Nat
    BY <1>2, <2>2
  <2>4. CASE x.date <= r.date
    BY <2>2, <2>4
  <2>5. CASE r.date <= x.date
    <3>1. \A s \in U : s.date <= x.date
      BY <2>2, <2>3, <2>5
    <3>. QED
      BY <1>2, <3>1
  <2>. QED
    BY <2>3, <2>4, <2>5
<1>. QED
  BY <1>3, <1>4

\* The greatest of the days is the day of a reading with none after it.
LEMMA GreatestDate ==
    ASSUME MetersInv
    PROVE  /\ readings # {} => LET d == Max({r.date : r \in readings}) IN d \in Nat /\ NoLaterThan(d)
           /\ \A r \in readings : NoLaterThan(r.date) => Max({s.date : s \in readings}) = r.date
<1>. DEFINE D == {r.date : r \in readings}
<1>1. IsFiniteSet(readings) /\ \A r \in readings : r.date \in Nat
  BY MeterAssumption DEF MetersInv, MetersTyped, Readings
<1>2. D \subseteq Nat
  BY <1>1
<1>3. ASSUME NEW r \in readings, NoLaterThan(r.date) PROVE Max(D) = r.date
  <2>1. r.date \in D /\ \A y \in D : r.date >= y
    BY <1>1, <1>3 DEF NoLaterThan
  <2>2. Max(D) \in D /\ \A y \in D : Max(D) >= y
    BY <2>1 DEF Max
  <2>3. Max(D) >= r.date /\ r.date >= Max(D) /\ Max(D) \in Nat /\ r.date \in Nat
    BY <1>2, <2>1, <2>2
  <2>. HIDE DEF D
  <2>. QED
    BY <2>3
<1>4. ASSUME readings # {} PROVE Max(D) \in Nat /\ NoLaterThan(Max(D))
  <2>1. PICK r \in readings : NoLaterThan(r.date)
    BY <1>1, <1>4, LatestReading DEF NoLaterThan
  <2>. QED
    BY <1>1, <1>3, <2>1
<1>. QED
  BY <1>3, <1>4

LEMMA ReadLatestKeeps ==
    ASSUME MetersInv, NEW e \in Entries, ReadLatest(e)
    PROVE  MetersInv'
<1>. DEFINE latest == readings # {} /\ Max({r.date : r \in readings}) = entry[e].date
            k == [entry[e] EXCEPT !.pc = IF latest THEN "carry" ELSE "service"]
<1>1. /\ entry[e] \in Handling /\ Equipped(entry[e]) /\ entry[e].pc = "latest"
      /\ UNCHANGED <<register, meter, readings, due_service, alerts, excuses, entered>>
      /\ alerts \subseteq SERVICE_MILESTONES /\ excuses \subseteq Excuses /\ entered \in Nat
  BY DEF ReadLatest, At, MetersInv, MetersTyped, Excuses
<1>2. EntryIs(e, k)
  BY DEF ReadLatest, EntryIs, MetersInv, MetersTyped
<1>3. k \in Handling /\ Equipped(k) /\ k.pc = (IF latest THEN "carry" ELSE "service")
      /\ k.date = entry[e].date /\ k.total = entry[e].total
  <2>. HIDE DEF latest
  <2>. QED
    BY <1>1 DEF Handling, Equipped, Underway
<1>4. latest => NoLaterThan(entry[e].date)
  BY GreatestDate
<1>5. Without({"overlapped"}) /\ NoLaterThan(entry[e].date) => latest
  <2>. SUFFICES ASSUME Without({"overlapped"}), NoLaterThan(entry[e].date) PROVE latest
    OBVIOUS
  <2>1. PICK r \in readings : r.date = entry[e].date
    BY <1>1 DEF MetersInv, StoredHolds
  <2>. QED
    BY <2>1, GreatestDate
<1>. HIDE DEF latest, k
<1>6. MetersTyped'
  BY <1>1, <1>2, <1>3, EntryTyped DEF MetersInv
<1>7. \A f \in Entries : entry'[f] = IF f = e THEN k ELSE entry[f]
  BY <1>2 DEF EntryIs, MetersInv, MetersTyped
<1>8. \A S : Without(S)' <=> Without(S)
  BY <1>1 DEF Without
<1>9. OneAtATime'
  BY <1>1, <1>3, <1>7, <1>8 DEF MetersInv, OneAtATime, Stored
<1>10. ReadingsApart'
  BY <1>1, <1>8 DEF MetersInv, ReadingsApart
<1>11. FoundHolds'
  BY <1>1, <1>3, <1>7, <1>8 DEF MetersInv, FoundHolds, AddsTo, Existing, Previous
<1>12. DaysHold'
  BY <1>1, <1>8 DEF MetersInv, DaysHold, HoursRun, HoursLoaded, UpTo
<1>13. StoredHolds'
  BY <1>1, <1>3, <1>4, <1>7, <1>8 DEF MetersInv, StoredHolds, NoLaterThan
<1>14. \A S : "overlapped" \in S /\ Without(S) => Without({"overlapped"})
  BY DEF Without
<1>15. TotalsHold'
  <2>. SUFFICES ASSUME Without({"overlapped", "failed", "typed"}), readings # {}
                PROVE  TotalsCarried' \/ \E f \in Entries : Carries(entry[f])'
    BY <1>1, <1>8 DEF TotalsHold
  <2>1. TotalsCarried \/ \E f \in Entries : Carries(entry[f])
    BY DEF MetersInv, TotalsHold
  <2>2. CASE TotalsCarried
    BY <1>1, <2>2 DEF TotalsCarried, NoLaterThan
  <2>3. ASSUME NEW f \in Entries, Carries(entry[f]) PROVE \E g \in Entries : Carries(entry[g])'
    <3>1. CASE f = e
      <4>1. latest
        BY <1>1, <1>5, <1>14, <2>3, <3>1 DEF Carries
      <4>. QED
        BY <1>3, <1>7, <4>1 DEF Carries
    <3>2. CASE f # e
      BY <1>1, <1>7, <2>3, <3>2 DEF Carries, NoLaterThan
    <3>. QED
      BY <3>1, <3>2
  <2>. QED
    BY <2>1, <2>2, <2>3
<1>16. PlansHold'
  BY <1>1, <1>3, <1>7, <1>8 DEF MetersInv, PlansHold
<1>17. ServiceHolds'
  <2>. SUFFICES ASSUME Without({"overlapped", "failed", "typed", "backdated"}) PROVE ServiceHolds'
    BY <1>8 DEF ServiceHolds
  <2>1. latest
    BY <1>1, <1>5, <1>14 DEF MetersInv, StoredHolds, Without
  <2>. QED
    BY <1>1, <1>3, <1>7, <2>1 DEF MetersInv, ServiceHolds, NextAt, Serving
<1>. QED
  BY <1>6, <1>9, <1>10, <1>11, <1>12, <1>13, <1>15, <1>16, <1>17 DEF MetersInv

LEMMA CarryTotalsKeeps ==
    ASSUME MetersInv, NEW e \in Entries, CarryTotals(e)
    PROVE  MetersInv'
<1>. DEFINE k == [entry[e] EXCEPT !.pc = "service"]
<1>1. /\ entry[e] \in Handling /\ Equipped(entry[e]) /\ entry[e].pc = "carry" /\ entry[e].total \in Hours
      /\ UNCHANGED <<register, readings, due_service, alerts, entered>>
      /\ excuses' = excuses \ {"failed", "typed"}
      /\ meter' = (IF meter = NoMeter THEN NoMeter ELSE [meter EXCEPT !.total = entry[e].total])
  BY DEF CarryTotals, At, MetersInv, MetersTyped, Handling
<1>2. entry' = [entry EXCEPT ![e] = k]
  BY DEF CarryTotals, MetersInv, MetersTyped
<1>3. k \in Handling /\ Equipped(k) /\ k.pc = "service" /\ k.total = entry[e].total
  BY <1>1 DEF Handling, Equipped, Underway
<1>. HIDE DEF k
<1>4. meter # NoMeter => meter' \in Meters /\ meter' # NoMeter /\ meter'.linked = meter.linked
                         /\ meter'.initial = meter.initial /\ meter'.total = entry[e].total
  BY <1>1, MeterAssumption DEF MetersInv, MetersTyped, Meters
<1>5. MetersTyped'
  BY <1>1, <1>2, <1>3, <1>4 DEF MetersInv, MetersTyped, AllIdle, At
<1>6. CASE meter = NoMeter
  BY <1>1, <1>5, <1>6, NoMoreMeter
<1>7. CASE meter # NoMeter
  <2>. USE <1>1, <1>3, <1>4, <1>7
  <2>1. \A f \in Entries : entry'[f] = IF f = e THEN k ELSE entry[f]
    BY <1>2 DEF MetersInv, MetersTyped
  <2>2. \A S : S \cap {"failed", "typed"} = {} => (Without(S)' <=> Without(S))
    BY DEF Without
  <2>3. Without({"overlapped", "failed", "typed"})' => Without({"overlapped"})
    BY DEF Without
  <2>4. Without({"overlapped", "failed", "typed", "backdated"})' => Without({"overlapped"})
    BY DEF Without
  <2>5. OneAtATime'
    BY <2>1, <2>2 DEF MetersInv, OneAtATime, Stored
  <2>6. ReadingsApart'
    BY <2>2 DEF MetersInv, ReadingsApart
  <2>7. FoundHolds'
    BY <2>1, <2>2 DEF MetersInv, FoundHolds, AddsTo, Existing, Previous
  <2>8. DaysHold'
    BY <2>2 DEF MetersInv, DaysHold, HoursRun, HoursLoaded, UpTo
  <2>9. StoredHolds'
    BY <2>1, <2>2 DEF MetersInv, StoredHolds, NoLaterThan
  <2>10. TotalsHold'
    <3>. SUFFICES ASSUME Without({"overlapped"}) PROVE TotalsCarried'
      BY <2>3 DEF TotalsHold
    <3>1. PICK r \in readings : r.date = entry[e].date /\ r.total = entry[e].total /\ NoLaterThan(r.date)
      BY DEF MetersInv, StoredHolds
    <3>. QED
      BY <3>1 DEF TotalsCarried, NoLaterThan
  <2>11. PlansHold'
    BY <2>1, <2>2 DEF MetersInv, PlansHold
  <2>12. ServiceHolds'
    <3>1. Without({"overlapped"}) => \A f \in Entries : entry'[f].pc \in {"service", "schedule"} => f = e
      BY <2>1 DEF MetersInv, OneAtATime, Stored
    <3>. QED
      BY <2>1, <2>4, <3>1 DEF ServiceHolds, Serving
  <2>. QED
    BY <1>5, <2>5, <2>6, <2>7, <2>8, <2>9, <2>10, <2>11, <2>12 DEF MetersInv
<1>. QED
  BY <1>6, <1>7

LEMMA NextIsOne ==
    ASSUME NEW hours \in Nat, generate_service_intervals(hours) # {}
    PROVE  /\ NextService(hours) \in SERVICE_MILESTONES /\ NextService(hours) \in Nat /\ NextService(hours) > hours
           /\ NextService(hours) \in generate_service_intervals(hours)
<1>1. generate_service_intervals(hours) \in SUBSET Nat
  BY MeterAssumption DEF generate_service_intervals
<1>2. NextService(hours) \in generate_service_intervals(hours)
  BY <1>1, MinIn DEF NextService
<1>. QED
  BY <1>1, <1>2, MeterAssumption DEF generate_service_intervals

LEMMA UrgencyTyped == ASSUME NEW n PROVE StoredUrgency(n) \in Urgencies
  BY DEF StoredUrgency, ByDays, Urgencies

LEMMA LookUpScheduleKeeps ==
    ASSUME MetersInv, NEW e \in Entries, LookUpSchedule(e)
    PROVE  MetersInv'
<1>. DEFINE hours == entry[e].total.run
            plan == [interval |-> NextService(hours), urgency |-> StoredUrgency(NextService(hours) - hours),
                     found |-> \E s \in due_service : s.interval = NextService(hours)]
            over == meter = NoMeter \/ generate_service_intervals(hours) = {}
            k == IF over THEN NoEntry ELSE [entry[e] EXCEPT !.pc = "schedule", !.schedule = plan]
<1>1. /\ entry[e] \in Handling /\ Equipped(entry[e]) /\ entry[e].pc = "service" /\ hours \in Nat
      /\ UNCHANGED <<register, meter, readings, due_service, alerts, excuses, entered>>
      /\ alerts \subseteq SERVICE_MILESTONES /\ excuses \subseteq Excuses /\ entered \in Nat
  BY DEF LookUpSchedule, At, MetersInv, MetersTyped, Excuses, Handling, Hours
<1>2. entry' = [entry EXCEPT ![e] = k]
  BY DEF LookUpSchedule, MetersInv, MetersTyped
<1>3. ~over => plan \in ServicePlans
  BY <1>1, NextIsOne, UrgencyTyped DEF ServicePlans
<1>4. k \in Handling /\ Equipped(k)
  <2>1. CASE over
    BY <2>1, NoEntryTyped
  <2>2. CASE ~over
    <3>. HIDE DEF plan, over
    <3>. QED
      BY <1>1, <1>3, <2>2 DEF Handling, Equipped, Underway
  <2>. QED
    BY <2>1, <2>2
<1>5. k.pc = (IF over THEN "idle" ELSE "schedule") /\ (~over => k.schedule = plan /\ k.total = entry[e].total)
  <2>. HIDE DEF plan, over
  <2>. QED
    BY <1>1, NoEntryTyped DEF Handling
<1>. HIDE DEF k
<1>6. MetersTyped'
  <2>1. EntryIs(e, k) /\ MetersTyped /\ entered <= entered'
    BY <1>1, <1>2 DEF EntryIs, MetersInv
  <2>. QED
    BY <1>1, <1>4, <2>1, EntryTyped
<1>7. \A f \in Entries : entry'[f] = IF f = e THEN k ELSE entry[f]
  BY <1>2 DEF MetersInv, MetersTyped
<1>8. CASE meter = NoMeter
  BY <1>1, <1>6, <1>8, NoMoreMeter
<1>9. CASE meter # NoMeter
  <2>0. /\ over <=> generate_service_intervals(hours) = {}
        /\ plan.interval = NextService(hours) /\ plan.urgency = StoredUrgency(plan.interval - hours)
        /\ plan.found <=> \E s \in due_service : s.interval = plan.interval
    BY <1>9
  <2>. HIDE DEF over, plan
  <2>1. \A S : Without(S)' <=> Without(S)
    BY <1>1 DEF Without
  <2>. USE <1>1, <1>5, <1>7, <1>9, <2>1
  <2>2. OneAtATime'
    BY DEF MetersInv, OneAtATime, Stored
  <2>3. ReadingsApart'
    BY DEF MetersInv, ReadingsApart
  <2>4. FoundHolds'
    BY DEF MetersInv, FoundHolds, AddsTo, Existing, Previous
  <2>5. DaysHold'
    BY DEF MetersInv, DaysHold, HoursRun, HoursLoaded, UpTo
  <2>6. StoredHolds'
    BY DEF MetersInv, StoredHolds, NoLaterThan
  <2>7. TotalsHold'
    BY DEF MetersInv, TotalsHold, TotalsCarried, Carries, NoLaterThan
  <2>8. PlansHold'
    BY <2>0 DEF MetersInv, PlansHold
  <2>9. ServiceHolds'
    <3>. SUFFICES ASSUME Without({"overlapped", "failed", "typed", "backdated"}) PROVE ServiceHolds'
      BY DEF ServiceHolds
    <3>1. entry[e].total = meter.total
      BY DEF MetersInv, ServiceHolds
    <3>2. CASE over
      <4>1. NextAt(meter.total.run)'
        BY <2>0, <3>1, <3>2 DEF NextAt
      <4>. QED
        BY <3>2, <4>1 DEF MetersInv, ServiceHolds
    <3>3. CASE ~over
      BY <3>1, <3>3 DEF MetersInv, ServiceHolds, Serving
    <3>. QED
      BY <3>2, <3>3
  <2>. QED
    BY <1>6, <2>2, <2>3, <2>4, <2>5, <2>6, <2>7, <2>8, <2>9 DEF MetersInv
<1>. QED
  BY <1>8, <1>9

LEMMA StoreScheduleKeeps ==
    ASSUME MetersInv, NEW e \in Entries, StoreSchedule(e)
    PROVE  MetersInv'
<1>. DEFINE new == entry[e].schedule
            k == IF Rank(new.urgency) <= 1 THEN [entry[e] EXCEPT !.pc = "alert"] ELSE NoEntry
            row == [interval |-> new.interval, urgency |-> new.urgency, by |-> e]
            DueRows == [interval : SERVICE_MILESTONES, urgency : Urgencies, by : Entries]
<1>1. /\ entry[e] \in Handling /\ Equipped(entry[e]) /\ entry[e].pc = "schedule" /\ new \in ServicePlans
      /\ UNCHANGED <<register, meter, readings, alerts, excuses, entered>>
      /\ alerts \subseteq SERVICE_MILESTONES /\ excuses \subseteq Excuses /\ entered \in Nat
      /\ due_service \subseteq DueRows
  BY DEF StoreSchedule, At, MetersInv, MetersTyped, Excuses, Equipped
<1>2. entry' = [entry EXCEPT ![e] = k]
  BY DEF StoreSchedule, MetersInv, MetersTyped
<1>3. k \in Handling /\ Equipped(k) /\ k.pc \in {"idle", "alert"}
  <2>1. [entry[e] EXCEPT !.pc = "alert"] \in Handling /\ Equipped([entry[e] EXCEPT !.pc = "alert"])
    BY <1>1 DEF Handling, Equipped, Underway
  <2>. QED
    BY <1>1, <2>1, NoEntryTyped DEF Handling
<1>4. due_service' = IF new.found
                     THEN {IF s.interval = new.interval THEN [s EXCEPT !.urgency = new.urgency] ELSE s : s \in due_service}
                     ELSE due_service \cup {row}
  BY DEF StoreSchedule
<1>5. \A s \in due_service : /\ [s EXCEPT !.urgency = new.urgency] \in DueRows
                             /\ [s EXCEPT !.urgency = new.urgency].interval = s.interval
                             /\ [s EXCEPT !.urgency = new.urgency].urgency = new.urgency
  BY <1>1 DEF ServicePlans
<1>6. row \in DueRows /\ row.interval = new.interval /\ row.urgency = new.urgency
  BY <1>1 DEF ServicePlans
<1>. HIDE DEF k, row
<1>7. due_service' \subseteq DueRows
  BY <1>1, <1>4, <1>5, <1>6
<1>8. MetersTyped'
  BY <1>1, <1>2, <1>3, <1>7 DEF MetersInv, MetersTyped, AllIdle, At
<1>9. \A f \in Entries : entry'[f] = IF f = e THEN k ELSE entry[f]
  BY <1>2 DEF MetersInv, MetersTyped
<1>10. CASE meter = NoMeter
  BY <1>1, <1>8, <1>10, NoMoreMeter
<1>11. CASE meter # NoMeter
  <2>1. \A S : Without(S)' <=> Without(S)
    BY <1>1 DEF Without
  <2>. USE <1>1, <1>3, <1>9, <1>11, <2>1
  <2>2. OneAtATime'
    BY DEF MetersInv, OneAtATime, Stored
  <2>3. ReadingsApart'
    BY DEF MetersInv, ReadingsApart
  <2>4. FoundHolds'
    BY DEF MetersInv, FoundHolds, AddsTo, Existing, Previous
  <2>5. DaysHold'
    BY DEF MetersInv, DaysHold, HoursRun, HoursLoaded, UpTo
  <2>6. StoredHolds'
    BY DEF MetersInv, StoredHolds, NoLaterThan
  <2>7. TotalsHold'
    BY DEF MetersInv, TotalsHold, TotalsCarried, Carries, NoLaterThan
  <2>8. ASSUME Without({"overlapped"})
        PROVE  /\ \A s, t \in due_service' : s.interval = t.interval => s = t
               /\ \E s \in due_service' : s.interval = new.interval /\ s.urgency = new.urgency
               /\ \A f \in Entries : entry'[f].pc # "schedule"
    <3>1. \A s, t \in due_service : s.interval = t.interval => s = t
      BY <2>8 DEF MetersInv, PlansHold
    <3>2. new.found <=> \E s \in due_service : s.interval = new.interval
      BY <2>8 DEF MetersInv, PlansHold
    <3>3. \A f \in Entries : entry'[f].pc # "schedule"
      BY <2>8 DEF MetersInv, OneAtATime, Stored
    <3>4. CASE new.found
      <4>. DEFINE At2(s) == IF s.interval = new.interval THEN [s EXCEPT !.urgency = new.urgency] ELSE s
      <4>1. due_service' = {At2(s) : s \in due_service}
        BY <1>4, <3>4
      <4>2. \A s \in due_service : At2(s).interval = s.interval
                                   /\ (s.interval = new.interval => At2(s).urgency = new.urgency)
        BY <1>5
      <4>. HIDE DEF At2
      <4>3. \A s, t \in due_service' : s.interval = t.interval => s = t
        BY <3>1, <4>1, <4>2
      <4>4. \E s \in due_service' : s.interval = new.interval /\ s.urgency = new.urgency
        BY <3>2, <3>4, <4>1, <4>2
      <4>. QED
        BY <3>3, <4>3, <4>4
    <3>5. CASE ~new.found
      BY <1>4, <1>6, <3>1, <3>2, <3>3, <3>5
    <3>. QED
      BY <3>4, <3>5
  <2>9. PlansHold'
    BY <2>8 DEF PlansHold
  <2>10. ServiceHolds'
    <3>. SUFFICES ASSUME Without({"overlapped", "failed", "typed", "backdated"}) PROVE ServiceHolds'
      BY DEF ServiceHolds
    <3>1. Without({"overlapped"})
      BY DEF Without
    <3>2. entry[e].total = meter.total
      BY DEF MetersInv, ServiceHolds
    <3>3. new.interval = NextService(meter.total.run) /\ new.urgency = StoredUrgency(new.interval - meter.total.run)
      BY <3>1, <3>2 DEF MetersInv, PlansHold
    <3>4. Rank(new.urgency) <= Rank(new.urgency)
      BY DEF ServicePlans, Urgencies, Rank
    <3>5. NextAt(meter.total.run)'
      <4>1. PICK s \in due_service' : s.interval = new.interval /\ s.urgency = new.urgency
        BY <2>8, <3>1
      <4>. QED
        BY <3>3, <3>4, <4>1 DEF NextAt
    <3>. QED
      BY <3>5 DEF MetersInv, ServiceHolds
  <2>. QED
    BY <1>8, <2>2, <2>3, <2>4, <2>5, <2>6, <2>7, <2>9, <2>10 DEF MetersInv
<1>. QED
  BY <1>10, <1>11

\* The hours of one reading more.
LEMMA HoursPlus ==
    ASSUME NEW S, IsFiniteSet(S), S \subseteq Readings, NEW x \in Readings, x \notin S
    PROVE  /\ HoursRun(S) \in Int /\ HoursRun(S \cup {x}) = HoursRun(S) + x.run
           /\ HoursLoaded(S) \in Int /\ HoursLoaded(S \cup {x}) = HoursLoaded(S) + x.load
<1>. DEFINE U == S \cup {x}
<1>1. IsFiniteSet(U) /\ x \in U /\ U \ {x} = S /\ U \subseteq Readings
  BY FS_AddElement
<1>. HIDE DEF U
<1>2. ASSUME NEW f, \A r \in U : f[r] \in Int,
             NEW g, NEW h, g = [r \in U |-> f[r]], h = [r \in S |-> f[r]]
      PROVE  SumOf(h) \in Int /\ SumOf(g) = SumOf(h) + f[x]
  <2>1. SumOf(g) = SumOver(g, U) /\ SumOf(h) = SumOver(h, S)
    <3>1. DOMAIN g = U /\ DOMAIN h = S
      BY <1>2
    <3>. QED
      BY <3>1 DEF SumOf, SumOver
  <2>2. SumOver(g, U) = g[x] + SumOver(g, S)
    BY <1>1, <1>2, SumOverTakeOut
  <2>3. SumOver(g, S) = SumOver(h, S)
    <3>1. \A r \in S : g[r] = h[r]
      BY <1>1, <1>2
    <3>. QED
      BY <3>1, SumOverSame
  <2>4. SumOver(h, S) \in Int
    BY <1>1, <1>2, SumOverType
  <2>. QED
    BY <1>1, <1>2, <2>1, <2>2, <2>3, <2>4
<1>3. HoursRun(S) \in Int /\ HoursRun(U) = HoursRun(S) + x.run
  <2>. DEFINE f == [r \in U |-> r.run]
  <2>1. \A r \in U : f[r] \in Int /\ f[r] = r.run
    BY <1>1 DEF Readings
  <2>2. [r \in U |-> r.run] = [r \in U |-> f[r]] /\ [r \in S |-> r.run] = [r \in S |-> f[r]]
    BY <1>1
  <2>3. SumOf([r \in S |-> f[r]]) \in Int /\ SumOf([r \in U |-> f[r]]) = SumOf([r \in S |-> f[r]]) + f[x]
    <3>. HIDE DEF f
    <3>. QED
      BY <1>2, <2>1
  <2>. QED
    BY <1>1, <2>1, <2>2, <2>3 DEF HoursRun
<1>4. HoursLoaded(S) \in Int /\ HoursLoaded(U) = HoursLoaded(S) + x.load
  <2>. DEFINE f == [r \in U |-> r.load]
  <2>1. \A r \in U : f[r] \in Int /\ f[r] = r.load
    BY <1>1 DEF Readings
  <2>2. [r \in U |-> r.load] = [r \in U |-> f[r]] /\ [r \in S |-> r.load] = [r \in S |-> f[r]]
    BY <1>1
  <2>3. SumOf([r \in S |-> f[r]]) \in Int /\ SumOf([r \in U |-> f[r]]) = SumOf([r \in S |-> f[r]]) + f[x]
    <3>. HIDE DEF f
    <3>. QED
      BY <1>2, <2>1
  <2>. QED
    BY <1>1, <2>1, <2>2, <2>3 DEF HoursLoaded
<1>. QED
  BY <1>3, <1>4 DEF U

LEMMA NoHours == HoursRun({}) = 0 /\ HoursLoaded({}) = 0
<1>. DEFINE f == [r \in {} |-> r.run]
            g == [r \in {} |-> r.load]
<1>1. DOMAIN f = {} /\ DOMAIN g = {}
  OBVIOUS
<1>2. SumOf(f) = SumOver(f, {}) /\ SumOf(g) = SumOver(g, {})
  BY <1>1 DEF SumOf, SumOver
<1>. QED
  BY <1>2, SumOverNone DEF HoursRun, HoursLoaded

\* The reading an entry stores, with the id it gets.
ReadingKept(e) ==
    IF entry[e].reading.id = 0 THEN [entry[e].reading EXCEPT !.id = entered + Cardinality(readings)] ELSE entry[e].reading
Others(e) == readings \ Existing(entry[e].reading.date)

\* Nobody else under way: the reading takes the place of the one of its day, if there is one.
LEMMA TakesItsPlace ==
    ASSUME MetersInv, NEW e \in Entries, StoreReading(e), Without({"overlapped"})
    PROVE  /\ ReadingKept(e) \in Readings /\ ReadingKept(e).date = entry[e].reading.date /\ ReadingKept(e).total = entry[e].reading.total
           /\ ReadingKept(e).run = entry[e].reading.run /\ ReadingKept(e).load = entry[e].reading.load
           /\ Others(e) \subseteq readings /\ IsFiniteSet(Others(e)) /\ ReadingKept(e) \notin Others(e)
           /\ readings' = Others(e) \cup {ReadingKept(e)}
           /\ 0 < ReadingKept(e).id /\ ReadingKept(e).id < entered + Cardinality(readings')
           /\ Cardinality(readings) <= Cardinality(readings') /\ Cardinality(readings') \in Nat
           /\ \A r \in Others(e) : r.date # ReadingKept(e).date /\ r.id # ReadingKept(e).id
<1>. DEFINE mine == entry[e].reading
            new == [mine EXCEPT !.id = entered + Cardinality(readings)]
<1>1. /\ mine \in Readings /\ entered \in Nat /\ entered > 0 /\ IsFiniteSet(readings) /\ Cardinality(readings) \in Nat
      /\ readings \subseteq Readings
  BY FS_CardinalityType DEF StoreReading, MetersInv, MetersTyped, Equipped, AllIdle, At
<1>2. readings' = IF mine.id = 0 THEN readings \cup {new} ELSE {IF r.id = mine.id THEN mine ELSE r : r \in readings}
  BY DEF StoreReading
<1>3. \/ mine.id = 0 /\ Existing(mine.date) = {}
      \/ \E r \in Existing(mine.date) : r.id = mine.id
  BY DEF StoreReading, At, MetersInv, FoundHolds
<1>4. \A r \in readings : /\ 0 < r.id /\ r.id < entered + Cardinality(readings) /\ r.id \in Nat
                          /\ \A s \in readings : r.id = s.id \/ r.date = s.date => r = s
  BY <1>1 DEF MetersInv, ReadingsApart, Readings
<1>5. CASE mine.id = 0
  <2>1. Existing(mine.date) = {}
    BY <1>3, <1>4, <1>5 DEF Existing
  <2>2. Others(e) = readings /\ \A r \in readings : r.date # mine.date
    BY <2>1 DEF Others, Existing
  <2>3. ReadingKept(e) = new
    BY <1>5 DEF ReadingKept
  <2>4. /\ new \in Readings /\ new.date = mine.date /\ new.total = mine.total /\ new.run = mine.run
        /\ new.load = mine.load /\ new.id = entered + Cardinality(readings)
    BY <1>1 DEF Readings
  <2>. HIDE DEF new, mine
  <2>5. readings' = readings \cup {new} /\ new \notin readings
    BY <1>2, <1>5, <2>2, <2>4
  <2>6. Cardinality(readings') = Cardinality(readings) + 1
    BY <1>1, <2>5, FS_AddElement
  <2>7. \A r \in readings : r.id # new.id
    BY <1>1, <1>4, <2>4
  <2>. QED
    BY <1>1, <2>2, <2>3, <2>4, <2>5, <2>6, <2>7 DEF mine
<1>6. CASE mine.id # 0
  <2>1. PICK old \in readings : old.id = mine.id /\ old.date = mine.date
    BY <1>3, <1>6 DEF Existing
  <2>2. Others(e) = readings \ {old}
    BY <1>4, <2>1 DEF Others, Existing
  <2>3. ReadingKept(e) = mine
    BY <1>6 DEF ReadingKept
  <2>. HIDE DEF mine
  <2>4. \A r \in readings \ {old} : r.date # mine.date /\ r.id # mine.id
    BY <1>4, <2>1
  <2>5. readings' = (readings \ {old}) \cup {mine} /\ mine \notin readings \ {old}
    <3>1. readings' = {IF r.id = mine.id THEN mine ELSE r : r \in readings}
      BY <1>2, <1>6
    <3>. QED
      BY <2>1, <2>4, <3>1
  <2>6. IsFiniteSet(readings \ {old}) /\ Cardinality(readings \ {old}) = Cardinality(readings) - 1
    BY <1>1, <2>1, FS_RemoveElement
  <2>7. Cardinality(readings') = Cardinality(readings)
    <3>1. Cardinality((readings \ {old}) \cup {mine}) = Cardinality(readings \ {old}) + 1
      BY <2>5, <2>6, FS_AddElement
    <3>. QED
      BY <1>1, <2>5, <2>6, <3>1
  <2>8. 0 < mine.id /\ mine.id < entered + Cardinality(readings)
    BY <1>4, <2>1
  <2>. QED
    BY <1>1, <2>2, <2>3, <2>4, <2>5, <2>6, <2>7, <2>8 DEF mine
<1>. QED
  BY <1>5, <1>6

\* Read in the order of its days, the meter goes on from the reading before.
LEMMA AddsUp ==
    ASSUME MetersInv, NEW e \in Entries, StoreReading(e), Without({"backdated", "overlapped", "reset"}),
           LaterThan(entry[e].reading.date) = {}
    PROVE  \A r \in readings' : r.total = [run |-> meter.initial.run + HoursRun(Until(readings', r.date)),
                                           load |-> meter.initial.load + HoursLoaded(Until(readings', r.date))]
<1>. DEFINE new == ReadingKept(e)
            before == {s \in readings : s.date < new.date}
<1>1. Without({"overlapped"}) /\ Without({"reset"}) /\ meter \in Meters
  BY DEF Without, MetersInv, MetersTyped
<1>2. /\ new \in Readings /\ new.date = entry[e].reading.date /\ new.total = entry[e].reading.total
      /\ new.run = entry[e].reading.run /\ new.load = entry[e].reading.load
      /\ Others(e) \subseteq readings /\ readings' = Others(e) \cup {new} /\ \A r \in Others(e) : r.date # new.date
  BY <1>1, TakesItsPlace
<1>3. IsFiniteSet(readings) /\ readings \subseteq Readings /\ new.date \in Nat /\ \A r \in readings : r.date \in Nat
  BY <1>2, MeterAssumption DEF MetersInv, MetersTyped, Readings
<1>4. AddsTo(entry[e].reading)
  BY <1>1 DEF StoreReading, At, MetersInv, FoundHolds
<1>5. \A r \in readings : r.date <= new.date /\ (r.date < new.date <=> r \in Others(e))
  BY <1>2, <1>3 DEF LaterThan, Others, Existing
<1>. HIDE DEF new
<1>6. ASSUME NEW r \in Others(e) PROVE Until(readings', r.date) = UpTo(r.date)
  BY <1>2, <1>3, <1>5, <1>6 DEF UpTo, Until
<1>7. Until(readings', new.date) = before \cup {new} /\ before \subseteq readings /\ IsFiniteSet(before) /\ new \notin before
  <2>1. Until(readings', new.date) = {r \in readings' : r.date <= new.date}
    BY DEF Until
  <2>2. before = Others(e)
    BY <1>2, <1>5
  <2>3. \A r \in readings' : r.date <= new.date
    BY <1>2, <1>3, <1>5
  <2>. QED
    BY <1>2, <1>3, <2>1, <2>2, <2>3, FS_Subset
<1>8. /\ HoursRun(before) \in Int /\ HoursRun(Until(readings', new.date)) = HoursRun(before) + new.run
      /\ HoursLoaded(before) \in Int /\ HoursLoaded(Until(readings', new.date)) = HoursLoaded(before) + new.load
  BY <1>2, <1>3, <1>7, HoursPlus
<1>9. /\ \A r \in readings : r.total = [run |-> meter.initial.run + HoursRun(UpTo(r.date)),
                                         load |-> meter.initial.load + HoursLoaded(UpTo(r.date))]
      /\ meter.initial.run \in Nat /\ meter.initial.load \in Nat /\ new.run \in Nat /\ new.load \in Nat
  BY <1>1, <1>2 DEF MetersInv, DaysHold, Meters, Hours, Readings
<1>10. new.total = [run |-> meter.initial.run + HoursRun(before) + new.run, load |-> meter.initial.load + HoursLoaded(before) + new.load]
  <2>1. CASE Previous(new.date) = {} /\ entry[e].reading.total = Plus(meter.initial, entry[e].reading)
    <3>1. before = {}
      <4>. SUFFICES ASSUME before # {} PROVE FALSE
        OBVIOUS
      <4>1. \E r \in before : \A s \in before : s.date <= r.date
        BY <1>3, <1>7, LatestReading
      <4>. QED
        BY <2>1, <4>1 DEF Previous
    <3>2. HoursRun(before) = 0 /\ HoursLoaded(before) = 0
      BY <3>1, NoHours
    <3>. HIDE DEF before
    <3>. QED
      BY <1>2, <1>9, <2>1, <3>2 DEF Plus
  <2>2. ASSUME NEW r \in Previous(new.date), entry[e].reading.total = Plus(r.total, entry[e].reading)
        PROVE  new.total = [run |-> meter.initial.run + HoursRun(before) + new.run,
                            load |-> meter.initial.load + HoursLoaded(before) + new.load]
    <3>1. r \in readings /\ r.date < new.date /\ \A s \in before : s.date <= r.date
      BY <2>2 DEF Previous
    <3>2. UpTo(r.date) = before
      BY <1>3, <3>1 DEF UpTo, Until
    <3>3. r.total = [run |-> meter.initial.run + HoursRun(before), load |-> meter.initial.load + HoursLoaded(before)]
      BY <1>9, <3>1, <3>2
    <3>. HIDE DEF before
    <3>. QED
      BY <1>2, <2>2, <3>3 DEF Plus
  <2>. QED
    BY <1>2, <1>4, <2>1, <2>2 DEF AddsTo
<1>. HIDE DEF before
<1>11. new.total = [run |-> meter.initial.run + HoursRun(Until(readings', new.date)), load |-> meter.initial.load + HoursLoaded(Until(readings', new.date))]
  BY <1>8, <1>9, <1>10
<1>. QED
  BY <1>2, <1>6, <1>9, <1>11

LEMMA StoreReadingKeeps ==
    ASSUME MetersInv, NEW e \in Entries, StoreReading(e)
    PROVE  MetersInv'
<1>. DEFINE mine == entry[e].reading
            k == [entry[e] EXCEPT !.pc = "latest"]
<1>1. /\ entry[e] \in Handling /\ Equipped(entry[e]) /\ entry[e].pc = "store"
      /\ mine \in Readings /\ mine.load <= mine.run /\ entered \in Nat
      /\ IsFiniteSet(readings) /\ readings \subseteq Readings /\ \A r \in readings : r.load <= r.run
      /\ UNCHANGED <<register, meter, due_service, alerts, entered>>
      /\ excuses' = excuses \cup (IF LaterThan(mine.date) # {} THEN {"backdated"} ELSE {})
                            \cup (IF Busy(e) THEN {"overlapped"} ELSE {})
  BY DEF StoreReading, At, MetersInv, MetersTyped, Equipped
<1>2. k \in Handling /\ Equipped(k) /\ k.pc = "latest" /\ k.date = entry[e].date /\ k.total = entry[e].total
  BY <1>1 DEF Handling, Equipped, Underway
<1>3. entry' = [entry EXCEPT ![e] = k]
  BY DEF StoreReading, MetersInv, MetersTyped
<1>. HIDE DEF k
<1>4. \A f \in Entries : entry'[f] = IF f = e THEN k ELSE entry[f]
  BY <1>3 DEF MetersInv, MetersTyped
<1>5. readings' \subseteq Readings /\ IsFiniteSet(readings') /\ \A r \in readings' : r.load <= r.run
  <2>. DEFINE new == [mine EXCEPT !.id = entered + Cardinality(readings)]
  <2>1. readings' = IF mine.id = 0 THEN readings \cup {new} ELSE {IF r.id = mine.id THEN mine ELSE r : r \in readings}
    BY DEF StoreReading
  <2>2. Cardinality(readings) \in Nat
    BY <1>1, FS_CardinalityType
  <2>3. new \in Readings /\ new.load <= new.run
    BY <1>1, <2>2 DEF Readings
  <2>. HIDE DEF new, mine
  <2>4. readings' \subseteq (readings \cup {new}) \cup {mine}
    BY <2>1
  <2>5. IsFiniteSet((readings \cup {new}) \cup {mine})
    BY <1>1, FS_AddElement
  <2>. QED
    BY <1>1, <2>3, <2>4, <2>5, FS_Subset
<1>6. MetersTyped'
  BY <1>1, <1>2, <1>3, <1>5 DEF MetersInv, MetersTyped, AllIdle, At
<1>7. CASE meter = NoMeter
  BY <1>1, <1>6, <1>7, NoMoreMeter
<1>8. CASE meter # NoMeter
  <2>. USE <1>1, <1>2, <1>4, <1>8
  <2>1. \A S : Without(S)' => Without(S)
    BY DEF Without
  <2>2. "overlapped" \notin excuses' => \A f \in Entries \ {e} : entry[f].pc = "idle"
    BY DEF Busy
  <2>3. "backdated" \notin excuses' => LaterThan(mine.date) = {}
    OBVIOUS
  <2>4. \A S : "overlapped" \in S /\ Without(S)' => Without({"overlapped"}) /\ "overlapped" \notin excuses'
    BY DEF Without
  <2>5. \A S : "backdated" \in S /\ Without(S)' => "backdated" \notin excuses'
    BY DEF Without
  <2>6. Without({"overlapped"}) => mine.date = entry[e].date /\ mine.total = entry[e].total
    BY DEF MetersInv, FoundHolds
  <2>. HIDE DEF mine
  <2>7. OneAtATime'
    BY <2>2, <2>4 DEF OneAtATime, Stored
  <2>8. FoundHolds'
    BY <2>1, <2>2, <2>4 DEF MetersInv, FoundHolds
  <2>9. ReadingsApart'
    <3>. SUFFICES ASSUME Without({"overlapped"}) PROVE ReadingsApart'
      BY <2>4 DEF ReadingsApart
    <3>1. /\ Others(e) \subseteq readings /\ readings' = Others(e) \cup {ReadingKept(e)}
          /\ 0 < ReadingKept(e).id /\ ReadingKept(e).id < entered + Cardinality(readings')
          /\ Cardinality(readings) <= Cardinality(readings') /\ Cardinality(readings') \in Nat
          /\ \A r \in Others(e) : r.date # ReadingKept(e).date /\ r.id # ReadingKept(e).id
      BY TakesItsPlace
    <3>2. Cardinality(readings) \in Nat /\ \A r \in readings : r.id \in Nat
      BY FS_CardinalityType DEF Readings
    <3>3. \A r \in readings : /\ 0 < r.id /\ r.id < entered + Cardinality(readings)
                              /\ \A s \in readings : r.id = s.id \/ r.date = s.date => r = s
      BY DEF MetersInv, ReadingsApart
    <3>. QED
      BY <3>1, <3>2, <3>3 DEF ReadingsApart
  <2>10. DaysHold'
    <3>. SUFFICES ASSUME Without({"backdated", "overlapped", "reset"})' PROVE DaysHold'
      BY DEF DaysHold
    <3>1. Without({"backdated", "overlapped", "reset"}) /\ LaterThan(mine.date) = {}
      BY <2>1, <2>3, <2>5
    <3>. QED
      BY <3>1, AddsUp DEF DaysHold, UpTo, mine
  <2>11. StoredHolds'
    <3>. SUFFICES ASSUME Without({"overlapped"})' PROVE StoredHolds'
      BY DEF StoredHolds
    <3>1. Without({"overlapped"}) /\ \A f \in Entries \ {e} : entry[f].pc = "idle"
      BY <2>2, <2>4
    <3>2. /\ Others(e) \subseteq readings /\ readings' = Others(e) \cup {ReadingKept(e)}
          /\ ReadingKept(e).date = entry[e].date /\ ReadingKept(e).total = entry[e].total
      BY <2>6, <3>1, TakesItsPlace DEF mine
    <3>3. "backdated" \notin excuses' => \A r \in readings' : r.date <= entry[e].date
      <4>1. ReadingKept(e).date \in Nat /\ \A r \in readings : r.date \in Nat
        BY <3>1, MeterAssumption, TakesItsPlace DEF Readings
      <4>. QED
        BY <2>3, <2>6, <3>1, <3>2, <4>1 DEF LaterThan
    <3>. QED
      BY <3>1, <3>2, <3>3 DEF StoredHolds, NoLaterThan
  <2>12. TotalsHold'
    <3>. SUFFICES ASSUME Without({"overlapped", "failed", "typed"})' PROVE TotalsHold'
      BY DEF TotalsHold
    <3>1. Without({"overlapped"}) /\ Without({"overlapped", "failed", "typed"}) /\ \A f \in Entries \ {e} : entry[f].pc = "idle"
      BY <2>1, <2>2, <2>4
    <3>2. /\ Others(e) \subseteq readings /\ readings' = Others(e) \cup {ReadingKept(e)} /\ ReadingKept(e).date = mine.date
          /\ Others(e) = readings \ Existing(mine.date) /\ ReadingKept(e) \in Readings
      BY <3>1, TakesItsPlace DEF Others, mine
    <3>3. mine.date \in Nat /\ \A r \in readings : r.date \in Nat
      BY <3>2, MeterAssumption DEF Readings
    <3>4. CASE LaterThan(mine.date) = {}
      <4>1. \A r \in readings' : r.date <= mine.date
        BY <3>2, <3>3, <3>4 DEF LaterThan
      <4>2. Carries(entry[e])'
        BY <2>6, <3>1, <4>1 DEF Carries, NoLaterThan
      <4>. QED
        BY <4>2 DEF TotalsHold
    <3>5. CASE LaterThan(mine.date) # {}
      <4>1. PICK s \in readings : s.date > mine.date
        BY <3>5 DEF LaterThan
      <4>2. PICK r \in readings : r.total = meter.total /\ NoLaterThan(r.date)
        BY <3>1, <4>1 DEF MetersInv, TotalsHold, Carries, TotalsCarried
      <4>3. r.date > mine.date
        BY <3>3, <4>1, <4>2 DEF NoLaterThan
      <4>4. r \in readings' /\ NoLaterThan(r.date)'
        BY <3>2, <3>3, <4>2, <4>3 DEF Existing, NoLaterThan
      <4>. QED
        BY <4>2, <4>4 DEF TotalsHold, TotalsCarried
    <3>. QED
      BY <3>4, <3>5
  <2>13. PlansHold'
    BY <2>1 DEF MetersInv, PlansHold
  <2>14. ServiceHolds'
    BY <2>2, <2>4 DEF ServiceHolds, Serving
  <2>. QED
    BY <1>6, <2>7, <2>8, <2>9, <2>10, <2>11, <2>12, <2>13, <2>14 DEF MetersInv
<1>. QED
  BY <1>7, <1>8

LEMMA MetersStart == MetersInit => MetersInv
<1>. SUFFICES ASSUME MetersInit PROVE MetersInv
  OBVIOUS
<1>1. /\ readings = {} /\ due_service = {} /\ meter = NoMeter /\ entered = 0
      /\ \A e \in Entries : entry[e] = NoEntry
  BY DEF MetersInit
<1>2. MetersTyped
  BY <1>1, NoEntryTyped, FS_EmptySet DEF MetersInit, MetersTyped, AllIdle, At
<1>. QED
  BY <1>1, <1>2, NoEntryTyped DEF MetersInv, OneAtATime, Stored, ReadingsApart, FoundHolds, DaysHold, StoredHolds,
       TotalsHold, PlansHold, ServiceHolds

LEMMA MetersNextKeeps == MetersInv /\ [MetersNext]_meter_vars => MetersInv'
<1>. SUFFICES ASSUME MetersInv, [MetersNext]_meter_vars PROVE MetersInv'
  OBVIOUS
<1>1. CASE \/ sync_from_register \/ delete_compressor \/ RegisterChanges
           \/ \E t \in Totals : create_compressor(t)
           \/ \E s \in {"running", "offline"} : update_compressor_status(s)
  BY <1>1, RowSteps
<1>2. CASE \/ update_compressor([name |-> "typed"])
           \/ \E t \in Totals : update_compressor([total |-> t]) \/ update_compressor([initial |-> t])
  BY <1>2, UpdateKeeps
<1>3. ASSUME NEW e \in Entries,
             \/ \E d \in Dates, t \in Totals : LoadMeter(e, d, t)
             \/ LoadReadings(e) \/ StoreReading(e) \/ ReadLatest(e) \/ CarryTotals(e)
             \/ LookUpSchedule(e) \/ StoreSchedule(e) \/ RaiseAlert(e) \/ EntryFails(e)
      PROVE  MetersInv'
  BY <1>3, LoadMeterKeeps, LoadReadingsKeeps, StoreReadingKeeps, ReadLatestKeeps, CarryTotalsKeeps,
     LookUpScheduleKeeps, StoreScheduleKeeps, RaiseAlertKeeps, EntryFailsKeeps
<1>4. CASE UNCHANGED meter_vars
  BY <1>4, UnchangedKeeps
<1>. QED
  BY <1>1, <1>2, <1>3, <1>4 DEF MetersNext

\* The list, with fractions of a day, is never more urgent than the schedule, without them; and
\* within a month is within 240 hours.
LEMMA UrgenciesAgree ==
    ASSUME NEW n \in Nat
    PROVE  /\ Rank(StoredUrgency(n)) <= Rank(get_service_urgency(n))
           /\ get_service_urgency(n) # "low" <=> n <= 240
<1>1. n \div 8 <= (n + 7) \div 8 /\ n \div 8 \in Int /\ (n + 7) \div 8 \in Int
  OBVIOUS
<1>2. (n + 7) \div 8 <= 30 <=> n <= 240
  OBVIOUS
<1>3. get_service_urgency(n) # "low" <=> (n + 7) \div 8 <= 30
  BY <1>1 DEF get_service_urgency, ByDays
<1>. DEFINE a == n \div 8
            b == (n + 7) \div 8
<1>4. a \in Int /\ b \in Int /\ a <= b
  BY <1>1
<1>5. StoredUrgency(n) = ByDays(a) /\ get_service_urgency(n) = ByDays(b)
  BY DEF StoredUrgency, get_service_urgency
<1>. HIDE DEF a, b
<1>6. Rank(ByDays(a)) = IF a <= 0 THEN 0 ELSE IF a <= 7 THEN 1 ELSE IF a <= 30 THEN 2 ELSE 3
  BY <1>4 DEF Rank, ByDays
<1>7. Rank(ByDays(b)) = IF b <= 0 THEN 0 ELSE IF b <= 7 THEN 1 ELSE IF b <= 30 THEN 2 ELSE 3
  BY <1>4 DEF Rank, ByDays
<1>. QED
  BY <1>2, <1>3, <1>4, <1>5, <1>6, <1>7

LEMMA DaysShown == MetersInv => DaysAddUp
<1>. SUFFICES ASSUME MetersInv, Without({"backdated", "overlapped", "reset"}) PROVE DaysAddUp
  BY DEF DaysAddUp
<1>1. \A r \in readings : r.date \in Nat /\ r.load <= r.run
  BY MeterAssumption DEF MetersInv, MetersTyped, Readings
<1>2. InRange(0) = readings
  BY <1>1 DEF InRange
<1>3. ASSUME NEW r \in readings
      PROVE  LET upTo == {s \in InRange(0) : s.date <= r.date}
             IN  r.total = [run |-> meter.initial.run + SumOf([s \in upTo |-> s.run]),
                            load |-> meter.initial.load + SumOf([s \in upTo |-> s.load])]
  <2>1. r.total = [run |-> meter.initial.run + HoursRun(UpTo(r.date)), load |-> meter.initial.load + HoursLoaded(UpTo(r.date))]
    BY DEF MetersInv, DaysHold
  <2>. QED
    BY <1>2, <2>1 DEF HoursRun, HoursLoaded, UpTo, Until
<1>4. ASSUME NEW shown \in get_detailed_readings(0) PROVE shown.cumulative = shown.total
  <2>1. PICK r \in readings :
            LET upTo == {s \in InRange(0) : s.date <= r.date}
            IN  shown = [date |-> r.date, total |-> r.total,
                         cumulative |-> [run |-> meter.initial.run + SumOf([s \in upTo |-> s.run]),
                                         load |-> meter.initial.load + SumOf([s \in upTo |-> s.load])]]
    BY <1>2, <1>4 DEF get_detailed_readings
  <2>. QED
    BY <1>3, <2>1
<1>. QED
  BY <1>1, <1>4 DEF DaysAddUp

LEMMA TotalsShown == MetersInv => TotalsFollowReadings
<1>. SUFFICES ASSUME MetersInv, AllIdle, readings # {}, Without({"overlapped", "failed", "typed"})
              PROVE  TotalsFollowReadings
  BY DEF TotalsFollowReadings
<1>1. PICK r \in readings : r.total = meter.total /\ NoLaterThan(r.date)
  BY DEF MetersInv, TotalsHold, TotalsCarried, Carries, AllIdle, At
<1>2. ASSUME Without({"backdated", "reset"})
      PROVE  get_performance_metrics.run = meter.total.run - meter.initial.run
  <2>1. Without({"backdated", "overlapped", "reset"})
    BY <1>2 DEF Without
  <2>2. r.total.run = meter.initial.run + HoursRun(UpTo(r.date))
    <3>1. r.total = [run |-> meter.initial.run + HoursRun(UpTo(r.date)), load |-> meter.initial.load + HoursLoaded(UpTo(r.date))]
      BY <2>1 DEF MetersInv, DaysHold
    <3>. QED
      BY <3>1
  <2>3. UpTo(r.date) = readings
    BY <1>1 DEF UpTo, Until, NoLaterThan
  <2>4. HoursRun(readings) = get_performance_metrics.run
    BY DEF HoursRun, get_performance_metrics
  <2>5. meter.initial.run \in Nat /\ HoursRun(readings) \in Int
    <3>1. meter \in Meters
      BY DEF Without, MetersInv, MetersTyped
    <3>2. IsFiniteSet(readings) /\ readings \subseteq Readings
      BY DEF MetersInv, MetersTyped
    <3>3. DOMAIN [s \in readings |-> s.run] = readings
      OBVIOUS
    <3>4. HoursRun(readings) = SumOver([s \in readings |-> s.run], readings)
      BY <3>3 DEF HoursRun, SumOf, SumOver
    <3>5. \A s \in readings : [t \in readings |-> t.run][s] \in Int
      BY <3>2 DEF Readings
    <3>6. SumOver([s \in readings |-> s.run], readings) \in Int
      BY <3>2, <3>5, SumOverType
    <3>. QED
      BY <3>1, <3>4, <3>6 DEF Meters, Hours
  <2>. QED
    BY <1>1, <2>2, <2>3, <2>4, <2>5
<1>. QED
  BY <1>1, <1>2 DEF TotalsFollowReadings, NoLaterThan

LEMMA ServiceShown == MetersInv => ServiceIsScheduled
<1>. SUFFICES ASSUME MetersInv, AllIdle, readings # {}, Without({"overlapped", "failed", "typed", "backdated"}),
                     NEW d \in get_service_due
              PROVE  /\ \E s \in due_service : s.interval = d.interval /\ Rank(s.urgency) <= Rank(d.urgency)
                     /\ Cardinality({s \in due_service : s.interval = d.interval}) = 1
                     /\ get_stats.upcoming # {} <=> d.urgency # "low"
  BY DEF ServiceIsScheduled
<1>. DEFINE hours == meter.total.run
            next == NextService(hours)
<1>1. hours \in Nat
  BY DEF Without, MetersInv, MetersTyped, Meters, Hours
<1>2. generate_service_intervals(hours) # {} /\ d = [interval |-> next, urgency |-> get_service_urgency(next - hours)]
  BY DEF get_service_due
<1>3. next \in generate_service_intervals(hours) /\ next \in Nat /\ next > hours /\ next - hours \in Nat
  BY <1>1, <1>2, NextIsOne
<1>4. NextAt(hours)
  BY DEF MetersInv, ServiceHolds, Serving, AllIdle, At
<1>5. PICK s \in due_service : s.interval = next /\ Rank(s.urgency) <= Rank(StoredUrgency(next - hours))
  BY <1>2, <1>4 DEF NextAt
<1>6. s.urgency \in Urgencies /\ d.interval = next /\ d.urgency = get_service_urgency(next - hours)
  BY <1>2 DEF MetersInv, MetersTyped
<1>7. Without({"overlapped"})
  BY DEF Without
<1>8. {t \in due_service : t.interval = d.interval} = {s}
  BY <1>5, <1>6, <1>7 DEF MetersInv, PlansHold
<1>9. get_stats.upcoming # {} <=> next - hours <= 240
  BY <1>3 DEF get_stats
<1>. HIDE DEF next, hours
<1>10. Rank(s.urgency) <= Rank(d.urgency)
  <2>1. \A u \in Urgencies : Rank(u) \in Nat
    BY DEF Rank, Urgencies
  <2>2. StoredUrgency(next - hours) \in Urgencies /\ get_service_urgency(next - hours) \in Urgencies
    BY DEF StoredUrgency, get_service_urgency, ByDays, Urgencies
  <2>3. Rank(StoredUrgency(next - hours)) <= Rank(get_service_urgency(next - hours))
    BY <1>3, UrgenciesAgree
  <2>. QED
    BY <1>5, <1>6, <2>1, <2>2, <2>3
<1>. QED
  BY <1>3, <1>5, <1>6, <1>8, <1>9, <1>10, UrgenciesAgree, FS_Singleton

\* The hours of the days add up to what the meter reads, the compressor has the totals of its
\* latest reading, and the service that is next is in the schedule once and urgent enough: for
\* every number of entries, days, totals and milestones, but for what its excuses name.
THEOREM MetersTally == MetersSpec => []MeterTallies
<1>1. MetersInv => MeterTallies
  <2>1. MetersInv => MetersTypeOK
    BY DEF MetersInv, MetersTyped, MetersTypeOK, Readings
  <2>. QED
    BY <2>1, DaysShown, TotalsShown, ServiceShown DEF MeterTallies
<1>. QED
  BY <1>1, MetersStart, MetersNextKeeps, PTL DEF MetersSpec
=============================================================================
