---------------------------- MODULE StockLevels ----------------------------
(***************************************************************************)
(* Stock issues and the quantities they move (src/app/routers/issues.py,   *)
(* src/app/stock_levels.py and the quantity column of                      *)
(* src/app/routers/spares.py).  Creating, editing or deleting an issue     *)
(* first writes its row and then adjusts one spare after another, each     *)
(* with a read and an UPDATE that is conditional on what was read.         *)
(* Issued quantities are in half units, quantities on hand in whole ones.  *)
(* Each stock code has one row; a form without items moves no stock and is *)
(* left out.                                                               *)
(***************************************************************************)
EXTENDS Integers, FiniteSets, FiniteSetsExt

CONSTANTS
    StockRequests,  \* requests that may run at once
    StockCodes,     \* stock codes of the register; one row each
    IssueIds,       \* ids stock_issues may give out
    ItemLists,      \* the items of a form: half units per code
    Counts,         \* quantities a stock count may enter
    Attempts,       \* ATTEMPTS of _apply
    NoIssue,        \* no row
    MaxIssueCalls,  \* bound: requests on issues in all
    MaxCounts,      \* bound: changes of the spares register
    MaxLost         \* bound: calls that fail

ASSUME StockAssumption ==
    /\ IsFiniteSet(StockRequests) /\ IsFiniteSet(IssueIds)
    /\ ItemLists \subseteq [StockCodes -> Nat] /\ Counts \subseteq Nat
    /\ Attempts \in Nat \ {0} /\ NoIssue \notin ItemLists
ASSUME StockBoundAssumption ==
    MaxIssueCalls \in Nat /\ MaxCounts \in Nat /\ MaxLost \in Nat

VARIABLES
    quantity,   \* spares.current_quantity per code, or Missing
    issues,     \* per id: the items of the row, or NoIssue
    issueIds,   \* ids given out
    call,       \* per request: what it is about to do
    baseline,   \* history, per code: twice the stock there would be had nothing
                \* been issued, as of the last count
    drift,      \* history, per code: adjustments by a fraction since then
    upset,      \* history: codes whose stock is off until they are counted
    issueCalls, counted, lost

stock_vars == <<quantity, issues, issueIds, call, baseline, drift, upset,
                issueCalls, counted, lost>>

Missing == -1
NoChange == [code \in StockCodes |-> 0]
Free == [step |-> "idle"]
Changes == [StockCodes -> Int]
Tries == 0 .. Attempts - 1
Calls ==
    {Free}
    \cup [step : {"update"}, id : IssueIds, before : ItemLists, items : ItemLists]
    \cup [step : {"delete"}, id : IssueIds, before : ItemLists]
    \cup [step : {"adjust"}, todo : Changes]
    \cup [step : {"read"}, code : StockCodes, todo : Changes, tries : Tries]
    \cup [step : {"write"}, code : StockCodes, todo : Changes, tries : Tries, read : Nat]

StockTypeOK ==
    /\ quantity \in [StockCodes -> Nat \cup {Missing}]
    /\ issues \in [IssueIds -> ItemLists \cup {NoIssue}]
    /\ {i \in IssueIds : issues[i] # NoIssue} \subseteq issueIds
    /\ issueIds \subseteq IssueIds
    /\ call \in [StockRequests -> Calls]
    /\ drift \in [StockCodes -> Nat] /\ upset \subseteq StockCodes
    /\ issueCalls \in 0 .. MaxIssueCalls /\ counted \in 0 .. MaxCounts /\ lost \in 0 .. MaxLost

StockInit ==
    /\ quantity \in [StockCodes -> Counts]
    /\ issues = [i \in IssueIds |-> NoIssue]
    /\ issueIds = {}
    /\ call = [c \in StockRequests |-> Free]
    /\ baseline = [code \in StockCodes |-> 2 * quantity[code]]
    /\ drift = NoChange /\ upset = {}
    /\ issueCalls = 0 /\ counted = 0 /\ lost = 0

-----------------------------------------------------------------------------
Items(row) == IF row = NoIssue THEN NoChange ELSE row

\* What the live issues hold of a code, and what requests have yet to move.
Total(f) == MapThenSumSet(LAMBDA x : f[x], DOMAIN f)
Issued(code) == Total([i \in IssueIds |-> Items(issues[i])[code]])
Todo(c) == IF "todo" \in DOMAIN call[c] THEN call[c].todo ELSE NoChange
ToMove(code) == Total([c \in StockRequests |-> Todo(c)[code]])

\* Python's round of n halves: to the nearest, a tie to the even neighbour.
Round(n) == IF n % 4 = 3 THEN (n + 1) \div 2 ELSE n \div 2

AtLeastZero(n) == IF n < 0 THEN 0 ELSE n

Become(c, next) == call' = [call EXCEPT ![c] = next]

\* The row is written; what moves is `todo`, negative for stock taken.
Adjusting(c, todo) ==
    Become(c, [step |-> "adjust", todo |-> todo])

\* History: these codes are off from now on.
Upsets(codes) == upset' = upset \cup codes
Touched(items) == {code \in StockCodes : items[code] # 0}
Differing(a, b) == {code \in StockCodes : Items(a)[code] # Items(b)[code]}

StartsCall(c) ==
    /\ call[c] = Free
    /\ issueCalls < MaxIssueCalls
    /\ issueCalls' = issueCalls + 1
    /\ UNCHANGED <<quantity, baseline, drift, counted, lost>>

Continues(c, step) ==
    /\ call[c].step = step
    /\ UNCHANGED <<baseline, issueCalls, counted>>

-----------------------------------------------------------------------------
(* issues.py: the row *)

_create_issue(c, items) ==
    /\ StartsCall(c)
    /\ \E i \in IssueIds \ issueIds :
          /\ issues' = [issues EXCEPT ![i] = items]
          /\ issueIds' = issueIds \cup {i}
    /\ Adjusting(c, [code \in StockCodes |-> -items[code]])
    /\ UNCHANGED upset

\* Reads the row; the difference to the form is taken of this row.  A form
\* opened with an older row may be refused here (assert_unchanged).
_update_issue(c, i, items) ==
    /\ StartsCall(c)
    /\ issues[i] # NoIssue
    /\ Become(c, [step |-> "update", id |-> i, before |-> issues[i], items |-> items])
    /\ UNCHANGED <<issues, issueIds, upset>>

\* An UPDATE by id alone; a row deleted meanwhile is a 404.  History: a row
\* changed meanwhile leaves the difference wrong.
UpdateIssueRow(c) ==
    LET i == call[c].id  before == call[c].before  items == call[c].items IN
    /\ Continues(c, "update")
    /\ IF issues[i] = NoIssue
       THEN Become(c, Free) /\ UNCHANGED <<issues, upset>>
       ELSE /\ issues' = [issues EXCEPT ![i] = items]
            /\ Adjusting(c, [code \in StockCodes |-> before[code] - items[code]])
            /\ Upsets(Differing(before, issues[i]))
    /\ UNCHANGED <<quantity, issueIds, drift, lost>>

_delete_issue(c, i) ==
    /\ StartsCall(c)
    /\ issues[i] # NoIssue
    /\ Become(c, [step |-> "delete", id |-> i, before |-> issues[i]])
    /\ UNCHANGED <<issues, issueIds, upset>>

\* The stock of the row read is put back, whether or not the row is still there.
DeleteIssueRow(c) ==
    LET i == call[c].id  before == call[c].before IN
    /\ Continues(c, "delete")
    /\ issues' = [issues EXCEPT ![i] = NoIssue]
    /\ Adjusting(c, before)
    /\ Upsets(Differing(before, issues[i]))
    /\ UNCHANGED <<quantity, issueIds, drift, lost>>

-----------------------------------------------------------------------------
(* stock_levels.py: adjust_stock and _apply *)

\* What is left to take comes before what is left to put back.
NextCodes(todo) ==
    LET takes == {code \in StockCodes : todo[code] < 0} IN
    IF takes # {} THEN takes ELSE Touched(todo)

\* The next code, or the answer when there is none.
AdjustNext(c) ==
    /\ Continues(c, "adjust")
    /\ IF Touched(call[c].todo) = {} THEN Become(c, Free)
       ELSE \E code \in NextCodes(call[c].todo) :
              Become(c, [step |-> "read", code |-> code, todo |-> call[c].todo, tries |-> 0])
    /\ UNCHANGED <<quantity, issues, issueIds, drift, upset, lost>>

\* This code is done with, changed or not.
NextCode(c) == Adjusting(c, [call[c].todo EXCEPT ![call[c].code] = 0])

ReadSpare(c) ==
    /\ Continues(c, "read")
    /\ IF quantity[call[c].code] = Missing
       THEN NextCode(c) /\ Upsets({call[c].code})
       ELSE Become(c, [step |-> "write", read |-> quantity[call[c].code], code |-> call[c].code,
                       todo |-> call[c].todo, tries |-> call[c].tries]) /\ UNCHANGED upset
    /\ UNCHANGED <<quantity, issues, issueIds, drift, lost>>

\* A mutant: the UPDATE is by id alone.
StillAsAnything(c) == quantity[call[c].code] # Missing

\* The condition of the UPDATE: the quantity is the one that was read.
StillAsRead(c) == quantity[call[c].code] = call[c].read

\* The UPDATE changes the row: never below zero, and to a whole number.
ApplyChange(c) ==
    LET code == call[c].code
        change == call[c].todo[code]
        wanted == 2 * call[c].read + change
    IN
    /\ Continues(c, "write")
    /\ StillAsRead(c)
    /\ quantity' = [quantity EXCEPT ![code] = AtLeastZero(Round(wanted))]
    /\ drift' = [drift EXCEPT ![code] = @ + (change % 2)]
    /\ Upsets(IF wanted < 0 THEN {code} ELSE {})
    /\ NextCode(c)
    /\ UNCHANGED <<issues, issueIds, lost>>

\* It matches nothing: the quantity is read again, for so many times.
ApplyAgain(c) ==
    /\ Continues(c, "write")
    /\ ~StillAsRead(c)
    /\ IF call[c].tries + 1 < Attempts
       THEN /\ Become(c, [step |-> "read", code |-> call[c].code, todo |-> call[c].todo,
                          tries |-> call[c].tries + 1])
            /\ UNCHANGED upset
       ELSE NextCode(c) /\ Upsets({call[c].code})
    /\ UNCHANGED <<quantity, issues, issueIds, drift, lost>>

\* A call fails: a row that is not written ends the request, a spare that is
\* not adjusted is reported and the next one is taken.
StockCallFails(c) ==
    /\ call[c] # Free
    /\ lost < MaxLost
    /\ lost' = lost + 1
    /\ IF call[c].step \in {"read", "write"} THEN NextCode(c) /\ Upsets({call[c].code})
       ELSE call[c].step # "adjust" /\ Become(c, Free) /\ UNCHANGED upset
    /\ UNCHANGED <<quantity, issues, issueIds, baseline, drift, issueCalls, counted>>

\* The process dies: what it had yet to move stays where it is.
StockCrash(c) ==
    /\ call[c] # Free
    /\ lost < MaxLost
    /\ lost' = lost + 1
    /\ Become(c, Free)
    /\ Upsets(Touched(Todo(c)))
    /\ UNCHANGED <<quantity, issues, issueIds, baseline, drift, issueCalls, counted>>

-----------------------------------------------------------------------------
(* spares.py: the quantity as people enter it *)

CountsNow ==
    /\ counted < MaxCounts
    /\ counted' = counted + 1
    /\ UNCHANGED <<issues, issueIds, call, issueCalls, lost>>

\* update_spare, create_spare or an upserting import.  History: a new
\* baseline, and a good one unless a request has yet to move some of the code.
EnterQuantity(code, n) ==
    /\ CountsNow
    /\ quantity' = [quantity EXCEPT ![code] = n]
    /\ baseline' = [baseline EXCEPT ![code] = 2 * n + Issued(code)]
    /\ drift' = [drift EXCEPT ![code] = 0]
    /\ upset' = IF \E c \in StockRequests : code \in Touched(Todo(c))
                THEN upset \cup {code} ELSE upset \ {code}

delete_spare(code) ==
    /\ CountsNow
    /\ quantity[code] # Missing
    /\ quantity' = [quantity EXCEPT ![code] = Missing]
    /\ Upsets({code})
    /\ UNCHANGED <<baseline, drift>>

-----------------------------------------------------------------------------
StockNext ==
    \/ \E c \in StockRequests :
          \/ \E items \in ItemLists : _create_issue(c, items)
          \/ \E i \in IssueIds, items \in ItemLists : _update_issue(c, i, items)
          \/ \E i \in IssueIds : _delete_issue(c, i)
          \/ UpdateIssueRow(c) \/ DeleteIssueRow(c)
          \/ AdjustNext(c) \/ ReadSpare(c) \/ ApplyChange(c) \/ ApplyAgain(c)
          \/ StockCallFails(c) \/ StockCrash(c)
    \/ \E code \in StockCodes, n \in Counts : EnterQuantity(code, n)
    \/ \E code \in StockCodes : delete_spare(code)

StockSpec == StockInit /\ [][StockNext]_stock_vars

-----------------------------------------------------------------------------
\* "Two people issuing the same part at once do not overwrite each other",
\* "deleting an issue puts the quantity back; editing adjusts by the
\* difference": what is on hand, what the live issues hold and what requests
\* have yet to move always add up to the last count, but for half a unit per
\* fractional adjustment.  A shortfall, a failed or abandoned adjustment, a
\* missing spare, a count taken while stock moved and two requests that edit one
\* issue at once put a code out until it is counted again.
StockAddsUp ==
    \A code \in StockCodes \ upset :
        LET gap == 2 * quantity[code] + ToMove(code) - (baseline[code] - Issued(code))
        IN gap <= drift[code] /\ -gap <= drift[code]
=============================================================================
