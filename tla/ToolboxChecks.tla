---------------------------- MODULE ToolboxChecks ----------------------------
(***************************************************************************)
(* The monthly check of an issued set (src/app/routers/tools_workspace.py):*)
(* it is opened once for a set and a month and submitted with every piece  *)
(* exactly once; what is damaged, stolen or missing raises an incident     *)
(* unless one is open.  Submitting writes the items one by one, then the   *)
(* incidents, and the status last.  One set and one month.                 *)
(***************************************************************************)
EXTENDS Naturals, Sequences, FiniteSets, SequencesExt

CONSTANTS
    Contents,      \* what may be in the set
    Loose,         \* content lines; the rest are tools of the register
    Mentions,      \* <<p, q>>: the number of p occurs in the explanation of an incident of q
    FoundStates,   \* the states a checklist may record
    Checkers,      \* requests
    MaxCheckCalls, MaxCheckFaults   \* bounds: requests; calls that fail

ASSUME ContentsAssumption ==
    /\ IsFiniteSet(Contents) /\ Loose \subseteq Contents
    /\ FoundStates \subseteq {"available", "borrowed", "damaged", "stolen", "missing"}
    /\ \A p \in Contents : <<p, p>> \in Mentions

VARIABLES
    contents,      \* the pieces of the set now
    marked,        \* set_lines: what the last check said of a content line
    check,         \* toolbox_checks: "none", "open" or "submitted"
    items,         \* toolbox_check_items: how many rows of each piece
    open_cases,    \* open incidents that a check raised: how many for each piece and type
    reported,      \* open incidents that somebody reported by hand, likewise
    checker,       \* per request
    check_torn,    \* history: a submission failed half way, or two overlapped
    check_calls, check_faults

check_vars == <<contents, marked, check, items, open_cases, reported, checker, check_torn, check_calls, check_faults>>
Resting == [pc |-> "rest", list |-> <<>>, left |-> <<>>]

\* What an incident of a state is called; there is none for the rest.
Raises == [damaged |-> "damaged", stolen |-> "stolen", missing |-> "lost"]
Cases == {"damaged", "stolen", "lost"}

ChecksTypeOK ==
    /\ contents \subseteq Contents /\ check \in {"none", "open", "submitted"} /\ check_torn \in BOOLEAN
    /\ marked \in [Contents -> {"present", "damaged", "missing"}]
    /\ items \in [Contents -> Nat]
    /\ open_cases \in [Contents -> [Cases -> Nat]] /\ reported \in [Contents -> [Cases -> Nat]]
    /\ \A c \in Checkers : checker[c].pc \in {"rest", "open", "items", "cases", "done"}

ChecksInit ==
    /\ contents = Contents /\ check = "none" /\ check_torn = FALSE
    /\ marked = [p \in Contents |-> "present"] /\ items = [p \in Contents |-> 0]
    /\ open_cases = [p \in Contents |-> [t \in Cases |-> 0]] /\ reported = open_cases
    /\ checker = [c \in Checkers |-> Resting] /\ check_calls = 0 /\ check_faults = 0

Opens(c, next) ==
    /\ checker[c] = Resting /\ check_calls < MaxCheckCalls
    /\ check_calls' = check_calls + 1 /\ checker' = [checker EXCEPT ![c] = next]
Turns(c, next) == checker' = [checker EXCEPT ![c] = next] /\ UNCHANGED check_calls

-----------------------------------------------------------------------------
(* Open: the check of the month that is there, or a new one; the database has one. *)
open_toolbox_check(c) ==
    /\ check = "none" /\ Opens(c, [Resting EXCEPT !.pc = "open"])
    /\ UNCHANGED <<contents, marked, check, items, open_cases, reported, check_torn, check_faults>>
InsertHeader(c) ==
    /\ checker[c].pc = "open" /\ check' = IF check = "none" THEN "open" ELSE check
    /\ Turns(c, Resting)
    /\ UNCHANGED <<contents, marked, items, open_cases, reported, check_torn, check_faults>>

\* Content lines come and go; a line with an item of a check stays (on delete restrict).
add_content_line(p) ==
    /\ p \in Loose \ contents /\ contents' = contents \cup {p}
    /\ UNCHANGED <<marked, check, items, open_cases, reported, checker, check_torn, check_calls, check_faults>>
remove_content_line(p) ==
    /\ p \in Loose \cap contents /\ items[p] = 0 /\ contents' = contents \ {p}
    /\ UNCHANGED <<marked, check, items, open_cases, reported, checker, check_torn, check_calls, check_faults>>

-----------------------------------------------------------------------------
(* Submit. *)

\* Every piece of the set exactly once.
_validate_toolbox_items(list) ==
    /\ \A j, k \in DOMAIN list : list[j].piece = list[k].piece => j = k
    /\ {list[k].piece : k \in DOMAIN list} = contents

\* A mutant: a check submitted already is taken again.
AnyCheck == check # "none"
NotSubmitted == check = "open"

submit_toolbox_check(c, list) ==
    /\ NotSubmitted /\ _validate_toolbox_items(list)
    /\ Opens(c, [pc |-> "items", list |-> list, left |-> list])
    /\ check_torn' = (check_torn \/ \E o \in Checkers \ {c} : checker[o].pc \in {"items", "cases", "done"})
    /\ UNCHANGED <<contents, marked, check, items, open_cases, reported, check_faults>>

InsertItem(c) ==
    /\ checker[c].pc = "items"
    /\ IF checker[c].left # <<>>
       THEN /\ items' = [items EXCEPT ![Head(checker[c].left).piece] = @ + 1]
            /\ Turns(c, [checker[c] EXCEPT !.left = Tail(@)])
       ELSE Turns(c, [checker[c] EXCEPT !.pc = "cases", !.left = checker[c].list]) /\ UNCHANGED items
    /\ UNCHANGED <<contents, marked, check, open_cases, reported, check_torn, check_faults>>

\* An open incident of the type, whoever reported it, is found for a tool by its id,
\* and for a content line by the piece's number in the explanation.
OpenSame(p, type) ==
    \E q \in IF p \in Loose THEN {l \in Loose : <<p, l>> \in Mentions} ELSE {p} :
        open_cases[q][type] > 0 \/ reported[q][type] > 0

_raise_toolbox_incidents(c) ==
    /\ checker[c].pc = "cases"
    /\ IF checker[c].left = <<>>
       THEN Turns(c, [checker[c] EXCEPT !.pc = "done"]) /\ UNCHANGED <<marked, open_cases>>
       ELSE LET entry == Head(checker[c].left)
                p == entry.piece
            IN  /\ IF entry.state \in DOMAIN Raises /\ ~OpenSame(p, Raises[entry.state])
                      /\ (p \in Loose => p \in contents)
                   THEN /\ open_cases' = [open_cases EXCEPT ![p][Raises[entry.state]] = @ + 1]
                        /\ marked' = [marked EXCEPT ![p] = IF p \notin Loose THEN @
                                                           ELSE IF entry.state = "damaged" THEN "damaged" ELSE "missing"]
                   ELSE UNCHANGED <<marked, open_cases>>
                /\ Turns(c, [checker[c] EXCEPT !.left = Tail(@)])
    /\ UNCHANGED <<contents, check, items, reported, check_torn, check_faults>>

MarkSubmitted(c) ==
    /\ checker[c].pc = "done" /\ check' = "submitted" /\ Turns(c, Resting)
    /\ UNCHANGED <<contents, marked, items, open_cases, reported, check_torn, check_faults>>

CheckCallFails(c) ==
    /\ checker[c] # Resting /\ check_faults < MaxCheckFaults
    /\ check_faults' = check_faults + 1 /\ Turns(c, Resting)
    /\ check_torn' = (check_torn \/ checker[c].pc # "open")
    /\ UNCHANGED <<contents, marked, check, items, open_cases, reported>>

\* Somebody reports an incident of a tool, or one of the whole set that names a line:
\* it is stored, whatever is open already.
ReportIncident(p, type) ==
    /\ check_calls < MaxCheckCalls /\ check_calls' = check_calls + 1
    /\ reported' = [reported EXCEPT ![p][type] = @ + 1]
    /\ UNCHANGED <<contents, marked, check, items, open_cases, checker, check_torn, check_faults>>

\* The incident is closed by whoever investigated it.
CloseCase(p, type) ==
    /\ \/ /\ open_cases[p][type] > 0 /\ open_cases' = [open_cases EXCEPT ![p][type] = @ - 1]
          /\ UNCHANGED reported
       \/ /\ reported[p][type] > 0 /\ reported' = [reported EXCEPT ![p][type] = @ - 1]
          /\ UNCHANGED open_cases
    /\ UNCHANGED <<contents, marked, check, items, checker, check_torn, check_calls, check_faults>>

Checklists == UNION {{[k \in DOMAIN order |-> [piece |-> order[k], state |-> found[order[k]]]] :
                         found \in [contents -> FoundStates]} : order \in {SetToSeq(contents)}}
ChecksNext ==
    \/ \E p \in Contents : add_content_line(p) \/ remove_content_line(p)
    \/ \E p \in Contents, type \in Cases : ReportIncident(p, type) \/ CloseCase(p, type)
    \/ \E c \in Checkers :
          \/ open_toolbox_check(c) \/ InsertHeader(c) \/ InsertItem(c) \/ _raise_toolbox_incidents(c)
          \/ MarkSubmitted(c) \/ CheckCallFails(c)
          \/ \E list \in Checklists : submit_toolbox_check(c, list)

-----------------------------------------------------------------------------
\* "Every member tool and content line exactly once ... follow-up incidents (deduped
\* against open ones)": a check whose submission nothing cut short or overlapped has
\* no piece twice, none at all when it was never submitted, and raises no incident of a
\* piece beside one of its type that a check raised and is open.  A report by hand looks
\* for none, so a piece may have more than one open all the same.
CheckedOnce ==
    ~check_torn =>
        /\ \A p \in Contents : items[p] <= 1 /\ \A type \in Cases : open_cases[p][type] <= 1
        /\ check # "submitted" /\ (\A c \in Checkers : checker[c] = Resting) => \A p \in Contents : items[p] = 0
        /\ check = "submitted" => \E p \in Contents : items[p] = 1
=============================================================================
