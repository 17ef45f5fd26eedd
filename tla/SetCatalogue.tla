---------------------------- MODULE SetCatalogue ----------------------------
(***************************************************************************)
(* The content lines of a type of tool set                                 *)
(* (src/app/routers/tools_workspace_set_types.py), numbered 1 .. N: they   *)
(* are added, moved, removed and renumbered by calls of their own, one for *)
(* each line, under the unique index on type and number.                   *)
(***************************************************************************)
EXTENDS Naturals, Sequences, FiniteSets, SequencesExt

CONSTANTS
    Lines,            \* ids of lines
    Cataloguers,      \* requests
    MaxLineCalls, MaxLineFaults   \* bounds: requests; calls that fail

VARIABLES
    line_no,          \* set_type_lines: the number of each line, 0 if there is none
    made_from,        \* the lines pieces of a set were made from
    cataloguer,       \* per request: the calls it still makes
    lines_torn,       \* history: a request failed half way, or two overlapped
    line_calls, line_faults

line_vars == <<line_no, made_from, cataloguer, lines_torn, line_calls, line_faults>>

Seated == [pc |-> "seated", todo |-> <<>>, renumber |-> FALSE]
TypeLines == {l \in Lines : line_no[l] # 0}
_type_lines == SetToSortSeq(TypeLines, LAMBDA l, m : line_no[l] < line_no[m])
Numbered(order) == [k \in DOMAIN order |-> [op |-> "update", line |-> order[k], no |-> k]]

LinesTypeOK ==
    /\ line_no \in [Lines -> Nat] /\ made_from \subseteq Lines /\ lines_torn \in BOOLEAN
    /\ \A c \in Cataloguers : cataloguer[c].pc \in {"seated", "write"} /\ cataloguer[c].renumber \in BOOLEAN

LinesInit ==
    /\ line_no = [l \in Lines |-> 0] /\ made_from = {}
    /\ cataloguer = [c \in Cataloguers |-> Seated]
    /\ lines_torn = FALSE /\ line_calls = 0 /\ line_faults = 0

-----------------------------------------------------------------------------
Asks(c, todo, renumber) ==
    /\ cataloguer[c] = Seated /\ line_calls < MaxLineCalls
    /\ line_calls' = line_calls + 1
    /\ cataloguer' = [cataloguer EXCEPT ![c] = [pc |-> "write", todo |-> todo, renumber |-> renumber]]
    /\ lines_torn' = (lines_torn \/ \E o \in Cataloguers \ {c} : cataloguer[o] # Seated)
    /\ UNCHANGED <<line_no, made_from, line_faults>>

create_set_type(c, order) ==
    /\ TypeLines = {} /\ Asks(c, [k \in DOMAIN order |-> [op |-> "insert", line |-> order[k], no |-> k]], FALSE)
add_set_type_line(c, l) ==
    line_no[l] = 0 /\ Asks(c, <<[op |-> "insert", line |-> l, no |-> Len(_type_lines) + 1]>>, TRUE)
\* The other lines in their order, with this one at its new place, each written in turn.
edit_set_type_line(c, l, n) ==
    /\ line_no[l] # 0
    /\ LET siblings == SelectSeq(_type_lines, LAMBDA m : m # l)
           position == IF n > Len(siblings) + 1 THEN Len(siblings) + 1 ELSE n
       IN  Asks(c, Numbered(InsertAt(siblings, position, l)), TRUE)
remove_set_type_line(c, l) ==
    line_no[l] # 0 /\ l \notin made_from /\ Asks(c, <<[op |-> "delete", line |-> l, no |-> 0]>>, TRUE)

-----------------------------------------------------------------------------
(* The calls.  The database refuses a number that is taken and the deletion of a *)
(* line a piece refers to; an update finds no row if the line is gone.            *)
LineRefused(call) ==
    \/ call.op # "delete" /\ \E m \in TypeLines \ {call.line} : line_no[m] = call.no
    \/ call.op = "update" /\ line_no[call.line] = 0
    \/ call.op = "delete" /\ call.line \in made_from

WriteLine(c) ==
    /\ cataloguer[c].todo # <<>>
    /\ LET call == Head(cataloguer[c].todo)
       IN  IF LineRefused(call) THEN cataloguer' = [cataloguer EXCEPT ![c] = Seated] /\ UNCHANGED line_no
           ELSE /\ line_no' = [line_no EXCEPT ![call.line] = call.no]
                /\ cataloguer' = [cataloguer EXCEPT ![c].todo = Tail(@)]
    /\ UNCHANGED <<made_from, lines_torn, line_calls, line_faults>>

\* The lines whose number is not their place.  A mutant: none.
LeaveNumbers(order) == <<>>
_renumber_type_lines(order) == SelectSeq(Numbered(order), LAMBDA call : line_no[call.line] # call.no)

Answered(c) ==
    /\ cataloguer[c].pc = "write" /\ cataloguer[c].todo = <<>>
    /\ cataloguer' = [cataloguer EXCEPT ![c] =
                         IF @.renumber THEN [@ EXCEPT !.todo = _renumber_type_lines(_type_lines), !.renumber = FALSE] ELSE Seated]
    /\ UNCHANGED <<line_no, made_from, lines_torn, line_calls, line_faults>>

LineCallFails(c) ==
    /\ cataloguer[c].pc = "write" /\ line_faults < MaxLineFaults
    /\ line_faults' = line_faults + 1 /\ lines_torn' = TRUE
    /\ cataloguer' = [cataloguer EXCEPT ![c] = Seated]
    /\ UNCHANGED <<line_no, made_from, line_calls>>

\* A set is made: from now on pieces refer to the lines there are.
PiecesMade ==
    /\ TypeLines # {} /\ made_from' = made_from \cup TypeLines
    /\ UNCHANGED <<line_no, cataloguer, lines_torn, line_calls, line_faults>>

LinesNext ==
    \/ PiecesMade
    \/ \E c \in Cataloguers :
          \/ WriteLine(c) \/ Answered(c) \/ LineCallFails(c)
          \/ create_set_type(c, SetToSeq(Lines)) \/ create_set_type(c, Tail(SetToSeq(Lines)))
          \/ \E l \in Lines : add_set_type_line(c, l) \/ remove_set_type_line(c, l) \/ \E n \in 1 .. 3 : edit_set_type_line(c, l, n)

\* "Keep a type's lines numbered 1..N in their current order": no number is used
\* twice, no line with a piece is gone, and after every request that nothing
\* interrupted and no other overlapped the numbers have no gap.
LinesAreNumbered ==
    /\ \A l, m \in TypeLines : line_no[l] = line_no[m] => l = m
    /\ made_from \subseteq TypeLines
    /\ ~lines_torn /\ (\A c \in Cataloguers : cataloguer[c] = Seated) =>
          {line_no[l] : l \in TypeLines} = 1 .. Cardinality(TypeLines)
=============================================================================
