------------------------------ MODULE ToolSets ------------------------------
(***************************************************************************)
(* The physical sets made from a set type                                  *)
(* (src/app/routers/tools_workspace_set_types.py): making a set with a     *)
(* piece for each line of its type, issuing sets to several people in one  *)
(* request, receiving a set piece by piece.  The head is a row of the tool *)
(* register, written under its version; the pieces are rows of their own,  *)
(* written without one.  The register's own handlers (tools_workspace.py) move the  *)
(* head as they move any tool, and undo and redo put a recorded head back: *)
(* neither looks at a piece.  One type, in one department.                 *)
(***************************************************************************)
EXTENDS Naturals, Sequences, FiniteSets, SequencesExt

CONSTANTS
    PieceLines,    \* the lines of the type, a piece for each: a sequence
    Sets,          \* register numbers of sets, as they are given out: a bound on the sets made
    Names, Who(_), \* how a request may name an employee, by id or by number, and whom it names
    Approved,      \* the employees approved for the type
    Queues,        \* the sequences of names a request may send
    Counters,      \* requests
    RequestKeys,   \* idempotency keys
    NoSet, NoPiece, Nobody,
    MaxSetCalls, MaxSetFaults   \* bounds: requests; calls that fail

ASSUME SetNumberAssumption == IsFiniteSet(Sets) /\ Sets = 1 .. Cardinality(Sets)
ASSUME QueueAssumption == IsFiniteSet(Names) /\ Queues \subseteq Seq(Names)
ASSUME LinesAssumption == PieceLines \in Seq({PieceLines[l] : l \in DOMAIN PieceLines})

VARIABLES
    active,     \* set_types.active
    heads,      \* tools_workspace_equipment: the head of each set
    set_trail,  \* tools_workspace_changes: what the head was and became, and whether it is undone
    pieces,     \* tools_workspace_set_lines: the state of each piece of each set
    stored,     \* tools_workspace_idempotency: the keys with an answer
    handed,     \* history: how many sets each person got under each key
    defaults,   \* whether the deployed set_lines fills created_by in: the migrations do not
    counter,    \* per request
    cut_short,  \* history: the keys of requests that ended without an answer, or overlapped one
    set_calls, set_faults

set_vars == <<active, heads, set_trail, pieces, stored, handed, defaults, counter, cut_short, set_calls, set_faults>>
quiet == <<active, defaults, set_calls>>

Employees == {Who(n) : n \in Names}
SetRows == [status : {"available", "issued", "attention"}, version : Nat, holder : Employees \cup {Nobody}]
ASSUME SetRowsAssumption == NoSet \notin SetRows
Closed == [pc |-> "closed"]
In_use == {s \in Sets : heads[s] # NoSet}
Unfit(found) == \E l \in DOMAIN found : found[l] \in {"damaged", "missing"}

SetsTypeOK ==
    /\ \A s \in In_use : heads[s] \in SetRows
    /\ pieces \in [Sets -> [DOMAIN PieceLines -> {"fit", "damaged", "missing", NoPiece}]]
    /\ stored \subseteq RequestKeys /\ cut_short \subseteq RequestKeys
    /\ \A c \in Counters : counter[c].pc \in {"closed", "make", "fill", "pick", "issue", "answer", "look", "return", "write", "move"}
    /\ \A ch \in set_trail : ch.set \in In_use /\ {ch.before, ch.after} \subseteq SetRows

SetsInit(made, parts) ==
    /\ active = TRUE /\ defaults \in BOOLEAN
    /\ heads = made /\ set_trail = {} /\ pieces = parts
    /\ stored = {} /\ cut_short = {} /\ handed = [k \in RequestKeys |-> [e \in Employees |-> 0]]
    /\ counter = [c \in Counters |-> Closed]
    /\ set_calls = 0 /\ set_faults = 0

-----------------------------------------------------------------------------
(* The steps of a request.  History: the others under way have not seen what this *)
(* one writes.                                                                     *)
Goes_on(c, next) ==
    counter' = [o \in Counters |-> IF o = c THEN next
                                   ELSE IF counter[o] = Closed THEN Closed ELSE [counter[o] EXCEPT !.crossed = TRUE]]
SetCall(c, begun) ==
    /\ counter[c] = Closed /\ set_calls < MaxSetCalls
    /\ set_calls' = set_calls + 1
    /\ counter' = [counter EXCEPT ![c] = begun]
    /\ UNCHANGED <<active, heads, set_trail, pieces, stored, handed, defaults, set_faults>>
Overlaps(key) == {key} \cap {counter[c].key : c \in {c \in Counters : counter[c].pc \in {"make", "fill", "pick", "issue", "answer"}}}

\* One call of tools_workspace_apply_change on a head: refused if the version moved on,
\* recorded with the head as it was and as it is.
Change(s, before, after) == [set |-> s, before |-> before, after |-> after, undone |-> FALSE]
Stands(s, version) == heads[s].version = version
Saved(s, changes) ==
    /\ heads' = [heads EXCEPT ![s] = [f \in DOMAIN @ |-> IF f = "version" THEN @[f] + 1
                                                        ELSE IF f \in DOMAIN changes THEN changes[f] ELSE @[f]]]
    /\ set_trail' = set_trail \cup {Change(s, heads[s], heads'[s])}

\* The request stops where it is: its own call failed, or the process ended.
Breaks(c) ==
    /\ Goes_on(c, Closed)
    /\ cut_short' = cut_short \cup (IF "key" \in DOMAIN counter[c] THEN {counter[c].key} ELSE {})

-----------------------------------------------------------------------------
(* Making sets, in store or on the way to somebody. *)
\* A request that makes sets in store hands them to nobody: an empty queue.
make_sets_in_store(c, k, count) ==
    SetCall(c, [pc |-> "make", key |-> k, todo |-> <<>>, seen |-> {}, count |-> count, crossed |-> FALSE])
    /\ UNCHANGED cut_short

\* The set it goes on with, and what is left to fill in.
WithSet(at, pc, s, version, left) ==
    [pc |-> pc, key |-> at.key, todo |-> at.todo, seen |-> at.seen, count |-> at.count, crossed |-> at.crossed,
     set |-> s, version |-> version, left |-> left]

\* The next number of the sequence, and the head under it.
_make_physical_set(c) ==
    /\ counter[c].pc = "make"
    /\ \E s \in Sets : s = Cardinality(In_use) + 1
        /\ heads' = [heads EXCEPT ![s] = [status |-> "available", version |-> 1, holder |-> Nobody]]
        /\ set_trail' = set_trail \cup {Change(s, heads'[s], heads'[s])}
        /\ Goes_on(c, WithSet(counter[c], "fill", s, 1, PieceLines))
    /\ UNCHANGED <<quiet, pieces, stored, handed, cut_short, set_faults>>

\* A piece for each line in turn, without created_by.
InsertPiece(c) ==
    /\ counter[c].pc = "fill" /\ counter[c].left # <<>>
    /\ LET l == Len(PieceLines) - Len(counter[c].left) + 1
       IN  IF defaults
           THEN /\ pieces' = [pieces EXCEPT ![counter[c].set][l] = "fit"]
                /\ Goes_on(c, [counter[c] EXCEPT !.left = Tail(@)]) /\ UNCHANGED cut_short
           ELSE Breaks(c) /\ UNCHANGED pieces
    /\ UNCHANGED <<quiet, heads, set_trail, stored, handed, set_faults>>

SetMade(c) ==
    /\ counter[c].pc = "fill" /\ counter[c].left = <<>>
    /\ counter' = [counter EXCEPT ![c] =
          IF @.todo # <<>> THEN [@ EXCEPT !.pc = "issue"]
          ELSE IF @.count > 1 THEN [pc |-> "make", key |-> @.key, todo |-> <<>>, seen |-> {}, count |-> @.count - 1, crossed |-> @.crossed]
          ELSE Closed]
    /\ UNCHANGED <<quiet, heads, set_trail, pieces, stored, handed, cut_short, set_faults>>

\* A content line added by hand: the one insert that fills created_by in.
add_set_line(c, s, l) ==
    /\ s \in In_use /\ pieces[s][l] = NoPiece /\ counter[c] = Closed /\ set_calls < MaxSetCalls
    /\ pieces' = [pieces EXCEPT ![s][l] = "fit"]
    /\ set_calls' = set_calls + 1
    /\ Goes_on(c, [pc |-> "write", set |-> s, version |-> heads[s].version, changes |-> <<>>, crossed |-> FALSE])
    /\ UNCHANGED <<active, heads, set_trail, stored, handed, defaults, cut_short, set_faults>>

-----------------------------------------------------------------------------
(* Issuing sets to several people, one after the other. *)

\* A key with an answer is answered again and nothing is done.
_idem_result(key) == key \notin stored
issue_sets_to_people(c, queue, key) ==
    /\ active /\ _idem_result(key)
    /\ SetCall(c, [pc |-> "pick", key |-> key, todo |-> queue, seen |-> {}, count |-> 0, crossed |-> FALSE])
    /\ cut_short' = cut_short \cup Overlaps(key)

_free_store_set == {s \in In_use : heads[s].holder = Nobody /\ heads[s].status = "available"}

\* What is left of the queue, and what is to be done about it.
Queued(at, pc, todo) ==
    [pc |-> pc, key |-> at.key, todo |-> todo, seen |-> at.seen, count |-> 0, crossed |-> at.crossed]

\* The next person: an entry sent before is skipped; the first free set, or a new one.
NextPerson(c) ==
    /\ counter[c].pc = "pick"
    /\ LET at == counter[c]
           s == CHOOSE s \in _free_store_set : \A o \in _free_store_set : s <= o
       IN  counter' = [counter EXCEPT ![c] =
               IF at.todo = <<>> THEN Queued(at, "answer", at.todo)
               ELSE IF Head(at.todo) \in at.seen THEN Queued(at, "pick", Tail(at.todo))
               ELSE IF _free_store_set = {} THEN Queued(at, "make", at.todo)
               ELSE WithSet(Queued(at, "pick", at.todo), "issue", s, heads[s].version, <<>>)]
    /\ UNCHANGED <<quiet, heads, set_trail, pieces, stored, handed, cut_short, set_faults>>

\* The person is approved, and the head is still as it was read; otherwise the answer
\* names the refusal and the next one is served.  A condition noted for a piece is
\* written first, whatever becomes of the loan.
_issue_one_set(c, noted) ==
    /\ counter[c].pc = "issue"
    /\ LET at == counter[c]
           e == Who(Head(at.todo))
       IN  /\ IF e \in Approved /\ Stands(at.set, at.version)
              THEN Saved(at.set, [status |-> "issued", holder |-> e]) /\ handed' = [handed EXCEPT ![at.key][e] = @ + 1]
              ELSE UNCHANGED <<heads, set_trail, handed>>
           /\ noted # {} => e \in Approved
           /\ pieces' = [pieces EXCEPT ![at.set] = [l \in DOMAIN @ |-> IF l \in noted /\ @[l] # NoPiece THEN "damaged" ELSE @[l]]]
           /\ Goes_on(c, [pc |-> "pick", key |-> at.key, todo |-> Tail(at.todo), seen |-> at.seen \cup {Head(at.todo)},
                          count |-> 0, crossed |-> at.crossed])
    /\ UNCHANGED <<quiet, stored, cut_short, set_faults>>

_idem_store(c) ==
    /\ counter[c].pc = "answer"
    /\ stored' = stored \cup {counter[c].key}
    /\ counter' = [counter EXCEPT ![c] = Closed]
    /\ UNCHANGED <<quiet, heads, set_trail, pieces, handed, cut_short, set_faults>>

-----------------------------------------------------------------------------
(* Receiving a set and editing its pieces. *)

\* The pieces first, one by one (no other call looks at some of them only), ...
return_set(c, s, found) ==
    /\ s \in In_use /\ heads[s].holder # Nobody /\ counter[c] = Closed /\ set_calls < MaxSetCalls
    /\ set_calls' = set_calls + 1
    /\ pieces' = [pieces EXCEPT ![s] = [l \in DOMAIN @ |-> IF @[l] = NoPiece THEN NoPiece ELSE IF l \in found THEN "missing" ELSE "fit"]]
    /\ Goes_on(c, [pc |-> "look", set |-> s, version |-> heads[s].version, crossed |-> FALSE])
    /\ UNCHANGED <<active, heads, set_trail, stored, handed, defaults, cut_short, set_faults>>

\* ... then they are read again, and the head is put away or held for attention.
\* A mutant: the head is available whatever came back.
PutAway(now) == "available"
StatusOf(now) == IF Unfit(now) THEN "attention" ELSE "available"
LookAtPieces(c) ==
    /\ counter[c].pc = "look"
    /\ counter' = [counter EXCEPT ![c] = [pc |-> "return", set |-> @.set, version |-> @.version,
                      changes |-> [status |-> StatusOf(pieces[@.set]), holder |-> Nobody], crossed |-> FALSE]]
    /\ UNCHANGED <<quiet, heads, set_trail, pieces, stored, handed, cut_short, set_faults>>

WriteHead(c) ==
    /\ counter[c].pc \in {"return", "write", "move"}
    /\ LET at == counter[c]
       IN  IF Stands(at.set, at.version) THEN Saved(at.set, at.changes) /\ Goes_on(c, Closed)
           ELSE UNCHANGED <<heads, set_trail>> /\ counter' = [counter EXCEPT ![c] = Closed]
    /\ UNCHANGED <<quiet, pieces, stored, handed, cut_short, set_faults>>

\* A piece is edited whatever the head says; the head only gets a line of history.
edit_piece(c, s, l, state) ==
    /\ s \in In_use /\ pieces[s][l] # NoPiece /\ counter[c] = Closed /\ set_calls < MaxSetCalls
    /\ set_calls' = set_calls + 1
    /\ pieces' = [pieces EXCEPT ![s][l] = state]
    /\ Goes_on(c, [pc |-> "write", set |-> s, version |-> heads[s].version, changes |-> <<>>, crossed |-> FALSE])
    /\ UNCHANGED <<active, heads, set_trail, stored, handed, defaults, cut_short, set_faults>>

\* Mark ready (tools_workspace.py): the pieces are fit.
mark_set_ready(c, s) ==
    /\ s \in In_use /\ heads[s].status = "attention" /\ heads[s].holder = Nobody /\ ~Unfit(pieces[s])
    /\ SetCall(c, [pc |-> "return", set |-> s, version |-> heads[s].version,
                   changes |-> [status |-> "available", holder |-> Nobody], crossed |-> FALSE])
    /\ UNCHANGED cut_short

-----------------------------------------------------------------------------
(* The head as a tool of the register: it moves with no look at its pieces. *)
MoveHead(c, s, status, holder) ==
    SetCall(c, [pc |-> "move", set |-> s, version |-> heads[s].version,
                changes |-> [status |-> status, holder |-> holder], crossed |-> FALSE])
    /\ UNCHANGED cut_short

issue_head(c, s, e) ==
    s \in In_use /\ heads[s].status = "available" /\ e \in Approved /\ MoveHead(c, s, "issued", e)

\* Received as good it is available, otherwise held.
return_head(c, s, good) ==
    /\ s \in In_use /\ heads[s].holder # Nobody
    /\ MoveHead(c, s, IF good THEN "available" ELSE "attention", Nobody)

\* Transferred, or its loan extended: it is out, whatever it was held for.
transfer_head(c, s, e) ==
    /\ s \in In_use /\ heads[s].holder # Nobody /\ e \in Approved \cup {heads[s].holder}
    /\ MoveHead(c, s, "issued", e)

\* An incident holds the head wherever it is; a failed inspection, or a fault entered in
\* its details, does so when it is in.
report_head(c, s) ==
    s \in In_use /\ MoveHead(c, s, "attention", heads[s].holder)

\* Undo and redo put the recorded head back under its next version, in one call.  The
\* program offers each account its own newest; of several accounts it can be any.
restore_head(ch) ==
    /\ ch \in set_trail /\ set_calls < MaxSetCalls
    /\ set_calls' = set_calls + 1
    /\ heads' = [heads EXCEPT ![ch.set] = [IF ch.undone THEN ch.after ELSE ch.before EXCEPT !.version = heads[ch.set].version + 1]]
    /\ set_trail' = (set_trail \ {ch}) \cup {[ch EXCEPT !.undone = ~@]}
    /\ counter' = [o \in Counters |-> IF counter[o] = Closed THEN Closed ELSE [counter[o] EXCEPT !.crossed = TRUE]]
    /\ UNCHANGED <<active, pieces, stored, handed, defaults, cut_short, set_faults>>

-----------------------------------------------------------------------------
update_set_type ==
    active' = ~active /\ UNCHANGED <<heads, set_trail, pieces, stored, handed, defaults, counter, cut_short, set_calls, set_faults>>

SetCallFails(c) ==
    /\ counter[c] # Closed /\ set_faults < MaxSetFaults
    /\ set_faults' = set_faults + 1
    /\ Breaks(c)
    /\ UNCHANGED <<quiet, heads, set_trail, pieces, stored, handed>>

SetsNext ==
    \/ update_set_type
    \/ \E ch \in set_trail : restore_head(ch)
    \/ \E c \in Counters :
          \/ _make_physical_set(c) \/ InsertPiece(c) \/ SetMade(c) \/ NextPerson(c) \/ _idem_store(c)
          \/ LookAtPieces(c) \/ WriteHead(c) \/ SetCallFails(c)
          \/ \E noted \in {{}, {1}} : _issue_one_set(c, noted)
          \/ \E k \in RequestKeys : make_sets_in_store(c, k, 2) \/ \E queue \in Queues : issue_sets_to_people(c, queue, k)
          \/ \E s \in Sets :
                \/ report_head(c, s) \/ \E good \in BOOLEAN : return_head(c, s, good)
                \/ \E e \in Employees : issue_head(c, s, e) \/ transfer_head(c, s, e)
                \/ mark_set_ready(c, s) \/ \E found \in {{}, {1}} : return_set(c, s, found)
                \/ \E l \in DOMAIN PieceLines : add_set_line(c, s, l) \/ \E state \in {"fit", "damaged"} : edit_piece(c, s, l, state)

\* On their own: the first so many sets are there.
SetsBegin ==
    \E n \in 0 .. Cardinality(Sets), parts \in [Sets -> [DOMAIN PieceLines -> {"fit", "damaged", "missing", NoPiece}]] :
        \E made \in [1 .. n -> SetRows] : SetsInit([s \in Sets |-> IF s <= n THEN made[s] ELSE NoSet], parts)
SetsSpec == SetsBegin /\ [][SetsNext]_set_vars

-----------------------------------------------------------------------------
\* A request sent again under its key hands nobody a second set: only if it ended
\* without an answer or was sent while the first was under way, or if it names the
\* employee twice, once by id and once by number.  "A missing or damaged piece puts
\* the set in Needs attention": a set received piece by piece or marked ready is put
\* back into the store with every piece fit, as far as no other request wrote since
\* its pieces were read; with a piece amiss it comes back only by the register's
\* ordinary return, or by undo and redo.  And a set is handed out from the store
\* alone, whichever way, unless undo or redo gives it back to who had it.
OneSetForEach ==
    \A k \in RequestKeys \ cut_short : \A e \in Employees :
        handed[k][e] <= Cardinality({n \in Names : Who(n) = e})
\* The request whose write of the head this is; undo and redo write it themselves.
Wrote(c, s) == counter[c] # Closed /\ counter'[c] = Closed /\ counter[c].set = s
PutBack(s) == \E ch \in set_trail \ set_trail' : ch.set = s
SetsAreWhole ==
    /\ []OneSetForEach
    /\ [][\A s \in In_use :
             /\ heads[s].status # "available" /\ heads'[s].status = "available" =>
                   \/ ~Unfit(pieces[s]) \/ PutBack(s)
                   \/ \E c \in Counters : (counter[c].pc = "move" \/ (counter[c].pc = "return" /\ counter[c].crossed)) /\ Wrote(c, s)
             /\ heads[s].holder = Nobody /\ heads'[s].holder # Nobody => heads[s].status = "available" \/ PutBack(s)]_set_vars
=============================================================================
