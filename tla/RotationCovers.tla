--------------------------- MODULE RotationCovers ---------------------------
(***************************************************************************)
(* Stand-ins in the standby and duty rotations                             *)
(* (src/app/routers/rotation_covers.py): a save looks for a cover of the   *)
(* same absent person over the same days, and then writes the columns it   *)
(* was sent.  A viewer of a section or department looks among the rows     *)
(* they may see, as read in a call before.                                 *)
(***************************************************************************)
EXTENDS Naturals, FiniteSets, Scope

CONSTANTS
    CoverIds,        \* ids the table may give out
    Rotations,       \* of either kind
    Members,         \* employees
    CoverStaff,      \* their section and department
    CoverDays,
    Planners,        \* the limits of the accounts that plan
    CoverRequests,
    NoCover,
    MaxCoverCalls    \* bound: requests

ASSUME CoverAssumption == CoverDays \subseteq Nat /\ DOMAIN CoverStaff = Members

VARIABLES
    covers,    \* per id: the row, or NoCover
    planner,   \* per request
    cover_calls

cover_vars == <<covers, planner, cover_calls>>
Columns == {"post", "absent", "cover", "from", "to"}
CoverRows == [post : Rotations, absent : Members, cover : Members, from : CoverDays, to : CoverDays]
ASSUME NoCoverAssumption == NoCover \notin CoverRows /\ NoCover \notin CoverIds
Elsewhere == [pc |-> "elsewhere"]

CoversTypeOK ==
    /\ \A c \in CoverIds : covers[c] \in CoverRows \cup {NoCover}
    /\ \A r \in CoverRequests : planner[r].pc \in {"elsewhere", "visible", "overlap", "insert", "update", "delete"}

CoversInit(at_first) ==
    /\ covers = at_first /\ planner = [r \in CoverRequests |-> Elsewhere] /\ cover_calls = 0

Stored == {c \in CoverIds : covers[c] # NoCover}
MayOpen(scope, row) ==
    row_visible([people |-> CoverStaff], scope, "rotation_covers", [people |-> {row.absent, row.cover}])

\* What a list and a look for overlaps show a limited viewer.
Listed_covers(scope) ==
    LET shown == filter_rows([people |-> CoverStaff], scope, "rotation_covers",
                             {[id |-> c, people |-> {covers[c].absent, covers[c].cover}] : c \in Stored})
    IN  {row.id : row \in shown}

Overlap(a, b) == a.post = b.post /\ a.absent = b.absent /\ a.from <= b.to /\ b.from <= a.to

_find_overlap(row, exclude, visible) ==
    \E c \in Stored \cap visible : c # exclude /\ Overlap(covers[c], row)

-----------------------------------------------------------------------------
MayPlan(r) == planner[r] = Elsewhere /\ cover_calls < MaxCoverCalls /\ cover_calls' = cover_calls + 1
Plans(r, next) == planner' = [planner EXCEPT ![r] = next]

\* Nobody holds in place of themselves; a limited viewer plans for people of theirs.
create_cover(r, scope, row) ==
    /\ MayPlan(r) /\ row.from <= row.to /\ row.absent # row.cover /\ MayOpen(scope, row)
    /\ Plans(r, [pc |-> "visible", id |-> NoCover, scope |-> scope, row |-> row, data |-> row,
                 visible |-> CoverIds, unseen |-> {}])
    /\ UNCHANGED covers

\* The row as it is read, with the columns that were sent.
Merged(row, data) == [f \in Columns |-> IF f \in DOMAIN data THEN data[f] ELSE row[f]]
update_cover(r, scope, c, data) ==
    LET row == Merged(covers[c], data) IN
    /\ MayPlan(r) /\ c \in Stored /\ MayOpen(scope, covers[c])
    /\ row.from <= row.to /\ MayOpen(scope, row) /\ row.absent # row.cover
    /\ Plans(r, [pc |-> "visible", id |-> c, scope |-> scope, row |-> row, data |-> data,
                 visible |-> CoverIds, unseen |-> {}])
    /\ UNCHANGED covers

\* The rows of a limited viewer are read before the overlaps.
_visible_ids(r) ==
    /\ planner[r].pc = "visible"
    /\ planner' = [planner EXCEPT ![r].pc = "overlap",
                                  ![r].visible = IF planner[r].scope = FullView THEN CoverIds ELSE Listed_covers(planner[r].scope)]
    /\ UNCHANGED <<covers, cover_calls>>
_reject_overlap(r) ==
    /\ planner[r].pc = "overlap"
    /\ IF _find_overlap(planner[r].row, planner[r].id, planner[r].visible) THEN Plans(r, Elsewhere)
       ELSE Plans(r, [planner[r] EXCEPT !.pc = IF planner[r].id = NoCover THEN "insert" ELSE "update"])
    /\ UNCHANGED <<covers, cover_calls>>

\* Every write is unseen by the requests that are under way.
Written(r, c) ==
    planner' = [o \in CoverRequests |->
        IF o = r THEN Elsewhere
        ELSE IF planner[o] = Elsewhere THEN planner[o] ELSE [planner[o] EXCEPT !.unseen = @ \cup {c}]]
InsertCover(r, c) ==
    /\ planner[r].pc = "insert" /\ c \notin Stored /\ \A o \in CoverIds \ Stored : c <= o
    /\ covers' = [covers EXCEPT ![c] = planner[r].row] /\ Written(r, c) /\ UNCHANGED cover_calls

\* Only the columns that were sent; the table refuses dates in the wrong order.
UpdateCover(r) ==
    LET c == planner[r].id
        row == IF c \in Stored THEN Merged(covers[c], planner[r].data) ELSE NoCover
    IN  /\ planner[r].pc = "update"
        /\ IF c \notin Stored THEN Plans(r, Elsewhere) /\ UNCHANGED covers
           ELSE IF row.from > row.to THEN Plans(r, Elsewhere) /\ UNCHANGED covers
           ELSE covers' = [covers EXCEPT ![c] = row] /\ Written(r, c)
        /\ UNCHANGED cover_calls
delete_cover(r, scope, c) ==
    /\ MayPlan(r) /\ c \in Stored /\ MayOpen(scope, covers[c])
    /\ Plans(r, [pc |-> "delete", id |-> c, scope |-> scope, row |-> covers[c], data |-> <<>>, visible |-> {}, unseen |-> {}])
    /\ UNCHANGED covers
DeleteCover(r) ==
    /\ planner[r].pc = "delete" /\ covers' = [covers EXCEPT ![planner[r].id] = NoCover]
    /\ Written(r, planner[r].id) /\ UNCHANGED cover_calls

Changes == (UNION {[S -> Members] : S \in {{"absent"}, {"cover"}}}) \cup (UNION {[S -> CoverDays] : S \in {{"from"}, {"to"}}})
CoversNext ==
    \E r \in CoverRequests :
        \/ _visible_ids(r) \/ _reject_overlap(r) \/ UpdateCover(r) \/ DeleteCover(r)
        \/ \E c \in CoverIds : InsertCover(r, c)
        \/ \E scope \in Planners :
              \/ \E row \in CoverRows : create_cover(r, scope, row)
              \/ \E c \in CoverIds : delete_cover(r, scope, c) \/ \E data \in Changes : update_cover(r, scope, c, data)

-----------------------------------------------------------------------------
\* "One person holds at most one cover per rotation over any date", "Nobody holds in place
\* of themselves": through saves of whole rows and of single columns, two covers meet only
\* by a write that had not seen the other row, or whose viewer may not see it; and a person
\* stands in for themselves only when two saves of one row crossed.
Meets(a, b) == a # NoCover /\ b # NoCover /\ Overlap(a, b)
Writing(r) == planner[r].pc \in {"insert", "update"} /\ planner'[r] = Elsewhere
OneStandIn ==
    [][/\ \A a \in CoverIds : \A b \in CoverIds \ {a} :
             Meets(covers[a], covers[b])' /\ ~Meets(covers[a], covers[b]) =>
                 \E r \in CoverRequests : Writing(r) /\ (planner[r].unseen \cup (CoverIds \ planner[r].visible)) \cap {a, b} # {}
       /\ \A a \in Stored' : covers'[a].absent = covers'[a].cover /\ (a \in Stored => covers[a].absent # covers[a].cover) =>
             \E r \in CoverRequests : Writing(r) /\ a \in planner[r].unseen]_cover_vars
=============================================================================
