--------------------------- MODULE ScopedRegister ---------------------------
(***************************************************************************)
(* A table of rows with sections, the rows of a child table, and handlers  *)
(* working on both through the calls the backend makes to PostgREST: each  *)
(* call is one action, handlers interleave between them, and any call may  *)
(* fail and end its handler.  A handler is the sequence of calls it has    *)
(* left; CrudRouter and SafetyRegisters say which sequence each endpoint   *)
(* is.                                                                     *)
(***************************************************************************)
EXTENDS Scope, Sequences, FiniteSets

CONSTANTS
    Handlers,          \* requests being handled
    RowIds,            \* ids of rows, in the order they are listed
    Staff,             \* everyone in the register: person -> [section, department]
    Page,              \* bound: rows PostgREST returns at most (1000)
    MaxHandlers,       \* bound: requests in a behaviour
    MaxRefused,        \* bound: calls that fail
    NoRow

ASSUME BoundsAssumption == Page \in Nat \ {0} /\ MaxHandlers \in Nat /\ MaxRefused \in Nat

VARIABLES
    table,             \* the table of this behaviour (fixed)
    rows,              \* its rows
    items,             \* rows of the child table: [parent, name, section, by], by the request that stored it
    handlers,          \* what each request still has to do and what it has read
    saved,             \* per row, the items its saves put there, taken one after another
    torn,              \* rows whose items two saves wrote at once, or one left half done
    arrived, refused   \* counts

register_vars == <<table, rows, items, handlers, saved, torn, arrived, refused>>

Ids == {id \in RowIds : rows[id] # NoRow}
ItemsOf(id) == {i \in items : i.parent = id}
Stored(item) == {i \in items : i.parent = item.parent /\ i.name = item.name /\ i.by = item.by}  \* by its id
Db == [people |-> Staff, parents |-> [id \in Ids |-> rows[id].section], library |-> <<>>]
Sees(viewer, row) == row_visible(Db, viewer, table, row)

\* {**existing, **patch}
Merged(row, patch) == [f \in DOMAIN row |-> IF f \in DOMAIN patch THEN patch[f] ELSE row[f]]

\* saw and item: the row and the item found; seen and got: the rows and items read;
\* new: the number or the file of what is added; met: another handler has written since.
Idle == [kind |-> "none", todo |-> <<>>, id |-> NoRow, viewer |-> FullView, saw |-> NoRow, item |-> NoRow,
         seen |-> {}, got |-> {}, new |-> {}, met |-> FALSE]

RegisterInit(t, fill, itemsOf) ==
    /\ table = t
    /\ rows = fill
    /\ items = {[parent |-> id, name |-> n, section |-> fill[id].section, by |-> NoRow] :
                  id \in {id \in RowIds : fill[id] # NoRow}, n \in itemsOf}
    /\ handlers = [h \in Handlers |-> Idle]
    /\ saved = [id \in RowIds |-> {[name |-> n, by |-> NoRow] : n \in IF fill[id] # NoRow THEN itemsOf ELSE {}}]
    /\ torn = {}
    /\ arrived = 0 /\ refused = 0

-----------------------------------------------------------------------------
(* The calls a handler may be made of. *)
NoPatch == [f \in {} |-> Blank]
Find(patch, strict) == [op |-> "find", patch |-> patch, strict |-> strict, version |-> 0, mode |-> "merged"]
FindVersion(patch, version) == [op |-> "find", patch |-> patch, strict |-> TRUE, version |-> version, mode |-> "merged"]
FindKeeping(patch) == [op |-> "find", patch |-> patch, strict |-> FALSE, version |-> 0, mode |-> "keeps"]
FindBoth(patch, version) == [op |-> "find", patch |-> patch, strict |-> TRUE, version |-> version, mode |-> "both"]
Write(patch) == [op |-> "write", patch |-> patch, touch |-> 0]
Touch(patch) == [op |-> "write", patch |-> patch, touch |-> 1]  \* concurrency.touch: a new updated_at
Insert(row) == [op |-> "insert", row |-> row]  \* sop_documents has a unique index on the number
Drop == [op |-> "drop"]
Clear == [op |-> "clear"]
Fill(names, section) == [op |-> "fill", names |-> names, section |-> section]
Add(name, section) == [op |-> "add", names |-> {name}, section |-> section]
FindItem(section) == [op |-> "find_item", section |-> section]
WriteItem(section) == [op |-> "write_item", section |-> section]
DropItem == [op |-> "drop_item"]
ReadCall(scoped, whole, joined, archived) ==
    [op |-> "read", scoped |-> scoped, whole |-> whole, joined |-> joined, archived |-> archived, start |-> 0]
ReadPages(scoped) == ReadCall(scoped, TRUE, FALSE, FALSE)
ReadPage(scoped) == ReadCall(scoped, FALSE, FALSE, FALSE)
ReadJoined == ReadCall(TRUE, FALSE, TRUE, FALSE)  \* select("*, items(*)")
ReadEach == [op |-> "read_each"]
ReadOwn == [op |-> "read_own"]
ReadItems == [op |-> "read_items"]

-----------------------------------------------------------------------------
(* Requests. *)
Awaits(h) == handlers[h].todo = <<>> /\ arrived < MaxHandlers
Arrive(h, kind, id, item, viewer, calls) ==
    /\ Awaits(h)
    /\ calls # <<>>
    /\ handlers' = [handlers EXCEPT ![h] =
           [Idle EXCEPT !.kind = kind, !.todo = calls, !.id = id, !.item = item, !.viewer = viewer]]
    /\ arrived' = arrived + 1
    /\ UNCHANGED <<table, rows, items, saved, torn, refused>>

Doing(h, op) == handlers[h].todo # <<>> /\ Head(handlers[h].todo).op = op
Call(h) == Head(handlers[h].todo)

\* The call returned: the handler goes on with the rest, or is over.
Goes(h, rest) == [handlers EXCEPT ![h].todo = rest]
On(h) == Goes(h, Tail(handlers[h].todo))
Over(h) == Goes(h, <<>>)
\* What this handler wrote, the others may have missed.
Missed(h, hs) == [g \in Handlers |-> IF g = h THEN hs[g] ELSE [hs[g] EXCEPT !.met = TRUE]]

\* Two saves write the items of one row at once.
WritesItems(h) ==
    \E k \in DOMAIN handlers[h].todo :
        handlers[h].todo[k].op \in {"clear", "fill", "add", "write_item", "drop_item"}
Tear(h, id) ==
    torn' = IF \E g \in Handlers \ {h} : handlers[g].id = id /\ WritesItems(g) THEN torn \cup {id} ELSE torn

\* A call that raises: the handler answers 500 with what it did so far done.
CallFails(h) ==
    /\ handlers[h].todo # <<>> /\ refused < MaxRefused
    /\ refused' = refused + 1
    /\ handlers' = [Over(h) EXCEPT ![h].kind = "none"]
    /\ torn' = IF Doing(h, "fill") \/ Doing(h, "drop") THEN torn \cup {handlers[h].id} ELSE torn
    /\ UNCHANGED <<table, rows, items, saved, arrived>>

\* scope_section: what a viewer limited to a section may move a row to.
OwnSection(viewer) == IF viewer.kind = "section" THEN {viewer.value} ELSE {}

\* A mutant: only the row as it stands is looked at.
MaySaveAsItStands(viewer, row, call) == Sees(viewer, row)

\* select("*").eq("id", id), the visibility of what the patch would leave and, when
\* the form sent a version, the refusal of a stale one.  Some look at the row as it
\* stands too, or instead, and then the section is left as it is or made the viewer's.  A handler
\* that is not strict looks only for a limited viewer.
MaySave(viewer, row, call) ==
    /\ call.mode # "keeps" => Sees(viewer, Merged(row, call.patch))
    /\ call.mode # "merged" => Sees(viewer, row)
    /\ call.mode = "keeps" /\ viewer # FullView
       => Merged(row, call.patch).section \in {row.section} \cup OwnSection(viewer)
FindRow(h) ==
    /\ Doing(h, "find")
    /\ LET row == rows[handlers[h].id]
           found == row # NoRow /\ MaySave(handlers[h].viewer, row, Call(h))
           stale == Call(h).version # 0 /\ row.version # Call(h).version
       IN  handlers' = IF (found /\ ~stale) \/ (~Call(h).strict /\ handlers[h].viewer = FullView)
                       THEN [On(h) EXCEPT ![h].saw = row, ![h].met = FALSE] ELSE Over(h)
    /\ UNCHANGED <<table, rows, items, saved, torn, arrived, refused>>

\* update(patch).eq("id", id); no row updated ends the handler.
WriteRow(h) ==
    /\ Doing(h, "write")
    /\ LET id == handlers[h].id
       IN  IF rows[id] = NoRow
           THEN handlers' = Over(h) /\ UNCHANGED rows
           ELSE /\ rows' = [rows EXCEPT ![id] = [Merged(rows[id], Call(h).patch) EXCEPT !.version = @ + Call(h).touch]]
                /\ handlers' = Missed(h, On(h))
    /\ UNCHANGED <<table, items, saved, torn, arrived, refused>>

InsertRow(h) ==
    /\ Doing(h, "insert")
    /\ IF table = "sop_documents" /\ \E id \in Ids : rows[id].number = Call(h).row.number
       THEN handlers' = Over(h) /\ UNCHANGED <<rows, torn>>
       ELSE \E id \in RowIds \ Ids :  \* a uuid nobody else holds
              /\ \A g \in Handlers : handlers[g].id # id
              /\ rows' = [rows EXCEPT ![id] = Call(h).row]
              /\ handlers' = Missed(h, [On(h) EXCEPT ![h].id = id])
              /\ torn' = torn \ {id}
    /\ UNCHANGED <<table, items, saved, arrived, refused>>

\* delete().eq("id", id): the foreign key takes the items along.
DropRow(h) ==
    /\ Doing(h, "drop")
    /\ rows' = [rows EXCEPT ![handlers[h].id] = NoRow]
    /\ items' = items \ ItemsOf(handlers[h].id)
    /\ saved' = [saved EXCEPT ![handlers[h].id] = {}]
    /\ handlers' = Missed(h, On(h))
    /\ UNCHANGED <<table, torn, arrived, refused>>

ClearItems(h) ==
    /\ Doing(h, "clear")
    /\ items' = items \ ItemsOf(handlers[h].id)
    /\ saved' = [saved EXCEPT ![handlers[h].id] = {}]
    /\ Tear(h, handlers[h].id)
    /\ handlers' = Missed(h, On(h))
    /\ UNCHANGED <<table, rows, arrived, refused>>

\* insert([...]): all of the items or, when their row is gone, none.  A save's list is
\* what the row has from now on; an added item joins it.
FillItems(h) ==
    /\ Doing(h, "fill") \/ Doing(h, "add")
    /\ LET id == handlers[h].id
           names == {[name |-> n, by |-> <<h, arrived>>] : n \in Call(h).names}
       IN  IF rows[id] = NoRow
           THEN handlers' = Over(h) /\ UNCHANGED <<items, saved, torn>>
           ELSE /\ items' = items \cup {[parent |-> id, name |-> n.name, section |-> Call(h).section, by |-> n.by] : n \in names}
                /\ saved' = [saved EXCEPT ![id] =
                       IF Doing(h, "add") THEN @ \cup names ELSE names]
                /\ Tear(h, id)
                /\ handlers' = Missed(h, On(h))
    /\ UNCHANGED <<table, rows, arrived, refused>>

\* One item by its id: it is there, its row is the viewer's, and a limited viewer's
\* patch leaves the section it has or makes it the viewer's.
FindOneItem(h) ==
    /\ Doing(h, "find_item")
    /\ LET may == {item \in Stored(handlers[h].item) :
                      /\ row_visible(Db, handlers[h].viewer, "sheq_findings", item)
                      /\ \/ handlers[h].viewer = FullView
                         \/ Call(h).section \in {Blank, item.section} \cup OwnSection(handlers[h].viewer)}
       IN  handlers' = IF may # {} THEN On(h) ELSE Over(h)
    /\ UNCHANGED <<table, rows, items, saved, torn, arrived, refused>>

WriteOneItem(h) ==
    /\ Doing(h, "write_item")
    /\ LET found == Stored(handlers[h].item)
       IN  IF found = {}
           THEN handlers' = Over(h) /\ UNCHANGED items
           ELSE /\ items' = (items \ found) \cup {[item EXCEPT !.section = Call(h).section] : item \in found}
                /\ handlers' = Missed(h, On(h))
    /\ UNCHANGED <<table, rows, saved, torn, arrived, refused>>

DropOneItem(h) ==
    /\ Doing(h, "drop_item")
    /\ LET item == handlers[h].item
       IN  /\ items' = items \ Stored(item)
           /\ saved' = IF Stored(item) # {}
                       THEN [saved EXCEPT ![item.parent] = @ \ {[name |-> item.name, by |-> item.by]}]
                       ELSE saved
           /\ Tear(h, item.parent)
    /\ handlers' = Missed(h, On(h))
    /\ UNCHANGED <<table, rows, arrived, refused>>

-----------------------------------------------------------------------------
(* Reads. *)
\* range(start, start + PAGE - 1) of the rows a query keeps.
PageOf(kept, start) ==
    {id \in kept : Cardinality({k \in kept : k < id}) \in start .. start + Page - 1}

\* A page of the table, with the scope in the query or not; a handler that wants the whole table
\* goes on until a page comes back short.
ReadRows(h) ==
    /\ Doing(h, "read")
    /\ LET kept == {id \in Ids : /\ rows[id].archived = Call(h).archived
                                 /\ Call(h).scoped =>
                                       apply_list_scope(Db, handlers[h].viewer, table, rows[id])}
           page == PageOf(kept, Call(h).start)
           next == IF Call(h).whole /\ Cardinality(page) = Page
                   THEN <<[Call(h) EXCEPT !.start = @ + Page]>> ELSE <<>>
       IN  handlers' = [Goes(h, next \o Tail(handlers[h].todo)) EXCEPT
                           ![h].seen = @ \cup {[id |-> id, row |-> rows[id]] : id \in page},
                           ![h].got = @ \cup {i \in items : Call(h).joined /\ i.parent \in page}]
    /\ UNCHANGED <<table, rows, items, saved, torn, arrived, refused>>

\* The items of the row found, of the rows read (a query for each row, taken as one),
\* or one page of all items.
ReadTheItems(h) ==
    /\ \/ /\ Doing(h, "read_own")
          /\ handlers' = [On(h) EXCEPT ![h].seen = {[id |-> handlers[h].id, row |-> handlers[h].saw]},
                                       ![h].got = ItemsOf(handlers[h].id)]
       \/ /\ Doing(h, "read_each")
          /\ handlers' = [On(h) EXCEPT ![h].got = {i \in items : \E r \in handlers[h].seen : r.id = i.parent}]
       \/ /\ Doing(h, "read_items")
          /\ \E S \in SUBSET items :
                /\ Cardinality(S) = (IF Cardinality(items) > Page THEN Page ELSE Cardinality(items))
                /\ handlers' = [On(h) EXCEPT ![h].got = S]
    /\ UNCHANGED <<table, rows, items, saved, torn, arrived, refused>>

RegisterStep(h) ==
    \/ FindRow(h) \/ WriteRow(h) \/ InsertRow(h) \/ DropRow(h)
    \/ ClearItems(h) \/ FillItems(h) \/ FindOneItem(h) \/ WriteOneItem(h) \/ DropOneItem(h)
    \/ ReadRows(h) \/ ReadTheItems(h)
    \/ CallFails(h)
=============================================================================
