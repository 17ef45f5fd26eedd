------------------------------ MODULE FolderTree ------------------------------
(***************************************************************************)
(* The folders of the document library: create, rename, move, delete and   *)
(* "set up the AMS folders" (src/app/routers/document_folders.py), the     *)
(* rules of the tree (document_rules.py, document_structure.py), and the   *)
(* path each file carries of the folder it is in (documents.py).  A        *)
(* request reads the whole tree, decides, and writes later.                *)
(***************************************************************************)
EXTENDS Scope, Sequences, FiniteSets

CONSTANTS
    FolderIds,         \* ids of folders
    FolderNames,       \* what a folder may be called
    Papers,            \* files
    Librarians,        \* requests
    MAX_FOLDER_DEPTH,  \* levels of the tree: 8
    Structure,         \* the AMS structure, parents first: sequence of [key, parent, name]
    normalise(_),      \* a name without its section number, its case and its signs
    FolderViewers,     \* scopes of the callers
    NoFolder, Top,     \* no such folder; the parent of a folder at the top level
    MaxLibraryCalls,   \* bound: requests
    MaxLibraryFaults   \* bound: calls that fail

ASSUME DepthAssumption == MAX_FOLDER_DEPTH \in Nat \ {0}

VARIABLES
    folders,       \* document_folders: id -> [name, parent, key]
    papers,        \* documents: folder_ref and folder_path of each file
    librarian,     \* per request: what it decided from the tree it read
    library_excuses, library_calls, library_faults

library_vars == <<folders, papers, librarian, library_excuses, library_calls, library_faults>>

FreeHands == [pc |-> "idle", id |-> Top, changes |-> <<>>, paths |-> {}, todo |-> <<>>]

-----------------------------------------------------------------------------
(* The tree.  Every operator takes the tree as it was read. *)
In(tree) == {id \in FolderIds : tree[id] # NoFolder}
children_map(tree, parent) == {id \in In(tree) : tree[id].parent = parent}

\* From the top down to the folder, and no further than four times the depth.
ancestry(tree, id) ==
    LET above[d \in FolderIds, far \in 0 .. 4 * MAX_FOLDER_DEPTH] ==
            IF far = 0 \/ tree[d].parent \notin In(tree) THEN <<d>> ELSE Append(above[tree[d].parent, far - 1], d)
    IN  IF id \in In(tree) THEN above[id, 4 * MAX_FOLDER_DEPTH] ELSE <<>>

folder_path(tree, id) ==
    LET above == ancestry(tree, id) IN [k \in DOMAIN above |-> tree[above[k]].name]

\* A mutant: the folders below keep their old paths.
OnlyItself(tree, id) == {id}
descendant_ids(tree, id) ==
    {d \in In(tree) : LET above == ancestry(tree, d) IN \E k \in DOMAIN above : above[k] = id}

subtree_height(tree, id) ==
    LET height[c \in FolderIds, seen \in SUBSET FolderIds] ==
            IF c \in seen THEN 0
            ELSE LET below == {height[d, seen \cup {c}] : d \in children_map(tree, c)}
                 IN  1 + (IF below = {} THEN 0 ELSE CHOOSE n \in below : \A m \in below : m <= n)
    IN  height[id, {}]

\* Not into itself or below itself, and not deeper than the tree may go.
check_placement(tree, moving, parent) ==
    parent = Top
    \/ /\ moving \in In(tree) => parent \notin descendant_ids(tree, moving)
       /\ Len(ancestry(tree, parent)) + (IF moving \in In(tree) THEN subtree_height(tree, moving) ELSE 1)
             <= MAX_FOLDER_DEPTH

name_taken(tree, parent, name, ignore) ==
    \E id \in children_map(tree, parent) \ {ignore} : tree[id].name = name

\* The folder at the top level with the name of the viewer's section, and what is in it.
scope_root_id(tree, viewer) == {id \in children_map(tree, Top) : viewer.kind = "section" /\ tree[id].name = viewer.value}
scope_subtree_ids(tree, viewer) == UNION {descendant_ids(tree, root) : root \in scope_root_id(tree, viewer)}

TreeInit(tree, in) ==
    /\ folders = tree
    /\ librarian = [h \in Librarians |-> FreeHands]
    /\ library_excuses = {} /\ library_calls = 0 /\ library_faults = 0
    /\ papers = [f \in Papers |-> [folder |-> in[f], path |-> folder_path(tree, in[f])]]

-----------------------------------------------------------------------------
(* The database: the parent exists (on delete restrict), a name is used once   *)
(* under a parent and a seed key once.                                          *)
Accepts(tree, id, folder) ==
    /\ folder.parent = Top \/ folder.parent \in In(tree)
    /\ ~name_taken(tree, folder.parent, folder.name, id)
    /\ folder.key = Blank \/ \A other \in In(tree) \ {id} : tree[other].key # folder.key

\* A write while another request has read the tree and has not finished; worse, a move
\* while another move has.
Others(h) == {g \in Librarians \ {h} : librarian[g].pc # "idle"}
Moves(h) == librarian[h].pc = "write" /\ librarian[h].id # Top /\ "parent" \in DOMAIN librarian[h].changes
Crossed(h) ==
    (IF Others(h) # {} THEN {"crossed"} ELSE {})
    \cup (IF h \in Librarians /\ Moves(h) /\ \E g \in Others(h) : Moves(g) THEN {"moves crossed"} ELSE {})

Free(h) == librarian[h].pc = "idle" /\ library_calls < MaxLibraryCalls
Arrives(h, decision) ==
    /\ Free(h)
    /\ library_calls' = library_calls + 1
    /\ librarian' = [librarian EXCEPT ![h] = decision]
    /\ UNCHANGED <<folders, papers, library_excuses, library_faults>>

-----------------------------------------------------------------------------
(* Create, rename and move. *)

\* A limited viewer works inside the folder named for the section, and may make
\* that folder.
create_folder(h, viewer, name, parent) ==
    /\ Free(h)
    /\ parent \in In(folders) \cup {Top}
    /\ viewer = FullView \/ (IF parent = Top THEN name = viewer.value ELSE parent \in scope_subtree_ids(folders, viewer))
    /\ check_placement(folders, NoFolder, parent)
    /\ ~name_taken(folders, parent, name, NoFolder)
    /\ Arrives(h, [FreeHands EXCEPT !.pc = "write", !.changes = [name |-> name, parent |-> parent, key |-> Blank]])

\* The folder of the section keeps its name and its place.  The files below learn their
\* new paths from the tree as it was read, with this change in it.
update_folder(h, viewer, id, name, parent) ==
    /\ Free(h)
    /\ id \in In(folders) /\ parent \in In(folders) \cup {Top}
    /\ LET current == folders[id]
           root == id \in scope_root_id(folders, viewer)
           sub == scope_subtree_ids(folders, viewer)
           moved == parent # current.parent
           changed == [current EXCEPT !.name = name, !.parent = parent]
           after == [folders EXCEPT ![id] = changed]
           changes == [c \in {c \in DOMAIN current : changed[c] # current[c]} |-> changed[c]]
       IN  /\ viewer # FullView => id \in sub /\ (root => name = viewer.value)
           /\ moved => (viewer = FullView \/ (~root /\ parent \in sub)) /\ check_placement(folders, id, parent)
           /\ changed # current /\ ~name_taken(folders, parent, name, id)
           /\ Arrives(h, [FreeHands EXCEPT !.pc = "write", !.id = id, !.changes = changes,
                  !.paths = {[folder |-> d, path |-> folder_path(after, d)] : d \in descendant_ids(after, id)}])

\* The insert, or the update of the columns that change; refused by the database, or
\* there is no such folder any more.
Changed(id, changes) == [c \in {"name", "parent", "key"} |-> IF c \in DOMAIN changes THEN changes[c] ELSE folders[id][c]]
WriteFolder(h) ==
    /\ librarian[h].pc = "write"
    /\ LET me == librarian[h]
       IN \E id \in IF me.id = Top THEN FolderIds \ In(folders) ELSE {me.id} :
          LET done == (me.id # Top => id \in In(folders)) /\ Accepts(folders, id, Changed(id, me.changes))
          IN  /\ folders' = IF done THEN [folders EXCEPT ![id] = Changed(id, me.changes)] ELSE folders
              /\ librarian' = [librarian EXCEPT ![h] = IF done /\ me.paths # {} THEN [me EXCEPT !.pc = "paths"] ELSE FreeHands]
              /\ library_excuses' = library_excuses \cup (IF done THEN Crossed(h) ELSE {})
    /\ UNCHANGED <<papers, library_calls, library_faults>>

\* _refresh_paths: the files of one folder after another.
RefreshPaths(h) ==
    /\ librarian[h].pc = "paths"
    /\ \E p \in librarian[h].paths :
          /\ papers' = [f \in Papers |-> IF papers[f].folder = p.folder THEN [papers[f] EXCEPT !.path = p.path] ELSE papers[f]]
          /\ librarian' = [librarian EXCEPT ![h] =
                 IF librarian[h].paths = {p} THEN FreeHands ELSE [@ EXCEPT !.paths = @ \ {p}]]
    /\ library_excuses' = library_excuses \cup Crossed(h)
    /\ UNCHANGED <<folders, library_calls, library_faults>>

\* Refused with a count while anything is in it, by the database if that came later.
delete_folder(id) ==
    /\ id \in In(folders) /\ folders[id].key # "quick-print"
    /\ children_map(folders, id) = {} /\ \A f \in Papers : papers[f].folder # id
    /\ library_calls < MaxLibraryCalls
    /\ library_calls' = library_calls + 1
    /\ folders' = [folders EXCEPT ![id] = NoFolder]
    /\ library_excuses' = library_excuses \cup Crossed(Top)
    /\ UNCHANGED <<papers, librarian, library_faults>>

-----------------------------------------------------------------------------
(* Setting up the AMS folders. *)
ByKey(tree, key) == {id \in In(tree) : tree[id].key = key}

\* For each node of the structure: the folder with its key is left alone, one made by hand
\* with its name in its place is adopted, and otherwise it is created.
plan_seed(tree) ==
    LET node(k) == Structure[k]
        place[k \in 1 .. Len(Structure)] ==
            LET above == {j \in 1 .. k - 1 : node(j).key = node(k).parent}
                parents == IF node(k).parent = Blank THEN {Top} ELSE UNION {place[j].ids : j \in above}
                byHand == {id \in UNION {children_map(tree, p) : p \in parents} :
                              tree[id].key = Blank /\ normalise(tree[id].name) = normalise(node(k).name)}
            IN  IF ByKey(tree, node(k).key) # {} THEN [action |-> "skip", ids |-> ByKey(tree, node(k).key)]
                ELSE IF byHand # {} THEN [action |-> "adopt", ids |-> byHand]
                ELSE [action |-> "create", ids |-> {}]
    IN  [k \in 1 .. Len(Structure) |-> [node |-> node(k), action |-> place[k].action, ids |-> place[k].ids]]

summarise(tree, action) == Cardinality({k \in DOMAIN plan_seed(tree) : plan_seed(tree)[k].action = action})

\* Adoptions first, then the folders to create, parents first (a depth at a time; here
\* one node at a time).
seed_ams_folders(h) ==
    LET Of(action) == SelectSeq(plan_seed(folders), LAMBDA s : s.action = action)
    IN  /\ Free(h)
        /\ Of("adopt") \o Of("create") # <<>>
        /\ Arrives(h, [FreeHands EXCEPT !.pc = "seed", !.todo = Of("adopt") \o Of("create")])

\* No check of the depth: the folders of the structure may have been moved deep by hand.
TooDeep(tree) == \E id \in In(tree) : Len(ancestry(tree, id)) > MAX_FOLDER_DEPTH
SeedNext(h) ==
    /\ librarian[h].pc = "seed" /\ librarian[h].todo # <<>>
    /\ LET step == Head(librarian[h].todo)
           above == IF step.node.parent = Blank THEN {Top} ELSE ByKey(folders, step.node.parent)
           free == FolderIds \ In(folders)
           Writes(id, row) ==
               IF Accepts(folders, id, row)
               THEN /\ folders' = [folders EXCEPT ![id] = row]
                    /\ librarian' = [librarian EXCEPT ![h].todo = Tail(@),
                          ![h].paths = IF step.action = "adopt" THEN @ \cup {id} ELSE @]
               ELSE folders' = folders /\ librarian' = [librarian EXCEPT ![h] = FreeHands]
       IN  IF step.action = "adopt"
           THEN \E id \in step.ids :
                   IF id \in In(folders)
                   THEN Writes(id, [folders[id] EXCEPT !.name = step.node.name, !.key = step.node.key])
                   ELSE librarian' = [librarian EXCEPT ![h].todo = Tail(@)] /\ folders' = folders
           ELSE \E id \in free, parent \in above :
                   Writes(id, [name |-> step.node.name, parent |-> parent, key |-> step.node.key])
    /\ library_excuses' = library_excuses \cup Crossed(h) \cup (IF TooDeep(folders') THEN {"deep seed"} ELSE {})
    /\ UNCHANGED <<papers, library_calls, library_faults>>

\* The tree is read again for the paths below the folders adopted.
SeedDone(h) ==
    /\ librarian[h].pc = "seed" /\ librarian[h].todo = <<>>
    /\ LET below == UNION {descendant_ids(folders, id) : id \in librarian[h].paths}
       IN  librarian' = [librarian EXCEPT ![h] =
               IF below = {} THEN FreeHands
               ELSE [@ EXCEPT !.pc = "paths", !.paths = {[folder |-> d, path |-> folder_path(folders, d)] : d \in below}]]
    /\ library_excuses' = library_excuses \cup Crossed(h)
    /\ UNCHANGED <<folders, papers, library_calls, library_faults>>

-----------------------------------------------------------------------------
(* _move_changes: a file is put into another folder with the path the tree has for it. *)
MovePaper(h, f, id) ==
    /\ id \in In(folders) /\ papers[f].folder # id
    /\ Arrives(h, [FreeHands EXCEPT !.pc = "move", !.id = id,
                       !.paths = {[folder |-> f, path |-> folder_path(folders, id)]}])

\* Refused by the database when the folder is gone.
WritePaper(h) ==
    /\ librarian[h].pc = "move"
    /\ \E p \in librarian[h].paths :
          papers' = IF librarian[h].id \in In(folders)
                    THEN [papers EXCEPT ![p.folder] = [folder |-> librarian[h].id, path |-> p.path]] ELSE papers
    /\ librarian' = [librarian EXCEPT ![h] = FreeHands]
    /\ library_excuses' = library_excuses \cup Crossed(h)
    /\ UNCHANGED <<folders, library_calls, library_faults>>

LibraryCallFails(h) ==
    /\ librarian[h].pc # "idle" /\ library_faults < MaxLibraryFaults
    /\ library_faults' = library_faults + 1
    /\ librarian' = [librarian EXCEPT ![h] = FreeHands]
    /\ library_excuses' = library_excuses \cup (IF librarian[h].pc \in {"paths", "seed"} THEN {"half done"} ELSE {})
    /\ UNCHANGED <<folders, papers, library_calls>>

TreeNext ==
    \/ \E h \in Librarians :
          \/ \E v \in FolderViewers, n \in FolderNames, p \in FolderIds \cup {Top} :
                \/ create_folder(h, v, n, p)
                \/ \E id \in FolderIds : update_folder(h, v, id, n, p)
          \/ seed_ams_folders(h) \/ SeedNext(h) \/ SeedDone(h)
          \/ \E f \in Papers, id \in FolderIds : MovePaper(h, f, id)
          \/ WriteFolder(h) \/ RefreshPaths(h) \/ WritePaper(h) \/ LibraryCallFails(h)
    \/ \E id \in FolderIds : delete_folder(id)

-----------------------------------------------------------------------------
(* Properties *)
TreeTypeOK ==
    /\ \A id \in In(folders) : folders[id].name \in FolderNames /\ folders[id].parent \in FolderIds \cup {Top}
    /\ \A f \in Papers : papers[f].folder \in In(folders)
    /\ library_excuses \subseteq {"crossed", "moves crossed", "half done", "deep seed"}

\* Every folder is somewhere below the top level.
NoLoops == \A id \in In(folders) : folders[Head(ancestry(folders, id))].parent = Top

\* Moves that do not cross make no loop, and requests that do not cross no tree that is too
\* deep; every file has the path of its folder, also below the folder that was renamed,
\* moved or adopted; and after "set up the AMS folders" nothing is left to set up.
LibraryIsATree ==
    /\ TreeTypeOK
    /\ "moves crossed" \notin library_excuses => NoLoops
    /\ library_excuses \cap {"crossed", "deep seed"} = {} => ~TooDeep(folders)
    /\ library_excuses \cap {"crossed", "half done"} = {} =>
           /\ (\A h \in Librarians : librarian[h].pc = "idle") =>
                  \A f \in Papers : papers[f].path = folder_path(folders, papers[f].folder)
           /\ \A h \in Librarians : librarian[h].pc = "seed" /\ librarian[h].todo = <<>>
                  => summarise(folders, "skip") = Len(Structure)
=============================================================================
