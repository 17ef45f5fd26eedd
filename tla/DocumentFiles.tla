----------------------------- MODULE DocumentFiles -----------------------------
(***************************************************************************)
(* The files of the document library (src/app/routers/documents.py): rows  *)
(* of the table documents, the stored files and print copies they point    *)
(* at, the trash, and what the overview and the search show of them.  A    *)
(* request reads the row, looks around in its folder, and writes to the    *)
(* database and to the storage in calls of their own.  The folders are     *)
(* those of FolderTree and stay as they are here.                          *)
(***************************************************************************)
EXTENDS FolderTree

CONSTANTS
    DocIds,          \* ids of rows
    Clerks,          \* requests
    Contents, Pdfs,  \* contents by hash; the ones that are a PDF already
    Paths,           \* bound: paths in the storage bucket, a new one for each file
    FileViewers,     \* scopes of the callers
    NoDoc, NoFile,
    MaxFileCalls,    \* bound: requests
    MaxFileFaults    \* bound: calls that fail, and processes that die

Unfiled == Top

\* A name is a word, and what numbers were put after it.
NameParts == {"a", "b"} \cup Nat
\* Rows, and what an upload is about to store: it has no path before that.
Files ==
    [name : Seq(NameParts), folder : FolderIds \cup {Unfiled}, content : Contents, file : Paths \cup {NoFile},
     print : Paths \cup {NoFile}, trashed : BOOLEAN, starred : BOOLEAN, text : BOOLEAN]

ASSUME FilesAssumption == IsFiniteSet(DocIds) /\ NoFile \notin Paths /\ NoDoc \notin Files /\ NoFolder \notin FolderIds

VARIABLES
    docs,      \* documents
    stored,    \* paths in the storage bucket
    clerk,     \* per request: what it has read and still has to do
    file_excuses, file_calls, file_faults

file_vars == <<docs, stored, clerk, file_excuses, file_calls, file_faults>>

Docs == {id \in DocIds : docs[id] # NoDoc}
FreeClerk == [pc |-> "idle", kind |-> "none", id |-> NoDoc, doc |-> NoDoc, patch |-> <<>>, path |-> NoFile, drop |-> {}]
Spare == {id \in DocIds : docs[id] = NoDoc}

NewDoc(name, folder, content, path) ==
    [name |-> name, folder |-> folder, content |-> content, file |-> path, print |-> NoFile,
     trashed |-> FALSE, starred |-> FALSE, text |-> TRUE]
Put(doc, patch) == [f \in DOMAIN doc |-> IF f \in DOMAIN patch THEN patch[f] ELSE doc[f]]

FilesInit(rows) ==
    /\ docs = rows
    /\ stored = (UNION {{rows[id].file, rows[id].print} : id \in {id \in DocIds : rows[id] # NoDoc}}) \ {NoFile}
    /\ clerk = [c \in Clerks |-> FreeClerk]
    /\ file_excuses = {} /\ file_calls = 0 /\ file_faults = 0

-----------------------------------------------------------------------------
(* The folder around a file. *)
_names_in(folder) == {docs[id].name : id \in {id \in Docs : docs[id].folder = folder /\ ~docs[id].trashed}}
_copy_in(folder, content, ignore) ==
    \E id \in Docs \ {ignore} : docs[id].folder = folder /\ docs[id].content = content /\ ~docs[id].trashed

\* A mutant: no number.
AsItIs(wanted, taken) == wanted
\* The name, or the name with the first number from 2 on that is free.
unique_display_name(wanted, taken) ==
    IF wanted \notin taken THEN wanted
    ELSE Append(wanted, CHOOSE n \in 2 .. Cardinality(taken) + 2 :
                            /\ Append(wanted, n) \notin taken
                            /\ \A m \in 2 .. n - 1 : Append(wanted, m) \in taken)

\* One live copy of a content in a folder: documents_one_copy_per_folder.
OneCopy(id, doc) == doc.trashed \/ ~_copy_in(doc.folder, doc.content, id)

\* A limited viewer sees the files below the folder of the section.
Visible(viewer) == IF viewer = FullView THEN In(folders) \cup {Unfiled} ELSE scope_subtree_ids(folders, viewer)
Shows(viewer, folder) == folder \in Visible(viewer)

\* History: another request is in flight, over this document or over any other.
Busy(c) == {d \in Clerks \ {c} : clerk[d].pc # "idle"}
FileCrossed(c) == IF Busy(c) # {} THEN {"crossed"} ELSE {}
Takes(c, next) == clerk' = [clerk EXCEPT ![c] = next]

-----------------------------------------------------------------------------
(* What a request is: the row it reads and the patch it is after. *)
Ready(c) == clerk[c].pc = "idle" /\ file_calls < MaxFileCalls
Begins(c, next) ==
    /\ file_calls' = file_calls + 1
    /\ Takes(c, next)
    /\ UNCHANGED <<docs, stored, file_excuses, file_faults>>

\* Into a folder that the caller sees; a limited viewer must choose one.
upload_document(c, viewer, name, folder, content) ==
    /\ Ready(c)
    /\ folder \in In(folders) \cup {Unfiled} /\ Shows(viewer, folder)
    /\ Begins(c, [FreeClerk EXCEPT !.pc = "look", !.kind = "upload", !.doc = NewDoc(name, folder, content, NoFile)])

\* A rename, a star, or a move to another folder; a form with an old version is
\* refused here, once, and never gets on.
update_document(c, viewer, id, patch) ==
    /\ Ready(c)
    /\ id \in Docs /\ Shows(viewer, docs[id].folder)
    /\ "folder" \in DOMAIN patch => patch.folder \in In(folders) \cup {Unfiled} /\ Shows(viewer, patch.folder)
    /\ Begins(c, [FreeClerk EXCEPT !.pc = IF DOMAIN patch = {"starred"} THEN "write" ELSE "look",
                                   !.kind = "update", !.id = id, !.doc = docs[id], !.patch = patch])

\* delete_document and the bulk actions: one file after another of those that can take
\* it; here one file.
_apply_one(c, viewer, id, action) ==
    /\ Ready(c)
    /\ id \in Docs /\ Shows(viewer, docs[id].folder)
    /\ CASE action = "trash" -> ~docs[id].trashed
         [] action \in {"restore", "purge"} -> docs[id].trashed
         [] OTHER -> TRUE
    /\ Begins(c, [FreeClerk EXCEPT
           !.pc = CASE action = "restore" -> "look" [] action = "purge" -> "drop" [] OTHER -> "write",
           !.kind = action, !.id = id, !.doc = docs[id],
           !.patch = CASE action = "trash" -> [trashed |-> TRUE]
                       [] action = "restore" -> [trashed |-> FALSE]
                       [] OTHER -> [starred |-> FALSE],
           !.drop = IF action = "purge" THEN {docs[id].file, docs[id].print} \ {NoFile} ELSE {}])

\* Not of a file in the trash, nor of a PDF.
set_print_copy(c, viewer, id) ==
    /\ Ready(c)
    /\ id \in Docs /\ Shows(viewer, docs[id].folder) /\ ~docs[id].trashed /\ docs[id].content \notin Pdfs
    /\ Begins(c, [FreeClerk EXCEPT !.pc = "store", !.kind = "print", !.id = id, !.doc = docs[id]])
remove_print_copy(c, viewer, id) ==
    /\ Ready(c)
    /\ id \in Docs /\ Shows(viewer, docs[id].folder) /\ ~docs[id].trashed /\ docs[id].print # NoFile
    /\ Begins(c, [FreeClerk EXCEPT !.pc = "write", !.kind = "print", !.id = id, !.doc = docs[id],
                                   !.patch = [print |-> NoFile], !.drop = {docs[id].print}])

\* The files nothing was read out of yet, but those in the trash.
reindex_documents(c) ==
    \E id \in Docs :
        /\ Ready(c) /\ ~docs[id].text /\ ~docs[id].trashed
        /\ Begins(c, [FreeClerk EXCEPT !.pc = "write", !.kind = "reindex", !.id = id, !.doc = docs[id],
                                       !.patch = [text |-> TRUE]])

-----------------------------------------------------------------------------
(* The calls. *)

\* _copy_in and _names_in: 409 for a copy of the same content, and for a new name that
\* is taken; a file that comes into the folder gets a number.
LookAround(c) ==
    /\ clerk[c].pc = "look"
    /\ LET me == clerk[c]
           want == Put(me.doc, me.patch)
           moves == me.kind = "update" /\ want.folder # me.doc.folder
           comes == me.kind \in {"upload", "restore"} \/ moves
           refused == \/ comes /\ _copy_in(want.folder, want.content, me.id)
                      \/ me.kind = "update" /\ want.name # me.doc.name /\ want.name \in _names_in(me.doc.folder)
           name == IF comes THEN unique_display_name(want.name, _names_in(want.folder)) ELSE want.name
       IN  Takes(c, IF refused THEN FreeClerk
                    ELSE IF me.kind = "upload" THEN [me EXCEPT !.pc = "store", !.doc.name = name]
                    ELSE [me EXCEPT !.pc = "write",
                              !.patch = [f \in DOMAIN me.patch \cup {"name"} |-> IF f = "name" THEN name ELSE me.patch[f]]])
    /\ UNCHANGED <<docs, stored, file_excuses, file_calls, file_faults>>

\* Every path that anything points at.
Known == stored \cup (UNION {{docs[id].file, docs[id].print} : id \in Docs})
         \cup (UNION {clerk[c].drop \cup {clerk[c].path} \cup (IF clerk[c].doc = NoDoc THEN {} ELSE {clerk[c].doc.print})
                      : c \in Clerks})

\* A new path for the file or the print copy; the print copy there was goes once the row
\* points at the new one.
StoreUpload(c) ==
    /\ clerk[c].pc = "store"
    /\ Paths \ Known # {}
    /\ LET path == CHOOSE p \in Paths : p \notin Known
       IN  /\ stored' = stored \cup {path}
           /\ Takes(c, IF clerk[c].kind = "upload" THEN [clerk[c] EXCEPT !.pc = "write", !.doc.file = path, !.path = path]
                       ELSE [clerk[c] EXCEPT !.pc = "write", !.path = path, !.patch = [print |-> path],
                                             !.drop = {clerk[c].doc.print} \ {NoFile}])
    /\ UNCHANGED <<docs, file_excuses, file_calls, file_faults>>

\* The row is inserted or changed, or was refused or is gone; what was stored for it is
\* removed when the insert or the update raises.
WriteDoc(c) ==
    /\ clerk[c].pc = "write"
    /\ LET me == clerk[c]
           After(path) == IF path = {} THEN FreeClerk ELSE [me EXCEPT !.pc = "drop", !.drop = path]
       IN  IF me.kind = "upload"
           THEN \E id \in Spare :
                   /\ docs' = IF OneCopy(id, me.doc) THEN [docs EXCEPT ![id] = me.doc] ELSE docs
                   /\ Takes(c, IF OneCopy(id, me.doc) THEN FreeClerk ELSE After({me.path}))
           ELSE LET found == me.id \in Docs
                    new == IF found THEN Put(docs[me.id], me.patch) ELSE NoDoc
                    fits == found => OneCopy(me.id, new)
                IN  /\ docs' = IF found /\ fits THEN [docs EXCEPT ![me.id] = new] ELSE docs
                    /\ Takes(c, IF fits THEN After(me.drop) ELSE FreeClerk)
    /\ file_excuses' = file_excuses \cup FileCrossed(c)
    /\ UNCHANGED <<stored, file_calls, file_faults>>

\* Removed from the storage; a purge goes on to the row.
DropFiles(c) ==
    /\ clerk[c].pc = "drop"
    /\ stored' = stored \ clerk[c].drop
    /\ Takes(c, IF clerk[c].kind = "purge" THEN [clerk[c] EXCEPT !.pc = "delete"] ELSE FreeClerk)
    /\ file_excuses' = file_excuses \cup FileCrossed(c)
    /\ UNCHANGED <<docs, file_calls, file_faults>>

DeleteDoc(c) ==
    /\ clerk[c].pc = "delete"
    /\ docs' = [docs EXCEPT ![clerk[c].id] = NoDoc]
    /\ Takes(c, FreeClerk)
    /\ file_excuses' = file_excuses \cup FileCrossed(c)
    /\ UNCHANGED <<stored, file_calls, file_faults>>

\* A call raises: what was stored for the row is removed, an old print copy stays where it
\* is, and a purge whose file cannot be removed leaves the row alone ...
FileCallFails(c) ==
    /\ clerk[c].pc # "idle" /\ file_faults < MaxFileFaults
    /\ file_faults' = file_faults + 1
    /\ LET me == clerk[c]
       IN  /\ Takes(c, IF me.pc = "write" /\ me.path # NoFile THEN [me EXCEPT !.pc = "drop", !.drop = {me.path}] ELSE FreeClerk)
           /\ file_excuses' = file_excuses \cup (CASE me.pc = "delete" -> {"half_purged"}
                                                   [] me.pc = "drop" /\ me.kind # "purge" -> {"leftover"}
                                                   [] OTHER -> {})
    /\ UNCHANGED <<docs, stored, file_calls>>
\* ... and a process that dies leaves everything.
ClerkDies(c) ==
    /\ clerk[c].pc \in {"write", "drop", "delete"} /\ file_faults < MaxFileFaults
    /\ file_faults' = file_faults + 1
    /\ Takes(c, FreeClerk)
    /\ file_excuses' = file_excuses \cup (IF clerk[c].pc = "delete" THEN {"half_purged"} ELSE {"leftover"})
    /\ UNCHANGED <<docs, stored, file_calls>>

FilesNext ==
    \E c \in Clerks :
        \/ \E v \in FileViewers :
              \/ \E k \in Contents, f \in FolderIds \cup {Unfiled} : upload_document(c, v, <<"a">>, f, k)
              \/ \E id \in DocIds :
                    \/ \E p \in {[name |-> <<"b">>], [starred |-> TRUE]} \cup {[folder |-> f] : f \in FolderIds \cup {Unfiled}} :
                          update_document(c, v, id, p)
                    \/ \E action \in {"trash", "restore", "purge", "unstar"} : _apply_one(c, v, id, action)
                    \/ set_print_copy(c, v, id) \/ remove_print_copy(c, v, id)
        \/ reindex_documents(c)
        \/ LookAround(c) \/ StoreUpload(c) \/ WriteDoc(c) \/ DropFiles(c) \/ DeleteDoc(c)
        \/ FileCallFails(c) \/ ClerkDies(c)

\* Tables to begin with: each stored file belongs to one row, a folder has a content once
\* and a name once but for the trash.  The folders may be any, and change meanwhile.
Libraries ==
    {rows \in [DocIds -> Files \cup {NoDoc}] :
        LET There == {id \in DocIds : rows[id] # NoDoc}
            Live == {id \in There : ~rows[id].trashed}
        IN  /\ \A i \in There : rows[i].file = rows[i].print => rows[i].file = NoFile
            /\ \A i, j \in There : i # j =>
                   {rows[i].file, rows[i].print} \cap {rows[j].file, rows[j].print} \subseteq {NoFile}
            /\ \A i, j \in Live : i # j /\ rows[i].folder = rows[j].folder =>
                   rows[i].content # rows[j].content /\ rows[i].name # rows[j].name}
FilesBegin == \E rows \in Libraries : FilesInit(rows)
FilesSpec == FilesBegin /\ [][FilesNext]_file_vars

-----------------------------------------------------------------------------
(* What is shown. *)
search_documents(viewer, folder, trashed) ==
    LET wanted == Visible(viewer) \cap (IF folder = NoFolder THEN In(folders) \cup {Unfiled} ELSE descendant_ids(folders, folder))
    IN  {id \in Docs : docs[id].folder \in wanted /\ docs[id].trashed = trashed}

\* Every row is read and counted, folder by folder and then over what is below it.
overview(viewer) ==
    LET sub == Visible(viewer)
        mine == {id \in Docs : docs[id].folder \in sub}
        live == {id \in mine : ~docs[id].trashed}
        direct(f) == {id \in live : docs[id].folder = f}
    IN  [all |-> Cardinality(live), trashed |-> Cardinality(mine) - Cardinality(live),
         unfiled |-> Cardinality(direct(Unfiled)), starred |-> Cardinality({id \in live : docs[id].starred}),
         total |-> [f \in sub \ {Unfiled} |-> Cardinality(UNION {direct(d) : d \in descendant_ids(folders, f)})]]

-----------------------------------------------------------------------------
(* Properties *)
FilesTypeOK ==
    /\ \A id \in Docs : docs[id].content \in Contents
    /\ file_excuses \subseteq {"crossed", "half_purged", "leftover"}

\* A file out of the trash is in the storage with its print copy; what is in the storage
\* belongs to a row or to a request on its way.
StorageMatches ==
    /\ file_excuses \cap {"crossed", "half_purged"} = {} =>
           \A id \in Docs : ~docs[id].trashed => {docs[id].file, docs[id].print} \ {NoFile} \subseteq stored
    /\ file_excuses = {} =>
           stored \subseteq (UNION {{docs[id].file, docs[id].print} : id \in Docs})
                            \cup (UNION {{clerk[c].path} \cup clerk[c].drop : c \in Clerks})

\* Two live files of a folder differ in their names.
NamesDiffer ==
    "crossed" \notin file_excuses =>
        \A i, j \in Docs : i # j /\ docs[i].folder = docs[j].folder /\ ~docs[i].trashed /\ ~docs[j].trashed
                           => docs[i].name # docs[j].name

\* The numbers of the overview are the numbers of files the search finds.
NumbersAgree ==
    \A v \in FileViewers :
        LET shown == overview(v)
        IN  /\ shown.all = Cardinality(search_documents(v, NoFolder, FALSE))
            /\ shown.trashed = Cardinality(search_documents(v, NoFolder, TRUE))
            /\ \A f \in DOMAIN shown.total : shown.total[f] = Cardinality(search_documents(v, f, FALSE))

\* "The rules that make a file hard to lose": requests that follow one another, whichever of
\* their calls fail, keep rows and storage in step, through the trash and back, and no two files
\* of a folder look the same.  A write made while any other request is in flight, whatever its
\* document, ends both for good; the numbers agree always.
NoFileIsLost == FilesTypeOK /\ StorageMatches /\ NamesDiffer /\ NumbersAgree
=============================================================================
