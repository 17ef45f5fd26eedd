----------------------------- MODULE WorkOrders -----------------------------
(***************************************************************************)
(* One work order and the requests that edit it at the same time:          *)
(* PATCH, close (the single one and each row of bulk-close), delete (and   *)
(* each row of bulk-delete) and comment, from app/routers/maintenance.py.  *)
(* A person opens a form (seen), sends a request, and the handler reads    *)
(* the row (before), writes it, then appends its audit event: three calls, *)
(* with other requests between any two of them.                            *)
(***************************************************************************)
EXTENDS Integers, Sequences, FiniteSets

CONSTANTS
    Clients,      \* people with the job open in a form
    Managers,     \* those of them with a manager account
    Statuses,     \* statuses a PATCH may send, completed among them
    OrderKinds,   \* requests of this instance: patch, close, delete, comment
    PatchModes,   \* what an edit form sends back of the row it was opened with
    Keep,         \* a field the request does not send
    MaxOpened     \* bound: requests in all

ASSUME ClientAssumption == Managers \subseteq Clients
ASSUME StatusAssumption == {"pending", "in-progress", "completed"} \subseteq Statuses
ASSUME OrderKindAssumption == OrderKinds \subseteq {"patch", "close", "delete", "comment"}
ASSUME ModeAssumption == PatchModes \subseteq {"version", "updated_at", "none"}
ASSUME KeepAssumption == Keep \notin Statuses /\ Keep \notin BOOLEAN
ASSUME RequestAssumption == MaxOpened \in Nat

VARIABLES
    live,      \* the row exists
    row,       \* its columns; version is also its updated_at
    comments,  \* work_order_comments of the row
    trail,     \* maintenance_events, append-only
    stage,     \* per client: idle, open, read, write, append
    asked,     \* per client: what the request asks
    seen,      \* per client: the row its form was opened with
    before,    \* per client: the row its handler read
    event,     \* per client: the audit event its write decided on
    actual,    \* history, per client: the status move its write really made
    opened

order_vars == <<live, row, comments, trail, stage, asked, seen, before, event, actual, opened>>

Terminal == {"completed", "cancelled", "not-done"}
OrderRow == [status : Statuses, sign : BOOLEAN, version : Nat,
        started : Nat, completed : Nat, signed_off : Nat]   \* stamps: 0 is NULL
Request == [kind : OrderKinds, mode : {"version", "updated_at", "none"},
            status : Statuses \cup {Keep}, sign : BOOLEAN \cup {Keep}]
NoRequest == [kind |-> "none", mode |-> "none", status |-> Keep, sign |-> Keep]
Event == [action : {"updated", "closed", "deleted", "commented", "none"},
          from : Statuses \cup {Keep}, to : Statuses \cup {Keep}]
NoEvent == [action |-> "none", from |-> Keep, to |-> Keep]

OrdersTypeOK ==
    /\ live \in BOOLEAN
    /\ row \in OrderRow
    /\ comments \in Nat
    /\ trail \in Seq(Event)
    /\ stage \in [Clients -> {"idle", "open", "read", "write", "append"}]
    /\ asked \in [Clients -> Request \cup {NoRequest}]
    /\ seen \in [Clients -> OrderRow]
    /\ before \in [Clients -> OrderRow]
    /\ event \in [Clients -> Event]
    /\ actual \in [Clients -> Event]
    /\ opened \in 0 .. MaxOpened

\* As create_work_order leaves it: stamps empty whatever the status; an
\* unfinished status is the default.
NewRow == [status |-> "pending", sign |-> FALSE, version |-> 1,
           started |-> 0, completed |-> 0, signed_off |-> 0]

OrdersInit ==
    /\ live = TRUE
    /\ row = NewRow
    /\ comments = 0
    /\ trail = <<>>
    /\ stage = [c \in Clients |-> "idle"]
    /\ asked = [c \in Clients |-> NoRequest]
    /\ seen = [c \in Clients |-> NewRow]
    /\ before = [c \in Clients |-> NewRow]
    /\ event = [c \in Clients |-> NoEvent]
    /\ actual = [c \in Clients |-> NoEvent]
    /\ opened = 0

-----------------------------------------------------------------------------
(* Helpers *)

\* A request ends: its locals go, its answer (200, 403, 404, 409, 500) with it.
Done(c) ==
    /\ stage' = [stage EXCEPT ![c] = "idle"]
    /\ asked' = [asked EXCEPT ![c] = NoRequest]
    /\ seen' = [seen EXCEPT ![c] = NewRow]
    /\ before' = [before EXCEPT ![c] = NewRow]
    /\ event' = [event EXCEPT ![c] = NoEvent]
    /\ actual' = [actual EXCEPT ![c] = NoEvent]

Sent(value, old) == IF value = Keep THEN old ELSE value

\* _lifecycle_stamps, from the row as it was read; "now" is the new version.
LifecycleStamps(b, new, now) ==
    LET ends == new.status = "completed" /\ b.status # "completed"
        begins == ends \/ (new.status = "in-progress" /\ b.status # "in-progress")
    IN [new EXCEPT
          !.started = IF begins /\ b.started = 0 THEN now ELSE @,
          !.completed = IF ends /\ b.completed = 0 THEN now ELSE @,
          !.signed_off = IF ~b.sign /\ new.sign /\ b.signed_off = 0 THEN now ELSE @]

\* The columns a PATCH or a close sends, over the row as it stands now; the
\* stamps, though, were decided from `before`, and so was the status they
\* look at when none is sent.
Written(c) ==
    LET b == before[c]
        sent == [b EXCEPT !.status = Sent(asked[c].status, b.status),
                          !.sign = Sent(asked[c].sign, b.sign)]
        stamped == LifecycleStamps(b, sent, row.version + 1)
    IN [status |-> Sent(asked[c].status, row.status),
        sign |-> Sent(asked[c].sign, row.sign),
        version |-> row.version + 1,
        started |-> IF stamped.started # b.started THEN stamped.started ELSE row.started,
        completed |-> IF stamped.completed # b.completed THEN stamped.completed ELSE row.completed,
        signed_off |-> IF stamped.signed_off # b.signed_off
                       THEN stamped.signed_off ELSE row.signed_off]

-----------------------------------------------------------------------------
(* The handlers *)

\* A person opens the form.
Open(c) ==
    /\ stage[c] = "idle" /\ live
    /\ opened < MaxOpened
    /\ opened' = opened + 1
    /\ stage' = [stage EXCEPT ![c] = "open"]
    /\ seen' = [seen EXCEPT ![c] = row]
    /\ UNCHANGED <<live, row, comments, trail, asked, before, event, actual>>

\* What each kind of request may carry.  A close always writes "completed" and
\* nothing of the sign-off; it may send updated_at, a row of bulk-close cannot.
Sendable(r) ==
    CASE r.kind = "patch" -> r.mode \in PatchModes /\ (r.status # Keep \/ r.sign # Keep)
      [] r.kind = "close" -> r.mode # "version" /\ r.status = "completed" /\ r.sign = Keep
      [] OTHER -> r.mode = "none" /\ r.status = Keep /\ r.sign = Keep

Send(c, r) ==
    /\ stage[c] = "open"
    /\ Sendable(r)
    /\ r.kind = "delete" => c \in Managers
    /\ asked' = [asked EXCEPT ![c] = r]
    /\ stage' = [stage EXCEPT ![c] = "read"]
    /\ UNCHANGED <<live, row, comments, trail, seen, before, event, actual, opened>>

\* Writing the foreman block needs manager+; a value equal to the one read
\* is not a change.
SignOffAllowedToAll(c) == TRUE
SignOffAllowed(c) ==
    asked[c].sign # Keep /\ asked[c].sign # row.sign => c \in Managers

\* assert_unchanged and the first version check, both against the row read.
Unchanged(c) == asked[c].mode # "none" => row.version = seen[c].version

\* get_or_404, then every check the handler makes on what it read.
Read(c) ==
    /\ stage[c] = "read"
    /\ live
    /\ SignOffAllowed(c) /\ Unchanged(c)
    /\ asked[c].kind = "close" => row.status \notin Terminal
    /\ before' = [before EXCEPT ![c] = row]
    /\ stage' = [stage EXCEPT ![c] = "write"]
    /\ UNCHANGED <<live, row, comments, trail, asked, seen, event, actual, opened>>

Refuse(c) ==
    /\ stage[c] = "read"
    /\ \/ ~live
       \/ ~SignOffAllowed(c)
       \/ ~Unchanged(c)
       \/ asked[c].kind = "close" /\ row.status \in Terminal
    /\ Done(c)
    /\ UNCHANGED <<live, row, comments, trail, opened>>

\* UPDATE ... WHERE id = ? (AND version = ?): does it match a row?
MatchesById(c) == live
Matches(c) ==
    /\ live
    /\ asked[c].mode = "version" => row.version = seen[c].version

\* What diff_changes(before, saved) finds among the columns sent.
AuditEvent(c, saved) ==
    LET moved == asked[c].status # Keep /\ before[c].status # saved.status
        signed == asked[c].sign # Keep /\ before[c].sign # saved.sign
    IN CASE asked[c].kind = "close" ->
              [action |-> "closed", from |-> before[c].status, to |-> "completed"]
         [] moved -> [action |-> "updated", from |-> before[c].status, to |-> saved.status]
         [] ~moved /\ signed -> [action |-> "updated", from |-> Keep, to |-> Keep]
         [] OTHER -> NoEvent

Write(c) ==
    /\ stage[c] = "write"
    /\ asked[c].kind \in {"patch", "close"}
    /\ Matches(c)
    /\ row' = Written(c)
    /\ event' = [event EXCEPT ![c] = AuditEvent(c, row')]
    /\ actual' = [actual EXCEPT ![c] =
           [action |-> "none", from |-> row.status, to |-> row'.status]]
    /\ stage' = [stage EXCEPT ![c] = "append"]
    /\ UNCHANGED <<live, comments, trail, asked, seen, before, opened>>

\* No row matched: 409 with the current row, 500, or skipped in a batch.  A
\* comment on a deleted job fails its foreign key.
WriteMissed(c) ==
    /\ stage[c] = "write"
    /\ \/ asked[c].kind \in {"patch", "close"} /\ ~Matches(c)
       \/ asked[c].kind = "comment" /\ ~live
    /\ Done(c)
    /\ UNCHANGED <<live, row, comments, trail, opened>>

\* A DELETE that matches nothing succeeds all the same.  Comments cascade.
Delete(c) ==
    /\ stage[c] = "write"
    /\ asked[c].kind = "delete"
    /\ live' = FALSE
    /\ comments' = 0
    /\ event' = [event EXCEPT ![c] = [action |-> "deleted", from |-> Keep, to |-> Keep]]
    /\ stage' = [stage EXCEPT ![c] = "append"]
    /\ UNCHANGED <<row, trail, asked, seen, before, actual, opened>>

Comment(c) ==
    /\ stage[c] = "write"
    /\ asked[c].kind = "comment" /\ live
    /\ comments' = comments + 1
    /\ event' = [event EXCEPT ![c] = [action |-> "commented", from |-> Keep, to |-> Keep]]
    /\ stage' = [stage EXCEPT ![c] = "append"]
    /\ UNCHANGED <<live, row, trail, asked, seen, before, actual, opened>>

\* append_event never raises: the row is stored, or the failure is logged.
AppendEvent(c) ==
    /\ stage[c] = "append"
    /\ trail' = IF event[c] = NoEvent THEN trail ELSE Append(trail, event[c])
    /\ Done(c)
    /\ UNCHANGED <<live, row, comments, opened>>

AppendFails(c) ==
    /\ stage[c] = "append"
    /\ Done(c)
    /\ UNCHANGED <<live, row, comments, trail, opened>>

-----------------------------------------------------------------------------
OrdersNext == \E c \in Clients :
    \/ Open(c)
    \/ \E r \in Request : Send(c, r)
    \/ Read(c) \/ Refuse(c)
    \/ Write(c) \/ WriteMissed(c) \/ Delete(c) \/ Comment(c)
    \/ AppendEvent(c) \/ AppendFails(c)

OrdersSpec == OrdersInit /\ [][OrdersNext]_order_vars

-----------------------------------------------------------------------------
(* Properties *)

Saves(c) == stage[c] = "write" /\ stage'[c] = "append" /\ asked[c].kind \in {"patch", "close"}

\* A PATCH that sent the version its form was opened with only ever overwrites
\* that very row, whatever the requests that send less do around it.
VersionedSaveIsExclusive ==
    [][\A c \in Clients : Saves(c) /\ asked[c].mode = "version" => row = seen[c]]_order_vars

\* concurrency.py: "two people editing the same record must not silently
\* overwrite each other", for the saves that send updated_at as well.
NoSilentOverwrite ==
    [][\A c \in Clients : Saves(c) /\ asked[c].mode # "none" => row = seen[c]]_order_vars

\* Somebody wrote between the read and the write of a save: only a save that
\* sends no version can get that far.
Overtaken(c) == Saves(c) /\ row # before[c]

\* The foreman's sign-off appears and disappears only in a save sent by a
\* manager (SIGNOFF_FIELDS, "revoking a sign-off is the same authority as
\* giving one"), or in a save that was overtaken: the check looks at the row read.
SignoffByManager ==
    [][row'.sign # row.sign =>
          \/ \E c \in Managers : Saves(c)
          \/ \E c \in Clients : Overtaken(c) /\ asked[c].sign = before[c].sign]_order_vars

\* maintenance_events.py: "Every write to a work order ... leaves one row".
\* The event a versioned save decided on tells the status move it really made.
TrailTellsWhatChanged ==
    \A c \in Clients :
        stage[c] = "append" /\ asked[c].mode = "version" /\ actual[c].from # actual[c].to
            => event[c].from = actual[c].from /\ event[c].to = actual[c].to
=============================================================================
