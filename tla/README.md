# Verification of myofficebackend

TLA+ models, TLC runs and TLAPS proofs for the FastAPI backend in `src/`: a
maintenance, stores and personnel system over Supabase (PostgREST and its auth
service), with a Redis response cache. Every definition is translated from the
Python and SQL named next to it in `PROJECT.json` under `map`.

Contents: [how the program runs](#how-the-program-runs),
[components](#components), [modules](#modules-and-how-they-follow-the-code),
[runs](#runs), [fairness](#fairness), [proofs](#proofs),
[findings](#findings), [known limits](#known-limits),
[not modelled](#not-modelled), [plan](#plan).

## How the program runs

Handlers are `async def` functions that call Supabase through a synchronous
client: every `.execute()` is one HTTP request and one database statement, and no
handler opens a transaction. Within one server process a handler that does not
await (or leave work to a thread) runs to its end; but the app is served by
several processes, on serverless instances (`handler = Mangum(app)` at the end of
`main.py`), and the nightly cron retries its call. So between any two calls of a
handler any other handler may run, any call may fail, a reply may be lost after
its statement was committed, and a process may die. The modules take **one
database call as one atomic step**, and only what the database itself enforces
(unique indexes, foreign keys, triggers, the condition of an UPDATE) as atomic.

Where two handlers share the memory of a process (the response cache, the
sign-in cache) the unit is what runs between two awaits, and each call of Redis or
of a worker thread is a step.

## Components

| Part | State | Operations | Hard part | Correct when |
|---|---|---|---|---|
| Schedule generation (`routers/schedules.py`, ensure in `routers/compressors.py`) | `maintenance_schedules`, `maintenance_schedule_runs` (unique per schedule and due date) | create, PATCH, delete, generate: ensure the compressor routines, load due rows, then claim, insert, link, roll forward | cron, retry and button overlap; failures and lost replies; death between two calls | one job per due date; none skipped; catches up |
| Recurrence (`next_occurrence`) | - | a pure function of the columns and a date | month ends, leap years, unsorted and empty lists of months | strictly later, on a date the columns describe |
| Work orders (`routers/maintenance.py`, `maintenance_events.py`, `concurrency.py`) | `work_orders`, `work_order_comments`, append-only `maintenance_events` | PATCH, close, bulk close, delete, bulk delete, comment | read, decide, write in separate calls; old forms | no save lost that sent its version; stamps, sign-off and trail tell the truth |
| Work order numbers | the unique index on the number | POST with six tries; generator with one | everyone reads the same maximum; one page of 1000 rows | a free number unless there is real competition |
| Breakdowns and their jobs (`breakdown_links.py`, `routers/breakdowns.py`) | `breakdowns.work_order_id` | log a breakdown, raise its job, record downtime for a job, PATCH, delete either side | each creates the other; a link stored after both rows | downtime once per job; a job once per breakdown |
| Response cache (`cache.py`) | Redis entries and keyset, a bounded store per process, a breaker | cached read, invalidate | computed before and stored after an invalidation; outages | fresh after a write; stale no longer than the TTLs |
| Sign-in verification (`auth.py`), account changes (`routers/admin.py`) | `_auth_cache` per token, `_factor_cache` per user, in each process | `verify_token`; role, scope, activation, factor reset | several processes; a cached answer inside a cached answer; threads | changes seen at once where promised, within the TTL elsewhere |
| Overtime and leave (`routers/overtime.py`, `routers/leaves.py`, `overtime_conflicts.py`) | `overtime_requests`, `leaves` (linked by `overtime_id`) | create, edit, bulk edit, decide, bulk decide, delete, take as leave | check and write apart; shifts past midnight | no time booked twice; decisions stand; lieu leave is owed |
| Stock (`routers/issues.py`, `stock_levels.py`, quantity in `routers/spares.py`) | `stock_issues`, `spares.current_quantity` | issue, edit, delete an issue; adjust spares one by one | conditional UPDATE with retries; one spare of several fails | on hand + issued = last count |
| Protective equipment (`routers/ppe.py`, `ppe_conflicts.py`) | `ppe_records` (one open record per person, type and day), `ppe_events` (unique key), `ppe_matrix` | enter, PATCH, delete; issue, return, correct by event; set and apply the matrix | the record moves before its event is stored; a recalculation updates rows one by one | a key moves the register once; an expiry follows the matrix |
| Daily timesheets and their import (`routers/timesheets.py`, `routers/nec_timesheet_import.py`, `nec_import/`) | `timesheets` (unique per person and day), a job file with its review | save, PATCH, delete a day; upload, extract, review, preview, apply, cancel | read once, written row by row beside people saving by hand; retried after a crash; two scans of one person | a day's total is the sum of its parts; an import applied again changes nothing |
| Monthly sheets (`routers/artisan_timesheets.py`) | `artisan_timesheets` (unique per person and month) | create, PATCH, delete | leave read before, approved after | nobody works on a leave day |
| Stand-ins (`routers/rotation_covers.py`) | `rotation_covers` | create, PATCH, delete | check and write apart; a limited viewer sees part of the rows | one stand-in at a time, and never oneself |
| Compressor meters (`routers/compressors.py`, `compressor_register.py`) | `compressors`, `compressor_readings`, `maintenance_schedule`, alerts | enter and edit a unit, enter a day, sync from the register | a day follows the one before it; late and repeated entries | totals add up; the service that is due is scheduled |
| Scope (`scope.py`) | - | pure rules over a viewer and a row | a rule in a query and a rule in Python | what is listed may be opened, and the reverse |
| CRUD framework and registers of reports (`crud_router.py`, `db_helpers.py`, `pto`, `vfl`, `sheq_inspections`, `work_stoppage`, `pachedu`, `near_miss`, `safety_complaints`, `job_cards`, ...) | a table and its child table | list, get, create, update, delete, figures | several calls per save; items cleared and filled again | the items of one save; the viewer's slice |
| Requisitions, procedures, services (`requisitions.py`, `sops.py`, `services.py`) | the same, with numbers, revisions, signatures, attached files | create, save, sign, attach, archive | a column read, changed and written whole; a file and a row | revisions without gaps; what was signed or filed is kept |
| Document library (`documents.py`, `document_folders.py`, `document_rules.py`, `document_structure.py`) | `document_folders`, `documents`, the storage bucket | create, move, rename, delete folders, standard structure; upload, move, copy, trash, restore, purge, print copies | a tree read before and changed after; rows and storage apart | a tree; no file lost; names differ |
| Tools workspace (`tools_workspace.py`, `tools_workspace_set_types.py`) | tools, changes, sets and pieces, checks, plan, passes, accounts and sessions | issue, return, transfer, inspect, report, undo; make and issue sets; check; plan; sign; sign in | one versioned, idempotent call in the database, and everything around it outside | see `ToolRegister` to `ToolAccounts` below |
| Employees and their import (`routers/employees.py`, `employee_import.py`) | `employees`; the number, name and job copied into `overtime`, `leaves`, `ppe_records`; `employee_imports` | enter, edit and carry on, bulk normalise, delete; commit and undo an import | a number is a key that can be edited; up to six updates after the row, with or without foreign keys | a record stays with the person it was entered for |
| Audit and recently deleted (`audit.py`, `routers/recently_deleted.py`) | `deleted_records`, `audit_log` | copy and entry after each delete and insert; put a copy back | calls of their own after the fact, whose failure is only counted | what was deleted has its copy; a copy is put back once |

The other parts (rosters, imports of other systems, boards of one table each, reports) are listed in `PROJECT.json` under `components`
with the reason.

Interactions. Generation inserts into `work_orders`, takes its number there and
does not invalidate that namespace of the response cache. Logging a breakdown
calls `create_work_order`, which itself logs a breakdown for a breakdown job.
Taking overtime as leave writes the leave register through its own rules. Every
handler is reached through `verify_token`. The issue, edit and deletion of stock
share `adjust_stock` with each other and a table with the spares register. The
import of scanned timesheets writes the rows people save by hand; monthly sheets and
the import read the leave register. Registers, library and covers ask `scope.py` what
a viewer may see. In the Tools workspace a check raises incidents, an incident or a
failed inspection holds a tool back from being issued, and an inspection completes a
row of the plan. Every delete and insert of an audited table goes through the client of
`audit.py`, which writes its copy and its log entry before the handler goes on; an edit of
a person rewrites the rows of three other registers.

## Modules, and how they follow the code

**`ScheduleGeneration`** - one worker is one execution of `POST
/api/schedules/generate`; its `pc` names the call it is about to make:
`read_ensure`, `ensure`, `pick`, `claim`, `prepare` (the number and the machine, read
between the claim and the insert), `insert`, `release`, `link`, `advance`.
`runs` is `maintenance_schedule_runs`, a function on (schedule, due date), which
is exactly its UNIQUE constraint; `batch` is the list of rows loaded at the start
and not visited yet, with the due dates they had *then*. `raised` and
`abandoned` are history: every job ever inserted, deleted or not, and every claim a run
left behind before it had rolled its schedule. Managers create, patch and
delete schedules and delete jobs (whose run row is unlinked by the foreign key)
at any moment. `NextOccurrence` is a constant; what is assumed of it is
`OccurrenceAssumption`, and `Recurrence` is the function it stands for.

**`DueRegister`** - what generation promises, without runs, claims, workers or
failures: a schedule is entered and withdrawn, the one job of its present due date
is raised, and only then it moves on. `ScheduleGeneration` implements it
(`ImplementsDueRegister`: `state <- stored, due <- next_due, jobs <- raised`).

**`Recurrence`** - `next_occurrence`, `_clamp_dom` and the date arithmetic they
use; a behaviour rolls one schedule again and again. `Describes` says which dates
the columns mean without rolling anything.

**`WorkOrders`** - one job and its clients. `seen` is the row a form was opened
with, `before` the row the handler read, and the write acts on `row`: three
moments that need not agree. `Matches` is the WHERE of the UPDATE (with `version`
when the form sent one), `LifecycleStamps` is `_lifecycle_stamps`, `AuditEvent`
is `diff_changes` and the choice of action. Bulk close and bulk delete do the
same calls row by row.

**`WorkOrderNumbers`** - `GenerateNumber` reads one page of rows (all of them, or
any `PageCap` of them when there are more), `Insert` meets the unique index,
`Collide` counts a try, reads again and adds the offset.

**`BreakdownLinks`** - `link` is `breakdowns.work_order_id`. Each request kind is
an endpoint; those that create rows go through `InsertJob`, `FindShell`,
`InsertShell`, `StoreBreakdown` and `LinkBreakdown` in the order of the code.
`raced` records the ids that two requests worked on at the same time.

**`ResponseCache`** - one namespace. `redis`, `keyset` are shared, `memory`,
`expired` and `up` (the breaker) belong to a process. A value is the version of
the data it was computed from.

**`AuthCache`** - entries carry what is left of their TTL, in ticks; roles and
module limits are version numbers. `acked` is what an admin has been told. The
auth service and the lookup functions in the database are external.

**`Scope`** - the rules of every table (`TABLES`), `row_visible`, `apply_list_scope`,
`stamp_create` and the cache segment, over the part of the database a rule looks at.
No state; `ScopedRegister` and `RotationCovers` use it, `People_proofs` is about it.

**`ScopedRegister`, `CrudRouter`, `SafetyRegisters`, `FormRegisters`** - one register
in four layers, each extending the one before. `ScopedRegister` has the calls: a
handler is the sequence of calls it still has to make, a call is one action, any of
them may fail and end its handler. `CrudRouter` says which sequence the generic
endpoints are, `SafetyRegisters` those of seven reports, `FormRegisters` those of
requisitions, procedures and services. `table` is fixed for a behaviour. `saved` is
what the saves of a row, one after another, put into its child table.
An item carries the request that stored it (`by`), which stands for its id: an edit or a
deletion of one item is of that one (`Stored`). `RegisterTables` are the tables a behaviour
may be about, `Columns` what a row of any of them has that a property tells apart.

**`FolderTree`, `DocumentFiles`** - the library. A request reads the tree (the folder)
in one step and writes what it decided from it in a later one. `DocumentFiles` leaves
the folders alone. `library_excuses` and `file_excuses` name what crossed or stopped
half way.

**`CompressorMeters`** - one unit; `entry[e]` is an entry under way with what it has
read. `excuses` says which of the five ways of losing step the code has happened.

**`Timesheets`** - `job` is `job.json`, `clerk[i]` a request of the import and the
writes it has left, by the place of their line in the review (`SheetLines`), `hand[k]` a save
of a day. `_total_hours` moves a total by the
change of the fields the import owns, which is only right as long as the row is the
one that was read. **`MonthSheets`** - `late` and `unread` say which work on a leave
day the check could not see; a row dated outside the sheet's month is stored unchecked
(`DailyRow.date` is free text). **`RotationCovers`** - a request's `visible` are the rows
its viewer was shown, `unseen` those written since.

**`ToolRegister`** - `desk[d]` is what a request will send to
`tools_workspace_apply_change`, whose version check and idempotency key are in the
database (the SQL is mapped). **`SetCatalogue`** - the renumbering of a type's content
lines under its unique index. **`ToolSets`** - heads are rows of the register, pieces
rows of their own; `handed` counts what each key gave each person. The register's own
movements of a head (`issue_head`, `return_head`, `transfer_head`, `report_head`) and undo
and redo (`restore_head`, over `set_trail`) look at no piece.
**`ToolboxChecks`**, **`InspectionPlan`**, **`GatePasses`**, **`ToolAccounts`** - one
check, one plan of two quarters, one pass, the accounts; each says in its head comment
what one step is.

**`LeaveOvertime`** - one person's two registers. `req[c].unseen` collects the
rows changed since request `c` began: the one excuse the properties accept.

**`StockLevels`** - quantities per stock code and the requests that move them;
`call[c].todo` is what a request has yet to move. `baseline` is what there would
be had nothing been issued, as of the last count.

**`PPERegister`** - `ask[c]` is the call a request is about to make. `create_`,
`update_ppe_record` and `record_ppe_event` check and then write; `SelectRecords` and
`RecalculateRow` are the loop of `_apply_matrix_to_type`, `plan` the types
`apply_ppe_matrix_all` has left. Dates are months. `edit_department`, `EmployIn` and `FollowPerson` are what
`update_employee` writes into these records, `restore_record`, `PutRecordBack` and `MarkBack`
what Recently deleted does. `shared`, `unlogged`, `settled` and `drifted` are history: the
keys and records the code's promises do not cover.

**`DeletedRecords`** - the audited client. `office[o]` is a request and its next call,
`owed[o]` the copy (`keep`) and the entry (`note`) a write still owes: no request goes on
before they are made or refused (`Ready`). `copies` is `deleted_records`; of the log only
the entries of creates and deletes are counted. `restore_deleted`, `FindClash`, `PutBack`
and `MarkRestored` are the calls of one endpoint. `Fits` is what the tables accept: unique
numbers, the unique index of each table of records, and the foreign keys when `keys` says
that the integrity migration ran, which a deployment may or may not have done.

**`EmployeeRegister`** - extends it with the people and the records that name them.
`update_employee` reads, `FindNumber` looks for the new number, `SavePerson` writes the row
(with `ON UPDATE CASCADE` where there are keys), and `Follow` makes one update at a time of
those `_follow_changed_employee` lists. A delete looks through three tables
(`_records_that_use`) and then deletes. An import reads the register once, then creates,
fills or reads back each person, checks and issues each item, and stores its log; its undo
goes back over that log. `about` stands for name, designation, department and section.
`whose` is the person a record was entered for. `Concerns` says which people a request is
about, by id or by a number it names; `crossed` collects the people two requests are about
at once. `Tasks` are the orders in which kinds of requests may begin.

The `MC*` modules give constants their values and symmetry, where a `.cfg` alone cannot. `MCJobs`,
`MCRegisters`, `MCAuthCache`, `MCPeople` and `MCPaperwork` put modules that share nothing
into one run: `focus` picks the one a behaviour is about. Names in those modules carry a prefix of their own (`StockInit`,
`RecurrenceSpec`), which is what lets one module extend them all.

`A mutant:` in a comment marks an operator that is not part of the model: a
plausible bug in the definition after it, used to show that a property notices.

## Runs

| Run | Instance | What it shows |
|---|---|---|
| `jobs` | generation: 2 workers, 2 schedules (daily; every second day with one day's advance), days 0-1 and `FAR_FUTURE`, 2 edits by managers, one fault of any kind but a lost reply of the insert. One job: 2 people, one a manager; 3 requests of every kind, with and without a version, 3 statuses. Breakdowns: 2 requests at once, 4 in all, of 8 kinds; 2 jobs, 3 breakdowns, one failed call. Inspections: 2 tools in 2 places, 2 quarters of 2 days, 1 new tool, 2 readers, 1 failure | one job per due date, and generation implements `DueRegister`; versioned saves are exclusive; sign-off and trail; the link rules short of races; a planned day stands |
| `schedule_live` | 1 worker, 2 schedules, 1 compressor, 1 edit, 1 PATCH, one refused call, lost reply or crash | a due schedule catches up under the daily cron unless its date was abandoned; one routine per unit |
| `cache` | 1 process, 2 keys (one computed in a thread), a store of 1 entry, a reader and a writer, 1 write, 1 outage, a writer that may skip the invalidation | fresh reads, full tracking, staleness that ends |
| `auth` | tokens: 2 processes, 2 tokens of one account, a TTL of 2 ticks, a cache of 1 entry, requests of at most 1 tick, 1 change, 1 failure. Accounts: 2 usernames, 2 passwords, 2 requests at once, 3 in all, 1 failure, a lock-out after 1. Pass: 2 kinds of movement, 2 officers with all roles between them, 2 decisions at once, 5 requests, 1 failure. Check: 3 pieces (the name of one begins another's), 2 requests at once, 3 in all, 1 failure. | what takes effect at once, within a TTL, within two; sessions end with their password, an administrator stays; a pass is signed by all; a check is made once |
| `people` | leave and overtime: 2 requests at once, 4 in all, 2 days, a half-day and a noon-to-noon shift, three sets of handlers. Covers: 3 people, 3 rows, a full and a section view, 2 requests. Timesheets: 3 reviews, 3 days, 2 imports at once, a hand save, a leave change, a failure. Months: 2 people, 3 days of 2 months, 2 requests, 1 change of leave. Tools: 2 tools, 2 people, 2 desks, 3 calls. Catalogue: 3 lines, 4 calls, a failure. Sets: 2 sets of 2 pieces, queues of up to 3 names, 3 requests, a failure | no time booked twice, decisions stand, lieu leave is owed, imports add up, tools are with who the trail says, sets go out and come back whole |
| `paperwork` | 13 registers: 2 handlers of a full, a section and a department view, 3 rows over a page of 2, 1 refused call. Folders: 3, a depth of 2, a structure of 2, 2 requests at once, 3 in all, 1 failure. Files: 2 documents, 2 contents, the same | items of one save, the viewer's slice, revisions, signatures and files; a tree; no file lost |
| `registers` | stock: 2 requests at once, 3 in all, 2 codes, 2 issues of whole and half pieces, 2 tries per UPDATE, 1 count, 1 lost call or crash; recurrence: all seven types, 4 days of the month, 4 lists of months, month ends of 2023 and 2024 rolled to 2028; equipment: 2 requests at once, 3 in all, 2 records, 1 person moving between 2 departments, 2 types, intervals of 0 and 2 months over a default of 1, 3 keys, 1 lost call; numbers: 2 creators with 2 tries, 1 generator with a window of 2 rows, 3 jobs, a page of 3; meters: 2 entries at once, 2 days, 2 milestones, 1 failure, 1 edit; employees: 2 people, 2 numbers, 3 records, 2 requests at once, 3 in all of 14 orders of kinds, 3 copies, 2 workbooks of up to 3 rows, 1 failure or stop, with and without foreign keys | stock adds up; every roll is the next date; one event per movement; expiries follow the matrix; only competition costs a number; meters tally; records stay with their person; what was deleted is kept |
| `schedule_lost_reply`, `schedule_skipped`, `wo_updated_at`, `downtime_double`, `scope_takeover` | the smallest instance that shows it | a documented claim that does not hold, see [findings](#findings) |

Why the bounds are enough. The hazards are about *pairs*: two runs on one claim,
two saves of one row, a read that an invalidation meets, two requests over one
booking. Two actors on one object show each of them, and a second object shows that they
do not disturb a neighbour. Counters are bounded one above what a hazard takes: a failing call and what follows it; two tries, so that a retry can lose again; four
requests, so that two can be made before two others meet. A record of equipment that goes
from one person to another is left to the proof, which has any number of people; the run has
one, who changes department. The numbers stay
within their page of three rows, which is what the property supposes (see known limits
for a table beyond the page), and go beyond the generator's window of two. A table of
three rows does not fit its page of two. The orders of requests in `MCTasks` pair
every kind that writes people with every kind that reads or writes their records; all
orders of three kinds would not add a pair. Two quarters of two working days have a first
plan, a full day, and a plan wanted after its window. `MaxDate` 1 makes a schedule due twice and
lets it reach `FAR_FUTURE`. A TTL of two ticks has a moment inside, at and after
its end. A day of two half-days is the least with a shift over midnight. 2023-2028
holds a leap year, the years around it and every month of each; the properties look
one roll back, so more years repeat. Every bound is a constant whose comment says
`bound:`.

A run checks deadlock only where the system never stops by itself: the runs of generation
alone. The others end when their bounded requests are used up.

## Fairness

`ScheduleGeneration!FairSpec`: weak fairness of `Tick` (days pass), of
`GenerateStart` (`.github/workflows/generate-maintenance-work-orders.yml` calls
the endpoint every day) and of each worker's `Step` (a server goes on with a
request it took). Nothing makes a manager edit or a call fail. A crash ends a
run and the cron starts another; the claim it leaves stays for good, and the property names
the date (`abandoned`).

`ResponseCache!FairSpec`: weak fairness of each request's `Step` and of the TTLs
of both tiers. Redis need not come back; the breaker's cooldown need not end.

Every other run checks safety only.

## Proofs

All proofs are checked by tlapm to the last leaf, for every value of the constants
that meets the named assumptions of the module.

- **`ScheduleGeneration_proofs`** - `TypeCorrect`, and `OneJob`: no due date of a
  schedule ever gets two jobs, for any number of workers, schedules, dates and
  faults, provided `"insert_reply"` is not among the fault kinds. The invariant by
  itself is not inductive: a worker about to insert must know that nobody else can
  be. `ClaimInv` adds `JobKeepsRun` (every job of a live schedule keeps its run row,
  even when a manager deletes the job), `HolderKeepsRun` (a worker between claim and
  release has its run row and no job exists for it yet) and `OneHolder` (two workers
  do not hold one claim). A lost reply breaks `HolderKeepsRun`, which is exactly the
  counterexample of `schedule_lost_reply`. `Implements`: without lost replies and
  patched dates, every step is a step of `DueRegister` or none. `OnTimeInv` adds what
  that takes: a row held since an earlier read is harmless because the date it was
  read with has its job (`RowsAreKnown`), and while somebody works on a due date the
  schedule stays at it (`WorkersAreOnTime`, `OneWorker`). `OneRoutine`: as long as one run ends
  before the next, no unit gets two routines; what a run found missing stays missing while
  it inserts (`MissingIsMissing`), because a manager's new row carries no marker
  (`UnusedIsUnmarked`).
- **`WorkOrders_proofs`** - `TypeCorrect`, and `ExclusiveSaves`: a PATCH that sends
  its version overwrites the very row its form showed. The row's version grows with
  every write, so `seen` with the current version is the current row. From the same
  invariant, `TrailIsTrue`: a versioned save finds the row its handler read, so its event
  tells the move it made; and `ManagersSignOff`, with what the read allowed
  (`ReadAllowed`): a sign-off moves without a manager only in a save that was overtaken.
- **`ResponseCache_proofs`** - `AllTracked`, and `Fresh` with a Redis: for any number of
  processes, keys, writers and outages, until something spoils it, invalidations find
  every entry and reads are as new as what was answered before they began. `Sound` is the
  strengthening: nobody stores while somebody invalidates (`Calm`), an invalidation that
  has read the keyset holds every entry and after its delete there is none (`Cleared`), and
  what is stored or about to be is no older than any answered write or any about to be
  answered (`Recent`). That processes run one handler between two awaits is not needed.
- **`BreakdownLinks_proofs`** - `Singly` (`LinksAreSingle`), `NoLostDowntime`
  (`DowntimeRecorded`) and `TypeCorrect`. `LinksInv` adds what a request relies on between
  its calls: two requests over one id are in `raced` (`Alone`), a request about to
  insert a shell has found its job without one (`NoneYet`), a job has its shell once (`ShellsOnce`) and a
  breakdown its job (`RaisedOnce`), a delete under way found its breakdown free
  (`DeletesFree`), and a job that lacks its downtime has a request that still owes it
  (`Recorded`).
- **`AuthCache_proofs`** - `ChangesLand` (`ChangesTakeEffect`), `FreshWithinTtl`
  (`FreshAfterTtl`) and `TypeCorrect`, for any TTL, any number of processes, users and
  tokens. `AuthInv` says what an entry is worth (`GoodEntry`: it knows what was promised
  before it was read, and what stood unchanged for as long as the entry is old), the same
  of a remembered answer about factors (`GoodAnswer`), and of a verification under way what
  its calls up to now have found (`PromiseKept`, `Remembers`, `UpToDate`, `Gated`);
  `ReqsAgree`, that what one of them found and another is about to store do not contradict
  each other, because each may put its answer over the other's. That `_auth_cache` stays
  within `_AUTH_CACHE_MAX` is `Bounded`.
- **`Registers_proofs`** - what keeps numbers and quantities:
  `NumbersTyped` and `RefusedByRaces`: while the table fits a page (a generator's window), a
  409 means at least as many inserts by others as the request had tries, and a refused
  generator means an insert behind its read. `Progress` is the strengthening: each collision
  stands for an insert since the read before it.
  `StockTyped`: no quantity is ever negative or fractional, and a request always holds what
  its next call needs. `StockBalances` (`StockAddsUp`): what is on the shelf, what live issues
  hold and what is yet to move add up. The sums run over every issue and every request, so
  the proof follows how a step changes one term of each (`Total` over a finite set, by
  induction over it): what a request has left to move of a code changes by what the rows it
  writes hold of it less than before, or the code is out (`upset`).
  `OneEvent`: a key has moved the register of equipment once if it has its event and not at
  all if it has none, for any number of requests, keys and lost calls, except where an event
  was lost after its movement, its lookup failed, or two requests used one key at once. `KeyInv` adds where a
  key may be while it is under way. `ExpiryFollows` (`ExpiryFollowsMatrix`): the expiry an
  item of equipment has is the one of its matrix. `PPEAgrees` says, of every request between two
  calls, what it read that still holds or has `drifted` by now: who may still write what into
  a record, and with which matrix (`RequestAgrees`, `RecordAgrees`).
  `DeletedKept` (`DeletedIsKept`): what was deleted stays in Recently deleted, the log counts
  what is there, and a copy is put back once. `TrashInv` adds which copies and entries are
  still owed (`KeptOrOwed`), that entries and rows agree apart from them (`EntriesAgree`), and that a
  copy is being put back by one request at most unless it was reopened (`PutBackOnce`). It
  starts from any register and any workbooks of the right shape (`EmployeesBegin`).
  `MetersTally` (`MeterTallies`), for any number of readings, days, totals and milestones.
  `MetersInv` adds that an entry made alone finds the meter as it read it (`FoundHolds`), what
  each stored day and its total are worth (`DaysHold`, `TotalsHold`), and what the plan and the
  services say of the latest reading (`PlansHold`, `ServiceHolds`); the hours of the days are a sum
  over a set that grows by one, proved by the same induction.
  `RollsForward`: for every recurrence that is not a list of dates, from every calendar date
  of every year, the next occurrence is strictly later. This is what `OccurrenceAssumption`
  asks for. A list of dates is immediate (a member chosen among the later ones, or
  `FAR_FUTURE`) and checked by TLC.
- **`People_proofs`** - who is where: leave and overtime, for any requests, days, times and length of a day:
  `DecisionsAreKept` (`DecisionsStand`), `LeavePaysOvertime` (`LieuIsOwed`) and
  `NobodyTwice` (`NoDoubleBooking`, the first part of `BookedOnce`). They are properties of
  steps; `LeaveInv` says of a request under way what its reads found and no one has changed
  since (`Undecided`, `Owed`, `OvertimeClear`, `LeaveClear`), a row changed meanwhile being
  in its `unseen`.
  `StandsInOnce` (`OneStandIn`, the second part of `BookedOnce`), for any people, rotations
  and requests: `CoverInv` says of a request that has looked for overlaps that the rows it
  saw and nobody wrote since do not meet the one it is about to write.
  Of the rules of scope, which keep no state, `ListShowsWhatOpens`: the rule
  a list puts into its query and the rule by which a row is opened agree, for every
  table, viewer and row (the complaints open to every section are the one exception);
  `CreatedIsVisible`: a limited viewer may open what they created;
  `SegmentsSeparate`: two sessions share a cached answer only if they have the same
  limit, whichever of the stored shapes it came in; `SlicesAreApart`: clearing the
  order list of one department never takes a line of another.
  Of the Tools workspace, which shares nothing with these, `SafeAccounts` (`AccountsAreSafe`): a token dies with the
  password it was given for, and somebody stays administrator. `AccountInv` adds that a
  sign-in that has not overlapped a change holds the present password (`OpensCurrent`) and that,
  short of two role changes at once, the one under way leaves another administrator
  (`RolesGuarded`).
  `SignedPasses` (`PassesAreSigned`): an approved or printed pass has a signature of a
  holder of each role. `SignedOnce` says what a decision that has read the steps may rely on until it closes the
  pass, `MadeInOrder` the making of a pass from one call to the next.
  `EveryPieceOnce` (`CheckedOnce`): a check has each of its pieces once, none before it is
  submitted, and a piece has no two open incidents of one type that checks raised (those reported by
  hand are counted apart). `CheckInv` follows the list
  of entries a request has left to write (`ItemsToCome`, `ItemsWritten`). It supposes a set
  with a tool of the register among its pieces: a form of content lines alone may be
  submitted empty, and an empty one leaves no trace of a submission.
  `SheetsAddUp` (`ImportsAddUp`), of the daily timesheets, for any reviews, imports at once,
  saves by hand, changes of leave and failures. `SheetsInv` says of an import that nobody has
  disturbed that each write it has left is the one it would plan now, and that each line it
  has no write for is told by its day (`ClerkAgrees`); and of every write it has left that it
  keeps a total that adds up, if the row it writes over is one it knows (`GoodWrite`). The
  argument is about one write: made out again of the row it left, a patch changes nothing
  (`WrittenIsTold`), and it moves no other line of a review that names each day once
  (`WriteTells`). It starts from any table, and forms may send any hours: a day whose total was
  entered wrong is in `loose` until it is entered again.
  `NobodyOnLeave` (`NobodyWorksOnLeave`, the third part of `BookedOnce`), of the monthly
  sheets, for any people, days and requests: `MonthsInv` says of a save that checked its days
  that they meet no day of the leave it read; leave approved since makes a day `late`.
  `ToolsAccounted` (`ToolsAreAccountedFor`), of the register of tools, for any tools, people,
  desks and requests: the trail tells every change, only what is fit goes out and to somebody
  eligible, who leaves holds nothing. `ToolsInv` says of a request under way that the row it
  read is the row there or one of an earlier version (`ReadFrom`), so that a call the version
  lets through writes over what was checked; what a version does not cover, eligibility and
  the tools a person holds, is said of requests no other one crossed (`StillEligible`,
  `HoldsNothing`).
  `SetsWhole` (`SetsAreWhole`), of the sets, for any sets, pieces, people, queues and failures:
  a request sent again under its key hands nobody a second set, a set goes out only from the
  store, and received piece by piece or marked ready it comes back into the store only with
  its pieces fit. `KeyInv` counts: while one
  request hands out under a key, each person has at most as many sets as names it has passed
  (`OneHands`, `HandedOut`); `PiecesFit` says that what a return saw of the pieces still stands
  unless it was crossed.
- **`Paperwork_proofs`** - the registers of reports and forms, for any number of requests,
  rows, items and refused calls, whatever is sent:
  `OneSaveAtATime` (`ActionsAreOneSaves`), in every table of `RegisterTables`. `RegisterInv`
  says which calls a handler may have left and in which order (`Legal`: a list is filled right
  after it was cleared or its row stored, an object is stored before it is named), what the
  tables hold (`TablesHold`, `ItemsHold`), that a handler about to fill a list finds it empty
  unless another save crossed it (`FillsHold`), and that the items of a row are those its
  saves stored (`SavesHold`). The property's own conjuncts are its last part; without
  `FillsHold` and `Legal` it is not inductive.
  `RevisionsInARow` (`RevisionsHaveNoGaps`): `RevisionInv` adds that the revisions of a
  procedure are 1 to some n, and that who adds one has seen one of them or none; if others
  were added since, the unique index refuses it. It starts from any procedures whose revisions
  are numbered so.
  `SignaturesAndFilesKept` (`SignedAndFiledIsKept`): `SignatureInv` adds the version at which each stage was promised, and that who is about to
  sign has in the row it read every stage promised by then;
  `AttachmentInv` that no two attachments or requests have one stored object between them
  (`OneByName`, `FreshHold`), which holds because a name tells which request made it
  (`NamesHold`), and that an attachment that is listed has its object (`FilesThere`). It
  starts from services without attachments.
  `FilesKept` (`NoFileIsLost`), of the document library, for any number of requests, files
  and failed calls, whatever becomes of the folders: a file that is shown is stored with its
  print copy, a stored file belongs to a row or to a request, and live files of a
  folder differ in their names. `FilesInv` says that two rows, and two copies under way, never
  share a file (`RowsApart`, `CopiesApart`), that a path to come is used by nobody
  (`FreshPaths`), and that what a request read of its row, of a name and of the stored files holds
  until it has written, unless requests crossed (`RowHolds`, `NameHolds`, `FilesHold`). It starts
  from any library in which a file belongs to one row. On the way it proves that
  `unique_display_name` always finds a free number (`FreeName`: there are more numbers than
  names) and that the overview counts what a search finds (`SameFiles`).

What is assumed of the constants is named where they are declared: markers for "nothing
there" (`NullAssumption`, `NoCoverAssumption`, `AccountsAssumption`) are not themselves
rows, ids or accounts, contents of a set are finitely many (`ContentsAssumption`), counts
are numbers (`BoundsAssumption`), a form sends columns of a row and a viewer is limited to a
section or a department (`FormsAssumption`), ids of documents are finitely many and no document or folder is the
marker for none (`FilesAssumption`), there are finitely many requests and ids of issues
(`StockAssumption`) and officers, with ids that are positive numbers (`CopiesAssumption`),
workbooks have the columns of a row (`EmployeesAssumption`), there are finitely many sets and
names, queues and the pieces of a set are sequences (`SetNumberAssumption`, `QueueAssumption`,
`LinesAssumption`, `SetRowsAssumption`), no row of a tool is the marker for none
(`RowsAssumption`), people and days are finitely
many, and readings and forms give numbers (`TimesheetAssumption`), and days, totals and milestones are
numbers (`MeterAssumption`). TLC evaluates all of them on the instances of the runs.

Only model-checked:

- `DueIsEventuallyRaised` and `StaleUntilTtlAtMost`: temporal under fairness, which the prover
  cannot reach.
- `LibraryIsATree` follows chains of folders with a recursive function, and a step moves a
  whole subtree: what it says of loops and depth is induction over chains of any length.
- The first plan of `PlanStands` and `AnswersShowTheSlice` compare sequences built by
  `FlattenSeq`, `SelectSeq` and folds; the
  facts of the library about them take an operator, which no installed prover instantiates.
- `RollsToTheNextDate`: that a roll passes over no described date, a least element of a
  filtered year.
- `RecordsFindTheirPerson`.
- `MCTypeOK` of `MCAuthCache` and `TypeOK` of `MCPeople` are conjunctions of the type invariants
  of the modules composed there; those that belong to a theorem above are proved as parts of
  its invariant.

## Findings

Each is a run that TLC must find violated, stated from a sentence of the repository.

1. `schedule_lost_reply` - `_generate_one` releases its claim on any exception of
   the insert, also when the row was committed and only the reply lost; the next run
   raises the job again. The workflow and the migration both promise that a retry
   cannot.
2. `wo_updated_at` - `assert_unchanged` compares the row *read*; the UPDATE after it
   has no condition. Two forms that both send `updated_at` both pass, and the second
   silently overwrites the first. Only `version` closes the gap.
3. `downtime_double` - `POST /breakdowns` for a job classified as breakdown goes
   through `create_work_order`, which already stores a linked shell, and then stores
   its own breakdown too: the double entry `breakdown_links.py` says it removes.
4. `schedule_skipped` - the claim is released "rather than silently skipping this due
   date forever", but only where the insert itself fails. The number, the columns and the
   machine of the work order are read after the claim and outside that `try`: one refused
   call, and the date is skipped for ever.
5. `scope_takeover` - "both ends visible, before anything is written", and single records
   out of scope answer 404. `update_item` checks the row *as the patch would leave it* only,
   so a form that names the viewer's own section is let through to a row of another, which
   is then theirs. The same in `job_cards`, `pto`, `vfl`, `sops`, `services`,
   `sheq_inspections`, `work_stoppage`, `pachedu` and `near_miss`; `requisitions` and
   `safety_complaints` look at the row as it stands.

## Known limits

What the conditional properties leave out is not an oversight of the model: the
code does these things, and each property says where its promise stops.

- **Schedules.** A run that stops between claim and roll-forward leaves a claim every
  later run reads as "already generated"; the schedule is stuck (`routers/schedules.py:318`):
  by a crash, by any refused call but the insert's own, the release of the claim included, or
  by a lost reply of the claim. `abandoned` names these dates. A PATCH that sets `next_due_date` back to a claimed
  date does the same. A run under way overwrites a date that was just patched. Two
  overlapping ensures each add the routine of a compressor.
- **Recurrence.** `yearly` uses the first listed month only, in list order. When the
  first due date is not one the columns describe, the first roll may pass over a
  described date of the same month. The no-skip part of the property therefore starts from a described date.
- **Work orders.** Saves without a version: an overtaken save can stamp again, clear a
  sign-off it never saw, or close what is closed; the event of such a save compares
  with the row read. An audit append that is refused leaves no event, as its comment
  accepts. Two deletes that both read the row leave two events.
- **Numbers.** Past 1000 rows the one-page read misses the newest and every try
  collides. The generator has no retry. A deleted highest number is given out again.
- **Breakdowns.** Two requests that look for one job's shell at once both insert it;
  a failed link lets a second job be raised; a delete can pass a raise that links
  meanwhile.
- **Cache.** A read that computed before an invalidation and stored after it; an
  invalidation Redis refused; without a Redis, the memory of every process but the
  writer's; a key added between the read and the delete of the
  keyset; a writer that invalidates nothing (the generator). All end with the TTLs,
  which is `StaleUntilTtlAtMost`.
- **Sign-in.** `invalidate_user` clears one process; a verification under way stores
  what it read before; a remembered factor answer folded into an entry lives up to two
  TTLs; any failure of the limits lookup falls back to the one that knows no modules.
  The permissions document is read and written back whole (`routers/admin.py:291`), so
  two changes at once keep one.
- **Overtime and leave.** Checks and writes are apart, so two saves may land on each
  other; a bulk edit checks all rows before it writes any; a locked row may be decided
  between the check and the write. Overtime may be turned into cash after its leave
  was taken. `leaves.py:163` accepts an `overtime_id` from the form, which the comment
  at its line 33 reserves for take-as-leave.
- **Stock.** A shortfall is cut off at zero, and deleting that issue puts back the full
  quantity; two deletions of one issue put back twice; half units are rounded to
  even, half a unit off per adjustment; a failed, missing or abandoned spare is
  reported, not repaired; a count taken while a request is moving stock mixes both.
  `upset` and `drift` name exactly these, and a count ends them.
- **Protective equipment.** The record moves first and its event is stored after it,
  although the endpoint is described as "one atomic server write": when the event is
  lost, a retry with the same key is refused (an issue finds its own record a
  duplicate, a return finds it returned) or writes a correction again. Two requests
  with one key at once both look for the event before either stores it, and a lookup that
  fails is taken for no event (`routers/ppe.py:1474`), so that a key with its event moves the
  register again. The last of
  two overlapping recalculations wins, whichever matrix it read; the company's
  recalculation also overwrites the records of a department with a matrix of its own;
  a matrix that cannot be read is answered by the defaults, or by any scope's row,
  and recalculated by. A PATCH or correction of an issue date leaves the expiry alone
  until the type is applied again; so do a move of the person to another department
  (`routers/employees.py:149`) and a row put back from Recently deleted. `drifted` names the
  places, and `settled` leaves out the rows, for which this is so.

- **Reports and forms.** Two saves of one report, or a save that fails between clearing
  and filling its actions, leave none or both lists (`routers/pto.py:649`). Of two signatures of one record that both looked before either wrote the last
  is kept, although `routers/services.py:306` means to
  keep the others. A save that names a section or a department is checked
  against that one and not against the row it changes (`scope_takeover`), and so
  `AnswersShowTheSlice` lets it take a row over. The figures of some registers are counted over the first page of
  1000 rows. A requisition's number is checked among the rows its viewer may see.
- **Documents.** Two moves that cross can make a loop of folders; the standard structure
  is set up without a check of depth. A purge that removed the file and failed before the
  row leaves a row without one, and so does a purge beside a restore.
- **Compressor meters.** A reading for an earlier day is not carried into the later ones
  (`recalculate_subsequent_readings` is never called) and sets the service schedule by its
  own total.
- **Tools.** `_apply_set_change` sends `before_state` and `after_state` where the deployed
  function reads `tool_id` and `expected_version`, so a movement of linked tools is
  refused; it is not modelled. `_make_physical_set` leaves out `created_by`, which
  `set_lines` requires: the head stays without pieces and is handed out next (`defaults`
  is whether the deployment fills it in). Moving a content line up renumbers through a
  number that is taken and is refused. Undo and redo have no version check, and redo takes the newest undone change.
  The head of a set is also a tool: returned in the ordinary way, transferred, extended,
  undone or redone it is available, or out, whatever its pieces are. A transfer or extension of a tool with an open incident sets
  it back to issued. An inspection or incident whose update of the tool is refused stays
  without effect. A batch whose answer was lost gives out sets again; a person named by
  id and by number gets two. A check submitted again after a failure repeats its items,
  and looks for open incidents by a part of the piece's name; an incident reported by hand
  looks for none (`tools_workspace.py:939`), so a piece may have several open of one type. A pass can be decided while
  it is made, and a refusal that fails between step and pass leaves it pending. Two
  administrators can demote each other; two first sign-ups both become one. A plan first
  made inside its window can plan days that are past.
- **Timesheet import.** A preview writes the job back as it loaded it, so a cancel in
  between is lost; a new review or extraction revives a cancelled job; an import refused
  for duplicate sheets is recorded as completed. A night written on a leave day never
  reaches the day's total; a save by hand between the import's read and write leaves a
  total that is not its parts; an insert refused by the unique index stops half way. Two
  sheets of one person, one by number and one by name, are not seen as duplicates.
- **Employees.** The number is carried on table by table after the row is saved
  (`routers/employees.py:137`), by the old number alone: somebody given that number
  meanwhile has their records moved along, and a failure half way leaves the rest under a
  number nobody has. An overtime or leave form opened before the edit enters the old
  number. Bulk normalisation (line 262) and the blanks an import fills are not carried into
  the copies. Two edits of one person each carry on from the row they read. A delete looks
  for records and then deletes; without the foreign keys a record entered between them is
  left with nobody. An import that fails before its log is stored cannot be undone, and one
  whose person was deleted before it read them back issues equipment without a number.
- **Recently deleted.** A refused copy or log entry is counted and never written again. A
  restore puts back the number, name and job the row had, whatever was edited since; one
  whose mark is lost can be repeated once the row is deleted again.
- **Covers and monthly sheets.** The overlap check misses rows hidden from a limited
  viewer; two PATCHes of one row can make somebody stand in for themselves. A PATCH of
  the person or month of a sheet without its days checks no leave, and a day outside the
  sheet's month is looked up in no leave.

## Not modelled

Listings and figures are modelled where a property is about them (the registers of
reports, the library, compressors); the other reports and exports read tables and change
none. Notification mail, spreadsheets, rendering of PDFs and seeds are I/O; the storage of
files is modelled for documents and services. The auth service, PostgREST, Redis and the
Python calendar are external: modelled as far as `src/` relies on them, and marked so in
the map. Of `spares` only the quantity is modelled, one row per code; of breakdowns, work
orders and requests only the columns the properties tell apart. Who may call an endpoint is
modelled where a property is about it (sign-off, locked requests, passes, scope), not in
general; `module_access.py` is one membership test. Boards of one table each (notices,
handover, contractors, ...) repeat the handlers of `CrudRouter`.

## Plan

1. The PPE order list over `Scope`; the budgets that freeze it.
2. The e-maintenance import of jobs, beside people creating them.
3. Duty and standby rosters with the covers: who is on duty on a date.
4. Proofs: `LibraryIsATree`, by a rank for every folder in place of its chain; an abstract
   "fresh within the TTLs" that `ResponseCache` refines.
