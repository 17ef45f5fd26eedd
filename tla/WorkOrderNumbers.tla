-------------------------- MODULE WorkOrderNumbers --------------------------
(***************************************************************************)
(* How a work order gets its number: max + 1, read first and inserted      *)
(* after, under the unique index uq_work_orders_number.  POST /work-orders *)
(* (maintenance.py) retries a collision with a fresh read and a growing    *)
(* offset; the schedule generator (schedules.py) tries once.               *)
(***************************************************************************)
EXTENDS Integers, FiniteSets

CONSTANTS
    Creators,     \* requests to POST /work-orders that may run at once
    Generators,   \* executions of _generate_one
    MaxAttempts,  \* tries of one request: 6
    PageCap,      \* rows an unpaginated select returns at most: 1000
    Recent,       \* rows the generator looks at: 200
    MaxJobs,      \* bound: inserts in all
    MaxNumber     \* bound: the highest number looked for

ASSUME ActorAssumption == Creators \cap Generators = {}
ASSUME BoundAssumption ==
    /\ MaxAttempts \in Nat \ {0} /\ PageCap \in Nat \ {0} /\ Recent \in Nat \ {0}
    /\ MaxJobs \in Nat /\ MaxNumber \in Nat

Actors == Creators \cup Generators

VARIABLES
    rows,      \* work_orders: id and the trailing digits of its number
    inserted,  \* jobs ever inserted, the last id
    pc,        \* per actor: idle, read, insert, gave_up
    attempt,   \* per creator: tries that collided
    number,    \* per actor: the number it read for itself
    start,     \* history: `inserted` when the request began
    base       \* history: `inserted` at its last read

number_vars == <<rows, inserted, pc, attempt, number, start, base>>

NumbersTypeOK ==
    /\ rows \subseteq [id : Nat, number : Nat]
    /\ inserted \in 0 .. MaxJobs
    /\ pc \in [Actors -> {"idle", "read", "insert", "gave_up"}]
    /\ attempt \in [Actors -> 0 .. MaxAttempts]
    /\ number \in [Actors -> Nat]
    /\ start \in [Actors -> Nat]
    /\ base \in [Actors -> Nat]

NumbersInit ==
    /\ rows = {}
    /\ inserted = 0
    /\ pc = [a \in Actors |-> "idle"]
    /\ attempt = [a \in Actors |-> 0]
    /\ number = [a \in Actors |-> 0]
    /\ start = [a \in Actors |-> 0]
    /\ base = [a \in Actors |-> 0]

-----------------------------------------------------------------------------
\* What .execute() without a range returns: every row, or, past the page cap,
\* a page of them in no stated order.
Pages == IF Cardinality(rows) <= PageCap THEN {rows}
         ELSE {page \in SUBSET rows : Cardinality(page) = PageCap}

\* A mutant: the same window in ascending order.
OldestRows == {r \in rows : Cardinality({q \in rows : q.id < r.id}) < Recent}

\* .order('id', desc=True).limit(200)
LatestRows == {r \in rows : Cardinality({q \in rows : q.id > r.id}) < Recent}

IsHighest(n, page) ==
    /\ \A r \in page : r.number <= n
    /\ n = 0 \/ \E r \in page : r.number = n

Taken(n) == \E r \in rows : r.number = n

\* The request or the schedule run is over.
Over(a) ==
    /\ pc' = [pc EXCEPT ![a] = "idle"]
    /\ attempt' = [attempt EXCEPT ![a] = 0]
    /\ number' = [number EXCEPT ![a] = 0]
    /\ start' = [start EXCEPT ![a] = 0]
    /\ base' = [base EXCEPT ![a] = 0]

Begin(a) ==
    /\ pc[a] = "idle"
    /\ pc' = [pc EXCEPT ![a] = "read"]
    /\ start' = [start EXCEPT ![a] = inserted]
    /\ UNCHANGED <<rows, inserted, attempt, number, base>>

\* _generate_wo_number(offset=attempt) and _next_work_order_number()
GenerateNumber(a, page) ==
    /\ pc[a] = "read"
    /\ \E n \in 0 .. MaxNumber :
          /\ IsHighest(n, page)
          /\ number' = [number EXCEPT ![a] = n + 1 + attempt[a]]
    /\ pc' = [pc EXCEPT ![a] = "insert"]
    /\ base' = [base EXCEPT ![a] = inserted]
    /\ UNCHANGED <<rows, inserted, attempt, start>>

\* The unique index lets the number in.
Insert(a) ==
    /\ pc[a] = "insert"
    /\ ~Taken(number[a])
    /\ inserted < MaxJobs
    /\ inserted' = inserted + 1
    /\ rows' = rows \cup {[id |-> inserted + 1, number |-> number[a]]}
    /\ Over(a)

\* 23505: read again with the next offset, or answer 409 after the last try.
Collide(c) ==
    /\ pc[c] = "insert"
    /\ Taken(number[c])
    /\ attempt' = [attempt EXCEPT ![c] = @ + 1]
    /\ pc' = [pc EXCEPT ![c] = IF attempt[c] + 1 < MaxAttempts THEN "read" ELSE "gave_up"]
    /\ UNCHANGED <<rows, inserted, number, start, base>>

\* The generator has no retry: the insert raises and the claim is released.
Refused(g) ==
    /\ pc[g] = "insert"
    /\ Taken(number[g])
    /\ pc' = [pc EXCEPT ![g] = "gave_up"]
    /\ UNCHANGED <<rows, inserted, attempt, number, start, base>>

\* Any other failure of a call answers 500; a 409 or a failed schedule run is
\* tried again later by a person or the next cron.
Ends(a) ==
    /\ pc[a] # "idle"
    /\ Over(a)
    /\ UNCHANGED <<rows, inserted>>

\* DELETE of a job by a manager frees its number.
Delete(r) ==
    /\ rows' = rows \ {r}
    /\ UNCHANGED <<inserted, pc, attempt, number, start, base>>

NumbersNext ==
    \/ \E a \in Actors : Begin(a) \/ Insert(a) \/ Ends(a)
    \/ \E c \in Creators : Collide(c) \/ \E page \in Pages : GenerateNumber(c, page)
    \/ \E g \in Generators : Refused(g) \/ GenerateNumber(g, LatestRows)
    \/ \E r \in rows : Delete(r)

NumbersSpec == NumbersInit /\ [][NumbersNext]_number_vars

-----------------------------------------------------------------------------
(* Properties *)

\* "We regenerate the next free number and retry instead of erroring": a
\* request answers 409 only when others took a number from it on every try.
GivesUpOnlyUnderLoad ==
    \A c \in Creators :
        pc[c] = "gave_up" => inserted - start[c] >= MaxAttempts

\* "Generation runs single-threaded from cron so this is safe today": a
\* generator is refused only if somebody created a job after it read.
RefusedOnlyByARace ==
    \A g \in Generators : pc[g] = "gave_up" => inserted > base[g]

\* Nobody is refused a number but by others who took one meanwhile: both of the above.
RefusedOnlyByRaces == GivesUpOnlyUnderLoad /\ RefusedOnlyByARace
=============================================================================
