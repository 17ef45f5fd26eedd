--------------------------- MODULE ResponseCache ---------------------------
(***************************************************************************)
(* One namespace of the response cache (src/app/cache.py): Redis shared by *)
(* every server process, a bounded memory store in each, and a breaker     *)
(* that skips Redis for a while after a failed call.  Reads are GET routes *)
(* that look in the cache, compute and store; writes change the resource   *)
(* and invalidate the namespace.  A process runs one handler at a time     *)
(* between two awaits: the calls of redis_client are the awaits.           *)
(***************************************************************************)
EXTENDS Integers, FiniteSets

CONSTANTS
    Servers,    \* server processes
    Keys,       \* cache keys of the namespace
    Requests,   \* requests that may run at once
    Writers,    \* those that may write
    Threaded,   \* keys whose handler reads the database in a thread
    SkipsInvalidation, \* some writer of the table does not invalidate
    HasRedis,   \* a Redis is configured
    MaxMemory,  \* _MEMORY_MAX_KEYS
    MaxWrites,  \* bound: writes in all
    MaxOutages  \* bound: times Redis goes away

ASSUME SettingAssumption ==
    Threaded \subseteq Keys /\ Writers \subseteq Requests /\ SkipsInvalidation \in BOOLEAN /\ HasRedis \in BOOLEAN
ASSUME SomeAssumption == Servers # {} /\ Keys # {}
ASSUME BoundAssumption ==
    MaxMemory \in Nat \ {0} /\ MaxWrites \in Nat /\ MaxOutages \in Nat

VARIABLES
    data,      \* the version of the resource in the database, from 1
    acked,     \* history: the newest version whose write was answered
    redis,     \* per key: the version stored, 0 for none
    keyset,    \* the Redis set cache:<namespace>:__keys__
    reachable, \* Redis answers
    outages,
    memory,    \* per process and key: the version stored, 0 for none
    expired,   \* memory entries past their TTL, not yet dropped
    up,        \* per process: not in cooldown
    pc, on, key,   \* per request: its next step, its process, its key
    value,     \* per request: the version it read, wrote or answers
    floor,     \* history, per request: `acked` when it began
    keys,      \* per request: what smembers answered
    spoiled    \* history: an invalidation was skipped, met a read that was
               \* storing, or Redis went away

store == <<redis, keyset>>
local == <<memory, expired, up>>
world == <<data, acked, reachable, outages>>
request == <<on, key, floor>>
vars == <<data, acked, redis, keyset, reachable, outages, memory, expired, up,
          pc, on, key, value, floor, keys, spoiled>>

TypeOK ==
    /\ data \in 1 .. MaxWrites + 1 /\ acked \in 1 .. data
    /\ redis \in [Keys -> 0 .. data] /\ keyset \subseteq Keys
    /\ reachable \in BOOLEAN /\ outages \in 0 .. MaxOutages
    /\ memory \in [Servers -> [Keys -> 0 .. data]]
    /\ expired \subseteq Servers \X Keys
    /\ up \in [Servers -> BOOLEAN]
    /\ pc \in [Requests -> {"idle", "get", "compute", "computed", "set", "sadd", "answer",
                            "write", "written", "members", "delete", "delete_set", "ack"}]
    /\ on \in [Requests -> Servers] /\ key \in [Requests -> Keys]
    /\ value \in [Requests -> 0 .. data] /\ floor \in [Requests -> 0 .. data]
    /\ keys \in [Requests -> SUBSET Keys]
    /\ spoiled \in BOOLEAN
    \* The memory store never holds more than _MEMORY_MAX_KEYS entries.
    /\ \A s \in Servers : Cardinality({k \in Keys : memory[s][k] # 0}) <= MaxMemory

AnyServer == CHOOSE s \in Servers : TRUE
AnyKey == CHOOSE k \in Keys : TRUE

Init ==
    /\ data = 1 /\ acked = 1
    /\ redis = [k \in Keys |-> 0] /\ keyset = {}
    /\ reachable = HasRedis /\ outages = 0
    /\ memory = [s \in Servers |-> [k \in Keys |-> 0]]
    /\ expired = {}
    /\ up = [s \in Servers |-> TRUE]
    /\ pc = [r \in Requests |-> "idle"]
    /\ on = [r \in Requests |-> AnyServer] /\ key = [r \in Requests |-> AnyKey]
    /\ value = [r \in Requests |-> 0] /\ floor = [r \in Requests |-> 0]
    /\ keys = [r \in Requests |-> {}]
    /\ spoiled = FALSE

-----------------------------------------------------------------------------
\* Between the database call of a handler and its next await no other
\* request of the same process runs, unless the call is made in a thread.
MayRun(r) ==
    \A q \in Requests \ {r} : on[q] = on[r] =>
        ~(pc[q] = "written" \/ (pc[q] = "computed" /\ key[q] \notin Threaded))

At(r, label) == pc[r] = label /\ MayRun(r)
Crossing ==
    /\ \E r \in Requests : pc[r] \in {"computed", "set", "sadd"}
    /\ \E r \in Requests : pc[r] \in {"written", "members", "delete", "delete_set"}

Go(r, label) ==
    /\ pc' = [pc EXCEPT ![r] = label]
    /\ spoiled' = (spoiled \/ Crossing')

\* A request answers: its locals go back to their initial values.
Over(r) ==
    /\ Go(r, "idle")
    /\ on' = [on EXCEPT ![r] = AnyServer] /\ key' = [key EXCEPT ![r] = AnyKey]
    /\ value' = [value EXCEPT ![r] = 0] /\ floor' = [floor EXCEPT ![r] = 0]
    /\ keys' = [keys EXCEPT ![r] = {}]

Begin(r, s, k, label) ==
    /\ pc[r] = "idle"
    /\ Go(r, label)
    /\ on' = [on EXCEPT ![r] = s] /\ key' = [key EXCEPT ![r] = k]
    /\ floor' = [floor EXCEPT ![r] = acked]
    /\ UNCHANGED <<world, store, local, value, keys>>

-----------------------------------------------------------------------------
(* Reads: cache_get, the handler, cache_set *)

\* A mutant: expired entries are served.
MemoryHitExpired(s, k) == memory[s][k]

\* _memory_hit: a live entry, or 0.
MemoryHit(s, k) == IF <<s, k>> \in expired THEN 0 ELSE memory[s][k]

Look(r, v) ==
    /\ value' = [value EXCEPT ![r] = v]
    /\ Go(r, IF v = 0 THEN "compute" ELSE "answer")
    /\ UNCHANGED <<request, keys, world, store>>

\* An expired entry is dropped on sight.
LookInMemory(r) ==
    LET s == on[r]  k == key[r] IN
    /\ Look(r, MemoryHit(s, k))
    /\ expired' = expired \ {<<s, k>>}
    /\ memory' = [memory EXCEPT ![s][k] = MemoryHit(s, k)]

Get(r) ==
    /\ At(r, "get")
    /\ \/ up[on[r]] /\ reachable /\ Look(r, redis[key[r]]) /\ UNCHANGED local
       \/ ~up[on[r]] /\ LookInMemory(r) /\ UNCHANGED up
       \/ /\ up[on[r]] /\ ~reachable
          /\ LookInMemory(r) /\ up' = [up EXCEPT ![on[r]] = FALSE]

Compute(r) ==
    /\ At(r, "compute")
    /\ value' = [value EXCEPT ![r] = data]
    /\ Go(r, "computed")
    /\ UNCHANGED <<request, keys, world, store, local>>

\* What a full memory store drops: the expired entries, then one live one.
Evictions(s, k) ==
    LET held == {j \in Keys : memory[s][j] # 0}
        live == {j \in held : <<s, j>> \notin expired}
    IN  IF Cardinality(held) < MaxMemory \/ k \in held THEN {{}}
        ELSE IF Cardinality(live) < MaxMemory THEN {held \ live}
        ELSE {(held \ live) \cup {j} : j \in live}

\* _memory_store, then Redis unless it is in cooldown.
MemoryStore(r) ==
    LET s == on[r]  k == key[r] IN
    /\ At(r, "computed")
    /\ \E gone \in Evictions(s, k) :
          /\ memory' = [memory EXCEPT ![s] = [j \in Keys |->
                 IF j = k THEN value[r] ELSE IF j \in gone THEN 0 ELSE @[j]]]
          /\ expired' = expired \ {<<s, j>> : j \in gone \cup {k}}
    /\ Go(r, IF up[s] THEN "set" ELSE "answer")
    /\ UNCHANGED <<request, value, keys, world, store, up>>

\* A mutant: the key is not recorded in the keyset.
AddNothing(r) ==
    /\ At(r, "sadd") /\ reachable
    /\ Go(r, "answer")
    /\ UNCHANGED <<request, value, keys, world, store, local>>

\* redis_client.set and .sadd, one await each.
SetRedis(r) ==
    /\ At(r, "set") /\ reachable
    /\ redis' = [redis EXCEPT ![key[r]] = value[r]]
    /\ Go(r, "sadd")
    /\ UNCHANGED <<request, value, keys, world, keyset, local>>

AddToKeyset(r) ==
    /\ At(r, "sadd") /\ reachable
    /\ keyset' = keyset \cup {key[r]}
    /\ Go(r, "answer")
    /\ UNCHANGED <<request, value, keys, world, redis, local>>

SetFails(r) ==
    /\ At(r, "set") \/ At(r, "sadd")
    /\ ~reachable
    /\ up' = [up EXCEPT ![on[r]] = FALSE]
    /\ Go(r, "answer")
    /\ UNCHANGED <<request, value, keys, world, store, memory, expired>>

Answer(r) ==
    /\ pc[r] = "answer"
    /\ Over(r)
    /\ UNCHANGED <<world, store, local>>

-----------------------------------------------------------------------------
(* Writes: the handler, invalidate_namespace *)

Write(r) ==
    /\ At(r, "write")
    /\ data <= MaxWrites
    /\ data' = data + 1
    /\ value' = [value EXCEPT ![r] = data + 1]
    /\ Go(r, "written")
    /\ UNCHANGED <<request, keys, acked, reachable, outages, store, local>>

\* A writer in a module that knows nothing of the cache.
WriteOnly(r) ==
    /\ SkipsInvalidation /\ At(r, "write")
    /\ data <= MaxWrites
    /\ data' = data + 1
    /\ value' = [value EXCEPT ![r] = data + 1]
    /\ pc' = [pc EXCEPT ![r] = "ack"]
    /\ spoiled' = TRUE
    /\ UNCHANGED <<request, keys, acked, reachable, outages, store, local>>

ClearMemory(r) ==
    /\ At(r, "written")
    /\ memory' = [memory EXCEPT ![on[r]] = [k \in Keys |-> 0]]
    /\ expired' = expired \ ({on[r]} \X Keys)
    /\ Go(r, "members")
    /\ UNCHANGED <<request, value, keys, world, store, up>>

Members(r) ==
    /\ At(r, "members") /\ reachable
    /\ keys' = [keys EXCEPT ![r] = keyset]
    /\ Go(r, IF keyset = {} THEN "delete_set" ELSE "delete")
    /\ UNCHANGED <<request, value, world, store, local>>

\* A mutant: the entries themselves stay.
DeleteNoKeys(r) ==
    /\ At(r, "delete") /\ reachable
    /\ Go(r, "delete_set")
    /\ UNCHANGED <<request, value, keys, world, store, local>>

DeleteKeys(r) ==
    /\ At(r, "delete") /\ reachable
    /\ redis' = [k \in Keys |-> IF k \in keys[r] THEN 0 ELSE redis[k]]
    /\ Go(r, "delete_set")
    /\ UNCHANGED <<request, value, keys, world, keyset, local>>

DeleteKeyset(r) ==
    /\ At(r, "delete_set") /\ reachable
    /\ keyset' = {}
    /\ Go(r, "ack")
    /\ UNCHANGED <<request, value, keys, world, redis, local>>

\* Logged; the breaker is left alone.
InvalidationFails(r) ==
    /\ At(r, "members") \/ At(r, "delete") \/ At(r, "delete_set")
    /\ ~reachable
    /\ Go(r, "ack")
    /\ UNCHANGED <<request, value, keys, world, store, local>>

Acknowledge(r) ==
    /\ pc[r] = "ack"
    /\ acked' = IF value[r] > acked THEN value[r] ELSE acked
    /\ Over(r)
    /\ UNCHANGED <<data, reachable, outages, store, local>>

-----------------------------------------------------------------------------
(* Time and Redis *)

RedisTtl(k) ==
    /\ redis[k] # 0
    /\ redis' = [redis EXCEPT ![k] = 0]
    /\ UNCHANGED <<spoiled, world, keyset, local, pc, request, value, keys>>

MemoryTtl(s, k) ==
    /\ memory[s][k] # 0 /\ <<s, k>> \notin expired
    /\ expired' = expired \cup {<<s, k>>}
    /\ UNCHANGED <<spoiled, world, store, memory, up, pc, request, value, keys>>

CooldownEnds(s) ==
    /\ ~up[s]
    /\ up' = [up EXCEPT ![s] = TRUE]
    /\ UNCHANGED <<spoiled, world, store, memory, expired, pc, request, value, keys>>

\* Redis goes away and comes back with what it held.
Outage ==
    /\ reachable /\ outages < MaxOutages
    /\ reachable' = FALSE /\ outages' = outages + 1 /\ spoiled' = TRUE
    /\ UNCHANGED <<data, acked, store, local, pc, request, value, keys>>

Recovery ==
    /\ ~reachable /\ HasRedis
    /\ reachable' = TRUE
    /\ UNCHANGED <<spoiled, data, acked, outages, store, local, pc, request, value, keys>>

-----------------------------------------------------------------------------
Step(r) ==
    \/ Get(r) \/ Compute(r) \/ MemoryStore(r) \/ SetRedis(r) \/ AddToKeyset(r)
    \/ SetFails(r) \/ Answer(r)
    \/ Write(r) \/ WriteOnly(r) \/ ClearMemory(r) \/ Members(r) \/ DeleteKeys(r) \/ DeleteKeyset(r)
    \/ InvalidationFails(r) \/ Acknowledge(r)

Next ==
    \/ \E r \in Requests, s \in Servers :
          \/ \E k \in Keys : Begin(r, s, k, "get")
          \/ r \in Writers /\ data <= MaxWrites /\ Begin(r, s, AnyKey, "write")
    \/ \E r \in Requests : Step(r)
    \/ \E k \in Keys : RedisTtl(k)
    \/ \E s \in Servers, k \in Keys : MemoryTtl(s, k)
    \/ \E s \in Servers : CooldownEnds(s)
    \/ Outage \/ Recovery

Spec == Init /\ [][Next]_vars

\* A request that began goes on, and every entry reaches its TTL.
FairSpec ==
    /\ Spec
    /\ \A r \in Requests : WF_vars(Step(r))
    /\ \A k \in Keys : WF_vars(RedisTtl(k))
    /\ \A s \in Servers, k \in Keys : WF_vars(MemoryTtl(s, k))

-----------------------------------------------------------------------------
(* Properties *)

\* "The next read after a write always sees fresh data instead of a stale
\* cache hit": a read that began after a write was answered sees that write,
\* while Redis answers, every writer invalidates, and no invalidation met a
\* read between its database call and the end of its cache_set.
FreshReads ==
    ~spoiled => \A r \in Requests : pc[r] = "answer" => value[r] >= floor[r]

\* The keyset "tracks every cache key ever written under a namespace, so
\* invalidation can delete them all": but for a cache_set that is just about
\* to add it, an entry in Redis is in the keyset.
EveryEntryIsTracked ==
    ~spoiled =>
        \A k \in Keys : redis[k] # 0 =>
            k \in keyset \/ \E r \in Requests : pc[r] = "sadd" /\ key[r] = k

\* "Stale at most until its TTL": whatever races and outages left behind, once
\* the last write is over the answers become the current data and stay so.
StaleUntilTtlAtMost ==
    <>[](\A r \in Requests : pc[r] = "answer" => value[r] = data)
=============================================================================
