------------------------ MODULE ResponseCache_proofs ------------------------
(***************************************************************************)
(* Theorems about ResponseCache, for any number of processes, keys,        *)
(* requests, writes and outages.                                           *)
(***************************************************************************)
EXTENDS ResponseCache, TLAPS

USE DEF world, store, local, request

Labels == {"idle", "get", "compute", "computed", "set", "sadd", "answer",
           "write", "written", "members", "delete", "delete_set", "ack"}

\* Every version held anywhere is one the resource has had, and a request began
\* no later than now.
Versions ==
    /\ data \in Nat /\ acked \in 0 .. data
    /\ redis \in [Keys -> 0 .. data] /\ keyset \subseteq Keys
    /\ memory \in [Servers -> [Keys -> 0 .. data]]
    /\ pc \in [Requests -> Labels]
    /\ on \in [Requests -> Servers] /\ key \in [Requests -> Keys]
    /\ value \in [Requests -> 0 .. data] /\ floor \in [Requests -> 0 .. acked]
    /\ keys \in [Requests -> SUBSET Keys]

\* Without a Redis nothing is ever stored in one.
Offline == ~HasRedis => ~reachable /\ \A k \in Keys : redis[k] = 0

Storing(r) == pc[r] \in {"computed", "set", "sadd"}

\* Until something spoils it: Redis answers and is asked, nobody stores while
\* somebody invalidates, ...
Calm == reachable /\ (\A s \in Servers : up[s]) /\ ~Crossing
Tracked == \A k \in Keys : redis[k] # 0 => k \in keyset \/ \E r \in Requests : pc[r] = "sadd" /\ key[r] = k
\* ... an invalidation has found every entry, and leaves none, ...
Cleared ==
    \A r \in Requests :
        /\ pc[r] = "delete" => \A k \in Keys : redis[k] # 0 => k \in keys[r]
        /\ pc[r] = "delete_set" => \A k \in Keys : redis[k] = 0
\* ... and what is stored, or about to be, is no older than a version.
NoOlder(v) ==
    /\ \A k \in Keys : redis[k] # 0 => redis[k] >= v
    /\ \A q \in Requests : Storing(q) => value[q] >= v
Recent ==
    /\ NoOlder(acked)
    /\ \A r \in Requests : pc[r] = "ack" => NoOlder(value[r])
    /\ \A r \in Requests : pc[r] = "answer" => value[r] >= floor[r]

Sound == Calm /\ Tracked /\ Cleared /\ Recent
CacheInv == Versions /\ Offline /\ (HasRedis /\ ~spoiled => Sound)

-----------------------------------------------------------------------------
LEMMA Chosen == AnyServer \in Servers /\ AnyKey \in Keys
BY SomeAssumption DEF AnyServer, AnyKey

LEMMA Initially == Init => CacheInv
<1> SUFFICES ASSUME Init PROVE CacheInv
  OBVIOUS
<1> USE DEF Init
<1>1. Versions
  BY Chosen DEF Versions, Labels
<1>2. Offline
  BY DEF Offline
<1>3. HasRedis => Sound
  BY DEF Sound, Calm, Crossing, Tracked, Cleared, Recent, NoOlder, Storing
<1> QED BY <1>1, <1>2, <1>3 DEF CacheInv

-----------------------------------------------------------------------------
(* Versions. *)

LEMMA HitIsVersion ==
    ASSUME Versions, NEW s \in Servers, NEW k \in Keys
    PROVE  MemoryHit(s, k) \in 0 .. data
BY DEF Versions, MemoryHit

LEMMA OverVersions ==
    ASSUME Versions, NEW r \in Requests, Over(r), acked' \in acked .. data, UNCHANGED <<data, redis, keyset, memory>>
    PROVE  Versions'
<1>1. floor' \in [Requests -> 0 .. acked']
  BY DEF Over, Versions
<1> QED BY <1>1, Chosen DEF Over, Go, Versions, Labels

LEMMA ReadVersions ==
    ASSUME Versions, NEW r \in Requests,
           Get(r) \/ Compute(r) \/ MemoryStore(r) \/ SetRedis(r) \/ AddToKeyset(r) \/ SetFails(r)
    PROVE  Versions'
<1> USE DEF Versions, At, Go, Labels
<1>1. CASE Get(r)
  <2>1. on[r] \in Servers /\ key[r] \in Keys
    OBVIOUS
  <2>2. ASSUME NEW v \in 0 .. data, Look(r, v), memory' \in [Servers -> [Keys -> 0 .. data]] PROVE Versions'
    BY <2>2 DEF Look
  <2>3. redis[key[r]] \in 0 .. data
    BY <2>1
  <2>4. [memory EXCEPT ![on[r]][key[r]] = MemoryHit(on[r], key[r])] \in [Servers -> [Keys -> 0 .. data]]
    BY <2>1, HitIsVersion
  <2>5. CASE LookInMemory(r)
    BY <2>1, <2>2, <2>4, <2>5, HitIsVersion DEF LookInMemory
  <2>6. CASE Look(r, redis[key[r]]) /\ UNCHANGED local
    BY <2>2, <2>3, <2>6
  <2> QED BY <1>1, <2>5, <2>6 DEF Get
<1>2. CASE Compute(r)
  BY <1>2 DEF Compute
<1>3. CASE MemoryStore(r)
  <2>1. PICK gone \in Evictions(on[r], key[r]) :
          memory' = [memory EXCEPT ![on[r]] = [j \in Keys |->
                        IF j = key[r] THEN value[r] ELSE IF j \in gone THEN 0 ELSE @[j]]]
    BY <1>3 DEF MemoryStore
  <2>2. memory' \in [Servers -> [Keys -> 0 .. data]]
    BY <2>1
  <2> QED BY <1>3, <2>2 DEF MemoryStore
<1>4. CASE SetRedis(r)
  BY <1>4 DEF SetRedis
<1>5. CASE AddToKeyset(r) \/ SetFails(r)
  BY <1>5 DEF AddToKeyset, SetFails
<1> QED BY <1>1, <1>2, <1>3, <1>4, <1>5

LEMMA WriteVersions ==
    ASSUME Versions, NEW r \in Requests,
           Write(r) \/ WriteOnly(r) \/ ClearMemory(r) \/ Members(r) \/ DeleteKeys(r) \/ DeleteKeyset(r) \/ InvalidationFails(r)
    PROVE  Versions'
<1> USE DEF Versions, At, Go, Labels
<1>1. CASE Write(r) \/ WriteOnly(r)
  <2>1. /\ data' = data + 1 /\ value' = [value EXCEPT ![r] = data + 1]
        /\ \E label \in Labels : pc' = [pc EXCEPT ![r] = label]
        /\ UNCHANGED <<acked, redis, keyset, memory, on, key, floor, keys>>
    BY <1>1 DEF Write, WriteOnly
  <2>2. redis' \in [Keys -> 0 .. data']
    BY <2>1
  <2>3. memory' \in [Servers -> [Keys -> 0 .. data']]
    BY <2>1
  <2>4. value' \in [Requests -> 0 .. data']
    BY <2>1
  <2> QED BY <2>1, <2>2, <2>3, <2>4
<1>2. CASE ClearMemory(r)
  BY <1>2 DEF ClearMemory
<1>3. CASE Members(r)
  BY <1>3 DEF Members
<1>4. CASE DeleteKeys(r)
  BY <1>4 DEF DeleteKeys
<1>5. CASE DeleteKeyset(r) \/ InvalidationFails(r)
  BY <1>5 DEF DeleteKeyset, InvalidationFails
<1> QED BY <1>1, <1>2, <1>3, <1>4, <1>5

LEMMA VersionsNext ==
    ASSUME Versions, [Next]_vars
    PROVE  Versions'
<1>1. ASSUME NEW r \in Requests, NEW s \in Servers, NEW k \in Keys, NEW label \in {"get", "write"}, Begin(r, s, k, label)
      PROVE  Versions'
  BY <1>1 DEF Begin, Go, Versions, Labels
<1>2. ASSUME NEW r \in Requests, Step(r) PROVE Versions'
  <2>1. CASE Answer(r)
    BY <2>1, OverVersions DEF Answer, Versions
  <2>2. CASE Acknowledge(r)
    <3>1. acked' \in acked .. data
      BY <2>2 DEF Acknowledge, Versions
    <3> QED BY <2>2, <3>1, OverVersions DEF Acknowledge
  <2> QED BY <1>2, <2>1, <2>2, ReadVersions, WriteVersions DEF Step
<1>3. ASSUME NEW k \in Keys, RedisTtl(k) PROVE Versions'
  BY <1>3 DEF RedisTtl, Versions
<1>4. CASE (\E s \in Servers, k \in Keys : MemoryTtl(s, k)) \/ (\E s \in Servers : CooldownEnds(s)) \/ Outage \/ Recovery
  BY <1>4 DEF MemoryTtl, CooldownEnds, Outage, Recovery, Versions
<1>5. CASE UNCHANGED vars
  BY <1>5 DEF vars, Versions
<1> QED BY <1>1, <1>2, <1>3, <1>4, <1>5, Chosen DEF Next

LEMMA OfflineNext ==
    ASSUME Versions, Offline, [Next]_vars
    PROVE  Offline'
<1> USE DEF Offline
<1>1. ASSUME NEW r \in Requests, Step(r) PROVE Offline'
  <2>1. CASE Get(r)
    BY <2>1 DEF Get, LookInMemory, Look
  <2>2. CASE Compute(r) \/ MemoryStore(r) \/ SetRedis(r) \/ AddToKeyset(r) \/ SetFails(r) \/ Answer(r)
    BY <2>2 DEF Compute, MemoryStore, SetRedis, AddToKeyset, SetFails, Answer
  <2>3. CASE Write(r) \/ WriteOnly(r) \/ ClearMemory(r) \/ Members(r) \/ DeleteKeys(r) \/ DeleteKeyset(r)
             \/ InvalidationFails(r) \/ Acknowledge(r)
    BY <2>3 DEF Write, WriteOnly, ClearMemory, Members, DeleteKeys, DeleteKeyset, InvalidationFails, Acknowledge
  <2> QED BY <1>1, <2>1, <2>2, <2>3 DEF Step
<1>2. ASSUME NEW k \in Keys, RedisTtl(k) PROVE Offline'
  BY <1>2 DEF RedisTtl, Versions
<1>3. CASE (\E s \in Servers, k \in Keys : MemoryTtl(s, k)) \/ (\E s \in Servers : CooldownEnds(s)) \/ Outage \/ Recovery
  BY <1>3 DEF MemoryTtl, CooldownEnds, Outage, Recovery
<1>4. ASSUME NEW r \in Requests, NEW s \in Servers, NEW k \in Keys, NEW label \in {"get", "write"}, Begin(r, s, k, label)
      PROVE  Offline'
  BY <1>4 DEF Begin
<1>5. CASE UNCHANGED vars
  BY <1>5 DEF vars
<1> QED BY <1>1, <1>2, <1>3, <1>4, <1>5, Chosen DEF Next

-----------------------------------------------------------------------------
(* What is sound stays so until something spoils it. *)

\* Reads.
LEMMA ReadSound ==
    ASSUME Versions, Sound, ~spoiled', NEW r \in Requests,
           Get(r) \/ Compute(r) \/ MemoryStore(r) \/ SetRedis(r) \/ AddToKeyset(r) \/ SetFails(r) \/ Answer(r)
    PROVE  Sound'
<1> USE DEF Sound, Calm
<1>1. CASE Get(r)
  <2>1. Look(r, redis[key[r]]) /\ UNCHANGED local /\ pc[r] = "get"
    BY <1>1 DEF Get, At, Versions
  <2>2. Calm'
    BY <2>1 DEF Look, Go
  <2>3. Tracked' /\ Cleared'
    BY <2>1 DEF Look, Go, Tracked, Cleared, Versions
  <2>4. Recent'
    BY <2>1 DEF Look, Go, Recent, NoOlder, Storing, Versions
  <2> QED BY <2>2, <2>3, <2>4
<1>2. CASE Compute(r)
  <2>1. Calm' /\ Tracked' /\ Cleared'
    BY <1>2 DEF Compute, At, Go, Tracked, Cleared, Versions
  <2>2. Recent'
    BY <1>2 DEF Compute, At, Go, Recent, NoOlder, Storing, Versions
  <2> QED BY <2>1, <2>2
<1>3. CASE MemoryStore(r)
  <2>1. Calm' /\ Tracked' /\ Cleared'
    BY <1>3 DEF MemoryStore, At, Go, Tracked, Cleared, Versions
  <2>2. Recent'
    BY <1>3 DEF MemoryStore, At, Go, Recent, NoOlder, Storing, Versions
  <2> QED BY <2>1, <2>2
<1>4. CASE SetRedis(r)
  <2>1. Calm' /\ Tracked' /\ Cleared'
    BY <1>4 DEF SetRedis, At, Go, Tracked, Cleared, Versions, Crossing
  <2>2. Recent'
    BY <1>4 DEF SetRedis, At, Go, Recent, NoOlder, Storing, Versions
  <2> QED BY <2>1, <2>2
<1>5. CASE AddToKeyset(r)
  <2>1. Calm' /\ Tracked' /\ Cleared'
    BY <1>5 DEF AddToKeyset, At, Go, Tracked, Cleared, Versions
  <2>2. Recent'
    BY <1>5 DEF AddToKeyset, At, Go, Recent, NoOlder, Storing, Versions
  <2> QED BY <2>1, <2>2
<1>6. CASE SetFails(r)
  BY <1>6 DEF SetFails
<1>7. CASE Answer(r)
  <2>1. Calm' /\ Tracked' /\ Cleared'
    BY <1>7 DEF Answer, Over, Go, Tracked, Cleared, Versions
  <2>2. Recent'
    BY <1>7 DEF Answer, Over, Go, Recent, NoOlder, Storing, Versions
  <2> QED BY <2>1, <2>2
<1> QED BY <1>1, <1>2, <1>3, <1>4, <1>5, <1>6, <1>7

\* Writes.
LEMMA WriteSound ==
    ASSUME Versions, Sound, ~spoiled', NEW r \in Requests,
           \/ Write(r) \/ WriteOnly(r) \/ ClearMemory(r) \/ Members(r) \/ DeleteKeys(r) \/ DeleteKeyset(r)
           \/ InvalidationFails(r) \/ Acknowledge(r)
    PROVE  Sound'
<1> USE DEF Sound, Calm
<1>1. CASE Write(r)
  <2>1. Calm' /\ Tracked' /\ Cleared'
    BY <1>1 DEF Write, At, Go, Tracked, Cleared, Versions
  <2>2. Recent'
    BY <1>1 DEF Write, At, Go, Recent, NoOlder, Storing, Versions
  <2> QED BY <2>1, <2>2
<1>2. CASE ClearMemory(r)
  <2>1. Calm' /\ Tracked' /\ Cleared'
    BY <1>2 DEF ClearMemory, At, Go, Tracked, Cleared, Versions
  <2>2. Recent'
    BY <1>2 DEF ClearMemory, At, Go, Recent, NoOlder, Storing, Versions
  <2> QED BY <2>1, <2>2
<1>3. CASE Members(r)
  <2>1. \A k \in Keys : redis[k] # 0 => k \in keyset
    BY <1>3 DEF Members, At, Tracked, Crossing
  <2>2. Calm' /\ Tracked' /\ Cleared'
    BY <1>3, <2>1 DEF Members, At, Go, Tracked, Cleared, Versions
  <2>3. Recent'
    BY <1>3 DEF Members, At, Go, Recent, NoOlder, Storing, Versions
  <2> QED BY <2>2, <2>3
<1>4. CASE DeleteKeys(r)
  <2>1. \A k \in Keys : redis'[k] = 0
    BY <1>4 DEF DeleteKeys, At, Cleared, Versions
  <2>2. Calm' /\ Tracked' /\ Cleared'
    BY <1>4, <2>1 DEF DeleteKeys, At, Go, Tracked, Cleared, Versions
  <2>3. Recent'
    BY <1>4, <2>1 DEF DeleteKeys, At, Go, Recent, NoOlder, Storing, Versions
  <2> QED BY <2>2, <2>3
<1>5. CASE DeleteKeyset(r)
  <2>1. (\A k \in Keys : redis[k] = 0) /\ \A q \in Requests : ~Storing(q)
    BY <1>5 DEF DeleteKeyset, At, Cleared, Crossing, Storing
  <2>2. Calm' /\ Tracked' /\ Cleared'
    BY <1>5, <2>1 DEF DeleteKeyset, At, Go, Tracked, Cleared, Versions
  <2>3. Recent'
    BY <1>5, <2>1 DEF DeleteKeyset, At, Go, Recent, NoOlder, Storing, Versions
  <2> QED BY <2>2, <2>3
<1>6. CASE InvalidationFails(r)
  BY <1>6 DEF InvalidationFails
<1>7. CASE Acknowledge(r)
  <2>1. Calm' /\ Tracked' /\ Cleared'
    BY <1>7 DEF Acknowledge, Over, Go, Tracked, Cleared, Versions
  <2>2. NoOlder(acked)' /\ \A q \in Requests : pc'[q] = "ack" => NoOlder(value[q])'
    BY <1>7 DEF Acknowledge, Over, Go, Recent, NoOlder, Storing, Versions
  <2>3. Recent'
    BY <1>7, <2>2 DEF Acknowledge, Over, Go, Recent, Versions
  <2> QED BY <2>1, <2>3
<1>8. CASE WriteOnly(r)
  BY <1>8 DEF WriteOnly
<1> QED BY <1>1, <1>2, <1>3, <1>4, <1>5, <1>6, <1>7, <1>8

LEMMA SoundNext ==
    ASSUME Versions, Sound, ~spoiled', [Next]_vars
    PROVE  Sound'
<1> USE DEF Sound, Calm, Versions
<1>1. ASSUME NEW r \in Requests, NEW s \in Servers, NEW k \in Keys, NEW label \in {"get", "write"}, Begin(r, s, k, label)
      PROVE  Sound'
  <2>1. Calm' /\ Tracked' /\ Cleared'
    BY <1>1 DEF Begin, Go, Tracked, Cleared
  <2>2. Recent'
    BY <1>1 DEF Begin, Go, Recent, NoOlder, Storing
  <2> QED BY <2>1, <2>2
<1>2. ASSUME NEW r \in Requests, Step(r) PROVE Sound'
  BY <1>2, ReadSound, WriteSound DEF Step
<1>3. ASSUME NEW k \in Keys, RedisTtl(k) PROVE Sound'
  <2>1. Calm' /\ Tracked' /\ Cleared'
    BY <1>3 DEF RedisTtl, Crossing, Tracked, Cleared
  <2>2. Recent'
    BY <1>3 DEF RedisTtl, Recent, NoOlder, Storing
  <2> QED BY <2>1, <2>2
<1>4. CASE (\E s \in Servers, k \in Keys : MemoryTtl(s, k)) \/ (\E s \in Servers : CooldownEnds(s)) \/ Outage \/ Recovery
           \/ UNCHANGED vars
  <2>1. Calm' /\ Tracked' /\ Cleared'
    BY <1>4 DEF MemoryTtl, CooldownEnds, Outage, Recovery, vars, Crossing, Tracked, Cleared
  <2>2. Recent'
    BY <1>4 DEF MemoryTtl, CooldownEnds, Outage, Recovery, vars, Recent, NoOlder, Storing
  <2> QED BY <2>1, <2>2
<1> QED BY <1>1, <1>2, <1>3, <1>4, Chosen DEF Next

\* What is spoiled stays so.
LEMMA SpoiledStays ==
    ASSUME spoiled, [Next]_vars
    PROVE  spoiled'
<1>1. ASSUME NEW r \in Requests, Step(r) PROVE spoiled'
  BY <1>1 DEF Step, Get, LookInMemory, Look, Compute, MemoryStore, SetRedis, AddToKeyset, SetFails, Answer, Write,
              WriteOnly, ClearMemory, Members, DeleteKeys, DeleteKeyset, InvalidationFails, Acknowledge, Over, Go
<1> QED BY <1>1 DEF Next, vars, Begin, Go, RedisTtl, MemoryTtl, CooldownEnds, Outage, Recovery

THEOREM Invariance == Spec => []CacheInv
<1>1. CacheInv /\ [Next]_vars => CacheInv'
  <2> SUFFICES ASSUME CacheInv, [Next]_vars PROVE CacheInv'
    OBVIOUS
  <2>1. Versions' /\ Offline'
    BY VersionsNext, OfflineNext DEF CacheInv
  <2>2. HasRedis /\ ~spoiled' => Sound'
    BY SoundNext, SpoiledStays DEF CacheInv
  <2> QED BY <2>1, <2>2 DEF CacheInv
<1> QED BY Initially, <1>1, PTL DEF Spec

\* Until something spoils it, an entry in Redis is in the keyset or about to be.
THEOREM AllTracked == Spec => []EveryEntryIsTracked
<1>1. CacheInv => EveryEntryIsTracked
  BY SettingAssumption DEF CacheInv, Offline, Sound, Tracked, EveryEntryIsTracked
<1> QED BY <1>1, Invariance, PTL

\* With a Redis, and until something spoils it, a read answers with what was written
\* before it began, or newer, at any number of processes.
THEOREM Fresh ==
    ASSUME HasRedis
    PROVE  Spec => []FreshReads
<1>1. CacheInv => FreshReads
  BY DEF CacheInv, Sound, Recent, FreshReads
<1> QED BY <1>1, Invariance, PTL
=============================================================================
