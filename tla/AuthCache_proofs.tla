--------------------------- MODULE AuthCache_proofs ---------------------------
(***************************************************************************)
(* What AuthCache keeps for any number of processes, accounts, tokens,     *)
(* requests, changes and failures.                                         *)
(***************************************************************************)
EXTENDS AuthCache, FiniteSetTheorems, TLAPS

-----------------------------------------------------------------------------
(* The inductive invariant, in parts. *)

Labels == {"verify", "factor", "factored", "role", "limits", "legacy", "store", "answer", "denied"}
Promises == [role : Nat, modules : Nat, banned : BOOLEAN, bare : BOOLEAN]
Versions == 0 .. MaxChanges + 1
Checks == [pc : Labels, on : Servers, token : Tokens, has : BOOLEAN, left : 0 .. Ttl, took : 0 .. Slow,
           role : Versions, modules : Versions, floor : Promises, settled : 0 .. Horizon,
           stood : [role : Nat, modules : Nat], enrolled : BOOLEAN, bare : BOOLEAN, open : BOOLEAN]

Shapes ==
    /\ listed \in BOOLEAN
    /\ role \in [Users -> Nat] /\ modules \in [Users -> Nat]
    /\ \A u \in Users : role[u] \in 1 .. changes + 1 /\ modules[u] \in 1 .. changes + 1
    /\ enrolled \subseteq Users /\ banned \subseteq Users /\ inactive \subseteq Users
    /\ cache \in [Servers -> [Tokens -> Entries \cup {None}]]
    /\ factor \in [Servers -> [Users -> Answers \cup {None}]]
    /\ req \in [Requests -> Checks \cup {Idle}]
    /\ acked \in [Servers -> [Users -> Promises]]
    /\ since \in 0 .. Horizon
    /\ changes \in 0 .. MaxChanges /\ failures \in 0 .. MaxFailures

HeldBy(c) == {t \in Tokens : c[t] # None}
Bounded == \A s \in Servers : IsFiniteSet(HeldBy(cache[s])) /\ Cardinality(HeldBy(cache[s])) <= MaxEntries

AtLeast(version, floor) == version >= floor \/ version = 0
Weak(t) == t \notin Strong

\* How old an answer about factors may be when the gate lets a request pass.
Lag == IF listed \/ Ttl = 0 THEN 0 ELSE Ttl - 1

\* What a process has promised of a user is true of the user.
Honest(s, u) ==
    /\ acked[s][u].role <= role[u] /\ acked[s][u].modules <= modules[u]
    /\ acked[s][u].banned => u \in banned
    /\ acked[s][u].bare => u \notin enrolled

\* An entry of the cache keeps the promises made of its user, and is as the account
\* stands once the account has not changed since a request could have looked it up.
GoodEntry(s, t, e) ==
    LET u == Owner[t]  age == Ttl - e.left + Slow IN
    /\ Ttl > 0
    /\ e.role >= acked[s][u].role /\ AtLeast(e.modules, acked[s][u].modules) /\ ~acked[s][u].banned
    /\ Live(e) /\ since > age => e.role >= role[u] /\ AtLeast(e.modules, modules[u]) /\ u \notin banned
    /\ Live(e) /\ Weak(t) /\ since > Lag + age => u \notin enrolled

\* The same of a remembered answer about factors.
GoodAnswer(s, u, a) ==
    /\ Ttl > 0
    /\ acked[s][u].bare => ~a.has
    /\ Live(a) /\ ~a.has /\ since > Ttl - a.left => u \notin enrolled

\* A request past the auth service, past the second factor, past the first lookup.
Verified(c) == c.pc \in {"factor", "factored", "role", "limits", "legacy", "store"}
Passed(c) == c.pc \in {"role", "limits", "legacy", "store"}
Looked(c) == c.pc \in {"limits", "legacy", "store"}
OwnerOf(c) == Owner[c.token]
Told(c) == acked[c.on][OwnerOf(c)]

\* No promise is made of a user while a request verifies it.
PromiseKept(c) ==
    /\ Verified(c) => ~Told(c).banned
    /\ c.pc = "factored" /\ c.has => ~Told(c).bare
    /\ Looked(c) => c.role >= Told(c).role
    /\ c.pc = "store" => AtLeast(c.modules, Told(c).modules)

\* What a request has of the moment it began, and the facts it has seen become true.
Remembers(c) ==
    /\ c.floor.role <= role[OwnerOf(c)] /\ c.floor.modules <= modules[OwnerOf(c)]
    /\ c.stood.role <= role[OwnerOf(c)] /\ c.stood.modules <= modules[OwnerOf(c)]
    /\ c.open \/ OwnerOf(c) \in banned
    /\ c.bare \/ OwnerOf(c) \in enrolled
    /\ c.enrolled \/ OwnerOf(c) \notin enrolled
    /\ (c.pc = "verify" \/ Verified(c)) /\ c.floor.bare /\ ~c.enrolled => Told(c).bare
    /\ Verified(c) => c.open
    /\ c.pc = "factored" => (c.has => c.enrolled) /\ (~c.has => c.bare)
    /\ c.pc = "denied" /\ c.floor.bare => c.enrolled
    /\ Looked(c) => c.role >= c.floor.role /\ c.role >= c.stood.role
    /\ c.pc = "store" => AtLeast(c.modules, c.floor.modules) /\ AtLeast(c.modules, c.stood.modules)
    /\ c.pc = "answer" =>
          /\ c.role >= c.floor.role /\ AtLeast(c.modules, c.floor.modules)
          /\ c.floor.banned => c.open
          /\ c.settled >= Ttl + Slow =>
                c.role >= c.stood.role /\ AtLeast(c.modules, c.stood.modules) /\ c.open

\* What a request has looked up is as the account stands, unless that changed meanwhile.
UpToDate(c) ==
    /\ Verified(c) /\ since > c.took => OwnerOf(c) \notin banned
    /\ c.pc = "factored" /\ ~c.has =>
          /\ since > c.took => OwnerOf(c) \notin enrolled
          /\ c.left > 0 /\ since > Ttl - c.left => OwnerOf(c) \notin enrolled
    /\ Passed(c) /\ Weak(c.token) /\ since > Lag + c.took => OwnerOf(c) \notin enrolled
    /\ Looked(c) /\ since > c.took => c.role >= role[OwnerOf(c)]
    /\ c.pc = "store" /\ since > c.took => AtLeast(c.modules, modules[OwnerOf(c)])

\* The gate let a request pass on an answer no older than Lag.
Gated(c) == Weak(c.token) =>
    /\ Passed(c) => c.bare \/ (~listed /\ Ttl > 0 /\ c.settled < Ttl)
    /\ c.pc = "answer" => c.bare \/ c.settled < (IF listed THEN Ttl + Slow ELSE 2 * Ttl + Slow - 1)

Good(c) == PromiseKept(c) /\ Remembers(c) /\ UpToDate(c) /\ Gated(c)

\* A user who has had a second factor since a request began is not remembered, nor about
\* to be, as bare by its process, if nothing had changed for a TTL then.
Settled(c) == ~c.bare /\ c.settled >= Ttl
Backed(c) ==
    LET a == factor[c.on][OwnerOf(c)] IN Settled(c) /\ a # None /\ Live(a) => a.has
Agree(c, e) ==
    Settled(c) /\ e.pc = "factored" /\ e.on = c.on /\ OwnerOf(e) = OwnerOf(c) /\ e.left > 0 => e.has

Promised == \A s \in Servers, u \in Users : Honest(s, u)
CacheGood == \A s \in Servers, t \in Tokens : cache[s][t] # None => GoodEntry(s, t, cache[s][t])
FactorGood == \A s \in Servers, u \in Users : factor[s][u] # None => GoodAnswer(s, u, factor[s][u])
ReqGood == \A r \in Requests : req[r] # Idle => Good(req[r]) /\ Backed(req[r])
ReqsAgree == \A r, q \in Requests : req[r] # Idle /\ req[q] # Idle => Agree(req[r], req[q])

AuthInv == Shapes /\ Bounded /\ Promised /\ CacheGood /\ FactorGood /\ ReqGood /\ ReqsAgree

-----------------------------------------------------------------------------
(* Requests. *)

LEMMA CheckFields ==
  ASSUME NEW c \in Checks
  PROVE  /\ c # Idle /\ c.pc \in Labels /\ c.on \in Servers /\ c.token \in Tokens /\ OwnerOf(c) \in Users
         /\ c.has \in BOOLEAN /\ c.left \in 0 .. Ttl /\ c.took \in 0 .. Slow
         /\ c.role \in Nat /\ c.modules \in Nat /\ c.settled \in Nat
         /\ c.floor.role \in Nat /\ c.floor.modules \in Nat /\ c.floor.banned \in BOOLEAN /\ c.floor.bare \in BOOLEAN
         /\ c.stood.role \in Nat /\ c.stood.modules \in Nat
         /\ c.enrolled \in BOOLEAN /\ c.bare \in BOOLEAN /\ c.open \in BOOLEAN
  BY SettingAssumption, BoundAssumption
  DEF Checks, Labels, Promises, Idle, OwnerOf, Versions, Horizon

LEMMA StateFields ==
  ASSUME Shapes, NEW s \in Servers, NEW u \in Users
  PROVE  /\ role[u] \in Nat /\ modules[u] \in Nat /\ since \in Nat
         /\ acked[s][u].role \in Nat /\ acked[s][u].modules \in Nat
         /\ acked[s][u].banned \in BOOLEAN /\ acked[s][u].bare \in BOOLEAN
  BY SettingAssumption, BoundAssumption DEF Shapes, Promises, Horizon

\* Unless an account or a promise changes, what was good is good.
LEMMA StaysGood ==
  ASSUME UNCHANGED <<accounts, history>>
  PROVE  /\ \A c : Good(c)' <=> Good(c)
         /\ \A s, t, e : GoodEntry(s, t, e)' <=> GoodEntry(s, t, e)
         /\ \A s, u, a : GoodAnswer(s, u, a)' <=> GoodAnswer(s, u, a)
         /\ \A s, u : Honest(s, u)' <=> Honest(s, u)
  BY DEF accounts, history, Good, PromiseKept, Remembers, UpToDate, Gated, Told, Lag, GoodEntry, GoodAnswer, Honest

LEMMA OneStep ==
  ASSUME AuthInv, NEW r \in Requests, NEW d \in Checks \cup {Idle}, req' = [req EXCEPT ![r] = d],
         UNCHANGED <<accounts, history>>, Shapes', Bounded', CacheGood', FactorGood',
         \A q \in Requests \ {r} : req[q] # Idle => Backed(req[q])',
         d # Idle => /\ Good(d) /\ Backed(d)' /\ Agree(d, d)
                     /\ \A q \in Requests \ {r} : req[q] # Idle => Agree(d, req[q]) /\ Agree(req[q], d)
  PROVE  AuthInv'
<1>1. Promised'
  BY StaysGood DEF AuthInv, Promised
<1>2. \A q \in Requests : req'[q] = IF q = r THEN d ELSE req[q]
  BY DEF AuthInv, Shapes
<1>3. \A c, e : Agree(c, e)' <=> Agree(c, e)
  BY DEF Agree, Settled
<1>4. ReqGood'
  <2>1. ASSUME NEW q \in Requests, req'[q] # Idle
        PROVE  Good(req[q])' /\ Backed(req[q])'
    <3>1. CASE q = r
      BY <1>2, <2>1, <3>1, StaysGood
    <3>2. CASE q # r
      BY <1>2, <2>1, <3>2, StaysGood DEF AuthInv, ReqGood
    <3> QED BY <3>1, <3>2
  <2> QED BY <2>1 DEF ReqGood
<1>5. ReqsAgree'
  BY <1>2, <1>3 DEF AuthInv, ReqsAgree
<1> QED BY <1>1, <1>4, <1>5 DEF AuthInv

\* The same when the caches at most lose an entry.
LEMMA OneMoves ==
  ASSUME AuthInv, NEW r \in Requests, NEW d \in Checks \cup {Idle}, req' = [req EXCEPT ![r] = d],
         UNCHANGED <<accounts, history, factor>>, failures' \in 0 .. MaxFailures,
         cache' \in [Servers -> [Tokens -> Entries \cup {None}]],
         \A s \in Servers, t \in Tokens : cache'[s][t] \in {cache[s][t], None},
         d # Idle => /\ Good(d) /\ Backed(d) /\ Agree(d, d)
                     /\ \A q \in Requests \ {r} : req[q] # Idle => Agree(d, req[q]) /\ Agree(req[q], d)
  PROVE  AuthInv'
<1>1. Shapes'
  BY DEF AuthInv, Shapes, accounts, history
<1>2. Bounded'
  <2>1. ASSUME NEW s \in Servers
        PROVE  IsFiniteSet(HeldBy(cache'[s])) /\ Cardinality(HeldBy(cache'[s])) <= MaxEntries
    <3>1. HeldBy(cache'[s]) \subseteq HeldBy(cache[s])
      BY <2>1 DEF HeldBy
    <3>2. IsFiniteSet(HeldBy(cache[s])) /\ Cardinality(HeldBy(cache[s])) <= MaxEntries
      BY <2>1 DEF AuthInv, Bounded
    <3> QED BY <3>1, <3>2, FS_Subset, FS_CardinalityType, SettingAssumption
  <2> QED BY <2>1 DEF Bounded, HeldBy
<1>3. CacheGood' /\ FactorGood'
  BY StaysGood DEF AuthInv, CacheGood, FactorGood
<1>4. \A c : Backed(c)' <=> Backed(c)
  BY DEF Backed, Settled
<1>5. \A q \in Requests \ {r} : req[q] # Idle => Backed(req[q])'
  BY <1>4 DEF AuthInv, ReqGood
<1> QED BY OneStep, <1>1, <1>2, <1>3, <1>4, <1>5

\* What a request keeps from its first call to its last.
Kin(c, d) ==
    /\ d.on = c.on /\ d.token = c.token /\ d.floor = c.floor /\ d.settled = c.settled /\ d.stood = c.stood
    /\ d.enrolled = c.enrolled /\ d.bare = c.bare /\ d.open = c.open /\ d.took = c.took

LEMMA GoesOn ==
  ASSUME AuthInv, NEW r \in Requests, req[r] \in Checks, NEW d \in Checks, req' = [req EXCEPT ![r] = d],
         Kin(req[r], d), d.pc # "factored" \/ (d.left > 0 /\ Settled(d) => d.has), Good(d),
         \A q \in Requests \ {r} : req[q] \in Checks => Agree(req[q], d),
         UNCHANGED <<accounts, history, cache, factor>>, failures' \in 0 .. MaxFailures
  PROVE  AuthInv'
<1>1. \A q \in Requests : req[q] # Idle => Agree(req[r], req[q])
  BY CheckFields DEF AuthInv, ReqsAgree
<1>2. Backed(d) /\ Agree(d, d)
  BY CheckFields DEF AuthInv, ReqGood, Backed, Agree, Settled, Kin, OwnerOf
<1>3. \A q \in Requests \ {r} : req[q] # Idle => Agree(d, req[q])
  BY <1>1 DEF Agree, Settled, Kin, OwnerOf
<1>4. \A q \in Requests : req[q] # Idle => req[q] \in Checks
  BY DEF AuthInv, Shapes
<1>5. cache' \in [Servers -> [Tokens -> Entries \cup {None}]]
  BY DEF AuthInv, Shapes
<1> QED BY OneMoves, <1>2, <1>3, <1>4, <1>5

\* A request that is not between its factor call and the answer of it.
LEMMA Onward ==
  ASSUME AuthInv, NEW r \in Requests, req[r] \in Checks, NEW d \in Checks, req' = [req EXCEPT ![r] = d],
         Kin(req[r], d), d.pc # "factored", Good(d),
         UNCHANGED <<accounts, history, cache, factor>>, failures' \in 0 .. MaxFailures
  PROVE  AuthInv'
  BY GoesOn DEF Agree

LEMMA Ends ==
  ASSUME AuthInv, NEW r \in Requests, req' = [req EXCEPT ![r] = Idle],
         UNCHANGED <<accounts, history, cache, factor>>, failures' \in 0 .. MaxFailures
  PROVE  AuthInv'
<1>1. cache' \in [Servers -> [Tokens -> Entries \cup {None}]]
  BY DEF AuthInv, Shapes
<1> QED BY OneMoves, <1>1

LEMMA BeginStep ==
  ASSUME AuthInv, NEW r \in Requests, NEW s \in Servers, NEW t \in Tokens, Begin(r, s, t)
  PROVE  AuthInv'
<1> DEFINE entry == cache[s][t]
           u == Owner[t]
           d == IF Live(entry) THEN Started(s, t, "answer", entry)
                ELSE Started(s, t, "verify", [role |-> 0, modules |-> 0])
<1>1. entry \in Entries \cup {None} /\ u \in Users /\ (entry # None => GoodEntry(s, t, entry))
  BY SettingAssumption DEF AuthInv, Shapes, CacheGood
<1>2. Live(entry) => entry \in Entries /\ entry # None /\ entry.role \in Versions /\ entry.modules \in Versions
                     /\ entry.left \in 1 .. Ttl
  BY <1>1, SettingAssumption DEF Entries, None, Live, Versions
<1>3. d \in Checks
  BY <1>1, <1>2, SettingAssumption, BoundAssumption
  DEF AuthInv, Shapes, Started, Checks, Labels, Promises, Versions, Horizon
<1>4. /\ d.on = s /\ d.token = t /\ d.took = 0 /\ d.floor = acked[s][u] /\ d.settled = since
      /\ d.stood.role = role[u] /\ d.stood.modules = modules[u]
      /\ (d.enrolled <=> u \in enrolled) /\ (d.bare <=> u \notin enrolled) /\ (d.open <=> u \notin banned)
      /\ d.pc = (IF Live(entry) THEN "answer" ELSE "verify")
      /\ Live(entry) => d.role = entry.role /\ d.modules = entry.modules
  BY DEF Started
<1>5. Honest(s, u) /\ OwnerOf(d) = u /\ Told(d) = acked[s][u]
  BY <1>1, <1>4 DEF AuthInv, Promised, OwnerOf, Told
<1>6. /\ role[u] \in Nat /\ modules[u] \in Nat /\ since \in Nat /\ since <= Horizon /\ Ttl \in Nat /\ Slow \in Nat
      /\ acked[s][u].role \in Nat /\ acked[s][u].modules \in Nat
      /\ acked[s][u].banned \in BOOLEAN /\ acked[s][u].bare \in BOOLEAN /\ listed \in BOOLEAN
  BY <1>1, StateFields, SettingAssumption, BoundAssumption DEF AuthInv, Shapes
<1>7. Live(entry) =>
        /\ entry.left \in 1 .. Ttl /\ entry.role \in Nat /\ entry.modules \in Nat /\ Ttl > 0
        /\ entry.role >= acked[s][u].role /\ AtLeast(entry.modules, acked[s][u].modules) /\ ~acked[s][u].banned
        /\ since > Ttl - entry.left + Slow =>
              entry.role >= role[u] /\ AtLeast(entry.modules, modules[u]) /\ u \notin banned
        /\ Weak(t) /\ since > Lag + (Ttl - entry.left + Slow) => u \notin enrolled
  BY <1>1, <1>2 DEF GoodEntry, Versions
<1> HIDE DEF d, entry, u
<1>8. PromiseKept(d)
  BY <1>4 DEF PromiseKept, Verified, Looked
<1>9. Remembers(d)
  <2>1. /\ d.floor.role <= role[u] /\ d.floor.modules <= modules[u]
        /\ d.stood.role <= role[u] /\ d.stood.modules <= modules[u]
        /\ d.open \/ u \in banned
        /\ d.bare \/ u \in enrolled
        /\ d.enrolled \/ u \notin enrolled
        /\ d.floor.bare /\ ~d.enrolled => Told(d).bare
        /\ d.pc \in {"answer", "verify"}
    BY <1>4, <1>5, <1>6 DEF Honest
  <2>2. d.pc = "answer" =>
          /\ d.role >= d.floor.role /\ AtLeast(d.modules, d.floor.modules)
          /\ d.floor.banned => d.open
          /\ d.settled >= Ttl + Slow =>
                d.role >= d.stood.role /\ AtLeast(d.modules, d.stood.modules) /\ d.open
    BY <1>4, <1>6, <1>7
  <2> QED BY <1>5, <2>1, <2>2 DEF Remembers, Verified, Looked
<1>10. UpToDate(d)
  BY <1>4 DEF UpToDate, Verified, Passed, Looked
<1>11. Gated(d)
  BY <1>4, <1>6, <1>7 DEF Gated, Passed, Lag, Weak, Horizon
<1>12. Backed(d)
  <2> DEFINE a == factor[s][u]
  <2>1. a \in Answers \cup {None} /\ (a # None => GoodAnswer(s, u, a)) /\ u \in Users
    BY <1>1 DEF AuthInv, Shapes, FactorGood
  <2>2. Settled(d) /\ a # None /\ Live(a) => a.has
    BY <1>4, <1>6, <2>1 DEF Settled, GoodAnswer, Live, Answers
  <2> QED BY <1>4, <1>5, <2>2 DEF Backed
<1>13. Agree(d, d)
  BY <1>4 DEF Agree
<1>14. ASSUME NEW q \in Requests \ {r}, req[q] # Idle
       PROVE  Agree(d, req[q]) /\ Agree(req[q], d)
  <2>1. req[q] \in Checks /\ UpToDate(req[q])
    BY <1>14 DEF AuthInv, Shapes, ReqGood, Good
  <2>2. Agree(req[q], d)
    BY <1>4 DEF Agree
  <2>3. req[q].left \in 0 .. Ttl /\ req[q].has \in BOOLEAN
    BY <2>1, CheckFields
  <2>4. Agree(d, req[q])
    BY <2>1, <2>3, <1>4, <1>5, <1>6 DEF Agree, Settled, UpToDate
  <2> QED BY <2>2, <2>4
<1>15. /\ cache' \in [Servers -> [Tokens -> Entries \cup {None}]]
       /\ \A p \in Servers, x \in Tokens : cache'[p][x] \in {cache[p][x], None}
  <2>1. cache' = cache \/ cache' = [cache EXCEPT ![s][t] = None]
    BY DEF Begin
  <2>2. cache \in [Servers -> [Tokens -> Entries \cup {None}]]
    BY DEF AuthInv, Shapes
  <2> QED BY <2>1, <2>2
<1>16. req' = [req EXCEPT ![r] = d] /\ UNCHANGED <<accounts, history, factor>> /\ failures' \in 0 .. MaxFailures
  BY DEF Begin, history, AuthInv, Shapes, d, entry, u
<1> QED BY <1>3, <1>8, <1>9, <1>10, <1>11, <1>12, <1>13, <1>14, <1>15, <1>16, OneMoves DEF Good

\* What is known of a request under way.
LEMMA ReqFacts ==
  ASSUME AuthInv, NEW r \in Requests, req[r].pc # "idle"
  PROVE  /\ req[r] \in Checks /\ Good(req[r]) /\ Backed(req[r]) /\ Honest(req[r].on, OwnerOf(req[r]))
         /\ User(r) = OwnerOf(req[r])
<1>1. req[r] \in Checks
  BY DEF AuthInv, Shapes, Idle
<1>2. req[r] # Idle /\ req[r].on \in Servers /\ OwnerOf(req[r]) \in Users
  BY <1>1, CheckFields
<1> QED BY <1>1, <1>2 DEF AuthInv, ReqGood, Promised, User, OwnerOf

Moved(c, label) == [c EXCEPT !.pc = label]
LEMMA NextLabel ==
  ASSUME NEW r \in Requests, req \in [Requests -> Checks \cup {Idle}], req[r] \in Checks, NEW label \in Labels
  PROVE  /\ Moved(req[r], label) \in Checks /\ Kin(req[r], Moved(req[r], label)) /\ Moved(req[r], label).pc = label
         /\ Moved(req[r], label).has = req[r].has /\ Moved(req[r], label).left = req[r].left
         /\ Moved(req[r], label).role = req[r].role /\ Moved(req[r], label).modules = req[r].modules
         /\ [req EXCEPT ![r].pc = label] = [req EXCEPT ![r] = Moved(req[r], label)]
  BY DEF Checks, Kin, Labels, Moved

\* The typed numbers and flags a request step compares.
Numbers(c, u) ==
    /\ role[u] \in Nat /\ modules[u] \in Nat /\ since \in Nat /\ since <= Horizon /\ Ttl \in Nat /\ Slow \in Nat
    /\ Told(c).role \in Nat /\ Told(c).modules \in Nat /\ Told(c).banned \in BOOLEAN /\ Told(c).bare \in BOOLEAN
    /\ listed \in BOOLEAN
    /\ c.has \in BOOLEAN /\ c.left \in 0 .. Ttl /\ c.took \in 0 .. Slow
    /\ c.role \in Nat /\ c.modules \in Nat /\ c.settled \in Nat
    /\ c.floor.role \in Nat /\ c.floor.modules \in Nat /\ c.floor.banned \in BOOLEAN /\ c.floor.bare \in BOOLEAN
    /\ c.stood.role \in Nat /\ c.stood.modules \in Nat
    /\ c.enrolled \in BOOLEAN /\ c.bare \in BOOLEAN /\ c.open \in BOOLEAN

LEMMA NumbersHold ==
  ASSUME Shapes, NEW c \in Checks
  PROVE  Numbers(c, OwnerOf(c))
<1>1. c.on \in Servers /\ OwnerOf(c) \in Users
  BY CheckFields
<1> QED BY <1>1, CheckFields, StateFields, SettingAssumption, BoundAssumption DEF Numbers, Told, Shapes

LEMMA KinSame ==
  ASSUME NEW c, NEW d, Kin(c, d)
  PROVE  /\ OwnerOf(d) = OwnerOf(c) /\ Told(d) = Told(c) /\ d.token = c.token /\ d.took = c.took
         /\ d.floor = c.floor /\ d.stood = c.stood /\ d.settled = c.settled
         /\ d.enrolled = c.enrolled /\ d.bare = c.bare /\ d.open = c.open
  BY DEF Kin, OwnerOf, Told

\* The gate: whatever it goes by, if that says no more than it may.
LEMMA GateLets ==
  ASSUME AuthInv, NEW r \in Requests, NEW has \in BOOLEAN, Gate(r, has), req[r].pc \in {"verify", "factored"},
         req[r].pc = "verify" => OwnerOf(req[r]) \notin banned,
         has /\ req[r].floor.bare => req[r].enrolled,
         ~has => /\ req[r].bare \/ (~listed /\ Ttl > 0 /\ req[r].settled < Ttl)
                 /\ since > Lag + req[r].took => OwnerOf(req[r]) \notin enrolled
  PROVE  \E d \in Checks : req' = [req EXCEPT ![r] = d] /\ Kin(req[r], d) /\ d.pc \in {"denied", "role"} /\ Good(d)
<1> DEFINE c == req[r]
           label == IF has /\ Weak(c.token) THEN "denied" ELSE "role"
           d == Moved(c, label)
<1>1. c \in Checks /\ Good(c) /\ Honest(c.on, OwnerOf(c)) /\ Numbers(c, OwnerOf(c)) /\ req \in [Requests -> Checks \cup {Idle}]
  BY ReqFacts, NumbersHold DEF AuthInv, Shapes
<1>0. label \in Labels
  BY DEF Labels
<1>2. d \in Checks /\ Kin(c, d) /\ d.pc = label /\ [req EXCEPT ![r].pc = label] = [req EXCEPT ![r] = d]
  <2> HIDE DEF label
  <2> QED BY <1>0, <1>1, NextLabel
<1>3. req' = [req EXCEPT ![r] = d]
  BY <1>2 DEF Gate, Go, Weak
<1>4. d.pc \in {"denied", "role"} /\ (d.pc = "denied" => has) /\ (d.pc = "role" => ~has \/ ~Weak(c.token))
  BY <1>2
<1> HIDE DEF c, d, label
<1>5. PromiseKept(d)
  BY <1>1, <1>2, <1>4, KinSame DEF Good, PromiseKept, Verified, Looked, Honest, Told, c
<1>6. Remembers(d)
  BY <1>1, <1>2, <1>4, KinSame DEF Numbers, Good, Remembers, Verified, Looked, c
<1>7. UpToDate(d)
  BY <1>1, <1>2, <1>4, KinSame DEF Numbers, Good, UpToDate, Verified, Passed, Looked, c
<1>8. Gated(d)
  BY <1>1, <1>2, <1>4, KinSame DEF Gated, Passed, c
<1> QED BY <1>2, <1>3, <1>4, <1>5, <1>6, <1>7, <1>8 DEF Good, c

LEMMA GateIsGood ==
  ASSUME AuthInv, NEW r \in Requests, NEW has \in BOOLEAN, Gate(r, has), req[r].pc \in {"verify", "factored"},
         UNCHANGED <<accounts, history, cache, factor>>, UNCHANGED failures,
         req[r].pc = "verify" => OwnerOf(req[r]) \notin banned,
         has /\ req[r].floor.bare => req[r].enrolled,
         ~has => /\ req[r].bare \/ (~listed /\ Ttl > 0 /\ req[r].settled < Ttl)
                 /\ since > Lag + req[r].took => OwnerOf(req[r]) \notin enrolled
  PROVE  AuthInv'
<1>1. req[r] \in Checks /\ failures' \in 0 .. MaxFailures
  BY ReqFacts DEF AuthInv, Shapes
<1>2. PICK d \in Checks : req' = [req EXCEPT ![r] = d] /\ Kin(req[r], d) /\ d.pc \in {"denied", "role"} /\ Good(d)
  BY GateLets
<1> QED BY <1>1, <1>2, Onward

LEMMA VerifyStep ==
  ASSUME AuthInv, NEW r \in Requests, Verify(r)
  PROVE  AuthInv'
<1> DEFINE c == req[r]
           u == OwnerOf(c)
           remembered == factor[c.on][u]
<1>1. c.pc = "verify"
  BY DEF Verify, At
<1>2. /\ c \in Checks /\ Good(c) /\ Backed(c) /\ Honest(c.on, u) /\ User(r) = u /\ Numbers(c, u)
      /\ c.on \in Servers /\ u \in Users
  BY <1>1, ReqFacts, NumbersHold, CheckFields DEF AuthInv
<1>3. failures' \in 0 .. MaxFailures /\ UNCHANGED <<accounts, history, cache, factor>> /\ UNCHANGED failures
  BY DEF AuthInv, Shapes, Verify
<1>4. \/ u \in banned /\ req' = [req EXCEPT ![r] = Idle]
      \/ u \notin banned /\ listed /\ Gate(r, u \in enrolled)
      \/ u \notin banned /\ ~listed /\ Live(remembered) /\ Gate(r, remembered.has)
      \/ u \notin banned /\ req' = [req EXCEPT ![r].pc = "factor", ![r].left = Ttl]
  BY <1>2 DEF Verify
<1>5. CASE u \in banned /\ req' = [req EXCEPT ![r] = Idle]
  BY <1>3, <1>5, Ends
<1>6. CASE u \notin banned /\ listed /\ Gate(r, u \in enrolled)
  <2>1. (u \in enrolled) => c.enrolled
    BY <1>2 DEF Good, Remembers
  <2>2. (u \notin enrolled) => c.bare
    BY <1>2 DEF Good, Remembers
  <2>3. CASE u \in enrolled
    <3>1. Gate(r, TRUE)
      BY <1>6, <2>3 DEF Gate
    <3> QED BY <1>1, <1>3, <1>6, <2>1, <2>3, <3>1, GateIsGood
  <2>4. CASE u \notin enrolled
    <3>1. Gate(r, FALSE)
      BY <1>6, <2>4 DEF Gate
    <3> QED BY <1>1, <1>3, <1>6, <2>2, <2>4, <3>1, GateIsGood
  <2> QED BY <2>3, <2>4
<1>7. CASE u \notin banned /\ ~listed /\ Live(remembered) /\ Gate(r, remembered.has)
  <2>1. remembered \in Answers /\ remembered # None /\ GoodAnswer(c.on, u, remembered)
    <3>1. remembered \in Answers \cup {None} /\ (remembered # None => GoodAnswer(c.on, u, remembered))
      BY <1>2 DEF AuthInv, Shapes, FactorGood
    <3> QED BY <1>7, <3>1 DEF Live, None
  <2>2. remembered.has \in BOOLEAN /\ remembered.left \in 1 .. Ttl
    BY <1>7, <2>1 DEF Answers, Live
  <2> HIDE DEF c, u, remembered
  <2>3. remembered.has /\ c.floor.bare => c.enrolled
    BY <1>1, <1>2, <2>1 DEF Good, Remembers, GoodAnswer, Told, u
  <2>4. ~remembered.has => c.bare \/ (~listed /\ Ttl > 0 /\ c.settled < Ttl)
    BY <1>2, <1>7, <2>1, <2>2 DEF Backed, Settled, Numbers, GoodAnswer, c, u, remembered
  <2>5. ~remembered.has => (since > Lag + c.took => u \notin enrolled)
    BY <1>2, <1>7, <2>1, <2>2 DEF GoodAnswer, Lag, Numbers
  <2> QED BY <1>1, <1>3, <1>7, <2>2, <2>3, <2>4, <2>5, GateIsGood DEF c, u
<1>8. CASE u \notin banned /\ req' = [req EXCEPT ![r].pc = "factor", ![r].left = Ttl]
  <2> DEFINE d == [c EXCEPT !.pc = "factor", !.left = Ttl]
  <2>1. d \in Checks /\ Kin(c, d) /\ d.pc = "factor"
    <3>1. Ttl \in 0 .. Ttl /\ c \in Checks
      BY <1>2, SettingAssumption
    <3> HIDE DEF c
    <3> QED BY <3>1 DEF Checks, Kin, Labels
  <2>2. req' = [req EXCEPT ![r] = d]
    BY <1>8 DEF AuthInv, Shapes
  <2> HIDE DEF d, c, u
  <2>3. PromiseKept(d) /\ UpToDate(d) /\ Gated(d)
    BY <1>2, <1>8, <2>1, KinSame DEF PromiseKept, UpToDate, Gated, Verified, Passed, Looked, Honest, Told, u
  <2>4. Remembers(d)
    BY <1>1, <1>2, <1>8, <2>1, KinSame DEF Good, Remembers, Verified, Looked, u
  <2> QED BY <1>2, <1>3, <2>1, <2>2, <2>3, <2>4, Onward DEF Good, c
<1> QED BY <1>4, <1>5, <1>6, <1>7, <1>8

LEMMA Lists ==
  ASSUME NEW c \in Checks, NEW h \in BOOLEAN
  PROVE  LET d == [c EXCEPT !.pc = "factored", !.has = h]
         IN  d \in Checks /\ Kin(c, d) /\ d.pc = "factored" /\ d.has = h /\ d.left = c.left
  BY DEF Checks, Kin, Labels

LEMMA ListStep ==
  ASSUME AuthInv, NEW r \in Requests, ListFactors(r)
  PROVE  AuthInv'
<1> DEFINE c == req[r]
           u == OwnerOf(c)
           d == [c EXCEPT !.pc = "factored", !.has = u \in enrolled]
<1>1. c.pc = "factor"
  BY DEF ListFactors, At
<1>2. c \in Checks /\ Good(c) /\ Honest(c.on, u) /\ User(r) = u /\ Numbers(c, u)
  BY <1>1, ReqFacts, NumbersHold DEF AuthInv
<1>3. d \in Checks /\ Kin(c, d) /\ d.pc = "factored" /\ (d.has <=> u \in enrolled) /\ d.left = c.left
  <2>1. (u \in enrolled) \in BOOLEAN
    OBVIOUS
  <2>2. d \in Checks /\ Kin(c, d) /\ d.pc = "factored" /\ d.has = (u \in enrolled) /\ d.left = c.left
    BY <1>2, <2>1, Lists
  <2> HIDE DEF d
  <2> QED BY <2>2
<1>4. req' = [req EXCEPT ![r] = d]
  BY <1>2 DEF AuthInv, Shapes, ListFactors
<1>5. failures' \in 0 .. MaxFailures /\ UNCHANGED <<accounts, history, cache, factor>>
  BY DEF AuthInv, Shapes, ListFactors
<1> HIDE DEF d
<1>6. ASSUME NEW q \in Requests \ {r}, req[q] \in Checks
      PROVE  Agree(req[q], d)
  <2>1. Remembers(req[q])
    BY <1>6, CheckFields DEF AuthInv, ReqGood, Good
  <2> QED BY <2>1, <1>3, KinSame DEF Agree, Settled, Remembers
<1> HIDE DEF c, u
<1>7. PromiseKept(d)
  BY <1>1, <1>2, <1>3, KinSame DEF Good, PromiseKept, Verified, Looked, Honest, Told, u
<1>8. Remembers(d)
  BY <1>1, <1>2, <1>3, KinSame DEF Good, Remembers, Verified, Looked, u
<1>9. UpToDate(d) /\ Gated(d)
  BY <1>1, <1>2, <1>3, KinSame DEF Good, UpToDate, Gated, Verified, Passed, Looked, u
<1>10. Settled(d) => d.has
  BY <1>3, <1>8, KinSame DEF Settled, Remembers, u
<1> QED BY <1>2, <1>3, <1>4, <1>5, <1>6, <1>7, <1>8, <1>9, <1>10, GoesOn DEF Good, c

LEMMA RememberStep ==
  ASSUME AuthInv, NEW r \in Requests, RememberFactor(r)
  PROVE  AuthInv'
<1> DEFINE c == req[r]
           u == OwnerOf(c)
           a == [has |-> c.has, left |-> c.left]
<1>1. c.pc = "factored"
  BY DEF RememberFactor, At
<1>2. c \in Checks /\ Good(c) /\ User(r) = u /\ Numbers(c, u) /\ c # Idle /\ u \in Users /\ c.on \in Servers
  BY <1>1, ReqFacts, NumbersHold, CheckFields DEF AuthInv
<1>3. PICK d \in Checks : req' = [req EXCEPT ![r] = d] /\ Kin(c, d) /\ d.pc \in {"denied", "role"} /\ Good(d)
  <2>1. c.has /\ c.floor.bare => c.enrolled
    BY <1>1, <1>2 DEF Good, Remembers
  <2>2. ~c.has => c.bare /\ (since > c.took => u \notin enrolled)
    BY <1>1, <1>2 DEF Good, Remembers, UpToDate
  <2>3. since > Lag + c.took => since > c.took
    BY <1>2 DEF Numbers, Lag
  <2>4. c.has \in BOOLEAN /\ Gate(r, c.has)
    BY <1>2 DEF Numbers, RememberFactor
  <2> QED BY <1>1, <2>1, <2>2, <2>3, <2>4, GateLets
<1>4. \/ factor' = factor
      \/ Ttl > 0 /\ factor' = [factor EXCEPT ![c.on][u] = a]
  BY <1>2, SettingAssumption DEF RememberFactor
<1>5. UNCHANGED <<accounts, history>> /\ UNCHANGED cache /\ failures' \in 0 .. MaxFailures
  BY DEF AuthInv, Shapes, RememberFactor
<1>6. a \in Answers /\ (a.has <=> c.has) /\ a.left = c.left
  BY <1>2 DEF Numbers, Answers
<1>7. Shapes'
  <2>1. factor' \in [Servers -> [Users -> Answers \cup {None}]]
    <3>1. factor \in [Servers -> [Users -> Answers \cup {None}]]
      BY DEF AuthInv, Shapes
    <3> HIDE DEF a, c, u
    <3> QED BY <1>2, <1>4, <1>6, <3>1
  <2>2. req' \in [Requests -> Checks \cup {Idle}]
    BY <1>3 DEF AuthInv, Shapes
  <2> QED BY <2>1, <2>2, <1>5 DEF AuthInv, Shapes, accounts, history
<1>8. Bounded' /\ CacheGood'
  BY <1>5, StaysGood DEF AuthInv, Bounded, CacheGood
<1>9. \A s \in Servers, v \in Users :
         factor'[s][v] = factor[s][v] \/ (s = c.on /\ v = u /\ Ttl > 0 /\ factor'[s][v] = a)
  BY <1>2, <1>4 DEF AuthInv, Shapes
<1> HIDE DEF a
<1>10. FactorGood'
  <2>1. Ttl > 0 => GoodAnswer(c.on, u, a)
    BY <1>1, <1>2, <1>6 DEF Good, PromiseKept, UpToDate, GoodAnswer, Numbers, Told, Live
  <2> QED BY <1>5, <1>9, <2>1, StaysGood DEF AuthInv, FactorGood
<1>11. ASSUME NEW q \in Requests, req[q] # Idle
       PROVE  Backed(req[q]) /\ Agree(req[q], c) /\ req[q].on \in Servers /\ OwnerOf(req[q]) \in Users
  <2>1. req[q] \in Checks
    BY <1>11 DEF AuthInv, Shapes
  <2> QED BY <1>2, <1>11, <2>1, CheckFields DEF AuthInv, ReqGood, ReqsAgree
<1>12. \A e : Backed(e) /\ Agree(e, c) /\ e.on \in Servers /\ OwnerOf(e) \in Users => Backed(e)'
  <2> SUFFICES ASSUME NEW e, Backed(e), Agree(e, c), e.on \in Servers, OwnerOf(e) \in Users
               PROVE  Backed(e)'
    OBVIOUS
  <2>1. CASE factor'[e.on][OwnerOf(e)] = factor[e.on][OwnerOf(e)]
    BY <2>1 DEF Backed, Settled
  <2>2. CASE e.on = c.on /\ OwnerOf(e) = u /\ factor'[e.on][OwnerOf(e)] = a
    BY <1>1, <1>2, <1>6, <2>2 DEF Backed, Settled, Agree, Live, Numbers
  <2> QED BY <1>9, <2>1, <2>2
<1>13. \A q \in Requests \ {r} : req[q] # Idle => Backed(req[q])'
  <2> SUFFICES ASSUME NEW q \in Requests \ {r}, (req[q] # Idle)' PROVE Backed(req[q])'
    BY <1>3 DEF AuthInv, Shapes
  <2>1. req'[q] = req[q]
    BY <1>3 DEF AuthInv, Shapes
  <2> QED BY <1>11, <1>12, <2>1
<1>14. Backed(d)' /\ Agree(d, d)
  <2>1. Backed(c) /\ Agree(c, c)
    BY <1>2, <1>11
  <2>2. Backed(d) /\ Agree(d, c) /\ d.on \in Servers /\ OwnerOf(d) \in Users /\ Agree(d, d)
    BY <1>2, <1>3, <2>1, KinSame DEF Backed, Agree, Settled, Kin
  <2> QED BY <1>12, <2>2
<1>15. ASSUME NEW q \in Requests \ {r}, req[q] # Idle
       PROVE  Agree(d, req[q]) /\ Agree(req[q], d)
  <2>1. Agree(c, req[q])
    BY <1>2, <1>15 DEF AuthInv, ReqsAgree
  <2> QED BY <1>3, <2>1, KinSame DEF Agree, Settled, Kin
<1> QED BY <1>3, <1>5, <1>7, <1>8, <1>10, <1>13, <1>14, <1>15, OneStep

WithRole(c, x) == [c EXCEPT !.pc = "limits", !.role = x]
LEMMA LooksUpRole ==
  ASSUME NEW c \in Checks, NEW x \in Versions
  PROVE  WithRole(c, x) \in Checks /\ Kin(c, WithRole(c, x)) /\ WithRole(c, x).pc = "limits" /\ WithRole(c, x).role = x
  BY DEF Checks, Kin, Labels, WithRole

WithModules(c, y) == [c EXCEPT !.pc = "store", !.modules = y]
LEMMA LooksUpModules ==
  ASSUME NEW c \in Checks, NEW y \in Versions
  PROVE  /\ WithModules(c, y) \in Checks /\ Kin(c, WithModules(c, y)) /\ WithModules(c, y).pc = "store"
         /\ WithModules(c, y).role = c.role /\ WithModules(c, y).modules = y
  BY DEF Checks, Kin, Labels, WithModules

LEMMA VersionType == ASSUME Shapes, NEW u \in Users PROVE role[u] \in Versions /\ modules[u] \in Versions
  BY BoundAssumption DEF Shapes, Versions

LEMMA RoleStep ==
  ASSUME AuthInv, NEW r \in Requests, LookUpRole(r)
  PROVE  AuthInv'
<1> DEFINE c == req[r]
           u == OwnerOf(c)
           d == WithRole(c, role[u])
<1>1. c.pc = "role"
  BY DEF LookUpRole, At
<1>2. c \in Checks /\ Good(c) /\ Honest(c.on, u) /\ User(r) = u /\ Numbers(c, u) /\ u \in Users
  BY <1>1, ReqFacts, NumbersHold, CheckFields DEF AuthInv
<1>3. d \in Checks /\ Kin(c, d) /\ d.pc = "limits" /\ d.role = role[u]
  BY <1>2, LooksUpRole, VersionType DEF AuthInv
<1>4. req' = [req EXCEPT ![r] = d] /\ UNCHANGED <<accounts, history, cache, factor>> /\ failures' \in 0 .. MaxFailures
  BY <1>2 DEF AuthInv, Shapes, LookUpRole, WithRole
<1> HIDE DEF d, c, u
<1>5. PromiseKept(d) /\ UpToDate(d) /\ Gated(d)
  BY <1>1, <1>2, <1>3, KinSame
  DEF Good, PromiseKept, UpToDate, Gated, Verified, Passed, Looked, Honest, Told, Numbers, u
<1>6. Remembers(d)
  BY <1>1, <1>2, <1>3, KinSame DEF Good, Remembers, Verified, Looked, Numbers, u
<1> QED BY <1>2, <1>3, <1>4, <1>5, <1>6, Onward DEF Good, c

\* A request that learns the module limit, or that there is none.
LEMMA LimitsKnown ==
  ASSUME AuthInv, NEW r \in Requests, req[r].pc \in {"limits", "legacy"}, NEW y \in Versions,
         y = modules[OwnerOf(req[r])] \/ y = 0,
         req' = [req EXCEPT ![r].pc = "store", ![r].modules = y],
         UNCHANGED <<accounts, history, cache, factor, failures>>
  PROVE  AuthInv'
<1> DEFINE c == req[r]
           u == OwnerOf(c)
           d == WithModules(c, y)
<1>1. c \in Checks /\ Good(c) /\ Honest(c.on, u) /\ Numbers(c, u) /\ u \in Users
  BY ReqFacts, NumbersHold, CheckFields DEF AuthInv
<1>2. d \in Checks /\ Kin(c, d) /\ d.pc = "store" /\ d.role = c.role /\ d.modules = y
  BY <1>1, LooksUpModules
<1>3. req' = [req EXCEPT ![r] = d] /\ failures' \in 0 .. MaxFailures
  BY DEF AuthInv, Shapes, WithModules
<1>4. y = modules[u] \/ y = 0
  OBVIOUS
<1>5. c.pc \in {"limits", "legacy"}
  OBVIOUS
<1> HIDE DEF d, c, u
<1>6. PromiseKept(d) /\ UpToDate(d) /\ Gated(d)
  BY <1>1, <1>2, <1>4, <1>5, KinSame
  DEF Good, PromiseKept, UpToDate, Gated, Verified, Passed, Looked, Honest, Told, Numbers, AtLeast, u
<1>7. Remembers(d)
  BY <1>1, <1>2, <1>4, <1>5, KinSame DEF Good, Remembers, Verified, Looked, Numbers, AtLeast, u
<1> QED BY <1>1, <1>2, <1>3, <1>6, <1>7, Onward DEF Good, c

LEMMA LimitsStep ==
  ASSUME AuthInv, NEW r \in Requests, LookUpLimits(r) \/ LookUpScope(r)
  PROVE  AuthInv'
<1>1. req[r].pc \in {"limits", "legacy"}
  BY DEF LookUpLimits, LookUpScope, At
<1>2. User(r) = OwnerOf(req[r]) /\ modules[User(r)] \in Versions /\ 0 \in Versions
  BY <1>1, ReqFacts, CheckFields, VersionType, BoundAssumption DEF AuthInv, Versions
<1> QED BY <1>1, <1>2, LimitsKnown DEF LookUpLimits, LookUpScope

LEMMA LimitsFailStep ==
  ASSUME AuthInv, NEW r \in Requests, LimitsFail(r)
  PROVE  AuthInv'
<1> DEFINE c == req[r]
           d == Moved(c, "legacy")
<1>1. c.pc = "limits"
  BY DEF LimitsFail, At
<1>2. c \in Checks /\ Good(c) /\ Numbers(c, OwnerOf(c)) /\ req \in [Requests -> Checks \cup {Idle}] /\ "legacy" \in Labels
  BY <1>1, ReqFacts, NumbersHold DEF AuthInv, Shapes, Labels
<1>3. d \in Checks /\ Kin(c, d) /\ d.pc = "legacy" /\ d.role = c.role /\ req' = [req EXCEPT ![r] = d]
  BY <1>2, NextLabel DEF LimitsFail, Go
<1>4. failures' \in 0 .. MaxFailures /\ UNCHANGED <<accounts, history, cache, factor>>
  BY BoundAssumption DEF AuthInv, Shapes, LimitsFail
<1> HIDE DEF d, c
<1>5. Good(d)
  BY <1>1, <1>2, <1>3, KinSame
  DEF Good, PromiseKept, Remembers, UpToDate, Gated, Verified, Passed, Looked, Told
<1> QED BY <1>2, <1>3, <1>4, <1>5, Onward DEF c

LEMMA EndStep ==
  ASSUME AuthInv, NEW r \in Requests, LookupFails(r) \/ Answer(r)
  PROVE  AuthInv'
<1>1. /\ req' = [req EXCEPT ![r] = Idle] /\ failures' \in 0 .. MaxFailures
      /\ UNCHANGED <<accounts, history, cache, factor>>
  BY BoundAssumption DEF AuthInv, Shapes, LookupFails, Answer
<1> QED BY <1>1, Ends

\* What a full cache drops makes room for one more.
LEMMA MakesRoom ==
  ASSUME Shapes, Bounded, NEW s \in Servers, NEW t \in Tokens, NEW gone \in Victims(s, t)
  PROVE  LET kept == (HeldBy(cache[s]) \ gone) \cup {t}
         IN  IsFiniteSet(kept) /\ Cardinality(kept) <= MaxEntries
<1> DEFINE held == HeldBy(cache[s])
           live == {x \in held : Live(cache[s][x])}
           kept == (held \ gone) \cup {t}
<1>1. IsFiniteSet(held) /\ Cardinality(held) \in Nat /\ Cardinality(held) <= MaxEntries /\ MaxEntries \in Nat \ {0}
  BY FS_CardinalityType, SettingAssumption DEF Bounded
<1>2. live \subseteq held /\ IsFiniteSet(live) /\ Cardinality(live) \in Nat /\ Cardinality(live) <= Cardinality(held)
  BY <1>1, FS_Subset, FS_CardinalityType
<1>3. \/ (Cardinality(held) < MaxEntries \/ t \in held) /\ gone = {}
      \/ Cardinality(live) < MaxEntries /\ t \notin held /\ gone = held \ live
      \/ Cardinality(live) >= MaxEntries /\ t \notin held /\ \E x \in live : gone = (held \ live) \cup {x}
  <2>1. held = {x \in Tokens : cache[s][x] # None}
    BY DEF HeldBy
  <2>2. CASE Cardinality(held) < MaxEntries \/ t \in held
    BY <2>1, <2>2 DEF Victims
  <2>3. CASE ~(Cardinality(held) < MaxEntries \/ t \in held) /\ Cardinality(live) < MaxEntries
    BY <2>1, <2>3 DEF Victims
  <2>4. CASE ~(Cardinality(held) < MaxEntries \/ t \in held) /\ ~(Cardinality(live) < MaxEntries)
    BY <1>1, <1>2, <2>1, <2>4 DEF Victims
  <2> QED BY <2>2, <2>3, <2>4
<1> SUFFICES IsFiniteSet(kept) /\ Cardinality(kept) <= MaxEntries
  OBVIOUS
<1> HIDE DEF held, live
<1>4. CASE t \in held
  <2>1. kept = held
    BY <1>3, <1>4
  <2> QED BY <1>1, <2>1
<1>5. CASE t \notin held /\ gone = {} /\ Cardinality(held) < MaxEntries
  <2>1. kept = held \cup {t}
    BY <1>5
  <2>2. Cardinality(held \cup {t}) = Cardinality(held) + 1 /\ IsFiniteSet(held \cup {t})
    BY <1>1, <1>5, FS_AddElement
  <2> HIDE DEF kept
  <2> QED BY <1>1, <1>5, <2>1, <2>2
<1>6. CASE t \notin held /\ Cardinality(live) < MaxEntries /\ gone = held \ live
  <2>1. kept = live \cup {t}
    BY <1>2, <1>6
  <2>2. Cardinality(live \cup {t}) = Cardinality(live) + 1 /\ IsFiniteSet(live \cup {t})
    BY <1>2, <1>6, FS_AddElement
  <2> HIDE DEF kept
  <2> QED BY <1>1, <1>2, <1>6, <2>1, <2>2
<1>7. CASE t \notin held /\ Cardinality(live) >= MaxEntries /\ \E x \in live : gone = (held \ live) \cup {x}
  <2>1. PICK x \in live : gone = (held \ live) \cup {x}
    BY <1>7
  <2>2. kept = (live \ {x}) \cup {t} /\ t \notin live \ {x}
    BY <1>2, <1>7, <2>1
  <2>3. IsFiniteSet(live \ {x}) /\ Cardinality(live \ {x}) = Cardinality(live) - 1
    BY <1>2, <2>1, FS_RemoveElement
  <2>4. Cardinality((live \ {x}) \cup {t}) = Cardinality(live) - 1 + 1 /\ IsFiniteSet((live \ {x}) \cup {t})
    BY <2>2, <2>3, FS_AddElement
  <2> HIDE DEF kept
  <2> QED BY <1>1, <1>2, <2>2, <2>4
<1> QED BY <1>3, <1>4, <1>5, <1>6, <1>7

LEMMA StoreStep ==
  ASSUME AuthInv, NEW r \in Requests, Store(r)
  PROVE  AuthInv'
<1> DEFINE c == req[r]
           s == c.on
           t == c.token
           u == OwnerOf(c)
           e == [role |-> c.role, modules |-> c.modules, left |-> Ttl]
<1>1. c.pc = "store"
  BY DEF Store, At
<1>2. /\ c \in Checks /\ c # Idle /\ Good(c) /\ Backed(c) /\ Numbers(c, u) /\ req \in [Requests -> Checks \cup {Idle}]
      /\ "answer" \in Labels /\ s \in Servers /\ t \in Tokens /\ u \in Users
  BY <1>1, ReqFacts, NumbersHold, CheckFields DEF AuthInv, Shapes, Labels
<1>3. PICK d \in Checks : /\ Kin(c, d) /\ d.pc = "answer" /\ d.role = c.role /\ d.modules = c.modules
                          /\ req' = [req EXCEPT ![r] = d]
  <2>1. /\ Moved(c, "answer") \in Checks /\ Kin(c, Moved(c, "answer")) /\ Moved(c, "answer").pc = "answer"
        /\ Moved(c, "answer").role = c.role /\ Moved(c, "answer").modules = c.modules
        /\ req' = [req EXCEPT ![r] = Moved(c, "answer")]
    BY <1>2, NextLabel DEF Store, Go
  <2> HIDE DEF c
  <2> QED BY <2>1
<1>4. failures' \in 0 .. MaxFailures /\ UNCHANGED <<accounts, history, factor, failures>>
  BY DEF AuthInv, Shapes, Store
<1>5. e \in Entries /\ e # None /\ e.role = c.role /\ e.modules = c.modules /\ e.left = Ttl
  BY <1>2, SettingAssumption DEF Checks, Versions, Entries, None
<1>6. PICK gone \in Victims(s, t) :
        cache' = IF Ttl = 0 THEN cache
                 ELSE [cache EXCEPT ![s] = [x \in Tokens |-> IF x = t THEN e ELSE IF x \in gone THEN None ELSE @[x]]]
  BY DEF Store
<1>7. cache \in [Servers -> [Tokens -> Entries \cup {None}]]
  BY DEF AuthInv, Shapes
<1> HIDE DEF e, c, s, t, u
<1>8. Good(d)
  <2>1. PromiseKept(d) /\ UpToDate(d)
    BY <1>3 DEF PromiseKept, UpToDate, Verified, Passed, Looked
  <2>2. Gated(d)
    BY <1>1, <1>2, <1>3, KinSame DEF Good, Gated, Passed, Numbers
  <2>3. Remembers(d)
    BY <1>1, <1>2, <1>3, KinSame DEF Good, Remembers, Verified, Looked, u
  <2> QED BY <2>1, <2>2, <2>3 DEF Good
<1>9. GoodEntry(s, t, e) \/ Ttl = 0
  <2>1. Owner[t] = u /\ Told(c) = acked[s][u]
    BY DEF OwnerOf, Told, s, t, u
  <2>2. /\ c.role >= acked[s][u].role /\ AtLeast(c.modules, acked[s][u].modules) /\ ~acked[s][u].banned
        /\ since > c.took => c.role >= role[u] /\ AtLeast(c.modules, modules[u]) /\ u \notin banned
        /\ Weak(t) /\ since > Lag + c.took => u \notin enrolled
    BY <1>1, <1>2, <2>1 DEF Good, PromiseKept, UpToDate, Verified, Passed, Looked, u, t
  <2>3. since > Slow => since > c.took
    BY <1>2 DEF Numbers
  <2>4. since > Lag + Slow => since > Lag + c.took
    BY <1>2 DEF Numbers, Lag
  <2>5. Ttl - e.left + Slow = Slow /\ (Ttl > 0 \/ Ttl = 0)
    BY <1>2, <1>5, SettingAssumption DEF Numbers
  <2> QED BY <1>5, <2>1, <2>2, <2>3, <2>4, <2>5 DEF GoodEntry
<1>10. cache' \in [Servers -> [Tokens -> Entries \cup {None}]]
  BY <1>2, <1>5, <1>6, <1>7
<1>11. \A p \in Servers, x \in Tokens :
          \/ cache'[p][x] \in {cache[p][x], None}
          \/ p = s /\ x = t /\ Ttl > 0 /\ cache'[p][x] = e
  BY <1>2, <1>6, <1>7, SettingAssumption
<1>12. CacheGood'
  BY <1>4, <1>9, <1>11, StaysGood DEF AuthInv, CacheGood
<1>13. Bounded'
  <2>1. ASSUME NEW p \in Servers
        PROVE  IsFiniteSet(HeldBy(cache'[p])) /\ Cardinality(HeldBy(cache'[p])) <= MaxEntries
    <3>1. CASE cache'[p] = cache[p]
      BY <3>1 DEF AuthInv, Bounded
    <3>2. CASE p = s /\ Ttl # 0
      <4>1. HeldBy(cache'[s]) \subseteq (HeldBy(cache[s]) \ gone) \cup {t}
        BY <1>2, <1>6, <1>7, <3>2 DEF HeldBy
      <4>2. IsFiniteSet((HeldBy(cache[s]) \ gone) \cup {t})
            /\ Cardinality((HeldBy(cache[s]) \ gone) \cup {t}) <= MaxEntries
        BY <1>2, MakesRoom DEF AuthInv
      <4> QED BY <3>2, <4>1, <4>2, FS_Subset, FS_CardinalityType, SettingAssumption
    <3> QED BY <1>2, <1>6, <1>7, <3>1, <3>2
  <2> QED BY <2>1 DEF Bounded, HeldBy
<1>14. Shapes'
  <2>1. req' \in [Requests -> Checks \cup {Idle}]
    BY <1>2, <1>3
  <2> QED BY <1>4, <1>10, <2>1 DEF AuthInv, Shapes, accounts, history
<1>15. FactorGood'
  BY <1>4, StaysGood DEF AuthInv, FactorGood
<1>16. \A x : Backed(x)' <=> Backed(x)
  BY <1>4 DEF Backed, Settled
<1>17. \A q \in Requests \ {r} : req[q] # Idle => Backed(req[q])'
  BY <1>3, <1>16 DEF AuthInv, Shapes, ReqGood
<1>18. Backed(d)' /\ Agree(d, d)
  <2>1. Backed(d)
    BY <1>2, <1>3, KinSame DEF Backed, Settled, Kin
  <2> QED BY <1>3, <1>16, <2>1 DEF Agree
<1>19. ASSUME NEW q \in Requests \ {r}, req[q] # Idle
       PROVE  Agree(d, req[q]) /\ Agree(req[q], d)
  <2>1. Agree(c, req[q])
    BY <1>2, <1>19 DEF AuthInv, ReqsAgree, c
  <2> QED BY <1>3, <2>1, KinSame DEF Agree, Settled, Kin
<1>20. UNCHANGED <<accounts, history>>
  BY <1>4
<1> QED BY <1>3, <1>20, <1>8, <1>12, <1>13, <1>14, <1>15, <1>17, <1>18, <1>19, OneStep

-----------------------------------------------------------------------------
(* Accounts. *)

\* A request under way goes on, and facts about its user become true of it.
Marked(c, d) ==
    /\ d.pc = c.pc /\ d.on = c.on /\ d.token = c.token /\ d.has = c.has /\ d.left = c.left /\ d.took = c.took
    /\ d.role = c.role /\ d.modules = c.modules /\ d.floor = c.floor /\ d.settled = c.settled /\ d.stood = c.stood
    /\ (c.open => d.open) /\ (c.bare => d.bare) /\ (c.enrolled => d.enrolled)
Flags(d) ==
    /\ d.open \/ OwnerOf(d) \in banned
    /\ d.bare \/ OwnerOf(d) \in enrolled
    /\ d.enrolled \/ OwnerOf(d) \notin enrolled

\* A promise stands or is dropped, or is made anew where nothing is kept of the user.
Stands(p, x) ==
    /\ acked'[p][x].role = acked[p][x].role /\ acked'[p][x].modules = acked[p][x].modules
    /\ acked'[p][x].banned => acked[p][x].banned
    /\ acked'[p][x].bare => acked[p][x].bare
    /\ acked[p][x].bare /\ x \notin enrolled' => acked'[p][x].bare
Anew(p, x) ==
    /\ Quiet(p, x) /\ factor'[p][x] = None
    /\ \A t \in Tokens : Owner[t] = x => cache'[p][t] = None
Accounted ==
    /\ since' = 0 /\ listed' = listed
    /\ \A x \in Users : role'[x] >= role[x] /\ modules'[x] >= modules[x]
    /\ \A p \in Servers, x \in Users : Stands(p, x) \/ Anew(p, x)
    /\ \A p \in Servers, t \in Tokens : cache'[p][t] \in {cache[p][t], None}
    /\ \A p \in Servers, x \in Users : factor'[p][x] \in {factor[p][x], None}

LEMMA EntriesStand ==
  ASSUME AuthInv, Shapes', Accounted
  PROVE  Bounded' /\ CacheGood' /\ FactorGood'
<1>1. Bounded'
  <2>1. ASSUME NEW s \in Servers
        PROVE  IsFiniteSet(HeldBy(cache'[s])) /\ Cardinality(HeldBy(cache'[s])) <= MaxEntries
    <3>1. HeldBy(cache'[s]) \subseteq HeldBy(cache[s])
      BY <2>1 DEF HeldBy, Accounted
    <3>2. IsFiniteSet(HeldBy(cache[s])) /\ Cardinality(HeldBy(cache[s])) <= MaxEntries
      BY <2>1 DEF AuthInv, Bounded
    <3> QED BY <3>1, <3>2, FS_Subset, FS_CardinalityType, SettingAssumption
  <2> QED BY <2>1 DEF Bounded, HeldBy
<1>2. ASSUME NEW s \in Servers, NEW t \in Tokens, NEW e, e # None, e = cache'[s][t]
      PROVE  GoodEntry(s, t, e)'
  <2>1. e = cache[s][t] /\ GoodEntry(s, t, e) /\ e \in Entries /\ Owner[t] \in Users
    BY <1>2, SettingAssumption DEF Accounted, AuthInv, Shapes, CacheGood
  <2>2. Stands(s, Owner[t])
    BY <1>2, <2>1 DEF Accounted, Anew
  <2>3. e.left \in 0 .. Ttl /\ Ttl \in Nat /\ Slow \in Nat
    BY <2>1, SettingAssumption, BoundAssumption DEF Entries
  <2>4. /\ e.role >= acked'[s][Owner[t]].role /\ AtLeast(e.modules, acked'[s][Owner[t]].modules)
        /\ ~acked'[s][Owner[t]].banned /\ Ttl > 0
    BY <2>1, <2>2 DEF GoodEntry, Stands
  <2>5. ~(since' > Ttl - e.left + Slow) /\ ~(since' > Lag' + (Ttl - e.left + Slow))
    BY <2>3 DEF Accounted, Lag
  <2> QED BY <2>4, <2>5 DEF GoodEntry
<1>3. CacheGood'
  BY <1>2 DEF CacheGood
<1>4. ASSUME NEW s \in Servers, NEW u \in Users, NEW a, a # None, a = factor'[s][u]
      PROVE  GoodAnswer(s, u, a)'
  <2>1. a = factor[s][u] /\ GoodAnswer(s, u, a) /\ a \in Answers
    BY <1>4 DEF Accounted, AuthInv, Shapes, FactorGood
  <2>2. Stands(s, u)
    BY <1>4 DEF Accounted, Anew
  <2>3. a.left \in 0 .. Ttl /\ Ttl \in Nat
    BY <2>1, SettingAssumption DEF Answers
  <2>4. ~(since' > Ttl - a.left)
    BY <2>3 DEF Accounted
  <2> QED BY <2>1, <2>2, <2>4 DEF GoodAnswer, Stands
<1>5. FactorGood'
  BY <1>4 DEF FactorGood
<1> QED BY <1>1, <1>3, <1>5

LEMMA MarkedStaysGood ==
  ASSUME AuthInv, Shapes', Accounted, NEW c \in Checks, NEW d \in Checks, Marked(c, d), Flags(d)',
         Good(c), Backed(c), NEW r \in Requests, req[r] = c
  PROVE  Good(d)' /\ Backed(d)'
<1> DEFINE u == OwnerOf(c)
           s == c.on
<1>1. u \in Users /\ s \in Servers /\ c # Idle /\ User(r) = u /\ OwnerOf(d) = u
      /\ Told(c) = acked[s][u] /\ (Told(d))' = acked'[s][u]
  BY CheckFields DEF Marked, OwnerOf, User, Told
<1>2. Numbers(c, u) /\ d.took = c.took /\ d.left = c.left
  BY NumbersHold DEF AuthInv, Marked
<1>3. c.pc = "verify" \/ Verified(c) => Stands(s, u)
  BY <1>1 DEF Accounted, Anew, Quiet, Verified
<1>4. role'[u] >= role[u] /\ modules'[u] >= modules[u] /\ role'[u] \in Nat /\ modules'[u] \in Nat
      /\ listed' = listed /\ since' = 0
  BY <1>1, StateFields DEF Accounted, Shapes
<1> HIDE DEF u, s
<1>5. PromiseKept(d)'
  BY <1>1, <1>3 DEF Good, PromiseKept, Marked, Verified, Looked, Stands
<1>6. Remembers(d)'
  <2>1. /\ d.floor.role <= role'[u] /\ d.floor.modules <= modules'[u]
        /\ d.stood.role <= role'[u] /\ d.stood.modules <= modules'[u]
    BY <1>1, <1>2, <1>4 DEF Good, Remembers, Marked, Numbers, u
  <2>2. (d.pc = "verify" \/ Verified(d)) /\ d.floor.bare /\ ~d.enrolled => (Told(d))'.bare
    BY <1>1, <1>3 DEF Good, Remembers, Marked, Verified, Stands, Flags
  <2> QED BY <1>1, <2>1, <2>2 DEF Good, Remembers, Marked, Flags, Verified, Looked
<1>7. UpToDate(d)'
  <2>1. ~(since' > d.took) /\ ~(since' > Ttl - d.left) /\ ~(since' > Lag' + d.took)
    BY <1>2, <1>4, SettingAssumption DEF Numbers, Lag
  <2> QED BY <2>1 DEF UpToDate
<1>8. Gated(d)'
  BY <1>4 DEF Good, Gated, Marked, Passed
<1>9. Backed(d)'
  <2>1. factor'[s][u] \in {factor[s][u], None}
    BY <1>1 DEF Accounted
  <2>2. c.on = s /\ d.on = s /\ OwnerOf(c) = u /\ OwnerOf(d) = u
    BY <1>1 DEF Marked, s, u
  <2>3. Settled(d) => Settled(c)
    BY DEF Marked, Settled
  <2> QED BY <2>1, <2>2, <2>3 DEF Backed
<1> QED BY <1>5, <1>6, <1>7, <1>8, <1>9 DEF Good

LEMMA AccountStep ==
  ASSUME AuthInv, Shapes', Promised', Accounted,
         \A r \in Requests : \/ req[r] = Idle /\ req'[r] = Idle
                             \/ req[r] \in Checks /\ req'[r] \in Checks /\ Marked(req[r], req'[r]) /\ Flags(req[r])'
  PROVE  AuthInv'
<1>1. Bounded' /\ CacheGood' /\ FactorGood'
  BY EntriesStand
<1>2. ReqGood'
  <2> SUFFICES ASSUME NEW r \in Requests, req'[r] # Idle PROVE Good(req[r])' /\ Backed(req[r])'
    BY DEF ReqGood
  <2>1. PICK c \in Checks, d \in Checks : c = req[r] /\ d = req'[r] /\ Marked(c, d) /\ Flags(d)' /\ c # Idle
    BY CheckFields
  <2>2. Good(c) /\ Backed(c)
    BY <2>1 DEF AuthInv, ReqGood
  <2>3. Good(d)' /\ Backed(d)'
    BY <2>1, <2>2, MarkedStaysGood
  <2> QED BY <2>1, <2>3
<1>3. ReqsAgree'
  <2>1. ASSUME NEW r \in Requests, NEW q \in Requests, req'[r] # Idle, req'[q] # Idle
        PROVE  Agree(req[r], req[q])'
    <3>1. Agree(req[r], req[q]) /\ Marked(req[r], req'[r]) /\ Marked(req[q], req'[q])
      BY <2>1, CheckFields DEF AuthInv, ReqsAgree
    <3> QED BY <3>1 DEF Agree, Settled, Marked, OwnerOf
  <2> QED BY <2>1 DEF ReqsAgree
<1> QED BY <1>1, <1>2, <1>3 DEF AuthInv

\* What an endpoint promises of a user, and what it leaves of older promises.
LEMMA PromiseMade ==
  ASSUME Shapes, NEW s \in Servers, NEW u \in Users, NEW told \in BOOLEAN, Promise(s, u, told),
         role'[u] \in Nat, modules'[u] \in Nat
  PROVE  /\ acked' \in [Servers -> [Users -> Promises]]
         /\ \A p \in Servers, x \in Users : x # u => acked'[p][x] = acked[p][x]
         /\ \A p \in Servers :
               IF p = s /\ told
               THEN /\ acked'[p][u].role = role'[u] /\ acked'[p][u].modules = modules'[u]
                    /\ acked'[p][u].banned <=> u \in banned'
                    /\ acked'[p][u].bare <=> u \notin enrolled'
               ELSE /\ acked'[p][u].role = acked[p][u].role /\ acked'[p][u].modules = acked[p][u].modules
                    /\ acked'[p][u].banned <=> acked[p][u].banned /\ u \in banned'
                    /\ acked'[p][u].bare <=> acked[p][u].bare /\ u \notin enrolled'
<1> DEFINE new(p) == IF p = s /\ told
                     THEN [role |-> role'[u], modules |-> modules'[u],
                           banned |-> u \in banned', bare |-> u \notin enrolled']
                     ELSE Standing(acked[p][u], u)
<1>1. \A p \in Servers : acked[p] \in [Users -> Promises] /\ acked[p][u] \in Promises
  BY DEF Shapes
<1>2. ASSUME NEW p \in Servers
      PROVE  new(p) \in Promises
  <2>1. CASE p = s /\ told
    BY <2>1 DEF Promises
  <2>2. CASE ~(p = s /\ told)
    <3>1. PICK old \in Promises : old = acked[p][u]
      BY <1>1, <1>2
    <3>2. new(p) = Standing(old, u)
      BY <2>2, <3>1
    <3> HIDE DEF new
    <3> QED BY <3>1, <3>2 DEF Standing, Promises
  <2> QED BY <2>1, <2>2
<1>3. \A p \in Servers :
        IF p = s /\ told
        THEN /\ new(p).role = role'[u] /\ new(p).modules = modules'[u]
             /\ new(p).banned <=> u \in banned'
             /\ new(p).bare <=> u \notin enrolled'
        ELSE /\ new(p).role = acked[p][u].role /\ new(p).modules = acked[p][u].modules
             /\ new(p).banned <=> acked[p][u].banned /\ u \in banned'
             /\ new(p).bare <=> acked[p][u].bare /\ u \notin enrolled'
  <2>1. ASSUME NEW p \in Servers, p = s /\ told
        PROVE  /\ new(p).role = role'[u] /\ new(p).modules = modules'[u]
               /\ new(p).banned <=> u \in banned'
               /\ new(p).bare <=> u \notin enrolled'
    BY <2>1
  <2>2. ASSUME NEW p \in Servers, ~(p = s /\ told)
        PROVE  /\ new(p).role = acked[p][u].role /\ new(p).modules = acked[p][u].modules
               /\ new(p).banned <=> acked[p][u].banned /\ u \in banned'
               /\ new(p).bare <=> acked[p][u].bare /\ u \notin enrolled'
    <3>1. PICK old \in Promises : old = acked[p][u]
      BY <1>1, <2>2
    <3>2. new(p) = Standing(old, u)
      BY <2>2, <3>1
    <3> HIDE DEF new
    <3> QED BY <3>1, <3>2 DEF Standing, Promises
  <2> QED BY <2>1, <2>2
<1>4. acked' = [p \in Servers |-> [acked[p] EXCEPT ![u] = new(p)]]
  BY DEF Promise
<1> HIDE DEF new
<1>5. acked' \in [Servers -> [Users -> Promises]]
  BY <1>1, <1>2, <1>4
<1>6. \A p \in Servers : acked'[p][u] = new(p) /\ \A x \in Users : x # u => acked'[p][x] = acked[p][x]
  BY <1>1, <1>4
<1> QED BY <1>3, <1>5, <1>6

\* Promises are honest after an endpoint that makes them of the account as it is then.
LEMMA PromisesHold ==
  ASSUME AuthInv, NEW s \in Servers, NEW u \in Users, NEW told \in BOOLEAN, Promise(s, u, told),
         role' \in [Users -> Nat], modules' \in [Users -> Nat],
         \A x \in Users : role'[x] >= role[x] /\ modules'[x] >= modules[x],
         \A x \in Users \ {u} : (x \in banned' <=> x \in banned) /\ (x \in enrolled' <=> x \in enrolled)
  PROVE  Promised' /\ \A p \in Servers, x \in Users : Stands(p, x) \/ (p = s /\ x = u /\ told)
<1> DEFINE stays(p) == ~(p = s /\ told)
<1>1. \A p \in Servers, x \in Users : x # u => acked'[p][x] = acked[p][x]
  BY PromiseMade DEF AuthInv
<1>2. \A p \in Servers :
        IF p = s /\ told
        THEN /\ acked'[p][u].role = role'[u] /\ acked'[p][u].modules = modules'[u]
             /\ acked'[p][u].banned <=> u \in banned'
             /\ acked'[p][u].bare <=> u \notin enrolled'
        ELSE /\ acked'[p][u].role = acked[p][u].role /\ acked'[p][u].modules = acked[p][u].modules
             /\ acked'[p][u].banned <=> acked[p][u].banned /\ u \in banned'
             /\ acked'[p][u].bare <=> acked[p][u].bare /\ u \notin enrolled'
  BY PromiseMade DEF AuthInv
<1>3. ASSUME NEW p \in Servers, NEW x \in Users
      PROVE  Honest(p, x)' /\ (Stands(p, x) \/ (p = s /\ x = u /\ told))
  <2>1. Honest(p, x) /\ Shapes
    BY <1>3 DEF AuthInv, Promised
  <2>2. /\ role[x] \in Nat /\ modules[x] \in Nat /\ role'[x] \in Nat /\ modules'[x] \in Nat
        /\ acked[p][x].role \in Nat /\ acked[p][x].modules \in Nat
        /\ role'[x] >= role[x] /\ modules'[x] >= modules[x]
    BY <1>3, <2>1, StateFields
  <2>3. CASE x # u
    BY <1>1, <2>1, <2>2, <2>3 DEF Honest, Stands
  <2>4. CASE x = u
    BY <1>2, <2>1, <2>2, <2>4 DEF Honest, Stands
  <2> QED BY <2>3, <2>4
<1> QED BY <1>3 DEF Promised

\* The two ends of an endpoint: invalidate_user and the answer, or a reply that is lost.
LEMMA Settles ==
  ASSUME AuthInv, NEW s \in Servers, NEW u \in Users, Changed, Acked(s, u) \/ Lost(s, u),
         role' \in [Users -> Nat], modules' \in [Users -> Nat],
         \A x \in Users : role'[x] >= role[x] /\ modules'[x] >= modules[x],
         \A x \in Users \ {u} : (x \in banned' <=> x \in banned) /\ (x \in enrolled' <=> x \in enrolled)
  PROVE  /\ Promised' /\ Accounted /\ acked' \in [Servers -> [Users -> Promises]]
         /\ cache' \in [Servers -> [Tokens -> Entries \cup {None}]]
         /\ factor' \in [Servers -> [Users -> Answers \cup {None}]]
         /\ since' \in 0 .. Horizon /\ changes' = changes + 1 /\ changes' \in 0 .. MaxChanges
         /\ listed' \in BOOLEAN /\ failures' \in 0 .. MaxFailures
<1>1. PICK told \in BOOLEAN : Promise(s, u, told) /\ (told => Quiet(s, u) /\ Invalidate(s, u))
  <2>1. CASE Acked(s, u) /\ Quiet(s, u)
    BY <2>1 DEF Acked
  <2>2. CASE Acked(s, u) /\ ~Quiet(s, u)
    <3>1. Promise(s, u, FALSE)
      BY <2>2 DEF Acked, Promise
    <3> QED BY <3>1
  <2>3. CASE Lost(s, u)
    BY <2>3 DEF Lost
  <2> QED BY <2>1, <2>2, <2>3
<1>2. Promised' /\ \A p \in Servers, x \in Users : Stands(p, x) \/ (p = s /\ x = u /\ told)
  BY <1>1, PromisesHold
<1>3. acked' \in [Servers -> [Users -> Promises]]
  BY <1>1, PromiseMade DEF AuthInv
<1>4. /\ cache \in [Servers -> [Tokens -> Entries \cup {None}]]
      /\ factor \in [Servers -> [Users -> Answers \cup {None}]]
      /\ changes \in 0 .. MaxChanges /\ failures \in 0 .. MaxFailures /\ listed \in BOOLEAN
  BY DEF AuthInv, Shapes
<1>5. Invalidate(s, u) \/ UNCHANGED <<cache, factor>>
  BY DEF Acked, Lost
<1>6. Invalidate(s, u) => factor'[s][u] = None /\ \A t \in Tokens : Owner[t] = u => cache'[s][t] = None
  BY <1>4 DEF Invalidate, Without
<1>7. /\ \A p \in Servers, t \in Tokens : cache'[p][t] \in {cache[p][t], None}
      /\ cache' \in [Servers -> [Tokens -> Entries \cup {None}]]
  <2>1. CASE Invalidate(s, u)
    <3>1. Without(cache[s], u) \in [Tokens -> Entries \cup {None}]
          /\ \A t \in Tokens : Without(cache[s], u)[t] \in {cache[s][t], None}
      BY <1>4 DEF Without
    <3>2. cache' = [cache EXCEPT ![s] = Without(cache[s], u)]
      BY <2>1 DEF Invalidate
    <3> QED BY <1>4, <3>1, <3>2
  <2> QED BY <1>4, <1>5, <2>1
<1>8. /\ \A p \in Servers, x \in Users : factor'[p][x] \in {factor[p][x], None}
      /\ factor' \in [Servers -> [Users -> Answers \cup {None}]]
  <2>1. CASE Invalidate(s, u)
    <3>1. factor' = [factor EXCEPT ![s] = [factor[s] EXCEPT ![u] = None]]
      BY <2>1 DEF Invalidate
    <3>2. factor[s] \in [Users -> Answers \cup {None}]
      BY <1>4
    <3> QED BY <1>4, <3>1, <3>2
  <2> QED BY <1>4, <1>5, <2>1
<1>9. Accounted
  BY <1>1, <1>2, <1>6, <1>7, <1>8 DEF Accounted, Anew, Changed
<1>10. failures' \in 0 .. MaxFailures /\ changes' = changes + 1 /\ changes' \in 0 .. MaxChanges /\ listed' = listed
  <2>1. failures' \in 0 .. MaxFailures
    <3>1. failures' = failures \/ (failures < MaxFailures /\ failures' = failures + 1)
      BY DEF Acked, Lost
    <3> QED BY <1>4, <3>1, BoundAssumption
  <2> QED BY <1>4, <2>1, BoundAssumption DEF Changed
<1>11. since' \in 0 .. Horizon
  BY SettingAssumption, BoundAssumption DEF Changed, Horizon
<1> QED BY <1>2, <1>3, <1>4, <1>7, <1>8, <1>9, <1>10, <1>11

\* A request under way, when a fact becomes true of its user.
LEMMA MarkedFact ==
  ASSUME NEW c \in Checks
  PROVE  /\ [c EXCEPT !["open"] = TRUE] \in Checks /\ Marked(c, [c EXCEPT !["open"] = TRUE])
         /\ [c EXCEPT !["open"] = TRUE].open
         /\ [c EXCEPT !["bare"] = TRUE] \in Checks /\ Marked(c, [c EXCEPT !["bare"] = TRUE])
         /\ [c EXCEPT !["bare"] = TRUE].bare
         /\ [c EXCEPT !["enrolled"] = TRUE] \in Checks /\ Marked(c, [c EXCEPT !["enrolled"] = TRUE])
         /\ [c EXCEPT !["enrolled"] = TRUE].enrolled
         /\ Marked(c, c)
<1>1. /\ [c EXCEPT !["open"] = TRUE] \in Checks /\ [c EXCEPT !["bare"] = TRUE] \in Checks
      /\ [c EXCEPT !["enrolled"] = TRUE] \in Checks
  BY DEF Checks
<1>2. Marked(c, [c EXCEPT !["open"] = TRUE]) /\ [c EXCEPT !["open"] = TRUE].open
  BY DEF Checks, Marked
<1>3. Marked(c, [c EXCEPT !["bare"] = TRUE]) /\ [c EXCEPT !["bare"] = TRUE].bare
  BY DEF Checks, Marked
<1>4. Marked(c, [c EXCEPT !["enrolled"] = TRUE]) /\ [c EXCEPT !["enrolled"] = TRUE].enrolled
  BY DEF Checks, Marked
<1> QED BY <1>1, <1>2, <1>3, <1>4 DEF Marked

LEMMA MarksRequests ==
  ASSUME AuthInv, NEW u \in Users, NEW fact \in {"open", "bare", "enrolled"}, Mark(u, fact) \/ UNCHANGED req,
         NEW r \in Requests
  PROVE  \/ req[r] = Idle /\ req'[r] = Idle
         \/ /\ req[r] \in Checks /\ req'[r] \in Checks /\ Marked(req[r], req'[r])
            /\ req[r].open \/ OwnerOf(req[r]) \in banned
            /\ req[r].bare \/ OwnerOf(req[r]) \in enrolled
            /\ req[r].enrolled \/ OwnerOf(req[r]) \notin enrolled
            /\ OwnerOf(req'[r]) = OwnerOf(req[r])
            /\ Mark(u, fact) /\ OwnerOf(req[r]) = u =>
                  /\ fact = "open" => req'[r].open
                  /\ fact = "bare" => req'[r].bare
                  /\ fact = "enrolled" => req'[r].enrolled
<1>1. CASE req[r] = Idle
  BY <1>1 DEF Mark
<1>2. CASE req[r] # Idle
  <2>1. PICK c \in Checks : c = req[r] /\ Remembers(c) /\ OwnerOf(c) = User(r)
    BY <1>2 DEF AuthInv, Shapes, ReqGood, Good, OwnerOf, User
  <2>2. c.open \/ OwnerOf(c) \in banned
    BY <2>1 DEF Remembers
  <2>3. c.bare \/ OwnerOf(c) \in enrolled
    BY <2>1 DEF Remembers
  <2>4. c.enrolled \/ OwnerOf(c) \notin enrolled
    BY <2>1 DEF Remembers
  <2>5. CASE req'[r] = c /\ (Mark(u, fact) => OwnerOf(c) # u)
    BY <2>1, <2>2, <2>3, <2>4, <2>5, MarkedFact
  <2>6. CASE req'[r] = [c EXCEPT ![fact] = TRUE]
    <3>1. req'[r] \in Checks /\ Marked(c, req'[r])
      BY <2>6, MarkedFact
    <3>2. OwnerOf(req'[r]) = OwnerOf(c)
      BY <3>1 DEF Marked, OwnerOf
    <3>3. (fact = "open" => req'[r].open) /\ (fact = "bare" => req'[r].bare) /\ (fact = "enrolled" => req'[r].enrolled)
      BY <2>6, MarkedFact
    <3> QED BY <2>1, <2>2, <2>3, <2>4, <3>1, <3>2, <3>3
  <2>7. Mark(u, fact) => req'[r] = IF OwnerOf(c) = u THEN [c EXCEPT ![fact] = TRUE] ELSE c
    BY <1>2, <2>1 DEF Mark
  <2>8. ~Mark(u, fact) => req'[r] = c
    BY <2>1
  <2> QED BY <2>5, <2>6, <2>7, <2>8
<1> QED BY <1>1, <1>2

\* An endpoint that writes one account, settles, and marks the requests under way.
LEMMA AdminStep ==
  ASSUME AuthInv, NEW s \in Servers, NEW u \in Users, Changed, Acked(s, u) \/ Lost(s, u),
         role' \in [Users -> Nat], modules' \in [Users -> Nat],
         \A x \in Users : /\ role'[x] >= role[x] /\ modules'[x] >= modules[x]
                          /\ role'[x] <= role[x] + 1 /\ modules'[x] <= modules[x] + 1,
         banned' \subseteq Users, enrolled' \subseteq Users, inactive' \subseteq Users,
         \A x \in Users \ {u} : (x \in banned' <=> x \in banned) /\ (x \in enrolled' <=> x \in enrolled),
         NEW fact \in {"open", "bare", "enrolled"}, Mark(u, fact) \/ UNCHANGED req,
         u \in banned => u \in banned' \/ (fact = "open" /\ Mark(u, fact)),
         u \in enrolled => u \in enrolled' \/ (fact = "bare" /\ Mark(u, fact)),
         u \in enrolled' => u \in enrolled \/ (fact = "enrolled" /\ Mark(u, fact))
  PROVE  AuthInv'
<1>1. /\ Promised' /\ Accounted /\ acked' \in [Servers -> [Users -> Promises]]
      /\ cache' \in [Servers -> [Tokens -> Entries \cup {None}]]
      /\ factor' \in [Servers -> [Users -> Answers \cup {None}]]
      /\ since' \in 0 .. Horizon /\ changes' = changes + 1 /\ changes' \in 0 .. MaxChanges
      /\ listed' \in BOOLEAN /\ failures' \in 0 .. MaxFailures
  BY Settles
<1>2. ASSUME NEW r \in Requests
      PROVE  \/ req[r] = Idle /\ req'[r] = Idle
             \/ req[r] \in Checks /\ req'[r] \in Checks /\ Marked(req[r], req'[r]) /\ Flags(req[r])'
  <2> DEFINE c == req[r]  d == req'[r]
  <2>1. \/ c = Idle /\ d = Idle
        \/ /\ c \in Checks /\ d \in Checks /\ Marked(c, d)
           /\ c.open \/ OwnerOf(c) \in banned
           /\ c.bare \/ OwnerOf(c) \in enrolled
           /\ c.enrolled \/ OwnerOf(c) \notin enrolled
           /\ OwnerOf(d) = OwnerOf(c)
           /\ Mark(u, fact) /\ OwnerOf(c) = u =>
                  (fact = "open" => d.open) /\ (fact = "bare" => d.bare) /\ (fact = "enrolled" => d.enrolled)
    BY <1>2, MarksRequests
  <2>2. CASE c = Idle /\ d = Idle
    BY <2>2
  <2>3. CASE c # Idle \/ d # Idle
    <3>1. OwnerOf(c) \in Users
      BY <2>1, <2>3, CheckFields
    <3>2. /\ d.open \/ OwnerOf(d) \in banned'
          /\ d.bare \/ OwnerOf(d) \in enrolled'
          /\ d.enrolled \/ OwnerOf(d) \notin enrolled'
      BY <2>1, <2>3, <3>1 DEF Marked
    <3> QED BY <2>1, <2>3, <3>2 DEF Flags, OwnerOf
  <2> QED BY <2>2, <2>3
<1>3. req' \in [Requests -> Checks \cup {Idle}]
  BY <1>2 DEF AuthInv, Shapes, Mark
<1>4. \A x \in Users : role'[x] \in 1 .. changes' + 1 /\ modules'[x] \in 1 .. changes' + 1
  <2>1. /\ changes \in Nat /\ changes' = changes + 1
        /\ \A x \in Users : role[x] \in 1 .. changes + 1 /\ modules[x] \in 1 .. changes + 1
                            /\ role'[x] \in Nat /\ modules'[x] \in Nat
    BY <1>1, BoundAssumption DEF AuthInv, Shapes
  <2> QED BY <2>1
<1>5. Shapes'
  BY <1>1, <1>3, <1>4 DEF Shapes
<1> QED BY <1>1, <1>2, <1>5, AccountStep

LEMMA AdminKeeps ==
  ASSUME AuthInv, NEW s \in Servers, NEW u \in Users, Admin(s, u)
  PROVE  AuthInv'
<1>1. /\ role \in [Users -> Nat] /\ modules \in [Users -> Nat]
      /\ enrolled \subseteq Users /\ banned \subseteq Users /\ inactive \subseteq Users
  BY DEF AuthInv, Shapes
<1>2. ASSUME update_user(s, u)
      PROVE  AuthInv'
  <2>1. role' \in [Users -> Nat] /\ \A x \in Users : role'[x] >= role[x] /\ role'[x] <= role[x] + 1
    BY <1>1, <1>2 DEF update_user
  <2>2. \A x \in Users : modules'[x] >= modules[x] /\ modules'[x] <= modules[x] + 1
    BY <1>1, <1>2 DEF update_user
  <2>3. Changed /\ (Acked(s, u) \/ Lost(s, u)) /\ UNCHANGED <<modules, enrolled, banned, inactive, req>>
    BY <1>2 DEF update_user
  <2> QED BY <1>1, <2>1, <2>2, <2>3, AdminStep
<1>3. ASSUME set_user_scope(s, u)
      PROVE  AuthInv'
  <2>1. modules' \in [Users -> Nat] /\ \A x \in Users : modules'[x] >= modules[x] /\ modules'[x] <= modules[x] + 1
    BY <1>1, <1>3 DEF set_user_scope
  <2>2. \A x \in Users : role'[x] >= role[x] /\ role'[x] <= role[x] + 1
    BY <1>1, <1>3 DEF set_user_scope
  <2>3. Changed /\ (Acked(s, u) \/ Lost(s, u)) /\ UNCHANGED <<role, enrolled, banned, inactive, req>>
    BY <1>3 DEF set_user_scope
  <2> QED BY <1>1, <2>1, <2>2, <2>3, AdminStep
<1>4. ASSUME NEW active \in BOOLEAN, set_user_active(s, u, active)
      PROVE  AuthInv'
  <2>1. /\ Changed /\ (Acked(s, u) \/ Lost(s, u)) /\ UNCHANGED <<role, modules, enrolled>>
        /\ Mark(u, "open") \/ UNCHANGED req
        /\ active => Mark(u, "open")
    BY <1>4 DEF set_user_active
  <2>2. inactive' \subseteq Users
    BY <1>1, <1>4 DEF set_user_active, Put
  <2>3. /\ banned' \subseteq Users
        /\ \A x \in Users \ {u} : x \in banned' <=> x \in banned
        /\ u \in banned' <=> ~active
    BY <1>1, <1>4 DEF set_user_active, Put
  <2>4. \A x \in Users : /\ role'[x] >= role[x] /\ role'[x] <= role[x] + 1
                         /\ modules'[x] >= modules[x] /\ modules'[x] <= modules[x] + 1
    BY <1>1, <2>1
  <2> QED BY <1>1, <2>1, <2>2, <2>3, <2>4, AdminStep
<1>5. ASSUME reset_mfa_factors(s, u)
      PROVE  AuthInv'
  <2>1. /\ Changed /\ (Acked(s, u) \/ Lost(s, u)) /\ UNCHANGED <<role, modules, banned, inactive>>
        /\ Mark(u, "bare") /\ enrolled' = enrolled \ {u}
    BY <1>5 DEF reset_mfa_factors
  <2>2. \A x \in Users : /\ role'[x] >= role[x] /\ role'[x] <= role[x] + 1
                         /\ modules'[x] >= modules[x] /\ modules'[x] <= modules[x] + 1
    BY <1>1, <2>1
  <2> QED BY <1>1, <2>1, <2>2, AdminStep
<1> QED BY <1>2, <1>3, <1>4, <1>5 DEF Admin

\* A user who sets a factor up voids what was promised of having none.
LEMMA EnrolKeeps ==
  ASSUME AuthInv, NEW u \in Users, Enrol(u)
  PROVE  AuthInv'
<1>1. /\ Changed /\ u \notin enrolled /\ enrolled' = enrolled \cup {u} /\ Mark(u, "enrolled")
      /\ UNCHANGED <<role, modules, banned, inactive, cache, factor, failures>>
  BY DEF Enrol
<1>2. /\ acked' \in [Servers -> [Users -> Promises]]
      /\ \A p \in Servers, x \in Users : Honest(p, x)' /\ Stands(p, x)
  <2>1. ASSUME NEW p \in Servers
        PROVE  /\ Standing(acked[p][u], u) \in Promises
               /\ Standing(acked[p][u], u).role = acked[p][u].role
               /\ Standing(acked[p][u], u).modules = acked[p][u].modules
               /\ Standing(acked[p][u], u).banned <=> acked[p][u].banned /\ u \in banned
               /\ ~Standing(acked[p][u], u).bare
    <3>1. PICK old \in Promises : old = acked[p][u]
      BY <2>1 DEF AuthInv, Shapes
    <3> QED BY <1>1, <3>1 DEF Standing, Promises
  <2>2. acked' = [p \in Servers |-> [acked[p] EXCEPT ![u] = Standing(acked[p][u], u)]]
    BY DEF Enrol
  <2>3. \A p \in Servers : acked[p] \in [Users -> Promises]
    BY DEF AuthInv, Shapes
  <2>4. /\ acked' \in [Servers -> [Users -> Promises]]
        /\ \A p \in Servers, x \in Users : acked'[p][x] = IF x = u THEN Standing(acked[p][u], u) ELSE acked[p][x]
    BY <2>1, <2>2, <2>3
  <2>5. ASSUME NEW p \in Servers, NEW x \in Users
        PROVE  Honest(p, x)' /\ Stands(p, x)
    <3>1. Honest(p, x)
      BY DEF AuthInv, Promised
    <3>2. CASE x = u
      BY <1>1, <2>1, <2>4, <3>1, <3>2 DEF Honest, Stands
    <3>3. CASE x # u
      BY <1>1, <2>4, <3>1, <3>3 DEF Honest, Stands
    <3> QED BY <3>2, <3>3
  <2> QED BY <2>4, <2>5
<1>3. Shapes'
  <2>1. ASSUME NEW r \in Requests
        PROVE  req'[r] \in Checks \cup {Idle}
    BY <1>1, <2>1, MarksRequests
  <2>2. req' \in [Requests -> Checks \cup {Idle}]
    BY <1>1, <2>1 DEF Mark
  <2>3. /\ role \in [Users -> Nat] /\ modules \in [Users -> Nat] /\ changes \in 0 .. MaxChanges /\ listed \in BOOLEAN
        /\ \A x \in Users : role[x] \in 1 .. changes + 1 /\ modules[x] \in 1 .. changes + 1
    BY DEF AuthInv, Shapes
  <2>4. /\ changes' \in 0 .. MaxChanges /\ since' \in 0 .. Horizon /\ listed' \in BOOLEAN
        /\ \A x \in Users : role'[x] \in 1 .. changes' + 1 /\ modules'[x] \in 1 .. changes' + 1
    BY <1>1, <2>3, SettingAssumption, BoundAssumption DEF Changed, Horizon
  <2> QED BY <1>1, <1>2, <2>2, <2>4 DEF AuthInv, Shapes
<1>4. ASSUME NEW r \in Requests
      PROVE  \/ req[r] = Idle /\ req'[r] = Idle
             \/ req[r] \in Checks /\ req'[r] \in Checks /\ Marked(req[r], req'[r]) /\ Flags(req[r])'
  <2> DEFINE c == req[r]  d == req'[r]
  <2>1. \/ c = Idle /\ d = Idle
        \/ /\ c \in Checks /\ d \in Checks /\ Marked(c, d) /\ OwnerOf(d) = OwnerOf(c)
           /\ c.open \/ OwnerOf(c) \in banned
           /\ c.bare \/ OwnerOf(c) \in enrolled
           /\ c.enrolled \/ OwnerOf(c) \notin enrolled
           /\ OwnerOf(c) = u => d.enrolled
    BY <1>1, <1>4, MarksRequests
  <2>2. c \in Checks /\ d \in Checks /\ Marked(c, d) => Flags(req[r])'
    <3>1. ASSUME c \in Checks, d \in Checks, Marked(c, d)
          PROVE  /\ d.open \/ OwnerOf(d) \in banned'
                 /\ d.bare \/ OwnerOf(d) \in enrolled'
                 /\ d.enrolled \/ OwnerOf(d) \notin enrolled'
      BY <1>1, <2>1, <3>1, CheckFields DEF Marked
    <3> QED BY <3>1 DEF Flags, OwnerOf
  <2> QED BY <2>1, <2>2
<1>5. Accounted
  <2>1. \A x \in Users : role'[x] >= role[x] /\ modules'[x] >= modules[x]
    BY <1>1 DEF AuthInv, Shapes
  <2> QED BY <1>1, <1>2, <2>1 DEF Accounted, Changed
<1>6. Promised'
  BY <1>2 DEF Promised
<1> QED BY <1>3, <1>4, <1>5, <1>6, AccountStep

-----------------------------------------------------------------------------
(* Time. *)

LEMMA AgedEntry ==
  /\ Aged(None) = None
  /\ \A e \in Entries : /\ e # None /\ Aged(e) \in Entries /\ Aged(e) # None
                        /\ Aged(e).role = e.role /\ Aged(e).modules = e.modules
                        /\ Live(Aged(e)) => Live(e) /\ Aged(e).left = e.left - 1
  /\ \A a \in Answers : /\ a # None /\ Aged(a) \in Answers /\ Aged(a) # None /\ (Aged(a).has <=> a.has)
                        /\ Live(Aged(a)) => Live(a) /\ Aged(a).left = a.left - 1
<1>1. Aged(None) = None
  BY DEF Aged, None, Live
<1>2. ASSUME NEW e \in Entries
      PROVE  /\ e # None /\ Aged(e) \in Entries /\ Aged(e) # None
             /\ Aged(e).role = e.role /\ Aged(e).modules = e.modules
             /\ Live(Aged(e)) => Live(e) /\ Aged(e).left = e.left - 1
  BY SettingAssumption DEF Aged, None, Live, Entries
<1>3. ASSUME NEW a \in Answers
      PROVE  /\ a # None /\ Aged(a) \in Answers /\ Aged(a) # None /\ (Aged(a).has <=> a.has)
             /\ Live(Aged(a)) => Live(a) /\ Aged(a).left = a.left - 1
  BY SettingAssumption DEF Aged, None, Live, Answers
<1> QED BY <1>1, <1>2, <1>3

\* The clock is not told beyond Horizon, which no age that matters reaches.
Passes == since' = since + 1 \/ (since = Horizon /\ since' = since)

LEMMA EntryAges ==
  ASSUME Shapes, NEW s \in Servers, NEW t \in Tokens, NEW e \in Entries, GoodEntry(s, t, e),
         UNCHANGED <<accounts, acked>>, Passes
  PROVE  GoodEntry(s, t, Aged(e))'
<1> DEFINE u == Owner[t]
<1>1. u \in Users /\ Ttl \in Nat /\ Slow \in Nat /\ since \in Nat /\ e.left \in 0 .. Ttl /\ Lag \in Nat /\ Lag' = Lag
      /\ (Ttl > 0 => Lag <= Ttl - 1)
  BY SettingAssumption, BoundAssumption, StateFields DEF Entries, Lag, accounts
<1>2. /\ role' = role /\ modules' = modules /\ enrolled' = enrolled /\ banned' = banned /\ acked' = acked
      /\ Aged(e).role = e.role /\ Aged(e).modules = e.modules /\ Live(Aged(e))' = Live(Aged(e))
  BY AgedEntry DEF accounts
<1>3. ASSUME Live(Aged(e)), since' > Ttl - Aged(e).left + Slow
      PROVE  Live(e) /\ since > Ttl - e.left + Slow
  BY <1>1, <1>3, AgedEntry DEF Passes, Live, Horizon
<1>4. ASSUME Live(Aged(e)), since' > Lag + (Ttl - Aged(e).left + Slow)
      PROVE  Live(e) /\ since > Lag + (Ttl - e.left + Slow)
  BY <1>1, <1>4, AgedEntry DEF Passes, Live, Horizon
<1> QED BY <1>1, <1>2, <1>3, <1>4 DEF GoodEntry, AtLeast, Live

LEMMA AnswerAges ==
  ASSUME Shapes, NEW s \in Servers, NEW u \in Users, NEW a \in Answers, GoodAnswer(s, u, a),
         UNCHANGED <<accounts, acked>>, Passes
  PROVE  GoodAnswer(s, u, Aged(a))'
<1>1. Ttl \in Nat /\ Slow \in Nat /\ since \in Nat /\ a.left \in 0 .. Ttl
  BY SettingAssumption, BoundAssumption, StateFields DEF Answers
<1>2. enrolled' = enrolled /\ acked' = acked /\ (Aged(a).has <=> a.has)
  BY AgedEntry DEF accounts
<1>3. ASSUME Live(Aged(a)), since' > Ttl - Aged(a).left
      PROVE  Live(a) /\ since > Ttl - a.left
  BY <1>1, <1>3, AgedEntry DEF Passes, Live, Horizon
<1> QED BY <1>2, <1>3 DEF GoodAnswer, Live

\* A request a tick older.
Older(c) == [c EXCEPT !.took = @ + 1, !.left = IF @ > 0 THEN @ - 1 ELSE 0]

LEMMA OlderFields ==
  ASSUME NEW c \in Checks, c.took < Slow
  PROVE  /\ Older(c) \in Checks
         /\ Older(c).pc = c.pc /\ Older(c).on = c.on /\ Older(c).token = c.token
         /\ (Older(c).has <=> c.has)
         /\ Older(c).role = c.role /\ Older(c).modules = c.modules /\ Older(c).floor = c.floor
         /\ Older(c).settled = c.settled /\ Older(c).stood = c.stood
         /\ (Older(c).enrolled <=> c.enrolled) /\ (Older(c).bare <=> c.bare) /\ (Older(c).open <=> c.open)
         /\ Older(c).took = c.took + 1
         /\ Older(c).left > 0 => c.left > 0 /\ Older(c).left = c.left - 1
<1>1. Older(c) \in Checks
  <2>1. \A x \in 0 .. Slow, y \in 0 .. Ttl : [c EXCEPT !.took = x, !.left = y] \in Checks
    BY DEF Checks
  <2>2. c.took \in 0 .. Slow /\ c.left \in 0 .. Ttl
    BY DEF Checks
  <2>3. PICK x \in 0 .. Slow, y \in 0 .. Ttl : x = c.took + 1 /\ y = IF c.left > 0 THEN c.left - 1 ELSE 0
    BY <2>2, SettingAssumption, BoundAssumption
  <2> QED BY <2>1, <2>3 DEF Older
<1>2. /\ Older(c).pc = c.pc /\ Older(c).on = c.on /\ Older(c).token = c.token
      /\ Older(c).role = c.role /\ Older(c).modules = c.modules /\ Older(c).floor = c.floor
      /\ Older(c).settled = c.settled /\ Older(c).stood = c.stood
  BY DEF Older, Checks
<1>3. /\ Older(c).has = c.has
      /\ Older(c).enrolled = c.enrolled /\ Older(c).bare = c.bare /\ Older(c).open = c.open
  BY DEF Older, Checks
<1>4. Older(c).took = c.took + 1 /\ Older(c).left = IF c.left > 0 THEN c.left - 1 ELSE 0
  BY DEF Older, Checks
<1> HIDE DEF Older
<1> QED BY <1>1, <1>2, <1>3, <1>4

LEMMA RequestAges ==
  ASSUME Shapes, NEW c \in Checks, c.took < Slow, Good(c), UNCHANGED <<accounts, acked>>, Passes
  PROVE  Good(Older(c))'
<1> DEFINE d == Older(c)
           u == OwnerOf(c)
<1>1. /\ d.pc = c.pc /\ d.on = c.on /\ d.token = c.token /\ (d.has <=> c.has)
      /\ d.role = c.role /\ d.modules = c.modules /\ d.floor = c.floor
      /\ d.settled = c.settled /\ d.stood = c.stood
      /\ (d.enrolled <=> c.enrolled) /\ (d.bare <=> c.bare) /\ (d.open <=> c.open)
      /\ d.took = c.took + 1
      /\ d.left > 0 => c.left > 0 /\ d.left = c.left - 1
  BY OlderFields
<1>2. c.took \in 0 .. Slow /\ c.left \in 0 .. Ttl /\ u \in Users /\ Ttl \in Nat /\ Slow \in Nat /\ since \in Nat
      /\ Lag \in Nat /\ Lag' = Lag /\ (Lag # 0 => Lag < Ttl)
  BY CheckFields, StateFields, SettingAssumption, BoundAssumption DEF Lag, accounts
<1>3. role' = role /\ modules' = modules /\ enrolled' = enrolled /\ banned' = banned /\ listed' = listed /\ acked' = acked
  BY DEF accounts
<1>4. PICK e : e = d
  OBVIOUS
<1>5. /\ e.pc = c.pc /\ e.on = c.on /\ e.token = c.token /\ (e.has <=> c.has) /\ OwnerOf(e) = u
      /\ e.role = c.role /\ e.modules = c.modules /\ e.floor = c.floor
      /\ e.settled = c.settled /\ e.stood = c.stood
      /\ (e.enrolled <=> c.enrolled) /\ (e.bare <=> c.bare) /\ (e.open <=> c.open)
      /\ e.took = c.took + 1
      /\ e.left > 0 => c.left > 0 /\ e.left = c.left - 1
  BY <1>1, <1>4 DEF OwnerOf
<1>6. (Told(e))' = Told(c)
  BY <1>3, <1>5 DEF Told
<1> HIDE DEF d, u
<1>7. PromiseKept(e)'
  BY <1>5, <1>6 DEF Good, PromiseKept, Verified, Looked
<1>8. Remembers(e)'
  BY <1>3, <1>5, <1>6 DEF Good, Remembers, Verified, Looked, u
<1>9. Gated(e)'
  BY <1>3, <1>5 DEF Good, Gated, Passed
<1>10. since' > e.took => since > c.took
  BY <1>2, <1>5 DEF Passes, Horizon
<1>11. since' > Lag' + e.took => since > Lag + c.took
  BY <1>2, <1>5 DEF Passes, Horizon
<1>12. e.left > 0 /\ since' > Ttl - e.left => c.left > 0 /\ since > Ttl - c.left
  BY <1>2, <1>5 DEF Passes, Horizon
<1>13. UpToDate(e)'
  BY <1>3, <1>5, <1>10, <1>11, <1>12 DEF Good, UpToDate, Verified, Passed, Looked, u
<1> QED BY <1>4, <1>7, <1>8, <1>9, <1>13 DEF Good, d

LEMMA TickKeeps ==
  ASSUME AuthInv, Tick
  PROVE  AuthInv'
<1>1. /\ cache \in [Servers -> [Tokens -> Entries \cup {None}]]
      /\ factor \in [Servers -> [Users -> Answers \cup {None}]]
      /\ req \in [Requests -> Checks \cup {Idle}]
      /\ since \in 0 .. Horizon
      /\ Ttl \in Nat /\ Slow \in Nat
  BY SettingAssumption, BoundAssumption DEF AuthInv, Shapes
<1>2. /\ UNCHANGED <<accounts, acked, changes, failures>>
      /\ cache' = [s \in Servers |-> [t \in Tokens |-> Aged(cache[s][t])]]
      /\ factor' = [s \in Servers |-> [u \in Users |-> Aged(factor[s][u])]]
  BY DEF Tick
<1>3. Passes /\ since' \in 0 .. Horizon
  <2>1. Horizon \in Nat /\ since \in Nat /\ since <= Horizon
    BY <1>1, BoundAssumption DEF Horizon
  <2>2. since' = IF since < Horizon THEN since + 1 ELSE since
    BY DEF Tick
  <2> QED BY <2>1, <2>2 DEF Passes
<1>4. /\ \A s \in Servers, t \in Tokens : cache'[s][t] = Aged(cache[s][t]) /\ cache[s][t] \in Entries \cup {None}
      /\ \A s \in Servers, u \in Users : factor'[s][u] = Aged(factor[s][u]) /\ factor[s][u] \in Answers \cup {None}
  BY <1>1, <1>2
<1>5. ASSUME NEW r \in Requests
      PROVE  \/ req[r] = Idle /\ req'[r] = Idle
             \/ req[r] # Idle /\ req[r] \in Checks /\ req[r].took < Slow /\ req'[r] = Older(req[r])
  BY <1>1 DEF Tick, Older
<1>6. Shapes'
  <2>1. cache' \in [Servers -> [Tokens -> Entries \cup {None}]]
    BY <1>2, <1>4, AgedEntry
  <2>2. factor' \in [Servers -> [Users -> Answers \cup {None}]]
    BY <1>2, <1>4, AgedEntry
  <2>3. \A r \in Requests : req'[r] \in Checks \cup {Idle}
    BY <1>5, OlderFields
  <2>4. req' \in [Requests -> Checks \cup {Idle}]
    BY <2>3 DEF Tick
  <2> QED BY <1>2, <1>3, <2>1, <2>2, <2>4 DEF AuthInv, Shapes, accounts
<1>7. Bounded'
  <2>1. \A s \in Servers : HeldBy(cache'[s]) = HeldBy(cache[s])
    BY <1>4, AgedEntry DEF HeldBy
  <2> QED BY <2>1 DEF AuthInv, Bounded, HeldBy
<1>8. Promised'
  BY <1>2 DEF AuthInv, Promised, Honest, accounts
<1>9. CacheGood'
  <2>1. ASSUME NEW s \in Servers, NEW t \in Tokens, cache'[s][t] # None
        PROVE  GoodEntry(s, t, cache[s][t])'
    <3>1. PICK e \in Entries : e = cache[s][t] /\ cache'[s][t] = Aged(e)
      BY <1>4, <2>1, AgedEntry
    <3>2. GoodEntry(s, t, e) /\ Shapes
      BY <3>1, AgedEntry DEF AuthInv, CacheGood
    <3>3. GoodEntry(s, t, Aged(e))'
      BY <1>2, <1>3, <3>2, EntryAges
    <3> QED BY <3>1, <3>3 DEF GoodEntry, Aged, Live
  <2> QED BY <2>1 DEF CacheGood
<1>10. FactorGood'
  <2>1. ASSUME NEW s \in Servers, NEW u \in Users, factor'[s][u] # None
        PROVE  GoodAnswer(s, u, factor[s][u])'
    <3>1. PICK a \in Answers : a = factor[s][u] /\ factor'[s][u] = Aged(a)
      BY <1>4, <2>1, AgedEntry
    <3>2. GoodAnswer(s, u, a) /\ Shapes
      BY <3>1, AgedEntry DEF AuthInv, FactorGood
    <3>3. GoodAnswer(s, u, Aged(a))'
      BY <1>2, <1>3, <3>2, AnswerAges
    <3> QED BY <3>1, <3>3 DEF GoodAnswer, Aged, Live
  <2> QED BY <2>1 DEF FactorGood
<1>11. ReqGood'
  <2>1. ASSUME NEW r \in Requests, req'[r] # Idle
        PROVE  Good(req[r])' /\ Backed(req[r])'
    <3>1. PICK c \in Checks : c = req[r] /\ c.took < Slow /\ req'[r] = Older(c) /\ Good(c) /\ Backed(c) /\ Shapes
      BY <1>5, <2>1 DEF AuthInv, ReqGood
    <3>2. Good(Older(c))'
      BY <1>2, <1>3, <3>1, RequestAges
    <3>3. PICK d : d = Older(c)
      OBVIOUS
    <3>4. d.on = c.on /\ OwnerOf(d) = OwnerOf(c) /\ (Settled(d) => Settled(c)) /\ c.on \in Servers /\ OwnerOf(c) \in Users
      BY <3>1, <3>3, OlderFields, CheckFields DEF OwnerOf, Settled
    <3>5. PICK a : a = factor[c.on][OwnerOf(c)]
      OBVIOUS
    <3>6. a \in Answers \cup {None} /\ factor'[c.on][OwnerOf(c)] = Aged(a)
      BY <1>4, <3>4, <3>5
    <3>7. Settled(c) /\ Aged(a) # None /\ Live(Aged(a)) => Aged(a).has
      BY <3>1, <3>5, <3>6, AgedEntry DEF Backed
    <3>8. Backed(d)'
      BY <3>4, <3>6, <3>7 DEF Backed, Settled, Live
    <3>9. (Backed(req[r]))'
      BY <3>1, <3>3, <3>8
    <3>10. (Good(req[r]))'
      BY <3>1, <3>2 DEF Older
    <3> QED BY <3>9, <3>10
  <2> QED BY <2>1 DEF ReqGood
<1>12. ReqsAgree'
  <2>1. ASSUME NEW r \in Requests, NEW q \in Requests, req'[r] # Idle, req'[q] # Idle
        PROVE  Agree(req'[r], req'[q])
    <3>1. PICK c \in Checks, e \in Checks :
            /\ c = req[r] /\ e = req[q] /\ c.took < Slow /\ e.took < Slow
            /\ req'[r] = Older(c) /\ req'[q] = Older(e) /\ Agree(c, e)
      BY <1>5, <2>1 DEF AuthInv, ReqsAgree
    <3> QED BY <3>1, OlderFields DEF Agree, Settled, OwnerOf
  <2> QED BY <2>1 DEF ReqsAgree, Agree, Settled, OwnerOf
<1> QED BY <1>6, <1>7, <1>8, <1>9, <1>10, <1>11, <1>12 DEF AuthInv

-----------------------------------------------------------------------------
(* The specification. *)

LEMMA Initially == Init => AuthInv
<1> SUFFICES ASSUME Init PROVE AuthInv
  OBVIOUS
<1>1. Shapes
  <2>1. \A s \in Servers, u \in Users : acked[s][u] \in Promises
    BY DEF Init, Promises
  <2>2. acked \in [Servers -> [Users -> Promises]]
    BY <2>1 DEF Init
  <2>3. since \in 0 .. Horizon
    BY SettingAssumption, BoundAssumption DEF Init, Horizon
  <2> QED BY <2>2, <2>3, SettingAssumption, BoundAssumption DEF Init, Shapes
<1>2. Bounded
  <2>1. \A s \in Servers : HeldBy(cache[s]) = {}
    BY DEF Init, HeldBy
  <2> QED BY <2>1, FS_EmptySet, SettingAssumption DEF Bounded
<1>3. Promised
  BY DEF Init, Promised, Honest
<1>4. CacheGood /\ FactorGood /\ ReqGood /\ ReqsAgree
  BY SettingAssumption DEF Init, CacheGood, FactorGood, ReqGood, ReqsAgree
<1> QED BY <1>1, <1>2, <1>3, <1>4 DEF AuthInv

LEMMA Inductive == AuthInv /\ [Next]_vars => AuthInv'
<1> SUFFICES ASSUME AuthInv, [Next]_vars PROVE AuthInv'
  OBVIOUS
<1>1. CASE UNCHANGED vars
  <2>1. UNCHANGED <<accounts, cache, factor, req, acked, since, changes, failures>>
    BY <1>1 DEF vars, history
  <2>2. UNCHANGED <<listed, role, modules, enrolled, banned, inactive>>
    BY <2>1 DEF accounts
  <2>3. Shapes' /\ Bounded' /\ Promised'
    BY <2>1, <2>2 DEF AuthInv, Shapes, Bounded, Promised, Honest
  <2>4. CacheGood' /\ FactorGood'
    BY <2>1, StaysGood DEF AuthInv, CacheGood, FactorGood, history
  <2>5. (\A c : Backed(c)' <=> Backed(c)) /\ (\A c, e : Agree(c, e)' <=> Agree(c, e))
    BY <2>1 DEF Backed, Agree, Settled
  <2>6. ReqGood' /\ ReqsAgree'
    BY <2>1, <2>5, StaysGood DEF AuthInv, ReqGood, ReqsAgree, history
  <2> QED BY <2>3, <2>4, <2>6 DEF AuthInv
<1>2. ASSUME NEW r \in Requests, Step(r)
      PROVE  AuthInv'
  BY <1>2, VerifyStep, ListStep, RememberStep, RoleStep, LimitsStep, LimitsFailStep, EndStep, StoreStep DEF Step
<1> QED BY <1>1, <1>2, BeginStep, AdminKeeps, EnrolKeeps, TickKeeps DEF Next

\* The invariant the properties of the sign-in cache follow from.
THEOREM Invariance == Spec => []AuthInv
  BY Initially, Inductive, PTL DEF Spec

\* Every variable keeps its type, and _auth_cache never holds more than _AUTH_CACHE_MAX
\* tokens in a process, whatever the number of tokens it is asked about.
THEOREM TypeCorrect == Spec => []TypeOK
<1>1. AuthInv => TypeOK
  <2> SUFFICES ASSUME AuthInv PROVE TypeOK
    OBVIOUS
  <2>1. Shapes
    BY DEF AuthInv
  <2>2. \A s \in Servers : Cardinality({t \in Tokens : cache[s][t] # None}) <= MaxEntries
    BY DEF AuthInv, Bounded, HeldBy
  <2>3. role \in [Users -> 1 .. MaxChanges + 1] /\ modules \in [Users -> 1 .. MaxChanges + 1]
    <3>1. \A u \in Users : role[u] \in 1 .. MaxChanges + 1 /\ modules[u] \in 1 .. MaxChanges + 1
      BY <2>1, BoundAssumption DEF Shapes
    <3> QED BY <2>1, <3>1 DEF Shapes
  <2>4. \A r \in Requests : req[r] = Idle \/
          /\ req[r].pc \in {"verify", "factor", "factored", "role", "limits", "legacy",
                            "store", "answer", "denied"}
          /\ req[r].on \in Servers /\ req[r].token \in Tokens
          /\ {req[r].role, req[r].modules} \subseteq 0 .. MaxChanges + 1
          /\ {req[r].has, req[r].enrolled, req[r].bare, req[r].open} \subseteq BOOLEAN /\ req[r].left \in 0 .. Ttl
          /\ req[r].took \in 0 .. Slow
    <3>1. ASSUME NEW c \in Checks
          PROVE  /\ c.pc \in Labels /\ c.on \in Servers /\ c.token \in Tokens
                 /\ c.role \in Versions /\ c.modules \in Versions
                 /\ {c.has, c.enrolled, c.bare, c.open} \subseteq BOOLEAN /\ c.left \in 0 .. Ttl
                 /\ c.took \in 0 .. Slow
      BY DEF Checks
    <3>2. \A r \in Requests : req[r] = Idle \/ req[r] \in Checks
      BY <2>1 DEF Shapes
    <3> QED BY <3>1, <3>2 DEF Labels, Versions
  <2> QED BY <2>1, <2>2, <2>3, <2>4 DEF TypeOK, Shapes
<1> QED BY <1>1, Invariance, PTL

\* A change an admin was answered about, with no verification of the user under way in
\* that process, decides every request the process answers afterwards: its role and its
\* modules are that old at least, a deactivated account is not served, and a user whose
\* factors were reset is not asked for one.
THEOREM ChangesLand == Spec => []ChangesTakeEffect
<1>1. AuthInv => ChangesTakeEffect
  <2> SUFFICES ASSUME AuthInv, NEW r \in Requests
               PROVE  /\ Served(r) =>
                           /\ req[r].role >= req[r].floor.role
                           /\ req[r].modules >= req[r].floor.modules \/ req[r].modules = 0
                           /\ req[r].floor.banned => req[r].open
                      /\ At(r, "denied") /\ req[r].floor.bare => req[r].enrolled
    BY DEF ChangesTakeEffect
  <2>1. CASE req[r] = Idle
    BY <2>1 DEF Idle, Served, At
  <2>2. CASE req[r] # Idle
    BY <2>2 DEF AuthInv, ReqGood, Good, Remembers, Served, At, AtLeast
  <2> QED BY <2>1, <2>2
<1> QED BY <1>1, Invariance, PTL

\* However many answers raced a change, an account that has stood unchanged for a TTL and
\* the time of one request is served as it stands, and a token without a second factor is
\* not served beyond two TTLs after its user set one up.
THEOREM FreshWithinTtl == Spec => []FreshAfterTtl
<1>1. AuthInv => FreshAfterTtl
  <2> SUFFICES ASSUME AuthInv, NEW r \in Requests, Served(r)
               PROVE  /\ req[r].settled >= Ttl + Slow =>
                           /\ req[r].role >= req[r].stood.role
                           /\ req[r].modules >= req[r].stood.modules \/ req[r].modules = 0
                           /\ req[r].open
                      /\ req[r].token \notin Strong
                         /\ req[r].settled >= (IF listed THEN Ttl + Slow ELSE 2 * Ttl + Slow - 1) => req[r].bare
    BY DEF FreshAfterTtl, GateClosesWithin
  <2>1. PICK c \in Checks : c = req[r] /\ c.pc = "answer" /\ Remembers(c) /\ Gated(c)
    BY DEF AuthInv, Shapes, ReqGood, Good, Served, At, Idle
  <2>2. c.settled >= Ttl + Slow => c.role >= c.stood.role /\ AtLeast(c.modules, c.stood.modules) /\ c.open
    BY <2>1 DEF Remembers
  <2>3. Weak(c.token) => c.bare \/ c.settled < (IF listed THEN Ttl + Slow ELSE 2 * Ttl + Slow - 1)
    BY <2>1 DEF Gated
  <2>4. c.settled \in Nat /\ Ttl \in Nat /\ Slow \in Nat
    BY CheckFields, SettingAssumption, BoundAssumption
  <2> QED BY <2>1, <2>2, <2>3, <2>4 DEF AtLeast, Weak
<1> QED BY <1>1, Invariance, PTL
=============================================================================
