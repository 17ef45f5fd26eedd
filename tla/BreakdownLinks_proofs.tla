------------------------ MODULE BreakdownLinks_proofs ------------------------
(***************************************************************************)
(* What BreakdownLinks keeps for any number of requests, work orders and   *)
(* breakdowns.                                                             *)
(***************************************************************************)
EXTENDS BreakdownLinks, FiniteSetTheorems, TLAPS

-----------------------------------------------------------------------------
(* The inductive invariant, in parts. *)

\* A raise that has read its breakdown, a delete that is about to delete it.
Raising(p) == req[p] = "raise" /\ step[p] \in {"job", "find", "shell", "link"}
Deleting(p) == req[p] = "delete_breakdown" /\ step[p] = "delete"
Held(b) == \E p \in Procs : brk[p] = b /\ (Raising(p) \/ Deleting(p))

\* What a request holds where it stands.
Calls ==
    /\ job \in [Procs -> usedJobs \cup {NoJob}]
    /\ brk \in [Procs -> usedBreakdowns \cup {NoBreakdown}]
    /\ \A p \in Procs :
          /\ step[p] = "idle" => job[p] = NoJob /\ brk[p] = NoBreakdown
          /\ step[p] = "read" => req[p] \in {"raise", "record", "delete_breakdown"}
          /\ step[p] = "read" /\ req[p] = "raise" => job[p] = NoJob
          /\ step[p] = "job" => req[p] \in {"create", "job", "raise"} /\ job[p] = NoJob
          /\ step[p] = "patch" => req[p] = "patch"
          /\ step[p] \in {"find", "shell"} =>
                job[p] # NoJob /\ req[p] \in {"create", "job", "raise", "patch", "record"}
          /\ step[p] = "store" => req[p] \in {"create", "create_alone"}
          /\ step[p] = "link" => req[p] = "raise" /\ job[p] # NoJob
          /\ step[p] = "delete" => req[p] \in {"delete_breakdown", "delete_job"}
          /\ req[p] = "create_alone" => job[p] = NoJob
          /\ req[p] \in {"create", "raise"} /\ job[p] # NoJob => job[p] \in logged
          /\ req[p] \in {"raise", "delete_breakdown"} => brk[p] # NoBreakdown
    /\ \A b \in Breakdowns : link[b] \in jobs \cup {NoJob}
    /\ \A b \in Breakdowns \ usedBreakdowns : raisedFor[b] = {} /\ link[b] = NoJob

\* Two requests that hold one id have raced.
Alone ==
    \A p, q \in Procs : p # q =>
        /\ job[p] = job[q] /\ job[p] # NoJob => job[p] \in raced
        /\ brk[p] = brk[q] /\ brk[p] # NoBreakdown => brk[p] \in raced

\* A linked job has a breakdown nobody may link elsewhere or delete, so what a
\* request saw linked stays so; a breakdown job without one has its request.
Recorded ==
    /\ \A j \in jobs : LinkedTo(j) # {} => \E b \in LinkedTo(j) : ~Held(b)
    /\ \A p \in Procs : step[p] = "link" /\ job[p] \in jobs => LinkedTo(job[p]) # {}
    /\ \A j \in jobs \cap isBreakdown :
          LinkedTo(j) # {} \/ \E p \in Procs : step[p] \in {"find", "shell"} /\ job[p] = j

\* How many breakdowns a job has while its request goes on.
NoneYet(j) == LinkedTo(j) = {}
AtMostOne(S) == \A a, b \in S : a = b
AtMostTwo(S) == \A a, b, c \in S : a = b \/ a = c \/ b = c
ShellsOnce ==
    /\ \A j \in jobs \ raced :
          AtMostTwo(LinkedTo(j)) /\ (j \notin logged => AtMostOne(LinkedTo(j)))
    /\ \A p \in Procs : job[p] \in jobs \ raced =>
          /\ step[p] = "shell" \/ (step[p] = "find" /\ req[p] \in {"create", "raise"}) => NoneYet(job[p])
          /\ step[p] \in {"store", "link"} => AtMostOne(LinkedTo(job[p]))

\* The live jobs a breakdown has raised: the one it is linked to, or the one whose
\* raise is still on its way to the link.
Raised(b) == raisedFor[b] \cap jobs
RaisedOnce ==
    \A b \in Breakdowns \ raced :
        /\ \A p \in Procs : brk[p] = b /\ Raising(p) =>
              b \in shells /\ Raised(b) \subseteq (IF step[p] = "job" THEN {} ELSE {job[p]})
        /\ (\A p \in Procs : ~(brk[p] = b /\ Raising(p))) => Raised(b) \subseteq {link[b]}

DeletesFree == \A p \in Procs : Deleting(p) /\ brk[p] \notin raced => link[brk[p]] = NoJob

LinksInv ==
    /\ LinksTypeOK /\ Calls /\ Alone /\ ShellsOnce /\ DeletesFree
    /\ fails = 0 => Recorded /\ RaisedOnce

LEMMA Initially == LinksInit => LinksInv
  BY NullAssumption, LinkBoundAssumption
  DEF LinksInit, LinksInv, LinksTypeOK, Calls, Alone, ShellsOnce, DeletesFree, Recorded, RaisedOnce,
      LinkedTo, Held, Raising, Deleting, AtMostOne, AtMostTwo, NoneYet, Raised

-----------------------------------------------------------------------------
LEMMA StartStep ==
  ASSUME LinksInv, NEW p \in Procs, NEW k \in Kinds,
         NEW j \in usedJobs \cup {NoJob}, NEW b \in usedBreakdowns \cup {NoBreakdown}, Start(p, k, j, b)
  PROVE  LinksInv'
<1> USE NullAssumption, LinkBoundAssumption, KindAssumption
    DEF LinksInv, LinksTypeOK, Calls, tables, Start, FirstCall
<1>1. LinksTypeOK' /\ Calls'
  <2>1. LinksTypeOK'
    OBVIOUS
  <2>2. Calls'
    OBVIOUS
  <2> QED BY <2>1, <2>2
<1>2. Alone'
  BY DEF Alone
<1>3. ShellsOnce'
  BY DEF Alone, ShellsOnce, NoneYet, AtMostOne, AtMostTwo, LinkedTo
<1>4. DeletesFree'
  BY DEF Alone, DeletesFree, Deleting
<1>5. fails' = 0 => Recorded'
  BY DEF Recorded, Held, Raising, Deleting, LinkedTo
<1>6. fails' = 0 => RaisedOnce'
  BY DEF Alone, RaisedOnce, Raised, Raising, Deleting, LinkedTo
<1> QED BY <1>1, <1>2, <1>3, <1>4, <1>5, <1>6

LEMMA RaiseReads ==
  ASSUME LinksInv, NEW p \in Procs, raise_work_order_for_breakdown(p)
  PROVE  LinksInv'
<1> USE NullAssumption, LinkBoundAssumption, KindAssumption
    DEF LinksInv, LinksTypeOK, Calls, tables, raise_work_order_for_breakdown, Over, Go, Return, At
<1>1. LinksTypeOK' /\ Calls'
  OBVIOUS
<1>2. Alone'
  BY DEF Alone
<1>3. ShellsOnce'
  BY DEF Alone, ShellsOnce, NoneYet, AtMostOne, AtMostTwo, LinkedTo
<1>4. DeletesFree'
  BY DEF Alone, DeletesFree, Deleting
<1>5. fails' = 0 => Recorded'
  BY DEF Recorded, Held, Raising, Deleting, LinkedTo
<1>6. fails' = 0 => RaisedOnce'
  BY DEF Alone, RaisedOnce, Raised, Raising, Deleting, LinkedTo
<1> QED BY <1>1, <1>2, <1>3, <1>4, <1>5, <1>6

LEMMA RecordReads ==
  ASSUME LinksInv, NEW p \in Procs, record_breakdown_for_work_order(p)
  PROVE  LinksInv'
<1> USE NullAssumption, LinkBoundAssumption, KindAssumption
    DEF LinksInv, LinksTypeOK, Calls, tables, record_breakdown_for_work_order, Over, Go, Return, At
<1>1. LinksTypeOK' /\ Calls'
  OBVIOUS
<1>2. Alone'
  BY DEF Alone
<1>3. ShellsOnce'
  BY DEF Alone, ShellsOnce, NoneYet, AtMostOne, AtMostTwo, LinkedTo
<1>4. DeletesFree'
  BY DEF Alone, DeletesFree, Deleting
<1>5. fails' = 0 => Recorded'
  BY DEF Recorded, Held, Raising, Deleting, LinkedTo
<1>6. fails' = 0 => RaisedOnce'
  BY DEF Alone, RaisedOnce, Raised, Raising, Deleting, LinkedTo
<1> QED BY <1>1, <1>2, <1>3, <1>4, <1>5, <1>6

LEMMA DeleteReads ==
  ASSUME LinksInv, NEW p \in Procs, delete_breakdown(p)
  PROVE  LinksInv'
<1> USE NullAssumption, LinkBoundAssumption, KindAssumption
    DEF LinksInv, LinksTypeOK, Calls, tables, delete_breakdown, Over, Go, Return, At
<1>1. LinksTypeOK' /\ Calls'
  OBVIOUS
<1>2. Alone'
  BY DEF Alone
<1>3. ShellsOnce'
  BY DEF Alone, ShellsOnce, NoneYet, AtMostOne, AtMostTwo, LinkedTo
<1>4. DeletesFree'
  BY DEF Alone, DeletesFree, Deleting
<1>5. fails' = 0 => Recorded'
  BY DEF Recorded, Held, Raising, Deleting, LinkedTo
<1>6. fails' = 0 => RaisedOnce'
  BY DEF Alone, RaisedOnce, Raised, Raising, Deleting, LinkedTo
<1> QED BY <1>1, <1>2, <1>3, <1>4, <1>5, <1>6

LEMMA InsertJobStep ==
  ASSUME LinksInv, NEW p \in Procs, InsertJob(p)
  PROVE  LinksInv'
<1> USE NullAssumption, LinkBoundAssumption, KindAssumption
    DEF LinksInv, LinksTypeOK, Calls, tables, InsertJob, Over, Go, Return, At, ShellDue
<1>1. LinksTypeOK' /\ Calls'
  OBVIOUS
<1>2. Alone'
  BY DEF Alone
<1>3. ShellsOnce'
  BY DEF Alone, ShellsOnce, NoneYet, AtMostOne, AtMostTwo, LinkedTo
<1>4. DeletesFree'
  BY DEF Alone, DeletesFree, Deleting
<1>5. fails' = 0 => Recorded'
  BY DEF Recorded, Held, Raising, Deleting, LinkedTo
<1>6. fails' = 0 => RaisedOnce'
  BY DEF Alone, RaisedOnce, Raised, Raising, Deleting, LinkedTo
<1> QED BY <1>1, <1>2, <1>3, <1>4, <1>5, <1>6

LEMMA PatchStep ==
  ASSUME LinksInv, NEW p \in Procs, PatchJob(p)
  PROVE  LinksInv'
<1> USE NullAssumption, LinkBoundAssumption, KindAssumption
    DEF LinksInv, LinksTypeOK, Calls, tables, PatchJob, Over, Go, Return, At, ShellDue
<1>1. LinksTypeOK' /\ Calls'
  OBVIOUS
<1>2. Alone'
  BY DEF Alone
<1>3. ShellsOnce'
  BY DEF Alone, ShellsOnce, NoneYet, AtMostOne, AtMostTwo, LinkedTo
<1>4. DeletesFree'
  BY DEF Alone, DeletesFree, Deleting
<1>5. fails' = 0 => Recorded'
  BY DEF Recorded, Held, Raising, Deleting, LinkedTo
<1>6. fails' = 0 => RaisedOnce'
  BY DEF Alone, RaisedOnce, Raised, Raising, Deleting, LinkedTo
<1> QED BY <1>1, <1>2, <1>3, <1>4, <1>5, <1>6

LEMMA FindStep ==
  ASSUME LinksInv, NEW p \in Procs, FindShell(p)
  PROVE  LinksInv'
<1> USE NullAssumption, LinkBoundAssumption, KindAssumption
    DEF LinksInv, LinksTypeOK, Calls, tables, FindShell, Over, Go, Return, At
<1>1. LinksTypeOK' /\ Calls'
  OBVIOUS
<1>2. Alone'
  BY DEF Alone
<1>3. ShellsOnce'
  BY DEF Alone, ShellsOnce, NoneYet, AtMostOne, AtMostTwo, LinkedTo
<1>4. DeletesFree'
  BY DEF Alone, DeletesFree, Deleting
<1>5. fails' = 0 => Recorded'
  BY DEF Recorded, Held, Raising, Deleting, LinkedTo
<1>6. fails' = 0 => RaisedOnce'
  BY DEF Alone, RaisedOnce, Raised, Raising, Deleting, LinkedTo
<1> QED BY <1>1, <1>2, <1>3, <1>4, <1>5, <1>6

LEMMA ShellStep ==
  ASSUME LinksInv, NEW p \in Procs, InsertShell(p)
  PROVE  LinksInv'
<1> USE NullAssumption, LinkBoundAssumption, KindAssumption
    DEF LinksInv, LinksTypeOK, Calls, tables, InsertShell, Over, Go, Return, At, Insert
<1>1. LinksTypeOK' /\ Calls'
  OBVIOUS
<1>2. Alone'
  BY DEF Alone
<1>3. ShellsOnce'
  BY DEF Alone, ShellsOnce, NoneYet, AtMostOne, AtMostTwo, LinkedTo
<1>4. DeletesFree'
  BY DEF Alone, DeletesFree, Deleting
<1>5. fails' = 0 => Recorded'
  BY DEF Recorded, Held, Raising, Deleting, LinkedTo
<1>6. fails' = 0 => RaisedOnce'
  BY DEF Alone, RaisedOnce, Raised, Raising, Deleting, LinkedTo
<1> QED BY <1>1, <1>2, <1>3, <1>4, <1>5, <1>6

LEMMA StoreStep ==
  ASSUME LinksInv, NEW p \in Procs, StoreBreakdown(p)
  PROVE  LinksInv'
<1> USE NullAssumption, LinkBoundAssumption, KindAssumption
    DEF LinksInv, LinksTypeOK, Calls, tables, StoreBreakdown, Over, Go, Return, At, Insert
<1>1. LinksTypeOK' /\ Calls'
  OBVIOUS
<1>2. Alone'
  BY DEF Alone
<1>3. ShellsOnce'
  BY DEF Alone, ShellsOnce, NoneYet, AtMostOne, AtMostTwo, LinkedTo
<1>4. DeletesFree'
  BY DEF Alone, DeletesFree, Deleting
<1>5. fails' = 0 => Recorded'
  BY DEF Recorded, Held, Raising, Deleting, LinkedTo
<1>6. fails' = 0 => RaisedOnce'
  BY DEF Alone, RaisedOnce, Raised, Raising, Deleting, LinkedTo
<1> QED BY <1>1, <1>2, <1>3, <1>4, <1>5, <1>6

LEMMA LinkStep ==
  ASSUME LinksInv, NEW p \in Procs, LinkBreakdown(p)
  PROVE  LinksInv'
<1> USE NullAssumption, LinkBoundAssumption, KindAssumption
    DEF LinksInv, LinksTypeOK, Calls, tables, LinkBreakdown, Over, Go, Return, At
<1>1. LinksTypeOK' /\ Calls'
  OBVIOUS
<1>2. Alone'
  BY DEF Alone
<1>3. ShellsOnce'
  BY DEF Alone, ShellsOnce, NoneYet, AtMostOne, AtMostTwo, LinkedTo
<1>4. DeletesFree'
  BY DEF Alone, DeletesFree, Deleting
<1>5. fails' = 0 => Recorded'
  BY DEF Recorded, Held, Raising, Deleting, LinkedTo
<1>6. fails' = 0 => RaisedOnce'
  BY DEF Alone, RaisedOnce, Raised, Raising, Deleting, LinkedTo
<1> QED BY <1>1, <1>2, <1>3, <1>4, <1>5, <1>6

LEMMA DanglingStep ==
  ASSUME LinksInv, NEW p \in Procs, Dangling(p)
  PROVE  LinksInv'
<1> USE NullAssumption, LinkBoundAssumption, KindAssumption
    DEF LinksInv, LinksTypeOK, Calls, tables, Dangling, Over, Go, Return, At
<1>1. LinksTypeOK' /\ Calls'
  OBVIOUS
<1>2. Alone'
  BY DEF Alone
<1>3. ShellsOnce'
  BY DEF Alone, ShellsOnce, NoneYet, AtMostOne, AtMostTwo, LinkedTo
<1>4. DeletesFree'
  BY DEF Alone, DeletesFree, Deleting
<1>5. fails' = 0 => Recorded'
  BY DEF Recorded, Held, Raising, Deleting, LinkedTo
<1>6. fails' = 0 => RaisedOnce'
  BY DEF Alone, RaisedOnce, Raised, Raising, Deleting, LinkedTo
<1> QED BY <1>1, <1>2, <1>3, <1>4, <1>5, <1>6

LEMMA DeleteBreakdownStep ==
  ASSUME LinksInv, NEW p \in Procs, DeleteBreakdown(p)
  PROVE  LinksInv'
<1> USE NullAssumption, LinkBoundAssumption, KindAssumption
    DEF LinksInv, LinksTypeOK, Calls, tables, DeleteBreakdown, Over, Go, Return, At
<1>1. LinksTypeOK' /\ Calls'
  OBVIOUS
<1>2. Alone'
  BY DEF Alone
<1>3. ShellsOnce'
  BY DEF Alone, ShellsOnce, NoneYet, AtMostOne, AtMostTwo, LinkedTo
<1>4. DeletesFree'
  BY DEF Alone, DeletesFree, Deleting
<1>5. fails' = 0 => Recorded'
  BY DEF Recorded, Held, Raising, Deleting, LinkedTo
<1>6. fails' = 0 => RaisedOnce'
  BY DEF Alone, DeletesFree, RaisedOnce, Raised, Raising, Deleting, LinkedTo
<1> QED BY <1>1, <1>2, <1>3, <1>4, <1>5, <1>6

LEMMA DeleteJobStep ==
  ASSUME LinksInv, NEW p \in Procs, DeleteJob(p)
  PROVE  LinksInv'
<1> USE NullAssumption, LinkBoundAssumption, KindAssumption
    DEF LinksInv, LinksTypeOK, Calls, tables, DeleteJob, Over, Go, Return, At
<1>1. LinksTypeOK' /\ Calls'
  OBVIOUS
<1>2. Alone'
  BY DEF Alone
<1>3. ShellsOnce'
  BY DEF Alone, ShellsOnce, NoneYet, AtMostOne, AtMostTwo, LinkedTo
<1>4. DeletesFree'
  BY DEF Alone, DeletesFree, Deleting
<1>5. ASSUME fails' = 0 PROVE Recorded'
  <2> USE <1>5 DEF Recorded
  <2>1. \A j \in jobs' : (LinkedTo(j))' = LinkedTo(j)
    BY DEF LinkedTo
  <2>2. \A b \in Breakdowns : ~Held(b) => (~Held(b))'
    BY DEF Held, Raising, Deleting
  <2>3. (\A j \in jobs : LinkedTo(j) # {} => \E b \in LinkedTo(j) : ~Held(b))'
    <3>1. TAKE j \in jobs'
    <3>2. HAVE (LinkedTo(j) # {})'
    <3>3. PICK b \in LinkedTo(j) : ~Held(b)
      BY <2>1, <3>1, <3>2
    <3>4. b \in Breakdowns
      BY <3>3 DEF LinkedTo
    <3> QED BY <2>1, <2>2, <3>1, <3>3, <3>4
  <2>4. (\A q \in Procs : step[q] = "link" /\ job[q] \in jobs => LinkedTo(job[q]) # {})'
    BY <2>1
  <2>5. (\A j \in jobs \cap isBreakdown :
           LinkedTo(j) # {} \/ \E q \in Procs : step[q] \in {"find", "shell"} /\ job[q] = j)'
    BY <2>1
  <2> QED BY <2>3, <2>4, <2>5
<1>6. fails' = 0 => RaisedOnce'
  BY DEF Alone, RaisedOnce, Raised, Raising, Deleting, LinkedTo
<1> QED BY <1>1, <1>2, <1>3, <1>4, <1>5, <1>6

LEMMA FailStep ==
  ASSUME LinksInv, NEW p \in Procs, Fails(p)
  PROVE  LinksInv'
<1> USE NullAssumption, LinkBoundAssumption, KindAssumption
    DEF LinksInv, LinksTypeOK, Calls, tables, Fails, Over, Go, Return, At
<1>1. LinksTypeOK' /\ Calls'
  OBVIOUS
<1>2. Alone'
  BY DEF Alone
<1>3. ShellsOnce'
  BY DEF Alone, ShellsOnce, NoneYet, AtMostOne, AtMostTwo, LinkedTo
<1>4. DeletesFree'
  BY DEF Alone, DeletesFree, Deleting
<1>5. fails' = 0 => Recorded'
  BY DEF Recorded, Held, Raising, Deleting, LinkedTo
<1>6. fails' = 0 => RaisedOnce'
  BY DEF Alone, RaisedOnce, Raised, Raising, Deleting, LinkedTo
<1> QED BY <1>1, <1>2, <1>3, <1>4, <1>5, <1>6

LEMMA Inductive == LinksInv /\ [LinksNext]_link_vars => LinksInv'
<1> SUFFICES ASSUME LinksInv, [LinksNext]_link_vars PROVE LinksInv'
  OBVIOUS
<1>1. CASE UNCHANGED link_vars
  BY <1>1 DEF LinksInv, LinksTypeOK, Calls, Alone, Recorded, ShellsOnce, RaisedOnce, DeletesFree, LinkedTo, Held,
              Raising, Deleting, NoneYet, AtMostOne, AtMostTwo, Raised, link_vars, tables
<1>2. CASE LinksNext
  <2>1. PICK p \in Procs :
           \/ \E k \in Kinds, j \in usedJobs \cup {NoJob}, b \in usedBreakdowns \cup {NoBreakdown} :
                  Start(p, k, j, b)
           \/ raise_work_order_for_breakdown(p) \/ record_breakdown_for_work_order(p)
           \/ delete_breakdown(p)
           \/ InsertJob(p) \/ PatchJob(p) \/ FindShell(p) \/ InsertShell(p)
           \/ StoreBreakdown(p) \/ LinkBreakdown(p) \/ Dangling(p)
           \/ DeleteBreakdown(p) \/ DeleteJob(p) \/ Fails(p)
    BY <1>2 DEF LinksNext
  <2> QED
    BY <2>1, StartStep, RaiseReads, RecordReads, DeleteReads, InsertJobStep, PatchStep, FindStep, ShellStep,
       StoreStep, LinkStep, DanglingStep, DeleteBreakdownStep, DeleteJobStep, FailStep
<1> QED BY <1>1, <1>2

\* The tables and the requests keep their shape, and what LinksInv says of them, for any
\* number of requests, ids and failures.
THEOREM Invariance == LinksSpec => []LinksInv
<1>1. LinksInit => LinksInv
  BY Initially
<1>2. LinksInv /\ [LinksNext]_link_vars => LinksInv'
  BY Inductive
<1> QED BY <1>1, <1>2, PTL DEF LinksSpec

-----------------------------------------------------------------------------
(* From elements to cardinalities. *)

LEMMA OneByOne ==
  ASSUME NEW S, AtMostOne(S)
  PROVE  IsFiniteSet(S) /\ Cardinality(S) <= 1
<1>1. CASE S = {}
  BY <1>1, FS_EmptySet
<1>2. CASE S # {}
  <2>1. PICK x \in S : TRUE
    BY <1>2
  <2>2. S = {x}
    BY <2>1 DEF AtMostOne
  <2>3. IsFiniteSet({x}) /\ Cardinality({x}) = 1
    BY FS_Singleton
  <2> QED BY <2>2, <2>3
<1> QED BY <1>1, <1>2

LEMMA TwoByTwo ==
  ASSUME NEW S, AtMostTwo(S)
  PROVE  Cardinality(S) <= 2
<1>1. CASE S = {}
  BY <1>1, FS_EmptySet
<1>2. CASE S # {}
  <2>1. PICK x \in S : TRUE
    BY <1>2
  <2>2. AtMostOne(S \ {x})
    BY <2>1 DEF AtMostOne, AtMostTwo
  <2>3. IsFiniteSet(S \ {x}) /\ Cardinality(S \ {x}) \in Nat /\ Cardinality(S \ {x}) <= 1
    BY <2>2, OneByOne, FS_CardinalityType
  <2>4. S = (S \ {x}) \cup {x}
    BY <2>1
  <2>5. Cardinality((S \ {x}) \cup {x}) = Cardinality(S \ {x}) + 1
    BY <2>3, FS_AddElement
  <2> QED BY <2>3, <2>4, <2>5
<1> QED BY <1>1, <1>2

-----------------------------------------------------------------------------
LEMMA RaisesOne == ASSUME LinksInv, fails = 0, NEW b \in Breakdowns \ raced PROVE AtMostOne(Raised(b))
<1>1. CASE \E p \in Procs : brk[p] = b /\ Raising(p)
  BY <1>1 DEF LinksInv, RaisedOnce, AtMostOne
<1>2. CASE \A p \in Procs : ~(brk[p] = b /\ Raising(p))
  BY <1>2 DEF LinksInv, RaisedOnce, AtMostOne
<1> QED BY <1>1, <1>2

LEMMA SingleHolds == LinksInv => Single
<1> SUFFICES ASSUME LinksInv PROVE Single
  OBVIOUS
<1>1. ASSUME NEW j \in jobs \ raced
      PROVE  Cardinality(LinkedTo(j)) <= IF j \in logged THEN 2 ELSE 1
  BY <1>1, OneByOne, TwoByTwo DEF LinksInv, ShellsOnce
<1>2. ASSUME fails = 0, NEW b \in Breakdowns \ raced
      PROVE  Cardinality(raisedFor[b] \cap jobs) <= 1
  BY <1>2, RaisesOne, OneByOne DEF Raised
<1> QED BY <1>1, <1>2 DEF Single

\* Only DeleteBreakdown takes a breakdown out of the table, and the one it takes is linked
\* to no job unless it has raced.
LEMMA DeletesUnlinked ==
  LinksInv /\ [LinksNext]_link_vars => [\A b \in shells \ raced : b \notin shells' => link[b] = NoJob]_link_vars
<1> SUFFICES ASSUME LinksInv, LinksNext, NEW b \in shells \ raced, b \notin shells' PROVE link[b] = NoJob
  OBVIOUS
<1>1. PICK p \in Procs : DeleteBreakdown(p)
  BY DEF LinksNext, Start, raise_work_order_for_breakdown, record_breakdown_for_work_order, delete_breakdown, InsertJob,
         PatchJob, FindShell, InsertShell, StoreBreakdown, LinkBreakdown, Dangling, DeleteJob, Fails, Insert, At, tables
<1>2. brk[p] = b
  BY <1>1 DEF DeleteBreakdown
<1> QED BY <1>1, <1>2 DEF LinksInv, DeletesFree, Deleting, DeleteBreakdown

\* create_breakdown, the shell of a job, raise and delete: a job no two requests worked on at
\* once has one breakdown, or two if it was logged from one; a breakdown raises one live job;
\* and a breakdown that goes has no job.
THEOREM Singly == LinksSpec => LinksAreSingle
<1>1. LinksInv => Single
  BY SingleHolds
<1>2. LinksInv /\ [LinksNext]_link_vars => [\A b \in shells \ raced : b \notin shells' => link[b] = NoJob]_link_vars
  BY DeletesUnlinked
<1> QED BY <1>1, <1>2, Invariance, PTL DEF LinksSpec, LinksAreSingle

\* Once every request is over, and nothing failed, no breakdown job is without its downtime.
THEOREM NoLostDowntime == LinksSpec => []DowntimeRecorded
<1>1. LinksInv => DowntimeRecorded
  BY DEF LinksInv, Recorded, DowntimeRecorded
<1> QED BY <1>1, Invariance, PTL

\* LinksTypeOK alone.
THEOREM TypeCorrect == LinksSpec => []LinksTypeOK
<1>1. LinksInv => LinksTypeOK
  BY DEF LinksInv
<1> QED BY <1>1, Invariance, PTL
=============================================================================
