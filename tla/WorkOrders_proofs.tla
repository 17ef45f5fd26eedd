------------------------- MODULE WorkOrders_proofs -------------------------
(* Proofs about WorkOrders, for any set of clients, statuses and requests. *)
EXTENDS WorkOrders, TLAPS

\* What a client holds of the row is the row itself or an older version of it.
Snapshot(r) == r.version <= row.version /\ (r.version = row.version => r = row)

Snapshots ==
    \A c \in Clients :
        /\ stage[c] \in {"open", "read", "write"} => Snapshot(seen[c])
        /\ stage[c] = "write" =>
             /\ Snapshot(before[c])
             /\ asked[c].mode = "version" => before[c] = seen[c]
        /\ stage[c] \in {"read", "write"} => asked[c] \in Request /\ Sendable(asked[c])

IInv == OrdersTypeOK /\ Snapshots

-----------------------------------------------------------------------------
\* The stamps of a row are numbers whatever the save asks.
LEMMA WrittenType ==
    ASSUME OrdersTypeOK, NEW c \in Clients, asked[c] \in Request
    PROVE  Written(c) \in OrderRow /\ Written(c).version = row.version + 1
<1>1. before[c] \in OrderRow /\ row \in OrderRow
  BY DEF OrdersTypeOK
<1> DEFINE b == before[c]
           sent == [b EXCEPT !.status = Sent(asked[c].status, b.status),
                             !.sign = Sent(asked[c].sign, b.sign)]
           stamped == LifecycleStamps(b, sent, row.version + 1)
<1>2. Sent(asked[c].status, b.status) \in Statuses /\ Sent(asked[c].status, row.status) \in Statuses
  BY <1>1 DEF Sent, Request, OrderRow
<1>3. Sent(asked[c].sign, b.sign) \in BOOLEAN /\ Sent(asked[c].sign, row.sign) \in BOOLEAN
  BY <1>1 DEF Sent, Request, OrderRow
<1>4. sent \in OrderRow /\ row.version + 1 \in Nat
  <2>1. \A s \in Statuses : \A g \in BOOLEAN : [b EXCEPT !.status = s, !.sign = g] \in OrderRow
    BY <1>1 DEF OrderRow
  <2>2. row.version + 1 \in Nat
    BY <1>1 DEF OrderRow
  <2> QED BY <2>1, <2>2, <1>2, <1>3
<1>5. /\ stamped.started \in Nat
      /\ stamped.completed \in Nat
      /\ stamped.signed_off \in Nat
  <2>1. \A s \in OrderRow : \A now \in Nat : LifecycleStamps(b, s, now) \in OrderRow
    BY DEF LifecycleStamps, OrderRow
  <2> QED BY <2>1, <1>4 DEF OrderRow
<1> QED BY <1>1, <1>2, <1>3, <1>5 DEF Written, OrderRow

\* A request that ends leaves a well-typed state.
LEMMA DoneType ==
    ASSUME IInv, NEW c \in Clients, Done(c),
           UNCHANGED <<live, row, comments, opened>>, trail' \in Seq(Event)
    PROVE  IInv'
<1>1. NewRow \in OrderRow /\ NoEvent \in Event
  BY StatusAssumption DEF NewRow, OrderRow, NoEvent, Event
<1>2. OrdersTypeOK'
  BY <1>1 DEF IInv, OrdersTypeOK, Done
<1>3. Snapshots'
  BY DEF IInv, OrdersTypeOK, Snapshots, Snapshot, Done
<1> QED BY <1>2, <1>3 DEF IInv

\* Each event a save decides on is one the table takes.
LEMMA EventType ==
    ASSUME OrdersTypeOK, NEW c \in Clients, NEW saved \in OrderRow
    PROVE  AuditEvent(c, saved) \in Event
<1>1. before[c] \in OrderRow
  BY DEF OrdersTypeOK
<1>2. NoEvent \in Event
  BY DEF NoEvent, Event
<1> QED BY <1>1, <1>2, StatusAssumption DEF AuditEvent, Event, OrderRow

LEMMA Initially == OrdersInit => IInv
<1> SUFFICES ASSUME OrdersInit PROVE IInv
  OBVIOUS
<1>1. NewRow \in OrderRow /\ NoEvent \in Event
  BY StatusAssumption DEF NewRow, OrderRow, NoEvent, Event
<1>2. OrdersTypeOK
  BY <1>1, RequestAssumption DEF OrdersInit, OrdersTypeOK
<1>3. Snapshots
  BY DEF OrdersInit, Snapshots
<1> QED BY <1>2, <1>3 DEF IInv

LEMMA Inductive == IInv /\ [OrdersNext]_order_vars => IInv'
<1> SUFFICES ASSUME IInv, [OrdersNext]_order_vars PROVE IInv'
  OBVIOUS
<1> USE DEF IInv
<1>1. ASSUME NEW c \in Clients, Open(c) PROVE IInv'
  <2>1. OrdersTypeOK'
    BY <1>1, RequestAssumption DEF OrdersTypeOK, Open
  <2>2. Snapshots'
    BY <1>1 DEF OrdersTypeOK, OrderRow, Snapshots, Snapshot, Open
  <2> QED BY <2>1, <2>2
<1>2. ASSUME NEW c \in Clients, NEW r \in Request, Send(c, r) PROVE IInv'
  <2>1. OrdersTypeOK'
    BY <1>2 DEF OrdersTypeOK, Send
  <2>2. Snapshots'
    BY <1>2 DEF OrdersTypeOK, Snapshots, Snapshot, Send
  <2> QED BY <2>1, <2>2
<1>3. ASSUME NEW c \in Clients, Read(c) PROVE IInv'
  <2>1. OrdersTypeOK'
    BY <1>3 DEF OrdersTypeOK, Read
  <2>2. Snapshots'
    <3>1. Snapshot(row)
      BY DEF OrdersTypeOK, OrderRow, Snapshot
    <3>2. asked[c].mode = "version" => row = seen[c]
      BY <1>3 DEF Read, Unchanged, Snapshots, Snapshot
    <3> QED BY <1>3, <3>1, <3>2 DEF OrdersTypeOK, Snapshots, Snapshot, Read
  <2> QED BY <2>1, <2>2
<1>4. ASSUME NEW c \in Clients, Write(c) PROVE IInv'
  <2>1. asked[c] \in Request
    BY <1>4 DEF Write, Snapshots
  <2>2. row' \in OrderRow /\ row'.version = row.version + 1
    BY <1>4, <2>1, WrittenType DEF Write
  <2>3. AuditEvent(c, row') \in Event
    BY <2>2, EventType
  <2>4. [action |-> "none", from |-> row.status, to |-> row'.status] \in Event
    BY <2>2 DEF Event, OrderRow, OrdersTypeOK
  <2>5. OrdersTypeOK'
    BY <1>4, <2>2, <2>3, <2>4 DEF OrdersTypeOK, Write
  <2>6. Snapshots'
    <3>1. \A r \in OrderRow : Snapshot(r) => Snapshot(r)'
      <4>1. row.version \in Nat /\ \A r \in OrderRow : r.version \in Nat
        BY DEF OrdersTypeOK, OrderRow
      <4>2. \A r \in OrderRow : r.version <= row.version =>
                r.version <= row'.version /\ r.version # row'.version
        BY <4>1, <2>2
      <4> QED BY <4>2 DEF Snapshot
    <3>2. \A d \in Clients : seen[d] \in OrderRow /\ before[d] \in OrderRow
      BY DEF OrdersTypeOK
    <3>3. /\ stage' = [stage EXCEPT ![c] = "append"]
          /\ UNCHANGED <<asked, seen, before>>
      BY <1>4 DEF Write
    <3>4. \A d \in Clients : /\ Snapshot(seen[d]) => Snapshot(seen[d])'
                             /\ Snapshot(before[d]) => Snapshot(before[d])'
      BY <3>1, <3>2, <3>3 DEF Snapshot
    <3> QED BY <3>3, <3>4 DEF OrdersTypeOK, Snapshots
  <2> QED BY <2>5, <2>6
<1>5. ASSUME NEW c \in Clients, Delete(c) \/ Comment(c) PROVE IInv'
  <2>1. /\ [action |-> "deleted", from |-> Keep, to |-> Keep] \in Event
        /\ [action |-> "commented", from |-> Keep, to |-> Keep] \in Event
    BY DEF Event
  <2>2. OrdersTypeOK'
    <3>1. CASE Delete(c)
      BY <3>1, <2>1 DEF OrdersTypeOK, Delete
    <3>2. CASE Comment(c)
      BY <3>2, <2>1 DEF OrdersTypeOK, Comment
    <3> QED BY <1>5, <3>1, <3>2
  <2>3. Snapshots'
    BY <1>5 DEF OrdersTypeOK, Snapshots, Snapshot, Delete, Comment
  <2> QED BY <2>2, <2>3
<1>6. ASSUME NEW c \in Clients, AppendEvent(c) PROVE IInv'
  <2>1. trail' \in Seq(Event)
    BY <1>6 DEF AppendEvent, OrdersTypeOK
  <2> QED BY <1>6, <2>1, DoneType DEF AppendEvent
<1>7. ASSUME NEW c \in Clients, Refuse(c) \/ WriteMissed(c) \/ AppendFails(c) PROVE IInv'
  <2>1. trail' \in Seq(Event)
    BY <1>7 DEF Refuse, WriteMissed, AppendFails, OrdersTypeOK
  <2> QED BY <1>7, <2>1, DoneType DEF Refuse, WriteMissed, AppendFails
<1>8. CASE UNCHANGED order_vars
  BY <1>8 DEF order_vars, OrdersTypeOK, Snapshots, Snapshot
<1> QED BY <1>1, <1>2, <1>3, <1>4, <1>5, <1>6, <1>7, <1>8 DEF OrdersNext

THEOREM Invariance == OrdersSpec => []IInv
<1> QED BY Initially, Inductive, PTL DEF OrdersSpec

\* Every variable keeps the type of the column, request or event it models.
THEOREM TypeCorrect == OrdersSpec => []OrdersTypeOK
<1>1. IInv => OrdersTypeOK
  BY DEF IInv
<1> QED BY <1>1, Invariance, PTL

-----------------------------------------------------------------------------
\* Only the client's own Write is a save of it.
LEMMA SaveIsWrite ==
    ASSUME IInv, [OrdersNext]_order_vars, NEW c \in Clients, Saves(c)
    PROVE  Write(c)
<1>1. ASSUME NEW d \in Clients, d # c, stage' = [stage EXCEPT ![d] = stage'[d]] PROVE FALSE
  BY <1>1 DEF Saves, IInv, OrdersTypeOK
<1> QED BY <1>1 DEF OrdersNext, Saves, IInv, OrdersTypeOK, Open, Send, Read, Refuse, Write,
        WriteMissed, Delete, Comment, AppendEvent, AppendFails, Done, order_vars

\* A PATCH that sends its version overwrites exactly the row its form showed.
THEOREM ExclusiveSaves == OrdersSpec => VersionedSaveIsExclusive
<1>1. ASSUME IInv, [OrdersNext]_order_vars, NEW c \in Clients, Saves(c), asked[c].mode = "version"
      PROVE  row = seen[c]
  <2>1. Write(c)
    BY <1>1, SaveIsWrite
  <2>2. row.version = seen[c].version /\ stage[c] = "write"
    BY <1>1, <2>1 DEF Write, Matches
  <2> QED BY <1>1, <2>2 DEF IInv, Snapshots, Snapshot
<1>2. IInv /\ [OrdersNext]_order_vars =>
        [\A c \in Clients : Saves(c) /\ asked[c].mode = "version" => row = seen[c]]_order_vars
  BY <1>1
<1> QED BY <1>2, Invariance, PTL DEF OrdersSpec, VersionedSaveIsExclusive

-----------------------------------------------------------------------------
\* A request that goes on to write was allowed the sign-off over the row it read.
ReadAllowed ==
    \A c \in Clients : stage[c] = "write" /\ asked[c].sign # Keep /\ asked[c].sign # before[c].sign => c \in Managers

LEMMA ReadAllowedHolds == OrdersSpec => []ReadAllowed
<1>1. OrdersInit => ReadAllowed
  BY DEF OrdersInit, ReadAllowed
<1>2. IInv /\ ReadAllowed /\ [OrdersNext]_order_vars => ReadAllowed'
  <2> SUFFICES ASSUME IInv, ReadAllowed, [OrdersNext]_order_vars PROVE ReadAllowed'
    OBVIOUS
  <2> USE DEF IInv, OrdersTypeOK, ReadAllowed
  <2>1. ASSUME NEW c \in Clients, Read(c) PROVE ReadAllowed'
    BY <2>1 DEF Read, SignOffAllowed
  <2>2. ASSUME NEW c \in Clients, Open(c) \/ \E r \in Request : Send(c, r) PROVE ReadAllowed'
    BY <2>2 DEF Open, Send
  <2>3. ASSUME NEW c \in Clients, Write(c) \/ Delete(c) \/ Comment(c) PROVE ReadAllowed'
    BY <2>3 DEF Write, Delete, Comment
  <2>4. ASSUME NEW c \in Clients, Done(c) PROVE ReadAllowed'
    BY <2>4 DEF Done
  <2>5. CASE UNCHANGED order_vars
    BY <2>5 DEF order_vars
  <2> QED BY <2>1, <2>2, <2>3, <2>4, <2>5 DEF OrdersNext, Refuse, WriteMissed, AppendEvent, AppendFails
<1> QED BY <1>1, <1>2, Invariance, PTL DEF OrdersSpec

\* Only the write of a save changes the row.
LEMMA RowChangesByWrite ==
    ASSUME [OrdersNext]_order_vars, row' # row
    PROVE  \E c \in Clients : Write(c)
BY DEF OrdersNext, order_vars, Open, Send, Read, Refuse, WriteMissed, Delete, Comment, AppendEvent, AppendFails

\* The foreman's sign-off moves only in a manager's save or in one that was overtaken.
THEOREM ManagersSignOff == OrdersSpec => SignoffByManager
<1>1. ASSUME IInv, ReadAllowed, [OrdersNext]_order_vars, row'.sign # row.sign
      PROVE  \/ \E c \in Managers : Saves(c)
             \/ \E c \in Clients : Overtaken(c) /\ asked[c].sign = before[c].sign
  <2>1. PICK c \in Clients : Write(c)
    BY <1>1, RowChangesByWrite
  <2>2. Saves(c)
    BY <1>1, <2>1 DEF Write, Saves, IInv, OrdersTypeOK
  <2>3. asked[c].sign # Keep /\ asked[c].sign # row.sign
    BY <1>1, <2>1 DEF Write, Written, Sent
  <2>4. CASE c \in Managers
    BY <2>2, <2>4
  <2>5. CASE c \notin Managers
    <3>1. asked[c].sign = before[c].sign
      BY <1>1, <2>1, <2>3, <2>5 DEF Write, ReadAllowed
    <3>2. Overtaken(c)
      BY <2>2, <2>3, <3>1 DEF Overtaken
    <3> QED BY <3>1, <3>2
  <2> QED BY <2>4, <2>5
<1>2. IInv /\ ReadAllowed /\ [OrdersNext]_order_vars =>
        [row'.sign # row.sign =>
          \/ \E c \in Managers : Saves(c)
          \/ \E c \in Clients : Overtaken(c) /\ asked[c].sign = before[c].sign]_order_vars
  BY <1>1
<1> QED BY <1>2, Invariance, ReadAllowedHolds, PTL DEF OrdersSpec, SignoffByManager

-----------------------------------------------------------------------------
\* A versioned save finds the row its handler read, and its event tells the move.
LEMMA WriteTells ==
    ASSUME IInv, NEW c \in Clients, Write(c), asked[c].mode = "version", row.status # row'.status
    PROVE  /\ event'[c].from = row.status /\ event'[c].to = row'.status
           /\ event' = [event EXCEPT ![c] = event'[c]]
<1>1. /\ row = before[c]
      /\ asked[c] \in Request /\ Sendable(asked[c])
  BY DEF Write, Matches, IInv, OrdersTypeOK, Snapshots, Snapshot
<1>2. asked[c].kind = "patch"
  BY <1>1 DEF Write, Sendable
<1>3. row' = Written(c)
  BY DEF Write
<1>4. asked[c].status # Keep
  BY <1>3 DEF Written, Sent
<1>5. AuditEvent(c, row') = [action |-> "updated", from |-> before[c].status, to |-> row'.status]
  BY <1>1, <1>2, <1>4 DEF AuditEvent
<1>6. event' = [event EXCEPT ![c] = AuditEvent(c, row')] /\ event \in [Clients -> Event]
  BY DEF Write, IInv, OrdersTypeOK
<1> QED BY <1>1, <1>5, <1>6

\* The event of a versioned save that moved the status tells where from and where to.
THEOREM TrailIsTrue == OrdersSpec => []TrailTellsWhatChanged
<1>1. OrdersInit => TrailTellsWhatChanged
  BY DEF OrdersInit, TrailTellsWhatChanged
<1>2. IInv /\ TrailTellsWhatChanged /\ [OrdersNext]_order_vars => TrailTellsWhatChanged'
  <2> SUFFICES ASSUME IInv, TrailTellsWhatChanged, [OrdersNext]_order_vars PROVE TrailTellsWhatChanged'
    OBVIOUS
  <2> USE DEF TrailTellsWhatChanged
  <2>1. ASSUME NEW c \in Clients, Write(c) PROVE TrailTellsWhatChanged'
    <3>1. /\ event' = [event EXCEPT ![c] = event'[c]]
          /\ actual' = [actual EXCEPT ![c] = [action |-> "none", from |-> row.status, to |-> row'.status]]
          /\ stage' = [stage EXCEPT ![c] = "append"] /\ asked' = asked
      BY <2>1 DEF Write, IInv, OrdersTypeOK
    <3>2. actual'[c].from = row.status /\ actual'[c].to = row'.status
      BY <3>1 DEF IInv, OrdersTypeOK
    <3>3. asked[c].mode = "version" /\ row.status # row'.status =>
             event'[c].from = row.status /\ event'[c].to = row'.status
      BY <2>1, WriteTells
    <3> QED BY <3>1, <3>2, <3>3 DEF IInv, OrdersTypeOK
  <2>2. ASSUME NEW c \in Clients, Open(c) \/ (\E r \in Request : Send(c, r)) \/ Read(c) PROVE TrailTellsWhatChanged'
    BY <2>2 DEF Open, Send, Read, IInv, OrdersTypeOK
  <2>3. ASSUME NEW c \in Clients, Delete(c) \/ Comment(c) PROVE TrailTellsWhatChanged'
    <3>1. asked[c].mode # "version"
      BY <2>3 DEF Delete, Comment, IInv, Snapshots, Sendable
    <3> QED BY <2>3, <3>1 DEF Delete, Comment, IInv, OrdersTypeOK
  <2>4. ASSUME NEW c \in Clients, Done(c) PROVE TrailTellsWhatChanged'
    BY <2>4 DEF Done, IInv, OrdersTypeOK
  <2>5. CASE UNCHANGED order_vars
    BY <2>5 DEF order_vars
  <2> QED BY <2>1, <2>2, <2>3, <2>4, <2>5 DEF OrdersNext, Refuse, WriteMissed, AppendEvent, AppendFails
<1> QED BY <1>1, <1>2, Invariance, PTL DEF OrdersSpec
=============================================================================
