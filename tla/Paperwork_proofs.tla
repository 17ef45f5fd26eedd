--------------------------- MODULE Paperwork_proofs ---------------------------
(***************************************************************************)
(* What the registers of reports and forms keep, for every number of       *)
(* requests, rows, items and files.                                        *)
(***************************************************************************)
EXTENDS FormRegisters, DocumentFiles, SequenceTheorems, FiniteSetTheorems, NaturalsInduction, WellFoundedInduction, TLAPS

-----------------------------------------------------------------------------
(* The calls a handler may have left. *)

Patches == UNION {[fields -> STRING] : fields \in SUBSET {"section", "department", "status"}}
StampedPatches ==
    UNION {{p \in [fields -> STRING \cup BOOLEAN] :
               \A f \in fields : p[f] \in (IF f = "stamp" THEN BOOLEAN ELSE STRING)} :
           fields \in SUBSET {"section", "department", "status", "stamp"}}
Sections == STRING \cup {Blank}
Finds == [op : {"find"}, patch : Patches, strict : BOOLEAN, version : Nat, mode : {"merged", "keeps", "both"}]
Writes == [op : {"write"}, patch : StampedPatches, touch : {0, 1}]
Inserts == [op : {"insert"}, row : Columns]
Fills == [op : {"fill", "add"}, names : SUBSET STRING, section : Sections]
OnItems == [op : {"find_item", "write_item"}, section : Sections]
Reads == [op : {"read"}, scoped : BOOLEAN, whole : BOOLEAN, joined : BOOLEAN, archived : BOOLEAN, start : Nat]
Plain == [op : {"drop", "clear", "drop_item", "read_each", "read_own", "read_items", "look", "revise",
                "store", "attach", "unstore"}]
Takens == [op : {"taken"}, number : Nat]
Archives == [op : {"archive"}, from : BOOLEAN]
Signs == [op : {"sign"}, stage : Stages]
Calls == Finds \cup Writes \cup Inserts \cup Fills \cup OnItems \cup Reads \cup Plain \cup Takens \cup Archives \cup Signs

\* What a call carries, by its name.
LEMMA CallFields ==
    ASSUME NEW c \in Calls
    PROVE  /\ c.op = "write" => c.patch \in StampedPatches /\ c.touch \in {0, 1}
           /\ c.op = "insert" => c.row \in Columns
           /\ c.op \in {"fill", "add"} => c.names \subseteq STRING /\ c.section \in Sections
           /\ c.op = "write_item" => c.section \in Sections
           /\ c.op = "sign" => c.stage \in Stages
           /\ c.op = "archive" => c.from \in BOOLEAN
           /\ c.op = "read" => c \in Reads
BY DEF Calls, Finds, Writes, Inserts, Fills, OnItems, Reads, Plain, Takens, Archives, Signs

\* The calls the endpoints are made of.
LEMMA CallsMade ==
    /\ \A p \in Patches, b \in BOOLEAN : Find(p, b) \in Finds /\ FindKeeping(p) \in Finds
    /\ \A p \in Patches, v \in Nat : FindVersion(p, v) \in Finds /\ FindBoth(p, v) \in Finds
    /\ \A p \in StampedPatches : Write(p) \in Writes /\ Touch(p) \in Writes
    /\ \A row \in Columns : Insert(row) \in Inserts
    /\ \A names \in SUBSET STRING, s \in Sections : Fill(names, s) \in Fills /\ Fill(names, s).op = "fill"
    /\ \A name \in STRING, s \in Sections : Add(name, s) \in Fills /\ Add(name, s).op = "add"
    /\ \A s \in Sections : /\ FindItem(s) \in OnItems /\ FindItem(s).op = "find_item"
                           /\ WriteItem(s) \in OnItems /\ WriteItem(s).op = "write_item"
    /\ \A a, b, c, d \in BOOLEAN : ReadCall(a, b, c, d) \in Reads
    /\ \A n \in Nat : Taken(n) \in Takens
    /\ \A b \in BOOLEAN : Archive(b) \in Archives
    /\ \A stage \in Stages : Sign(stage) \in Signs
    /\ {Drop, Clear, DropItem, ReadEach, ReadOwn, ReadItems, Look, Revise, Store, Attach, Unstore} \subseteq Plain
<1>1. \A row \in Columns : Insert(row) \in Inserts
  BY DEF Insert, Inserts
<1>2. \A p \in Patches, b \in BOOLEAN : Find(p, b) \in Finds /\ FindKeeping(p) \in Finds
  BY DEF Find, FindKeeping, Finds
<1>3. \A p \in Patches, v \in Nat : FindVersion(p, v) \in Finds /\ FindBoth(p, v) \in Finds
  BY DEF FindVersion, FindBoth, Finds
<1>4. \A p \in StampedPatches : Write(p) \in Writes /\ Touch(p) \in Writes
  BY DEF Write, Touch, Writes
<1>5. \A names \in SUBSET STRING, s \in Sections : Fill(names, s) \in Fills /\ Fill(names, s).op = "fill"
  BY DEF Fill, Fills
<1>6. \A name \in STRING, s \in Sections : Add(name, s) \in Fills /\ Add(name, s).op = "add"
  BY DEF Add, Fills
<1>7. \A s \in Sections : /\ FindItem(s) \in OnItems /\ FindItem(s).op = "find_item"
                          /\ WriteItem(s) \in OnItems /\ WriteItem(s).op = "write_item"
  BY DEF FindItem, WriteItem, OnItems
<1>8. \A a, b, c, d \in BOOLEAN : ReadCall(a, b, c, d) \in Reads
  BY DEF ReadCall, Reads
<1>9. \A n \in Nat : Taken(n) \in Takens
  BY DEF Taken, Takens
<1>10. \A b \in BOOLEAN : Archive(b) \in Archives
  BY DEF Archive, Archives
<1>11. \A stage \in Stages : Sign(stage) \in Signs
  BY DEF Sign, Signs
<1>12. {Drop, Clear, DropItem, ReadEach, ReadOwn, ReadItems, Look, Revise, Store, Attach, Unstore} \subseteq Plain
  BY DEF Drop, Clear, DropItem, ReadEach, ReadOwn, ReadItems, Look, Revise, Store, Attach, Unstore, Plain
<1> QED BY <1>1, <1>2, <1>3, <1>4, <1>5, <1>6, <1>7, <1>8, <1>9, <1>10, <1>11, <1>12

\* A call's name follows from its shape.
LEMMA OpOf ==
    /\ \A c \in Finds : c.op = "find" /\ c \in Calls
    /\ \A c \in Writes : c.op = "write" /\ c \in Calls
    /\ \A c \in Inserts : c.op = "insert" /\ c \in Calls
    /\ \A c \in Fills : c.op \in {"fill", "add"} /\ c \in Calls
    /\ \A c \in OnItems : c.op \in {"find_item", "write_item"} /\ c \in Calls
    /\ \A c \in Reads : c.op = "read" /\ c \in Calls
    /\ \A c \in Plain : c \in Calls
    /\ \A c \in Takens : c.op = "taken" /\ c \in Calls
    /\ \A c \in Archives : c.op = "archive" /\ c \in Calls
    /\ \A c \in Signs : c.op = "sign" /\ c \in Calls
BY DEF Calls, Finds, Writes, Inserts, Fills, OnItems, Reads, Plain, Takens, Archives, Signs

-----------------------------------------------------------------------------
(* What a handler of a table may have left to do, and in which order. *)

RowOps == {"find", "write", "drop", "clear", "fill", "add", "sign"}
ItemOps == {"find_item", "write_item", "unstore", "drop_item"}
Later == {"fill", "revise", "sign", "attach"}  \* never what a handler begins with
SaveOps == {"find", "taken", "insert", "write", "read", "read_own"}
OpsOf(t) ==
    IF t = "sop_documents" THEN SaveOps \cup {"look", "revise", "archive"}
    ELSE IF t = "services"
    THEN SaveOps \cup {"drop", "sign", "store", "attach", "find_item", "unstore", "drop_item"}
    ELSE SaveOps \cup {"drop", "clear", "fill", "add", "find_item", "write_item", "drop_item", "read_each", "read_items"}

Follows(a, b) ==
    /\ b.op = "fill" => a.op \in {"clear", "insert"}
    /\ b.op = "revise" => a.op = "look"
    /\ b.op = "sign" => a.op = "find"
    /\ b.op = "attach" => a.op = "store"

\* An upload ends by naming the object it stored, a removal by dropping the name.
Filing(s, k) ==
    /\ s[k].op = "store" => Len(s) = k + 1 /\ s[k + 1].op = "attach"
    /\ s[k].op = "attach" => Len(s) = k
    /\ s[k].op = "unstore" => Len(s) = k + 1 /\ s[k + 1].op = "drop_item"

Shape(t, s) ==
    /\ s \in Seq(Calls)
    /\ \A k \in 1 .. Len(s) :
          /\ s[k].op \in OpsOf(t)
          /\ k > 1 => Follows(s[k - 1], s[k])
          /\ Filing(s, k)
Starts(t, s) == Shape(t, s) /\ (s # <<>> => s[1].op \notin Later)

\* A call on a row is made by a handler that has one, or stores it first; a call on an
\* item by one that has the item of a row.
HasRow(id, s) == \A k \in 1 .. Len(s) : s[k].op \in RowOps => id \in RowIds \/ \E j \in 1 .. k - 1 : s[j].op = "insert"
HasItem(item, s) == \A k \in 1 .. Len(s) : s[k].op \in ItemOps => item.parent \in RowIds
Legal(t, x) == Shape(t, x.todo) /\ HasRow(x.id, x.todo) /\ HasItem(x.item, x.todo)

\* What is left after the first call.
LEMMA TailIs ==
    ASSUME NEW s \in Seq(Calls), s # <<>>
    PROVE  /\ Len(s) \in Nat \ {0} /\ 1 \in 1 .. Len(s) /\ Head(s) = s[1] /\ Head(s) \in Calls
           /\ Tail(s) \in Seq(Calls) /\ Len(Tail(s)) = Len(s) - 1 /\ Len(Tail(s)) \in Nat
           /\ \A k \in 1 .. Len(Tail(s)) : /\ k + 1 \in 1 .. Len(s) /\ Tail(s)[k] = s[k + 1]
                                           /\ k > 1 => Tail(s)[k - 1] = s[k]
           /\ Tail(s) # <<>> <=> Len(s) > 1
           /\ Tail(s) # <<>> => Head(Tail(s)) = s[2] /\ Tail(s)[1] = s[2] /\ 2 \in 1 .. Len(s)
<1>1. Len(s) \in Nat \ {0} /\ 1 \in 1 .. Len(s) /\ Head(s) = s[1]
  BY EmptySeq
<1>2. /\ Head(s) \in Calls /\ Tail(s) \in Seq(Calls) /\ Len(Tail(s)) = Len(s) - 1
      /\ \A k \in 1 .. Len(Tail(s)) : Tail(s)[k] = s[k + 1]
  BY <1>1, HeadTailProperties
<1>3. Tail(s) # <<>> <=> Len(s) > 1
  <2>1. Tail(s) # <<>> => Len(Tail(s)) \in Nat \ {0}
    BY <1>2, EmptySeq
  <2>2. Tail(s) = <<>> => Len(Tail(s)) = 0
    BY EmptySeq
  <2> QED BY <2>1, <2>2, <1>1, <1>2
<1>4. Tail(s) # <<>> => Head(Tail(s)) = s[2] /\ Tail(s)[1] = s[2] /\ 2 \in 1 .. Len(s)
  BY <1>1, <1>2, <1>3
<1>5. \A k \in 1 .. Len(Tail(s)) : /\ k + 1 \in 1 .. Len(s) /\ Tail(s)[k] = s[k + 1]
                                   /\ k > 1 => Tail(s)[k - 1] = s[k]
  BY <1>1, <1>2
<1> QED BY <1>1, <1>2, <1>3, <1>4, <1>5

LEMMA ShapeTail ==
    ASSUME NEW t, NEW s, Shape(t, s), s # <<>>
    PROVE  /\ Shape(t, Tail(s))
           /\ Head(s) \in Calls /\ Head(s).op \in OpsOf(t)
           /\ Tail(s) # <<>> => Follows(Head(s), Head(Tail(s)))
           /\ Head(s).op = "unstore" => Tail(s) # <<>> /\ Head(Tail(s)).op = "drop_item"
           /\ Head(s).op = "store" => Tail(s) # <<>> /\ \A k \in 1 .. Len(Tail(s)) : Tail(s)[k].op = "attach"
           /\ Head(s).op = "attach" => Tail(s) = <<>>
<1>1. s \in Seq(Calls)
  BY DEF Shape
<1>2. Shape(t, Tail(s))
  <2> SUFFICES ASSUME NEW k \in 1 .. Len(Tail(s))
               PROVE  /\ Tail(s)[k].op \in OpsOf(t)
                      /\ k > 1 => Follows(Tail(s)[k - 1], Tail(s)[k])
                      /\ Filing(Tail(s), k)
    BY <1>1, TailIs DEF Shape
  <2>1. k + 1 \in 1 .. Len(s) /\ Tail(s)[k] = s[k + 1] /\ (k > 1 => Tail(s)[k - 1] = s[k]) /\ k + 1 > 1 /\ k + 1 - 1 = k
    BY <1>1, TailIs
  <2>2. Tail(s)[k].op \in OpsOf(t)
    BY <2>1 DEF Shape
  <2>3. k > 1 => Follows(Tail(s)[k - 1], Tail(s)[k])
    BY <2>1 DEF Shape
  <2>4. Filing(Tail(s), k)
    <3>1. Filing(s, k + 1)
      BY <2>1 DEF Shape
    <3>2. Len(Tail(s)) \in Nat /\ k \in Int /\ Len(s) \in Int /\ Len(Tail(s)) = Len(s) - 1
      BY <1>1, TailIs
    <3>3. Len(s) = k + 1 + 1 => k + 1 \in 1 .. Len(Tail(s)) /\ Tail(s)[k + 1] = s[k + 1 + 1]
      BY <1>1, <3>2, TailIs
    <3>4. Len(s) = k + 1 + 1 <=> Len(Tail(s)) = k + 1
      BY <3>2
    <3>5. Len(s) = k + 1 <=> Len(Tail(s)) = k
      BY <3>2
    <3> QED BY <3>1, <3>3, <3>4, <3>5, <2>1 DEF Filing
  <2> QED BY <2>2, <2>3, <2>4
<1>3. Head(s) \in Calls /\ Head(s).op \in OpsOf(t) /\ Filing(s, 1)
  BY <1>1, TailIs DEF Shape
<1>4. Tail(s) # <<>> => Follows(Head(s), Head(Tail(s)))
  BY <1>1, TailIs DEF Shape
<1>5. /\ Head(s).op = "unstore" => Tail(s) # <<>> /\ Head(Tail(s)).op = "drop_item"
      /\ Head(s).op = "store" => Tail(s) # <<>> /\ \A k \in 1 .. Len(Tail(s)) : Tail(s)[k].op = "attach"
      /\ Head(s).op = "attach" => Tail(s) = <<>>
  <2>0. Len(s) \in Nat \ {0} /\ Len(Tail(s)) = Len(s) - 1 /\ Head(s) = s[1]
    BY <1>1, TailIs
  <2>1. Len(s) = 1 + 1 => Tail(s) # <<>> /\ Head(Tail(s)) = s[1 + 1]
    <3>1. Len(s) = 1 + 1 => Len(s) > 1 /\ s[1 + 1] = s[2]
      OBVIOUS
    <3>2. Len(s) > 1 => Tail(s) # <<>>
      BY <1>1, TailIs
    <3>3. Tail(s) # <<>> => Head(Tail(s)) = s[2]
      BY <1>1, TailIs
    <3> QED BY <3>1, <3>2, <3>3
  <2>2. Len(s) = 1 + 1 => \A k \in 1 .. Len(Tail(s)) : Tail(s)[k] = s[1 + 1]
    <3>1. ASSUME Len(s) = 1 + 1, NEW k \in 1 .. Len(Tail(s)) PROVE Tail(s)[k] = s[1 + 1]
      <4>1. k = 1
        BY <3>1, <2>0
      <4> QED BY <3>1, <4>1, <1>1, TailIs
    <3> QED BY <3>1
  <2>3. Len(s) = 1 => Tail(s) = <<>>
    BY <1>1, TailIs
  <2> QED BY <2>0, <2>1, <2>2, <2>3, <1>3 DEF Filing
<1> QED BY <1>2, <1>3, <1>4, <1>5

LEMMA HasTail ==
    ASSUME NEW s \in Seq(Calls), s # <<>>, NEW id, NEW after, NEW item, HasRow(id, s), HasItem(item, s),
           id \in RowIds \/ Head(s).op = "insert" => after \in RowIds
    PROVE  /\ HasRow(after, Tail(s)) /\ HasItem(item, Tail(s))
           /\ Head(s).op \in RowOps => id \in RowIds
           /\ Head(s).op \in ItemOps => item.parent \in RowIds
<1>1. HasRow(after, Tail(s))
  <2> SUFFICES ASSUME NEW k \in 1 .. Len(Tail(s)), Tail(s)[k].op \in RowOps, after \notin RowIds
               PROVE  \E j \in 1 .. k - 1 : Tail(s)[j].op = "insert"
    BY DEF HasRow
  <2>1. k + 1 \in 1 .. Len(s) /\ Tail(s)[k] = s[k + 1] /\ k + 1 - 1 = k
    BY TailIs
  <2>2. PICK j \in 1 .. k : s[j].op = "insert"
    BY <2>1 DEF HasRow
  <2>3. j # 1
    BY <2>2, TailIs
  <2>4. j - 1 \in 1 .. k - 1 /\ j - 1 \in 1 .. Len(Tail(s)) /\ j - 1 + 1 = j
    BY <2>3, TailIs
  <2>5. Tail(s)[j - 1] = s[j]
    BY <2>4, TailIs
  <2> QED BY <2>2, <2>4, <2>5
<1>2. HasItem(item, Tail(s))
  BY TailIs DEF HasItem
<1>3. /\ Head(s).op \in RowOps => id \in RowIds
      /\ Head(s).op \in ItemOps => item.parent \in RowIds
  <2>1. ~ \E j \in 1 .. 1 - 1 : TRUE
    OBVIOUS
  <2> QED BY <2>1, TailIs DEF HasRow, HasItem
<1> QED BY <1>1, <1>2, <1>3

\* Reading on: the same call again, from the next row.
LEMMA ReadAlike ==
    ASSUME NEW s \in Seq(Calls), s # <<>>, Head(s).op = "read", NEW c \in Reads
    PROVE  /\ <<c>> \o Tail(s) \in Seq(Calls) /\ Len(<<c>> \o Tail(s)) = Len(s) /\ (<<c>> \o Tail(s))[1] = c
           /\ \A k \in 1 .. Len(s) : (<<c>> \o Tail(s))[k].op = s[k].op
<1> DEFINE u == <<c>> \o Tail(s)
<1>2. c \in Calls /\ c.op = "read"
  BY OpOf
<1>3. <<c>> \in Seq(Calls) /\ Len(<<c>>) = 1 /\ <<c>>[1] = c
  BY <1>2
<1>4. /\ u \in Seq(Calls) /\ Len(u) = 1 + Len(Tail(s))
      /\ \A i \in 1 .. 1 + Len(Tail(s)) : u[i] = IF i <= 1 THEN <<c>>[i] ELSE Tail(s)[i - 1]
  BY <1>3, TailIs, ConcatProperties
<1>5. Len(u) = Len(s) /\ u[1] = c /\ \A k \in 1 .. Len(s) : u[k].op = s[k].op
  <2>1. Len(u) = Len(s) /\ u[1] = c
    BY <1>3, <1>4, TailIs
  <2>2. ASSUME NEW k \in 1 .. Len(s), k # 1 PROVE u[k] = s[k]
    <3>1. k - 1 \in 1 .. Len(Tail(s)) /\ k \in 1 .. 1 + Len(Tail(s)) /\ ~(k <= 1) /\ k - 1 + 1 = k
      BY <2>2, TailIs
    <3> QED BY <3>1, <1>4, TailIs
  <2> QED BY <2>1, <2>2, <1>2, TailIs
<1> QED BY <1>4, <1>5

LEMMA ReadingOn ==
    ASSUME NEW t, NEW s, NEW id, NEW item, NEW c \in Reads, Shape(t, s), HasRow(id, s), HasItem(item, s),
           s # <<>>, Head(s).op = "read"
    PROVE  LET u == <<c>> \o Tail(s)
           IN  /\ Shape(t, u) /\ HasRow(id, u) /\ HasItem(item, u)
               /\ u # <<>> /\ Head(u) = c /\ c.op = "read"
<1> DEFINE u == <<c>> \o Tail(s)
<1>1. s \in Seq(Calls)
  BY DEF Shape
<1>2. c \in Calls /\ c.op = "read"
  BY OpOf
<1>5. u \in Seq(Calls) /\ Len(u) = Len(s) /\ u[1] = c /\ \A k \in 1 .. Len(s) : u[k].op = s[k].op
  BY <1>1, ReadAlike
<1>6. u # <<>> /\ Head(u) = c
  BY <1>1, <1>5, TailIs, EmptySeq
<1> HIDE DEF u
<1>7. ASSUME NEW k \in 1 .. Len(s)
      PROVE  /\ u[k].op \in OpsOf(t)
             /\ k > 1 => Follows(u[k - 1], u[k])
             /\ Filing(u, k)
  <2>1. /\ s[k].op \in OpsOf(t) /\ u[k].op = s[k].op /\ (k > 1 => Follows(s[k - 1], s[k])) /\ Filing(s, k)
    BY <1>5 DEF Shape
  <2>2. Len(s) \in Nat
    BY <1>1, TailIs
  <2>3. (k > 1 => u[k - 1].op = s[k - 1].op) /\ (Len(s) = k + 1 => u[k + 1].op = s[k + 1].op)
    BY <1>5, <2>2
  <2>4. k > 1 => Follows(u[k - 1], u[k])
    BY <2>1, <2>3 DEF Follows
  <2>5. Filing(u, k)
    BY <2>1, <2>3, <1>5 DEF Filing
  <2> QED BY <2>1, <2>4, <2>5
<1>8. Shape(t, u)
  BY <1>5, <1>7 DEF Shape
<1>9. HasRow(id, u)
  <2> SUFFICES ASSUME NEW k \in 1 .. Len(s), u[k].op \in RowOps, id \notin RowIds
               PROVE  \E j \in 1 .. k - 1 : u[j].op = "insert"
    BY <1>5 DEF HasRow
  <2>1. PICK j \in 1 .. k - 1 : s[j].op = "insert"
    BY <1>5 DEF HasRow
  <2>2. j \in 1 .. Len(s)
    BY <1>1, TailIs
  <2> QED BY <2>1, <2>2, <1>5
<1>10. HasItem(item, u)
  BY <1>5 DEF HasItem
<1> QED BY <1>2, <1>6, <1>8, <1>9, <1>10 DEF u

\* One list of calls after another.
LEMMA ShapeBoth ==
    ASSUME NEW t, t # "services", NEW s, NEW u, Shape(t, s), Shape(t, u),
           s # <<>> /\ u # <<>> => Follows(s[Len(s)], u[1])
    PROVE  /\ Shape(t, s \o u)
           /\ s # <<>> => (s \o u)[1] = s[1] /\ s \o u # <<>>
           /\ s = <<>> => s \o u = u
           /\ Len(s \o u) = Len(s) + Len(u)
           /\ \A k \in 1 .. Len(s) : (s \o u)[k] = s[k]
           /\ \A k \in 1 .. Len(u) : (s \o u)[Len(s) + k] = u[k]
<1> DEFINE w == s \o u
<1>1. /\ s \in Seq(Calls) /\ u \in Seq(Calls) /\ Len(s) \in Nat /\ Len(u) \in Nat
      /\ (s # <<>> => Len(s) \in Nat \ {0}) /\ (u # <<>> => Len(u) \in Nat \ {0})
      /\ (Len(s) # 0 => s # <<>>) /\ (Len(u) # 0 => u # <<>>)
  BY EmptySeq DEF Shape
<1>2. /\ w \in Seq(Calls) /\ Len(w) = Len(s) + Len(u)
      /\ \A i \in 1 .. Len(s) + Len(u) : w[i] = IF i <= Len(s) THEN s[i] ELSE u[i - Len(s)]
  BY <1>1, ConcatProperties
<1>3. \A k \in 1 .. Len(s) : w[k] = s[k]
  BY <1>1, <1>2
<1>4. \A k \in 1 .. Len(u) : w[Len(s) + k] = u[k]
  BY <1>1, <1>2
<1>5. (s # <<>> => w[1] = s[1] /\ w # <<>>) /\ (s = <<>> => w = u)
  BY <1>1, <1>2, <1>3, ConcatEmptySeq, EmptySeq
<1>6. /\ \A k \in 1 .. Len(s) : s[k].op \notin {"store", "attach", "unstore"}
      /\ \A k \in 1 .. Len(u) : u[k].op \notin {"store", "attach", "unstore"}
  BY DEF Shape, OpsOf, SaveOps
<1> HIDE DEF w
<1>7. Shape(t, w)
  <2> SUFFICES ASSUME NEW k \in 1 .. Len(w)
               PROVE  /\ w[k].op \in OpsOf(t)
                      /\ k > 1 => Follows(w[k - 1], w[k])
                      /\ Filing(w, k)
    BY <1>2 DEF Shape
  <2>1. CASE k <= Len(s)
    <3>1. k \in 1 .. Len(s) /\ w[k] = s[k] /\ (k > 1 => w[k - 1] = s[k - 1])
      BY <2>1, <1>1, <1>2, <1>3
    <3>2. s[k].op \in OpsOf(t) /\ (k > 1 => Follows(s[k - 1], s[k]))
      BY <3>1 DEF Shape
    <3>3. Filing(w, k)
      BY <3>1, <1>6 DEF Filing
    <3> QED BY <3>1, <3>2, <3>3
  <2>2. CASE ~(k <= Len(s))
    <3> DEFINE m == k - Len(s)
    <3>1. m \in 1 .. Len(u) /\ k = Len(s) + m
      BY <2>2, <1>1, <1>2
    <3>2. w[k] = u[m]
      BY <3>1, <1>4
    <3>3. m > 1 => k - 1 = Len(s) + (m - 1) /\ m - 1 \in 1 .. Len(u)
      BY <3>1, <1>1
    <3> HIDE DEF m
    <3>4. u[m].op \in OpsOf(t) /\ (m > 1 => Follows(u[m - 1], u[m]))
      BY <3>1 DEF Shape
    <3>5. k > 1 => Follows(w[k - 1], w[k])
      <4>1. CASE m > 1
        BY <4>1, <3>2, <3>3, <3>4, <1>4
      <4>2. CASE m = 1 /\ k > 1
        <5>1. Len(s) \in 1 .. Len(s) /\ k - 1 = Len(s) /\ Len(s) # 0 /\ Len(u) # 0
          BY <4>2, <3>1, <1>1
        <5> QED BY <5>1, <4>2, <3>2, <1>1, <1>3
      <4> QED BY <4>1, <4>2, <3>1, <1>1
    <3>6. Filing(w, k)
      BY <3>1, <3>2, <1>6 DEF Filing
    <3> QED BY <3>2, <3>4, <3>5, <3>6
  <2> QED BY <2>1, <2>2
<1> QED BY <1>2, <1>3, <1>4, <1>5, <1>7 DEF w

\* Short lists of calls.
LEMMA ShortLists == \A a, b : <<a>> \o <<>> = <<a>> /\ <<a>> \o <<b>> = <<a, b>>
<1>1. ASSUME NEW a, NEW b PROVE <<a>> \o <<>> = <<a>>
  <2>1. <<a>> \in Seq({a})
    OBVIOUS
  <2> QED BY <2>1, ConcatEmptySeq
<1>2. ASSUME NEW a, NEW b PROVE <<a>> \o <<b>> = <<a, b>>
  <2> DEFINE S == {a, b}
             s == <<a>>
             u == <<b>>
             w == <<a, b>>
  <2>1. /\ s \in Seq(S) /\ u \in Seq(S) /\ w \in Seq(S) /\ Len(s) = 1 /\ Len(u) = 1 /\ Len(w) = 2
        /\ s[1] = a /\ u[1] = b /\ w[1] = a /\ w[2] = b
    OBVIOUS
  <2> HIDE DEF S, s, u, w
  <2>2. /\ s \o u \in Seq(S) /\ Len(s \o u) = 1 + 1
        /\ \A i \in 1 .. 1 + 1 : (s \o u)[i] = IF i <= 1 THEN s[i] ELSE u[i - 1]
    BY <2>1, ConcatProperties
  <2>3. Len(s \o u) = Len(w) /\ \A i \in 1 .. Len(w) : (s \o u)[i] = w[i]
    BY <2>1, <2>2
  <2>4. s \o u = w
    BY <2>1, <2>2, <2>3, SeqEqual
  <2> QED BY <2>4 DEF s, u, w
<1> QED BY <1>1, <1>2

LEMMA ShapeNone == \A t : Starts(t, <<>>) /\ Shape(t, <<>>)
BY EmptySeq DEF Starts, Shape

LEMMA ShapeOne ==
    ASSUME NEW t, NEW a \in Calls, a.op \in OpsOf(t) \ {"store", "unstore"}
    PROVE  /\ Shape(t, <<a>>) /\ Len(<<a>>) = 1 /\ <<a>>[1] = a /\ <<a>> # <<>>
           /\ a.op \notin Later => Starts(t, <<a>>)
<1>1. <<a>> \in Seq(Calls) /\ Len(<<a>>) = 1 /\ <<a>>[1] = a /\ <<a>> # <<>>
  OBVIOUS
<1>2. \A k \in 1 .. 1 : k = 1 /\ ~(k > 1)
  OBVIOUS
<1> QED BY <1>1, <1>2 DEF Shape, Starts, Filing

LEMMA ShapeTwo ==
    ASSUME NEW t, NEW a \in Calls, NEW b \in Calls,
           a.op \in OpsOf(t) \ {"store", "unstore", "attach"}, b.op \in OpsOf(t) \ {"store", "unstore"}, Follows(a, b)
    PROVE  /\ Shape(t, <<a, b>>) /\ Len(<<a, b>>) = 2 /\ <<a, b>>[1] = a /\ <<a, b>>[2] = b /\ <<a, b>> # <<>>
           /\ a.op \notin Later => Starts(t, <<a, b>>)
<1> DEFINE s == <<a, b>>
<1>1. s \in Seq(Calls) /\ Len(s) = 2 /\ s[1] = a /\ s[2] = b /\ s # <<>>
  OBVIOUS
<1>2. /\ \A k \in 1 .. 2 : k = 1 \/ k = 2
      /\ ~(1 > 1) /\ 2 - 1 = 1
  OBVIOUS
<1> HIDE DEF s
<1>3. Filing(s, 1) /\ Filing(s, 2)
  BY <1>1 DEF Filing
<1>4. Shape(t, s)
  BY <1>1, <1>2, <1>3 DEF Shape
<1> QED BY <1>1, <1>4 DEF s, Starts

LEMMA ShapeThree ==
    ASSUME NEW t, NEW a \in Calls, NEW b \in Calls, NEW c \in Calls,
           {a.op, b.op, c.op} \subseteq OpsOf(t), a.op \notin {"store", "unstore", "attach"}, a.op \notin Later,
           b.op = "store" => c.op = "attach", b.op = "unstore" => c.op = "drop_item",
           b.op # "attach", c.op \notin {"store", "unstore"}, Follows(a, b), Follows(b, c)
    PROVE  Starts(t, <<a, b, c>>) /\ Len(<<a, b, c>>) = 3
<1> DEFINE s == <<a, b, c>>
<1>1. s \in Seq(Calls) /\ Len(s) = 3 /\ s[1] = a /\ s[2] = b /\ s[3] = c /\ s # <<>>
  OBVIOUS
<1>2. /\ \A k \in 1 .. 3 : k = 1 \/ k = 2 \/ k = 3
      /\ ~(1 > 1) /\ 2 - 1 = 1 /\ 3 - 1 = 2
  OBVIOUS
<1> HIDE DEF s
<1>3. Filing(s, 1) /\ Filing(s, 2) /\ Filing(s, 3)
  BY <1>1 DEF Filing
<1>4. Shape(t, s)
  BY <1>1, <1>2, <1>3 DEF Shape
<1> QED BY <1>1, <1>4 DEF s, Starts

-----------------------------------------------------------------------------
(* What the requests of a table leave a handler to do. *)

Limits == [kind : {"section", "department"}, value : STRING]

LEMMA ViewersAre ==
    ASSUME NEW viewer \in Viewers
    PROVE  /\ viewer = FullView \/ viewer \in Limits
           /\ viewer.kind = "section" => viewer.value \in STRING
BY FormsAssumption DEF Limits, FullView

LEMMA StampedPatchIs ==
    ASSUME NEW fields \in SUBSET {"section", "department", "status", "stamp"}, NEW q \in [fields -> STRING \cup BOOLEAN],
           \A f \in fields : q[f] \in (IF f = "stamp" THEN BOOLEAN ELSE STRING)
    PROVE  q \in StampedPatches
BY DEF StampedPatches

LEMMA PatchesAre ==
    ASSUME NEW p, IsPatch(p)
    PROVE  p \in Patches /\ p \in StampedPatches /\ Stamped(p) \in StampedPatches /\ _stamp_update(p) \in StampedPatches
<1>1. PICK fields \in SUBSET {"section", "department", "status"} : p \in [fields -> STRING]
  BY DEF IsPatch
<1>2. p \in Patches
  BY <1>1 DEF Patches
<1>3. p \in StampedPatches
  <2>1. /\ fields \in SUBSET {"section", "department", "status", "stamp"} /\ p \in [fields -> STRING \cup BOOLEAN]
        /\ \A f \in fields : p[f] \in (IF f = "stamp" THEN BOOLEAN ELSE STRING)
    BY <1>1
  <2> QED BY <2>1, StampedPatchIs
<1>4. ASSUME NEW q, q = [f \in DOMAIN p \cup {"stamp"} |-> IF f = "stamp" THEN TRUE ELSE p[f]]
      PROVE  q \in StampedPatches
  <2> DEFINE all == fields \cup {"stamp"}
  <2>1. DOMAIN p = fields
    BY <1>1
  <2>2. /\ all \in SUBSET {"section", "department", "status", "stamp"} /\ q \in [all -> STRING \cup BOOLEAN]
        /\ \A f \in all : q[f] \in (IF f = "stamp" THEN BOOLEAN ELSE STRING)
    BY <1>1, <1>4, <2>1
  <2> HIDE DEF all
  <2> QED BY <2>2, StampedPatchIs
<1>5. Stamped(p) \in StampedPatches
  BY <1>3, <1>4 DEF Stamped
<1>6. _stamp_update(p) \in StampedPatches
  BY <1>3, <1>4 DEF _stamp_update
<1> QED BY <1>2, <1>3, <1>5, <1>6

LEMMA NoPatchIsOne == NoPatch \in Patches /\ IsPatch(NoPatch) /\ [stamp |-> TRUE] \in StampedPatches
<1>1. NoPatch \in [{} -> STRING] /\ {} \in SUBSET {"section", "department", "status"}
  BY DEF NoPatch
<1>2. IsPatch(NoPatch)
  BY <1>1 DEF IsPatch
<1>3. [stamp |-> TRUE] \in StampedPatches
  <2> DEFINE q == [stamp |-> TRUE]
             fields == {"stamp"}
  <2>1. q = [f \in fields |-> q[f]] /\ q["stamp"] = TRUE
    OBVIOUS
  <2>2. fields \in SUBSET {"section", "department", "status", "stamp"} /\ \A f \in fields : f = "stamp"
    OBVIOUS
  <2> HIDE DEF q, fields
  <2>3. /\ q \in [fields -> STRING \cup BOOLEAN]
        /\ \A f \in fields : q[f] \in (IF f = "stamp" THEN BOOLEAN ELSE STRING)
    BY <2>1, <2>2
  <2>4. q \in StampedPatches
    BY <2>2, <2>3, StampedPatchIs
  <2> QED BY <2>4 DEF q
<1> QED BY <1>2, <1>3, PatchesAre

LEMMA FormsAre ==
    ASSUME NEW t \in RegisterTables, NEW form \in Forms(t), NEW viewer \in Viewers
    PROVE  /\ form.row \in Columns /\ form.patch \in Patches /\ form.patch \in StampedPatches
           /\ Stamped(form.patch) \in StampedPatches /\ _stamp_update(form.patch) \in StampedPatches
           /\ form.names \subseteq STRING /\ Complete(form.names) \subseteq STRING
           /\ form.version \in Nat /\ form.number \in Nat /\ form.row.number \in Nat
           /\ form.section \in Sections /\ SectionOf(viewer, form.section) \in Sections /\ Blank \in Sections
           /\ [form.row EXCEPT !.stamp = Submits(form.row)] \in Columns
<1>1. /\ form.row \in Columns /\ IsPatch(form.patch) /\ form.number \in Nat /\ form.version \in Nat
      /\ form.names \subseteq STRING /\ form.section \in STRING \cup {Blank}
  BY FormsAssumption
<1>2. SectionOf(viewer, form.section) \in Sections /\ Blank \in Sections /\ form.section \in Sections
  BY <1>1, ViewersAre DEF SectionOf, Sections
<1>3. form.row.number \in Nat
  BY <1>1 DEF Columns
<1>4. Submits(form.row) \in BOOLEAN
  BY DEF Submits
<1>5. ASSUME NEW b \in BOOLEAN PROVE [form.row EXCEPT !.stamp = b] \in Columns
  BY <1>1 DEF Columns
<1>6. [form.row EXCEPT !.stamp = Submits(form.row)] \in Columns
  BY <1>4, <1>5, Zenon
<1>7. Complete(form.names) \subseteq STRING
  BY <1>1 DEF Complete
<1> QED BY <1>1, <1>2, <1>3, <1>6, <1>7, PatchesAre

\* A row stored as its creator's limit stamps it is a row.
LEMMA StampsARow ==
    ASSUME NEW t, NEW viewer \in Viewers, NEW row \in Columns
    PROVE  stamp_create(Db, viewer, t, row) = Refused \/ stamp_create(Db, viewer, t, row) \in Columns
<1>1. CASE viewer = FullView
  BY <1>1 DEF stamp_create, FullView, PersonTables, MemberTables, InheritTables
<1>2. CASE viewer \in Limits
  <2>1. [row EXCEPT !.section = viewer.value] \in Columns /\ [row EXCEPT !.department = viewer.value] \in Columns
    BY <1>2 DEF Columns, Limits
  <2> DEFINE p1 == viewer = FullView
             p2 == t \in SectionTables /\ viewer.kind = "section"
             p3 == t = "employees" /\ viewer.kind = "department"
             p4 == t \in PersonTables \cup MemberTables /\ row_visible(Db, viewer, t, row)
             p5 == t \in InheritTables /\ viewer.kind = "section" /\ row.parent \in DOMAIN Db.parents
                   /\ Db.parents[row.parent] = viewer.value
             s2 == [row EXCEPT !.section = viewer.value]
             s3 == [row EXCEPT !.department = viewer.value]
             it == stamp_create(Db, viewer, t, row)
  <2>2. it = CASE p1 -> row [] p2 -> s2 [] p3 -> s3 [] p4 -> row [] p5 -> row [] OTHER -> Refused
    BY DEF stamp_create
  <2> HIDE DEF p1, p2, p3, p4, p5, s2, s3, it
  <2>3. it = row \/ it = s2 \/ it = s3 \/ it = Refused
    BY <2>2
  <2> QED BY <2>1, <2>3 DEF s2, s3, it
<1> QED BY <1>1, <1>2, ViewersAre

\* Calls that read only, the calls of a create, and the rest.
JustReads(s) == \A k \in 1 .. Len(s) : s[k].op \notin RowOps \cup ItemOps
Stores(s) ==
    /\ s # <<>> => s[1].op = "insert" \/ (s[1].op = "taken" /\ s[2].op = "insert")
    /\ \A k \in 1 .. Len(s) : s[k].op \notin ItemOps
OnRow(s) == \A k \in 1 .. Len(s) : s[k].op \notin ItemOps

LEMMA RowsAreKnown ==
    ASSUME NEW id, NEW item, NEW s \in Seq(Calls), JustReads(s) \/ Stores(s) \/ (id \in RowIds /\ (OnRow(s) \/ item.parent \in RowIds))
    PROVE  HasRow(id, s) /\ HasItem(item, s)
<1>1. CASE JustReads(s)
  BY <1>1 DEF JustReads, HasRow, HasItem
<1>2. CASE Stores(s)
  <2>1. HasItem(item, s)
    BY <1>2 DEF Stores, HasItem
  <2>2. ASSUME NEW k \in 1 .. Len(s), s[k].op \in RowOps
        PROVE  \E j \in 1 .. k - 1 : s[j].op = "insert"
    <3>1. s # <<>> /\ Len(s) \in Nat
      BY EmptySeq
    <3>2. s[k].op \notin {"insert", "taken"}
      BY <2>2 DEF RowOps
    <3>3. CASE s[1].op = "insert"
      <4>1. 1 \in 1 .. k - 1
        BY <3>1, <3>2, <3>3
      <4> QED BY <4>1, <3>3
    <3>4. CASE s[1].op = "taken" /\ s[2].op = "insert"
      <4>1. 2 \in 1 .. k - 1
        BY <3>1, <3>2, <3>4
      <4> QED BY <4>1, <3>4
    <3> QED BY <3>1, <3>3, <3>4, <1>2 DEF Stores
  <2> QED BY <2>1, <2>2 DEF HasRow
<1>3. CASE id \in RowIds /\ OnRow(s)
  BY <1>3 DEF OnRow, HasRow, HasItem
<1>4. CASE id \in RowIds /\ item.parent \in RowIds
  BY <1>4 DEF HasRow, HasItem
<1> QED BY <1>1, <1>2, <1>3, <1>4

\* The calls endpoints share.
LEMMA CommonCalls ==
    /\ \A a, b, c, d \in BOOLEAN : ReadCall(a, b, c, d) \in Calls /\ ReadCall(a, b, c, d).op = "read"
    /\ \A p \in Patches, b \in BOOLEAN, v \in Nat :
          /\ Find(p, b) \in Calls /\ Find(p, b).op = "find"
          /\ FindVersion(p, v) \in Calls /\ FindVersion(p, v).op = "find"
          /\ FindBoth(p, v) \in Calls /\ FindBoth(p, v).op = "find"
          /\ FindKeeping(p) \in Calls /\ FindKeeping(p).op = "find"
    /\ \A q \in StampedPatches : Write(q) \in Calls /\ Write(q).op = "write" /\ Touch(q) \in Calls /\ Touch(q).op = "write"
    /\ \A row \in Columns : Insert(row) \in Calls /\ Insert(row).op = "insert"
    /\ ReadOwn \in Calls /\ ReadOwn.op = "read_own"
    /\ ReadEach \in Calls /\ ReadEach.op = "read_each"
    /\ ReadItems \in Calls /\ ReadItems.op = "read_items"
    /\ Drop \in Calls /\ Drop.op = "drop"
    /\ Clear \in Calls /\ Clear.op = "clear"
    /\ \A names \in SUBSET STRING, s \in Sections : Fill(names, s) \in Calls /\ Fill(names, s).op = "fill"
BY CallsMade, OpOf DEF ReadOwn, ReadEach, ReadItems, Drop, Clear

LEMMA FindThen ==
    ASSUME NEW t \in RegisterTables, NEW f \in Calls, f.op = "find", NEW g \in Calls, g.op \in {"write", "read_own", "drop"},
           t # "sop_documents" \/ g.op # "drop"
    PROVE  Starts(t, <<f, g>>) /\ OnRow(<<f, g>>) /\ Starts(t, <<f>>) /\ OnRow(<<f>>)
<1>1. /\ f.op \in OpsOf(t) \ {"store", "unstore", "attach"} /\ g.op \in OpsOf(t) \ {"store", "unstore"}
      /\ f.op \notin Later /\ f.op \notin ItemOps /\ g.op \notin ItemOps /\ Follows(f, g)
  BY DEF OpsOf, SaveOps, ItemOps, Later, Follows
<1>2. \A k \in 1 .. 2 : k = 1 \/ k = 2
  OBVIOUS
<1>3. \A k \in 1 .. 1 : k = 1
  OBVIOUS
<1> QED BY <1>1, <1>2, <1>3, ShapeOne, ShapeTwo DEF OnRow

LEMMA ReadsThen ==
    ASSUME NEW t \in RegisterTables, NEW f \in Calls, f.op = "read", NEW g \in Calls, g.op \in {"read_each", "read_items"},
           t \notin {"sop_documents", "services"}
    PROVE  Starts(t, <<f, g>>) /\ JustReads(<<f, g>>)
<1>1. /\ f.op \in OpsOf(t) \ {"store", "unstore", "attach"} /\ g.op \in OpsOf(t) \ {"store", "unstore"}
      /\ f.op \notin Later /\ f.op \notin RowOps \cup ItemOps /\ g.op \notin RowOps \cup ItemOps /\ Follows(f, g)
  BY DEF OpsOf, SaveOps, RowOps, ItemOps, Later, Follows
<1>2. \A k \in 1 .. 2 : k = 1 \/ k = 2
  OBVIOUS
<1> QED BY <1>1, <1>2, ShapeTwo DEF JustReads

LEMMA ReadAlone ==
    ASSUME NEW t \in RegisterTables, NEW a \in BOOLEAN, NEW b \in BOOLEAN, NEW c \in BOOLEAN, NEW d \in BOOLEAN
    PROVE  Starts(t, <<ReadCall(a, b, c, d)>>) /\ JustReads(<<ReadCall(a, b, c, d)>>)
<1>1. "read" \in OpsOf(t) \ {"store", "unstore", "attach"} /\ "read" \notin Later /\ "read" \notin RowOps \cup ItemOps
  BY DEF OpsOf, SaveOps, RowOps, ItemOps, Later
<1>2. \A k \in 1 .. 1 : k = 1
  OBVIOUS
<1> DEFINE r == ReadCall(a, b, c, d)
<1>3. r \in Calls /\ r.op = "read"
  BY CommonCalls
<1> HIDE DEF r
<1>4. Starts(t, <<r>>) /\ JustReads(<<r>>)
  BY <1>1, <1>2, <1>3, ShapeOne DEF JustReads
<1> QED BY <1>4 DEF r

Plainly(t) == t \in RegisterTables \ {"sop_documents", "services"}

\* What follows the call that stores the row or finds it.
LEMMA SavesThen ==
    ASSUME NEW t, Plainly(t), NEW names \in SUBSET STRING, NEW s \in Sections
    PROVE  /\ Shape(t, Save(names, s)) /\ OnRow(Save(names, s))
           /\ Save(names, s) # <<>> => Save(names, s)[1].op = "fill"
<1>1. "fill" \in OpsOf(t) \ {"store", "unstore"} /\ "fill" \notin ItemOps
  BY DEF OpsOf, SaveOps, ItemOps, Plainly
<1>2. CASE names = {}
  BY <1>2, ShapeNone, EmptySeq DEF Save, OnRow
<1>3. CASE names # {}
  <2> DEFINE f == Fill(names, s)
  <2>1. f \in Calls /\ f.op = "fill"
    BY CommonCalls
  <2>2. Save(names, s) = <<f>>
    BY <1>3 DEF Save
  <2> HIDE DEF f
  <2>3. \A k \in 1 .. 1 : k = 1
    OBVIOUS
  <2> QED BY <2>1, <2>2, <2>3, <1>1, ShapeOne DEF OnRow
<1> QED BY <1>2, <1>3

LEMMA ReplacesThen ==
    ASSUME NEW t, Plainly(t), NEW form, NEW names \in SUBSET STRING, NEW s \in Sections
    PROVE  /\ Starts(t, Replace(form, names, s)) /\ OnRow(Replace(form, names, s))
           /\ Starts(t, ReplaceOrRead(form, names, s)) /\ OnRow(ReplaceOrRead(form, names, s))
           /\ Replace(form, names, s) # <<>> => Replace(form, names, s)[1].op = "clear"
           /\ ReplaceOrRead(form, names, s) # <<>> => ReplaceOrRead(form, names, s)[1].op \in {"clear", "read_own"}
<1> DEFINE list == Save(names, s)
           first == <<Clear>>
           all == first \o list
<1>1. /\ {"clear", "read_own"} \subseteq OpsOf(t) \ {"store", "unstore"}
      /\ "clear" \notin ItemOps /\ "read_own" \notin ItemOps /\ "clear" \notin Later /\ "read_own" \notin Later
  BY DEF OpsOf, SaveOps, ItemOps, Later, Plainly
<1>2. Shape(t, list) /\ OnRow(list) /\ (list # <<>> => list[1].op = "fill")
  BY SavesThen
<1>3. Shape(t, first) /\ Len(first) = 1 /\ first[1] = Clear /\ first # <<>> /\ Clear.op = "clear"
  BY <1>1, CommonCalls, ShapeOne
<1> HIDE DEF first
<1>4. list # <<>> => Follows(first[Len(first)], list[1])
  BY <1>2, <1>3 DEF Follows
<1>5. t # "services" /\ Len(list) \in Nat
  BY <1>2, EmptySeq DEF Plainly, Shape
<1> HIDE DEF list
<1>6. /\ Shape(t, all) /\ all[1] = Clear /\ Len(all) = 1 + Len(list)
      /\ \A k \in 1 .. Len(list) : all[1 + k] = list[k]
  <2>1. /\ Shape(t, all) /\ all[1] = first[1] /\ Len(all) = Len(first) + Len(list)
        /\ \A k \in 1 .. Len(list) : all[Len(first) + k] = list[k]
    <3>1. Shape(t, first) /\ Shape(t, list) /\ first # <<>>
      BY <1>2, <1>3
    <3>2. t # "services" /\ (first # <<>> /\ list # <<>> => Follows(first[Len(first)], list[1]))
      BY <1>4, <1>5
    <3>3. Shape(t, all)
      BY <3>1, <3>2, ShapeBoth
    <3>4. all[1] = first[1]
      BY <3>1, <3>2, ShapeBoth
    <3>5. Len(all) = Len(first) + Len(list)
      BY <3>1, <3>2, ShapeBoth
    <3>6. \A k \in 1 .. Len(list) : all[Len(first) + k] = list[k]
      BY <3>1, <3>2, ShapeBoth
    <3> QED BY <3>3, <3>4, <3>5, <3>6
  <2> QED BY <2>1, <1>3
<1> HIDE DEF all
<1>7. OnRow(all)
  <2>1. ASSUME NEW k \in 1 .. Len(all) PROVE all[k].op \notin ItemOps
    <3>1. CASE k = 1
      BY <3>1, <1>1, <1>3, <1>6
    <3>2. CASE k # 1
      <4>1. k - 1 \in 1 .. Len(list) /\ 1 + (k - 1) = k
        BY <3>2, <1>5, <1>6
      <4> QED BY <4>1, <1>2, <1>6 DEF OnRow
    <3> QED BY <3>1, <3>2
  <2> QED BY <2>1 DEF OnRow
<1>8. Starts(t, all)
  BY <1>1, <1>3, <1>6 DEF Starts
<1>9. OnRow(<<>>)
  BY EmptySeq DEF OnRow
<1>10. /\ Starts(t, Replace(form, names, s)) /\ OnRow(Replace(form, names, s))
       /\ Replace(form, names, s) # <<>> => Replace(form, names, s)[1].op = "clear"
  BY <1>3, <1>6, <1>7, <1>8, <1>9, ShapeNone DEF Replace, all, first, list
<1>11. Starts(t, <<ReadOwn>>) /\ OnRow(<<ReadOwn>>) /\ <<ReadOwn>>[1].op = "read_own"
  <2>1. \A k \in 1 .. 1 : k = 1
    OBVIOUS
  <2> QED BY <2>1, <1>1, CommonCalls, ShapeOne DEF OnRow
<1> QED BY <1>10, <1>11 DEF ReplaceOrRead

\* Found first, perhaps saved, and then the list.
LEMMA FindThenAll ==
    ASSUME NEW t, Plainly(t), NEW f, Starts(t, f), OnRow(f), f # <<>>, NEW rest, Starts(t, rest), OnRow(rest)
    PROVE  Starts(t, f \o rest) /\ OnRow(f \o rest) /\ f \o rest # <<>>
<1> DEFINE all == f \o rest
<1>1. rest # <<>> => Follows(f[Len(f)], rest[1])
  BY DEF Starts, Follows, Later
<1>2. t # "services" /\ Shape(t, f) /\ Shape(t, rest)
  BY DEF Starts, Plainly
<1>3. /\ Shape(t, all) /\ all[1] = f[1] /\ all # <<>> /\ Len(all) = Len(f) + Len(rest)
      /\ \A k \in 1 .. Len(f) : all[k] = f[k]
      /\ \A k \in 1 .. Len(rest) : all[Len(f) + k] = rest[k]
  BY <1>1, <1>2, ShapeBoth
<1>4. Len(f) \in Nat /\ Len(rest) \in Nat
  BY <1>2, EmptySeq DEF Shape
<1> HIDE DEF all
<1>5. Starts(t, all)
  BY <1>3 DEF Starts
<1>6. ASSUME NEW k \in 1 .. Len(all) PROVE all[k].op \notin ItemOps
  <2>1. CASE k <= Len(f)
    <3>1. k \in 1 .. Len(f)
      BY <2>1, <1>4
    <3> QED BY <3>1, <1>3 DEF OnRow
  <2>2. CASE ~(k <= Len(f))
    <3>1. k - Len(f) \in 1 .. Len(rest) /\ Len(f) + (k - Len(f)) = k
      BY <2>2, <1>3, <1>4
    <3> QED BY <3>1, <1>3 DEF OnRow
  <2> QED BY <2>1, <2>2
<1> QED BY <1>3, <1>5, <1>6 DEF all, OnRow

\* A create: refused by the limit, or the row first and then what belongs to it.
LEMMA Creates ==
    ASSUME NEW t \in RegisterTables, table = t, NEW viewer \in Viewers, NEW row \in Columns, NEW rest,
           rest = <<>> \/ t # "services", Shape(t, rest), OnRow(rest),
           rest # <<>> => rest[1].op \in {"fill", "look"}
    PROVE  LET s == StampAndInsert(viewer, row, rest)
           IN  /\ Starts(t, s) /\ Stores(s)
               /\ s # <<>> => s[1].op = "insert"
<1> DEFINE new == stamp_create(Db, viewer, table, row)
           s == StampAndInsert(viewer, row, rest)
<1>1. CASE new = Refused
  <2>1. s = <<>>
    BY <1>1 DEF StampAndInsert
  <2> QED BY <2>1, ShapeNone, EmptySeq DEF Stores
<1>2. CASE new # Refused
  <2>1. new \in Columns
    BY <1>2, StampsARow
  <2> DEFINE c == Insert(new)
             first == <<c>>
  <2>2. s = first \o rest
    BY <1>2 DEF StampAndInsert
  <2> HIDE DEF new, s
  <2>3. c \in Calls /\ c.op = "insert"
    BY <2>1, CommonCalls
  <2> HIDE DEF c
  <2>4. "insert" \in OpsOf(t) \ {"store", "unstore"} /\ "insert" \notin ItemOps /\ "insert" \notin Later
    BY DEF OpsOf, SaveOps, ItemOps, Later
  <2>5. Shape(t, first) /\ Len(first) = 1 /\ first[1] = c /\ first # <<>>
    BY <2>3, <2>4, ShapeOne
  <2> HIDE DEF first
  <2>6. Len(rest) \in Nat
    BY EmptySeq DEF Shape
  <2>7. /\ Shape(t, s) /\ s[1] = c /\ Len(s) = 1 + Len(rest)
        /\ \A k \in 1 .. Len(rest) : s[1 + k] = rest[k]
    <3>1. CASE rest = <<>>
      <4>1. first \in Seq(Calls) /\ Len(rest) = 0
        BY <2>5, <3>1, EmptySeq DEF Shape
      <4>2. s = first
        BY <3>1, <4>1, <2>2, ConcatEmptySeq
      <4> QED BY <4>1, <4>2, <2>5
    <3>2. CASE t # "services"
      <4>1. rest # <<>> => Follows(first[Len(first)], rest[1])
        BY <2>3, <2>5 DEF Follows
      <4>2. /\ Shape(t, first \o rest) /\ (first \o rest)[1] = first[1] /\ Len(first \o rest) = Len(first) + Len(rest)
            /\ \A k \in 1 .. Len(rest) : (first \o rest)[Len(first) + k] = rest[k]
        <5>1. Shape(t, first) /\ Shape(t, rest) /\ first # <<>>
          BY <2>5
        <5>2. Shape(t, first \o rest)
          BY <3>2, <4>1, <5>1, ShapeBoth
        <5>3. (first \o rest)[1] = first[1]
          BY <3>2, <4>1, <5>1, ShapeBoth
        <5>4. Len(first \o rest) = Len(first) + Len(rest)
          BY <3>2, <4>1, <5>1, ShapeBoth
        <5>5. \A k \in 1 .. Len(rest) : (first \o rest)[Len(first) + k] = rest[k]
          BY <3>2, <4>1, <5>1, ShapeBoth
        <5> QED BY <5>2, <5>3, <5>4, <5>5
      <4> QED BY <4>2, <2>2, <2>5
    <3> QED BY <3>1, <3>2
  <2>8. \A k \in 1 .. Len(s) : s[k].op \notin ItemOps
    <3> SUFFICES ASSUME NEW k \in 1 .. Len(s) PROVE s[k].op \notin ItemOps
      OBVIOUS
    <3>1. CASE k = 1
      BY <3>1, <2>3, <2>4, <2>7
    <3>2. CASE k # 1
      <4>1. k - 1 \in 1 .. Len(rest) /\ 1 + (k - 1) = k
        BY <3>2, <2>6, <2>7
      <4> QED BY <4>1, <2>7 DEF OnRow
    <3> QED BY <3>1, <3>2
  <2> QED BY <2>3, <2>4, <2>7, <2>8 DEF Starts, Stores, s
<1> QED BY <1>1, <1>2

-----------------------------------------------------------------------------
(* The requests to the reports. *)

Reports == RegisterTables \ FormTables

LEMMA ReportReads ==
    ASSUME NEW t \in Reports, table = t, NEW viewer \in Viewers
    PROVE  /\ Starts(t, ListOf(viewer)) /\ JustReads(ListOf(viewer))
           /\ Starts(t, FiguresOf) /\ JustReads(FiguresOf)
           /\ Starts(t, get_lube_records) /\ JustReads(get_lube_records)
<1>1. t \in RegisterTables /\ t \notin {"sop_documents", "services"}
  BY DEF Reports, FormTables
<1>2. ASSUME NEW a \in BOOLEAN
      PROVE  /\ ReadPage(a) = ReadCall(a, FALSE, FALSE, FALSE) /\ ReadPages(a) = ReadCall(a, TRUE, FALSE, FALSE)
             /\ Starts(t, <<ReadPage(a)>>) /\ JustReads(<<ReadPage(a)>>)
             /\ Starts(t, <<ReadPages(a)>>) /\ JustReads(<<ReadPages(a)>>)
             /\ Starts(t, <<ReadPage(a), ReadEach>>) /\ JustReads(<<ReadPage(a), ReadEach>>)
             /\ Starts(t, <<ReadPage(a), ReadItems>>) /\ JustReads(<<ReadPage(a), ReadItems>>)
  <2>1. ReadPage(a) = ReadCall(a, FALSE, FALSE, FALSE) /\ ReadPages(a) = ReadCall(a, TRUE, FALSE, FALSE)
    BY DEF ReadPage, ReadPages
  <2>2. ReadPage(a) \in Calls /\ ReadPage(a).op = "read"
    BY <2>1, CommonCalls
  <2>3. Starts(t, <<ReadPage(a)>>) /\ JustReads(<<ReadPage(a)>>) /\ Starts(t, <<ReadPages(a)>>) /\ JustReads(<<ReadPages(a)>>)
    BY <1>1, <2>1, ReadAlone
  <2>4. Starts(t, <<ReadPage(a), ReadEach>>) /\ JustReads(<<ReadPage(a), ReadEach>>)
    BY <1>1, <2>2, CommonCalls, ReadsThen
  <2>5. Starts(t, <<ReadPage(a), ReadItems>>) /\ JustReads(<<ReadPage(a), ReadItems>>)
    BY <1>1, <2>2, CommonCalls, ReadsThen
  <2> QED BY <2>1, <2>3, <2>4, <2>5
<1>3. ASSUME NEW a \in BOOLEAN PROVE a = TRUE \/ a = FALSE
  OBVIOUS
<1>4. Starts(t, <<>>) /\ JustReads(<<>>)
  BY ShapeNone, EmptySeq DEF JustReads
<1>5. Starts(t, get_lube_records) /\ JustReads(get_lube_records)
  BY <1>2 DEF get_lube_records
<1>6. Starts(t, list_items(viewer)) /\ JustReads(list_items(viewer))
  <2>1. (~(FiltersInPython(table) /\ viewer # FullView)) \in BOOLEAN
    OBVIOUS
  <2> QED BY <2>1, <1>2 DEF list_items
<1>7. Starts(t, list_complaints(viewer)) /\ JustReads(list_complaints(viewer))
  <2>1. (viewer = FullView) \in BOOLEAN
    OBVIOUS
  <2> QED BY <2>1, <1>2 DEF list_complaints
<1>8. Starts(t, ListOf(viewer)) /\ JustReads(ListOf(viewer))
  <2>1. ListOf(viewer) \in {<<ReadPage(TRUE)>>, <<ReadPage(TRUE), ReadEach>>, list_items(viewer), list_complaints(viewer)}
    BY DEF ListOf, get_pto_reports, get_vfl_reports, get_inspections, get_work_stoppages, get_pachedu_reports,
           get_near_misses, get_schedules
  <2> QED BY <2>1, <1>2, <1>6, <1>7
<1>9. Starts(t, FiguresOf) /\ JustReads(FiguresOf)
  <2>1. FiguresOf \in {<<>>, <<ReadPage(FALSE)>>, <<ReadPage(FALSE), ReadItems>>, <<ReadPages(TRUE)>>}
    BY DEF FiguresOf, get_pto_stats, get_vfl_stats, get_inspection_stats, get_work_stoppage_stats, get_pachedu_stats,
           get_near_miss_stats
  <2> QED BY <2>1, <1>2, <1>4
<1> QED BY <1>5, <1>8, <1>9

LEMMA ReportOnes ==
    ASSUME NEW t \in Reports, table = t
    PROVE  /\ \A calls \in OneOf : Starts(t, calls) /\ OnRow(calls)
           /\ Starts(t, DeleteBy) /\ OnRow(DeleteBy)
<1>1. t \in RegisterTables /\ t \notin {"sop_documents", "services"} /\ Plainly(t)
  BY DEF Reports, FormTables, Plainly
<1>2. NoPatch \in Patches
  BY NoPatchIsOne
<1>3. \A calls \in OneOf : Starts(t, calls) /\ OnRow(calls)
  <2>1. ASSUME NEW b \in BOOLEAN PROVE Starts(t, <<Find(NoPatch, b), ReadOwn>>) /\ OnRow(<<Find(NoPatch, b), ReadOwn>>)
    BY <1>1, <1>2, CommonCalls, FindThen
  <2>2. OneOf \subseteq {<<Find(NoPatch, TRUE), ReadOwn>>, <<Find(NoPatch, FALSE), ReadOwn>>}
    BY DEF OneOf, get_pto_report, get_vfl_report, get_inspection, get_findings, get_work_stoppage, get_pachedu_report,
           get_near_miss, get_complaint, get_job_card
  <2> QED BY <2>1, <2>2
<1>4. Starts(t, DeleteBy) /\ OnRow(DeleteBy)
  <2>1. ASSUME NEW b \in BOOLEAN PROVE Starts(t, <<Find(NoPatch, b), Drop>>) /\ OnRow(<<Find(NoPatch, b), Drop>>)
    BY <1>1, <1>2, CommonCalls, FindThen
  <2>2. DeleteBy \in {<<Find(NoPatch, TRUE), Drop>>, <<Find(NoPatch, FALSE), Drop>>}
    BY DEF DeleteBy, delete_pto_report, delete_vfl_report, delete_inspection, delete_work_stoppage,
           delete_pachedu_report, delete_near_miss, delete_complaint, delete_lube_schedule, delete_item
  <2> QED BY <2>1, <2>2
<1> QED BY <1>3, <1>4

LEMMA ReportSaves ==
    ASSUME NEW t \in Reports, table = t, NEW viewer \in Viewers, NEW form \in Forms(t)
    PROVE  /\ Starts(t, CreateBy(viewer, form)) /\ Stores(CreateBy(viewer, form))
           /\ Starts(t, UpdateBy(viewer, form)) /\ OnRow(UpdateBy(viewer, form))
<1>1. t \in RegisterTables /\ t \notin {"sop_documents", "services"} /\ Plainly(t)
  BY DEF Reports, FormTables, Plainly
<1>2. NoPatch \in Patches /\ Starts(t, <<>>) /\ OnRow(<<>>)
  BY NoPatchIsOne, ShapeNone, EmptySeq DEF OnRow
<1>5. Starts(t, CreateBy(viewer, form)) /\ Stores(CreateBy(viewer, form))
  <2>0. /\ form.row \in Columns /\ [form.row EXCEPT !.stamp = Submits(form.row)] \in Columns
        /\ form.names \subseteq STRING /\ Blank \in Sections /\ SectionOf(viewer, form.section) \in Sections
    BY <1>1, FormsAre
  <2>1. ASSUME NEW row \in Columns, NEW s \in Sections
        PROVE  /\ Starts(t, StampAndInsert(viewer, row, Save(form.names, s)))
               /\ Stores(StampAndInsert(viewer, row, Save(form.names, s)))
    <3>1. /\ Shape(t, Save(form.names, s)) /\ OnRow(Save(form.names, s))
          /\ Save(form.names, s) # <<>> => Save(form.names, s)[1].op \in {"fill", "look"}
      BY <2>0, <1>1, SavesThen
    <3> QED BY <3>1, <1>1, Creates
  <2>2. ASSUME NEW row \in Columns
        PROVE  Starts(t, create_item(viewer, row)) /\ Stores(create_item(viewer, row))
    BY <1>1, <1>2, Creates, ShapeNone DEF create_item
  <2>3. CreateBy(viewer, form) \in
           {<<>>, StampAndInsert(viewer, [form.row EXCEPT !.stamp = Submits(form.row)], Save(form.names, Blank)),
            StampAndInsert(viewer, form.row, Save(form.names, Blank)),
            StampAndInsert(viewer, form.row, Save(form.names, SectionOf(viewer, form.section))),
            create_item(viewer, form.row), create_item(viewer, [form.row EXCEPT !.stamp = Submits(form.row)])}
    BY DEF CreateBy, create_pto_report, create_vfl_report, create_inspection, create_work_stoppage,
           create_pachedu_report, create_near_miss, create_complaint, create_lube_schedule
  <2>4. Stores(<<>>)
    BY EmptySeq DEF Stores
  <2> QED BY <2>0, <2>1, <2>2, <2>3, <2>4, <1>2
<1>6. Starts(t, UpdateBy(viewer, form)) /\ OnRow(UpdateBy(viewer, form))
  <2>0. /\ form.patch \in Patches /\ form.patch \in StampedPatches /\ form.version \in Nat
        /\ Stamped(form.patch) \in StampedPatches /\ _stamp_update(form.patch) \in StampedPatches
        /\ form.names \subseteq STRING /\ Complete(form.names) \subseteq STRING
        /\ Blank \in Sections /\ SectionOf(viewer, form.section) \in Sections
    BY <1>1, FormsAre
  <2>1. ASSUME NEW f, NEW w, f \in Calls, w \in Calls, f.op = "find", w.op = "write"
        PROVE  Starts(t, <<f, w>>) /\ OnRow(<<f, w>>) /\ <<f, w>> # <<>> /\ Starts(t, <<f>>) /\ OnRow(<<f>>) /\ <<f>> # <<>>
    BY <2>1, <1>1, FindThen
  <2>2. ASSUME NEW p \in Patches, NEW q \in StampedPatches, NEW b \in BOOLEAN, NEW v \in Nat
        PROVE  /\ Starts(t, <<Find(p, b), Write(q)>>) /\ OnRow(<<Find(p, b), Write(q)>>)
               /\ Starts(t, <<Find(p, b), Touch(q)>>) /\ OnRow(<<Find(p, b), Touch(q)>>)
               /\ Starts(t, <<FindVersion(p, v), Touch(q)>>) /\ OnRow(<<FindVersion(p, v), Touch(q)>>)
               /\ Starts(t, <<FindKeeping(p), Write(q)>>) /\ OnRow(<<FindKeeping(p), Write(q)>>)
               /\ Starts(t, <<Find(p, b)>>) /\ OnRow(<<Find(p, b)>>)
    <3>1. Write(q) \in Calls /\ Write(q).op = "write" /\ Touch(q) \in Calls /\ Touch(q).op = "write"
      BY CommonCalls
    <3>2. /\ Find(p, b) \in Calls /\ Find(p, b).op = "find" /\ FindKeeping(p) \in Calls /\ FindKeeping(p).op = "find"
          /\ FindVersion(p, v) \in Calls /\ FindVersion(p, v).op = "find"
      BY CommonCalls
    <3>3. /\ Starts(t, <<Find(p, b), Write(q)>>) /\ OnRow(<<Find(p, b), Write(q)>>)
          /\ Starts(t, <<Find(p, b)>>) /\ OnRow(<<Find(p, b)>>)
      BY <3>1, <3>2, <2>1
    <3>4. Starts(t, <<Find(p, b), Touch(q)>>) /\ OnRow(<<Find(p, b), Touch(q)>>)
      BY <3>1, <3>2, <2>1
    <3>5. Starts(t, <<FindVersion(p, v), Touch(q)>>) /\ OnRow(<<FindVersion(p, v), Touch(q)>>)
      BY <3>1, <3>2, <2>1
    <3>6. Starts(t, <<FindKeeping(p), Write(q)>>) /\ OnRow(<<FindKeeping(p), Write(q)>>)
      BY <3>1, <3>2, <2>1
    <3> QED BY <3>3, <3>4, <3>5, <3>6
  <2>3. ASSUME NEW names \in SUBSET STRING, NEW s \in Sections
        PROVE  /\ Starts(t, ReplaceOrRead(form, names, s)) /\ OnRow(ReplaceOrRead(form, names, s))
    BY <1>1, ReplacesThen
  <2>4. ASSUME NEW f, Starts(t, f), OnRow(f), f # <<>>, NEW names \in SUBSET STRING, NEW s \in Sections
        PROVE  /\ Starts(t, f \o ReplaceOrRead(form, names, s)) /\ OnRow(f \o ReplaceOrRead(form, names, s))
    BY <2>3, <2>4, <1>1, FindThenAll
  <2> DEFINE p == form.patch
             First(names, s, w) == <<Find(p, TRUE), w>> \o ReplaceOrRead(form, names, s)
  <2>5. CASE t \in {"pto_reports", "vfl_reports"}
    <3>1. UpdateBy(viewer, form) = <<Find(p, TRUE), Touch(Stamped(p))>> \o ReplaceOrRead(form, Complete(form.names), Blank)
      BY <2>5 DEF UpdateBy, update_pto_report, update_vfl_report
    <3>2. Starts(t, <<Find(p, TRUE), Touch(Stamped(p))>>) /\ OnRow(<<Find(p, TRUE), Touch(Stamped(p))>>)
      BY <2>0, <2>2
    <3>3. <<Find(p, TRUE), Touch(Stamped(p))>> # <<>>
      OBVIOUS
    <3> QED BY <3>1, <3>2, <3>3, <2>0, <2>4
  <2>6. CASE t = "sheq_inspections"
    <3>1. UpdateBy(viewer, form) =
             <<Find(p, TRUE), Touch(p)>> \o ReplaceOrRead(form, form.names, SectionOf(viewer, form.section))
      BY <2>6 DEF UpdateBy, update_inspection
    <3>2. Starts(t, <<Find(p, TRUE), Touch(p)>>) /\ OnRow(<<Find(p, TRUE), Touch(p)>>)
      BY <2>0, <2>2
    <3>3. <<Find(p, TRUE), Touch(p)>> # <<>>
      OBVIOUS
    <3> QED BY <3>1, <3>2, <3>3, <2>0, <2>4
  <2>7. CASE t = "work_stoppage_reports"
    <3> DEFINE f == <<Find(p, TRUE)>> \o (IF DOMAIN p = {} THEN <<>> ELSE <<Write(p)>>)
    <3>1. UpdateBy(viewer, form) = f \o ReplaceOrRead(form, Complete(form.names), Blank)
      BY <2>7 DEF UpdateBy, update_work_stoppage
    <3>2. f = <<Find(p, TRUE)>> \/ f = <<Find(p, TRUE), Write(p)>>
      <4>1. CASE DOMAIN p = {}
        BY <4>1, ShortLists
      <4>2. CASE DOMAIN p # {}
        BY <4>2, ShortLists
      <4> QED BY <4>1, <4>2
    <3>3. Starts(t, f) /\ OnRow(f) /\ f # <<>>
      <4>1. /\ Starts(t, <<Find(p, TRUE)>>) /\ OnRow(<<Find(p, TRUE)>>) /\ <<Find(p, TRUE)>> # <<>>
            /\ Starts(t, <<Find(p, TRUE), Write(p)>>) /\ OnRow(<<Find(p, TRUE), Write(p)>>)
            /\ <<Find(p, TRUE), Write(p)>> # <<>>
        BY <2>0, <2>2
      <4> HIDE DEF f
      <4> QED BY <3>2, <4>1
    <3> HIDE DEF f
    <3> QED BY <3>1, <3>3, <2>0, <2>4
  <2>8. CASE t = "pachedu_reports"
    BY <2>8, <2>0, <2>2 DEF UpdateBy, update_pachedu_report
  <2>9. CASE t = "nearmiss_reports"
    <3> DEFINE f == <<Find(p, TRUE)>> \o (IF DOMAIN p = {} THEN <<>> ELSE <<Write(p)>>)
    <3>1. UpdateBy(viewer, form) = f
      BY <2>9 DEF UpdateBy, update_near_miss
    <3>2. f = <<Find(p, TRUE)>> \/ f = <<Find(p, TRUE), Write(p)>>
      <4>1. CASE DOMAIN p = {}
        BY <4>1, ShortLists
      <4>2. CASE DOMAIN p # {}
        BY <4>2, ShortLists
      <4> QED BY <4>1, <4>2
    <3> QED BY <3>1, <3>2, <2>0, <2>2
  <2>10. CASE t = "safety_complaints"
    BY <2>10, <2>0, <2>2, <1>2 DEF UpdateBy, update_complaint
  <2>11. CASE t = "job_cards"
    BY <2>11, <2>0, <2>2, <1>2 DEF UpdateBy, update_job_card
  <2>12. CASE t = "lube_schedules"
    BY <2>12, <2>0, <2>2 DEF UpdateBy, update_lube_schedule, update_item
  <2>13. CASE t = "standby_rotations"
    BY <2>13, <2>0, <2>2 DEF UpdateBy, update_item
  <2> QED BY <2>5, <2>6, <2>7, <2>8, <2>9, <2>10, <2>11, <2>12, <2>13 DEF Reports, RegisterTables, CrudTables, FormTables
<1> QED BY <1>5, <1>6

LEMMA ItemSaves ==
    ASSUME NEW t \in RegisterTables, NEW viewer \in Viewers, NEW form \in Forms(t), NEW n \in form.names
    PROVE  /\ t \in Reports => /\ Starts(t, add_finding(viewer, n, form.section)) /\ OnRow(add_finding(viewer, n, form.section))
                               /\ Starts(t, create_lube_record(n)) /\ OnRow(create_lube_record(n))
<1> SUFFICES ASSUME t \in Reports
             PROVE  /\ Starts(t, add_finding(viewer, n, form.section)) /\ OnRow(add_finding(viewer, n, form.section))
                    /\ Starts(t, create_lube_record(n)) /\ OnRow(create_lube_record(n))
  OBVIOUS
<1>1. n \in STRING /\ SectionOf(viewer, form.section) \in Sections /\ Blank \in Sections
  BY FormsAre
<1>2. NoPatch \in Patches /\ [stamp |-> TRUE] \in StampedPatches
  BY NoPatchIsOne
<1>3. {"find", "add", "write"} \subseteq OpsOf(t) \ {"store", "unstore", "attach"}
  BY DEF OpsOf, SaveOps, Reports, FormTables
<1>4. "find" \notin Later /\ "find" \notin ItemOps /\ "add" \notin ItemOps /\ "write" \notin ItemOps
  BY DEF Later, ItemOps
<1>5. ASSUME NEW a \in Calls, NEW b \in Calls, NEW c \in Calls, a.op = "find", b.op = "add", c.op = "write"
      PROVE  /\ Starts(t, <<a, b>>) /\ OnRow(<<a, b>>)
             /\ Starts(t, <<a, b, c>>) /\ OnRow(<<a, b, c>>)
  <2>1. Follows(a, b) /\ Follows(b, c)
    BY <1>5 DEF Follows
  <2>2. Starts(t, <<a, b>>)
    BY <2>1, <1>3, <1>4, <1>5, ShapeTwo
  <2>3. Starts(t, <<a, b, c>>)
    BY <2>1, <1>3, <1>4, <1>5, ShapeThree
  <2>4. OnRow(<<a, b>>)
    <3>1. \A k \in 1 .. 2 : k = 1 \/ k = 2
      OBVIOUS
    <3> QED BY <3>1, <1>4, <1>5 DEF OnRow
  <2>5. OnRow(<<a, b, c>>)
    <3>1. \A k \in 1 .. 3 : k = 1 \/ k = 2 \/ k = 3
      OBVIOUS
    <3> QED BY <3>1, <1>4, <1>5 DEF OnRow
  <2> QED BY <2>2, <2>3, <2>4, <2>5
<1>6. ASSUME NEW s \in Sections, NEW b \in BOOLEAN
      PROVE  /\ Find(NoPatch, b) \in Calls /\ Find(NoPatch, b).op = "find"
             /\ Add(n, s) \in Calls /\ Add(n, s).op = "add"
             /\ Write([stamp |-> TRUE]) \in Calls /\ Write([stamp |-> TRUE]).op = "write"
  BY <1>1, <1>2, CommonCalls, CallsMade, OpOf
<1>7. /\ Starts(t, <<Find(NoPatch, TRUE), Add(n, SectionOf(viewer, form.section))>>)
      /\ OnRow(<<Find(NoPatch, TRUE), Add(n, SectionOf(viewer, form.section))>>)
  BY <1>1, <1>5, <1>6
<1>8. /\ Starts(t, <<Find(NoPatch, FALSE), Add(n, Blank), Write([stamp |-> TRUE])>>)
      /\ OnRow(<<Find(NoPatch, FALSE), Add(n, Blank), Write([stamp |-> TRUE])>>)
  BY <1>1, <1>5, <1>6
<1> QED BY <1>7, <1>8 DEF add_finding, create_lube_record

LEMMA FindingSaves ==
    ASSUME NEW t \in Reports, NEW s \in Sections
    PROVE  Starts(t, update_finding(s)) /\ Starts(t, delete_finding)
<1>1. {"find_item", "write_item", "drop_item"} \subseteq OpsOf(t) \ {"store", "unstore", "attach"}
  BY DEF OpsOf, SaveOps, Reports, FormTables
<1>2. "find_item" \notin Later
  BY DEF Later
<1>3. ASSUME NEW x \in Sections
      PROVE  /\ FindItem(x) \in Calls /\ FindItem(x).op = "find_item"
             /\ WriteItem(x) \in Calls /\ WriteItem(x).op = "write_item"
  BY CallsMade, OpOf
<1>4. DropItem \in Calls /\ DropItem.op = "drop_item" /\ Blank \in Sections
  BY CallsMade, OpOf DEF DropItem, Sections
<1>5. Starts(t, <<FindItem(s)>>) /\ Starts(t, <<FindItem(s), WriteItem(s)>>)
  <2>1. Follows(FindItem(s), WriteItem(s))
    BY <1>3 DEF Follows
  <2>2. Starts(t, <<FindItem(s)>>)
    BY <1>1, <1>2, <1>3, ShapeOne
  <2>3. Starts(t, <<FindItem(s), WriteItem(s)>>)
    BY <2>1, <1>1, <1>2, <1>3, ShapeTwo
  <2> QED BY <2>2, <2>3
<1>6. Starts(t, delete_finding)
  <2>1. Follows(FindItem(Blank), DropItem)
    BY <1>3, <1>4 DEF Follows
  <2>2. Starts(t, <<FindItem(Blank), DropItem>>)
    BY <2>1, <1>1, <1>2, <1>3, <1>4, ShapeTwo
  <2> QED BY <2>2 DEF delete_finding
<1>7. Starts(t, update_finding(s))
  <2>1. CASE s = Blank
    BY <2>1, <1>5, ShortLists DEF update_finding
  <2>2. CASE s # Blank
    BY <2>2, <1>5, ShortLists DEF update_finding
  <2> QED BY <2>1, <2>2
<1> QED BY <1>6, <1>7

-----------------------------------------------------------------------------
(* The requests to the forms. *)

LEMMA TakenThen ==
    ASSUME NEW t \in RegisterTables \ {"services"}, NEW number \in Nat, NEW s, Shape(t, s), Stores(s),
           s # <<>> => s[1].op = "insert"
    PROVE  /\ s # <<>> => Starts(t, <<Taken(number)>> \o s) /\ Stores(<<Taken(number)>> \o s)
<1> DEFINE c == Taken(number)
           first == <<c>>
           all == first \o s
<1> SUFFICES ASSUME s # <<>> PROVE Starts(t, all) /\ Stores(all)
  OBVIOUS
<1>1. c \in Calls /\ c.op = "taken"
  BY CallsMade, OpOf
<1>2. "taken" \in OpsOf(t) \ {"store", "unstore"} /\ "taken" \notin Later /\ "taken" \notin ItemOps
  BY DEF OpsOf, SaveOps, Later, ItemOps
<1> HIDE DEF c
<1>3. Shape(t, first) /\ Len(first) = 1 /\ first[1] = c /\ first # <<>>
  BY <1>1, <1>2, ShapeOne
<1> HIDE DEF first
<1>4. (first # <<>> /\ s # <<>> => Follows(first[Len(first)], s[1])) /\ t # "services"
  BY <1>3 DEF Follows
<1>5. /\ Shape(t, all) /\ all[1] = first[1] /\ all # <<>>
      /\ Len(all) = Len(first) + Len(s)
      /\ \A k \in 1 .. Len(s) : all[Len(first) + k] = s[k]
  <2>1. Shape(t, first) /\ Shape(t, s) /\ first # <<>>
    BY <1>3
  <2>2. Shape(t, all)
    BY <2>1, <1>4, ShapeBoth
  <2>3. all[1] = first[1]
    BY <2>1, <1>4, ShapeBoth
  <2>4. all # <<>>
    BY <2>1, <1>4, ShapeBoth
  <2>5. Len(all) = Len(first) + Len(s)
    BY <2>1, <1>4, ShapeBoth
  <2>6. \A k \in 1 .. Len(s) : all[Len(first) + k] = s[k]
    BY <2>1, <1>4, ShapeBoth
  <2> QED BY <2>2, <2>3, <2>4, <2>5, <2>6
<1>9. Len(s) \in Nat \ {0}
  BY EmptySeq DEF Shape
<1> HIDE DEF all
<1>10. all[2] = s[1]
  <2>1. 1 \in 1 .. Len(s) /\ Len(first) + 1 = 2
    BY <1>3, <1>9
  <2> QED BY <2>1, <1>5
<1>11. \A k \in 1 .. Len(all) : all[k].op \notin ItemOps
  <2> SUFFICES ASSUME NEW k \in 1 .. Len(all) PROVE all[k].op \notin ItemOps
    OBVIOUS
  <2>1. CASE k = 1
    BY <2>1, <1>1, <1>2, <1>3, <1>5
  <2>2. CASE k # 1
    <3>1. k - 1 \in 1 .. Len(s) /\ Len(first) + (k - 1) = k
      BY <2>2, <1>3, <1>5, <1>9
    <3> QED BY <3>1, <1>5 DEF Stores
  <2> QED BY <2>1, <2>2
<1> QED BY <1>1, <1>2, <1>3, <1>5, <1>10, <1>11 DEF Starts, Stores

LEMMA RequisitionCalls ==
    ASSUME table = "requisitions", NEW viewer \in Viewers, NEW form \in Forms("requisitions")
    PROVE  LET t == "requisitions" IN
           /\ Starts(t, get_requisitions) /\ JustReads(get_requisitions)
           /\ Starts(t, get_requisition) /\ OnRow(get_requisition)
           /\ Starts(t, get_daily_total) /\ JustReads(get_daily_total)
           /\ Starts(t, get_requisition_stats) /\ JustReads(get_requisition_stats)
           /\ Starts(t, create_requisition(viewer, form)) /\ Stores(create_requisition(viewer, form))
           /\ Starts(t, update_requisition(form)) /\ OnRow(update_requisition(form))
           /\ Starts(t, delete_requisition) /\ OnRow(delete_requisition)
<1> DEFINE t == "requisitions"
<1>1. t \in RegisterTables /\ t \notin {"sop_documents", "services"} /\ Plainly(t) /\ table = t
  BY DEF RegisterTables, FormTables, Plainly
<1>2. /\ form.row \in Columns /\ form.patch \in Patches /\ form.patch \in StampedPatches /\ form.names \subseteq STRING
      /\ form.version \in Nat /\ form.number \in Nat /\ form.row.number \in Nat /\ Blank \in Sections
      /\ NoPatch \in Patches
  BY <1>1, FormsAre, NoPatchIsOne
<1> HIDE DEF t
<1>3. Starts(t, get_requisitions) /\ JustReads(get_requisitions)
  BY <1>1, ReadAlone DEF get_requisitions, ReadJoined
<1>4. Starts(t, get_requisition) /\ OnRow(get_requisition)
  BY <1>1, <1>2, CommonCalls, FindThen DEF get_requisition
<1>5. ReadPage(TRUE) \in Calls /\ ReadPage(TRUE).op = "read"
  BY CommonCalls DEF ReadPage
<1>6. Starts(t, get_daily_total) /\ JustReads(get_daily_total)
  BY <1>1, <1>5, CommonCalls, ReadsThen DEF get_daily_total
<1>7. Starts(t, get_requisition_stats) /\ JustReads(get_requisition_stats)
  BY <1>1, <1>5, CommonCalls, ReadsThen DEF get_requisition_stats
<1>8. Starts(t, create_requisition(viewer, form)) /\ Stores(create_requisition(viewer, form))
  <2> DEFINE s == StampAndInsert(viewer, form.row, Save(form.names, Blank))
  <2>1. /\ Shape(t, Save(form.names, Blank)) /\ OnRow(Save(form.names, Blank))
        /\ Save(form.names, Blank) # <<>> => Save(form.names, Blank)[1].op \in {"fill", "look"}
    BY <1>1, <1>2, SavesThen
  <2>2. Starts(t, s) /\ Stores(s) /\ (s # <<>> => s[1].op = "insert")
    BY <2>1, <1>1, <1>2, Creates
  <2>3. create_requisition(viewer, form) = IF s = <<>> THEN <<>> ELSE <<Taken(form.row.number)>> \o s
    BY DEF create_requisition
  <2>4. Stores(<<>>) /\ Starts(t, <<>>)
    BY EmptySeq, ShapeNone DEF Stores
  <2> HIDE DEF s
  <2>5. CASE s = <<>>
    BY <2>5, <2>3, <2>4
  <2>6. CASE s # <<>>
    <3>1. Starts(t, <<Taken(form.row.number)>> \o s) /\ Stores(<<Taken(form.row.number)>> \o s)
      BY <2>6, <2>2, <1>1, <1>2, TakenThen DEF Starts
    <3> QED BY <3>1, <2>6, <2>3
  <2> QED BY <2>5, <2>6
<1>9. Starts(t, delete_requisition) /\ OnRow(delete_requisition)
  <2>1. Follows(Find(NoPatch, TRUE), Clear) /\ Follows(Clear, Drop)
    BY <1>2, CommonCalls DEF Follows
  <2>2. {"find", "clear", "drop"} \subseteq OpsOf(t) \ {"store", "unstore", "attach"}
    BY <1>1 DEF OpsOf, SaveOps
  <2>3. "find" \notin Later /\ "find" \notin ItemOps /\ "clear" \notin ItemOps /\ "drop" \notin ItemOps
    BY DEF Later, ItemOps
  <2>4. /\ Find(NoPatch, TRUE) \in Calls /\ Find(NoPatch, TRUE).op = "find" /\ Clear \in Calls /\ Clear.op = "clear"
        /\ Drop \in Calls /\ Drop.op = "drop"
    BY <1>2, CommonCalls
  <2>5. Starts(t, <<Find(NoPatch, TRUE), Clear, Drop>>)
    BY <2>1, <2>2, <2>3, <2>4, ShapeThree
  <2>6. OnRow(<<Find(NoPatch, TRUE), Clear, Drop>>)
    <3>1. ASSUME NEW a, NEW b, NEW c, a.op \notin ItemOps, b.op \notin ItemOps, c.op \notin ItemOps
          PROVE  OnRow(<<a, b, c>>)
      <4>1. \A k \in 1 .. 3 : k = 1 \/ k = 2 \/ k = 3
        OBVIOUS
      <4> QED BY <4>1, <3>1 DEF OnRow
    <3> QED BY <3>1, <2>3, <2>4
  <2> QED BY <2>5, <2>6 DEF delete_requisition
<1>10. Starts(t, update_requisition(form)) /\ OnRow(update_requisition(form))
  <2> DEFINE a == <<FindBoth(form.patch, form.version), Taken(form.number)>>
             b == IF DOMAIN form.patch = {} THEN <<>> ELSE <<Touch(form.patch)>>
             c == Replace(form, form.names, Blank)
             d == <<ReadOwn>>
  <2>1. update_requisition(form) = a \o b \o c \o d
    BY DEF update_requisition
  <2>2. Starts(t, a) /\ OnRow(a) /\ a # <<>>
    <3> DEFINE f == FindBoth(form.patch, form.version)
               k == Taken(form.number)
    <3>1. f \in Calls /\ f.op = "find" /\ k \in Calls /\ k.op = "taken"
      BY <1>2, CommonCalls, CallsMade, OpOf
    <3>2. /\ {"find", "taken"} \subseteq OpsOf(t) \ {"store", "unstore", "attach"} /\ "find" \notin Later
          /\ "find" \notin ItemOps /\ "taken" \notin ItemOps
      BY <1>1 DEF OpsOf, SaveOps, Later, ItemOps
    <3>3. Follows(f, k)
      BY <3>1 DEF Follows
    <3> HIDE DEF f, k
    <3>4. Starts(t, <<f, k>>) /\ <<f, k>> # <<>>
      BY <3>1, <3>2, <3>3, ShapeTwo
    <3>5. OnRow(<<f, k>>)
      <4>1. \A i \in 1 .. 2 : i = 1 \/ i = 2
        OBVIOUS
      <4> QED BY <4>1, <3>1, <3>2 DEF OnRow
    <3> QED BY <3>4, <3>5 DEF f, k
  <2>3. Starts(t, b) /\ OnRow(b)
    <3>1. Touch(form.patch) \in Calls /\ Touch(form.patch).op = "write"
      BY <1>2, CommonCalls
    <3>2. "write" \in OpsOf(t) \ {"store", "unstore"} /\ "write" \notin Later /\ "write" \notin ItemOps
      BY DEF OpsOf, SaveOps, Later, ItemOps
    <3>3. Starts(t, <<Touch(form.patch)>>) /\ OnRow(<<Touch(form.patch)>>)
      <4>1. \A i \in 1 .. 1 : i = 1
        OBVIOUS
      <4> QED BY <4>1, <3>1, <3>2, ShapeOne DEF OnRow
    <3>4. Starts(t, <<>>) /\ OnRow(<<>>)
      BY ShapeNone, EmptySeq DEF OnRow
    <3> QED BY <3>3, <3>4
  <2>4. Starts(t, c) /\ OnRow(c)
    BY <1>1, <1>2, ReplacesThen
  <2>5. Starts(t, d) /\ OnRow(d)
    <3>1. "read_own" \in OpsOf(t) \ {"store", "unstore"} /\ "read_own" \notin Later /\ "read_own" \notin ItemOps
      BY DEF OpsOf, SaveOps, Later, ItemOps
    <3>2. \A i \in 1 .. 1 : i = 1
      OBVIOUS
    <3> QED BY <3>1, <3>2, CommonCalls, ShapeOne DEF OnRow
  <2> HIDE DEF a, b, c, d
  <2>6. Starts(t, a \o b) /\ OnRow(a \o b) /\ a \o b # <<>>
    BY <2>2, <2>3, <1>1, FindThenAll
  <2>7. Starts(t, (a \o b) \o c) /\ OnRow((a \o b) \o c) /\ (a \o b) \o c # <<>>
    BY <2>4, <2>6, <1>1, FindThenAll
  <2>8. Starts(t, ((a \o b) \o c) \o d) /\ OnRow(((a \o b) \o c) \o d)
    BY <2>5, <2>7, <1>1, FindThenAll
  <2> QED BY <2>1, <2>8
<1> QED BY <1>3, <1>4, <1>6, <1>7, <1>8, <1>9, <1>10 DEF t

LEMMA SopCalls ==
    ASSUME table = "sop_documents", NEW viewer \in Viewers, NEW form \in Forms("sop_documents"), NEW admin \in BOOLEAN
    PROVE  LET t == "sop_documents" IN
           /\ Starts(t, list_sops) /\ JustReads(list_sops)
           /\ Starts(t, list_archived_sops) /\ JustReads(list_archived_sops)
           /\ Starts(t, get_sop) /\ OnRow(get_sop)
           /\ Starts(t, create_sop(viewer, form)) /\ Stores(create_sop(viewer, form))
           /\ Starts(t, update_sop(form, admin)) /\ OnRow(update_sop(form, admin))
           /\ Starts(t, archive_sop) /\ OnRow(archive_sop)
           /\ Starts(t, restore_sop) /\ OnRow(restore_sop)
<1> DEFINE t == "sop_documents"
<1>1. t \in RegisterTables /\ t # "services" /\ t \in RegisterTables \ {"services"} /\ table = t
  BY DEF RegisterTables, FormTables
<1>2. /\ form.row \in Columns /\ form.patch \in Patches /\ form.patch \in StampedPatches
      /\ form.row.number \in Nat /\ NoPatch \in Patches
  BY <1>1, FormsAre, NoPatchIsOne
<1>3. {"find", "write", "look", "revise", "archive"} \subseteq OpsOf(t) \ {"store", "unstore", "attach"}
  BY DEF OpsOf, SaveOps
<1>4. /\ {"find", "look", "archive"} \cap Later = {}
      /\ {"find", "write", "look", "revise", "archive"} \cap ItemOps = {}
  BY DEF Later, ItemOps
<1> HIDE DEF t
<1>5. Starts(t, list_sops) /\ JustReads(list_sops)
  BY <1>1, ReadAlone DEF list_sops, ReadPage
<1>6. Starts(t, list_archived_sops) /\ JustReads(list_archived_sops)
  BY <1>1, ReadAlone DEF list_archived_sops
<1>7. Starts(t, get_sop) /\ OnRow(get_sop)
  BY <1>1, <1>2, CommonCalls, FindThen DEF get_sop
<1>8. Look \in Calls /\ Look.op = "look" /\ Revise \in Calls /\ Revise.op = "revise"
  BY CallsMade, OpOf DEF Look, Revise
<1>9. /\ Shape(t, _snapshot) /\ Starts(t, _snapshot) /\ OnRow(_snapshot) /\ _snapshot # <<>>
      /\ _snapshot[1].op = "look" /\ Len(_snapshot) = 2
  <2>1. Follows(Look, Revise)
    BY <1>8 DEF Follows
  <2>2. Starts(t, <<Look, Revise>>) /\ Len(<<Look, Revise>>) = 2 /\ <<Look, Revise>>[1] = Look /\ <<Look, Revise>>[2] = Revise
    BY <2>1, <1>3, <1>4, <1>8, ShapeTwo
  <2>3. OnRow(<<Look, Revise>>)
    <3>1. \A i \in 1 .. 2 : i = 1 \/ i = 2
      OBVIOUS
    <3> QED BY <3>1, <2>2, <1>4, <1>8 DEF OnRow
  <2> QED BY <2>2, <2>3, <1>8 DEF _snapshot, Starts
<1> HIDE DEF _snapshot
<1>10. Starts(t, create_sop(viewer, form)) /\ Stores(create_sop(viewer, form))
  <2> DEFINE s == StampAndInsert(viewer, form.row, _snapshot)
  <2>1. Starts(t, s) /\ Stores(s) /\ (s # <<>> => s[1].op = "insert")
    BY <1>1, <1>2, <1>9, Creates
  <2>2. create_sop(viewer, form) = IF s = <<>> THEN <<>> ELSE <<Taken(form.row.number)>> \o s
    BY DEF create_sop
  <2>3. Stores(<<>>) /\ Starts(t, <<>>)
    BY EmptySeq, ShapeNone DEF Stores
  <2> HIDE DEF s
  <2>4. CASE s = <<>>
    BY <2>4, <2>2, <2>3
  <2>5. CASE s # <<>>
    <3>1. Starts(t, <<Taken(form.row.number)>> \o s) /\ Stores(<<Taken(form.row.number)>> \o s)
      BY <2>5, <2>1, <1>1, <1>2, TakenThen DEF Starts
    <3> QED BY <3>1, <2>5, <2>2
  <2> QED BY <2>4, <2>5
<1>11. Starts(t, update_sop(form, admin)) /\ OnRow(update_sop(form, admin))
  <2> DEFINE f == Find(form.patch, TRUE)
             w == Write(form.patch)
             first == <<f, w>>
             all == first \o _snapshot
  <2>1. f \in Calls /\ f.op = "find" /\ w \in Calls /\ w.op = "write"
    BY <1>2, CommonCalls
  <2>2. update_sop(form, admin) = <<>> \/ update_sop(form, admin) = all
    BY DEF update_sop
  <2> HIDE DEF f, w
  <2>3. Starts(t, first) /\ OnRow(first) /\ Len(first) = 2 /\ first[2] = w /\ first[1] = f /\ first # <<>>
    BY <2>1, <1>1, FindThen
  <2> HIDE DEF first
  <2>4. (first # <<>> /\ _snapshot # <<>> => Follows(first[Len(first)], _snapshot[1])) /\ t # "services"
        /\ Shape(t, first) /\ Shape(t, _snapshot) /\ first # <<>>
    BY <2>1, <2>3, <1>1, <1>9 DEF Follows, Starts
  <2>5. Shape(t, all)
    BY <2>4, ShapeBoth
  <2>6. all[1] = first[1]
    BY <2>4, ShapeBoth
  <2>7. Len(all) = Len(first) + Len(_snapshot) /\ \A k \in 1 .. Len(first) : all[k] = first[k]
    BY <2>4, ShapeBoth
  <2>8. \A k \in 1 .. Len(_snapshot) : all[Len(first) + k] = _snapshot[k]
    BY <2>4, ShapeBoth
  <2> HIDE DEF all
  <2>9. OnRow(all)
    <3>1. ASSUME NEW k \in 1 .. Len(all) PROVE all[k].op \notin ItemOps
      <4>1. CASE k <= 2
        <5>1. k \in 1 .. Len(first)
          BY <4>1, <2>3
        <5> QED BY <5>1, <2>3, <2>7 DEF OnRow
      <4>2. CASE ~(k <= 2)
        <5>1. k - 2 \in 1 .. Len(_snapshot) /\ Len(first) + (k - 2) = k
          BY <4>2, <2>3, <2>7, <1>9
        <5> QED BY <5>1, <2>8, <1>9 DEF OnRow
      <4> QED BY <4>1, <4>2
    <3> QED BY <3>1 DEF OnRow
  <2>10. Starts(t, all)
    BY <2>1, <2>3, <2>5, <2>6, <1>4 DEF Starts
  <2>11. Starts(t, <<>>) /\ OnRow(<<>>)
    BY ShapeNone, EmptySeq DEF OnRow
  <2> QED BY <2>2, <2>9, <2>10, <2>11
<1>12. ASSUME NEW b \in BOOLEAN
       PROVE  Starts(t, <<Find(NoPatch, TRUE), Archive(b)>>) /\ OnRow(<<Find(NoPatch, TRUE), Archive(b)>>)
  <2> DEFINE f == Find(NoPatch, TRUE)
             g == Archive(b)
  <2>1. f \in Calls /\ f.op = "find" /\ g \in Calls /\ g.op = "archive"
    BY <1>2, CommonCalls, CallsMade, OpOf
  <2> HIDE DEF f, g
  <2>2. Follows(f, g)
    BY <2>1 DEF Follows
  <2>3. Starts(t, <<f, g>>)
    BY <2>1, <2>2, <1>3, <1>4, ShapeTwo
  <2>4. OnRow(<<f, g>>)
    <3>1. \A i \in 1 .. 2 : i = 1 \/ i = 2
      OBVIOUS
    <3> QED BY <3>1, <2>1, <1>4 DEF OnRow
  <2> QED BY <2>3, <2>4 DEF f, g
<1>13. Starts(t, archive_sop) /\ OnRow(archive_sop) /\ Starts(t, restore_sop) /\ OnRow(restore_sop)
  BY <1>12 DEF archive_sop, restore_sop
<1> QED BY <1>5, <1>6, <1>7, <1>10, <1>11, <1>13 DEF t

LEMMA ServiceCalls ==
    ASSUME table = "services", NEW viewer \in Viewers, NEW form \in Forms("services"), NEW stage
    PROVE  LET t == "services" IN
           /\ Starts(t, list_services) /\ JustReads(list_services)
           /\ Starts(t, get_stage_signatures) /\ OnRow(get_stage_signatures)
           /\ Starts(t, list_attachments) /\ OnRow(list_attachments)
           /\ Starts(t, create_service(viewer, form)) /\ Stores(create_service(viewer, form))
           /\ Starts(t, update_service(form)) /\ OnRow(update_service(form))
           /\ Starts(t, delete_service) /\ OnRow(delete_service)
           /\ stage \in Stages => Starts(t, put_stage_signature(stage)) /\ OnRow(put_stage_signature(stage))
           /\ Starts(t, upload_attachment) /\ OnRow(upload_attachment)
           /\ Starts(t, delete_attachment)
<1> DEFINE t == "services"
<1>1. t \in RegisterTables /\ t # "sop_documents" /\ table = t
  BY DEF RegisterTables, FormTables
<1>2. form.row \in Columns /\ form.patch \in Patches /\ form.patch \in StampedPatches /\ NoPatch \in Patches /\ Blank \in Sections
  BY <1>1, FormsAre, NoPatchIsOne DEF Sections
<1>3. {"find", "sign", "store", "attach", "find_item", "unstore", "drop_item"} \subseteq OpsOf(t)
  BY DEF OpsOf, SaveOps
<1>4. {"find", "find_item"} \cap Later = {} /\ {"find", "sign", "store", "attach"} \cap ItemOps = {}
  BY DEF Later, ItemOps
<1> HIDE DEF t
<1>5. Starts(t, list_services) /\ JustReads(list_services)
  BY <1>1, ReadAlone DEF list_services, ReadPages
<1>6. ASSUME NEW b \in BOOLEAN
      PROVE  /\ Starts(t, <<Find(NoPatch, b), ReadOwn>>) /\ OnRow(<<Find(NoPatch, b), ReadOwn>>)
             /\ Starts(t, <<Find(NoPatch, b), Drop>>) /\ OnRow(<<Find(NoPatch, b), Drop>>)
             /\ Find(NoPatch, b) \in Calls /\ Find(NoPatch, b).op = "find"
  <2>1. Find(NoPatch, b) \in Calls /\ Find(NoPatch, b).op = "find"
    BY <1>2, CommonCalls
  <2>2. Starts(t, <<Find(NoPatch, b), ReadOwn>>) /\ OnRow(<<Find(NoPatch, b), ReadOwn>>)
    BY <2>1, <1>1, CommonCalls, FindThen
  <2>3. Starts(t, <<Find(NoPatch, b), Drop>>) /\ OnRow(<<Find(NoPatch, b), Drop>>)
    BY <2>1, <1>1, CommonCalls, FindThen
  <2> QED BY <2>1, <2>2, <2>3
<1>7. /\ Starts(t, get_stage_signatures) /\ OnRow(get_stage_signatures)
      /\ Starts(t, list_attachments) /\ OnRow(list_attachments)
      /\ Starts(t, delete_service) /\ OnRow(delete_service)
  BY <1>6 DEF get_stage_signatures, list_attachments, delete_service
<1>8. Starts(t, create_service(viewer, form)) /\ Stores(create_service(viewer, form))
  <2>1. Shape(t, <<>>) /\ OnRow(<<>>)
    BY ShapeNone, EmptySeq DEF OnRow
  <2> QED BY <2>1, <1>1, <1>2, Creates DEF create_service, create_item
<1>9. Starts(t, update_service(form)) /\ OnRow(update_service(form))
  <2>1. /\ Find(form.patch, FALSE) \in Calls /\ Find(form.patch, FALSE).op = "find"
        /\ Touch(form.patch) \in Calls /\ Touch(form.patch).op = "write"
    BY <1>2, CommonCalls
  <2> QED BY <2>1, <1>1, FindThen DEF update_service
<1>10. ASSUME stage \in Stages PROVE Starts(t, put_stage_signature(stage)) /\ OnRow(put_stage_signature(stage))
  <2> DEFINE f == Find(NoPatch, TRUE)
             g == Sign(stage)
  <2>1. f \in Calls /\ f.op = "find" /\ g \in Calls /\ g.op = "sign"
    BY <1>2, <1>10, CommonCalls, CallsMade, OpOf
  <2>2. put_stage_signature(stage) = <<f, g>>
    BY DEF put_stage_signature
  <2> HIDE DEF f, g
  <2>3. Follows(f, g)
    BY <2>1 DEF Follows
  <2>4. Starts(t, <<f, g>>)
    BY <2>1, <2>3, <1>3, <1>4, ShapeTwo
  <2>5. OnRow(<<f, g>>)
    <3>1. \A i \in 1 .. 2 : i = 1 \/ i = 2
      OBVIOUS
    <3> QED BY <3>1, <2>1, <1>4 DEF OnRow
  <2> QED BY <2>2, <2>4, <2>5
<1>11. /\ Store \in Calls /\ Store.op = "store" /\ Attach \in Calls /\ Attach.op = "attach"
       /\ Unstore \in Calls /\ Unstore.op = "unstore" /\ DropItem \in Calls /\ DropItem.op = "drop_item"
       /\ FindItem(Blank) \in Calls /\ FindItem(Blank).op = "find_item"
  BY <1>2, CallsMade, OpOf DEF Store, Attach, Unstore, DropItem
<1>12. ASSUME NEW a \in Calls, NEW b \in Calls, NEW c \in Calls, a.op = "find", b.op = "store", c.op = "attach"
       PROVE  Starts(t, <<a, b, c>>) /\ OnRow(<<a, b, c>>)
  <2>1. Follows(a, b) /\ Follows(b, c)
    BY <1>12 DEF Follows
  <2>2. Starts(t, <<a, b, c>>)
    BY <2>1, <1>3, <1>4, <1>12, ShapeThree
  <2>3. OnRow(<<a, b, c>>)
    <3>1. \A i \in 1 .. 3 : i = 1 \/ i = 2 \/ i = 3
      OBVIOUS
    <3> QED BY <3>1, <1>4, <1>12 DEF OnRow
  <2> QED BY <2>2, <2>3
<1>13. ASSUME NEW a \in Calls, NEW b \in Calls, NEW c \in Calls, a.op = "find_item", b.op = "unstore", c.op = "drop_item"
       PROVE  Starts(t, <<a, b, c>>)
  <2>1. Follows(a, b) /\ Follows(b, c)
    BY <1>13 DEF Follows
  <2> QED BY <2>1, <1>3, <1>4, <1>13, ShapeThree
<1>14. Starts(t, upload_attachment) /\ OnRow(upload_attachment)
  BY <1>6, <1>11, <1>12 DEF upload_attachment
<1>15. Starts(t, delete_attachment)
  BY <1>11, <1>13 DEF delete_attachment
<1> QED BY <1>5, <1>7, <1>8, <1>9, <1>10, <1>14, <1>15 DEF t

\* Every request is one of these.
Comes(t, h) ==
    \E kind, id, item, viewer, calls :
       /\ Arrive(h, kind, id, item, viewer, calls)
       /\ Starts(t, calls)
       /\ JustReads(calls) \/ Stores(calls) \/ (id \in RowIds /\ OnRow(calls)) \/ (item \in items /\ id = item.parent)

LEMMA Requests ==
    ASSUME NEW t \in RegisterTables, table = t, NEW h \in Handlers,
           \/ t \notin FormTables /\ (Request(h) \/ RequestOnItem(h))
           \/ t \in FormTables /\ FormRequest(h)
    PROVE  Comes(t, h)
<1>1. CASE t \notin FormTables /\ Request(h)
  <2>0. t \in Reports
    BY <1>1 DEF Reports
  <2>1. PICK viewer \in Viewers :
           \/ Arrive(h, "list", NoRow, NoRow, viewer, ListOf(viewer))
           \/ Arrive(h, "figures", NoRow, NoRow, viewer, FiguresOf)
           \/ \E id \in RowIds, calls \in OneOf : Arrive(h, "one", id, NoRow, viewer, calls)
           \/ \E form \in Forms(t) : Arrive(h, "save", NoRow, NoRow, viewer, CreateBy(viewer, form))
           \/ \E id \in RowIds, form \in Forms(t) : Arrive(h, "save", id, NoRow, viewer, UpdateBy(viewer, form))
           \/ \E id \in RowIds : Arrive(h, "save", id, NoRow, viewer, DeleteBy)
    BY <1>1 DEF Request
  <2>2. CASE Arrive(h, "list", NoRow, NoRow, viewer, ListOf(viewer))
    BY <2>0, <2>2, ReportReads DEF Comes
  <2>3. CASE Arrive(h, "figures", NoRow, NoRow, viewer, FiguresOf)
    BY <2>0, <2>3, ReportReads DEF Comes
  <2>4. ASSUME NEW id \in RowIds, NEW calls \in OneOf, Arrive(h, "one", id, NoRow, viewer, calls)
        PROVE  Comes(t, h)
    <3>1. Starts(t, calls) /\ OnRow(calls)
      BY <2>0, ReportOnes
    <3> QED BY <2>4, <3>1 DEF Comes
  <2>5. ASSUME NEW form \in Forms(t), Arrive(h, "save", NoRow, NoRow, viewer, CreateBy(viewer, form))
        PROVE  Comes(t, h)
    BY <2>0, <2>5, ReportSaves DEF Comes
  <2>6. ASSUME NEW id \in RowIds, NEW form \in Forms(t), Arrive(h, "save", id, NoRow, viewer, UpdateBy(viewer, form))
        PROVE  Comes(t, h)
    BY <2>0, <2>6, ReportSaves DEF Comes
  <2>7. ASSUME NEW id \in RowIds, Arrive(h, "save", id, NoRow, viewer, DeleteBy)
        PROVE  Comes(t, h)
    BY <2>0, <2>7, ReportOnes DEF Comes
  <2> QED BY <2>1, <2>2, <2>3, <2>4, <2>5, <2>6, <2>7
<1>2. CASE t \notin FormTables /\ RequestOnItem(h)
  <2>0. t \in Reports
    BY <1>2 DEF Reports
  <2>1. PICK viewer \in Viewers, form \in Forms(t) :
           \/ \E id \in RowIds, n \in form.names :
                 Arrive(h, "save", id, NoRow, viewer, add_finding(viewer, n, form.section))
           \/ \E i \in items : Arrive(h, "save", i.parent, i, viewer, update_finding(form.section))
           \/ \E i \in items : Arrive(h, "save", i.parent, i, viewer, delete_finding)
           \/ Arrive(h, "list", NoRow, NoRow, viewer, get_lube_records)
           \/ \E id \in RowIds, n \in form.names : Arrive(h, "save", id, NoRow, viewer, create_lube_record(n))
    BY <1>2 DEF RequestOnItem
  <2>2. ASSUME NEW id \in RowIds, NEW n \in form.names,
               \/ Arrive(h, "save", id, NoRow, viewer, add_finding(viewer, n, form.section))
               \/ Arrive(h, "save", id, NoRow, viewer, create_lube_record(n))
        PROVE  Comes(t, h)
    <3>1. /\ Starts(t, add_finding(viewer, n, form.section)) /\ OnRow(add_finding(viewer, n, form.section))
          /\ Starts(t, create_lube_record(n)) /\ OnRow(create_lube_record(n))
      BY <2>0, ItemSaves
    <3> QED BY <2>2, <3>1 DEF Comes
  <2>3. ASSUME NEW i \in items,
               \/ Arrive(h, "save", i.parent, i, viewer, update_finding(form.section))
               \/ Arrive(h, "save", i.parent, i, viewer, delete_finding)
        PROVE  Comes(t, h)
    <3>1. form.section \in Sections
      BY FormsAre
    <3>2. Starts(t, update_finding(form.section)) /\ Starts(t, delete_finding)
      BY <2>0, <3>1, FindingSaves
    <3> QED BY <2>3, <3>2 DEF Comes
  <2>4. ASSUME Arrive(h, "list", NoRow, NoRow, viewer, get_lube_records)
        PROVE  Comes(t, h)
    BY <2>0, <2>4, ReportReads DEF Comes
  <2> QED BY <2>1, <2>2, <2>3, <2>4
<1>3. CASE t \in FormTables /\ FormRequest(h)
  <2>1. PICK viewer \in Viewers, id \in RowIds, form \in Forms(t) :
       \/ /\ table = "requisitions"
          /\ \/ Arrive(h, "list", NoRow, NoRow, viewer, get_requisitions)
             \/ Arrive(h, "one", id, NoRow, viewer, get_requisition)
             \/ Arrive(h, "figures", NoRow, NoRow, viewer, get_daily_total)
             \/ Arrive(h, "figures", NoRow, NoRow, viewer, get_requisition_stats)
             \/ Arrive(h, "save", NoRow, NoRow, viewer, create_requisition(viewer, form))
             \/ Arrive(h, "save", id, NoRow, viewer, update_requisition(form))
             \/ Arrive(h, "save", id, NoRow, viewer, delete_requisition)
       \/ /\ table = "sop_documents"
          /\ \/ Arrive(h, "list", NoRow, NoRow, viewer, list_sops)
             \/ Arrive(h, "other", NoRow, NoRow, viewer, list_archived_sops)
             \/ Arrive(h, "one", id, NoRow, viewer, get_sop)
             \/ Arrive(h, "save", NoRow, NoRow, viewer, create_sop(viewer, form))
             \/ \E admin \in BOOLEAN : Arrive(h, "save", id, NoRow, viewer, update_sop(form, admin))
             \/ Arrive(h, "save", id, NoRow, viewer, archive_sop)
             \/ Arrive(h, "save", id, NoRow, viewer, restore_sop)
       \/ /\ table = "services"
          /\ \/ Arrive(h, "list", NoRow, NoRow, viewer, list_services)
             \/ Arrive(h, "one", id, NoRow, viewer, get_stage_signatures)
             \/ Arrive(h, "one", id, NoRow, viewer, list_attachments)
             \/ Arrive(h, "save", NoRow, NoRow, viewer, create_service(viewer, form))
             \/ Arrive(h, "save", id, NoRow, viewer, update_service(form))
             \/ Arrive(h, "save", id, NoRow, viewer, delete_service)
             \/ \E stage \in Stages : Arrive(h, "save", id, NoRow, viewer, put_stage_signature(stage))
             \/ Arrive(h, "save", id, NoRow, viewer, upload_attachment)
             \/ \E i \in items : Arrive(h, "save", i.parent, i, viewer, delete_attachment)
    BY <1>3 DEF FormRequest
  <2>2. CASE table = "requisitions"
    BY <2>1, <2>2, RequisitionCalls DEF Comes
  <2>3. CASE table = "sop_documents"
    <3>1. ASSUME NEW admin \in BOOLEAN, Arrive(h, "save", id, NoRow, viewer, update_sop(form, admin))
          PROVE  Comes(t, h)
      BY <2>3, <3>1, SopCalls DEF Comes
    <3>2. TRUE \in BOOLEAN
      OBVIOUS
    <3> QED BY <2>1, <2>3, <3>1, <3>2, SopCalls DEF Comes
  <2>4. CASE table = "services"
    <3>1. ASSUME NEW stage \in Stages, Arrive(h, "save", id, NoRow, viewer, put_stage_signature(stage))
          PROVE  Comes(t, h)
      BY <2>4, <3>1, ServiceCalls DEF Comes
    <3>2. ASSUME NEW i \in items, Arrive(h, "save", i.parent, i, viewer, delete_attachment)
          PROVE  Comes(t, h)
      BY <2>4, <3>2, ServiceCalls DEF Comes
    <3> QED BY <2>1, <2>4, <3>1, <3>2, ServiceCalls DEF Comes
  <2> QED BY <2>1, <2>2, <2>3, <2>4
<1> QED BY <1>1, <1>2, <1>3

-----------------------------------------------------------------------------
(* What one call does to the handlers. *)

HandlerFields == {"kind", "todo", "id", "viewer", "saw", "item", "seen", "got", "new", "met"}
HandlersHold == DOMAIN handlers = Handlers /\ \A g \in Handlers : DOMAIN handlers[g] = HandlerFields

\* Another handler's call leaves it as it was, but for what it may have missed.
Same(g) ==
    /\ handlers'[g].todo = handlers[g].todo /\ handlers'[g].id = handlers[g].id
    /\ handlers'[g].item = handlers[g].item /\ handlers'[g].saw = handlers[g].saw
    /\ handlers'[g].new = handlers[g].new
    /\ handlers[g].met => handlers'[g].met
    /\ rows' # rows => handlers'[g].met

\* Its own brings it to the next one, or to its end.
Progress(h) ==
    /\ handlers[h].todo # <<>>
    /\ handlers'[h].item = handlers[h].item
    /\ handlers'[h].id = handlers[h].id \/ (Doing(h, "insert") /\ handlers'[h].id \in RowIds)
    /\ \/ handlers'[h].todo = <<>>
       \/ handlers'[h].todo = Tail(handlers[h].todo) /\ (Doing(h, "insert") => handlers'[h].id \in RowIds)
       \/ Doing(h, "read") /\ \E c \in Reads : handlers'[h].todo = <<c>> \o Tail(handlers[h].todo)

LEMMA GoesOn ==
    ASSUME HandlersHold, NEW h \in Handlers, NEW rest
    PROVE  LET hs == Goes(h, rest)
           IN  /\ DOMAIN hs = Handlers /\ \A g \in Handlers : DOMAIN hs[g] = HandlerFields
               /\ \A g \in Handlers \ {h} : hs[g] = handlers[g]
               /\ hs[h].todo = rest
               /\ hs[h].id = handlers[h].id /\ hs[h].item = handlers[h].item /\ hs[h].saw = handlers[h].saw
               /\ hs[h].new = handlers[h].new /\ hs[h].met = handlers[h].met /\ hs[h].kind = handlers[h].kind
BY DEF HandlersHold, HandlerFields, Goes

\* ms is hs, all but h having missed something.
Missing(h, hs, ms) ==
    /\ DOMAIN ms = Handlers /\ \A g \in Handlers : DOMAIN ms[g] = HandlerFields
    /\ ms[h] = hs[h]
    /\ \A g \in Handlers \ {h} :
          /\ ms[g].todo = hs[g].todo /\ ms[g].id = hs[g].id /\ ms[g].item = hs[g].item /\ ms[g].saw = hs[g].saw
          /\ ms[g].new = hs[g].new /\ ms[g].met

LEMMA OthersMiss ==
    ASSUME NEW h \in Handlers, NEW hs, DOMAIN hs = Handlers, \A g \in Handlers : DOMAIN hs[g] = HandlerFields
    PROVE  Missing(h, hs, Missed(h, hs))
BY DEF Missing, Missed, HandlerFields

\* hs is what the handlers are after h has gone on with rest, changing nothing of who they are.
Gone(h, rest, hs) ==
    /\ DOMAIN hs = Handlers /\ \A g \in Handlers : DOMAIN hs[g] = HandlerFields
    /\ \A g \in Handlers \ {h} : hs[g] = handlers[g]
    /\ hs[h].todo = rest /\ hs[h].id = handlers[h].id /\ hs[h].item = handlers[h].item

StepsOn(h) == HandlersHold' /\ Progress(h) /\ \A g \in Handlers \ {h} : Same(g)

LEMMA GoneQuietly ==
    ASSUME HandlersHold, NEW h \in Handlers, handlers[h].todo # <<>>, NEW rest, Gone(h, rest, handlers'), rows' = rows,
           \/ rest = <<>> \/ (rest = Tail(handlers[h].todo) /\ ~Doing(h, "insert"))
           \/ (Doing(h, "read") /\ \E c \in Reads : rest = <<c>> \o Tail(handlers[h].todo))
    PROVE  StepsOn(h)
<1>1. HandlersHold'
  BY DEF Gone, HandlersHold
<1>2. Progress(h)
  BY DEF Gone, Progress
<1>3. \A g \in Handlers \ {h} : Same(g)
  BY DEF Gone, Same
<1> QED BY <1>1, <1>2, <1>3 DEF StepsOn

LEMMA GoneWriting ==
    ASSUME HandlersHold, NEW h \in Handlers, handlers[h].todo # <<>>, NEW rest, NEW hs, Gone(h, rest, hs),
           handlers' = Missed(h, hs), rest = Tail(handlers[h].todo), ~Doing(h, "insert")
    PROVE  StepsOn(h)
<1>1. Missing(h, hs, handlers')
  BY OthersMiss DEF Gone
<1>2. HandlersHold'
  BY <1>1 DEF HandlersHold, Missing
<1>3. Progress(h)
  BY <1>1 DEF Gone, Progress, Missing
<1>4. \A g \in Handlers \ {h} : Same(g)
  BY <1>1 DEF Gone, Same, Missing
<1> QED BY <1>2, <1>3, <1>4 DEF StepsOn

LEMMA GoesGone ==
    ASSUME HandlersHold, NEW h \in Handlers
    PROVE  /\ \A rest : Gone(h, rest, Goes(h, rest))
           /\ Gone(h, <<>>, Over(h)) /\ Gone(h, Tail(handlers[h].todo), On(h))
           /\ \A rest, hs, seen, got : Gone(h, rest, hs) =>
                 /\ Gone(h, rest, [hs EXCEPT ![h].got = got])
                 /\ Gone(h, rest, [hs EXCEPT ![h].seen = seen])
                 /\ Gone(h, rest, [hs EXCEPT ![h].seen = seen, ![h].got = got])
                 /\ Gone(h, rest, [hs EXCEPT ![h].new = got])
                 /\ Gone(h, rest, [hs EXCEPT ![h].kind = got])
                 /\ Gone(h, rest, [hs EXCEPT ![h].saw = seen, ![h].met = got])
<1>1. ASSUME NEW rest PROVE Gone(h, rest, Goes(h, rest))
  BY GoesOn DEF Gone
<1>2. ASSUME NEW rest, NEW hs, NEW seen, NEW got, Gone(h, rest, hs)
      PROVE  /\ Gone(h, rest, [hs EXCEPT ![h].got = got])
             /\ Gone(h, rest, [hs EXCEPT ![h].seen = seen])
             /\ Gone(h, rest, [hs EXCEPT ![h].seen = seen, ![h].got = got])
             /\ Gone(h, rest, [hs EXCEPT ![h].new = got])
             /\ Gone(h, rest, [hs EXCEPT ![h].kind = got])
             /\ Gone(h, rest, [hs EXCEPT ![h].saw = seen, ![h].met = got])
  <2>1. Gone(h, rest, [hs EXCEPT ![h].got = got])
    BY <1>2 DEF Gone, HandlerFields
  <2>2. Gone(h, rest, [hs EXCEPT ![h].seen = seen])
    BY <1>2 DEF Gone, HandlerFields
  <2>3. Gone(h, rest, [hs EXCEPT ![h].seen = seen, ![h].got = got])
    BY <1>2 DEF Gone, HandlerFields
  <2>4. Gone(h, rest, [hs EXCEPT ![h].new = got])
    BY <1>2 DEF Gone, HandlerFields
  <2>5. Gone(h, rest, [hs EXCEPT ![h].kind = got])
    BY <1>2 DEF Gone, HandlerFields
  <2>6. Gone(h, rest, [hs EXCEPT ![h].saw = seen, ![h].met = got])
    BY <1>2 DEF Gone, HandlerFields
  <2> QED BY <2>1, <2>2, <2>3, <2>4, <2>5, <2>6
<1> QED BY <1>1, <1>2 DEF Over, On

LEMMA Effect ==
    ASSUME HandlersHold, NEW h \in Handlers, Shape(table, handlers[h].todo), RegisterStep(h) \/ FormStep(h)
    PROVE  StepsOn(h)
<1> DEFINE tail == Tail(handlers[h].todo)
<1>0. /\ \A rest : Gone(h, rest, Goes(h, rest))
      /\ Gone(h, <<>>, Over(h)) /\ Gone(h, tail, On(h))
  BY GoesGone
<1>1. ASSUME NEW rest, NEW hs, NEW seen, NEW got, Gone(h, rest, hs)
      PROVE  /\ Gone(h, rest, [hs EXCEPT ![h].got = got])
             /\ Gone(h, rest, [hs EXCEPT ![h].seen = seen])
             /\ Gone(h, rest, [hs EXCEPT ![h].seen = seen, ![h].got = got])
             /\ Gone(h, rest, [hs EXCEPT ![h].new = got])
             /\ Gone(h, rest, [hs EXCEPT ![h].kind = got])
             /\ Gone(h, rest, [hs EXCEPT ![h].saw = seen, ![h].met = got])
  BY <1>1, GoesGone
<1>2. ASSUME handlers[h].todo # <<>>, rows' = rows, NEW rest \in {<<>>, tail}, Gone(h, rest, handlers'),
             rest = <<>> \/ ~Doing(h, "insert")
      PROVE  StepsOn(h)
  BY <1>2, GoneQuietly
<1>3. ASSUME handlers[h].todo # <<>>, NEW hs, Gone(h, tail, hs), handlers' = Missed(h, hs), ~Doing(h, "insert")
      PROVE  StepsOn(h)
  BY <1>3, GoneWriting
<1>4. ASSUME rows' = rows, handlers[h].todo # <<>>, handlers' = Over(h) \/ (handlers' = On(h) /\ ~Doing(h, "insert"))
      PROVE  StepsOn(h)
  BY <1>0, <1>2, <1>4
<1>5. ASSUME handlers[h].todo # <<>>, handlers' = Missed(h, On(h)), ~Doing(h, "insert") PROVE StepsOn(h)
  BY <1>0, <1>3, <1>5
<1> HIDE DEF tail
<1>6. CASE FindRow(h)
  <2>1. handlers[h].todo # <<>> /\ rows' = rows /\ ~Doing(h, "insert")
    BY <1>6 DEF FindRow, Doing
  <2>2. handlers' = Over(h) \/ handlers' = [On(h) EXCEPT ![h].saw = rows[handlers[h].id], ![h].met = FALSE]
    BY <1>6 DEF FindRow
  <2>3. Gone(h, tail, [On(h) EXCEPT ![h].saw = rows[handlers[h].id], ![h].met = FALSE])
    BY <1>0, <1>1
  <2> QED BY <2>1, <2>2, <2>3, <1>2, <1>4
<1>7. CASE WriteRow(h)
  BY <1>7, <1>4, <1>5 DEF WriteRow, Doing
<1>8. CASE InsertRow(h)
  <2>1. handlers[h].todo # <<>> /\ Doing(h, "insert")
    BY <1>8 DEF InsertRow, Doing
  <2>2. CASE handlers' = Over(h) /\ rows' = rows
    BY <2>1, <2>2, <1>4
  <2>3. ASSUME NEW id \in RowIds, handlers' = Missed(h, [On(h) EXCEPT ![h].id = id])
        PROVE  StepsOn(h)
    <3> DEFINE hs == [On(h) EXCEPT ![h].id = id]
    <3>1. /\ DOMAIN hs = Handlers /\ \A g \in Handlers : DOMAIN hs[g] = HandlerFields
          /\ \A g \in Handlers \ {h} : hs[g] = handlers[g]
          /\ hs[h].todo = tail /\ hs[h].id = id /\ hs[h].item = handlers[h].item
      BY <1>0 DEF Gone, HandlerFields
    <3> HIDE DEF hs
    <3>2. handlers' = Missed(h, hs)
      BY <2>3 DEF hs
    <3>3. Missing(h, hs, handlers')
      BY <3>1, <3>2, OthersMiss
    <3>4. HandlersHold'
      BY <3>3 DEF HandlersHold, Missing
    <3>5. Progress(h)
      BY <2>1, <3>1, <3>3 DEF Progress, Missing, tail
    <3>6. \A g \in Handlers \ {h} : Same(g)
      BY <3>1, <3>3 DEF Same, Missing
    <3> QED BY <3>4, <3>5, <3>6 DEF StepsOn
  <2> QED BY <1>8, <2>2, <2>3 DEF InsertRow
<1>9. CASE DropRow(h)
  BY <1>9, <1>5 DEF DropRow, Doing
<1>10. CASE ClearItems(h)
  BY <1>10, <1>5 DEF ClearItems, Doing
<1>11. CASE FillItems(h)
  <2>1. handlers[h].todo # <<>> /\ rows' = rows /\ ~Doing(h, "insert")
    BY <1>11 DEF FillItems, Doing
  <2>2. handlers' = Over(h) \/ handlers' = Missed(h, On(h))
    BY <1>11 DEF FillItems
  <2> QED BY <2>1, <2>2, <1>4, <1>5
<1>12. CASE FindOneItem(h)
  <2>1. handlers[h].todo # <<>> /\ rows' = rows /\ ~Doing(h, "insert")
    BY <1>12 DEF FindOneItem, Doing
  <2>2. handlers' = Over(h) \/ handlers' = On(h)
    BY <1>12 DEF FindOneItem
  <2> QED BY <2>1, <2>2, <1>4
<1>13. CASE WriteOneItem(h)
  <2>1. handlers[h].todo # <<>> /\ rows' = rows /\ ~Doing(h, "insert")
    BY <1>13 DEF WriteOneItem, Doing
  <2>2. handlers' = Over(h) \/ handlers' = Missed(h, On(h))
    BY <1>13 DEF WriteOneItem
  <2> QED BY <2>1, <2>2, <1>4, <1>5
<1>14. CASE DropOneItem(h)
  BY <1>14, <1>5 DEF DropOneItem, Doing
<1>15. CASE ReadRows(h)
  <2>1. handlers[h].todo # <<>> /\ rows' = rows /\ Doing(h, "read") /\ ~Doing(h, "insert")
    BY <1>15 DEF ReadRows, Doing
  <2>2. PICK next \in {<<>>, <<[Call(h) EXCEPT !.start = @ + Page]>>} :
           \E seen, got : handlers' = [Goes(h, next \o tail) EXCEPT ![h].seen = seen, ![h].got = got]
    BY <1>15 DEF ReadRows, Goes, tail
  <2>3. Gone(h, next \o tail, handlers')
    <3>1. PICK seen, got : handlers' = [Goes(h, next \o tail) EXCEPT ![h].seen = seen, ![h].got = got]
      BY <2>2
    <3>2. Gone(h, next \o tail, Goes(h, next \o tail))
      BY <1>0
    <3> QED BY <3>1, <3>2, <1>1
  <2>4. handlers[h].todo \in Seq(Calls) /\ Head(handlers[h].todo) \in Calls /\ tail \in Seq(Calls)
    BY <2>1, TailIs DEF Shape, tail
  <2>5. next = <<>> => next \o tail = tail
    BY <2>4, ConcatEmptySeq
  <2>6. [Call(h) EXCEPT !.start = @ + Page] \in Reads
    <3>1. Call(h) \in Reads
      BY <2>1, <2>4, CallFields DEF Call, Doing
    <3> QED BY <3>1, BoundsAssumption DEF Reads
  <2> QED BY <2>1, <2>2, <2>3, <2>5, <2>6, GoneQuietly DEF tail
<1>16. CASE ReadTheItems(h)
  <2>1. handlers[h].todo # <<>> /\ rows' = rows /\ ~Doing(h, "insert")
    BY <1>16 DEF ReadTheItems, Doing
  <2>2. \/ \E seen, got : handlers' = [On(h) EXCEPT ![h].seen = seen, ![h].got = got]
        \/ \E got : handlers' = [On(h) EXCEPT ![h].got = got]
    BY <1>16 DEF ReadTheItems
  <2>3. ASSUME NEW seen, NEW got, handlers' = [On(h) EXCEPT ![h].seen = seen, ![h].got = got]
        PROVE  Gone(h, tail, handlers')
    BY <2>3, <1>0, <1>1
  <2>4. ASSUME NEW got, handlers' = [On(h) EXCEPT ![h].got = got]
        PROVE  Gone(h, tail, handlers')
    BY <2>4, <1>0, <1>1
  <2>5. Gone(h, tail, handlers')
    BY <2>2, <2>3, <2>4
  <2> QED BY <2>1, <2>5, <1>2
<1>17. CASE CallFails(h)
  <2>1. handlers[h].todo # <<>> /\ rows' = rows /\ handlers' = [Over(h) EXCEPT ![h].kind = "none"]
    BY <1>17 DEF CallFails
  <2> QED BY <2>1, <1>0, <1>1, <1>2
<1>18. CASE CheckNumber(h)
  <2>1. handlers[h].todo # <<>> /\ rows' = rows /\ ~Doing(h, "insert")
    BY <1>18 DEF CheckNumber, Doing
  <2>2. handlers' = Over(h) \/ handlers' = On(h)
    BY <1>18 DEF CheckNumber
  <2> QED BY <2>1, <2>2, <1>4
<1>19. CASE LookForRevision(h)
  <2>1. handlers[h].todo # <<>> /\ rows' = rows /\ ~Doing(h, "insert")
    BY <1>19 DEF LookForRevision, Doing
  <2>2. \E got : handlers' = [On(h) EXCEPT ![h].new = got]
    BY <1>19 DEF LookForRevision
  <2>3. PICK got : handlers' = [On(h) EXCEPT ![h].new = got]
    BY <2>2
  <2>4. Gone(h, tail, handlers')
    BY <2>3, <1>0, <1>1
  <2> QED BY <2>1, <2>4, <1>2
<1>20. CASE AddRevision(h)
  BY <1>20, <1>5 DEF AddRevision, Doing
<1>21. CASE ArchiveRow(h)
  BY <1>21, <1>4, <1>5 DEF ArchiveRow, Doing
<1>22. CASE SignStage(h)
  BY <1>22, <1>5 DEF SignStage, Doing
<1>23. CASE StoreFile(h)
  <2>1. handlers[h].todo # <<>> /\ rows' = rows /\ ~Doing(h, "insert")
    BY <1>23 DEF StoreFile, Doing
  <2>2. \E got : handlers' = [On(h) EXCEPT ![h].new = got]
    BY <1>23 DEF StoreFile
  <2>3. PICK got : handlers' = [On(h) EXCEPT ![h].new = got]
    BY <2>2
  <2>4. Gone(h, tail, handlers')
    BY <2>3, <1>0, <1>1
  <2> QED BY <2>1, <2>4, <1>2
<1>24. CASE AttachFile(h)
  BY <1>24, <1>5 DEF AttachFile, Doing
<1>25. CASE RemoveFile(h)
  BY <1>25, <1>4 DEF RemoveFile, Doing
<1>26. StepsOn(h)
  BY <1>6, <1>7, <1>8, <1>9, <1>10, <1>11, <1>12, <1>13, <1>14, <1>15, <1>16, <1>17, <1>18, <1>19, <1>20, <1>21, <1>22,
     <1>23, <1>24, <1>25 DEF RegisterStep, FormStep
<1> QED BY <1>26 DEF StepsOn

-----------------------------------------------------------------------------
(* What a handler has left to do stays in order, whatever the others do. *)

LEMMA LegalStays ==
    ASSUME NEW t, NEW h \in Handlers, Legal(t, handlers[h]), Progress(h)
    PROVE  Legal(t, handlers'[h])
<1> DEFINE s == handlers[h].todo
           after == handlers'[h].id
           item == handlers[h].item
<1>1. s \in Seq(Calls) /\ s # <<>> /\ handlers'[h].item = item
  BY DEF Legal, Shape, Progress
<1>2. CASE handlers'[h].todo = <<>>
  <2>1. Len(<<>>) = 0 /\ <<>> \in Seq(Calls)
    BY EmptySeq
  <2> QED BY <1>2, <2>1 DEF Legal, Shape, HasRow, HasItem
<1>3. CASE handlers'[h].todo = Tail(s) /\ (Doing(h, "insert") => after \in RowIds)
  <2>1. handlers[h].id \in RowIds \/ Head(s).op = "insert" => after \in RowIds
    BY <1>1, <1>3 DEF Progress, Doing
  <2>2. HasRow(after, Tail(s)) /\ HasItem(item, Tail(s))
    BY <1>1, <2>1, HasTail DEF Legal
  <2>3. Shape(t, Tail(s))
    BY <1>1, ShapeTail DEF Legal
  <2> QED BY <1>1, <1>3, <2>2, <2>3 DEF Legal
<1>4. ASSUME Doing(h, "read"), NEW c \in Reads, handlers'[h].todo = <<c>> \o Tail(s)
      PROVE  Legal(t, handlers'[h])
  <2>1. after = handlers[h].id /\ Head(s).op = "read"
    BY <1>4 DEF Progress, Doing
  <2> QED BY <1>1, <1>4, <2>1, ReadingOn DEF Legal
<1> QED BY <1>2, <1>3, <1>4 DEF Progress

\* Where a call is only ever made right after another one.
LEMMA Heads ==
    ASSUME NEW t, NEW h \in Handlers, Legal(t, handlers[h]), Progress(h), handlers'[h].todo # <<>>
    PROVE  /\ Head(handlers'[h].todo).op = "fill" => Doing(h, "clear") \/ Doing(h, "insert")
           /\ Head(handlers'[h].todo).op = "revise" => Doing(h, "look")
           /\ Head(handlers'[h].todo).op = "sign" => Doing(h, "find")
           /\ Head(handlers'[h].todo).op = "attach" => Doing(h, "store")
           /\ Doing(h, "read") \/ handlers'[h].todo = Tail(handlers[h].todo)
           /\ Doing(h, "read") => Head(handlers'[h].todo).op \notin Later
<1> DEFINE s == handlers[h].todo
<1>1. s \in Seq(Calls) /\ s # <<>> /\ Shape(t, s)
  BY DEF Legal, Shape, Progress
<1>2. Tail(s) # <<>> => Follows(Head(s), Head(Tail(s)))
  BY <1>1, ShapeTail
<1>3. CASE handlers'[h].todo = Tail(s)
  BY <1>1, <1>2, <1>3 DEF Follows, Doing, Later
<1>4. ASSUME Doing(h, "read"), NEW c \in Reads, handlers'[h].todo = <<c>> \o Tail(s)
      PROVE  Head(handlers'[h].todo).op = "read"
  <2>1. Head(s).op = "read" /\ HasRow(handlers[h].id, s) /\ HasItem(handlers[h].item, s)
    BY <1>4 DEF Legal, Doing
  <2>2. PICK r : r = s
    OBVIOUS
  <2> HIDE DEF s
  <2>3. Shape(t, r) /\ HasRow(handlers[h].id, r) /\ HasItem(handlers[h].item, r) /\ r # <<>> /\ Head(r).op = "read"
    BY <1>1, <2>1, <2>2
  <2>4. Head(<<c>> \o Tail(r)) = c /\ c.op = "read"
    BY <2>3, ReadingOn
  <2> QED BY <1>4, <2>2, <2>4
<1> QED BY <1>3, <1>4 DEF Progress, Later

\* The rows a handler works on.
LEMMA OnARow ==
    ASSUME NEW t, NEW h \in Handlers, Legal(t, handlers[h]), handlers[h].todo # <<>>
    PROVE  /\ Head(handlers[h].todo) \in Calls /\ Call(h) = Head(handlers[h].todo)
           /\ Call(h).op \in OpsOf(t)
           /\ Call(h).op \in RowOps => handlers[h].id \in RowIds
           /\ Call(h).op \in ItemOps => handlers[h].item.parent \in RowIds
<1>1. HasRow(handlers[h].id, handlers[h].todo) /\ HasItem(handlers[h].item, handlers[h].todo) /\ handlers[h].todo \in Seq(Calls)
  BY DEF Legal, Shape
<1>2. Shape(t, handlers[h].todo)
  BY DEF Legal
<1>3. Head(handlers[h].todo) \in Calls /\ Head(handlers[h].todo).op \in OpsOf(t)
  BY <1>2, ShapeTail
<1>4. /\ Head(handlers[h].todo).op \in RowOps => handlers[h].id \in RowIds
      /\ Head(handlers[h].todo).op \in ItemOps => handlers[h].item.parent \in RowIds
  <2>1. /\ ~ \E j \in 1 .. 1 - 1 : TRUE
        /\ Head(handlers[h].todo) = handlers[h].todo[1] /\ 1 \in 1 .. Len(handlers[h].todo)
    BY <1>1, TailIs
  <2> QED BY <1>1, <2>1 DEF HasRow, HasItem
<1> QED BY <1>3, <1>4 DEF Call

-----------------------------------------------------------------------------
(* The tables, the calls left and what they rest on. *)

ItemFields == {"parent", "name", "section", "by"}
Pairs(id) == {[name |-> i.name, by |-> i.by] : i \in ItemsOf(id)}

TablesHold(t) ==
    /\ table = t /\ HandlersHold
    /\ rows \in [RowIds -> Columns \cup {NoRow}]
    /\ DOMAIN saved = RowIds /\ torn \subseteq RowIds
    /\ arrived \in 0 .. MaxHandlers /\ refused \in 0 .. MaxRefused
    /\ \A h \in Handlers : Legal(t, handlers[h])
\* Who signs has seen the row, or there was none to see.
SignsHold ==
    \A h \in Handlers : Doing(h, "sign") => handlers[h].saw \in Columns \/ handlers[h].id \notin Ids
ItemsHold ==
    /\ \A i \in items : DOMAIN i = ItemFields /\ i.parent \in Ids
    /\ \A id \in RowIds \ Ids : saved[id] = {}
\* A list is stored where there is none, but for two saves at once.
FillsHold ==
    \A h \in Handlers : Doing(h, "fill") /\ handlers[h].id \notin torn => ItemsOf(handlers[h].id) = {}
SavesHold == \A id \in Ids \ torn : Pairs(id) = saved[id]
RegisterInv(t) == TablesHold(t) /\ SignsHold /\ ItemsHold /\ FillsHold /\ SavesHold

\* A step that leaves the items and which rows there are alone.
LEMMA QuietStep ==
    ASSUME NEW t, RegisterInv(t), NEW h \in Handlers, StepsOn(h),
           items' = items, saved' = saved, torn \subseteq torn', Ids' = Ids,
           handlers'[h].todo = <<>> \/ (~Doing(h, "clear") /\ ~Doing(h, "insert"))
    PROVE  ItemsHold' /\ FillsHold' /\ SavesHold'
<1>1. ItemsHold'
  BY DEF RegisterInv, ItemsHold
<1>2. SavesHold'
  BY DEF RegisterInv, SavesHold, Pairs, ItemsOf
<1>3. FillsHold'
  <2> SUFFICES ASSUME NEW g \in Handlers, Doing(g, "fill")', handlers'[g].id \notin torn'
               PROVE  ItemsOf(handlers'[g].id) = {}
    BY DEF FillsHold, ItemsOf
  <2>1. g # h
    BY Heads DEF RegisterInv, TablesHold, StepsOn, Doing
  <2>2. Doing(g, "fill") /\ handlers[g].id = handlers'[g].id
    BY <2>1 DEF StepsOn, Same, Doing
  <2> QED BY <2>2 DEF RegisterInv, FillsHold
<1> QED BY <1>1, <1>2, <1>3

\* Row by row: what a write, an archiving and a signature leave.
LEMMA StillARow ==
    ASSUME NEW row \in Columns
    PROVE  /\ \A p \in StampedPatches, n \in {0, 1} : [Merged(row, p) EXCEPT !.version = @ + n] \in Columns
           /\ \A b \in BOOLEAN : [row EXCEPT !.archived = b] \in Columns
           /\ \A S \in SUBSET Stages : [row EXCEPT !.signed = S, !.version = @ + 1] \in Columns
<1>1. ASSUME NEW p \in StampedPatches, NEW n \in {0, 1}
      PROVE  [Merged(row, p) EXCEPT !.version = @ + n] \in Columns
  <2> DEFINE m == Merged(row, p)
  <2>1. PICK fields \in SUBSET {"section", "department", "status", "stamp"} :
           /\ DOMAIN p = fields /\ \A f \in fields : p[f] \in (IF f = "stamp" THEN BOOLEAN ELSE STRING)
    BY DEF StampedPatches
  <2>2. DOMAIN m = DOMAIN row /\ \A f \in DOMAIN row : m[f] = IF f \in DOMAIN p THEN p[f] ELSE row[f]
    BY DEF Merged
  <2>3. DOMAIN row = {"section", "department", "people", "status", "stamp", "version", "number", "signed", "archived"}
    BY DEF Columns
  <2>4. /\ m.section \in STRING /\ m.department \in STRING /\ m.status \in STRING /\ m.stamp \in BOOLEAN
    BY <2>1, <2>2, <2>3 DEF Columns
  <2>5. /\ m.people = row.people /\ m.version = row.version /\ m.number = row.number /\ m.signed = row.signed
        /\ m.archived = row.archived
    BY <2>1, <2>2, <2>3
  <2>6. m = [f \in DOMAIN row |-> m[f]]
    BY DEF Merged
  <2>7. m \in Columns
    BY <2>3, <2>4, <2>5, <2>6 DEF Columns
  <2> HIDE DEF m
  <2>8. [m EXCEPT !.version = @ + n] \in Columns
    BY <2>7 DEF Columns
  <2> QED BY <2>8 DEF m
<1>2. \A b \in BOOLEAN : [row EXCEPT !.archived = b] \in Columns
  BY DEF Columns
<1>3. ASSUME NEW S \in SUBSET Stages
      PROVE  [row EXCEPT !.signed = S, !.version = @ + 1] \in Columns
  <2>1. row.version + 1 \in Nat
    BY DEF Columns
  <2>2. ASSUME NEW n \in Nat PROVE [row EXCEPT !.signed = S, !.version = n] \in Columns
    BY DEF Columns
  <2>3. [row EXCEPT !.signed = S, !.version = @ + 1] = [row EXCEPT !.signed = S, !.version = row.version + 1]
    BY DEF Columns
  <2> QED BY <2>1, <2>2, <2>3
<1> QED BY <1>1, <1>2, <1>3

\* A row written, archived or signed is still there.
LEMMA RowWritten ==
    ASSUME NEW t, RegisterInv(t), NEW h \in Handlers, WriteRow(h) \/ ArchiveRow(h) \/ SignStage(h)
    PROVE  \/ rows' = rows
           \/ handlers[h].id \in Ids /\ \E r \in Columns : rows' = [rows EXCEPT ![handlers[h].id] = r]
<1> DEFINE id == handlers[h].id
           Written == rows' = rows \/ (id \in Ids /\ \E r \in Columns : rows' = [rows EXCEPT ![id] = r])
<1>1. /\ Legal(t, handlers[h]) /\ handlers[h].todo # <<>>
      /\ rows \in [RowIds -> Columns \cup {NoRow}]
  BY DEF RegisterInv, TablesHold, WriteRow, ArchiveRow, SignStage, Doing
<1>2. /\ Call(h) \in Calls
      /\ \A op \in RowOps : Doing(h, op) => id \in RowIds
  <2>1. \A op : Doing(h, op) => Call(h).op = op
    BY DEF Doing, Call
  <2> QED BY <2>1, <1>1, OnARow
<1>3. CASE WriteRow(h)
  <2>1. id \in RowIds /\ Call(h).patch \in StampedPatches /\ Call(h).touch \in {0, 1}
    BY <1>3, <1>2, CallFields DEF WriteRow, Doing, Call, RowOps
  <2>2. CASE rows[id] = NoRow
    BY <2>2, <1>3 DEF WriteRow
  <2>3. CASE rows[id] # NoRow
    <3>1. rows' = [rows EXCEPT ![id] = [Merged(rows[id], Call(h).patch) EXCEPT !.version = @ + Call(h).touch]]
      BY <2>3, <1>3 DEF WriteRow
    <3>2. rows[id] \in Columns /\ id \in Ids
      BY <1>1, <2>1, <2>3 DEF Ids
    <3>3. [Merged(rows[id], Call(h).patch) EXCEPT !.version = @ + Call(h).touch] \in Columns
      BY <2>1, <3>2, StillARow
    <3> QED BY <3>1, <3>2, <3>3
  <2> QED BY <2>2, <2>3
<1>4. CASE ArchiveRow(h)
  <2>1. Call(h).from \in BOOLEAN
    BY <1>4, <1>2, CallFields DEF ArchiveRow, Doing, Call
  <2>2. ASSUME id \in Ids, rows' = [rows EXCEPT ![id].archived = ~Call(h).from] PROVE Written
    <3>1. rows' = [rows EXCEPT ![id] = [rows[id] EXCEPT !.archived = ~Call(h).from]]
      BY <2>2
    <3>2. rows[id] \in Columns
      BY <1>1, <2>2 DEF Ids
    <3>3. (~Call(h).from) \in BOOLEAN
      BY <2>1
    <3> QED BY <2>2, <3>1, <3>2, <3>3, StillARow
  <2> QED BY <1>4, <2>2 DEF ArchiveRow
<1>5. CASE SignStage(h)
  <2>1. ASSUME id \in Ids, rows' = [rows EXCEPT ![id].signed = WithStage(handlers[h].saw, Call(h).stage), ![id].version = @ + 1]
        PROVE  Written
    <3> DEFINE S == WithStage(handlers[h].saw, Call(h).stage)
    <3>1. handlers[h].saw \in Columns /\ Call(h).stage \in Stages
      BY <1>5, <2>1, <1>2, CallFields DEF SignStage, Doing, Call, RegisterInv, SignsHold
    <3>2. S \in SUBSET Stages
      BY <3>1 DEF WithStage, Columns
    <3>3. id \in RowIds /\ rows[id] \in Columns
      BY <1>1, <2>1 DEF Ids
    <3> HIDE DEF S
    <3>4. rows' = [rows EXCEPT ![id].signed = S, ![id].version = @ + 1]
      BY <2>1 DEF S
    <3>5. rows' = [rows EXCEPT ![id] = [rows[id] EXCEPT !.signed = S, !.version = @ + 1]]
      BY <1>1, <3>3, <3>4
    <3>6. [rows[id] EXCEPT !.signed = S, !.version = @ + 1] \in Columns
      BY <3>2, <3>3, StillARow
    <3> QED BY <2>1, <3>5, <3>6
  <2> QED BY <1>5, <2>1 DEF SignStage
<1> QED BY <1>3, <1>4, <1>5

\* Which rows there are changes when one is stored, under an id nobody works on, and when one is dropped.
LEMMA RowsComeAndGo ==
    ASSUME NEW t, RegisterInv(t), NEW h \in Handlers, RegisterStep(h) \/ FormStep(h)
    PROVE  /\ InsertRow(h) \/ DropRow(h) \/ Ids' = Ids
           /\ \A g \in Handlers : handlers[g].id \notin Ids => handlers[g].id \notin Ids'
<1>1. rows \in [RowIds -> Columns \cup {NoRow}]
  BY DEF RegisterInv, TablesHold
<1>2. CASE InsertRow(h)
  <2>1. rows' = rows \/ \E k \in RowIds : (\A g \in Handlers : handlers[g].id # k) /\ rows' = [rows EXCEPT ![k] = Call(h).row]
    BY <1>2 DEF InsertRow
  <2> QED BY <2>1, <1>1, <1>2 DEF Ids
<1>3. CASE DropRow(h)
  BY <1>3, <1>1 DEF DropRow, Ids
<1>4. CASE WriteRow(h) \/ ArchiveRow(h) \/ SignStage(h)
  <2>1. \/ rows' = rows
        \/ handlers[h].id \in Ids /\ \E r \in Columns : rows' = [rows EXCEPT ![handlers[h].id] = r]
    BY <1>4, RowWritten
  <2> QED BY <2>1, <1>1, FormsAssumption DEF Ids
<1>5. CASE rows' = rows
  BY <1>5 DEF Ids
<1>6. WriteRow(h) \/ InsertRow(h) \/ DropRow(h) \/ ArchiveRow(h) \/ SignStage(h) \/ rows' = rows
  BY DEF RegisterStep, FormStep, FindRow, ClearItems, FillItems, FindOneItem, WriteOneItem, DropOneItem, ReadRows,
         ReadTheItems, CallFails, CheckNumber, LookForRevision, AddRevision, StoreFile, AttachFile, RemoveFile
<1> QED BY <1>2, <1>3, <1>4, <1>5, <1>6

LEMMA SignsStay ==
    ASSUME NEW t, RegisterInv(t), NEW h \in Handlers, StepsOn(h), RegisterStep(h) \/ FormStep(h)
    PROVE  SignsHold'
<1> SUFFICES ASSUME NEW g \in Handlers, Doing(g, "sign")'
             PROVE  handlers'[g].saw \in Columns \/ handlers'[g].id \notin Ids'
  BY DEF SignsHold
<1>1. CASE g # h
  <2>1. Doing(g, "sign") /\ handlers'[g].saw = handlers[g].saw /\ handlers'[g].id = handlers[g].id
    BY <1>1 DEF StepsOn, Same, Doing
  <2> QED BY <2>1, RowsComeAndGo DEF RegisterInv, SignsHold
<1>2. CASE g = h
  <2>1. Doing(h, "find") /\ handlers'[h].todo # <<>>
    BY <1>2, Heads DEF RegisterInv, TablesHold, StepsOn, Doing
  <2>2. FindRow(h)
    <3>1. ~CallFails(h)
      BY <2>1 DEF CallFails, Over, Goes, RegisterInv, TablesHold, HandlersHold, HandlerFields
    <3> QED BY <2>1, <3>1 DEF Doing, RegisterStep, FormStep, WriteRow, InsertRow, DropRow, ClearItems, FillItems, FindOneItem, WriteOneItem, DropOneItem,
         ReadRows, ReadTheItems, CheckNumber, LookForRevision, AddRevision, ArchiveRow, SignStage, StoreFile, AttachFile, RemoveFile
  <2>3. rows' = rows /\ handlers'[h].saw = rows[handlers[h].id] /\ handlers'[h].id = handlers[h].id
    BY <2>1, <2>2 DEF FindRow, On, Over, Goes, RegisterInv, TablesHold, HandlersHold, HandlerFields
  <2> QED BY <1>2, <2>3 DEF Ids, RegisterInv, TablesHold
<1> QED BY <1>1, <1>2

LEMMA TablesStay ==
    ASSUME NEW t, RegisterInv(t), NEW h \in Handlers, StepsOn(h), RegisterStep(h) \/ FormStep(h)
    PROVE  TablesHold(t)'
<1> DEFINE id == handlers[h].id
<1>1. /\ table = t /\ Legal(t, handlers[h]) /\ handlers[h].todo # <<>>
      /\ rows \in [RowIds -> Columns \cup {NoRow}] /\ DOMAIN saved = RowIds /\ torn \subseteq RowIds
      /\ arrived \in 0 .. MaxHandlers /\ refused \in 0 .. MaxRefused
  BY DEF RegisterInv, TablesHold, StepsOn, Progress
<1>2. /\ Call(h) \in Calls
      /\ \A op \in RowOps : Doing(h, op) => id \in RowIds
      /\ \A op \in ItemOps : Doing(h, op) => handlers[h].item.parent \in RowIds
  <2>1. \A op : Doing(h, op) => Call(h).op = op
    BY DEF Doing, Call
  <2> QED BY <2>1, <1>1, OnARow
<1>3. table' = table /\ arrived' = arrived
  BY DEF RegisterStep, FormStep, FindRow, WriteRow, InsertRow, DropRow, ClearItems, FillItems, FindOneItem,
         WriteOneItem, DropOneItem, ReadRows, ReadTheItems, CallFails, CheckNumber, LookForRevision, AddRevision,
         ArchiveRow, SignStage, StoreFile, AttachFile, RemoveFile, Rest
<1>4. refused' = refused \/ (refused < MaxRefused /\ refused' = refused + 1)
  BY DEF RegisterStep, FormStep, FindRow, WriteRow, InsertRow, DropRow, ClearItems, FillItems, FindOneItem,
         WriteOneItem, DropOneItem, ReadRows, ReadTheItems, CallFails, CheckNumber, LookForRevision, AddRevision,
         ArchiveRow, SignStage, StoreFile, AttachFile, RemoveFile, Rest
<1>5. arrived' \in 0 .. MaxHandlers /\ refused' \in 0 .. MaxRefused
  BY <1>1, <1>3, <1>4, BoundsAssumption
<1>6. \A g \in Handlers : Legal(t, handlers'[g])
  <2>1. Legal(t, handlers'[h])
    BY <1>1, LegalStays DEF StepsOn
  <2>2. ASSUME NEW g \in Handlers \ {h} PROVE Legal(t, handlers'[g])
    <3>1. Legal(t, handlers[g])
      BY DEF RegisterInv, TablesHold
    <3>2. handlers'[g].todo = handlers[g].todo /\ handlers'[g].id = handlers[g].id /\ handlers'[g].item = handlers[g].item
      BY DEF StepsOn, Same
    <3> QED BY <3>1, <3>2 DEF Legal
  <2> QED BY <2>1, <2>2
<1>7. HandlersHold'
  BY DEF StepsOn
<1>8. rows' \in [RowIds -> Columns \cup {NoRow}]
  <2>1. ASSUME NEW k, NEW r \in Columns \cup {NoRow}, rows' = [rows EXCEPT ![k] = r]
        PROVE  rows' \in [RowIds -> Columns \cup {NoRow}]
    BY <1>1, <2>1
  <2>3. CASE InsertRow(h)
    <3>1. Call(h).row \in Columns
      BY <2>3, <1>2, CallFields DEF InsertRow, Doing, Call
    <3>2. rows' = rows \/ \E k \in RowIds : rows' = [rows EXCEPT ![k] = Call(h).row]
      BY <2>3 DEF InsertRow
    <3> QED BY <3>1, <3>2, <2>1, <1>1
  <2>4. CASE DropRow(h)
    BY <2>4, <2>1 DEF DropRow
  <2>7. ASSUME WriteRow(h) \/ ArchiveRow(h) \/ SignStage(h) PROVE rows' \in [RowIds -> Columns \cup {NoRow}]
    <3>1. rows' = rows \/ \E k \in RowIds, r \in Columns : rows' = [rows EXCEPT ![k] = r]
      BY <2>7, RowWritten DEF Ids
    <3> QED BY <3>1, <1>1, <2>1
  <2>8. WriteRow(h) \/ InsertRow(h) \/ DropRow(h) \/ ArchiveRow(h) \/ SignStage(h) \/ rows' = rows
    BY DEF RegisterStep, FormStep, FindRow, ClearItems, FillItems, FindOneItem, WriteOneItem, DropOneItem, ReadRows,
           ReadTheItems, CallFails, CheckNumber, LookForRevision, AddRevision, StoreFile, AttachFile, RemoveFile
  <2> QED BY <2>3, <2>4, <2>7, <2>8, <1>1
<1>9. DOMAIN saved' = RowIds
  <2>1. saved' = saved \/ \E k, S : saved' = [saved EXCEPT ![k] = S]
    BY DEF RegisterStep, FormStep, FindRow, WriteRow, InsertRow, DropRow, ClearItems, FillItems, FindOneItem,
         WriteOneItem, DropOneItem, ReadRows, ReadTheItems, CallFails, CheckNumber, LookForRevision, AddRevision,
         ArchiveRow, SignStage, StoreFile, AttachFile, RemoveFile
  <2> QED BY <2>1, <1>1
<1>10. torn' \subseteq RowIds
  <2>1. ASSUME Tear(h, id), id \in RowIds PROVE torn' \subseteq RowIds
    BY <2>1, <1>1 DEF Tear
  <2>2. CASE ClearItems(h)
    BY <2>2, <2>1, <1>2 DEF ClearItems, RowOps
  <2>3. CASE FillItems(h)
    BY <2>3, <2>1, <1>1, <1>2 DEF FillItems, RowOps
  <2>4. CASE DropOneItem(h)
    BY <2>4, <1>1, <1>2 DEF DropOneItem, Tear, ItemOps
  <2>5. CASE SignStage(h)
    BY <2>5, <1>1, <1>2 DEF SignStage, RowOps
  <2>6. CASE CallFails(h)
    BY <2>6, <1>1, <1>2 DEF CallFails, RowOps
  <2>7. CASE InsertRow(h)
    BY <2>7, <1>1 DEF InsertRow
  <2>8. ClearItems(h) \/ FillItems(h) \/ DropOneItem(h) \/ SignStage(h) \/ CallFails(h) \/ InsertRow(h) \/ torn' = torn
    BY DEF RegisterStep, FormStep, FindRow, WriteRow, DropRow, FindOneItem, WriteOneItem, ReadRows, ReadTheItems,
         CheckNumber, LookForRevision, AddRevision, ArchiveRow, StoreFile, AttachFile, RemoveFile
  <2> QED BY <2>2, <2>3, <2>4, <2>5, <2>6, <2>7, <2>8, <1>1
<1> HIDE DEF id
<1> QED BY <1>1, <1>3, <1>5, <1>6, <1>7, <1>8, <1>9, <1>10 DEF TablesHold

\* The others store their lists as they would have; who has just cleared or stored a row is looked at alone.
LEMMA FillsStay ==
    ASSUME NEW t, RegisterInv(t), NEW h \in Handlers, StepsOn(h), torn \subseteq torn',
           \A g \in Handlers \ {h} : Doing(g, "fill") /\ handlers[g].id \notin torn'
                                     => {i \in items' : i.parent = handlers[g].id} = {},
           (Doing(h, "clear") \/ Doing(h, "insert")) /\ handlers'[h].todo # <<>>
               => {i \in items' : i.parent = handlers'[h].id} = {}
    PROVE  FillsHold'
<1> SUFFICES ASSUME NEW g \in Handlers, Doing(g, "fill")', handlers'[g].id \notin torn'
             PROVE  {i \in items' : i.parent = handlers'[g].id} = {}
  BY DEF FillsHold, ItemsOf
<1>1. CASE g = h
  BY <1>1, Heads DEF RegisterInv, TablesHold, StepsOn, Doing
<1>2. CASE g # h
  <2>1. Doing(g, "fill") /\ handlers[g].id = handlers'[g].id
    BY <1>2 DEF StepsOn, Same, Doing
  <2> QED BY <1>2, <2>1
<1> QED BY <1>1, <1>2

\* Where the handlers are after a write.
LEMMA WroteOn ==
    ASSUME HandlersHold, NEW h \in Handlers, handlers' = Missed(h, On(h))
    PROVE  handlers'[h].id = handlers[h].id /\ handlers'[h].todo = Tail(handlers[h].todo)
BY DEF HandlersHold, HandlerFields, Missed, On, Goes

\* A list may be stored by another handler at the same time only when the row is torn for it.
LEMMA TornForOthers ==
    ASSUME NEW t, RegisterInv(t), NEW h \in Handlers, NEW id, Tear(h, id)
    PROVE  /\ torn \subseteq torn'
           /\ \A g \in Handlers \ {h} : handlers[g].id = id /\ Doing(g, "fill") => id \in torn'
<1>1. torn \subseteq torn'
  BY DEF Tear
<1>2. ASSUME NEW g \in Handlers \ {h}, handlers[g].id = id, Doing(g, "fill") PROVE id \in torn'
  <2>1. handlers[g].todo \in Seq(Calls) /\ handlers[g].todo # <<>>
    BY <1>2 DEF Doing, RegisterInv, TablesHold, Legal, Shape
  <2>2. 1 \in 1 .. Len(handlers[g].todo) /\ handlers[g].todo[1].op = "fill"
    BY <1>2, <2>1, TailIs DEF Doing
  <2>3. WritesItems(g)
    BY <2>1, <2>2 DEF WritesItems
  <2> QED BY <1>2, <2>3 DEF Tear
<1> QED BY <1>1, <1>2

LEMMA DropStays ==
    ASSUME NEW t, RegisterInv(t), NEW h \in Handlers, StepsOn(h), DropRow(h)
    PROVE  ItemsHold' /\ FillsHold' /\ SavesHold'
<1> DEFINE id == handlers[h].id
<1>1. /\ rows' = [rows EXCEPT ![id] = NoRow] /\ saved' = [saved EXCEPT ![id] = {}]
      /\ items' = {i \in items : i.parent # id} /\ torn' = torn /\ Doing(h, "drop")
  BY DEF DropRow, ItemsOf
<1>2. /\ rows \in [RowIds -> Columns \cup {NoRow}] /\ DOMAIN saved = RowIds
  BY DEF RegisterInv, TablesHold
<1>3. Ids' = Ids \ {id}
  BY <1>1, <1>2 DEF Ids
<1>4. ItemsHold'
  <2>1. \A i \in items' : DOMAIN i = ItemFields /\ i.parent \in Ids'
    BY <1>1, <1>3 DEF RegisterInv, ItemsHold
  <2>2. \A k \in RowIds \ Ids' : saved'[k] = {}
    BY <1>1, <1>2, <1>3 DEF RegisterInv, ItemsHold
  <2> QED BY <2>1, <2>2 DEF ItemsHold
<1>5. SavesHold'
  <2> SUFFICES ASSUME NEW k \in Ids', k \notin torn' PROVE Pairs(k)' = saved'[k]
    BY DEF SavesHold
  <2>1. k # id /\ k \in Ids /\ k \notin torn /\ k \in RowIds
    BY <1>1, <1>3 DEF Ids
  <2>2. ItemsOf(k)' = ItemsOf(k)
    BY <1>1, <2>1 DEF ItemsOf
  <2>3. Pairs(k)' = Pairs(k)
    BY <2>2 DEF Pairs
  <2> QED BY <2>1, <2>3, <1>1, <1>2 DEF RegisterInv, SavesHold
<1>6. FillsHold'
  <2>1. ~Doing(h, "clear") /\ ~Doing(h, "insert")
    BY <1>1 DEF Doing
  <2>2. \A g \in Handlers \ {h} : Doing(g, "fill") /\ handlers[g].id \notin torn'
                                  => {i \in items' : i.parent = handlers[g].id} = {}
    BY <1>1 DEF RegisterInv, FillsHold, ItemsOf
  <2> QED BY <1>1, <2>1, <2>2, FillsStay
<1> QED BY <1>4, <1>5, <1>6

LEMMA ClearStays ==
    ASSUME NEW t, RegisterInv(t), NEW h \in Handlers, StepsOn(h), ClearItems(h)
    PROVE  ItemsHold' /\ FillsHold' /\ SavesHold'
<1> DEFINE id == handlers[h].id
<1>1. /\ rows' = rows /\ saved' = [saved EXCEPT ![id] = {}]
      /\ items' = {i \in items : i.parent # id} /\ Tear(h, id) /\ Doing(h, "clear") /\ handlers' = Missed(h, On(h))
  BY DEF ClearItems, ItemsOf
<1>2. /\ DOMAIN saved = RowIds /\ HandlersHold /\ torn \subseteq torn' /\ Ids' = Ids
  BY <1>1, TornForOthers DEF RegisterInv, TablesHold, Ids
<1>4. ItemsHold'
  <2>1. \A i \in items' : DOMAIN i = ItemFields /\ i.parent \in Ids'
    BY <1>1, <1>2 DEF RegisterInv, ItemsHold
  <2>2. \A k \in RowIds \ Ids' : saved'[k] = {}
    BY <1>1, <1>2 DEF RegisterInv, ItemsHold
  <2> QED BY <2>1, <2>2 DEF ItemsHold
<1>5. SavesHold'
  <2> SUFFICES ASSUME NEW k \in Ids', k \notin torn' PROVE Pairs(k)' = saved'[k]
    BY DEF SavesHold
  <2>1. k \in Ids /\ k \notin torn /\ k \in RowIds
    BY <1>2 DEF Ids
  <2>2. CASE k # id
    <3>1. ItemsOf(k)' = ItemsOf(k)
      BY <1>1, <2>2 DEF ItemsOf
    <3>2. Pairs(k)' = Pairs(k)
      BY <3>1 DEF Pairs
    <3> QED BY <2>1, <2>2, <3>2, <1>1, <1>2 DEF RegisterInv, SavesHold
  <2>3. CASE k = id
    <3>1. ItemsOf(k)' = {}
      BY <1>1, <2>3 DEF ItemsOf
    <3>2. Pairs(k)' = {}
      BY <3>1 DEF Pairs
    <3> QED BY <2>1, <2>3, <3>2, <1>1, <1>2
  <2> QED BY <2>2, <2>3
<1>6. FillsHold'
  <2>1. {i \in items' : i.parent = handlers'[h].id} = {}
    BY <1>1, <1>2, WroteOn
  <2>2. \A g \in Handlers \ {h} : Doing(g, "fill") /\ handlers[g].id \notin torn'
                                  => {i \in items' : i.parent = handlers[g].id} = {}
    BY <1>1, <1>2 DEF RegisterInv, FillsHold, ItemsOf
  <2> QED BY <1>2, <2>1, <2>2, FillsStay
<1> QED BY <1>4, <1>5, <1>6

LEMMA InsertStays ==
    ASSUME NEW t, RegisterInv(t), NEW h \in Handlers, StepsOn(h), InsertRow(h)
    PROVE  ItemsHold' /\ FillsHold' /\ SavesHold'
<1>1. CASE handlers' = Over(h) /\ rows' = rows /\ torn' = torn
  <2>1. handlers'[h].todo = <<>> /\ items' = items /\ saved' = saved /\ Ids' = Ids
    BY <1>1 DEF InsertRow, Over, Goes, RegisterInv, TablesHold, HandlersHold, HandlerFields, Ids
  <2> QED BY <1>1, <2>1, QuietStep
<1>2. ASSUME NEW id \in RowIds \ Ids, \A g \in Handlers : handlers[g].id # id,
             rows' = [rows EXCEPT ![id] = Call(h).row], handlers' = Missed(h, [On(h) EXCEPT ![h].id = id]),
             torn' = torn \ {id}
      PROVE  ItemsHold' /\ FillsHold' /\ SavesHold'
  <2>1. items' = items /\ saved' = saved /\ handlers'[h].id = id
    BY <1>2 DEF InsertRow, On, Goes, Missed, RegisterInv, TablesHold, HandlersHold, HandlerFields
  <2>2. Ids \subseteq Ids' /\ Ids' \subseteq Ids \cup {id} /\ id \notin Ids /\ Ids' \subseteq RowIds
    BY <1>2 DEF Ids, RegisterInv, TablesHold
  <2>3. ItemsOf(id) = {} /\ saved[id] = {}
    BY <1>2 DEF RegisterInv, ItemsHold, ItemsOf
  <2>4. ItemsHold'
    <3>1. \A i \in items' : DOMAIN i = ItemFields /\ i.parent \in Ids'
      BY <2>1, <2>2 DEF RegisterInv, ItemsHold
    <3>2. \A k \in RowIds \ Ids' : saved'[k] = {}
      BY <2>1, <2>2 DEF RegisterInv, ItemsHold
    <3> QED BY <3>1, <3>2 DEF ItemsHold
  <2>5. SavesHold'
    <3> SUFFICES ASSUME NEW k \in Ids', k \notin torn' PROVE Pairs(k)' = saved'[k]
      BY DEF SavesHold
    <3>1. Pairs(k)' = Pairs(k) /\ saved'[k] = saved[k]
      BY <2>1 DEF Pairs, ItemsOf
    <3>2. CASE k = id
      BY <3>1, <3>2, <2>3 DEF Pairs
    <3>3. CASE k # id
      BY <3>1, <3>3, <1>2, <2>2 DEF RegisterInv, SavesHold
    <3> QED BY <3>2, <3>3
  <2>6. FillsHold'
    <3> SUFFICES ASSUME NEW g \in Handlers, Doing(g, "fill")', handlers'[g].id \notin torn'
                 PROVE  {i \in items' : i.parent = handlers'[g].id} = {}
      BY DEF FillsHold, ItemsOf
    <3>1. CASE g = h
      BY <3>1, <2>1, <2>3 DEF ItemsOf
    <3>2. CASE g # h
      <4>1. Doing(g, "fill") /\ handlers[g].id = handlers'[g].id
        BY <3>2 DEF StepsOn, Same, Doing
      <4> QED BY <4>1, <1>2, <2>1 DEF RegisterInv, FillsHold, ItemsOf
    <3> QED BY <3>1, <3>2
  <2> QED BY <2>4, <2>5, <2>6
<1> QED BY <1>1, <1>2 DEF InsertRow

\* Items that join those of a row.
LEMMA ItemsJoin ==
    ASSUME NEW t, RegisterInv(t), NEW h \in Handlers, StepsOn(h), NEW id \in Ids, NEW new, NEW S,
           rows' = rows, items' = items \cup new, saved' = [saved EXCEPT ![id] = S], torn \subseteq torn',
           \A i \in new : DOMAIN i = ItemFields /\ i.parent = id,
           id \notin torn' => Pairs(id) \cup {[name |-> i.name, by |-> i.by] : i \in new} = S,
           \A g \in Handlers \ {h} : handlers[g].id = id /\ Doing(g, "fill") => id \in torn',
           ~Doing(h, "clear") /\ ~Doing(h, "insert")
    PROVE  ItemsHold' /\ FillsHold' /\ SavesHold'
<1>1. Ids' = Ids /\ DOMAIN saved = RowIds /\ Ids \subseteq RowIds
  BY DEF RegisterInv, TablesHold, Ids
<1>2. ItemsHold'
  <2>1. \A i \in items' : DOMAIN i = ItemFields /\ i.parent \in Ids'
    BY <1>1 DEF RegisterInv, ItemsHold
  <2>2. \A k \in RowIds \ Ids' : saved'[k] = {}
    BY <1>1 DEF RegisterInv, ItemsHold
  <2> QED BY <2>1, <2>2 DEF ItemsHold
<1>3. SavesHold'
  <2> SUFFICES ASSUME NEW k \in Ids, k \notin torn' PROVE Pairs(k)' = saved'[k]
    BY <1>1 DEF SavesHold
  <2>1. CASE k # id
    <3>1. ItemsOf(k)' = ItemsOf(k)
      BY <2>1 DEF ItemsOf
    <3>2. Pairs(k)' = Pairs(k)
      BY <3>1 DEF Pairs
    <3> QED BY <3>2, <2>1, <1>1 DEF RegisterInv, SavesHold
  <2>2. CASE k = id
    <3>1. ItemsOf(id)' = ItemsOf(id) \cup new
      BY DEF ItemsOf
    <3>2. Pairs(id)' = Pairs(id) \cup {[name |-> i.name, by |-> i.by] : i \in new}
      BY <3>1 DEF Pairs
    <3> QED BY <2>2, <3>2, <1>1
  <2> QED BY <2>1, <2>2
<1>4. FillsHold'
  <2>1. ASSUME NEW g \in Handlers \ {h}, Doing(g, "fill"), handlers[g].id \notin torn'
        PROVE  {i \in items' : i.parent = handlers[g].id} = {}
    <3>1. handlers[g].id # id
      BY <2>1
    <3>2. ItemsOf(handlers[g].id) = {}
      BY <2>1 DEF RegisterInv, FillsHold
    <3> QED BY <3>1, <3>2 DEF ItemsOf
  <2> QED BY <2>1, FillsStay
<1> QED BY <1>2, <1>3, <1>4

LEMMA FillStays ==
    ASSUME NEW t, RegisterInv(t), NEW h \in Handlers, StepsOn(h), FillItems(h)
    PROVE  ItemsHold' /\ FillsHold' /\ SavesHold'
<1> DEFINE id == handlers[h].id
           names == {[name |-> n, by |-> <<h, arrived>>] : n \in Call(h).names}
           new == {[parent |-> id, name |-> n.name, section |-> Call(h).section, by |-> n.by] : n \in names}
<1>1. /\ rows' = rows /\ handlers[h].todo # <<>> /\ Legal(t, handlers[h]) /\ rows \in [RowIds -> Columns \cup {NoRow}]
      /\ DOMAIN saved = RowIds /\ (Doing(h, "fill") \/ Doing(h, "add")) /\ ~Doing(h, "clear") /\ ~Doing(h, "insert")
  BY DEF FillItems, RegisterInv, TablesHold, Doing
<1>2. id \in RowIds
  <2>1. Call(h).op \in {"fill", "add"}
    BY <1>1 DEF Doing, Call
  <2> QED BY <2>1, <1>1, OnARow DEF RowOps
<1>3. CASE rows[id] = NoRow
  <2>1. items' = items /\ saved' = saved /\ torn' = torn /\ Ids' = Ids
    BY <1>1, <1>3 DEF FillItems, Ids
  <2> QED BY <1>1, <2>1, QuietStep
<1>4. CASE rows[id] # NoRow
  <2>1. /\ items' = items \cup new /\ Tear(h, id)
        /\ saved' = [saved EXCEPT ![id] = IF Doing(h, "add") THEN @ \cup names ELSE names]
    BY <1>4 DEF FillItems
  <2>2. /\ torn \subseteq torn' /\ \A g \in Handlers \ {h} : handlers[g].id = id /\ Doing(g, "fill") => id \in torn'
    BY <2>1, TornForOthers
  <2>3. \A i \in new : DOMAIN i = ItemFields /\ i.parent = id
    BY DEF ItemFields
  <2>4. {[name |-> i.name, by |-> i.by] : i \in new} = names
    <3>1. ASSUME NEW n \in names
          PROVE  \E i \in new : n = [name |-> i.name, by |-> i.by]
      <4> DEFINE i == [parent |-> id, name |-> n.name, section |-> Call(h).section, by |-> n.by]
      <4>1. i \in new /\ i.name = n.name /\ i.by = n.by
        OBVIOUS
      <4>2. n = [name |-> n.name, by |-> n.by]
        OBVIOUS
      <4> HIDE DEF i, new, names
      <4> QED BY <4>1, <4>2
    <3>2. ASSUME NEW i \in new
          PROVE  [name |-> i.name, by |-> i.by] \in names
      <4>1. PICK n \in names : i.name = n.name /\ i.by = n.by
        OBVIOUS
      <4>2. n = [name |-> n.name, by |-> n.by]
        OBVIOUS
      <4> HIDE DEF new, names
      <4> QED BY <4>1, <4>2
    <3> HIDE DEF new, names
    <3> QED BY <3>1, <3>2
  <2>5. id \in Ids
    BY <1>2, <1>4 DEF Ids
  <2> HIDE DEF names, new, id
  <2>6. CASE Doing(h, "add")
    <3>1. saved' = [saved EXCEPT ![id] = saved[id] \cup names]
      BY <2>1, <2>6
    <3>2. id \notin torn' => Pairs(id) \cup {[name |-> i.name, by |-> i.by] : i \in new} = saved[id] \cup names
      BY <2>2, <2>4, <2>5 DEF RegisterInv, SavesHold
    <3> QED BY <1>1, <2>1, <2>2, <2>3, <2>5, <3>1, <3>2, ItemsJoin
  <2>7. CASE ~Doing(h, "add")
    <3>1. saved' = [saved EXCEPT ![id] = names] /\ Doing(h, "fill")
      BY <1>1, <2>1, <2>7
    <3>2. id \notin torn' => Pairs(id) = {}
      BY <2>2, <3>1 DEF RegisterInv, FillsHold, Pairs, id
    <3>3. id \notin torn' => Pairs(id) \cup {[name |-> i.name, by |-> i.by] : i \in new} = names
      BY <2>4, <3>2
    <3> QED BY <1>1, <2>1, <2>2, <2>3, <2>5, <3>1, <3>3, ItemsJoin
  <2> QED BY <2>6, <2>7
<1> QED BY <1>3, <1>4

\* The tables whose handlers number revisions or attach files never store a list.
LEMMA NoListsThere ==
    ASSUME NEW t, RegisterInv(t), NEW h \in Handlers, Doing(h, "revise") \/ Doing(h, "attach")
    PROVE  /\ t = (IF Doing(h, "revise") THEN "sop_documents" ELSE "services")
           /\ \A g \in Handlers : ~Doing(g, "fill")
<1>1. \A g \in Handlers : Legal(t, handlers[g])
  BY DEF RegisterInv, TablesHold
<1>2. \A g \in Handlers : handlers[g].todo # <<>> => Head(handlers[g].todo).op \in OpsOf(t)
  BY <1>1, OnARow DEF Call
<1> QED BY <1>2 DEF Doing, OpsOf, SaveOps

LEMMA ReviseStays ==
    ASSUME NEW t, RegisterInv(t), NEW h \in Handlers, StepsOn(h), AddRevision(h)
    PROVE  ItemsHold' /\ FillsHold' /\ SavesHold'
<1> DEFINE id == handlers[h].id
           next == _next_revision_number(h)
           new == {[parent |-> id, name |-> next, section |-> Blank, by |-> <<h, arrived>>]}
<1>1. rows' = rows /\ torn' = torn /\ Doing(h, "revise") /\ ~Doing(h, "clear") /\ ~Doing(h, "insert")
  BY DEF AddRevision, Doing
<1>2. CASE items' = items /\ saved' = saved
  BY <1>1, <1>2, QuietStep DEF Ids
<1>3. CASE id \in Ids /\ items' = items \cup new /\ saved' = [saved EXCEPT ![id] = @ \cup Pair(next, h)]
  <2>1. {[name |-> i.name, by |-> i.by] : i \in new} = Pair(next, h)
    BY DEF Pair
  <2>2. \A i \in new : DOMAIN i = ItemFields /\ i.parent = id
    BY DEF ItemFields
  <2> HIDE DEF new, next, id
  <2>3. saved' = [saved EXCEPT ![id] = saved[id] \cup Pair(next, h)]
    BY <1>3
  <2>4. id \notin torn' => Pairs(id) \cup {[name |-> i.name, by |-> i.by] : i \in new} = saved[id] \cup Pair(next, h)
    BY <1>1, <1>3, <2>1 DEF RegisterInv, SavesHold
  <2> QED BY <1>1, <1>3, <2>2, <2>3, <2>4, ItemsJoin, NoListsThere
<1> QED BY <1>2, <1>3 DEF AddRevision

LEMMA AttachStays ==
    ASSUME NEW t, RegisterInv(t), NEW h \in Handlers, StepsOn(h), AttachFile(h)
    PROVE  ItemsHold' /\ FillsHold' /\ SavesHold'
<1> DEFINE id == handlers[h].id
           new == {[parent |-> id, name |-> n, section |-> Blank, by |-> <<h, arrived>>] : n \in handlers[h].new}
           pairs == UNION {Pair(n, h) : n \in handlers[h].new}
<1>1. rows' = rows /\ torn' = torn /\ Doing(h, "attach") /\ ~Doing(h, "clear") /\ ~Doing(h, "insert")
  BY DEF AttachFile, Doing
<1>2. CASE items' = items /\ saved' = saved
  BY <1>1, <1>2, QuietStep DEF Ids
<1>3. CASE id \in Ids /\ items' = items \cup new /\ saved' = [saved EXCEPT ![id] = @ \cup pairs]
  <2>1. {[name |-> i.name, by |-> i.by] : i \in new} = pairs
    <3>1. ASSUME NEW n \in handlers[h].new
          PROVE  \E i \in new : [name |-> n, by |-> <<h, arrived>>] = [name |-> i.name, by |-> i.by]
      <4> DEFINE i == [parent |-> id, name |-> n, section |-> Blank, by |-> <<h, arrived>>]
      <4>1. i \in new /\ i.name = n /\ i.by = <<h, arrived>>
        OBVIOUS
      <4> HIDE DEF i, new
      <4> QED BY <4>1
    <3>2. ASSUME NEW i \in new
          PROVE  \E n \in handlers[h].new : [name |-> i.name, by |-> i.by] = [name |-> n, by |-> <<h, arrived>>]
      <4>1. PICK n \in handlers[h].new : i.name = n /\ i.by = <<h, arrived>>
        OBVIOUS
      <4> HIDE DEF new
      <4> QED BY <4>1
    <3>3. \A p : p \in pairs <=> \E n \in handlers[h].new : p = [name |-> n, by |-> <<h, arrived>>]
      BY DEF Pair
    <3> HIDE DEF new, pairs
    <3>4. ASSUME NEW i \in new PROVE [name |-> i.name, by |-> i.by] \in pairs
      BY <3>2, <3>3
    <3>5. ASSUME NEW p \in pairs PROVE \E i \in new : p = [name |-> i.name, by |-> i.by]
      <4>1. PICK n \in handlers[h].new : p = [name |-> n, by |-> <<h, arrived>>]
        BY <3>3, <3>5
      <4> QED BY <3>1, <4>1
    <3> QED BY <3>4, <3>5
  <2>2. \A i \in new : DOMAIN i = ItemFields /\ i.parent = id
    BY DEF ItemFields
  <2> HIDE DEF new, pairs, id
  <2>3. saved' = [saved EXCEPT ![id] = saved[id] \cup pairs]
    BY <1>3
  <2>4. id \notin torn' => Pairs(id) \cup {[name |-> i.name, by |-> i.by] : i \in new} = saved[id] \cup pairs
    BY <1>1, <1>3, <2>1 DEF RegisterInv, SavesHold
  <2> QED BY <1>1, <1>3, <2>2, <2>3, <2>4, ItemsJoin, NoListsThere
<1> QED BY <1>2, <1>3 DEF AttachFile

LEMMA WriteItemStays ==
    ASSUME NEW t, RegisterInv(t), NEW h \in Handlers, StepsOn(h), WriteOneItem(h)
    PROVE  ItemsHold' /\ FillsHold' /\ SavesHold'
<1> DEFINE found == Stored(handlers[h].item)
           written == {[item EXCEPT !.section = Call(h).section] : item \in found}
<1>1. rows' = rows /\ saved' = saved /\ torn' = torn /\ Ids' = Ids /\ ~Doing(h, "clear") /\ ~Doing(h, "insert")
  BY DEF WriteOneItem, Doing, Ids
<1>2. CASE items' = items
  BY <1>1, <1>2, QuietStep
<1>3. CASE items' = (items \ found) \cup written
  <2>1. \A i \in items : DOMAIN i = ItemFields /\ i.parent \in Ids
    BY DEF RegisterInv, ItemsHold
  <2>2. found \subseteq items
    BY DEF Stored
  <2>3. ASSUME NEW i \in found
        PROVE  LET w == [i EXCEPT !.section = Call(h).section]
               IN  DOMAIN w = ItemFields /\ w.parent = i.parent /\ w.name = i.name /\ w.by = i.by /\ w \in items'
    BY <1>3, <2>1, <2>2 DEF ItemFields
  <2>4. \A w \in items' : \E i \in items : /\ DOMAIN w = ItemFields /\ w.parent = i.parent /\ w.name = i.name /\ w.by = i.by
    <3> SUFFICES ASSUME NEW w \in items'
                 PROVE  \E i \in items : /\ DOMAIN w = ItemFields /\ w.parent = i.parent
                                         /\ w.name = i.name /\ w.by = i.by
      OBVIOUS
    <3>1. CASE w \in items
      BY <3>1, <2>1
    <3>2. CASE w \notin items
      <4>1. PICK i \in found : w = [i EXCEPT !.section = Call(h).section]
        BY <1>3, <3>2
      <4> QED BY <4>1, <2>2, <2>3
    <3> QED BY <3>1, <3>2
  <2>5. \A i \in items : \E w \in items' : w.parent = i.parent /\ w.name = i.name /\ w.by = i.by
    BY <1>3, <2>2, <2>3
  <2> HIDE DEF found, written
  <2>6. ItemsHold'
    <3>1. \A i \in items' : DOMAIN i = ItemFields /\ i.parent \in Ids'
      BY <1>1, <2>1, <2>4
    <3>2. \A k \in RowIds \ Ids' : saved'[k] = {}
      BY <1>1 DEF RegisterInv, ItemsHold
    <3> QED BY <3>1, <3>2 DEF ItemsHold
  <2>7. \A k : Pairs(k)' = Pairs(k)
    BY <2>4, <2>5 DEF Pairs, ItemsOf
  <2>8. SavesHold'
    BY <1>1, <2>7 DEF RegisterInv, SavesHold
  <2>9. \A k : ItemsOf(k) = {} => {i \in items' : i.parent = k} = {}
    BY <2>4 DEF ItemsOf
  <2>10. FillsHold'
    BY <1>1, <2>9, FillsStay DEF RegisterInv, FillsHold
  <2> QED BY <2>6, <2>8, <2>10
<1> QED BY <1>2, <1>3 DEF WriteOneItem

LEMMA DropItemStays ==
    ASSUME NEW t, RegisterInv(t), NEW h \in Handlers, StepsOn(h), DropOneItem(h)
    PROVE  ItemsHold' /\ FillsHold' /\ SavesHold'
<1> DEFINE item == handlers[h].item
           pair == [name |-> item.name, by |-> item.by]
<1>1. /\ rows' = rows /\ Tear(h, item.parent) /\ Ids' = Ids /\ ~Doing(h, "clear") /\ ~Doing(h, "insert")
      /\ items' = items \ Stored(item) /\ DOMAIN saved = RowIds
  BY DEF DropOneItem, Doing, Ids, RegisterInv, TablesHold
<1>2. torn \subseteq torn'
  BY <1>1, TornForOthers
<1>3. CASE Stored(item) = {}
  <2>1. items' = items /\ saved' = saved
    BY <1>1, <1>3 DEF DropOneItem
  <2> QED BY <1>1, <1>2, <2>1, QuietStep
<1>4. CASE Stored(item) # {}
  <2>1. saved' = [saved EXCEPT ![item.parent] = @ \ {pair}]
    BY <1>4 DEF DropOneItem
  <2>2. ItemsHold'
    <3>1. \A i \in items' : DOMAIN i = ItemFields /\ i.parent \in Ids'
      BY <1>1 DEF RegisterInv, ItemsHold
    <3>2. \A k \in RowIds \ Ids' : saved'[k] = {}
      BY <1>1, <2>1 DEF RegisterInv, ItemsHold
    <3> QED BY <3>1, <3>2 DEF ItemsHold
  <2>3. SavesHold'
    <3> SUFFICES ASSUME NEW k \in Ids, k \notin torn' PROVE Pairs(k)' = saved'[k]
      BY <1>1 DEF SavesHold
    <3>1. k \in RowIds /\ Pairs(k) = saved[k]
      BY <1>2 DEF Ids, RegisterInv, SavesHold
    <3>2. CASE k # item.parent
      <4>1. ItemsOf(k)' = ItemsOf(k)
        BY <3>2, <1>1 DEF ItemsOf, Stored
      <4>2. Pairs(k)' = Pairs(k)
        BY <4>1 DEF Pairs
      <4> QED BY <3>1, <3>2, <4>2, <2>1
    <3>3. CASE k = item.parent
      <4>1. ItemsOf(k)' = {i \in ItemsOf(k) : ~(i.name = item.name /\ i.by = item.by)}
        BY <3>3, <1>1 DEF ItemsOf, Stored
      <4>2. \A i : [name |-> i.name, by |-> i.by] = pair <=> (i.name = item.name /\ i.by = item.by)
        OBVIOUS
      <4> HIDE DEF pair
      <4>3. Pairs(k)' = Pairs(k) \ {pair}
        BY <4>1, <4>2 DEF Pairs
      <4> QED BY <3>1, <3>3, <4>3, <1>1, <2>1
    <3> QED BY <3>2, <3>3
  <2>4. FillsHold'
    <3>1. \A g \in Handlers \ {h} : Doing(g, "fill") /\ handlers[g].id \notin torn'
                                    => {i \in items' : i.parent = handlers[g].id} = {}
      BY <1>1, <1>2 DEF RegisterInv, FillsHold, ItemsOf
    <3> QED BY <1>1, <1>2, <3>1, FillsStay
  <2> QED BY <2>2, <2>3, <2>4
<1> QED BY <1>3, <1>4

-----------------------------------------------------------------------------
(* The registers as a whole. *)

RegistersInit(t, fill, itemsOf) == RegisterInit(t, fill, itemsOf) /\ FormsInit
RegistersSpec(t, fill, itemsOf) == RegistersInit(t, fill, itemsOf) /\ [][FormsNext]_form_vars

\* Who makes no call changes nothing.
LEMMA ItemsStay ==
    ASSUME NEW t, RegisterInv(t), NEW h \in Handlers, RegisterStep(h) \/ FormStep(h)
    PROVE  RegisterInv(t)' /\ StepsOn(h)
<1>1. StepsOn(h)
  <2>1. HandlersHold /\ Shape(table, handlers[h].todo)
    BY DEF RegisterInv, TablesHold, Legal
  <2> QED BY <2>1, Effect
<1>2. TablesHold(t)' /\ SignsHold'
  BY <1>1, TablesStay, SignsStay
<1>3. ItemsHold' /\ FillsHold' /\ SavesHold'
  <2>1. CASE items' = items /\ saved' = saved /\ torn \subseteq torn' /\ ~InsertRow(h) /\ ~DropRow(h) /\ ~ClearItems(h)
    <3>1. Ids' = Ids
      BY <2>1, RowsComeAndGo
    <3>2. handlers'[h].todo = <<>> \/ (~Doing(h, "clear") /\ ~Doing(h, "insert"))
      <4>1. CASE CallFails(h)
        BY <4>1 DEF CallFails, Over, Goes, RegisterInv, TablesHold, HandlersHold, HandlerFields
      <4>2. CASE ~CallFails(h)
        BY <2>1, <4>2 DEF Doing, RegisterStep, FormStep, FindRow, WriteRow, FillItems, FindOneItem, WriteOneItem, DropOneItem,
           ReadRows, ReadTheItems, CheckNumber, LookForRevision, AddRevision, ArchiveRow, SignStage, StoreFile, AttachFile, RemoveFile
      <4> QED BY <4>1, <4>2
    <3> QED BY <1>1, <2>1, <3>1, <3>2, QuietStep
  <2>2. CASE InsertRow(h)
    BY <1>1, <2>2, InsertStays
  <2>3. CASE DropRow(h)
    BY <1>1, <2>3, DropStays
  <2>4. CASE ClearItems(h)
    BY <1>1, <2>4, ClearStays
  <2>5. CASE FillItems(h)
    BY <1>1, <2>5, FillStays
  <2>6. CASE WriteOneItem(h)
    BY <1>1, <2>6, WriteItemStays
  <2>7. CASE DropOneItem(h)
    BY <1>1, <2>7, DropItemStays
  <2>8. CASE AddRevision(h)
    BY <1>1, <2>8, ReviseStays
  <2>9. CASE AttachFile(h)
    BY <1>1, <2>9, AttachStays
  <2>10. InsertRow(h) \/ DropRow(h) \/ ClearItems(h) \/ FillItems(h) \/ WriteOneItem(h) \/ DropOneItem(h)
         \/ AddRevision(h) \/ AttachFile(h)
         \/ (items' = items /\ saved' = saved /\ torn \subseteq torn')
    BY DEF RegisterStep, FormStep, FindRow, WriteRow, FindOneItem, ReadRows, ReadTheItems, CallFails, CheckNumber,
           LookForRevision, ArchiveRow, SignStage, StoreFile, RemoveFile, Rest
  <2> QED BY <2>1, <2>2, <2>3, <2>4, <2>5, <2>6, <2>7, <2>8, <2>9, <2>10
<1> QED BY <1>1, <1>2, <1>3 DEF RegisterInv

\* A request has its calls before it, and none that goes on from another.
LEMMA RequestStays ==
    ASSUME NEW t, RegisterInv(t), NEW h \in Handlers, Comes(t, h)
    PROVE  /\ RegisterInv(t)'
           /\ \A g \in Handlers \ {h} : handlers'[g] = handlers[g]
           /\ handlers'[h].todo # <<>> => Head(handlers'[h].todo).op \notin Later
           /\ UNCHANGED <<table, rows, items, saved, torn, refused>>
<1> PICK kind, id, item, viewer, calls :
       /\ Arrive(h, kind, id, item, viewer, calls) /\ Starts(t, calls)
       /\ \/ JustReads(calls) \/ Stores(calls) \/ (id \in RowIds /\ OnRow(calls))
          \/ (item \in items /\ id = item.parent)
  BY DEF Comes
<1>1. /\ HandlersHold' /\ \A g \in Handlers \ {h} : handlers'[g] = handlers[g]
      /\ handlers'[h].todo = calls /\ handlers'[h].id = id /\ handlers'[h].item = item
      /\ UNCHANGED <<table, rows, items, saved, torn, refused>>
      /\ arrived' = arrived + 1 /\ arrived < MaxHandlers
  BY DEF Arrive, Awaits, Idle, RegisterInv, TablesHold, HandlersHold, HandlerFields
<1>2. calls # <<>> => Head(calls).op \notin Later
  BY TailIs DEF Starts, Shape
<1>3. HasRow(id, calls) /\ HasItem(item, calls)
  <2>1. item \in items => item.parent \in RowIds
    BY DEF RegisterInv, ItemsHold, Ids
  <2>2. calls \in Seq(Calls)
    BY DEF Starts, Shape
  <2>3. JustReads(calls) \/ Stores(calls) \/ (id \in RowIds /\ (OnRow(calls) \/ item.parent \in RowIds))
    BY <2>1
  <2> QED BY <2>2, <2>3, RowsAreKnown
<1>4. TablesHold(t)'
  <2>1. Legal(t, handlers'[h])
    BY <1>1, <1>3 DEF Legal, Starts
  <2>2. arrived' \in 0 .. MaxHandlers
    BY <1>1, BoundsAssumption DEF RegisterInv, TablesHold
  <2>3. \A g \in Handlers : Legal(t, handlers'[g])
    BY <1>1, <2>1 DEF RegisterInv, TablesHold
  <2> QED BY <1>1, <2>2, <2>3 DEF RegisterInv, TablesHold
<1>5. \A g \in Handlers : /\ Doing(g, "sign")' => g # h
                          /\ Doing(g, "fill")' => g # h
  BY <1>1, <1>2 DEF Doing, Later
<1>6. SignsHold'
  BY <1>1, <1>5 DEF RegisterInv, SignsHold, Doing, Ids
<1>7. FillsHold'
  BY <1>1, <1>5 DEF RegisterInv, FillsHold, Doing, ItemsOf
<1>8. ItemsHold'
  BY <1>1 DEF RegisterInv, ItemsHold, Ids
<1>9. SavesHold'
  BY <1>1 DEF RegisterInv, SavesHold, Pairs, ItemsOf, Ids
<1>10. RegisterInv(t)'
  BY <1>4, <1>6, <1>7, <1>8, <1>9 DEF RegisterInv
<1> QED BY <1>1, <1>2, <1>10

LEMMA RegistersStart ==
    ASSUME NEW t \in RegisterTables, NEW fill \in [RowIds -> Columns \cup {NoRow}], NEW itemsOf,
           RegistersInit(t, fill, itemsOf)
    PROVE  RegisterInv(t)
<1>1. /\ table = t /\ rows = fill /\ handlers = [h \in Handlers |-> Idle] /\ torn = {} /\ arrived = 0 /\ refused = 0
      /\ items = {[parent |-> id, name |-> n, section |-> fill[id].section, by |-> NoRow] :
                    id \in {id \in RowIds : fill[id] # NoRow}, n \in itemsOf}
      /\ saved = [id \in RowIds |-> {[name |-> n, by |-> NoRow] : n \in IF fill[id] # NoRow THEN itemsOf ELSE {}}]
  BY DEF RegistersInit, RegisterInit
<1>2. HandlersHold /\ \A h \in Handlers : handlers[h].todo = <<>>
  BY <1>1 DEF HandlersHold, HandlerFields, Idle
<1>3. \A h \in Handlers : Legal(t, handlers[h])
  <2>1. Len(<<>>) = 0 /\ <<>> \in Seq(Calls)
    BY EmptySeq
  <2>2. Shape(t, <<>>) /\ (\A id : HasRow(id, <<>>)) /\ (\A item : HasItem(item, <<>>))
    BY <2>1 DEF Shape, HasRow, HasItem
  <2> QED BY <1>2, <2>2 DEF Legal
<1>4. TablesHold(t)
  BY <1>1, <1>2, <1>3, BoundsAssumption DEF TablesHold
<1>5. SignsHold /\ FillsHold
  BY <1>2 DEF SignsHold, FillsHold, Doing
<1>6. ItemsHold
  <2>1. \A i \in items : DOMAIN i = ItemFields /\ i.parent \in Ids
    BY <1>1 DEF ItemFields, Ids
  <2>2. \A id \in RowIds \ Ids : saved[id] = {}
    BY <1>1 DEF Ids
  <2> QED BY <2>1, <2>2 DEF ItemsHold
<1>7. SavesHold
  <2> SUFFICES ASSUME NEW id \in Ids PROVE Pairs(id) = saved[id]
    BY DEF SavesHold
  <2>1. saved[id] = {[name |-> n, by |-> NoRow] : n \in itemsOf} /\ id \in RowIds /\ fill[id] # NoRow
    BY <1>1 DEF Ids
  <2>2. ASSUME NEW i \in ItemsOf(id) PROVE i.name \in itemsOf /\ i.by = NoRow
    BY <1>1 DEF ItemsOf
  <2>3. ASSUME NEW n \in itemsOf PROVE \E i \in ItemsOf(id) : i.name = n /\ i.by = NoRow
    <3> DEFINE i == [parent |-> id, name |-> n, section |-> fill[id].section, by |-> NoRow]
    <3>1. i \in items /\ i.parent = id /\ i.name = n /\ i.by = NoRow
      BY <1>1, <2>1
    <3> HIDE DEF i
    <3> QED BY <3>1 DEF ItemsOf
  <2> QED BY <2>1, <2>2, <2>3 DEF Pairs
<1> QED BY <1>4, <1>5, <1>6, <1>7 DEF RegisterInv

\* Every request and every call keeps the tables whole.
LEMMA RegistersStay ==
    ASSUME NEW t \in RegisterTables, RegisterInv(t), [FormsNext]_form_vars
    PROVE  RegisterInv(t)'
<1>0. table = t
  BY DEF RegisterInv, TablesHold
<1>1. CASE UNCHANGED form_vars
  BY <1>1 DEF form_vars, register_vars, RegisterInv, TablesHold, HandlersHold, SignsHold, ItemsHold, FillsHold, SavesHold,
     Pairs, ItemsOf, Ids, Doing
<1>2. ASSUME NEW h \in Handlers, RegisterStep(h) \/ FormStep(h) PROVE RegisterInv(t)'
  BY <1>2, ItemsStay
<1>3. ASSUME NEW h \in Handlers,
             \/ t \notin FormTables /\ (Request(h) \/ RequestOnItem(h))
             \/ t \in FormTables /\ FormRequest(h)
      PROVE  RegisterInv(t)'
  BY <1>0, <1>3, Requests, RequestStays
<1> QED BY <1>0, <1>1, <1>2, <1>3 DEF FormsNext, Asked

LEMMA RegistersHold ==
    ASSUME NEW t \in RegisterTables, NEW fill \in [RowIds -> Columns \cup {NoRow}], NEW itemsOf
    PROVE  RegistersSpec(t, fill, itemsOf) => []RegisterInv(t)
<1>1. RegistersInit(t, fill, itemsOf) => RegisterInv(t)
  BY RegistersStart
<1>2. RegisterInv(t) /\ [FormsNext]_form_vars => RegisterInv(t)'
  BY RegistersStay
<1> QED BY <1>1, <1>2, PTL DEF RegistersSpec

\* The items of a report (actions, findings, revisions, attachments, the items of a requisition) are
\* what the saves of it stored, taken one after another, in every register and for any number of
\* requests at once: whatever calls fail and wherever, unless two saves write one list together or
\* one is cut between clearing it and filling it (torn).  It rests on every handler filling a list
\* only right after it cleared it or stored the row, and on a stored row's id being nobody's yet.
THEOREM OneSaveAtATime ==
    ASSUME NEW t \in RegisterTables, NEW fill \in [RowIds -> Columns \cup {NoRow}], NEW itemsOf
    PROVE  RegistersSpec(t, fill, itemsOf) => []ActionsAreOneSaves
<1>1. RegisterInv(t) => ActionsAreOneSaves
  <2> SUFFICES ASSUME RegisterInv(t) PROVE ActionsAreOneSaves
    OBVIOUS
  <2>1. RegisterTypeOK
    <3>1. \A id \in Ids : rows[id].section # Blank /\ rows[id].version \in Nat
      BY FormsAssumption DEF RegisterInv, TablesHold, Ids, Columns
    <3>2. \A i \in items : i.parent \in Ids
      BY DEF RegisterInv, ItemsHold
    <3> QED BY <3>1, <3>2 DEF RegisterTypeOK, RegisterInv, TablesHold
  <2>2. \A id \in Ids \ torn : {[name |-> i.name, by |-> i.by] : i \in ItemsOf(id)} = saved[id]
    BY DEF RegisterInv, SavesHold, Pairs
  <2> QED BY <2>1, <2>2 DEF ActionsAreOneSaves
<1>2. RegistersSpec(t, fill, itemsOf) => []RegisterInv(t)
  BY RegistersHold
<1> QED BY <1>1, <1>2, PTL

-----------------------------------------------------------------------------
(* The revisions of the procedures. *)

\* Who adds the next one has seen the last there was, or that there was none.
RevisionInv ==
    /\ RegisterInv("sop_documents")
    /\ \A id \in Ids : \E n \in Nat : Revisions(id) = 1 .. n
    /\ \A h \in Handlers : Doing(h, "revise") /\ handlers[h].id \in Ids
          => handlers[h].new = {} \/ \E m \in Revisions(handlers[h].id) : handlers[h].new = {m}

LastSeen(h) == CHOOSE n \in handlers[h].new \cup {0} : \A m \in handlers[h].new : m <= n

LEMMA NextOfThose ==
    ASSUME NEW h \in Handlers
    PROVE  /\ handlers[h].new = {} => _next_revision_number(h) = 1
           /\ \A m \in Nat \ {0} : handlers[h].new = {m} => _next_revision_number(h) = m + 1
<1>0. _next_revision_number(h) = 1 + LastSeen(h)
  BY DEF _next_revision_number, LastSeen
<1>1. ASSUME handlers[h].new = {} PROVE _next_revision_number(h) = 1
  <2>1. \A n \in handlers[h].new \cup {0} : n = 0
    BY <1>1
  <2>2. LastSeen(h) = 0
    BY <1>1, <2>1 DEF LastSeen
  <2> QED BY <1>0, <2>2
<1>2. ASSUME NEW m \in Nat \ {0}, handlers[h].new = {m} PROVE _next_revision_number(h) = m + 1
  <2>1. \A n \in handlers[h].new \cup {0} : (\A k \in handlers[h].new : k <= n) <=> n = m
    BY <1>2
  <2>2. m \in handlers[h].new \cup {0}
    BY <1>2
  <2>3. LastSeen(h) = m
    BY <2>1, <2>2 DEF LastSeen
  <2> QED BY <1>0, <2>3
<1> QED BY <1>1, <1>2

\* Only a new revision changes the items of the procedures.
LEMMA OnlyRevisionsCome ==
    ASSUME RegisterInv("sop_documents"), NEW h \in Handlers, RegisterStep(h) \/ FormStep(h)
    PROVE  /\ items' = items \/ (AddRevision(h) /\ items \subseteq items')
           /\ ~DropRow(h)
<1>1. \A op : Doing(h, op) => op \in OpsOf("sop_documents")
  <2>1. Legal("sop_documents", handlers[h])
    BY DEF RegisterInv, TablesHold
  <2> QED BY <2>1, OnARow DEF Doing, Call
<1>2. /\ ~Doing(h, "drop") /\ ~Doing(h, "clear") /\ ~Doing(h, "fill") /\ ~Doing(h, "add")
      /\ ~Doing(h, "write_item") /\ ~Doing(h, "drop_item") /\ ~Doing(h, "attach")
  BY <1>1 DEF OpsOf, SaveOps
<1>3. ~DropRow(h) /\ ~ClearItems(h) /\ ~FillItems(h) /\ ~WriteOneItem(h) /\ ~DropOneItem(h) /\ ~AttachFile(h)
  BY <1>2 DEF DropRow, ClearItems, FillItems, WriteOneItem, DropOneItem, AttachFile
<1>4. CASE AddRevision(h)
  <2>1. items \subseteq items'
    BY <1>4 DEF AddRevision
  <2> QED BY <1>3, <1>4, <2>1
<1>5. CASE ~AddRevision(h)
  BY <1>3, <1>5 DEF RegisterStep, FormStep, FindRow, WriteRow, InsertRow, FindOneItem, ReadRows, ReadTheItems, CallFails,
     CheckNumber, LookForRevision, ArchiveRow, SignStage, StoreFile, RemoveFile, Rest
<1> QED BY <1>3, <1>4, <1>5

LEMMA RevisionsStay ==
    ASSUME RevisionInv, NEW h \in Handlers, RegisterStep(h) \/ FormStep(h)
    PROVE  RevisionInv'
<1>1. RegisterInv("sop_documents")' /\ StepsOn(h) /\ RegisterInv("sop_documents")
  BY ItemsStay DEF RevisionInv
<1>2. items \subseteq items' /\ (items' = items \/ AddRevision(h))
  BY <1>1, OnlyRevisionsCome
<1>3. \A id : Revisions(id) \subseteq Revisions(id)'
  BY <1>2 DEF Revisions, ItemsOf
<1>4. ASSUME NEW id \in Ids' PROVE \E n \in Nat : Revisions(id)' = 1 .. n
  <2>1. CASE id \notin Ids
    <3>1. InsertRow(h)
      BY <1>1, <1>4, <2>1, RowsComeAndGo, OnlyRevisionsCome
    <3>2. items' = items
      BY <3>1 DEF InsertRow
    <3>3. Revisions(id)' = {}
      BY <1>1, <2>1, <3>2 DEF Revisions, ItemsOf, RegisterInv, ItemsHold
    <3>4. 1 .. 0 = {}
      OBVIOUS
    <3> QED BY <3>3, <3>4
  <2>2. CASE id \in Ids /\ items' = items
    BY <2>2 DEF RevisionInv, Revisions, ItemsOf
  <2>3. CASE id \in Ids /\ AddRevision(h) /\ items' # items
    <3> DEFINE next == _next_revision_number(h)
               this == handlers[h].id
               i == [parent |-> this, name |-> next, section |-> Blank, by |-> <<h, arrived>>]
    <3>1. this \in Ids /\ next \notin Revisions(this) /\ items' = items \cup {i} /\ Doing(h, "revise")
      BY <2>3 DEF AddRevision
    <3>2. CASE id # this
      BY <2>3, <3>1, <3>2 DEF RevisionInv, Revisions, ItemsOf
    <3>3. CASE id = this
      <4>1. PICK n \in Nat : Revisions(this) = 1 .. n
        BY <3>1 DEF RevisionInv
      <4>2. next = n + 1
        <5>1. handlers[h].new = {} \/ \E m \in Revisions(this) : handlers[h].new = {m}
          BY <3>1 DEF RevisionInv
        <5>2. CASE handlers[h].new = {}
          <6>1. next = 1
            BY <5>2, NextOfThose
          <6> QED BY <6>1, <3>1, <4>1
        <5>3. ASSUME NEW m \in Revisions(this), handlers[h].new = {m} PROVE next = n + 1
          <6>1. m \in 1 .. n /\ m \in Nat \ {0}
            BY <4>1
          <6>2. next = m + 1
            BY <5>3, <6>1, NextOfThose
          <6> QED BY <6>1, <6>2, <3>1, <4>1
        <5> QED BY <5>1, <5>2, <5>3
      <4>3. i.name = next /\ i.parent = id
        BY <3>3
      <4> HIDE DEF next, i
      <4>4. Revisions(id)' = Revisions(id) \cup {next}
        BY <3>1, <4>3 DEF Revisions, ItemsOf
      <4>5. (1 .. n) \cup {n + 1} = 1 .. n + 1
        OBVIOUS
      <4> QED BY <3>3, <4>1, <4>2, <4>4, <4>5
    <3> QED BY <3>2, <3>3
  <2> QED BY <1>2, <2>1, <2>2, <2>3
<1>5. ASSUME NEW g \in Handlers, Doing(g, "revise")', handlers'[g].id \in Ids'
      PROVE  handlers'[g].new = {} \/ \E m \in Revisions(handlers[g].id)' : handlers'[g].new = {m}
  <2>1. CASE g # h
    <3>1. Doing(g, "revise") /\ handlers'[g].id = handlers[g].id /\ handlers'[g].new = handlers[g].new
      BY <1>1, <1>5, <2>1 DEF StepsOn, Same, Doing
    <3>2. handlers[g].id \in Ids
      BY <1>1, <1>5, <3>1, RowsComeAndGo
    <3>3. handlers[g].new = {} \/ \E m \in Revisions(handlers[g].id) : handlers[g].new = {m}
      BY <3>1, <3>2 DEF RevisionInv
    <3> QED BY <3>1, <3>3, <1>2 DEF Revisions, ItemsOf
  <2>2. CASE g = h
    <3>1. Doing(h, "look") /\ handlers'[h].todo # <<>>
      BY <1>1, <1>5, <2>2, Heads DEF RegisterInv, TablesHold, StepsOn, Doing
    <3>2. ~CallFails(h)
      BY <1>1, <3>1 DEF CallFails, Over, Goes, RegisterInv, TablesHold, HandlersHold, HandlerFields
    <3>3. LookForRevision(h)
      BY <3>1, <3>2 DEF Doing, RegisterStep, FormStep, FindRow, WriteRow, InsertRow, DropRow, ClearItems, FillItems, FindOneItem,
         WriteOneItem, DropOneItem, ReadRows, ReadTheItems, CheckNumber, AddRevision, ArchiveRow, SignStage, StoreFile, AttachFile, RemoveFile
    <3> DEFINE id == handlers[h].id
               last == {n \in Revisions(id) : \A m \in Revisions(id) : m <= n}
    <3>4. handlers' = [On(h) EXCEPT ![h].new = last] /\ rows' = rows
      BY <3>3 DEF LookForRevision
    <3>5. handlers'[h].new = last /\ handlers'[h].id = id
      BY <1>1, <3>4 DEF On, Goes, RegisterInv, TablesHold, HandlersHold, HandlerFields
    <3>6. id \in Ids
      BY <1>5, <2>2, <3>4, <3>5 DEF Ids
    <3>7. PICK n \in Nat : Revisions(id) = 1 .. n
      BY <3>6 DEF RevisionInv
    <3>8. last = {} \/ (n \in Revisions(id) /\ last = {n})
      <4>1. CASE n = 0
        BY <3>7, <4>1
      <4>2. CASE n # 0
        <5>1. \A x \in 1 .. n : (\A m \in 1 .. n : m <= x) <=> x = n
          BY <4>2
        <5>2. n \in 1 .. n
          BY <4>2
        <5> QED BY <3>7, <5>1, <5>2
      <4> QED BY <4>1, <4>2
    <3> HIDE DEF last
    <3>9. ASSUME n \in Revisions(id) PROVE n \in Revisions(handlers[h].id)'
      BY <1>2, <3>5, <3>9 DEF Revisions, ItemsOf
    <3> QED BY <2>2, <3>5, <3>8, <3>9
  <2> QED BY <2>1, <2>2
<1> QED BY <1>1, <1>4, <1>5 DEF RevisionInv

\* The revisions of a document are 1, 2, 3 ... without a gap or a double, however many saves of it
\* overlap: who adds one has looked for the last there was, revisions only ever join, and the unique
\* index turns away the second of two that saw the same last one.
THEOREM RevisionsInARow ==
    ASSUME NEW t \in RegisterTables, NEW fill \in [RowIds -> Columns \cup {NoRow}], NEW itemsOf,
           t = "sop_documents" => \E n \in Nat : itemsOf = 1 .. n
    PROVE  RegistersSpec(t, fill, itemsOf) => []RevisionsHaveNoGaps
<1>1. CASE t # "sop_documents"
  <2>1. RegisterInv(t) => RevisionsHaveNoGaps
    BY <1>1 DEF RegisterInv, TablesHold, RevisionsHaveNoGaps
  <2> QED BY <2>1, RegistersHold, PTL
<1>2. CASE t = "sop_documents"
  <2>1. RegistersInit(t, fill, itemsOf) => RevisionInv
    <3> SUFFICES ASSUME RegistersInit(t, fill, itemsOf) PROVE RevisionInv
      OBVIOUS
    <3>1. RegisterInv("sop_documents")
      BY <1>2, RegistersStart
    <3>2. \A h \in Handlers : ~Doing(h, "revise")
      BY DEF RegistersInit, RegisterInit, Idle, Doing
    <3>3. ASSUME NEW id \in Ids PROVE Revisions(id) = itemsOf
      <4>1. /\ rows = fill
            /\ items = {[parent |-> k, name |-> n, section |-> fill[k].section, by |-> NoRow] :
                           k \in {k \in RowIds : fill[k] # NoRow}, n \in itemsOf}
        BY DEF RegistersInit, RegisterInit
      <4>2. ASSUME NEW i \in ItemsOf(id) PROVE i.name \in itemsOf
        BY <4>1 DEF ItemsOf
      <4>3. ASSUME NEW n \in itemsOf PROVE \E i \in ItemsOf(id) : i.name = n
        <5> DEFINE i == [parent |-> id, name |-> n, section |-> fill[id].section, by |-> NoRow]
        <5>1. i \in items /\ i.parent = id /\ i.name = n
          BY <4>1 DEF Ids
        <5> HIDE DEF i
        <5> QED BY <5>1 DEF ItemsOf
      <4> QED BY <4>2, <4>3 DEF Revisions
    <3> QED BY <1>2, <3>1, <3>2, <3>3 DEF RevisionInv
  <2>2. RevisionInv /\ [FormsNext]_form_vars => RevisionInv'
    <3> SUFFICES ASSUME RevisionInv, [FormsNext]_form_vars PROVE RevisionInv'
      OBVIOUS
    <3>0. RegisterInv(t) /\ table = t
      BY <1>2 DEF RevisionInv, RegisterInv, TablesHold
    <3>1. CASE UNCHANGED form_vars
      <4>1. RegisterInv("sop_documents")'
        BY <1>2, <3>0, <3>1, RegistersStay
      <4>2. \A id : Revisions(id)' = Revisions(id)
        BY <3>1 DEF form_vars, register_vars, Revisions, ItemsOf
      <4> QED BY <3>1, <4>1, <4>2 DEF RevisionInv, form_vars, register_vars, Ids, Doing
    <3>2. ASSUME NEW h \in Handlers, RegisterStep(h) \/ FormStep(h) PROVE RevisionInv'
      BY <3>2, RevisionsStay
    <3>3. ASSUME NEW h \in Handlers, FormRequest(h) PROVE RevisionInv'
      <4>1. Comes(t, h)
        BY <1>2, <3>0, <3>3, Requests DEF FormTables
      <4>2. /\ RegisterInv("sop_documents")' /\ UNCHANGED <<rows, items>>
            /\ \A g \in Handlers \ {h} : handlers'[g] = handlers[g]
            /\ handlers'[h].todo # <<>> => Head(handlers'[h].todo).op \notin Later
        BY <1>2, <3>0, <4>1, RequestStays
      <4>3. \A id : Revisions(id)' = Revisions(id)
        BY <4>2 DEF Revisions, ItemsOf
      <4>4. \A g \in Handlers : Doing(g, "revise")' => g # h
        BY <4>2 DEF Doing, Later
      <4> QED BY <4>2, <4>3, <4>4 DEF RevisionInv, Ids, Doing
    <3> QED BY <1>2, <3>0, <3>1, <3>2, <3>3 DEF FormsNext, Asked, FormTables
  <2>3. RevisionInv => RevisionsHaveNoGaps
    <3> SUFFICES ASSUME RevisionInv, NEW id \in Ids PROVE Revisions(id) = 1 .. Cardinality(Revisions(id))
      BY DEF RevisionsHaveNoGaps
    <3>1. PICK n \in Nat : Revisions(id) = 1 .. n
      BY DEF RevisionInv
    <3>2. Cardinality(1 .. n) = n
      BY FS_Interval
    <3> QED BY <3>1, <3>2
  <2> QED BY <2>1, <2>2, <2>3, PTL DEF RegistersSpec
<1> QED BY <1>1, <1>2

-----------------------------------------------------------------------------
(* Signatures and attached files of the services. *)

\* What is promised is in the row, which is at least of that version; and who signs has seen what
\* was promised by the version it has seen.
SignatureInv ==
    /\ RegisterInv("services")
    /\ \A p \in promised :
          p.id \in Ids /\ p.stage \in rows[p.id].signed /\ p.version \in Nat /\ p.version <= rows[p.id].version
    /\ \A h \in Handlers : Doing(h, "sign") /\ handlers[h].id \in Ids =>
          /\ handlers[h].saw.version <= rows[handlers[h].id].version
          /\ \A p \in promised :
                p.id = handlers[h].id /\ p.version <= handlers[h].saw.version => p.stage \in handlers[h].saw.signed

\* The calls a service record's handlers never make.
LEMMA ServiceSteps ==
    ASSUME RegisterInv("services"), NEW h \in Handlers, RegisterStep(h) \/ FormStep(h)
    PROVE  /\ \/ FindRow(h) \/ WriteRow(h) \/ InsertRow(h) \/ DropRow(h) \/ FindOneItem(h) \/ DropOneItem(h)
              \/ ReadRows(h) \/ ReadTheItems(h) \/ CallFails(h)
              \/ CheckNumber(h) \/ SignStage(h) \/ StoreFile(h) \/ AttachFile(h) \/ RemoveFile(h)
           /\ ~ArchiveRow(h)
<1>1. \A op : Doing(h, op) => op \in OpsOf("services")
  <2>1. Legal("services", handlers[h])
    BY DEF RegisterInv, TablesHold
  <2> QED BY <2>1, OnARow DEF Doing, Call
<1>2. /\ ~Doing(h, "clear") /\ ~Doing(h, "fill") /\ ~Doing(h, "add") /\ ~Doing(h, "write_item")
      /\ ~Doing(h, "look") /\ ~Doing(h, "revise") /\ ~Doing(h, "archive")
  BY <1>1 DEF OpsOf, SaveOps
<1>3. ~ClearItems(h) /\ ~FillItems(h) /\ ~WriteOneItem(h) /\ ~LookForRevision(h) /\ ~AddRevision(h) /\ ~ArchiveRow(h)
  BY <1>2 DEF ClearItems, FillItems, WriteOneItem, LookForRevision, AddRevision, ArchiveRow
<1> QED BY <1>3 DEF RegisterStep, FormStep

\* A write leaves the signatures alone, and the version is never less.
LEMMA WritesKeepSignatures ==
    ASSUME NEW t, RegisterInv(t), NEW h \in Handlers, WriteRow(h)
    PROVE  \A id \in Ids : rows'[id].signed = rows[id].signed /\ rows[id].version <= rows'[id].version
<1> DEFINE this == handlers[h].id
<1>1. /\ Legal(t, handlers[h]) /\ handlers[h].todo # <<>> /\ Call(h).op = "write"
      /\ rows \in [RowIds -> Columns \cup {NoRow}]
  BY DEF RegisterInv, TablesHold, WriteRow, Doing, Call
<1>2. Call(h) \in Calls /\ this \in RowIds /\ Call(h).patch \in StampedPatches /\ Call(h).touch \in {0, 1}
  BY <1>1, OnARow, CallFields DEF RowOps
<1>5. \A id \in Ids : rows[id].version \in Nat
  BY <1>1 DEF Ids, Columns
<1>3. CASE rows' = rows
  BY <1>3, <1>5
<1>4. CASE rows[this] # NoRow /\ rows' = [rows EXCEPT ![this] = [Merged(rows[this], Call(h).patch) EXCEPT !.version = @ + Call(h).touch]]
  <2>1. rows[this] \in Columns
    BY <1>1, <1>2, <1>4
  <2>2. "signed" \notin DOMAIN Call(h).patch /\ "version" \notin DOMAIN Call(h).patch
    BY <1>2 DEF StampedPatches
  <2> DEFINE new == [Merged(rows[this], Call(h).patch) EXCEPT !.version = @ + Call(h).touch]
  <2>3. new.signed = rows[this].signed /\ new.version = rows[this].version + Call(h).touch
    BY <2>1, <2>2 DEF Merged, Columns
  <2>4. rows[this].version <= new.version
    BY <1>2, <2>1, <2>3 DEF Columns
  <2> HIDE DEF new
  <2> QED BY <1>1, <1>2, <1>4, <1>5, <2>3, <2>4 DEF Ids, new
<1> QED BY <1>3, <1>4 DEF WriteRow

\* Other steps than a signature leave the stages of a row, and its version is never less.
LEMMA StagesStay ==
    ASSUME RegisterInv("services"), NEW h \in Handlers, RegisterStep(h) \/ FormStep(h), ~SignStage(h)
    PROVE  \A id \in Ids \cap Ids' : rows'[id].signed = rows[id].signed /\ rows[id].version <= rows'[id].version
<1>1. rows \in [RowIds -> Columns \cup {NoRow}] /\ \A id \in Ids : rows[id].version \in Nat
  BY DEF RegisterInv, TablesHold, Ids, Columns
<1>2. CASE WriteRow(h)
  BY <1>2, WritesKeepSignatures
<1>3. CASE InsertRow(h)
  <2>1. rows' = rows \/ \E id \in RowIds \ Ids : rows' = [rows EXCEPT ![id] = Call(h).row]
    BY <1>3 DEF InsertRow
  <2>2. \A id \in Ids : rows'[id] = rows[id]
    BY <1>1, <2>1 DEF Ids
  <2> QED BY <1>1, <2>2
<1>4. CASE DropRow(h)
  BY <1>1, <1>4 DEF DropRow, Ids
<1>5. CASE ~WriteRow(h) /\ ~InsertRow(h) /\ ~DropRow(h)
  <2>1. rows' = rows
    BY <1>5, ServiceSteps DEF FindRow, FindOneItem, DropOneItem, ReadRows, ReadTheItems,
       CallFails, CheckNumber, StoreFile, AttachFile, RemoveFile, Rest
  <2> QED BY <1>1, <2>1
<1> QED BY <1>2, <1>3, <1>4, <1>5

\* Whose id a handler has, nobody stores a row under.
LEMMA NotStoredAnew ==
    ASSUME NEW t, RegisterInv(t), NEW h \in Handlers, RegisterStep(h) \/ FormStep(h),
           NEW g \in Handlers, handlers[g].id \in Ids'
    PROVE  handlers[g].id \in Ids
<1>1. CASE InsertRow(h)
  BY <1>1 DEF InsertRow, Ids, RegisterInv, TablesHold
<1>2. CASE ~InsertRow(h)
  BY <1>2, RowsComeAndGo DEF Ids
<1> QED BY <1>1, <1>2

LEMMA SignaturesStay ==
    ASSUME SignatureInv, NEW h \in Handlers, RegisterStep(h) \/ FormStep(h),
           \/ FormStep(h)
           \/ promised' = {p \in promised : rows'[p.id] # NoRow}
    PROVE  SignatureInv'
<1>1. RegisterInv("services")' /\ StepsOn(h) /\ RegisterInv("services")
  BY ItemsStay DEF SignatureInv
<1>2. /\ rows \in [RowIds -> Columns \cup {NoRow}] /\ DOMAIN rows' = RowIds
      /\ \A id \in Ids : rows[id] \in Columns /\ rows[id].version \in Nat /\ id \in RowIds
  BY <1>1 DEF RegisterInv, TablesHold, Ids, Columns
<1>3. CASE SignStage(h) /\ handlers[h].id \in Ids
  <2> DEFINE id == handlers[h].id
             S == WithStage(handlers[h].saw, Call(h).stage)
             mark == rows[id].version + 1
  <2>1. /\ rows' = [rows EXCEPT ![id].signed = S, ![id].version = @ + 1]
        /\ promised' = {p \in promised : p.id = id => p.version <= handlers[h].saw.version}
                         \cup {[id |-> id, stage |-> Call(h).stage, version |-> mark]}
        /\ Doing(h, "sign")
    BY <1>3 DEF SignStage
  <2>2. id \in RowIds /\ id \in Ids /\ rows[id] \in Columns /\ mark \in Nat /\ rows[id].version < mark
    BY <1>2, <1>3
  <2>3. S = handlers[h].saw.signed \cup {Call(h).stage}
    BY DEF WithStage
  <2> HIDE DEF S
  <2>4. /\ rows'[id].signed = S /\ rows'[id].version = mark
        /\ \A k \in RowIds \ {id} : rows'[k] = rows[k]
    BY <1>2, <2>1, <2>2 DEF Columns
  <2>5. Ids' = Ids
    <3>1. ~InsertRow(h) /\ ~DropRow(h)
      BY <2>1 DEF InsertRow, DropRow, Doing
    <3> QED BY <1>1, <3>1, RowsComeAndGo
  <2>6. \A p \in promised' : \/ /\ p \in promised
                                /\ p.id = id => p.version <= handlers[h].saw.version
                             \/ p.id = id /\ p.stage = Call(h).stage /\ p.version = mark
    BY <2>1
  <2> HIDE DEF mark, id
  <2>7. \A p \in promised' :
          p.id \in Ids' /\ p.stage \in rows'[p.id].signed /\ p.version \in Nat /\ p.version <= rows'[p.id].version
    <3> SUFFICES ASSUME NEW p \in promised'
                 PROVE  p.id \in Ids /\ p.stage \in rows'[p.id].signed /\ p.version \in Nat /\ p.version <= rows'[p.id].version
      BY <2>5
    <3>1. CASE p \in promised /\ p.id # id
      BY <1>2, <2>4, <3>1 DEF SignatureInv
    <3>2. CASE p \in promised /\ p.id = id /\ p.version <= handlers[h].saw.version
      <4>1. p.stage \in handlers[h].saw.signed
        BY <2>1, <2>2, <3>2 DEF SignatureInv, id
      <4>2. p.version \in Nat /\ p.version <= rows[id].version
        BY <3>2 DEF SignatureInv
      <4>3. rows[id].version \in Nat
        BY <1>2, <2>2
      <4>4. p.version <= mark
        BY <2>2, <4>2, <4>3
      <4> QED BY <2>2, <2>3, <2>4, <3>2, <4>1, <4>2, <4>4
    <3>3. CASE p.id = id /\ p.stage = Call(h).stage /\ p.version = mark
      BY <2>2, <2>3, <2>4, <3>3
    <3> QED BY <2>6, <3>1, <3>2, <3>3
  <2>8. ASSUME NEW g \in Handlers, Doing(g, "sign")', handlers'[g].id \in Ids'
        PROVE  /\ handlers'[g].saw.version <= rows'[handlers'[g].id].version
               /\ \A p \in promised' :
                    p.id = handlers'[g].id /\ p.version <= handlers'[g].saw.version => p.stage \in handlers'[g].saw.signed
    <3>1. g # h
      BY <1>1, <2>1, <2>8, Heads DEF RegisterInv, TablesHold, StepsOn, Doing
    <3>2. Doing(g, "sign") /\ handlers'[g].id = handlers[g].id /\ handlers'[g].saw = handlers[g].saw
      BY <1>1, <2>8, <3>1 DEF StepsOn, Same, Doing
    <3>3. handlers[g].id \in Ids
      BY <2>5, <2>8, <3>2
    <3>4. /\ handlers[g].saw.version <= rows[handlers[g].id].version
          /\ \A p \in promised :
               p.id = handlers[g].id /\ p.version <= handlers[g].saw.version => p.stage \in handlers[g].saw.signed
      BY <3>2, <3>3 DEF SignatureInv
    <3>5. handlers[g].saw.version \in Nat
      BY <1>1, <3>2, <3>3 DEF RegisterInv, SignsHold, Columns
    <3>6. handlers[g].saw.version <= rows'[handlers[g].id].version
      <4>1. CASE handlers[g].id = id
        BY <1>2, <2>2, <2>4, <3>4, <3>5, <4>1
      <4>2. CASE handlers[g].id # id
        BY <1>2, <2>4, <3>3, <3>4, <4>2
      <4> QED BY <4>1, <4>2
    <3>7. ASSUME NEW p \in promised', p.id = handlers[g].id, p.version <= handlers[g].saw.version
          PROVE  p \in promised
      <4>1. ASSUME p.id = id, p.version = mark PROVE FALSE
        <5>1. handlers[g].saw.version <= rows[id].version /\ rows[id].version \in Nat
          BY <1>2, <2>2, <3>4, <3>7, <4>1
        <5> QED BY <2>2, <3>5, <3>7, <4>1, <5>1
      <4> QED BY <2>6, <4>1
    <3> QED BY <3>2, <3>4, <3>6, <3>7
  <2> QED BY <1>1, <2>7, <2>8 DEF SignatureInv
<1>4. CASE ~(SignStage(h) /\ handlers[h].id \in Ids)
  <2>1. UNCHANGED <<rows, promised>> \/ promised' = {q \in promised : rows'[q.id] # NoRow}
    <3>1. CASE FormStep(h)
      BY <1>1, <1>4, <3>1, ServiceSteps DEF FormStep, CheckNumber, LookForRevision, AddRevision, SignStage, StoreFile,
         AttachFile, RemoveFile, Rest
    <3> QED BY <3>1
  <2>2. \A p \in promised' : p \in promised /\ p.id \in Ids /\ p.id \in Ids'
    <3>1. CASE UNCHANGED <<rows, promised>>
      BY <3>1 DEF SignatureInv, Ids
    <3>2. CASE promised' = {q \in promised : rows'[q.id] # NoRow}
      BY <3>2 DEF SignatureInv, Ids
    <3> QED BY <2>1, <3>1, <3>2
  <2>3. \A id \in Ids \cap Ids' : rows'[id].signed = rows[id].signed /\ rows[id].version <= rows'[id].version
    <3>1. CASE SignStage(h)
      BY <1>2, <1>4, <3>1 DEF SignStage
    <3>2. CASE ~SignStage(h)
      BY <1>1, <3>2, StagesStay
    <3> QED BY <3>1, <3>2
  <2>4. \A id \in Ids' : rows'[id].version \in Nat
    BY <1>1 DEF RegisterInv, TablesHold, Ids, Columns
  <2>5. ASSUME NEW p \in promised'
        PROVE  p.id \in Ids' /\ p.stage \in rows'[p.id].signed /\ p.version \in Nat /\ p.version <= rows'[p.id].version
    <3>1. p \in promised /\ p.id \in Ids /\ p.id \in Ids'
      BY <2>2
    <3>2. p.stage \in rows[p.id].signed /\ p.version \in Nat /\ p.version <= rows[p.id].version
      BY <3>1 DEF SignatureInv
    <3>3. rows'[p.id].signed = rows[p.id].signed /\ rows[p.id].version <= rows'[p.id].version
      BY <2>3, <3>1
    <3> QED BY <1>2, <2>4, <3>1, <3>2, <3>3
  <2>6. ASSUME NEW g \in Handlers, Doing(g, "sign")', handlers'[g].id \in Ids'
        PROVE  /\ handlers'[g].saw.version <= rows'[handlers'[g].id].version
               /\ \A p \in promised' :
                    p.id = handlers'[g].id /\ p.version <= handlers'[g].saw.version => p.stage \in handlers'[g].saw.signed
    <3>1. CASE g # h
      <4>1. Doing(g, "sign") /\ handlers'[g].id = handlers[g].id /\ handlers'[g].saw = handlers[g].saw
        BY <1>1, <2>6, <3>1 DEF StepsOn, Same, Doing
      <4>2. handlers[g].id \in Ids
        BY <1>1, <2>6, <4>1, NotStoredAnew
      <4>3. /\ handlers[g].saw.version <= rows[handlers[g].id].version
            /\ \A p \in promised :
                 p.id = handlers[g].id /\ p.version <= handlers[g].saw.version => p.stage \in handlers[g].saw.signed
        BY <4>1, <4>2 DEF SignatureInv
      <4>4. rows[handlers[g].id].version <= rows'[handlers[g].id].version
        BY <2>3, <2>6, <4>1, <4>2
      <4>5. handlers[g].saw.version \in Nat
        BY <1>1, <4>1, <4>2 DEF RegisterInv, SignsHold, Columns
      <4>6. handlers[g].saw.version <= rows'[handlers[g].id].version
        BY <1>2, <2>4, <2>6, <4>1, <4>2, <4>3, <4>4, <4>5
      <4> QED BY <2>2, <4>1, <4>3, <4>6
    <3>2. CASE g = h
      <4>1. Doing(h, "find") /\ handlers'[h].todo # <<>>
        BY <1>1, <2>6, <3>2, Heads DEF RegisterInv, TablesHold, StepsOn, Doing
      <4>2. ~CallFails(h)
        BY <1>1, <4>1 DEF CallFails, Over, Goes, RegisterInv, TablesHold, HandlersHold, HandlerFields
      <4>3. FindRow(h)
        BY <4>1, <4>2 DEF Doing, RegisterStep, FormStep, WriteRow, InsertRow, DropRow, ClearItems, FillItems, FindOneItem, WriteOneItem, DropOneItem,
           ReadRows, ReadTheItems, CheckNumber, LookForRevision, AddRevision, ArchiveRow, SignStage, StoreFile, AttachFile, RemoveFile
      <4>4. rows' = rows /\ handlers'[h].saw = rows[handlers[h].id] /\ handlers'[h].id = handlers[h].id
        BY <1>1, <4>1, <4>3 DEF FindRow, On, Over, Goes, RegisterInv, TablesHold, HandlersHold, HandlerFields
      <4>5. handlers[h].id \in Ids
        BY <2>6, <3>2, <4>4 DEF Ids
      <4> QED BY <1>2, <2>2, <3>2, <4>4, <4>5 DEF SignatureInv
    <3> QED BY <3>1, <3>2
  <2> QED BY <1>1, <2>5, <2>6 DEF SignatureInv
<1> QED BY <1>3, <1>4

\* A removal not over yet, and an upload that has still to store its file.
Held(h) == \E k \in 1 .. Len(handlers[h].todo) : handlers[h].todo[k].op \in ItemOps
Storing(h) == \E k \in 1 .. Len(handlers[h].todo) : handlers[h].todo[k].op = "store"

LEMMA Pending ==
    ASSUME NEW t, NEW h \in Handlers, Legal(t, handlers[h]), Progress(h)
    PROVE  /\ Held(h)' => Held(h)
           /\ Storing(h)' => Storing(h)
           /\ Doing(h, "store") => Storing(h) /\ ~Storing(h)'
           /\ Doing(h, "attach") => ~Storing(h)'
           /\ \A op \in ItemOps : Doing(h, op) => Held(h)
           /\ Doing(h, "unstore") /\ handlers'[h].todo # <<>> => Doing(h, "drop_item")'
<1> DEFINE s == handlers[h].todo
<1>1. s \in Seq(Calls) /\ s # <<>> /\ Shape(t, s) /\ Len(<<>>) = 0
  BY EmptySeq DEF Legal, Shape, Progress
<1>2. 1 \in 1 .. Len(s) /\ Head(s) = s[1]
  BY <1>1, TailIs
<1>3. /\ Doing(h, "store") => Storing(h)
      /\ \A op \in ItemOps : Doing(h, op) => Held(h)
  BY <1>2 DEF Doing, Storing, Held
<1>4. CASE handlers'[h].todo = <<>>
  BY <1>1, <1>3, <1>4 DEF Held, Storing
<1>5. CASE handlers'[h].todo = Tail(s)
  <2>1. \A k \in 1 .. Len(Tail(s)) : k + 1 \in 1 .. Len(s) /\ Tail(s)[k] = s[k + 1]
    BY <1>1, TailIs
  <2>2. (Held(h)' => Held(h)) /\ (Storing(h)' => Storing(h))
    BY <1>5, <2>1 DEF Held, Storing
  <2>3. /\ Doing(h, "store") => \A k \in 1 .. Len(Tail(s)) : Tail(s)[k].op = "attach"
        /\ Doing(h, "attach") => Tail(s) = <<>>
        /\ Doing(h, "unstore") => Head(Tail(s)).op = "drop_item"
    BY <1>1, ShapeTail DEF Doing
  <2>4. (Doing(h, "store") => ~Storing(h)') /\ (Doing(h, "attach") => ~Storing(h)')
    <3>1. Doing(h, "store") => ~Storing(h)'
      BY <1>5, <2>3 DEF Storing
    <3>2. Doing(h, "attach") => Len(handlers'[h].todo) = 0
      BY <1>1, <1>5, <2>3
    <3>3. Len(handlers'[h].todo) = 0 => ~Storing(h)'
      BY DEF Storing
    <3> QED BY <3>1, <3>2, <3>3
  <2> QED BY <1>3, <1>5, <2>2, <2>3, <2>4 DEF Doing
<1>6. ASSUME Doing(h, "read"), NEW c \in Reads, handlers'[h].todo = <<c>> \o Tail(s)
      PROVE  /\ Held(h)' => Held(h)
             /\ Storing(h)' => Storing(h)
  <2>1. Head(s).op = "read" /\ HasRow(handlers[h].id, s) /\ HasItem(handlers[h].item, s)
    BY <1>6 DEF Legal, Doing
  <2>2. Len(<<c>> \o Tail(s)) = Len(s)
    BY <1>1, <2>1, ReadAlike
  <2>3. \A k \in 1 .. Len(s) : (<<c>> \o Tail(s))[k].op = s[k].op
    BY <1>1, <2>1, ReadAlike
  <2> QED BY <1>6, <2>2, <2>3 DEF Held, Storing
<1>7. Doing(h, "read") => ~Doing(h, "store") /\ ~Doing(h, "attach") /\ ~Doing(h, "unstore")
  BY DEF Doing
<1> QED BY <1>3, <1>4, <1>5, <1>6, <1>7 DEF Progress

LEMMA DropsNext ==
    ASSUME NEW t, NEW s, Shape(t, s), s # <<>>, Head(s).op = "unstore"
    PROVE  Len(Tail(s)) = 1
<1>1. s \in Seq(Calls) /\ Filing(s, 1)
  <2>1. s \in Seq(Calls)
    BY DEF Shape
  <2> QED BY <2>1, TailIs DEF Shape
<1>2. Len(s) = 2
  BY <1>1, TailIs DEF Filing
<1> QED BY <1>1, <1>2, TailIs

\* A file's name says who stored it and when; who has still to store one has not named it yet.
Named(n) == \E g \in Handlers, k \in 0 .. arrived : n = <<g, k>> /\ (Storing(g) => k < arrived)
\* The file a handler has stored and is to attach is there, and nothing else has its name.
Fresh(h, n) ==
    /\ handlers[h].new = {n} /\ n \in files
    /\ \A i \in items : i.name # n
    /\ \A g \in Handlers : Held(g) => handlers[g].item.name # n
NamesHold ==
    /\ \A i \in items : Named(i.name)
    /\ \A h \in Handlers : Held(h) => Named(handlers[h].item.name)
OneByName ==
    /\ \A i, j \in items : i.name = j.name => i = j
    /\ \A h \in Handlers : Held(h) => \A i \in items : i.name = handlers[h].item.name => i = handlers[h].item
FreshHold == \A h \in Handlers : Doing(h, "attach") => \E k \in 0 .. arrived : Fresh(h, <<h, k>>)
FilesThere ==
    \A i \in items : i.name \in files \/ i \in cut \/ \E h \in Handlers : handlers[h].item = i /\ Doing(h, "drop_item")
AttachmentInv == RegisterInv("services") /\ NamesHold /\ OneByName /\ FreshHold /\ FilesThere

\* What every call of a service record's handler leaves of the names.
LEMMA NamesFrame ==
    ASSUME AttachmentInv, NEW h \in Handlers, RegisterStep(h) \/ FormStep(h)
    PROVE  /\ RegisterInv("services") /\ RegisterInv("services")' /\ StepsOn(h)
           /\ arrived' = arrived /\ arrived \in Nat
           /\ \A g \in Handlers : /\ handlers'[g].item = handlers[g].item
                                  /\ Held(g)' => Held(g)
                                  /\ Storing(g)' => Storing(g)
           /\ \A n : Named(n) => Named(n)'
           /\ AttachFile(h) \/ items' \subseteq items
<1>1. RegisterInv("services") /\ RegisterInv("services")' /\ StepsOn(h)
  BY ItemsStay DEF AttachmentInv
<1>2. arrived' = arrived
  BY DEF RegisterStep, FormStep, FindRow, WriteRow, InsertRow, DropRow, ClearItems, FillItems, FindOneItem,
         WriteOneItem, DropOneItem, ReadRows, ReadTheItems, CallFails, CheckNumber, LookForRevision, AddRevision,
         ArchiveRow, SignStage, StoreFile, AttachFile, RemoveFile, Rest
<1>4. arrived \in Nat
  BY <1>1, BoundsAssumption DEF RegisterInv, TablesHold
<1>5. ASSUME NEW g \in Handlers
      PROVE  /\ handlers'[g].item = handlers[g].item
             /\ Held(g)' => Held(g)
             /\ Storing(g)' => Storing(g)
  <2>1. CASE g = h
    <3>1. Legal("services", handlers[h]) /\ Progress(h)
      BY <1>1 DEF RegisterInv, TablesHold, StepsOn
    <3> QED BY <2>1, <3>1, Pending DEF Progress
  <2>2. CASE g # h
    BY <1>1, <2>2 DEF StepsOn, Same, Held, Storing
  <2> QED BY <2>1, <2>2
<1>6. \A n : Named(n) => Named(n)'
  BY <1>2, <1>5 DEF Named
<1>7. AttachFile(h) \/ items' \subseteq items
  BY <1>1, ServiceSteps DEF FindRow, WriteRow, InsertRow, DropRow, FindOneItem, DropOneItem, ReadRows, ReadTheItems,
     CallFails, CheckNumber, SignStage, StoreFile, RemoveFile, Rest
<1> QED BY <1>1, <1>2, <1>4, <1>5, <1>6, <1>7

LEMMA AttachmentsStay ==
    ASSUME AttachmentInv, NEW h \in Handlers,
           \/ FormStep(h) /\ cut' = cut
           \/ RegisterStep(h) /\ files' = files /\ cut' = cut \cup CutShort(h)
    PROVE  AttachmentInv'
<1>1. /\ RegisterInv("services") /\ RegisterInv("services")' /\ StepsOn(h)
      /\ arrived' = arrived /\ arrived \in Nat
      /\ \A g \in Handlers : handlers'[g].item = handlers[g].item
      /\ \A g \in Handlers : Held(g)' => Held(g)
      /\ \A n : Named(n) => Named(n)'
  BY NamesFrame
<1>2. AttachFile(h) \/ items' \subseteq items
  BY NamesFrame
<1>3. /\ \A g \in Handlers \ {h} : handlers'[g].todo = handlers[g].todo /\ handlers'[g].new = handlers[g].new
      /\ Legal("services", handlers[h]) /\ Progress(h)
  BY <1>1 DEF StepsOn, Same, RegisterInv, TablesHold
\* What an upload attaches.
<1>4. CASE AttachFile(h)
  <2>1. Doing(h, "attach") /\ files' = files /\ rows' = rows
    BY <1>4 DEF AttachFile
  <2>2. PICK k \in 0 .. arrived : Fresh(h, <<h, k>>)
    BY <2>1 DEF AttachmentInv, FreshHold
  <2> DEFINE n == <<h, k>>
  <2>3. \A i \in items' : i \in items \/ i.name = n
    BY <1>4, <2>2 DEF AttachFile, Fresh
  <2>4. \A i, j \in items' : i \notin items /\ j \notin items => i = j
    BY <1>4, <2>2 DEF AttachFile, Fresh
  <2>5. ~Storing(h)'
    BY <1>3, <2>1, Pending
  <2>6. Named(n)'
    BY <1>1, <2>5 DEF Named
  <2>7. n \in files /\ (\A i \in items : i.name # n) /\ \A g \in Handlers : Held(g) => handlers[g].item.name # n
    BY <2>2 DEF Fresh
  <2>8. \A op : Doing(h, "attach") /\ Doing(h, op) => op = "attach"
    BY DEF Doing
  <2>9. handlers'[h].todo = <<>>
    <3>1. Shape("services", handlers[h].todo) /\ handlers[h].todo # <<>> /\ Head(handlers[h].todo).op = "attach"
      BY <1>3, <2>1 DEF Legal, Doing
    <3>2. Tail(handlers[h].todo) = <<>>
      BY <3>1, ShapeTail
    <3> QED BY <1>3, <2>1, <3>2 DEF Progress, Doing
  <2>10. \A g \in Handlers : \A k1, k2 : g # h => <<g, k1>> # <<h, k2>>
    OBVIOUS
  <2> HIDE DEF n
  <2>11. NamesHold'
    <3>1. \A i \in items' : Named(i.name)'
      BY <1>1, <2>3, <2>6 DEF AttachmentInv, NamesHold
    <3>2. ASSUME NEW g \in Handlers, Held(g)' PROVE Named(handlers[g].item.name)'
      <4>1. PICK m : m = handlers[g].item.name
        OBVIOUS
      <4>2. Named(m)'
        BY <1>1, <3>2, <4>1 DEF AttachmentInv, NamesHold
      <4> QED BY <1>1, <4>1, <4>2 DEF Named
    <3> QED BY <3>1, <3>2 DEF NamesHold
  <2>12. OneByName'
    <3>1. \A i, j \in items' : i.name = j.name => i = j
      BY <2>3, <2>4, <2>7 DEF AttachmentInv, OneByName
    <3>2. \A g \in Handlers : Held(g)' => \A i \in items' : i.name = handlers'[g].item.name => i = handlers'[g].item
      BY <1>1, <2>3, <2>7 DEF AttachmentInv, OneByName
    <3> QED BY <3>1, <3>2 DEF OneByName
  <2>13. FreshHold'
    <3> SUFFICES ASSUME NEW g \in Handlers, Doing(g, "attach")' PROVE \E m \in 0 .. arrived' : Fresh(g, <<g, m>>)'
      BY DEF FreshHold
    <3>1. g # h
      BY <2>9 DEF Doing
    <3>2. PICK m \in 0 .. arrived : Fresh(g, <<g, m>>)
      BY <1>3, <3>1 DEF AttachmentInv, FreshHold, Doing
    <3>3. <<g, m>> # n
      BY <2>10, <3>1 DEF n
    <3>4. Fresh(g, <<g, m>>)'
      BY <1>1, <1>3, <2>1, <2>3, <3>1, <3>2, <3>3 DEF Fresh
    <3> QED BY <1>1, <3>4
  <2>14. FilesThere'
    <3> SUFFICES ASSUME NEW i \in items'
                 PROVE  i.name \in files' \/ i \in cut' \/ \E g \in Handlers : handlers'[g].item = i /\ Doing(g, "drop_item")'
      BY DEF FilesThere
    <3>1. CASE i \notin items
      BY <2>1, <2>3, <2>7, <3>1
    <3>2. CASE i \in items
      <4>1. ASSUME NEW g \in Handlers, handlers[g].item = i, Doing(g, "drop_item")
            PROVE  handlers'[g].item = i /\ Doing(g, "drop_item")'
        <5>1. g # h
          BY <2>1, <2>8, <4>1
        <5> QED BY <1>1, <1>3, <4>1, <5>1 DEF Doing
      <4> QED BY <1>1, <2>1, <3>2, <4>1 DEF AttachmentInv, FilesThere
    <3> QED BY <3>1, <3>2
  <2> QED BY <1>1, <2>11, <2>12, <2>13, <2>14 DEF AttachmentInv
<1>5. CASE ~AttachFile(h)
  <2>1. items' \subseteq items
    BY <1>2, <1>5
  <2>2. NamesHold'
    <3>1. \A i \in items' : Named(i.name)'
      BY <1>1, <2>1 DEF AttachmentInv, NamesHold
    <3>2. ASSUME NEW g \in Handlers, Held(g)' PROVE Named(handlers[g].item.name)'
      <4>1. PICK m : m = handlers[g].item.name
        OBVIOUS
      <4>2. Named(m)'
        BY <1>1, <3>2, <4>1 DEF AttachmentInv, NamesHold
      <4> QED BY <1>1, <4>1, <4>2 DEF Named
    <3> QED BY <3>1, <3>2 DEF NamesHold
  <2>3. OneByName'
    <3>1. \A i, j \in items' : i.name = j.name => i = j
      BY <2>1 DEF AttachmentInv, OneByName
    <3>2. \A g \in Handlers : Held(g)' => \A i \in items' : i.name = handlers'[g].item.name => i = handlers'[g].item
      BY <1>1, <2>1 DEF AttachmentInv, OneByName
    <3> QED BY <3>1, <3>2 DEF OneByName
  \* A file goes by the name of the attachment whose removal is under way.
  <2>4. \A m \in files : m \in files' \/ (RemoveFile(h) /\ m = handlers[h].item.name)
    BY DEF FormStep, CheckNumber, LookForRevision, AddRevision, ArchiveRow, SignStage, StoreFile, AttachFile, RemoveFile
  <2>5. RemoveFile(h) => Held(h)
    BY <1>3, Pending DEF RemoveFile, ItemOps
  <2>6. FreshHold'
    <3> SUFFICES ASSUME NEW g \in Handlers, Doing(g, "attach")' PROVE \E m \in 0 .. arrived' : Fresh(g, <<g, m>>)'
      BY DEF FreshHold
    <3>1. CASE g # h
      <4>1. PICK m \in 0 .. arrived : Fresh(g, <<g, m>>)
        BY <1>3, <3>1 DEF AttachmentInv, FreshHold, Doing
      <4>2. <<g, m>> \in files'
        BY <2>4, <2>5, <4>1 DEF Fresh
      <4>3. Fresh(g, <<g, m>>)'
        BY <1>1, <1>3, <2>1, <3>1, <4>1, <4>2 DEF Fresh
      <4> QED BY <1>1, <4>3
    <3>2. CASE g = h
      <4>1. Doing(h, "store") /\ handlers'[h].todo # <<>>
        BY <1>3, <3>2, Heads DEF Doing
      <4>2. ~CallFails(h)
        BY <1>1, <4>1 DEF CallFails, Over, Goes, RegisterInv, TablesHold, HandlersHold, HandlerFields
      <4>3. StoreFile(h)
        BY <4>1, <4>2 DEF Doing, RegisterStep, FormStep, FindRow, WriteRow, InsertRow, DropRow, ClearItems, FillItems, FindOneItem,
           WriteOneItem, DropOneItem, ReadRows, ReadTheItems, CheckNumber, LookForRevision, AddRevision, ArchiveRow, SignStage, AttachFile, RemoveFile
      <4>0. PICK n : n = <<h, arrived>>
        OBVIOUS
      <4>4. handlers'[h].new = {n} /\ n \in files'
        BY <1>1, <4>0, <4>3 DEF StoreFile, On, Goes, RegisterInv, TablesHold, HandlersHold, HandlerFields
      <4>5. Storing(h)
        BY <1>3, <4>1, Pending
      <4>6. \A m : Named(m) => m # n
        BY <1>1, <4>0, <4>5 DEF Named
      <4>7. Fresh(h, n)'
        <5>1. \A i \in items' : i.name # n
          BY <2>1, <4>6 DEF AttachmentInv, NamesHold
        <5>2. \A e \in Handlers : Held(e)' => handlers'[e].item.name # n
          BY <1>1, <4>6 DEF AttachmentInv, NamesHold
        <5> QED BY <4>4, <5>1, <5>2 DEF Fresh
      <4> QED BY <1>1, <3>2, <4>0, <4>7
    <3> QED BY <3>1, <3>2
  <2>7. FilesThere'
    <3> SUFFICES ASSUME NEW i \in items'
                 PROVE  i.name \in files' \/ i \in cut' \/ \E g \in Handlers : handlers'[g].item = i /\ Doing(g, "drop_item")'
      BY DEF FilesThere
    <3>1. i \in items
      BY <2>1
    <3>2. CASE i.name \in files
      <4>1. CASE i.name \in files'
        BY <4>1
      <4>2. CASE RemoveFile(h) /\ i.name = handlers[h].item.name
        <5>1. handlers[h].item = i
          BY <2>5, <3>1, <4>2 DEF AttachmentInv, OneByName
        <5>2. Doing(h, "unstore") /\ handlers' = On(h)
          BY <4>2 DEF RemoveFile
        <5>3. handlers'[h].todo = Tail(handlers[h].todo)
          BY <1>1, <5>2 DEF On, Goes, RegisterInv, TablesHold, HandlersHold, HandlerFields
        <5>4. handlers'[h].todo # <<>>
          <6>1. Len(Tail(handlers[h].todo)) = 1
            BY <1>3, <5>2, DropsNext DEF Legal, Doing
          <6>2. Len(<<>>) = 0
            BY EmptySeq
          <6>3. Len(handlers'[h].todo) = 1
            BY <5>3, <6>1
          <6> QED BY <6>2, <6>3
        <5>5. Doing(h, "drop_item")'
          BY <1>3, <5>2, <5>4, Pending
        <5> QED BY <1>1, <5>1, <5>5
      <4> QED BY <2>4, <3>2, <4>1, <4>2
    <3>3. cut \subseteq cut'
      OBVIOUS
    <3>4. ASSUME NEW g \in Handlers, handlers[g].item = i, Doing(g, "drop_item")
          PROVE  i \in cut' \/ (handlers'[g].item = i /\ Doing(g, "drop_item")')
      <4>1. CASE g # h
        BY <1>1, <1>3, <3>4, <4>1 DEF Doing
      <4>2. CASE g = h /\ CallFails(h)
        <5>1. refused' # refused
          BY <1>1, <4>2, BoundsAssumption DEF CallFails, RegisterInv, TablesHold
        <5>2. RegisterStep(h) /\ ~FormStep(h)
          <6>1. ~RemoveFile(h)
            BY <3>4, <4>2 DEF RemoveFile, Doing
          <6>2. FormStep(h) => refused' = refused
            BY <6>1 DEF FormStep, CheckNumber, LookForRevision, AddRevision, ArchiveRow, SignStage, StoreFile, AttachFile, Rest
          <6> QED BY <5>1, <6>2
        <5> QED BY <3>4, <4>2, <5>1, <5>2 DEF CutShort
      <4>3. CASE g = h /\ ~CallFails(h)
        <5>1. DropOneItem(h)
          BY <3>4, <4>3 DEF Doing, RegisterStep, FormStep, FindRow, WriteRow, InsertRow, DropRow, ClearItems, FillItems, FindOneItem,
             WriteOneItem, ReadRows, ReadTheItems, CheckNumber, LookForRevision, AddRevision, ArchiveRow, SignStage, StoreFile, AttachFile, RemoveFile
        <5>2. i \notin items'
          BY <3>1, <3>4, <4>3, <5>1 DEF DropOneItem, Stored
        <5> QED BY <5>2
      <4> QED BY <4>1, <4>2, <4>3
    <3> QED BY <3>1, <3>2, <3>3, <3>4 DEF AttachmentInv, FilesThere
  <2> QED BY <1>1, <2>2, <2>3, <2>6, <2>7 DEF AttachmentInv
<1> QED BY <1>4, <1>5

\* A removal is asked for of an attachment that is listed; what has come before has come earlier.
LEMMA AttachmentAsked ==
    ASSUME AttachmentInv, NEW h \in Handlers, Comes("services", h), files' = files, cut' = cut
    PROVE  AttachmentInv'
<1> PICK kind, id, item, viewer, calls :
       /\ Arrive(h, kind, id, item, viewer, calls) /\ Starts("services", calls)
       /\ \/ JustReads(calls) \/ Stores(calls) \/ (id \in RowIds /\ OnRow(calls))
          \/ (item \in items /\ id = item.parent)
  BY DEF Comes
<1>1. /\ RegisterInv("services") /\ RegisterInv("services")'
      /\ \A g \in Handlers \ {h} : handlers'[g] = handlers[g]
      /\ handlers'[h].todo # <<>> => Head(handlers'[h].todo).op \notin Later
      /\ items' = items
  BY RequestStays DEF AttachmentInv
<1>2. handlers'[h].todo = calls /\ handlers'[h].item = item /\ arrived' = arrived + 1 /\ arrived \in Nat /\ handlers[h].todo = <<>>
  BY <1>1, BoundsAssumption DEF Arrive, Awaits, Idle, RegisterInv, TablesHold, HandlersHold, HandlerFields
<1>3. Held(h)' => item \in items
  BY <1>2 DEF Held, JustReads, Stores, OnRow
<1>4. \A g \in Handlers \ {h} : /\ Held(g)' <=> Held(g)
                                /\ \A op : Doing(g, op)' <=> Doing(g, op)
  BY <1>1 DEF Held, Doing
<1>5. ASSUME NEW n, Named(n) PROVE Named(n)'
  <2>1. PICK g \in Handlers, k \in 0 .. arrived : n = <<g, k>>
    BY <1>5 DEF Named
  <2>2. k \in 0 .. arrived' /\ k < arrived'
    BY <1>2
  <2> QED BY <2>1, <2>2 DEF Named
<1>6. NamesHold'
  <2>1. \A i \in items' : Named(i.name)'
    BY <1>1, <1>5 DEF AttachmentInv, NamesHold
  <2>2. ASSUME NEW g \in Handlers, Held(g)' PROVE Named(handlers[g].item.name)'
    <3>1. PICK m : m = handlers'[g].item.name
      OBVIOUS
    <3>2. Named(m)
      <4>1. CASE g = h
        BY <1>2, <1>3, <2>2, <3>1, <4>1 DEF AttachmentInv, NamesHold
      <4>2. CASE g # h
        BY <1>1, <1>4, <2>2, <3>1, <4>2 DEF AttachmentInv, NamesHold
      <4> QED BY <4>1, <4>2
    <3>3. Named(m)'
      BY <1>5, <3>2
    <3> QED BY <3>1, <3>3 DEF Named
  <2> QED BY <2>1, <2>2 DEF NamesHold
<1>7. OneByName'
  <2>1. \A i, j \in items' : i.name = j.name => i = j
    BY <1>1 DEF AttachmentInv, OneByName
  <2>2. ASSUME NEW g \in Handlers, Held(g)', NEW i \in items', i.name = handlers'[g].item.name PROVE i = handlers'[g].item
    <3>1. CASE g = h
      BY <1>1, <1>2, <1>3, <2>1, <2>2, <3>1
    <3>2. CASE g # h
      BY <1>1, <1>4, <2>2, <3>2 DEF AttachmentInv, OneByName
    <3> QED BY <3>1, <3>2
  <2> QED BY <2>1, <2>2 DEF OneByName
<1>8. FreshHold'
  <2> SUFFICES ASSUME NEW g \in Handlers, Doing(g, "attach")' PROVE \E m \in 0 .. arrived' : Fresh(g, <<g, m>>)'
    BY DEF FreshHold
  <2>1. g # h
    BY <1>1 DEF Doing, Later
  <2>2. PICK m \in 0 .. arrived : Fresh(g, <<g, m>>)
    BY <1>4, <2>1 DEF AttachmentInv, FreshHold
  <2>3. \A e \in Handlers : Held(e)' => handlers'[e].item.name # <<g, m>>
    <3>1. Held(h)' => handlers'[h].item.name # <<g, m>>
      BY <1>2, <1>3, <2>2 DEF Fresh
    <3>2. \A e \in Handlers \ {h} : Held(e)' => handlers'[e].item.name # <<g, m>>
      BY <1>1, <1>4, <2>2 DEF Fresh
    <3> QED BY <3>1, <3>2
  <2>4. Fresh(g, <<g, m>>)'
    BY <1>1, <2>1, <2>2, <2>3 DEF Fresh
  <2>5. m \in 0 .. arrived'
    BY <1>2
  <2> QED BY <2>4, <2>5
<1>9. FilesThere'
  <2> SUFFICES ASSUME NEW i \in items
               PROVE  i.name \in files' \/ i \in cut' \/ \E g \in Handlers : handlers'[g].item = i /\ Doing(g, "drop_item")'
    BY <1>1 DEF FilesThere
  <2>1. ASSUME NEW g \in Handlers, handlers[g].item = i, Doing(g, "drop_item")
        PROVE  handlers'[g].item = i /\ Doing(g, "drop_item")'
    <3>1. g # h
      BY <1>2, <2>1 DEF Doing
    <3> QED BY <1>1, <1>4, <2>1, <3>1
  <2> QED BY <1>1, <2>1 DEF AttachmentInv, FilesThere
<1> QED BY <1>1, <1>6, <1>7, <1>8, <1>9 DEF AttachmentInv

\* What the pages of a service record were told is kept is kept, for any number of requests and
\* records at once and whichever calls fail: the image of a stage that was signed, unless a
\* signature of the same record that had looked before writes it away, and the file behind an
\* attachment that is listed, unless its own removal is between the file and the row or failed there.
\* It rests on who signs having seen all that was signed up to the version it has seen, on an upload
\* storing its file before it names it, and on no two files having one name.
THEOREM SignaturesAndFilesKept ==
    ASSUME NEW t \in RegisterTables, NEW fill \in [RowIds -> Columns \cup {NoRow}], NEW itemsOf,
           t = "services" => itemsOf = {}
    PROVE  RegistersSpec(t, fill, itemsOf) => []SignedAndFiledIsKept
<1>1. CASE t # "services"
  <2>1. RegisterInv(t) => SignedAndFiledIsKept
    BY <1>1 DEF RegisterInv, TablesHold, SignedAndFiledIsKept
  <2> QED BY <2>1, RegistersHold, PTL
<1>2. CASE t = "services"
  <2>1. RegistersInit(t, fill, itemsOf) => SignatureInv /\ AttachmentInv
    <3> SUFFICES ASSUME RegistersInit(t, fill, itemsOf) PROVE SignatureInv /\ AttachmentInv
      OBVIOUS
    <3>1. RegisterInv("services")
      BY <1>2, RegistersStart
    <3>2. /\ \A h \in Handlers : handlers[h].todo = <<>>
          /\ items = {} /\ promised = {}
      BY <1>2 DEF RegistersInit, RegisterInit, FormsInit, Idle
    <3>3. \A h \in Handlers : ~Held(h) /\ \A op : ~Doing(h, op)
      <4>1. Len(<<>>) = 0
        BY EmptySeq
      <4> QED BY <3>2, <4>1 DEF Held, Doing
    <3>4. SignatureInv
      BY <3>1, <3>2, <3>3 DEF SignatureInv
    <3>5. AttachmentInv
      BY <3>1, <3>2, <3>3 DEF AttachmentInv, NamesHold, OneByName, FreshHold, FilesThere
    <3> QED BY <3>4, <3>5
  <2>2. SignatureInv /\ AttachmentInv /\ [FormsNext]_form_vars => (SignatureInv /\ AttachmentInv)'
    <3> SUFFICES ASSUME SignatureInv, AttachmentInv, [FormsNext]_form_vars PROVE SignatureInv' /\ AttachmentInv'
      OBVIOUS
    <3>0. RegisterInv(t) /\ table = t
      BY <1>2 DEF SignatureInv, RegisterInv, TablesHold
    <3>1. CASE UNCHANGED form_vars
      <4>1. RegisterInv("services")'
        BY <1>2, <3>0, <3>1, RegistersStay
      <4>2. SignatureInv'
        BY <3>1, <4>1 DEF SignatureInv, form_vars, register_vars, Ids, Doing
      <4>3. NamesHold' /\ OneByName'
        BY <3>1 DEF AttachmentInv, NamesHold, OneByName, Named, Held, Storing, form_vars, register_vars
      <4>4. UNCHANGED <<handlers, items, files, arrived, cut>>
        BY <3>1 DEF form_vars, register_vars
      <4>5. \A g \in Handlers : /\ Doing(g, "attach")' = Doing(g, "attach") /\ Doing(g, "drop_item")' = Doing(g, "drop_item")
                              /\ \A n : Fresh(g, n)' = Fresh(g, n)
        BY <4>4 DEF Doing, Fresh, Held
      <4>6. FreshHold'
        BY <4>4, <4>5 DEF AttachmentInv, FreshHold
      <4>7. FilesThere'
        BY <4>4, <4>5 DEF AttachmentInv, FilesThere
      <4> QED BY <4>1, <4>2, <4>3, <4>6, <4>7 DEF AttachmentInv
    <3>2. ASSUME NEW h \in Handlers, FormStep(h), UNCHANGED cut PROVE SignatureInv' /\ AttachmentInv'
      BY <3>2, SignaturesStay, AttachmentsStay
    <3>3. ASSUME NEW h \in Handlers, RegisterStep(h), UNCHANGED files, promised' = {p \in promised : rows'[p.id] # NoRow},
                 cut' = cut \cup CutShort(h)
          PROVE  SignatureInv' /\ AttachmentInv'
      BY <3>3, SignaturesStay, AttachmentsStay
    <3>4. ASSUME NEW h \in Handlers, FormRequest(h), UNCHANGED <<files, promised, cut>> PROVE SignatureInv' /\ AttachmentInv'
      <4>1. Comes(t, h)
        BY <1>2, <3>0, <3>4, Requests DEF FormTables
      <4>2. /\ RegisterInv("services")' /\ UNCHANGED <<rows, items>>
            /\ \A g \in Handlers \ {h} : handlers'[g] = handlers[g]
            /\ handlers'[h].todo # <<>> => Head(handlers'[h].todo).op \notin Later
        BY <1>2, <3>0, <4>1, RequestStays
      <4>3. \A g \in Handlers : Doing(g, "sign")' => g # h
        BY <4>2 DEF Doing, Later
      <4>4. SignatureInv'
        BY <3>4, <4>2, <4>3 DEF SignatureInv, Ids, Doing
      <4>5. AttachmentInv'
        BY <1>2, <3>4, <4>1, AttachmentAsked
      <4> QED BY <4>4, <4>5
    <3> QED BY <1>2, <3>0, <3>1, <3>2, <3>3, <3>4 DEF FormsNext, Asked, FormTables
  <2>3. SignatureInv /\ AttachmentInv => SignedAndFiledIsKept
    BY DEF SignatureInv, AttachmentInv, FilesThere, SignedAndFiledIsKept
  <2> QED BY <2>1, <2>2, <2>3, PTL DEF RegistersSpec
<1> QED BY <1>1, <1>2

-----------------------------------------------------------------------------
(* The files of the library. *)

FileColumns == {"name", "folder", "starred", "trashed", "print", "text"}
FileValues == Seq(NameParts) \cup FolderIds \cup {Unfiled} \cup Paths \cup {NoFile} \cup BOOLEAN
FilePatches ==
    {p \in UNION {[fields -> FileValues] : fields \in SUBSET FileColumns} :
        /\ "name" \in DOMAIN p => p["name"] \in Seq(NameParts)
        /\ "folder" \in DOMAIN p => p["folder"] \in FolderIds \cup {Unfiled}
        /\ "print" \in DOMAIN p => p["print"] \in Paths \cup {NoFile}
        /\ "starred" \in DOMAIN p => p["starred"] \in BOOLEAN
        /\ "trashed" \in DOMAIN p => p["trashed"] \in BOOLEAN
        /\ "text" \in DOMAIN p => p["text"] \in BOOLEAN}
Tasks == {"upload", "update", "trash", "restore", "purge", "unstar", "print", "reindex"}
Hands ==
    [pc : {"idle", "look", "store", "write", "drop", "delete"}, kind : {"none"} \cup Tasks, id : DocIds \cup {NoDoc},
     doc : Files \cup {NoDoc}, patch : FilePatches, path : Paths \cup {NoFile}, drop : SUBSET Paths]

PathsOf(doc) == {doc.file, doc.print} \ {NoFile}

\* What a request holds at each of its calls.
OnCourse(me) ==
    /\ me.pc = "idle" => me = FreeClerk
    /\ me.pc # "idle" => me.kind \in Tasks /\ me.doc \in Files /\ (me.kind # "upload" => me.id \in DocIds)
    /\ me.pc = "look" => me.kind \in {"upload", "update", "restore"}
    /\ me.pc = "store" => me.kind \in {"upload", "print"}
    /\ me.pc \in {"look", "store"} => me.path = NoFile /\ me.drop = {}
    /\ me.pc = "write" => me.kind # "purge"
    /\ me.pc = "drop" => me.kind \in {"upload", "print", "purge"}
    /\ me.pc = "delete" => me.kind = "purge"
    /\ me.kind = "upload" /\ me.pc \in {"look", "store", "write"} =>
          /\ me.doc.print = NoFile /\ ~me.doc.trashed /\ me.patch = <<>> /\ me.doc.file = me.path
          /\ me.pc = "write" => me.path # NoFile /\ me.drop = {}
    /\ me.kind = "print" /\ me.pc = "write" =>
          DOMAIN me.patch = {"print"} /\ me.patch["print"] = me.path /\ me.drop = {me.doc.print} \ {NoFile}
    /\ me.kind \in {"update", "trash", "restore", "unstar", "reindex"} => me.path = NoFile /\ me.drop = {}
    /\ me.kind = "update" => DOMAIN me.patch \subseteq {"name", "folder", "starred"}
    /\ me.kind = "trash" => DOMAIN me.patch = {"trashed"} /\ me.patch["trashed"] = TRUE
    /\ me.kind = "restore" => DOMAIN me.patch \subseteq {"name", "trashed"} /\ "trashed" \in DOMAIN me.patch /\ me.patch["trashed"] = FALSE
    /\ me.kind \in {"unstar", "reindex"} => DOMAIN me.patch \subseteq {"starred", "text"}
    /\ me.kind = "purge" => me.doc.trashed /\ me.path = NoFile /\ me.drop = PathsOf(me.doc)
    /\ me.kind = "restore" => me.doc.trashed

FilesTyped ==
    /\ docs \in [DocIds -> Files \cup {NoDoc}]
    /\ stored \subseteq Paths
    /\ clerk \in [Clerks -> Hands]
    /\ \A c \in Clerks : OnCourse(clerk[c])
    /\ file_excuses \subseteq {"crossed", "half_purged", "leftover"}

\* Two rows have no stored file between them, nor is a print copy the file itself; a folder
\* has a content once.
RowsApart(library) ==
    /\ \A i \in DocIds : library[i] # NoDoc /\ library[i].file = library[i].print => library[i].file = NoFile
    /\ \A i, j \in DocIds : library[i] # NoDoc /\ library[j] # NoDoc /\ i # j => PathsOf(library[i]) \cap PathsOf(library[j]) = {}
Twins(a, b) == ~a.trashed /\ ~b.trashed /\ a.folder = b.folder
CopiesApart(library) ==
    \A i, j \in DocIds : library[i] # NoDoc /\ library[j] # NoDoc /\ i # j /\ Twins(library[i], library[j]) => library[i].content # library[j].content
NamesApart(library) ==
    \A i, j \in DocIds : library[i] # NoDoc /\ library[j] # NoDoc /\ i # j /\ Twins(library[i], library[j]) => library[i].name # library[j].name

\* What is stored for a row is not yet that of another, nor of another request.
FreshPaths ==
    \A c \in Clerks : clerk[c].pc = "write" /\ clerk[c].path # NoFile =>
        /\ \A i \in Docs : clerk[c].path \notin PathsOf(docs[i])
        /\ \A d \in Clerks \ {c} : clerk[d].path # clerk[c].path

\* What a request has read stays so until it has written: the row, the names around it, and
\* the files that are to go.
RowHolds(me, library) ==
    me.kind \notin {"none", "upload"} /\ (me.pc = "drop" => me.kind = "purge") => library[me.id] = me.doc
Result(me) == IF me.kind = "upload" THEN me.doc ELSE Put(me.doc, me.patch)
NameHolds(me, library) ==
    me.pc = "write" \/ (me.pc = "store" /\ me.kind = "upload") =>
        \A j \in DocIds : library[j] # NoDoc /\ (me.kind = "upload" \/ j # me.id) /\ Twins(Result(me), library[j])
                          => library[j].name # Result(me).name
FilesHold(me, library, there) ==
    /\ me.pc = "write" /\ me.path # NoFile => me.path \in there
    /\ me.pc = "drop" /\ me.kind # "purge" =>
          /\ \A i \in DocIds : library[i] # NoDoc => me.drop \cap PathsOf(library[i]) = {}
          /\ me.path \in me.drop \/ \E i \in DocIds : library[i] # NoDoc /\ me.path \in {library[i].file, library[i].print}
    /\ me.pc = "delete" => me.drop \cap there = {}
ClerkHolds(me, library, there) == RowHolds(me, library) /\ NameHolds(me, library) /\ FilesHold(me, library, there)

\* A row has its files, but for one that is being purged, and a file its row or its request.
RowsHaveFiles(library, there, hands) ==
    \A i \in DocIds : library[i] # NoDoc =>
        \/ PathsOf(library[i]) \subseteq there
        \/ library[i].trashed /\ \E c \in Clerks : hands[c].pc = "delete" /\ hands[c].id = i
FilesHaveRows(library, there, hands) ==
    \A p \in there : \/ \E i \in DocIds : library[i] # NoDoc /\ p \in PathsOf(library[i])
                     \/ \E c \in Clerks : p \in {hands[c].path} \cup hands[c].drop

FilesInv ==
    /\ FilesTyped /\ RowsApart(docs) /\ CopiesApart(docs) /\ FreshPaths
    /\ "crossed" \notin file_excuses =>
          /\ NamesApart(docs)
          /\ \A c \in Clerks : ClerkHolds(clerk[c], docs, stored)
          /\ "half_purged" \notin file_excuses => RowsHaveFiles(docs, stored, clerk)
          /\ file_excuses = {} => FilesHaveRows(docs, stored, clerk)

\* A patch changes the columns it names, and leaves the others.
LEMMA PutColumns ==
    ASSUME NEW doc \in Files, NEW p \in FilePatches
    PROVE  /\ Put(doc, p) \in Files
           /\ Put(doc, p).file = doc.file /\ Put(doc, p).content = doc.content
           /\ Put(doc, p).name = IF "name" \in DOMAIN p THEN p["name"] ELSE doc.name
           /\ Put(doc, p).folder = IF "folder" \in DOMAIN p THEN p["folder"] ELSE doc.folder
           /\ Put(doc, p).print = IF "print" \in DOMAIN p THEN p["print"] ELSE doc.print
           /\ Put(doc, p).trashed = IF "trashed" \in DOMAIN p THEN p["trashed"] ELSE doc.trashed
<1>. DEFINE columns == {"name", "folder", "content", "file", "print", "trashed", "starred", "text"}
<1>1. DOMAIN doc = columns
  BY DEF Files
<1>2. DOMAIN p \subseteq FileColumns
  BY DEF FilePatches
<1>3. Put(doc, p) = [f \in columns |-> IF f \in DOMAIN p THEN p[f] ELSE doc[f]]
  BY <1>1 DEF Put
<1>. DEFINE new == [name |-> IF "name" \in DOMAIN p THEN p["name"] ELSE doc.name,
                    folder |-> IF "folder" \in DOMAIN p THEN p["folder"] ELSE doc.folder,
                    content |-> doc.content, file |-> doc.file,
                    print |-> IF "print" \in DOMAIN p THEN p["print"] ELSE doc.print,
                    trashed |-> IF "trashed" \in DOMAIN p THEN p["trashed"] ELSE doc.trashed,
                    starred |-> IF "starred" \in DOMAIN p THEN p["starred"] ELSE doc.starred,
                    text |-> IF "text" \in DOMAIN p THEN p["text"] ELSE doc.text]
<1>4. Put(doc, p) = new
  BY <1>2, <1>3 DEF FileColumns
<1>5. new \in Files
  BY DEF FilePatches, Files
<1>. QED
  BY <1>4, <1>5

LEMMA EmptyPatch == <<>> \in FilePatches /\ DOMAIN <<>> = {}
<1>1. <<>> \in [{} -> FileValues] /\ DOMAIN <<>> = {}
  OBVIOUS
<1>. QED
  BY <1>1 DEF FilePatches

\* The patches of the endpoints.
LEMMA OwnPatches ==
    /\ [trashed |-> TRUE] \in FilePatches /\ [trashed |-> FALSE] \in FilePatches /\ [starred |-> FALSE] \in FilePatches
    /\ [starred |-> TRUE] \in FilePatches /\ [text |-> TRUE] \in FilePatches
    /\ [name |-> <<"b">>] \in FilePatches
    /\ \A f \in FolderIds \cup {Unfiled} : [folder |-> f] \in FilePatches
    /\ \A p \in Paths \cup {NoFile} : [print |-> p] \in FilePatches
<1>1. <<"b">> \in Seq(NameParts) /\ <<"a">> \in Seq(NameParts)
  BY DEF NameParts
<1>2. ASSUME NEW n \in Seq(NameParts) PROVE [name |-> n] \in FilePatches
  <2>1. [name |-> n] \in [{"name"} -> FileValues]
    BY DEF FileValues
  <2>. QED
    BY <2>1 DEF FilePatches, FileColumns
<1>3. ASSUME NEW b \in BOOLEAN
      PROVE  [trashed |-> b] \in FilePatches /\ [starred |-> b] \in FilePatches /\ [text |-> b] \in FilePatches
  <2>1. b \in FileValues
    BY Zenon DEF FileValues
  <2>2. [trashed |-> b] \in [{"trashed"} -> FileValues]
    BY <2>1
  <2>3. [starred |-> b] \in [{"starred"} -> FileValues]
    BY <2>1
  <2>4. [text |-> b] \in [{"text"} -> FileValues]
    BY <2>1
  <2>. QED
    BY <2>2, <2>3, <2>4 DEF FilePatches, FileColumns
<1>4. ASSUME NEW f \in FolderIds \cup {Unfiled} PROVE [folder |-> f] \in FilePatches
  <2>1. [folder |-> f] \in [{"folder"} -> FileValues]
    BY DEF FileValues
  <2>. QED
    BY <2>1 DEF FilePatches, FileColumns
<1>5. ASSUME NEW p \in Paths \cup {NoFile} PROVE [print |-> p] \in FilePatches
  <2>1. [print |-> p] \in [{"print"} -> FileValues]
    BY DEF FileValues
  <2>. QED
    BY <2>1 DEF FilePatches, FileColumns
<1>. QED
  BY <1>1, <1>2, <1>3, <1>4, <1>5

\* With the name a file gets in its folder.
LEMMA NamedPatch ==
    ASSUME NEW p \in FilePatches, NEW name \in Seq(NameParts),
           NEW q, q = [f \in DOMAIN p \cup {"name"} |-> IF f = "name" THEN name ELSE p[f]]
    PROVE  /\ q \in FilePatches /\ DOMAIN q = DOMAIN p \cup {"name"} /\ q["name"] = name
           /\ \A f \in DOMAIN p \ {"name"} : q[f] = p[f]
<1>1. DOMAIN p \subseteq FileColumns /\ \A f \in DOMAIN p : p[f] \in FileValues
  BY DEF FilePatches
<1>2. name \in FileValues
  BY DEF FileValues
<1>3. q \in [DOMAIN p \cup {"name"} -> FileValues]
  BY <1>1, <1>2
<1>4. DOMAIN p \cup {"name"} \in SUBSET FileColumns
  BY <1>1 DEF FileColumns
<1>5. q \in UNION {[fields -> FileValues] : fields \in SUBSET FileColumns}
  BY <1>3, <1>4
<1>. QED
  BY <1>5 DEF FilePatches

LEMMA SomeLeast ==
    ASSUME NEW S \in SUBSET Nat, S # {}
    PROVE  \E n \in S : \A m \in S : n <= m
<1>1. IsWellFoundedOn(OpToRel(<, Nat), Nat)
  BY NatLessThanWellFounded
<1>2. PICK x \in S : \A y \in S : ~(<<y, x>> \in OpToRel(<, Nat))
  BY <1>1, WFMin
<1>3. ASSUME NEW y \in S, y < x PROVE FALSE
  <2>1. <<y, x>> \in OpToRel(<, Nat)
    BY <1>3 DEF OpToRel
  <2>. QED
    BY <2>1, <1>2
<1>. QED
  BY <1>3

\* There is a number that makes the name free, since more numbers are tried than names are
\* taken.
LEMMA FreeName ==
    ASSUME NEW wanted \in Seq(NameParts), NEW taken, IsFiniteSet(taken)
    PROVE  unique_display_name(wanted, taken) \in Seq(NameParts) \ taken
<1>. DEFINE tried == 2 .. Cardinality(taken) + 2
<1>. DEFINE numbered == [n \in tried |-> Append(wanted, n)]
<1>1. Cardinality(taken) \in Nat
  BY FS_CardinalityType
<1>2. \A n \in tried : n \in Nat /\ n \in NameParts
  BY <1>1 DEF NameParts
<1>3. \A n \in tried : Append(wanted, n) \in Seq(NameParts) /\ Append(wanted, n)[Len(wanted) + 1] = n
  BY <1>2
<1>. DEFINE free == {n \in tried : Append(wanted, n) \notin taken}
<1>4. free # {}
  <2>. SUFFICES ASSUME free = {} PROVE FALSE
    OBVIOUS
  <2>1. \A n \in tried : numbered[n] \in taken
    OBVIOUS
  <2>2. \A m, n \in tried : numbered[m] = numbered[n] => m = n
    BY <1>3
  <2>3. numbered \in Injection(tried, taken)
    BY <2>1, <2>2 DEF Injection, IsInjective
  <2>4. Cardinality(tried) <= Cardinality(taken)
    BY <2>3, FS_Injection
  <2>5. Cardinality(tried) = Cardinality(taken) + 1
    BY <1>1, FS_Interval
  <2>. QED
    BY <2>4, <2>5, <1>1
<1>5. PICK n \in free : \A m \in free : n <= m
  BY <1>2, <1>4, SomeLeast
<1>6. n \in tried /\ Append(wanted, n) \notin taken /\ \A m \in 2 .. n - 1 : Append(wanted, m) \in taken
  <2>1. n \in tried /\ Append(wanted, n) \notin taken
    OBVIOUS
  <2>2. ASSUME NEW m \in 2 .. n - 1 PROVE Append(wanted, m) \in taken
    <3>1. m \in tried /\ ~(n <= m)
      BY <1>1, <2>1
    <3>. QED
      BY <3>1, <1>5
  <2>. QED
    BY <2>1, <2>2
<1>. DEFINE number == CHOOSE k \in tried : Append(wanted, k) \notin taken /\ \A m \in 2 .. k - 1 : Append(wanted, m) \in taken
<1>7. number \in tried /\ Append(wanted, number) \notin taken
  BY <1>6
<1>8. CASE wanted \notin taken
  BY <1>8 DEF unique_display_name
<1>9. CASE wanted \in taken
  <2>1. unique_display_name(wanted, taken) = Append(wanted, number)
    BY <1>9 DEF unique_display_name
  <2>. QED
    BY <2>1, <1>7, <1>3
<1>. QED
  BY <1>8, <1>9

\* The names of a folder are finitely many.
LEMMA FinitelyNamed ==
    ASSUME NEW folder, FilesAssumption
    PROVE  IsFiniteSet(_names_in(folder))
<1>. DEFINE those == {id \in Docs : docs[id].folder = folder /\ ~docs[id].trashed}
<1>1. IsFiniteSet(those)
  BY FS_Subset DEF Docs, FilesAssumption
<1>2. \E f : f \in Surjection(those, _names_in(folder))
  <2>1. [id \in those |-> docs[id].name] \in Surjection(those, _names_in(folder))
    BY DEF _names_in, Surjection
  <2>. QED
    BY <2>1
<1>. QED
  BY <1>1, <1>2, FS_Surjection

\* The request that steps holds something else, and the others what they held.
LEMMA OneTakes ==
    ASSUME FilesTyped, NEW c \in Clerks, NEW next \in Hands, OnCourse(next), Takes(c, next)
    PROVE  /\ clerk' \in [Clerks -> Hands]
           /\ clerk'[c] = next
           /\ \A d \in Clerks \ {c} : clerk'[d] = clerk[d]
           /\ \A d \in Clerks : OnCourse(clerk'[d])
<1>1. clerk \in [Clerks -> Hands] /\ clerk' = [clerk EXCEPT ![c] = next]
  BY DEF FilesTyped, Takes
<1>2. /\ clerk' \in [Clerks -> Hands]
      /\ clerk'[c] = next
      /\ \A d \in Clerks \ {c} : clerk'[d] = clerk[d]
  BY <1>1
<1>3. ASSUME NEW d \in Clerks PROVE OnCourse(clerk'[d])
  <2>1. OnCourse(clerk[d])
    BY DEF FilesTyped
  <2>2. CASE d = c
    BY <1>2, <2>2
  <2>3. CASE d # c
    <3>1. clerk'[d] = clerk[d]
      BY <1>2, <2>3
    <3>. QED
      BY <2>1, <3>1
  <2>. QED
    BY <2>2, <2>3
<1>. QED
  BY <1>2, <1>3

LEMMA FreeOnCourse == FreeClerk \in Hands /\ OnCourse(FreeClerk)
<1>1. FreeClerk \in Hands
  BY EmptyPatch DEF FreeClerk, Hands
<1>2. FreeClerk.pc = "idle" /\ FreeClerk.kind = "none"
  BY DEF FreeClerk
<1>. QED
  BY <1>1, <1>2 DEF OnCourse

LEMMA FreeHolds ==
    ASSUME NEW library, NEW there
    PROVE  ClerkHolds(FreeClerk, library, there)
BY DEF FreeClerk, ClerkHolds, RowHolds, NameHolds, FilesHold

\* A step that leaves the rows alone, and removes no file.
LEMMA LeavesRows ==
    ASSUME FilesInv, FilesAssumption, NEW c \in Clerks, NEW next \in Hands, OnCourse(next), Takes(c, next),
           docs' = docs, NEW added \in SUBSET Paths, stored' = stored \cup added,
           \A d \in Clerks \ {c} : added \cap clerk[d].drop = {},
           file_excuses \subseteq file_excuses', file_excuses' \subseteq {"crossed", "half_purged", "leftover"},
           next.path = clerk[c].path \/ next.path = NoFile
           \/ /\ \A i \in Docs : next.path \notin PathsOf(docs[i])
              /\ \A d \in Clerks \ {c} : next.path # clerk[d].path,
           next.pc = "write" /\ next.path # NoFile => clerk[c].pc # "drop" /\ (next.path = clerk[c].path => clerk[c].pc = "write"),
           "crossed" \notin file_excuses' => ClerkHolds(next, docs, stored'),
           clerk[c].pc = "delete" => "half_purged" \in file_excuses',
           file_excuses' = {} =>
               /\ \A p \in added : p = next.path
               /\ \A p \in {clerk[c].path} \cup clerk[c].drop :
                     \/ p \in {next.path, NoFile} \cup next.drop
                     \/ \E i \in DocIds : docs[i] # NoDoc /\ p \in PathsOf(docs[i])
    PROVE  FilesInv'
<1>. DEFINE me == clerk[c]
<1>0. FilesTyped /\ RowsApart(docs) /\ CopiesApart(docs) /\ FreshPaths
  BY DEF FilesInv
<1>1. /\ clerk' \in [Clerks -> Hands]
      /\ clerk'[c] = next
      /\ \A d \in Clerks \ {c} : clerk'[d] = clerk[d]
      /\ \A d \in Clerks : OnCourse(clerk'[d])
  BY <1>0, OneTakes
<1>2. FilesTyped'
  <2>1. stored' \subseteq Paths /\ docs' \in [DocIds -> Files \cup {NoDoc}]
    BY <1>0 DEF FilesTyped
  <2>. QED
    BY <1>1, <2>1 DEF FilesTyped
<1>3. FreshPaths'
  <2>1. Docs' = Docs
    BY DEF Docs
  <2>. SUFFICES ASSUME NEW d \in Clerks, clerk'[d].pc = "write", clerk'[d].path # NoFile
                PROVE  /\ \A i \in Docs : clerk'[d].path \notin PathsOf(docs[i])
                       /\ \A e \in Clerks \ {d} : clerk'[e].path # clerk'[d].path
    BY <2>1 DEF FreshPaths
  <2>2. CASE d = c
    <3>1. next.pc = "write" /\ next.path # NoFile
      BY <1>1, <2>2
    <3>2. /\ \A i \in Docs : next.path \notin PathsOf(docs[i])
          /\ \A e \in Clerks \ {c} : next.path # clerk[e].path
      <4>1. CASE next.path = clerk[c].path
        BY <4>1, <3>1, <1>0 DEF FreshPaths
      <4>2. CASE next.path # clerk[c].path
        BY <4>2, <3>1
      <4>. QED
        BY <4>1, <4>2
    <3>. QED
      BY <2>2, <3>2, <1>1
  <2>3. CASE d # c
    <3>1. clerk'[d] = clerk[d]
      BY <1>1, <2>3
    <3>2. /\ \A i \in Docs : clerk[d].path \notin PathsOf(docs[i])
          /\ \A e \in Clerks \ {d} : clerk[e].path # clerk[d].path
      BY <3>1, <1>0 DEF FreshPaths
    <3>3. next.path # clerk[d].path
      <4>1. CASE next.path = clerk[c].path \/ next.path = NoFile
        BY <4>1, <2>3, <3>1, <3>2
      <4>2. CASE next.path # clerk[c].path /\ next.path # NoFile
        BY <4>2, <2>3
      <4>. QED
        BY <4>1, <4>2
    <3>. QED
      BY <3>1, <3>2, <3>3, <1>1
  <2>. QED
    BY <2>2, <2>3
<1>4. ASSUME "crossed" \notin file_excuses'
      PROVE  /\ NamesApart(docs')
             /\ \A d \in Clerks : ClerkHolds(clerk'[d], docs', stored')
             /\ "half_purged" \notin file_excuses' => RowsHaveFiles(docs', stored', clerk')
             /\ file_excuses' = {} => FilesHaveRows(docs', stored', clerk')
  <2>1. "crossed" \notin file_excuses
    BY <1>4
  <2>2. /\ NamesApart(docs)
        /\ \A d \in Clerks : ClerkHolds(clerk[d], docs, stored)
        /\ "half_purged" \notin file_excuses => RowsHaveFiles(docs, stored, clerk)
        /\ file_excuses = {} => FilesHaveRows(docs, stored, clerk)
    BY <2>1 DEF FilesInv
  <2>3. ASSUME NEW d \in Clerks PROVE ClerkHolds(clerk'[d], docs', stored')
    <3>1. CASE d = c
      BY <3>1, <1>1, <1>4
    <3>2. CASE d # c
      <4>1. clerk'[d] = clerk[d]
        BY <1>1, <3>2
      <4>2. ClerkHolds(clerk[d], docs, stored) /\ added \cap clerk[d].drop = {}
        BY <2>2, <3>2
      <4>3. FilesHold(clerk[d], docs, stored')
        BY <4>2 DEF ClerkHolds, FilesHold
      <4>. QED
        BY <4>1, <4>2, <4>3 DEF ClerkHolds
    <3>. QED
      BY <3>1, <3>2
  <2>4. ASSUME "half_purged" \notin file_excuses' PROVE RowsHaveFiles(docs', stored', clerk')
    <3>1. RowsHaveFiles(docs, stored, clerk)
      BY <2>2, <2>4
    <3>2. me.pc # "delete"
      BY <2>4
    <3>. SUFFICES ASSUME NEW i \in DocIds, docs[i] # NoDoc
                  PROVE  \/ PathsOf(docs[i]) \subseteq stored'
                         \/ docs[i].trashed /\ \E d \in Clerks : clerk'[d].pc = "delete" /\ clerk'[d].id = i
      BY DEF RowsHaveFiles
    <3>3. CASE PathsOf(docs[i]) \subseteq stored
      BY <3>3
    <3>4. CASE docs[i].trashed /\ \E d \in Clerks : clerk[d].pc = "delete" /\ clerk[d].id = i
      <4>1. PICK d \in Clerks : clerk[d].pc = "delete" /\ clerk[d].id = i
        BY <3>4
      <4>2. clerk'[d] = clerk[d]
        BY <4>1, <3>2, <1>1
      <4>. QED
        BY <4>1, <4>2, <3>4
    <3>. QED
      BY <3>1, <3>3, <3>4 DEF RowsHaveFiles
  <2>5. ASSUME file_excuses' = {} PROVE FilesHaveRows(docs', stored', clerk')
    <3>1. FilesHaveRows(docs, stored, clerk)
      BY <2>2, <2>5
    <3>. SUFFICES ASSUME NEW p \in stored'
                  PROVE  \/ \E i \in DocIds : docs[i] # NoDoc /\ p \in PathsOf(docs[i])
                         \/ \E d \in Clerks : p \in {clerk'[d].path} \cup clerk'[d].drop
      BY DEF FilesHaveRows
    <3>2. CASE p \in added
      BY <3>2, <2>5, <1>1
    <3>3. CASE p \in stored
      <4>1. CASE \E i \in DocIds : docs[i] # NoDoc /\ p \in PathsOf(docs[i])
        BY <4>1
      <4>2. ASSUME NEW d \in Clerks, p \in {clerk[d].path} \cup clerk[d].drop
            PROVE  \/ \E i \in DocIds : docs[i] # NoDoc /\ p \in PathsOf(docs[i])
                   \/ \E e \in Clerks : p \in {clerk'[e].path} \cup clerk'[e].drop
        <5>1. CASE d = c
          <6>1. p # NoFile
            BY <1>0, <3>3 DEF FilesTyped, FilesAssumption
          <6>. QED
            BY <4>2, <5>1, <6>1, <2>5, <1>1
        <5>2. CASE d # c
          BY <4>2, <5>2, <1>1
        <5>. QED
          BY <5>1, <5>2
      <4>. QED
        BY <3>1, <3>3, <4>1, <4>2 DEF FilesHaveRows
    <3>. QED
      BY <3>2, <3>3
  <2>. QED
    BY <2>2, <2>3, <2>4, <2>5
<1>. QED
  BY <1>0, <1>2, <1>3, <1>4 DEF FilesInv

\* A step that writes or removes a file: while it is alone, nobody else holds anything.
LEMMA WriteStep ==
    ASSUME FilesInv, NEW c \in Clerks, NEW next \in Hands, OnCourse(next), Takes(c, next),
           docs' \in [DocIds -> Files \cup {NoDoc}], stored' \subseteq Paths,
           file_excuses' = file_excuses \cup FileCrossed(c),
           RowsApart(docs'), CopiesApart(docs'),
           next.pc # "write", next.path \in {clerk[c].path, NoFile},
           \A i \in DocIds : docs'[i] # NoDoc =>
               \A p \in PathsOf(docs'[i]) :
                  \/ \E j \in DocIds : docs[j] # NoDoc /\ p \in PathsOf(docs[j])
                  \/ p = clerk[c].path,
           "crossed" \notin file_excuses' =>
               /\ NamesApart(docs')
               /\ ClerkHolds(next, docs', stored')
               /\ "half_purged" \notin file_excuses' => RowsHaveFiles(docs', stored', clerk')
               /\ file_excuses' = {} => FilesHaveRows(docs', stored', clerk')
    PROVE  FilesInv'
<1>0. FilesTyped /\ FreshPaths
  BY DEF FilesInv
<1>1. /\ clerk' \in [Clerks -> Hands]
      /\ clerk'[c] = next
      /\ \A d \in Clerks \ {c} : clerk'[d] = clerk[d]
      /\ \A d \in Clerks : OnCourse(clerk'[d])
  BY <1>0, OneTakes
<1>2. FilesTyped'
  <2>1. file_excuses' \subseteq {"crossed", "half_purged", "leftover"}
    BY <1>0 DEF FilesTyped, FileCrossed
  <2>. QED
    BY <1>1, <2>1 DEF FilesTyped
<1>3. FreshPaths'
  <2>. SUFFICES ASSUME NEW d \in Clerks, clerk'[d].pc = "write", clerk'[d].path # NoFile
                PROVE  /\ \A i \in Docs' : clerk'[d].path \notin PathsOf(docs'[i])
                       /\ \A e \in Clerks \ {d} : clerk'[e].path # clerk'[d].path
    BY DEF FreshPaths
  <2>1. d # c
    BY <1>1
  <2>2. clerk'[d] = clerk[d]
    BY <1>1, <2>1
  <2>3. /\ \A i \in Docs : clerk[d].path \notin PathsOf(docs[i])
        /\ \A e \in Clerks \ {d} : clerk[e].path # clerk[d].path
    BY <1>0, <2>2 DEF FreshPaths
  <2>4. ASSUME NEW i \in Docs' PROVE clerk[d].path \notin PathsOf(docs'[i])
    <3>1. i \in DocIds /\ docs'[i] # NoDoc
      BY DEF Docs
    <3>2. \A j \in DocIds : docs[j] # NoDoc => clerk[d].path \notin PathsOf(docs[j])
      BY <2>3 DEF Docs
    <3>3. clerk[c].path # clerk[d].path
      BY <2>1, <2>3
    <3>. QED
      BY <3>1, <3>2, <3>3
  <2>5. ASSUME NEW e \in Clerks \ {d} PROVE clerk'[e].path # clerk[d].path
    <3>1. CASE e = c
      BY <3>1, <1>1, <2>1, <2>2, <2>3
    <3>2. CASE e # c
      BY <3>2, <1>1, <2>3
    <3>. QED
      BY <3>1, <3>2
  <2>. QED
    BY <2>2, <2>4, <2>5
<1>4. ASSUME "crossed" \notin file_excuses', NEW d \in Clerks PROVE ClerkHolds(clerk'[d], docs', stored')
  <2>1. CASE d = c
    BY <2>1, <1>1, <1>4
  <2>2. CASE d # c
    <3>1. Busy(c) = {}
      BY <1>4 DEF FileCrossed
    <3>2. clerk[d].pc = "idle"
      BY <3>1, <2>2 DEF Busy
    <3>3. clerk'[d] = FreeClerk
      BY <1>0, <1>1, <2>2, <3>2 DEF FilesTyped, OnCourse
    <3>. QED
      BY <3>3, FreeHolds
  <2>. QED
    BY <2>1, <2>2
<1>. QED
  BY <1>2, <1>3, <1>4 DEF FilesInv

\* One row is put in the place of another, with no twin of its content.
LEMMA OneRow ==
    ASSUME FilesTyped, NEW id \in DocIds, NEW doc \in Files, docs' = [docs EXCEPT ![id] = doc], OneCopy(id, doc), CopiesApart(docs)
    PROVE  /\ docs' \in [DocIds -> Files \cup {NoDoc}]
           /\ docs'[id] = doc /\ \A j \in DocIds \ {id} : docs'[j] = docs[j]
           /\ CopiesApart(docs')
<1>1. docs \in [DocIds -> Files \cup {NoDoc}]
  BY DEF FilesTyped
<1>2. docs' \in [DocIds -> Files \cup {NoDoc}] /\ docs'[id] = doc /\ \A j \in DocIds \ {id} : docs'[j] = docs[j]
  BY <1>1
<1>3. \A j \in DocIds \ {id} : docs[j] # NoDoc /\ Twins(doc, docs[j]) => doc.content # docs[j].content
  BY DEF OneCopy, _copy_in, Twins, Docs
<1>4. ASSUME NEW i \in DocIds, NEW j \in DocIds, docs'[i] # NoDoc, docs'[j] # NoDoc, i # j, Twins(docs'[i], docs'[j])
      PROVE  docs'[i].content # docs'[j].content
  <2>1. CASE i = id
    BY <1>2, <1>3, <1>4, <2>1
  <2>2. CASE j = id
    <3>1. Twins(doc, docs[i]) /\ docs[i] # NoDoc
      BY <1>2, <1>4, <2>2 DEF Twins
    <3>. QED
      BY <1>2, <1>3, <1>4, <2>2, <3>1
  <2>3. CASE i # id /\ j # id
    BY <1>2, <1>4, <2>3 DEF CopiesApart
  <2>. QED
    BY <2>1, <2>2, <2>3
<1>. QED
  BY <1>2, <1>4 DEF CopiesApart

\* Its files are those it had, or one that nobody else has.
LEMMA OneRowApart ==
    ASSUME FilesTyped, NEW id \in DocIds, NEW doc \in Files, docs' = [docs EXCEPT ![id] = doc], RowsApart(docs),
           doc.file = doc.print => doc.file = NoFile,
           \A p \in PathsOf(doc) : \/ docs[id] # NoDoc /\ p \in PathsOf(docs[id])
                                   \/ \A j \in Docs : p \notin PathsOf(docs[j])
    PROVE  RowsApart(docs')
<1>1. docs \in [DocIds -> Files \cup {NoDoc}]
  BY DEF FilesTyped
<1>2. docs'[id] = doc /\ \A j \in DocIds \ {id} : docs'[j] = docs[j]
  BY <1>1
<1>3. \A j \in DocIds \ {id} : docs[j] # NoDoc => PathsOf(doc) \cap PathsOf(docs[j]) = {}
  BY DEF RowsApart, Docs
<1>4. ASSUME NEW i \in DocIds, docs'[i] # NoDoc, docs'[i].file = docs'[i].print PROVE docs'[i].file = NoFile
  BY <1>2, <1>4 DEF RowsApart
<1>5. ASSUME NEW i \in DocIds, NEW j \in DocIds, docs'[i] # NoDoc, docs'[j] # NoDoc, i # j
      PROVE  PathsOf(docs'[i]) \cap PathsOf(docs'[j]) = {}
  <2>1. CASE i = id
    BY <1>2, <1>3, <1>5, <2>1
  <2>2. CASE j = id
    BY <1>2, <1>3, <1>5, <2>2
  <2>3. CASE i # id /\ j # id
    BY <1>2, <1>5, <2>3 DEF RowsApart
  <2>. QED
    BY <2>1, <2>2, <2>3
<1>. QED
  BY <1>4, <1>5 DEF RowsApart

\* Its name is not that of a twin.
LEMMA OneRowNamed ==
    ASSUME FilesTyped, NEW id \in DocIds, NEW doc \in Files, docs' = [docs EXCEPT ![id] = doc], NamesApart(docs),
           \A j \in DocIds \ {id} : docs[j] # NoDoc /\ Twins(doc, docs[j]) => docs[j].name # doc.name
    PROVE  NamesApart(docs')
<1>1. docs \in [DocIds -> Files \cup {NoDoc}]
  BY DEF FilesTyped
<1>2. docs'[id] = doc /\ \A j \in DocIds \ {id} : docs'[j] = docs[j]
  BY <1>1
<1>4. ASSUME NEW i \in DocIds, NEW j \in DocIds, docs'[i] # NoDoc, docs'[j] # NoDoc, i # j, Twins(docs'[i], docs'[j])
      PROVE  docs'[i].name # docs'[j].name
  <2>1. CASE i = id
    BY <1>2, <1>4, <2>1
  <2>2. CASE j = id
    <3>1. Twins(doc, docs[i]) /\ docs[i] # NoDoc
      BY <1>2, <1>4, <2>2 DEF Twins
    <3>. QED
      BY <1>2, <1>4, <2>2, <3>1
  <2>3. CASE i # id /\ j # id
    BY <1>2, <1>4, <2>3 DEF NamesApart
  <2>. QED
    BY <2>1, <2>2, <2>3
<1>. QED
  BY <1>4 DEF NamesApart

LEMMA SameName ==
    ASSUME NEW me \in Hands, me.kind # "upload", me.id \in DocIds, me.doc \in Files, docs[me.id] = me.doc, NamesApart(docs), NoDoc \notin Files,
           DOMAIN me.patch \cap {"name", "folder"} = {}, "trashed" \in DOMAIN me.patch => me.patch["trashed"]
    PROVE  NameHolds(me, docs)
<1>1. me.patch \in FilePatches
  BY DEF Hands
<1>2. /\ Put(me.doc, me.patch).name = me.doc.name /\ Put(me.doc, me.patch).folder = me.doc.folder
      /\ ~Put(me.doc, me.patch).trashed => ~me.doc.trashed
  BY <1>1, PutColumns
<1>3. ASSUME NEW j \in DocIds, docs[j] # NoDoc, j # me.id, Twins(Result(me), docs[j])
      PROVE  docs[j].name # Result(me).name
  <2>1. Twins(docs[me.id], docs[j]) /\ docs[me.id] # NoDoc
    BY <1>2, <1>3 DEF Twins, Result
  <2>2. docs[me.id].name # docs[j].name
    BY <1>3, <2>1 DEF NamesApart
  <2>. QED
    BY <1>2, <2>2 DEF Result
<1>. QED
  BY <1>3 DEF NameHolds

LEMMA Begun ==
    ASSUME FilesInv, FilesAssumption, NEW c \in Clerks, Ready(c), NEW next \in Hands, OnCourse(next), Begins(c, next),
           next.path = NoFile, next.kind # "upload" => docs[next.id] = next.doc, next.pc \notin {"idle", "delete"},
           next.pc = "drop" => next.kind = "purge", NamesApart(docs) => NameHolds(next, docs)
    PROVE  FilesInv'
<1>1. FilesTyped
  BY DEF FilesInv
<1>2. clerk[c].pc = "idle" /\ clerk[c] = FreeClerk
  BY <1>1 DEF Ready, FilesTyped, OnCourse
<1>3. clerk[c].path = NoFile /\ clerk[c].drop = {} /\ clerk[c].pc = "idle"
  BY <1>2 DEF FreeClerk
<1>4. docs' = docs /\ stored' = stored \cup {} /\ file_excuses' = file_excuses /\ Takes(c, next)
  BY DEF Begins
<1>5. ASSUME "crossed" \notin file_excuses' PROVE ClerkHolds(next, docs, stored')
  <2>1. NamesApart(docs)
    BY <1>4, <1>5 DEF FilesInv
  <2>2. FilesHold(next, docs, stored')
    BY DEF FilesHold
  <2>3. RowHolds(next, docs)
    BY DEF RowHolds
  <2>. QED
    BY <2>1, <2>2, <2>3 DEF ClerkHolds
<1>6. file_excuses' \subseteq {"crossed", "half_purged", "leftover"}
  BY <1>1, <1>4 DEF FilesTyped
<1>. HIDE DEF FilesInv
<1>. QED
  BY <1>3, <1>4, <1>5, <1>6, LeavesRows

LEMMA UploadBegins ==
    ASSUME FilesInv, FilesAssumption, NEW c \in Clerks, NEW v, NEW k \in Contents, NEW f \in FolderIds \cup {Unfiled},
           upload_document(c, v, <<"a">>, f, k)
    PROVE  FilesInv'
<1>. DEFINE doc == NewDoc(<<"a">>, f, k, NoFile)
            next == [FreeClerk EXCEPT !.pc = "look", !.kind = "upload", !.doc = doc]
<1>1. Ready(c) /\ Begins(c, next)
  BY DEF upload_document
<1>2. <<"a">> \in Seq(NameParts)
  BY DEF NameParts
<1>3. doc \in Files /\ doc.print = NoFile /\ doc.file = NoFile /\ doc.trashed = FALSE
  <2>. DEFINE word == <<"a">>
  <2>. HIDE DEF word
  <2>1. word \in Seq(NameParts)
    BY <1>2 DEF word
  <2>2. NewDoc(word, f, k, NoFile) \in Files /\ NewDoc(word, f, k, NoFile).print = NoFile /\ NewDoc(word, f, k, NoFile).file = NoFile
        /\ NewDoc(word, f, k, NoFile).trashed = FALSE
    BY <2>1 DEF NewDoc, Files
  <2>. QED
    BY <2>2 DEF word
<1>. HIDE DEF doc
<1>4. next \in Hands
  BY <1>3, FreeOnCourse DEF Hands, Tasks
<1>5. /\ next.pc = "look" /\ next.kind = "upload" /\ next.doc = doc /\ next.path = NoFile /\ next.drop = {}
      /\ next.patch = <<>>
  BY DEF FreeClerk
<1>. HIDE DEF next
<1>6. OnCourse(next)
  BY <1>3, <1>5 DEF OnCourse, Tasks
<1>7. NameHolds(next, docs)
  BY <1>5 DEF NameHolds
<1>. QED
  BY <1>1, <1>4, <1>5, <1>6, <1>7, Begun

LEMMA RowRead ==
    ASSUME FilesInv, NEW id \in Docs
    PROVE  id \in DocIds /\ docs[id] # NoDoc /\ docs[id] \in Files /\ PathsOf(docs[id]) \subseteq Paths
BY DEF FilesInv, FilesTyped, Docs, PathsOf, Files

LEMMA UpdateBegins ==
    ASSUME FilesInv, FilesAssumption, NEW c \in Clerks, NEW v, NEW id \in DocIds,
           NEW p \in {[name |-> <<"b">>], [starred |-> TRUE]} \cup {[folder |-> f] : f \in FolderIds \cup {Unfiled}},
           update_document(c, v, id, p)
    PROVE  FilesInv'
<1>. DEFINE next == [FreeClerk EXCEPT !.pc = IF DOMAIN p = {"starred"} THEN "write" ELSE "look",
                                     !.kind = "update", !.id = id, !.doc = docs[id], !.patch = p]
<1>1. Ready(c) /\ Begins(c, next) /\ id \in Docs
  BY DEF update_document
<1>2. docs[id] # NoDoc /\ docs[id] \in Files
  BY <1>1, RowRead
<1>3. p \in FilePatches /\ DOMAIN p \subseteq {"name", "folder", "starred"}
  <2>. DEFINE word == <<"b">>
  <2>1. [name |-> word] \in FilePatches
    BY OwnPatches
  <2>2. p \in {[name |-> word], [starred |-> TRUE]} \cup {[folder |-> f] : f \in FolderIds \cup {Unfiled}}
    OBVIOUS
  <2>. HIDE DEF word
  <2>3. CASE p = [name |-> word]
    BY <2>1, <2>3
  <2>4. CASE p = [starred |-> TRUE]
    BY <2>4, OwnPatches
  <2>5. CASE \E f \in FolderIds \cup {Unfiled} : p = [folder |-> f]
    BY <2>5, OwnPatches
  <2>. QED
    BY <2>2, <2>3, <2>4, <2>5
<1>4. next \in Hands
  BY <1>2, <1>3, FreeOnCourse DEF Hands, Tasks
<1>5. /\ next.pc = IF DOMAIN p = {"starred"} THEN "write" ELSE "look"
      /\ next.kind = "update" /\ next.id = id /\ next.doc = docs[id] /\ next.path = NoFile /\ next.drop = {} /\ next.patch = p
  BY DEF FreeClerk
<1>. HIDE DEF next
<1>6. OnCourse(next)
  BY <1>2, <1>3, <1>5 DEF OnCourse, Tasks
<1>7. ASSUME NamesApart(docs) PROVE NameHolds(next, docs)
  <2>1. CASE DOMAIN p = {"starred"}
    <3>1. DOMAIN next.patch \cap {"name", "folder"} = {} /\ "trashed" \notin DOMAIN next.patch
      BY <1>5, <2>1
    <3>. QED
      BY <1>2, <1>4, <1>5, <1>7, <3>1, SameName DEF FilesAssumption
  <2>2. CASE DOMAIN p # {"starred"}
    BY <1>5, <2>2 DEF NameHolds
  <2>. QED
    BY <2>1, <2>2
<1>. QED
  BY <1>1, <1>4, <1>5, <1>6, <1>7, Begun

LEMMA ApplyBegins ==
    ASSUME FilesInv, FilesAssumption, NEW c \in Clerks, NEW v, NEW id \in DocIds,
           NEW action \in {"trash", "restore", "purge", "unstar"}, _apply_one(c, v, id, action)
    PROVE  FilesInv'
<1>. DEFINE pc == CASE action = "restore" -> "look" [] action = "purge" -> "drop" [] OTHER -> "write"
            patch == CASE action = "trash" -> [trashed |-> TRUE]
                       [] action = "restore" -> [trashed |-> FALSE]
                       [] OTHER -> [starred |-> FALSE]
            drop == IF action = "purge" THEN PathsOf(docs[id]) ELSE {}
            next == [FreeClerk EXCEPT !.pc = pc, !.kind = action, !.id = id, !.doc = docs[id], !.patch = patch, !.drop = drop]
<1>1. Ready(c) /\ Begins(c, next) /\ id \in Docs /\ (action \in {"restore", "purge"} => docs[id].trashed)
  BY DEF _apply_one, PathsOf
<1>2. docs[id] # NoDoc /\ docs[id] \in Files /\ PathsOf(docs[id]) \subseteq Paths
  BY <1>1, RowRead
<1>3. /\ patch \in FilePatches
      /\ action = "trash" => DOMAIN patch = {"trashed"} /\ patch["trashed"] = TRUE
      /\ action = "restore" => DOMAIN patch = {"trashed"} /\ patch["trashed"] = FALSE
      /\ action \in {"purge", "unstar"} => DOMAIN patch = {"starred"}
  BY OwnPatches
<1>4. /\ action = "restore" => pc = "look"
      /\ action = "purge" => pc = "drop"
      /\ action \in {"trash", "unstar"} => pc = "write"
      /\ drop \subseteq Paths
  BY <1>2
<1>. HIDE DEF pc, patch, drop
<1>5. next \in Hands
  BY <1>2, <1>3, <1>4, FreeOnCourse DEF Hands, Tasks
<1>6. /\ next.pc = pc /\ next.kind = action /\ next.id = id /\ next.doc = docs[id] /\ next.path = NoFile
      /\ next.drop = drop /\ next.patch = patch
  BY DEF FreeClerk
<1>. HIDE DEF next
<1>7. OnCourse(next)
  BY <1>1, <1>2, <1>3, <1>4, <1>6 DEF OnCourse, Tasks, drop
<1>8. ASSUME NamesApart(docs) PROVE NameHolds(next, docs)
  <2>1. CASE action \in {"trash", "unstar"}
    <3>1. DOMAIN next.patch \cap {"name", "folder"} = {} /\ ("trashed" \in DOMAIN next.patch => next.patch["trashed"])
      BY <1>3, <1>6, <2>1
    <3>. QED
      BY <1>2, <1>5, <1>6, <1>8, <2>1, <3>1, SameName DEF FilesAssumption
  <2>2. CASE action \notin {"trash", "unstar"}
    BY <1>4, <1>6, <2>2 DEF NameHolds
  <2>. QED
    BY <2>1, <2>2
<1>. QED
  BY <1>1, <1>4, <1>5, <1>6, <1>7, <1>8, Begun

LEMMA SetPrintBegins ==
    ASSUME FilesInv, FilesAssumption, NEW c \in Clerks, NEW v, NEW id \in DocIds, set_print_copy(c, v, id)
    PROVE  FilesInv'
<1>. DEFINE next == [FreeClerk EXCEPT !.pc = "store", !.kind = "print", !.id = id, !.doc = docs[id]]
<1>1. Ready(c) /\ Begins(c, next) /\ id \in Docs
  BY DEF set_print_copy
<1>2. docs[id] # NoDoc /\ docs[id] \in Files
  BY <1>1, RowRead
<1>4. next \in Hands
  BY <1>2, FreeOnCourse DEF Hands, Tasks
<1>5. next.pc = "store" /\ next.kind = "print" /\ next.id = id /\ next.doc = docs[id] /\ next.path = NoFile /\ next.drop = {}
  BY DEF FreeClerk
<1>. HIDE DEF next
<1>6. OnCourse(next)
  BY <1>2, <1>5 DEF OnCourse, Tasks
<1>7. NameHolds(next, docs)
  BY <1>5 DEF NameHolds
<1>. QED
  BY <1>1, <1>4, <1>5, <1>6, <1>7, Begun

LEMMA RemovePrintBegins ==
    ASSUME FilesInv, FilesAssumption, NEW c \in Clerks, NEW v, NEW id \in DocIds, remove_print_copy(c, v, id)
    PROVE  FilesInv'
<1>. DEFINE patch == [print |-> NoFile]
            next == [FreeClerk EXCEPT !.pc = "write", !.kind = "print", !.id = id, !.doc = docs[id],
                                      !.patch = patch, !.drop = {docs[id].print}]
<1>1. Ready(c) /\ Begins(c, next) /\ id \in Docs /\ docs[id].print # NoFile
  BY DEF remove_print_copy
<1>2. docs[id] # NoDoc /\ docs[id] \in Files /\ docs[id].print \in Paths
  BY <1>1, RowRead DEF PathsOf
<1>3. patch \in FilePatches /\ DOMAIN patch = {"print"} /\ patch["print"] = NoFile
  BY OwnPatches
<1>. HIDE DEF patch
<1>4. next \in Hands
  BY <1>2, <1>3, FreeOnCourse DEF Hands, Tasks
<1>5. /\ next.pc = "write" /\ next.kind = "print" /\ next.id = id /\ next.doc = docs[id] /\ next.path = NoFile
      /\ next.drop = {docs[id].print} /\ next.patch = patch
  BY DEF FreeClerk
<1>. HIDE DEF next
<1>6. OnCourse(next)
  BY <1>1, <1>2, <1>3, <1>5 DEF OnCourse, Tasks
<1>7. ASSUME NamesApart(docs) PROVE NameHolds(next, docs)
  <2>1. DOMAIN next.patch \cap {"name", "folder"} = {} /\ "trashed" \notin DOMAIN next.patch
    BY <1>3, <1>5
  <2>. QED
    BY <1>2, <1>4, <1>5, <1>7, <2>1, SameName DEF FilesAssumption
<1>. QED
  BY <1>1, <1>4, <1>5, <1>6, <1>7, Begun

LEMMA ReindexBegins ==
    ASSUME FilesInv, FilesAssumption, NEW c \in Clerks, reindex_documents(c)
    PROVE  FilesInv'
<1>. DEFINE patch == [text |-> TRUE]
<1>0. PICK id \in Docs : Ready(c) /\ Begins(c, [FreeClerk EXCEPT !.pc = "write", !.kind = "reindex", !.id = id, !.doc = docs[id],
                                                                 !.patch = [text |-> TRUE]])
  BY DEF reindex_documents
<1>. DEFINE next == [FreeClerk EXCEPT !.pc = "write", !.kind = "reindex", !.id = id, !.doc = docs[id], !.patch = patch]
<1>1. Ready(c) /\ Begins(c, next)
  BY <1>0
<1>2. id \in DocIds /\ docs[id] # NoDoc /\ docs[id] \in Files
  BY RowRead
<1>3. patch \in FilePatches /\ DOMAIN patch = {"text"}
  BY OwnPatches
<1>. HIDE DEF patch
<1>4. next \in Hands
  BY <1>2, <1>3, FreeOnCourse DEF Hands, Tasks
<1>5. /\ next.pc = "write" /\ next.kind = "reindex" /\ next.id = id /\ next.doc = docs[id] /\ next.path = NoFile
      /\ next.drop = {} /\ next.patch = patch
  BY DEF FreeClerk
<1>. HIDE DEF next
<1>6. OnCourse(next)
  BY <1>2, <1>3, <1>5 DEF OnCourse, Tasks
<1>7. ASSUME NamesApart(docs) PROVE NameHolds(next, docs)
  <2>1. DOMAIN next.patch \cap {"name", "folder"} = {} /\ "trashed" \notin DOMAIN next.patch
    BY <1>3, <1>5
  <2>. QED
    BY <1>2, <1>4, <1>5, <1>7, <2>1, SameName DEF FilesAssumption
<1>. QED
  BY <1>1, <1>4, <1>5, <1>6, <1>7, Begun

LEMMA HandsOf ==
    ASSUME FilesInv, NEW c \in Clerks
    PROVE  /\ clerk[c] \in Hands /\ OnCourse(clerk[c])
           /\ clerk[c].patch \in FilePatches /\ clerk[c].path \in Paths \cup {NoFile} /\ clerk[c].drop \subseteq Paths
           /\ "crossed" \notin file_excuses => ClerkHolds(clerk[c], docs, stored) /\ NamesApart(docs)
           /\ file_excuses \subseteq {"crossed", "half_purged", "leftover"}
<1>1. clerk[c] \in Hands /\ OnCourse(clerk[c]) /\ file_excuses \subseteq {"crossed", "half_purged", "leftover"}
  BY DEF FilesInv, FilesTyped
<1>2. clerk[c].patch \in FilePatches /\ clerk[c].path \in Paths \cup {NoFile} /\ clerk[c].drop \subseteq Paths
  BY <1>1 DEF Hands
<1>. QED
  BY <1>1, <1>2 DEF FilesInv

LEMMA NotTaken ==
    ASSUME NEW folder, NEW name, name \notin _names_in(folder), NEW j \in DocIds, docs[j] # NoDoc,
           docs[j].folder = folder, ~docs[j].trashed
    PROVE  docs[j].name # name
BY DEF _names_in, Docs

\* The step of a request that has no files yet.
LEMMA OnlyGoesOn ==
    ASSUME FilesInv, FilesAssumption, NEW c \in Clerks, NEW next \in Hands, OnCourse(next), Takes(c, next),
           docs' = docs, stored' = stored, file_excuses' = file_excuses,
           clerk[c].path = NoFile, clerk[c].drop = {}, clerk[c].pc # "delete", next.path = NoFile,
           "crossed" \notin file_excuses' => ClerkHolds(next, docs, stored')
    PROVE  FilesInv'
<1>1. {} \in SUBSET Paths /\ stored' = stored \cup {} /\ \A d \in Clerks \ {c} : {} \cap clerk[d].drop = {}
  OBVIOUS
<1>2. file_excuses \subseteq file_excuses' /\ file_excuses' \subseteq {"crossed", "half_purged", "leftover"}
  BY HandsOf
<1>3. file_excuses' = {} =>
          /\ \A p \in {} : p = next.path
          /\ \A p \in {clerk[c].path} \cup clerk[c].drop :
                \/ p \in {next.path, NoFile} \cup next.drop
                \/ \E i \in DocIds : docs[i] # NoDoc /\ p \in PathsOf(docs[i])
  OBVIOUS
<1>. HIDE DEF FilesInv
<1>. QED
  BY <1>1, <1>2, <1>3, LeavesRows

LEMMA LooksAround ==
    ASSUME FilesInv, FilesAssumption, NEW c \in Clerks, LookAround(c)
    PROVE  FilesInv'
<1>. DEFINE me == clerk[c]
            want == Put(me.doc, me.patch)
            moves == me.kind = "update" /\ want.folder # me.doc.folder
            comes == me.kind \in {"upload", "restore"} \/ moves
            turned_down == \/ comes /\ _copy_in(want.folder, want.content, me.id)
                           \/ me.kind = "update" /\ want.name # me.doc.name /\ want.name \in _names_in(me.doc.folder)
            name == IF comes THEN unique_display_name(want.name, _names_in(want.folder)) ELSE want.name
            named == [f \in DOMAIN me.patch \cup {"name"} |-> IF f = "name" THEN name ELSE me.patch[f]]
            stores == [me EXCEPT !.pc = "store", !.doc.name = name]
            writes == [me EXCEPT !.pc = "write", !.patch = named]
            next == IF turned_down THEN FreeClerk ELSE IF me.kind = "upload" THEN stores ELSE writes
<1>1. me.pc = "look" /\ Takes(c, next) /\ docs' = docs /\ stored' = stored \cup {} /\ file_excuses' = file_excuses
  BY DEF LookAround
<1>2. /\ me \in Hands /\ OnCourse(me) /\ me.patch \in FilePatches
      /\ "crossed" \notin file_excuses => ClerkHolds(me, docs, stored) /\ NamesApart(docs)
      /\ file_excuses \subseteq {"crossed", "half_purged", "leftover"}
  BY HandsOf
<1>0. /\ docs' = docs /\ stored' = stored /\ file_excuses' = file_excuses
      /\ clerk[c].path = NoFile /\ clerk[c].drop = {} /\ clerk[c].pc # "delete"
  BY <1>1, <1>2 DEF OnCourse
<1>3. /\ me.kind \in {"upload", "update", "restore"} /\ me.path = NoFile /\ me.drop = {} /\ me.doc \in Files
      /\ me.kind # "upload" => me.id \in DocIds
      /\ me.kind = "upload" => me.patch = <<>> /\ me.doc.print = NoFile /\ ~me.doc.trashed /\ me.doc.file = NoFile
      /\ me.kind = "update" => DOMAIN me.patch \subseteq {"name", "folder", "starred"}
      /\ me.kind = "restore" => DOMAIN me.patch \subseteq {"name", "trashed"} /\ "trashed" \in DOMAIN me.patch
                                /\ me.patch["trashed"] = FALSE /\ me.doc.trashed
  BY <1>1, <1>2 DEF OnCourse
<1>4. want \in Files /\ want.folder = (IF "folder" \in DOMAIN me.patch THEN me.patch["folder"] ELSE me.doc.folder)
      /\ want.trashed = (IF "trashed" \in DOMAIN me.patch THEN me.patch["trashed"] ELSE me.doc.trashed)
      /\ (me.kind = "upload" => want.folder = me.doc.folder /\ want.name = me.doc.name)
  BY <1>2, <1>3, PutColumns, EmptyPatch
<1>. HIDE DEF want
<1>5. name \in Seq(NameParts) /\ (comes => name \notin _names_in(want.folder))
  <2>1. want.name \in Seq(NameParts)
    BY <1>4 DEF Files
  <2>2. IsFiniteSet(_names_in(want.folder))
    BY FinitelyNamed
  <2>. QED
    BY <2>1, <2>2, FreeName
<1>6. named \in FilePatches /\ DOMAIN named = DOMAIN me.patch \cup {"name"} /\ named["name"] = name
      /\ \A f \in DOMAIN me.patch \ {"name"} : named[f] = me.patch[f]
  <2>. HIDE DEF name
  <2>. QED
    BY <1>2, <1>5, NamedPatch
<1>7. ~comes /\ ~turned_down => want.folder = me.doc.folder /\ name = want.name
                            /\ (want.name = me.doc.name \/ want.name \notin _names_in(me.doc.folder))
  BY <1>3
<1>. HIDE DEF name, comes, turned_down, named
<1>8. CASE turned_down
  <2>1. Takes(c, FreeClerk)
    BY <1>1, <1>8
  <2>2. FreeClerk.path = NoFile /\ FreeClerk.pc = "idle"
    BY DEF FreeClerk
  <2>3. FreeClerk \in Hands /\ OnCourse(FreeClerk) /\ ClerkHolds(FreeClerk, docs, stored')
    BY FreeOnCourse, FreeHolds
  <2>. QED
    BY ONLY FilesInv, FilesAssumption, c \in Clerks, <1>0, <2>1, <2>2, <2>3, OnlyGoesOn
<1>9. CASE ~turned_down /\ me.kind = "upload"
  <2>0. Takes(c, stores)
    BY <1>1, <1>9
  <2>1. /\ stores \in Hands /\ stores.pc = "store" /\ stores.kind = "upload" /\ stores.path = NoFile /\ stores.drop = {}
        /\ stores.patch = <<>>
        /\ stores.doc = [me.doc EXCEPT !.name = name]
    BY <1>2, <1>3, <1>5, <1>9 DEF Hands, Files
  <2>2. /\ stores.doc \in Files /\ stores.doc.name = name /\ stores.doc.folder = me.doc.folder
        /\ stores.doc.trashed = me.doc.trashed /\ stores.doc.print = me.doc.print /\ stores.doc.file = me.doc.file
    BY <1>3, <1>5, <2>1 DEF Files
  <2>. HIDE DEF stores
  <2>3. OnCourse(stores)
    BY <1>3, <1>9, <2>1, <2>2 DEF OnCourse, Tasks
  <2>4. NameHolds(stores, docs)
    <3>1. name \notin _names_in(stores.doc.folder)
      BY <1>4, <1>5, <1>9, <2>2 DEF comes
    <3>2. Result(stores) = stores.doc
      BY <2>1 DEF Result
    <3>. QED
      BY <2>2, <3>1, <3>2, NotTaken DEF NameHolds, Twins
  <2>5. ClerkHolds(stores, docs, stored')
    BY <2>1, <2>4 DEF ClerkHolds, RowHolds, FilesHold
  <2>6. stores.path = NoFile /\ stores \in Hands
    BY <1>3, <2>1
  <2>. QED
    BY ONLY FilesInv, FilesAssumption, c \in Clerks, <1>0, <2>0, <2>3, <2>5, <2>6, OnlyGoesOn
<1>10. CASE ~turned_down /\ me.kind # "upload"
  <2>0. Takes(c, writes)
    BY <1>1, <1>10
  <2>1. /\ writes \in Hands /\ writes.pc = "write" /\ writes.kind = me.kind /\ writes.path = NoFile /\ writes.drop = {}
        /\ writes.patch = named /\ writes.doc = me.doc /\ writes.id = me.id
    BY <1>2, <1>3, <1>6 DEF Hands
  <2>. HIDE DEF writes
  <2>3. OnCourse(writes)
    BY <1>3, <1>6, <1>10, <2>1 DEF OnCourse, Tasks
  <2>4. ASSUME "crossed" \notin file_excuses' PROVE NameHolds(writes, docs)
    <3>. DEFINE new == Put(me.doc, named)
    <3>1. new.name = name /\ new.folder = want.folder /\ new.trashed = want.trashed
      BY <1>3, <1>4, <1>6, PutColumns
    <3>2. Result(writes) = new
      BY <1>10, <2>1 DEF Result
    <3>. HIDE DEF new
    <3>3. docs[me.id] = me.doc /\ NamesApart(docs)
      BY <1>1, <1>2, <1>3, <1>10, <2>4 DEF ClerkHolds, RowHolds
    <3>. SUFFICES ASSUME NEW j \in DocIds, docs[j] # NoDoc, j # me.id, Twins(new, docs[j]) PROVE docs[j].name # name
      BY <1>10, <2>1, <3>1, <3>2 DEF NameHolds
    <3>4. docs[j].folder = want.folder /\ ~docs[j].trashed /\ ~want.trashed
      BY <3>1 DEF Twins
    <3>5. CASE name \notin _names_in(want.folder)
      BY <3>4, <3>5, NotTaken
    <3>6. CASE ~comes /\ want.name = me.doc.name
      <4>1. me.kind = "update" /\ want.folder = me.doc.folder /\ want.trashed = me.doc.trashed /\ name = me.doc.name
        BY <1>3, <1>4, <1>7, <1>10, <3>6 DEF comes
      <4>2. Twins(docs[me.id], docs[j]) /\ docs[me.id] # NoDoc /\ me.id \in DocIds
        BY <1>3, <3>3, <3>4, <4>1 DEF Twins, FilesAssumption
      <4>3. docs[me.id].name # docs[j].name
        BY <3>3, <4>2 DEF NamesApart
      <4>. QED
        BY <3>3, <4>1, <4>3
    <3>. QED
      BY <1>5, <1>7, <1>10, <3>5, <3>6
  <2>5. ASSUME "crossed" \notin file_excuses' PROVE ClerkHolds(writes, docs, stored')
    <3>1. RowHolds(writes, docs)
      BY <1>1, <1>2, <2>1, <2>5 DEF ClerkHolds, RowHolds
    <3>2. FilesHold(writes, docs, stored')
      BY <2>1 DEF FilesHold
    <3>. QED
      BY <2>4, <2>5, <3>1, <3>2 DEF ClerkHolds
  <2>6. writes.path = NoFile /\ writes \in Hands
    BY <2>1
  <2>. QED
    BY ONLY FilesInv, FilesAssumption, c \in Clerks, <1>0, <2>0, <2>3, <2>5, <2>6, OnlyGoesOn
<1>. QED
  BY <1>8, <1>9, <1>10

LEMMA FileStores ==
    ASSUME FilesInv, FilesAssumption, NEW c \in Clerks, StoreUpload(c)
    PROVE  FilesInv'
<1>. DEFINE me == clerk[c]
            path == CHOOSE p \in Paths : p \notin Known
            patch == [print |-> path]
            uploads == [me EXCEPT !.pc = "write", !.doc.file = path, !.path = path]
            prints == [me EXCEPT !.pc = "write", !.path = path, !.patch = patch, !.drop = {me.doc.print} \ {NoFile}]
            next == IF me.kind = "upload" THEN uploads ELSE prints
<1>1. me.pc = "store" /\ Takes(c, next) /\ docs' = docs /\ stored' = stored \cup {path} /\ file_excuses' = file_excuses
  BY DEF StoreUpload
<1>2. path \in Paths /\ path \notin Known
  BY DEF StoreUpload
<1>. HIDE DEF path
<1>3. /\ me \in Hands /\ OnCourse(me)
      /\ "crossed" \notin file_excuses => ClerkHolds(me, docs, stored) /\ NamesApart(docs)
      /\ file_excuses \subseteq {"crossed", "half_purged", "leftover"}
  BY HandsOf
<1>4. /\ me.kind \in {"upload", "print"} /\ me.path = NoFile /\ me.drop = {} /\ me.doc \in Files
      /\ me.kind # "upload" => me.id \in DocIds
      /\ me.kind = "upload" => me.patch = <<>> /\ me.doc.print = NoFile /\ ~me.doc.trashed /\ me.doc.file = NoFile
  BY <1>1, <1>3 DEF OnCourse
<1>5. path # NoFile /\ {path} \in SUBSET Paths /\ me.pc # "delete" /\ me.pc # "drop" /\ path # me.path
  BY <1>1, <1>2, <1>4 DEF FilesAssumption
<1>6. /\ \A i \in Docs : path \notin PathsOf(docs[i])
      /\ \A d \in Clerks \ {c} : path # clerk[d].path
      /\ \A d \in Clerks \ {c} : {path} \cap clerk[d].drop = {}
  <2>1. \A i \in Docs : path \notin {docs[i].file, docs[i].print}
    BY <1>2 DEF Known
  <2>2. \A d \in Clerks : path \notin clerk[d].drop \cup {clerk[d].path}
    BY <1>2 DEF Known
  <2>. QED
    BY <2>1, <2>2 DEF PathsOf
<1>7. CASE me.kind = "upload"
  <2>0. Takes(c, uploads)
    BY <1>1, <1>7
  <2>1. /\ uploads \in Hands /\ uploads.pc = "write" /\ uploads.kind = "upload" /\ uploads.path = path /\ uploads.drop = {}
        /\ uploads.patch = <<>>
        /\ uploads.doc = [me.doc EXCEPT !.file = path]
    BY <1>2, <1>3, <1>4, <1>7 DEF Hands, Files
  <2>2. /\ uploads.doc \in Files /\ uploads.doc.name = me.doc.name /\ uploads.doc.folder = me.doc.folder
        /\ uploads.doc.trashed = me.doc.trashed /\ uploads.doc.print = me.doc.print /\ uploads.doc.file = path
    BY <1>2, <1>4, <2>1 DEF Files
  <2>. HIDE DEF uploads
  <2>3. OnCourse(uploads)
    BY <1>4, <1>5, <1>7, <2>1, <2>2 DEF OnCourse, Tasks
  <2>4. ASSUME "crossed" \notin file_excuses' PROVE ClerkHolds(uploads, docs, stored')
    <3>1. NameHolds(me, docs)
      BY <1>1, <1>3, <2>4 DEF ClerkHolds
    <3>2. Result(uploads) = uploads.doc /\ Result(me) = me.doc
      BY <1>7, <2>1 DEF Result
    <3>3. NameHolds(uploads, docs)
      BY <1>1, <1>7, <2>1, <2>2, <3>1, <3>2 DEF NameHolds, Twins
    <3>4. FilesHold(uploads, docs, stored')
      BY <1>1, <2>1 DEF FilesHold
    <3>5. RowHolds(uploads, docs)
      BY <2>1 DEF RowHolds
    <3>. QED
      BY <3>3, <3>4, <3>5 DEF ClerkHolds
  <2>. HIDE DEF FilesInv
  <2>5. /\ \A i \in Docs : uploads.path \notin PathsOf(docs[i])
        /\ \A d \in Clerks \ {c} : uploads.path # clerk[d].path
        /\ \A p \in {path} : p = uploads.path
    BY <1>6, <2>1
  <2>6. uploads \in Hands /\ uploads.path # clerk[c].path /\ me.path = NoFile /\ me.drop = {}
    BY <1>4, <1>5, <2>1
  <2>. QED
    BY <1>1, <1>3, <1>5, <1>6, <2>0, <2>3, <2>4, <2>5, <2>6, LeavesRows
<1>8. CASE me.kind # "upload"
  <2>0. Takes(c, prints)
    BY <1>1, <1>8
  <2>1. patch \in FilePatches /\ DOMAIN patch = {"print"} /\ patch["print"] = path
    BY <1>2, OwnPatches
  <2>. HIDE DEF patch
  <2>2. {me.doc.print} \ {NoFile} \subseteq Paths
    BY <1>4 DEF Files
  <2>3. /\ prints \in Hands /\ prints.pc = "write" /\ prints.kind = "print" /\ prints.path = path /\ prints.id = me.id
        /\ prints.drop = {me.doc.print} \ {NoFile} /\ prints.patch = patch /\ prints.doc = me.doc
    BY <1>2, <1>3, <1>4, <1>8, <2>1, <2>2 DEF Hands
  <2>. HIDE DEF prints
  <2>4. OnCourse(prints)
    BY <1>4, <1>5, <1>8, <2>1, <2>3 DEF OnCourse, Tasks
  <2>5. ASSUME "crossed" \notin file_excuses' PROVE ClerkHolds(prints, docs, stored')
    <3>1. docs[me.id] = me.doc /\ NamesApart(docs)
      BY <1>1, <1>3, <1>4, <1>8, <2>5 DEF ClerkHolds, RowHolds
    <3>2. RowHolds(prints, docs)
      BY <2>3, <3>1 DEF RowHolds
    <3>3. FilesHold(prints, docs, stored')
      BY <1>1, <2>3 DEF FilesHold
    <3>4. DOMAIN prints.patch \cap {"name", "folder"} = {} /\ "trashed" \notin DOMAIN prints.patch
      BY <2>1, <2>3
    <3>5. NameHolds(prints, docs)
      BY <1>4, <1>8, <2>3, <3>1, <3>4, SameName DEF FilesAssumption
    <3>. QED
      BY <3>2, <3>3, <3>5 DEF ClerkHolds
  <2>. HIDE DEF FilesInv
  <2>6. /\ \A i \in Docs : prints.path \notin PathsOf(docs[i])
        /\ \A d \in Clerks \ {c} : prints.path # clerk[d].path
        /\ \A p \in {path} : p = prints.path
    BY <1>6, <2>3
  <2>7. prints \in Hands /\ prints.path # clerk[c].path /\ me.path = NoFile /\ me.drop = {}
    BY <1>4, <1>5, <2>3
  <2>. QED
    BY <1>1, <1>3, <1>5, <1>6, <2>0, <2>4, <2>5, <2>6, <2>7, LeavesRows
<1>. QED
  BY <1>7, <1>8

\* What a request that stops has yet to remove belongs to its row.
LEMMA Stops ==
    ASSUME FilesInv, FilesAssumption, NEW c \in Clerks, clerk[c].pc # "idle", Takes(c, FreeClerk),
           docs' = docs, stored' = stored, file_excuses \subseteq file_excuses',
           file_excuses' \subseteq {"crossed", "half_purged", "leftover"},
           clerk[c].pc = "delete" => "half_purged" \in file_excuses',
           clerk[c].path # NoFile \/ (clerk[c].pc = "drop" /\ clerk[c].kind # "purge") => file_excuses' # {}
    PROVE  FilesInv'
<1>. DEFINE me == clerk[c]
<1>1. /\ me \in Hands /\ OnCourse(me)
      /\ "crossed" \notin file_excuses => ClerkHolds(me, docs, stored) /\ NamesApart(docs)
  BY HandsOf
<1>2. FreeClerk.path = NoFile /\ FreeClerk.pc = "idle"
  BY DEF FreeClerk
<1>3. ASSUME file_excuses' = {}, NEW p \in {me.path} \cup me.drop
      PROVE  p = NoFile \/ \E i \in DocIds : docs[i] # NoDoc /\ p \in PathsOf(docs[i])
  <2>1. me.path = NoFile /\ (me.pc = "drop" => me.kind = "purge") /\ me.pc # "delete"
    BY <1>3
  <2>2. CASE p = NoFile
    BY <2>2
  <2>3. CASE p \in me.drop
    <3>1. me.pc \in {"idle", "look", "store", "write", "drop", "delete"} /\ me.kind \in Tasks
      BY <1>1 DEF Hands, OnCourse
    <3>2. me.pc \in {"write", "drop"} /\ me.kind \in {"print", "purge"}
      BY <1>1, <2>1, <2>3, <3>1 DEF OnCourse, Tasks
    <3>3. me.id \in DocIds /\ me.doc \in Files /\ me.drop \subseteq PathsOf(me.doc)
      BY <1>1, <2>1, <3>2 DEF OnCourse, PathsOf
    <3>4. docs[me.id] = me.doc
      BY <1>1, <1>3, <2>1, <3>2 DEF ClerkHolds, RowHolds
    <3>. QED
      BY <2>3, <3>3, <3>4 DEF FilesAssumption
  <2>. QED
    BY <2>1, <2>2, <2>3
<1>4. stored' = stored \cup {}
  OBVIOUS
<1>5. file_excuses' = {} => \A p \in {clerk[c].path} \cup clerk[c].drop :
          \/ p \in {FreeClerk.path, NoFile} \cup FreeClerk.drop
          \/ \E i \in DocIds : docs[i] # NoDoc /\ p \in PathsOf(docs[i])
  BY <1>3
<1>6. /\ {} \in SUBSET Paths /\ \A d \in Clerks \ {c} : {} \cap clerk[d].drop = {}
      /\ ClerkHolds(FreeClerk, docs, stored') /\ FreeClerk.pc # "write"
  BY <1>2, FreeHolds
<1>. HIDE DEF FilesInv
<1>. QED
  BY <1>2, <1>4, <1>5, <1>6, FreeOnCourse, LeavesRows

LEMMA FileFails ==
    ASSUME FilesInv, FilesAssumption, NEW c \in Clerks, FileCallFails(c)
    PROVE  FilesInv'
<1>. DEFINE me == clerk[c]
            excuse == CASE me.pc = "delete" -> {"half_purged"}
                        [] me.pc = "drop" /\ me.kind # "purge" -> {"leftover"}
                        [] OTHER -> {}
            next == [me EXCEPT !.pc = "drop", !.drop = {me.path}]
<1>1. /\ me.pc # "idle" /\ docs' = docs /\ stored' = stored /\ file_excuses' = file_excuses \cup excuse
      /\ Takes(c, IF me.pc = "write" /\ me.path # NoFile THEN next ELSE FreeClerk)
  BY DEF FileCallFails
<1>2. /\ me \in Hands /\ OnCourse(me) /\ me.path \in Paths \cup {NoFile}
      /\ "crossed" \notin file_excuses => ClerkHolds(me, docs, stored) /\ NamesApart(docs)
      /\ file_excuses \subseteq {"crossed", "half_purged", "leftover"}
  BY HandsOf
<1>3. /\ me.pc = "delete" => excuse = {"half_purged"}
      /\ me.pc = "drop" /\ me.kind # "purge" => excuse = {"leftover"}
      /\ excuse \subseteq {"crossed", "half_purged", "leftover"}
  OBVIOUS
<1>. HIDE DEF excuse
<1>4. CASE ~(me.pc = "write" /\ me.path # NoFile)
  <2>1. me.path # NoFile => me.pc = "drop" /\ me.kind # "purge"
    BY <1>1, <1>2, <1>4 DEF OnCourse, Hands, Tasks
  <2>2. Takes(c, FreeClerk)
    BY <1>1, <1>4
  <2>. HIDE DEF FilesInv
  <2>. QED
    BY <1>1, <1>2, <1>3, <2>1, <2>2, Stops
<1>5. CASE me.pc = "write" /\ me.path # NoFile
  <2>0. Takes(c, next)
    BY <1>1, <1>5
  <2>1. me.kind \in {"upload", "print"} /\ me.doc \in Files /\ (me.kind # "upload" => me.id \in DocIds) /\ me.path \in Paths
    BY <1>2, <1>5 DEF OnCourse, Tasks
  <2>2. /\ next \in Hands /\ next.pc = "drop" /\ next.drop = {me.path} /\ next.path = me.path /\ next.kind = me.kind
        /\ next.doc = me.doc /\ next.id = me.id /\ next.patch = me.patch
    BY <1>2, <2>1 DEF Hands
  <2>. HIDE DEF next
  <2>3. OnCourse(next)
    BY <1>2, <2>1, <2>2 DEF OnCourse, Tasks
  <2>4. \A i \in DocIds : docs[i] # NoDoc => me.path \notin PathsOf(docs[i])
    BY <1>5 DEF FilesInv, FreshPaths, Docs
  <2>5. ClerkHolds(next, docs, stored')
    BY <2>1, <2>2, <2>4 DEF ClerkHolds, RowHolds, NameHolds, FilesHold
  <2>6. ASSUME file_excuses' = {}, NEW p \in {me.path} \cup me.drop
        PROVE  p = next.path \/ \E i \in DocIds : docs[i] # NoDoc /\ p \in PathsOf(docs[i])
    <3>1. CASE me.kind = "upload"
      BY <1>2, <1>5, <2>2, <2>6, <3>1 DEF OnCourse
    <3>2. CASE me.kind = "print"
      <4>1. docs[me.id] = me.doc
        BY <1>1, <1>2, <1>5, <2>6, <3>2 DEF ClerkHolds, RowHolds
      <4>2. me.drop \subseteq PathsOf(me.doc)
        BY <1>2, <1>5, <3>2 DEF OnCourse, PathsOf
      <4>. QED
        BY <2>1, <2>2, <2>6, <3>2, <4>1, <4>2 DEF FilesAssumption
    <3>. QED
      BY <2>1, <3>1, <3>2
  <2>7. stored' = stored \cup {} /\ next \in Hands /\ next.path = me.path /\ next.pc # "write" /\ me.pc # "delete"
    BY <1>1, <1>5, <2>2
  <2>8. {} \in SUBSET Paths /\ \A d \in Clerks \ {c} : {} \cap clerk[d].drop = {}
    OBVIOUS
  <2>9. file_excuses \subseteq file_excuses' /\ file_excuses' \subseteq {"crossed", "half_purged", "leftover"}
    BY <1>1, <1>2, <1>3
  <2>. HIDE DEF FilesInv, me
  <2>10. next.path = clerk[c].path /\ clerk[c].pc # "delete" /\ docs' = docs
    BY <1>1, <2>7 DEF me
  <2>11. file_excuses' = {} => \A p \in {clerk[c].path} \cup clerk[c].drop :
             \/ p \in {next.path, NoFile} \cup next.drop
             \/ \E i \in DocIds : docs[i] # NoDoc /\ p \in PathsOf(docs[i])
    BY <2>6 DEF me
  <2>. QED
    BY <2>0, <2>3, <2>5, <2>7, <2>8, <2>9, <2>10, <2>11, LeavesRows
<1>. QED
  BY <1>4, <1>5

LEMMA Dies ==
    ASSUME FilesInv, FilesAssumption, NEW c \in Clerks, ClerkDies(c)
    PROVE  FilesInv'
<1>1. /\ clerk[c].pc # "idle" /\ Takes(c, FreeClerk) /\ docs' = docs /\ stored' = stored
      /\ file_excuses' = file_excuses \cup (IF clerk[c].pc = "delete" THEN {"half_purged"} ELSE {"leftover"})
  BY DEF ClerkDies
<1>2. file_excuses \subseteq {"crossed", "half_purged", "leftover"}
  BY HandsOf
<1>. HIDE DEF FilesInv
<1>. QED
  BY <1>1, <1>2, Stops

\* A write that crosses nothing finds everybody else idle.
LEMMA AllAlone ==
    ASSUME FilesInv, NEW c \in Clerks, NEW next \in Hands, OnCourse(next), Takes(c, next),
           file_excuses' = file_excuses \cup FileCrossed(c), "crossed" \notin file_excuses'
    PROVE  /\ "crossed" \notin file_excuses /\ file_excuses' = file_excuses
           /\ \A d \in Clerks \ {c} : clerk[d].pc = "idle" /\ clerk'[d] = clerk[d]
           /\ clerk'[c] = next
           /\ ClerkHolds(clerk[c], docs, stored) /\ NamesApart(docs)
           /\ "half_purged" \notin file_excuses => RowsHaveFiles(docs, stored, clerk)
           /\ file_excuses = {} => FilesHaveRows(docs, stored, clerk)
<1>1. FilesTyped
  BY DEF FilesInv
<1>2. clerk'[c] = next /\ \A d \in Clerks \ {c} : clerk'[d] = clerk[d]
  BY <1>1, OneTakes
<1>3. FileCrossed(c) = {} /\ Busy(c) = {}
  BY DEF FileCrossed
<1>4. \A d \in Clerks \ {c} : clerk[d].pc = "idle"
  BY <1>3 DEF Busy
<1>. QED
  BY <1>2, <1>3, <1>4 DEF FilesInv

\* What was stored for a row that is refused is to be removed.
LEMMA RemovesAgain ==
    ASSUME FilesInv, FilesAssumption, NEW c \in Clerks, clerk[c].pc = "write", clerk[c].kind = "upload",
           NEW next, next = [clerk[c] EXCEPT !.pc = "drop", !.drop = {clerk[c].path}]
    PROVE  /\ next \in Hands /\ OnCourse(next) /\ next.pc = "drop" /\ next.path = clerk[c].path /\ next.drop = {clerk[c].path}
           /\ ClerkHolds(next, docs, stored)
<1>1. clerk[c] \in Hands /\ OnCourse(clerk[c]) /\ clerk[c].path \in Paths \cup {NoFile}
  BY HandsOf
<1>2. clerk[c].path # NoFile /\ clerk[c].path \in Paths /\ clerk[c].doc \in Files
  BY <1>1 DEF OnCourse
<1>3. /\ next \in Hands /\ next.pc = "drop" /\ next.drop = {clerk[c].path} /\ next.path = clerk[c].path /\ next.kind = "upload"
      /\ next.doc = clerk[c].doc
  BY <1>1, <1>2 DEF Hands
<1>4. OnCourse(next)
  BY <1>2, <1>3 DEF OnCourse, Tasks
<1>5. \A i \in DocIds : docs[i] # NoDoc => clerk[c].path \notin PathsOf(docs[i])
  BY <1>2 DEF FilesInv, FreshPaths, Docs
<1>6. ClerkHolds(next, docs, stored)
  BY <1>3, <1>5 DEF ClerkHolds, RowHolds, NameHolds, FilesHold
<1>. QED
  BY <1>3, <1>4, <1>6

LEMMA UploadWrites ==
    ASSUME FilesInv, FilesAssumption, NEW c \in Clerks, WriteDoc(c), clerk[c].kind = "upload"
    PROVE  FilesInv'
<1>. DEFINE me == clerk[c]
            again == [me EXCEPT !.pc = "drop", !.drop = {me.path}]
<1>1. me.pc = "write" /\ stored' = stored /\ file_excuses' = file_excuses \cup FileCrossed(c)
  BY DEF WriteDoc
<1>2. PICK id \in Spare :
          /\ docs' = IF OneCopy(id, me.doc) THEN [docs EXCEPT ![id] = me.doc] ELSE docs
          /\ Takes(c, IF OneCopy(id, me.doc) THEN FreeClerk ELSE again)
  BY DEF WriteDoc
<1>3. FilesTyped /\ RowsApart(docs) /\ CopiesApart(docs) /\ docs \in [DocIds -> Files \cup {NoDoc}] /\ stored \subseteq Paths
  BY DEF FilesInv, FilesTyped
<1>4. me \in Hands /\ OnCourse(me)
  BY HandsOf
<1>5. /\ me.doc \in Files /\ me.path # NoFile /\ me.drop = {} /\ me.doc.file = me.path /\ me.doc.print = NoFile
  BY <1>1, <1>4 DEF OnCourse
<1>6. /\ \A i \in Docs : me.path \notin PathsOf(docs[i])
      /\ \A i \in DocIds : docs[i] # NoDoc => me.path \notin PathsOf(docs[i])
  BY <1>1, <1>5 DEF FilesInv, FreshPaths, Docs
<1>7. id \in DocIds /\ docs[id] = NoDoc
  BY DEF Spare
<1>8. CASE OneCopy(id, me.doc)
  <2>1. docs' = [docs EXCEPT ![id] = me.doc] /\ Takes(c, FreeClerk)
    BY <1>2, <1>8
  <2>2. /\ docs' \in [DocIds -> Files \cup {NoDoc}] /\ CopiesApart(docs')
        /\ docs'[id] = me.doc /\ \A j \in DocIds \ {id} : docs'[j] = docs[j]
    BY <1>3, <1>5, <1>7, <1>8, <2>1, OneRow
  <2>3. PathsOf(me.doc) = {me.path}
    BY <1>5 DEF PathsOf
  <2>4. RowsApart(docs')
    <3>1. \A p \in PathsOf(me.doc) : \/ docs[id] # NoDoc /\ p \in PathsOf(docs[id])
                                     \/ \A j \in Docs : p \notin PathsOf(docs[j])
      BY <1>6, <2>3
    <3>2. me.doc.file # me.doc.print
      BY <1>5
    <3>. QED
      BY <1>3, <1>5, <1>7, <2>1, <3>1, <3>2, OneRowApart
  <2>5. FreeClerk.pc = "idle" /\ FreeClerk.path = NoFile
    BY DEF FreeClerk
  <2>6. ASSUME "crossed" \notin file_excuses'
        PROVE  /\ NamesApart(docs')
               /\ "half_purged" \notin file_excuses' => RowsHaveFiles(docs', stored', clerk')
               /\ file_excuses' = {} => FilesHaveRows(docs', stored', clerk')
    <3>1. /\ file_excuses' = file_excuses
          /\ \A d \in Clerks \ {c} : clerk[d].pc = "idle" /\ clerk'[d] = clerk[d]
          /\ ClerkHolds(me, docs, stored) /\ NamesApart(docs)
          /\ "half_purged" \notin file_excuses => RowsHaveFiles(docs, stored, clerk)
          /\ file_excuses = {} => FilesHaveRows(docs, stored, clerk)
      BY <1>1, <2>1, <2>6, FreeOnCourse, AllAlone
    <3>2. NamesApart(docs')
      <4>1. \A j \in DocIds \ {id} : docs[j] # NoDoc /\ Twins(me.doc, docs[j]) => docs[j].name # me.doc.name
        BY <1>1, <3>1 DEF ClerkHolds, NameHolds, Result
      <4>. QED
        BY <1>3, <1>5, <1>7, <2>1, <3>1, <4>1, OneRowNamed
    <3>3. ASSUME "half_purged" \notin file_excuses' PROVE RowsHaveFiles(docs', stored', clerk')
      <4>1. me.path \in stored
        BY <1>1, <1>5, <3>1 DEF ClerkHolds, FilesHold
      <4>2. RowsHaveFiles(docs, stored, clerk)
        BY <3>1, <3>3
      <4>3. ASSUME NEW i \in DocIds, docs'[i] # NoDoc PROVE PathsOf(docs'[i]) \subseteq stored
        <5>1. CASE i = id
          BY <2>2, <2>3, <4>1, <5>1
        <5>2. CASE i # id
          BY <1>1, <2>2, <3>1, <4>2, <4>3, <5>2 DEF RowsHaveFiles
        <5>. QED
          BY <5>1, <5>2
      <4>. QED
        BY <1>1, <4>3 DEF RowsHaveFiles
    <3>4. ASSUME file_excuses' = {} PROVE FilesHaveRows(docs', stored', clerk')
      <4>1. FilesHaveRows(docs, stored, clerk)
        BY <3>1, <3>4
      <4>. SUFFICES ASSUME NEW p \in stored
                    PROVE  \/ \E i \in DocIds : docs'[i] # NoDoc /\ p \in PathsOf(docs'[i])
                           \/ \E d \in Clerks : p \in {clerk'[d].path} \cup clerk'[d].drop
        BY <1>1 DEF FilesHaveRows
      <4>2. CASE \E i \in DocIds : docs[i] # NoDoc /\ p \in PathsOf(docs[i])
        BY <1>7, <2>2, <4>2
      <4>3. ASSUME NEW d \in Clerks, p \in {clerk[d].path} \cup clerk[d].drop
            PROVE  \/ \E i \in DocIds : docs'[i] # NoDoc /\ p \in PathsOf(docs'[i])
                   \/ \E e \in Clerks : p \in {clerk'[e].path} \cup clerk'[e].drop
        <5>1. CASE d = c
          <6>1. p = me.path
            BY <1>5, <4>3, <5>1
          <6>. QED
            BY <1>5, <1>7, <2>2, <2>3, <6>1 DEF FilesAssumption
        <5>2. CASE d # c
          BY <3>1, <4>3, <5>2
        <5>. QED
          BY <5>1, <5>2
      <4>. QED
        BY <4>1, <4>2, <4>3 DEF FilesHaveRows
    <3>. QED
      BY <3>2, <3>3, <3>4
  <2>7. \A i \in DocIds : docs'[i] # NoDoc =>
            \A p \in PathsOf(docs'[i]) : (\E j \in DocIds : docs[j] # NoDoc /\ p \in PathsOf(docs[j])) \/ p = clerk[c].path
    BY <2>2, <2>3
  <2>. HIDE DEF FilesInv
  <2>. QED
    BY <1>1, <1>3, <2>1, <2>2, <2>4, <2>5, <2>6, <2>7, FreeOnCourse, FreeHolds, WriteStep
<1>9. CASE ~OneCopy(id, me.doc)
  <2>1. docs' = docs /\ Takes(c, again)
    BY <1>2, <1>9
  <2>2. /\ again \in Hands /\ OnCourse(again) /\ again.pc = "drop" /\ again.path = me.path /\ again.drop = {me.path}
        /\ ClerkHolds(again, docs, stored)
    BY <1>1, RemovesAgain
  <2>. HIDE DEF again
  <2>3. ASSUME "crossed" \notin file_excuses'
        PROVE  /\ NamesApart(docs')
               /\ "half_purged" \notin file_excuses' => RowsHaveFiles(docs', stored', clerk')
               /\ file_excuses' = {} => FilesHaveRows(docs', stored', clerk')
    <3>1. /\ file_excuses' = file_excuses
          /\ \A d \in Clerks \ {c} : clerk[d].pc = "idle" /\ clerk'[d] = clerk[d]
          /\ clerk'[c] = again
          /\ NamesApart(docs)
          /\ "half_purged" \notin file_excuses => RowsHaveFiles(docs, stored, clerk)
          /\ file_excuses = {} => FilesHaveRows(docs, stored, clerk)
      BY <1>1, <2>1, <2>2, <2>3, AllAlone
    <3>2. RowsHaveFiles(docs, stored, clerk) => RowsHaveFiles(docs', stored', clerk')
      BY <1>1, <2>1, <3>1 DEF RowsHaveFiles
    <3>3. FilesHaveRows(docs, stored, clerk) => FilesHaveRows(docs', stored', clerk')
      <4>1. \A d \in Clerks : {clerk[d].path} \cup clerk[d].drop \subseteq {clerk'[d].path} \cup clerk'[d].drop
        BY <1>5, <2>2, <3>1
      <4>. QED
        BY <1>1, <2>1, <4>1 DEF FilesHaveRows
    <3>. QED
      BY <2>1, <3>1, <3>2, <3>3
  <2>. HIDE DEF FilesInv
  <2>. QED
    BY <1>1, <1>3, <2>1, <2>2, <2>3, WriteStep
<1>. QED
  BY <1>8, <1>9

\* What a row's files are after a patch: the print copy may be another.
LEMMA PatchedFiles ==
    ASSUME FilesInv, FilesAssumption, NEW c \in Clerks, clerk[c].pc = "write", clerk[c].kind # "upload",
           clerk[c].id \in Docs, NEW new, new = Put(docs[clerk[c].id], clerk[c].patch)
    PROVE  /\ clerk[c].id \in DocIds /\ new \in Files /\ new.file = docs[clerk[c].id].file
           /\ \/ clerk[c].kind = "print" /\ new.print = clerk[c].path
              \/ clerk[c].kind # "print" /\ new.print = docs[clerk[c].id].print /\ clerk[c].path = NoFile
           /\ clerk[c].path # NoFile => \A j \in Docs : clerk[c].path \notin PathsOf(docs[j])
           /\ new.file = new.print => new.file = NoFile
           /\ \A p \in PathsOf(new) : p = clerk[c].path \/ p \in PathsOf(docs[clerk[c].id])
<1>. DEFINE me == clerk[c]
            old == docs[me.id]
<1>1. me \in Hands /\ OnCourse(me) /\ me.patch \in FilePatches
  BY HandsOf
<1>2. me.id \in DocIds /\ old \in Files /\ old # NoDoc
  BY RowRead
<1>3. /\ new \in Files /\ new.file = old.file
      /\ new.print = IF "print" \in DOMAIN me.patch THEN me.patch["print"] ELSE old.print
  BY <1>1, <1>2, PutColumns
<1>4. \/ me.kind = "print" /\ DOMAIN me.patch = {"print"} /\ me.patch["print"] = me.path
      \/ me.kind # "print" /\ "print" \notin DOMAIN me.patch /\ me.path = NoFile
  <2>1. me.kind \in {"update", "trash", "restore", "unstar", "print", "reindex"}
    BY <1>1 DEF OnCourse, Tasks
  <2>. QED
    BY <1>1, <2>1 DEF OnCourse
<1>5. me.path # NoFile => \A j \in Docs : me.path \notin PathsOf(docs[j])
  BY DEF FilesInv, FreshPaths
<1>6. old.file = old.print => old.file = NoFile
  BY <1>2 DEF FilesInv, RowsApart
<1>7. new.file = new.print => new.file = NoFile
  BY <1>3, <1>4, <1>5, <1>6 DEF PathsOf
<1>8. \A p \in PathsOf(new) : p = me.path \/ p \in PathsOf(old)
  BY <1>3, <1>4 DEF PathsOf
<1>. QED
  BY <1>2, <1>3, <1>4, <1>5, <1>7, <1>8

\* What it goes on to remove belongs to no row by then.
LEMMA RemovesOld ==
    ASSUME FilesInv, FilesAssumption, NEW c \in Clerks, clerk[c].pc = "write", clerk[c].kind # "upload",
           NEW next, next = IF clerk[c].drop = {} THEN FreeClerk ELSE [clerk[c] EXCEPT !.pc = "drop", !.drop = clerk[c].drop]
    PROVE  /\ next \in Hands /\ OnCourse(next) /\ next.path \in {clerk[c].path, NoFile} /\ next.pc # "write"
           /\ clerk[c].drop = {} => next = FreeClerk
           /\ clerk[c].drop # {} =>
                  /\ clerk[c].kind = "print" /\ clerk[c].drop = {clerk[c].doc.print} /\ clerk[c].doc.print # NoFile
                  /\ next.pc = "drop" /\ next.kind = "print" /\ next.path = clerk[c].path /\ next.drop = clerk[c].drop
<1>. DEFINE me == clerk[c]
<1>1. me \in Hands /\ OnCourse(me) /\ me.drop \subseteq Paths
  BY HandsOf
<1>2. FreeClerk \in Hands /\ OnCourse(FreeClerk) /\ FreeClerk.path = NoFile /\ FreeClerk.pc = "idle"
  BY FreeOnCourse DEF FreeClerk
<1>3. CASE me.drop = {}
  BY <1>2, <1>3
<1>4. CASE me.drop # {}
  <2>1. me.kind = "print" /\ me.drop = {me.doc.print} /\ me.doc.print # NoFile /\ me.doc \in Files /\ me.id \in DocIds
    BY <1>1, <1>4 DEF OnCourse, Tasks
  <2>2. /\ next \in Hands /\ next.pc = "drop" /\ next.drop = me.drop /\ next.path = me.path /\ next.kind = "print"
        /\ next.doc = me.doc /\ next.id = me.id
    BY <1>1, <1>4, <2>1 DEF Hands
  <2>3. OnCourse(next)
    BY <2>1, <2>2 DEF OnCourse, Tasks
  <2>. QED
    BY <1>4, <2>1, <2>2, <2>3
<1>. QED
  BY <1>3, <1>4

\* A row that is found takes the patch.
LEMMA RowTakesPatch ==
    ASSUME FilesInv, FilesAssumption, NEW c \in Clerks, clerk[c].pc = "write", clerk[c].kind # "upload", clerk[c].id \in Docs,
           NEW new, new = Put(docs[clerk[c].id], clerk[c].patch), OneCopy(clerk[c].id, new),
           docs' = [docs EXCEPT ![clerk[c].id] = new],
           NEW next, next = IF clerk[c].drop = {} THEN FreeClerk ELSE [clerk[c] EXCEPT !.pc = "drop", !.drop = clerk[c].drop],
           Takes(c, next), stored' = stored, file_excuses' = file_excuses \cup FileCrossed(c)
    PROVE  FilesInv'
<1>. DEFINE me == clerk[c]
            id == me.id
            old == docs[id]
<1>1. FilesTyped /\ RowsApart(docs) /\ CopiesApart(docs) /\ docs \in [DocIds -> Files \cup {NoDoc}] /\ stored \subseteq Paths
  BY DEF FilesInv, FilesTyped
<1>2. me \in Hands /\ OnCourse(me)
  BY HandsOf
<1>3. /\ id \in DocIds /\ new \in Files /\ new.file = old.file /\ old \in Files /\ old # NoDoc /\ new # NoDoc
      /\ \/ me.kind = "print" /\ new.print = me.path
         \/ me.kind # "print" /\ new.print = old.print /\ me.path = NoFile
      /\ me.path # NoFile => \A j \in Docs : me.path \notin PathsOf(docs[j])
      /\ new.file = new.print => new.file = NoFile
      /\ \A p \in PathsOf(new) : p = me.path \/ p \in PathsOf(old)
  BY PatchedFiles, RowRead DEF FilesAssumption
<1>4. /\ next \in Hands /\ OnCourse(next) /\ next.path \in {me.path, NoFile} /\ next.pc # "write"
      /\ me.drop = {} => next = FreeClerk
      /\ me.drop # {} =>
             /\ me.kind = "print" /\ me.drop = {me.doc.print} /\ me.doc.print # NoFile
             /\ next.pc = "drop" /\ next.kind = "print" /\ next.path = me.path /\ next.drop = me.drop
  BY RemovesOld
<1>5. /\ docs' \in [DocIds -> Files \cup {NoDoc}] /\ CopiesApart(docs')
      /\ docs'[id] = new /\ \A j \in DocIds \ {id} : docs'[j] = docs[j]
  BY <1>1, <1>3, OneRow
<1>6. RowsApart(docs')
  <2>1. \A p \in PathsOf(new) : \/ docs[id] # NoDoc /\ p \in PathsOf(docs[id])
                                \/ \A j \in Docs : p \notin PathsOf(docs[j])
    BY <1>3 DEF PathsOf
  <2>2. id \in DocIds /\ new \in Files /\ (new.file = new.print => new.file = NoFile)
    BY <1>3
  <2>3. docs' = [docs EXCEPT ![id] = new]
    OBVIOUS
  <2>. HIDE DEF id
  <2>. QED
    BY ONLY <1>1, <2>1, <2>2, <2>3, OneRowApart
<1>7. \A i \in DocIds : docs'[i] # NoDoc =>
          \A p \in PathsOf(docs'[i]) : (\E j \in DocIds : docs[j] # NoDoc /\ p \in PathsOf(docs[j])) \/ p = clerk[c].path
  BY <1>3, <1>5
<1>8. ASSUME "crossed" \notin file_excuses'
      PROVE  /\ NamesApart(docs')
             /\ ClerkHolds(next, docs', stored')
             /\ "half_purged" \notin file_excuses' => RowsHaveFiles(docs', stored', clerk')
             /\ file_excuses' = {} => FilesHaveRows(docs', stored', clerk')
  <2>1. /\ file_excuses' = file_excuses
        /\ \A d \in Clerks \ {c} : clerk[d].pc = "idle" /\ clerk'[d] = clerk[d]
        /\ clerk'[c] = next
        /\ ClerkHolds(me, docs, stored) /\ NamesApart(docs)
        /\ "half_purged" \notin file_excuses => RowsHaveFiles(docs, stored, clerk)
        /\ file_excuses = {} => FilesHaveRows(docs, stored, clerk)
    BY <1>4, <1>8, AllAlone
  <2>2. me.kind # "none" /\ old = me.doc /\ Result(me) = new
    <3>1. me.kind # "none"
      BY <1>2 DEF OnCourse, Tasks
    <3>. QED
      BY <2>1, <3>1 DEF ClerkHolds, RowHolds, Result
  <2>3. NamesApart(docs')
    <3>1. \A j \in DocIds \ {id} : docs[j] # NoDoc /\ Twins(new, docs[j]) => docs[j].name # new.name
      BY <2>1, <2>2 DEF ClerkHolds, NameHolds
    <3>2. FilesTyped /\ id \in DocIds /\ new \in Files /\ docs' = [docs EXCEPT ![id] = new] /\ NamesApart(docs)
      BY <1>1, <1>3, <2>1
    <3>. HIDE DEF id
    <3>. QED
      BY ONLY <3>1, <3>2, OneRowNamed
  <2>4. ClerkHolds(next, docs', stored')
    <3>1. CASE me.drop = {}
      <4>1. next = FreeClerk
        BY <1>4, <3>1
      <4>. QED
        BY ONLY <4>1, FreeHolds
    <3>2. CASE me.drop # {}
      <4>1. /\ next.pc = "drop" /\ next.kind = "print" /\ next.path = me.path /\ next.drop = {old.print} /\ old.print # NoFile
            /\ new.print = me.path
        BY <1>3, <1>4, <2>2, <3>2
      <4>2. old.print \notin PathsOf(new)
        <5>1. old.print \in PathsOf(old) /\ id \in Docs
          BY <4>1 DEF PathsOf
        <5>2. me.path # old.print
          BY <1>3, <4>1, <5>1
        <5>3. new.file # old.print
          BY <1>1, <1>3, <4>1 DEF RowsApart
        <5>. QED
          BY <4>1, <5>2, <5>3 DEF PathsOf
      <4>3. ASSUME NEW i \in DocIds, docs'[i] # NoDoc PROVE next.drop \cap PathsOf(docs'[i]) = {}
        <5>1. CASE i = id
          BY <1>5, <4>1, <4>2, <5>1
        <5>2. CASE i # id
          <6>1. docs'[i] = docs[i]
            BY <1>5, <5>2
          <6>2. PathsOf(old) \cap PathsOf(docs[i]) = {}
            BY <1>1, <1>3, <4>3, <5>2, <6>1 DEF RowsApart
          <6>3. old.print \in PathsOf(old)
            BY <4>1 DEF PathsOf
          <6>. QED
            BY <4>1, <6>1, <6>2, <6>3
        <5>. QED
          BY <5>1, <5>2
      <4>4. \E i \in DocIds : docs'[i] # NoDoc /\ next.path \in {docs'[i].file, docs'[i].print}
        <5>1. id \in DocIds /\ docs'[id] # NoDoc /\ next.path = docs'[id].print
          BY <1>3, <1>5, <4>1
        <5>. QED
          BY <5>1
      <4>. QED
        BY <4>1, <4>3, <4>4 DEF ClerkHolds, RowHolds, NameHolds, FilesHold
    <3>. QED
      BY <3>1, <3>2
  <2>5. ASSUME "half_purged" \notin file_excuses' PROVE RowsHaveFiles(docs', stored', clerk')
    <3>1. RowsHaveFiles(docs, stored, clerk)
      BY <2>1, <2>5
    <3>2. \A d \in Clerks : clerk[d].pc # "delete"
      BY <2>1
    <3>3. \A i \in DocIds : docs[i] # NoDoc => PathsOf(docs[i]) \subseteq stored
      BY <3>1, <3>2 DEF RowsHaveFiles
    <3>4. me.path # NoFile => me.path \in stored
      BY <2>1 DEF ClerkHolds, FilesHold
    <3>5. PathsOf(new) \subseteq stored
      BY <1>3, <3>3, <3>4 DEF PathsOf
    <3>. QED
      BY <1>5, <3>3, <3>5 DEF RowsHaveFiles
  <2>6. ASSUME file_excuses' = {} PROVE FilesHaveRows(docs', stored', clerk')
    <3>1. FilesHaveRows(docs, stored, clerk)
      BY <2>1, <2>6
    <3>. SUFFICES ASSUME NEW p \in stored
                  PROVE  \/ \E i \in DocIds : docs'[i] # NoDoc /\ p \in PathsOf(docs'[i])
                         \/ \E d \in Clerks : p \in {clerk'[d].path} \cup clerk'[d].drop
      BY DEF FilesHaveRows
    <3>2. p # NoFile
      BY <1>1 DEF FilesAssumption
    <3>3. p \in me.drop => p \in clerk'[c].drop
      BY <1>4, <2>1
    <3>4. p \in PathsOf(old) => p \in PathsOf(new) \/ p \in me.drop
      <4>1. CASE me.kind = "print"
        <5>1. me.drop = {old.print} \ {NoFile}
          BY <1>2, <2>2, <4>1 DEF OnCourse
        <5>. QED
          BY <1>3, <5>1 DEF PathsOf
      <4>2. CASE me.kind # "print"
        BY <1>3, <4>2 DEF PathsOf
      <4>. QED
        BY <4>1, <4>2
    <3>5. p = me.path => p \in PathsOf(new)
      BY <1>3, <3>2 DEF PathsOf
    <3>6. CASE \E i \in DocIds : docs[i] # NoDoc /\ p \in PathsOf(docs[i])
      <4>1. PICK i \in DocIds : docs[i] # NoDoc /\ p \in PathsOf(docs[i])
        BY <3>6
      <4>2. CASE i = id
        BY <1>3, <1>5, <3>3, <3>4, <4>1, <4>2
      <4>3. CASE i # id
        BY <1>5, <4>1, <4>3
      <4>. QED
        BY <4>2, <4>3
    <3>7. ASSUME NEW d \in Clerks, p \in {clerk[d].path} \cup clerk[d].drop
          PROVE  \/ \E i \in DocIds : docs'[i] # NoDoc /\ p \in PathsOf(docs'[i])
                 \/ \E e \in Clerks : p \in {clerk'[e].path} \cup clerk'[e].drop
      <4>1. CASE d = c
        BY <1>3, <1>5, <3>3, <3>5, <3>7, <4>1
      <4>2. CASE d # c
        BY <2>1, <3>7, <4>2
      <4>. QED
        BY <4>1, <4>2
    <3>. QED
      BY <3>1, <3>6, <3>7 DEF FilesHaveRows
  <2>. QED
    BY <2>3, <2>4, <2>5, <2>6
<1>. HIDE DEF FilesInv
<1>. QED
  BY <1>1, <1>4, <1>5, <1>6, <1>7, <1>8, WriteStep

LEMMA OtherWrites ==
    ASSUME FilesInv, FilesAssumption, NEW c \in Clerks, WriteDoc(c), clerk[c].kind # "upload"
    PROVE  FilesInv'
<1>. DEFINE me == clerk[c]
            after == IF me.drop = {} THEN FreeClerk ELSE [me EXCEPT !.pc = "drop", !.drop = me.drop]
            found == me.id \in Docs
            new == IF found THEN Put(docs[me.id], me.patch) ELSE NoDoc
            fits == found => OneCopy(me.id, new)
<1>1. /\ me.pc = "write" /\ stored' = stored /\ file_excuses' = file_excuses \cup FileCrossed(c)
      /\ docs' = IF found /\ fits THEN [docs EXCEPT ![me.id] = new] ELSE docs
      /\ Takes(c, IF fits THEN after ELSE FreeClerk)
  BY DEF WriteDoc
<1>2. FilesTyped /\ RowsApart(docs) /\ CopiesApart(docs) /\ docs \in [DocIds -> Files \cup {NoDoc}] /\ stored \subseteq Paths
  BY DEF FilesInv, FilesTyped
<1>3. me \in Hands /\ OnCourse(me) /\ me.kind \in Tasks
  BY <1>1, HandsOf DEF OnCourse
<1>4. CASE found /\ fits
  <2>1. docs' = [docs EXCEPT ![me.id] = new] /\ Takes(c, after) /\ OneCopy(me.id, new) /\ new = Put(docs[me.id], me.patch)
    BY <1>1, <1>4
  <2>. HIDE DEF FilesInv, new
  <2>. QED
    BY <1>1, <1>4, <2>1, RowTakesPatch
<1>5. ASSUME "crossed" \notin file_excuses' PROVE ClerkHolds(me, docs, stored) /\ docs[me.id] = me.doc /\ me.id \in Docs
  <2>1. "crossed" \notin file_excuses
    BY <1>1, <1>5
  <2>2. ClerkHolds(me, docs, stored)
    BY <2>1, HandsOf
  <2>3. docs[me.id] = me.doc /\ me.doc \in Files /\ me.id \in DocIds
    BY <1>1, <1>3, <2>2 DEF ClerkHolds, RowHolds, OnCourse, Tasks
  <2>. QED
    BY <2>2, <2>3 DEF Docs, FilesAssumption
<1>6. \A i \in DocIds : docs[i] # NoDoc =>
          \A p \in PathsOf(docs[i]) : (\E j \in DocIds : docs[j] # NoDoc /\ p \in PathsOf(docs[j])) \/ p = clerk[c].path
  OBVIOUS
<1>7. CASE ~found
  <2>1. docs' = docs /\ Takes(c, after) /\ "crossed" \in file_excuses'
    BY <1>1, <1>5, <1>7
  <2>2. after \in Hands /\ OnCourse(after) /\ after.path \in {me.path, NoFile} /\ after.pc # "write"
    BY <1>1, RemovesOld
  <2>. HIDE DEF FilesInv, after
  <2>. QED
    BY <1>1, <1>2, <1>6, <2>1, <2>2, WriteStep
<1>8. CASE found /\ ~fits
  <2>1. docs' = docs /\ Takes(c, FreeClerk) /\ ~OneCopy(me.id, new) /\ new = Put(docs[me.id], me.patch)
    BY <1>1, <1>8
  <2>2. FreeClerk.path = NoFile /\ FreeClerk.pc = "idle"
    BY DEF FreeClerk
  <2>3. me.kind # "print"
    <3>. SUFFICES ASSUME me.kind = "print" PROVE FALSE
      OBVIOUS
    <3>1. DOMAIN me.patch = {"print"} /\ me.patch \in FilePatches
      BY <1>1, <1>3 DEF OnCourse, Hands
    <3>2. docs[me.id] \in Files /\ docs[me.id] # NoDoc /\ me.id \in DocIds
      BY <1>8, RowRead
    <3>3. /\ new.content = docs[me.id].content /\ new.folder = docs[me.id].folder /\ new.trashed = docs[me.id].trashed
      BY <2>1, <3>1, <3>2, PutColumns
    <3>4. OneCopy(me.id, new)
      <4>. HIDE DEF new
      <4>. SUFFICES ASSUME ~new.trashed, NEW j \in Docs \ {me.id}, docs[j].folder = new.folder, ~docs[j].trashed
                    PROVE  docs[j].content # new.content
        BY DEF OneCopy, _copy_in
      <4>1. j \in DocIds /\ docs[j] # NoDoc /\ Twins(docs[me.id], docs[j])
        BY <3>3 DEF Docs, Twins
      <4>. QED
        BY <1>2, <3>2, <3>3, <4>1 DEF CopiesApart
    <3>. QED
      BY <2>1, <3>4
  <2>4. me.drop = {} /\ me.path = NoFile
    BY <1>1, <1>3, <2>3 DEF OnCourse, Tasks
  <2>5. ASSUME "crossed" \notin file_excuses'
        PROVE  /\ NamesApart(docs')
               /\ "half_purged" \notin file_excuses' => RowsHaveFiles(docs', stored', clerk')
               /\ file_excuses' = {} => FilesHaveRows(docs', stored', clerk')
    <3>1. /\ file_excuses' = file_excuses
          /\ \A d \in Clerks \ {c} : clerk[d].pc = "idle" /\ clerk'[d] = clerk[d]
          /\ clerk'[c] = FreeClerk
          /\ NamesApart(docs)
          /\ "half_purged" \notin file_excuses => RowsHaveFiles(docs, stored, clerk)
          /\ file_excuses = {} => FilesHaveRows(docs, stored, clerk)
      BY <1>1, <2>1, <2>5, FreeOnCourse, AllAlone
    <3>2. RowsHaveFiles(docs, stored, clerk) => RowsHaveFiles(docs', stored', clerk')
      BY <1>1, <2>1, <3>1 DEF RowsHaveFiles
    <3>3. FilesHaveRows(docs, stored, clerk) => FilesHaveRows(docs', stored', clerk')
      <4>1. \A d \in Clerks : {clerk[d].path} \cup clerk[d].drop \subseteq {clerk'[d].path} \cup clerk'[d].drop
        BY <2>2, <2>4, <3>1
      <4>. QED
        BY <1>1, <2>1, <4>1 DEF FilesHaveRows
    <3>. QED
      BY <2>1, <3>1, <3>2, <3>3
  <2>. HIDE DEF FilesInv
  <2>. QED
    BY <1>1, <1>2, <1>6, <2>1, <2>2, <2>5, FreeOnCourse, FreeHolds, WriteStep
<1>. QED
  BY <1>4, <1>7, <1>8

LEMMA Drops ==
    ASSUME FilesInv, FilesAssumption, NEW c \in Clerks, DropFiles(c)
    PROVE  FilesInv'
<1>. DEFINE me == clerk[c]
            goes_on == [me EXCEPT !.pc = "delete"]
            next == IF me.kind = "purge" THEN goes_on ELSE FreeClerk
<1>1. /\ me.pc = "drop" /\ docs' = docs /\ stored' = stored \ me.drop /\ Takes(c, next)
      /\ file_excuses' = file_excuses \cup FileCrossed(c)
  BY DEF DropFiles
<1>2. FilesTyped /\ RowsApart(docs) /\ CopiesApart(docs) /\ docs \in [DocIds -> Files \cup {NoDoc}] /\ stored \subseteq Paths
  BY DEF FilesInv, FilesTyped
<1>3. me \in Hands /\ OnCourse(me) /\ me.kind \in {"upload", "print", "purge"}
  BY <1>1, HandsOf DEF OnCourse
<1>4. me.kind = "purge" => me.doc \in Files /\ me.id \in DocIds /\ me.doc.trashed /\ me.path = NoFile /\ me.drop = PathsOf(me.doc)
  BY <1>1, <1>3 DEF OnCourse
<1>5. /\ next \in Hands /\ OnCourse(next) /\ next.path \in {me.path, NoFile} /\ next.pc # "write"
      /\ me.kind = "purge" => next.pc = "delete" /\ next.kind = "purge" /\ next.drop = me.drop /\ next.id = me.id /\ next.doc = me.doc
                              /\ next.path = NoFile
      /\ me.kind # "purge" => next = FreeClerk
  <2>1. CASE me.kind = "purge"
    <3>1. /\ goes_on \in Hands /\ goes_on.pc = "delete" /\ goes_on.kind = "purge" /\ goes_on.drop = me.drop /\ goes_on.id = me.id
          /\ goes_on.doc = me.doc /\ goes_on.path = NoFile /\ goes_on.patch = me.patch
      BY <1>3, <1>4, <2>1 DEF Hands
    <3>2. OnCourse(goes_on)
      BY <1>4, <2>1, <3>1 DEF OnCourse, Tasks
    <3>. QED
      BY <2>1, <3>1, <3>2
  <2>2. CASE me.kind # "purge"
    BY <2>2, FreeOnCourse DEF FreeClerk
  <2>. QED
    BY <2>1, <2>2
<1>. HIDE DEF next
<1>6. \A i \in DocIds : docs[i] # NoDoc =>
          \A p \in PathsOf(docs[i]) : (\E j \in DocIds : docs[j] # NoDoc /\ p \in PathsOf(docs[j])) \/ p = clerk[c].path
  OBVIOUS
<1>7. ASSUME "crossed" \notin file_excuses'
      PROVE  /\ NamesApart(docs')
             /\ ClerkHolds(next, docs', stored')
             /\ "half_purged" \notin file_excuses' => RowsHaveFiles(docs', stored', clerk')
             /\ file_excuses' = {} => FilesHaveRows(docs', stored', clerk')
  <2>1. /\ file_excuses' = file_excuses
        /\ \A d \in Clerks \ {c} : clerk[d].pc = "idle" /\ clerk'[d] = clerk[d]
        /\ clerk'[c] = next
        /\ ClerkHolds(me, docs, stored) /\ NamesApart(docs)
        /\ "half_purged" \notin file_excuses => RowsHaveFiles(docs, stored, clerk)
        /\ file_excuses = {} => FilesHaveRows(docs, stored, clerk)
    BY <1>1, <1>5, <1>7, AllAlone
  <2>2. me.kind = "purge" => docs[me.id] = me.doc /\ docs[me.id] # NoDoc
    BY <1>1, <1>4, <2>1 DEF ClerkHolds, RowHolds, FilesAssumption
  <2>3. me.kind # "purge" =>
            /\ \A i \in DocIds : docs[i] # NoDoc => me.drop \cap PathsOf(docs[i]) = {}
            /\ me.path \in me.drop \/ \E i \in DocIds : docs[i] # NoDoc /\ me.path \in {docs[i].file, docs[i].print}
    BY <1>1, <2>1 DEF ClerkHolds, FilesHold
  <2>4. ClerkHolds(next, docs', stored')
    <3>1. CASE me.kind = "purge"
      BY <1>1, <1>5, <2>2, <3>1 DEF ClerkHolds, RowHolds, NameHolds, FilesHold
    <3>2. CASE me.kind # "purge"
      BY <1>5, <3>2, FreeHolds
    <3>. QED
      BY <3>1, <3>2
  <2>5. ASSUME "half_purged" \notin file_excuses' PROVE RowsHaveFiles(docs', stored', clerk')
    <3>1. RowsHaveFiles(docs, stored, clerk)
      BY <2>1, <2>5
    <3>2. \A d \in Clerks : clerk[d].pc # "delete"
      BY <1>1, <2>1
    <3>3. \A i \in DocIds : docs[i] # NoDoc => PathsOf(docs[i]) \subseteq stored
      BY <3>1, <3>2 DEF RowsHaveFiles
    <3>4. ASSUME NEW i \in DocIds, docs[i] # NoDoc
          PROVE  \/ PathsOf(docs[i]) \subseteq stored'
                 \/ docs[i].trashed /\ \E d \in Clerks : clerk'[d].pc = "delete" /\ clerk'[d].id = i
      <4>1. CASE me.kind = "purge" /\ i = me.id
        BY <1>4, <1>5, <2>1, <2>2, <4>1
      <4>2. CASE me.kind = "purge" /\ i # me.id
        <5>1. PathsOf(docs[i]) \cap me.drop = {}
          BY <1>2, <1>4, <2>2, <3>4, <4>2 DEF RowsApart
        <5>. QED
          BY <1>1, <3>3, <3>4, <5>1
      <4>3. CASE me.kind # "purge"
        BY <1>1, <2>3, <3>3, <3>4, <4>3
      <4>. QED
        BY <4>1, <4>2, <4>3
    <3>. QED
      BY <1>1, <3>4 DEF RowsHaveFiles
  <2>6. ASSUME file_excuses' = {} PROVE FilesHaveRows(docs', stored', clerk')
    <3>1. FilesHaveRows(docs, stored, clerk)
      BY <2>1, <2>6
    <3>. SUFFICES ASSUME NEW p \in stored, p \notin me.drop
                  PROVE  \/ \E i \in DocIds : docs[i] # NoDoc /\ p \in PathsOf(docs[i])
                         \/ \E d \in Clerks : p \in {clerk'[d].path} \cup clerk'[d].drop
      BY <1>1 DEF FilesHaveRows
    <3>2. p # NoFile
      BY <1>2 DEF FilesAssumption
    <3>3. ASSUME NEW d \in Clerks, p \in {clerk[d].path} \cup clerk[d].drop
          PROVE  \/ \E i \in DocIds : docs[i] # NoDoc /\ p \in PathsOf(docs[i])
                 \/ \E e \in Clerks : p \in {clerk'[e].path} \cup clerk'[e].drop
      <4>1. CASE d = c
        <5>1. p = me.path
          BY <3>3, <4>1
        <5>. QED
          BY <1>4, <2>3, <3>2, <5>1 DEF PathsOf
      <4>2. CASE d # c
        BY <2>1, <3>3, <4>2
      <4>. QED
        BY <4>1, <4>2
    <3>. QED
      BY <3>1, <3>3 DEF FilesHaveRows
  <2>. QED
    BY <1>1, <2>1, <2>4, <2>5, <2>6
<1>. HIDE DEF FilesInv
<1>8. stored' \subseteq Paths /\ docs' \in [DocIds -> Files \cup {NoDoc}] /\ RowsApart(docs') /\ CopiesApart(docs')
  BY <1>1, <1>2
<1>. QED
  BY <1>1, <1>5, <1>6, <1>7, <1>8, WriteStep

LEMMA Deletes ==
    ASSUME FilesInv, FilesAssumption, NEW c \in Clerks, DeleteDoc(c)
    PROVE  FilesInv'
<1>. DEFINE me == clerk[c]
            id == me.id
<1>1. /\ me.pc = "delete" /\ docs' = [docs EXCEPT ![id] = NoDoc] /\ stored' = stored /\ Takes(c, FreeClerk)
      /\ file_excuses' = file_excuses \cup FileCrossed(c)
  BY DEF DeleteDoc
<1>2. FilesTyped /\ RowsApart(docs) /\ CopiesApart(docs) /\ docs \in [DocIds -> Files \cup {NoDoc}] /\ stored \subseteq Paths
  BY DEF FilesInv, FilesTyped
<1>3. me \in Hands /\ OnCourse(me) /\ me.kind = "purge"
  BY <1>1, HandsOf DEF OnCourse
<1>4. me.doc \in Files /\ id \in DocIds /\ me.path = NoFile /\ me.drop = PathsOf(me.doc)
  BY <1>1, <1>3 DEF OnCourse
<1>5. docs' \in [DocIds -> Files \cup {NoDoc}] /\ docs'[id] = NoDoc /\ \A j \in DocIds \ {id} : docs'[j] = docs[j]
  BY <1>1, <1>2, <1>4
<1>6. \A j \in DocIds : docs'[j] # NoDoc => j # id /\ docs'[j] = docs[j]
  BY <1>5
<1>7. RowsApart(docs') /\ CopiesApart(docs') /\ (NamesApart(docs) => NamesApart(docs'))
  <2>1. RowsApart(docs')
    BY <1>2, <1>6 DEF RowsApart
  <2>2. CopiesApart(docs')
    BY <1>2, <1>6 DEF CopiesApart
  <2>3. NamesApart(docs) => NamesApart(docs')
    BY <1>6 DEF NamesApart
  <2>. QED
    BY <2>1, <2>2, <2>3
<1>8. \A i \in DocIds : docs'[i] # NoDoc =>
          \A p \in PathsOf(docs'[i]) : (\E j \in DocIds : docs[j] # NoDoc /\ p \in PathsOf(docs[j])) \/ p = clerk[c].path
  BY <1>6
<1>9. ASSUME "crossed" \notin file_excuses'
      PROVE  /\ NamesApart(docs')
             /\ "half_purged" \notin file_excuses' => RowsHaveFiles(docs', stored', clerk')
             /\ file_excuses' = {} => FilesHaveRows(docs', stored', clerk')
  <2>1. /\ file_excuses' = file_excuses
        /\ \A d \in Clerks \ {c} : clerk[d].pc = "idle" /\ clerk'[d] = clerk[d]
        /\ ClerkHolds(me, docs, stored) /\ NamesApart(docs)
        /\ "half_purged" \notin file_excuses => RowsHaveFiles(docs, stored, clerk)
        /\ file_excuses = {} => FilesHaveRows(docs, stored, clerk)
    BY <1>1, <1>9, FreeOnCourse, AllAlone
  <2>2. docs[id] = me.doc /\ me.drop \cap stored = {}
    BY <1>1, <1>3, <2>1 DEF ClerkHolds, RowHolds, FilesHold
  <2>3. ASSUME "half_purged" \notin file_excuses' PROVE RowsHaveFiles(docs', stored', clerk')
    <3>1. RowsHaveFiles(docs, stored, clerk)
      BY <2>1, <2>3
    <3>2. ASSUME NEW i \in DocIds, docs'[i] # NoDoc PROVE PathsOf(docs'[i]) \subseteq stored
      <4>1. i # id /\ docs'[i] = docs[i]
        BY <1>6, <3>2
      <4>2. \A d \in Clerks : ~(clerk[d].pc = "delete" /\ clerk[d].id = i)
        BY <2>1, <4>1
      <4>. QED
        BY <3>1, <3>2, <4>1, <4>2 DEF RowsHaveFiles
    <3>. QED
      BY <1>1, <3>2 DEF RowsHaveFiles
  <2>4. ASSUME file_excuses' = {} PROVE FilesHaveRows(docs', stored', clerk')
    <3>1. FilesHaveRows(docs, stored, clerk)
      BY <2>1, <2>4
    <3>. SUFFICES ASSUME NEW p \in stored
                  PROVE  \/ \E i \in DocIds : docs'[i] # NoDoc /\ p \in PathsOf(docs'[i])
                         \/ \E d \in Clerks : p \in {clerk'[d].path} \cup clerk'[d].drop
      BY <1>1 DEF FilesHaveRows
    <3>2. p # NoFile /\ p \notin me.drop /\ p \notin PathsOf(docs[id])
      BY <1>2, <1>4, <2>2 DEF FilesAssumption
    <3>3. CASE \E i \in DocIds : docs[i] # NoDoc /\ p \in PathsOf(docs[i])
      <4>1. PICK i \in DocIds : docs[i] # NoDoc /\ p \in PathsOf(docs[i])
        BY <3>3
      <4>2. i # id
        BY <3>2, <4>1
      <4>. QED
        BY <1>5, <4>1, <4>2
    <3>4. ASSUME NEW d \in Clerks, p \in {clerk[d].path} \cup clerk[d].drop
          PROVE  p \in {clerk'[d].path} \cup clerk'[d].drop
      <4>1. d # c
        BY <1>4, <3>2, <3>4
      <4>. QED
        BY <2>1, <3>4, <4>1
    <3>. QED
      BY <3>1, <3>3, <3>4 DEF FilesHaveRows
  <2>. QED
    BY <1>7, <2>1, <2>3, <2>4
<1>10. FreeClerk.path = NoFile /\ FreeClerk.pc = "idle"
  BY DEF FreeClerk
<1>. HIDE DEF FilesInv
<1>. QED
  BY <1>1, <1>2, <1>5, <1>7, <1>8, <1>9, <1>10, FreeOnCourse, FreeHolds, WriteStep

LEMMA FilesStep ==
    ASSUME FilesInv, FilesAssumption, [FilesNext]_file_vars
    PROVE  FilesInv'
<1>. HIDE DEF FilesInv
<1>1. CASE UNCHANGED file_vars
  BY <1>1 DEF file_vars, FilesInv, FilesTyped, FreshPaths, Docs
<1>2. ASSUME NEW c \in Clerks, NEW v, NEW k \in Contents, NEW f \in FolderIds \cup {Unfiled}, upload_document(c, v, <<"a">>, f, k)
      PROVE  FilesInv'
  BY <1>2, UploadBegins
<1>3. ASSUME NEW c \in Clerks, NEW v, NEW id \in DocIds,
             NEW p \in {[name |-> <<"b">>], [starred |-> TRUE]} \cup {[folder |-> f] : f \in FolderIds \cup {Unfiled}},
             update_document(c, v, id, p)
      PROVE  FilesInv'
  BY <1>3, UpdateBegins
<1>4. ASSUME NEW c \in Clerks, NEW v, NEW id \in DocIds, NEW action \in {"trash", "restore", "purge", "unstar"},
             _apply_one(c, v, id, action)
      PROVE  FilesInv'
  BY <1>4, ApplyBegins
<1>5. ASSUME NEW c \in Clerks, NEW v, NEW id \in DocIds, set_print_copy(c, v, id) \/ remove_print_copy(c, v, id)
      PROVE  FilesInv'
  BY <1>5, SetPrintBegins, RemovePrintBegins
<1>6. ASSUME NEW c \in Clerks, reindex_documents(c) PROVE FilesInv'
  BY <1>6, ReindexBegins
<1>7. ASSUME NEW c \in Clerks, LookAround(c) \/ StoreUpload(c) PROVE FilesInv'
  BY <1>7, LooksAround, FileStores
<1>8. ASSUME NEW c \in Clerks, WriteDoc(c) PROVE FilesInv'
  BY <1>8, UploadWrites, OtherWrites
<1>9. ASSUME NEW c \in Clerks, DropFiles(c) \/ DeleteDoc(c) PROVE FilesInv'
  BY <1>9, Drops, Deletes
<1>10. ASSUME NEW c \in Clerks, FileCallFails(c) \/ ClerkDies(c) PROVE FilesInv'
  BY <1>10, FileFails, Dies
<1>. QED
  BY <1>1, <1>2, <1>3, <1>4, <1>5, <1>6, <1>7, <1>8, <1>9, <1>10 DEF FilesNext

LEMMA FilesStart ==
    ASSUME FilesAssumption, FilesBegin
    PROVE  FilesInv
<1>1. PICK library \in Libraries : FilesInit(library)
  BY DEF FilesBegin
<1>2. docs = library /\ clerk = [c \in Clerks |-> FreeClerk] /\ file_excuses = {}
      /\ stored = (UNION {{library[id].file, library[id].print} : id \in {id \in DocIds : library[id] # NoDoc}}) \ {NoFile}
  BY <1>1 DEF FilesInit
<1>3. docs \in [DocIds -> Files \cup {NoDoc}]
  BY <1>2 DEF Libraries
<1>4. \A i \in DocIds : docs[i] # NoDoc => docs[i] \in Files /\ PathsOf(docs[i]) \subseteq stored /\ PathsOf(docs[i]) \subseteq Paths
  BY <1>2, <1>3 DEF PathsOf, Files
<1>5. \A p \in stored : \E i \in DocIds : docs[i] # NoDoc /\ p \in PathsOf(docs[i])
  BY <1>2 DEF PathsOf
<1>6. stored \subseteq Paths
  BY <1>4, <1>5
<1>7. FilesTyped
  BY <1>2, <1>3, <1>6, FreeOnCourse DEF FilesTyped
<1>8. /\ \A i \in DocIds : docs[i] # NoDoc /\ docs[i].file = docs[i].print => docs[i].file = NoFile
      /\ \A i, j \in DocIds : docs[i] # NoDoc /\ docs[j] # NoDoc /\ i # j =>
             /\ {docs[i].file, docs[i].print} \cap {docs[j].file, docs[j].print} \subseteq {NoFile}
             /\ Twins(docs[i], docs[j]) => docs[i].content # docs[j].content /\ docs[i].name # docs[j].name
  BY <1>2 DEF Libraries, Twins
<1>9. RowsApart(docs) /\ CopiesApart(docs) /\ NamesApart(docs)
  BY <1>8 DEF RowsApart, CopiesApart, NamesApart, PathsOf
<1>10. FreshPaths
  BY <1>2 DEF FreshPaths, FreeClerk
<1>11. \A c \in Clerks : ClerkHolds(clerk[c], docs, stored)
  BY <1>2, FreeHolds
<1>12. RowsHaveFiles(docs, stored, clerk) /\ FilesHaveRows(docs, stored, clerk)
  BY <1>4, <1>5 DEF RowsHaveFiles, FilesHaveRows
<1>. QED
  BY <1>7, <1>9, <1>10, <1>11, <1>12 DEF FilesInv

\* The overview counts the very files the search finds.
LEMMA SameFiles ==
    ASSUME FilesInv, FilesAssumption
    PROVE  NumbersAgree
<1>. SUFFICES ASSUME NEW v \in FileViewers
              PROVE  /\ overview(v).all = Cardinality(search_documents(v, NoFolder, FALSE))
                     /\ overview(v).trashed = Cardinality(search_documents(v, NoFolder, TRUE))
                     /\ \A f \in DOMAIN overview(v).total :
                            overview(v).total[f] = Cardinality(search_documents(v, f, FALSE))
  BY DEF NumbersAgree
<1>. DEFINE sub == Visible(v)
            mine == {id \in Docs : docs[id].folder \in sub}
            live == {id \in mine : ~docs[id].trashed}
            below(f) == UNION {{id \in live : docs[id].folder = d} : d \in descendant_ids(folders, f)}
<1>1. sub \subseteq In(folders) \cup {Unfiled}
  BY DEF Visible, scope_subtree_ids, descendant_ids
<1>2. \A id \in Docs : docs[id].trashed \in BOOLEAN
  BY RowRead DEF Files
<1>3. /\ overview(v).all = Cardinality(live) /\ overview(v).trashed = Cardinality(mine) - Cardinality(live)
      /\ overview(v).total = [f \in sub \ {Unfiled} |-> Cardinality(below(f))]
  BY DEF overview
<1>. HIDE DEF sub
<1>4. live = search_documents(v, NoFolder, FALSE)
  BY <1>1, <1>2 DEF search_documents, sub
<1>5. mine \ live = search_documents(v, NoFolder, TRUE)
  BY <1>1, <1>2 DEF search_documents, sub
<1>6. Cardinality(mine) - Cardinality(live) = Cardinality(mine \ live)
  <2>1. IsFiniteSet(mine) /\ live \subseteq mine
    BY FS_Subset DEF Docs, FilesAssumption
  <2>2. IsFiniteSet(live) /\ IsFiniteSet(mine \ live)
    BY <2>1, FS_Subset
  <2>3. Cardinality(mine \ live) = Cardinality(mine) - Cardinality(mine \cap live)
    BY <2>1, <2>2, FS_Difference
  <2>4. mine \cap live = live
    OBVIOUS
  <2>. QED
    BY <2>3, <2>4
<1>7. ASSUME NEW f \in sub \ {Unfiled} PROVE below(f) = search_documents(v, f, FALSE)
  <2>1. f # NoFolder
    BY <1>1 DEF In, FilesAssumption
  <2>2. search_documents(v, f, FALSE) = {id \in Docs : docs[id].folder \in sub \cap descendant_ids(folders, f) /\ docs[id].trashed = FALSE}
    BY <2>1 DEF search_documents, sub
  <2>3. \A id : id \in below(f) <=> id \in live /\ docs[id].folder \in descendant_ids(folders, f)
    OBVIOUS
  <2>. QED
    BY <1>2, <2>2, <2>3
<1>. QED
  BY <1>3, <1>4, <1>5, <1>6, <1>7

\* What the properties say of the files follows.
LEMMA FilesAreKept ==
    ASSUME FilesInv, FilesAssumption
    PROVE  NoFileIsLost
<1>0. FilesTyped
  BY DEF FilesInv
<1>1. FilesTypeOK
  BY <1>0, RowRead DEF FilesTypeOK, FilesTyped, Files
<1>2. ASSUME file_excuses \cap {"crossed", "half_purged"} = {}, NEW id \in Docs, ~docs[id].trashed
      PROVE  {docs[id].file, docs[id].print} \ {NoFile} \subseteq stored
  <2>1. RowsHaveFiles(docs, stored, clerk)
    BY <1>2 DEF FilesInv
  <2>. QED
    BY <1>2, <2>1, RowRead DEF RowsHaveFiles, PathsOf
<1>3. ASSUME file_excuses = {}
      PROVE  stored \subseteq (UNION {{docs[id].file, docs[id].print} : id \in Docs})
                              \cup (UNION {{clerk[c].path} \cup clerk[c].drop : c \in Clerks})
  <2>1. FilesHaveRows(docs, stored, clerk)
    BY <1>3 DEF FilesInv
  <2>. SUFFICES ASSUME NEW p \in stored
                PROVE  \/ \E id \in Docs : p \in {docs[id].file, docs[id].print}
                       \/ \E c \in Clerks : p \in {clerk[c].path} \cup clerk[c].drop
    OBVIOUS
  <2>. QED
    BY <2>1 DEF FilesHaveRows, PathsOf, Docs
<1>4. StorageMatches
  BY <1>2, <1>3 DEF StorageMatches
<1>5. NamesDiffer
  <2>. SUFFICES ASSUME "crossed" \notin file_excuses, NEW i \in Docs, NEW j \in Docs,
                       i # j /\ docs[i].folder = docs[j].folder /\ ~docs[i].trashed /\ ~docs[j].trashed
                PROVE  docs[i].name # docs[j].name
    BY DEF NamesDiffer
  <2>1. NamesApart(docs)
    BY DEF FilesInv
  <2>. QED
    BY <2>1 DEF NamesApart, Twins, Docs
<1>. QED
  BY <1>1, <1>4, <1>5, SameFiles DEF NoFileIsLost

\* "The rules that make a file hard to lose" (documents.py): whatever becomes of the folders, for
\* any number of files and of requests that follow one another, and whichever calls fail, a file
\* that is shown is stored with its print copy, and nothing is stored that no row and no request
\* knows unless a request broke off; live files of a folder differ in their names.  All this ends
\* for good with the first write made while another request is in flight, whatever its document;
\* that the numbers of the overview are those of the search holds then too.
THEOREM FilesKept ==
    FilesSpec => []NoFileIsLost
<1>1. FilesBegin => FilesInv
  BY FilesStart, FilesAssumption
<1>2. FilesInv /\ [FilesNext]_file_vars => FilesInv'
  BY FilesStep, FilesAssumption
<1>3. FilesInv => NoFileIsLost
  BY FilesAreKept, FilesAssumption
<1>. QED
  BY <1>1, <1>2, <1>3, PTL DEF FilesSpec
=============================================================================
