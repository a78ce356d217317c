------------------------- MODULE OrdersGatewayProofs -------------------------
(* Proofs about OrderStatus and OrdersGateway, for any updates, statuses,  *)
(* sockets, limits and bound on the failures.                              *)
EXTENDS OrdersGateway, FiniteSetTheorems, TLAPS

(* What Append leaves at the end of a sequence.                            *)
LEMMA AppendLast ==
  ASSUME NEW S, NEW s \in Seq(S), NEW e \in S
  PROVE  /\ Append(s, e) \in Seq(S)
         /\ Append(s, e) # <<>>
         /\ Append(s, e) # s
         /\ Last(Append(s, e)) = e
BY DEF Last

-----------------------------------------------------------------------------
(* Counting the calls that have begun.                                     *)

LEMMA BegunCount ==
  /\ IsFiniteSet(Begun)
  /\ Cardinality(Begun) \in Nat
  /\ Cardinality(Update) \in Nat
  /\ Cardinality(Begun) <= Cardinality(Update)
BY StatusAssumption, FS_Subset, FS_CardinalityType DEF Begun

LEMMA BegunCountPrimed ==
  /\ IsFiniteSet(Begun')
  /\ Cardinality(Begun') \in Nat
  /\ Cardinality(Begun') <= Cardinality(Update)
BY StatusAssumption, FS_Subset, FS_CardinalityType DEF Begun

LEMMA CountGrows ==
  ASSUME Begun \subseteq Begun'
  PROVE  Cardinality(Begun) <= Cardinality(Begun')
BY BegunCountPrimed, FS_Subset

LEMMA CountSteps ==
  ASSUME NEW u \in Update, u \notin Begun, u \in Begun', Begun \subseteq Begun'
  PROVE  Cardinality(Begun) + 1 <= Cardinality(Begun')
<1>1. /\ IsFiniteSet(Begun \cup {u})
      /\ Cardinality(Begun \cup {u}) = Cardinality(Begun) + 1
  BY BegunCount, FS_AddElement
<1>2. Cardinality(Begun \cup {u}) <= Cardinality(Begun')
  BY BegunCountPrimed, FS_Subset
<1>. QED
  BY <1>1, <1>2

(* No call begins twice.                                                   *)
LEMMA BegunStays ==
  ASSUME TypeOK, [Next]_vars
  PROVE  Begun \subseteq Begun'
<1>. USE DEF TypeOK, Begun, Finish, Goto
<1>1. ASSUME NEW u \in Update, Advance(u) \/ Fails(u)
      PROVE  Begun \subseteq Begun'
  BY <1>1 DEF Advance, Read, Diff, Write, Publish, Fails
<1>2. CASE Timer \/ Work \/ Settled \/ UNCHANGED vars
  BY <1>2 DEF Timer, Work, Settled, vars, call
<1>3. CASE Restart
  BY <1>3 DEF Restart
<1>. QED
  BY <1>1, <1>2, <1>3 DEF Next

-----------------------------------------------------------------------------
(* Types and versions.                                                     *)

LEMMA PendingIsRow == Pending \in Row
BY BegunCount DEF Pending, Row, Status, Version

(* A call ends.                                                            *)
LEMMA FinishTypes ==
  ASSUME TypeOK, VersionsCounted, NEW u \in Update, Finish(u),
         Begun \subseteq Begun'
  PROVE  /\ pc' \in [Update -> {"read", "diff", "write", "publish", "done"}]
         /\ mem' \in [Update -> Row]
         /\ dirty' \in [Update -> SUBSET Column]
         /\ \A v \in Update : mem'[v].version <= Cardinality(Begun')
<1>1. /\ pc' \in [Update -> {"read", "diff", "write", "publish", "done"}]
      /\ mem' \in [Update -> Row]
      /\ dirty' \in [Update -> SUBSET Column]
  BY PendingIsRow DEF TypeOK, Finish, Goto
<1>2. ASSUME NEW v \in Update
      PROVE  mem'[v].version <= Cardinality(Begun')
  <2>1. mem[v].version \in Nat /\ mem[v].version <= Cardinality(Begun)
    BY DEF TypeOK, VersionsCounted, Row, Version
  <2>2. mem'[v] = mem[v] \/ mem'[v].version = 0
    BY DEF TypeOK, Finish, Pending
  <2>. QED
    BY <2>1, <2>2, CountGrows, BegunCount, BegunCountPrimed
<1>. QED
  BY <1>1, <1>2

(* A stored entity that is some row's columns has a row's type.            *)
LEMMA UpdatedIsRow ==
  ASSUME TypeOK, VersionsCounted, NEW u \in Update
  PROVE  /\ Updated(u) \in Row
         /\ Updated(u).version <= Cardinality(Begun)
BY DEF TypeOK, VersionsCounted, Updated, Row, Column

(* What comes in, goes out or is held back.                                *)
LEMMA ReceiveTypes ==
  ASSUME TypeOK, NEW e \in Event, Receive(e)
  PROVE  /\ latest' \in Version \cup {Nothing}
         /\ throttled' \in BOOLEAN
         /\ pending' \in Event \cup {Nothing}
         /\ feed' \in Seq(Event)
<1>1. CASE e.version = latest
  BY <1>1 DEF TypeOK, Receive, stream
<1>2. CASE e.version # latest /\ throttled
  BY <1>2 DEF TypeOK, Receive, Event
<1>3. CASE e.version # latest /\ ~throttled
  <2>1. /\ feed' = Append(feed, e) /\ throttled' = TRUE /\ latest' = e.version
        /\ pending' = pending
    BY <1>3 DEF Receive, Emit
  <2>2. feed' \in Seq(Event)
    BY <2>1, AppendLast DEF TypeOK
  <2>3. latest' \in Version
    BY <2>1 DEF Event
  <2>. QED
    BY <2>1, <2>2, <2>3 DEF TypeOK
<1>. QED
  BY <1>1, <1>2, <1>3 DEF TypeOK

Typed ==
    /\ TypeOK
    /\ VersionsCounted
    /\ pending # Nothing => throttled

LEMMA ReadTypes ==
  ASSUME Typed, NEW u \in Update, Read(u), Begun \subseteq Begun'
  PROVE  Typed'
<1>. USE DEF Typed
<1>1. CASE Finish(u)
  <2>1. UNCHANGED <<row, target, worked, stream, faults, exposed>> /\ calm' \in BOOLEAN
    BY DEF Read, TypeOK
  <2>2. row'.version <= Cardinality(Begun')
    BY <2>1, CountGrows, BegunCount, BegunCountPrimed
       DEF TypeOK, VersionsCounted, Row, Version
  <2>. QED
    BY <1>1, <2>1, <2>2, FinishTypes DEF TypeOK, VersionsCounted, stream
<1>2. CASE ~Finish(u)
  <2>. DEFINE new == [row EXCEPT !.status = target[u], !.version = @ + 1]
  <2>1. /\ pc[u] = "read" /\ pc' = [pc EXCEPT ![u] = "diff"]
        /\ mem' = [mem EXCEPT ![u] = new]
        /\ calm' \in BOOLEAN
        /\ UNCHANGED <<row, target, dirty, worked, stream, faults, exposed>>
    BY <1>2 DEF Read, Goto, TypeOK
  <2>2. Cardinality(Begun) + 1 <= Cardinality(Begun')
    BY <2>1, CountSteps DEF Begun, TypeOK
  <2>3. row.version \in Nat /\ row.version <= Cardinality(Begun)
    BY DEF TypeOK, VersionsCounted, Row, Version
  <2>4. new \in Row /\ new.version = row.version + 1
    <3>1. row.version + 1 \in Version
      BY <2>2, <2>3, BegunCountPrimed, BegunCount DEF Version
    <3>2. target[u] \in Status
      BY DEF TypeOK, Status
    <3>. QED
      BY <3>1, <3>2 DEF TypeOK, Row
  <2>5. mem' \in [Update -> Row]
    BY <2>1, <2>4 DEF TypeOK
  <2>6. TypeOK'
    BY <2>1, <2>5 DEF TypeOK, stream
  <2>7. VersionsCounted'
    <3>1. row'.version <= Cardinality(Begun')
      BY <2>1, <2>2, <2>3, BegunCount, BegunCountPrimed
    <3>2. ASSUME NEW v \in Update
          PROVE  mem'[v].version <= Cardinality(Begun')
      <4>1. mem[v].version \in Nat /\ mem[v].version <= Cardinality(Begun)
        BY DEF TypeOK, VersionsCounted, Row, Version
      <4>2. CASE v = u
        <5>1. mem'[v].version = row.version + 1
          BY <4>2, <2>1, <2>4 DEF TypeOK
        <5>. QED
          BY <5>1, <2>2, <2>3, BegunCount, BegunCountPrimed
      <4>3. CASE v # u
        <5>1. mem'[v] = mem[v]
          BY <4>3, <2>1 DEF TypeOK
        <5>. QED
          BY <5>1, <4>1, <2>2, BegunCount, BegunCountPrimed
      <4>. QED
        BY <4>2, <4>3
    <3>. QED
      BY <3>1, <3>2 DEF VersionsCounted
  <2>. QED
    BY <2>1, <2>6, <2>7 DEF stream
<1>. QED
  BY <1>1, <1>2

LEMMA WriteTypes ==
  ASSUME Typed, NEW u \in Update, Diff(u) \/ Write(u), Begun \subseteq Begun'
  PROVE  Typed'
<1>. USE DEF Typed
<1>1. ASSUME NEW v \in Update
      PROVE  mem[v].version \in Nat /\ mem[v].version <= Cardinality(Begun')
  BY CountGrows, BegunCount, BegunCountPrimed
     DEF TypeOK, VersionsCounted, Row, Version
<1>2. CASE Diff(u)
  <2>1. /\ pc' \in [Update -> {"read", "diff", "write", "publish", "done"}]
        /\ dirty' \in [Update -> SUBSET Column]
    BY <1>2 DEF Diff, Goto, TypeOK
  <2>2. UNCHANGED <<row, target, mem, worked, stream, faults, calm, exposed>>
    BY <1>2 DEF Diff
  <2>3. row.version <= Cardinality(Begun')
    BY CountGrows, BegunCount, BegunCountPrimed
       DEF TypeOK, VersionsCounted, Row, Version
  <2>. QED
    BY <1>1, <2>1, <2>2, <2>3 DEF TypeOK, VersionsCounted, stream
<1>3. CASE Write(u)
  <2>1. pc' \in [Update -> {"read", "diff", "write", "publish", "done"}]
    BY <1>3 DEF Write, Goto, TypeOK
  <2>2. row' = Updated(u) /\ UNCHANGED <<target, mem, dirty, worked, stream, faults, calm, exposed>>
    BY <1>3 DEF Write
  <2>3. row' \in Row /\ row'.version <= Cardinality(Begun')
    BY <2>2, UpdatedIsRow, CountGrows, BegunCount, BegunCountPrimed DEF Row, Version
  <2>. QED
    BY <1>1, <2>1, <2>2, <2>3 DEF TypeOK, VersionsCounted, stream
<1>. QED
  BY <1>2, <1>3

LEMMA PublishTypes ==
  ASSUME Typed, NEW u \in Update, Publish(u), Begun \subseteq Begun'
  PROVE  Typed'
<1>. USE DEF Typed
<1>. DEFINE e == [version |-> mem[u].version, status |-> mem[u].status]
<1>1. e \in Event /\ Receive(e) /\ Finish(u)
  BY DEF Publish, TypeOK, Row, Event
<1>2. row.version <= Cardinality(Begun')
  BY CountGrows, BegunCount, BegunCountPrimed
     DEF TypeOK, VersionsCounted, Row, Version
<1>3. pending' # Nothing => throttled'
  BY <1>1 DEF Receive, stream, TypeOK
<1>4. /\ latest' \in Version \cup {Nothing}
      /\ throttled' \in BOOLEAN
      /\ pending' \in Event \cup {Nothing}
      /\ feed' \in Seq(Event)
  BY <1>1, ReceiveTypes
<1>5. UNCHANGED <<row, target, worked, faults, calm, exposed>>
  BY DEF Publish
<1>. QED
  BY <1>1, <1>2, <1>3, <1>4, <1>5, FinishTypes DEF TypeOK, VersionsCounted

LEMMA OtherTypes ==
  ASSUME Typed, Timer \/ Work \/ Restart, Begun \subseteq Begun'
  PROVE  Typed'
<1>. USE DEF Typed
<1>1. row.version <= Cardinality(Begun')
  BY CountGrows, BegunCount, BegunCountPrimed
     DEF TypeOK, VersionsCounted, Row, Version
<1>2. ASSUME NEW v \in Update
      PROVE  mem[v].version <= Cardinality(Begun')
  BY CountGrows, BegunCount, BegunCountPrimed
     DEF TypeOK, VersionsCounted, Row, Version
<1>3. CASE Timer
  <2>1. pending # Nothing => Append(feed, pending) \in Seq(Event)
    BY AppendLast DEF TypeOK
  <2>2. feed' \in Seq(Event)
    BY <1>3, <2>1 DEF Timer, Emit, TypeOK
  <2>3. throttled' \in BOOLEAN /\ pending' \in Event \cup {Nothing}
    BY <1>3 DEF Timer, TypeOK
  <2>4. pending' # Nothing => throttled'
    BY <1>3 DEF Timer
  <2>. QED
    BY <1>1, <1>2, <1>3, <2>2, <2>3, <2>4 DEF Timer, TypeOK, VersionsCounted, call
<1>4. CASE Work
  <2>1. row' \in Row /\ row'.version = row.version
    BY <1>4 DEF Work, TypeOK, Row, Status
  <2>2. calm' \in BOOLEAN /\ exposed' \subseteq Update
    BY <1>4 DEF Work, TypeOK
  <2>. QED
    BY <1>1, <1>2, <1>4, <2>1, <2>2 DEF Work, TypeOK, VersionsCounted, call, stream
<1>5. CASE Restart
  <2>1. mem' \in [Update -> Row] /\ \A v \in Update : mem'[v].version = 0
    BY <1>5, PendingIsRow DEF Restart, Pending
  <2>2. /\ pc' \in [Update -> {"read", "diff", "write", "publish", "done"}]
        /\ dirty' \in [Update -> SUBSET Column]
    BY <1>5 DEF Restart, TypeOK
  <2>3. faults' \in 0..MaxFaults
    BY <1>5, StatusAssumption DEF Restart, TypeOK
  <2>4. /\ latest' = Nothing /\ throttled' = FALSE /\ pending' = Nothing
        /\ calm' = FALSE /\ UNCHANGED <<row, target, worked, feed>>
        /\ exposed' \subseteq Update
    BY <1>5 DEF Restart, TypeOK
  <2>5. TypeOK'
    BY <2>1, <2>2, <2>3, <2>4 DEF TypeOK
  <2>6. VersionsCounted'
    BY <1>1, <2>1, <2>4, BegunCountPrimed DEF VersionsCounted
  <2>. QED
    BY <2>4, <2>5, <2>6
<1>. QED
  BY <1>3, <1>4, <1>5

LEMMA FailsTypes ==
  ASSUME Typed, NEW u \in Update, Fails(u), Begun \subseteq Begun'
  PROVE  Typed'
<1>. USE DEF Typed
<1>1. row' \in Row /\ row'.version <= Cardinality(Begun')
  <2>1. row' = row \/ row' = Updated(u)
    BY DEF Fails
  <2>2. \A x \in Row : x.version \in Nat
    BY DEF Row, Version
  <2>. QED
    BY <2>1, <2>2, UpdatedIsRow, CountGrows, BegunCount, BegunCountPrimed
       DEF TypeOK, VersionsCounted
<1>2. faults' \in 0..MaxFaults
  BY StatusAssumption DEF Fails, TypeOK
<1>3. /\ Finish(u) /\ UNCHANGED <<target, worked, stream>> /\ calm' = FALSE
      /\ exposed' \subseteq Update
  BY DEF Fails, TypeOK
<1>. QED
  BY <1>1, <1>2, <1>3, FinishTypes DEF TypeOK, VersionsCounted, stream

LEMMA TypesStep ==
  ASSUME Typed, [Next]_vars
  PROVE  Typed'
<1>1. Begun \subseteq Begun'
  BY BegunStays DEF Typed
<1>2. ASSUME NEW u \in Update, Advance(u) \/ Fails(u)
      PROVE  Typed'
  BY <1>1, <1>2, ReadTypes, WriteTypes, PublishTypes, FailsTypes DEF Advance
<1>3. CASE Timer \/ Work \/ Restart
  BY <1>1, <1>3, OtherTypes
<1>4. CASE UNCHANGED vars
  <2>1. Begun' = Begun
    BY <1>4 DEF vars, call, stream, Begun
  <2>. QED
    BY <1>4, <2>1 DEF vars, stream, Typed, TypeOK, VersionsCounted
<1>. QED
  BY <1>2, <1>3, <1>4 DEF Next, Settled

-----------------------------------------------------------------------------
(* While no update overlaps another writer.                                *)

CalmInv ==
    /\ \A u, v \in Untold : u = v
    /\ \A u \in Update : EntityIsFresh(u)
    /\ StreamFollows

(* An update that is left alone keeps its entity.                          *)
LEMMA FreshStays ==
  ASSUME TypeOK, NEW v \in Update, EntityIsFresh(v),
         UNCHANGED <<row, target, worked>>,
         pc'[v] = pc[v], mem'[v] = mem[v], dirty'[v] = dirty[v]
  PROVE  EntityIsFresh(v)'
BY DEF EntityIsFresh

(* A call that neither wrote nor is to tell of it has nothing to keep.      *)
LEMMA FreshBefore ==
  ASSUME NEW v \in Update, pc'[v] \in {"read", "done"}
  PROVE  EntityIsFresh(v)'
BY DEF EntityIsFresh

LEMMA StreamStays ==
  ASSUME StreamFollows, UNCHANGED <<latest, pending, feed>>,
         row'.version = row.version, row'.status = row.status \/ worked',
         worked => worked', Telling' <=> Telling
  PROVE  StreamFollows'
BY DEF StreamFollows, LastIn

LEMMA CalmRead ==
  ASSUME Typed, CalmInv, NEW u \in Update, Read(u), calm'
  PROVE  CalmInv'
<1>. USE DEF Typed
<1>1. /\ pc[u] = "read" /\ UNCHANGED <<row, target, worked, stream>>
      /\ \/ Finish(u)
         \/ /\ pc' = [pc EXCEPT ![u] = "diff"] /\ UNCHANGED dirty /\ Untold = {}
            /\ mem' = [mem EXCEPT ![u] = [row EXCEPT !.status = target[u],
                                                     !.version = @ + 1]]
  BY DEF Read, Goto
<1>2. \A v \in Update \ {u} : pc'[v] = pc[v] /\ mem'[v] = mem[v] /\ dirty'[v] = dirty[v]
  BY <1>1 DEF Finish, Goto, TypeOK
<1>3. pc'[u] \in {"done", "diff"}
  BY <1>1 DEF Finish, Goto, TypeOK
<1>4. EntityIsFresh(u)'
  <2>1. CASE Finish(u)
    BY <2>1, FreshBefore DEF Finish, Goto, TypeOK
  <2>2. CASE ~Finish(u)
    <3>1. pc'[u] = "diff" /\ row' = row /\ target' = target
      BY <1>1, <2>2 DEF TypeOK
    <3>2. mem'[u] = [row EXCEPT !.status = target[u], !.version = @ + 1]
      BY <1>1, <2>2 DEF TypeOK
    <3>. QED
      BY <3>1, <3>2 DEF EntityIsFresh
  <2>. QED
    BY <2>1, <2>2
<1>5. \A v \in Update : EntityIsFresh(v)'
  BY <1>1, <1>2, <1>4, FreshStays DEF CalmInv
<1>6. Telling' <=> Telling
  BY <1>1, <1>2, <1>3 DEF Telling
<1>7. StreamFollows'
  BY <1>1, <1>6, StreamStays DEF CalmInv, stream
<1>8. \A v, w \in Untold' : v = w
  BY <1>1, <1>2, <1>3 DEF Untold, Between, CalmInv, Finish, Goto, TypeOK
<1>. QED
  BY <1>1, <1>5, <1>7, <1>8 DEF CalmInv

(* An update that tells of nothing would leave its call unfinished: the     *)
(* entity differs from the row at least in its version.                     *)
LEMMA CalmDiff ==
  ASSUME Typed, CalmInv, NEW u \in Update, Diff(u), calm'
  PROVE  CalmInv'
<1>. USE DEF Typed
<1>1. /\ pc[u] = "diff"
      /\ dirty' = [dirty EXCEPT ![u] = {c \in Column : mem[u][c] # row[c]}]
      /\ UNCHANGED <<row, target, mem, worked, stream>>
  BY DEF Diff
<1>2. mem[u] = [row EXCEPT !.status = target[u], !.version = @ + 1]
  BY <1>1 DEF CalmInv, EntityIsFresh
<1>3. mem[u].version # row.version
  BY <1>2 DEF TypeOK, Row, Version
<1>4. dirty'[u] = {c \in Column : mem[u][c] # row[c]}
  BY <1>1 DEF TypeOK
<1>5. dirty'[u] # {}
  BY <1>3, <1>4 DEF Column
<1>6. pc' = [pc EXCEPT ![u] = "write"]
  BY <1>5 DEF Diff, Goto
<1>7. EntityIsFresh(u)'
  BY <1>1, <1>2, <1>4, <1>6 DEF EntityIsFresh, TypeOK
<1>8. \A v \in Update : EntityIsFresh(v)'
  BY <1>1, <1>6, <1>7, FreshStays DEF CalmInv, TypeOK
<1>9. Telling' <=> Telling
  BY <1>1, <1>6 DEF Telling, TypeOK
<1>10. StreamFollows'
  BY <1>1, <1>9, StreamStays DEF CalmInv, stream
<1>11. \A v, w \in Untold' : v = w
  BY <1>1, <1>6 DEF Untold, Between, CalmInv, TypeOK
<1>. QED
  BY <1>1, <1>8, <1>10, <1>11 DEF CalmInv

(* Its UPDATE makes the row what the entity is.                             *)
LEMMA FreshUpdate ==
  ASSUME Typed, NEW u \in Update, pc[u] = "write", EntityIsFresh(u)
  PROVE  /\ Updated(u).version = mem[u].version
         /\ Updated(u).status = mem[u].status
         /\ Updated(u).processed = mem[u].processed
         /\ mem[u].version = row.version + 1
         /\ mem[u].processed = row.processed
<1>1. dirty[u] = {c \in Column : mem[u][c] # row[c]}
  BY DEF EntityIsFresh
<1>2. \A c \in Column : Updated(u)[c] = mem[u][c]
  BY <1>1 DEF Updated
<1>3. mem[u] = [row EXCEPT !.status = target[u], !.version = @ + 1]
  BY DEF EntityIsFresh
<1>4. row \in Row
  BY DEF Typed, TypeOK
<1>. QED
  BY <1>2, <1>3, <1>4 DEF Column, Row

LEMMA CalmWrite ==
  ASSUME Typed, CalmInv, NEW u \in Update, Write(u), calm'
  PROVE  CalmInv'
<1>. USE DEF Typed
<1>1. /\ pc[u] = "write" /\ pc' = [pc EXCEPT ![u] = "publish"]
      /\ row' = Updated(u)
      /\ UNCHANGED <<target, mem, dirty, worked, stream>>
  BY DEF Write, Goto
<1>2. /\ row'.version = mem[u].version
      /\ row'.status = mem[u].status
      /\ row'.version = row.version + 1
      /\ row'.processed = row.processed
  BY <1>1, FreshUpdate DEF CalmInv
<1>3. u \in Untold /\ \A v \in Update \ {u} : pc[v] \in {"read", "done"}
  BY <1>1 DEF Untold, Between, CalmInv, TypeOK
<1>4. \A v \in Update \ {u} : pc'[v] \in {"read", "done"}
  BY <1>1, <1>3 DEF TypeOK
<1>5. EntityIsFresh(u)'
  BY <1>1, <1>2 DEF EntityIsFresh, TypeOK
<1>6. \A v \in Update : EntityIsFresh(v)'
  BY <1>4, <1>5, FreshBefore
<1>7. ~Telling /\ Telling'
  BY <1>1, <1>3 DEF Telling, TypeOK
<1>8. StreamFollows'
  <2>1. row.version \in Nat
    BY DEF TypeOK, Row, Version
  <2>. QED
    BY <1>1, <1>2, <1>7, <2>1 DEF CalmInv, StreamFollows, LastIn, stream
<1>9. \A v, w \in Untold' : v = w
  BY <1>4 DEF Untold, Between
<1>. QED
  BY <1>1, <1>2, <1>6, <1>8, <1>9 DEF CalmInv

LEMMA CalmPublish ==
  ASSUME Typed, CalmInv, NEW u \in Update, Publish(u), calm'
  PROVE  /\ CalmInv'
         /\ mem[u].version = row.version
         /\ latest # row.version
         /\ ~Telling'
<1>. USE DEF Typed
<1>. DEFINE e == [version |-> mem[u].version, status |-> mem[u].status]
<1>1. /\ pc[u] = "publish" /\ Finish(u) /\ Receive(e)
      /\ UNCHANGED <<row, target, worked>>
  BY DEF Publish
<1>2. /\ e \in Event
      /\ e.version = row.version
      /\ e.status = row.status \/ worked
  BY <1>1 DEF CalmInv, EntityIsFresh, TypeOK, Row, Event
<1>3. \A v \in Update \ {u} : pc[v] \in {"read", "done"}
  BY <1>1 DEF Untold, Between, CalmInv, TypeOK
<1>4. \A v \in Update : pc'[v] \in {"read", "done"}
  BY <1>1, <1>3 DEF Finish, Goto, TypeOK
<1>5. Telling /\ ~Telling'
  BY <1>1, <1>4 DEF Telling
<1>6. row.version \in Nat /\ latest # row.version
  BY <1>5, StatusAssumption DEF CalmInv, StreamFollows, TypeOK, Row, Version
<1>7. /\ latest' = row.version
      /\ IF throttled
         THEN pending' = e /\ feed' = feed
         ELSE feed' = Append(feed, e) /\ pending' = pending
  BY <1>1, <1>2, <1>6 DEF Receive, Emit
<1>8. e # Nothing
  BY <1>2, StatusAssumption
<1>9. feed' # <<>> \/ pending' # Nothing
  BY <1>7, <1>8, <1>2, AppendLast DEF TypeOK
<1>10. LastIn' = e
  <2>1. CASE throttled
    BY <2>1, <1>7, <1>8 DEF LastIn
  <2>2. CASE ~throttled
    <3>1. pending' = Nothing
      BY <2>2, <1>7 DEF TypeOK
    <3>2. Last(feed') = e
      <4>1. feed' = Append(feed, e) /\ feed \in Seq(Event) /\ e \in Event
        BY <2>2, <1>7, <1>2 DEF TypeOK
      <4>2. Last(Append(feed, e)) = e
        BY <4>1, AppendLast
      <4>. QED
        BY <4>1, <4>2
    <3>. QED
      BY <3>1, <3>2 DEF LastIn
  <2>. QED
    BY <2>1, <2>2
<1>11. latest' # Nothing
  BY <1>6, <1>7, StatusAssumption
<1>12. StreamFollows'
  BY <1>1, <1>2, <1>5, <1>7, <1>9, <1>10, <1>11 DEF StreamFollows
<1>13. \A v, w \in Untold' : v = w
  BY <1>4 DEF Untold, Between
<1>. QED
  BY <1>1, <1>2, <1>4, <1>5, <1>6, <1>12, <1>13, FreshBefore DEF CalmInv

(* A held-back event goes out: the last that came in stays the last.       *)
LEMMA CalmTimer ==
  ASSUME Typed, CalmInv, Timer, calm'
  PROVE  CalmInv'
<1>. USE DEF Typed
<1>1. UNCHANGED <<row, call, worked, latest>>
  BY DEF Timer
<1>2. \A v \in Update : EntityIsFresh(v)'
  BY <1>1, FreshStays DEF CalmInv, call
<1>3. Telling' <=> Telling
  BY <1>1 DEF Telling, call
<1>4. StreamFollows'
  <2>1. CASE pending # Nothing
    <3>1. pending \in Event /\ feed' = Append(feed, pending) /\ pending' = Nothing
      BY <2>1 DEF Timer, Emit, TypeOK
    <3>2. Last(feed') = pending /\ feed' # <<>>
      BY <3>1, AppendLast DEF TypeOK
    <3>3. LastIn' = LastIn
      BY <2>1, <3>1, <3>2 DEF LastIn
    <3>. QED
      BY <1>1, <1>3, <2>1, <3>2, <3>3 DEF StreamFollows, CalmInv
  <2>2. CASE pending = Nothing
    BY <1>1, <1>3, <2>2, StreamStays DEF Timer, CalmInv
  <2>. QED
    BY <2>1, <2>2
<1>5. \A v, w \in Untold' : v = w
  BY <1>1 DEF Untold, Between, CalmInv, call
<1>. QED
  BY <1>1, <1>2, <1>4, <1>5 DEF CalmInv

LEMMA CalmWork ==
  ASSUME Typed, CalmInv, Work, calm'
  PROVE  CalmInv'
<1>. USE DEF Typed
<1>1. /\ Between = {} /\ worked' = TRUE /\ UNCHANGED <<call, stream>>
      /\ row' = [row EXCEPT !.status = "processed", !.processed = TRUE]
  BY DEF Work
<1>2. row'.version = row.version /\ row'.processed
  BY <1>1 DEF TypeOK, Row
<1>3. \A v \in Update : EntityIsFresh(v)'
  BY <1>1, <1>2 DEF CalmInv, EntityIsFresh, call, Between
<1>4. Telling' <=> Telling
  BY <1>1 DEF Telling, call
<1>5. StreamFollows'
  BY <1>1, <1>2, <1>4, StreamStays DEF CalmInv, stream
<1>6. \A v, w \in Untold' : v = w
  BY <1>1 DEF Untold, Between, CalmInv, call
<1>. QED
  BY <1>1, <1>2, <1>3, <1>5, <1>6 DEF CalmInv

LEMMA CalmStutter ==
  ASSUME CalmInv, UNCHANGED vars
  PROVE  CalmInv'
BY DEF CalmInv, vars, call, stream, Untold, Between, EntityIsFresh, StreamFollows,
       LastIn, Telling

(* A failure, or a restart, ends the calm.                                 *)
LEMMA CalmStep ==
  ASSUME Typed, [Next]_vars, calm => CalmInv
  PROVE  calm' => CalmInv'
<1>1. SUFFICES ASSUME calm' PROVE CalmInv'
  OBVIOUS
<1>2. ASSUME NEW u \in Update, Advance(u)
      PROVE  CalmInv'
  <2>1. calm
    BY <1>1, <1>2 DEF Advance, Read, Diff, Write, Publish
  <2>. QED
    BY <1>1, <1>2, <2>1, CalmRead, CalmDiff, CalmWrite, CalmPublish DEF Advance
<1>3. ASSUME NEW u \in Update
      PROVE  ~Fails(u)
  BY <1>1 DEF Fails
<1>4. CASE Timer \/ Work
  <2>1. calm
    BY <1>1, <1>4 DEF Timer, Work
  <2>. QED
    BY <1>1, <1>4, <2>1, CalmTimer, CalmWork
<1>5. ~Restart
  BY <1>1 DEF Restart
<1>6. CASE UNCHANGED vars
  BY <1>1, <1>6, CalmStutter DEF vars
<1>. QED
  BY <1>2, <1>3, <1>4, <1>5, <1>6 DEF Next, Settled

-----------------------------------------------------------------------------
(* The gap between findOne and the SELECT of save.                         *)

(* The column a call that ends has in mind is nobody's.                    *)
LEMMA GapFinish ==
  ASSUME TypeOK, NEW u \in Update, Finish(u)
  PROVE  /\ ~mem'[u].processed /\ dirty'[u] = {} /\ pc'[u] = "done"
         /\ \A v \in Update \ {u} :
               pc'[v] = pc[v] /\ mem'[v] = mem[v] /\ dirty'[v] = dirty[v]
BY DEF TypeOK, Finish, Goto, Pending

LEMMA GapRead ==
  ASSUME TypeOK, GapInv, NEW u \in Update, Read(u)
  PROVE  GapInv'
<1>1. pc[u] = "read" /\ UNCHANGED <<row, worked, exposed>>
  BY DEF Read
<1>2. CASE Finish(u)
  <2>1. Undone => Undone'
    BY <1>1, <1>2, GapFinish DEF Undone, TypeOK
  <2>. QED
    BY <1>1, <1>2, <2>1, GapFinish DEF GapInv
<1>3. CASE ~Finish(u)
  <2>1. /\ pc' = [pc EXCEPT ![u] = "diff"] /\ dirty' = dirty
        /\ mem' = [mem EXCEPT ![u] = [row EXCEPT !.status = target[u],
                                                 !.version = @ + 1]]
    BY <1>3 DEF Read, Goto
  <2>2. pc'[u] = "diff" /\ mem'[u].processed = row.processed
    BY <2>1 DEF TypeOK, Row
  <2>3. \A v \in Update \ {u} : pc'[v] = pc[v] /\ mem'[v] = mem[v]
    BY <2>1 DEF TypeOK
  <2>4. Undone => Undone'
    BY <1>1, <2>3 DEF Undone, TypeOK
  <2>. QED
    BY <1>1, <2>1, <2>2, <2>3, <2>4 DEF GapInv
<1>. QED
  BY <1>2, <1>3

(* The column is found to differ only after the worker's commit.           *)
LEMMA GapDiff ==
  ASSUME TypeOK, GapInv, NEW u \in Update, Diff(u)
  PROVE  GapInv'
<1>1. /\ pc[u] = "diff" /\ UNCHANGED <<row, mem, worked, exposed>>
      /\ dirty' = [dirty EXCEPT ![u] = {c \in Column : mem[u][c] # row[c]}]
      /\ \E l \in {"publish", "write"} : pc' = [pc EXCEPT ![u] = l]
  BY DEF Diff, Goto
<1>2. /\ pc'[u] \in {"publish", "write"}
      /\ \A v \in Update \ {u} : pc'[v] = pc[v] /\ dirty'[v] = dirty[v]
      /\ "processed" \in dirty'[u] => mem[u].processed # row.processed
  BY <1>1 DEF TypeOK, Column
<1>3. Undone => Undone'
  BY <1>1, <1>2 DEF Undone, TypeOK
<1>4. ~worked => "processed" \notin dirty'[u]
  <2>1. mem[u].processed \in BOOLEAN /\ row.processed \in BOOLEAN
    BY DEF TypeOK, Row
  <2>2. ~worked => ~mem[u].processed /\ ~row.processed
    BY DEF GapInv
  <2>3. ~worked => mem[u].processed = row.processed
    BY <2>1, <2>2
  <2>. QED
    BY <1>2, <2>3
<1>. QED
  BY <1>1, <1>2, <1>3, <1>4 DEF GapInv

(* What an UPDATE does to the column.                                      *)
LEMMA GapUpdate ==
  ASSUME TypeOK, GapInv, NEW u \in Update, pc[u] = "write"
  PROVE  /\ ~worked => ~Updated(u).processed
         /\ worked /\ u \notin exposed /\ ~Undone => Updated(u).processed
<1>1. Updated(u).processed =
         IF "processed" \in dirty[u] THEN mem[u].processed ELSE row.processed
  BY DEF Updated, Column
<1>. QED
  BY <1>1 DEF GapInv

LEMMA GapWrite ==
  ASSUME TypeOK, GapInv, NEW u \in Update, Write(u)
  PROVE  GapInv'
<1>1. /\ pc[u] = "write" /\ row' = Updated(u) /\ pc' = [pc EXCEPT ![u] = "publish"]
      /\ UNCHANGED <<mem, dirty, worked, exposed>>
  BY DEF Write, Goto
<1>2. pc'[u] = "publish" /\ \A v \in Update \ {u} : pc'[v] = pc[v]
  BY <1>1 DEF TypeOK
<1>3. (Undone => Undone') /\ (u \in exposed => Undone')
  BY <1>1, <1>2 DEF Undone, TypeOK
<1>. QED
  BY <1>1, <1>2, <1>3, GapUpdate DEF GapInv

LEMMA GapFails ==
  ASSUME TypeOK, GapInv, NEW u \in Update, Fails(u)
  PROVE  GapInv'
<1>1. /\ pc[u] \in {"read", "diff", "write"} /\ Finish(u) /\ worked' = worked
      /\ \/ row' = row
         \/ pc[u] = "write" /\ row' = Updated(u)
      /\ exposed' = IF row' = row THEN exposed \ {u} ELSE exposed
  BY DEF Fails
<1>2. /\ ~mem'[u].processed /\ dirty'[u] = {} /\ pc'[u] = "done"
      /\ \A v \in Update \ {u} :
            pc'[v] = pc[v] /\ mem'[v] = mem[v] /\ dirty'[v] = dirty[v]
  BY <1>1, GapFinish
<1>3. Undone => Undone'
  BY <1>1, <1>2 DEF Undone, TypeOK
<1>4. row' # row /\ u \in exposed => Undone'
  BY <1>1, <1>2 DEF Undone
<1>5. \A v \in Update \ {u} : v \in exposed => v \in exposed'
  BY <1>1
<1>6. IF worked THEN row'.processed \/ Undone' ELSE ~row'.processed
  BY <1>1, <1>3, <1>4, GapUpdate DEF GapInv
<1>. QED
  BY <1>1, <1>2, <1>3, <1>5, <1>6 DEF GapInv

LEMMA GapPublish ==
  ASSUME TypeOK, GapInv, NEW u \in Update, Publish(u)
  PROVE  GapInv'
<1>1. pc[u] = "publish" /\ Finish(u) /\ UNCHANGED <<row, worked, exposed>>
  BY DEF Publish
<1>2. Undone => Undone'
  BY <1>1, GapFinish DEF Undone, TypeOK
<1>. QED
  BY <1>1, <1>2, GapFinish DEF GapInv

(* Whoever is in the gap is exposed; whoever has compared found no         *)
(* processed_at to write.                                                  *)
LEMMA GapWork ==
  ASSUME TypeOK, GapInv, Work
  PROVE  GapInv'
<1>1. /\ ~worked /\ worked' /\ UNCHANGED <<pc, mem, dirty>>
      /\ exposed' = {u \in Update : pc[u] = "diff"}
  BY DEF Work, call
<1>2. row'.processed
  BY DEF Work, TypeOK, Row
<1>. QED
  BY <1>1, <1>2 DEF GapInv

LEMMA GapRestart ==
  ASSUME TypeOK, GapInv, Restart
  PROVE  GapInv'
<1>1. /\ UNCHANGED <<row, worked>>
      /\ pc' = [u \in Update |-> IF pc[u] = "read" THEN "read" ELSE "done"]
      /\ mem' = [u \in Update |-> Pending] /\ dirty' = [u \in Update |-> {}]
      /\ exposed' = {u \in exposed : pc[u] \in {"publish", "done"}}
  BY DEF Restart
<1>2. \A u \in Update : /\ pc'[u] \in {"read", "done"} /\ dirty'[u] = {}
                        /\ ~mem'[u].processed
  BY <1>1 DEF Pending
<1>3. Undone => Undone'
  BY <1>1 DEF Undone, TypeOK
<1>. QED
  BY <1>1, <1>2, <1>3 DEF GapInv

LEMMA GapStep ==
  ASSUME TypeOK, GapInv, [Next]_vars
  PROVE  GapInv'
<1>1. ASSUME NEW u \in Update, Advance(u) \/ Fails(u)
      PROVE  GapInv'
  BY <1>1, GapRead, GapDiff, GapWrite, GapPublish, GapFails DEF Advance
<1>2. CASE Timer \/ UNCHANGED vars
  BY <1>2 DEF Timer, vars, call, GapInv, Undone
<1>. QED
  BY <1>1, <1>2, GapWork, GapRestart DEF Next, Settled

-----------------------------------------------------------------------------
(* The invariant of the status.                                            *)

LEMMA StatusParts ==
  StatusInv <=> Typed /\ GapInv /\ (calm => CalmInv)
BY DEF StatusInv, Typed, CalmInv

LEMMA StatusPartsPrimed ==
  StatusInv' <=> Typed' /\ GapInv' /\ (calm' => CalmInv')
BY DEF StatusInv, Typed, CalmInv

LEMMA StatusInit == Init => StatusInv
<1>1. SUFFICES ASSUME Init PROVE StatusInv
  OBVIOUS
<1>. USE DEF Init
<1>2. TypeOK
  <2>1. /\ pc \in [Update -> {"read", "diff", "write", "publish", "done"}]
        /\ mem \in [Update -> Row]
        /\ dirty \in [Update -> SUBSET Column]
        /\ row \in Row
    BY <1>1, PendingIsRow
  <2>2. feed \in Seq(Event) /\ faults \in 0..MaxFaults
    BY <1>1, StatusAssumption
  <2>3. worked = FALSE /\ throttled = FALSE /\ calm = TRUE /\ exposed = {}
    BY <1>1
  <2>. QED
    BY <1>1, <2>1, <2>2, <2>3 DEF TypeOK
<1>3. VersionsCounted
  BY <1>1, BegunCount DEF VersionsCounted, Pending
<1>4. \A u \in Update : EntityIsFresh(u)
  BY <1>1 DEF EntityIsFresh
<1>5. StreamFollows
  BY <1>1 DEF StreamFollows, Pending
<1>6. Untold = {}
  BY <1>1 DEF Untold, Between
<1>7. GapInv
  BY <1>1 DEF GapInv, Pending
<1>. QED
  BY <1>1, <1>2, <1>3, <1>4, <1>5, <1>6, <1>7, StatusParts DEF Typed, CalmInv

LEMMA StatusStep == ASSUME StatusInv, [Next]_vars PROVE StatusInv'
BY StatusParts, StatusPartsPrimed, TypesStep, GapStep, CalmStep DEF Typed

THEOREM StatusInvariance == Spec => []StatusInv
<1>. QED
  BY StatusInit, StatusStep, PTL DEF Spec

(* When nothing is under way, the last event that went out has the order's *)
(* version, and its status unless the worker has come since.               *)
LEMMA QuietFeed == StatusInv => QuietFeedIsCurrent
<1>1. SUFFICES ASSUME StatusInv, calm, pending = Nothing,
                      \A u \in Update : pc[u] \in {"read", "done"}
               PROVE  IF feed = <<>>
                      THEN row.version = 0
                      ELSE /\ Last(feed).version = row.version
                           /\ row.status = Last(feed).status \/ worked
  BY DEF QuietFeedIsCurrent
<1>2. ~Telling
  BY <1>1 DEF Telling
<1>3. StreamFollows
  BY <1>1 DEF StatusInv
<1>. QED
  BY <1>1, <1>2, <1>3 DEF StreamFollows, LastIn

-----------------------------------------------------------------------------
(* The gateway leaves the status to itself.                                *)

LEMMA GatewayServes == [GatewayNext]_gatewayVars => [Next]_vars
BY DEF GatewayNext, gatewayVars, Heard, RestartAll, Tick, Settled, Connect, Verified,
       Subscribe, Join, Leave, Disconnect, Fetch, Next

(* Whatever sockets do, the status and its stream behave as OrderStatus    *)
(* says: connections, subscriptions and the rate limit are not in the way  *)
(* of updateStatus, the worker or OrdersEventsService.                     *)
THEOREM StatusIsItself == GatewaySpec => Spec
<1>1. GatewayInit => Init
  BY DEF GatewayInit
<1>. QED
  BY <1>1, GatewayServes, PTL DEF GatewaySpec, Spec

(* The feed only grows, by one event at a time.                            *)
LEMMA FeedGrows ==
  ASSUME Typed, [Next]_vars
  PROVE  feed' = feed \/ \E e \in Event : feed' = Append(feed, e)
<1>. USE DEF Typed
<1>1. ASSUME NEW u \in Update, Publish(u)
      PROVE  feed' = feed \/ \E e \in Event : feed' = Append(feed, e)
  <2>. DEFINE e == [version |-> mem[u].version, status |-> mem[u].status]
  <2>1. e \in Event
    BY DEF TypeOK, Row, Event
  <2>. QED
    BY <1>1, <2>1 DEF Publish, Receive, Emit, stream
<1>2. ASSUME NEW u \in Update, Read(u) \/ Diff(u) \/ Write(u) \/ Fails(u)
      PROVE  feed' = feed
  BY <1>2 DEF Read, Diff, Write, Fails, stream
<1>3. CASE Timer
  BY <1>3 DEF Timer, Emit, TypeOK
<1>4. CASE Work \/ Restart \/ UNCHANGED vars
  BY <1>4 DEF Work, Restart, vars, stream
<1>. QED
  BY <1>1, <1>2, <1>3, <1>4 DEF Next, Advance, Settled

LEMMA NewerTypes ==
  ASSUME NEW v \in Nat, NEW w \in Nat
  PROVE  /\ Newer(v, w) \in {v, w}
         /\ v <= Newer(v, w) /\ w <= Newer(v, w)
BY DEF Newer

(* What is delivered is a version.                                         *)
LEMMA DeliverTypes ==
  ASSUME Typed, [Next]_vars, view \in [Socket -> Version], Deliver
  PROVE  view' \in [Socket -> Version]
<1>1. ASSUME NEW s \in Socket, feed' # feed
      PROVE  Newer(view[s], Last(feed').version) \in Version
  <2>1. PICK e \in Event : feed' = Append(feed, e)
    BY <1>1, FeedGrows
  <2>2. feed \in Seq(Event)
    BY DEF Typed, TypeOK
  <2>3. Last(feed') = e
    BY <2>1, <2>2, AppendLast
  <2>4. e.version \in Version /\ view[s] \in Version
    BY DEF Event
  <2>. QED
    BY <2>3, <2>4, NewerTypes DEF Version
<1>. QED
  BY <1>1 DEF Deliver

(* The typed part of the gateway's own state.                              *)
OwnTypes ==
    /\ entitled \subseteq Socket
    /\ conn \in [Socket -> Connection]
    /\ age \in [Socket -> [CallNo -> 0..Window]]
    /\ recent \in [Socket -> SUBSET CallNo]
    /\ queried \in [Socket -> SUBSET CallNo]
    /\ checking \in [Socket -> 0..MaxAttempts]
    /\ room \subseteq Socket /\ fetched \subseteq Socket
    /\ attempts \in [Socket -> 0..MaxAttempts]

LEMMA TypeParts == GatewayTypeOK <=> TypeOK /\ OwnTypes /\ view \in [Socket -> Version]
BY DEF GatewayTypeOK, OwnTypes

LEMMA TypePartsPrimed ==
  GatewayTypeOK' <=> TypeOK' /\ OwnTypes' /\ view' \in [Socket -> Version]
BY DEF GatewayTypeOK, OwnTypes

-----------------------------------------------------------------------------
(* The rate limit and the room.                                            *)

OwnInv ==
    /\ OwnTypes
    /\ fetched \subseteq room
    /\ \A s \in Socket : checking[s] <= attempts[s]
    /\ LimitCounts
    /\ RateLimited

LEMMA CallsAreFinite ==
  ASSUME NEW list \in SUBSET CallNo
  PROVE  IsFiniteSet(list) /\ Cardinality(list) \in Nat
<1>1. IsFiniteSet(CallNo)
  BY FS_Interval, GatewayAssumption DEF CallNo
<1>. QED
  BY <1>1, FS_Subset, FS_CardinalityType

LEMMA ConnectOwn ==
  ASSUME OwnInv, NEW s \in Socket,
         Connect(s) \/ Verified(s) \/ Join(s) \/ Leave(s) \/ Fetch(s)
  PROVE  OwnInv'
<1>. USE DEF OwnInv, OwnTypes
<1>1. CASE Connect(s)
  <2>1. conn' \in [Socket -> Connection]
    BY <1>1 DEF Connect, Connection
  <2>2. \A x \in Socket : /\ conn'[x] \in {"new", "verifying"} => conn[x] \in {"new", "verifying"}
                          /\ conn'[x] = "open" => conn[x] = "open"
    BY <1>1 DEF Connect
  <2>. QED
    BY <1>1, <2>1, <2>2 DEF Connect, calls, client, LimitCounts, RateLimited
<1>2. CASE Verified(s)
  <2>1. /\ conn[s] = "verifying"
        /\ conn' \in [Socket -> Connection] /\ recent' \in [Socket -> SUBSET CallNo]
        /\ \A x \in Socket \ {s} : conn'[x] = conn[x] /\ recent'[x] = recent[x]
        /\ conn'[s] \in {"open", "closed"}
        /\ recent'[s] \in {recent[s], {}}
        /\ UNCHANGED <<entitled, age, queried, checking, room, attempts, fetched>>
    BY <1>2 DEF Verified, Connection, client
  <2>2. queried[s] = {}
    BY <2>1 DEF LimitCounts
  <2>3. Cardinality({}) <= MaxCalls
    BY FS_EmptySet, GatewayAssumption
  <2>4. LimitCounts'
    BY <2>1, <2>2, <2>3 DEF LimitCounts
  <2>. QED
    BY <2>1, <2>4 DEF RateLimited
<1>3. CASE Join(s)
  <2>1. /\ checking[s] > 0 /\ checking' = [checking EXCEPT ![s] = @ - 1]
        /\ room \subseteq room' /\ room' \subseteq Socket
        /\ UNCHANGED <<entitled, conn, calls, attempts, fetched>>
    BY <1>3 DEF Join, client
  <2>2. /\ checking' \in [Socket -> 0..MaxAttempts]
        /\ \A x \in Socket : checking'[x] <= checking[x]
    BY <2>1, GatewayAssumption
  <2>3. \A x \in Socket : checking'[x] <= attempts[x]
    BY <2>2, GatewayAssumption
  <2>. QED
    BY <2>1, <2>2, <2>3 DEF calls, LimitCounts, RateLimited
<1>4. CASE Leave(s) \/ Fetch(s)
  BY <1>4 DEF Leave, Fetch, calls, LimitCounts, RateLimited
<1>. QED
  BY <1>1, <1>2, <1>3, <1>4

(* A call that is let through is one more of those that count.             *)
LEMMA SubscribeOwn ==
  ASSUME OwnInv, NEW s \in Socket, Subscribe(s)
  PROVE  OwnInv'
<1>. USE DEF OwnInv, OwnTypes
<1>. DEFINE n == attempts[s] + 1
<1>1. /\ attempts' = [attempts EXCEPT ![s] = n]
      /\ n \in CallNo /\ attempts' \in [Socket -> 0..MaxAttempts]
      /\ attempts'[s] = n
      /\ \A x \in Socket : attempts[x] <= attempts'[x]
      /\ UNCHANGED <<entitled, conn, room, fetched>>
  BY GatewayAssumption DEF Subscribe, CallNo, client
<1>2. CASE Cardinality(recent[s]) >= MaxCalls
  <2>1. UNCHANGED <<calls, checking>>
    BY <1>2 DEF Subscribe
  <2>2. \A x \in Socket : checking[x] <= attempts'[x]
    BY <1>1, GatewayAssumption
  <2>. QED
    BY <1>1, <2>1, <2>2 DEF calls, LimitCounts, RateLimited
<1>3. CASE ~(Cardinality(recent[s]) >= MaxCalls)
  <2>1. /\ age' = [age EXCEPT ![s][n] = 0]
        /\ recent' = [recent EXCEPT ![s] = @ \cup {n}]
        /\ \/ UNCHANGED <<checking, queried>>
           \/ /\ conn[s] = "open"
              /\ checking' = [checking EXCEPT ![s] = @ + 1]
              /\ queried' = [queried EXCEPT ![s] = @ \cup {n}]
    BY <1>1, <1>3 DEF Subscribe
  <2>2. age' \in [Socket -> [CallNo -> 0..Window]]
    BY <2>1, <1>1, GatewayAssumption
  <2>3. /\ recent' \in [Socket -> SUBSET CallNo]
        /\ queried' \in [Socket -> SUBSET CallNo]
    BY <1>1, <2>1
  <2>4. \A x \in Socket : checking[x] \in Nat /\ attempts[x] \in Nat
    BY GatewayAssumption
  <2>5. \A x \in Socket : checking'[x] <= attempts'[x]
    <3>1. CASE UNCHANGED checking
      BY <3>1, <1>1, <2>4
    <3>2. CASE checking' = [checking EXCEPT ![s] = @ + 1]
      BY <3>2, <1>1, <2>4
    <3>. QED
      BY <2>1, <3>1, <3>2
  <2>6. checking' \in [Socket -> 0..MaxAttempts]
    <3>1. CASE UNCHANGED checking
      BY <3>1
    <3>2. CASE checking' = [checking EXCEPT ![s] = @ + 1]
      <4>1. checking[s] + 1 \in 0..MaxAttempts
        BY <1>1, <2>4, GatewayAssumption DEF CallNo
      <4>. QED
        BY <3>2, <4>1
    <3>. QED
      BY <2>1, <3>1, <3>2
  <2>7. Cardinality(recent'[s]) <= MaxCalls
    <3>1. recent'[s] = recent[s] \cup {n}
      BY <2>1
    <3>2. IsFiniteSet(recent[s]) /\ Cardinality(recent[s]) \in Nat
      BY CallsAreFinite
    <3>3. Cardinality(recent[s] \cup {n}) <= Cardinality(recent[s]) + 1
      <4>1. Cardinality(recent[s] \cup {n}) = IF n \in recent[s] THEN Cardinality(recent[s])
                                               ELSE Cardinality(recent[s]) + 1
        BY <3>2, FS_AddElement
      <4>. QED
        BY <3>2, <4>1
    <3>4. Cardinality(recent'[s]) \in Nat
      BY <2>3, CallsAreFinite
    <3>. QED
      BY <1>3, <3>1, <3>2, <3>3, <3>4, GatewayAssumption
  <2>8. LimitCounts'
    <3>1. ASSUME NEW x \in Socket, x # s
          PROVE  recent'[x] = recent[x] /\ queried'[x] = queried[x] /\ conn'[x] = conn[x]
      BY <3>1, <1>1, <2>1
    <3>2. /\ conn[s] = "verifying" => queried'[s] = queried[s]
          /\ conn[s] = "open" => queried'[s] \subseteq queried[s] \cup {n}
          /\ conn[s] \in {"verifying", "open"}
          /\ recent'[s] = recent[s] \cup {n}
      <4>1. queried \in [Socket -> SUBSET CallNo] /\ recent \in [Socket -> SUBSET CallNo]
        OBVIOUS
      <4>2. recent'[s] = recent[s] \cup {n} /\ conn[s] \in {"verifying", "open"}
        BY <1>1, <2>1, <4>1 DEF Subscribe
      <4>3. CASE UNCHANGED queried
        BY <4>2, <4>3
      <4>4. CASE conn[s] = "open" /\ queried' = [queried EXCEPT ![s] = @ \cup {n}]
        BY <4>1, <4>2, <4>4
      <4>. QED
        BY <2>1, <4>3, <4>4
    <3>. QED
      BY <1>1, <2>7, <3>1, <3>2 DEF LimitCounts
  <2>9. RateLimited'
    <3>1. ASSUME NEW x \in Socket
          PROVE  Cardinality(queried'[x]) <= MaxCalls
      <4>1. CASE queried'[x] = queried[x]
        BY <4>1 DEF RateLimited
      <4>2. CASE queried'[x] # queried[x]
        <5>1. x = s /\ conn'[s] = "open"
          BY <1>1, <2>1, <4>2
        <5>2. queried'[s] \subseteq recent'[s] /\ recent'[s] \in SUBSET CallNo
          BY <2>3, <2>8, <5>1 DEF LimitCounts
        <5>3. /\ Cardinality(queried'[s]) \in Nat /\ Cardinality(recent'[s]) \in Nat
              /\ Cardinality(queried'[s]) <= Cardinality(recent'[s])
          BY <2>3, <5>2, CallsAreFinite, FS_Subset
        <5>. QED
          BY <2>7, <5>1, <5>3, GatewayAssumption
      <4>. QED
        BY <4>1, <4>2
    <3>. QED
      BY <3>1 DEF RateLimited
  <2>. QED
    BY <1>1, <2>2, <2>3, <2>5, <2>6, <2>8, <2>9
<1>. QED
  BY <1>2, <1>3

LEMMA LeaveOwn ==
  ASSUME OwnInv, NEW s \in Socket, Disconnect(s)
  PROVE  OwnInv'
<1>. USE DEF OwnInv, OwnTypes
<1>1. /\ conn' = [conn EXCEPT ![s] = "closed"]
      /\ recent' = [recent EXCEPT ![s] = {}]
      /\ room' = room \ {s} /\ fetched' = fetched \ {s}
      /\ UNCHANGED <<entitled, age, queried, checking, attempts>>
  BY DEF Disconnect
<1>2. conn' \in [Socket -> Connection] /\ recent' \in [Socket -> SUBSET CallNo]
  BY <1>1 DEF Connection
<1>3. Cardinality({}) <= MaxCalls
  BY FS_EmptySet, GatewayAssumption
<1>4. LimitCounts'
  BY <1>1, <1>2, <1>3 DEF LimitCounts
<1>. QED
  BY <1>1, <1>2, <1>4 DEF RateLimited

LEMMA RestartOwn ==
  ASSUME OwnInv, RestartAll
  PROVE  OwnInv'
<1>. USE DEF OwnInv, OwnTypes
<1>1. /\ \A s \in Socket : /\ conn'[s] = "closed" /\ recent'[s] = {} /\ queried'[s] = {}
                          /\ checking'[s] = 0
      /\ conn' \in [Socket -> Connection]
      /\ recent' \in [Socket -> SUBSET CallNo] /\ queried' \in [Socket -> SUBSET CallNo]
      /\ room' = {} /\ fetched' = {} /\ UNCHANGED <<entitled, attempts>>
  BY DEF RestartAll, Connection
<1>2. age' \in [Socket -> [CallNo -> 0..Window]] /\ checking' \in [Socket -> 0..MaxAttempts]
  BY GatewayAssumption DEF RestartAll
<1>3. Cardinality({}) <= MaxCalls
  BY FS_EmptySet, GatewayAssumption
<1>4. \A s \in Socket : attempts[s] \in Nat
  BY GatewayAssumption
<1>5. LimitCounts' /\ RateLimited'
  BY <1>1, <1>3 DEF LimitCounts, RateLimited
<1>6. \A s \in Socket : checking'[s] <= attempts'[s]
  BY <1>1, <1>4
<1>. QED
  BY <1>1, <1>2, <1>5, <1>6

(* A tick takes the same calls out of both lists.                          *)
LEMMA TickOwn ==
  ASSUME OwnInv, Tick
  PROVE  OwnInv'
<1>. USE DEF OwnInv, OwnTypes
<1>1. age' \in [Socket -> [CallNo -> 0..Window]]
  <2>1. \A s \in Socket, n \in CallNo :
           (IF age[s][n] < Window THEN age[s][n] + 1 ELSE Window) \in 0..Window
    BY GatewayAssumption
  <2>. QED
    BY <2>1 DEF Tick
<1>2. /\ \A s \in Socket : /\ recent'[s] = InWindow(age'[s], recent[s])
                          /\ queried'[s] = InWindow(age'[s], queried[s])
      /\ recent' \in [Socket -> SUBSET CallNo] /\ queried' \in [Socket -> SUBSET CallNo]
      /\ UNCHANGED <<entitled, conn, checking, room, attempts, fetched>>
  BY DEF Tick, InWindow, client
<1>3. ASSUME NEW s \in Socket
      PROVE  /\ Cardinality(recent'[s]) <= MaxCalls
             /\ Cardinality(queried'[s]) <= MaxCalls
  <2>1. recent'[s] \subseteq recent[s] /\ queried'[s] \subseteq queried[s]
    BY <1>2 DEF InWindow
  <2>2. /\ Cardinality(recent'[s]) <= Cardinality(recent[s])
        /\ Cardinality(queried'[s]) <= Cardinality(queried[s])
    BY <2>1, CallsAreFinite, FS_Subset
  <2>3. /\ Cardinality(recent'[s]) \in Nat /\ Cardinality(recent[s]) \in Nat
        /\ Cardinality(queried'[s]) \in Nat /\ Cardinality(queried[s]) \in Nat
    BY <1>2, CallsAreFinite
  <2>4. Cardinality(recent[s]) <= MaxCalls /\ Cardinality(queried[s]) <= MaxCalls
    BY DEF LimitCounts, RateLimited
  <2>. QED
    BY <2>2, <2>3, <2>4, GatewayAssumption
<1>4. LimitCounts'
  BY <1>2, <1>3 DEF LimitCounts, InWindow
<1>. QED
  BY <1>1, <1>2, <1>3, <1>4 DEF RateLimited

LEMMA OwnStep ==
  ASSUME OwnInv, [GatewayNext]_gatewayVars
  PROVE  OwnInv'
<1>1. CASE UNCHANGED <<entitled, conn, calls, checking, room, attempts, fetched>>
  BY <1>1 DEF OwnInv, OwnTypes, LimitCounts, RateLimited, calls
<1>2. ASSUME NEW s \in Socket,
             \/ Connect(s) \/ Verified(s) \/ Subscribe(s) \/ Join(s)
             \/ Leave(s) \/ Disconnect(s) \/ Fetch(s)
      PROVE  OwnInv'
  BY <1>2, ConnectOwn, SubscribeOwn, LeaveOwn
<1>3. CASE RestartAll \/ Tick
  BY <1>3, RestartOwn, TickOwn
<1>. QED
  BY <1>1, <1>2, <1>3 DEF GatewayNext, Heard, gatewayVars, client

-----------------------------------------------------------------------------
(* The clients.                                                            *)

(* Nothing is heard of a step that lets nothing out.                       *)
LEMMA Silence ==
  ASSUME view \in [Socket -> Version], ViewFollows, Deliver,
         UNCHANGED <<room, fetched, feed, pending>>, row'.version = row.version,
         Telling => Telling'
  PROVE  ViewFollows'
<1>1. view' = view
  BY DEF Deliver
<1>. QED
  BY <1>1 DEF ViewFollows

LEMMA HeardView ==
  ASSUME Typed, CalmInv, ViewFollows, view \in [Socket -> Version], calm', Deliver,
         UNCHANGED <<room, fetched>>, NEW u \in Update, Advance(u)
  PROVE  ViewFollows'
<1>. USE DEF Typed
<1>0. row.version \in Nat /\ \A s \in Socket : view[s] \in Nat
  BY DEF TypeOK, Row, Version
<1>1. CASE Read(u)
  <2>1. pc[u] = "read" /\ UNCHANGED <<row, stream>>
    BY <1>1 DEF Read
  <2>2. Telling => Telling'
    BY <1>1, <2>1 DEF Telling, Read, Finish, Goto, TypeOK
  <2>. QED
    BY <2>1, <2>2, Silence DEF stream
<1>2. CASE Diff(u)
  <2>1. pc[u] = "diff" /\ UNCHANGED <<row, stream>>
    BY <1>2 DEF Diff
  <2>2. Telling => Telling'
    BY <1>2, <2>1 DEF Telling, Diff, Goto, TypeOK
  <2>. QED
    BY <2>1, <2>2, Silence DEF stream
<1>3. CASE Write(u)
  <2>1. row' = Updated(u) /\ pc[u] = "write" /\ pc' = [pc EXCEPT ![u] = "publish"]
        /\ UNCHANGED stream
    BY <1>3 DEF Write, Goto
  <2>2. row'.version = row.version + 1
    BY <2>1, FreshUpdate DEF CalmInv
  <2>3. Telling'
    BY <2>1 DEF Telling, TypeOK
  <2>4. view' = view
    BY <2>1 DEF Deliver, stream
  <2>. QED
    BY <1>0, <2>2, <2>3, <2>4 DEF ViewFollows
<1>4. CASE Publish(u)
  <2>. DEFINE e == [version |-> mem[u].version, status |-> mem[u].status]
  <2>1. mem[u].version = row.version /\ latest # row.version /\ row' = row
    BY <1>4, CalmPublish DEF Publish
  <2>2. e \in Event /\ e # Nothing /\ e.version = row.version
    BY <2>1, StatusAssumption DEF TypeOK, Row, Event
  <2>3. IF throttled THEN pending' = e /\ feed' = feed ELSE feed' = Append(feed, e)
    BY <1>4, <2>1 DEF Publish, Receive, Emit
  <2>4. CASE throttled
    <3>1. pending' # Nothing /\ view' = view
      BY <2>2, <2>3, <2>4 DEF Deliver
    <3>. QED
      BY <2>1, <3>1 DEF ViewFollows
  <2>5. CASE ~throttled
    <3>1. feed' # feed /\ Last(feed') = e
      <4>1. feed \in Seq(Event)
        BY DEF TypeOK
      <4>. QED
        <5>1. feed' = Append(feed, e)
          BY <2>3, <2>5
        <5>2. Append(feed, e) # feed /\ Last(Append(feed, e)) = e
          BY <2>2, <4>1, AppendLast
        <5>. QED
          BY <5>1, <5>2
    <3>2. \A s \in Socket : view'[s] = IF s \in room THEN Newer(view[s], row.version)
                                                   ELSE view[s]
      BY <2>2, <3>1 DEF Deliver
    <3>3. \A s \in Socket : Newer(view[s], row.version) = row.version
      BY <1>0 DEF ViewFollows, Newer
    <3>. QED
      BY <1>0, <2>1, <3>2, <3>3 DEF ViewFollows
  <2>. QED
    BY <2>4, <2>5
<1>. QED
  BY <1>1, <1>2, <1>3, <1>4 DEF Advance

LEMMA TimerView ==
  ASSUME Typed, CalmInv, ViewFollows, view \in [Socket -> Version], Deliver,
         UNCHANGED <<room, fetched>>, Timer
  PROVE  ViewFollows'
<1>. USE DEF Typed
<1>0. row.version \in Nat /\ \A s \in Socket : view[s] \in Nat
  BY DEF TypeOK, Row, Version
<1>1. UNCHANGED <<row, pc>>
  BY DEF Timer, call
<1>2. Telling' <=> Telling
  BY <1>1 DEF Telling
<1>3. CASE pending = Nothing
  BY <1>1, <1>2, <1>3, Silence DEF Timer
<1>4. CASE pending # Nothing
  <2>1. pending \in Event /\ feed' = Append(feed, pending) /\ feed \in Seq(Event)
    BY <1>4 DEF Timer, Emit, TypeOK
  <2>2. feed' # feed /\ Last(feed') = pending
    BY <2>1, AppendLast
  <2>3. /\ pending.version \in Nat /\ pending.version <= row.version
        /\ ~Telling => pending.version = row.version
    BY <1>0, <1>4, <2>1 DEF CalmInv, StreamFollows, LastIn, Event, Version, TypeOK
  <2>4. \A s \in Socket : view'[s] = IF s \in room THEN Newer(view[s], pending.version)
                                                 ELSE view[s]
    BY <2>2 DEF Deliver
  <2>5. row' = row /\ (Telling' <=> Telling) /\ room' = room /\ fetched' = fetched
    BY <1>1, <1>2
  <2>6. ASSUME NEW s \in Socket
        PROVE  /\ view'[s] <= row.version
               /\ s \in room /\ ~Telling => view'[s] = row.version
    <3>1. CASE s \in room
      <4>1. view'[s] = Newer(view[s], pending.version)
        BY <2>4, <3>1
      <4>. QED
        BY <1>0, <2>3, <4>1 DEF ViewFollows, Newer
    <3>2. CASE s \notin room
      <4>1. view'[s] = view[s]
        BY <2>4, <3>2
      <4>. QED
        BY <3>2, <4>1 DEF ViewFollows
    <3>. QED
      BY <3>1, <3>2
  <2>. QED
    BY <2>5, <2>6 DEF ViewFollows
<1>. QED
  BY <1>3, <1>4

(* A read is of the row as it is.                                          *)
LEMMA FetchView ==
  ASSUME Typed, ViewFollows, view \in [Socket -> Version], NEW s \in Socket, Fetch(s)
  PROVE  view' \in [Socket -> Version] /\ ViewFollows'
<1>1. row.version \in Version /\ \A x \in Socket : view[x] \in Nat
  BY DEF Typed, TypeOK, Row, Version
<1>2. view' = [view EXCEPT ![s] = Newer(view[s], row.version)]
      /\ fetched' = fetched \cup {s} /\ UNCHANGED <<vars, room>>
  BY DEF Fetch
<1>3. Newer(view[s], row.version) = row.version
  BY <1>1 DEF ViewFollows, Newer, Version
<1>4. view'[s] = row.version /\ \A x \in Socket \ {s} : view'[x] = view[x]
  BY <1>2, <1>3
<1>5. view' \in [Socket -> Version]
  BY <1>1, <1>2, <1>3
<1>6. UNCHANGED <<row, pending, pc>>
  BY <1>2 DEF vars, call, stream
<1>7. Telling' <=> Telling
  BY <1>6 DEF Telling
<1>8. ASSUME NEW x \in Socket
      PROVE  /\ view'[x] <= row'.version
             /\ x \in room' \cap fetched' /\ pending' = Nothing /\ ~Telling' =>
                   view'[x] = row'.version
  <2>1. CASE x = s
    BY <1>1, <1>4, <1>6, <2>1 DEF Version
  <2>2. CASE x # s
    BY <1>2, <1>4, <1>6, <1>7, <2>2 DEF ViewFollows
  <2>. QED
    BY <2>1, <2>2
<1>. QED
  BY <1>5, <1>8 DEF ViewFollows

LEMMA FetchTypes ==
  ASSUME Typed, view \in [Socket -> Version], NEW s \in Socket, Fetch(s)
  PROVE  view' \in [Socket -> Version]
<1>1. row.version \in Version /\ view[s] \in Version /\ Version \subseteq Nat
  BY DEF Typed, TypeOK, Row, Version
<1>2. Newer(view[s], row.version) \in Version
  BY <1>1, NewerTypes
<1>. QED
  BY <1>2 DEF Fetch

(* Nobody comes into the room with a read of before.                       *)
LEMMA RoomView ==
  ASSUME ViewFollows, fetched \subseteq room, UNCHANGED <<vars, view>>,
         fetched' \subseteq fetched
  PROVE  ViewFollows'
<1>1. UNCHANGED <<row, pending, pc>>
  BY DEF vars, call, stream
<1>2. Telling' <=> Telling
  BY <1>1 DEF Telling
<1>. QED
  BY <1>1, <1>2 DEF ViewFollows

LEMMA ViewTypes ==
  ASSUME Typed, view \in [Socket -> Version], [GatewayNext]_gatewayVars
  PROVE  view' \in [Socket -> Version]
<1>1. CASE UNCHANGED view
  BY <1>1
<1>2. CASE Deliver
  BY <1>2, GatewayServes, DeliverTypes
<1>3. ASSUME NEW s \in Socket, Fetch(s)
      PROVE  view' \in [Socket -> Version]
  BY <1>3, FetchTypes
<1>. QED
  BY <1>1, <1>2, <1>3 DEF GatewayNext, Heard, RestartAll, Tick, gatewayVars, client,
        Connect, Verified, Subscribe, Join, Leave, Disconnect

LEMMA ViewStep ==
  ASSUME Typed, calm => CalmInv, calm => ViewFollows, fetched \subseteq room,
         view \in [Socket -> Version], [GatewayNext]_gatewayVars
  PROVE  calm' => ViewFollows'
<1>1. SUFFICES ASSUME calm' PROVE ViewFollows'
  OBVIOUS
<1>2. ASSUME NEW u \in Update, Heard(Advance(u))
      PROVE  ViewFollows'
  <2>1. calm
    BY <1>1, <1>2 DEF Heard, Advance, Read, Diff, Write, Publish
  <2>. QED
    BY <1>1, <1>2, <2>1, HeardView DEF Heard
<1>3. CASE Heard(Timer)
  <2>1. calm
    BY <1>1, <1>3 DEF Heard, Timer
  <2>. QED
    BY <1>3, <2>1, TimerView DEF Heard
<1>4. CASE Heard(Work)
  <2>1. calm /\ UNCHANGED <<pc, feed, pending>>
    BY <1>1, <1>4 DEF Heard, Work, call, stream
  <2>2. row'.version = row.version
    BY <1>4 DEF Heard, Work, Typed, TypeOK, Row
  <2>3. Telling => Telling'
    BY <2>1 DEF Telling
  <2>. QED
    BY <1>4, <2>1, <2>2, <2>3, Silence DEF Heard
<1>5. ASSUME NEW u \in Update
      PROVE  ~Heard(Fails(u))
  BY <1>1 DEF Heard, Fails
<1>6. ~RestartAll
  BY <1>1 DEF RestartAll, Restart
<1>7. ASSUME NEW s \in Socket, Fetch(s)
      PROVE  ViewFollows'
  <2>1. calm
    BY <1>1, <1>7 DEF Fetch, vars
  <2>. QED
    BY <1>7, <2>1, FetchView
<1>8. ASSUME UNCHANGED <<vars, view>>, fetched' \subseteq fetched
      PROVE  ViewFollows'
  <2>1. calm
    BY <1>1, <1>8 DEF vars
  <2>. QED
    BY <1>8, <2>1, RoomView
<1>9. ASSUME NEW s \in Socket,
             \/ Connect(s) \/ Verified(s) \/ Subscribe(s) \/ Join(s)
             \/ Leave(s) \/ Disconnect(s)
      PROVE  ViewFollows'
  BY <1>8, <1>9 DEF Connect, Verified, Subscribe, Join, Leave, Disconnect, client
<1>10. CASE Tick \/ UNCHANGED gatewayVars
  BY <1>8, <1>10 DEF Tick, gatewayVars, client
<1>. QED
  BY <1>2, <1>3, <1>4, <1>5, <1>6, <1>7, <1>9, <1>10 DEF GatewayNext

-----------------------------------------------------------------------------
(* The invariant of the gateway.                                           *)

LEMMA GatewayParts ==
  GatewayInv <=> /\ StatusInv /\ OwnInv
                 /\ view \in [Socket -> Version] /\ (calm => ViewFollows)
BY TypeParts DEF GatewayInv, OwnInv, StatusInv

LEMMA GatewayPartsPrimed ==
  GatewayInv' <=> /\ StatusInv' /\ OwnInv'
                  /\ view' \in [Socket -> Version] /\ (calm' => ViewFollows')
BY TypePartsPrimed DEF GatewayInv, OwnInv, StatusInv

LEMMA InitGateway == GatewayInit => GatewayInv
<1>1. SUFFICES ASSUME GatewayInit PROVE GatewayInv
  OBVIOUS
<1>2. StatusInv
  BY <1>1, StatusInit DEF GatewayInit
<1>3. /\ conn \in [Socket -> Connection] /\ recent \in [Socket -> SUBSET CallNo]
      /\ queried \in [Socket -> SUBSET CallNo] /\ entitled \subseteq Socket
      /\ room = {} /\ fetched = {}
      /\ \A s \in Socket : /\ conn[s] = "new" /\ recent[s] = {} /\ queried[s] = {}
                          /\ view[s] = 0 /\ checking[s] = 0 /\ attempts[s] = 0
  BY <1>1 DEF GatewayInit, Connection
<1>4. /\ age \in [Socket -> [CallNo -> 0..Window]]
      /\ checking \in [Socket -> 0..MaxAttempts] /\ attempts \in [Socket -> 0..MaxAttempts]
  BY <1>1, GatewayAssumption DEF GatewayInit
<1>5. view \in [Socket -> Version]
  BY <1>1, BegunCount DEF GatewayInit, Version
<1>6. Cardinality({}) <= MaxCalls
  BY FS_EmptySet, GatewayAssumption
<1>7. LimitCounts /\ RateLimited
  BY <1>3, <1>6 DEF LimitCounts, RateLimited
<1>8. OwnInv
  BY <1>3, <1>4, <1>7 DEF OwnInv, OwnTypes
<1>9. ViewFollows
  <2>1. row.version = 0
    BY <1>1 DEF GatewayInit, Init, Pending
  <2>. QED
    BY <1>3, <2>1 DEF ViewFollows
<1>. QED
  BY <1>2, <1>5, <1>8, <1>9, GatewayParts

LEMMA GatewayStep ==
  ASSUME GatewayInv, [GatewayNext]_gatewayVars
  PROVE  GatewayInv'
<1>1. /\ StatusInv /\ OwnInv /\ view \in [Socket -> Version] /\ (calm => ViewFollows)
      /\ Typed /\ (calm => CalmInv) /\ fetched \subseteq room
  BY GatewayParts, StatusParts DEF OwnInv
<1>2. StatusInv'
  BY <1>1, StatusStep, GatewayServes
<1>3. OwnInv'
  BY <1>1, OwnStep
<1>4. view' \in [Socket -> Version]
  BY <1>1, ViewTypes
<1>5. calm' => ViewFollows'
  BY <1>1, ViewStep
<1>. QED
  BY <1>2, <1>3, <1>4, <1>5, GatewayPartsPrimed

(* GatewayInv holds in every reachable state, whatever sockets, updates,   *)
(* the worker, failures and restarts do.                                   *)
THEOREM GatewayInvariance == GatewaySpec => []GatewayInv
<1>. QED
  BY InitGateway, GatewayStep, PTL DEF GatewaySpec

(* Every variable of the status and the gateway keeps its type.            *)
THEOREM GatewayTypeCorrect == GatewaySpec => []GatewayTypeOK
<1>1. GatewayInv => GatewayTypeOK
  BY DEF GatewayInv
<1>. QED
  BY <1>1, GatewayInvariance, PTL

(* When nothing is under way, the last event that went out has the order's *)
(* version, and its status unless the worker has come since: what          *)
(* distinctUntilChanged and throttleTime drop is never the last change.    *)
THEOREM LastChangeGoesOut == GatewaySpec => []QuietFeedIsCurrent
<1>1. GatewayInv => QuietFeedIsCurrent
  BY QuietFeed DEF GatewayInv
<1>. QED
  BY <1>1, GatewayInvariance, PTL

(* However updates overlap, fail or die, the worker's processed_at is lost *)
(* only to one that read the order before the worker's commit, compared    *)
(* after it, and wrote.                                                    *)
THEOREM ProcessingIsLostInGapOnly == GatewaySpec => []ProcessedLostInGap
<1>1. GatewayInv => ProcessedLostInGap
  BY DEF GatewayInv, StatusInv, GapInv, Undone, ProcessedLostInGap
<1>. QED
  BY <1>1, GatewayInvariance, PTL

(* A socket makes the gateway ask the database at most MaxCalls times in   *)
(* any window, however its calls mix with connecting and disconnecting.    *)
THEOREM LimitHolds == GatewaySpec => []RateLimited
<1>1. GatewayInv => RateLimited
  BY DEF GatewayInv
<1>. QED
  BY <1>1, GatewayInvariance, PTL

(* A client that subscribes first and reads then ends with the version of  *)
(* the order.                                                              *)
THEOREM SubscribersConverge == GatewaySpec => []ViewConverges
<1>1. ASSUME GatewayInv PROVE ViewConverges
  <2>1. SUFFICES ASSUME calm, pending = Nothing,
                        \A u \in Update : pc[u] \in {"read", "done"},
                        NEW s \in room \cap fetched
                 PROVE  view[s] = row.version
    BY DEF ViewConverges
  <2>2. ~Telling
    BY <2>1 DEF Telling
  <2>3. s \in Socket /\ ViewFollows
    BY <1>1, <2>1 DEF GatewayInv, GatewayTypeOK
  <2>. QED
    BY <2>1, <2>2, <2>3 DEF ViewFollows
<1>. QED
  BY <1>1, GatewayInvariance, PTL

=============================================================================
