------------------------ MODULE OrderPlacementProofs ------------------------
(* Proofs about OrderPlacement, for any requests, products, connections,   *)
(* quantities, stocks and bound on the failures.                           *)
EXTENDS OrderPlacement, FiniteSetTheorems, TLAPS

LEMMA DropTxTypes ==
  ASSUME TypeOK, NEW r \in Request, DropTx(r)
  PROVE  /\ lockOwner' \in [Product -> Request \cup {NoRequest}]
         /\ seen' \in [Request -> [Product -> Nat]]
         /\ written' \in [Request -> SUBSET Part]
         /\ taken' \in [Request -> SUBSET Product]
<1>1. lockOwner' \in [Product -> Request \cup {NoRequest}]
  BY DEF TypeOK, DropTx
<1>2. seen' \in [Request -> [Product -> Nat]]
  <2>1. [p \in Product |-> 0] \in [Product -> Nat]
    OBVIOUS
  <2>. QED
    BY <2>1 DEF TypeOK, DropTx
<1>3. written' \in [Request -> SUBSET Part]
  BY DEF TypeOK, DropTx
<1>4. taken' \in [Request -> SUBSET Product]
  BY DEF TypeOK, DropTx
<1>. QED
  BY <1>1, <1>2, <1>3, <1>4

LEMMA ThrowTypes ==
  ASSUME TypeOK, NEW r \in Request, NEW o \in Outcome, Throw(r, o)
  PROVE  pc' \in [Request -> Label] /\ outcome' \in [Request -> Outcome]
BY DEF TypeOK, Throw, Goto, Label

LEMMA AbortTypes ==
  ASSUME TypeOK, NEW r \in Request, Abort(r)
  PROVE  /\ pc' \in [Request -> Label]
         /\ outcome' \in [Request -> Outcome]
         /\ connTx' \in [Conn -> {"none", "open", "aborted"}]
         /\ lockOwner' \in [Product -> Request \cup {NoRequest}]
         /\ seen' \in [Request -> [Product -> Nat]]
         /\ written' \in [Request -> SUBSET Part]
         /\ taken' \in [Request -> SUBSET Product]
<1>1. pc' \in [Request -> Label] /\ outcome' \in [Request -> Outcome]
  BY ThrowTypes DEF Abort, Outcome
<1>2. connTx' \in [Conn -> {"none", "open", "aborted"}]
  BY DEF TypeOK, Abort
<1>. QED
  BY <1>1, <1>2, DropTxTypes DEF Abort

(* The decrements a transaction made were covered by the stock it locked.  *)
LEMMA TakenIsCovered ==
  ASSUME IInv, NEW r \in Request, NEW p \in taken[r]
  PROVE  p \in Items(r) /\ lockOwner[p] = r /\ stock[p] >= Qty[r][p]
<1>1. RequestInv(r)
  BY DEF IInv
<1>2. pc[r] \in Decremented /\ p \in Items(r)
  BY <1>1 DEF RequestInv, Progress
<1>3. p \in Product /\ lockOwner[p] = r /\ seen[r][p] >= Qty[r][p]
  BY <1>1, <1>2 DEF RequestInv, CheckedHoldsAll, Checked, Items
<1>. QED
  BY <1>1, <1>2, <1>3 DEF RequestInv, LocksProtect

LEMMA PublishTypes ==
  ASSUME IInv, NEW r \in Request, Publish(r)
  PROVE  /\ stock' \in [Product -> Nat]
         /\ rows' \subseteq Request \X Part
         /\ connTx' \in [Conn -> {"none", "open", "aborted"}]
         /\ lockOwner' \in [Product -> Request \cup {NoRequest}]
         /\ seen' \in [Request -> [Product -> Nat]]
         /\ written' \in [Request -> SUBSET Part]
         /\ taken' \in [Request -> SUBSET Product]
<1>1. TypeOK
  BY DEF IInv
<1>2. stock' \in [Product -> Nat]
  <2>1. ASSUME NEW p \in Product, p \in taken[r]
        PROVE  stock[p] - Qty[r][p] \in Nat
    BY <1>1, <2>1, TakenIsCovered, PlacementAssumption DEF TypeOK
  <2>. QED
    BY <1>1, <2>1 DEF TypeOK, Publish
<1>3. rows' \subseteq Request \X Part
  BY <1>1 DEF TypeOK, Publish
<1>4. connTx' \in [Conn -> {"none", "open", "aborted"}]
  BY <1>1 DEF TypeOK, Publish
<1>. QED
  BY <1>1, <1>2, <1>3, <1>4, DropTxTypes DEF Publish

LEMMA TypeOKStep == ASSUME IInv, [Next]_vars PROVE TypeOK'
<1> USE PlacementAssumption DEF TypeOK, KeepTx, Goto, Throw, Fail,
        Label, Statement, Outcome, Answer, Part
<1>0. TypeOK
  BY DEF IInv
<1>1. ASSUME NEW r \in Request, Validate(r) PROVE TypeOK'
  BY <1>0, <1>1 DEF Validate
<1>2. ASSUME NEW r \in Request, Connect(r) PROVE TypeOK'
  BY <1>0, <1>2 DEF Connect, Idle
<1>3. ASSUME NEW r \in Request, StartTransaction(r) PROVE TypeOK'
  BY <1>0, <1>3 DEF StartTransaction
<1>4. ASSUME NEW r \in Request, CheckUser(r) PROVE TypeOK'
  BY <1>0, <1>4 DEF CheckUser
<1>5. ASSUME NEW r \in Request, FindExisting(r) PROVE TypeOK'
  BY <1>0, <1>5, DropTxTypes DEF FindExisting
<1>6. ASSUME NEW r \in Request, NEW p \in Product, LockProduct(r, p)
      PROVE TypeOK'
  BY <1>0, <1>6 DEF LockProduct
<1>7. ASSUME NEW r \in Request, CheckStock(r) PROVE TypeOK'
  BY <1>0, <1>7 DEF CheckStock
<1>8. ASSUME NEW r \in Request, InsertOrder(r) PROVE TypeOK'
  <2>1. CASE Abort(r)
    BY <1>0, <1>8, <2>1, AbortTypes DEF InsertOrder
  <2>2. CASE ~Abort(r)
    <3>1. written' \in [Request -> SUBSET Part]
      <4>1. written' = [written EXCEPT ![r] = @ \cup {"order"}]
        BY <1>8, <2>2 DEF InsertOrder
      <4>2. written[r] \cup {"order"} \in SUBSET Part
        BY <1>0
      <4>. QED
        BY <1>0, <4>1, <4>2
    <3>2. pc' \in [Request -> Label]
      BY <1>0, <1>8, <2>2 DEF InsertOrder
    <3>. QED
      BY <1>0, <1>8, <2>2, <3>1, <3>2 DEF InsertOrder
  <2>. QED
    BY <2>1, <2>2
<1>9. ASSUME NEW r \in Request, DecrementStock(r) PROVE TypeOK'
  BY <1>0, <1>9 DEF DecrementStock, Items
<1>10. ASSUME NEW r \in Request, WriteRows(r) PROVE TypeOK'
  BY <1>0, <1>10 DEF WriteRows, After
<1>12. ASSUME NEW r \in Request, Commit(r) PROVE TypeOK'
  BY <1>0, <1>12, PublishTypes DEF Commit
<1>13. ASSUME NEW r \in Request, Reread(r) PROVE TypeOK'
  BY <1>0, <1>13 DEF Reread
<1>14. ASSUME NEW r \in Request, Authorize(r) PROVE TypeOK'
  BY <1>0, <1>14 DEF Authorize
<1>15. ASSUME NEW r \in Request, Catch(r) PROVE TypeOK'
  <2>1. outcome' \in [Request -> Outcome]
    BY <1>0, <1>15 DEF Catch, AnswerTo
  <2>2. connTx' \in [Conn -> {"none", "open", "aborted"}]
    BY <1>0, <1>15 DEF Catch
  <2>. QED
    BY <1>0, <1>15, <2>1, <2>2, DropTxTypes DEF Catch
<1>16. ASSUME NEW r \in Request, Release(r) PROVE TypeOK'
  BY <1>0, <1>16 DEF Release
<1>17. ASSUME NEW r \in Request, DeadlockVictim(r) PROVE TypeOK'
  BY <1>0, <1>17, AbortTypes DEF DeadlockVictim
<1>18. ASSUME NEW r \in Request, StatementFails(r) PROVE TypeOK'
  BY <1>0, <1>18, AbortTypes DEF StatementFails
<1>19. ASSUME NEW r \in Request, ConnectionLost(r) PROVE TypeOK'
  <2>1. connTx' \in [Conn -> {"none", "open", "aborted"}]
    BY <1>0, <1>19 DEF ConnectionLost
  <2>. QED
    BY <1>0, <1>19, <2>1, DropTxTypes DEF ConnectionLost
<1>20. ASSUME NEW r \in Request, CommitUnacknowledged(r) PROVE TypeOK'
  BY <1>0, <1>20, PublishTypes DEF CommitUnacknowledged
<1>21. ASSUME NEW c \in Conn, CloseIdle(c) PROVE TypeOK'
  BY <1>0, <1>21 DEF CloseIdle
<1>22. CASE Crash
  BY <1>0, <1>22 DEF Crash
<1>23. CASE UNCHANGED vars
  BY <1>0, <1>23 DEF vars
<1>. QED
  BY <1>1, <1>2, <1>3, <1>4, <1>5, <1>6, <1>7, <1>8, <1>9, <1>10, <1>12,
     <1>13, <1>14, <1>15, <1>16, <1>17, <1>18, <1>19, <1>20, <1>21, <1>22,
     <1>23 DEF Next, Advance, Disturb, Terminating

-----------------------------------------------------------------------------
(* A step of one request touches no other request: neither its locals, nor *)
(* its row locks, nor its rows, nor the stock of a product it has locked.  *)
Undisturbed(q) ==
    /\ pc'[q] = pc[q] /\ outcome'[q] = outcome[q] /\ held'[q] = held[q]
    /\ seen'[q] = seen[q] /\ written'[q] = written[q] /\ taken'[q] = taken[q]
    /\ \A p \in Product : lockOwner'[p] = q <=> lockOwner[p] = q
    /\ \A part \in Part : <<q, part>> \in rows' <=> <<q, part>> \in rows
    /\ \A p \in Product : lockOwner[p] = q => stock'[p] = stock[p]

LEMMA DropTxUndisturbed ==
  ASSUME TypeOK, NEW r \in Request, DropTx(r), NEW q \in Request \ {r}
  PROVE  /\ seen'[q] = seen[q] /\ written'[q] = written[q]
         /\ taken'[q] = taken[q]
         /\ \A p \in Product : lockOwner'[p] = q <=> lockOwner[p] = q
BY PlacementAssumption DEF TypeOK, DropTx

LEMMA DropTxOwn ==
  ASSUME TypeOK, NEW r \in Request, DropTx(r)
  PROVE  /\ written'[r] = {} /\ taken'[r] = {}
         /\ \A p \in Product : lockOwner'[p] # r
BY PlacementAssumption DEF TypeOK, DropTx

LEMMA AbortUndisturbed ==
  ASSUME TypeOK, NEW r \in Request, Abort(r), NEW q \in Request \ {r},
         UNCHANGED <<held, stock, rows>>
  PROVE  Undisturbed(q)
BY DropTxUndisturbed DEF TypeOK, Abort, Throw, Goto, Undisturbed

LEMMA PublishUndisturbed ==
  ASSUME IInv, NEW r \in Request, Publish(r), NEW q \in Request \ {r},
         pc'[q] = pc[q], outcome'[q] = outcome[q], held'[q] = held[q]
  PROVE  Undisturbed(q)
<1>1. TypeOK
  BY DEF IInv
<1>2. ASSUME NEW p \in Product, lockOwner[p] = q PROVE stock'[p] = stock[p]
  <2>1. p \notin taken[r]
    BY <1>2, TakenIsCovered
  <2>. QED
    BY <1>1, <2>1 DEF TypeOK, Publish
<1>3. \A part \in Part : <<q, part>> \in rows' <=> <<q, part>> \in rows
  BY DEF Publish
<1>. QED
  BY <1>1, <1>2, <1>3, DropTxUndisturbed DEF Publish, Undisturbed

LEMMA StepUndisturbed ==
  ASSUME IInv, NEW r \in Request, Advance(r) \/ Disturb(r),
         NEW q \in Request \ {r}
  PROVE  Undisturbed(q)
<1> USE DEF TypeOK, Goto, Throw, KeepTx
<1>0. TypeOK
  BY DEF IInv
<1>1. CASE Validate(r)
  BY <1>0, <1>1 DEF Validate, Undisturbed
<1>2. CASE Connect(r)
  BY <1>0, <1>2 DEF Connect, Undisturbed
<1>3. CASE StartTransaction(r)
  BY <1>0, <1>3 DEF StartTransaction, Undisturbed
<1>4. CASE CheckUser(r)
  BY <1>0, <1>4 DEF CheckUser, Undisturbed
<1>5. CASE CheckStock(r)
  BY <1>0, <1>5 DEF CheckStock, Undisturbed
<1>6. CASE WriteRows(r)
  BY <1>0, <1>6 DEF WriteRows, Undisturbed
<1>7. CASE Reread(r)
  BY <1>0, <1>7 DEF Reread, Undisturbed
<1>8. CASE Authorize(r)
  BY <1>0, <1>8 DEF Authorize, Undisturbed
<1>9. CASE Release(r)
  BY <1>0, <1>9 DEF Release, Undisturbed
<1>10. CASE FindExisting(r)
  BY <1>0, <1>10, DropTxUndisturbed DEF FindExisting, Undisturbed
<1>11. ASSUME NEW p \in Product, LockProduct(r, p) PROVE Undisturbed(q)
  BY <1>0, <1>11, PlacementAssumption DEF LockProduct, Undisturbed
<1>12. CASE InsertOrder(r)
  <2>1. CASE Abort(r)
    BY <1>0, <1>12, <2>1, AbortUndisturbed DEF InsertOrder
  <2>2. CASE ~Abort(r)
    BY <1>0, <1>12, <2>2 DEF InsertOrder, Undisturbed
  <2>. QED
    BY <2>1, <2>2
<1>13. CASE DecrementStock(r)
  BY <1>0, <1>13, PlacementAssumption DEF DecrementStock, Undisturbed
<1>14. CASE Commit(r)
  <2>1. pc'[q] = pc[q] /\ outcome'[q] = outcome[q] /\ held'[q] = held[q]
    BY <1>0, <1>14 DEF Commit
  <2>. QED
    BY <1>14, <2>1, PublishUndisturbed DEF Commit
<1>15. CASE Catch(r)
  BY <1>0, <1>15, DropTxUndisturbed DEF Catch, Undisturbed
<1>16. CASE DeadlockVictim(r)
  BY <1>0, <1>16, AbortUndisturbed DEF DeadlockVictim
<1>17. CASE StatementFails(r)
  BY <1>0, <1>17, AbortUndisturbed DEF StatementFails
<1>18. CASE ConnectionLost(r)
  BY <1>0, <1>18, DropTxUndisturbed DEF ConnectionLost, Undisturbed
<1>19. CASE CommitUnacknowledged(r)
  <2>1. pc'[q] = pc[q] /\ outcome'[q] = outcome[q] /\ held'[q] = held[q]
    BY <1>0, <1>19 DEF CommitUnacknowledged
  <2>. QED
    BY <1>19, <2>1, PublishUndisturbed DEF CommitUnacknowledged
<1>. QED
  BY <1>1, <1>2, <1>3, <1>4, <1>5, <1>6, <1>7, <1>8, <1>9, <1>10, <1>11, <1>12, <1>13, <1>14, <1>15, <1>16, <1>17, <1>18, <1>19 DEF Advance, Disturb

(* Committed rows are never removed.                                       *)
LEMMA RowsGrow == [Next]_vars => rows \subseteq rows'
BY DEF Next, Advance, Disturb, Validate, Connect, StartTransaction, CheckUser,
       FindExisting, LockProduct, CheckStock, InsertOrder, DecrementStock,
       WriteRows, Commit, Reread, Authorize, Catch, Release, DeadlockVictim,
       StatementFails, ConnectionLost, CommitUnacknowledged, Publish,
       CloseIdle, Crash, Terminating, vars

LEMMA UndisturbedKeepsInv ==
  ASSUME IInv, NEW q \in Request, Undisturbed(q), rows \subseteq rows'
  PROVE  RequestInv(q)'
<1>1. RequestInv(q)
  BY DEF IInv
<1>2. HolderHasConn(q)' /\ Progress(q)'
  BY <1>1 DEF RequestInv, HolderHasConn, Progress, WrittenAt, Undisturbed
<1>3. LocksProtect(q)'
  BY <1>1 DEF RequestInv, LocksProtect, InTx, Undisturbed
<1>4. CheckedHoldsAll(q)'
  BY <1>1 DEF RequestInv, CheckedHoldsAll, Undisturbed, Items
<1>5. q \in Ordered' <=> q \in Ordered
  BY DEF Ordered, Undisturbed, Part
<1>6. CommittedWhole(q)'
  BY <1>1, <1>5 DEF RequestInv, CommittedWhole, Undisturbed
<1>7. Ordered \subseteq Ordered'
  BY DEF Ordered
<1>8. OutcomeTrue(q)'
  BY <1>1, <1>5, <1>7 DEF RequestInv, OutcomeTrue, Undisturbed, SameKey
<1>. QED
  BY <1>2, <1>3, <1>4, <1>6, <1>8 DEF RequestInv

(* The step of a request keeps that request's own part of the invariant.   *)
LEMMA OwnStep ==
  ASSUME IInv, NEW r \in Request, Advance(r) \/ Disturb(r)
  PROVE  RequestInv(r)'
<1> USE PlacementAssumption
    DEF TypeOK, Goto, Throw, KeepTx, RequestInv, HolderHasConn, LocksProtect,
        CheckedHoldsAll, Progress, CommittedWhole, OutcomeTrue, InTx, Ordered,
        WrittenAt, Checked, Decremented, BeforeTry, Committed, Statement, Part
<1>0. TypeOK /\ RequestInv(r)
  BY DEF IInv
<1>1. CASE Validate(r)
  BY <1>0, <1>1 DEF Validate
<1>2. CASE Connect(r)
  BY <1>0, <1>2 DEF Connect, Idle
<1>3. CASE StartTransaction(r)
  BY <1>0, <1>3 DEF StartTransaction
<1>4. CASE CheckUser(r)
  BY <1>0, <1>4 DEF CheckUser
<1>5. CASE CheckStock(r)
  BY <1>0, <1>5 DEF CheckStock
<1>6. CASE WriteRows(r)
  BY <1>0, <1>6 DEF WriteRows, After
<1>7. CASE Reread(r)
  BY <1>0, <1>7 DEF Reread
<1>8. CASE Authorize(r)
  BY <1>0, <1>8 DEF Authorize
<1>9. CASE Release(r)
  BY <1>0, <1>9 DEF Release
<1>10. CASE DecrementStock(r)
  <2>1. taken'[r] = Items(r)
    BY <1>0, <1>10 DEF DecrementStock, Items
  <2>2. \A p \in Product : lockOwner'[p] = r <=> lockOwner[p] = r
    BY <1>0, <1>10 DEF DecrementStock, Items
  <2>. QED
    BY <1>0, <1>10, <2>1, <2>2 DEF DecrementStock
<1>11. CASE FindExisting(r)
  <2>1. CASE \E q \in Ordered : SameKey(q, r)
    <3>1. r \notin Ordered
      BY <1>0, <1>11 DEF FindExisting
    <3>2. PICK q \in Ordered : SameKey(q, r)
      BY <2>1
    <3>3. /\ pc'[r] = "release" /\ outcome'[r] = "existing"
          /\ held' = held /\ rows' = rows /\ DropTx(r)
      BY <1>0, <1>11, <2>1 DEF FindExisting
    <3>4. OutcomeTrue(r)'
      BY <3>1, <3>2, <3>3 DEF SameKey
    <3>. QED
      BY <1>0, <1>11, <3>1, <3>3, <3>4, DropTxOwn DEF FindExisting
  <2>2. CASE ~\E q \in Ordered : SameKey(q, r)
    BY <1>0, <1>11, <2>2 DEF FindExisting
  <2>. QED
    BY <2>1, <2>2
<1>12. ASSUME NEW p \in Product, LockProduct(r, p) PROVE RequestInv(r)'
  BY <1>0, <1>12 DEF LockProduct
<1>13. CASE InsertOrder(r)
  <2>1. CASE Abort(r)
    BY <1>0, <1>13, <2>1, DropTxOwn DEF InsertOrder, Abort
  <2>2. CASE ~Abort(r)
    BY <1>0, <1>13, <2>2 DEF InsertOrder
  <2>. QED
    BY <2>1, <2>2
<1>14. CASE Commit(r)
  BY <1>0, <1>14, DropTxOwn DEF Commit, Publish
<1>15. CASE Catch(r)
  BY <1>0, <1>15, DropTxOwn DEF Catch, AnswerTo
<1>16. CASE DeadlockVictim(r)
  BY <1>0, <1>16, DropTxOwn DEF DeadlockVictim, Abort
<1>17. CASE StatementFails(r)
  BY <1>0, <1>17, DropTxOwn DEF StatementFails, Abort
<1>18. CASE ConnectionLost(r)
  BY <1>0, <1>18, DropTxOwn DEF ConnectionLost
<1>19. CASE CommitUnacknowledged(r)
  BY <1>0, <1>19, DropTxOwn DEF CommitUnacknowledged, Publish
<1>. QED
  BY <1>1, <1>2, <1>3, <1>4, <1>5, <1>6, <1>7, <1>8, <1>9, <1>10, <1>11, <1>12, <1>13, <1>14, <1>15, <1>16, <1>17, <1>18, <1>19 DEF Advance, Disturb

-----------------------------------------------------------------------------
(* A request opens a transaction on its own connection only, and leaves    *)
(* its transaction only by ending it there.                                *)
LEMMA OwnConn ==
  ASSUME IInv, NEW r \in Request, Advance(r) \/ Disturb(r), NEW c \in Conn,
         connTx'[c] = "open"
  PROVE  \/ held'[r] = c /\ InTx(r)'
         \/ connTx[c] = "open" /\ ~(held[r] = c /\ InTx(r))
<1> USE DEF TypeOK, Goto, Throw, InTx, Statement, Outcome, Answer
<1>0. TypeOK /\ Progress(r)
  BY DEF IInv, RequestInv
<1>1. CASE Validate(r)
  BY <1>0, <1>1 DEF Validate
<1>2. CASE Connect(r)
  BY <1>0, <1>2 DEF Connect
<1>3. CASE StartTransaction(r)
  BY <1>0, <1>3 DEF StartTransaction
<1>4. CASE CheckUser(r)
  BY <1>0, <1>4 DEF CheckUser
<1>5. CASE FindExisting(r)
  BY <1>0, <1>5 DEF FindExisting
<1>6. CASE CheckStock(r)
  BY <1>0, <1>6 DEF CheckStock
<1>7. CASE InsertOrder(r)
  BY <1>0, <1>7 DEF InsertOrder, Abort
<1>8. CASE DecrementStock(r)
  BY <1>0, <1>8 DEF DecrementStock
<1>9. CASE WriteRows(r)
  BY <1>0, <1>9 DEF WriteRows, After
<1>10. CASE Commit(r)
  BY <1>0, <1>10 DEF Commit, Publish
<1>11. CASE Reread(r)
  BY <1>0, <1>11 DEF Reread
<1>12. CASE Authorize(r)
  BY <1>0, <1>12 DEF Authorize
<1>13. CASE Catch(r)
  BY <1>0, <1>13 DEF Catch, AnswerTo
<1>14. CASE Release(r)
  BY <1>0, <1>14 DEF Release
<1>15. CASE DeadlockVictim(r)
  BY <1>0, <1>15 DEF DeadlockVictim, Abort
<1>16. CASE StatementFails(r)
  BY <1>0, <1>16 DEF StatementFails, Abort
<1>17. CASE ConnectionLost(r)
  BY <1>0, <1>17 DEF ConnectionLost
<1>18. CASE CommitUnacknowledged(r)
  BY <1>0, <1>18 DEF CommitUnacknowledged, Publish
<1>19. CASE \E p \in Product : LockProduct(r, p)
  BY <1>0, <1>19 DEF LockProduct
<1>. QED
  BY <1>1, <1>2, <1>3, <1>4, <1>5, <1>6, <1>7, <1>8, <1>9, <1>10, <1>11, <1>12, <1>13, <1>14, <1>15, <1>16, <1>17, <1>18, <1>19 DEF Advance, Disturb

LEMMA OpenIsHeldStep ==
  ASSUME IInv, NEW r \in Request, Advance(r) \/ Disturb(r)
  PROVE  OpenIsHeld'
<1> SUFFICES ASSUME NEW c \in Conn, connTx'[c] = "open"
             PROVE  \E q \in Request : held'[q] = c /\ InTx(q)'
  BY DEF OpenIsHeld
<1>1. CASE held'[r] = c /\ InTx(r)'
  BY <1>1
<1>2. CASE connTx[c] = "open" /\ ~(held[r] = c /\ InTx(r))
  <2>1. PICK q \in Request : held[q] = c /\ InTx(q)
    BY <1>2 DEF IInv, OpenIsHeld
  <2>2. Undisturbed(q)
    BY <1>2, <2>1, StepUndisturbed
  <2>. QED
    BY <2>1, <2>2 DEF Undisturbed, InTx
<1>. QED
  BY <1>1, <1>2, OwnConn

(* A request gains an order only by inserting one the index lets through.  *)
LEMMA OwnOrder ==
  ASSUME IInv, NEW r \in Request, Advance(r) \/ Disturb(r), HasOrder(r)'
  PROVE  \/ HasOrder(r)
         \/ \A q \in Request \ {r} : SameKey(q, r) => ~HasOrder(q)
<1> USE DEF TypeOK, KeepTx, HasOrder, Ordered
<1>0. TypeOK /\ Progress(r)
  BY DEF IInv, RequestInv
<1>1. CASE InsertOrder(r)
  BY <1>0, <1>1, DropTxOwn DEF InsertOrder, Abort
<1>2. CASE WriteRows(r)
  BY <1>0, <1>2, DropTxOwn DEF WriteRows, After, Progress, WrittenAt
<1>3. CASE Commit(r)
  BY <1>0, <1>3, DropTxOwn DEF Commit, Publish
<1>4. CASE Catch(r)
  BY <1>0, <1>4, DropTxOwn DEF Catch
<1>5. CASE FindExisting(r)
  BY <1>0, <1>5, DropTxOwn DEF FindExisting
<1>6. CASE ConnectionLost(r)
  BY <1>0, <1>6, DropTxOwn DEF ConnectionLost
<1>7. CASE CommitUnacknowledged(r)
  BY <1>0, <1>7, DropTxOwn DEF CommitUnacknowledged, Publish
<1>8. CASE DeadlockVictim(r)
  BY <1>0, <1>8, DropTxOwn DEF DeadlockVictim, Abort
<1>9. CASE StatementFails(r)
  BY <1>0, <1>9, DropTxOwn DEF StatementFails, Abort
<1>10. CASE UNCHANGED <<written, rows>>
  BY <1>10
<1>. QED
  BY <1>1, <1>2, <1>3, <1>4, <1>5, <1>6, <1>7, <1>8, <1>9, <1>10 DEF Advance, Disturb,
     Validate, Connect, StartTransaction, CheckUser, LockProduct, CheckStock,
     DecrementStock, Reread, Authorize, Release

LEMMA KeyIsUniqueStep ==
  ASSUME IInv, NEW r \in Request, Advance(r) \/ Disturb(r)
  PROVE  KeyIsUnique'
<1> SUFFICES ASSUME NEW x \in Request, NEW y \in Request,
                    HasOrder(x)', HasOrder(y)', SameKey(x, y), x # y
             PROVE  FALSE
  BY DEF KeyIsUnique, SameKey
<1>1. \A q \in Request \ {r} : HasOrder(q)' => HasOrder(q)
  BY StepUndisturbed DEF HasOrder, Ordered, Undisturbed, Part
<1>2. SameKey(y, x)
  BY DEF SameKey
<1>3. CASE HasOrder(x) /\ HasOrder(y)
  BY <1>3 DEF IInv, KeyIsUnique
<1>4. CASE ~HasOrder(x)
  <2>1. x = r /\ HasOrder(y)
    BY <1>1, <1>4
  <2>. QED
    BY <1>2, <1>4, <2>1, OwnOrder
<1>5. CASE ~HasOrder(y)
  <2>1. y = r /\ HasOrder(x)
    BY <1>1, <1>5
  <2>. QED
    BY <1>5, <2>1, OwnOrder
<1>. QED
  BY <1>3, <1>4, <1>5

(* Only a commit changes what is committed.                                *)
LEMMA OnlyCommitPublishes ==
  ASSUME NEW r \in Request, Advance(r) \/ Disturb(r)
  PROVE  (pc[r] = "commit" /\ Publish(r)) \/ UNCHANGED <<stock, rows>>
BY DEF Advance, Disturb, Validate, Connect, StartTransaction, CheckUser,
         FindExisting, LockProduct, CheckStock, InsertOrder, DecrementStock,
         WriteRows, Commit, Reread, Authorize, Catch, Release, DeadlockVictim,
         StatementFails, ConnectionLost, CommitUnacknowledged

LEMMA PublishConserves ==
  ASSUME IInv, NEW r \in Request, pc[r] = "commit", Publish(r)
  PROVE  Conservation'
<1> DEFINE New(p) == {r} \X (1..Qty[r][p])
<1>1. TypeOK /\ Progress(r) /\ CommittedWhole(r) /\ Conservation
  BY DEF IInv, RequestInv
<1>2. r \notin Ordered /\ written[r] = Part
  BY <1>1 DEF CommittedWhole, Statement, Progress, WrittenAt
<1>3. Ordered' = Ordered \cup {r}
  BY <1>1, <1>2 DEF TypeOK, Ordered, Publish, Part
<1> SUFFICES ASSUME NEW p \in Product
             PROVE  /\ IsFiniteSet(UnitsSold(p)')
                    /\ stock'[p] + Cardinality(UnitsSold(p)') = InitStock[p]
  BY DEF Conservation
<1>4. UnitsSold(p)' = UnitsSold(p) \cup New(p)
  BY <1>3 DEF UnitsSold
<1>5. UnitsSold(p) \cap New(p) = {}
  BY <1>2 DEF UnitsSold
<1>6. Qty[r][p] \in Nat
  BY PlacementAssumption
<1>7. IsFiniteSet(New(p)) /\ Cardinality(New(p)) = Qty[r][p]
  <2>1. IsFiniteSet(1..Qty[r][p]) /\ Cardinality(1..Qty[r][p]) = Qty[r][p]
    <3>1. 1 \in Int /\ Qty[r][p] \in Int
      BY <1>6
    <3>2. /\ IsFiniteSet(1..Qty[r][p])
          /\ Cardinality(1..Qty[r][p]) =
                IF 1 > Qty[r][p] THEN 0 ELSE Qty[r][p] - 1 + 1
      BY <3>1, FS_Interval, Zenon
    <3>. QED
      BY <1>6, <3>2
  <2>2. IsFiniteSet({r}) /\ Cardinality({r}) = 1
    BY FS_Singleton
  <2>3. /\ IsFiniteSet(New(p))
        /\ Cardinality(New(p)) = Cardinality({r}) * Cardinality(1..Qty[r][p])
    BY <2>1, <2>2, FS_Product, Zenon
  <2>. QED
    BY <1>6, <2>1, <2>2, <2>3
<1>8. IsFiniteSet(UnitsSold(p)) /\ Cardinality(UnitsSold(p)) \in Nat
  BY <1>1, FS_CardinalityType DEF Conservation
<1>9. /\ IsFiniteSet(UnitsSold(p)')
      /\ Cardinality(UnitsSold(p)') = Cardinality(UnitsSold(p)) + Qty[r][p]
  <2>1. /\ IsFiniteSet(UnitsSold(p) \cup New(p))
        /\ Cardinality(UnitsSold(p) \cup New(p)) =
              Cardinality(UnitsSold(p)) + Cardinality(New(p))
                - Cardinality(UnitsSold(p) \cap New(p))
    BY <1>7, <1>8, FS_Union, Zenon
  <2>2. Cardinality(UnitsSold(p) \cap New(p)) = 0
    BY <1>5, FS_EmptySet, Zenon
  <2>. HIDE DEF New
  <2>. QED
    BY <1>4, <1>6, <1>7, <1>8, <2>1, <2>2
<1>10. stock'[p] = stock[p] - Qty[r][p]
  <2>1. taken[r] = Items(r)
    BY <1>1 DEF Progress, Decremented
  <2>2. CASE p \in Items(r)
    BY <1>1, <2>1, <2>2 DEF TypeOK, Publish
  <2>3. CASE p \notin Items(r)
    BY <1>1, <1>6, <2>1, <2>3 DEF TypeOK, Publish, Items
  <2>. QED
    BY <2>2, <2>3
<1>11. stock[p] \in Nat /\ InitStock[p] \in Nat
  BY <1>1, PlacementAssumption DEF TypeOK
<1>. QED
  BY <1>1, <1>6, <1>8, <1>9, <1>10, <1>11 DEF Conservation
-----------------------------------------------------------------------------
LEMMA InitIInv == Init => IInv
<1> SUFFICES ASSUME Init PROVE IInv
  OBVIOUS
<1> USE PlacementAssumption DEF Init
<1>1. TypeOK
  BY DEF TypeOK, Label, Outcome, Answer, Part
<1>2. Ordered = {}
  BY DEF Ordered
<1>3. OpenIsHeld
  BY DEF OpenIsHeld
<1>4. ASSUME NEW r \in Request PROVE RequestInv(r)
  BY <1>2 DEF RequestInv, HolderHasConn, LocksProtect, CheckedHoldsAll,
     Checked, Decremented, Progress, WrittenAt, BeforeTry, Statement,
     Committed, CommittedWhole, OutcomeTrue, Part
<1>5. KeyIsUnique
  BY <1>2 DEF KeyIsUnique, HasOrder
<1>6. Conservation
  <2> SUFFICES ASSUME NEW p \in Product
               PROVE  /\ IsFiniteSet(UnitsSold(p))
                      /\ stock[p] + Cardinality(UnitsSold(p)) = InitStock[p]
    BY DEF Conservation
  <2>1. UnitsSold(p) = {}
    BY <1>2 DEF UnitsSold
  <2>2. IsFiniteSet({}) /\ Cardinality({}) = 0
    BY FS_EmptySet
  <2>3. InitStock[p] \in Nat
    OBVIOUS
  <2>. QED
    BY <2>1, <2>2, <2>3
<1>. QED
  BY <1>1, <1>3, <1>4, <1>5, <1>6 DEF IInv

(* Steps that leave the committed tables alone keep what is sold.          *)
LEMMA FrameConservation ==
  IInv /\ UNCHANGED <<stock, rows>> => Conservation'
BY DEF IInv, Conservation, UnitsSold, Ordered

LEMMA RequestStep ==
  ASSUME IInv, [Next]_vars, NEW r \in Request, Advance(r) \/ Disturb(r)
  PROVE  IInv'
<1>1. TypeOK'
  BY TypeOKStep
<1>2. ASSUME NEW q \in Request PROVE RequestInv(q)'
  <2>1. CASE q = r
    BY <2>1, OwnStep
  <2>2. CASE q # r
    BY <2>2, StepUndisturbed, UndisturbedKeepsInv, RowsGrow
  <2>. QED
    BY <2>1, <2>2
<1>3. Conservation'
  BY OnlyCommitPublishes, PublishConserves, FrameConservation
<1>. QED
  BY <1>1, <1>2, <1>3, OpenIsHeldStep, KeyIsUniqueStep DEF IInv

LEMMA CloseIdleStep ==
  ASSUME IInv, [Next]_vars, NEW c \in Conn, CloseIdle(c)
  PROVE  IInv'
<1>1. TypeOK'
  BY TypeOKStep
<1>2. ASSUME NEW q \in Request PROVE RequestInv(q)'
  <2>1. Undisturbed(q) /\ rows \subseteq rows'
    BY <1>1 DEF CloseIdle, KeepTx, Undisturbed
  <2>. QED
    BY <2>1, UndisturbedKeepsInv
<1>3. OpenIsHeld'
  BY DEF IInv, TypeOK, OpenIsHeld, CloseIdle, InTx
<1>4. KeyIsUnique'
  BY DEF IInv, KeyIsUnique, HasOrder, Ordered, CloseIdle, KeepTx, SameKey
<1>5. Conservation'
  BY FrameConservation DEF CloseIdle
<1>. QED
  BY <1>1, <1>2, <1>3, <1>4, <1>5 DEF IInv

LEMMA CrashStep ==
  ASSUME IInv, [Next]_vars, Crash
  PROVE  IInv'
<1>1. TypeOK' /\ TypeOK
  BY TypeOKStep DEF IInv
<1>2. ASSUME NEW q \in Request PROVE RequestInv(q)'
  <2>1. /\ RequestInv(q)
        /\ pc'[q] = (IF pc[q] = "new" THEN "new" ELSE "done")
        /\ outcome'[q] = (IF pc[q] \in {"new", "done"} THEN outcome[q]
                                                       ELSE "lost")
        /\ written'[q] = {} /\ taken'[q] = {}
        /\ \A p \in Product : lockOwner'[p] # q
        /\ rows' = rows
    BY <1>1, PlacementAssumption DEF IInv, Crash
  <2>2. HolderHasConn(q)' /\ LocksProtect(q)' /\ CheckedHoldsAll(q)'
    BY <2>1 DEF HolderHasConn, LocksProtect, CheckedHoldsAll, Checked,
       Decremented
  <2>3. Progress(q)'
    BY <2>1 DEF RequestInv, Progress, WrittenAt, BeforeTry, Statement,
       Committed, Decremented
  <2>4. CommittedWhole(q)' /\ OutcomeTrue(q)'
    BY <2>1 DEF RequestInv, CommittedWhole, OutcomeTrue, BeforeTry, Statement,
       Committed, Ordered, SameKey
  <2>. QED
    BY <2>2, <2>3, <2>4 DEF RequestInv
<1>3. OpenIsHeld'
  BY <1>1 DEF OpenIsHeld, Crash
<1>4. KeyIsUnique'
  BY DEF IInv, KeyIsUnique, HasOrder, Ordered, Crash, SameKey
<1>5. Conservation'
  BY FrameConservation DEF Crash
<1>. QED
  BY <1>1, <1>2, <1>3, <1>4, <1>5 DEF IInv

LEMMA StutterStep == IInv /\ UNCHANGED vars => IInv'
<1> SUFFICES ASSUME IInv, UNCHANGED vars PROVE IInv'
  OBVIOUS
<1>1. TypeOK'
  BY TypeOKStep
<1>2. ASSUME NEW q \in Request PROVE RequestInv(q)'
  <2>1. Undisturbed(q) /\ rows \subseteq rows'
    BY DEF vars, Undisturbed
  <2>. QED
    BY <2>1, UndisturbedKeepsInv
<1>3. OpenIsHeld' /\ KeyIsUnique'
  BY DEF IInv, OpenIsHeld, KeyIsUnique, HasOrder, Ordered, SameKey, InTx, vars
<1>4. Conservation'
  BY FrameConservation DEF vars
<1>. QED
  BY <1>1, <1>2, <1>3, <1>4 DEF IInv

(* The invariant holds in every reachable state.                           *)
THEOREM Invariance == Spec => []IInv
<1>1. ASSUME IInv, [Next]_vars PROVE IInv'
  <2>1. CASE \E r \in Request : Advance(r) \/ Disturb(r)
    BY <1>1, <2>1, RequestStep
  <2>2. CASE \E c \in Conn : CloseIdle(c)
    BY <1>1, <2>2, CloseIdleStep
  <2>3. CASE Crash
    BY <1>1, <2>3, CrashStep
  <2>4. CASE UNCHANGED vars
    BY <1>1, <2>4, StutterStep
  <2>. QED
    BY <1>1, <2>1, <2>2, <2>3, <2>4 DEF Next, Terminating
<1>. QED
  BY <1>1, InitIInv, PTL DEF Spec

(* Types; in particular the stock of a product is never negative.          *)
THEOREM TypeCorrect == Spec => []TypeOK
<1>1. IInv => TypeOK
  BY DEF IInv
<1>. QED
  BY <1>1, Invariance, PTL

(* No oversell: stock left plus units in committed orders is the initial   *)
(* stock, however many requests race (lines 117-185 of create).            *)
THEOREM NoOversell == Spec => []StockConserved
<1>1. IInv => StockConserved
  BY DEF IInv, Conservation, StockConserved
<1>. QED
  BY <1>1, Invariance, PTL

(* One order for each key of a user, whatever is submitted twice.          *)
THEOREM Idempotence == Spec => []OneOrderPerKey
<1>1. IInv => OneOrderPerKey
  BY DEF IInv, KeyIsUnique, HasOrder, SameKey, Ordered, OneOrderPerKey
<1>. QED
  BY <1>1, Invariance, PTL

(* An order and its outbox events are committed together or not at all.    *)
THEOREM Atomicity == Spec => []AllOrNothing
<1>1. ASSUME IInv, NEW r \in Request
      PROVE  {part \in Part : <<r, part>> \in rows} \in {{}, Part}
  <2>1. CommittedWhole(r)
    BY <1>1 DEF IInv, RequestInv
  <2>2. CASE r \in Ordered
    BY <2>1, <2>2 DEF CommittedWhole
  <2>3. CASE r \notin Ordered
    BY <2>1, <2>3 DEF CommittedWhole
  <2>. QED
    BY <2>2, <2>3
<1>2. IInv => AllOrNothing
  BY <1>1 DEF AllOrNothing
<1>. QED
  BY <1>2, Invariance, PTL

(* No product stays locked, no pooled connection stays in a transaction,   *)
(* once the request that used it has gone.                                 *)
THEOREM LocksAreReleased == Spec => []NoStaleLock
<1>1. IInv => NoStaleLock
  BY DEF IInv, RequestInv, LocksProtect, OpenIsHeld, Idle, NoStaleLock
<1>. QED
  BY <1>1, Invariance, PTL

(* The answer a client gets agrees with what is in the tables.             *)
THEOREM AnswersAgree == Spec => []AnswersAreTrue
<1>1. IInv => AnswersAreTrue
  BY DEF IInv, RequestInv, OutcomeTrue, SameKey, AnswersAreTrue
<1>. QED
  BY <1>1, Invariance, PTL-----------------------------------------------------------------------------
(* The order book.                                                         *)

(* Why a request is refused stays true, and what it passed stays passed.   *)
LEMMA InitBookInv == Init => BookInv
BY DEF Init, BookInv, Admitted, Checked, Decremented, Statement

(* The stock of a product never grows.                                     *)
LEMMA StockShrinks ==
  ASSUME IInv, [Next]_vars, NEW p \in Product
  PROVE  stock[p] \in Nat /\ stock'[p] \in Nat /\ stock'[p] <= stock[p]
<1>1. TypeOK /\ TypeOK'
  BY TypeOKStep DEF IInv
<1>2. CASE UNCHANGED stock
  BY <1>1, <1>2 DEF TypeOK
<1>3. ASSUME NEW r \in Request, Publish(r)
      PROVE  stock[p] \in Nat /\ stock'[p] \in Nat /\ stock'[p] <= stock[p]
  <2>1. stock'[p] = IF p \in taken[r] THEN stock[p] - Qty[r][p] ELSE stock[p]
    BY <1>3 DEF Publish
  <2>. QED
    BY <1>1, <2>1, PlacementAssumption DEF TypeOK
<1>4. UNCHANGED stock \/ \E r \in Request : Publish(r)
  <2>1. CASE \E r \in Request : Advance(r) \/ Disturb(r)
    BY <2>1, OnlyCommitPublishes
  <2>2. CASE ~\E r \in Request : Advance(r) \/ Disturb(r)
    BY <2>2 DEF Next, CloseIdle, Crash, Terminating, vars
  <2>. QED
    BY <2>1, <2>2
<1>. QED
  BY <1>2, <1>3, <1>4

LEMMA NeverCoveredAgain ==
  ASSUME IInv, [Next]_vars, NEW r \in Request, ~Book!Covered(r)
  PROVE  ~Book!Covered(r)'
<1>1. PICK p \in Product : ~(Qty[r][p] <= stock[p])
  BY DEF Book!Covered
<1>2. Qty[r][p] \in Nat
  BY PlacementAssumption
<1>3. ~(Qty[r][p] <= stock'[p])
  BY <1>1, <1>2, StockShrinks
<1>. QED
  BY <1>3 DEF Book!Covered

(* A request that is asked nothing keeps what it passed.                   *)
LEMMA AdmittedElsewhere ==
  ASSUME IInv, [Next]_vars, NEW q \in Request, Admitted(q),
         \/ pc'[q] = pc[q] /\ outcome'[q] = outcome[q]
         \/ pc'[q] = "done" /\ outcome'[q] = "lost"
  PROVE  Admitted(q)'
<1>1. Book!Proper(q)' = Book!Proper(q)
  BY DEF Book!Proper
<1>2. Items(q)' = Items(q)
  BY DEF Items
<1>. QED
  BY <1>1, <1>2, NeverCoveredAgain DEF Admitted, WellFormed, Checked, Decremented, Statement

(* What is asked for is what Proper asks about.                            *)
LEMMA ItemsAreProper ==
  ASSUME NEW r \in Request
  PROVE  Book!Proper(r) <=> /\ WellFormed(r) /\ UserOf[r] \in KnownUser
                            /\ Items(r) \subseteq Catalog
BY DEF Book!Proper, WellFormed, Items

(* The stock that was too small is there as it was read.                   *)
LEMMA RefusedForStock ==
  ASSUME IInv, NEW r \in Request, NEW p \in Items(r) \cap Catalog,
         lockOwner[p] = r, seen[r][p] < Qty[r][p]
  PROVE  ~Book!Covered(r)
<1>1. p \in Product
  BY DEF Items
<1>2. seen[r][p] = stock[p] /\ stock[p] \in Nat /\ Qty[r][p] \in Nat
  BY <1>1, PlacementAssumption DEF IInv, RequestInv, LocksProtect, TypeOK
<1>. QED
  BY <1>1, <1>2 DEF Book!Covered

LEMMA AdmittedOwn ==
  ASSUME IInv, [Next]_vars, NEW r \in Request, Advance(r) \/ Disturb(r), Admitted(r)
  PROVE  Admitted(r)'
<1> USE DEF TypeOK, Goto, Throw, KeepTx, Admitted, WellFormed, Checked, Decremented,
            Statement
<1>0. TypeOK /\ Progress(r)
  BY DEF IInv, RequestInv
<1>a. /\ Book!Proper(r)' = Book!Proper(r)
      /\ Items(r)' = Items(r)
      /\ ~Book!Covered(r) => ~Book!Covered(r)'
  BY NeverCoveredAgain DEF Book!Proper, Items
<1>b. CASE pc'[r] \in {"catch", "release"} /\ outcome'[r] \notin {"400", "409"}
           /\ pc[r] \notin {"new", "done"}
  BY <1>0, <1>a, <1>b
<1>1. CASE Validate(r)
  BY <1>0, <1>1, <1>a, ItemsAreProper DEF Validate
<1>2. CASE Connect(r)
  BY <1>0, <1>2, <1>a DEF Connect
<1>3. CASE StartTransaction(r)
  BY <1>0, <1>3, <1>a DEF StartTransaction
<1>4. CASE CheckUser(r)
  BY <1>0, <1>4, <1>a, ItemsAreProper DEF CheckUser
<1>5. CASE FindExisting(r)
  BY <1>0, <1>5, <1>a DEF FindExisting
<1>6. CASE CheckStock(r)
  <2>1. CASE ~(Items(r) \subseteq Catalog)
    BY <1>0, <1>6, <1>a, <2>1, ItemsAreProper DEF CheckStock
  <2>2. CASE Items(r) \subseteq Catalog
    <3>1. CASE \E p \in Items(r) : seen[r][p] < Qty[r][p]
      <4>1. ~Book!Covered(r)
        BY <1>6, <2>2, <3>1, RefusedForStock DEF CheckStock
      <4>2. pc'[r] \in {"catch", "order"} /\ outcome'[r] \in {outcome[r], "409"}
        BY <1>0, <1>6, <2>2 DEF CheckStock
      <4>. QED
        BY <1>0, <1>6, <1>a, <2>2, <4>1, <4>2 DEF CheckStock
    <3>2. CASE ~\E p \in Items(r) : seen[r][p] < Qty[r][p]
      <4>1. pc'[r] = "order" /\ outcome'[r] = outcome[r]
        BY <1>0, <1>6, <2>2, <3>2 DEF CheckStock
      <4>. QED
        BY <1>0, <1>6, <1>a, <2>2, <4>1 DEF CheckStock
    <3>. QED
      BY <3>1, <3>2
  <2>. QED
    BY <2>1, <2>2
<1>7. CASE InsertOrder(r)
  BY <1>0, <1>7, <1>a DEF InsertOrder, Abort
<1>8. CASE DecrementStock(r)
  BY <1>0, <1>8, <1>a DEF DecrementStock
<1>9. CASE WriteRows(r)
  BY <1>0, <1>9, <1>a DEF WriteRows, After
<1>10. CASE Commit(r)
  BY <1>0, <1>10, <1>a DEF Commit
<1>11. CASE Reread(r)
  BY <1>0, <1>11, <1>a DEF Reread
<1>12. CASE Authorize(r)
  BY <1>0, <1>12, <1>a DEF Authorize
<1>13. CASE Catch(r)
  BY <1>0, <1>13, <1>a DEF Catch, AnswerTo
<1>14. CASE Release(r)
  BY <1>0, <1>14, <1>a DEF Release
<1>15. CASE DeadlockVictim(r)
  <2>1. pc[r] = "lock"
    BY <1>15 DEF DeadlockVictim
  <2>. QED
    BY <1>0, <1>15, <1>a, <2>1 DEF DeadlockVictim, Abort
<1>16. CASE StatementFails(r)
  BY <1>0, <1>16, <1>a DEF StatementFails, Abort
<1>17. CASE ConnectionLost(r)
  BY <1>0, <1>17, <1>a DEF ConnectionLost
<1>18. CASE CommitUnacknowledged(r)
  BY <1>0, <1>18, <1>a DEF CommitUnacknowledged
<1>19. CASE \E p \in Product : LockProduct(r, p)
  BY <1>0, <1>19, <1>a DEF LockProduct
<1>. QED
  BY <1>1, <1>2, <1>3, <1>4, <1>5, <1>6, <1>7, <1>8, <1>9, <1>10, <1>11, <1>12,
     <1>13, <1>14, <1>15, <1>16, <1>17, <1>18, <1>19 DEF Advance, Disturb

LEMMA BookInvStep ==
  ASSUME IInv, BookInv, [Next]_vars
  PROVE  BookInv'
<1> SUFFICES ASSUME NEW q \in Request PROVE Admitted(q)'
  BY DEF BookInv
<1>0. TypeOK /\ Admitted(q)
  BY DEF IInv, BookInv
<1>1. ASSUME NEW r \in Request, Advance(r) \/ Disturb(r) PROVE Admitted(q)'
  <2>1. CASE q = r
    BY <1>0, <1>1, <2>1, AdmittedOwn
  <2>2. CASE q # r
    BY <1>0, <1>1, <2>2, StepUndisturbed, AdmittedElsewhere DEF Undisturbed
  <2>. QED
    BY <2>1, <2>2
<1>2. CASE Crash
  <2>1. /\ pc'[q] = IF pc[q] = "new" THEN "new" ELSE "done"
        /\ outcome'[q] = IF pc[q] \in {"new", "done"} THEN outcome[q] ELSE "lost"
    BY <1>2 DEF Crash
  <2>. QED
    BY <1>0, <2>1, AdmittedElsewhere
<1>3. CASE UNCHANGED <<pc, outcome>>
  BY <1>0, <1>3, AdmittedElsewhere
<1>. QED
  BY <1>1, <1>2, <1>3 DEF Next, CloseIdle, Terminating, vars

(* Nobody moves a request that is done.                                    *)
LEMMA DoneRests ==
  ASSUME NEW r \in Request, Advance(r) \/ Disturb(r)
  PROVE  pc[r] # "done"
BY DEF Advance, Disturb, Validate, Connect, StartTransaction, CheckUser,
       FindExisting, LockProduct, CheckStock, InsertOrder, DecrementStock,
       WriteRows, After, Commit, Reread, Authorize, Catch, Release,
       DeadlockVictim, StatementFails, ConnectionLost, CommitUnacknowledged,
       Statement

(* A commit finds what placing an order asks for: the rows it locked still *)
(* hold what they held at the check, and the index let its key through.    *)
LEMMA CommitPlaces ==
  ASSUME IInv, BookInv, NEW r \in Request, pc[r] = "commit", Publish(r)
  PROVE  /\ Book!Proper(r) /\ Book!Covered(r)
         /\ \A q \in Ordered : ~Book!Twin(q, r)
         /\ Ordered' = Ordered \cup {r}
         /\ stock' = [p \in Product |-> stock[p] - Qty[r][p]]
<1>1. TypeOK /\ Progress(r) /\ CommittedWhole(r)
  BY DEF IInv, RequestInv
<1>2. r \notin Ordered /\ written[r] = Part
  BY <1>1 DEF CommittedWhole, Statement, Progress, WrittenAt
<1>3. Book!Proper(r)
  BY ItemsAreProper DEF BookInv, Admitted, Statement, Checked, Decremented
<1>4. ASSUME NEW p \in Product
      PROVE  /\ Qty[r][p] <= stock[p]
             /\ stock'[p] = stock[p] - Qty[r][p]
  <2>1. taken[r] = Items(r)
    BY <1>1 DEF Progress, Decremented
  <2>2. stock[p] \in Nat /\ Qty[r][p] \in Nat
    BY <1>1, PlacementAssumption DEF TypeOK
  <2>3. stock'[p] = IF p \in Items(r) THEN stock[p] - Qty[r][p] ELSE stock[p]
    BY <2>1 DEF Publish
  <2>4. CASE p \in Items(r)
    BY <2>1, <2>2, <2>3, <2>4, TakenIsCovered
  <2>5. CASE p \notin Items(r)
    <3>1. Qty[r][p] = 0
      BY <2>2, <2>5 DEF Items
    <3>. QED
      BY <2>2, <2>3, <2>5, <3>1
  <2>. QED
    BY <2>4, <2>5
<1>5. stock' = [p \in Product |-> stock[p] - Qty[r][p]]
  BY <1>4 DEF Publish
<1>6. Ordered' = Ordered \cup {r}
  BY <1>1, <1>2 DEF TypeOK, Ordered, Publish, Part
<1>7. ASSUME NEW q \in Ordered PROVE ~Book!Twin(q, r)
  <2>1. q \in Request /\ HasOrder(q) /\ HasOrder(r) /\ q # r
    BY <1>2 DEF HasOrder, Ordered, Part
  <2>. QED
    BY <2>1 DEF IInv, KeyIsUnique, SameKey, Book!Twin
<1>. QED
  BY <1>3, <1>4, <1>5, <1>6, <1>7 DEF Book!Covered

LEMMA ToldAs ==
  /\ toldOf = [r \in Request |-> toldOf[r]]
  /\ toldOf' = [r \in Request |-> toldOf'[r]]
  /\ \A r \in Request :
        /\ toldOf[r] = IF pc[r] = "done" /\ outcome[r] \in Answer
                       THEN outcome[r] ELSE "none"
        /\ toldOf'[r] = IF pc'[r] = "done" /\ outcome'[r] \in Answer
                        THEN outcome'[r] ELSE "none"
BY DEF toldOf

(* An answer is given for what it says.                                    *)
LEMMA AnswerTells ==
  ASSUME IInv, BookInv, [Next]_vars, NEW r \in Request, Advance(r) \/ Disturb(r),
         UNCHANGED <<stock, rows>>
  PROVE  Book!Tell(r) \/ UNCHANGED toldOf
<1>1. toldOf[r] = "none"
  BY DoneRests, ToldAs
<1>2. \A q \in Request \ {r} : toldOf'[q] = toldOf[q]
  BY StepUndisturbed, ToldAs DEF Undisturbed
<1>3. CASE ~(pc'[r] = "done" /\ outcome'[r] \in Answer)
  <2>1. \A q \in Request : toldOf'[q] = toldOf[q]
    BY <1>1, <1>2, <1>3, ToldAs
  <2>. QED
    BY <2>1, ToldAs
<1>4. CASE pc'[r] = "done" /\ outcome'[r] \in Answer
  <2> DEFINE a == outcome'[r]
  <2>1. OutcomeTrue(r)' /\ Admitted(r)'
    BY RequestStep, BookInvStep DEF IInv, RequestInv, BookInv
  <2>2. Ordered' = Ordered
    BY DEF Ordered
  <2>3. Book!Proper(r)' = Book!Proper(r) /\ Book!Covered(r)' = Book!Covered(r)
    BY DEF Book!Proper, Book!Covered
  <2>4. a \in Book!Truths(r)
    <3>1. a \in Book!Reply
      BY <1>4 DEF Book!Reply, Answer
    <3>2. a \in {"created", "504"} => r \in Ordered
      BY <2>1, <2>2 DEF OutcomeTrue
    <3>3. a = "existing" => r \notin Ordered /\ \E q \in Ordered : Book!Twin(q, r)
      BY <2>1, <2>2 DEF OutcomeTrue, SameKey, Book!Twin
    <3>4. a = "400" => ~Book!Proper(r)
      BY <2>1, <2>3 DEF Admitted
    <3>5. a = "409" => ~Book!Covered(r) /\ r \notin Ordered
      BY <2>1, <2>2, <2>3 DEF Admitted, OutcomeTrue
    <3>. QED
      BY <3>1, <3>2, <3>3, <3>4, <3>5 DEF Book!Truths
  <2>5. \A q \in Request : toldOf'[q] = IF q = r THEN a ELSE toldOf[q]
    BY <1>2, <1>4, ToldAs
  <2>6. toldOf' = [toldOf EXCEPT ![r] = a]
    BY <2>5, ToldAs
  <2>. QED
    BY <1>1, <2>2, <2>4, <2>6 DEF Book!Tell
<1>. QED
  BY <1>3, <1>4

(* Every step of the handlers is a step of the book, or invisible in it.   *)
LEMMA BookStep ==
  ASSUME IInv, BookInv, [Next]_vars
  PROVE  [Book!BookNext]_<<stock, Ordered, toldOf>>
<1>1. ASSUME NEW r \in Request, Advance(r) \/ Disturb(r)
      PROVE  [Book!BookNext]_<<stock, Ordered, toldOf>>
  <2>1. CASE UNCHANGED <<stock, rows>>
    <3>1. Ordered' = Ordered
      BY <2>1 DEF Ordered
    <3>. QED
      BY <1>1, <2>1, <3>1, AnswerTells DEF Book!BookNext
  <2>2. CASE pc[r] = "commit" /\ Publish(r)
    <3>1. pc'[r] # "done"
      BY <1>1, <2>2 DEF IInv, TypeOK, Advance, Disturb, Validate, Connect,
         StartTransaction, CheckUser, FindExisting, LockProduct, CheckStock,
         InsertOrder, DecrementStock, WriteRows, After, Commit, Reread,
         Authorize, Catch, Release, DeadlockVictim, StatementFails,
         ConnectionLost, CommitUnacknowledged, Abort, Throw, Goto
    <3>2. \A q \in Request : toldOf'[q] = toldOf[q]
      BY <1>1, <2>2, <3>1, StepUndisturbed, ToldAs DEF Undisturbed
    <3>3. UNCHANGED toldOf /\ toldOf[r] = "none"
      BY <2>2, <3>2, ToldAs
    <3>4. Book!Place(r)
      BY <2>2, <3>3, CommitPlaces DEF Book!Place
    <3>. QED
      BY <3>4 DEF Book!BookNext
  <2>. QED
    BY <1>1, <2>1, <2>2, OnlyCommitPublishes
<1>2. CASE Crash
  <2>1. \A q \in Request : toldOf'[q] = toldOf[q]
    BY <1>2, ToldAs DEF Crash, Answer
  <2>2. UNCHANGED <<stock, Ordered, toldOf>>
    BY <1>2, <2>1, ToldAs DEF Crash, Ordered
  <2>. QED
    BY <2>2
<1>3. CASE UNCHANGED <<pc, outcome, stock, rows>>
  BY <1>3 DEF toldOf, Ordered
<1>. QED
  BY <1>1, <1>2, <1>3 DEF Next, CloseIdle, Terminating, vars

(* OrdersService.create, as overlapping requests run it over transactions, *)
(* locks, lost connections and crashes, implements the book of orders.     *)
THEOREM PlacementKeepsBook == Spec => KeepsBook
<1>1. Init => Book!BookInit
  <2> SUFFICES ASSUME Init PROVE Book!BookInit
    OBVIOUS
  <2>1. Ordered = {} /\ toldOf = [r \in Request |-> "none"]
    BY DEF Init, Ordered, toldOf
  <2>. QED
    BY <2>1 DEF Init, Book!BookInit
<1>2. Spec => []BookInv
  BY InitBookInv, BookInvStep, Invariance, PTL DEF Spec
<1>. QED
  BY <1>1, <1>2, BookStep, Invariance, PTL DEF Spec, KeepsBook, Book!BookSpec
=============================================================================
