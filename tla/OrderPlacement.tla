--------------------------- MODULE OrderPlacement ---------------------------
(***************************************************************************)
(* OrdersService.create (src/orders/orders.service.ts) executed by several *)
(* HTTP requests at once against one Postgres database, through one        *)
(* connection pool.                                                        *)
(*                                                                         *)
(* A request walks through the awaits of the handler: pc[r] names the next *)
(* statement.  What a transaction wrote and did not commit is private to   *)
(* the request (written, taken); a commit publishes it to the tables       *)
(* (rows, stock).  An order is identified with the request that made it.   *)
(* Statements run at READ COMMITTED: each sees what is committed when it   *)
(* runs, and a row lock is kept until its transaction ends.                *)
(***************************************************************************)
EXTENDS Naturals, FiniteSets

CONSTANTS
    Request,        \* POST /orders calls
    Product,        \* product ids a request may name
    Conn,           \* connections the pool may open
    NoConn,         \* "holds no connection"
    NoRequest,      \* "locked by nobody"
    Catalog,        \* the products that have a row in the table
    KnownUser,      \* the users that have a row in the table
    Malformed,      \* requests without a proper key, without items or with a
                    \* repeated productId
    UserOf,         \* the user of a request
    KeyOf,          \* the idempotency key of a request
    Qty,            \* the quantity of each product a request asks for
    InitStock,      \* the stock of each product before any order
    MaxFaults       \* bound: failures of the database or the process

ASSUME PlacementAssumption ==
    /\ IsFiniteSet(Request)
    /\ Catalog \subseteq Product
    /\ Qty \in [Request -> [Product -> Nat]]
    /\ InitStock \in [Product -> Nat]
    /\ NoConn \notin Conn
    /\ NoRequest \notin Request
    /\ MaxFaults \in Nat

VARIABLES
    pc,         \* the next statement of each request
    outcome,    \* the error in flight, or the answer, of each request
    held,       \* the pool connection of the request's query runner
    connTx,     \* the server's transaction status of each connection
    lockOwner,  \* who holds the row lock of each product
    seen,       \* the stock SELECT ... FOR NO KEY UPDATE returned
    written,    \* rows inserted by the open transaction
    taken,      \* products the open transaction decremented
    stock,      \* committed products.stock
    rows,       \* committed rows: <<r, part>> for the order of request r
    faults      \* failures so far

vars == <<pc, outcome, held, connTx, lockOwner, seen, written, taken, stock,
          rows, faults>>
-----------------------------------------------------------------------------
(* The rows that one order is made of: the order, its items, its totals    *)
(* (the UPDATE of the order row) and its two outbox events.                *)
Part == {"order", "items", "totals", "process_requested", "placed"}

Statement == {"user", "existing", "lock", "order", "items", "stock", "totals",
              "process_requested", "placed", "commit"}

Label == Statement \cup {"new", "connect", "begin", "reread", "authorize",
                         "catch", "release", "done"}

(* OrderResponseInterceptor: 201 for a new order, 200 for one that was      *)
(* there; the rest are the statuses of exceptions.                         *)
Answer == {"created", "existing", "400", "409", "500", "503", "504"}

Outcome == Answer \cup {"none", "coded", "timeout", "lost"}

Items(r) == {p \in Product : Qty[r][p] > 0}

Idle == Conn \ {held[r] : r \in Request}

(* The (user_id, idempotency_key) pair of the unique constraint.           *)
SameKeyAnyUser(q, r) == KeyOf[q] = KeyOf[r]
SameKey(q, r) == UserOf[q] = UserOf[r] /\ KeyOf[q] = KeyOf[r]

Ordered == {r \in Request : <<r, "order">> \in rows}

(* Locks, buffered writes and read values go when a transaction ends.      *)
DropTx(r) ==
    /\ lockOwner' = [p \in Product |->
                        IF lockOwner[p] = r THEN NoRequest ELSE lockOwner[p]]
    /\ seen' = [seen EXCEPT ![r] = [p \in Product |-> 0]]
    /\ written' = [written EXCEPT ![r] = {}]
    /\ taken' = [taken EXCEPT ![r] = {}]

KeepTx == UNCHANGED <<lockOwner, seen, written, taken>>

Goto(r, l) == pc' = [pc EXCEPT ![r] = l]

(* An exception inside the try block: what the catch block will see.       *)
Throw(r, o) == Goto(r, "catch") /\ outcome' = [outcome EXCEPT ![r] = o]

(* A rejected statement: the server aborts the transaction and frees its   *)
(* locks; only ROLLBACK takes the connection out of the aborted status.    *)
Abort(r) ==
    /\ connTx' = [connTx EXCEPT ![held[r]] = "aborted"]
    /\ DropTx(r)
    /\ Throw(r, "coded")
-----------------------------------------------------------------------------
Init ==
    /\ pc = [r \in Request |-> "new"]
    /\ outcome = [r \in Request |-> "none"]
    /\ held = [r \in Request |-> NoConn]
    /\ connTx = [c \in Conn |-> "none"]
    /\ lockOwner = [p \in Product |-> NoRequest]
    /\ seen = [r \in Request |-> [p \in Product |-> 0]]
    /\ written = [r \in Request |-> {}]
    /\ taken = [r \in Request |-> {}]
    /\ stock = InitStock
    /\ rows = {}
    /\ faults = 0

(* IdempotencyKey: the header is a UUID of version 4; and the items of the *)
(* DTO are there, each product once.                                       *)
WellFormed(r) == r \notin Malformed

(* A malformed request is refused before any I/O (lines 78-87).            *)
Validate(r) ==
    /\ pc[r] = "new"
    /\ \/ /\ ~WellFormed(r)
          /\ Goto(r, "done")
          /\ outcome' = [outcome EXCEPT ![r] = "400"]
       \/ /\ WellFormed(r)
          /\ Goto(r, "connect")
          /\ UNCHANGED outcome
    /\ KeepTx
    /\ UNCHANGED <<held, connTx, stock, rows, faults>>

(* qr.connect(): waits until the pool has a connection to give.            *)
Connect(r) ==
    /\ pc[r] = "connect"
    /\ \E c \in Idle : held' = [held EXCEPT ![r] = c]
    /\ Goto(r, "begin")
    /\ KeepTx
    /\ UNCHANGED <<outcome, connTx, stock, rows, faults>>

(* qr.startTransaction(), outside the try block: on a connection whose     *)
(* transaction is aborted the server refuses it, and the exception leaves  *)
(* create() without passing the finally block.                             *)
StartTransaction(r) ==
    /\ pc[r] = "begin"
    /\ \/ /\ connTx[held[r]] = "none"
          /\ connTx' = [connTx EXCEPT ![held[r]] = "open"]
          /\ Goto(r, "user")
          /\ UNCHANGED outcome
       \/ /\ connTx[held[r]] = "aborted"
          /\ Goto(r, "done")
          /\ outcome' = [outcome EXCEPT ![r] = "500"]
          /\ UNCHANGED connTx
    /\ KeepTx
    /\ UNCHANGED <<held, stock, rows, faults>>

CheckUser(r) ==
    /\ pc[r] = "user"
    /\ \/ UserOf[r] \in KnownUser /\ Goto(r, "existing") /\ UNCHANGED outcome
       \/ UserOf[r] \notin KnownUser /\ Throw(r, "400")
    /\ KeepTx
    /\ UNCHANGED <<held, connTx, stock, rows, faults>>

(* Lines 104-114: a committed order of the same user and key ends the      *)
(* transaction with a rollback and is returned.                            *)
FindExisting(r) ==
    /\ pc[r] = "existing"
    /\ \/ /\ \E q \in Ordered : SameKey(q, r)
          /\ Goto(r, "release")
          /\ outcome' = [outcome EXCEPT ![r] = "existing"]
          /\ connTx' = [connTx EXCEPT ![held[r]] = "none"]
          /\ DropTx(r)
       \/ /\ \A q \in Ordered : ~SameKey(q, r)
          /\ Goto(r, "lock")
          /\ KeepTx
          /\ UNCHANGED <<outcome, connTx>>
    /\ UNCHANGED <<held, stock, rows, faults>>

(* The row is read, whoever holds its lock.                                *)
LockProductWithoutWaiting(r, p) ==
    /\ pc[r] = "lock"
    /\ p \in Items(r) \cap Catalog
    /\ lockOwner[p] # r
    /\ lockOwner' = [lockOwner EXCEPT ![p] = r]
    /\ seen' = [seen EXCEPT ![r][p] = stock[p]]
    /\ UNCHANGED <<pc, outcome, held, connTx, written, taken, stock, rows,
                   faults>>

(* Lines 117-126: SELECT ... FOR NO KEY UPDATE locks the rows one after    *)
(* the other, in no stated order, and returns their committed value.       *)
LockProduct(r, p) ==
    /\ pc[r] = "lock"
    /\ p \in Items(r) \cap Catalog
    /\ lockOwner[p] = NoRequest
    /\ lockOwner' = [lockOwner EXCEPT ![p] = r]
    /\ seen' = [seen EXCEPT ![r][p] = stock[p]]
    /\ UNCHANGED <<pc, outcome, held, connTx, written, taken, stock, rows,
                   faults>>

(* A check that keeps the last unit back.                                  *)
CheckStockBelow(r) ==
    /\ pc[r] = "lock"
    /\ \A p \in Items(r) \cap Catalog : lockOwner[p] = r
    /\ \/ ~(Items(r) \subseteq Catalog) /\ Throw(r, "400")
       \/ /\ Items(r) \subseteq Catalog
          /\ \E p \in Items(r) : seen[r][p] <= Qty[r][p]
          /\ Throw(r, "409")
       \/ /\ Items(r) \subseteq Catalog
          /\ \A p \in Items(r) : seen[r][p] > Qty[r][p]
          /\ Goto(r, "order")
          /\ UNCHANGED outcome
    /\ KeepTx
    /\ UNCHANGED <<held, connTx, stock, rows, faults>>

(* Lines 128-144: every row is locked; a product without a row is 400, a   *)
(* stock smaller than the quantity 409.                                    *)
CheckStock(r) ==
    /\ pc[r] = "lock"
    /\ \A p \in Items(r) \cap Catalog : lockOwner[p] = r
    /\ \/ ~(Items(r) \subseteq Catalog) /\ Throw(r, "400")
       \/ /\ Items(r) \subseteq Catalog
          /\ \E p \in Items(r) : seen[r][p] < Qty[r][p]
          /\ Throw(r, "409")
       \/ /\ Items(r) \subseteq Catalog
          /\ \A p \in Items(r) : seen[r][p] >= Qty[r][p]
          /\ Goto(r, "order")
          /\ UNCHANGED outcome
    /\ KeepTx
    /\ UNCHANGED <<held, connTx, stock, rows, faults>>

(* The table without the unique constraint of (user_id, idempotency_key).  *)
InsertOrderUnconstrained(r) ==
    /\ pc[r] = "order"
    /\ written' = [written EXCEPT ![r] = @ \cup {"order"}]
    /\ Goto(r, "items")
    /\ UNCHANGED <<outcome, connTx, lockOwner, seen, taken, held, stock, rows,
                   faults>>

(* Lines 147-153.  The unique index makes the INSERT wait for an open      *)
(* transaction that inserted the same pair, and fail with 23505 when the   *)
(* pair is committed.                                                      *)
InsertOrder(r) ==
    /\ pc[r] = "order"
    /\ \A q \in Request \ {r} : SameKey(q, r) => "order" \notin written[q]
    /\ \/ /\ \E q \in Ordered : SameKey(q, r)
          /\ Abort(r)
       \/ /\ \A q \in Ordered : ~SameKey(q, r)
          /\ written' = [written EXCEPT ![r] = @ \cup {"order"}]
          /\ Goto(r, "items")
          /\ UNCHANGED <<outcome, connTx, lockOwner, seen, taken>>
    /\ UNCHANGED <<held, stock, rows, faults>>

(* Lines 170-185, one UPDATE per item.  The driver answers [rows, count]   *)
(* to an UPDATE, so the test of its length never sees "no row": an item    *)
(* whose WHERE clause does not hold is passed over.                        *)
DecrementStock(r) ==
    /\ pc[r] = "stock"
    /\ \A p \in Items(r) : lockOwner[p] \in {r, NoRequest}
    /\ lockOwner' = [p \in Product |->
                        IF p \in Items(r) THEN r ELSE lockOwner[p]]
    /\ taken' = [taken EXCEPT
                    ![r] = {p \in Items(r) : stock[p] >= Qty[r][p]}]
    /\ Goto(r, "totals")
    /\ UNCHANGED <<outcome, held, connTx, seen, written, stock, rows, faults>>

(* The statements that only add rows of the open transaction: the items    *)
(* (155-167), the totals (188-228) and the two outbox events (232-267).    *)
After == [items |-> "stock", totals |-> "process_requested",
          process_requested |-> "placed", placed |-> "commit"]

(* The outbox rows written on another connection, by an autocommit.        *)
WriteRowsOutsideTx(r) ==
    /\ pc[r] \in DOMAIN After
    /\ rows' = rows \cup (IF pc[r] = "process_requested"
                          THEN {<<r, pc[r]>>} ELSE {})
    /\ written' = [written EXCEPT
                      ![r] = @ \cup ({pc[r]} \ {"process_requested"})]
    /\ Goto(r, After[pc[r]])
    /\ UNCHANGED <<outcome, held, connTx, lockOwner, seen, taken, stock,
                   faults>>

WriteRows(r) ==
    /\ pc[r] \in DOMAIN After
    /\ written' = [written EXCEPT ![r] = @ \cup {pc[r]}]
    /\ Goto(r, After[pc[r]])
    /\ UNCHANGED <<outcome, held, connTx, lockOwner, seen, taken, stock, rows,
                   faults>>

(* COMMIT on the server: everything the transaction wrote becomes visible. *)
Publish(r) ==
    /\ stock' = [p \in Product |-> IF p \in taken[r] THEN stock[p] - Qty[r][p]
                                                     ELSE stock[p]]
    /\ rows' = rows \cup ({r} \X written[r])
    /\ connTx' = [connTx EXCEPT ![held[r]] = "none"]
    /\ DropTx(r)

Commit(r) ==
    /\ pc[r] = "commit"
    /\ Publish(r)
    /\ Goto(r, "reread")
    /\ UNCHANGED <<outcome, held, faults>>

(* Line 271: ordersRepository reads through a second connection while the  *)
(* query runner still holds the first; an aborted connection refuses.      *)
Reread(r) ==
    /\ pc[r] = "reread"
    /\ \E c \in Idle :
          \/ connTx[c] = "none" /\ Goto(r, "authorize") /\ UNCHANGED outcome
          \/ connTx[c] = "aborted" /\ Throw(r, "coded")
    /\ KeepTx
    /\ UNCHANGED <<held, connTx, stock, rows, faults>>

(* Lines 281-300: the gRPC call answers, times out or fails with a code.   *)
Authorize(r) ==
    /\ pc[r] = "authorize"
    /\ \/ /\ Goto(r, "release")
          /\ outcome' = [outcome EXCEPT ![r] = "created"]
       \/ \E o \in {"timeout", "coded"} : Throw(r, o)
    /\ KeepTx
    /\ UNCHANGED <<held, connTx, stock, rows, faults>>

(* What the client is told of an exception (lines 304-309 and 323).        *)
AnswerTo(o) == CASE o = "timeout" -> "504"
                 [] o = "coded"   -> "503"
                 [] OTHER         -> o

(* A catch block that forgets the rollback of lines 310-312.               *)
CatchWithoutRollback(r) ==
    /\ pc[r] = "catch"
    /\ outcome' = [outcome EXCEPT ![r] = AnswerTo(@)]
    /\ Goto(r, "release")
    /\ KeepTx
    /\ UNCHANGED <<connTx, held, stock, rows, faults>>

(* Lines 302-323: a timeout or an error with a `code' property is answered *)
(* before the rollback is reached; every other error rolls back.           *)
Catch(r) ==
    /\ pc[r] = "catch"
    /\ outcome' = [outcome EXCEPT ![r] = AnswerTo(@)]
    /\ \/ /\ outcome[r] \in {"timeout", "coded"}
          /\ KeepTx
          /\ UNCHANGED connTx
       \/ /\ outcome[r] \notin {"timeout", "coded"}
          /\ connTx' = [connTx EXCEPT ![held[r]] = "none"]
          /\ DropTx(r)
    /\ Goto(r, "release")
    /\ UNCHANGED <<held, stock, rows, faults>>

(* qr.release() in the finally block: the connection goes back to the pool *)
(* in the state it is in.                                                  *)
Release(r) ==
    /\ pc[r] = "release"
    /\ held' = [held EXCEPT ![r] = NoConn]
    /\ Goto(r, "done")
    /\ KeepTx
    /\ UNCHANGED <<outcome, connTx, stock, rows, faults>>
-----------------------------------------------------------------------------
(* The database and the process.                                           *)

Fail == faults < MaxFaults /\ faults' = faults + 1

(* A statement is refused (numeric overflow of the totals, a statement     *)
(* timeout): such errors carry an SQLSTATE in `code'.                      *)
StatementFails(r) ==
    /\ Fail
    /\ pc[r] \in Statement
    /\ Abort(r)
    /\ UNCHANGED <<held, stock, rows>>

(* The connection breaks: the server rolls back, the pool replaces it.     *)
(* Some of these errors have a code, some do not.                          *)
ConnectionLost(r) ==
    /\ Fail
    /\ pc[r] \in Statement
    /\ connTx' = [connTx EXCEPT ![held[r]] = "none"]
    /\ DropTx(r)
    /\ \E o \in {"500", "coded"} : Throw(r, o)
    /\ UNCHANGED <<held, stock, rows>>

(* It breaks after the server committed and before the handler heard of it.*)
CommitUnacknowledged(r) ==
    /\ Fail
    /\ pc[r] = "commit"
    /\ Publish(r)
    /\ \E o \in {"500", "coded"} : Throw(r, o)
    /\ UNCHANGED held

(* Rows are locked in no stated order, so transactions can wait for each   *)
(* other; the server then aborts one of them (40P01).                      *)
DeadlockVictim(r) ==
    /\ \E W \in SUBSET Request :
          /\ r \in W
          /\ \A q \in W :
                /\ pc[q] = "lock"
                /\ \E p \in Items(q) \cap Catalog : lockOwner[p] \in W \ {q}
    /\ Abort(r)
    /\ UNCHANGED <<held, stock, rows, faults>>

(* The pool closes a connection that stayed idle; the next user gets a new *)
(* one.                                                                    *)
CloseIdle(c) ==
    /\ c \in Idle
    /\ connTx[c] = "aborted"
    /\ connTx' = [connTx EXCEPT ![c] = "none"]
    /\ KeepTx
    /\ UNCHANGED <<pc, outcome, held, stock, rows, faults>>

(* The API process dies: its sockets close and the server rolls back every *)
(* transaction; the requests in flight get no answer.                      *)
Crash ==
    /\ Fail
    /\ \E r \in Request : pc[r] # "done"
    /\ pc' = [r \in Request |-> IF pc[r] = "new" THEN "new" ELSE "done"]
    /\ outcome' = [r \in Request |->
                      IF pc[r] \in {"new", "done"} THEN outcome[r] ELSE "lost"]
    /\ held' = [r \in Request |-> NoConn]
    /\ connTx' = [c \in Conn |-> "none"]
    /\ lockOwner' = [p \in Product |-> NoRequest]
    /\ seen' = [r \in Request |-> [p \in Product |-> 0]]
    /\ written' = [r \in Request |-> {}]
    /\ taken' = [r \in Request |-> {}]
    /\ UNCHANGED <<stock, rows>>
-----------------------------------------------------------------------------
Advance(r) ==
    \/ Validate(r) \/ Connect(r) \/ StartTransaction(r) \/ CheckUser(r)
    \/ FindExisting(r) \/ CheckStock(r) \/ InsertOrder(r) \/ DecrementStock(r)
    \/ WriteRows(r) \/ Commit(r) \/ Reread(r) \/ Authorize(r) \/ Catch(r)
    \/ Release(r) \/ DeadlockVictim(r)
    \/ \E p \in Product : LockProduct(r, p)

Disturb(r) == StatementFails(r) \/ ConnectionLost(r) \/ CommitUnacknowledged(r)

Finished == \A r \in Request : pc[r] = "done"

(* Nothing is left to do: not a deadlock.                                  *)
Terminating == Finished /\ UNCHANGED vars

Next ==
    \/ \E r \in Request : Advance(r) \/ Disturb(r)
    \/ \E c \in Conn : CloseIdle(c)
    \/ Crash
    \/ Terminating

Spec == Init /\ [][Next]_vars

(* Node runs every continuation that is ready, Postgres grants a free lock *)
(* and detects deadlocks, and the gRPC call is bounded by its timeout.     *)
(* Nothing is assumed of failures or of the pool's idle timer.             *)
FairSpec == Spec /\ \A r \in Request : WF_vars(Advance(r))
-----------------------------------------------------------------------------
(* The labels at which the server has a transaction open for the request.  *)
InTx(r) == pc[r] \in Statement \/ (pc[r] = "catch" /\ outcome[r] \in {"400", "409"})

(* Every variable holds a value of its type; products.stock never becomes  *)
(* negative (the CHECK constraint of the table is never what stops it).    *)
TypeOK ==
    /\ pc \in [Request -> Label]
    /\ outcome \in [Request -> Outcome]
    /\ held \in [Request -> Conn \cup {NoConn}]
    /\ connTx \in [Conn -> {"none", "open", "aborted"}]
    /\ lockOwner \in [Product -> Request \cup {NoRequest}]
    /\ seen \in [Request -> [Product -> Nat]]
    /\ written \in [Request -> SUBSET Part]
    /\ taken \in [Request -> SUBSET Product]
    /\ stock \in [Product -> Nat]
    /\ rows \subseteq Request \X Part
    /\ faults \in 0..MaxFaults

(* The units of a product that the committed orders sold.                  *)
UnitsSold(p) == UNION {{r} \X (1..Qty[r][p]) : r \in Ordered}

(* No oversell and no lost or doubled decrement: for every product, what   *)
(* is left plus what the committed orders sold is the initial stock.  This *)
(* is the oversell protection of lines 117-144 and 170-185.                *)
StockConserved ==
    \A p \in Product : stock[p] + Cardinality(UnitsSold(p)) = InitStock[p]

(* Concurrent submissions of one key of one user make at most one order    *)
(* (the lookup of line 104 and the unique constraint behind it).           *)
OneOrderPerKey ==
    \A q, r \in Ordered :
        UserOf[q] = UserOf[r] /\ KeyOf[q] = KeyOf[r] => q = r

(* An order is never without its items, its totals or one of its outbox    *)
(* events, and none of these exists without the order, whatever fails      *)
(* between the statements of lines 147-269.                                *)
AllOrNothing ==
    \A r \in Request : {part \in Part : <<r, part>> \in rows} \in {{}, Part}

(* A product row is locked only for a request that is inside its           *)
(* transaction, and no connection lies in the pool with a transaction open:*)
(* no product stays locked by a request that has gone.                     *)
NoStaleLock ==
    /\ \A p \in Product, r \in Request : lockOwner[p] = r => InTx(r)
    /\ \A c \in Idle : connTx[c] # "open"

(* What the client is told is true: "created" and 504 mean the order       *)
(* exists, "existing" that this user had an order with this key, and a     *)
(* refusal (400, 409) that nothing was written.                            *)
AnswersAreTrue ==
    \A r \in Request : pc[r] = "done" =>
        /\ outcome[r] \in {"created", "504"} => r \in Ordered
        /\ outcome[r] = "existing" =>
              \E q \in Ordered \ {r} :
                  UserOf[q] = UserOf[r] /\ KeyOf[q] = KeyOf[r]
        /\ outcome[r] \in {"400", "409", "existing"} => r \notin Ordered

(* Every request is answered, also when transactions wait for each other:  *)
(* needs a pool with a connection to spare for the read of line 271.       *)
EveryRequestAnswered == \A r \in Request : <>(pc[r] = "done")

(* What a request has been told, once it is answered.                      *)
toldOf == [r \in Request |->
              IF pc[r] = "done" /\ outcome[r] \in Answer THEN outcome[r] ELSE "none"]

Book == INSTANCE OrderBook WITH placed <- Ordered, told <- toldOf

(* All of create, transactions, locks, errors and crashes included, amounts*)
(* to a book in which an order is placed in one step that finds enough     *)
(* stock and a new key; 400, 409 and "existing" are given for what they    *)
(* say; and nothing is placed for a request after its answer.              *)
KeepsBook == Book!BookSpec
-----------------------------------------------------------------------------

(* homework05.md: "release() is always called in finally": whoever takes a *)
(* connection gives it back.                                               *)
ConnectionComesBack ==
    \A r \in Request : held[r] # NoConn ~> held[r] = NoConn
-----------------------------------------------------------------------------
(* The inductive invariant behind the theorems of OrderPlacementProofs.    *)

(* The rows an open transaction has inserted when it is about to run the   *)
(* statement l.                                                            *)
WrittenAt(l) ==
    CASE l = "items"             -> {"order"}
      [] l \in {"stock", "totals"} -> {"order", "items"}
      [] l = "process_requested" -> {"order", "items", "totals"}
      [] l = "placed" -> {"order", "items", "totals", "process_requested"}
      [] l = "commit"            -> Part
      [] OTHER                   -> {}

Decremented == {"totals", "process_requested", "placed", "commit"}
Checked == {"order", "items", "stock"} \cup Decremented
BeforeTry == {"new", "connect", "begin"}
Committed == {"reread", "authorize"}

(* A connection with an open transaction is held by the request whose      *)
(* transaction it is.                                                      *)
OpenIsHeld ==
    \A c \in Conn : connTx[c] = "open" =>
        \E r \in Request : held[r] = c /\ InTx(r)

HolderHasConn(r) ==
    pc[r] \notin {"new", "connect", "done"} => held[r] \in Conn

(* A locked row still has the stock its transaction read.                  *)
LocksProtect(r) ==
    \A p \in Product : lockOwner[p] = r => InTx(r) /\ seen[r][p] = stock[p]

(* Past the stock check a request holds every row and has enough of each.  *)
CheckedHoldsAll(r) ==
    pc[r] \in Checked =>
        \A p \in Items(r) : lockOwner[p] = r /\ seen[r][p] >= Qty[r][p]

(* What the open transaction wrote is determined by how far it came.       *)
Progress(r) ==
    /\ written[r] = WrittenAt(pc[r])
    /\ taken[r] = IF pc[r] \in Decremented THEN Items(r) ELSE {}
    /\ pc[r] \in BeforeTry \cup Statement \cup Committed => outcome[r] = "none"

(* An order exists with all of its rows, after the commit only.            *)
CommittedWhole(r) ==
    /\ r \in Ordered => /\ \A part \in Part : <<r, part>> \in rows
                        /\ pc[r] \notin BeforeTry \cup Statement
    /\ r \notin Ordered => \A part \in Part : <<r, part>> \notin rows
    /\ pc[r] \in Committed => r \in Ordered

OutcomeTrue(r) ==
    /\ outcome[r] \in {"created", "timeout", "504"} => r \in Ordered
    /\ outcome[r] \in {"400", "409", "existing"} => r \notin Ordered
    /\ outcome[r] = "existing" => \E q \in Ordered \ {r} : SameKey(q, r)

RequestInv(r) ==
    /\ HolderHasConn(r)
    /\ LocksProtect(r)
    /\ CheckedHoldsAll(r)
    /\ Progress(r)
    /\ CommittedWhole(r)
    /\ OutcomeTrue(r)

(* The unique index, over committed and open inserts.                      *)
HasOrder(r) == r \in Ordered \/ "order" \in written[r]
KeyIsUnique ==
    \A q, r \in Request :
        HasOrder(q) /\ HasOrder(r) /\ SameKey(q, r) => q = r

Conservation ==
    \A p \in Product :
        /\ IsFiniteSet(UnitsSold(p))
        /\ stock[p] + Cardinality(UnitsSold(p)) = InitStock[p]

(* What a request has passed on its way, and why it is refused: the stock  *)
(* that was too small when it was read has not grown since.                *)
Admitted(r) ==
    /\ pc[r] \notin {"new", "done"} => WellFormed(r)
    /\ pc[r] \in Statement \ {"user"} => UserOf[r] \in KnownUser
    /\ pc[r] \in Checked => Items(r) \subseteq Catalog
    /\ outcome[r] = "400" => ~Book!Proper(r)
    /\ outcome[r] = "409" => ~Book!Covered(r)

BookInv == \A r \in Request : Admitted(r)

(* Everything at once: true initially and kept by every step.              *)
IInv ==
    /\ TypeOK
    /\ OpenIsHeld
    /\ \A r \in Request : RequestInv(r)
    /\ KeyIsUnique
    /\ Conservation
=============================================================================
