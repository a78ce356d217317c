--------------------------- MODULE PaymentService ---------------------------
(***************************************************************************)
(* The payments process (src/payment-service): the gRPC calls Authorize,   *)
(* Capture, Refund and GetPaymentStatus, served at once from one table.    *)
(*                                                                         *)
(* Each of the first three is a READ COMMITTED transaction that reads the  *)
(* payment without a lock, decides, and writes.  A payment is identified   *)
(* with its (order_id, idempotency_key), which the table keeps unique.     *)
(***************************************************************************)
EXTENDS Naturals, FiniteSets

CONSTANTS
    Call,           \* gRPC calls
    Payment,        \* (order_id, idempotency_key) pairs
    Operation,      \* the RPCs the callers use
    MaxFaults       \* bound: failed statements

ASSUME ServiceAssumption ==
    /\ IsFiniteSet(Call)
    /\ Operation \subseteq {"authorize", "capture", "refund", "status"}
    /\ MaxFaults \in Nat

VARIABLES
    status,     \* committed status column of each payment; "absent": no row
    paidAt,     \* its paid_at column is set
    pc,         \* the next step of each call
    op,         \* its RPC
    payment,    \* the payment its request names
    result,     \* its answer
    faults      \* failures so far

vars == <<status, paidAt, pc, op, payment, result, faults>>
table == <<status, paidAt>>
request == <<op, payment>>
-----------------------------------------------------------------------------
(* EPaymentStatus; only the seeds write UNPAID, and nothing writes FAILED. *)
DbStatus == {"absent", "UNPAID", "PENDING", "PAID", "REFUNDED"}

Result == {"none", "ok", "already", "invalid", "error"}

(* The status from which an RPC goes on to write, and the one it writes    *)
(* (toProtoStatus and toDbStatus: AUTHORIZED is PENDING, CAPTURED is PAID).*)
From == [authorize |-> "absent", capture |-> "PENDING", refund |-> "PAID"]

To == [authorize |-> "PENDING", capture |-> "PAID", refund |-> "REFUNDED"]

(* The status an RPC answers with success without writing anything.        *)
AlreadyDone(o, s) ==
    \/ o \in {"authorize", "status"} /\ s # "absent"
    \/ o \in {"capture", "refund"} /\ s = To[o]

Writes(o) == o \in DOMAIN From

Answer(c, r) ==
    /\ pc' = [pc EXCEPT ![c] = "done"]
    /\ result' = [result EXCEPT ![c] = r]

(* Earlier calls have left each payment somewhere on its way.              *)
Init ==
    /\ status \in [Payment -> DbStatus]
    /\ paidAt = [p \in Payment |-> status[p] \in {"PAID", "REFUNDED"}]
    /\ pc = [c \in Call |-> "new"]
    /\ op \in [Call -> Operation]
    /\ payment \in [Call -> Payment]
    /\ result = [c \in Call |-> "none"]
    /\ faults = 0

(* validateAuthorizeRequest and the tests for an empty payment id refuse a *)
(* request before any I/O; connect and startTransaction follow.            *)
Receive(c) ==
    /\ pc[c] = "new"
    /\ \/ Answer(c, "invalid")
       \/ pc' = [pc EXCEPT ![c] = "read"] /\ UNCHANGED result
    /\ UNCHANGED <<table, request, faults>>

(* A refund that accepts every payment that is not refunded yet.           *)
ReadUnchecked(c) ==
    /\ pc[c] = "read"
    /\ LET s == status[payment[c]] IN
          \/ /\ ~AlreadyDone(op[c], s)
             /\ Writes(op[c])
             /\ pc' = [pc EXCEPT ![c] = "write"]
             /\ UNCHANGED result
          \/ AlreadyDone(op[c], s) /\ Answer(c, "already")
    /\ UNCHANGED <<table, request, faults>>

(* findOne and the decisions after it (lines 35-49, 95-107, 123-147,       *)
(* 185-209).  What ends here has written nothing, whether it commits or    *)
(* rolls back.                                                             *)
Read(c) ==
    /\ pc[c] = "read"
    /\ LET s == status[payment[c]] IN
          \/ /\ Writes(op[c])
             /\ s = From[op[c]]
             /\ pc' = [pc EXCEPT ![c] = "write"]
             /\ UNCHANGED result
          \/ AlreadyDone(op[c], s) /\ Answer(c, "already")
          \/ /\ ~AlreadyDone(op[c], s)
             /\ Writes(op[c]) => s # From[op[c]]
             /\ Answer(c, "error")
    /\ UNCHANGED <<table, request, faults>>

(* save() as an upsert: a row of the same pair is overwritten.             *)
WriteUpsert(c) ==
    /\ pc[c] = "write"
    /\ \A d \in Call : pc[d] = "commit" => payment[d] # payment[c]
    /\ pc' = [pc EXCEPT ![c] = "commit"]
    /\ UNCHANGED <<result, table, request, faults>>

(* The INSERT or UPDATE: it waits for a transaction that has written the   *)
(* row and not ended.  The INSERT then meets the unique constraint; the    *)
(* UPDATE names the payment by its id only, and applies to whatever status *)
(* the row has by now.                                                     *)
Write(c) ==
    /\ pc[c] = "write"
    /\ \A d \in Call : pc[d] = "commit" => payment[d] # payment[c]
    /\ \/ /\ op[c] = "authorize"
          /\ status[payment[c]] # "absent"
          /\ Answer(c, "error")
       \/ /\ op[c] = "authorize" => status[payment[c]] = "absent"
          /\ pc' = [pc EXCEPT ![c] = "commit"]
          /\ UNCHANGED result
    /\ UNCHANGED <<table, request, faults>>

(* COMMIT on the server.                                                   *)
Publish(c) ==
    /\ status' = [status EXCEPT ![payment[c]] = To[op[c]]]
    /\ paidAt' = [paidAt EXCEPT ![payment[c]] = @ \/ op[c] = "capture"]

Commit(c) ==
    /\ pc[c] = "commit"
    /\ Publish(c)
    /\ Answer(c, "ok")
    /\ UNCHANGED <<request, faults>>

(* A statement or the connection fails; the catch block rolls back, the    *)
(* finally block releases.  COMMIT may have taken effect all the same.     *)
Fails(c) ==
    /\ faults < MaxFaults
    /\ faults' = faults + 1
    /\ pc[c] \in {"read", "write", "commit"}
    /\ \/ UNCHANGED table
       \/ pc[c] = "commit" /\ Publish(c)
    /\ Answer(c, "error")
    /\ UNCHANGED request

Advance(c) == Receive(c) \/ Read(c) \/ Write(c) \/ Commit(c)

Terminating == (\A c \in Call : pc[c] = "done") /\ UNCHANGED vars

Next == (\E c \in Call : Advance(c) \/ Fails(c)) \/ Terminating

Spec == Init /\ [][Next]_vars
-----------------------------------------------------------------------------
(* Every variable holds a value of its type.                               *)
TypeOK ==
    /\ status \in [Payment -> DbStatus]
    /\ paidAt \in [Payment -> BOOLEAN]
    /\ pc \in [Call -> {"new", "read", "write", "commit", "done"}]
    /\ op \in [Call -> Operation]
    /\ payment \in [Call -> Payment]
    /\ result \in [Call -> Result]
    /\ faults \in 0..MaxFaults

(* However calls overlap, a payment is captured before it is refunded:     *)
(* paid_at is set exactly in the two statuses that need it.                *)
PaidBeforeRefunded ==
    \A p \in Payment : paidAt[p] <=> status[p] \in {"PAID", "REFUNDED"}

(* A success answer is true, also of a call that raced with others: the    *)
(* payment exists, was captured, or was captured and has left AUTHORIZED.  *)
SuccessIsTrue ==
    \A c \in Call : result[c] \in {"ok", "already"} =>
        /\ status[payment[c]] # "absent"
        /\ op[c] \in {"capture", "refund"} => paidAt[payment[c]]

(* No step forgets a payment, and none takes it back to AUTHORIZED, from   *)
(* where it could be captured again.                                       *)
NeverAuthorizedAgain ==
    [][\A p \in Payment :
          status[p] # "absent" => status'[p] \in {status[p], "PAID", "REFUNDED"}]_vars

-----------------------------------------------------------------------------
-----------------------------------------------------------------------------
(* The inductive invariant behind the theorems of PaymentServiceProofs.    *)

(* The row lock: one transaction at a time has written a payment.          *)
OneWriter ==
    \A c, d \in Call :
        pc[c] = "commit" /\ pc[d] = "commit" /\ payment[c] = payment[d] => c = d

(* What a call decided on may have changed since it read it, but never so  *)
(* far that its write makes a payment of nothing or refunds what was not   *)
(* captured.                                                               *)
DecisionHolds(c) ==
    LET p == payment[c] IN
    /\ pc[c] \in {"write", "commit"} =>
          /\ Writes(op[c])
          /\ op[c] \in {"capture", "refund"} => status[p] # "absent"
          /\ op[c] = "refund" => paidAt[p]
    /\ pc[c] = "commit" /\ op[c] = "authorize" => status[p] = "absent"

(* Everything at once: true initially and kept by every step.              *)
IInv ==
    /\ TypeOK
    /\ OneWriter
    /\ \A c \in Call : DecisionHolds(c)
    /\ PaidBeforeRefunded
    /\ SuccessIsTrue
=============================================================================
