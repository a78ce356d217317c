------------------------- MODULE PaymentSagaProofs -------------------------
(* Proofs about PaymentService, and then about PaymentSaga, for any calls, *)
(* orders, keys, users and requests and any bound on the failures.         *)
EXTENDS PaymentSaga, TLAPS

(* The payments service on its own.                                       *)

(* The tables of the RPCs, line by line.                                   *)
LEMMA Tables ==
  /\ DOMAIN From = {"authorize", "capture", "refund"}
  /\ From["authorize"] = "absent"
  /\ From["capture"] = "PENDING"
  /\ From["refund"] = "PAID"
  /\ To["authorize"] = "PENDING"
  /\ To["capture"] = "PAID"
  /\ To["refund"] = "REFUNDED"
BY DEF From, To

LEMMA InitIInv == Init => IInv
<1> SUFFICES ASSUME Init PROVE IInv
  OBVIOUS
<1>1. TypeOK
  BY ServiceAssumption DEF Init, TypeOK, DbStatus, Result
<1>2. OneWriter /\ \A c \in Call : DecisionHolds(c)
  BY DEF Init, OneWriter, DecisionHolds
<1>3. PaidBeforeRefunded /\ SuccessIsTrue
  BY DEF Init, PaidBeforeRefunded, SuccessIsTrue
<1>. QED
  BY <1>1, <1>2, <1>3 DEF IInv

(* A call that reaches COMMIT: its write keeps paid_at and the status in   *)
(* agreement, and never takes a payment back.                              *)
LEMMA PublishStep ==
  ASSUME IInv, NEW c \in Call, pc[c] = "commit", Publish(c),
         NEW r \in {"ok", "error"}, Answer(c, r), UNCHANGED request,
         faults' \in 0..MaxFaults
  PROVE  /\ IInv'
         /\ \A p \in Payment : status[p] # "absent" =>
               status'[p] \in {status[p], "PAID", "REFUNDED"}
<1> DEFINE q == payment[c]
<1> USE DEF Publish, Answer, request
<1>1. /\ TypeOK
      /\ q \in Payment
      /\ op[c] \in {"authorize", "capture", "refund"}
      /\ DecisionHolds(c)
  BY Tables DEF IInv, TypeOK, DecisionHolds, Writes
<1>2. /\ status'[q] = To[op[c]]
      /\ paidAt'[q] = (paidAt[q] \/ op[c] = "capture")
      /\ \A p \in Payment \ {q} : status'[p] = status[p] /\ paidAt'[p] = paidAt[p]
  BY <1>1 DEF TypeOK
<1>3. status'[q] \in {"PENDING", "PAID", "REFUNDED"}
  BY <1>1, <1>2, Tables
<1>4. TypeOK'
  <2>1. status' \in [Payment -> DbStatus]
    BY <1>1, <1>3, <1>2 DEF TypeOK, DbStatus
  <2>2. paidAt' \in [Payment -> BOOLEAN]
    BY <1>1 DEF TypeOK
  <2>3. /\ pc' \in [Call -> {"new", "read", "write", "commit", "done"}]
        /\ result' \in [Call -> Result]
    BY <1>1 DEF TypeOK, Result
  <2>. QED
    BY <1>1, <2>1, <2>2, <2>3 DEF TypeOK
<1>5. OneWriter'
  BY <1>1 DEF IInv, OneWriter, TypeOK
<1>6. ASSUME NEW p \in Payment
      PROVE  paidAt'[p] <=> status'[p] \in {"PAID", "REFUNDED"}
  <2>0. paidAt[p] <=> status[p] \in {"PAID", "REFUNDED"}
    BY DEF IInv, PaidBeforeRefunded
  <2>1. CASE p # q
    BY <1>2, <2>0, <2>1
  <2>2. CASE p = q /\ op[c] = "authorize"
    <3>1. ~paidAt[q]
      BY <1>1, <2>0, <2>2 DEF DecisionHolds
    <3>2. ~paidAt'[q] /\ status'[q] = "PENDING"
      BY <1>2, <2>2, <3>1, Tables
    <3>. QED
      BY <2>2, <3>2
  <2>3. CASE p = q /\ op[c] = "capture"
    <3>1. paidAt'[q] /\ status'[q] = "PAID"
      BY <1>2, <2>3, Tables
    <3>. QED
      BY <2>3, <3>1
  <2>4. CASE p = q /\ op[c] = "refund"
    <3>1. paidAt[q]
      BY <1>1, <2>4 DEF DecisionHolds
    <3>2. paidAt'[q] /\ status'[q] = "REFUNDED"
      BY <1>2, <2>4, <3>1, Tables
    <3>. QED
      BY <2>4, <3>2
  <2>. QED
    BY <1>1, <2>1, <2>2, <2>3, <2>4
<1>7. ASSUME NEW p \in Payment
      PROVE  /\ status[p] # "absent" =>
                   status'[p] \in {status[p], "PAID", "REFUNDED"}
             /\ status[p] # "absent" => status'[p] # "absent"
             /\ paidAt[p] => paidAt'[p]
  <2>1. CASE p # q
    BY <1>2, <2>1
  <2>2. CASE p = q /\ op[c] = "authorize"
    BY <1>1, <1>2, <2>2, Tables DEF DecisionHolds
  <2>3. CASE p = q /\ op[c] # "authorize"
    BY <1>1, <1>2, <2>3, Tables
  <2>. QED
    BY <2>1, <2>2, <2>3
<1>8. ASSUME NEW d \in Call PROVE DecisionHolds(d)'
  <2>1. CASE d = c
    BY <1>1, <2>1 DEF DecisionHolds, TypeOK
  <2>2. CASE d # c
    <3>1. pc'[d] = pc[d] /\ payment[d] \in Payment
      BY <1>1, <2>2 DEF TypeOK
    <3>2. pc[d] = "commit" => payment[d] # q
      BY <2>2 DEF IInv, OneWriter
    <3>. QED
      BY <1>2, <1>7, <3>1, <3>2 DEF IInv, DecisionHolds
  <2>. QED
    BY <2>1, <2>2
<1>9. SuccessIsTrue'
  <2> SUFFICES ASSUME NEW d \in Call, result'[d] \in {"ok", "already"}
               PROVE  /\ status'[payment[d]] # "absent"
                      /\ op[d] \in {"capture", "refund"} => paidAt'[payment[d]]
    BY DEF SuccessIsTrue
  <2>1. CASE d = c
    <3>1. status'[q] # "absent"
      BY <1>3
    <3>2. op[c] = "capture" => paidAt'[q]
      BY <1>2
    <3>3. op[c] = "refund" => paidAt'[q]
      BY <1>1, <1>2 DEF DecisionHolds
    <3>. QED
      BY <2>1, <3>1, <3>2, <3>3
  <2>2. CASE d # c
    <3>1. result[d] \in {"ok", "already"} /\ payment[d] \in Payment
      BY <1>1, <2>2 DEF TypeOK
    <3>. QED
      BY <1>7, <3>1 DEF IInv, SuccessIsTrue
  <2>. QED
    BY <2>1, <2>2
<1>. QED
  BY <1>4, <1>5, <1>6, <1>7, <1>8, <1>9 DEF IInv, PaidBeforeRefunded

(* A call that ends, or goes on, without touching the table.               *)
LEMMA FailStep ==
  ASSUME IInv, NEW c \in Call, Answer(c, "error"), UNCHANGED <<table, request>>,
         faults' \in 0..MaxFaults
  PROVE  IInv'
<1> USE DEF Answer, table, request
<1>1. TypeOK'
  BY DEF IInv, TypeOK, Result
<1>2. OneWriter'
  BY DEF IInv, OneWriter, TypeOK
<1>3. \A d \in Call : DecisionHolds(d)'
  BY DEF IInv, DecisionHolds, TypeOK
<1>4. PaidBeforeRefunded' /\ SuccessIsTrue'
  BY DEF IInv, PaidBeforeRefunded, SuccessIsTrue, TypeOK
<1>. QED
  BY <1>1, <1>2, <1>3, <1>4 DEF IInv

LEMMA ReceiveStep ==
  ASSUME IInv, NEW c \in Call, Receive(c)
  PROVE  IInv'
<1> USE DEF Receive, Answer, table, request
<1>1. TypeOK'
  BY DEF IInv, TypeOK, Result
<1>2. OneWriter'
  BY DEF IInv, OneWriter, TypeOK
<1>3. \A d \in Call : DecisionHolds(d)'
  BY DEF IInv, DecisionHolds, TypeOK
<1>4. PaidBeforeRefunded' /\ SuccessIsTrue'
  BY DEF IInv, PaidBeforeRefunded, SuccessIsTrue, TypeOK
<1>. QED
  BY <1>1, <1>2, <1>3, <1>4 DEF IInv

LEMMA ReadStep ==
  ASSUME IInv, NEW c \in Call, Read(c)
  PROVE  IInv'
<1> DEFINE q == payment[c]
<1>1. CASE Writes(op[c]) /\ status[q] = From[op[c]]
           /\ pc' = [pc EXCEPT ![c] = "write"] /\ UNCHANGED result
  <2> USE <1>1 DEF Read, table, request
  <2>1. TypeOK'
    BY DEF IInv, TypeOK
  <2>2. OneWriter'
    BY DEF IInv, OneWriter, TypeOK
  <2>3. DecisionHolds(c)'
    <3>1. op[c] \in {"authorize", "capture", "refund"} /\ q \in Payment
      BY Tables DEF Writes, IInv, TypeOK
    <3>2. op[c] = "capture" => status[q] # "absent"
      BY Tables
    <3>3. op[c] = "refund" => status[q] # "absent" /\ paidAt[q]
      BY <3>1, Tables DEF IInv, PaidBeforeRefunded
    <3>. QED
      BY <3>2, <3>3 DEF DecisionHolds
  <2>4. \A d \in Call \ {c} : DecisionHolds(d)'
    BY DEF IInv, DecisionHolds, TypeOK
  <2>5. PaidBeforeRefunded' /\ SuccessIsTrue'
    BY DEF IInv, PaidBeforeRefunded, SuccessIsTrue
  <2>. QED
    BY <2>1, <2>2, <2>3, <2>4, <2>5 DEF IInv
<1>2. CASE AlreadyDone(op[c], status[q]) /\ Answer(c, "already")
  <2> USE <1>2 DEF Read, Answer, table, request
  <2>1. TypeOK'
    BY DEF IInv, TypeOK, Result
  <2>2. OneWriter'
    BY DEF IInv, OneWriter, TypeOK
  <2>3. \A d \in Call : DecisionHolds(d)'
    BY DEF IInv, DecisionHolds, TypeOK
  <2>4. PaidBeforeRefunded'
    BY DEF IInv, PaidBeforeRefunded
  <2>5. /\ status[q] # "absent"
        /\ op[c] \in {"capture", "refund"} => paidAt[q]
    BY Tables DEF AlreadyDone, IInv, TypeOK, PaidBeforeRefunded
  <2>6. SuccessIsTrue'
    BY <2>5 DEF IInv, SuccessIsTrue, TypeOK
  <2>. QED
    BY <2>1, <2>2, <2>3, <2>4, <2>6 DEF IInv
<1>3. CASE Answer(c, "error")
  BY <1>3, FailStep DEF Read, IInv, TypeOK
<1>. QED
  BY <1>1, <1>2, <1>3 DEF Read, IInv, TypeOK

LEMMA WriteStep ==
  ASSUME IInv, NEW c \in Call, Write(c)
  PROVE  IInv'
<1>1. CASE Answer(c, "error")
  BY <1>1, FailStep DEF Write, IInv, TypeOK
<1>2. CASE /\ op[c] = "authorize" => status[payment[c]] = "absent"
           /\ pc' = [pc EXCEPT ![c] = "commit"]
           /\ UNCHANGED result
  <2> USE <1>2 DEF Write, table, request
  <2>1. TypeOK'
    BY DEF IInv, TypeOK
  <2>2. OneWriter'
    BY DEF IInv, OneWriter, TypeOK
  <2>3. \A d \in Call : DecisionHolds(d)'
    BY DEF IInv, DecisionHolds, TypeOK
  <2>4. PaidBeforeRefunded' /\ SuccessIsTrue'
    BY DEF IInv, PaidBeforeRefunded, SuccessIsTrue
  <2>. QED
    BY <2>1, <2>2, <2>3, <2>4 DEF IInv
<1>. QED
  BY <1>1, <1>2 DEF Write

(* Every step keeps the invariant and obeys NeverAuthorizedAgain.          *)
LEMMA Step ==
  ASSUME IInv, [Next]_vars
  PROVE  /\ IInv'
         /\ \A p \in Payment : status[p] # "absent" =>
               status'[p] \in {status[p], "PAID", "REFUNDED"}
<1>1. ASSUME NEW c \in Call, Receive(c) \/ Read(c) \/ Write(c)
      PROVE  IInv' /\ UNCHANGED status
  BY <1>1, ReceiveStep, ReadStep, WriteStep DEF Receive, Read, Write, table
<1>2. ASSUME NEW c \in Call, Commit(c)
      PROVE  /\ IInv'
             /\ \A p \in Payment : status[p] # "absent" =>
                   status'[p] \in {status[p], "PAID", "REFUNDED"}
  <2>1. faults' \in 0..MaxFaults
    BY <1>2 DEF Commit, IInv, TypeOK
  <2>. QED
    BY <1>2, <2>1, PublishStep DEF Commit
<1>3. ASSUME NEW c \in Call, Fails(c)
      PROVE  /\ IInv'
             /\ \A p \in Payment : status[p] # "absent" =>
                   status'[p] \in {status[p], "PAID", "REFUNDED"}
  <2>1. faults' \in 0..MaxFaults
    BY <1>3, ServiceAssumption DEF Fails, IInv, TypeOK
  <2>2. CASE UNCHANGED table
    BY <1>3, <2>1, <2>2, FailStep DEF Fails, table
  <2>3. CASE pc[c] = "commit" /\ Publish(c)
    BY <1>3, <2>1, <2>3, PublishStep DEF Fails
  <2>. QED
    BY <1>3, <2>2, <2>3 DEF Fails
<1>4. ASSUME UNCHANGED vars PROVE IInv' /\ UNCHANGED status
  BY <1>4 DEF IInv, TypeOK, OneWriter, DecisionHolds, PaidBeforeRefunded,
              SuccessIsTrue, vars
<1>. QED
  BY <1>1, <1>2, <1>3, <1>4 DEF Next, Advance, Terminating

(* The invariant holds in every reachable state.                           *)
THEOREM Invariance == Spec => []IInv
BY InitIInv, Step, PTL DEF Spec

(* Every variable keeps its type.                                          *)
THEOREM TypeCorrect == Spec => []TypeOK
<1>1. IInv => TypeOK
  BY DEF IInv
<1>. QED
  BY <1>1, Invariance, PTL

(* paid_at is set exactly in the statuses that follow a capture, although  *)
(* capture and refund decide on a row they did not lock.                   *)
THEOREM CaptureComesFirst == Spec => []PaidBeforeRefunded
<1>1. IInv => PaidBeforeRefunded
  BY DEF IInv
<1>. QED
  BY <1>1, Invariance, PTL

(* A success answer of the service is true of the table.                   *)
THEOREM SuccessesAreTrue == Spec => []SuccessIsTrue
<1>1. IInv => SuccessIsTrue
  BY DEF IInv
<1>. QED
  BY <1>1, Invariance, PTL

(* No step takes an existing payment back to AUTHORIZED.                   *)
THEOREM StatusMovesOn == Spec => NeverAuthorizedAgain
<1>1. ASSUME IInv, [Next]_vars
      PROVE  [\A p \in Payment : status[p] # "absent" =>
                 status'[p] \in {status[p], "PAID", "REFUNDED"}]_vars
  BY <1>1, Step
<1>. QED
  BY <1>1, Invariance, PTL DEF Spec, NeverAuthorizedAgain
-----------------------------------------------------------------------------
(* The saga.                                                               *)

(* The RPCs of a request are calls of the service.                         *)
LEMMA RpcsAreCalls ==
  ASSUME NEW q \in Request
  PROVE  Authorization(q) \in Call /\ Capture(q) \in Call
BY SagaAssumption DEF Authorization, Capture

(* Every step of the saga is a step of the service, or leaves it alone.    *)
LEMMA ServesOnly == [SagaNext]_sagaVars => [Next]_vars
BY DEF SagaNext, sagaVars, Handle, Create, Guard, Load, Authorized, Reload,
       Captured, Reread, PublishCaptured, Announce, GivesUp, ApiFails, Serve, AllEnded, Next

(* What a step of the service leaves behind for those who wait for it.     *)
LEMMA Keeps ==
  ASSUME IInv, [Next]_vars
  PROVE  /\ IInv'
         /\ UNCHANGED request
         /\ \A p \in Payment : status[p] # "absent" =>
               status'[p] \in {status[p], "PAID", "REFUNDED"}
         /\ \A p \in Payment : status[p] # "absent" => status'[p] # "absent"
         /\ \A p \in Payment : paidAt[p] => paidAt'[p]
<1>1. /\ IInv'
      /\ \A p \in Payment : status[p] # "absent" =>
            status'[p] \in {status[p], "PAID", "REFUNDED"}
  BY Step
<1>2. UNCHANGED request
  BY DEF Next, Advance, Receive, Read, Write, Commit, Fails, Terminating, vars,
         request
<1>3. ASSUME NEW p \in Payment, paidAt[p] PROVE paidAt'[p]
  <2>1. status[p] \in {"PAID", "REFUNDED"}
    BY <1>3 DEF IInv, PaidBeforeRefunded
  <2>2. status'[p] \in {"PAID", "REFUNDED"}
    BY <1>1, <2>1
  <2>. QED
    BY <1>1, <2>2 DEF IInv, PaidBeforeRefunded
<1>. QED
  BY <1>1, <1>2, <1>3

(* The answer of a call is its last step.                                  *)
LEMMA AnswersLast ==
  ASSUME IInv, AnsweredIsDone, [Next]_vars
  PROVE  /\ AnsweredIsDone'
         /\ \A c \in Call : pc[c] = "done" => pc'[c] = "done" /\ result'[c] = result[c]
         /\ \A c \in Call : pc[c] # "new" => pc'[c] # "new"
<1>1. ASSUME NEW c \in Call, Advance(c) \/ Fails(c)
      PROVE  /\ pc[c] # "done"
             /\ \A d \in Call \ {c} : pc'[d] = pc[d] /\ result'[d] = result[d]
             /\ pc'[c] # "new"
             /\ result'[c] = result[c] \/ pc'[c] = "done"
  <2>1. pc \in [Call -> {"new", "read", "write", "commit", "done"}]
        /\ result \in [Call -> Result]
    BY DEF IInv, TypeOK
  <2>2. CASE Receive(c) \/ Read(c) \/ Write(c)
    BY <2>1, <2>2 DEF Receive, Read, Write, Answer
  <2>3. CASE Commit(c) \/ Fails(c)
    BY <2>1, <2>3 DEF Commit, Fails, Answer
  <2>. QED
    BY <1>1, <2>2, <2>3 DEF Advance
<1>2. CASE UNCHANGED vars
  BY <1>2 DEF AnsweredIsDone, vars
<1>. QED
  BY <1>1, <1>2 DEF Next, Terminating, AnsweredIsDone

(* Without a refund a payment that was REFUNDED stays it, uncaptured.      *)
LEMMA FrozenStep ==
  ASSUME IInv, AnsweredIsDone, FrozenStays, [Next]_vars
  PROVE  /\ \A p \in Payment : RefundBegun(p) => RefundBegun(p)'
         /\ \A p \in Payment : Frozen(p) => Frozen(p)' \/ RefundBegun(p)'
         /\ FrozenStays'
<1>1. UNCHANGED <<op, payment>>
  BY Keeps DEF request
<1>2. \A p \in Payment : RefundBegun(p) => RefundBegun(p)'
  BY <1>1, AnswersLast DEF RefundBegun
<1>3. /\ status \in [Payment -> DbStatus]
      /\ pc \in [Call -> {"new", "read", "write", "commit", "done"}]
      /\ result \in [Call -> Result]
      /\ op \in [Call -> Operation] /\ payment \in [Call -> Payment]
  BY DEF IInv, TypeOK
<1>4. ASSUME NEW p \in Payment, Frozen(p)
      PROVE  status'[p] = "REFUNDED"
  <2>1. ASSUME NEW c \in Call, pc[c] = "commit", Publish(c)
        PROVE  status'[p] = "REFUNDED"
    <3>1. op[c] \in {"authorize", "capture", "refund"}
      BY <2>1, Tables DEF IInv, DecisionHolds, Writes
    <3>2. CASE payment[c] # p
      BY <2>1, <3>2, <1>3, <1>4 DEF Publish, Frozen
    <3>3. CASE payment[c] = p /\ op[c] = "authorize"
      BY <2>1, <3>3, <1>4 DEF IInv, DecisionHolds, Frozen
    <3>4. CASE payment[c] = p /\ op[c] = "capture"
      BY <2>1, <3>4, <1>4 DEF FrozenStays
    <3>5. CASE payment[c] = p /\ op[c] = "refund"
      BY <2>1, <3>5, <1>4 DEF Frozen, RefundBegun
    <3>. QED
      BY <3>1, <3>2, <3>3, <3>4, <3>5
  <2>2. CASE UNCHANGED status
    BY <2>2, <1>4 DEF Frozen
  <2>. QED
    BY <2>1, <2>2 DEF Next, Advance, Receive, Read, Write, Commit, Fails,
                      Terminating, vars, table
<1>5. \A p \in Payment : Frozen(p) => Frozen(p)' \/ RefundBegun(p)'
  BY <1>4 DEF Frozen
<1>6. ASSUME NEW d \in Call, NEW p \in Payment, p = payment[d],
             op[d] = "capture", Frozen(p)'
      PROVE  pc'[d] \notin {"write", "commit"} /\ ~Succeeded(d)'
  <2>1. ~RefundBegun(p)'
    BY <1>6 DEF Frozen
  <2>2. ~RefundBegun(p)
    BY <1>2, <2>1
  <2>3. status[p] = "REFUNDED"
    <3>1. ASSUME NEW c \in Call, pc[c] = "commit", Publish(c),
                 status[p] # "REFUNDED"
          PROVE  FALSE
      <4>1. op[c] \in {"authorize", "capture", "refund"} /\ payment[c] \in Payment
        BY <3>1, <1>3, Tables DEF IInv, DecisionHolds, Writes
      <4>2. payment[c] = p /\ To[op[c]] = "REFUNDED"
        BY <3>1, <1>3, <1>6 DEF Publish, Frozen
      <4>3. op[c] = "refund"
        BY <4>1, <4>2, Tables
      <4>. QED
        BY <3>1, <4>2, <4>3, <2>2 DEF RefundBegun
    <3>2. CASE UNCHANGED status
      BY <3>2, <1>6 DEF Frozen
    <3>. QED
      BY <3>1, <3>2 DEF Next, Advance, Receive, Read, Write, Commit, Fails,
                        Terminating, vars, table
  <2>4. Frozen(p)
    BY <2>2, <2>3 DEF Frozen
  <2>5. pc[d] \notin {"write", "commit"} /\ ~Succeeded(d)
    BY <1>6, <2>4 DEF FrozenStays
  <2>6. CASE pc'[d] = pc[d] /\ result'[d] = result[d]
    BY <2>5, <2>6 DEF Succeeded
  <2>7. CASE Receive(d)
    BY <2>7, <2>5, <1>3 DEF Receive, Answer, Succeeded
  <2>8. CASE Read(d)
    <3>1. status[p] # From[op[d]] /\ ~AlreadyDone(op[d], status[p])
      BY <1>6, <2>3, Tables DEF AlreadyDone
    <3>2. Answer(d, "error")
      BY <1>6, <2>8, <3>1 DEF Read
    <3>. QED
      BY <3>2, <1>3 DEF Answer, Succeeded
  <2>9. CASE Fails(d)
    BY <2>9, <1>3 DEF Fails, Answer, Succeeded
  <2>10. ASSUME NEW c \in Call, Advance(c) \/ Fails(c), c # d
         PROVE  pc'[d] = pc[d] /\ result'[d] = result[d]
    BY <2>10, <1>3 DEF Advance, Receive, Read, Write, Commit, Fails, Answer
  <2>11. ~Write(d) /\ ~Commit(d)
    BY <2>5 DEF Write, Commit
  <2>. QED
    BY <2>6, <2>7, <2>8, <2>9, <2>10, <2>11 DEF Next, Advance, Terminating, vars
<1>7. FrozenStays'
  <2> SUFFICES ASSUME NEW d \in Call, op'[d] = "capture", Frozen(payment[d])'
               PROVE  (pc[d] \notin {"write", "commit"} /\ ~Succeeded(d))'
    BY DEF FrozenStays
  <2>1. PICK p \in Payment : p = payment[d]
    BY <1>3
  <2>2. Frozen(p)' /\ op[d] = "capture"
    BY <1>1, <2>1 DEF Frozen, RefundBegun
  <2>. QED
    BY <1>6, <2>1, <2>2
<1>. QED
  BY <1>2, <1>5, <1>7
-----------------------------------------------------------------------------
(* The part of the invariant that speaks of one request.                   *)
RequestOK(q) ==
    /\ Knows(q) /\ Admitted(q)
    /\ answer[q] = "paid" \/ q \in published => paidAt[Of(q)]
    /\ answer[q] = "created" => status[Of(q)] # "absent"
    /\ Capture(q) \in sent =>
          /\ role[q] \in {"owner", "payingStaff"}
          /\ placed[Of(q)]
          /\ status[Of(q)] # "absent"

LEMMA ByRequest ==
  SInv <=> /\ SagaTypeOK /\ IInv /\ AnsweredIsDone /\ FrozenStays
           /\ \A q \in Request : Paired(q) /\ RequestOK(q)
BY DEF SInv, RequestOK, ToldTheTruth, ChargedByPermission

(* What the steps of the service, whoever takes them, leave of SInv.       *)
LEMMA ServiceSide ==
  ASSUME SInv, [Next]_vars
  PROVE  /\ IInv' /\ AnsweredIsDone' /\ FrozenStays'
         /\ \A q \in Request : Paired(q)' /\ Of(q)' = Of(q) /\ Of(q) \in Payment
<1>1. IInv' /\ AnsweredIsDone' /\ FrozenStays' /\ UNCHANGED <<op, payment>>
  BY Keeps, AnswersLast, FrozenStep DEF SInv, request
<1>2. \A q \in Request : Paired(q)' /\ Of(q)' = Of(q)
  BY <1>1 DEF SInv, Paired, Of
<1>3. \A q \in Request : Of(q) \in Payment
  BY RpcsAreCalls DEF SInv, IInv, TypeOK, Of
<1>. QED
  BY <1>1, <1>2, <1>3

(* A request that stays where it is: what it knows goes on to hold.        *)
LEMMA Waits ==
  ASSUME SInv, [Next]_vars, NEW r \in Request,
         at'[r] = at[r], answer'[r] = answer[r], UNCHANGED caller,
         Capture(r) \in sent' <=> Capture(r) \in sent,
         r \in published' <=> r \in published,
         r \in late' <=> r \in late,
         placed[Of(r)] => placed'[Of(r)]
  PROVE  RequestOK(r)'
<1> DEFINE c == Capture(r)
<1>1. RequestOK(r) /\ c \in Call /\ c' = c /\ kind' = kind /\ role' = role
  BY ByRequest, RpcsAreCalls DEF caller, Capture
<1>2. Of(r)' = Of(r) /\ Of(r) \in Payment
  BY ServiceSide
<1>3. /\ status[Of(r)] # "absent" => status'[Of(r)] # "absent"
      /\ paidAt[Of(r)] => paidAt'[Of(r)]
  BY <1>2, Keeps DEF SInv
<1>4. Succeeded(c) => Succeeded(c)'
  <2>1. Succeeded(c) => pc[c] = "done"
    BY <1>1 DEF Succeeded, AnsweredIsDone, SInv
  <2>. QED
    BY <1>1, <2>1, AnswersLast DEF Succeeded, SInv
<1>5. Frozen(Of(r)) \/ RefundBegun(Of(r)) => Frozen(Of(r))' \/ RefundBegun(Of(r))'
  <2>1. PICK p \in Payment : p = Of(r)
    BY <1>2
  <2>2. Frozen(p) \/ RefundBegun(p) => Frozen(p)' \/ RefundBegun(p)'
    BY FrozenStep DEF SInv
  <2>. QED
    BY <1>2, <2>1, <2>2 DEF Frozen, RefundBegun
<1>6. Knows(r)'
  BY <1>1, <1>2, <1>3, <1>4, <1>5 DEF RequestOK, Knows
<1>7. Admitted(r)'
  BY <1>1, <1>2 DEF RequestOK, Admitted
<1>. QED
  BY <1>1, <1>2, <1>3, <1>6, <1>7 DEF RequestOK

(* A step of the API leaves the service as it is.                          *)
LEMMA ApiSide ==
  ASSUME SInv, UNCHANGED vars, NEW q \in Request
  PROVE  /\ [Next]_vars
         /\ status' = status /\ paidAt' = paidAt
         /\ Of(q)' = Of(q) /\ Of(q) \in Payment
         /\ Capture(q)' = Capture(q)
         /\ Succeeded(Capture(q))' <=> Succeeded(Capture(q))
         /\ RefundBegun(Of(q))' <=> RefundBegun(Of(q))
         /\ Frozen(Of(q))' <=> Frozen(Of(q))
         /\ status[Of(q)] \in DbStatus
         /\ paidAt[Of(q)] <=> status[Of(q)] \in {"PAID", "REFUNDED"}
         /\ Capture(q) # Authorization(q)
<1>1. [Next]_vars /\ Of(q) \in Payment /\ Of(q)' = Of(q)
  BY ServiceSide
<1>2. /\ status[Of(q)] \in DbStatus
      /\ paidAt[Of(q)] <=> status[Of(q)] \in {"PAID", "REFUNDED"}
  BY <1>1 DEF SInv, IInv, TypeOK, PaidBeforeRefunded
<1>3. Capture(q)' = Capture(q) /\ Capture(q) # Authorization(q)
  BY DEF Capture, Authorization
<1>. QED
  BY <1>1, <1>2, <1>3 DEF Succeeded, RefundBegun, Frozen, vars

(* The request of the step: what it knows in its new place.                *)
LEMMA OwnStep ==
  ASSUME SInv, NEW q \in Request, Handle(q) \/ ApiFails(q)
  PROVE  RequestOK(q)'
<1>0. UNCHANGED vars /\ UNCHANGED caller
  BY DEF Handle, Create, Guard, Load, Authorized, Reload, Captured, Reread,
         PublishCaptured, Announce, GivesUp, ApiFails
<1>1. RequestOK(q) /\ SagaTypeOK /\ UNCHANGED <<kind, role>>
  BY <1>0, ByRequest DEF caller
<1>2. /\ status' = status /\ paidAt' = paidAt
      /\ Of(q)' = Of(q) /\ Of(q) \in Payment
      /\ Capture(q)' = Capture(q)
      /\ Succeeded(Capture(q))' <=> Succeeded(Capture(q))
      /\ RefundBegun(Of(q))' <=> RefundBegun(Of(q))
      /\ Frozen(Of(q))' <=> Frozen(Of(q))
      /\ status[Of(q)] \in DbStatus
      /\ paidAt[Of(q)] <=> status[Of(q)] \in {"PAID", "REFUNDED"}
      /\ Capture(q) # Authorization(q)
  BY <1>0, ApiSide
<1> USE DEF RequestOK, Knows, Admitted, SagaTypeOK, Goto, Reply
<1>3. CASE Create(q)
  BY <1>1, <1>2, <1>3 DEF Create
<1>4. CASE Guard(q)
  BY <1>1, <1>2, <1>4 DEF Guard
<1>5. ASSUME at[q] \in {"load", "reload"}, status[Of(q)] # "absent",
             kind[q] = "pay", Decide(q, status[Of(q)]),
             UNCHANGED <<placed, published, late>>
      PROVE  RequestOK(q)'
  <2>1. role[q] \in {"owner", "payingStaff"} /\ placed[Of(q)]
    BY <1>1, <1>5
  <2>2. CASE status[Of(q)] = "PAID"
    BY <1>1, <1>2, <1>5, <2>1, <2>2 DEF Decide
  <2>3. CASE status[Of(q)] # "PAID"
    <3>1. q \in late => Frozen(Of(q)) \/ RefundBegun(Of(q))
      BY <1>1, <1>2, <2>3 DEF Frozen
    <3>. QED
      BY <1>1, <1>2, <1>5, <2>1, <2>3, <3>1 DEF Decide
  <2>. QED
    BY <2>2, <2>3
<1>6. CASE Load(q)
  <2>1. CASE status[Of(q)] = "absent"
    BY <1>1, <1>2, <1>6, <2>1 DEF Load, Decide
  <2>2. CASE status[Of(q)] # "absent"
    BY <1>1, <1>5, <1>6, <2>2 DEF Load
  <2>. QED
    BY <2>1, <2>2
<1>7. CASE Authorized(q)
  <2>1. Succeeded(Authorization(q)) => status[Of(q)] # "absent"
    BY RpcsAreCalls DEF SInv, IInv, SuccessIsTrue, Succeeded, Of
  <2>. QED
    BY <1>1, <1>2, <1>7, <2>1 DEF Authorized
<1>8. CASE Reload(q)
  BY <1>1, <1>2, <1>5, <1>8 DEF Reload
<1>9. CASE Captured(q)
  BY <1>1, <1>2, <1>9 DEF Captured
<1>10. CASE Reread(q)
  BY <1>1, <1>2, <1>10 DEF Reread
<1>11. CASE PublishCaptured(q)
  <2>1. Succeeded(Capture(q)) => paidAt[Of(q)]
    <3>1. Paired(q)
      BY DEF SInv
    <3>. QED
      BY <3>1, RpcsAreCalls DEF SInv, IInv, SuccessIsTrue, Succeeded, Paired
  <2>2. Succeeded(Capture(q)) /\ Capture(q) \in sent
    BY <1>1, <1>11 DEF PublishCaptured, Announce
  <2>. QED
    BY <1>1, <1>2, <1>11, <2>1, <2>2 DEF PublishCaptured, Announce
<1>12. CASE GivesUp(q) \/ ApiFails(q)
  BY <1>1, <1>2, <1>12 DEF GivesUp, ApiFails
<1>. QED
  BY <1>3, <1>4, <1>6, <1>7, <1>8, <1>9, <1>10, <1>11, <1>12 DEF Handle

(* The requests that do not take the step wait.                            *)
LEMMA OtherStep ==
  ASSUME SInv, NEW q \in Request, Handle(q) \/ ApiFails(q),
         NEW r \in Request, r # q
  PROVE  RequestOK(r)'
<1>1. UNCHANGED vars /\ UNCHANGED caller
  BY DEF Handle, Create, Guard, Load, Authorized, Reload, Captured, Reread,
         PublishCaptured, Announce, GivesUp, ApiFails
<1>2. at \in [Request -> Location] /\ answer \in [Request -> HttpAnswer]
      /\ placed \in [Payment -> BOOLEAN]
  BY DEF SInv, SagaTypeOK
<1>3. Capture(r) # Capture(q) /\ Capture(r) # Authorization(q)
  BY DEF Capture, Authorization
<1>4. /\ at'[r] = at[r] /\ answer'[r] = answer[r]
      /\ Capture(r) \in sent' <=> Capture(r) \in sent
      /\ r \in published' <=> r \in published
      /\ r \in late' <=> r \in late
  BY <1>2, <1>3 DEF Handle, Create, Guard, Load, Authorized, Reload, Captured,
         Reread, PublishCaptured, Announce, GivesUp, ApiFails, Reply, Goto, Decide
<1>5. placed[Of(r)] => placed'[Of(r)]
  <2>1. Of(r) \in Payment
    BY ServiceSide, <1>1
  <2>. QED
    BY <1>2, <2>1 DEF Handle, Create, Guard, Load, Authorized, Reload, Captured,
       Reread, PublishCaptured, Announce, GivesUp, ApiFails
<1>. QED
  BY <1>1, <1>4, <1>5, Waits

LEMMA TypeStep ==
  ASSUME SInv, NEW q \in Request, Handle(q) \/ ApiFails(q)
  PROVE  SagaTypeOK'
<1>1. SagaTypeOK /\ Of(q) \in Payment
  BY ApiSide, ServiceSide, RpcsAreCalls DEF SInv, IInv, TypeOK, Of
<1>2. \A c \in {"authorize", "capture"} : <<q, c>> \in Request \X {"authorize", "capture"}
  OBVIOUS
<1> USE DEF SagaTypeOK, Goto, Reply, Location, HttpAnswer, caller, Authorization,
           Capture
<1>3. CASE Create(q) \/ Guard(q)
  BY <1>1, <1>2, <1>3 DEF Create, Guard
<1>4. CASE Load(q) \/ Reload(q)
  BY <1>1, <1>2, <1>4 DEF Load, Reload, Decide
<1>5. CASE Authorized(q) \/ Captured(q) \/ Reread(q)
  BY <1>1, <1>5 DEF Authorized, Captured, Reread
<1>6. CASE PublishCaptured(q) \/ GivesUp(q) \/ ApiFails(q)
  BY <1>1, <1>6 DEF PublishCaptured, Announce, GivesUp, ApiFails
<1>. QED
  BY <1>3, <1>4, <1>5, <1>6 DEF Handle

LEMMA SagaStep == SInv /\ [SagaNext]_sagaVars => SInv'
<1> SUFFICES ASSUME SInv, [SagaNext]_sagaVars PROVE SInv'
  OBVIOUS
<1>1. /\ IInv' /\ AnsweredIsDone' /\ FrozenStays'
      /\ \A q \in Request : Paired(q)'
  BY ServesOnly, ServiceSide
<1>2. ASSUME NEW q \in Request, Handle(q) \/ ApiFails(q)
      PROVE  SagaTypeOK' /\ \A r \in Request : RequestOK(r)'
  BY <1>2, TypeStep, OwnStep, OtherStep
<1>3. ASSUME UNCHANGED <<placed, caller, at, sent, answer, published, late>>
      PROVE  SagaTypeOK' /\ \A r \in Request : RequestOK(r)'
  <2>1. SagaTypeOK'
    BY <1>3 DEF SInv, SagaTypeOK, caller
  <2>2. ASSUME NEW r \in Request PROVE RequestOK(r)'
    <3>1. UNCHANGED caller /\ at'[r] = at[r] /\ answer'[r] = answer[r]
          /\ (Capture(r) \in sent' <=> Capture(r) \in sent)
          /\ (r \in published' <=> r \in published)
          /\ (r \in late' <=> r \in late)
          /\ (placed[Of(r)] => placed'[Of(r)])
      BY <1>3
    <3>. QED
      BY <3>1, ServesOnly, Waits
  <2>. QED
    BY <2>1, <2>2
<1>4. SagaTypeOK' /\ \A r \in Request : RequestOK(r)'
  BY <1>2, <1>3 DEF SagaNext, Serve, AllEnded, sagaVars
<1>. QED
  BY <1>1, <1>4 DEF SInv, RequestOK, ToldTheTruth, ChargedByPermission

LEMMA SagaInitially == SagaInit => SInv
<1> SUFFICES ASSUME SagaInit PROVE SInv
  OBVIOUS
<1>1. IInv
  BY InitIInv DEF SagaInit
<1>2. SagaTypeOK
  BY DEF SagaInit, SagaTypeOK, Location, HttpAnswer
<1>3. AnsweredIsDone /\ FrozenStays
  BY DEF SagaInit, Init, AnsweredIsDone, FrozenStays, Succeeded
<1>4. ASSUME NEW q \in Request PROVE Paired(q) /\ RequestOK(q)
  BY DEF SagaInit, Paired, RequestOK, Knows, Admitted, Of
<1>. QED
  BY <1>1, <1>2, <1>3, <1>4, ByRequest
-----------------------------------------------------------------------------
(* The requests never make the payments process do what it does not do by  *)
(* itself: its specification, and so every theorem about it, still holds.  *)
THEOREM ServiceIsItself == SagaSpec => Spec
<1>1. SagaInit => Init
  BY DEF SagaInit
<1>. QED
  BY <1>1, ServesOnly, PTL DEF SagaSpec, Spec

THEOREM SagaInvariance == SagaSpec => []SInv
BY SagaInitially, SagaStep, PTL DEF SagaSpec

THEOREM SagaTypeCorrect == SagaSpec => []SagaTypeOK
<1>1. SInv => SagaTypeOK
  BY DEF SInv
<1>. QED
  BY <1>1, SagaInvariance, PTL

(* What users and consumers of events are told of a payment is true, for   *)
(* any number of requests, timeouts and calls that outlive them.           *)
THEOREM AnswersAreTruthful == SagaSpec => []ToldTheTruth
<1>1. SInv => ToldTheTruth
  BY DEF SInv
<1>. QED
  BY <1>1, SagaInvariance, PTL

(* A payment is captured only for callers CanPayGuard admits.              *)
THEOREM CapturesArePermitted == SagaSpec => []ChargedByPermission
<1>1. SInv => ChargedByPermission
  BY DEF SInv
<1>. QED
  BY <1>1, SagaInvariance, PTL

(* Paying what is paid publishes no second event, short of a refund.       *)
THEOREM RepeatsAreSilent == SagaSpec => []LateIsSilent
<1>1. ASSUME SInv, NEW q \in Request, q \in late, q \in published
      PROVE  RefundBegun(Of(q))
  <2>1. /\ Succeeded(Capture(q))
        /\ Frozen(Of(q)) \/ RefundBegun(Of(q))
    BY <1>1 DEF SInv, Knows
  <2>2. Paired(q) /\ FrozenStays
    BY <1>1 DEF SInv
  <2>. QED
    BY <2>1, <2>2, RpcsAreCalls DEF Paired, FrozenStays
<1>2. SInv => LateIsSilent
  BY <1>1 DEF LateIsSilent, SInv, SagaTypeOK
<1>. QED
  BY <1>2, SagaInvariance, PTL
-----------------------------------------------------------------------------
(* The refinement.  First the stages: a COMMIT opens, settles or returns a *)
(* payment, and nothing else in the service moves one.                     *)
LEMMA Stages ==
  /\ DOMAIN StageOf = DbStatus
  /\ StageOf["absent"] = "none"
  /\ StageOf["UNPAID"] = "open"
  /\ StageOf["PENDING"] = "open"
  /\ StageOf["PAID"] = "settled"
  /\ StageOf["REFUNDED"] = "returned"
BY DEF StageOf, DbStatus

(* The stage and what was told, payment by payment.                        *)
LEMMA Mapped ==
  /\ \A p \in Payment : stageOf[p] = StageOf[status[p]]
  /\ \A p \in Payment : stageOf'[p] = StageOf[status'[p]]
  /\ stageOf = [p \in Payment |-> stageOf[p]]
  /\ stageOf' = [p \in Payment |-> stageOf'[p]]
BY DEF stageOf

LEMMA PublishMoves ==
  ASSUME IInv, NEW c \in Call, pc[c] = "commit", Publish(c)
  PROVE  \E p \in Payment :
            /\ \/ stageOf[p] = "none" /\ stageOf' = [stageOf EXCEPT ![p] = "open"]
               \/ stageOf[p] # "none" /\ stageOf' = [stageOf EXCEPT ![p] = "settled"]
               \/ /\ stageOf[p] \in {"settled", "returned"}
                  /\ stageOf' = [stageOf EXCEPT ![p] = "returned"]
<1>1. PICK p \in Payment : p = payment[c]
  BY DEF IInv, TypeOK
<1>2. /\ op[c] \in {"authorize", "capture", "refund"}
      /\ status \in [Payment -> DbStatus]
      /\ op[c] = "authorize" => status[p] = "absent"
      /\ op[c] = "capture" => status[p] # "absent"
      /\ op[c] = "refund" => status[p] \in {"PAID", "REFUNDED"}
  BY <1>1, Tables DEF IInv, TypeOK, DecisionHolds, Writes, PaidBeforeRefunded
<1>3. /\ status'[p] = To[op[c]]
      /\ \A r \in Payment \ {p} : status'[r] = status[r]
  BY <1>1, <1>2 DEF Publish
<1>4. \A r \in Payment \ {p} : stageOf'[r] = stageOf[r]
  BY <1>3, Mapped
<1>5. stageOf' = [stageOf EXCEPT ![p] = stageOf'[p]]
  BY <1>4, Mapped
<1>6. stageOf[p] = StageOf[status[p]] /\ stageOf'[p] = StageOf[To[op[c]]]
  BY <1>3, Mapped
<1>7. CASE op[c] = "authorize"
  <2>1. stageOf[p] = "none" /\ stageOf'[p] = "open"
    BY <1>2, <1>6, <1>7, Stages, Tables
  <2>. QED
    BY <1>5, <2>1
<1>8. CASE op[c] = "capture"
  <2>1. stageOf[p] # "none" /\ stageOf'[p] = "settled"
    BY <1>2, <1>6, <1>8, Stages, Tables DEF DbStatus
  <2>. QED
    BY <1>5, <2>1
<1>9. CASE op[c] = "refund"
  <2>1. stageOf[p] \in {"settled", "returned"} /\ stageOf'[p] = "returned"
    BY <1>2, <1>6, <1>9, Stages, Tables
  <2>. QED
    BY <1>5, <2>1
<1>. QED
  BY <1>2, <1>7, <1>8, <1>9

(* What one request tells of its payment.                                  *)
ToldBy(q, k) ==
    \/ k = "authorized" /\ answer[q] = "created"
    \/ k = "captured" /\ (answer[q] = "paid" \/ q \in published)

LEMMA ToldByRequests ==
  /\ toldOf = [p \in Payment |-> toldOf[p]] /\ toldOf' = [p \in Payment |-> toldOf'[p]]
  /\ \A p \in Payment :
        /\ toldOf[p] = {k \in {"authorized", "captured"} :
                          \E q \in Request : Of(q) = p /\ ToldBy(q, k)}
        /\ toldOf'[p] = {k \in {"authorized", "captured"} :
                           \E q \in Request : Of(q)' = p /\ ToldBy(q, k)'}
BY DEF toldOf, ToldBy

(* A step of the API tells one thing, and that is true, or nothing new.    *)
LEMMA HandleTells ==
  ASSUME SInv, NEW q \in Request, Handle(q) \/ ApiFails(q)
  PROVE  /\ UNCHANGED stageOf
         /\ \/ UNCHANGED toldOf
            \/ \E p \in Payment : \E k \in Ledger!Truths(stageOf[p]) :
                   toldOf' = [toldOf EXCEPT ![p] = @ \cup {k}]
<1>1. UNCHANGED vars
  BY DEF Handle, Create, Guard, Load, Authorized, Reload, Captured, Reread,
         PublishCaptured, Announce, GivesUp, ApiFails
<1>2. UNCHANGED stageOf
  BY <1>1 DEF stageOf, vars
<1>3. /\ answer \in [Request -> HttpAnswer] /\ at \in [Request -> Location]
      /\ at[q] # "end" => answer[q] = "none"
      /\ \A r \in Request : Of(r) \in Payment
      /\ \A r \in Request : Of(r)' = Of(r)
  BY <1>1, ServiceSide DEF SInv, SagaTypeOK, Knows
<1>4. PICK p \in Payment : p = Of(q)
  BY <1>3
<1>5. ASSUME NEW r \in Request, r # q, NEW k
      PROVE  ToldBy(r, k)' <=> ToldBy(r, k)
  BY <1>3, <1>5 DEF ToldBy, Handle, Create, Guard, Load, Authorized, Reload,
     Captured, Reread, PublishCaptured, Announce, GivesUp, ApiFails, Reply, Goto, Decide
<1>6. answer[q] = "none"
  BY <1>3 DEF Handle, Create, Guard, Load, Authorized, Reload, Captured, Reread,
         PublishCaptured, Announce, GivesUp, ApiFails
<1>7. \/ answer'[q] = "created" /\ UNCHANGED published
      \/ answer'[q] = "paid" /\ published' \in {published, published \cup {q}}
      \/ answer'[q] \notin {"created", "paid"} /\ UNCHANGED published
  BY <1>3, <1>6 DEF Handle, Create, Guard, Load, Authorized, Reload, Captured,
     Reread, PublishCaptured, Announce, GivesUp, ApiFails, Reply, Goto, Decide
<1>8. CASE \A k \in {"authorized", "captured"} : ToldBy(q, k)' <=> ToldBy(q, k)
  <2>1. \A r \in Request : \A k \in {"authorized", "captured"} :
           Of(r)' = Of(r) /\ (ToldBy(r, k)' <=> ToldBy(r, k))
    BY <1>3, <1>5, <1>8
  <2>2. \A t \in Payment : toldOf'[t] = toldOf[t]
    BY <2>1, ToldByRequests
  <2>3. UNCHANGED toldOf
    BY <2>2, ToldByRequests
  <2>. QED
    BY <1>2, <2>3
<1>9. ASSUME NEW k \in {"authorized", "captured"}, ToldBy(q, k)',
             \A l \in {"authorized", "captured"} :
                ToldBy(q, l)' <=> ToldBy(q, l) \/ l = k
      PROVE  \E l \in Ledger!Truths(stageOf[p]) :
                toldOf' = [toldOf EXCEPT ![p] = @ \cup {l}]
  <2>1. k \in Ledger!Truths(stageOf[p])
    <3>1. RequestOK(q)' /\ status' = status /\ paidAt' = paidAt
      BY <1>1, OwnStep DEF vars
    <3>2. /\ status[p] # "absent"
          /\ k = "captured" => status[p] \in {"PAID", "REFUNDED"}
      BY <1>3, <1>4, <1>9, <3>1 DEF RequestOK, ToldBy, SInv, IInv, PaidBeforeRefunded
    <3>3. stageOf[p] # "none" /\ (k = "captured" => stageOf[p] \in {"settled", "returned"})
      <4>1. status[p] \in DbStatus /\ stageOf[p] = StageOf[status[p]]
        BY Mapped DEF SInv, IInv, TypeOK
      <4>. QED
        BY <3>2, <4>1, Stages DEF DbStatus
    <3>. QED
      BY <3>3 DEF Ledger!Truths
  <2>2. \A r \in Request : \A l \in {"authorized", "captured"} :
           Of(r)' = Of(r) /\ (ToldBy(r, l)' <=> ToldBy(r, l) \/ (r = q /\ l = k))
    BY <1>3, <1>5, <1>9
  <2>3. ASSUME NEW t \in Payment
        PROVE  toldOf'[t] = toldOf[t] \cup (IF t = p THEN {k} ELSE {})
    <3>1. toldOf[t] = {l \in {"authorized", "captured"} :
                         \E r \in Request : Of(r) = t /\ ToldBy(r, l)}
      BY ToldByRequests
    <3>2. toldOf'[t] = {l \in {"authorized", "captured"} :
                          \E r \in Request : Of(r) = t /\ ToldBy(r, l)'}
      BY <1>3, ToldByRequests
    <3>. QED
      BY <1>4, <2>2, <3>1, <3>2
  <2>4. toldOf' = [toldOf EXCEPT ![p] = @ \cup {k}]
    BY <2>3 DEF toldOf
  <2>. QED
    BY <2>1, <2>4
<1>10. \/ \A k \in {"authorized", "captured"} : ToldBy(q, k)' <=> ToldBy(q, k)
       \/ \E k \in {"authorized", "captured"} :
             /\ ToldBy(q, k)'
             /\ \A l \in {"authorized", "captured"} :
                   ToldBy(q, l)' <=> ToldBy(q, l) \/ l = k
  BY <1>6, <1>7 DEF ToldBy
<1>. QED
  BY <1>2, <1>8, <1>9, <1>10

(* Every step of the saga is a step of the ledger, or invisible in it.     *)
LEMMA LedgerStep ==
  ASSUME SInv, [SagaNext]_sagaVars
  PROVE  [Ledger!LedgerNext]_<<stageOf, toldOf>>
<1> USE DEF Ledger!LedgerNext, Ledger!Open, Ledger!Settle, Ledger!Return, Ledger!Tell
<1>1. ASSUME NEW q \in Request, Handle(q) \/ ApiFails(q)
      PROVE  [Ledger!LedgerNext]_<<stageOf, toldOf>>
  BY <1>1, HandleTells
<1>2. ASSUME NEW c \in Call, Serve(c)
      PROVE  [Ledger!LedgerNext]_<<stageOf, toldOf>>
  <2>1. UNCHANGED toldOf
    <3>1. UNCHANGED payment
      BY <1>2 DEF Serve, Advance, Receive, Read, Write, Commit, Fails, request
    <3>. QED
      BY <1>2, <3>1 DEF Serve, toldOf, Of, Authorization
  <2>2. CASE UNCHANGED table
    BY <2>1, <2>2 DEF table, stageOf
  <2>3. CASE pc[c] = "commit" /\ Publish(c)
    BY <2>1, <2>3, PublishMoves DEF SInv
  <2>. QED
    BY <1>2, <2>2, <2>3 DEF Serve, Advance, Receive, Read, Write, Commit, Fails
<1>3. ASSUME UNCHANGED sagaVars PROVE UNCHANGED <<stageOf, toldOf>>
  BY <1>3 DEF sagaVars, vars, stageOf, toldOf, Of, Authorization
<1>. QED
  BY <1>1, <1>2, <1>3 DEF SagaNext, AllEnded

(* The API and the payments process implement the ledger of payments.      *)
THEOREM SagaKeepsLedger == SagaSpec => KeepsLedger
<1>1. SagaInit => Ledger!LedgerInit
  <2> SUFFICES ASSUME SagaInit PROVE Ledger!LedgerInit
    OBVIOUS
  <2>1. \A p \in Payment : StageOf[status[p]] \in Ledger!Stage
    BY Stages DEF SagaInit, Init, DbStatus, Ledger!Stage
  <2>2. stageOf \in [Payment -> Ledger!Stage]
    BY <2>1 DEF stageOf
  <2>3. toldOf = [p \in Payment |-> {}]
    BY DEF toldOf, SagaInit
  <2>. QED
    BY <2>2, <2>3 DEF Ledger!LedgerInit
<1>. QED
  BY <1>1, LedgerStep, SagaInvariance, PTL DEF SagaSpec, KeepsLedger, Ledger!LedgerSpec
=============================================================================
