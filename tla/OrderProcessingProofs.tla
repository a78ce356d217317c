----------------------- MODULE OrderProcessingProofs -----------------------
(* Proofs about OrderProcessing, for any messages, workers, number of      *)
(* attempts, copies and bounds on the faults and the closed channels.      *)
EXTENDS OrderProcessing, TLAPS

LEMMA InitIInv == Init => IInv
<1> SUFFICES ASSUME Init PROVE IInv
  OBVIOUS
<1> USE ProcessingAssumption DEF Init
<1>1. TypeOK
  BY DEF TypeOK, Attempt, Label
<1>2. EffectOnce /\ OneInserter
  BY DEF EffectOnce, OneInserter, Inserting
<1>3. \A c \in Consumer : HandlerHolds(c)
  BY DEF HandlerHolds, Busy, Inserting
<1>4. \A m \in Message : published[m] = 0 /\ AttemptsPaid(m)
  BY DEF AttemptsPaid, Busy
<1>. QED
  BY <1>1, <1>2, <1>3, <1>4 DEF IInv

LEMMA PutReadyFacts ==
  ASSUME TypeOK, NEW m \in Message, NEW k \in Attempt, PutReady(m, k)
  PROVE  /\ ready' \in [Message -> [Attempt -> Nat]]
         /\ ready'[m][k] > 0
         /\ \A n \in Message, j \in Attempt : ready'[n][j] >= ready[n][j]
         /\ \A n \in Message, j \in Attempt :
               n # m \/ j # k => ready'[n][j] = ready[n][j]
BY DEF TypeOK, PutReady

LEMMA ArriveStep ==
  ASSUME IInv, NEW m \in Message, Arrive(m)
  PROVE  IInv'
<1> USE DEF Arrive, handling, database, bounds
<1>1. 1 \in Attempt
  BY ProcessingAssumption DEF Attempt
<1>2. /\ ready' \in [Message -> [Attempt -> Nat]]
      /\ ready'[m][1] > 0
      /\ \A n \in Message, j \in Attempt : ready'[n][j] >= ready[n][j]
      /\ \A n \in Message, j \in Attempt :
            n # m \/ j # 1 => ready'[n][j] = ready[n][j]
  BY <1>1, PutReadyFacts DEF IInv
<1>3. TypeOK'
  <2>1. published' \in [Message -> Nat]
    BY DEF IInv, TypeOK
  <2>. QED
    BY <1>2, <2>1 DEF IInv, TypeOK
<1>4. EffectOnce' /\ OneInserter' /\ \A c \in Consumer : HandlerHolds(c)'
  BY DEF IInv, EffectOnce, OneInserter, HandlerHolds, Inserting, Busy
<1>5. ASSUME NEW n \in Message
      PROVE  /\ n \notin Invalid /\ published'[n] > 0 => Kept(n)'
             /\ AttemptsPaid(n)'
  <2>1. Kept(m)'
    BY <1>1, <1>2 DEF Kept
  <2>2. ASSUME n # m PROVE (Kept(n) => Kept(n)') /\ published'[n] = published[n]
    <3>1. \A j \in Attempt : ready'[n][j] = ready[n][j]
      BY <1>2, <2>2
    <3>2. published'[n] = published[n]
      BY <2>2 DEF IInv, TypeOK
    <3>. QED
      BY <3>1, <3>2 DEF Kept, Unacked
  <2>3. AttemptsPaid(n)'
    <3>1. faults \in Nat
      BY ProcessingAssumption DEF IInv, TypeOK
    <3>2. \A j \in Attempt : ready'[n][j] = ready[n][j] \/ j <= faults + 1
      BY <1>2, <3>1
    <3>. QED
      BY <3>2 DEF IInv, AttemptsPaid, Busy
  <2>. QED
    BY <2>1, <2>2, <2>3 DEF IInv
<1>. QED
  BY <1>3, <1>4, <1>5 DEF IInv

LEMMA DeliverStep ==
  ASSUME IInv, NEW c \in Consumer, NEW m \in Message, NEW k \in Attempt,
         Deliver(c, m, k)
  PROVE  IInv'
<1> USE DEF Deliver, handling, database, bounds, Goto
<1>1. /\ ready' \in [Message -> [Attempt -> Nat]]
      /\ \A n \in Message, j \in Attempt :
            /\ ready'[n][j] <= ready[n][j]
            /\ n # m \/ j # k => ready'[n][j] = ready[n][j]
  BY DEF IInv, TypeOK
<1>2. TypeOK'
  <2>1. CASE m \in Invalid
    BY <1>1, <2>1 DEF IInv, TypeOK
  <2>2. CASE m \notin Invalid
    <3>1. pc' \in [Consumer -> Label]
      BY <2>2 DEF IInv, TypeOK, Label
    <3>2. msg' \in [Consumer -> Message \cup {NoMessage}]
      BY <2>2 DEF IInv, TypeOK
    <3>3. attempt' \in [Consumer -> Attempt]
      BY <2>2 DEF IInv, TypeOK
    <3>. QED
      BY <1>1, <3>1, <3>2, <3>3 DEF IInv, TypeOK
  <2>. QED
    BY <2>1, <2>2
<1>3. EffectOnce' /\ OneInserter'
  BY DEF IInv, EffectOnce, OneInserter, Inserting, TypeOK
<1>4. \A d \in Consumer : HandlerHolds(d)'
  BY DEF IInv, HandlerHolds, Inserting, Busy, TypeOK
<1>5. ASSUME NEW n \in Message, n \notin Invalid, published'[n] > 0
      PROVE  Kept(n)'
  <2>1. Kept(n) /\ pc[c] = "idle"
    BY <1>5 DEF IInv
  <2>2. \A d \in Consumer \ {c} : pc'[d] = pc[d] /\ msg'[d] = msg[d]
    BY DEF IInv, TypeOK
  <2>3. CASE n = m
    <3>1. pc'[c] = "begin" /\ msg'[c] = m /\ Unacked(c)'
      BY <1>5, <2>3 DEF IInv, TypeOK, Unacked
    <3>. QED
      BY <2>3, <3>1 DEF Kept
  <2>4. CASE n # m
    <3>1. \A j \in Attempt : ready'[n][j] = ready[n][j]
      BY <1>1, <2>4
    <3>2. ASSUME NEW d \in Consumer, Unacked(d), msg[d] = n,
                 pc[d] \notin {"ack", "forwarded"}
          PROVE  Unacked(d)' /\ msg'[d] = n /\ pc'[d] \notin {"ack", "forwarded"}
      BY <2>1, <2>2, <3>2 DEF Unacked
    <3>. QED
      BY <2>1, <3>1, <3>2 DEF Kept
  <2>. QED
    BY <2>3, <2>4
<1>6. ASSUME NEW n \in Message PROVE AttemptsPaid(n)'
  <2>1. n \notin AlwaysFail =>
          \A j \in Attempt :
             ready'[n][j] > 0 \/ delayed'[n][j] > 0 => j <= faults' + 1
    BY <1>1 DEF IInv, TypeOK, AttemptsPaid
  <2>2. n \notin AlwaysFail =>
          \A d \in Consumer : Busy(d)' /\ msg'[d] = n =>
              /\ attempt'[d] <= faults' + 1
              /\ pc'[d] = "failed" => attempt'[d] <= faults'
    BY DEF IInv, TypeOK, AttemptsPaid, Busy
  <2>. QED
    BY <2>1, <2>2 DEF IInv, AttemptsPaid
<1>. QED
  BY <1>2, <1>3, <1>4, <1>5, <1>6 DEF IInv

(* A step inside the handler, which moves it to l and may commit.          *)
LEMMA InsideStep ==
  ASSUME IInv, NEW c \in Consumer, pc[c] \notin {"idle", "down", "ack", "forwarded"},
         NEW l \in {"insert", "update", "commit", "duplicate", "ack", "failed"},
         Goto(c, l),
         UNCHANGED <<broker, handling, channel>>,
         processed' \subseteq Message, processed \subseteq processed',
         effects' \in [Message -> Nat], EffectOnce',
         conns' \in [Consumer -> 0..PoolSize],
         faults' \in 0..MaxFaults, faults <= faults',
         closures' \in 0..MaxClosures,
         \A d \in Consumer \ {c} : Inserting(d) => msg[d] \notin processed',
         l \in {"update", "commit"} =>
            /\ msg[c] \notin processed'
            /\ \A d \in Consumer \ {c} : Inserting(d) => msg[d] # msg[c],
         l \in {"duplicate", "ack"} => msg[c] \in processed',
         l = "failed" => msg[c] \in AlwaysFail \/ attempt[c] <= faults'
  PROVE  IInv'
<1> USE DEF broker, handling, Goto
<1>1. pc'[c] = l /\ \A d \in Consumer \ {c} : pc'[d] = pc[d]
  BY DEF IInv, TypeOK
<1>2. TypeOK'
  BY DEF IInv, TypeOK, Label
<1>3. OneInserter'
  BY <1>1 DEF IInv, OneInserter, Inserting
<1>4. ASSUME NEW d \in Consumer PROVE HandlerHolds(d)'
  <2>1. CASE d = c
    BY <1>1, <2>1 DEF IInv, HandlerHolds, Inserting, Busy
  <2>2. CASE d # c
    BY <1>1, <2>2 DEF IInv, HandlerHolds, Inserting, Busy
  <2>. QED
    BY <2>1, <2>2
<1>5. ASSUME NEW n \in Message, n \notin Invalid, published'[n] > 0
      PROVE  Kept(n)'
  <2>1. Kept(n)
    BY <1>5 DEF IInv
  <2>2. ASSUME NEW d \in Consumer, Unacked(d), msg[d] = n,
               pc[d] \notin {"ack", "forwarded"}
        PROVE  \/ n \in processed'
               \/ Unacked(d)' /\ msg'[d] = n /\ pc'[d] \notin {"ack", "forwarded"}
    BY <1>1, <2>2 DEF Unacked
  <2>. QED
    BY <2>1, <2>2 DEF Kept
<1>6. ASSUME NEW n \in Message, n \notin AlwaysFail PROVE AttemptsPaid(n)'
  <2>1. /\ \A k \in Attempt :
              ready'[n][k] > 0 \/ delayed'[n][k] > 0 => k <= faults' + 1
        /\ dead'[n] > 0 => faults' >= MaxAttempts
    <3>1. /\ faults \in Nat /\ faults' \in Nat /\ MaxAttempts \in Nat
          /\ \A k \in Attempt : k \in Nat
      BY ProcessingAssumption DEF IInv, TypeOK, Attempt
    <3>. QED
      BY <1>6, <3>1 DEF IInv, AttemptsPaid
  <2>2. ASSUME NEW d \in Consumer, Busy(d)', msg'[d] = n
        PROVE  /\ attempt'[d] <= faults' + 1
               /\ pc'[d] = "failed" => attempt'[d] <= faults'
    <3>1. Busy(d) /\ msg[d] = n
      BY <1>1, <2>2 DEF Busy
    <3>2. /\ attempt[d] <= faults + 1
          /\ pc[d] = "failed" => attempt[d] <= faults
          /\ attempt[d] \in Nat /\ faults \in Nat /\ faults' \in Nat
      BY <1>6, <3>1, ProcessingAssumption DEF IInv, TypeOK, AttemptsPaid, Attempt
    <3>3. CASE d = c
      BY <1>1, <1>6, <3>1, <3>2, <3>3
    <3>4. CASE d # c
      BY <1>1, <3>2, <3>4
    <3>. QED
      BY <3>3, <3>4
  <2>. QED
    BY <2>1, <2>2 DEF AttemptsPaid
<1>7. \A n \in Message : AttemptsPaid(n)'
  BY <1>6 DEF AttemptsPaid
<1>. QED
  BY <1>2, <1>3, <1>4, <1>5, <1>7 DEF IInv

(* The effect and the row of processed_messages are committed together.    *)
LEMMA PublishFacts ==
  ASSUME IInv, NEW c \in Consumer, pc[c] = "commit", Publish(c)
  PROVE  /\ processed' \subseteq Message /\ processed \subseteq processed'
         /\ msg[c] \in processed'
         /\ effects' \in [Message -> Nat]
         /\ EffectOnce'
         /\ \A d \in Consumer \ {c} : Inserting(d) => msg[d] \notin processed'
<1>1. msg[c] \in Message /\ msg[c] \notin processed
  BY DEF IInv, HandlerHolds, Inserting, Busy
<1>2. /\ processed' \subseteq Message /\ processed \subseteq processed'
      /\ msg[c] \in processed'
      /\ effects' \in [Message -> Nat]
  BY <1>1 DEF Publish, IInv, TypeOK
<1>3. EffectOnce'
  BY <1>1 DEF Publish, IInv, TypeOK, EffectOnce
<1>4. \A d \in Consumer \ {c} : Inserting(d) => msg[d] \notin processed'
  BY DEF Publish, IInv, HandlerHolds, OneInserter, Inserting
<1>. QED
  BY <1>2, <1>3, <1>4

(* The table and its counters are untouched by a step that does not commit.*)
LEMMA QuietFacts ==
  ASSUME IInv, UNCHANGED database
  PROVE  /\ processed' \subseteq Message /\ processed \subseteq processed'
         /\ effects' \in [Message -> Nat]
         /\ EffectOnce'
         /\ \A d \in Consumer : Inserting(d) => msg[d] \notin processed'
BY DEF IInv, TypeOK, EffectOnce, HandlerHolds, database

LEMMA HandleStep ==
  ASSUME IInv, NEW c \in Consumer,
         Begin(c) \/ Insert(c) \/ Update(c) \/ Commit(c)
  PROVE  IInv'
<1>1. /\ conns' \in [Consumer -> 0..PoolSize]
      /\ faults' \in 0..MaxFaults /\ faults <= faults'
      /\ closures' \in 0..MaxClosures
      /\ UNCHANGED <<broker, handling, channel>>
  BY ProcessingAssumption
     DEF Begin, Insert, Update, Commit, bounds, IInv, TypeOK
<1>2. CASE Begin(c)
  BY <1>1, <1>2, QuietFacts, InsideStep DEF Begin
<1>3. CASE Insert(c)
  <2>1. CASE msg[c] \in processed
    <3>1. Goto(c, "duplicate") /\ pc[c] = "insert" /\ UNCHANGED database
      BY <1>3, <2>1 DEF Insert, Conflicts
    <3>2. msg[c] \in processed'
      BY <2>1, <3>1 DEF database
    <3>. QED
      BY <1>1, <3>1, <3>2, QuietFacts, InsideStep
  <2>2. CASE msg[c] \notin processed
    <3>1. Goto(c, "update") /\ pc[c] = "insert" /\ UNCHANGED database
      BY <1>3, <2>2 DEF Insert, Conflicts
    <3>2. /\ msg[c] \notin processed'
          /\ \A d \in Consumer \ {c} : Inserting(d) => msg[d] # msg[c]
      BY <1>3, <2>2, <3>1 DEF Insert, Conflicts, database
    <3>. QED
      BY <1>1, <3>1, <3>2, QuietFacts, InsideStep
  <2>. QED
    BY <2>1, <2>2
<1>4. CASE Update(c)
  <2>1. pc[c] = "update" /\ UNCHANGED database
    BY <1>4 DEF Update
  <2>2. CASE msg[c] \in AlwaysFail
    <3>1. Goto(c, "failed")
      BY <1>4, <2>2 DEF Update
    <3>. QED
      BY <1>1, <2>1, <2>2, <3>1, QuietFacts, InsideStep
  <2>3. CASE msg[c] \notin AlwaysFail
    <3>1. Goto(c, "commit")
      BY <1>4, <2>3 DEF Update
    <3>2. /\ msg[c] \notin processed'
          /\ \A d \in Consumer \ {c} : Inserting(d) => msg[d] # msg[c]
      BY <2>1 DEF IInv, HandlerHolds, OneInserter, Inserting, database
    <3>. QED
      BY <1>1, <2>1, <3>1, <3>2, QuietFacts, InsideStep
  <2>. QED
    BY <2>2, <2>3
<1>5. CASE Commit(c)
  <2>1. Goto(c, "ack")
    BY <1>5 DEF Commit
  <2>2. CASE pc[c] = "commit" /\ Publish(c)
    BY <1>1, <2>1, <2>2, PublishFacts, InsideStep
  <2>3. CASE pc[c] = "duplicate" /\ UNCHANGED database
    <3>1. msg[c] \in processed'
      BY <2>3 DEF IInv, HandlerHolds, database
    <3>. QED
      BY <1>1, <2>1, <2>3, <3>1, QuietFacts, InsideStep
  <2>. QED
    BY <1>5, <2>2, <2>3 DEF Commit
<1>. QED
  BY <1>2, <1>3, <1>4, <1>5

LEMMA FailureStep ==
  ASSUME IInv, NEW c \in Consumer, BeginFails(c) \/ StatementFails(c)
  PROVE  IInv'
<1>1. /\ Goto(c, "failed")
      /\ UNCHANGED <<broker, handling, channel>>
      /\ pc[c] \in {"begin", "insert", "update", "commit", "duplicate"}
  BY DEF BeginFails, StatementFails
<1>2. /\ conns' \in [Consumer -> 0..PoolSize]
      /\ faults' \in 0..MaxFaults /\ faults' = faults + 1 /\ faults <= faults'
      /\ closures' \in 0..MaxClosures
  BY ProcessingAssumption DEF BeginFails, StatementFails, Fail, IInv, TypeOK
<1>3. msg[c] \in AlwaysFail \/ attempt[c] <= faults'
  <2>1. Busy(c) /\ msg[c] \in Message
    BY <1>1 DEF Busy, IInv, HandlerHolds
  <2>. QED
    BY <1>2, <2>1 DEF IInv, AttemptsPaid
<1>4. CASE pc[c] = "commit" /\ Publish(c)
  BY <1>1, <1>2, <1>3, <1>4, PublishFacts, InsideStep
<1>5. CASE UNCHANGED database
  BY <1>1, <1>2, <1>3, <1>5, QuietFacts, InsideStep
<1>. QED
  BY <1>4, <1>5 DEF BeginFails, StatementFails

(* A handler that ends without having put its message anywhere: it has     *)
(* done so before, or its channel had lost the delivery.                   *)
LEMMA LeaveStep ==
  ASSUME IInv, NEW c \in Consumer, Ack(c) \/ HandlerThrows(c)
  PROVE  IInv'
<1> USE DEF broker, database, bounds
<1>1. PICK l \in {"idle", "down"} : LeaveHandler(c, l)
  BY DEF Ack, HandlerThrows
<1>2. /\ UNCHANGED <<broker, channel, conns, database, bounds>>
      /\ pc[c] \in {"ack", "forwarded"} \/ ~Unacked(c)
  BY DEF Ack, HandlerThrows, Unacked
<1>3. /\ pc'[c] = l /\ msg'[c] = NoMessage /\ attempt'[c] = 1
      /\ \A d \in Consumer \ {c} :
            pc'[d] = pc[d] /\ msg'[d] = msg[d] /\ attempt'[d] = attempt[d]
  BY <1>1 DEF LeaveHandler, Goto, IInv, TypeOK
<1>4. TypeOK'
  <2>1. 1 \in Attempt
    BY ProcessingAssumption DEF Attempt
  <2>2. /\ pc' \in [Consumer -> Label]
        /\ msg' \in [Consumer -> Message \cup {NoMessage}]
        /\ attempt' \in [Consumer -> Attempt]
    BY <1>1, <2>1 DEF LeaveHandler, Goto, IInv, TypeOK, Label
  <2>. QED
    BY <1>2, <2>2 DEF IInv, TypeOK
<1>5. EffectOnce' /\ OneInserter'
  BY <1>2, <1>3 DEF IInv, EffectOnce, OneInserter, Inserting
<1>6. \A d \in Consumer : HandlerHolds(d)'
  BY <1>2, <1>3 DEF IInv, HandlerHolds, Inserting, Busy
<1>7. \A n \in Message : Kept(n) => Kept(n)'
  BY <1>2, <1>3 DEF Kept, Unacked
<1>8. \A n \in Message : AttemptsPaid(n)'
  BY <1>2, <1>3 DEF IInv, AttemptsPaid, Busy
<1>. QED
  BY <1>2, <1>4, <1>5, <1>6, <1>7, <1>8 DEF IInv

LEMMA ForwardStep ==
  ASSUME IInv, NEW c \in Consumer, Forward(c)
  PROVE  IInv'
<1> DEFINE m == msg[c]
<1> USE DEF Forward, Goto, handling, database, bounds
<1>1. /\ m \in Message
      /\ pc[c] = "failed"
      /\ attempt[c] \in Attempt
      /\ m \notin AlwaysFail => attempt[c] <= faults
  BY DEF IInv, TypeOK, HandlerHolds, AttemptsPaid, Busy
<1>2. pc'[c] = "forwarded" /\ \A d \in Consumer \ {c} : pc'[d] = pc[d]
  BY DEF IInv, TypeOK
<1>3. \/ /\ attempt[c] + 1 \in Attempt
         /\ delayed' = [delayed EXCEPT ![m][attempt[c] + 1] = @ + 1]
         /\ dead' = dead
      \/ /\ attempt[c] >= MaxAttempts
         /\ dead' = [dead EXCEPT ![m] = @ + 1]
         /\ delayed' = delayed
  BY <1>1, ProcessingAssumption DEF Attempt
<1>4. /\ delayed' \in [Message -> [Attempt -> Nat]]
      /\ dead' \in [Message -> Nat]
      /\ \A n \in Message, k \in Attempt : delayed'[n][k] >= delayed[n][k]
      /\ \A n \in Message : dead'[n] >= dead[n]
      /\ \A n \in Message \ {m} : dead'[n] = dead[n] /\ delayed'[n] = delayed[n]
  <2>1. CASE /\ attempt[c] + 1 \in Attempt
             /\ delayed' = [delayed EXCEPT ![m][attempt[c] + 1] = @ + 1]
             /\ dead' = dead
    BY <1>1, <1>3, <2>1 DEF IInv, TypeOK
  <2>2. CASE delayed' = delayed /\ dead' = [dead EXCEPT ![m] = @ + 1]
    BY <1>1, <2>2 DEF IInv, TypeOK
  <2>. QED
    BY <1>3, <2>1, <2>2
<1>5. /\ \A k \in Attempt : delayed'[m][k] = delayed[m][k] \/ k = attempt[c] + 1
      /\ dead'[m] = dead[m] \/ attempt[c] >= MaxAttempts
  BY <1>1, <1>3 DEF IInv, TypeOK
<1>6. Kept(m)'
  BY <1>1, <1>3 DEF Kept, IInv, TypeOK
<1>7. TypeOK'
  BY <1>4 DEF IInv, TypeOK, Label
<1>8. EffectOnce' /\ OneInserter'
  BY <1>2 DEF IInv, EffectOnce, OneInserter, Inserting
<1>9. \A d \in Consumer : HandlerHolds(d)'
  BY <1>1, <1>2 DEF IInv, HandlerHolds, Inserting, Busy
<1>10. ASSUME NEW n \in Message \ {m}, Kept(n) PROVE Kept(n)'
  BY <1>2, <1>4, <1>10 DEF Kept, Unacked
<1>11. ASSUME NEW n \in Message, n \notin AlwaysFail PROVE AttemptsPaid(n)'
  <2>1. \A d \in Consumer : Busy(d)' /\ msg'[d] = n =>
            /\ attempt'[d] <= faults' + 1
            /\ pc'[d] = "failed" => attempt'[d] <= faults'
    BY <1>1, <1>2, <1>11 DEF IInv, AttemptsPaid, Busy
  <2>2. CASE n # m
    BY <1>4, <1>11, <2>1, <2>2 DEF IInv, AttemptsPaid
  <2>3. CASE n = m
    <3>1. attempt[c] \in Nat /\ faults \in Nat /\ MaxAttempts \in Nat
      BY <1>1, ProcessingAssumption DEF Attempt, IInv, TypeOK
    <3>2. \A k \in Attempt :
              ready'[m][k] > 0 \/ delayed'[m][k] > 0 => k <= faults' + 1
      BY <1>1, <1>5, <1>11, <2>3, <3>1 DEF IInv, AttemptsPaid
    <3>3. dead'[m] > 0 => faults' >= MaxAttempts
      BY <1>1, <1>5, <1>11, <2>3, <3>1 DEF IInv, AttemptsPaid
    <3>. QED
      BY <2>1, <2>3, <3>2, <3>3 DEF AttemptsPaid
  <2>. QED
    BY <2>2, <2>3
<1>12. \A n \in Message : AttemptsPaid(n)'
  BY <1>11 DEF AttemptsPaid
<1>. QED
  BY <1>6, <1>7, <1>8, <1>9, <1>10, <1>12 DEF IInv

LEMMA ExpireStep ==
  ASSUME IInv, NEW m \in Message, NEW k \in Attempt, Expire(m, k)
  PROVE  IInv'
<1> USE DEF Expire, handling, database, bounds
<1>1. /\ ready' \in [Message -> [Attempt -> Nat]]
      /\ ready'[m][k] > 0
      /\ \A n \in Message, j \in Attempt : ready'[n][j] >= ready[n][j]
      /\ \A n \in Message, j \in Attempt :
            n # m \/ j # k => ready'[n][j] = ready[n][j]
  BY PutReadyFacts DEF IInv
<1>2. /\ delayed' \in [Message -> [Attempt -> Nat]]
      /\ \A n \in Message, j \in Attempt :
            /\ delayed'[n][j] <= delayed[n][j]
            /\ n # m \/ j # k => delayed'[n][j] = delayed[n][j]
  BY DEF IInv, TypeOK
<1>3. TypeOK'
  BY <1>1, <1>2 DEF IInv, TypeOK
<1>4. EffectOnce' /\ OneInserter' /\ \A c \in Consumer : HandlerHolds(c)'
  BY DEF IInv, EffectOnce, OneInserter, HandlerHolds, Inserting, Busy
<1>5. ASSUME NEW n \in Message, Kept(n) PROVE Kept(n)'
  <2>1. \A j \in Attempt : ready[n][j] > 0 => ready'[n][j] > 0
    BY <1>1 DEF IInv, TypeOK
  <2>2. \A j \in Attempt :
            delayed[n][j] > 0 => ready'[n][j] > 0 \/ delayed'[n][j] > 0
    BY <1>1, <1>2
  <2>. QED
    BY <1>5, <2>1, <2>2 DEF Kept, Unacked
<1>6. ASSUME NEW n \in Message, n \notin AlwaysFail PROVE AttemptsPaid(n)'
  <2>1. ASSUME NEW j \in Attempt, ready'[n][j] > 0 \/ delayed'[n][j] > 0
        PROVE  j <= faults' + 1
    <3>1. ready[n][j] > 0 \/ delayed[n][j] > 0
      BY <1>1, <1>2, <2>1 DEF IInv, TypeOK
    <3>. QED
      BY <1>6, <3>1 DEF IInv, AttemptsPaid
  <2>. QED
    BY <1>6, <2>1 DEF IInv, AttemptsPaid, Busy
<1>7. \A n \in Message : AttemptsPaid(n)'
  BY <1>6 DEF AttemptsPaid
<1>. QED
  BY <1>3, <1>4, <1>5, <1>7 DEF IInv

(* A bound survives when what bounds it grows.                              *)
LEMMA StaysBelow ==
  ASSUME NEW j \in Nat, NEW f \in Nat, NEW g \in Nat, f <= g, j <= f + 1
  PROVE  j <= g + 1
OBVIOUS

(* The broker takes back what the channel of c had not acknowledged.       *)
LEMMA RequeueFacts ==
  ASSUME IInv, NEW c \in Consumer, Requeue(c), faults' \in Nat, faults <= faults',
         UNCHANGED <<delayed, dead>>
  PROVE  /\ ready' \in [Message -> [Attempt -> Nat]]
         /\ \A n \in Message, j \in Attempt : ready'[n][j] >= ready[n][j]
         /\ Unacked(c) => msg[c] \in Message /\ ready'[msg[c]][attempt[c]] > 0
         /\ \A n \in Message \ AlwaysFail : \A j \in Attempt :
               ready'[n][j] > 0 \/ delayed'[n][j] > 0 => j <= faults' + 1
<1>1. CASE Unacked(c)
  <2>1. /\ Busy(c) /\ msg[c] \in Message /\ attempt[c] \in Attempt
        /\ PutReady(msg[c], attempt[c])
    BY <1>1 DEF Requeue, Unacked, Busy, IInv, TypeOK, HandlerHolds
  <2>2. /\ ready' \in [Message -> [Attempt -> Nat]]
        /\ ready'[msg[c]][attempt[c]] > 0
        /\ \A n \in Message, j \in Attempt : ready'[n][j] >= ready[n][j]
        /\ \A n \in Message, j \in Attempt :
              n # msg[c] \/ j # attempt[c] => ready'[n][j] = ready[n][j]
    BY <2>1, PutReadyFacts DEF IInv
  <2>3. ASSUME NEW n \in Message \ AlwaysFail, NEW j \in Attempt,
               ready'[n][j] > 0 \/ delayed'[n][j] > 0
        PROVE  j <= faults' + 1
    <3>1. /\ AttemptsPaid(n)
          /\ j \in Nat /\ faults \in Nat /\ faults' \in Nat /\ faults <= faults'
      BY ProcessingAssumption DEF IInv, TypeOK, Attempt
    <3>2. CASE n = msg[c] /\ j = attempt[c]
      BY <2>1, <3>1, <3>2 DEF AttemptsPaid
    <3>3. CASE n # msg[c] \/ j # attempt[c]
      <4>1. ready[n][j] > 0 \/ delayed[n][j] > 0
        BY <2>2, <2>3, <3>3
      <4>2. j <= faults + 1
        BY <3>1, <4>1 DEF AttemptsPaid
      <4>. QED
        BY <3>1, <4>2, StaysBelow
    <3>. QED
      BY <3>2, <3>3
  <2>. QED
    BY <2>1, <2>2, <2>3
<1>2. CASE ~Unacked(c)
  <2>1. ready' = ready
    BY <1>2 DEF Requeue
  <2>2. ASSUME NEW n \in Message \ AlwaysFail, NEW j \in Attempt,
               ready'[n][j] > 0 \/ delayed'[n][j] > 0
        PROVE  j <= faults' + 1
    <3>1. /\ AttemptsPaid(n)
          /\ j \in Nat /\ faults \in Nat /\ faults' \in Nat /\ faults <= faults'
      BY ProcessingAssumption DEF IInv, TypeOK, Attempt
    <3>2. ready[n][j] > 0 \/ delayed[n][j] > 0
      BY <2>1, <2>2
    <3>3. j <= faults + 1
      BY <3>1, <3>2 DEF AttemptsPaid
    <3>. QED
      BY <3>1, <3>3, StaysBelow
  <2>. QED
    BY <1>2, <2>1, <2>2 DEF IInv, TypeOK
<1>. QED
  BY <1>1, <1>2

LEMMA CrashStep ==
  ASSUME IInv, NEW c \in Consumer, Crash(c)
  PROVE  IInv'
<1> USE DEF Crash, Fail, LeaveHandler, Goto, database
<1>1. /\ faults \in Nat /\ faults' = faults + 1 /\ faults' \in 0..MaxFaults
      /\ MaxAttempts \in Nat
  BY ProcessingAssumption DEF IInv, TypeOK
<1>2. /\ ready' \in [Message -> [Attempt -> Nat]]
      /\ \A n \in Message, j \in Attempt : ready'[n][j] >= ready[n][j]
      /\ Unacked(c) => msg[c] \in Message /\ ready'[msg[c]][attempt[c]] > 0
      /\ \A n \in Message \ AlwaysFail : \A j \in Attempt :
            ready'[n][j] > 0 \/ delayed'[n][j] > 0 => j <= faults' + 1
  BY <1>1, RequeueFacts
<1>3. /\ pc'[c] = "down" /\ msg'[c] = NoMessage
      /\ \A d \in Consumer \ {c} :
            /\ pc'[d] = pc[d] /\ msg'[d] = msg[d]
            /\ attempt'[d] = attempt[d] /\ channel'[d] = channel[d]
  BY DEF IInv, TypeOK
<1>4. TypeOK'
  <2>1. 1 \in Attempt
    BY ProcessingAssumption DEF Attempt
  <2>2. /\ pc' \in [Consumer -> Label]
        /\ msg' \in [Consumer -> Message \cup {NoMessage}]
        /\ attempt' \in [Consumer -> Attempt]
        /\ channel' \in [Consumer -> {"open", "closed"}]
    BY <2>1 DEF IInv, TypeOK, Label
  <2>. QED
    BY <1>1, <1>2, <2>2 DEF IInv, TypeOK
<1>5. EffectOnce' /\ OneInserter'
  BY <1>3 DEF IInv, EffectOnce, OneInserter, Inserting
<1>6. \A d \in Consumer : HandlerHolds(d)'
  BY <1>3 DEF IInv, HandlerHolds, Inserting, Busy
<1>7. ASSUME NEW n \in Message, Kept(n) PROVE Kept(n)'
  <2>1. \A j \in Attempt : ready[n][j] > 0 => ready'[n][j] > 0
    BY <1>2 DEF IInv, TypeOK
  <2>2. ASSUME NEW d \in Consumer, Unacked(d), msg[d] = n
        PROVE  \/ \E j \in Attempt : ready'[n][j] > 0
               \/ /\ Unacked(d)' /\ msg'[d] = n
                  /\ pc'[d] = pc[d]
    <3>1. CASE d = c
      BY <1>2, <2>2, <3>1 DEF IInv, TypeOK
    <3>2. CASE d # c
      BY <1>3, <2>2, <3>2 DEF Unacked
    <3>. QED
      BY <3>1, <3>2
  <2>. QED
    BY <1>7, <2>1, <2>2 DEF Kept
<1>8. ASSUME NEW n \in Message, n \notin AlwaysFail PROVE AttemptsPaid(n)'
  <2>1. \A d \in Consumer : Busy(d)' /\ msg'[d] = n =>
            /\ attempt'[d] <= faults' + 1
            /\ pc'[d] = "failed" => attempt'[d] <= faults'
    <3>1. \A d \in Consumer : attempt[d] \in Nat
      BY ProcessingAssumption DEF IInv, TypeOK, Attempt
    <3>. QED
      BY <1>1, <1>3, <1>8, <3>1 DEF IInv, AttemptsPaid, Busy
  <2>2. dead'[n] > 0 => faults' >= MaxAttempts
    BY <1>1, <1>8 DEF IInv, AttemptsPaid
  <2>. QED
    BY <1>2, <1>8, <2>1, <2>2 DEF AttemptsPaid
<1>9. \A n \in Message : AttemptsPaid(n)'
  BY <1>8 DEF AttemptsPaid
<1>. QED
  BY <1>4, <1>5, <1>6, <1>7, <1>9 DEF IInv

LEMMA ChannelClosesStep ==
  ASSUME IInv, NEW c \in Consumer, ChannelCloses(c)
  PROVE  IInv'
<1> USE DEF ChannelCloses, handling, database
<1>1. faults \in Nat /\ closures' \in 0..MaxClosures
  BY ProcessingAssumption DEF IInv, TypeOK
<1>2. /\ ready' \in [Message -> [Attempt -> Nat]]
      /\ \A n \in Message, j \in Attempt : ready'[n][j] >= ready[n][j]
      /\ Unacked(c) => msg[c] \in Message /\ ready'[msg[c]][attempt[c]] > 0
      /\ \A n \in Message \ AlwaysFail : \A j \in Attempt :
            ready'[n][j] > 0 \/ delayed'[n][j] > 0 => j <= faults' + 1
  BY <1>1, RequeueFacts
<1>3. \A d \in Consumer \ {c} : channel'[d] = channel[d]
  BY DEF IInv, TypeOK
<1>4. TypeOK'
  BY <1>1, <1>2 DEF IInv, TypeOK
<1>5. EffectOnce' /\ OneInserter' /\ \A d \in Consumer : HandlerHolds(d)'
  BY DEF IInv, EffectOnce, OneInserter, HandlerHolds, Inserting, Busy
<1>6. ASSUME NEW n \in Message, Kept(n) PROVE Kept(n)'
  <2>1. \A j \in Attempt : ready[n][j] > 0 => ready'[n][j] > 0
    BY <1>2 DEF IInv, TypeOK
  <2>2. ASSUME NEW d \in Consumer, Unacked(d), msg[d] = n
        PROVE  (\E j \in Attempt : ready'[n][j] > 0) \/ Unacked(d)'
    <3>1. CASE d = c
      BY <1>2, <2>2, <3>1 DEF IInv, TypeOK
    <3>2. CASE d # c
      BY <1>3, <2>2, <3>2 DEF Unacked
    <3>. QED
      BY <3>1, <3>2
  <2>. QED
    BY <1>6, <2>1, <2>2 DEF Kept
<1>7. \A n \in Message : AttemptsPaid(n)'
  BY <1>2 DEF IInv, AttemptsPaid, Busy
<1>. QED
  BY <1>4, <1>5, <1>6, <1>7 DEF IInv

LEMMA RestartStep ==
  ASSUME IInv, NEW c \in Consumer, Restart(c)
  PROVE  IInv'
<1> USE DEF Restart, Goto, broker, handling, database, bounds
<1>1. TypeOK'
  BY ProcessingAssumption DEF IInv, TypeOK, Label
<1>2. /\ pc[c] = "down" /\ pc'[c] = "idle"
      /\ \A d \in Consumer \ {c} : pc'[d] = pc[d] /\ channel'[d] = channel[d]
  BY DEF IInv, TypeOK
<1>3. EffectOnce' /\ OneInserter'
  BY <1>2 DEF IInv, EffectOnce, OneInserter, Inserting
<1>4. \A d \in Consumer : HandlerHolds(d)'
  BY <1>2 DEF IInv, HandlerHolds, Inserting, Busy
<1>5. \A n \in Message : Kept(n) => Kept(n)'
  BY <1>2 DEF Kept, Unacked
<1>6. \A n \in Message : AttemptsPaid(n)'
  BY <1>2 DEF IInv, AttemptsPaid, Busy
<1>. QED
  BY <1>1, <1>3, <1>4, <1>5, <1>6 DEF IInv

LEMMA StutterStep ==
  ASSUME IInv, UNCHANGED vars
  PROVE  IInv'
BY DEF IInv, TypeOK, EffectOnce, OneInserter, HandlerHolds, Inserting, Busy,
       Kept, Unacked, AttemptsPaid, vars

(* The invariant holds in every reachable state.                           *)
THEOREM Invariance == Spec => []IInv
<1>1. ASSUME IInv, [Next]_vars PROVE IInv'
  <2>1. CASE \E m \in Message : Arrive(m)
    BY <1>1, <2>1, ArriveStep
  <2>2. CASE \E m \in Message, k \in Attempt : Expire(m, k)
    BY <1>1, <2>2, ExpireStep
  <2>3. CASE \E c \in Consumer : Consume(c)
    BY <1>1, <2>3, DeliverStep DEF Consume
  <2>4. CASE \E c \in Consumer : Handle(c)
    BY <1>1, <2>4, HandleStep, LeaveStep, ForwardStep DEF Handle
  <2>5. CASE \E c \in Consumer : BeginFails(c) \/ StatementFails(c)
    BY <1>1, <2>5, FailureStep
  <2>6. CASE \E c \in Consumer : Crash(c) \/ Restart(c) \/ ChannelCloses(c)
    BY <1>1, <2>6, CrashStep, RestartStep, ChannelClosesStep
  <2>7. CASE UNCHANGED vars
    BY <1>1, <2>7, StutterStep
  <2>. QED
    BY <1>1, <2>1, <2>2, <2>3, <2>4, <2>5, <2>6, <2>7 DEF Next, Terminating
<1>. QED
  BY <1>1, InitIInv, PTL DEF Spec

(* Every variable keeps its type; no attempt number passes the limit.      *)
THEOREM TypeCorrect == Spec => []TypeOK
<1>1. IInv => TypeOK
  BY DEF IInv
<1>. QED
  BY <1>1, Invariance, PTL

(* One effect for each message, whatever is published twice, redelivered   *)
(* or retried, by however many workers.                                    *)
THEOREM OneEffect == Spec => []EffectOnce
<1>1. IInv => EffectOnce
  BY DEF IInv
<1>. QED
  BY <1>1, Invariance, PTL

(* No crash and no closed channel loses a message.                         *)
THEOREM NoMessageIsLost == Spec => []NothingLost
<1>1. ASSUME IInv, NEW m \in Message, Kept(m)
      PROVE  \/ m \in processed
             \/ dead[m] > 0
             \/ \E k \in Attempt : ready[m][k] + delayed[m][k] > 0
             \/ \E c \in Consumer : Unacked(c) /\ msg[c] = m
  <2>1. \A k \in Attempt : ready[m][k] \in Nat /\ delayed[m][k] \in Nat
    BY <1>1 DEF IInv, TypeOK
  <2>. QED
    BY <1>1, <2>1 DEF Kept
<1>2. IInv => NothingLost
  BY <1>1 DEF IInv, NothingLost
<1>. QED
  BY <1>2, Invariance, PTL

(* A message that can succeed is dead-lettered only after as many failures *)
(* as it has attempts.                                                     *)
THEOREM DeadLettersHaveCause == Spec => []DeadHasCause
<1>1. IInv => DeadHasCause
  BY DEF IInv, AttemptsPaid, DeadHasCause
<1>. QED
  BY <1>1, Invariance, PTL

(* Within an inside step, queues, messages and channels stay as they are.  *)
LEMMA InsideTraced ==
  ASSUME IInv, Traced, NEW c \in Consumer, Busy(c), NEW l \in Label, Goto(c, l),
         UNCHANGED <<broker, handling>>,
         l = "commit" => msg[c] \notin AlwaysFail
  PROVE  Traced'
<1>1. pc'[c] = l /\ \A d \in Consumer \ {c} : pc'[d] = pc[d]
  BY DEF Goto, IInv, TypeOK
<1>2. ASSUME NEW d \in Consumer
      PROVE  /\ Busy(d)' => published[msg[d]] > 0 /\ msg[d] \notin Invalid
             /\ pc'[d] = "commit" => msg[d] \notin AlwaysFail
  BY <1>1 DEF Traced, Busy
<1>. QED
  BY <1>2 DEF Traced, broker, handling

(* The queues lose nothing but what they pass on, and handlers only end.   *)
LEMMA QueuesTraced ==
  ASSUME Traced, published' = published,
         \A m \in Message, k \in Attempt :
            ready'[m][k] > 0 \/ delayed'[m][k] > 0 =>
               published[m] > 0,
         \A d \in Consumer :
            /\ Busy(d)' => Busy(d) /\ msg'[d] = msg[d]
            /\ pc'[d] = "commit" => pc[d] = "commit" /\ msg'[d] = msg[d]
  PROVE  Traced'
BY DEF Traced

LEMMA TracedStep ==
  ASSUME IInv, Traced, [Next]_vars
  PROVE  Traced'
<1>1. CASE \E m \in Message : Arrive(m)
  <2>1. PICK m \in Message : Arrive(m)
    BY <1>1
  <2>2. 1 \in Attempt
    BY ProcessingAssumption DEF Attempt
  <2>3. /\ \A n \in Message \ {m} : published'[n] = published[n]
        /\ published'[m] > 0
        /\ \A n \in Message : published'[n] \in Nat /\ published'[n] >= published[n]
    BY <2>1 DEF Arrive, IInv, TypeOK
  <2>4. \A n \in Message \ {m}, j \in Attempt : ready'[n][j] = ready[n][j]
    BY <2>1, <2>2, PutReadyFacts DEF Arrive, IInv
  <2>5. /\ delayed' = delayed
        /\ \A d \in Consumer : (Busy(d)' <=> Busy(d)) /\ msg'[d] = msg[d] /\ pc'[d] = pc[d]
    BY <2>1 DEF Arrive, handling, Busy
  <2>6. \A d \in Consumer : Busy(d) => msg[d] \in Message
    BY DEF IInv, HandlerHolds
  <2>7. \A n \in Message, k \in Attempt :
           ready'[n][k] > 0 \/ delayed'[n][k] > 0 => published'[n] > 0
    BY <2>3, <2>4, <2>5 DEF Traced
  <2>8. \A n \in Message : published[n] > 0 => published'[n] > 0
    BY <2>3
  <2>9. \A d \in Consumer :
           /\ Busy(d)' => published'[msg'[d]] > 0 /\ msg'[d] \notin Invalid
           /\ pc'[d] = "commit" => msg'[d] \notin AlwaysFail
    BY <2>5, <2>6, <2>8 DEF Traced
  <2>. QED
    BY <2>7, <2>9 DEF Traced
<1>2. CASE \E m \in Message, k \in Attempt : Expire(m, k)
  <2>1. PICK m \in Message, k \in Attempt : Expire(m, k)
    BY <1>2
  <2>2. \A n \in Message, j \in Attempt :
           /\ n # m \/ j # k => ready'[n][j] = ready[n][j]
           /\ delayed'[n][j] > 0 => delayed[n][j] > 0
    BY <2>1, PutReadyFacts DEF Expire, IInv, TypeOK
  <2>3. published[m] > 0 /\ published' = published
    BY <2>1 DEF Expire, Traced
  <2>4. \A n \in Message, j \in Attempt :
           ready'[n][j] > 0 \/ delayed'[n][j] > 0 => published[n] > 0
    BY <2>2, <2>3 DEF Traced
  <2>5. \A d \in Consumer : (Busy(d)' <=> Busy(d)) /\ msg'[d] = msg[d] /\ pc'[d] = pc[d]
    BY <2>1 DEF Expire, handling, Busy
  <2>. QED
    BY <2>3, <2>4, <2>5, QueuesTraced
<1>3. ASSUME NEW c \in Consumer, Consume(c) PROVE Traced'
  <2>1. PICK m \in Message, k \in Attempt : Deliver(c, m, k)
    BY <1>3 DEF Consume
  <2>2. published[m] > 0 /\ published' = published /\ delayed' = delayed
    BY <2>1 DEF Deliver, Traced
  <2>3. \A n \in Message, j \in Attempt : ready'[n][j] > 0 => ready[n][j] > 0
    BY <2>1 DEF Deliver, IInv, TypeOK
  <2>4. \A d \in Consumer \ {c} : pc'[d] = pc[d] /\ msg'[d] = msg[d]
    BY <2>1 DEF Deliver, Goto, handling, IInv, TypeOK
  <2>5. \/ pc'[c] = "idle"
        \/ pc'[c] = "begin" /\ msg'[c] = m /\ m \notin Invalid
    BY <2>1 DEF Deliver, Goto, handling, IInv, TypeOK
  <2>6. \A n \in Message, j \in Attempt :
           ready'[n][j] > 0 \/ delayed'[n][j] > 0 => published'[n] > 0
    BY <2>2, <2>3 DEF Traced
  <2>7. \A d \in Consumer :
           /\ Busy(d)' => published'[msg'[d]] > 0 /\ msg'[d] \notin Invalid
           /\ pc'[d] = "commit" => msg'[d] \notin AlwaysFail
    BY <2>2, <2>4, <2>5 DEF Traced, Busy
  <2>. QED
    BY <2>6, <2>7 DEF Traced
<1>4. ASSUME NEW c \in Consumer, Begin(c) \/ Insert(c) \/ Update(c) \/ Commit(c)
      PROVE  Traced'
  <2>1. Busy(c) /\ UNCHANGED <<broker, handling>>
    BY <1>4 DEF Begin, Insert, Update, Commit, Busy
  <2>2. PICK l \in Label : Goto(c, l) /\ (l = "commit" => msg[c] \notin AlwaysFail)
    BY <1>4 DEF Begin, Insert, Update, Commit, Label
  <2>. QED
    BY <2>1, <2>2, InsideTraced
<1>5. ASSUME NEW c \in Consumer, BeginFails(c) \/ StatementFails(c)
      PROVE  Traced'
  <2>1. Busy(c) /\ UNCHANGED <<broker, handling>> /\ Goto(c, "failed")
    BY <1>5 DEF BeginFails, StatementFails, Busy
  <2>2. "failed" \in Label
    BY DEF Label
  <2>. QED
    BY <2>1, <2>2, InsideTraced
<1>6. ASSUME NEW c \in Consumer, Ack(c) \/ HandlerThrows(c)
      PROVE  Traced'
  <2>1. PICK l \in {"idle", "down"} : LeaveHandler(c, l)
    BY <1>6 DEF Ack, HandlerThrows
  <2>2. UNCHANGED broker
    BY <1>6 DEF Ack, HandlerThrows
  <2>3. /\ pc'[c] = l
        /\ \A d \in Consumer \ {c} : pc'[d] = pc[d] /\ msg'[d] = msg[d]
    BY <2>1 DEF LeaveHandler, Goto, IInv, TypeOK
  <2>4. \A d \in Consumer :
            /\ Busy(d)' => Busy(d) /\ msg'[d] = msg[d]
            /\ pc'[d] = "commit" => pc[d] = "commit" /\ msg'[d] = msg[d]
    BY <2>3 DEF Busy
  <2>. QED
    BY <2>2, <2>4, QueuesTraced DEF broker, Traced
<1>7. ASSUME NEW c \in Consumer, Forward(c)
      PROVE  Traced'
  <2>1. msg[c] \in Message /\ published[msg[c]] > 0 /\ published' = published
    BY <1>7 DEF Forward, Traced, Busy, IInv, HandlerHolds
  <2>2. /\ pc'[c] = "forwarded"
        /\ \A d \in Consumer \ {c} : pc'[d] = pc[d]
        /\ msg' = msg /\ ready' = ready
    BY <1>7 DEF Forward, Goto, handling, IInv, TypeOK
  <2>3. \A n \in Message \ {msg[c]} : delayed'[n] = delayed[n]
    BY <1>7 DEF Forward, IInv, TypeOK
  <2>4. \A n \in Message, j \in Attempt :
           ready'[n][j] > 0 \/ delayed'[n][j] > 0 => published[n] > 0
    BY <2>1, <2>2, <2>3 DEF Traced
  <2>5. \A d \in Consumer :
            /\ Busy(d)' => Busy(d) /\ msg'[d] = msg[d]
            /\ pc'[d] = "commit" => pc[d] = "commit" /\ msg'[d] = msg[d]
    BY <1>7, <2>2 DEF Busy, Forward
  <2>. QED
    BY <2>1, <2>4, <2>5, QueuesTraced
<1>8. ASSUME NEW c \in Consumer, Crash(c) \/ ChannelCloses(c)
      PROVE  Traced'
  <2>1. Requeue(c) /\ published' = published /\ delayed' = delayed
    BY <1>8 DEF Crash, ChannelCloses
  <2>2. \A n \in Message, j \in Attempt : ready'[n][j] > 0 => published[n] > 0
    <3>1. CASE Unacked(c)
      <4>1. /\ Busy(c) /\ msg[c] \in Message /\ attempt[c] \in Attempt
            /\ PutReady(msg[c], attempt[c])
        BY <2>1, <3>1 DEF Requeue, Unacked, Busy, IInv, TypeOK, HandlerHolds
      <4>2. \A n \in Message \ {msg[c]}, j \in Attempt : ready'[n][j] = ready[n][j]
        BY <4>1, PutReadyFacts DEF IInv
      <4>. QED
        BY <4>1, <4>2 DEF Traced
    <3>2. CASE ~Unacked(c)
      BY <2>1, <3>2 DEF Requeue, Traced
    <3>. QED
      BY <3>1, <3>2
  <2>3. \A d \in Consumer :
            /\ pc'[d] = "down" \/ (pc'[d] = pc[d] /\ msg'[d] = msg[d])
    BY <1>8 DEF Crash, ChannelCloses, LeaveHandler, Goto, handling, IInv, TypeOK
  <2>4. \A d \in Consumer :
            /\ Busy(d)' => Busy(d) /\ msg'[d] = msg[d]
            /\ pc'[d] = "commit" => pc[d] = "commit" /\ msg'[d] = msg[d]
    BY <2>3 DEF Busy
  <2>5. \A n \in Message, j \in Attempt :
           ready'[n][j] > 0 \/ delayed'[n][j] > 0 => published[n] > 0
    BY <2>1, <2>2 DEF Traced
  <2>. QED
    BY <2>1, <2>4, <2>5, QueuesTraced
<1>9. ASSUME NEW c \in Consumer, Restart(c)
      PROVE  Traced'
  <2>1. UNCHANGED <<broker, handling>>
    BY <1>9 DEF Restart
  <2>2. pc'[c] = "idle" /\ \A d \in Consumer \ {c} : pc'[d] = pc[d]
    BY <1>9 DEF Restart, Goto, IInv, TypeOK
  <2>3. \A d \in Consumer :
            /\ Busy(d)' => Busy(d) /\ msg'[d] = msg[d]
            /\ pc'[d] = "commit" => pc[d] = "commit" /\ msg'[d] = msg[d]
    BY <2>1, <2>2 DEF Busy, handling
  <2>. QED
    BY <2>1, <2>3, QueuesTraced DEF broker, Traced
<1>10. CASE UNCHANGED vars
  BY <1>10 DEF vars, Traced, Busy
<1>. QED
  BY <1>1, <1>2, <1>3, <1>4, <1>5, <1>6, <1>7, <1>8, <1>9, <1>10
     DEF Next, Handle, Terminating

(* A message stays in hand if each queue and each handler that has it      *)
(* passes it on or keeps it.                                               *)
LEMMA InHand ==
  /\ \A m \in Message : m \in Waiting <=>
        \/ \E k \in Attempt : ready[m][k] > 0 \/ delayed[m][k] > 0
        \/ \E c \in Consumer : Unacked(c) /\ msg[c] = m
  /\ Waiting \subseteq Message
BY DEF Waiting

LEMMA InHandNext ==
  /\ \A m \in Message : m \in Waiting' <=>
        \/ \E k \in Attempt : ready'[m][k] > 0 \/ delayed'[m][k] > 0
        \/ \E c \in Consumer : Unacked(c)' /\ msg'[c] = m
  /\ Waiting' \subseteq Message
BY DEF Waiting

LEMMA SameSent == published' = published => Sent' = Sent
BY DEF Sent

(* A step that moves no message and no handler from one side to the other. *)
LEMMA SameWaiting ==
  ASSUME UNCHANGED <<ready, delayed>>,
         \A c \in Consumer : Unacked(c)' <=> Unacked(c),
         \A c \in Consumer : Unacked(c) => msg'[c] = msg[c]
  PROVE  Waiting' = Waiting
BY InHand, InHandNext

LEMMA InsideWaits ==
  ASSUME IInv, NEW c \in Consumer, Busy(c), NEW l \in Label \ {"idle", "down"},
         Goto(c, l), UNCHANGED <<broker, handling, channel>>
  PROVE  Waiting' = Waiting /\ Sent' = Sent /\ dead' = dead
<1>1. pc'[c] = l /\ \A d \in Consumer \ {c} : pc'[d] = pc[d]
  BY DEF Goto, IInv, TypeOK
<1>2. \A d \in Consumer : Unacked(d)' <=> Unacked(d)
  BY <1>1 DEF Busy, Unacked
<1>. QED
  BY <1>2, SameWaiting, SameSent DEF broker, handling

LEMMA ArriveSends ==
  ASSUME IInv, NEW m \in Message, Arrive(m)
  PROVE  Queue!Send(m)
<1>1. 1 \in Attempt
  BY ProcessingAssumption DEF Attempt
<1>2. /\ ready'[m][1] > 0
      /\ \A n \in Message \ {m}, j \in Attempt : ready'[n][j] = ready[n][j]
      /\ delayed' = delayed
  BY <1>1, PutReadyFacts DEF Arrive, IInv
<1>3. /\ \A d \in Consumer : Unacked(d)' <=> Unacked(d)
      /\ msg' = msg
  BY DEF Arrive, handling, Unacked
<1>4. Waiting' = Waiting \cup {m}
  BY <1>1, <1>2, <1>3, InHand, InHandNext
<1>5. /\ published'[m] > 0
      /\ \A n \in Message \ {m} : published'[n] = published[n]
  BY DEF Arrive, IInv, TypeOK
<1>6. Sent' = Sent \cup {m}
  BY <1>5 DEF Sent
<1>. QED
  BY <1>4, <1>6 DEF Queue!Send, Arrive, database, bounds

LEMMA ExpireHides ==
  ASSUME IInv, NEW m \in Message, NEW k \in Attempt, Expire(m, k)
  PROVE  Waiting' = Waiting
<1>1. /\ ready'[m][k] > 0
      /\ \A n \in Message, j \in Attempt :
            n # m \/ j # k => ready'[n][j] = ready[n][j]
  BY PutReadyFacts DEF Expire, IInv
<1>2. /\ delayed[m][k] > 0
      /\ \A n \in Message, j \in Attempt :
            n # m \/ j # k => delayed'[n][j] = delayed[n][j]
  BY DEF Expire, IInv, TypeOK
<1>3. /\ \A d \in Consumer : Unacked(d)' <=> Unacked(d)
      /\ msg' = msg
  BY DEF Expire, handling, Unacked
<1>4. m \in Waiting /\ m \in Waiting'
  BY <1>1, <1>2, InHand, InHandNext
<1>5. \A n \in Message \ {m} : n \in Waiting' <=> n \in Waiting
  BY <1>1, <1>2, <1>3, InHand, InHandNext
<1>. QED
  BY <1>4, <1>5, InHand, InHandNext

(* A delivery is hidden in the queue, or one nobody can parse leaves it.   *)
LEMMA DeliverLeavesOrHides ==
  ASSUME IInv, NEW c \in Consumer, NEW m \in Message, NEW k \in Attempt,
         Deliver(c, m, k)
  PROVE  Waiting' = Waiting \/ Queue!Leave(m)
<1>1. /\ ready[m][k] > 0
      /\ \A n \in Message \ {m}, j \in Attempt : ready'[n][j] = ready[n][j]
      /\ delayed' = delayed
  BY DEF Deliver, IInv, TypeOK
<1>2. /\ ~Unacked(c)
      /\ \A d \in Consumer \ {c} : (Unacked(d)' <=> Unacked(d)) /\ msg'[d] = msg[d]
  BY DEF Deliver, Goto, handling, Unacked, IInv, TypeOK
<1>3. \/ m \in Invalid /\ ~Unacked(c)'
      \/ Unacked(c)' /\ msg'[c] = m
  BY DEF Deliver, Goto, handling, Unacked, IInv, TypeOK
<1>4. m \in Waiting
  BY <1>1, InHand
<1>5. \A n \in Message \ {m} : n \in Waiting' <=> n \in Waiting
  BY <1>1, <1>2, <1>3, InHand, InHandNext
<1>6. CASE m \in Waiting'
  BY <1>4, <1>5, <1>6, InHand, InHandNext
<1>7. CASE m \notin Waiting'
  <2>1. m \in Invalid
    BY <1>3, <1>7, InHandNext
  <2>2. Waiting' = Waiting \ {m}
    BY <1>4, <1>5, <1>7, InHand, InHandNext
  <2>3. Sent' = Sent
    BY SameSent DEF Deliver
  <2>. QED
    BY <1>4, <2>1, <2>2, <2>3 DEF Queue!Leave, Deliver, database, bounds
<1>. QED
  BY <1>6, <1>7

(* A commit is the one effect of a message that was sent and can succeed.  *)
LEMMA CommitTakesEffect ==
  ASSUME IInv, Traced, NEW c \in Consumer, pc[c] = "commit", Publish(c),
         Waiting' = Waiting, Sent' = Sent, dead' = dead,
         faults' \in {faults, faults + 1}
  PROVE  Queue!TakeEffect(msg[c])
<1>1. msg[c] \in Message /\ msg[c] \notin processed
  BY DEF IInv, HandlerHolds, Inserting, Busy
<1>2. msg[c] \in Sent \ (Invalid \cup AlwaysFail)
  BY <1>1 DEF Traced, Busy, Sent
<1>3. effects[msg[c]] = 0
  BY <1>1 DEF IInv, EffectOnce
<1>4. effects' = [effects EXCEPT ![msg[c]] = 1]
  BY <1>1, <1>3 DEF Publish, IInv, TypeOK
<1>. QED
  BY <1>2, <1>3, <1>4 DEF Queue!TakeEffect

(* A handler that ends gives its delivery up for good, if no queue and no  *)
(* other handler has another of the message: then the message has taken    *)
(* effect or is in the dead-letter queue.                                  *)
LEMMA EndLeavesOrHides ==
  ASSUME IInv, Traced, NEW c \in Consumer, Ack(c) \/ HandlerThrows(c)
  PROVE  Waiting' = Waiting \/ Queue!Leave(msg[c])
<1>1. PICK l \in {"idle", "down"} : LeaveHandler(c, l)
  BY DEF Ack, HandlerThrows
<1>2. UNCHANGED <<broker, channel, conns, database, bounds>> /\ Busy(c)
  BY DEF Ack, HandlerThrows, Busy
<1>3. /\ pc'[c] = l
      /\ \A d \in Consumer \ {c} : pc'[d] = pc[d] /\ msg'[d] = msg[d]
  BY <1>1 DEF LeaveHandler, Goto, IInv, TypeOK
<1>4. /\ ~Unacked(c)'
      /\ \A d \in Consumer \ {c} : (Unacked(d)' <=> Unacked(d)) /\ msg'[d] = msg[d]
  BY <1>2, <1>3 DEF Unacked
<1>5. msg[c] \in Message /\ published[msg[c]] > 0 /\ msg[c] \notin Invalid
  BY <1>2 DEF Traced, IInv, HandlerHolds
<1>6. /\ \A n \in Message \ {msg[c]} : n \in Waiting' <=> n \in Waiting
      /\ \A n \in Message : n \in Waiting' => n \in Waiting
  BY <1>2, <1>4, InHand, InHandNext DEF broker
<1>7. CASE Waiting' # Waiting
  <2>1. msg[c] \in Waiting /\ msg[c] \notin Waiting'
    BY <1>5, <1>6, <1>7, InHand, InHandNext
  <2>2. Waiting' = Waiting \ {msg[c]}
    BY <1>6, <2>1, InHand, InHandNext
  <2>3. ASSUME NEW n \in Message, n = msg[c]
        PROVE  n \in processed' \/ dead'[n] > 0
    <3>1. Kept(n)'
      BY <1>2, <1>5, <2>3, LeaveStep DEF IInv, broker
    <3>. QED
      BY <2>1, <2>3, <3>1, InHandNext DEF Kept
  <2>4. msg[c] \in processed' \/ dead'[msg[c]] > 0
    BY <1>5, <2>3
  <2>5. effects[msg[c]] > 0 \/ dead[msg[c]] > 0
    BY <1>2, <1>5, <2>4 DEF IInv, EffectOnce, broker, database
  <2>6. Sent' = Sent
    BY <1>2, SameSent DEF broker
  <2>. QED
    BY <1>2, <2>1, <2>2, <2>5, <2>6 DEF Queue!Leave, broker, database, bounds
<1>. QED
  BY <1>7

(* Forwarding hides in the queue, or gives the message up for a cause.     *)
LEMMA ForwardGivesUpOrHides ==
  ASSUME IInv, Traced, NEW c \in Consumer, Forward(c)
  PROVE  Waiting' = Waiting /\ (dead' = dead \/ Queue!GiveUp(msg[c]))
<1> DEFINE m == msg[c]
<1>1. /\ m \in Message /\ m \notin Invalid
      /\ attempt[c] \in Attempt
      /\ Unacked(c)
      /\ m \notin AlwaysFail => attempt[c] <= faults
  BY DEF Forward, Traced, IInv, TypeOK, HandlerHolds, AttemptsPaid, Busy, Unacked
<1>2. /\ pc'[c] = "forwarded" /\ \A d \in Consumer \ {c} : pc'[d] = pc[d]
      /\ msg' = msg /\ channel' = channel /\ ready' = ready
  BY DEF Forward, Goto, handling, IInv, TypeOK
<1>3. \A d \in Consumer : Unacked(d)' <=> Unacked(d)
  BY <1>1, <1>2 DEF Unacked
<1>4. m \in Waiting /\ m \in Waiting'
  BY <1>1, <1>2, <1>3, InHand, InHandNext
<1>5. \A n \in Message \ {m} : delayed'[n] = delayed[n]
  BY DEF Forward, IInv, TypeOK
<1>6. \A n \in Message \ {m} : n \in Waiting' <=> n \in Waiting
  BY <1>2, <1>3, <1>5, InHand, InHandNext
<1>7. Waiting' = Waiting
  BY <1>4, <1>6, InHand, InHandNext
<1>8. CASE dead' # dead
  <2>1. attempt[c] >= MaxAttempts /\ dead' = [dead EXCEPT ![m] = @ + 1]
    BY <1>8 DEF Forward
  <2>2. m \in AlwaysFail \/ faults >= MaxAttempts
    BY <1>1, <2>1, ProcessingAssumption DEF Attempt, IInv, TypeOK
  <2>3. Sent' = Sent
    BY SameSent DEF Forward
  <2>. QED
    BY <1>1, <1>4, <1>7, <2>1, <2>2, <2>3
       DEF Queue!GiveUp, Forward, database, bounds
<1>. QED
  BY <1>7, <1>8

(* What the broker puts back never left the queue.                         *)
LEMMA RequeueHides ==
  ASSUME IInv, NEW c \in Consumer, Crash(c) \/ ChannelCloses(c)
  PROVE  Waiting' = Waiting
<1>1. /\ Requeue(c) /\ UNCHANGED <<delayed, dead>>
      /\ faults' \in Nat /\ faults <= faults'
  BY ProcessingAssumption DEF Crash, ChannelCloses, Fail, IInv, TypeOK
<1>2. /\ ~Unacked(c)'
      /\ \A d \in Consumer \ {c} : (Unacked(d)' <=> Unacked(d)) /\ msg'[d] = msg[d]
  BY DEF Crash, ChannelCloses, LeaveHandler, Goto, handling, Unacked, IInv, TypeOK
<1>3. CASE Unacked(c)
  <2>1. /\ msg[c] \in Message /\ attempt[c] \in Attempt
        /\ PutReady(msg[c], attempt[c])
    BY <1>1, <1>3 DEF Requeue, Unacked, Busy, IInv, TypeOK, HandlerHolds
  <2>2. /\ ready'[msg[c]][attempt[c]] > 0
        /\ \A n \in Message \ {msg[c]}, j \in Attempt : ready'[n][j] = ready[n][j]
    BY <2>1, PutReadyFacts DEF IInv
  <2>3. msg[c] \in Waiting /\ msg[c] \in Waiting'
    BY <1>3, <2>1, <2>2, InHand, InHandNext
  <2>4. \A n \in Message \ {msg[c]} : n \in Waiting' <=> n \in Waiting
    BY <1>1, <1>2, <2>2, InHand, InHandNext
  <2>. QED
    BY <2>3, <2>4, InHand, InHandNext
<1>4. CASE ~Unacked(c)
  <2>1. ready' = ready
    BY <1>1, <1>4 DEF Requeue
  <2>. QED
    BY <1>1, <1>2, <1>4, <2>1, InHand, InHandNext
<1>. QED
  BY <1>3, <1>4

(* Every step of broker and workers is a step of the queue, or invisible.  *)
LEMMA QueueStep ==
  ASSUME IInv, Traced, [Next]_vars
  PROVE  [Queue!QueueNext]_<<Sent, Waiting, effects, dead, faults>>
<1> DEFINE Shown == <<Sent, Waiting, effects, dead, faults>>
<1>1. CASE \E m \in Message : Arrive(m)
  BY <1>1, ArriveSends DEF Queue!QueueNext
<1>2. CASE \E m \in Message, k \in Attempt : Expire(m, k)
  <2>1. UNCHANGED <<effects, dead, faults>> /\ Sent' = Sent
    BY <1>2, SameSent DEF Expire, database, bounds
  <2>. QED
    BY <1>2, <2>1, ExpireHides
<1>3. ASSUME NEW c \in Consumer, Consume(c) PROVE [Queue!QueueNext]_Shown
  <2>1. PICK m \in Message, k \in Attempt : Deliver(c, m, k)
    BY <1>3 DEF Consume
  <2>2. UNCHANGED <<effects, dead, faults>> /\ Sent' = Sent
    BY <2>1, SameSent DEF Deliver, database, bounds
  <2>. QED
    BY <2>1, <2>2, DeliverLeavesOrHides DEF Queue!QueueNext
<1>4. ASSUME NEW c \in Consumer,
             Begin(c) \/ Insert(c) \/ Update(c) \/ Commit(c)
      PROVE  [Queue!QueueNext]_Shown
  <2>1. /\ Busy(c) /\ UNCHANGED <<broker, handling, channel>>
        /\ \E l \in Label \ {"idle", "down"} : Goto(c, l)
        /\ faults' = faults
    BY <1>4 DEF Begin, Insert, Update, Commit, Busy, Label, bounds
  <2>2. Waiting' = Waiting /\ Sent' = Sent /\ dead' = dead
    BY <2>1, InsideWaits
  <2>3. CASE pc[c] = "commit" /\ Publish(c)
    <3>1. msg[c] \in Message
      BY <2>1 DEF IInv, HandlerHolds
    <3>. QED
      BY <2>1, <2>2, <2>3, <3>1, CommitTakesEffect DEF Queue!QueueNext
  <2>4. CASE UNCHANGED database
    BY <2>1, <2>2, <2>4 DEF database
  <2>. QED
    BY <1>4, <2>3, <2>4 DEF Begin, Insert, Update, Commit
<1>5. ASSUME NEW c \in Consumer, BeginFails(c) \/ StatementFails(c)
      PROVE  [Queue!QueueNext]_Shown
  <2>1. /\ Busy(c) /\ UNCHANGED <<broker, handling, channel>> /\ Goto(c, "failed")
        /\ "failed" \in Label \ {"idle", "down"}
        /\ faults' = faults + 1
    BY <1>5 DEF BeginFails, StatementFails, Busy, Label, Fail
  <2>2. Waiting' = Waiting /\ Sent' = Sent /\ dead' = dead
    BY <2>1, InsideWaits
  <2>3. CASE pc[c] = "commit" /\ Publish(c)
    <3>1. msg[c] \in Message
      BY <2>1 DEF IInv, HandlerHolds
    <3>. QED
      BY <2>1, <2>2, <2>3, <3>1, CommitTakesEffect DEF Queue!QueueNext
  <2>4. CASE UNCHANGED database
    BY <2>1, <2>2, <2>4 DEF database, Queue!Fault, Queue!QueueNext
  <2>. QED
    BY <1>5, <2>3, <2>4 DEF BeginFails, StatementFails
<1>6. ASSUME NEW c \in Consumer, Ack(c) \/ HandlerThrows(c)
      PROVE  [Queue!QueueNext]_Shown
  <2>1. /\ UNCHANGED <<effects, dead, faults>> /\ Sent' = Sent
        /\ msg[c] \in Message
    BY <1>6, SameSent
       DEF Ack, HandlerThrows, broker, database, bounds, Busy, IInv, HandlerHolds
  <2>. QED
    BY <1>6, <2>1, EndLeavesOrHides DEF Queue!QueueNext
<1>7. ASSUME NEW c \in Consumer, Forward(c)
      PROVE  [Queue!QueueNext]_Shown
  <2>1. /\ UNCHANGED <<effects, faults>> /\ Sent' = Sent
        /\ msg[c] \in Message
    BY <1>7, SameSent DEF Forward, database, bounds, Busy, IInv, HandlerHolds
  <2>. QED
    BY <1>7, <2>1, ForwardGivesUpOrHides DEF Queue!QueueNext
<1>8. ASSUME NEW c \in Consumer, Crash(c) \/ ChannelCloses(c)
      PROVE  [Queue!QueueNext]_Shown
  <2>1. /\ UNCHANGED <<effects, dead>> /\ Sent' = Sent
        /\ faults' \in {faults, faults + 1}
    BY <1>8, SameSent DEF Crash, ChannelCloses, Fail, database
  <2>. QED
    BY <1>8, <2>1, RequeueHides DEF Queue!Fault, Queue!QueueNext
<1>9. ASSUME NEW c \in Consumer, Restart(c)
      PROVE  [Queue!QueueNext]_Shown
  <2>1. UNCHANGED <<broker, handling, effects, faults>>
    BY <1>9 DEF Restart, database, bounds
  <2>2. /\ pc[c] = "down" /\ pc'[c] = "idle"
        /\ \A d \in Consumer \ {c} : pc'[d] = pc[d] /\ channel'[d] = channel[d]
    BY <1>9 DEF Restart, Goto, IInv, TypeOK
  <2>3. \A d \in Consumer : Unacked(d)' <=> Unacked(d)
    BY <2>2 DEF Unacked
  <2>. QED
    BY <2>1, <2>3, SameWaiting, SameSent DEF broker, handling
<1>10. CASE UNCHANGED vars
  <2>1. \A d \in Consumer : Unacked(d)' <=> Unacked(d)
    BY <1>10 DEF vars, Unacked
  <2>. QED
    BY <1>10, <2>1, SameWaiting, SameSent DEF vars
<1>. QED
  BY <1>1, <1>2, <1>3, <1>4, <1>5, <1>6, <1>7, <1>8, <1>9, <1>10
     DEF Next, Handle, Terminating

(* OrdersProcessorConsumer, in however many processes over the three       *)
(* queues, implements one queue in which a message takes effect once or is *)
(* given up for a cause before it leaves.                                  *)
THEOREM ProcessingKeepsQueue == Spec => KeepsQueue
<1>1. Init => Queue!QueueInit
  <2> SUFFICES ASSUME Init PROVE Queue!QueueInit
    OBVIOUS
  <2>1. Sent = {} /\ Waiting = {}
    BY DEF Init, Sent, Waiting, Unacked
  <2>. QED
    BY <2>1 DEF Init, Queue!QueueInit
<1>2. Init => Traced
  BY DEF Init, Traced, Busy
<1>3. Spec => []Traced
  BY <1>2, TracedStep, Invariance, PTL DEF Spec
<1>. QED
  BY <1>1, <1>3, QueueStep, Invariance, PTL
     DEF Spec, KeepsQueue, Queue!QueueSpec, Queue!queueVars
=============================================================================
