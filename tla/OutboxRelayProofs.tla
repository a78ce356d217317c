------------------------- MODULE OutboxRelayProofs -------------------------
(* Proofs about OutboxRelay, for any events, ticks, batch size, number of  *)
(* attempts and bound on the failures.                                     *)
EXTENDS OutboxRelay, TLAPS

LEMMA InitIInv == Init => IInv
<1> SUFFICES ASSUME Init PROVE IInv
  OBVIOUS
<1> USE RelayAssumption DEF Init
<1>1. TypeOK
  BY DEF TypeOK, EventStatus, Mark
<1>2. \A t \in Tick : ClaimsHold(t)
  BY DEF ClaimsHold
<1>3. \A e \in Event : Budget(e) /\ MarkIsTrue(e)
  BY DEF Budget, Tried, MarkIsTrue, OnItsWay
<1>. QED
  BY <1>1, <1>2, <1>3 DEF IInv

LEMMA AddStep ==
  ASSUME IInv, NEW e \in Event, Add(e)
  PROVE  IInv'
<1> USE DEF Add, process
<1>1. TypeOK'
  BY DEF IInv, TypeOK, EventStatus
<1>2. ASSUME NEW t \in Tick PROVE ClaimsHold(t)'
  BY DEF IInv, TypeOK, ClaimsHold
<1>3. ASSUME NEW f \in Event PROVE Budget(f)' /\ MarkIsTrue(f)'
  <2>1. Tried(f)' <=> Tried(f)
    BY DEF IInv, TypeOK, Tried
  <2>2. OnItsWay(f)' <=> OnItsWay(f)
    BY DEF OnItsWay
  <2>3. Budget(f)'
    BY <2>1 DEF IInv, Budget
  <2>4. MarkIsTrue(f)'
    BY <2>2 DEF IInv, TypeOK, MarkIsTrue, MayFail
  <2>. QED
    BY <2>3, <2>4
<1>. QED
  BY <1>1, <1>2, <1>3 DEF IInv

(* SKIP LOCKED: the rows of the new batch belong to no other tick.         *)
LEMMA ClaimStep ==
  ASSUME IInv, NEW t \in Tick, ClaimBatch(t)
  PROVE  IInv'
<1> USE DEF ClaimBatch, process, rows
<1>1. PICK B \in SUBSET Event :
         /\ IsOldest(B, {e \in Event \ Locked : Eligible(e)})
         /\ claimed' = [claimed EXCEPT ![t] = B]
  OBVIOUS
<1>2. \A e \in B : /\ \A u \in Tick : e \notin claimed[u]
                   /\ status[e] \in {"pending", "failed"}
                   /\ attempts[e] < MaxAttempts
  BY <1>1 DEF IsOldest, Locked, Eligible
<1>3. TypeOK'
  BY <1>1, <1>2 DEF IInv, TypeOK
<1>4. ASSUME NEW u \in Tick PROVE ClaimsHold(u)'
  <2>1. CASE u = t
    <3>1. claimed[t] = {} /\ claimed'[t] = B
      BY <1>1 DEF Running, IInv, TypeOK
    <3>. QED
      BY <1>2, <2>1, <3>1 DEF IInv, ClaimsHold
  <2>2. CASE u # t
    <3>1. claimed'[u] = claimed[u]
      BY <1>1, <2>2 DEF IInv, TypeOK
    <3>. QED
      BY <3>1 DEF IInv, ClaimsHold
  <2>. QED
    BY <2>1, <2>2
<1>5. \A e \in Event : Budget(e)' /\ MarkIsTrue(e)'
  BY DEF IInv, Budget, Tried, MarkIsTrue, OnItsWay, MayFail
<1>. QED
  BY <1>3, <1>4, <1>5 DEF IInv

(* Only one tick can have a mark for an event.                             *)
LEMMA OneMark ==
  ASSUME IInv, NEW t \in Tick, NEW e \in claimed[t], NEW u \in Tick, u # t
  PROVE  mark[u][e] = "untried"
BY DEF IInv, TypeOK, ClaimsHold

(* An event the loop is about to publish has not been tried: its budget    *)
(* leaves one publication.                                                 *)
LEMMA CurrentIsUntried ==
  ASSUME IInv, NEW t \in Tick, NEW e \in Event, Current(t, e)
  PROVE  ~Tried(e) /\ e \in claimed[t]
<1>1. e \in claimed[t] /\ mark[t][e] = "untried"
  BY DEF Current
<1>2. status[e] # "sent"
  BY <1>1 DEF IInv, ClaimsHold
<1>3. \A u \in Tick : mark[u][e] = "untried"
  BY <1>1, OneMark
<1>. QED
  BY <1>1, <1>2, <1>3 DEF Tried

(* A mark that is set, or changed, on an event the tick holds.             *)
LEMMA MarkTypes ==
  ASSUME IInv, NEW t \in Tick, NEW e \in claimed[t], NEW m \in Mark,
         mark' = [mark EXCEPT ![t][e] = m], UNCHANGED <<rows, claimed>>
  PROVE  /\ mark' \in [Tick -> [Event -> Mark]]
         /\ \A u \in Tick : ClaimsHold(u)'
         /\ mark'[t][e] = m
         /\ \A u \in Tick, f \in Event :
               u # t \/ f # e => mark'[u][f] = mark[u][f]
<1>1. mark' \in [Tick -> [Event -> Mark]]
  BY DEF IInv, TypeOK
<1>2. e \in Event /\ mark'[t][e] = m
  BY DEF IInv, TypeOK
<1>3. \A u \in Tick, f \in Event :
          u # t \/ f # e => mark'[u][f] = mark[u][f]
  BY DEF IInv, TypeOK
<1>4. ASSUME NEW u \in Tick PROVE ClaimsHold(u)'
  BY <1>3 DEF IInv, ClaimsHold, rows
<1>. QED
  BY <1>1, <1>2, <1>3, <1>4

LEMMA PublishStep ==
  ASSUME IInv, NEW t \in Tick, NEW e \in Event,
         PublishRabbit(t, e) \/ PublishKafka(t, e)
  PROVE  IInv'
<1>1. Current(t, e) /\ UNCHANGED <<rows, claimed, process>>
  BY DEF PublishRabbit, PublishKafka
<1>0. faults' \in faults..MaxFaults
  BY RelayAssumption DEF PublishRabbit, PublishKafka, IInv, TypeOK
<1>2. e \in claimed[t] /\ ~Tried(e)
  BY <1>1, CurrentIsUntried
<1>3. PICK n \in {"ok", "error"} : mark' = [mark EXCEPT ![t][e] = n]
  BY DEF PublishRabbit, PublishKafka
<1>4. /\ mark' \in [Tick -> [Event -> Mark]]
      /\ \A u \in Tick : ClaimsHold(u)'
      /\ mark'[t][e] = n
      /\ \A u \in Tick, f \in Event : u # t \/ f # e => mark'[u][f] = mark[u][f]
  BY <1>1, <1>2, <1>3, MarkTypes DEF Mark
<1>5. /\ wire' \in [Event -> Nat]
      /\ copies' \in [Event -> Nat]
      /\ \A f \in Event \ {e} : wire'[f] = wire[f] /\ copies'[f] = copies[f]
      /\ copies'[e] + wire'[e] <= copies[e] + wire[e] + 1 + faults' - faults
      /\ copies'[e] + wire'[e] >= copies[e] + wire[e]
  <2>1. CASE PublishRabbit(t, e)
    BY <2>1 DEF PublishRabbit, IInv, TypeOK
  <2>2. CASE PublishKafka(t, e)
    <3>1. PICK lost \in 0..MaxFaults :
             \/ copies' = [copies EXCEPT ![e] = @ + 1 + lost] /\ faults' = faults + lost
             \/ UNCHANGED <<copies, faults>>
      BY <2>2, RelayAssumption DEF PublishKafka, IInv, TypeOK
    <3>2. wire' = wire /\ wire \in [Event -> Nat] /\ copies \in [Event -> Nat]
      BY <2>2 DEF PublishKafka, IInv, TypeOK
    <3>3. CASE copies' = [copies EXCEPT ![e] = @ + 1 + lost] /\ faults' = faults + lost
      <4>1. copies' \in [Event -> Nat] /\ copies'[e] = copies[e] + 1 + lost
        BY <3>2, <3>3, RelayAssumption
      <4>. QED
        BY <3>2, <3>3, <4>1, RelayAssumption DEF IInv, TypeOK
    <3>4. CASE UNCHANGED <<copies, faults>>
      BY <3>2, <3>4, RelayAssumption DEF IInv, TypeOK
    <3>. QED
      BY <3>1, <3>3, <3>4
  <2>. QED
    BY <2>1, <2>2
<1>6. n = "ok" => \/ copies'[e] + wire'[e] > 0
                  \/ e \notin RabbitEvent /\ ~kafkaOn
  <2>1. CASE PublishRabbit(t, e)
    BY <2>1, <1>4 DEF PublishRabbit, IInv, TypeOK
  <2>2. CASE PublishKafka(t, e)
    BY <2>2, <1>4, RelayAssumption DEF PublishKafka, IInv, TypeOK
  <2>. QED
    BY <2>1, <2>2
<1>10. n = "error" => MayFail(e)'
  <2>1. CASE PublishRabbit(t, e)
    BY <2>1, <1>3 DEF PublishRabbit, MayFail, IInv, TypeOK
  <2>2. CASE PublishKafka(t, e)
    BY <2>2, <1>4 DEF PublishKafka, MayFail, process
  <2>. QED
    BY <2>1, <2>2
<1>7. TypeOK'
  <2>1. faults' \in 0..MaxFaults
    BY <1>0, RelayAssumption DEF IInv, TypeOK
  <2>. QED
    BY <1>1, <1>4, <1>5, <2>1 DEF IInv, TypeOK, rows, process
<1>9. \A f \in Event \ RabbitEvent : wire'[f] = 0
  <2>1. \A f \in Event \ RabbitEvent : wire[f] = 0
    BY DEF IInv, MarkIsTrue
  <2>. QED
    BY <2>1, <1>5 DEF PublishRabbit, PublishKafka
<1>8. ASSUME NEW f \in Event PROVE Budget(f)' /\ MarkIsTrue(f)'
  <2>1. CASE f = e
    <3>1. Tried(e)'
      BY <1>4 DEF Tried
    <3>2. Budget(e)'
      BY <1>0, <1>1, <1>2, <1>5, <3>1, RelayAssumption DEF IInv, Budget, TypeOK, rows
    <3>3. \A u \in Tick \ {t} : mark'[u][e] = "untried"
      BY <1>2, <1>4, OneMark
    <3>4. status'[e] # "sent"
      BY <1>1, <1>2 DEF Tried, rows
    <3>5. MarkIsTrue(e)'
      BY <1>1, <1>4, <1>6, <1>9, <1>10, <3>3, <3>4 DEF MarkIsTrue, OnItsWay, process
    <3>. QED
      BY <2>1, <3>2, <3>5
  <2>2. CASE f # e
    <3>1. Tried(f)' <=> Tried(f)
      BY <1>1, <1>4, <2>2 DEF Tried, rows
    <3>2. (OnItsWay(f) => OnItsWay(f)') /\ (MayFail(f) => MayFail(f)')
      BY <1>0, <1>1, <1>5, <2>2, RelayAssumption DEF OnItsWay, MayFail, process, IInv, TypeOK
    <3>3. Budget(f)'
      BY <1>0, <1>1, <1>5, <2>2, <3>1, RelayAssumption DEF IInv, Budget, TypeOK, rows
    <3>4. MarkIsTrue(f)'
      BY <1>1, <1>4, <1>9, <2>2, <3>2 DEF IInv, MarkIsTrue, rows
    <3>. QED
      BY <3>3, <3>4
  <2>. QED
    BY <2>1, <2>2
<1>11. channel' = "closed" => faults' > 0
  BY <1>0, <1>1, RelayAssumption DEF IInv, TypeOK, process
<1>. QED
  BY <1>4, <1>7, <1>8, <1>11 DEF IInv

LEMMA MarkStep ==
  ASSUME IInv, NEW t \in Tick, NEW e \in Event, MarkEvent(t, e)
  PROVE  IInv'
<1>1. /\ mark[t][e] \in {"ok", "error"}
      /\ UNCHANGED <<rows, claimed, wire, copies, process, faults>>
  BY DEF MarkEvent
<1>2. e \in claimed[t]
  BY <1>1 DEF IInv, ClaimsHold
<1>3. PICK n \in {"sent", "failed"} :
          /\ mark' = [mark EXCEPT ![t][e] = n]
          /\ n = "sent" => mark[t][e] = "ok"
          /\ n = "failed" => mark[t][e] = "error"
  BY DEF MarkEvent
<1>4. /\ mark' \in [Tick -> [Event -> Mark]]
      /\ \A u \in Tick : ClaimsHold(u)'
      /\ mark'[t][e] = n
      /\ \A u \in Tick, f \in Event : u # t \/ f # e => mark'[u][f] = mark[u][f]
  BY <1>1, <1>2, <1>3, MarkTypes DEF Mark
<1>5. TypeOK'
  BY <1>1, <1>4 DEF IInv, TypeOK, rows, process
<1>6. ASSUME NEW f \in Event PROVE Budget(f)' /\ MarkIsTrue(f)'
  <2>1. Tried(f)' => Tried(f)
    BY <1>1, <1>4 DEF Tried, rows
  <2>2. Tried(f) => Tried(f)'
    BY <1>1, <1>4 DEF Tried, rows
  <2>3. Budget(f)'
    BY <1>1, <2>1, <2>2 DEF IInv, Budget, rows
  <2>4. OnItsWay(f)' <=> OnItsWay(f)
    BY <1>1 DEF OnItsWay, process
  <2>5. MarkIsTrue(f)'
    BY <1>1, <1>3, <1>4, <2>4 DEF IInv, MarkIsTrue, rows, MayFail, process
  <2>. QED
    BY <2>3, <2>5
<1>. QED
  BY <1>1, <1>4, <1>5, <1>6 DEF IInv, process

(* The marks of the tick become the columns of its rows.                   *)
LEMMA CommitStep ==
  ASSUME IInv, NEW t \in Tick, CommitTick(t)
  PROVE  IInv'
<1> USE DEF CommitTick, ApplyMarks, EndTick, process
<1>1. \A e \in claimed[t] : mark[t][e] \in {"sent", "failed"}
  OBVIOUS
<1>2. \A e \in Event \ claimed[t] : mark[t][e] = "untried"
  BY DEF IInv, ClaimsHold
<1>3. /\ claimed'[t] = {}
      /\ \A u \in Tick \ {t} : claimed'[u] = claimed[u]
      /\ \A u \in Tick, e \in Event :
            mark'[u][e] = IF u = t THEN "untried" ELSE mark[u][e]
  BY DEF IInv, TypeOK
<1>4. \A e \in Event \ claimed[t] :
          status'[e] = status[e] /\ attempts'[e] = attempts[e]
  BY <1>2
<1>5. \A e \in claimed[t] :
          \/ mark[t][e] = "sent" /\ status'[e] = "sent" /\ attempts'[e] = attempts[e]
          \/ /\ mark[t][e] = "failed"
             /\ status'[e] = "failed"
             /\ attempts'[e] = attempts[e] + 1
  BY <1>1 DEF IInv, TypeOK
<1>6. TypeOK'
  <2>1. status' \in [Event -> EventStatus]
    BY DEF IInv, TypeOK, EventStatus
  <2>2. attempts' \in [Event -> 0..MaxAttempts]
    <3>1. \A e \in Event : attempts'[e] \in 0..MaxAttempts
      BY <1>4, <1>5, RelayAssumption DEF IInv, TypeOK, ClaimsHold
    <3>. QED
      BY <3>1
  <2>3. due' \in [Event -> BOOLEAN]
    BY DEF IInv, TypeOK
  <2>4. claimed' \in [Tick -> SUBSET Event]
    BY DEF IInv, TypeOK
  <2>5. mark' \in [Tick -> [Event -> Mark]]
    BY DEF IInv, TypeOK, Mark
  <2>. QED
    BY <1>3, <2>1, <2>2, <2>3, <2>4, <2>5 DEF IInv, TypeOK
<1>7. ASSUME NEW u \in Tick PROVE ClaimsHold(u)'
  <2>1. CASE u = t
    BY <1>3, <2>1 DEF ClaimsHold
  <2>2. CASE u # t
    <3>1. \A e \in claimed[u] : e \in Event \ claimed[t]
      BY <2>2 DEF IInv, TypeOK
    <3>. QED
      BY <1>3, <1>4, <2>2, <3>1 DEF IInv, ClaimsHold
  <2>. QED
    BY <2>1, <2>2
<1>8. ASSUME NEW e \in Event PROVE Budget(e)' /\ MarkIsTrue(e)'
  <2>1. OnItsWay(e)' <=> OnItsWay(e)
    BY DEF OnItsWay
  <2>2. CASE e \notin claimed[t]
    <3>1. Tried(e)' <=> Tried(e)
      BY <1>2, <1>3, <1>4, <2>2 DEF Tried
    <3>2. Budget(e)'
      BY <1>4, <2>2, <3>1 DEF IInv, Budget
    <3>3. MarkIsTrue(e)'
      BY <1>3, <1>4, <2>1, <2>2 DEF IInv, MarkIsTrue, MayFail
    <3>. QED
      BY <3>2, <3>3
  <2>3. CASE e \in claimed[t]
    <3>1. copies[e] + wire[e] <= attempts[e] + faults + 1
      BY DEF IInv, Budget, TypeOK
    <3>2. \A u \in Tick : mark'[u][e] = "untried"
      BY <1>3, <2>3, OneMark
    <3>3. e \notin RabbitEvent => wire[e] = 0
      BY DEF IInv, MarkIsTrue
    <3>4. CASE mark[t][e] = "sent" /\ status'[e] = "sent" /\ attempts'[e] = attempts[e]
      <4>1. OnItsWay(e) /\ Tried(e)'
        BY <3>4 DEF IInv, MarkIsTrue, Tried
      <4>. QED
        BY <2>1, <3>1, <3>2, <3>4, <3>3, <4>1 DEF Budget, MarkIsTrue
    <3>5. CASE status'[e] = "failed" /\ attempts'[e] = attempts[e] + 1
      <4>1. ~Tried(e)'
        BY <3>2, <3>5 DEF Tried
      <4>. QED
        BY <3>1, <3>2, <3>5, <3>3, <4>1 DEF Budget, MarkIsTrue, IInv, TypeOK
    <3>. QED
      BY <1>5, <2>3, <3>4, <3>5
  <2>. QED
    BY <2>2, <2>3
<1>. QED
  BY <1>6, <1>7, <1>8 DEF IInv

LEMMA DueStep ==
  ASSUME IInv, NEW e \in Event, BecomeDue(e)
  PROVE  IInv'
<1> USE DEF BecomeDue, process
<1>1. TypeOK'
  BY DEF IInv, TypeOK
<1>2. \A t \in Tick : ClaimsHold(t)'
  BY DEF IInv, ClaimsHold
<1>3. \A f \in Event : Budget(f)' /\ MarkIsTrue(f)'
  BY DEF IInv, Budget, Tried, MarkIsTrue, OnItsWay, MayFail
<1>. QED
  BY <1>1, <1>2, <1>3 DEF IInv

LEMMA ReceiveStep ==
  ASSUME IInv, NEW e \in Event, Receive(e)
  PROVE  IInv'
<1> USE DEF Receive, process, rows
<1>1. TypeOK'
  BY DEF IInv, TypeOK
<1>2. \A t \in Tick : ClaimsHold(t)'
  BY DEF IInv, ClaimsHold
<1>3. ASSUME NEW f \in Event PROVE Budget(f)' /\ MarkIsTrue(f)'
  <2>1. copies'[f] + wire'[f] = copies[f] + wire[f]
    BY DEF IInv, TypeOK
  <2>2. Tried(f)' <=> Tried(f)
    BY DEF Tried
  <2>3. OnItsWay(f)' <=> OnItsWay(f)
    BY <2>1 DEF OnItsWay
  <2>4. Budget(f)'
    BY <2>1, <2>2 DEF IInv, Budget
  <2>. QED
    BY <2>3, <2>4 DEF IInv, MarkIsTrue, MayFail
<1>. QED
  BY <1>1, <1>2, <1>3 DEF IInv

(* Rolling a tick back leaves its publications behind: the failure pays    *)
(* for them.                                                               *)
LEMMA TickFailsStep ==
  ASSUME IInv, NEW t \in Tick, TickFails(t)
  PROVE  IInv'
<1> USE DEF TickFails, Fail, EndTick, process, rows
<1>1. TypeOK'
  BY RelayAssumption DEF IInv, TypeOK, Mark
<1>2. \A u \in Tick, e \in Event :
          mark'[u][e] = IF u = t THEN "untried" ELSE mark[u][e]
  BY DEF IInv, TypeOK
<1>3. \A u \in Tick : ClaimsHold(u)'
  BY <1>2 DEF IInv, TypeOK, ClaimsHold
<1>4. ASSUME NEW e \in Event PROVE Budget(e)' /\ MarkIsTrue(e)'
  <2>1. copies[e] + wire[e] <= attempts[e] + faults'
    BY RelayAssumption DEF IInv, Budget, TypeOK
  <2>2. Budget(e)'
    BY <2>1 DEF IInv, Budget, TypeOK
  <2>3. OnItsWay(e) => OnItsWay(e)'
    BY DEF OnItsWay, IInv, TypeOK
  <2>4. MarkIsTrue(e)'
    BY <1>2, <2>3 DEF IInv, TypeOK, MarkIsTrue, MayFail
  <2>. QED
    BY <2>2, <2>4
<1>. QED
  BY <1>1, <1>3, <1>4 DEF IInv, TypeOK

LEMMA ChannelClosesStep ==
  ASSUME IInv, ChannelCloses
  PROVE  IInv'
<1> USE DEF ChannelCloses, Fail, rows
<1>1. TypeOK'
  BY RelayAssumption DEF IInv, TypeOK
<1>2. \A t \in Tick : ClaimsHold(t)'
  BY DEF IInv, ClaimsHold
<1>3. ASSUME NEW e \in Event PROVE Budget(e)' /\ MarkIsTrue(e)'
  <2>1. copies'[e] + wire'[e] <= copies[e] + wire[e] /\ faults' >= faults
    BY DEF IInv, TypeOK
  <2>2. Tried(e)' <=> Tried(e)
    BY DEF Tried
  <2>3. Budget(e)'
    BY <2>2 DEF IInv, Budget, TypeOK
  <2>4. OnItsWay(e) => OnItsWay(e)'
    BY DEF OnItsWay, IInv, MarkIsTrue, TypeOK
  <2>. QED
    BY <2>3, <2>4 DEF IInv, TypeOK, MarkIsTrue, MayFail
<1>. QED
  BY <1>1, <1>2, <1>3 DEF IInv, TypeOK

LEMMA CrashStep ==
  ASSUME IInv, Crash
  PROVE  IInv'
<1> USE DEF Crash, Fail, rows
<1>1. TypeOK'
  <2>1. mark' \in [Tick -> [Event -> Mark]] /\ claimed' \in [Tick -> SUBSET Event]
    BY DEF Mark
  <2>2. wire' \in [Event -> Nat] /\ faults' \in 0..MaxFaults
    BY RelayAssumption DEF IInv, TypeOK
  <2>3. \A t, u \in Tick : t # u => claimed'[t] \cap claimed'[u] = {}
    OBVIOUS
  <2>. QED
    BY <2>1, <2>2, <2>3 DEF IInv, TypeOK
<1>2. \A t \in Tick : ClaimsHold(t)'
  BY DEF IInv, ClaimsHold
<1>3. ASSUME NEW e \in Event PROVE Budget(e)' /\ MarkIsTrue(e)'
  <2>1. Budget(e)'
    BY RelayAssumption DEF IInv, Budget, TypeOK
  <2>2. OnItsWay(e) => OnItsWay(e)'
    BY DEF OnItsWay, IInv, MarkIsTrue, TypeOK
  <2>3. MarkIsTrue(e)'
    BY <2>2 DEF IInv, MarkIsTrue
  <2>. QED
    BY <2>1, <2>3
<1>. QED
  BY <1>1, <1>2, <1>3 DEF IInv, TypeOK

LEMMA RestartStep ==
  ASSUME IInv, Restart \/ UNCHANGED vars
  PROVE  IInv'
<1> USE DEF Restart, rows, vars
<1>1. TypeOK'
  BY DEF IInv, TypeOK
<1>2. \A t \in Tick : ClaimsHold(t)'
  BY DEF IInv, ClaimsHold
<1>3. \A e \in Event : Budget(e)' /\ MarkIsTrue(e)'
  BY DEF IInv, Budget, Tried, MarkIsTrue, OnItsWay, MayFail
<1>. QED
  BY <1>1, <1>2, <1>3 DEF IInv

(* The invariant holds in every reachable state.                           *)
THEOREM Invariance == Spec => []IInv
<1>1. ASSUME IInv, [Next]_vars PROVE IInv'
  <2>1. CASE \E t \in Tick : RelayTick(t) \/ TickFails(t)
    BY <1>1, <2>1, ClaimStep, PublishStep, MarkStep, CommitStep, TickFailsStep
       DEF RelayTick
  <2>2. CASE \E e \in Event : Add(e) \/ BecomeDue(e) \/ Receive(e)
    BY <1>1, <2>2, AddStep, DueStep, ReceiveStep
  <2>3. CASE ChannelCloses \/ Crash
    BY <1>1, <2>3, ChannelClosesStep, CrashStep
  <2>4. CASE Restart \/ UNCHANGED vars
    BY <1>1, <2>4, RestartStep
  <2>. QED
    BY <1>1, <2>1, <2>2, <2>3, <2>4 DEF Next, Terminating
<1>. QED
  BY <1>1, InitIInv, PTL DEF Spec

(* Every variable keeps its type: attempts stays within its limit and the  *)
(* batches of overlapping ticks are disjoint.                              *)
THEOREM TypeCorrect == Spec => []TypeOK
<1>1. IInv => TypeOK
  BY DEF IInv
<1>. QED
  BY <1>1, Invariance, PTL

(* An event is published once, and once more for each failure.             *)
THEOREM DuplicatesArePaidFor == Spec => []DuplicatesHaveCause
<1>1. IInv => DuplicatesHaveCause
  BY DEF IInv, Budget, TypeOK, DuplicatesHaveCause
<1>. QED
  BY <1>1, Invariance, PTL

(* "sent" means handed over, unless RabbitMQ or the process failed.        *)
THEOREM SentIsHandedOver == Spec => []SentIsOnItsWay
<1>1. IInv => SentIsOnItsWay
  BY DEF IInv, MarkIsTrue, OnItsWay, SentIsOnItsWay
<1>. QED
  BY <1>1, Invariance, PTL

(* No step, of whatever tick, touches a sent event or forgets an attempt.  *)
THEOREM SentStaysSent == Spec => SentIsFinal
<1> DEFINE Final == \A e \in Event :
              /\ status[e] = "sent" =>
                    status'[e] = "sent" /\ attempts'[e] = attempts[e]
              /\ attempts'[e] >= attempts[e]
<1>1. ASSUME IInv, Next PROVE Final
  <2>1. CASE \E t \in Tick : CommitTick(t)
    <3>1. PICK t \in Tick : CommitTick(t)
      BY <2>1
    <3>2. ASSUME NEW e \in Event
          PROVE  /\ status[e] = "sent" =>
                       status'[e] = "sent" /\ attempts'[e] = attempts[e]
                 /\ attempts'[e] >= attempts[e]
      <4>1. status[e] = "sent" => mark[t][e] = "untried"
        BY <1>1 DEF IInv, ClaimsHold
      <4>2. attempts[e] \in Nat
        BY <1>1, RelayAssumption DEF IInv, TypeOK
      <4>. QED
        BY <3>1, <4>1, <4>2 DEF CommitTick, ApplyMarks
    <3>. QED
      BY <3>2
  <2>2. CASE \E e \in Event : Add(e)
    BY <1>1, <2>2, RelayAssumption DEF Add, IInv, TypeOK
  <2>3. CASE UNCHANGED <<status, attempts>>
    BY <1>1, <2>3, RelayAssumption DEF IInv, TypeOK
  <2>. QED
    BY <1>1, <2>1, <2>2, <2>3
       DEF Next, RelayTick, ClaimBatch, PublishRabbit, PublishKafka, MarkEvent,
           TickFails, BecomeDue, Receive, ChannelCloses, Crash, Restart,
           Terminating, rows, vars
<1>2. IInv /\ [Next]_vars => [Final]_vars
  BY <1>1
<1>. QED
  BY <1>2, Invariance, PTL DEF Spec, SentIsFinal

LEMMA HandedAs ==
  /\ Handed = [e \in Event |-> copies[e] + wire[e]]
  /\ Handed' = [e \in Event |-> copies'[e] + wire'[e]]
BY DEF Handed

LEMMA SameHanded == UNCHANGED <<copies, wire>> => Handed' = Handed
BY HandedAs

(* A publication is handed over while its event is open, within its budget.*)
LEMMA PublicationIsHandedOver ==
  ASSUME IInv, NEW t \in Tick, NEW e \in Event,
         PublishRabbit(t, e) \/ PublishKafka(t, e)
  PROVE  Outbox!HandOver(e) \/ UNCHANGED <<Handed, copies, faults>>
<1>1. /\ Current(t, e) /\ UNCHANGED <<rows, process>>
  BY DEF PublishRabbit, PublishKafka
<1>2. e \in claimed[t] /\ ~Tried(e)
  BY <1>1, CurrentIsUntried
<1>3. Outbox!Open(e)
  BY <1>2 DEF IInv, ClaimsHold, Outbox!Open
<1>4. Handed[e] <= attempts[e] + faults
  <2>1. copies[e] + wire[e] <= attempts[e] + faults
    BY <1>2, RelayAssumption DEF IInv, Budget, TypeOK
  <2>. QED
    BY <2>1, HandedAs
<1>0. faults \in Nat
  BY RelayAssumption DEF IInv, TypeOK
<1>5. CASE /\ e \in RabbitEvent /\ wire' = [wire EXCEPT ![e] = @ + 1]
           /\ UNCHANGED <<copies, faults>>
  <2>1. \A f \in Event : copies'[f] + wire'[f] =
                            IF f = e THEN Handed[e] + 1 ELSE Handed[f]
    BY <1>5, HandedAs DEF IInv, TypeOK
  <2>2. Handed[e] \in Nat
    BY HandedAs DEF IInv, TypeOK
  <2>3. Handed' = [Handed EXCEPT ![e] = @ + 1 + faults' - faults]
    BY <1>0, <1>5, <2>1, <2>2, HandedAs
  <2>. QED
    BY <1>0, <1>1, <1>3, <1>4, <1>5, <2>3 DEF Outbox!HandOver, rows, process
<1>6. ASSUME NEW lost \in Nat, e \notin RabbitEvent, wire' = wire,
             copies' = [copies EXCEPT ![e] = @ + 1 + lost], faults' = faults + lost
      PROVE  Outbox!HandOver(e)
  <2>1. copies[e] \in Nat /\ Handed[e] \in Nat
    BY HandedAs DEF IInv, TypeOK
  <2>2. 1 + faults' - faults = 1 + lost /\ faults' \in Nat /\ faults' >= faults
    BY <1>0, <1>6
  <2>3. copies' = [copies EXCEPT ![e] = @ + 1 + faults' - faults]
    <3>1. copies[e] + 1 + lost = copies[e] + 1 + faults' - faults
      BY <1>0, <1>6, <2>1
    <3>. QED
      BY <1>6, <3>1
  <2>4. \A f \in Event : copies'[f] + wire'[f] =
                            IF f = e THEN Handed[e] + 1 + faults' - faults ELSE Handed[f]
    BY <1>0, <1>6, HandedAs DEF IInv, TypeOK
  <2>5. Handed' = [Handed EXCEPT ![e] = @ + 1 + faults' - faults]
    BY <2>4, HandedAs
  <2>. QED
    BY <1>1, <1>3, <1>4, <1>6, <2>2, <2>3, <2>5 DEF Outbox!HandOver, rows, process
<1>7. CASE UNCHANGED <<copies, wire, faults>>
  BY <1>7, SameHanded
<1>8. CASE PublishRabbit(t, e)
  BY <1>5, <1>7, <1>8 DEF PublishRabbit
<1>9. CASE PublishKafka(t, e)
  <2>1. \A lost \in 0..MaxFaults - faults : lost \in Nat
    BY <1>0, RelayAssumption
  <2>. QED
    BY <1>6, <1>7, <1>9, <2>1 DEF PublishKafka
<1>. QED
  BY <1>8, <1>9

LEMMA ReceptionArrives ==
  ASSUME IInv, NEW e \in Event, Receive(e)
  PROVE  Outbox!Arrive(e)
<1>1. e \in RabbitEvent
  BY DEF Receive, IInv, MarkIsTrue
<1>2. \A f \in Event : copies'[f] + wire'[f] = copies[f] + wire[f]
  BY DEF Receive, IInv, TypeOK
<1>3. Handed' = Handed
  BY <1>2, HandedAs
<1>4. copies[e] < Handed[e]
  BY HandedAs DEF Receive, IInv, TypeOK
<1>. QED
  BY <1>1, <1>3, <1>4 DEF Outbox!Arrive, Receive, rows, process

(* A tick that commits settles its batch, all of it open and every event   *)
(* it marks as sent handed over.                                           *)
LEMMA CommitSettles ==
  ASSUME IInv, NEW t \in Tick, CommitTick(t)
  PROVE  \E sent, failed \in SUBSET Event : Outbox!Settle(sent, failed)
<1> DEFINE marked(m) == {e \in Event : mark[t][e] = m}
<1>1. marked("sent") \cap marked("failed") = {}
  OBVIOUS
<1>2. \A e \in marked("sent") \cup marked("failed") : Outbox!Open(e)
  BY DEF IInv, ClaimsHold, Outbox!Open
<1>3. \A e \in marked("sent") : Outbox!Reached(e)
  <2>1. \A e \in marked("sent") : OnItsWay(e)
    BY DEF IInv, MarkIsTrue
  <2>. QED
    BY <2>1, HandedAs DEF OnItsWay, Outbox!Reached
<1>9. \A e \in marked("failed") : Outbox!MayFail(e)
  BY DEF IInv, MarkIsTrue, MayFail, Outbox!MayFail
<1>4. status' = [e \in Event |->
                    IF e \in marked("sent") THEN "sent"
                    ELSE IF e \in marked("failed") THEN "failed" ELSE status[e]]
  BY DEF CommitTick, ApplyMarks
<1>5. attempts' = [e \in Event |->
                      IF e \in marked("failed") THEN attempts[e] + 1 ELSE attempts[e]]
  BY DEF CommitTick, ApplyMarks
<1>6. UNCHANGED <<copies, kafkaOn, faults>> /\ Handed' = Handed
  BY SameHanded DEF CommitTick, process
<1>7. Outbox!Settle(marked("sent"), marked("failed"))
  BY <1>1, <1>2, <1>3, <1>4, <1>5, <1>6, <1>9 DEF Outbox!Settle
<1>8. marked("sent") \in SUBSET Event /\ marked("failed") \in SUBSET Event
  OBVIOUS
<1> HIDE DEF marked
<1>. QED
  BY <1>7, <1>8

LEMMA FailureIsFault ==
  ASSUME IInv, Crash \/ ChannelCloses \/ \E t \in Tick : TickFails(t)
  PROVE  Outbox!Fault
<1>1. UNCHANGED <<status, attempts, copies, kafkaOn>> /\ faults' = faults + 1
  BY DEF Crash, ChannelCloses, TickFails, Fail, rows, process
<1>2. CASE wire' = wire
  BY <1>1, <1>2, SameHanded DEF Outbox!Fault
<1>3. CASE wire' = [e \in Event |-> 0]
  <2>1. \A e \in Event : copies'[e] + wire'[e] = copies[e]
    BY <1>1, <1>3 DEF IInv, TypeOK
  <2>2. copies = [e \in Event |-> copies[e]]
    BY DEF IInv, TypeOK
  <2>3. Handed' = copies
    BY <2>1, <2>2, HandedAs
  <2>. QED
    BY <1>1, <2>3 DEF Outbox!Fault
<1>. QED
  BY <1>2, <1>3 DEF Crash, ChannelCloses, TickFails

(* Every step of the relay is a step of the outbox, or invisible in it.    *)
LEMMA OutboxStep ==
  ASSUME IInv, [Next]_vars
  PROVE  [Outbox!OutboxNext]_<<status, attempts, Handed, copies, kafkaOn, faults>>
<1> DEFINE Shown == <<status, attempts, Handed, copies, kafkaOn, faults>>
<1>1. CASE \E e \in Event : Add(e)
  <2>1. PICK e \in Event : Add(e)
    BY <1>1
  <2>2. Outbox!Store(e)
    BY <2>1, SameHanded DEF Add, Outbox!Store, process
  <2>. QED
    BY <2>2 DEF Outbox!OutboxNext
<1>2. CASE \E t \in Tick, e \in Event : PublishRabbit(t, e) \/ PublishKafka(t, e)
  <2>1. PICK t \in Tick, e \in Event : PublishRabbit(t, e) \/ PublishKafka(t, e)
    BY <1>2
  <2>2. UNCHANGED <<status, attempts, kafkaOn>>
    BY <2>1 DEF PublishRabbit, PublishKafka, rows, process
  <2>. QED
    BY <2>1, <2>2, PublicationIsHandedOver DEF Outbox!OutboxNext
<1>3. CASE \E e \in Event : Receive(e)
  BY <1>3, ReceptionArrives DEF Outbox!OutboxNext
<1>4. CASE \E t \in Tick : CommitTick(t)
  BY <1>4, CommitSettles DEF Outbox!OutboxNext
<1>5. CASE Crash \/ ChannelCloses \/ \E t \in Tick : TickFails(t)
  BY <1>5, FailureIsFault DEF Outbox!OutboxNext
<1>6. CASE UNCHANGED <<status, attempts, wire, copies, kafkaOn, faults>>
  BY <1>6, SameHanded
<1>. QED
  BY <1>1, <1>2, <1>3, <1>4, <1>5, <1>6
     DEF Next, RelayTick, ClaimBatch, MarkEvent, BecomeDue, Restart, Terminating,
         rows, process, vars

(* OutboxRelayService, with overlapping ticks, their batches, row locks,   *)
(* connections and crashes, implements the outbox.                         *)
THEOREM RelayKeepsOutbox == Spec => KeepsOutbox
<1>1. Init => Outbox!OutboxInit
  <2> SUFFICES ASSUME Init PROVE Outbox!OutboxInit
    OBVIOUS
  <2>1. Handed = [e \in Event |-> 0]
    BY DEF Init, Handed
  <2>. QED
    BY <2>1 DEF Init, Outbox!OutboxInit
<1>. QED
  BY <1>1, OutboxStep, Invariance, PTL
     DEF Spec, KeepsOutbox, Outbox!OutboxSpec, Outbox!outboxVars
=============================================================================
