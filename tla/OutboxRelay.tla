----------------------------- MODULE OutboxRelay -----------------------------
(***************************************************************************)
(* The transactional outbox (src/outbox): OrdersService.create commits     *)
(* events into the table outbox_events, and a timer of the API process     *)
(* starts a relay tick every second, whether or not the previous one has   *)
(* ended.  A tick claims a batch of due events under row locks that other  *)
(* ticks skip, publishes them one by one, marks each as sent or failed,    *)
(* and commits.  The marks are private to the tick until it commits, the   *)
(* publications are not.                                                   *)
(*                                                                         *)
(* RabbitMQ is written to through a channel without confirms: publishing   *)
(* only puts the message on the socket (wire).  Kafka's producer waits for *)
(* the broker, may report a failure for a message the broker has, and      *)
(* sends again by itself what was not answered.                            *)
(***************************************************************************)
EXTENDS Integers, FiniteSets

CONSTANTS
    Event,          \* rows of outbox_events
    Tick,           \* relay ticks that may run at the same time
    RabbitEvent,    \* order.process_requested; the others are order.placed
    CreatedAt,      \* the created_at of each event
    Batch,          \* rabbitMq.outboxRelayBatchSize
    MaxAttempts,    \* rabbitMq.maxAttempts
    MaxFaults       \* bound: failed ticks, crashes, closed channels, and
                    \* answers of Kafka that are lost

ASSUME RelayAssumption ==
    /\ IsFiniteSet(Event)
    /\ RabbitEvent \subseteq Event
    /\ CreatedAt \in [Event -> Nat]
    /\ Batch \in Nat \ {0}
    /\ MaxAttempts \in Nat \ {0}
    /\ MaxFaults \in Nat

VARIABLES
    status,     \* committed status of each event; "absent" before its INSERT
    attempts,   \* committed attempts
    due,        \* next_retry_at has passed
    claimed,    \* the events a tick has locked
    mark,       \* what a tick knows of an event it has claimed
    wire,       \* messages written to the RabbitMQ socket, not yet received
    copies,     \* times the broker has received an event
    up,         \* the process is running
    channel,    \* its RabbitMQ channel
    kafkaOn,    \* KafkaService is enabled: configuration, fixed at the start
    faults      \* failures so far

vars == <<status, attempts, due, claimed, mark, wire, copies, up, channel,
          kafkaOn, faults>>

rows == <<status, attempts, due>>
process == <<up, channel, kafkaOn>>
-----------------------------------------------------------------------------
EventStatus == {"absent", "pending", "sent", "failed"}

(* untried: not published yet; ok, error: the promise of publish() settled;*)
(* sent, failed: the UPDATE has run in the tick's transaction.             *)
Mark == {"untried", "ok", "error", "sent", "failed"}

Running(t) == claimed[t] # {}

Locked == UNION {claimed[t] : t \in Tick}

(* The WHERE clause of claimBatch.                                         *)
Eligible(e) ==
    /\ status[e] \in {"pending", "failed"}
    /\ attempts[e] < MaxAttempts
    /\ due[e]

(* ORDER BY created_at LIMIT: no event that was left out of a batch is     *)
(* older than one that is in it.                                           *)
IsOldest(B, S) ==
    /\ B \subseteq S
    /\ B # {}
    /\ Cardinality(B) = Batch \/ (B = S /\ Cardinality(S) < Batch)
    /\ \A e \in B, f \in S \ B : CreatedAt[e] <= CreatedAt[f]

(* The loop of relayTick visits the batch in the order of the query.       *)
Current(t, e) ==
    /\ e \in claimed[t]
    /\ mark[t][e] = "untried"
    /\ \A f \in claimed[t] :
          /\ mark[t][f] \notin {"ok", "error"}
          /\ mark[t][f] = "untried" => CreatedAt[e] <= CreatedAt[f]

EndTick(t) ==
    /\ claimed' = [claimed EXCEPT ![t] = {}]
    /\ mark' = [mark EXCEPT ![t] = [e \in Event |-> "untried"]]
-----------------------------------------------------------------------------
Init ==
    /\ status = [e \in Event |-> "absent"]
    /\ attempts = [e \in Event |-> 0]
    /\ due = [e \in Event |-> FALSE]
    /\ claimed = [t \in Tick |-> {}]
    /\ mark = [t \in Tick |-> [e \in Event |-> "untried"]]
    /\ wire = [e \in Event |-> 0]
    /\ copies = [e \in Event |-> 0]
    /\ up = TRUE
    /\ channel = "open"
    /\ kafkaOn \in BOOLEAN
    /\ faults = 0

(* OutboxService.add, as its caller's transaction commits.  created_at is  *)
(* the start of that transaction, so events may appear out of order.       *)
Add(e) ==
    /\ status[e] = "absent"
    /\ status' = [status EXCEPT ![e] = "pending"]
    /\ due' = [due EXCEPT ![e] = TRUE]
    /\ UNCHANGED <<attempts, claimed, mark, wire, copies, process, faults>>

(* The query without skip_locked and without a lock to wait for.           *)
ClaimBatchUnlocked(t) ==
    /\ up
    /\ ~Running(t)
    /\ \E B \in SUBSET Event :
          /\ IsOldest(B, {e \in Event : Eligible(e)})
          /\ claimed' = [claimed EXCEPT ![t] = B]
    /\ UNCHANGED <<rows, mark, wire, copies, process, faults>>

(* A tick starts: BEGIN and claimBatch, FOR UPDATE SKIP LOCKED.  The rows  *)
(* are tested again once locked, so a batch never holds a row another tick *)
(* has just settled.  A tick that claims nothing changes nothing.          *)
ClaimBatch(t) ==
    /\ up
    /\ ~Running(t)
    /\ \E B \in SUBSET Event :
          /\ IsOldest(B, {e \in Event \ Locked : Eligible(e)})
          /\ claimed' = [claimed EXCEPT ![t] = B]
    /\ UNCHANGED <<rows, mark, wire, copies, process, faults>>

(* RabbitmqService.publish: the bytes go to the socket, and nobody waits   *)
(* for the broker; on a closed channel it throws.                          *)
PublishRabbit(t, e) ==
    /\ Current(t, e)
    /\ e \in RabbitEvent
    /\ \/ /\ channel = "open"
          /\ wire' = [wire EXCEPT ![e] = @ + 1]
          /\ mark' = [mark EXCEPT ![t][e] = "ok"]
       \/ /\ channel = "closed"
          /\ mark' = [mark EXCEPT ![t][e] = "error"]
          /\ UNCHANGED wire
    /\ UNCHANGED <<rows, claimed, copies, process, faults>>

(* KafkaService.publish: returns at once when Kafka is disabled; otherwise *)
(* the broker's answer, or an error whether or not the broker has it.      *)
(* kafkajs retries inside send, without an idempotent producer: for each   *)
(* answer that was lost the broker has one more copy.                      *)
PublishKafka(t, e) ==
    /\ Current(t, e)
    /\ e \notin RabbitEvent
    /\ \/ /\ ~kafkaOn
          /\ mark' = [mark EXCEPT ![t][e] = "ok"]
          /\ UNCHANGED <<copies, faults>>
       \/ /\ kafkaOn
          /\ \E lost \in 0..MaxFaults - faults :
                /\ copies' = [copies EXCEPT ![e] = @ + 1 + lost]
                /\ faults' = faults + lost
          /\ \E m \in {"ok", "error"} : mark' = [mark EXCEPT ![t][e] = m]
       \/ /\ kafkaOn
          /\ mark' = [mark EXCEPT ![t][e] = "error"]
          /\ UNCHANGED <<copies, faults>>
    /\ UNCHANGED <<rows, claimed, wire, process>>

(* A relay that does not look at whether publish() threw.                  *)
MarkAlwaysSent(t, e) ==
    /\ mark[t][e] \in {"ok", "error"}
    /\ mark' = [mark EXCEPT ![t][e] = "sent"]
    /\ UNCHANGED <<rows, claimed, wire, copies, process, faults>>

(* markSent, or in the catch block markFailed, inside the transaction.     *)
MarkEvent(t, e) ==
    /\ mark[t][e] \in {"ok", "error"}
    /\ mark' = [mark EXCEPT
                   ![t][e] = IF mark[t][e] = "ok" THEN "sent" ELSE "failed"]
    /\ UNCHANGED <<rows, claimed, wire, copies, process, faults>>

(* A markFailed that forgets attempts+1.                                   *)
ApplyMarksUncounted(t) ==
    /\ status' = [e \in Event |->
                     IF mark[t][e] \in {"sent", "failed"} THEN mark[t][e]
                                                          ELSE status[e]]
    /\ due' = [e \in Event |-> due[e] /\ mark[t][e] # "failed"]
    /\ UNCHANGED attempts

(* The UPDATE statements of markSent and markFailed become visible.        *)
ApplyMarks(t) ==
    /\ status' = [e \in Event |->
                     IF mark[t][e] \in {"sent", "failed"} THEN mark[t][e]
                                                          ELSE status[e]]
    /\ attempts' = [e \in Event |->
                       IF mark[t][e] = "failed" THEN attempts[e] + 1
                                                ELSE attempts[e]]
    /\ due' = [e \in Event |-> due[e] /\ mark[t][e] # "failed"]

CommitTick(t) ==
    /\ Running(t)
    /\ \A e \in claimed[t] : mark[t][e] \in {"sent", "failed"}
    /\ ApplyMarks(t)
    /\ EndTick(t)
    /\ UNCHANGED <<wire, copies, process, faults>>

(* next_retry_at passes.                                                   *)
BecomeDue(e) ==
    /\ status[e] = "failed"
    /\ ~due[e]
    /\ due' = [due EXCEPT ![e] = TRUE]
    /\ UNCHANGED <<status, attempts, claimed, mark, wire, copies, process, faults>>
-----------------------------------------------------------------------------
Fail == faults < MaxFaults /\ faults' = faults + 1

(* The broker reads a message from the socket.                             *)
Receive(e) ==
    /\ wire[e] > 0
    /\ wire' = [wire EXCEPT ![e] = @ - 1]
    /\ copies' = [copies EXCEPT ![e] = @ + 1]
    /\ UNCHANGED <<rows, claimed, mark, process, faults>>

(* A statement, the COMMIT or the connection fails.  markFailed cannot run *)
(* in an aborted transaction either, so the exception leaves the loop, the *)
(* transaction is rolled back and every mark of the batch is undone.       *)
TickFails(t) ==
    /\ Fail
    /\ Running(t)
    /\ EndTick(t)
    /\ UNCHANGED <<rows, wire, copies, process>>

(* The broker closes the connection (a restart of RabbitMQ).  What is on   *)
(* the socket is lost, and nothing opens the channel again.                *)
ChannelCloses ==
    /\ Fail
    /\ up
    /\ channel = "open"
    /\ channel' = "closed"
    /\ wire' = [e \in Event |-> 0]
    /\ UNCHANGED <<rows, claimed, mark, copies, up, kafkaOn>>

(* The process dies; the server rolls every tick back.                     *)
Crash ==
    /\ Fail
    /\ up
    /\ up' = FALSE
    /\ channel' = "closed"
    /\ wire' = [e \in Event |-> 0]
    /\ claimed' = [t \in Tick |-> {}]
    /\ mark' = [t \in Tick |-> [e \in Event |-> "untried"]]
    /\ UNCHANGED <<rows, copies, kafkaOn>>

(* onModuleInit opens a channel, onApplicationBootstrap starts the timer.  *)
Restart ==
    /\ ~up
    /\ up' = TRUE
    /\ channel' = "open"
    /\ UNCHANGED <<rows, claimed, mark, wire, copies, kafkaOn, faults>>
-----------------------------------------------------------------------------
RelayTick(t) ==
    \/ ClaimBatch(t)
    \/ CommitTick(t)
    \/ \E e \in Event :
          PublishRabbit(t, e) \/ PublishKafka(t, e) \/ MarkEvent(t, e)

(* sent, or given up after MaxAttempts failures                            *)
Exhausted(e) == status[e] = "failed" /\ attempts[e] = MaxAttempts
Settled(e) == status[e] = "sent" \/ Exhausted(e)

Terminating ==
    /\ up
    /\ \A e \in Event : Settled(e) /\ wire[e] = 0
    /\ UNCHANGED vars

Next ==
    \/ \E t \in Tick : RelayTick(t) \/ TickFails(t)
    \/ \E e \in Event : Add(e) \/ BecomeDue(e) \/ Receive(e)
    \/ ChannelCloses
    \/ Crash
    \/ Restart
    \/ Terminating

Spec == Init /\ [][Next]_vars

(* The timer fires for ever, the ticks it starts run on, retry times pass, *)
(* the sockets are read, and a dead process is started again.              *)
FairSpec ==
    /\ Spec
    /\ \A t \in Tick : WF_vars(RelayTick(t))
    /\ \A e \in Event : WF_vars(BecomeDue(e)) /\ WF_vars(Receive(e))
    /\ WF_vars(Restart)
-----------------------------------------------------------------------------
(* Every variable holds a value of its type; attempts never passes the     *)
(* limit and no event is in the batch of two ticks.                        *)
TypeOK ==
    /\ status \in [Event -> EventStatus]
    /\ attempts \in [Event -> 0..MaxAttempts]
    /\ due \in [Event -> BOOLEAN]
    /\ claimed \in [Tick -> SUBSET Event]
    /\ mark \in [Tick -> [Event -> Mark]]
    /\ wire \in [Event -> Nat]
    /\ copies \in [Event -> Nat]
    /\ up \in BOOLEAN
    /\ channel \in {"open", "closed"}
    /\ kafkaOn \in BOOLEAN
    /\ faults \in 0..MaxFaults
    /\ \A t, u \in Tick : t # u => claimed[t] \cap claimed[u] = {}

(* A duplicate has a cause: an event is published once, and once more for  *)
(* each counted attempt that failed, each tick, channel or process that    *)
(* did, and each answer of Kafka that was lost.  Overlapping ticks alone   *)
(* never publish an event twice (SKIP LOCKED and the transaction around    *)
(* the whole batch).                                                       *)
DuplicatesHaveCause ==
    \A e \in Event : copies[e] + wire[e] <= 1 + attempts[e] + faults

(* "sent" is true of Kafka, and of RabbitMQ as long as nothing failed: the *)
(* broker has the event or it is on the socket.                            *)
SentIsOnItsWay ==
    \A e \in Event : status[e] = "sent" =>
        \/ copies[e] + wire[e] > 0
        \/ e \in RabbitEvent /\ faults > 0
        \/ e \notin RabbitEvent /\ ~kafkaOn

(* A sent event is never claimed, counted or rescheduled again, and the    *)
(* attempts of an event never go down (markSent leaves them alone).        *)
SentIsFinal ==
    [][\A e \in Event :
          /\ status[e] = "sent" => status'[e] = "sent" /\ attempts'[e] = attempts[e]
          /\ attempts'[e] >= attempts[e]]_vars

(* No committed event is left behind, by the batch limit, by locks that    *)
(* other ticks hold, or by a crash: it is sent, or fails MaxAttempts times.*)
EveryEventSettled ==
    \A e \in Event : status[e] = "pending" ~> Settled(e)

(* What was handed over: received, or on the socket.                       *)
Handed == [e \in Event |-> copies[e] + wire[e]]

Outbox == INSTANCE Outbox WITH
             Lossy <- RabbitEvent, Patience <- MaxAttempts,
             state <- status, tries <- attempts,
             handed <- Handed, arrived <- copies, linked <- kafkaOn

(* Overlapping ticks, their batches, locks and failures amount to the      *)
(* outbox: an event is published only while it is open, and again only for *)
(* a failure; it is sent if it was handed over, and then over; and an      *)
(* attempt is used up only where there is a Kafka to fail, or after a      *)
(* channel or a process has.                                               *)
KeepsOutbox == Outbox!OutboxSpec
-----------------------------------------------------------------------------
(* The inductive invariant behind the theorems of OutboxRelayProofs.       *)

(* What a tick holds is still due to be settled: its locks keep the rows   *)
(* as claimBatch read them, and it has marks for nothing else.             *)
ClaimsHold(t) ==
    /\ \A e \in claimed[t] :
          status[e] \in {"pending", "failed"} /\ attempts[e] < MaxAttempts
    /\ \A e \in Event : mark[t][e] # "untried" => e \in claimed[t]

(* The event has been published for the last time, or may have been by a   *)
(* tick that has not ended.                                                *)
Tried(e) == status[e] = "sent" \/ \E t \in Tick : mark[t][e] # "untried"

(* Each publication but the last is paid for by a failure.                 *)
Budget(e) ==
    copies[e] + wire[e] <= attempts[e] + faults + (IF Tried(e) THEN 1 ELSE 0)

OnItsWay(e) ==
    \/ copies[e] + wire[e] > 0
    \/ e \in RabbitEvent /\ faults > 0
    \/ e \notin RabbitEvent /\ ~kafkaOn

(* What can make a publication fail.                                       *)
MayFail(e) == IF e \in RabbitEvent THEN faults > 0 ELSE kafkaOn

MarkIsTrue(e) ==
    /\ e \notin RabbitEvent => wire[e] = 0
    /\ status[e] = "sent" => OnItsWay(e)
    /\ \A t \in Tick : /\ mark[t][e] \in {"ok", "sent"} => OnItsWay(e)
                       /\ mark[t][e] \in {"error", "failed"} => MayFail(e)

(* Everything at once: true initially and kept by every step.              *)
IInv ==
    /\ TypeOK
    /\ channel = "closed" => faults > 0
    /\ \A t \in Tick : ClaimsHold(t)
    /\ \A e \in Event : Budget(e) /\ MarkIsTrue(e)
=============================================================================
