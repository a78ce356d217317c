--------------------------- MODULE OrderProcessing ---------------------------
(***************************************************************************)
(* OrdersProcessorConsumer (src/orders/orders-processor.consumer.ts) in    *)
(* several API processes at once, over the RabbitMQ queues orders.process, *)
(* orders.retry and orders.dlq.                                            *)
(*                                                                         *)
(* A message is identified with its messageId; the outbox writes one for   *)
(* each order, and its relay may publish it more than once.  A delivery is *)
(* a message with its attempt number.  The broker keeps a delivery until   *)
(* it is acknowledged and puts it back when its channel closes, although   *)
(* the handler that has it goes on.                                        *)
(***************************************************************************)
EXTENDS Integers, FiniteSets

CONSTANTS
    Message,        \* messageIds
    NoMessage,      \* "handles no message"
    Consumer,       \* API processes; prefetch 1, so one delivery each
    Invalid,        \* messages parseMessage refuses
    AlwaysFail,     \* messages that carry simulate = 'alwaysFail'
    MaxAttempts,    \* rabbitMq.maxAttempts
    PoolSize,       \* connections of a process to Postgres
    MaxCopies,      \* bound: times the relay publishes each message
    MaxFaults,      \* bound: failed statements and crashes
    MaxClosures     \* bound: channels the broker closes

ASSUME ProcessingAssumption ==
    /\ IsFiniteSet(Message) /\ IsFiniteSet(Consumer)
    /\ NoMessage \notin Message
    /\ Invalid \cup AlwaysFail \subseteq Message
    /\ MaxAttempts \in Nat \ {0}
    /\ PoolSize \in Nat
    /\ MaxCopies \in [Message -> Nat]
    /\ MaxFaults \in Nat
    /\ MaxClosures \in Nat

Attempt == 1..MaxAttempts

VARIABLES
    published,  \* times the relay has published each message
    ready,      \* deliveries waiting in orders.process
    delayed,    \* deliveries waiting in orders.retry for their TTL
    dead,       \* messages in orders.dlq
    pc,         \* the next step of each consumer
    msg,        \* the message it handles
    attempt,    \* the attempt number of that message
    channel,    \* "open", or "closed" with its consumer gone
    conns,      \* connections its pool has left to give
    processed,  \* committed rows of processed_messages
    effects,    \* committed executions of the UPDATE of orders
    faults,     \* failures so far
    closures    \* closed channels so far

vars == <<published, ready, delayed, dead, pc, msg, attempt, channel, conns,
          processed, effects, faults, closures>>

broker == <<published, ready, delayed, dead>>
handling == <<msg, attempt>>
database == <<processed, effects>>
bounds == <<faults, closures>>
-----------------------------------------------------------------------------
Label == {"idle", "begin", "insert", "update", "commit", "duplicate", "ack",
          "failed", "forwarded", "down"}

(* A transaction that has inserted the message and has not ended.          *)
Inserting(c) == pc[c] \in {"update", "commit"}

(* The broker counts the delivery as unacknowledged at c.                  *)
Unacked(c) == pc[c] \notin {"idle", "down"} /\ channel[c] = "open"

Goto(c, l) == pc' = [pc EXCEPT ![c] = l]

(* The handler is over: the worker waits for a delivery, or is gone.       *)
LeaveHandler(c, l) ==
    /\ Goto(c, l)
    /\ msg' = [msg EXCEPT ![c] = NoMessage]
    /\ attempt' = [attempt EXCEPT ![c] = 1]

PutReady(m, k) == ready' = [ready EXCEPT ![m][k] = @ + 1]

(* The broker puts back what the closing channel of c had not acknowledged.*)
Requeue(c) ==
    \/ Unacked(c) /\ PutReady(msg[c], attempt[c])
    \/ ~Unacked(c) /\ UNCHANGED ready

Fail == faults < MaxFaults /\ faults' = faults + 1 /\ UNCHANGED closures
-----------------------------------------------------------------------------
Init ==
    /\ published = [m \in Message |-> 0]
    /\ ready = [m \in Message |-> [k \in Attempt |-> 0]]
    /\ delayed = [m \in Message |-> [k \in Attempt |-> 0]]
    /\ dead = [m \in Message |-> 0]
    /\ pc = [c \in Consumer |-> "idle"]
    /\ msg = [c \in Consumer |-> NoMessage]
    /\ attempt = [c \in Consumer |-> 1]
    /\ channel = [c \in Consumer |-> "open"]
    /\ conns = [c \in Consumer |-> PoolSize]
    /\ processed = {}
    /\ effects = [m \in Message |-> 0]
    /\ faults = 0
    /\ closures = 0

(* The relay's publication arrives; messages start without an attempt      *)
(* field, which the consumer reads as 1.                                   *)
Arrive(m) ==
    /\ published[m] < MaxCopies[m]
    /\ published' = [published EXCEPT ![m] = @ + 1]
    /\ PutReady(m, 1)
    /\ UNCHANGED <<delayed, dead, pc, handling, channel, conns, database, bounds>>

(* onMessage: a delivery that cannot be parsed is acknowledged and gone.   *)
Deliver(c, m, k) ==
    /\ pc[c] = "idle"
    /\ channel[c] = "open"
    /\ ready[m][k] > 0
    /\ ready' = [ready EXCEPT ![m][k] = @ - 1]
    /\ \/ m \in Invalid /\ UNCHANGED <<pc, handling>>
       \/ /\ m \notin Invalid
          /\ Goto(c, "begin")
          /\ msg' = [msg EXCEPT ![c] = m]
          /\ attempt' = [attempt EXCEPT ![c] = k]
    /\ UNCHANGED <<published, delayed, dead, channel, conns, database, bounds>>

(* A transaction that fails to start (lines 166-167, outside the try block)*)
(* does not give its connection back.                                      *)
BeginFails(c) ==
    /\ Fail
    /\ pc[c] = "begin"
    /\ conns[c] > 0
    /\ conns' = [conns EXCEPT ![c] = @ - 1]
    /\ Goto(c, "failed")
    /\ UNCHANGED <<broker, handling, channel, database>>

(* connect() waits for a connection of the pool, then BEGIN.               *)
Begin(c) ==
    /\ pc[c] = "begin"
    /\ conns[c] > 0
    /\ Goto(c, "insert")
    /\ UNCHANGED <<broker, handling, channel, conns, database, bounds>>

(* The unique constraint on message_id, over the committed rows.           *)
Conflicts(c) == msg[c] \in processed

(* A lookup before the INSERT, instead of the unique index.                *)
InsertAfterLookup(c) ==
    /\ pc[c] = "insert"
    /\ Goto(c, IF Conflicts(c) THEN "duplicate" ELSE "update")
    /\ UNCHANGED <<broker, handling, channel, conns, database, bounds>>

(* INSERT ... ON CONFLICT (message_id) DO NOTHING: waits for an open       *)
(* transaction that inserted the same id, and inserts nothing if the id is *)
(* committed.                                                              *)
Insert(c) ==
    /\ pc[c] = "insert"
    /\ \A d \in Consumer \ {c} : Inserting(d) => msg[d] # msg[c]
    /\ Goto(c, IF Conflicts(c) THEN "duplicate" ELSE "update")
    /\ UNCHANGED <<broker, handling, channel, conns, database, bounds>>

(* The simulated error rolls back; otherwise UPDATE orders SET status.     *)
(* (That the UPDATE met no row is never noticed: its result has the length *)
(* 2.  The foreign key of the inserted row sees to it that there is one.)  *)
Update(c) ==
    /\ pc[c] = "update"
    /\ Goto(c, IF msg[c] \in AlwaysFail THEN "failed" ELSE "commit")
    /\ UNCHANGED <<broker, handling, channel, conns, database, bounds>>

(* COMMIT on the server.                                                   *)
Publish(c) ==
    /\ processed' = processed \cup {msg[c]}
    /\ effects' = [effects EXCEPT ![msg[c]] = @ + 1]

Commit(c) ==
    /\ \/ pc[c] = "commit" /\ Publish(c)
       \/ pc[c] = "duplicate" /\ UNCHANGED database
    /\ Goto(c, "ack")
    /\ UNCHANGED <<broker, handling, channel, conns, bounds>>

(* A consumer that acknowledges as soon as it has the message.             *)
AckEarly(c) ==
    /\ pc[c] = "begin"
    /\ LeaveHandler(c, "idle")
    /\ UNCHANGED <<broker, channel, conns, database, bounds>>

(* channel.ack(msg), after the commit or after the message was forwarded.  *)
Ack(c) ==
    /\ pc[c] \in {"ack", "forwarded"}
    /\ channel[c] = "open"
    /\ LeaveHandler(c, "idle")
    /\ UNCHANGED <<broker, channel, conns, database, bounds>>

(* The retry counted from the wrong end.                                   *)
ForwardOffByOne(c) ==
    /\ pc[c] = "failed"
    /\ channel[c] = "open"
    /\ \/ /\ attempt[c] < MaxAttempts - 1
          /\ delayed' = [delayed EXCEPT ![msg[c]][attempt[c] + 1] = @ + 1]
          /\ UNCHANGED dead
       \/ /\ attempt[c] >= MaxAttempts - 1
          /\ dead' = [dead EXCEPT ![msg[c]] = @ + 1]
          /\ UNCHANGED delayed
    /\ Goto(c, "forwarded")
    /\ UNCHANGED <<published, ready, handling, channel, conns, database, bounds>>

(* A consumer that leaves it to the broker to retry: nack with requeue.    *)
ForwardByRequeue(c) ==
    /\ pc[c] = "failed"
    /\ channel[c] = "open"
    /\ PutReady(msg[c], attempt[c])
    /\ LeaveHandler(c, "idle")
    /\ UNCHANGED <<published, delayed, dead, channel, conns, database,
                   bounds>>

(* Lines 93-144: with attempts left the message is published to the retry  *)
(* queue with the next number, and else to the dead-letter queue; the same *)
(* channel carries the ack after it.                                       *)
Forward(c) ==
    /\ pc[c] = "failed"
    /\ channel[c] = "open"
    /\ \/ /\ attempt[c] < MaxAttempts
          /\ delayed' = [delayed EXCEPT ![msg[c]][attempt[c] + 1] = @ + 1]
          /\ UNCHANGED dead
       \/ /\ attempt[c] >= MaxAttempts
          /\ dead' = [dead EXCEPT ![msg[c]] = @ + 1]
          /\ UNCHANGED delayed
    /\ Goto(c, "forwarded")
    /\ UNCHANGED <<published, ready, handling, channel, conns, database, bounds>>

(* On a closed channel ack, publish and nack throw, the last one out of    *)
(* the handler: an unhandled rejection ends the process.                   *)
HandlerThrows(c) ==
    /\ pc[c] \in {"ack", "failed", "forwarded"}
    /\ channel[c] = "closed"
    /\ LeaveHandler(c, "down")
    /\ UNCHANGED <<broker, channel, conns, database, bounds>>

(* The TTL of orders.retry passes: the delivery goes to orders.process.    *)
Expire(m, k) ==
    /\ delayed[m][k] > 0
    /\ delayed' = [delayed EXCEPT ![m][k] = @ - 1]
    /\ PutReady(m, k)
    /\ UNCHANGED <<published, dead, pc, handling, channel, conns, database, bounds>>
-----------------------------------------------------------------------------
(* A statement fails: rollback, and the error goes to onMessage.  COMMIT   *)
(* may have taken effect all the same.                                     *)
StatementFails(c) ==
    /\ Fail
    /\ \/ pc[c] \in {"insert", "update", "commit", "duplicate"} /\ UNCHANGED database
       \/ pc[c] = "commit" /\ Publish(c)
    /\ Goto(c, "failed")
    /\ UNCHANGED <<broker, handling, channel, conns>>

(* The process dies, or is stopped: the database rolls back, the broker    *)
(* redelivers.                                                             *)
Crash(c) ==
    /\ Fail
    /\ pc[c] # "down"
    /\ LeaveHandler(c, "down")
    /\ channel' = [channel EXCEPT ![c] = "closed"]
    /\ Requeue(c)
    /\ UNCHANGED <<published, delayed, dead, conns, database>>

(* onModuleInit and onApplicationBootstrap.                                *)
Restart(c) ==
    /\ pc[c] = "down"
    /\ Goto(c, "idle")
    /\ channel' = [channel EXCEPT ![c] = "open"]
    /\ conns' = [conns EXCEPT ![c] = PoolSize]
    /\ UNCHANGED <<broker, handling, database, bounds>>

(* The broker closes the connection (a restart of RabbitMQ): nothing in    *)
(* the process opens a channel or subscribes again.                        *)
ChannelCloses(c) ==
    /\ closures < MaxClosures
    /\ closures' = closures + 1
    /\ pc[c] # "down"
    /\ channel[c] = "open"
    /\ channel' = [channel EXCEPT ![c] = "closed"]
    /\ Requeue(c)
    /\ UNCHANGED <<published, delayed, dead, pc, handling, conns, database, faults>>
-----------------------------------------------------------------------------
Consume(c) == \E m \in Message, k \in Attempt : Deliver(c, m, k)

Handle(c) ==
    \/ Begin(c) \/ Insert(c) \/ Update(c) \/ Commit(c) \/ Ack(c) \/ Forward(c)
    \/ HandlerThrows(c)

(* With every worker idle the system may rest.                             *)
Terminating ==
    /\ \A c \in Consumer : pc[c] = "idle"
    /\ UNCHANGED vars

Next ==
    \/ \E m \in Message : Arrive(m)
    \/ \E m \in Message, k \in Attempt : Expire(m, k)
    \/ \E c \in Consumer :
          \/ Consume(c) \/ Handle(c) \/ BeginFails(c) \/ StatementFails(c)
          \/ Crash(c) \/ Restart(c) \/ ChannelCloses(c)
    \/ Terminating

Spec == Init /\ [][Next]_vars

(* The broker delivers and expires, node runs its continuations, Postgres  *)
(* ends waiting, and a dead process is started again.                      *)
FairSpec ==
    /\ Spec
    /\ \A c \in Consumer :
          WF_vars(Consume(c)) /\ WF_vars(Handle(c)) /\ WF_vars(Restart(c))
    /\ \A m \in Message, k \in Attempt : WF_vars(Expire(m, k))
-----------------------------------------------------------------------------
(* Every variable holds a value of its type; no attempt number passes the  *)
(* limit.                                                                  *)
TypeOK ==
    /\ published \in [Message -> Nat]
    /\ ready \in [Message -> [Attempt -> Nat]]
    /\ delayed \in [Message -> [Attempt -> Nat]]
    /\ dead \in [Message -> Nat]
    /\ pc \in [Consumer -> Label]
    /\ msg \in [Consumer -> Message \cup {NoMessage}]
    /\ attempt \in [Consumer -> Attempt]
    /\ channel \in [Consumer -> {"open", "closed"}]
    /\ conns \in [Consumer -> 0..PoolSize]
    /\ processed \subseteq Message
    /\ effects \in [Message -> Nat]
    /\ faults \in 0..MaxFaults
    /\ closures \in 0..MaxClosures

(* However often a message is published, redelivered or retried, and by    *)
(* whichever workers, its business effect is committed at most once, and   *)
(* exactly when its row of processed_messages is.                          *)
EffectOnce ==
    \A m \in Message : effects[m] = IF m \in processed THEN 1 ELSE 0

(* A published message is never lost: until it has taken effect or is in   *)
(* the dead-letter queue, some queue or some unacknowledged handler has it.*)
NothingLost ==
    \A m \in Message \ Invalid : published[m] > 0 =>
        \/ m \in processed
        \/ dead[m] > 0
        \/ \E k \in Attempt : ready[m][k] + delayed[m][k] > 0
        \/ \E c \in Consumer : Unacked(c) /\ msg[c] = m

(* A message is dead-lettered only after MaxAttempts failures: its own, or *)
(* as many of the database.                                                *)
DeadHasCause ==
    \A m \in Message : dead[m] > 0 => m \in AlwaysFail \/ faults >= MaxAttempts

(* A message never stops being retried, and never waits for ever: it takes *)
(* effect or reaches the dead-letter queue.                                *)
EveryMessageEnds ==
    \A m \in Message \ Invalid :
        published[m] > 0 ~> m \in processed \/ dead[m] > 0

(* The messages some queue, or some handler that the broker waits for, has.*)
Sent == {m \in Message : published[m] > 0}
Waiting ==
    {m \in Message :
        \/ \E k \in Attempt : ready[m][k] > 0 \/ delayed[m][k] > 0
        \/ \E c \in Consumer : Unacked(c) /\ msg[c] = m}

Queue == INSTANCE WorkQueue WITH
            sent <- Sent, waiting <- Waiting,
            Unreadable <- Invalid, Hopeless <- AlwaysFail, Patience <- MaxAttempts

(* Three queues, workers, redeliveries and transactions amount to one queue*)
(* in which a message takes effect at most once, is given up for a cause,  *)
(* and leaves only after one of the two.                                   *)
KeepsQueue == Queue!QueueSpec
-----------------------------------------------------------------------------
(* The inductive invariant behind the theorems of OrderProcessingProofs.   *)

Busy(c) == pc[c] \notin {"idle", "down"}

(* What a handler knows of processed_messages stays true while it runs: an *)
(* id it has inserted is not committed by another, a duplicate stays one.  *)
HandlerHolds(c) ==
    /\ Busy(c) => msg[c] \in Message
    /\ Inserting(c) => msg[c] \notin processed
    /\ pc[c] = "duplicate" => msg[c] \in processed

(* The unique index admits one open transaction per message.               *)
OneInserter ==
    \A c, d \in Consumer :
        Inserting(c) /\ Inserting(d) /\ msg[c] = msg[d] => c = d

(* The message is still in good hands without the handlers that are about  *)
(* to acknowledge it.                                                      *)
Kept(m) ==
    \/ m \in processed
    \/ dead[m] > 0
    \/ \E k \in Attempt : ready[m][k] > 0 \/ delayed[m][k] > 0
    \/ \E c \in Consumer :
          Unacked(c) /\ msg[c] = m /\ pc[c] \notin {"ack", "forwarded"}

(* Every attempt but the first was paid for by a failure.                  *)
AttemptsPaid(m) ==
    m \notin AlwaysFail =>
        /\ \A k \in Attempt :
              ready[m][k] > 0 \/ delayed[m][k] > 0 => k <= faults + 1
        /\ \A c \in Consumer : Busy(c) /\ msg[c] = m =>
              /\ attempt[c] <= faults + 1
              /\ pc[c] = "failed" => attempt[c] <= faults
        /\ dead[m] > 0 => faults >= MaxAttempts

(* What is queued or handled was published, what is handled can be parsed, *)
(* and what is about to be committed can succeed.                          *)
Traced ==
    /\ \A m \in Message, k \in Attempt :
          ready[m][k] > 0 \/ delayed[m][k] > 0 => published[m] > 0
    /\ \A c \in Consumer :
          /\ Busy(c) => published[msg[c]] > 0 /\ msg[c] \notin Invalid
          /\ pc[c] = "commit" => msg[c] \notin AlwaysFail

(* Everything at once: true initially and kept by every step.              *)
IInv ==
    /\ TypeOK
    /\ EffectOnce
    /\ OneInserter
    /\ \A c \in Consumer : HandlerHolds(c)
    /\ \A m \in Message :
          /\ m \notin Invalid /\ published[m] > 0 => Kept(m)
          /\ AttemptsPaid(m)
=============================================================================
