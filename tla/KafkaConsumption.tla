--------------------------- MODULE KafkaConsumption ---------------------------
(***************************************************************************)
(* Events on a Kafka topic and one group that consumes them (src/kafka and *)
(* the four consumers of orders.events and payments.events).  The key of   *)
(* an event, its order, fixes its partition.  Every API process subscribes *)
(* with the same group id; the group coordinator gives each partition to   *)
(* one of them at a time.  KafkaService.consume runs the handler and then  *)
(* commits the offset, one event after the other, with autoCommit off.     *)
(* Groups do not meet in this, so there is one, of any of the consumers.   *)
(*                                                                         *)
(* The n-th event of a partition has offset n - 1: committing n says that  *)
(* the first n events are done.                                            *)
(***************************************************************************)
EXTENDS Naturals, FiniteSets, Sequences

CONSTANTS
    Event,      \* what is published, by the outbox relay or after a capture
    Body,       \* what the value of each event holds
    Reader,     \* the consumers whose group this may be
    Partition,
    Home,       \* the partition of each event, by its key
    Process,    \* API processes, each a member of the group
    Nobody,     \* no process
    MaxLog,     \* bound: events in a partition
    MaxSends,   \* bound: attempts to publish an event
    MaxFaults   \* bound: crashes, rebalances, failed commits

(* No value; not JSON; null, or an OrderPlaced without its order; another  *)
(* event's JSON; an event of the topic.                                    *)
Content == {"nothing", "garbage", "hollow", "stranger", "ours"}

Consumer == {"ordersAnalytics", "ordersCrm", "paymentsAnalytics", "paymentsAudit"}

ASSUME KafkaAssumption ==
    /\ Body \in [Event -> Content]
    /\ Reader \subseteq Consumer
    /\ Home \in [Event -> Partition]
    /\ IsFiniteSet(Process)
    /\ Nobody \notin Process
    /\ {MaxLog, MaxSends, MaxFaults} \subseteq Nat

VARIABLES
    reader,     \* the consumer
    up,         \* processes that have started
    sends,      \* attempts to publish each event
    acked,      \* events whose publication returned
    log,        \* the events of each partition
    owner,      \* the process a partition is assigned to
    committed,  \* the group's committed offset
    position,   \* how many events a process is past, in a partition it reads
    step,       \* what it does with the event that follows
    heard,      \* events for which the handler has run to its end
    runs,       \* history: how often it has, in each partition
    faults      \* failures so far

vars == <<reader, up, sends, acked, log, owner, committed, position, step, heard,
          runs, faults>>
broker == <<reader, sends, acked, log>>
group == <<up, owner>>
session == <<position, step>>
effect == <<heard, runs>>
-----------------------------------------------------------------------------
Offset == 1..MaxLog

Step == {"away", "waiting", "handling", "handled"}

(* parsePaymentEvent throws unless the value is an envelope it knows.      *)
ParsePaymentEvent(b) == b = "ours"

(* handleMessage of the four consumers gets to its end: each passes over a *)
(* message without a value; those of orders.events parse JSON, pass over   *)
(* the events they do not know and read the order of those they do; those  *)
(* of payments.events throw at what they do not know.                      *)
OrdersAnalytics(b) == b \notin {"garbage", "hollow"}
OrdersCrm(b) == b \notin {"garbage", "hollow"}
PaymentsAnalytics(b) == b = "nothing" \/ ParsePaymentEvent(b)
PaymentsAudit(b) == b = "nothing" \/ ParsePaymentEvent(b)

Handles(b) ==
    CASE reader = "ordersAnalytics" -> OrdersAnalytics(b)
      [] reader = "ordersCrm" -> OrdersCrm(b)
      [] reader = "paymentsAnalytics" -> PaymentsAnalytics(b)
      [] reader = "paymentsAudit" -> PaymentsAudit(b)

(* The events whose handler throws.                                        *)
Bad == {e \in Event : ~Handles(Body[e])}

Init ==
    /\ reader \in Reader
    /\ up = {}
    /\ sends = [e \in Event |-> 0]
    /\ acked = {}
    /\ log = [p \in Partition |-> <<>>]
    /\ owner = [p \in Partition |-> Nobody]
    /\ committed = [p \in Partition |-> 0]
    /\ position = [m \in Process |-> [p \in Partition |-> 0]]
    /\ step = [m \in Process |-> [p \in Partition |-> "away"]]
    /\ heard = [p \in Partition |-> {}]
    /\ runs = [p \in Partition |-> 0]
    /\ faults = 0

(* onModuleInit: the topic is there, or ensureTopics makes it; then the    *)
(* producer is connected, and onApplicationBootstrap subscribes.           *)
Start(m) ==
    /\ m \notin up
    /\ up' = up \cup {m}
    /\ UNCHANGED <<broker, owner, committed, session, effect, faults>>

(* KafkaService.publish by a process that has started: the broker has the  *)
(* event or not, and producer.send returns only if it has.  The relay, and *)
(* kafkajs inside of one send, try again after an error.                   *)
Publish(e) ==
    /\ up # {}
    /\ e \notin acked /\ sends[e] < MaxSends
    /\ sends' = [sends EXCEPT ![e] = @ + 1]
    /\ \/ UNCHANGED <<acked, log>>
       \/ /\ Len(log[Home[e]]) < MaxLog
          /\ log' = [log EXCEPT ![Home[e]] = Append(@, e)]
          /\ acked' = acked \/ acked' = acked \cup {e}
    /\ UNCHANGED <<reader, group, committed, session, effect, faults>>

(* A subscription without fromBeginning.                                   *)
AssignLatest(m, p) ==
    /\ m \in up /\ owner[p] = Nobody /\ step[m][p] = "away"
    /\ owner' = [owner EXCEPT ![p] = m]
    /\ position' = [position EXCEPT
                       ![m][p] = IF committed[p] = 0 THEN Len(log[p]) ELSE committed[p]]
    /\ step' = [step EXCEPT ![m][p] = "waiting"]
    /\ UNCHANGED <<broker, up, committed, effect, faults>>

(* The coordinator assigns the partition; the process starts from the      *)
(* committed offset, or from the beginning when there is none.             *)
Assign(m, p) ==
    /\ m \in up /\ owner[p] = Nobody /\ step[m][p] = "away"
    /\ owner' = [owner EXCEPT ![p] = m]
    /\ position' = [position EXCEPT ![m][p] = committed[p]]
    /\ step' = [step EXCEPT ![m][p] = "waiting"]
    /\ UNCHANGED <<broker, up, committed, effect, faults>>

(* eachMessage is called with the next event.                              *)
Fetch(m, p) ==
    /\ owner[p] = m /\ step[m][p] = "waiting"
    /\ position[m][p] < Len(log[p])
    /\ step' = [step EXCEPT ![m][p] = "handling"]
    /\ UNCHANGED <<broker, group, committed, position, effect, faults>>

Following(m, p) == position[m][p] + 1

(* The handler's effect on the event, done once more.                      *)
Run(m, p) ==
    /\ heard' = [heard EXCEPT ![p] = @ \cup {Following(m, p)}]
    /\ runs' = [runs EXCEPT ![p] = @ + 1]

(* A handler that catches what parsing throws.                             *)
HandleQuietly(m, p) ==
    /\ step[m][p] = "handling"
    /\ step' = [step EXCEPT ![m][p] = "handled"]
    /\ IF log[p][Following(m, p)] \in Bad THEN UNCHANGED effect ELSE Run(m, p)
    /\ UNCHANGED <<broker, group, committed, position, faults>>

(* handleMessage returns, for a bad event throws; kafkajs hands the event  *)
(* out again.                                                              *)
Handle(m, p) ==
    /\ step[m][p] = "handling"
    /\ IF log[p][Following(m, p)] \in Bad
       THEN /\ step' = [step EXCEPT ![m][p] = "waiting"]
            /\ UNCHANGED effect
       ELSE /\ Run(m, p)
            /\ step' = [step EXCEPT ![m][p] = "handled"]
    /\ UNCHANGED <<broker, group, committed, position, faults>>

(* The offset of the event, not of the one that follows it.                *)
CommitSameOffset(m, p) ==
    /\ step[m][p] = "handled" /\ owner[p] = m
    /\ committed' = [committed EXCEPT ![p] = position[m][p]]
    /\ position' = [position EXCEPT ![m][p] = @ + 1]
    /\ step' = [step EXCEPT ![m][p] = "waiting"]
    /\ UNCHANGED <<broker, group, effect, faults>>

(* The offset after the one that follows.                                  *)
CommitTooFar(m, p) ==
    /\ step[m][p] = "handled" /\ owner[p] = m
    /\ committed' = [committed EXCEPT ![p] = Following(m, p) + 1]
    /\ position' = [position EXCEPT ![m][p] = @ + 1]
    /\ step' = [step EXCEPT ![m][p] = "waiting"]
    /\ UNCHANGED <<broker, group, effect, faults>>

(* commitOffsets, after the handler.                                       *)
Commit(m, p) ==
    /\ step[m][p] = "handled" /\ owner[p] = m
    /\ committed' = [committed EXCEPT ![p] = Following(m, p)]
    /\ position' = [position EXCEPT ![m][p] = @ + 1]
    /\ step' = [step EXCEPT ![m][p] = "waiting"]
    /\ UNCHANGED <<broker, group, effect, faults>>

(* commitOffsets throws, whether or not the broker has the offset: the     *)
(* event is handed out again.                                              *)
CommitFails(m, p) ==
    /\ faults < MaxFaults /\ faults' = faults + 1
    /\ step[m][p] = "handled" /\ owner[p] = m
    /\ committed' \in {committed, [committed EXCEPT ![p] = Following(m, p)]}
    /\ step' = [step EXCEPT ![m][p] = "waiting"]
    /\ UNCHANGED <<broker, group, position, effect>>

(* A process that lost the partition learns of it when it commits, or      *)
(* between two events; the coordinator refuses its offset.                 *)
Fenced(m, p) ==
    /\ owner[p] # m /\ step[m][p] \in {"handled", "waiting"}
    /\ step' = [step EXCEPT ![m][p] = "away"]
    /\ position' = [position EXCEPT ![m][p] = 0]
    /\ UNCHANGED <<broker, group, committed, effect, faults>>

(* The group rebalances while the owner is in the middle of something.     *)
Rebalance(p) ==
    /\ faults < MaxFaults /\ faults' = faults + 1
    /\ owner[p] # Nobody
    /\ owner' = [owner EXCEPT ![p] = Nobody]
    /\ UNCHANGED <<broker, up, committed, session, effect>>

(* A process dies; the container starts it again.                          *)
Crash(m) ==
    /\ faults < MaxFaults /\ faults' = faults + 1
    /\ m \in up /\ up' = up \ {m}
    /\ owner' = [p \in Partition |-> IF owner[p] = m THEN Nobody ELSE owner[p]]
    /\ step' = [step EXCEPT ![m] = [p \in Partition |-> "away"]]
    /\ position' = [position EXCEPT ![m] = [p \in Partition |-> 0]]
    /\ UNCHANGED <<broker, committed, effect>>

Consume(m, p) == Fetch(m, p) \/ Handle(m, p) \/ Commit(m, p) \/ Fenced(m, p)

(* Nothing left to publish: the group may have nothing to do.              *)
Drained ==
    /\ \A e \in Event : e \in acked \/ sends[e] = MaxSends
    /\ UNCHANGED vars

Next ==
    \/ \E e \in Event : Publish(e)
    \/ \E m \in Process, p \in Partition :
          Assign(m, p) \/ Consume(m, p) \/ CommitFails(m, p)
    \/ \E p \in Partition : Rebalance(p)
    \/ \E m \in Process : Start(m) \/ Crash(m)
    \/ Drained

Spec == Init /\ [][Next]_vars

(* Containers start their processes again, the coordinator assigns a free  *)
(* partition to one of them, and kafkajs keeps reading; nothing makes      *)
(* anybody publish.                                                        *)
FairSpec ==
    /\ Spec
    /\ \A m \in Process : WF_vars(Start(m))
    /\ \A p \in Partition : WF_vars(\E m \in Process : Assign(m, p))
    /\ \A m \in Process, p \in Partition : WF_vars(Consume(m, p))
-----------------------------------------------------------------------------
(* Every variable holds a value of its type.                               *)
TypeOK ==
    /\ reader \in Reader
    /\ up \subseteq Process
    /\ sends \in [Event -> 0..MaxSends]
    /\ acked \subseteq Event
    /\ log \in [Partition -> Seq(Event)]
    /\ \A p \in Partition : Len(log[p]) <= MaxLog
    /\ owner \in [Partition -> Process \cup {Nobody}]
    /\ committed \in [Partition -> Nat]
    /\ \A p \in Partition : committed[p] <= Len(log[p])
    /\ position \in [Process -> [Partition -> Nat]]
    /\ step \in [Process -> [Partition -> Step]]
    /\ heard \in [Partition -> SUBSET Offset]
    /\ runs \in [Partition -> Nat]
    /\ faults \in 0..MaxFaults

(* At least once: what the group has committed was handled to its end, so  *)
(* no crash or rebalance makes it skip an event; and so an event that      *)
(* cannot be parsed is never passed.                                       *)
NoneSkipped ==
    \A p \in Partition : \A n \in 1..committed[p] :
        n \in heard[p] /\ log[p][n] \notin Bad

(* An event is never handled before all those ahead of it were, by this    *)
(* process or another: the events of an order are heard in the order they  *)
(* were published, repeats apart.                                          *)
HeardInOrder ==
    \A p \in Partition : \A n \in heard[p] :
        n <= Len(log[p]) /\ 1..(n - 1) \subseteq heard[p]

(* Only failures make a handler run again, and each of them for at most    *)
(* one event of a partition: however many events were handled since, a     *)
(* crash or rebalance repeats only the one that was not committed.         *)
RepeatsHaveCause ==
    \A p \in Partition : runs[p] <= Cardinality(heard[p]) + faults

Blocked(p, n) == \E k \in 1..n : log[p][k] \in Bad

(* The invariant of the proofs: whatever process is past an event, or has  *)
(* committed it, all events up to there were handled, and stay so.         *)
Passed(p, n) ==
    /\ n <= Len(log[p])
    /\ \A k \in 1..n : k \in heard[p] /\ log[p][k] \notin Bad

KInv ==
    /\ TypeOK
    /\ \A p \in Partition : Passed(p, committed[p])
    /\ \A m \in Process, p \in Partition :
          /\ Passed(p, position[m][p])
          /\ step[m][p] = "handling" => Following(m, p) <= Len(log[p])
          /\ step[m][p] = "handled" => Passed(p, Following(m, p))
    /\ HeardInOrder

(* And what the repeats cost.  As long as nothing fails, the events up to  *)
(* here are not handed out again: those the owner of the partition is past *)
(* or has just handled, or that are committed when it has none.            *)
Secured(p) ==
    IF owner[p] = Nobody
    THEN committed[p]
    ELSE IF step[owner[p]][p] = "handled" THEN Following(owner[p], p)
                                         ELSE position[owner[p]][p]

(* Processes that lost the partition while they handle one of its events.  *)
Stale(p) == {m \in Process : owner[p] # m /\ step[m][p] = "handling"}

(* Each run beyond the secured events, and each that a stale process is    *)
(* about to end, was paid for with a failure.                              *)
Budget ==
    \A p \in Partition :
        /\ runs[p] + Cardinality(Stale(p)) <= Secured(p) + faults
        /\ owner[p] # Nobody => /\ position[owner[p]][p] <= committed[p]
                               /\ step[owner[p]][p] # "away"

(* An event with no bad one ahead of it is handled sooner or later.        *)
EveryEventIsHeard ==
    \A p \in Partition, n \in Offset :
        n <= Len(log[p]) /\ ~Blocked(p, n) ~> n \in heard[p]
=============================================================================
