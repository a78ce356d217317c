--------------------------- MODULE MCOutboxRelay ---------------------------
(* Two orders' worth of events: two for RabbitMQ and one for Kafka, the    *)
(* Kafka event written by the same transaction as one of the others.       *)
EXTENDS OutboxRelay, TLC

CONSTANTS p1, p2, k1        \* events

Created == [e \in Event |-> IF e = p2 THEN 2 ELSE 1]
ForRabbit == {p1, p2} \cap Event
=============================================================================
