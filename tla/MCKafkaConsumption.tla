------------------------- MODULE MCKafkaConsumption -------------------------
(* An event, and a value that every one of the four handlers throws at,    *)
(* each published once or twice or never, in one partition in any order;   *)
(* two processes; partitions do not meet.  What the orders' consumers pass *)
(* over is to them like the event.                                         *)
EXTENDS KafkaConsumption

CONSTANTS p1, placed, broken

Homes == [e \in Event |-> p1]
Bodies == [e \in Event |-> IF e = placed THEN "ours" ELSE "hollow"]
=============================================================================
