------------------------- MODULE MCOrderProcessing -------------------------
(* Two workers; a message that can succeed, one that always fails, and one *)
(* that no worker can parse.                                               *)
EXTENDS OrderProcessing, TLC

CONSTANTS good, bad, junk   \* messages

Unparsable == {junk} \cap Message
Failing == {bad} \cap Message

(* The relay publishes the order that can succeed twice.                   *)
Copies == [m \in Message |-> IF m = good THEN 2 ELSE 1]
=============================================================================
