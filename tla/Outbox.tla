-------------------------------- MODULE Outbox --------------------------------
(***************************************************************************)
(* What the outbox promises to those who commit events into it, without    *)
(* ticks, batches, locks and connections: an event is handed to its broker *)
(* only while it is open, once, and once more for each failure; it is      *)
(* settled as sent only when it was handed over, or as failed, where       *)
(* something can have failed, at the price of an attempt; and what was     *)
(* sent, or failed too often, is over.                                     *)
(***************************************************************************)
EXTENDS Integers

CONSTANTS
    Event,
    Lossy,          \* events whose broker may lose what it was handed
    Patience        \* failed attempts after which an event is given up

VARIABLES
    state,      \* "absent", "pending", "sent" or "failed"
    tries,      \* counted failed attempts
    handed,     \* times the event was handed over, less the losses
    arrived,    \* times its broker has received it
    linked,     \* the other events have a broker
    faults      \* failures so far

outboxVars == <<state, tries, handed, arrived, linked, faults>>

OutboxInit ==
    /\ state = [e \in Event |-> "absent"]
    /\ tries = [e \in Event |-> 0]
    /\ handed = [e \in Event |-> 0]
    /\ arrived = [e \in Event |-> 0]
    /\ linked \in BOOLEAN
    /\ faults = 0

Open(e) == state[e] \in {"pending", "failed"} /\ tries[e] < Patience

Reached(e) ==
    \/ handed[e] > 0
    \/ e \in Lossy /\ faults > 0
    \/ e \notin Lossy /\ ~linked

Store(e) ==
    /\ state[e] = "absent"
    /\ state' = [state EXCEPT ![e] = "pending"]
    /\ UNCHANGED <<tries, handed, arrived, linked, faults>>

MayFail(e) == IF e \in Lossy THEN faults > 0 ELSE linked

(* A broker that confirms has the event by the time it is handed over, and *)
(* once more for each confirmation that was lost.                          *)
HandOver(e) ==
    /\ Open(e)
    /\ handed[e] <= tries[e] + faults
    /\ faults' \in Nat /\ faults' >= faults
    /\ handed' = [handed EXCEPT ![e] = @ + 1 + faults' - faults]
    /\ \/ e \in Lossy /\ UNCHANGED <<arrived, faults>>
       \/ e \notin Lossy /\ arrived' = [arrived EXCEPT ![e] = @ + 1 + faults' - faults]
    /\ UNCHANGED <<state, tries, linked>>

Arrive(e) ==
    /\ e \in Lossy
    /\ arrived[e] < handed[e]
    /\ arrived' = [arrived EXCEPT ![e] = @ + 1]
    /\ UNCHANGED <<state, tries, handed, linked, faults>>

(* Several events are settled at once: some as sent, some as failed.       *)
Settle(sent, failed) ==
    /\ sent \cap failed = {}
    /\ \A e \in sent \cup failed : Open(e)
    /\ \A e \in sent : Reached(e)
    /\ \A e \in failed : MayFail(e)
    /\ state' = [e \in Event |->
                    IF e \in sent THEN "sent"
                    ELSE IF e \in failed THEN "failed" ELSE state[e]]
    /\ tries' = [e \in Event |-> IF e \in failed THEN tries[e] + 1 ELSE tries[e]]
    /\ UNCHANGED <<handed, arrived, linked, faults>>

(* A failure may lose all that has not arrived.                            *)
Fault ==
    /\ faults' = faults + 1
    /\ handed' \in {handed, arrived}
    /\ UNCHANGED <<state, tries, arrived, linked>>

OutboxNext ==
    \/ \E e \in Event : Store(e) \/ HandOver(e) \/ Arrive(e)
    \/ \E sent, failed \in SUBSET Event : Settle(sent, failed)
    \/ Fault

OutboxSpec == OutboxInit /\ [][OutboxNext]_outboxVars
=============================================================================
