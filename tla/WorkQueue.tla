------------------------------ MODULE WorkQueue ------------------------------
(***************************************************************************)
(* What processing the messages of orders.process promises, whatever       *)
(* queues, workers, redeliveries and transactions lie behind it: a message *)
(* that was sent takes effect at most once; it is given up only if it      *)
(* cannot succeed or after so many failures; and it does not leave the     *)
(* queue before one of the two.  One that was given up may still take      *)
(* effect: a worker whose channel was closed goes on with it.              *)
(***************************************************************************)
EXTENDS Naturals

CONSTANTS
    Message,
    Unreadable,     \* messages nobody can parse
    Hopeless,       \* messages whose handling always fails
    Patience        \* failures after which a message is given up

VARIABLES
    sent,       \* messages that were ever sent
    waiting,    \* messages that some queue or worker answers for
    effects,    \* times each message has taken effect
    dead,       \* times it was given up
    faults      \* failures so far

queueVars == <<sent, waiting, effects, dead, faults>>

QueueInit ==
    /\ sent = {} /\ waiting = {}
    /\ effects = [m \in Message |-> 0]
    /\ dead = [m \in Message |-> 0]
    /\ faults = 0

Send(m) ==
    /\ sent' = sent \cup {m}
    /\ waiting' = waiting \cup {m}
    /\ UNCHANGED <<effects, dead, faults>>

(* The failure may be that nobody hears of the effect.                     *)
TakeEffect(m) ==
    /\ m \in sent \ (Unreadable \cup Hopeless)
    /\ effects[m] = 0
    /\ effects' = [effects EXCEPT ![m] = 1]
    /\ faults' \in {faults, faults + 1}
    /\ UNCHANGED <<sent, waiting, dead>>

GiveUp(m) ==
    /\ m \in waiting \ Unreadable
    /\ m \in Hopeless \/ faults >= Patience
    /\ dead' = [dead EXCEPT ![m] = @ + 1]
    /\ UNCHANGED <<sent, waiting, effects, faults>>

Leave(m) ==
    /\ m \in waiting
    /\ m \in Unreadable \/ effects[m] > 0 \/ dead[m] > 0
    /\ waiting' = waiting \ {m}
    /\ UNCHANGED <<sent, effects, dead, faults>>

Fault ==
    /\ faults' = faults + 1
    /\ UNCHANGED <<sent, waiting, effects, dead>>

QueueNext ==
    \/ \E m \in Message : Send(m) \/ TakeEffect(m) \/ GiveUp(m) \/ Leave(m)
    \/ Fault

QueueSpec == QueueInit /\ [][QueueNext]_queueVars
=============================================================================
