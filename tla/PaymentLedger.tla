---------------------------- MODULE PaymentLedger ----------------------------
(***************************************************************************)
(* What the payments of the platform promise, whatever calls, retries and  *)
(* failures lie behind it: a payment is opened, settled and returned in    *)
(* that order, and nobody is told of a step that was not taken.            *)
(***************************************************************************)
CONSTANT Payment

VARIABLES
    stage,      \* how far each payment has come
    told        \* what users and consumers of events were told about it

Stage == {"none", "open", "settled", "returned"}

(* What may be told of a payment in a stage.                               *)
Truths(s) ==
    {k \in {"authorized", "captured"} :
        /\ s # "none"
        /\ k = "captured" => s \in {"settled", "returned"}}

LedgerInit ==
    /\ stage \in [Payment -> Stage]
    /\ told = [p \in Payment |-> {}]

Open(p) ==
    /\ stage[p] = "none"
    /\ stage' = [stage EXCEPT ![p] = "open"]
    /\ UNCHANGED told

(* Also a payment that was returned meanwhile: the service captures        *)
(* without a lock.                                                         *)
Settle(p) ==
    /\ stage[p] # "none"
    /\ stage' = [stage EXCEPT ![p] = "settled"]
    /\ UNCHANGED told

Return(p) ==
    /\ stage[p] \in {"settled", "returned"}
    /\ stage' = [stage EXCEPT ![p] = "returned"]
    /\ UNCHANGED told

Tell(p) ==
    /\ \E k \in Truths(stage[p]) : told' = [told EXCEPT ![p] = @ \cup {k}]
    /\ UNCHANGED stage

LedgerNext == \E p \in Payment : Open(p) \/ Settle(p) \/ Return(p) \/ Tell(p)

LedgerSpec == LedgerInit /\ [][LedgerNext]_<<stage, told>>
=============================================================================
