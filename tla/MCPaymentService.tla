-------------------------- MODULE MCPaymentService --------------------------
(* Every choice of RPCs by a few overlapping calls on one payment, which   *)
(* earlier calls left in any status.                                       *)
EXTENDS PaymentService

EveryRpc == {"authorize", "capture", "refund", "status"}
=============================================================================
