---------------------------- MODULE MCPaymentSaga ----------------------------
(* A few requests for one order, and an outside client that may use any    *)
(* writing RPC on its payment, which earlier calls left in any status.     *)
EXTENDS PaymentSaga

WritingRpc == {"authorize", "capture", "refund"}
EveryCall == (Request \X {"authorize", "capture"}) \cup Outside
=============================================================================
