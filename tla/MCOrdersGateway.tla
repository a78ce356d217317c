--------------------------- MODULE MCOrdersGateway ---------------------------
(* Updates to two statuses next to the worker, and a socket with a right   *)
(* to the order or without; sockets do not meet.                           *)
EXTENDS OrdersGateway
=============================================================================
