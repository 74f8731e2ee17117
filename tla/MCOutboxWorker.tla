--------------------------- MODULE MCOutboxWorker ---------------------------
(* Names of the workers for TLC. *)
EXTENDS OutboxWorker

CONSTANTS w1, w2
=============================================================================
