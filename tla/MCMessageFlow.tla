---------------------------- MODULE MCMessageFlow ----------------------------
(* A small instance of MessageFlow. *)
EXTENDS MessageFlow

CONSTANTS t1, t2

MCTickets == {t1, t2}
=============================================================================
