---------------------------- MODULE MCTicketCheck ----------------------------
(* A small instance of TicketCheck: two scans, an update and a reader of   *)
(* one ticket.                                                             *)
EXTENDS TicketCheck, TLC

CONSTANTS s1, s2, u1, v1, t1

MCScans == {s1, s2}
MCUpdates == {u1}
MCReaders == {v1}
MCTickets == {t1}
Symmetry == Permutations(MCScans)
=============================================================================
