--------------------------- MODULE MCEventService ---------------------------
(***************************************************************************)
(* A small instance of EventService: one event with three tickets, one of  *)
(* them sold, and one still to be created.                                 *)
(***************************************************************************)
EXTENDS EventService, TLC

CONSTANTS festival, summit, r1, r2, r3, r4

MCRequests == {r1, r2, r3, r4}
MCEvents == {festival, summit}
MCInitialRows == festival :> [total |-> 3, sold |-> 1, left |-> 2] @@ summit :> NoRow
MCQuantities == {0, 1, 2}
MCNewTotals == {-1, 2}

RequestSymmetry == Permutations(MCRequests)
=============================================================================
