------------------------------ MODULE MCGateway ------------------------------
(* A small instance of Gateway: four requests, two through each of two     *)
(* gateway processes.                                                      *)
EXTENDS Gateway, TLC

CONSTANTS r1, r2, r3, r4

MCRequests == {r1, r2, r3, r4}
MCInstance == [r \in MCRequests |-> IF r \in {r1, r2} THEN 1 ELSE 2]
Symmetry == Permutations({r1, r2}) \union Permutations({r3, r4})
=============================================================================
