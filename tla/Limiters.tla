------------------------------ MODULE Limiters ------------------------------
(***************************************************************************)
(* What the two limiters of src/gateway have in common: requests, each at  *)
(* a step of an asynchronous middleware, and the commands they send to one *)
(* Redis, which may fail.                                                  *)
(***************************************************************************)
EXTENDS Integers, FiniteSets

CONSTANTS
    Requests,
    MaxFailures  \* bound: Redis commands that fail

ASSUME RequestsAssumption == IsFiniteSet(Requests)
ASSUME FailuresAssumption == MaxFailures \in Nat

VARIABLES
    pc,       \* each request's step
    failures  \* commands that have failed

GoTo(r, step) == pc' = [pc EXCEPT ![r] = step]

=============================================================================
