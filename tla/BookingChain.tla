---------------------------- MODULE BookingChain ----------------------------
(***************************************************************************)
(* What a call of POST /v1/reserve promises, with no breaker, timeout,     *)
(* crash or table in it: the booking of a request goes through its stages  *)
(* one at a time, and its client is told how it ended once, in keeping     *)
(* with the stage.  From then on the booking does not move, but for a      *)
(* ticket that is issued too late.  Any stage may be the last, and a       *)
(* client may never be told.  Reservation implements it.                   *)
(***************************************************************************)
CONSTANT Requests

VARIABLES
    stage,  \* how far the booking of each request has come
    told    \* what its client was told, "none" before

bookingVars == <<stage, told>>

Stages == {"none", "issued", "bought", "billed", "mailed"}

Init ==
    /\ stage = [r \in Requests |-> "none"]
    /\ told = [r \in Requests |-> "none"]

Advance(r, from, to) ==
    /\ stage[r] = from
    /\ stage' = [stage EXCEPT ![r] = to]

Tell(r, a) ==
    /\ told[r] = "none"
    /\ told' = [told EXCEPT ![r] = a]

StillOpen(r) == told[r] = "none" /\ UNCHANGED told

(* A ticket may be issued to a client that was told of an error. *)
Issue(r) == Advance(r, "none", "issued") /\ UNCHANGED told

(* An error here is a purchase whose confirmation was lost. *)
Buy(r) ==
    /\ Advance(r, "issued", "bought")
    /\ StillOpen(r) \/ Tell(r, "created") \/ Tell(r, "error")

Bill(r) == Advance(r, "bought", "billed") /\ StillOpen(r)

Mail(r) == Advance(r, "billed", "mailed") /\ Tell(r, "created")

Accept(r) ==
    /\ stage[r] \in {"bought", "billed"}
    /\ Tell(r, "created")
    /\ UNCHANGED stage

Reject(r) ==
    /\ stage[r] \in {"none", "issued"}
    /\ Tell(r, "error") \/ Tell(r, "refused")
    /\ UNCHANGED stage

Next == \E r \in Requests :
    Issue(r) \/ Buy(r) \/ Bill(r) \/ Mail(r) \/ Accept(r) \/ Reject(r)

Spec == Init /\ [][Next]_bookingVars

=============================================================================
