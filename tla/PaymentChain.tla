---------------------------- MODULE PaymentChain ----------------------------
(***************************************************************************)
(* What the three message loops promise together, without queues, services *)
(* or failures: the payment of a ticket goes through its stages one at a   *)
(* time and never back, and a customer is notified of a ticket that was    *)
(* bought.  Any stage may be the last.  MessageFlow implements it.         *)
(***************************************************************************)
CONSTANT Tickets

VARIABLES
    purchased,  \* tickets with a purchase
    stage       \* how far the payment of each ticket has come

chainVars == <<purchased, stage>>

Stages == {"none", "requested", "charged", "confirmed", "notified"}

Init ==
    /\ purchased = {}
    /\ stage = [t \in Tickets |-> "none"]

Advance(t, from, to) ==
    /\ stage[t] = from
    /\ stage' = [stage EXCEPT ![t] = to]
    /\ UNCHANGED purchased

Buy(t) ==
    /\ purchased' = purchased \union {t}
    /\ UNCHANGED stage

Ask(t) == Advance(t, "none", "requested")

Pay(t) == Advance(t, "requested", "charged")

Approve(t) == Advance(t, "charged", "confirmed")

Tell(t) == t \in purchased /\ Advance(t, "confirmed", "notified")

Next == \E t \in Tickets : Buy(t) \/ Ask(t) \/ Pay(t) \/ Approve(t) \/ Tell(t)

Spec == Init /\ [][Next]_chainVars

=============================================================================
