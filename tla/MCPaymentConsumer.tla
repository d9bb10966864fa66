-------------------------- MODULE MCPaymentConsumer --------------------------
(* A small instance of PaymentConsumer. *)
EXTENDS PaymentConsumer

CONSTANTS w1, w2, m1, m2, m3

MCWorkers == {w1, w2}
MCMessages == {m1, m2, m3}
=============================================================================
