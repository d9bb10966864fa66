---------------------------- MODULE MCReservation ----------------------------
(* A small instance of Reservation: two users after the same event. *)
EXTENDS Reservation

CONSTANTS concert, ann, bob, r1, r2

MCRequests == {r1, r2}
MCBookings == [event : {concert}, user : {ann, bob}]
=============================================================================
