-------------------------- MODULE MCBookingRollout --------------------------
(* A rolling update: two instances of the service run at the same time, so *)
(* two schedulers and two consumers may hold the same reservation.         *)
EXTENDS BookingService, TLC

CONSTANTS match, r1, s1, s2, c1, c2

MCEventOf == r1 :> match
MCQuantity == r1 :> 1
MCTotalSeats == match :> 2
\* A wrong amount is rejected whatever the type: one such result stands for both.
MCDecisions == PaymentResult \ {[type |-> "PaymentFailed", amountMatches |-> FALSE]}
=============================================================================
