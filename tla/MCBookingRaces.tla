--------------------------- MODULE MCBookingRaces ---------------------------
(* Two requests race for one event that cannot serve both, with one        *)
(* instance of the service: one scheduler and one consumer.                *)
EXTENDS BookingService, TLC

CONSTANTS match, r1, r2, s1, c1

MCEventOf == (r1 :> match) @@ (r2 :> match)
MCQuantity == (r1 :> 1) @@ (r2 :> 2)
MCTotalSeats == (match :> 2)
=============================================================================
