--------------------------- MODULE MCBookingStock ---------------------------
(* Three requests race for the places of one event while the scheduler     *)
(* gives places back: the stock is written with and without row locks. No  *)
(* payment result arrives.                                                 *)
EXTENDS BookingService, TLC

CONSTANTS match, r1, r2, r3, s1

MCEventOf == (r1 :> match) @@ (r2 :> match) @@ (r3 :> match)
MCQuantity == (r1 :> 1) @@ (r2 :> 1) @@ (r3 :> 2)
MCTotalSeats == match :> 3
=============================================================================
