------------------------------- MODULE MCSaga -------------------------------
(* Values for Saga: two reservations of the seeded concert (49.90): one    *)
(* below the threshold of 100.00, and one above it whose reference is no   *)
(* address; and a request for the match with a blank reference, which is   *)
(* refused, so that a payment of r3 is a payment for no reservation.       *)
EXTENDS Saga, TLC

CONSTANTS concert, match, r1, r2, r3

MCEventOf == (r1 :> concert) @@ (r2 :> concert) @@ (r3 :> match)
MCQuantity == (r1 :> 1) @@ (r2 :> 3) @@ (r3 :> 2)
MCTotalSeats == (concert :> 3) @@ (match :> 5)
MCUnitPrice == (concert :> 4990) @@ (match :> 7990)
Ref(length, mailable) == [length |-> length, mailable |-> mailable]
MCCustomerRef == (r1 :> Ref(12, TRUE)) @@ (r2 :> Ref(12, FALSE)) @@ (r3 :> Ref(0, FALSE))
=============================================================================
