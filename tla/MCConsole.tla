------------------------------ MODULE MCConsole -----------------------------
(* The two scenarios of the console compete for the concert with one other *)
(* reservation, while another client asks for payment statuses.            *)
EXTENDS Console, TLC

CONSTANTS concert, r1, r2, console, other

MCEventOf == (r1 :> concert) @@ (r2 :> concert)
MCQuantity == (r1 :> 1) @@ (r2 :> 3)
MCTotalSeats == concert :> 3
=============================================================================
