---------------------------- MODULE MCOutboxRelay ---------------------------
(* Values for OutboxRelay: the events of two reservations, interleaved.    *)
EXTENDS OutboxRelay, TLC

CONSTANTS a, b, w1, w2

MCKeyOf == (1 :> a) @@ (2 :> b) @@ (3 :> a) @@ (4 :> a)
MCKeyOfThree == (1 :> a) @@ (2 :> b) @@ (3 :> a)
=============================================================================
