---------------------------- MODULE MCPaymentRelay --------------------------
(* Values for PaymentRelayLoop.                                            *)
EXTENDS PaymentRelayLoop

CONSTANTS w1, w2
=============================================================================
