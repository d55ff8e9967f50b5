----------------------------- MODULE PaymentOnce ----------------------------
(***************************************************************************)
(* What payment-service promises about a reservation: its payment is       *)
(* decided once and for ever, and booking is told that decision, once.     *)
(***************************************************************************)
CONSTANTS
    Reservations,
    Decisions,    \* what a payment can be: a status and an amount
    None

VARIABLES
    decision,  \* decision[r]: the payment of reservation r, or None
    told       \* told[r]: the result recorded for booking, or None

onceVars == <<decision, told>>

Init ==
    /\ decision = [r \in Reservations |-> None]
    /\ told = [r \in Reservations |-> None]

\* Decided without telling booking, as POST /payments does.
Decide(r, d) ==
    /\ decision[r] = None
    /\ decision' = [decision EXCEPT ![r] = d]
    /\ UNCHANGED told

\* Decided and told in one transaction, as the consumer does.
Settle(r, d) ==
    /\ decision[r] = None
    /\ told[r] = None
    /\ decision' = [decision EXCEPT ![r] = d]
    /\ told' = [told EXCEPT ![r] = d]

\* Booking is told what was decided before.
Tell(r) ==
    /\ decision[r] # None
    /\ told[r] = None
    /\ told' = [told EXCEPT ![r] = decision[r]]
    /\ UNCHANGED decision

Next ==
    \E r \in Reservations :
        \/ \E d \in Decisions : Decide(r, d) \/ Settle(r, d)
        \/ Tell(r)

Spec == Init /\ [][Next]_onceVars
=============================================================================
