----------------------------- MODULE TicketSale -----------------------------
(***************************************************************************)
(* What the booking domain promises, with every operation atomic: places   *)
(* of an event are sold to reservations, a reservation ends in exactly one *)
(* way, and the places of one that ends without a ticket are sold again.   *)
(* Only Event and Reservation, the two entities, are here; transactions,   *)
(* locks, retries and messages are in BookingService, which implements     *)
(* this module.                                                            *)
(***************************************************************************)
EXTENDS Integers, FiniteSets

CONSTANTS
    Events,        \* rows of the table events
    Reservations,  \* POST /reservations requests; each inserts at most one row
    EventOf,       \* EventOf[r]: the event request r asks for
    Quantity,      \* Quantity[r]: how many places it asks for
    TotalSeats,    \* TotalSeats[e]: the capacity of e
    MaxQuantity    \* largest quantity the API accepts (10 in the code)

ASSUME SaleAssumption ==
    /\ IsFiniteSet(Reservations)
    /\ MaxQuantity \in Nat
    /\ EventOf \in [Reservations -> Events]
    /\ Quantity \in [Reservations -> 1..MaxQuantity]
    /\ TotalSeats \in [Events -> Nat]

VARIABLES
    status,         \* status[r]: state of the reservation row, "NONE" before its insert
    availableSeats  \* availableSeats[e]: places of e still for sale

saleVars == <<status, availableSeats>>

ReservationStatus == {"PENDING", "TICKET_ISSUED", "EXPIRED", "CANCELLED"}

\* Statuses in which a reservation holds its places.
Holding == {"PENDING", "TICKET_ISSUED"}

SaleTypeOK ==
    /\ status \in [Reservations -> ReservationStatus \cup {"NONE"}]
    /\ availableSeats \in [Events -> Nat]

-----------------------------------------------------------------------------
SaleInit ==
    /\ status = [r \in Reservations |-> "NONE"]
    /\ availableSeats = TotalSeats

\* Event.reserve and Reservation.open.
Reserve(r) ==
    LET e == EventOf[r] IN
    /\ status[r] = "NONE"
    /\ Quantity[r] <= availableSeats[e]
    /\ status' = [status EXCEPT ![r] = "PENDING"]
    /\ availableSeats' = [availableSeats EXCEPT ![e] = @ - Quantity[r]]

\* Reservation.issueTicket.
Issue(r) ==
    /\ status[r] = "PENDING"
    /\ status' = [status EXCEPT ![r] = "TICKET_ISSUED"]
    /\ UNCHANGED availableSeats

\* Reservation.expire and Reservation.cancelAfterPaymentFailure, with Event.release.
GiveBack(r) ==
    LET e == EventOf[r] IN
    /\ status[r] = "PENDING"
    /\ \E s \in {"EXPIRED", "CANCELLED"} : status' = [status EXCEPT ![r] = s]
    /\ availableSeats' = [availableSeats EXCEPT ![e] = @ + Quantity[r]]

SaleNext == \E r \in Reservations : Reserve(r) \/ Issue(r) \/ GiveBack(r)

SaleSpec == SaleInit /\ [][SaleNext]_saleVars

-----------------------------------------------------------------------------
\* The places reservations hold, each named by its reservation and a number:
\* no sum over a set is needed, the cardinality of this set is the sum.
HeldSeats(e) ==
    {p \in Reservations \X (1..MaxQuantity) :
        /\ EventOf[p[1]] = e
        /\ status[p[1]] \in Holding
        /\ p[2] <= Quantity[p[1]]}

\* Conservation: at every moment the free places of an event and the places its
\* live reservations hold add up to its capacity. No place is sold twice, none
\* is lost, and none is given back twice (Event.reserve, Event.release).
SeatsConserved ==
    \A e \in Events : availableSeats[e] + Cardinality(HeldSeats(e)) = TotalSeats[e]
=============================================================================
