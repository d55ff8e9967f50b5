-------------------------------- MODULE Saga --------------------------------
(***************************************************************************)
(* The choreography: booking-service, payment-service and                  *)
(* notification-service together, at the grain of their transactions.      *)
(* Booking is the sale of TicketSale, payment is the decision of           *)
(* PaymentOnce; BookingService and PaymentService show that the services   *)
(* implement these two. What is added here is what lies between them: the  *)
(* content of the records, what each consumer accepts, and the facts that  *)
(* cross while they travel.                                                *)
(*   The outboxes and relays make every committed event a record that can  *)
(* be delivered at any later time, once or again (EventFeed), so a record  *)
(* is read off the state that was committed with it.                       *)
(***************************************************************************)
EXTENDS TicketSale

CONSTANTS
    UnitPrice,     \* UnitPrice[e]: price of a place of e, in cents
    CustomerRef,   \* CustomerRef[r]: what request r says of the customer
    Threshold,     \* PAYMENT_REJECTION_THRESHOLD, in cents
    DirectAmounts, \* what clients send by POST /payments, in tenths of a cent
    Outages,       \* topics whose consumer may meet an outage longer than its attempts
    None           \* no payment, no result, no reason

Topics == {"seat-reserved", "payment-result", "notice"}

Reasons == {"RESERVATION_EXPIRED", "AMOUNT_THRESHOLD", "SIMULATED_FAILURE"}
Payment == [amount : Nat, status : {"RECEIVED", "REJECTED"}, reason : Reasons \cup {None}]

ASSUME SagaAssumption ==
    /\ UnitPrice \in [Events -> Nat \ {0}]
    /\ CustomerRef \in [Reservations -> [length : Nat, mailable : BOOLEAN]]
    /\ Threshold \in Nat
    /\ DirectAmounts \subseteq Int
    /\ Outages \subseteq Topics
    /\ None \notin Payment \cup Reasons

VARIABLES
    processed,   \* booking: results whose effect is committed
    overdue,     \* reservations whose deadline has passed
    decision,    \* payment: the payment of each reservation, or None
    told,        \* payment: the result recorded for booking, or None
    mailed,      \* reservations whose ticket or expiration has been mailed
    deadLetters, \* records set aside by their consumer, with the reason in their header
    handled      \* records whose offset their consumer has committed

vars == <<saleVars, processed, overdue, decision, told, mailed, deadLetters, handled>>

DeadLetter == [topic : Topics, reservation : Reservations, cause : {"refused", "failure"}]

Once == INSTANCE PaymentOnce WITH Decisions <- Payment

\* Rows keep their types in both databases; dead letters are records of the saga.
SagaTypeOK ==
    /\ SaleTypeOK
    /\ processed \subseteq Reservations
    /\ overdue \subseteq Reservations
    /\ decision \in [Reservations -> Payment \cup {None}]
    /\ told \in [Reservations -> Payment \cup {None}]
    /\ mailed \subseteq Reservations
    /\ deadLetters \subseteq DeadLetter
    /\ handled \subseteq Topics \X Reservations

-----------------------------------------------------------------------------
(* The records, and what their consumers accept. Identifiers are the ids   *)
(* of reservations; a customerRef is known by its length, 0 if it is       *)
(* blank, and by whether a mail can be addressed to it; dates are left     *)
(* out, every side writes and reads ISO-8601.                              *)

\* CreateReservationRequest: what POST /reservations lets through.
RequestAccepted(r) == CustomerRef[r].length > 0 /\ Quantity[r] \in 1..MaxQuantity

\* CreatePaymentDto: what POST /payments lets through.
PaymentRequestAccepted(a) == a > 0

\* Reservation.open freezes the price of the moment with the reservation.
Due(r) == UnitPrice[EventOf[r]] * Quantity[r]

\* The envelope, and the key of the record: the reservation.
Envelope(type, r, payload) ==
    [key |-> r, eventType |-> type, aggregateId |-> r, payload |-> payload]

SeatReservedPayload(r, amount) ==
    [reservationId |-> r, customerRef |-> CustomerRef[r], quantity |-> Quantity[r],
     unitPrice |-> UnitPrice[EventOf[r]], amount |-> amount]

\* Mutant: the amount of one place.
SeatReservedOnePlace(r) ==
    Envelope("SeatReserved", r, SeatReservedPayload(r, UnitPrice[EventOf[r]]))

SeatReserved(r) == Envelope("SeatReserved", r, SeatReservedPayload(r, Due(r)))

\* event-envelope.ts: the checks of each field, and of the amount against the price.
WellFormed(p) ==
    /\ p.customerRef.length > 0
    /\ p.quantity > 0 /\ p.unitPrice > 0 /\ p.amount > 0
    /\ p.unitPrice * p.quantity = p.amount

\* handleSeatReserved before it touches the database.
PaymentAccepts(m) ==
    /\ WellFormed(m.payload)
    /\ m.key = m.aggregateId /\ m.payload.reservationId = m.aggregateId

PaymentResultPayload(r, p) == [reservationId |-> r, amount |-> p.amount, reason |-> p.reason]

\* authorizeAndEnqueue: the record made of a payment.
PaymentResult(r, p) ==
    Envelope(IF p.status = "RECEIVED" THEN "PaymentReceived" ELSE "PaymentFailed", r,
             PaymentResultPayload(r, p))

\* PaymentEventsListener on either type of result.
ListenerAccepts(m) ==
    /\ m.payload.reservationId = m.aggregateId /\ m.key = m.aggregateId
    /\ m.eventType = "PaymentFailed" => m.payload.reason # None

\* validateAmount of the processor.
AmountMatches(m) == m.payload.amount = Due(m.aggregateId)

\* The payload of TicketIssued; that of ReservationExpired has no amount.
TicketIssued(r) ==
    Envelope("TicketIssued", r,
        [reservationId |-> r, customerRef |-> CustomerRef[r], quantity |-> Quantity[r],
         amount |-> Due(r)])
ReservationExpired(r) ==
    Envelope("ReservationExpired", r,
        [reservationId |-> r, customerRef |-> CustomerRef[r], quantity |-> Quantity[r]])
Notice(r) == IF status[r] = "TICKET_ISSUED" THEN TicketIssued(r) ELSE ReservationExpired(r)

\* The payload models of notification-service.
Readable(m) ==
    /\ m.payload.customerRef.length >= 3 /\ m.payload.quantity >= 1
    /\ m.eventType = "TicketIssued" => m.payload.amount > 0

\* send_email: EmailMessage refuses an address with a line break, smtplib and the mail
\* server some others, as those that are not ASCII.
Mailable(m) == m.payload.customerRef.mailable

\* handle_kafka_event.
NotificationAccepts(m) ==
    /\ m.key = m.aggregateId /\ m.payload.reservationId = m.aggregateId
    /\ Readable(m)
    /\ Mailable(m)

-----------------------------------------------------------------------------
Init ==
    /\ SaleInit
    /\ Once!Init
    /\ processed = {}
    /\ overdue = {}
    /\ mailed = {}
    /\ deadLetters = {}
    /\ handled = {}

bookingVars == <<saleVars, processed>>
paymentVars == <<decision, told>>

\* The consumer of a topic goes past the record of r. The record may come again.
Passes(t, r) == handled' = handled \cup {<<t, r>>}

\* Mutant: the consumer goes on without the dead letter.
SetAsideSilently(t, r, why) ==
    /\ Passes(t, r)
    /\ UNCHANGED <<bookingVars, overdue, paymentVars, mailed, deadLetters>>

\* Three attempts have failed: the consumer publishes the record, with the reason,
\* and goes on. An outage does it to any record, content the consumer refuses always.
SetAside(t, r, why) ==
    /\ deadLetters' = deadLetters \cup {[topic |-> t, reservation |-> r, cause |-> why]}
    /\ Passes(t, r)
    /\ UNCHANGED <<bookingVars, overdue, paymentVars, mailed>>

\* POST /reservations; what is refused changes nothing.
Book(r) ==
    /\ RequestAccepted(r)
    /\ Reserve(r)
    /\ UNCHANGED <<processed, overdue, paymentVars, mailed, deadLetters, handled>>

DeadlinePasses(r) ==
    /\ status[r] = "PENDING"
    /\ overdue' = overdue \cup {r}
    /\ UNCHANGED <<bookingVars, paymentVars, mailed, deadLetters, handled>>

Expire(r) ==
    /\ r \in overdue
    /\ GiveBack(r)
    /\ status'[r] = "EXPIRED"
    /\ UNCHANGED <<processed, overdue, paymentVars, mailed, deadLetters, handled>>

\* The column numeric(12,2) rounds an amount given in tenths of a cent.
Cents(amount) == (amount + 5) \div 10

\* PaymentsService.authorize on a reservation without payment: the amount as given
\* meets the threshold, the amount as stored makes the result.
Verdicts(amount, forced) ==
    LET reasons ==
            IF forced # None THEN {forced}
            ELSE IF amount > 10 * Threshold THEN {"AMOUNT_THRESHOLD"}
            ELSE {None, "SIMULATED_FAILURE"}
    IN  {[amount |-> Cents(amount), reason |-> why,
          status |-> IF why = None THEN "RECEIVED" ELSE "REJECTED"] : why \in reasons}

\* Mutant: a payment that exists needs no result.
TellNewOnly(r) ==
    \/ \E p \in Verdicts(10 * Due(r), IF r \in overdue THEN "RESERVATION_EXPIRED" ELSE None) :
          Once!Settle(r, p)
    \/ decision[r] # None /\ UNCHANGED paymentVars

\* authorizeAndEnqueue: the payment that exists, or a new one, and its result.
PayAndTell(r) ==
    \/ \E p \in Verdicts(10 * Due(r), IF r \in overdue THEN "RESERVATION_EXPIRED" ELSE None) :
          Once!Settle(r, p)
    \/ Once!Tell(r)

\* payment-service handles SeatReserved.
HandleSeatReserved(r) ==
    /\ status[r] # "NONE"
    /\ IF PaymentAccepts(SeatReserved(r))
       THEN /\ PayAndTell(r)
            /\ Passes("seat-reserved", r)
            /\ UNCHANGED <<bookingVars, overdue, mailed, deadLetters>>
       ELSE SetAside("seat-reserved", r, "refused")

\* POST /payments: any amount for any id, of a reservation or not, with no look at the
\* deadline and no result for booking.
PayDirect(r) ==
    /\ \E a \in DirectAmounts :
        /\ PaymentRequestAccepted(a)
        /\ \E p \in Verdicts(a, None) : Once!Decide(r, p)
    /\ UNCHANGED <<bookingVars, overdue, mailed, deadLetters, handled>>

\* booking-service handles PaymentReceived or PaymentFailed: a marker and an effect.
Arrives(r) == told[r] # None /\ r \notin processed

Applicable(r) ==
    /\ ListenerAccepts(PaymentResult(r, told[r]))
    /\ AmountMatches(PaymentResult(r, told[r]))
    /\ status[r] \in IF told[r].status = "RECEIVED" THEN {"PENDING", "TICKET_ISSUED"}
                                                   ELSE {"PENDING", "EXPIRED", "CANCELLED"}
Effect(r) ==
    IF status[r] # "PENDING" THEN UNCHANGED saleVars
    ELSE IF told[r].status = "RECEIVED" THEN Issue(r)
    ELSE GiveBack(r) /\ status'[r] = "CANCELLED"

\* Mutant: any amount will do.
ApplyAnyAmount(r) ==
    /\ Arrives(r)
    /\ Effect(r)
    /\ processed' = processed \cup {r}
    /\ Passes("payment-result", r)
    /\ UNCHANGED <<overdue, paymentVars, mailed, deadLetters>>

ApplyResult(r) ==
    /\ Arrives(r)
    /\ Applicable(r)
    /\ Effect(r)
    /\ processed' = processed \cup {r}
    /\ Passes("payment-result", r)
    /\ UNCHANGED <<overdue, paymentVars, mailed, deadLetters>>

RefuseResult(r) ==
    /\ Arrives(r)
    /\ ~Applicable(r)
    /\ SetAside("payment-result", r, "refused")

\* notification-service handles TicketIssued or ReservationExpired. Nobody is
\* told of a refusal: SeatReleased has no consumer.
Announced(r) == status[r] \in {"TICKET_ISSUED", "EXPIRED"}
Mail(r) ==
    /\ Announced(r)
    /\ NotificationAccepts(Notice(r))
    /\ mailed' = mailed \cup {r}
    /\ Passes("notice", r)
    /\ UNCHANGED <<bookingVars, overdue, paymentVars, deadLetters>>

RefuseNotice(r) ==
    /\ Announced(r)
    /\ ~NotificationAccepts(Notice(r))
    /\ SetAside("notice", r, "refused")

\* What each consumer still has to do for a reservation, perhaps again.
Waiting(t, r) ==
    CASE t = "seat-reserved" -> status[r] # "NONE" /\ told[r] = None
      [] t = "payment-result" -> Arrives(r)
      [] t = "notice" -> Announced(r) /\ r \notin mailed

\* An outage longer than the attempts of a consumer.
Outage(t, r) == Waiting(t, r) /\ SetAside(t, r, "failure")

ResultStep(r) == ApplyResult(r) \/ RefuseResult(r)
NoticeStep(r) == Mail(r) \/ RefuseNotice(r)

Next == \E r \in Reservations :
    \/ Book(r) \/ DeadlinePasses(r) \/ Expire(r) \/ PayDirect(r)
    \/ HandleSeatReserved(r) \/ ResultStep(r) \/ NoticeStep(r)
    \/ \E t \in Outages : Outage(t, r)

Spec == Init /\ [][Next]_vars

-----------------------------------------------------------------------------
\* A dead letter tells an operator of r.
Aside(t, r) == \E why \in {"refused", "failure"} :
    [topic |-> t, reservation |-> r, cause |-> why] \in deadLetters

\* Time passes, schedulers scan, and Kafka delivers every record until its consumer has
\* gone past it: the fairness of the services, seen from here.
Fairness == \A r \in Reservations :
    /\ WF_vars(DeadlinePasses(r))
    /\ WF_vars(Expire(r))
    /\ WF_vars(<<"seat-reserved", r>> \notin handled /\ HandleSeatReserved(r))
    /\ WF_vars(<<"payment-result", r>> \notin handled /\ ResultStep(r))
    /\ WF_vars(<<"notice", r>> \notin handled /\ NoticeStep(r))

FairSpec == Spec /\ Fairness

\* A ticket exists only for the whole price, paid and announced; a cancellation
\* only for a refusal; and payment-service and booking-service know the same fact.
TicketIsPaid == \A r \in Reservations :
    /\ status[r] = "TICKET_ISSUED" =>
          /\ told[r] = decision[r]
          /\ decision[r].status = "RECEIVED" /\ decision[r].amount = Due(r)
    /\ status[r] = "CANCELLED" =>
          /\ told[r] = decision[r]
          /\ decision[r].status = "REJECTED" /\ decision[r].amount = Due(r)

\* Booking-service has done what payment-service has decided.
Followed(r) ==
    status[r] \in IF decision[r].status = "RECEIVED" THEN {"TICKET_ISSUED"}
                                                     ELSE {"EXPIRED", "CANCELLED"}

\* No decision of payment-service on a reservation is forgotten on its way: a payment has
\* its ticket and a refusal has freed the places, or Kafka still holds the record that
\* says so, for payment-service or for booking-service, or an operator has it as a dead
\* letter. Only a payment for an id that booking-service never gave leads nowhere.
DecisionsAreFollowed == \A r \in Reservations :
    decision[r] # None /\ status[r] # "NONE" =>
        \/ Followed(r)
        \/ <<IF told[r] = None THEN "seat-reserved" ELSE "payment-result", r>> \notin handled
        \/ Aside("seat-reserved", r) \/ Aside("payment-result", r)

\* No service publishes what its consumer refuses, with four exceptions: a result of a
\* POST /payments over another amount, a payment accepted for a reservation that has
\* expired meanwhile, and the mail to a customerRef of one or two characters or to one
\* that is no address.
RefusalsHaveACause == \A d \in deadLetters : d.cause = "refused" =>
    LET r == d.reservation IN
    CASE d.topic = "seat-reserved" -> FALSE
      [] d.topic = "payment-result" ->
            \/ told[r].amount # Due(r)
            \/ told[r].status = "RECEIVED" /\ status[r] = "EXPIRED"
      [] d.topic = "notice" -> CustomerRef[r].length < 3 \/ ~CustomerRef[r].mailable

\* Money taken for a reservation leads to a ticket or to a dead letter somebody can act
\* upon.
MoneyIsAccountedFor == \A r \in Reservations :
    status[r] # "NONE" /\ decision[r] # None /\ decision[r].status = "RECEIVED"
        ~> status[r] = "TICKET_ISSUED" \/ Aside("seat-reserved", r) \/ Aside("payment-result", r)
=============================================================================
