------------------------------ MODULE SagaProofs -----------------------------
(***************************************************************************)
(* A ticket is paid in full, and no service refuses what another wrote but *)
(* for the reasons RefusalsHaveACause names: for any prices, quantities,   *)
(* threshold and direct payments.                                          *)
(*                                                                         *)
(* What crosses between the services are facts that never change again: a  *)
(* payment once decided, a result once told, a reservation that has ended. *)
(* So what a consumer checked when it accepted or refused a record is      *)
(* still true of the state later.                                          *)
(***************************************************************************)
EXTENDS Saga, TicketSaleProofs

\* Only requests the API accepts become reservations.
BookedWasAccepted == \A r \in Reservations : status[r] # "NONE" => RequestAccepted(r)

\* A payment is refused for a reason or not at all; a result tells the payment of a
\* reservation that exists.
PaymentsMakeSense == \A r \in Reservations :
    /\ decision[r] # None => (decision[r].status = "RECEIVED" <=> decision[r].reason = None)
    /\ told[r] # None => status[r] # "NONE" /\ told[r] = decision[r]

\* A reservation that a result has ended has been told a result.
EndedWasTold == \A r \in Reservations :
    status[r] \in {"TICKET_ISSUED", "CANCELLED"} => told[r] # None

\* Whoever refuses a result has been told one.
RefusedWasTold == \A d \in deadLetters :
    d.cause = "refused" /\ d.topic = "payment-result" => told[d.reservation] # None

SagaInv ==
    /\ SagaTypeOK /\ BookedWasAccepted /\ PaymentsMakeSense /\ EndedWasTold
    /\ TicketIsPaid /\ RefusedWasTold /\ RefusalsHaveACause

-----------------------------------------------------------------------------
(* The records and what their consumers make of them.                      *)

\* An amount is positive.
LEMMA DueIsPositive ==
  ASSUME NEW r \in Reservations
  PROVE  Due(r) \in Nat \ {0}
<1>1. UnitPrice[EventOf[r]] \in Nat \ {0} /\ Quantity[r] \in Nat \ {0}
  BY SaleAssumption, SagaAssumption
<1>2. \A a, b \in Nat \ {0} : a * b \in Nat \ {0}
  OBVIOUS
<1>3. QED
  BY <1>1, <1>2 DEF Due

\* payment-service accepts the SeatReserved of every request the API accepts.
LEMMA SeatReservedIsAccepted ==
  ASSUME NEW r \in Reservations, RequestAccepted(r)
  PROVE  PaymentAccepts(SeatReserved(r))
<1> DEFINE m == SeatReserved(r)
<1>1. /\ m.key = r /\ m.aggregateId = r /\ m.payload.reservationId = r
      /\ m.payload.customerRef = CustomerRef[r] /\ m.payload.quantity = Quantity[r]
      /\ m.payload.unitPrice = UnitPrice[EventOf[r]] /\ m.payload.amount = Due(r)
  BY DEF SeatReserved, SeatReservedPayload, Envelope
<1>2. m.payload.unitPrice * m.payload.quantity = m.payload.amount
  BY <1>1 DEF Due
<1>3. m.payload.unitPrice > 0 /\ m.payload.quantity > 0
  BY <1>1, SaleAssumption, SagaAssumption
<1>4. m.payload.amount > 0
  BY <1>1, DueIsPositive
<1>5. m.payload.customerRef.length > 0
  BY <1>1 DEF RequestAccepted
<1> HIDE DEF m
<1>6. PaymentAccepts(m)
  BY <1>1, <1>2, <1>3, <1>4, <1>5 DEF PaymentAccepts, WellFormed
<1>7. QED
  BY <1>6 DEF m

\* What booking-service accepts of a result: a reason if it is a refusal, and the
\* amount of the reservation.
LEMMA ResultIsAccepted ==
  ASSUME NEW r \in Reservations, NEW p
  PROVE  /\ ListenerAccepts(PaymentResult(r, p)) <=>
               (p.status # "RECEIVED" => p.reason # None)
         /\ AmountMatches(PaymentResult(r, p)) <=> p.amount = Due(r)
<1> DEFINE m == PaymentResult(r, p)
<1>1. /\ m.key = r /\ m.aggregateId = r /\ m.payload.reservationId = r
      /\ m.payload.amount = p.amount /\ m.payload.reason = p.reason
      /\ m.eventType = IF p.status = "RECEIVED" THEN "PaymentReceived" ELSE "PaymentFailed"
  BY DEF PaymentResult, PaymentResultPayload, Envelope
<1> HIDE DEF m
<1>2. /\ ListenerAccepts(m) <=> (p.status # "RECEIVED" => p.reason # None)
      /\ AmountMatches(m) <=> p.amount = Due(r)
  BY <1>1 DEF ListenerAccepts, AmountMatches
<1>3. QED
  BY <1>2 DEF m

\* What notification-service accepts: any notice whose reference has three characters and
\* is an address.
LEMMA NoticeIsAccepted ==
  ASSUME NEW r \in Reservations
  PROVE  NotificationAccepts(Notice(r)) <=> CustomerRef[r].length >= 3 /\ CustomerRef[r].mailable
<1> DEFINE m == Notice(r)
<1>1. /\ m.key = r /\ m.aggregateId = r /\ m.payload.reservationId = r
      /\ m.payload.customerRef = CustomerRef[r] /\ m.payload.quantity = Quantity[r]
      /\ m.eventType = "TicketIssued" => m.payload.amount = Due(r)
  BY DEF Notice, TicketIssued, ReservationExpired, Envelope
<1>2. Quantity[r] >= 1 /\ Due(r) > 0
  BY SaleAssumption, DueIsPositive
<1> HIDE DEF m
<1>3. NotificationAccepts(m) <=> CustomerRef[r].length >= 3 /\ CustomerRef[r].mailable
  BY <1>1, <1>2 DEF NotificationAccepts, Readable, Mailable
<1>4. QED
  BY <1>3 DEF m

\* An amount of whole cents is stored as it is.
LEMMA CentsOfCents ==
  ASSUME NEW n \in Nat
  PROVE  Cents(10 * n) = n
BY DEF Cents

\* A verdict is a payment of the rounded amount, refused exactly if it has a reason.
LEMMA VerdictShape ==
  ASSUME NEW a \in Nat, NEW forced \in Reasons \cup {None}, NEW p \in Verdicts(a, forced)
  PROVE  /\ p \in Payment /\ p # None /\ p.amount = Cents(a)
         /\ p.status = "RECEIVED" <=> p.reason = None
<1>1. PICK why \in Reasons \cup {None} :
          p = [amount |-> Cents(a), reason |-> why,
               status |-> IF why = None THEN "RECEIVED" ELSE "REJECTED"]
  BY DEF Verdicts, Reasons
<1>2. Cents(a) \in Nat
  BY DEF Cents
<1>3. p \in Payment
  BY <1>1, <1>2 DEF Payment
<1>4. QED
  BY <1>1, <1>3, SagaAssumption

\* payment-service decides the price of a reservation, and announces that price.
LEMMA VerdictOnDue ==
  ASSUME NEW r \in Reservations, NEW forced \in Reasons \cup {None},
         NEW p \in Verdicts(10 * Due(r), forced)
  PROVE  p \in Payment /\ AmountMatches(PaymentResult(r, p))
<1>1. Due(r) \in Nat /\ 10 * Due(r) \in Nat
  BY DueIsPositive
<1>2. p \in Payment /\ p.amount = Due(r)
  BY <1>1, VerdictShape, CentsOfCents
<1>3. QED
  BY <1>2, ResultIsAccepted

-----------------------------------------------------------------------------
(* What a step does to each of the three parts of the state.               *)

\* The sale: a request accepted, a reservation expired, a result applied.
SaleChange ==
    \/ UNCHANGED saleVars
    \/ \E q \in Reservations : Book(q) \/ Expire(q) \/ ApplyResult(q)

\* The payments: what payment-service does for SeatReserved or for a client.
PaymentChange ==
    \/ UNCHANGED paymentVars
    \/ \E q \in Reservations :
          /\ UNCHANGED saleVars
          /\ \/ status[q] # "NONE" /\ PayAndTell(q)
             \/ \E a \in Nat : \E p \in Verdicts(a, None) : Once!Decide(q, p)

\* The dead letters: one more, of a consumer that refuses it or of an outage.
LetterChange ==
    \/ UNCHANGED deadLetters
    \/ \E q \in Reservations, t \in Topics, why \in {"refused", "failure"} :
          /\ SetAside(t, q, why)
          /\ why = "refused" =>
                \/ t = "seat-reserved" /\ status[q] # "NONE" /\ ~PaymentAccepts(SeatReserved(q))
                \/ t = "payment-result" /\ Arrives(q) /\ ~Applicable(q)
                \/ t = "notice" /\ ~NotificationAccepts(Notice(q))

LEMMA Changes ==
  ASSUME [Next]_vars
  PROVE  SaleChange /\ PaymentChange /\ LetterChange
<1> USE DEF SaleChange, PaymentChange, LetterChange, bookingVars, paymentVars
<1>1. CASE UNCHANGED vars
  BY <1>1 DEF vars
<1>2. ASSUME NEW r \in Reservations, Book(r) \/ Expire(r) \/ ApplyResult(r)
      PROVE  SaleChange /\ PaymentChange /\ LetterChange
  BY <1>2 DEF Book, Expire, ApplyResult
<1>3. ASSUME NEW r \in Reservations, DeadlinePasses(r) \/ Mail(r)
      PROVE  SaleChange /\ PaymentChange /\ LetterChange
  BY <1>3 DEF DeadlinePasses, Mail
<1>4. ASSUME NEW r \in Reservations, PayDirect(r)
      PROVE  SaleChange /\ PaymentChange /\ LetterChange
  <2>1. PICK a \in DirectAmounts : PaymentRequestAccepted(a) /\ \E p \in Verdicts(a, None) : Once!Decide(r, p)
    BY <1>4 DEF PayDirect
  <2>2. a \in Nat
    BY <2>1, SagaAssumption DEF PaymentRequestAccepted
  <2>3. QED
    BY <1>4, <2>1, <2>2 DEF PayDirect
<1>5. ASSUME NEW r \in Reservations, HandleSeatReserved(r)
      PROVE  SaleChange /\ PaymentChange /\ LetterChange
  <2>1. CASE PaymentAccepts(SeatReserved(r))
    BY <1>5, <2>1 DEF HandleSeatReserved
  <2>2. CASE ~PaymentAccepts(SeatReserved(r))
    <3>1. status[r] # "NONE" /\ SetAside("seat-reserved", r, "refused")
      BY <1>5, <2>2 DEF HandleSeatReserved
    <3>2. SaleChange /\ PaymentChange
      BY <3>1 DEF SetAside
    <3>3. QED
      BY <2>2, <3>1, <3>2 DEF Topics
  <2>3. QED
    BY <2>1, <2>2
<1>6. ASSUME NEW r \in Reservations, RefuseResult(r)
      PROVE  SaleChange /\ PaymentChange /\ LetterChange
  <2>1. SetAside("payment-result", r, "refused") /\ Arrives(r) /\ ~Applicable(r)
    BY <1>6 DEF RefuseResult
  <2>2. SaleChange /\ PaymentChange
    BY <2>1 DEF SetAside
  <2>3. QED
    BY <2>1, <2>2 DEF Topics
<1>7. ASSUME NEW r \in Reservations, RefuseNotice(r)
      PROVE  SaleChange /\ PaymentChange /\ LetterChange
  <2>1. SetAside("notice", r, "refused") /\ ~NotificationAccepts(Notice(r))
    BY <1>7 DEF RefuseNotice
  <2>2. SaleChange /\ PaymentChange
    BY <2>1 DEF SetAside
  <2>3. QED
    BY <2>1, <2>2 DEF Topics
<1>8. ASSUME NEW r \in Reservations, NEW t \in Outages, Outage(t, r)
      PROVE  SaleChange /\ PaymentChange /\ LetterChange
  <2>1. SetAside(t, r, "failure") /\ t \in Topics
    BY <1>8, SagaAssumption DEF Outage
  <2>2. SaleChange /\ PaymentChange
    BY <2>1 DEF SetAside
  <2>3. QED
    BY <2>1, <2>2
<1>9. QED
  BY <1>1, <1>2, <1>3, <1>4, <1>5, <1>6, <1>7, <1>8 DEF Next, ResultStep, NoticeStep

\* What consumers go past: a result told, a result applied, or a dead letter.
LEMMA HandledChanges ==
  ASSUME [Next]_vars
  PROVE  \/ UNCHANGED handled
         \/ \E q \in Reservations, t \in Topics :
               /\ handled' = handled \cup {<<t, q>>}
               /\ \/ t = "seat-reserved" /\ PayAndTell(q)
                  \/ t = "payment-result" /\ q \in processed'
                  \/ t = "notice"
                  \/ \E why \in {"refused", "failure"} : SetAside(t, q, why)
<1> USE DEF Topics, Passes
<1>1. ASSUME NEW r \in Reservations, HandleSeatReserved(r)
      PROVE  \/ handled' = handled \cup {<<"seat-reserved", r>>} /\ PayAndTell(r)
             \/ handled' = handled \cup {<<"seat-reserved", r>>} /\ SetAside("seat-reserved", r, "refused")
  BY <1>1 DEF HandleSeatReserved, SetAside
<1>2. ASSUME NEW r \in Reservations, ResultStep(r)
      PROVE  /\ handled' = handled \cup {<<"payment-result", r>>}
             /\ r \in processed' \/ SetAside("payment-result", r, "refused")
  BY <1>2 DEF ResultStep, ApplyResult, RefuseResult, SetAside
<1>3. ASSUME NEW r \in Reservations, NoticeStep(r)
      PROVE  handled' = handled \cup {<<"notice", r>>}
  BY <1>3 DEF NoticeStep, Mail, RefuseNotice, SetAside
<1>4. ASSUME NEW r \in Reservations, NEW t \in Outages, Outage(t, r)
      PROVE  t \in Topics /\ handled' = handled \cup {<<t, r>>} /\ SetAside(t, r, "failure")
  BY <1>4, SagaAssumption DEF Outage, SetAside
<1>5. ASSUME NEW r \in Reservations, Book(r) \/ DeadlinePasses(r) \/ Expire(r) \/ PayDirect(r)
      PROVE  UNCHANGED handled
  BY <1>5 DEF Book, DeadlinePasses, Expire, PayDirect
<1>6. CASE UNCHANGED vars
  BY <1>6 DEF vars
<1>7. QED
  BY <1>1, <1>2, <1>3, <1>4, <1>5, <1>6 DEF Next

-----------------------------------------------------------------------------
(* Types.                                                                  *)

\* What booking-service does to its rows is a step of the sale.
LEMMA SagaSells ==
  ASSUME processed \subseteq Reservations, SaleChange
  PROVE  [SaleNext]_saleVars
BY DEF SaleNext, SaleChange, Book, Expire, ApplyResult, Effect

\* What payment-service decides for r is a payment that makes sense, it never decides
\* again, and it tells booking what it has decided.
PaymentKept(r) ==
    /\ decision'[r] \in Payment \cup {None} /\ told'[r] \in Payment \cup {None}
    /\ decision[r] # None => decision'[r] = decision[r]
    /\ told[r] # None => told'[r] = told[r]
    /\ decision'[r] # None => (decision'[r].status = "RECEIVED" <=> decision'[r].reason = None)
    /\ told'[r] # None => status[r] # "NONE" /\ told'[r] = decision'[r]

LEMMA PaymentOfStep ==
  ASSUME SagaTypeOK, PaymentsMakeSense, PaymentChange, NEW r \in Reservations
  PROVE  PaymentKept(r)
<1> USE DEF SagaTypeOK, PaymentsMakeSense, PaymentKept
<1>1. CASE UNCHANGED paymentVars
  BY <1>1 DEF paymentVars
<1>2. ASSUME NEW q \in Reservations, NEW a \in Nat,
             NEW forced \in Reasons \cup {None}, NEW p \in Verdicts(a, forced),
             Once!Decide(q, p) \/ (status[q] # "NONE" /\ Once!Settle(q, p))
      PROVE  PaymentKept(r)
  <2>1. p \in Payment /\ p # None /\ (p.status = "RECEIVED" <=> p.reason = None)
    BY VerdictShape
  <2>2. QED
    BY <1>2, <2>1 DEF Once!Decide, Once!Settle
<1>3. ASSUME NEW q \in Reservations, status[q] # "NONE", Once!Tell(q)
      PROVE  PaymentKept(r)
  BY <1>3 DEF Once!Tell
<1>4. ASSUME NEW q \in Reservations
      PROVE  /\ 10 * Due(q) \in Nat
             /\ (IF q \in overdue THEN "RESERVATION_EXPIRED" ELSE None) \in Reasons \cup {None}
  BY DueIsPositive DEF Reasons
<1>5. QED
  BY <1>1, <1>2, <1>3, <1>4 DEF PaymentChange, PayAndTell

\* Dead letters are records of the saga.
LEMMA LettersTypeStep ==
  ASSUME SagaTypeOK, LetterChange
  PROVE  deadLetters' \subseteq DeadLetter
BY DEF SagaTypeOK, LetterChange, SetAside, DeadLetter

LEMMA SagaTypeStep ==
  ASSUME SagaTypeOK, PaymentsMakeSense, [Next]_vars
  PROVE  SagaTypeOK'
<1>1. SaleChange /\ PaymentChange /\ LetterChange
  BY Changes
<1>2. SaleTypeOK'
  BY <1>1, SagaSells, SaleTypesStay DEF SagaTypeOK
<1>3. (processed \subseteq Reservations /\ overdue \subseteq Reservations /\ mailed \subseteq Reservations)'
  BY DEF SagaTypeOK, Next, vars, bookingVars, paymentVars, Book, DeadlinePasses, Expire, PayDirect,
         HandleSeatReserved, SetAside, ResultStep, ApplyResult, RefuseResult, NoticeStep, Mail,
         RefuseNotice, Outage
<1>4. DOMAIN decision' = Reservations /\ DOMAIN told' = Reservations
      /\ decision' = [r \in Reservations |-> decision'[r]]
      /\ told' = [r \in Reservations |-> told'[r]]
  BY <1>1 DEF SagaTypeOK, PaymentChange, PayAndTell, paymentVars, Once!Decide, Once!Settle, Once!Tell
<1>5. \A r \in Reservations :
          decision'[r] \in Payment \cup {None} /\ told'[r] \in Payment \cup {None}
  BY <1>1, PaymentOfStep DEF PaymentKept
<1>6. deadLetters' \subseteq DeadLetter
  BY <1>1, LettersTypeStep
<1>7. handled' \subseteq Topics \X Reservations
  BY HandledChanges DEF SagaTypeOK
<1>8. QED
  BY <1>2, <1>3, <1>4, <1>5, <1>6, <1>7 DEF SagaTypeOK

-----------------------------------------------------------------------------
(* The sale, seen from one reservation.                                    *)

\* r is booked only if the API accepts it; it ends once; a ticket or a cancellation is
\* what the result told says, when booking-service has found it applicable.
StatusKept(r) ==
    /\ status[r] # "NONE" => status'[r] # "NONE"
    /\ status[r] = "NONE" /\ status'[r] # "NONE" => RequestAccepted(r)
    /\ status[r] \in {"TICKET_ISSUED", "EXPIRED", "CANCELLED"} => status'[r] = status[r]
    /\ status[r] # status'[r] /\ status'[r] \in {"TICKET_ISSUED", "CANCELLED"} =>
          /\ told[r] # None /\ told[r].amount = Due(r)
          /\ told[r].status = "RECEIVED" <=> status'[r] = "TICKET_ISSUED"

LEMMA StatusOfStep ==
  ASSUME SagaTypeOK, SaleChange, NEW r \in Reservations
  PROVE  StatusKept(r)
<1> USE DEF SagaTypeOK, SaleTypeOK, StatusKept, ReservationStatus
<1>1. CASE UNCHANGED saleVars
  BY <1>1 DEF saleVars
<1>2. ASSUME NEW q \in Reservations, Book(q)
      PROVE  StatusKept(r)
  BY <1>2 DEF Book, Reserve
<1>3. ASSUME NEW q \in Reservations, Expire(q)
      PROVE  StatusKept(r)
  BY <1>3 DEF Expire, GiveBack
<1>4. ASSUME NEW q \in Reservations, ApplyResult(q)
      PROVE  StatusKept(r)
  <2>1. told[q] # None /\ told[q].amount = Due(q)
    BY <1>4, ResultIsAccepted DEF ApplyResult, Arrives, Applicable
  <2>2. \/ UNCHANGED saleVars
        \/ told[q].status = "RECEIVED" /\ Issue(q)
        \/ told[q].status # "RECEIVED" /\ GiveBack(q) /\ status'[q] = "CANCELLED"
    BY <1>4 DEF ApplyResult, Effect
  <2>3. CASE told[q].status = "RECEIVED" /\ Issue(q)
    BY <2>1, <2>3 DEF Issue
  <2>4. CASE told[q].status # "RECEIVED" /\ GiveBack(q) /\ status'[q] = "CANCELLED"
    BY <2>1, <2>4 DEF GiveBack
  <2>5. QED
    BY <2>2, <2>3, <2>4, <1>1
<1>5. QED
  BY <1>1, <1>2, <1>3, <1>4 DEF SaleChange

-----------------------------------------------------------------------------
(* The invariants.                                                         *)

LEMMA BookedStep ==
  ASSUME SagaTypeOK, BookedWasAccepted, SaleChange
  PROVE  BookedWasAccepted'
<1> SUFFICES ASSUME NEW r \in Reservations, status'[r] # "NONE"
             PROVE  RequestAccepted(r)
  BY DEF BookedWasAccepted, RequestAccepted
<1>1. StatusKept(r)
  BY StatusOfStep
<1>2. QED
  BY <1>1 DEF StatusKept, BookedWasAccepted

LEMMA PaymentsStep ==
  ASSUME SagaTypeOK, PaymentsMakeSense, SaleChange, PaymentChange
  PROVE  PaymentsMakeSense'
<1> SUFFICES ASSUME NEW r \in Reservations
             PROVE  /\ decision'[r] # None =>
                         (decision'[r].status = "RECEIVED" <=> decision'[r].reason = None)
                    /\ told'[r] # None => status'[r] # "NONE" /\ told'[r] = decision'[r]
  BY DEF PaymentsMakeSense
<1>1. PaymentKept(r) /\ StatusKept(r)
  BY PaymentOfStep, StatusOfStep
<1>2. QED
  BY <1>1 DEF PaymentKept, StatusKept

\* Who has ended by a result was told one, and paid or was refused the whole price.
LEMMA TicketsStep ==
  ASSUME SagaTypeOK, PaymentsMakeSense, EndedWasTold, TicketIsPaid, SaleChange, PaymentChange
  PROVE  EndedWasTold' /\ TicketIsPaid'
<1>1. ASSUME NEW r \in Reservations, status'[r] \in {"TICKET_ISSUED", "CANCELLED"}
      PROVE  /\ told[r] # None /\ told[r].amount = Due(r)
             /\ status'[r] = "TICKET_ISSUED" => told[r].status = "RECEIVED"
             /\ status'[r] = "CANCELLED" => told[r].status = "REJECTED"
             /\ told'[r] = told[r] /\ decision'[r] = told[r]
  <2>1. PaymentKept(r) /\ StatusKept(r)
    BY PaymentOfStep, StatusOfStep
  <2>2. /\ told[r] # None /\ told[r].amount = Due(r)
        /\ told[r].status = "RECEIVED" <=> status'[r] = "TICKET_ISSUED"
    <3>1. CASE status'[r] = status[r]
      BY <1>1, <3>1 DEF EndedWasTold, TicketIsPaid
    <3>2. CASE status'[r] # status[r]
      BY <1>1, <2>1, <3>2 DEF StatusKept
    <3>3. QED
      BY <3>1, <3>2
  <2>3. told[r] \in Payment
    BY <2>2 DEF SagaTypeOK
  <2>4. told[r].status \in {"RECEIVED", "REJECTED"}
    BY <2>3 DEF Payment
  <2>5. told'[r] = told[r] /\ decision'[r] = told'[r]
    BY <2>1, <2>2 DEF PaymentKept
  <2>6. QED
    BY <1>1, <2>2, <2>4, <2>5
<1>2. \A r \in Reservations : Due(r)' = Due(r)
  BY DEF Due
<1>3. EndedWasTold'
  BY <1>1 DEF EndedWasTold
<1>4. TicketIsPaid'
  BY <1>1, <1>2 DEF TicketIsPaid
<1>5. QED
  BY <1>3, <1>4

\* Why a result can be refused when it is.
LEMMA RefusedResult ==
  ASSUME SagaTypeOK, PaymentsMakeSense, EndedWasTold, TicketIsPaid,
         NEW r \in Reservations, Arrives(r), ~Applicable(r)
  PROVE  /\ told[r] # None
         /\ \/ told[r].amount # Due(r)
            \/ told[r].status = "RECEIVED" /\ status[r] = "EXPIRED"
<1>1. told[r] # None /\ told[r] \in Payment /\ told[r] = decision[r] /\ status[r] # "NONE"
  BY DEF Arrives, SagaTypeOK, PaymentsMakeSense
<1>2. told[r].status \in {"RECEIVED", "REJECTED"}
  BY <1>1 DEF Payment
<1>3. ListenerAccepts(PaymentResult(r, told[r]))
  BY <1>1, ResultIsAccepted DEF PaymentsMakeSense
<1>4. SUFFICES ASSUME told[r].amount = Due(r)
               PROVE  told[r].status = "RECEIVED" /\ status[r] = "EXPIRED"
  BY <1>1
<1>5. AmountMatches(PaymentResult(r, told[r]))
  BY <1>4, ResultIsAccepted
<1>6. status[r] \in ReservationStatus
  BY <1>1 DEF SagaTypeOK, SaleTypeOK
<1>7. status[r] \notin IF told[r].status = "RECEIVED" THEN {"PENDING", "TICKET_ISSUED"}
                                                     ELSE {"PENDING", "EXPIRED", "CANCELLED"}
  BY <1>3, <1>5 DEF Applicable
<1>8. status[r] = "TICKET_ISSUED" => told[r].status = "RECEIVED"
  BY <1>1 DEF TicketIsPaid
<1>9. status[r] = "CANCELLED" => told[r].status = "REJECTED"
  BY <1>1 DEF TicketIsPaid
<1>10. QED
  BY <1>2, <1>6, <1>7, <1>8, <1>9 DEF ReservationStatus

\* The cause of one dead letter.
Caused(d) ==
    /\ d.topic # "seat-reserved"
    /\ d.topic = "payment-result" =>
          /\ told[d.reservation] # None
          /\ \/ told[d.reservation].amount # Due(d.reservation)
             \/ told[d.reservation].status = "RECEIVED" /\ status[d.reservation] = "EXPIRED"
    /\ d.topic = "notice" =>
          CustomerRef[d.reservation].length < 3 \/ ~CustomerRef[d.reservation].mailable

LEMMA CausesOfLetters ==
  ASSUME SagaTypeOK
  PROVE  RefusedWasTold /\ RefusalsHaveACause <=>
            \A d \in deadLetters : d.cause = "refused" => Caused(d)
<1>1. \A d \in deadLetters : d.topic \in {"seat-reserved", "payment-result", "notice"}
  BY DEF SagaTypeOK, DeadLetter, Topics
<1>2. QED
  BY <1>1 DEF RefusedWasTold, RefusalsHaveACause, Caused

\* A refusal keeps its cause: a result told and a reservation expired do not change.
LEMMA CauseStays ==
  ASSUME SagaTypeOK, PaymentsMakeSense, SaleChange, PaymentChange,
         NEW d \in DeadLetter, Caused(d)
  PROVE  Caused(d)'
<1> DEFINE r == d.reservation
<1>1. r \in Reservations
  BY DEF DeadLetter
<1>2. PaymentKept(r) /\ StatusKept(r)
  BY <1>1, PaymentOfStep, StatusOfStep
<1>3. Due(r)' = Due(r)
  BY DEF Due
<1>4. told[r] # None => told'[r] = told[r]
  BY <1>2 DEF PaymentKept
<1>5. status[r] = "EXPIRED" => status'[r] = "EXPIRED"
  BY <1>2 DEF StatusKept
<1>6. QED
  BY <1>3, <1>4, <1>5 DEF Caused

LEMMA RefusalsStep ==
  ASSUME SagaInv, SagaTypeOK', SaleChange, PaymentChange, LetterChange
  PROVE  RefusedWasTold' /\ RefusalsHaveACause'
<1> USE DEF SagaInv
<1>1. \A d \in deadLetters : d.cause = "refused" => Caused(d)
  BY CausesOfLetters
<1>2. ASSUME NEW d \in deadLetters', d.cause = "refused"
      PROVE  Caused(d)'
  <2>1. CASE d \in deadLetters
    BY <1>1, <1>2, <2>1, CauseStays DEF SagaTypeOK
  <2>2. CASE d \notin deadLetters
    <3>1. PICK q \in Reservations, t \in Topics :
              /\ SetAside(t, q, "refused")
              /\ d = [topic |-> t, reservation |-> q, cause |-> "refused"]
              /\ \/ t = "seat-reserved" /\ status[q] # "NONE" /\ ~PaymentAccepts(SeatReserved(q))
                 \/ t = "payment-result" /\ Arrives(q) /\ ~Applicable(q)
                 \/ t = "notice" /\ ~NotificationAccepts(Notice(q))
      BY <1>2, <2>2 DEF LetterChange, SetAside
    <3>2. ~(t = "seat-reserved" /\ status[q] # "NONE" /\ ~PaymentAccepts(SeatReserved(q)))
      BY SeatReservedIsAccepted DEF BookedWasAccepted
    <3>3. d \in DeadLetter
      BY <1>2 DEF SagaTypeOK
    <3>4. t = "notice" /\ ~NotificationAccepts(Notice(q)) =>
              CustomerRef[q].length < 3 \/ ~CustomerRef[q].mailable
      BY NoticeIsAccepted, SagaAssumption
    <3>5. Caused(d)
      BY <3>1, <3>2, <3>4, RefusedResult DEF Caused
    <3>6. QED
      BY <3>3, <3>5, CauseStays
  <2>3. QED
    BY <2>1, <2>2
<1>3. \A d \in deadLetters' : d.topic \in {"seat-reserved", "payment-result", "notice"}
  BY DEF SagaTypeOK, DeadLetter, Topics
<1>4. (RefusedWasTold /\ RefusalsHaveACause)'
  BY <1>2, <1>3 DEF RefusedWasTold, RefusalsHaveACause, Caused
<1>5. QED
  BY <1>4

-----------------------------------------------------------------------------
LEMMA SagaStarts == Init => SagaInv
<1> SUFFICES ASSUME Init PROVE SagaInv
  OBVIOUS
<1> USE SaleAssumption DEF Init, SaleInit, Once!Init
<1>1. SagaTypeOK
  BY DEF SagaTypeOK, SaleTypeOK
<1>2. BookedWasAccepted /\ PaymentsMakeSense /\ EndedWasTold /\ TicketIsPaid
  BY DEF BookedWasAccepted, PaymentsMakeSense, EndedWasTold, TicketIsPaid
<1>3. RefusedWasTold /\ RefusalsHaveACause
  BY DEF RefusedWasTold, RefusalsHaveACause
<1>4. QED
  BY <1>1, <1>2, <1>3 DEF SagaInv

LEMMA SagaStep == SagaInv /\ [Next]_vars => SagaInv'
<1> SUFFICES ASSUME SagaInv, [Next]_vars PROVE SagaInv'
  OBVIOUS
<1>1. SaleChange /\ PaymentChange /\ LetterChange
  BY Changes
<1>2. SagaTypeOK'
  BY SagaTypeStep DEF SagaInv
<1>3. BookedWasAccepted' /\ PaymentsMakeSense' /\ EndedWasTold' /\ TicketIsPaid'
  BY <1>1, BookedStep, PaymentsStep, TicketsStep DEF SagaInv
<1>4. RefusedWasTold' /\ RefusalsHaveACause'
  BY <1>1, <1>2, RefusalsStep
<1>5. QED
  BY <1>2, <1>3, <1>4 DEF SagaInv

\* The inductive invariant holds: records accepted when they are made stay acceptable.
THEOREM SagaInvariant == Spec => []SagaInv
BY SagaStarts, SagaStep, PTL DEF Spec

\* Rows of the three services keep their types.
THEOREM SagaTypes == Spec => []SagaTypeOK
<1>1. SagaInv => SagaTypeOK
  BY DEF SagaInv
<1>2. QED
  BY <1>1, SagaInvariant, PTL

\* No ticket without the whole price paid and told, no cancellation without a refusal
\* of the whole price (PaymentEventProcessor over what payment-service publishes).
THEOREM EveryTicketIsPaid == Spec => []TicketIsPaid
<1>1. SagaInv => TicketIsPaid
  BY DEF SagaInv
<1>2. QED
  BY <1>1, SagaInvariant, PTL

\* A consumer refuses what another service wrote for four reasons only: the amount of a
\* direct payment, a payment for an expired reservation, a customerRef that is short or
\* no address for EmailMessage, smtplib or the mail server.
THEOREM EveryRefusalHasACause == Spec => []RefusalsHaveACause
<1>1. SagaInv => RefusalsHaveACause
  BY DEF SagaInv
<1>2. QED
  BY <1>1, SagaInvariant, PTL

-----------------------------------------------------------------------------
(* Decisions and their effects.                                            *)

\* After authorizeAndEnqueue the result of the reservation is in the outbox.
LEMMA PaidIsTold ==
  ASSUME SagaTypeOK, NEW q \in Reservations, PayAndTell(q)
  PROVE  told'[q] # None
<1>1. CASE Once!Tell(q)
  BY <1>1 DEF Once!Tell, SagaTypeOK
<1>2. ASSUME NEW forced \in Reasons \cup {None}, NEW p \in Verdicts(10 * Due(q), forced),
             Once!Settle(q, p)
      PROVE  told'[q] # None
  <2>1. p # None
    BY VerdictOnDue, SagaAssumption
  <2>2. QED
    BY <1>2, <2>1 DEF Once!Settle, SagaTypeOK
<1>3. (IF q \in overdue THEN "RESERVATION_EXPIRED" ELSE None) \in Reasons \cup {None}
  BY DEF Reasons
<1>4. QED
  BY <1>1, <1>2, <1>3 DEF PayAndTell

\* A result that booking-service has marked had its effect.
ProcessedHadEffect == \A r \in processed :
    /\ told[r] # None
    /\ status[r] \in IF told[r].status = "RECEIVED" THEN {"TICKET_ISSUED"}
                                                    ELSE {"EXPIRED", "CANCELLED"}

LEMMA ProcessedStep ==
  ASSUME SagaInv, ProcessedHadEffect, [Next]_vars
  PROVE  ProcessedHadEffect'
<1>a. SagaTypeOK /\ PaymentsMakeSense /\ SaleChange /\ PaymentChange
  BY Changes DEF SagaInv
<1>1. \A r \in processed :
         /\ told'[r] # None
         /\ status'[r] \in IF told'[r].status = "RECEIVED" THEN {"TICKET_ISSUED"}
                                                           ELSE {"EXPIRED", "CANCELLED"}
  <2> SUFFICES ASSUME NEW r \in processed
               PROVE  /\ told'[r] # None
                      /\ status'[r] \in IF told'[r].status = "RECEIVED" THEN {"TICKET_ISSUED"}
                                                                    ELSE {"EXPIRED", "CANCELLED"}
    OBVIOUS
  <2>1. PaymentKept(r) /\ StatusKept(r) /\ r \in Reservations
    BY <1>a, PaymentOfStep, StatusOfStep DEF SagaTypeOK
  <2>2. /\ told[r] # None
        /\ status[r] \in IF told[r].status = "RECEIVED" THEN {"TICKET_ISSUED"}
                                                        ELSE {"EXPIRED", "CANCELLED"}
    BY DEF ProcessedHadEffect
  <2>3. told'[r] = told[r] /\ status'[r] = status[r]
    BY <2>1, <2>2 DEF PaymentKept, StatusKept
  <2>4. QED
    BY <2>2, <2>3
<1>2. ASSUME NEW q \in Reservations, ApplyResult(q)
      PROVE  ProcessedHadEffect'
  <2>1. /\ processed' = processed \cup {q} /\ told' = told /\ told[q] # None
        /\ status[q] \in IF told[q].status = "RECEIVED" THEN {"PENDING", "TICKET_ISSUED"}
                                                       ELSE {"PENDING", "EXPIRED", "CANCELLED"}
        /\ Effect(q)
    BY <1>2 DEF ApplyResult, Arrives, Applicable, paymentVars
  <2>2. status'[q] \in IF told[q].status = "RECEIVED" THEN {"TICKET_ISSUED"}
                                                     ELSE {"EXPIRED", "CANCELLED"}
    <3>1. status \in [Reservations -> ReservationStatus \cup {"NONE"}]
      BY <1>a DEF SagaTypeOK, SaleTypeOK
    <3>2. CASE status[q] # "PENDING"
      BY <2>1, <3>2 DEF Effect, saleVars
    <3>3. CASE status[q] = "PENDING"
      BY <2>1, <3>1, <3>3 DEF Effect, Issue
    <3>4. QED
      BY <3>2, <3>3
  <2>3. QED
    BY <1>1, <2>1, <2>2 DEF ProcessedHadEffect
<1>3. CASE processed' = processed
  BY <1>1, <1>3 DEF ProcessedHadEffect
<1>4. QED
  BY <1>2, <1>3 DEF Next, vars, bookingVars, Book, DeadlinePasses, Expire, PayDirect,
     HandleSeatReserved, SetAside, ResultStep, RefuseResult, NoticeStep, Mail, RefuseNotice,
     Outage

\* A consumer goes past a record when its effect is there or an operator knows.
HandledHadEffect == \A r \in Reservations :
    /\ <<"seat-reserved", r>> \in handled => told[r] # None \/ Aside("seat-reserved", r)
    /\ <<"payment-result", r>> \in handled => r \in processed \/ Aside("payment-result", r)

LEMMA HandledStep ==
  ASSUME SagaInv, HandledHadEffect, [Next]_vars
  PROVE  HandledHadEffect'
<1>1. SagaTypeOK /\ PaymentsMakeSense /\ PaymentChange /\ LetterChange
  BY Changes DEF SagaInv
<1>2. \A r \in Reservations : told[r] # None => told'[r] # None
  BY <1>1, PaymentOfStep DEF PaymentKept
<1>3. deadLetters \subseteq deadLetters'
  BY <1>1 DEF LetterChange, SetAside
<1>4. \A t \in Topics, r \in Reservations : Aside(t, r) => Aside(t, r)'
  BY <1>3 DEF Aside
<1>5. processed \subseteq processed'
  BY DEF Next, vars, bookingVars, Book, DeadlinePasses, Expire, PayDirect, HandleSeatReserved, SetAside,
         ResultStep, ApplyResult, RefuseResult, NoticeStep, Mail, RefuseNotice, Outage
<1>6. CASE UNCHANGED handled
  BY <1>2, <1>4, <1>5, <1>6 DEF HandledHadEffect, Topics
<1>7. ASSUME NEW q \in Reservations, NEW t \in Topics, handled' = handled \cup {<<t, q>>},
             \/ t = "seat-reserved" /\ PayAndTell(q)
             \/ t = "payment-result" /\ q \in processed'
             \/ t = "notice"
             \/ \E why \in {"refused", "failure"} : SetAside(t, q, why)
      PROVE  HandledHadEffect'
  <2>1. /\ t = "seat-reserved" => told'[q] # None \/ Aside("seat-reserved", q)'
        /\ t = "payment-result" => q \in processed' \/ Aside("payment-result", q)'
    <3>1. ASSUME PayAndTell(q) PROVE told'[q] # None
      BY <1>1, <3>1, PaidIsTold
    <3>2. ASSUME NEW why \in {"refused", "failure"}, SetAside(t, q, why) PROVE Aside(t, q)'
      BY <3>2 DEF SetAside, Aside
    <3>3. QED
      BY <1>7, <3>1, <3>2
  <2>2. QED
    BY <1>2, <1>4, <1>5, <1>7, <2>1 DEF HandledHadEffect, Topics
<1>8. QED
  BY <1>6, <1>7, HandledChanges

\* No decision on a reservation of booking-service is forgotten on its way: it had its
\* effect, or Kafka still holds a record of it, or an operator does. A payment for an id
\* that booking-service never gave is not one of them. It is the safety half of
\* MoneyIsAccountedFor.
THEOREM NoDecisionForgotten == Spec => []DecisionsAreFollowed
<1>1. Init => ProcessedHadEffect /\ HandledHadEffect
  BY DEF Init, ProcessedHadEffect, HandledHadEffect
<1>2. SagaInv /\ ProcessedHadEffect /\ HandledHadEffect /\ [Next]_vars
         => ProcessedHadEffect' /\ HandledHadEffect'
  BY ProcessedStep, HandledStep
<1>3. SagaInv /\ ProcessedHadEffect /\ HandledHadEffect => DecisionsAreFollowed
  <2> SUFFICES ASSUME SagaInv, ProcessedHadEffect, HandledHadEffect, NEW r \in Reservations,
                      <<IF told[r] = None THEN "seat-reserved" ELSE "payment-result", r>> \in handled,
                      ~Aside("seat-reserved", r), ~Aside("payment-result", r)
               PROVE  Followed(r)
    BY DEF DecisionsAreFollowed
  <2>1. told[r] # None /\ r \in processed
    BY DEF HandledHadEffect
  <2>2. told[r] = decision[r]
    BY <2>1 DEF SagaInv, PaymentsMakeSense
  <2>3. QED
    BY <2>1, <2>2 DEF ProcessedHadEffect, Followed
<1>4. QED
  BY <1>1, <1>2, <1>3, SagaInvariant, PTL DEF Spec

-----------------------------------------------------------------------------
(* Refinements: what each service promises is what the saga builds on.     *)

\* Results, deadlines and crashes of consumers do to the reservations and the stock
\* what the sale allows and nothing else.
THEOREM SagaImplementsSale == Spec => SaleSpec
<1>1. Init => SaleInit
  BY DEF Init
<1>2. SagaInv /\ [Next]_vars => [SaleNext]_saleVars
  BY Changes, SagaSells DEF SagaInv, SagaTypeOK
<1>3. QED
  BY <1>1, <1>2, SagaInvariant, PTL DEF Spec, SaleSpec

\* Free and held places make up the capacity, whatever happens to the records between
\* the services.
THEOREM SagaConserves == Spec => []SeatsConserved
BY SagaImplementsSale, SaleConserves, PTL

\* A reservation has one payment for ever and booking-service is told that one, whether
\* a client or the SeatReserved record comes first.
THEOREM SagaPaysOnce == Spec => Once!Spec
<1>1. Init => Once!Init
  BY DEF Init
<1>2. ASSUME SagaInv, [Next]_vars
      PROVE  [Once!Next]_<<decision, told>>
  <2>1. PaymentChange
    BY <1>2, Changes
  <2>2. ASSUME NEW q \in Reservations, NEW a \in Nat, NEW forced \in Reasons \cup {None},
               NEW p \in Verdicts(a, forced), Once!Decide(q, p) \/ Once!Settle(q, p)
        PROVE  Once!Next
    BY <2>2, VerdictShape DEF Once!Next
  <2>3. ASSUME NEW q \in Reservations
        PROVE  /\ 10 * Due(q) \in Nat /\ None \in Reasons \cup {None}
               /\ (IF q \in overdue THEN "RESERVATION_EXPIRED" ELSE None) \in Reasons \cup {None}
    BY DueIsPositive DEF Reasons
  <2>4. ASSUME NEW q \in Reservations, PayAndTell(q)
        PROVE  Once!Next
    BY <2>2, <2>3, <2>4 DEF PayAndTell, Once!Next
  <2>5. QED
    BY <2>1, <2>2, <2>3, <2>4 DEF PaymentChange, paymentVars
<1>3. QED
  BY <1>1, <1>2, SagaInvariant, PTL DEF Spec, Once!Spec, Once!onceVars
=============================================================================
