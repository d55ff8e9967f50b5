--------------------------- MODULE BookingService ---------------------------
(***************************************************************************)
(* booking-service: three kinds of transactions over the same Postgres     *)
(* rows.                                                                   *)
(*   - a request (POST /reservations) reads the event row without a lock   *)
(*     and commits only if the row's version has not moved;                *)
(*   - the expiration scheduler locks the reservation row, then the event  *)
(*     row (SELECT ... FOR UPDATE), and commits;                           *)
(*   - the consumer of payment results checks its marker without a lock,   *)
(*     locks the reservation row, for a refusal the event row too, and     *)
(*     commits; an attempt that fails is tried again, then dead-lettered.  *)
(* Several schedulers and consumers are the instances that overlap during  *)
(* a rolling update.  Time, Kafka and payment-service are an environment.  *)
(***************************************************************************)
EXTENDS Integers, Sequences, FiniteSets

CONSTANTS
    Events,           \* rows of the table events
    Reservations,     \* POST /reservations requests; each inserts at most one row
    EventOf,          \* EventOf[r]: the event request r asks for
    Quantity,         \* Quantity[r]: how many places it asks for
    TotalSeats,       \* TotalSeats[e]: the capacity of e
    MaxQuantity,      \* largest quantity the API accepts (10 in the code)
    Schedulers,       \* expiration schedulers, one per running instance
    Consumers,        \* payment-result listeners, one per running instance
    None,             \* no holder of a lock, no target, no payment result
    Ttl,              \* life of an unpaid reservation (reservation.ttl-seconds)
    ReserveAttempts,  \* @Retryable maxAttempts of reserve (8)
    DeliveryAttempts, \* first delivery and retries of a Kafka record (3)
    Decisions,        \* payment results that may be published, among PaymentResult
    MaxTime           \* bound: the clock passes it only while a reservation waits

Lockers == Schedulers \cup Consumers
PaymentResult == [type : {"PaymentReceived", "PaymentFailed"}, amountMatches : BOOLEAN]

ASSUME BookingAssumption ==
    /\ IsFiniteSet(Reservations)
    /\ MaxQuantity \in Nat
    /\ EventOf \in [Reservations -> Events]
    /\ Quantity \in [Reservations -> 1..MaxQuantity]
    /\ TotalSeats \in [Events -> Nat]
    /\ Schedulers \cap Consumers = {}
    /\ Lockers \cap Reservations = {}
    /\ None \notin Lockers \cup Reservations
    /\ Ttl \in Nat \ {0}
    /\ ReserveAttempts \in Nat \ {0}
    /\ DeliveryAttempts \in Nat \ {0}
    /\ Decisions \subseteq PaymentResult
    /\ None \notin PaymentResult
    /\ MaxTime \in Nat

VARIABLES
    \* rows
    availableSeats,  \* availableSeats[e]: places of e still for sale
    version,         \* version[e]: the @Version column of e
    status,          \* status[r]: state of the reservation row, "NONE" before its insert
    expiresAt,       \* expiresAt[r]: deadline of r, set when r is opened
    processed,       \* processed_events: the results whose effect is committed
    outbox,          \* outbox[r]: types of the events recorded for r, in commit order
    \* row locks, as Postgres grants them
    eventLock,       \* eventLock[e]: the transaction that locked row e, or None
    reservationLock, \* the same for the reservation rows
    \* requests
    request,         \* request[r]: where the HTTP request is
    tries,           \* tries[r]: number of the attempt in progress
    since,           \* since[r]: version of the event when its first attempt read it
    seen,            \* seen[w]: the event row as the transaction of w has read it
    \* schedulers and consumers
    pc,              \* pc[w]: where worker w is
    target,          \* target[w]: the reservation w works on
    due,             \* due[s]: what is left of the list scheduler s has read
    scanTime,        \* scanTime[s]: the instant of that read
    attempt,         \* attempt[c]: number of the delivery in progress
    \* Kafka and time
    result,          \* result[r]: the payment result published for r, or None
    unacked,         \* results with a copy whose offset is not committed
    dlt,             \* results sent to the dead letter topic
    clock

rows == <<availableSeats, version, status, processed, outbox>>
locks == <<eventLock, reservationLock>>
requests == <<request, tries, since, expiresAt>>
scans == <<due, scanTime>>
topics == <<result, unacked, dlt>>
vars == <<rows, locks, requests, seen, pc, target, scans, attempt, topics, clock>>

-----------------------------------------------------------------------------
ReservationStatus == {"PENDING", "TICKET_ISSUED", "EXPIRED", "CANCELLED"}
EventTypes == {"SeatReserved", "TicketIssued", "ReservationExpired", "SeatReleased"}
WorkerStates ==
    {"idle", "check", "lock", "issue", "reservationLocked", "eventLocked", "ack", "recover"}

EventRow == [availableSeats : Nat, version : Nat]
ReadEvent(e) == [availableSeats |-> availableSeats[e], version |-> version[e]]

RowsTypeOK ==
    /\ availableSeats \in [Events -> Nat]
    /\ version \in [Events -> Nat]
    /\ status \in [Reservations -> ReservationStatus \cup {"NONE"}]
    /\ processed \subseteq Reservations
    /\ outbox \in [Reservations -> Seq(EventTypes)]
LocksTypeOK ==
    /\ eventLock \in [Events -> Lockers \cup {None}]
    /\ reservationLock \in [Reservations -> Lockers \cup {None}]
RequestsTypeOK ==
    /\ request \in [Reservations -> {"new", "opened", "retry", "accepted", "refused"}]
    /\ tries \in [Reservations -> 1..ReserveAttempts]
    /\ since \in [Reservations -> Nat]
    /\ expiresAt \in [Reservations -> Nat]
    /\ seen \in [Reservations \cup Lockers -> EventRow]
WorkersTypeOK ==
    /\ pc \in [Lockers -> WorkerStates]
    /\ target \in [Lockers -> Reservations \cup {None}]
    /\ \A w \in Lockers : pc[w] # "idle" => target[w] \in Reservations
    /\ due \in [Schedulers -> SUBSET Reservations]
    /\ scanTime \in [Schedulers -> Nat]
    /\ attempt \in [Consumers -> 1..DeliveryAttempts]
TopicsTypeOK ==
    /\ result \in [Reservations -> PaymentResult \cup {None}]
    /\ unacked \subseteq Reservations
    /\ dlt \subseteq Reservations
    /\ clock \in Nat

\* Every variable keeps its type, and a busy worker has a target.
TypeOK == RowsTypeOK /\ LocksTypeOK /\ RequestsTypeOK /\ WorkersTypeOK /\ TopicsTypeOK

\* DataSeeder's events, no reservation yet, every worker idle.
Init ==
    /\ availableSeats = TotalSeats
    /\ version = [e \in Events |-> 0]
    /\ status = [r \in Reservations |-> "NONE"]
    /\ expiresAt = [r \in Reservations |-> 0]
    /\ processed = {}
    /\ outbox = [r \in Reservations |-> <<>>]
    /\ eventLock = [e \in Events |-> None]
    /\ reservationLock = [r \in Reservations |-> None]
    /\ request = [r \in Reservations |-> "new"]
    /\ tries = [r \in Reservations |-> 1]
    /\ since = [r \in Reservations |-> 0]
    /\ seen = [w \in Reservations \cup Lockers |-> [availableSeats |-> 0, version |-> 0]]
    /\ pc = [w \in Lockers |-> "idle"]
    /\ target = [w \in Lockers |-> None]
    /\ due = [s \in Schedulers |-> {}]
    /\ scanTime = [s \in Schedulers |-> 0]
    /\ attempt = [c \in Consumers |-> 1]
    /\ result = [r \in Reservations |-> None]
    /\ unacked = {}
    /\ dlt = {}
    /\ clock = 0

-----------------------------------------------------------------------------
(* Effects shared by the transactions.                                     *)

\* The BEFORE_COMMIT listener adds the row of each event in the transaction
\* that changes the reservation.
Record(r, types) == outbox' = [outbox EXCEPT ![r] = @ \o types]

Unlock(lock, w) == [x \in DOMAIN lock |-> IF lock[x] = w THEN None ELSE lock[x]]

\* A commit or a rollback ends the transaction of w: Postgres frees its locks.
EndTransaction(w) ==
    /\ eventLock' = Unlock(eventLock, w)
    /\ reservationLock' = Unlock(reservationLock, w)

\* Mutant: the places come back by an UPDATE that leaves the version alone.
ReleaseSameVersion(w, r) ==
    /\ availableSeats' =
          [availableSeats EXCEPT ![EventOf[r]] = seen[w].availableSeats + Quantity[r]]
    /\ UNCHANGED version

\* Event.release and the UPDATE of the row as w has read it, version included.
Release(w, r) ==
    LET e == EventOf[r] IN
    /\ seen[w].availableSeats + Quantity[r] <= TotalSeats[e]
    /\ availableSeats' = [availableSeats EXCEPT ![e] = seen[w].availableSeats + Quantity[r]]
    /\ version' = [version EXCEPT ![e] = seen[w].version + 1]

-----------------------------------------------------------------------------
(* Requests: ReservationService.reserve.                                   *)

\* Read the event row without a lock, take the places from the copy, open the
\* reservation in memory.
OpenReservation(r) ==
    /\ request[r] \in {"new", "retry"}
    /\ Quantity[r] <= availableSeats[EventOf[r]]
    /\ request' = [request EXCEPT ![r] = "opened"]
    /\ seen' = [seen EXCEPT ![r] = ReadEvent(EventOf[r])]
    /\ expiresAt' = [expiresAt EXCEPT ![r] = clock + Ttl]
    /\ since' = [since EXCEPT ![r] = IF request[r] = "new" THEN version[EventOf[r]] ELSE @]
    /\ UNCHANGED <<rows, locks, tries, pc, target, scans, attempt, topics, clock>>

\* InsufficientSeatsException: 409, nothing written.
SoldOut(r) ==
    /\ request[r] \in {"new", "retry"}
    /\ Quantity[r] > availableSeats[EventOf[r]]
    /\ request' = [request EXCEPT ![r] = "refused"]
    /\ UNCHANGED <<rows, locks, tries, since, expiresAt, seen, pc, target, scans, attempt,
                   topics, clock>>

\* What the commit of a reservation writes.
SaveReservation(r) ==
    LET e == EventOf[r] IN
    /\ availableSeats' = [availableSeats EXCEPT ![e] = seen[r].availableSeats - Quantity[r]]
    /\ version' = [version EXCEPT ![e] = seen[r].version + 1]
    /\ status' = [status EXCEPT ![r] = "PENDING"]
    /\ Record(r, <<"SeatReserved">>)
    /\ request' = [request EXCEPT ![r] = "accepted"]
    /\ UNCHANGED <<processed, locks, tries, since, expiresAt, seen, pc, target, scans, attempt,
                   topics, clock>>

\* Mutant: the event row has no version column.
CommitWithoutVersion(r) ==
    request[r] = "opened" /\ eventLock[EventOf[r]] = None /\ SaveReservation(r)

\* The UPDATE waits for the row lock, finds the version it has read, commits.
CommitReservation(r) ==
    /\ request[r] = "opened"
    /\ eventLock[EventOf[r]] = None
    /\ seen[r].version = version[EventOf[r]]
    /\ SaveReservation(r)

\* The version has moved: the transaction rolls back and is tried again, up to
\* ReserveAttempts times, then the request is answered 409.
LoseRace(r) ==
    /\ request[r] = "opened"
    /\ eventLock[EventOf[r]] = None
    /\ seen[r].version # version[EventOf[r]]
    /\ \/ /\ tries[r] < ReserveAttempts
          /\ tries' = [tries EXCEPT ![r] = @ + 1]
          /\ request' = [request EXCEPT ![r] = "retry"]
       \/ /\ tries[r] = ReserveAttempts
          /\ request' = [request EXCEPT ![r] = "refused"]
          /\ UNCHANGED tries
    /\ UNCHANGED <<rows, locks, since, expiresAt, seen, pc, target, scans, attempt, topics, clock>>

\* Mutant: @Retryable tries again after any exception.
AbandonRetried(r) ==
    /\ request[r] = "opened"
    /\ tries[r] < ReserveAttempts
    /\ tries' = [tries EXCEPT ![r] = @ + 1]
    /\ request' = [request EXCEPT ![r] = "retry"]
    /\ UNCHANGED <<rows, locks, since, expiresAt, seen, pc, target, scans, attempt, topics, clock>>

\* The instance crashes, or the database fails, before the commit.
AbandonRequest(r) ==
    /\ request[r] \in {"opened", "retry"}
    /\ request' = [request EXCEPT ![r] = "refused"]
    /\ UNCHANGED <<rows, locks, tries, since, expiresAt, seen, pc, target, scans, attempt,
                   topics, clock>>

-----------------------------------------------------------------------------
(* Row locks taken by schedulers and consumers.                            *)

\* Mutant: the reservation is read without FOR UPDATE.
ReadReservation(w, r, next) ==
    /\ reservationLock' = [reservationLock EXCEPT ![r] = w]
    /\ target' = [target EXCEPT ![w] = r]
    /\ pc' = [pc EXCEPT ![w] = next]
    /\ UNCHANGED <<rows, eventLock, requests, seen, scans, attempt, topics, clock>>

\* findByIdForUpdate on the reservation: wait for the lock, read the row, go on at next.
LockReservation(w, r, next) ==
    /\ reservationLock[r] = None
    /\ reservationLock' = [reservationLock EXCEPT ![r] = w]
    /\ target' = [target EXCEPT ![w] = r]
    /\ pc' = [pc EXCEPT ![w] = next]
    /\ UNCHANGED <<rows, eventLock, requests, seen, scans, attempt, topics, clock>>

\* findByIdForUpdate on the event of the reservation already locked.
LockEvent(w) ==
    LET e == EventOf[target[w]] IN
    /\ pc[w] = "reservationLocked"
    /\ eventLock[e] = None
    /\ eventLock' = [eventLock EXCEPT ![e] = w]
    /\ seen' = [seen EXCEPT ![w] = ReadEvent(e)]
    /\ pc' = [pc EXCEPT ![w] = "eventLocked"]
    /\ UNCHANGED <<rows, reservationLock, requests, target, scans, attempt, topics, clock>>

-----------------------------------------------------------------------------
(* Schedulers: ReservationExpirationScheduler and its processor.           *)

\* Mutant: Reservation.expire forgets the deadline.
ExpirableAnyTime(r, now) == status[r] = "PENDING"

\* Reservation.expire returns true.
Expirable(r, now) == status[r] = "PENDING" /\ expiresAt[r] <= now

\* findExpiredIds: a plain read, stale as soon as it returns.
Scan(s) ==
    /\ pc[s] = "idle"
    /\ due[s] = {}
    /\ scanTime' = [scanTime EXCEPT ![s] = clock]
    /\ due' = [due EXCEPT ![s] = {r \in Reservations : Expirable(r, clock)}]
    /\ UNCHANGED <<rows, locks, requests, seen, pc, target, attempt, topics, clock>>

\* The list is walked in the order of the deadlines.
NextDue(s, r) ==
    /\ pc[s] = "idle"
    /\ r \in due[s]
    /\ \A q \in due[s] : expiresAt[r] <= expiresAt[q]

\* Under the lock the reservation can still expire.
BeginExpire(s) ==
    \E r \in Reservations :
        /\ NextDue(s, r)
        /\ Expirable(r, scanTime[s])
        /\ LockReservation(s, r, "reservationLocked")

\* Under the lock it no longer can: expire returns false.
SkipDue(s) ==
    \E r \in Reservations :
        /\ NextDue(s, r)
        /\ reservationLock[r] = None
        /\ ~Expirable(r, scanTime[s])
        /\ due' = [due EXCEPT ![s] = @ \ {r}]
        /\ UNCHANGED <<rows, locks, requests, seen, pc, target, scanTime, attempt, topics,
                       clock>>

CommitExpire(s) ==
    LET r == target[s] IN
    /\ pc[s] = "eventLocked"
    /\ Release(s, r)
    /\ status' = [status EXCEPT ![r] = "EXPIRED"]
    /\ Record(r, <<"ReservationExpired", "SeatReleased">>)
    /\ EndTransaction(s)
    /\ pc' = [pc EXCEPT ![s] = "idle"]
    /\ target' = [target EXCEPT ![s] = None]
    /\ due' = [due EXCEPT ![s] = @ \ {r}]
    /\ UNCHANGED <<processed, requests, seen, scanTime, attempt, topics, clock>>

\* Mutant: the transaction of a failed expiration is left open, with its locks.
ExpireFailsOpen(s) ==
    /\ pc[s] \in {"reservationLocked", "eventLocked"}
    /\ pc' = [pc EXCEPT ![s] = "idle"]
    /\ target' = [target EXCEPT ![s] = None]
    /\ due' = [due EXCEPT ![s] = @ \ {target[s]}]
    /\ UNCHANGED <<rows, locks, requests, seen, scanTime, attempt, topics, clock>>

\* An exception rolls one expiration back; the loop logs it and goes on.
ExpireFails(s) ==
    /\ pc[s] \in {"reservationLocked", "eventLocked"}
    /\ EndTransaction(s)
    /\ pc' = [pc EXCEPT ![s] = "idle"]
    /\ target' = [target EXCEPT ![s] = None]
    /\ due' = [due EXCEPT ![s] = @ \ {target[s]}]
    /\ UNCHANGED <<rows, requests, seen, scanTime, attempt, topics, clock>>

\* The instance stops: its list is lost, its transaction rolled back.
CrashScheduler(s) ==
    /\ due[s] # {}
    /\ EndTransaction(s)
    /\ pc' = [pc EXCEPT ![s] = "idle"]
    /\ target' = [target EXCEPT ![s] = None]
    /\ due' = [due EXCEPT ![s] = {}]
    /\ UNCHANGED <<rows, requests, seen, scanTime, attempt, topics, clock>>

-----------------------------------------------------------------------------
(* Consumers: PaymentEventsListener and PaymentEventProcessor.             *)

\* A record whose offset is not committed. After a rebalance another consumer may
\* still be working on the same record.
Poll(c, r) ==
    /\ pc[c] = "idle"
    /\ r \in unacked
    /\ target' = [target EXCEPT ![c] = r]
    /\ pc' = [pc EXCEPT ![c] = "check"]
    /\ attempt' = [attempt EXCEPT ![c] = 1]
    /\ UNCHANGED <<rows, locks, requests, seen, scans, topics, clock>>

\* existsById on the marker, before any lock.
CheckProcessed(c) ==
    /\ pc[c] = "check"
    /\ pc' = [pc EXCEPT ![c] = IF target[c] \in processed THEN "ack" ELSE "lock"]
    /\ UNCHANGED <<rows, locks, requests, seen, target, scans, attempt, topics, clock>>

\* Mutant: issueTicket does not look at the status.
ToIssueAnyway(r) == result[r].amountMatches /\ result[r].type = "PaymentReceived"

\* Mutant: a payment for a reservation that has ended is taken for a replay.
DoneAnyway(r) == result[r].amountMatches /\ status[r] \in ReservationStatus \ {"PENDING"}

\* What the handlers make of a result and of the status of the locked row.
ToIssue(r) == result[r].amountMatches /\ result[r].type = "PaymentReceived" /\ status[r] = "PENDING"
ToCancel(r) == result[r].amountMatches /\ result[r].type = "PaymentFailed" /\ status[r] = "PENDING"
AlreadyDone(r) ==
    /\ result[r].amountMatches
    /\ \/ result[r].type = "PaymentReceived" /\ status[r] = "TICKET_ISSUED"
       \/ result[r].type = "PaymentFailed" /\ status[r] \in {"CANCELLED", "EXPIRED"}

\* Lock the row and go on with the ticket or with the compensation.
BeginResult(c) ==
    /\ pc[c] = "lock"
    /\ \/ ToIssue(target[c]) /\ LockReservation(c, target[c], "issue")
       \/ ToCancel(target[c]) /\ LockReservation(c, target[c], "reservationLocked")

\* issueTicket or cancelAfterPaymentFailure returns false: only the marker is written.
RecordOnly(c) ==
    /\ pc[c] = "lock"
    /\ reservationLock[target[c]] = None
    /\ AlreadyDone(target[c])
    /\ processed' = processed \cup {target[c]}
    /\ pc' = [pc EXCEPT ![c] = "ack"]
    /\ UNCHANGED <<availableSeats, version, status, outbox, locks, requests, seen, target,
                   scans, attempt, topics, clock>>

IssueTicket(c) ==
    LET r == target[c] IN
    /\ pc[c] = "issue"
    /\ status' = [status EXCEPT ![r] = "TICKET_ISSUED"]
    /\ processed' = processed \cup {r}
    /\ Record(r, <<"TicketIssued">>)
    /\ EndTransaction(c)
    /\ pc' = [pc EXCEPT ![c] = "ack"]
    /\ UNCHANGED <<availableSeats, version, requests, seen, target, scans, attempt, topics,
                   clock>>

Compensate(c) ==
    LET r == target[c] IN
    /\ pc[c] = "eventLocked"
    /\ Release(c, r)
    /\ status' = [status EXCEPT ![r] = "CANCELLED"]
    /\ processed' = processed \cup {r}
    /\ Record(r, <<"SeatReleased">>)
    /\ EndTransaction(c)
    /\ pc' = [pc EXCEPT ![c] = "ack"]
    /\ UNCHANGED <<requests, seen, target, scans, attempt, topics, clock>>

\* Mutant: the error handler tries for ever.
FailWithoutCounting(c) ==
    /\ EndTransaction(c)
    /\ pc' = [pc EXCEPT ![c] = "check"]
    /\ UNCHANGED <<rows, requests, seen, target, attempt, scans, topics, clock>>

\* The error handler: roll back, deliver again, after DeliveryAttempts recover.
FailAttempt(c) ==
    /\ EndTransaction(c)
    /\ \/ /\ attempt[c] < DeliveryAttempts
          /\ attempt' = [attempt EXCEPT ![c] = @ + 1]
          /\ pc' = [pc EXCEPT ![c] = "check"]
       \/ /\ attempt[c] = DeliveryAttempts
          /\ pc' = [pc EXCEPT ![c] = "recover"]
          /\ UNCHANGED attempt
    /\ UNCHANGED <<rows, requests, seen, target, scans, topics, clock>>

\* The amount differs, or the status allows neither the effect nor a replay.
Reject(c) ==
    /\ pc[c] = "lock"
    /\ reservationLock[target[c]] = None
    /\ ~ToIssue(target[c]) /\ ~ToCancel(target[c]) /\ ~AlreadyDone(target[c])
    /\ FailAttempt(c)

\* The database fails in the middle of an attempt.
DeliveryFails(c) ==
    /\ pc[c] \in {"check", "lock", "issue", "reservationLocked", "eventLocked"}
    /\ FailAttempt(c)

\* The recoverer has published to the dead letter topic; the offset is committed.
DeadLetter(c) ==
    /\ pc[c] = "recover"
    /\ dlt' = dlt \cup {target[c]}
    /\ unacked' = unacked \ {target[c]}
    /\ pc' = [pc EXCEPT ![c] = "idle"]
    /\ target' = [target EXCEPT ![c] = None]
    /\ UNCHANGED <<rows, locks, requests, seen, scans, attempt, result, clock>>

\* The listener has returned: the offset is committed, after the transaction.
Ack(c) ==
    /\ pc[c] = "ack"
    /\ unacked' = unacked \ {target[c]}
    /\ pc' = [pc EXCEPT ![c] = "idle"]
    /\ target' = [target EXCEPT ![c] = None]
    /\ UNCHANGED <<rows, locks, requests, seen, scans, attempt, result, dlt, clock>>

\* Mutant: enable.auto.commit, the offset is committed while the record is processed.
CrashAfterAutoCommit(c) ==
    /\ pc[c] # "idle"
    /\ EndTransaction(c)
    /\ unacked' = unacked \ {target[c]}
    /\ pc' = [pc EXCEPT ![c] = "idle"]
    /\ target' = [target EXCEPT ![c] = None]
    /\ UNCHANGED <<rows, requests, seen, scans, attempt, result, dlt, clock>>

\* The instance stops, loses its partition, or cannot publish to the dead letter
\* topic: the record will be delivered again, its attempts counted from one.
CrashConsumer(c) ==
    /\ pc[c] # "idle"
    /\ EndTransaction(c)
    /\ pc' = [pc EXCEPT ![c] = "idle"]
    /\ target' = [target EXCEPT ![c] = None]
    /\ UNCHANGED <<rows, requests, seen, scans, attempt, topics, clock>>

-----------------------------------------------------------------------------
(* Environment.                                                            *)

\* payment-service decides once per reservation, from its SeatReserved event.
PublishResult(r) ==
    /\ status[r] # "NONE"
    /\ result[r] = None
    /\ \E m \in Decisions : result' = [result EXCEPT ![r] = m]
    /\ unacked' = unacked \cup {r}
    /\ UNCHANGED <<rows, locks, requests, seen, pc, target, scans, attempt, dlt, clock>>

\* Its relay may send the same event twice.
RepublishResult(r) ==
    /\ result[r] # None
    /\ unacked' = unacked \cup {r}
    /\ UNCHANGED <<rows, locks, requests, seen, pc, target, scans, attempt, result, dlt, clock>>

Tick ==
    /\ clock < MaxTime \/ \E r \in Reservations : status[r] = "PENDING" /\ clock < expiresAt[r]
    /\ clock' = clock + 1
    /\ UNCHANGED <<rows, locks, requests, seen, pc, target, scans, attempt, topics>>

-----------------------------------------------------------------------------
RequestStep(r) == OpenReservation(r) \/ SoldOut(r) \/ CommitReservation(r) \/ LoseRace(r)
SchedulerStep(s) ==
    Scan(s) \/ BeginExpire(s) \/ SkipDue(s) \/ LockEvent(s) \/ CommitExpire(s)
ConsumerStep(c) ==
    \/ CheckProcessed(c) \/ BeginResult(c) \/ RecordOnly(c) \/ IssueTicket(c)
    \/ LockEvent(c) \/ Compensate(c) \/ Reject(c) \/ DeadLetter(c) \/ Ack(c)

\* Crashes and failures of the database or of the broker.
Failure ==
    \/ \E r \in Reservations : AbandonRequest(r)
    \/ \E s \in Schedulers : ExpireFails(s) \/ CrashScheduler(s)
    \/ \E c \in Consumers : DeliveryFails(c) \/ CrashConsumer(c)

\* Everything that happens when nothing fails.
Working ==
    \/ \E r \in Reservations : RequestStep(r) \/ PublishResult(r) \/ RepublishResult(r)
    \/ \E s \in Schedulers : SchedulerStep(s)
    \/ \E c \in Consumers : ConsumerStep(c) \/ \E r \in Reservations : Poll(c, r)
    \/ Tick

Next == Working \/ Failure

Spec == Init /\ [][Next]_vars

-----------------------------------------------------------------------------
(* Safety.                                                                 *)

Sale == INSTANCE TicketSale

\* Whatever the interleaving of optimistic requests, pessimistic expirations and
\* compensations, reservations and places change only as if each operation were
\* atomic: no lost update of the stock, one end per reservation, one release.
ImplementsTicketSale == Sale!SaleSpec

\* The free places of an event and those its live reservations hold add up to its
\* capacity (Event.reserve, Event.release and all their callers).
SeatsConserved == Sale!SeatsConserved

\* A worker that holds a row lock works on current data: the reservation it locked
\* is still PENDING and the event row it read has not moved. So the version check
\* of expire and of processPaymentFailed cannot fail, although reserve ignores
\* their locks when it reads.
HoldsCurrentRows(w) ==
    LET r == target[w] IN
    /\ pc[w] \in {"issue", "reservationLocked", "eventLocked"} =>
          reservationLock[r] = w /\ status[r] = "PENDING"
    /\ pc[w] = "eventLocked" =>
          eventLock[EventOf[r]] = w /\ seen[w] = ReadEvent(EventOf[r])
LockedRowsAreCurrent == \A w \in Lockers : HoldsCurrentRows(w)

\* Row locks cannot deadlock, nor outlive their transaction. Who holds a reservation is
\* in a transaction over it, and waits for its event row at most; who holds an event row
\* waits for nothing, and the places it gives back fit into the capacity, so
\* Event.release does not throw.
LockHoldersFinish ==
    /\ \A r \in Reservations : reservationLock[r] # None =>
          LET w == reservationLock[r] IN
          target[w] = r /\ pc[w] \in {"issue", "reservationLocked", "eventLocked"}
    /\ \A e \in Events : eventLock[e] # None =>
          LET w == eventLock[e] IN
          /\ pc[w] = "eventLocked" /\ EventOf[target[w]] = e
          /\ seen[w].availableSeats + Quantity[target[w]] <= TotalSeats[e]

\* The version column tells the truth about the stock: a request that finds the
\* version it has read also finds the number of places it has read.
VersionGuardsStock ==
    \A r \in Reservations : request[r] = "opened" =>
        LET e == EventOf[r] IN
        /\ seen[r].version <= version[e]
        /\ seen[r].version = version[e] => seen[r].availableSeats = availableSeats[e]

\* What the outbox says of a reservation that is in status s.
Story(s) ==
    CASE s = "NONE" -> <<>>
      [] s = "PENDING" -> <<"SeatReserved">>
      [] s = "TICKET_ISSUED" -> <<"SeatReserved", "TicketIssued">>
      [] s = "EXPIRED" -> <<"SeatReserved", "ReservationExpired", "SeatReleased">>
      [] s = "CANCELLED" -> <<"SeatReserved", "SeatReleased">>

\* The events recorded for a reservation tell its status exactly, in order: no
\* change without its event, no event twice, even when the same result is
\* processed by two consumers that both found no marker.
OutboxTellsStatus == \A r \in Reservations : outbox[r] = Story(status[r])

\* The marker of a result is there only with its effect: a ticket for a payment,
\* no reservation any more for a refusal. And neither a ticket nor a cancellation is
\* there without the marker, so none is without a result over the right amount.
MarkersMatchEffects ==
    /\ \A r \in processed :
        /\ result[r] # None
        /\ result[r].amountMatches
        /\ status[r] \in IF result[r].type = "PaymentReceived" THEN {"TICKET_ISSUED"}
                                                               ELSE {"CANCELLED", "EXPIRED"}
    /\ \A r \in Reservations : status[r] \in {"TICKET_ISSUED", "CANCELLED"} => r \in processed

\* A published result is still to be delivered, or took effect, or is in the dead
\* letter topic: crashes between the commit and the acknowledgement lose nothing.
ResultNeverLost ==
    \A r \in Reservations : result[r] # None => r \in unacked \cup processed \cup dlt

\* Optimistic attempts are lost to commits only: at attempt n of a request the event row
\* has been committed at least n - 1 times since its first attempt, so a request answered
\* 409 for conflicts has seen as many others get through.
ConflictsComeFromCommits ==
    \A r \in Reservations : tries[r] <= version[EventOf[r]] - since[r] + 1

\* A reservation expires only when its deadline has passed on the clock, though
\* the scheduler compares with the instant of a scan that may be long gone.
NeverExpiresEarly ==
    [][\A r \in Reservations :
        status[r] # "EXPIRED" /\ status'[r] = "EXPIRED" => expiresAt[r] <= clock]_vars

-----------------------------------------------------------------------------
(* Liveness. Postgres grants row locks in the order they are asked for, so *)
(* a worker whose lock is free again and again gets it (strong fairness);  *)
(* Kafka serves every partition.  Nobody has to post a request, and no     *)
(* progress is promised while crashes and failures go on without end.      *)

Fairness ==
    /\ WF_vars(Tick)
    /\ \A r \in Reservations :
        /\ SF_vars(request[r] # "new" /\ RequestStep(r))
        /\ SF_vars(\E c \in Consumers : Poll(c, r))
    /\ \A s \in Schedulers : SF_vars(SchedulerStep(s))
    /\ \A c \in Consumers : SF_vars(ConsumerStep(c))

\* From some moment on every step is one of a working system. (A step of Failure may
\* have the effect of a working step, as a crash after the last attempt has: so not
\* "no step of Failure", which would also forbid the working step.)
FailuresCease == <>[][Working]_vars

FairSpec == Spec /\ Fairness /\ FailuresCease

\* A reservation that nobody pays is always ended by the scheduler, and its places
\* are for sale again.
PendingEnds == \A r \in Reservations : status[r] = "PENDING" ~> status[r] # "PENDING"

\* Every published result takes effect or reaches the dead letter topic.
ResultsSettle == \A r \in Reservations : result[r] # None ~> r \in processed \cup dlt

\* A request that has read the stock is answered: it waits for no lock for ever.
RequestsAnswered ==
    \A r \in Reservations : request[r] = "opened" ~> request[r] \in {"accepted", "refused"}
=============================================================================
