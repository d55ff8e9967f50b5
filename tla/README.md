# TickRush in TLA+

TickRush sells places for events. A customer reserves places, pays, and gets a
ticket; a reservation nobody pays expires after two minutes and its places are
sold again. The work is spread over three services that only share Kafka topics.
This directory holds a formal model of that work, the TLC configurations that
check it on small instances, and theorems about it whose proofs TLAPS checks.

Paths below are relative to `src/`; `B` stands for
`booking-service/src/main/java/fr/esgi/tickrush/booking`, `P` for
`payment-service/src`.

## 1. Inventory

### Components, their state and their operations

| component | state | operations | model |
|---|---|---|---|
| booking domain (`B/domain/Event`, `Reservation`) | stock and version of an event; status and deadline of a reservation | `reserve`, `release`, `issueTicket`, `cancelAfterPaymentFailure`, `expire` | `TicketSale`, `BookingService` |
| booking requests (`B/domain/ReservationService`, `B/web/ReservationController`) | a copy of the event row during a transaction, the number of the attempt | `POST /reservations` | `BookingService` |
| booking expiration (`B/domain/ReservationExpirationScheduler`, `...Processor`) | the list of due reservations, the instant of the scan, row locks | the periodic scan, `expire` | `BookingService` |
| booking consumer (`B/messaging/PaymentEventsListener`, `PaymentEventProcessor`, `B/config/KafkaErrorHandlerConfig`) | `processed_events`, the attempt, the offset | `PaymentReceived`, `PaymentFailed`, retries, dead letters | `BookingService` |
| booking outbox (`B/messaging/BookingOutboxRecorder`, `OutboxRelay`, `OutboxRelayScheduler`) | table `outbox`, `published_at` | record before commit; relay | `BookingService` (record), `EventFeed`, `OutboxRelay` |
| payment consumer and payments (`P/messaging/kafka-pipeline.service.ts`, `payment-outbox.writer.ts`, `P/payments/payments.service.ts`) | tables `payments`, `outbox`; attempts, offset | `SeatReserved` -> payment and outbox row; DLQ | `PaymentOnce`, `PaymentService` |
| payment HTTP (`P/payments/payments.controller.ts`) | table `payments` | `POST /payments`, status | `PaymentService` |
| payment relay (`P/messaging/payment-outbox-relay.service.ts`) | table `outbox`; timer, `stopped`, `connected` | `publishNext`; the poll around it, stop, start | `PaymentRelay`, `PaymentRelayLoop` |
| records between the services (`P/messaging/event-envelope.ts`, the listeners' and the worker's checks) | none of their own | what each side writes and accepts | `Saga` |
| notification worker (`notification-service/app/kafka_worker.py`, `main.py`) | offset, attempt, mails sent | `TicketIssued`, `ReservationExpired`, DLT | `NotificationWorker` |
| circuit breaker (`B/domain/PaymentGateway`, `B/config/HttpClientsConfig`) | window of calls of the resilience4j library | payment status, fallback | `PaymentBreaker` |
| demonstration console (`frontend/src/components/full-scenario.tsx`) | the step `run` is at, what it has read | two scenarios | `Console` |
| startup (`B/config/DataSeeder`, `ReservationStatusConstraintMigration`) | event rows, a CHECK constraint | seed, migrate | only as `Init` |
| other panels of the frontend, manifests, monitoring, scripts, tracing | none that matters | | not modelled |

### Interactions

```
 HTTP POST /reservations                      (Postgres of booking)
        |                 expiration scheduler      outbox rows
        v                        |                      |
   booking-service  <------------+----------------> booking relay
        ^                                               |
        | payment.received / payment.rejected           | booking.seat-reserved
        |                                               v
   payment relay <- outbox rows <------------- payment-service <- HTTP POST /payments
                                                        
   booking relay -- booking.ticket-issued, booking.reservation-expired --> notification
```

Within booking-service everything meets in the rows of Postgres, at READ
COMMITTED: requests change the stock under an optimistic lock (the `@Version`
column), expirations and compensations under `SELECT ... FOR UPDATE`, and the two
kinds of writers do not know of each other. Between services every message is
delivered at least once, keyed by the reservation.

### What is hard

Concurrency of optimistic and pessimistic transactions on one row; a payment result
and an expiration that meet; markers read before the lock that protects them; an
instance that stops between the commit of an effect and the commit of an offset; two
instances at the same time (the manifests ask for one replica and a rolling
update); retry budgets (8 attempts for a request, 3 for a record) that end in a
refusal or in a dead letter topic; relays that publish twice; a deadline that is
compared with an instant of the past. `PROJECT.json` lists each hazard at its line,
with the properties that cover it.

### What makes each component correct

- Domain: places are conserved; a reservation ends once, in one way.
- Requests: no lost update; refused for conflicts only when others got through;
  every request is answered.
- Expiration: never before the deadline; every unpaid reservation ends; nothing
  written on the strength of stale rows.
- Consumer: a result has its effect once, whatever duplicates and crashes; a marker
  only with its effect, and no effect without it; row locks end with their transaction and
  nobody waits in a circle; no published result disappears.
- Outbox: exactly the events of the committed changes, in their order.
- Payment-service: one payment per reservation, one result event per
  payment, whichever of HTTP and Kafka comes first; every client is shown that payment, its
  creator with the amount as sent; no announced reservation is forgotten.
- Relays: a row marked published has been published; first publications
  of one reservation in row order (booking); one instance sends at a time (payment);
  every row is published in the end.
- Notification: an offset is committed only after a mail or a dead letter; nothing
  overtakes; a mail is repeated only after a failure; every record settles.
- Records: no consumer refuses what its producer writes, but for four known reasons;
  a ticket is paid in full; money taken for a reservation ends in a ticket or in a dead letter.
- Circuit breaker: opens for failures of payment-service only, is never half open without
  permission or call, and closes after an outage.
- Console: a run ends, and does not report an error of the stock that is none.

## 2. Modules

`TicketSale` is the abstract specification: two variables (`status`,
`availableSeats`) and three atomic operations, `Reserve`, `Issue` and `GiveBack`. It
says what the entities `Event` and `Reservation` promise when every transaction
happens at once.

`BookingService` is the service as it runs, one action per step between which
another transaction can act. Its variables are

| variable | in the code |
|---|---|
| `availableSeats`, `version` | the columns of table `events` |
| `status`, `expiresAt` | the columns of table `reservations` |
| `processed` | table `processed_events` (a result is named by its reservation: payment-service answers once per reservation, under one event id) |
| `outbox[r]` | the rows of table `outbox` whose aggregate is `r`, in the order of their ids |
| `eventLock`, `reservationLock` | row locks of `findByIdForUpdate`, held until the end of the transaction |
| `request`, `tries`, `seen` | a `POST /reservations`: where it is, its attempt, the event row it has read (`seen` is also the copy of a worker) |
| `since` | history: the version of the event at the request's first attempt |
| `pc`, `target`, `due`, `scanTime`, `attempt` | the call stack of a scheduler or a consumer |
| `result`, `unacked`, `dlt` | the payment results in Kafka, those whose offset is not committed, the dead letter topic |
| `clock` | wall clock |

and its actions

| actions | code |
|---|---|
| `OpenReservation`, `SoldOut`, `CommitReservation`, `LoseRace`, `AbandonRequest` | `ReservationService.reserve`: read and decide; 409; commit; version conflict and retry; crash |
| `Scan`, `BeginExpire`, `SkipDue`, `LockEvent`, `CommitExpire`, `ExpireFails`, `CrashScheduler` | `expirePendingReservations` and `ReservationExpirationProcessor.expire` |
| `Poll`, `CheckProcessed`, `BeginResult`, `RecordOnly`, `IssueTicket`, `LockEvent`, `Compensate`, `Reject`, `DeliveryFails`, `DeadLetter`, `Ack`, `CrashConsumer` | `PaymentEventsListener`, `PaymentEventProcessor`, the error handler and `ack-mode: record` |
| `PublishResult`, `RepublishResult`, `Tick` | the environment: payment-service and time |

A transaction is split where it reads without a lock and where it waits for one. Its
writes become visible together at the commit, so the commit is one action and
writes rows, marker and outbox at once; a rollback (`ExpireFails`, `FailAttempt`,
crashes) only frees the locks. `LockReservation` takes the lock and reads the row in
the same step, as `FOR UPDATE` does. `CommitReservation` waits for `eventLock`
because the UPDATE of a request, which asks for no lock when it reads, does wait
when it writes.

`EventFeed` is what a consumer of booking-service's topics may rely on: an event is
delivered only if it was recorded, and for the first time only after the events recorded
before it for its reservation.

`OutboxRelay` is the relay that has to keep this promise. `state[i]` is the life of row
`i` of table `outbox` (its insert, the end of its transaction, `published_at`), `rowLock` the lock
of `findByIdForUpdate`, `batch[w]` what is left of the list `pendingIds` in instance `w`, `pc[w]`
where its `publish` is, `buffer[w][i]` how many records of the row its Kafka producer has
not got rid of, `delivered` what Kafka has.

| actions | code |
|---|---|
| `Insert`, `Commit`, `Rollback` | the business transactions, an environment here: identity values come in order, commits in any order, but the rows of one reservation are written under its lock (`BookingService`) |
| `Scan` | `findPendingIds`, the 50 smallest ids |
| `Skip`, `Send`, `Mark` | `publish`: found published, record handed to the producer, acknowledged and committed |
| `GiveUp` | `send-timeout-ms`, a refusal by Kafka or a failed commit, and the `break` of `relayPending` |
| `Take`, `Drop` | Kafka takes a record, the producer drops it after `delivery.timeout.ms` (10 s against 5 s of the relay: a record outlives the transaction that waited for it) |
| `Crash` | the instance stops and its producer's buffer with it |

`PaymentOnce` is what booking-service and the clients may rely on in payment-service: the
payment of a reservation is decided once, and booking is told that decision, once.

`PaymentService` is payment-service with its two entrances. `payment[r]` is the row of table
`payments` (`reservationId` is unique), `outbox[r]` the row of table `outbox` (its `eventId` is
the id of the payment, so there is one per payment), `topic` and `dlq` the records of
`booking.seat-reserved` and of its dead letter queue, `pc`, `record`, `attempt`, `late` and
`done` the call of `eachMessage` of an instance and the offsets it has not committed, `post`,
`offer` and `answer` a client of `POST /payments`; `post` also keeps whether it was told 201
(`"created"`) or 200 (`"existing"`). `faulted`, `lateRows` and `announced` are history, for the properties.
The column `amount` is `numeric(12,2)` and the DTO sets no limit to the decimals: `Row(entity)` is
what the table holds of an entity, with the amount rounded (`Stored`), while `save()` returns the
entity as it was, so a creator is shown the amount it has sent.

| actions | code |
|---|---|
| `Poll`, `AttemptFails` (in `LoseRace`, `Fault`), `DeadLetter`, `DeadLetterFails` | `processWithRetry`: the attempts counted by `x-retry-count` and by the loop, then `publishToDlq` |
| `Check` | `handleSeatReserved`: is the deadline past? Asked before the transaction begins |
| `Read`, `Create`, `LookUp`, `Insert`, `LoseRace` | the transaction of `authorizeAndEnqueue`: payment found or not; payment and result; result found or not; result; unique constraint |
| `PostRead`, `PostCreate`, `PostLose`, `PostFails` | `PaymentsController.create` and `authorize` without a transaction |
| `Ack`, `Crash`, `Announce`, `Replay`, `Tick` | kafkajs, a stop or a lost partition (also a `heartbeat` that throws), booking-service's relay, an operator, time |

`PaymentRelay` is `publishNext`. Its query has a lock and no limit, so Postgres locks every
pending row in the order of the ids, and the transaction keeps them while Kafka answers:
`Query` takes the snapshot, `LockNext` locks one row after the other, waiting for those
locked elsewhere and dropping those published meanwhile, `Send`, `Take` and `Mark` publish the
first one, `GiveUp` is any error (or a stop), after which a record may still arrive or be lost (`Lose`).

`PaymentRelayLoop` is the process around it: `Fire` is the timer, `Connect` is `ensureConnected`,
`Publish` one step of `publishNext` within a batch, `Full`, `Nothing` and `PublishFails` the three ends of a
poll, each of which sets the timer again unless `onModuleDestroy` (`Stop`) has begun; a stop
does not end the poll in progress, it closes the producer under it. `Exit` and `Crash` end the process and
`Start` is `onModuleInit` of the next one.

`NotificationWorker` is `kafka_worker.py`. `owner`, `position` and `committed` are the consumer group's
view of a partition, `pc`, `record` and `attempt` the thread of a worker, `mailed` and `letters` what
customers and the dead letter topics have, `buffered` the dead letters that `flush` has given up
on; `again` and `troubled` are history.

| actions | code |
|---|---|
| `Poll`, `Handle`, `HandleFails`, `Hang` | `_run` and the handler: a mail is sent, refused, sent without an answer, or blocks for ever (`smtplib.SMTP` has no timeout) |
| `Commit`, `CommitFails` | the synchronous commit, inside the `try` of the handler |
| `DeadLetter`, `DeadLetterFails`, `Arrive` | `produce` and `flush(10)`; a letter given up on may arrive later |
| `Seek`, `SeekRaises` | back to the record; on a partition that is lost the exception ends the thread |
| `Assign`, `Revoke`, `Crash`, `Start`, `CalmDown` | the group, `lifespan` and Kubernetes, the end of failures |

`Saga` puts the three services together at the grain of their transactions: booking is `TicketSale`, payment
is `PaymentOnce` (an instance of it), and the detailed modules show that the services implement these two. What
`Saga` adds is the content of the records: `SeatReserved`, `PaymentResult`, `TicketIssued` and `ReservationExpired` are
what producers write; `PaymentAccepts`, `ListenerAccepts` with `AmountMatches`, and `NotificationAccepts` are what
consumers check. Every committed event can be delivered at any later time, again too (`EventFeed`), so
a record is read off the state committed with it; `handled` keeps which records a consumer has gone past
(`Passes`), for only those Kafka may no longer deliver. `SetAside` is a dead letter, because the consumer refuses
the record (`refused`) or an outage has lasted longer than its attempts (`failure`). `PayDirect` is `POST /payments`:
any amount, for any id, also one booking-service never gave; `Cents` is the rounding of the column. A customer
reference is its length and whether a mail can be addressed to it (`Mailable`).

`PaymentBreaker` is `GET /reservations/{id}/payment-status`: the circuit breaker of resilience4j with the settings of
`application.yml` (`Count`, `Acquire`), the call, its answer or timeout, the fallback. `Console` is `run` of
`full-scenario.tsx`, one action between two calls it awaits, as a client of a sale that goes on
(`TicketSale`) and of the breaker; `FetchRejected` is a call that `fetch` rejects.

`TicketSaleProofs`, `BookingServiceProofs`, `OutboxRelayProofs`, `PaymentServiceProofs`, `PaymentRelayProofs`,
`NotificationWorkerProofs`, `SagaProofs` and `ConsoleProofs` hold the theorems. The `MC*` modules give the constants their values for TLC. The definitions
commented `Mutant:` are wrong on purpose: each is what a plausible mistake would
make of the definition after it, and lets a property be tried against that mistake.

## 3. Runs

| run | instance | question |
|---|---|---|
| `booking_races` | 2 requests (1 and 2 places) for an event of 2; 1 scheduler, 1 consumer, all kinds of results, crashes, failures | does the service implement `TicketSale`? does anything expire early? can every holder of a row lock finish? |
| `booking_stock` | 3 requests (1, 1, 2 places) for an event of 3; 1 scheduler, no payment | conservation and the version column, with several optimistic writers and a pessimistic one; is every request answered? |
| `booking_rollout` | 1 reservation; 2 schedulers and 2 consumers (a rolling update) | the copies of lock holders; outbox, marker, status and Kafka agree under duplicates and zombies; does the reservation end and every result settle? |
| `relay_two` | 2 relays, 3 rows of 2 reservations, batches of 2 | is every marked row in Kafka? does the relay implement `EventFeed`? is every committed row delivered and marked? |
| `relay_one` | 1 relay, 4 rows of 2 reservations, batches of 2 | can an old event of a reservation come again after a newer one? |
| `payment_races` | 1 reservation, 2 instances, 2 clients, 3 amounts of which one is rounded to another, 3 attempts | one decision, told once, shown to every client (its creator: before the rounding), never forgotten? can races alone dead-letter a record? |
| `payment_live` | the same with 1 client, 2 amounts | does every announced reservation get a result or a dead letter? |
| `payment_late` | the same with 1 client, 2 amounts | is the result recorded by a late call always a refusal? No: see section 6 |
| `payment_relay` | 2 processes, 2 rows, batches of 1 | does one transaction send at a time? can they wait for each other in a circle? is every marked result in Kafka, and every result marked in the end? |
| `notification` | 2 workers, a partition with a good, an unreadable and an unknown record, 2 attempts | does an offset pass a record that nobody got? does anything overtake? what explains a second mail? does every record settle? |
| `saga` | 3 requests (1 and 3 places of the concert, below and above the threshold, the second with a reference that is no address; one with a blank reference, never booked, but its id may be paid), direct payments of 0, 49.896 and 149.70, outages of every topic | is a ticket paid in full? is a decision ever forgotten? which records are refused? where does money end? |
| `console` | 2 scenarios (1 and 3 places of 3), 2 callers, a window of 3 calls, 2 of them enough, 2 in half-open | is the stock step right? does a run end? when does the circuit open, can it stay half open for ever, and does it close? |

Bounds. Attempts of booking are 2 instead of 8 and 3 (1 where no request or no result competes): with two attempts
there is a first one, a retry and an exhausted budget, which are the cases the code
tells apart. `Ttl` is 1 and the clock stops at `MaxTime` unless a reservation is
waiting for its deadline: an instant before, at and after the deadline of every
reservation occur, and so does a scan that is older than both. Two requests are
enough for a lost update, a third makes conflicts happen twice to the same request.
Two consumers and two schedulers are what a rolling update can bring together; a wrong amount is
rejected whatever the type of the result, so `booking_rollout` has one such result for both types.
Batches of 2 with 3 or 4
rows make a scan leave rows behind, and let rows commit below ids that a relay has
already published. A producer keeps at most `MaxBuffered` records of one row: 2 is one that
was given up and the one sent again. In payment-service the attempts are the real 3, because the
question is whether 3 are enough; reservations do not interact, so one is enough, and a second
client makes a race that no consumer takes part in. The clock has an instant before and one at
the deadline. The record of a reservation is in `topic` once: delivering it again is what
`Announce` does after its offset is committed, and what a crash does before. `payment_races` is
symmetric in instances and clients. Two rows in `payment_relay` let one appear, with
any id, while the other is being published; a batch of 1 makes a poll full (`Full`) while a row is
left, so that the next timer is needed to publish it, as it is after a poll that has failed (mutant
`PublishFailsForGood`). Three rows with batches of 2 would show the same and take too long; more rows only
lengthen the list of locks, which `SendsAlone` covers for any number. In `notification` three records are a record before
and one after each that makes trouble. In `saga` reservations meet only in the stock of an event: two of
them on one event, whose places are not enough for both, and one that is refused at the door; prices and threshold
are those of `DataSeeder` and of the default configuration, in cents. What clients send is in tenths of a cent, so
that 49.896 is rounded to the price. References of one or two characters are in the theorems only: for the model
they take the same way as the one that is no address. In `console` the
window and the number of polls are cut from 10 and 30: the breaker tells apart a window that is
not yet filled enough, filled, and sliding, which 3 and 2 give; two calls in half-open are the real number.

Fairness. The clock advances. A request that has begun, a scheduler and a consumer
that can act again and again do act (strong fairness: Postgres grants a row lock in
the order of the requests for it; Kafka serves every partition, the task scheduler
runs with a fixed delay). Nobody has to send a request. Failures and crashes are
possible at any time but do not go on for ever (`FailuresCease`): with a database
that is always down no answer can be promised, and the code promises none. In the relay
the scheduled task acts again and again (strong fairness, because another instance may
hold the lock of the row for a while) and Kafka takes the records it is given; a row that
Kafka refuses every time blocks all rows after it, which `FailuresCease` excludes. In payment-service an instance that can
handle a record again and again does (kafkajs fetches what is not committed), a client that has
read waits for its insert, and nobody has to send a request or replay a dead letter. In `PaymentRelayLoop`
timers fire and steps that are possible again and again happen (strong fairness, because another process
may hold the next row for a while), a stopped process ends, and Kubernetes starts another. In `NotificationWorker`
a thread goes on, Kubernetes starts what has crashed, the group gives each partition to a member that polls and
takes it from one that hangs; a thread that hangs or has ended is never helped, because nothing in the code
or in the manifests does it, and `EveryRecordSettles` names that case. `calm` is the moment failures
cease. In `Saga` deadlines pass, the scheduler scans, and each consumer handles a record that
it has not gone past. In `Console` the page runs, calls end (the timeouts of `HttpClientsConfig`), other clients go on
asking for statuses, and ten seconds pass; nothing makes payment-service come back.

## 4. Theorems

All of them hold for every value of the constants, under a named assumption of the
module (`BookingAssumption`, for instance: finitely many reservations, each for 1 to
`MaxQuantity` places; `None` is no worker; a scheduler is not a consumer), which TLC evaluates
in each run of the module. For each component that means any number of events, reservations,
instances, clients and attempts, every TTL, every price and every stock.

### Booking

1. `SaleConserves`: `SeatsConserved` is inductive in `TicketSale`. Held places are
   counted as pairs of a reservation and a number, so that the sum over reservations
   is the cardinality of one finite set and no induction is needed.
2. `SafetyInvariant`: the inductive invariant of `BookingService`. Types and
   `LockedRowsAreCurrent` are not inductive alone: a commit keeps the copy of a lock
   holder current only if no two workers hold the lock of one row (in the
   invariant, the lock names its holder) and if no request can write the row while it is
   locked; the stock cannot become negative only because a request whose version
   still matches has a copy that still matches (`VersionGuardsStock`).
   `TypeCorrect`, `LocksProtect` and `VersionsProtect` are its parts.
3. `Implements`: under that invariant each step of `BookingService` is a step of
   `TicketSale` or leaves its two variables alone. A commit of a request is a `Reserve` because the
   copy it decided on is the row; a commit of an expiration or a compensation is a
   `GiveBack` because its lock kept the status `PENDING`.
4. `Conservation`: (1) carried over by (3).
5. `ResultsInvariant`: the status of a reservation, its outbox rows, the marker and
   the place of its result in Kafka agree. Consequences: `OutboxIsFaithful`,
   `MarkersAreTrue` (marker and effect are there together: the marker without the effect would
   swallow a payment, the effect without the marker would be repeated or contradicted), `NoResultLost`.
6. `ConflictsAreCommits`: the version of an event counts commits, and each lost attempt
   has seen it move since the request's first attempt (`since`); commits before the request do not count.
7. `ExpiresInTime`: the instant of a scan is never in the future, so a reservation found due under its
   lock is due on the clock.
8. `LocksAreGivenBack`: the row locks of schedulers and consumers cannot deadlock and do not outlive their transaction.
   `LocksInv` is the strengthening: what a worker holds is the reservation it works on and the event
   of that reservation, and only at the steps that have locked them, so every end of a transaction,
   also a failure or a crash, frees all of it. A holder of an event row waits for nothing; a
   holder of a reservation row waits for that event row at most; hence no circle. The clause on the
   stock (what is given back fits into the capacity, so `Event.release` does not throw) is
   `Conservation` read at a pending reservation (`PlacesFitBack`).

### Relays and payments

9. `RelayInvariant`: the inductive invariant of `OutboxRelay`, for any rows, instances and
   batch size (`RelayAssumption`). It has a surprise for a reader of the code: the order
   of deliveries does not rest on the row locks, which only avoid duplicates.
   It rests on the ids: a batch has no gap below a row for its reservation (`BatchOK`, kept
   because rows of one reservation commit in the order of their ids, `IdsOK`) and the loop
   stops at the first row it cannot publish; what is in a producer is therefore ready to be
   delivered at any later time (`BufferOK`), also after its relay has given it up.
   `NothingMarkedIsLost` and `RelayImplementsFeed` follow.
10. `OneRelaySendsInOrder`: if there is one instance, duplicates keep the order too. During a rolling
   update they do not: a record given up by one instance can arrive after the other
   has published its row and the next one.

11. `PaymentInvariant`: the inductive invariant of `PaymentService` (`PaymentAssumption`): a
    result is a copy of its payment, what a call has found is still there, an announced
    reservation without result is somewhere, and at most one client has inserted the row of a reservation.
    `ClientsSeeOnePayment` (who has not created the payment is shown its row; the row is the rounding of what the one
    who has is shown), `NoReservationForgotten` and
    `ServiceImplementsOnce` (each step decides, tells, does both or neither) follow.
12. `RacesNeverDeadLetter`, for `MaxAttempts >= 3` and any number of instances and clients: rows
    are never deleted, so a call loses at most one race for the payment and one for the
    result, and its third attempt finds both. With two attempts the property is false
    (mutant `AttemptFailsEarly`).
13. `PaymentRelayInvariant`, for any rows and instances: the pending rows of a later snapshot
    include those of an earlier one, so what two open transactions want is nested
    (`ClaimsNested`). A transaction that sends has locked all it wanted; two of them would have
    locked the same row. `LoopIsRelay` shows that the process of `PaymentRelayLoop` only takes steps
    of `PaymentRelay`; hence `SendsAlone` and `MarkedResultsArrive` for the whole process.
14. `WaitsEnd`: no set of instances of the payment relay waits in a circle. Each locks its rows in the order of the
    ids, so all it holds is below all it still wants (`Ascending`). In a circle the member whose next row is the
    greatest would be waiting for a member that holds this row and wants a greater one. For infinitely many
    instances a greatest row exists because the ids in use are bounded at any time (`IdsBounded`); it is found
    with the least-number principle (`LeastNatural`, from the library's well-founded orders).
### Notification, saga and console

15. `WorkerInvHolds`: the inductive invariant of `NotificationWorker`, for any workers, partitions, records and
    attempts (`WorkerAssumption`). `CommittedIsSettled` and `SettledInOrder` support each other: a worker only
    reaches the commit of a record that is settled, and everything before the position of a partition's owner
    is settled or at work in that owner. A worker that has lost its partition may still mail its record, so
    order rests on the records before it having been settled when it was polled, not on who owns what.
    `NothingIsLost`, `NothingOvertakes`, `WorkerTypes` and `RepeatsAreExplained` are its consequences.
16. `SagaInvariant`: the inductive invariant of `Saga`, for any prices, quantities, references, threshold and
    direct payments (`SagaAssumption`). What crosses between services never changes again (a decision, a result
    told, an ended reservation), so what a consumer has checked stays true: `PaymentsMakeSense` says that a refusal
    has a reason and a result tells its payment, `BookedWasAccepted` that `SeatReserved` is made of an accepted
    request. With `SeatReservedIsAccepted`, `ResultIsAccepted` and `NoticeIsAccepted`, which compute what each
    consumer makes of each record, the refusals left are the four of `RefusalsHaveACause`.
    `EveryTicketIsPaid`, `EveryRefusalHasACause` and `SagaTypes` are its consequences.
17. `NoDecisionForgotten`: a decision of payment-service on a reservation has its ticket, has given the places back,
    or the record that says so has not been passed by its consumer, or is a dead letter. The step that could forget
    one is a consumer that goes on: `HandledHadEffect`, inductive with `SagaInv`, says that a record a consumer
    has gone past had its effect or is a dead letter (`PaidIsTold` adds that payment-service does not pass
    `SeatReserved` without telling its result). A payment for an id that booking-service never gave is excluded in the
    statement: it is stored and nothing follows it.
18. `SagaImplementsSale` and `SagaPaysOnce`: the composition of the services implements both abstract specifications it
    is built from, `TicketSale` (hence `SagaConserves`) and `PaymentOnce`. The second needs `SagaInv`: what booking is
    told is the payment's decision, also when a client has paid before the `SeatReserved` record came.
19. `ConsoleBreakerInv`: the accounts of the circuit breaker, for any window, threshold and number of callers.
    `PermitsAccounted`: in half-open, the outcomes counted and the calls on their way are at least the
    permissions given (calls let through before may add to them, which is why it is no equation). Hence
    `HalfOpenIsNeverStuck`. `NoFailureYet`: before the first outage the window holds successes only, so its failure
    rate is 0, which the threshold exceeds; hence `CircuitOpensForOutages`.
20. `ConsoleIsFair`: from `RunFollowsStock`, which says at each step of a run what the first read of the stock still
    tells about it; only trades between the two reads count as a disturbance. `ConsoleImplementsSale`: the console is one more client of the sale.

Only model-checked: the liveness properties (`PendingEnds`, `ResultsSettle`,
`RequestsAnswered`, `EveryRowPublished`, `ResultRecorded`, `EveryResultPublished`, `EveryRecordSettles`, `MoneyIsAccountedFor`,
`RunEnds`, `ClosesAgain`), which rest on fairness and are out of the prover's reach. Three of the theorems are the safety
half of such a property: `LocksAreGivenBack`, `WaitsEnd` and `HalfOpenIsNeverStuck` exclude, for every
instance, a state in which it could not come true any more (a circle of waits, a circuit nothing can end). Every invariant and action property that a passing run checks
is proved. The types of `BookingService`, `PaymentService` and `Saga` are proved only (`TypeCorrect`,
`PaymentTypeCorrect`, `SagaTypes`): the runs are spent on properties that say more.

## 5. Abstractions and omissions

- In `BookingService` amounts are reduced to "equal to the reservation's or not"; prices, amounts and
  customer references are in `Saga`. Names, ticket ids and dates are left out everywhere, for no property tells
  them apart; in `Saga` a customer reference is its length and whether a mail can be addressed to it, which is a
  fact of the reference and not of the day: a line break that `EmailMessage` refuses, an address `smtplib` refuses.
  Prices are literals of `DataSeeder` with two decimals, so prices, dues and rows are whole cents; what a client
  sends is rounded by the column (`Cents`, `Stored`). A number too large for `numeric(12,2)` is an insert that fails
  (`PostFails`) and changes nothing.
- A payment for an id that booking-service never gave is stored and leads nowhere: no `SeatReserved` will ask for its
  result, and neither service looks for such rows. `DecisionsAreFollowed` and `MoneyIsAccountedFor` are about
  reservations; the model has these payments (`PayDirect` of a reservation with status `NONE`).
- In `Saga` the effect of a record and the commit of its offset are one step; the crash between the two is in
  `BookingService`, `PaymentService` and `NotificationWorker`, and a record that is handled may come again here too.
- `OneSender` is about transactions that live. When Postgres drops the connection of one that awaits Kafka, its
  `send` may be outstanding beside a new sender: the model keeps that record (`inFlight`), which may arrive or be lost.
- `Saga` has one clock: "the deadline has passed" is the same fact for booking and payment. Services with
  clocks that differ behave as if one of them were slow to act, which is possible here too.
- In `Saga` a payment accepted for an expired reservation leads to a dead letter only if its result is recorded;
  whether outboxes and relays bring it to Kafka is the question of the other modules.
- A record that cannot be parsed or names an unknown reservation ends as a different amount
  does (every attempt fails, then the dead letter topic) and is not a case of its own.
- The status `PAID` is accepted by `issueTicket` for rows of an earlier version; no
  code sets it, no reachable state has it. Such a row would never expire.
- The retry of `expire` on version conflicts cannot happen: the row is
  locked when its version is read (`LockedRowsAreCurrent`, proved by `LocksProtect`).
- Topics, partitions, payloads and trace headers of the relay are left out: a producer may
  deliver the records of different rows in any order, which covers every layout of partitions.
- Validation errors and unknown events (400, 404) change nothing.
- The threshold and the failure rate of payment-service are a free choice between `RECEIVED` and
  `REJECTED`; a record that cannot be parsed is a `Fault` in every attempt. `x-retry-count` is
  only set by `publishToDlq`, so a record carries it when an operator puts it back.
- The flag `polling` of payment-service's relay never refuses a call, because only the timer calls
  `relayPending` and it is set again only after a poll; it has no variable.
- `POST /notifications/ticket-issued` sends one mail and keeps no state; the panels of the console beside the
  scenario runner send one request per click. Startup (`DataSeeder`, the migration of the constraint) is only the
  initial state: it runs once, and what listeners do before it has ended is not modelled.
- The breaker is the library's state machine as its documentation gives it, for the settings the
  repository uses; slow calls are not counted, since no setting asks for it.
- Rows of the payment outbox are independent (one per reservation); the order of their records in
  Kafka is not modelled.
- `PublishResult` is more general than payment-service: any decision at any moment after the
  reservation, so that late payments, refusals after an expiration and payments with
  another amount are all there.

## 6. Where the documentation and the code differ

`payment-service/README.md:31-33` says that a message handled after `expiresAt` is persisted
`REJECTED` and that no expired reservation is charged. `authorize` returns a payment that exists
before it looks at the reason for refusal, and `POST /payments` creates payments without knowing
a deadline. Run `payment_late` shows the shortest way: the deadline passes, a client pays, the
payment is `RECEIVED`, and the consumer, which has found the reservation expired, records
`PaymentReceived`. Booking-service, whose reservation has expired, then retries the result and
puts it in its dead letter topic.

Run `saga` shows others that no document states as a rule:

- booking-service accepts any `customerRef` that is not blank (`CreateReservationRequest`); notification-service wants
  three characters (`main.py:68`, `main.py:77`) and an address that `EmailMessage` and `smtplib` take
  (`main.py:82-89`). The mail of `docs/saga.md:26-27` is never sent to other customers; its record goes to
  the dead letter topic. `RefusalsHaveACause` lists these among the four reasons for which a consumer refuses what a
  producer wrote.
- `POST /payments` takes money for an id booking-service has never given; nothing gives it back (section 5).
- The client that creates a payment of 10.005 is shown 10.005, everybody else 10.01 (`AnswersAgree` says exactly that
  much; `payments.service.ts:47-56`, `payment.entity.ts:25-31`).

## 7. Plan

1. *Done.* `TicketSale`, `BookingService`, their runs and proofs.
2. *Done.* `EventFeed`, `OutboxRelay`, their runs and proofs.
3. *Done.* `PaymentOnce`, `PaymentService`, `PaymentRelay`, their runs and proofs.
4. *Done.* `NotificationWorker`, its run and proofs; `Saga`, its run and proofs; `PaymentBreaker`,
   `Console` and `PaymentRelayLoop` and their runs; `LoopIsRelay`.
5. *Done.* Theorems about `Console`, the locks of booking, the waits of the payment relay and the saga's refinements.
6. Startup: listeners and schedulers that run before `DataSeeder` and the migration have ended.
