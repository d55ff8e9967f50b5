------------------------ MODULE BookingServiceProofs ------------------------
(***************************************************************************)
(* Proofs about BookingService, for any number of reservations, events,    *)
(* instances and attempts.  SafetyInv is inductive: types, what a request  *)
(* has in hand, what a lock holder has read, what the version column says. *)
(* From it follow the invariants of its parts and that the service         *)
(* implements TicketSale, hence that places are conserved.  On top of it:  *)
(* nobody who holds a lock is stuck (LocksInv), and what the delivery of   *)
(* payment results promises, for any attempts, crashes and duplicates      *)
(* (ResultsInv).                                                           *)
(***************************************************************************)
EXTENDS BookingService, TLAPS, SequenceTheorems

-----------------------------------------------------------------------------
(* Who writes what: each group of variables is left alone by every step    *)
(* that is not named.                                                      *)

\* The committed rows change only in the commits of reserve, of an expiration and
\* of the processing of a result.
LEMMA RowsFrame ==
  [Next]_vars =>
    \/ UNCHANGED rows
    \/ \E r \in Reservations : CommitReservation(r)
    \/ \E s \in Schedulers : CommitExpire(s)
    \/ \E c \in Consumers : RecordOnly(c) \/ IssueTicket(c) \/ Compensate(c)
BY DEF vars, rows, Next, Working, Failure, RequestStep, SchedulerStep, ConsumerStep,
       OpenReservation, SoldOut, LoseRace, AbandonRequest, PublishResult,
       RepublishResult, Scan, BeginExpire, SkipDue, LockEvent, ExpireFails,
       CrashScheduler, Poll, CheckProcessed, BeginResult, Reject, DeliveryFails,
       FailAttempt, DeadLetter, Ack, CrashConsumer, Tick, LockReservation

\* Row locks are taken by findByIdForUpdate and freed by the end of a transaction.
LEMMA LocksFrame ==
  [Next]_vars =>
    \/ UNCHANGED locks
    \/ \E w \in Lockers : EndTransaction(w)
    \/ \E w \in Lockers : LockEvent(w)
    \/ \E s \in Schedulers : BeginExpire(s)
    \/ \E c \in Consumers : BeginResult(c)
BY DEF vars, locks, Next, Working, Failure, RequestStep, SchedulerStep, ConsumerStep,
       OpenReservation, SoldOut, CommitReservation, SaveReservation, LoseRace, AbandonRequest,
       PublishResult, RepublishResult, Scan, SkipDue, CommitExpire, ExpireFails,
       CrashScheduler, Poll, CheckProcessed, RecordOnly, IssueTicket, Compensate,
       Reject, DeliveryFails, FailAttempt, DeadLetter, Ack, CrashConsumer, Tick,
       Lockers

\* The state of the requests, and what a transaction has read of its event row,
\* change only in the steps of requests and under the lock of the event.
LEMMA RequestsFrame ==
  [Next]_vars =>
    \/ UNCHANGED <<requests, seen>>
    \/ \E r \in Reservations : RequestStep(r) \/ AbandonRequest(r)
    \/ \E w \in Lockers : LockEvent(w)
BY DEF vars, requests, Next, Working, Failure, SchedulerStep, ConsumerStep,
       PublishResult, RepublishResult, Scan, BeginExpire, SkipDue, CommitExpire,
       ExpireFails, CrashScheduler, Poll, CheckProcessed, BeginResult, RecordOnly,
       IssueTicket, Compensate, Reject, DeliveryFails, FailAttempt, DeadLetter, Ack,
       CrashConsumer, Tick, LockReservation, Lockers

\* The progress of schedulers and consumers changes only in their own steps.
LEMMA WorkersFrame ==
  [Next]_vars =>
    \/ UNCHANGED <<pc, target, scans, attempt>>
    \/ \E s \in Schedulers : SchedulerStep(s) \/ ExpireFails(s) \/ CrashScheduler(s)
    \/ \E c \in Consumers : ConsumerStep(c) \/ DeliveryFails(c) \/ CrashConsumer(c)
    \/ \E c \in Consumers, r \in Reservations : Poll(c, r)
BY DEF vars, scans, Next, Working, Failure, RequestStep, SchedulerStep, ConsumerStep,
       OpenReservation, SoldOut, CommitReservation, SaveReservation, LoseRace, AbandonRequest,
       PublishResult, RepublishResult, Tick

\* Results, offsets and dead letters change when payment-service publishes and when
\* a consumer commits an offset; the clock changes with Tick.
LEMMA TopicsFrame ==
  [Next]_vars =>
    \/ UNCHANGED <<topics, clock>>
    \/ \E r \in Reservations : PublishResult(r) \/ RepublishResult(r)
    \/ \E c \in Consumers : DeadLetter(c) \/ Ack(c)
    \/ Tick
BY DEF vars, topics, Next, Working, Failure, RequestStep, SchedulerStep, ConsumerStep,
       OpenReservation, SoldOut, CommitReservation, SaveReservation, LoseRace,
       AbandonRequest, Scan, BeginExpire, SkipDue, LockEvent, CommitExpire,
       ExpireFails, CrashScheduler,
       Poll, CheckProcessed, BeginResult, RecordOnly, IssueTicket, Compensate,
       Reject, DeliveryFails, FailAttempt, CrashConsumer, LockReservation

-----------------------------------------------------------------------------
(* The inductive invariant.                                                *)

\* A row is inserted by the commit of its request and never before; an open
\* reservation was made from a copy with enough places.
RequestInv ==
    \A r \in Reservations :
        /\ status[r] # "NONE" => request[r] = "accepted"
        /\ request[r] = "opened" => Quantity[r] <= seen[r].availableSeats

SafetyInv == TypeOK /\ RequestInv /\ LockedRowsAreCurrent /\ VersionGuardsStock

-----------------------------------------------------------------------------
(* Type correctness, one group of variables at a time.                     *)

\* Event.release keeps the types of the two columns it writes.
LEMMA ReleaseType ==
  ASSUME NEW w, NEW r \in Reservations, Release(w, r),
         availableSeats \in [Events -> Nat], version \in [Events -> Nat],
         seen[w].availableSeats \in Nat, seen[w].version \in Nat
  PROVE  availableSeats' \in [Events -> Nat] /\ version' \in [Events -> Nat]
<1>1. EventOf[r] \in Events /\ Quantity[r] \in Nat
  BY BookingAssumption
<1>2. QED
  BY <1>1 DEF Release

\* The rows keep their types: no commit writes a negative stock.
LEMMA RowsTypeStep ==
  ASSUME TypeOK, RequestInv, VersionGuardsStock, [Next]_vars
  PROVE  RowsTypeOK'
<1> USE BookingAssumption DEF TypeOK, RowsTypeOK, RequestsTypeOK, WorkersTypeOK, EventRow,
                              ReservationStatus, EventTypes, Lockers, Record
<1>1. ASSUME NEW r \in Reservations, CommitReservation(r)
      PROVE  RowsTypeOK'
  BY <1>1 DEF CommitReservation, SaveReservation, RequestInv, VersionGuardsStock
<1>2. ASSUME NEW s \in Schedulers, CommitExpire(s)
      PROVE  RowsTypeOK'
  <2>1. target[s] \in Reservations
    BY <1>2 DEF CommitExpire
  <2>a. /\ seen[s].availableSeats \in Nat /\ seen[s].version \in Nat
    BY <2>1
  <2>2. availableSeats' \in [Events -> Nat] /\ version' \in [Events -> Nat]
    BY <1>2, <2>1, <2>a, ReleaseType DEF CommitExpire
  <2>3. outbox' \in [Reservations -> Seq(EventTypes)]
    BY <1>2, <2>1 DEF CommitExpire
  <2>4. QED
    BY <1>2, <2>1, <2>2, <2>3 DEF CommitExpire
<1>3. ASSUME NEW c \in Consumers, RecordOnly(c)
      PROVE  RowsTypeOK'
  BY <1>3 DEF RecordOnly
<1>4. ASSUME NEW c \in Consumers, IssueTicket(c)
      PROVE  RowsTypeOK'
  BY <1>4 DEF IssueTicket
<1>5. ASSUME NEW c \in Consumers, Compensate(c)
      PROVE  RowsTypeOK'
  <2>1. target[c] \in Reservations
    BY <1>5 DEF Compensate
  <2>a. /\ seen[c].availableSeats \in Nat /\ seen[c].version \in Nat
    BY <2>1
  <2>2. availableSeats' \in [Events -> Nat] /\ version' \in [Events -> Nat]
    BY <1>5, <2>1, <2>a, ReleaseType DEF Compensate
  <2>3. outbox' \in [Reservations -> Seq(EventTypes)]
    BY <1>5, <2>1 DEF Compensate
  <2>4. QED
    BY <1>5, <2>1, <2>2, <2>3 DEF Compensate
<1>6. CASE UNCHANGED rows
  BY <1>6 DEF rows
<1>7. QED
  BY <1>1, <1>2, <1>3, <1>4, <1>5, <1>6, RowsFrame

\* The end of a transaction frees the locks of its worker and no other.
LEMMA Unlocking ==
  ASSUME LocksTypeOK, NEW w, EndTransaction(w)
  PROVE  /\ LocksTypeOK'
         /\ \A e \in Events :
               eventLock'[e] = IF eventLock[e] = w THEN None ELSE eventLock[e]
         /\ \A r \in Reservations :
               reservationLock'[r] =
                  IF reservationLock[r] = w THEN None ELSE reservationLock[r]
BY DEF LocksTypeOK, EndTransaction, Unlock

\* A lock is free or held by one worker.
LEMMA LocksTypeStep ==
  ASSUME TypeOK, [Next]_vars
  PROVE  LocksTypeOK'
<1> USE BookingAssumption DEF TypeOK, LocksTypeOK, WorkersTypeOK, Lockers
<1>1. ASSUME NEW w \in Lockers, EndTransaction(w)
      PROVE  LocksTypeOK'
  BY <1>1, Unlocking
<1>2. ASSUME NEW w \in Lockers, LockEvent(w)
      PROVE  LocksTypeOK'
  BY <1>2 DEF LockEvent
<1>3. ASSUME NEW s \in Schedulers, BeginExpire(s)
      PROVE  LocksTypeOK'
  BY <1>3 DEF BeginExpire, LockReservation
<1>4. ASSUME NEW c \in Consumers, BeginResult(c)
      PROVE  LocksTypeOK'
  BY <1>4 DEF BeginResult, LockReservation
<1>5. CASE UNCHANGED locks
  BY <1>5 DEF locks
<1>6. QED
  BY <1>1, <1>2, <1>3, <1>4, <1>5, LocksFrame

\* The number of attempts of a request stays within ReserveAttempts.
LEMMA RequestsTypeStep ==
  ASSUME TypeOK, [Next]_vars
  PROVE  RequestsTypeOK'
<1> USE DEF TypeOK, RequestsTypeOK
<1>1. ASSUME NEW r \in Reservations, OpenReservation(r)
      PROVE  RequestsTypeOK'
  <2>1. ReadEvent(EventOf[r]) \in EventRow /\ clock + Ttl \in Nat
    BY BookingAssumption DEF RowsTypeOK, TopicsTypeOK, EventRow, ReadEvent
  <2>2. version[EventOf[r]] \in Nat
    BY BookingAssumption DEF RowsTypeOK
  <2>3. QED
    BY <1>1, <2>1, <2>2 DEF OpenReservation
<1>2. ASSUME NEW r \in Reservations, SoldOut(r)
      PROVE  RequestsTypeOK'
  BY <1>2 DEF SoldOut
<1>3. ASSUME NEW r \in Reservations, CommitReservation(r)
      PROVE  RequestsTypeOK'
  BY <1>3 DEF CommitReservation, SaveReservation
<1>4. ASSUME NEW r \in Reservations, AbandonRequest(r)
      PROVE  RequestsTypeOK'
  BY <1>4 DEF AbandonRequest
<1>5. ASSUME NEW r \in Reservations, LoseRace(r)
      PROVE  RequestsTypeOK'
  <2>1. /\ expiresAt' = expiresAt /\ seen' = seen /\ since' = since
        /\ request' \in [Reservations -> {"new", "opened", "retry", "accepted", "refused"}]
    BY <1>5 DEF LoseRace, requests
  <2>2. tries' \in [Reservations -> 1..ReserveAttempts]
    BY <1>5, BookingAssumption DEF LoseRace
  <2>3. QED
    BY <2>1, <2>2
<1>6. ASSUME NEW w \in Lockers, LockEvent(w)
      PROVE  RequestsTypeOK'
  <2>1. ReadEvent(EventOf[target[w]]) \in EventRow
    BY <1>6, BookingAssumption DEF LockEvent, RowsTypeOK, WorkersTypeOK, EventRow, ReadEvent
  <2>2. QED
    BY <1>6, <2>1 DEF LockEvent, requests
<1>7. CASE UNCHANGED <<requests, seen>>
  BY <1>7 DEF requests
<1>8. QED
  BY <1>1, <1>2, <1>3, <1>4, <1>5, <1>6, <1>7, RequestsFrame DEF RequestStep

\* A busy worker has a target, and deliveries stay within DeliveryAttempts.
LEMMA WorkersTypeStep ==
  ASSUME TypeOK, [Next]_vars
  PROVE  WorkersTypeOK'
<1> USE BookingAssumption
    DEF TypeOK, WorkersTypeOK, WorkerStates, TopicsTypeOK, Lockers, scans
<1>1. ASSUME NEW s \in Schedulers, Scan(s)
      PROVE  WorkersTypeOK'
  BY <1>1 DEF Scan
<1>2. ASSUME NEW s \in Schedulers, BeginExpire(s)
      PROVE  WorkersTypeOK'
  BY <1>2 DEF BeginExpire, LockReservation
<1>3. ASSUME NEW s \in Schedulers, SkipDue(s)
      PROVE  WorkersTypeOK'
  BY <1>3 DEF SkipDue
<1>4. ASSUME NEW w \in Lockers, LockEvent(w)
      PROVE  WorkersTypeOK'
  BY <1>4 DEF LockEvent
<1>5. ASSUME NEW s \in Schedulers, CommitExpire(s)
      PROVE  WorkersTypeOK'
  BY <1>5 DEF CommitExpire
<1>6. ASSUME NEW s \in Schedulers, ExpireFails(s) \/ CrashScheduler(s)
      PROVE  WorkersTypeOK'
  BY <1>6 DEF ExpireFails, CrashScheduler
<1>7. ASSUME NEW c \in Consumers, NEW r \in Reservations, Poll(c, r)
      PROVE  WorkersTypeOK'
  BY <1>7 DEF Poll
<1>8. ASSUME NEW c \in Consumers, CheckProcessed(c)
      PROVE  WorkersTypeOK'
  BY <1>8 DEF CheckProcessed
<1>9. ASSUME NEW c \in Consumers, BeginResult(c)
      PROVE  WorkersTypeOK'
  BY <1>9 DEF BeginResult, LockReservation
<1>10. ASSUME NEW c \in Consumers, RecordOnly(c) \/ IssueTicket(c) \/ Compensate(c)
       PROVE  WorkersTypeOK'
  BY <1>10 DEF RecordOnly, IssueTicket, Compensate
<1>11. ASSUME NEW c \in Consumers, Reject(c) \/ DeliveryFails(c)
       PROVE  WorkersTypeOK'
  BY <1>11 DEF Reject, DeliveryFails, FailAttempt
<1>12. ASSUME NEW c \in Consumers, DeadLetter(c) \/ Ack(c) \/ CrashConsumer(c)
       PROVE  WorkersTypeOK'
  BY <1>12 DEF DeadLetter, Ack, CrashConsumer
<1>13. CASE UNCHANGED <<pc, target, scans, attempt>>
  BY <1>13
<1>14. QED
  BY <1>1, <1>2, <1>3, <1>4, <1>5, <1>6, <1>7, <1>8, <1>9, <1>10, <1>11, <1>12, <1>13,
     WorkersFrame DEF SchedulerStep, ConsumerStep

\* Results, offsets and dead letters belong to reservations.
LEMMA TopicsTypeStep ==
  ASSUME TypeOK, [Next]_vars
  PROVE  TopicsTypeOK'
<1> USE BookingAssumption DEF TypeOK, WorkersTypeOK, TopicsTypeOK, topics
<1>1. ASSUME NEW r \in Reservations, PublishResult(r) \/ RepublishResult(r)
      PROVE  TopicsTypeOK'
  BY <1>1 DEF PublishResult, RepublishResult
<1>2. ASSUME NEW c \in Consumers, DeadLetter(c) \/ Ack(c)
      PROVE  TopicsTypeOK'
  BY <1>2 DEF DeadLetter, Ack, Lockers
<1>3. CASE Tick
  BY <1>3 DEF Tick
<1>4. CASE UNCHANGED <<topics, clock>>
  BY <1>4
<1>5. QED
  BY <1>1, <1>2, <1>3, <1>4, TopicsFrame

-----------------------------------------------------------------------------
(* The other parts of the inductive invariant.                             *)

\* A request that is not accepted has inserted no row, and an open one has read
\* enough places.
LEMMA RequestInvStep ==
  ASSUME SafetyInv, [Next]_vars
  PROVE  RequestInv'
<1> USE DEF SafetyInv, TypeOK, RowsTypeOK, RequestsTypeOK, RequestInv
<1>1. ASSUME NEW r \in Reservations, CommitReservation(r)
      PROVE  RequestInv'
  BY <1>1 DEF CommitReservation, SaveReservation
<1>2. ASSUME NEW w \in Lockers, pc[w] \in {"issue", "eventLocked"},
             NEW new \in ReservationStatus, status' = [status EXCEPT ![target[w]] = new],
             UNCHANGED <<requests, seen>>
      PROVE  RequestInv'
  BY <1>2 DEF LockedRowsAreCurrent, HoldsCurrentRows, WorkersTypeOK, requests
<1>3. CASE status' = status
  <2>1. ASSUME NEW r \in Reservations, OpenReservation(r)
        PROVE  RequestInv'
    BY <1>3, <2>1 DEF OpenReservation, ReadEvent
  <2>2. ASSUME NEW r \in Reservations, SoldOut(r)
        PROVE  RequestInv'
    BY <1>3, <2>2 DEF SoldOut
  <2>3. ASSUME NEW r \in Reservations, LoseRace(r)
        PROVE  RequestInv'
    BY <1>3, <2>3 DEF LoseRace
  <2>4. ASSUME NEW r \in Reservations, AbandonRequest(r)
        PROVE  RequestInv'
    BY <1>3, <2>4 DEF AbandonRequest
  <2>5. ASSUME NEW w \in Lockers, LockEvent(w)
        PROVE  RequestInv'
    BY <1>3, <2>5, BookingAssumption DEF LockEvent, requests
  <2>6. CASE UNCHANGED <<requests, seen>>
    BY <1>3, <2>6 DEF requests
  <2>7. QED
    BY <1>1, <2>1, <2>2, <2>3, <2>4, <2>5, <2>6, RequestsFrame DEF RequestStep
<1>4. ASSUME NEW s \in Schedulers, CommitExpire(s)
      PROVE  RequestInv'
  BY <1>2, <1>4 DEF CommitExpire, ReservationStatus, Lockers
<1>5. ASSUME NEW c \in Consumers, IssueTicket(c)
      PROVE  RequestInv'
  BY <1>2, <1>5 DEF IssueTicket, ReservationStatus, Lockers
<1>6. ASSUME NEW c \in Consumers, Compensate(c)
      PROVE  RequestInv'
  BY <1>2, <1>6 DEF Compensate, ReservationStatus, Lockers
<1>7. QED
  BY <1>1, <1>3, <1>4, <1>5, <1>6, RowsFrame DEF rows, RecordOnly

\* A worker that holds no row lock has nothing to keep.
LEMMA AtRest ==
  ASSUME NEW v, pc'[v] \notin {"issue", "reservationLocked", "eventLocked"}
  PROVE  HoldsCurrentRows(v)'
BY DEF HoldsCurrentRows

\* A step that leaves a worker, its locks and the rows under them alone keeps its
\* copies current.
LEMMA OthersKeepRows ==
  ASSUME SafetyInv, NEW v \in Lockers,
         pc'[v] = pc[v], target'[v] = target[v], seen'[v] = seen[v],
         \A r \in Reservations : reservationLock[r] = v =>
              reservationLock'[r] = v /\ status'[r] = status[r],
         \A e \in Events : eventLock[e] = v =>
              /\ eventLock'[e] = v
              /\ availableSeats'[e] = availableSeats[e] /\ version'[e] = version[e]
  PROVE  HoldsCurrentRows(v)'
<1>1. CASE pc[v] \in {"issue", "reservationLocked", "eventLocked"}
  <2>1. target[v] \in Reservations /\ EventOf[target[v]] \in Events
    BY <1>1, BookingAssumption DEF SafetyInv, TypeOK, WorkersTypeOK
  <2>2. HoldsCurrentRows(v)
    BY DEF SafetyInv, LockedRowsAreCurrent
  <2>3. QED
    BY <2>1, <2>2 DEF HoldsCurrentRows, ReadEvent
<1>2. QED
  BY <1>1, AtRest

\* A worker that ends its transaction writes only rows it has locked.
LEMMA EndKeepsRows ==
  ASSUME SafetyInv, NEW w \in Lockers, EndTransaction(w), seen' = seen,
         NEW next \in {"idle", "check", "ack", "recover"}, pc' = [pc EXCEPT ![w] = next],
         \A v \in Lockers \ {w} : target'[v] = target[v],
         \A r \in Reservations : reservationLock[r] # w => status'[r] = status[r],
         \A e \in Events : eventLock[e] # w =>
              availableSeats'[e] = availableSeats[e] /\ version'[e] = version[e]
  PROVE  LockedRowsAreCurrent'
<1> SUFFICES ASSUME NEW v \in Lockers
             PROVE  HoldsCurrentRows(v)'
  BY DEF LockedRowsAreCurrent
<1>1. pc \in [Lockers -> WorkerStates] /\ LocksTypeOK
  BY DEF SafetyInv, TypeOK, WorkersTypeOK
<1>2. CASE v = w
  BY <1>1, <1>2, AtRest
<1>3. CASE v # w
  BY <1>1, <1>3, Unlocking, OthersKeepRows
<1>4. QED
  BY <1>2, <1>3

\* The version check of expire and of processPaymentFailed cannot fail: what a worker
\* has read under its locks stays true whatever another transaction does.
LEMMA LockedRowsStep ==
  ASSUME SafetyInv, [Next]_vars
  PROVE  LockedRowsAreCurrent'
<1>a. /\ \A w \in Lockers : HoldsCurrentRows(w)
      /\ \A w \in Lockers : pc[w] # "idle" =>
            target[w] \in Reservations /\ EventOf[target[w]] \in Events
      /\ pc \in [Lockers -> WorkerStates] /\ target \in [Lockers -> Reservations \cup {None}]
      /\ LocksTypeOK /\ RowsTypeOK /\ RequestsTypeOK
  BY BookingAssumption DEF SafetyInv, TypeOK, WorkersTypeOK, LockedRowsAreCurrent
<1>b. \A w \in Lockers : w # None /\ w \notin Reservations
  BY BookingAssumption
<1>c. Schedulers \subseteq Lockers /\ Consumers \subseteq Lockers
  BY DEF Lockers
<1>1. CASE UNCHANGED <<rows, locks, pc, target, seen>>
  BY <1>1, <1>a, OthersKeepRows DEF rows, locks, LockedRowsAreCurrent
<1>2. ASSUME NEW r \in Reservations, OpenReservation(r)
      PROVE  LockedRowsAreCurrent'
  BY <1>2, <1>a, <1>b, OthersKeepRows
     DEF OpenReservation, rows, locks, LockedRowsAreCurrent, RequestsTypeOK
<1>3. ASSUME NEW r \in Reservations, CommitReservation(r)
      PROVE  LockedRowsAreCurrent'
  <2> SUFFICES ASSUME NEW v \in Lockers
               PROVE  HoldsCurrentRows(v)'
    BY DEF LockedRowsAreCurrent
  <2>1. CASE pc[v] \in {"issue", "reservationLocked", "eventLocked"}
    <3>1. target[v] # r
      BY <1>3, <2>1, <1>a
         DEF CommitReservation, SaveReservation, HoldsCurrentRows, SafetyInv, RequestInv
    <3>2. \A q \in Reservations \ {r} : status'[q] = status[q]
      BY <1>3, <1>a DEF CommitReservation, SaveReservation, RowsTypeOK
    <3>3. \A e \in Events : eventLock[e] = v =>
             availableSeats'[e] = availableSeats[e] /\ version'[e] = version[e]
      BY <1>3, <1>a, <1>b DEF CommitReservation, SaveReservation, RowsTypeOK
    <3>4. /\ target[v] \in Reservations \ {r} /\ EventOf[target[v]] \in Events
          /\ HoldsCurrentRows(v)
      BY <1>a, <2>1, <3>1
    <3>5. UNCHANGED <<pc, target, locks, seen>>
      BY <1>3 DEF CommitReservation, SaveReservation
    <3>6. QED
      BY <3>2, <3>3, <3>4, <3>5 DEF locks, HoldsCurrentRows, ReadEvent
  <2>2. CASE pc[v] \notin {"issue", "reservationLocked", "eventLocked"}
    BY <1>3, <2>2, AtRest DEF CommitReservation, SaveReservation
  <2>3. QED
    BY <2>1, <2>2
<1>4. ASSUME NEW w \in Lockers, NEW r \in Reservations, status[r] = "PENDING",
             pc[w] \in {"idle", "lock"}, NEW next \in {"issue", "reservationLocked"},
             LockReservation(w, r, next)
      PROVE  LockedRowsAreCurrent'
  <2> SUFFICES ASSUME NEW v \in Lockers
               PROVE  HoldsCurrentRows(v)'
    BY DEF LockedRowsAreCurrent
  <2>1. CASE v = w
    BY <1>4, <2>1, <1>a DEF LockReservation, HoldsCurrentRows, LocksTypeOK, rows
  <2>2. CASE v # w
    BY <1>4, <2>2, <1>a, <1>b, OthersKeepRows DEF LockReservation, LocksTypeOK, rows
  <2>3. QED
    BY <2>1, <2>2
<1>5. ASSUME NEW w \in Lockers, LockEvent(w)
      PROVE  LockedRowsAreCurrent'
  <2> SUFFICES ASSUME NEW v \in Lockers
               PROVE  HoldsCurrentRows(v)'
    BY DEF LockedRowsAreCurrent
  <2>1. CASE v = w
    BY <1>5, <2>1, <1>a
       DEF LockEvent, HoldsCurrentRows, LocksTypeOK, RequestsTypeOK, ReadEvent, rows
  <2>2. CASE v # w
    BY <1>5, <2>2, <1>a, <1>b, OthersKeepRows
       DEF LockEvent, LocksTypeOK, RequestsTypeOK, rows
  <2>3. QED
    BY <2>1, <2>2
<1>6. ASSUME NEW s \in Schedulers, CommitExpire(s)
      PROVE  LockedRowsAreCurrent'
  <2>1. \A r \in Reservations : reservationLock[r] # s => status'[r] = status[r]
    BY <1>6, <1>a, <1>c DEF CommitExpire, HoldsCurrentRows, RowsTypeOK
  <2>2. \A e \in Events : eventLock[e] # s =>
           availableSeats'[e] = availableSeats[e] /\ version'[e] = version[e]
    BY <1>6, <1>a, <1>c DEF CommitExpire, Release, HoldsCurrentRows, RowsTypeOK
  <2>3. QED
    BY <1>6, <2>1, <2>2, <1>a, <1>c, EndKeepsRows DEF CommitExpire
<1>7. ASSUME NEW s \in Schedulers, ExpireFails(s) \/ CrashScheduler(s)
      PROVE  LockedRowsAreCurrent'
  BY <1>7, <1>a, <1>c, EndKeepsRows DEF ExpireFails, CrashScheduler, rows
<1>8. ASSUME NEW c \in Consumers, IssueTicket(c)
      PROVE  LockedRowsAreCurrent'
  <2>1. \A r \in Reservations : reservationLock[r] # c => status'[r] = status[r]
    BY <1>8, <1>a, <1>c DEF IssueTicket, HoldsCurrentRows, RowsTypeOK
  <2>2. \A e \in Events : eventLock[e] # c =>
           availableSeats'[e] = availableSeats[e] /\ version'[e] = version[e]
    BY <1>8, <1>a, <1>c DEF IssueTicket, HoldsCurrentRows, RowsTypeOK
  <2>3. QED
    BY <1>8, <2>1, <2>2, <1>a, <1>c, EndKeepsRows DEF IssueTicket
<1>9. ASSUME NEW c \in Consumers, Compensate(c)
      PROVE  LockedRowsAreCurrent'
  <2>1. \A r \in Reservations : reservationLock[r] # c => status'[r] = status[r]
    BY <1>9, <1>a, <1>c DEF Compensate, HoldsCurrentRows, RowsTypeOK
  <2>2. \A e \in Events : eventLock[e] # c =>
           availableSeats'[e] = availableSeats[e] /\ version'[e] = version[e]
    BY <1>9, <1>a, <1>c DEF Compensate, Release, HoldsCurrentRows, RowsTypeOK
  <2>3. QED
    BY <1>9, <2>1, <2>2, <1>a, <1>c, EndKeepsRows DEF Compensate
<1>10. ASSUME NEW c \in Consumers, FailAttempt(c)
       PROVE  LockedRowsAreCurrent'
  BY <1>10, <1>a, <1>c, EndKeepsRows DEF FailAttempt, rows
<1>11. ASSUME NEW c \in Consumers, CrashConsumer(c)
       PROVE  LockedRowsAreCurrent'
  BY <1>11, <1>a, <1>c, EndKeepsRows DEF CrashConsumer, rows
<1>12. ASSUME NEW c \in Consumers, NEW next \in {"idle", "check", "lock", "ack"},
              pc' = [pc EXCEPT ![c] = next], \A v \in Lockers \ {c} : target'[v] = target[v],
              UNCHANGED <<availableSeats, version, status, locks, seen>>
       PROVE  LockedRowsAreCurrent'
  <2> SUFFICES ASSUME NEW v \in Lockers
               PROVE  HoldsCurrentRows(v)'
    BY DEF LockedRowsAreCurrent
  <2>1. CASE v = c
    BY <1>12, <2>1, <1>a, <1>c, AtRest
  <2>2. CASE v # c
    BY <1>12, <2>2, <1>a, <1>c, OthersKeepRows DEF locks
  <2>3. QED
    BY <2>1, <2>2
<1>13. ASSUME NEW c \in Consumers,
              \/ CheckProcessed(c) \/ RecordOnly(c) \/ DeadLetter(c) \/ Ack(c)
              \/ \E r \in Reservations : Poll(c, r)
       PROVE  LockedRowsAreCurrent'
  BY <1>13, <1>12, <1>a, <1>c DEF CheckProcessed, RecordOnly, DeadLetter, Ack, Poll, rows
<1>14. ASSUME NEW s \in Schedulers, BeginExpire(s)
       PROVE  LockedRowsAreCurrent'
  BY <1>14, <1>4, <1>c DEF BeginExpire, NextDue, Expirable
<1>15. ASSUME NEW c \in Consumers, BeginResult(c)
       PROVE  LockedRowsAreCurrent'
  BY <1>15, <1>4, <1>a, <1>c DEF BeginResult, ToIssue, ToCancel
<1>16. ASSUME NEW r \in Reservations,
              \/ SoldOut(r) \/ LoseRace(r) \/ AbandonRequest(r) \/ PublishResult(r)
              \/ RepublishResult(r)
       PROVE  LockedRowsAreCurrent'
  BY <1>16, <1>1 DEF SoldOut, LoseRace, AbandonRequest, PublishResult, RepublishResult
<1>17. ASSUME NEW s \in Schedulers, Scan(s) \/ SkipDue(s)
       PROVE  LockedRowsAreCurrent'
  BY <1>17, <1>1 DEF Scan, SkipDue
<1>18. CASE Tick
  BY <1>18, <1>1 DEF Tick
<1>19. CASE UNCHANGED vars
  BY <1>19, <1>1 DEF vars
<1>20. QED
  BY <1>2, <1>3, <1>5, <1>6, <1>7, <1>8, <1>9, <1>10, <1>11, <1>13, <1>14, <1>15, <1>16, <1>17,
     <1>18, <1>19, <1>c
     DEF Next, Working, Failure, RequestStep, SchedulerStep, ConsumerStep, Reject, DeliveryFails

\* Every transaction that changes the stock moves the version: the optimistic check
\* of reserve sees pessimistic writers too.
LEMMA VersionStep ==
  ASSUME SafetyInv, [Next]_vars
  PROVE  VersionGuardsStock'
<1> USE BookingAssumption DEF VersionGuardsStock
<1>a. RowsTypeOK /\ RequestsTypeOK /\ VersionGuardsStock
  BY DEF SafetyInv, TypeOK
<1>b. \A r \in Reservations : seen[r].version \in Nat /\ seen[r].availableSeats \in Nat
  BY <1>a DEF RequestsTypeOK, EventRow
<1>1. ASSUME NEW r \in Reservations, OpenReservation(r)
      PROVE  VersionGuardsStock'
  BY <1>1, <1>a DEF OpenReservation, rows, ReadEvent, RowsTypeOK, RequestsTypeOK
<1>2. ASSUME NEW r \in Reservations, CommitReservation(r)
      PROVE  VersionGuardsStock'
  <2>1. EventOf[r] \in Events /\ version[EventOf[r]] \in Nat
    BY <1>a DEF RowsTypeOK
  <2>2. /\ version' = [version EXCEPT ![EventOf[r]] = @ + 1]
        /\ \A e \in Events \ {EventOf[r]} : availableSeats'[e] = availableSeats[e]
    BY <1>2, <2>1, <1>a DEF CommitReservation, SaveReservation, RowsTypeOK
  <2>3. /\ seen' = seen
        /\ \A q \in Reservations : request'[q] = "opened" => request[q] = "opened"
    BY <1>2, <1>a DEF CommitReservation, SaveReservation, RequestsTypeOK
  <2>4. QED
    BY <2>1, <2>2, <2>3, <1>a, <1>b DEF RowsTypeOK
<1>3. ASSUME NEW r \in Reservations, SoldOut(r) \/ LoseRace(r) \/ AbandonRequest(r)
      PROVE  VersionGuardsStock'
  BY <1>3, <1>a DEF SoldOut, LoseRace, AbandonRequest, rows, RequestsTypeOK
<1>4. ASSUME NEW w \in Lockers, LockEvent(w)
      PROVE  VersionGuardsStock'
  BY <1>4, <1>a DEF LockEvent, rows, requests, RequestsTypeOK
<1>5. ASSUME NEW w \in Lockers, pc[w] = "eventLocked", Release(w, target[w]),
             UNCHANGED <<requests, seen>>
      PROVE  VersionGuardsStock'
  <2>1. target[w] \in Reservations /\ EventOf[target[w]] \in Events
    BY <1>5 DEF SafetyInv, TypeOK, WorkersTypeOK
  <2>2. seen[w].version = version[EventOf[target[w]]]
    <3>1. HoldsCurrentRows(w)
      BY DEF SafetyInv, LockedRowsAreCurrent
    <3>2. QED
      BY <3>1, <1>5 DEF HoldsCurrentRows, ReadEvent
  <2>3. /\ version' = [version EXCEPT ![EventOf[target[w]]] = @ + 1]
        /\ \A e \in Events \ {EventOf[target[w]]} : availableSeats'[e] = availableSeats[e]
    BY <1>5, <2>1, <2>2, <1>a DEF Release, RowsTypeOK
  <2>4. QED
    BY <1>5, <2>1, <2>3, <1>a, <1>b DEF requests, RowsTypeOK
<1>6. ASSUME NEW s \in Schedulers, CommitExpire(s)
      PROVE  VersionGuardsStock'
  BY <1>5, <1>6 DEF CommitExpire, Lockers
<1>7. ASSUME NEW c \in Consumers, Compensate(c)
      PROVE  VersionGuardsStock'
  BY <1>5, <1>7 DEF Compensate, Lockers
<1>8. CASE UNCHANGED <<availableSeats, version, requests, seen>>
  BY <1>8, <1>a DEF requests
<1>9. ASSUME NEW c \in Consumers, IssueTicket(c) \/ RecordOnly(c)
      PROVE  VersionGuardsStock'
  BY <1>8, <1>9 DEF IssueTicket, RecordOnly
<1>10. QED
  <2>1. CASE UNCHANGED rows
    BY <2>1, <1>1, <1>2, <1>3, <1>4, <1>8, RequestsFrame DEF RequestStep, rows
  <2>2. QED
    BY <2>1, <1>2, <1>6, <1>7, <1>9, RowsFrame

\* The invariant holds in the initial state.
LEMMA SafetyInit == Init => SafetyInv
<1> SUFFICES ASSUME Init
             PROVE  SafetyInv
  OBVIOUS
<1> USE BookingAssumption DEF Init
<1>1. RowsTypeOK
  BY DEF RowsTypeOK
<1>2. LocksTypeOK
  BY DEF LocksTypeOK
<1>3. RequestsTypeOK
  BY DEF RequestsTypeOK, EventRow
<1>4. WorkersTypeOK
  BY DEF WorkersTypeOK, WorkerStates, Lockers
<1>5. TopicsTypeOK
  BY DEF TopicsTypeOK
<1>6. RequestInv /\ LockedRowsAreCurrent /\ VersionGuardsStock
  BY DEF RequestInv, LockedRowsAreCurrent, HoldsCurrentRows, VersionGuardsStock
<1>7. QED
  BY <1>1, <1>2, <1>3, <1>4, <1>5, <1>6 DEF SafetyInv, TypeOK

\* Every step preserves the invariant.
LEMMA SafetyStep ==
  ASSUME SafetyInv, [Next]_vars
  PROVE  SafetyInv'
BY RowsTypeStep, LocksTypeStep, RequestsTypeStep, WorkersTypeStep, TopicsTypeStep,
   RequestInvStep, LockedRowsStep, VersionStep DEF SafetyInv, TypeOK

\* The inductive invariant holds in every reachable state.
THEOREM SafetyInvariant == Spec => []SafetyInv
<1>1. SafetyInv /\ [Next]_vars => SafetyInv'
  BY SafetyStep
<1>2. QED
  BY <1>1, SafetyInit, PTL DEF Spec

\* Every variable keeps its type; the stock, in particular, is never negative
\* (Event.reserve).
THEOREM TypeCorrect == Spec => []TypeOK
BY SafetyInvariant, PTL DEF SafetyInv

\* Under a row lock nothing is stale, for any number of instances and requests
\* (findByIdForUpdate in expire and in processPaymentFailed).
THEOREM LocksProtect == Spec => []LockedRowsAreCurrent
BY SafetyInvariant, PTL DEF SafetyInv

\* The version column guards the stock against every writer, the pessimistic ones
\* included (Event.version, checked by reserve).
THEOREM VersionsProtect == Spec => []VersionGuardsStock
BY SafetyInvariant, PTL DEF SafetyInv

-----------------------------------------------------------------------------
(* Refinement: every step of the service is a step of TicketSale or leaves *)
(* the reservations and the stock alone.                                   *)

\* The service starts where the sale starts.
LEMMA SaleStarts == Init => Sale!SaleInit
BY DEF Init, Sale!SaleInit

\* A commit of reserve is a sale, a commit of an expiration or of a compensation
\* gives places back, IssueTicket issues; every other step stutters.
LEMMA SaleStep ==
  ASSUME SafetyInv, [Next]_vars
  PROVE  [Sale!SaleNext]_<<status, availableSeats>>
<1>a. RowsTypeOK /\ WorkersTypeOK
  BY DEF SafetyInv, TypeOK
<1>1. ASSUME NEW r \in Reservations, CommitReservation(r)
      PROVE  Sale!Reserve(r)
  <2>1. status[r] = "NONE" /\ Quantity[r] <= availableSeats[EventOf[r]]
        /\ seen[r].availableSeats = availableSeats[EventOf[r]]
    <3>1. request[r] = "opened" /\ seen[r].version = version[EventOf[r]]
      BY <1>1 DEF CommitReservation, SaveReservation
    <3>2. QED
      BY <3>1 DEF SafetyInv, RequestInv, VersionGuardsStock
  <2>2. QED
    BY <1>1, <2>1 DEF CommitReservation, SaveReservation, Sale!Reserve
<1>2. ASSUME NEW w \in Lockers, pc[w] = "eventLocked", NEW new \in {"EXPIRED", "CANCELLED"},
             Release(w, target[w]), status' = [status EXCEPT ![target[w]] = new]
      PROVE  target[w] \in Reservations /\ Sale!GiveBack(target[w])
  <2>1. HoldsCurrentRows(w) /\ target[w] \in Reservations
    BY <1>2, <1>a DEF WorkersTypeOK, SafetyInv, LockedRowsAreCurrent
  <2>2. /\ status[target[w]] = "PENDING"
        /\ seen[w].availableSeats = availableSeats[EventOf[target[w]]]
    BY <1>2, <2>1 DEF HoldsCurrentRows, ReadEvent
  <2>3. QED
    BY <1>2, <2>1, <2>2 DEF Release, Sale!GiveBack
<1>3. ASSUME NEW c \in Consumers, IssueTicket(c)
      PROVE  target[c] \in Reservations /\ Sale!Issue(target[c])
  BY <1>3, <1>a DEF IssueTicket, WorkersTypeOK, Lockers, SafetyInv, LockedRowsAreCurrent,
                    HoldsCurrentRows, Sale!Issue
<1>4. ASSUME NEW s \in Schedulers, CommitExpire(s)
      PROVE  target[s] \in Reservations /\ Sale!GiveBack(target[s])
  BY <1>2, <1>4 DEF CommitExpire, Lockers
<1>5. ASSUME NEW c \in Consumers, Compensate(c)
      PROVE  target[c] \in Reservations /\ Sale!GiveBack(target[c])
  BY <1>2, <1>5 DEF Compensate, Lockers
<1>6. ASSUME NEW c \in Consumers, RecordOnly(c)
      PROVE  UNCHANGED <<status, availableSeats>>
  BY <1>6 DEF RecordOnly
<1>7. QED
  BY <1>1, <1>3, <1>4, <1>5, <1>6, RowsFrame DEF Sale!SaleNext, rows

\* booking-service, with its unlocked reads, row locks, retries and crashes, implements
\* the sale with atomic operations.
THEOREM Implements == Spec => ImplementsTicketSale
<1>1. Init => Sale!SaleInit
  BY SaleStarts
<1>2. SafetyInv /\ [Next]_vars => [Sale!SaleNext]_<<status, availableSeats>>
  BY SaleStep
<1>3. QED
  BY <1>1, <1>2, SafetyInvariant, PTL DEF Spec, ImplementsTicketSale, Sale!SaleSpec, Sale!saleVars

SaleProofs == INSTANCE TicketSaleProofs

\* The proofs speak of the same sale as BookingService: the two instances have the
\* same initial states, steps and conservation formula.
LEMMA SameSale ==
  /\ SaleProofs!SaleInit <=> Sale!SaleInit
  /\ SaleProofs!SaleNext <=> Sale!SaleNext
  /\ SaleProofs!SeatsConserved <=> Sale!SeatsConserved
<1>1. SaleProofs!SaleInit <=> Sale!SaleInit
  BY DEF Sale!SaleInit, SaleProofs!SaleInit
<1>2. SaleProofs!SaleNext <=> Sale!SaleNext
  BY DEF Sale!SaleNext, Sale!Reserve, Sale!Issue, Sale!GiveBack, SaleProofs!SaleNext,
         SaleProofs!Reserve, SaleProofs!Issue, SaleProofs!GiveBack
<1>3. SaleProofs!SeatsConserved <=> Sale!SeatsConserved
  <2>1. \A S : SaleProofs!Cardinality(S) = Sale!Cardinality(S)
    BY DEF SaleProofs!Cardinality, Sale!Cardinality
  <2>2. \A e : SaleProofs!HeldSeats(e) = Sale!HeldSeats(e)
    BY DEF Sale!HeldSeats, SaleProofs!HeldSeats, Sale!Holding, SaleProofs!Holding
  <2>3. QED
    BY <2>1, <2>2 DEF Sale!SeatsConserved, SaleProofs!SeatsConserved
<1>4. QED
  BY <1>1, <1>2, <1>3

\* No place is ever sold twice, lost or released twice (Event.reserve, Event.release):
\* conservation, carried from the atomic sale to the service by the refinement.
THEOREM Conservation == Spec => []SeatsConserved
<1>1. SaleProofs!IsFiniteSet(Reservations)
  BY BookingAssumption DEF IsFiniteSet, SaleProofs!IsFiniteSet
<1>2. SaleProofs!SaleSpec => []SaleProofs!SeatsConserved
  BY <1>1, BookingAssumption, SaleProofs!SaleConserves DEF SaleProofs!SaleConserves
<1>3. Sale!SaleSpec => []Sale!SeatsConserved
  BY <1>2, SameSale, PTL DEF Sale!SaleSpec, SaleProofs!SaleSpec, SaleProofs!saleVars, Sale!saleVars
<1>4. QED
  BY <1>3, Implements, PTL DEF ImplementsTicketSale, SeatsConserved

-----------------------------------------------------------------------------
(* Row locks.                                                              *)

\* The converse of HoldsCurrentRows: what w has locked is what it is working on.
HoldsNothingElse(w) ==
    /\ \A r \in Reservations : reservationLock[r] = w =>
          target[w] = r /\ pc[w] \in {"issue", "reservationLocked", "eventLocked"}
    /\ \A e \in Events : eventLock[e] = w => pc[w] = "eventLocked" /\ EventOf[target[w]] = e
LocksInv == \A w \in Lockers : HoldsNothingElse(w)

\* The end of a transaction frees whatever it held.
LEMMA EndFreesLocks ==
  ASSUME LocksTypeOK, LocksInv, NEW w \in Lockers, EndTransaction(w),
         \A v \in Lockers \ {w} : pc'[v] = pc[v] /\ target'[v] = target[v]
  PROVE  LocksInv'
<1>1. SUFFICES ASSUME NEW v \in Lockers
               PROVE  HoldsNothingElse(v)'
  BY DEF LocksInv
<1>2. /\ \A r \in Reservations : reservationLock'[r] = v => v # w /\ reservationLock[r] = v
      /\ \A e \in Events : eventLock'[e] = v => v # w /\ eventLock[e] = v
  <2>1. v # None
    BY BookingAssumption
  <2>2. QED
    BY <2>1, Unlocking
<1>3. HoldsNothingElse(v)
  BY DEF LocksInv
<1>4. QED
  BY <1>2, <1>3 DEF HoldsNothingElse

\* A worker that holds nothing may move on without a lock.
LEMMA FreeWorkerMoves ==
  ASSUME LocksInv, NEW w \in Lockers, UNCHANGED locks,
         pc[w] \notin {"issue", "reservationLocked", "eventLocked"},
         \A v \in Lockers \ {w} : pc'[v] = pc[v] /\ target'[v] = target[v]
  PROVE  LocksInv'
BY DEF LocksInv, HoldsNothingElse, locks

\* A lock is taken by a worker that holds none, or its reservation only.
LEMMA TakesLock ==
  ASSUME SafetyInv, LocksInv, NEW w \in Lockers,
         \/ LockEvent(w)
         \/ /\ pc[w] \in {"idle", "lock"}
            /\ \E r \in Reservations, next \in {"issue", "reservationLocked"} :
                  LockReservation(w, r, next)
  PROVE  LocksInv'
<1>a. /\ pc \in [Lockers -> WorkerStates] /\ target \in [Lockers -> Reservations \cup {None}]
      /\ LocksTypeOK /\ w # None
  BY BookingAssumption DEF SafetyInv, TypeOK, WorkersTypeOK
<1>b. SUFFICES ASSUME NEW v \in Lockers
               PROVE  HoldsNothingElse(v)'
  BY DEF LocksInv
<1>c. HoldsNothingElse(v) /\ HoldsNothingElse(w)
  BY DEF LocksInv
<1>1. CASE LockEvent(w)
  <2>1. /\ pc[w] = "reservationLocked" /\ eventLock' = [eventLock EXCEPT ![EventOf[target[w]]] = w]
        /\ pc' = [pc EXCEPT ![w] = "eventLocked"] /\ UNCHANGED <<reservationLock, target>>
    BY <1>1 DEF LockEvent
  <2>2. QED
    BY <2>1, <1>a, <1>c DEF LocksTypeOK, HoldsNothingElse
<1>2. ASSUME pc[w] \in {"idle", "lock"}, NEW r \in Reservations,
             NEW next \in {"issue", "reservationLocked"}, LockReservation(w, r, next)
      PROVE  HoldsNothingElse(v)'
  <2>1. /\ reservationLock' = [reservationLock EXCEPT ![r] = w]
        /\ target' = [target EXCEPT ![w] = r] /\ pc' = [pc EXCEPT ![w] = next]
        /\ UNCHANGED eventLock
    BY <1>2 DEF LockReservation
  <2>2. QED
    BY <2>1, <1>2, <1>a, <1>c DEF LocksTypeOK, HoldsNothingElse
<1>3. QED
  BY <1>1, <1>2

LEMMA LocksStep ==
  ASSUME SafetyInv, LocksInv, [Next]_vars
  PROVE  LocksInv'
<1>a. /\ pc \in [Lockers -> WorkerStates] /\ target \in [Lockers -> Reservations \cup {None}]
      /\ LocksTypeOK /\ \A c \in Consumers : pc[c] # "idle" => target[c] \in Reservations
      /\ Schedulers \subseteq Lockers /\ Consumers \subseteq Lockers
  BY DEF SafetyInv, TypeOK, WorkersTypeOK, Lockers
<1>1. ASSUME NEW s \in Schedulers, CommitExpire(s) \/ ExpireFails(s) \/ CrashScheduler(s)
      PROVE  LocksInv'
  BY <1>1, <1>a, EndFreesLocks DEF CommitExpire, ExpireFails, CrashScheduler
<1>2. ASSUME NEW c \in Consumers,
             IssueTicket(c) \/ Compensate(c) \/ FailAttempt(c) \/ CrashConsumer(c)
      PROVE  LocksInv'
  BY <1>2, <1>a, EndFreesLocks DEF IssueTicket, Compensate, FailAttempt, CrashConsumer
<1>3. ASSUME NEW s \in Schedulers, BeginExpire(s)
      PROVE  LocksInv'
  BY <1>3, <1>a, TakesLock DEF BeginExpire, NextDue
<1>4. ASSUME NEW c \in Consumers, BeginResult(c)
      PROVE  LocksInv'
  BY <1>4, <1>a, TakesLock DEF BeginResult
<1>5. ASSUME NEW w \in Lockers, LockEvent(w)
      PROVE  LocksInv'
  BY <1>5, TakesLock
<1>6. ASSUME NEW c \in Consumers,
             \/ CheckProcessed(c) \/ RecordOnly(c) \/ DeadLetter(c) \/ Ack(c)
             \/ \E r \in Reservations : Poll(c, r)
      PROVE  LocksInv'
  BY <1>6, <1>a, FreeWorkerMoves DEF CheckProcessed, RecordOnly, DeadLetter, Ack, Poll
<1>7. CASE UNCHANGED <<locks, pc, target>>
  BY <1>7 DEF LocksInv, HoldsNothingElse, locks
<1>8. ASSUME NEW r \in Reservations,
             \/ RequestStep(r) \/ AbandonRequest(r) \/ PublishResult(r) \/ RepublishResult(r)
      PROVE  LocksInv'
  BY <1>7, <1>8 DEF RequestStep, OpenReservation, SoldOut, CommitReservation, SaveReservation,
     LoseRace, AbandonRequest, PublishResult, RepublishResult
<1>9. ASSUME NEW s \in Schedulers, Scan(s) \/ SkipDue(s)
      PROVE  LocksInv'
  BY <1>7, <1>9 DEF Scan, SkipDue
<1>10. CASE Tick \/ UNCHANGED vars
  BY <1>7, <1>10 DEF Tick, vars
<1>11. QED
  BY <1>1, <1>2, <1>3, <1>4, <1>5, <1>6, <1>8, <1>9, <1>10, <1>a
     DEF Next, Working, Failure, SchedulerStep, ConsumerStep, Reject, DeliveryFails

\* Nobody waits for ever for a row: the holder of an event row waits for nothing and its
\* release fits into the capacity, the holder of a reservation waits for an event row at
\* most, and no lock outlives its transaction (findByIdForUpdate in expire and in
\* processPaymentFailed, first the reservation, then the event).
THEOREM LocksAreGivenBack == Spec => []LockHoldersFinish
<1>1. Init => LocksInv
  BY BookingAssumption DEF Init, LocksInv, HoldsNothingElse
<1>2. SafetyInv /\ LocksInv /\ [Next]_vars => LocksInv'
  BY LocksStep
<1>3. SafetyInv /\ LocksInv /\ SeatsConserved => LockHoldersFinish
  <2> SUFFICES ASSUME SafetyInv, LocksInv, SeatsConserved
               PROVE  LockHoldersFinish
    OBVIOUS
  <2>1. ASSUME NEW e \in Events, eventLock[e] # None, NEW w, w = eventLock[e]
        PROVE  /\ pc[w] = "eventLocked" /\ EventOf[target[w]] = e
               /\ seen[w].availableSeats + Quantity[target[w]] <= TotalSeats[e]
    <3>1. w \in Lockers
      BY <2>1 DEF SafetyInv, TypeOK, LocksTypeOK
    <3>2. pc[w] = "eventLocked" /\ EventOf[target[w]] = e
      BY <2>1, <3>1 DEF LocksInv, HoldsNothingElse
    <3>3. target[w] \in Reservations
      BY <3>1, <3>2 DEF SafetyInv, TypeOK, WorkersTypeOK
    <3>4. status[target[w]] = "PENDING" /\ seen[w].availableSeats = availableSeats[e]
      <4>1. HoldsCurrentRows(w)
        BY <3>1 DEF SafetyInv, LockedRowsAreCurrent
      <4>2. QED
        BY <3>2, <4>1 DEF HoldsCurrentRows, ReadEvent
    <3>5. availableSeats[e] + Quantity[target[w]] <= TotalSeats[e]
      <4>1. SaleProofs!SaleTypeOK
        BY DEF SafetyInv, TypeOK, RowsTypeOK, SaleProofs!SaleTypeOK, ReservationStatus,
               SaleProofs!ReservationStatus
      <4>2. SaleProofs!SeatsConserved
        BY SameSale DEF SeatsConserved
      <4>3. SaleProofs!IsFiniteSet(Reservations)
        BY BookingAssumption DEF IsFiniteSet, SaleProofs!IsFiniteSet
      <4>4. \A r \in Reservations : status[r] \in SaleProofs!Holding =>
               availableSeats[EventOf[r]] + Quantity[r] <= TotalSeats[EventOf[r]]
        BY <4>1, <4>2, <4>3, BookingAssumption, SaleProofs!PlacesFitBack
           DEF SaleProofs!PlacesFitBack
      <4>5. status[target[w]] \in SaleProofs!Holding
        BY <3>4 DEF SaleProofs!Holding
      <4>6. QED
        BY <3>2, <3>3, <4>4, <4>5
    <3>6. QED
      BY <3>2, <3>4, <3>5
  <2>2. ASSUME NEW r \in Reservations, reservationLock[r] # None
        PROVE  /\ target[reservationLock[r]] = r
               /\ pc[reservationLock[r]] \in {"issue", "reservationLocked", "eventLocked"}
    BY <2>2 DEF SafetyInv, TypeOK, LocksTypeOK, LocksInv, HoldsNothingElse
  <2>3. QED
    BY <2>1, <2>2 DEF LockHoldersFinish
<1>4. QED
  BY <1>1, <1>2, <1>3, SafetyInvariant, Conservation, PTL DEF Spec

-----------------------------------------------------------------------------
(* The inductive invariant, on top of SafetyInv.                           *)

\* Only reservations with a result are delivered; a reservation is inserted first.
DeliveredInv ==
    /\ \A r \in unacked \cup processed : result[r] # None
    /\ \A r \in Reservations : status[r] = "NONE" => result[r] = None

\* What the place of a worker in its handler says of the result it works on.
HandlesResult(c) ==
    LET r == target[c] IN
    /\ pc[c] # "idle" => result[r] # None
    /\ pc[c] = "issue" => result[r].amountMatches /\ result[r].type = "PaymentReceived"
    /\ pc[c] \in {"reservationLocked", "eventLocked"} =>
          result[r].amountMatches /\ result[r].type = "PaymentFailed"
    /\ pc[c] = "ack" => r \in processed

WorkInv ==
    /\ \A s \in Schedulers : pc[s] \in {"idle", "reservationLocked", "eventLocked"}
    /\ \A c \in Consumers : HandlesResult(c)

ResultsInv ==
    /\ SafetyInv
    /\ DeliveredInv
    /\ WorkInv
    /\ OutboxTellsStatus
    /\ MarkersMatchEffects
    /\ ResultNeverLost

-----------------------------------------------------------------------------
(* The outbox.                                                             *)

\* What the recorder appends to what is already there.
LEMMA PairOfEvents ==
  ASSUME NEW x, NEW y
  PROVE  <<x>> \o <<y>> = <<x, y>>
<1>1. <<x>> \in Seq({x, y}) /\ <<y>> \in Seq({x, y}) /\ <<x, y>> \in Seq({x, y})
  OBVIOUS
<1>2. Len(<<x>> \o <<y>>) = 2 /\ Len(<<x, y>>) = 2 /\ Len(<<x>>) = 1
  BY <1>1, ConcatProperties
<1>3. \A i \in 1..2 : (<<x>> \o <<y>>)[i] = <<x, y>>[i]
  BY <1>1, <1>2, ConcatProperties
<1>4. QED
  BY <1>1, <1>2, <1>3, SeqEqual, ConcatProperties

\* The same for the two events of an expiration.
LEMMA TripleOfEvents ==
  ASSUME NEW x, NEW y, NEW z
  PROVE  <<x>> \o <<y, z>> = <<x, y, z>>
<1> DEFINE S == {x, y, z}
<1>1. <<x>> \in Seq(S) /\ <<y, z>> \in Seq(S) /\ <<x, y, z>> \in Seq(S)
  OBVIOUS
<1>2. Len(<<x>> \o <<y, z>>) = 3 /\ Len(<<x, y, z>>) = 3 /\ Len(<<x>>) = 1
  BY <1>1, ConcatProperties
<1>3. \A i \in 1..3 : (<<x>> \o <<y, z>>)[i] = <<x, y, z>>[i]
  BY <1>1, <1>2, ConcatProperties
<1>4. QED
  BY <1>1, <1>2, <1>3, SeqEqual, ConcatProperties

\* The story of a reservation grows by what each transition records.
LEMMA StoryGrows ==
  /\ Story("NONE") \o <<"SeatReserved">> = Story("PENDING")
  /\ Story("PENDING") \o <<"TicketIssued">> = Story("TICKET_ISSUED")
  /\ Story("PENDING") \o <<"ReservationExpired", "SeatReleased">> = Story("EXPIRED")
  /\ Story("PENDING") \o <<"SeatReleased">> = Story("CANCELLED")
<1>1. /\ Story("NONE") = <<>> /\ Story("PENDING") = <<"SeatReserved">>
      /\ Story("TICKET_ISSUED") = <<"SeatReserved", "TicketIssued">>
      /\ Story("EXPIRED") = <<"SeatReserved", "ReservationExpired", "SeatReleased">>
      /\ Story("CANCELLED") = <<"SeatReserved", "SeatReleased">>
  BY DEF Story
<1>2. <<>> \o <<"SeatReserved">> = <<"SeatReserved">>
  <2>1. <<"SeatReserved">> \in Seq({"SeatReserved"})
    OBVIOUS
  <2>2. QED
    BY <2>1, ConcatEmptySeq
<1>3. QED
  BY <1>1, <1>2, PairOfEvents, TripleOfEvents

\* No status changes without its event, and no event is recorded twice.
LEMMA OutboxStep ==
  ASSUME ResultsInv, [Next]_vars
  PROVE  OutboxTellsStatus'
<1>a. /\ RowsTypeOK /\ WorkersTypeOK /\ \A w \in Lockers : HoldsCurrentRows(w)
      /\ \A r \in Reservations : outbox[r] = Story(status[r])
  BY DEF ResultsInv, SafetyInv, TypeOK, LockedRowsAreCurrent, OutboxTellsStatus
<1>1. ASSUME NEW r \in Reservations, NEW types, NEW new,
             Story(status[r]) \o types = Story(new),
             status' = [status EXCEPT ![r] = new], Record(r, types)
      PROVE  OutboxTellsStatus'
  BY <1>1, <1>a DEF OutboxTellsStatus, Record, RowsTypeOK
<1>2. ASSUME NEW r \in Reservations, CommitReservation(r)
      PROVE  OutboxTellsStatus'
  <2>1. status[r] = "NONE"
    BY <1>2, <1>a DEF CommitReservation, ResultsInv, SafetyInv, RequestInv
  <2>2. QED
    BY <1>1, <1>2, <2>1, StoryGrows DEF CommitReservation, SaveReservation
<1>3. \A w \in Lockers : pc[w] \in {"issue", "eventLocked"} =>
         target[w] \in Reservations /\ status[target[w]] = "PENDING"
  BY <1>a DEF WorkersTypeOK, HoldsCurrentRows
<1>4. ASSUME NEW s \in Schedulers, CommitExpire(s)
      PROVE  OutboxTellsStatus'
  BY <1>1, <1>3, <1>4, StoryGrows DEF CommitExpire, Lockers
<1>5. ASSUME NEW c \in Consumers, IssueTicket(c)
      PROVE  OutboxTellsStatus'
  BY <1>1, <1>3, <1>5, StoryGrows DEF IssueTicket, Lockers
<1>6. ASSUME NEW c \in Consumers, Compensate(c)
      PROVE  OutboxTellsStatus'
  BY <1>1, <1>3, <1>6, StoryGrows DEF Compensate, Lockers
<1>7. CASE UNCHANGED <<status, outbox>>
  BY <1>7, <1>a DEF OutboxTellsStatus
<1>8. QED
  BY <1>2, <1>4, <1>5, <1>6, <1>7, RowsFrame DEF RecordOnly, rows

-----------------------------------------------------------------------------
(* Deliveries.                                                             *)

\* A result is published once and never changes.
LEMMA ResultFrame ==
  ASSUME TopicsTypeOK, [Next]_vars
  PROVE  \/ UNCHANGED result
         \/ \E q \in Reservations :
               /\ status[q] # "NONE" /\ result[q] = None /\ result'[q] \in PaymentResult
               /\ \A r \in Reservations \ {q} : result'[r] = result[r]
               /\ UNCHANGED <<rows, pc, target>> /\ unacked' = unacked \cup {q}
<1>1. ASSUME NEW q \in Reservations, PublishResult(q)
      PROVE  /\ status[q] # "NONE" /\ result[q] = None /\ result'[q] \in PaymentResult
             /\ \A r \in Reservations \ {q} : result'[r] = result[r]
             /\ UNCHANGED <<rows, pc, target>> /\ unacked' = unacked \cup {q}
  BY <1>1, BookingAssumption DEF PublishResult, TopicsTypeOK
<1>2. QED
  BY <1>1, TopicsFrame DEF topics, RepublishResult, DeadLetter, Ack, Tick

\* A status is written by a commit of reserve, or by a worker that holds the lock of
\* a PENDING reservation.
LEMMA StatusFrame ==
  ASSUME SafetyInv, [Next]_vars
  PROVE  \/ UNCHANGED status
         \/ \E r \in Reservations, new \in ReservationStatus :
               /\ status[r] \in {"NONE", "PENDING"}
               /\ status' = [status EXCEPT ![r] = new]
<1>a. \A w \in Lockers : pc[w] \in {"issue", "eventLocked"} =>
         target[w] \in Reservations /\ status[target[w]] = "PENDING"
  BY DEF SafetyInv, TypeOK, WorkersTypeOK, LockedRowsAreCurrent, HoldsCurrentRows
<1>1. ASSUME NEW r \in Reservations, CommitReservation(r)
      PROVE  status[r] = "NONE" /\ status' = [status EXCEPT ![r] = "PENDING"]
  BY <1>1 DEF CommitReservation, SaveReservation, SafetyInv, TypeOK, RowsTypeOK, RequestInv
<1>2. ASSUME NEW s \in Schedulers, CommitExpire(s)
      PROVE  /\ target[s] \in Reservations /\ status[target[s]] = "PENDING"
             /\ status' = [status EXCEPT ![target[s]] = "EXPIRED"]
  BY <1>a, <1>2 DEF CommitExpire, Lockers
<1>3. ASSUME NEW c \in Consumers, IssueTicket(c)
      PROVE  /\ target[c] \in Reservations /\ status[target[c]] = "PENDING"
             /\ status' = [status EXCEPT ![target[c]] = "TICKET_ISSUED"]
  BY <1>a, <1>3 DEF IssueTicket, Lockers
<1>4. ASSUME NEW c \in Consumers, Compensate(c)
      PROVE  /\ target[c] \in Reservations /\ status[target[c]] = "PENDING"
             /\ status' = [status EXCEPT ![target[c]] = "CANCELLED"]
  BY <1>a, <1>4 DEF Compensate, Lockers
<1>5. {"PENDING", "EXPIRED", "TICKET_ISSUED", "CANCELLED"} \subseteq ReservationStatus
  BY DEF ReservationStatus
<1>6. QED
  BY <1>1, <1>2, <1>3, <1>4, <1>5, RowsFrame DEF RecordOnly, rows

\* Only reservations with a result are delivered, and they have been inserted.
LEMMA DeliveredStep ==
  ASSUME ResultsInv, [Next]_vars
  PROVE  DeliveredInv'
<1> USE BookingAssumption DEF DeliveredInv
<1>a. /\ TopicsTypeOK /\ RowsTypeOK /\ WorkersTypeOK /\ DeliveredInv
      /\ \A c \in Consumers : HandlesResult(c)
      /\ \A w \in Lockers : HoldsCurrentRows(w)
  BY DEF ResultsInv, SafetyInv, TypeOK, WorkInv, LockedRowsAreCurrent
<1>b. \A r \in Reservations : result[r] # None => result'[r] # None
  BY <1>a, ResultFrame DEF TopicsTypeOK
<1>1. \A r \in unacked' : result'[r] # None
  <2>1. ASSUME NEW r \in Reservations, PublishResult(r) \/ RepublishResult(r)
        PROVE  \A q \in unacked' : result'[q] # None
    BY <2>1, <1>a, <1>b DEF PublishResult, RepublishResult, TopicsTypeOK
  <2>2. CASE unacked' \subseteq unacked
    BY <2>2, <1>a, <1>b DEF TopicsTypeOK
  <2>3. QED
    BY <2>1, <2>2, TopicsFrame DEF DeadLetter, Ack, Tick, topics
<1>2. \A r \in processed' : result'[r] # None
  <2>1. ASSUME NEW c \in Consumers, RecordOnly(c) \/ IssueTicket(c) \/ Compensate(c)
        PROVE  \A r \in processed' : result'[r] # None
    <3>1. pc[c] # "idle" /\ processed' = processed \cup {target[c]}
      BY <2>1 DEF RecordOnly, IssueTicket, Compensate
    <3>2. target[c] \in Reservations /\ result[target[c]] # None
      BY <1>a, <3>1 DEF HandlesResult, WorkersTypeOK, Lockers
    <3>3. QED
      BY <1>a, <1>b, <3>1, <3>2 DEF RowsTypeOK
  <2>2. CASE processed' = processed
    BY <2>2, <1>a, <1>b DEF RowsTypeOK
  <2>3. QED
    BY <2>1, <2>2, RowsFrame DEF CommitReservation, SaveReservation, CommitExpire, rows
<1>3. \A r \in Reservations : status'[r] = "NONE" => result'[r] = None
  <2>1. \A r \in Reservations : status'[r] = "NONE" => status[r] = "NONE"
    BY <1>a, StatusFrame DEF ReservationStatus, RowsTypeOK, ResultsInv
  <2>2. QED
    BY <2>1, <1>a, ResultFrame
<1>4. QED
  BY <1>1, <1>2, <1>3

\* What was true of the result a consumer works on stays true as long as the
\* consumer does not move.
LEMMA OthersKeepWork ==
  ASSUME ResultsInv, [Next]_vars, NEW c \in Consumers,
         pc'[c] = pc[c], target'[c] = target[c]
  PROVE  HandlesResult(c)'
<1>1. HandlesResult(c) /\ TopicsTypeOK /\ (pc[c] # "idle" => target[c] \in Reservations)
  BY DEF ResultsInv, WorkInv, SafetyInv, TypeOK, WorkersTypeOK, Lockers
<1>2. \A r \in Reservations : result[r] # None => result'[r] = result[r]
  BY <1>1, ResultFrame
<1>3. processed \subseteq processed'
  BY RowsFrame DEF rows, CommitReservation, SaveReservation, CommitExpire, RecordOnly,
                   IssueTicket, Compensate
<1>4. result' = result \/ pc[c] = "idle" \/ result'[target[c]] = result[target[c]]
  BY <1>1, <1>2 DEF HandlesResult
<1>5. QED
  BY <1>1, <1>2, <1>3, BookingAssumption DEF HandlesResult, TopicsTypeOK

\* A consumer in the middle of its handler has the result its place calls for, and
\* acknowledges only what is processed.
LEMMA WorkStep ==
  ASSUME ResultsInv, [Next]_vars
  PROVE  WorkInv'
<1>a. /\ WorkersTypeOK /\ TopicsTypeOK /\ DeliveredInv
      /\ \A s \in Schedulers : pc[s] \in {"idle", "reservationLocked", "eventLocked"}
      /\ \A c \in Consumers : HandlesResult(c)
  BY DEF ResultsInv, SafetyInv, TypeOK, WorkInv
<1>b. /\ pc \in [Lockers -> WorkerStates] /\ target \in [Lockers -> Reservations \cup {None}]
      /\ Schedulers \subseteq Lockers /\ Consumers \subseteq Lockers
      /\ \A s \in Schedulers : s \notin Consumers
  BY <1>a, BookingAssumption DEF WorkersTypeOK, Lockers
<1>1. CASE UNCHANGED <<pc, target>>
  BY <1>1, <1>a, OthersKeepWork DEF WorkInv
<1>2. ASSUME NEW s \in Schedulers,
             NEW next \in {"idle", "reservationLocked", "eventLocked"},
             pc' = [pc EXCEPT ![s] = next],
             \A c \in Consumers : target'[c] = target[c]
      PROVE  WorkInv'
  BY <1>2, <1>a, <1>b, OthersKeepWork DEF WorkInv
<1>3. ASSUME NEW s \in Schedulers, SchedulerStep(s) \/ ExpireFails(s) \/ CrashScheduler(s)
      PROVE  WorkInv'
  <2>1. CASE Scan(s) \/ SkipDue(s)
    BY <2>1, <1>1 DEF Scan, SkipDue
  <2>2. CASE BeginExpire(s)
    BY <2>2, <1>2, <1>b DEF BeginExpire, LockReservation
  <2>3. CASE LockEvent(s)
    BY <2>3, <1>2, <1>b DEF LockEvent
  <2>4. CASE CommitExpire(s)
    BY <2>4, <1>2, <1>b DEF CommitExpire
  <2>5. CASE ExpireFails(s) \/ CrashScheduler(s)
    BY <2>5, <1>2, <1>b DEF ExpireFails, CrashScheduler
  <2>6. QED
    BY <1>3, <2>1, <2>2, <2>3, <2>4, <2>5 DEF SchedulerStep
<1>4. ASSUME NEW c \in Consumers, NEW next \in WorkerStates,
             pc' = [pc EXCEPT ![c] = next],
             \A d \in Consumers \ {c} : target'[d] = target[d],
             HandlesResult(c)'
      PROVE  WorkInv'
  BY <1>4, <1>a, <1>b, OthersKeepWork DEF WorkInv
<1>5. ASSUME NEW c \in Consumers, HandlesResult(c)',
             \/ ConsumerStep(c) \/ DeliveryFails(c) \/ CrashConsumer(c)
             \/ \E r \in Reservations : Poll(c, r)
      PROVE  WorkInv'
  <2> USE <1>4, <1>b DEF WorkerStates
  <2>1. CASE CheckProcessed(c)
    BY <2>1, <1>5 DEF CheckProcessed
  <2>2. CASE BeginResult(c)
    BY <2>2, <1>5 DEF BeginResult, LockReservation
  <2>3. CASE RecordOnly(c)
    BY <2>3, <1>5 DEF RecordOnly
  <2>4. CASE IssueTicket(c)
    BY <2>4, <1>5 DEF IssueTicket
  <2>5. CASE LockEvent(c)
    BY <2>5, <1>5 DEF LockEvent
  <2>6. CASE Compensate(c)
    BY <2>6, <1>5 DEF Compensate
  <2>7. CASE Reject(c) \/ DeliveryFails(c)
    BY <2>7, <1>5 DEF Reject, DeliveryFails, FailAttempt
  <2>8. CASE DeadLetter(c) \/ Ack(c) \/ CrashConsumer(c)
    BY <2>8, <1>5 DEF DeadLetter, Ack, CrashConsumer
  <2>9. ASSUME NEW r \in Reservations, Poll(c, r)
        PROVE  WorkInv'
    BY <2>9, <1>5 DEF Poll
  <2>10. QED
    BY <1>5, <2>1, <2>2, <2>3, <2>4, <2>5, <2>6, <2>7, <2>8, <2>9 DEF ConsumerStep
<1>6. ASSUME NEW c \in Consumers,
             \/ ConsumerStep(c) \/ DeliveryFails(c) \/ CrashConsumer(c)
             \/ \E r \in Reservations : Poll(c, r)
      PROVE  HandlesResult(c)'
  <2>a. HandlesResult(c) /\ c \in Lockers
    BY <1>a, <1>b
  <2>1. CASE CheckProcessed(c)
    BY <2>1, <2>a, <1>b DEF CheckProcessed, HandlesResult, topics, rows
  <2>2. CASE BeginResult(c)
    BY <2>2, <2>a, <1>b DEF BeginResult, LockReservation, ToIssue, ToCancel, HandlesResult,
                            topics, rows
  <2>3. CASE RecordOnly(c)
    BY <2>3, <2>a, <1>b DEF RecordOnly, HandlesResult, topics
  <2>4. CASE IssueTicket(c)
    BY <2>4, <2>a, <1>b DEF IssueTicket, HandlesResult, topics
  <2>5. CASE LockEvent(c)
    BY <2>5, <2>a, <1>b DEF LockEvent, HandlesResult, topics, rows
  <2>6. CASE Compensate(c)
    BY <2>6, <2>a, <1>b DEF Compensate, HandlesResult, topics
  <2>7. CASE Reject(c) \/ DeliveryFails(c)
    BY <2>7, <2>a, <1>b DEF Reject, DeliveryFails, FailAttempt, HandlesResult, topics, rows
  <2>8. CASE DeadLetter(c) \/ Ack(c) \/ CrashConsumer(c)
    BY <2>8, <1>b DEF DeadLetter, Ack, CrashConsumer, HandlesResult
  <2>9. ASSUME NEW r \in Reservations, Poll(c, r)
        PROVE  HandlesResult(c)'
    BY <2>9, <1>a, <1>b DEF Poll, HandlesResult, DeliveredInv, topics, rows
  <2>10. QED
    BY <1>6, <2>1, <2>2, <2>3, <2>4, <2>5, <2>6, <2>7, <2>8, <2>9 DEF ConsumerStep
<1>7. QED
  BY <1>1, <1>3, <1>5, <1>6, WorkersFrame

\* A ticket and a cancellation are committed with their marker.
MarkedIfEnded ==
    \A r \in Reservations : status[r] \in {"TICKET_ISSUED", "CANCELLED"} => r \in processed

LEMMA MarkedStep ==
  ASSUME RowsTypeOK, WorkersTypeOK, MarkedIfEnded, [Next]_vars
  PROVE  MarkedIfEnded'
<1> USE DEF MarkedIfEnded
<1>1. CASE UNCHANGED rows
  BY <1>1 DEF rows
<1>2. ASSUME NEW r \in Reservations, CommitReservation(r)
      PROVE  MarkedIfEnded'
  BY <1>2 DEF CommitReservation, SaveReservation, RowsTypeOK
<1>3. ASSUME NEW s \in Schedulers, CommitExpire(s)
      PROVE  MarkedIfEnded'
  BY <1>3 DEF CommitExpire, RowsTypeOK
<1>4. ASSUME NEW c \in Consumers, RecordOnly(c) \/ IssueTicket(c) \/ Compensate(c)
      PROVE  MarkedIfEnded'
  BY <1>4 DEF RecordOnly, IssueTicket, Compensate, RowsTypeOK
<1>5. QED
  BY <1>1, <1>2, <1>3, <1>4, RowsFrame

\* The end of a reservation is final, so a marker keeps its effect.
LEMMA MarkerStep ==
  ASSUME ResultsInv, [Next]_vars
  PROVE  MarkersMatchEffects'
<1>a. /\ RowsTypeOK /\ WorkersTypeOK /\ TopicsTypeOK /\ MarkersMatchEffects /\ SafetyInv
      /\ \A c \in Consumers : HandlesResult(c)
      /\ \A w \in Lockers : HoldsCurrentRows(w)
  BY DEF ResultsInv, SafetyInv, TypeOK, WorkInv, LockedRowsAreCurrent
<1> DEFINE Effect(r) ==
             /\ result[r] # None
             /\ result[r].amountMatches
             /\ status[r] \in IF result[r].type = "PaymentReceived"
                             THEN {"TICKET_ISSUED"} ELSE {"CANCELLED", "EXPIRED"}
<1>b. /\ \A r \in processed : Effect(r)
      /\ (\A r \in processed' : Effect(r)') /\ MarkedIfEnded' => MarkersMatchEffects'
  BY <1>a DEF MarkersMatchEffects, MarkedIfEnded
<1>c. MarkedIfEnded'
  BY <1>a, MarkedStep DEF MarkersMatchEffects, MarkedIfEnded
<1>1. \A r \in processed : Effect(r)'
  <2>1. \A r \in processed : r \in Reservations /\ status[r] \notin {"NONE", "PENDING"}
    BY <1>a, <1>b DEF RowsTypeOK
  <2>2. \A r \in processed : status'[r] = status[r]
    BY <1>a, <2>1, StatusFrame DEF RowsTypeOK
  <2>3. \A r \in processed : result'[r] = result[r]
    BY <1>a, <1>b, <2>1, ResultFrame
  <2>4. QED
    BY <1>b, <2>2, <2>3
<1>2. ASSUME NEW c \in Consumers, RecordOnly(c) \/ IssueTicket(c) \/ Compensate(c),
             NEW r, r = target[c]
      PROVE  processed' = processed \cup {r} /\ Effect(r)'
  <2>1. /\ pc[c] # "idle" /\ processed' = processed \cup {r} /\ result' = result
    BY <1>2 DEF RecordOnly, IssueTicket, Compensate, topics
  <2>2. /\ r \in Reservations /\ HandlesResult(c) /\ c \in Lockers
        /\ result[r] \in PaymentResult /\ result[r] # None
    BY <1>a, <1>2, <2>1 DEF WorkersTypeOK, TopicsTypeOK, HandlesResult, Lockers
  <2>3. CASE RecordOnly(c)
    BY <1>2, <2>1, <2>2, <2>3 DEF RecordOnly, AlreadyDone
  <2>4. CASE IssueTicket(c)
    BY <1>2, <2>1, <2>2, <2>4, <1>a DEF IssueTicket, HandlesResult, RowsTypeOK
  <2>5. CASE Compensate(c)
    BY <1>2, <2>1, <2>2, <2>5, <1>a DEF Compensate, HandlesResult, RowsTypeOK
  <2>6. QED
    BY <1>2, <2>1, <2>3, <2>4, <2>5
<1>3. CASE processed' = processed
  BY <1>1, <1>3, <1>b, <1>c
<1>4. ASSUME NEW c \in Consumers, RecordOnly(c) \/ IssueTicket(c) \/ Compensate(c)
      PROVE  MarkersMatchEffects'
  <2>1. \E r : processed' = processed \cup {r} /\ Effect(r)'
    BY <1>2, <1>4
  <2>2. \A r \in processed' : Effect(r)'
    BY <1>1, <2>1
  <2>3. QED
    BY <1>b, <1>c, <2>2
<1>5. QED
  BY <1>3, <1>4, RowsFrame DEF CommitReservation, SaveReservation, CommitExpire, rows

\* An offset is committed only after the marker or the dead letter.
LEMMA LostStep ==
  ASSUME ResultsInv, [Next]_vars
  PROVE  ResultNeverLost'
<1>a. /\ WorkersTypeOK /\ TopicsTypeOK /\ ResultNeverLost
      /\ \A c \in Consumers : HandlesResult(c)
  BY DEF ResultsInv, SafetyInv, TypeOK, WorkInv
<1>b. processed \subseteq processed'
  BY RowsFrame DEF rows, CommitReservation, SaveReservation, CommitExpire, RecordOnly,
                   IssueTicket, Compensate
<1>1. ASSUME NEW r \in Reservations, PublishResult(r) \/ RepublishResult(r)
      PROVE  ResultNeverLost'
  BY <1>1, <1>a, <1>b DEF PublishResult, RepublishResult, ResultNeverLost, TopicsTypeOK
<1>2. ASSUME NEW c \in Consumers, DeadLetter(c)
      PROVE  ResultNeverLost'
  BY <1>2, <1>a, <1>b DEF DeadLetter, ResultNeverLost
<1>3. ASSUME NEW c \in Consumers, Ack(c)
      PROVE  ResultNeverLost'
  <2>1. target[c] \in processed
    BY <1>3, <1>a DEF Ack, HandlesResult
  <2>2. QED
    BY <1>3, <1>a, <1>b, <2>1 DEF Ack, ResultNeverLost
<1>4. CASE UNCHANGED topics
  BY <1>4, <1>a, <1>b DEF topics, ResultNeverLost
<1>5. QED
  BY <1>1, <1>2, <1>3, <1>4, TopicsFrame DEF Tick

\* The inductive invariant of the deliveries holds in every reachable state.
THEOREM ResultsInvariant == Spec => []ResultsInv
<1>1. Init => SafetyInv
  BY SafetyInit
<1>2. Init => ResultsInv
  <2> SUFFICES ASSUME Init
               PROVE  ResultsInv
    OBVIOUS
  <2>1. DeliveredInv /\ ResultNeverLost /\ MarkersMatchEffects
    BY DEF Init, DeliveredInv, ResultNeverLost, MarkersMatchEffects
  <2>2. WorkInv
    BY DEF Init, WorkInv, HandlesResult, Lockers
  <2>3. OutboxTellsStatus
    BY DEF Init, OutboxTellsStatus, Story
  <2>4. QED
    BY <1>1, <2>1, <2>2, <2>3 DEF ResultsInv
<1>3. ResultsInv /\ [Next]_vars => ResultsInv'
  BY SafetyStep, DeliveredStep, WorkStep, OutboxStep, MarkerStep, LostStep DEF ResultsInv
<1>4. QED
  BY <1>2, <1>3, PTL DEF Spec

\* The outbox tells the status of every reservation exactly (BookingOutboxRecorder in
\* the transaction of reserve, expire, processPaymentReceived, processPaymentFailed).
THEOREM OutboxIsFaithful == Spec => []OutboxTellsStatus
BY ResultsInvariant, PTL DEF ResultsInv

\* No marker without its effect, no ticket and no cancellation without its marker
\* (ProcessedEvent saved with the change it marks).
THEOREM MarkersAreTrue == Spec => []MarkersMatchEffects
BY ResultsInvariant, PTL DEF ResultsInv

\* No published result is lost between Kafka, the database and the dead letter topic
\* (the offset follows the transaction or the recoverer).
THEOREM NoResultLost == Spec => []ResultNeverLost
BY ResultsInvariant, PTL DEF ResultsInv

-----------------------------------------------------------------------------
(* Optimistic attempts.                                                    *)

\* An open attempt was begun on a version that earlier failures had already passed.
TriesInv ==
    \A r \in Reservations :
        /\ tries[r] + since[r] <= version[EventOf[r]] + 1
        /\ request[r] = "new" => tries[r] = 1
        /\ request[r] = "opened" => tries[r] + since[r] <= seen[r].version + 1

\* The version of an event row never goes back.
LEMMA VersionGrows ==
  ASSUME SafetyInv, [Next]_vars, NEW e \in Events
  PROVE  version[e] \in Nat /\ version'[e] \in Nat /\ version[e] <= version'[e]
<1>a. /\ RowsTypeOK /\ RowsTypeOK' /\ WorkersTypeOK
      /\ \A w \in Lockers : HoldsCurrentRows(w)
  BY SafetyStep DEF SafetyInv, TypeOK, LockedRowsAreCurrent
<1>1. ASSUME NEW r \in Reservations, CommitReservation(r)
      PROVE  version[e] <= version'[e]
  BY <1>1, <1>a, BookingAssumption DEF CommitReservation, SaveReservation, RowsTypeOK
<1>2. ASSUME NEW w \in Lockers, pc[w] = "eventLocked", Release(w, target[w])
      PROVE  version[e] <= version'[e]
  <2>a. HoldsCurrentRows(w)
    BY <1>a
  <2>1. seen[w].version = version[EventOf[target[w]]]
    BY <1>2, <2>a DEF HoldsCurrentRows, ReadEvent
  <2>2. QED
    BY <1>2, <1>a, <2>1, BookingAssumption DEF Release, RowsTypeOK
<1>3. CASE UNCHANGED version
  BY <1>3, <1>a DEF RowsTypeOK
<1>4. ASSUME NEW s \in Schedulers, CommitExpire(s)
      PROVE  version[e] <= version'[e]
  BY <1>2, <1>4 DEF CommitExpire, Lockers
<1>5. ASSUME NEW c \in Consumers, Compensate(c)
      PROVE  version[e] <= version'[e]
  BY <1>2, <1>5 DEF Compensate, Lockers
<1>6. QED
  BY <1>1, <1>3, <1>4, <1>5, <1>a, RowsFrame DEF RecordOnly, IssueTicket, rows, RowsTypeOK

\* An attempt is lost only to a version that has moved.
LEMMA TriesStep ==
  ASSUME SafetyInv, TriesInv, [Next]_vars
  PROVE  TriesInv'
<1>a. /\ RowsTypeOK /\ RequestsTypeOK /\ RequestsTypeOK' /\ VersionGuardsStock
      /\ \A r \in Reservations : EventOf[r] \in Events
  BY SafetyStep, BookingAssumption DEF SafetyInv, TypeOK
<1>b. \A r \in Reservations :
         /\ tries[r] \in Nat /\ since[r] \in Nat /\ seen[r].version \in Nat
         /\ version[EventOf[r]] \in Nat /\ version'[EventOf[r]] \in Nat
         /\ version[EventOf[r]] <= version'[EventOf[r]]
  BY <1>a, VersionGrows DEF RequestsTypeOK, EventRow
<1>1. ASSUME tries' = tries, since' = since,
             \A r \in Reservations :
                /\ request'[r] = "new" => request[r] = "new"
                /\ request'[r] = "opened" => request[r] = "opened" /\ seen'[r] = seen[r]
      PROVE  TriesInv'
  BY <1>1, <1>b DEF TriesInv
<1>2. ASSUME NEW r \in Reservations, LoseRace(r)
      PROVE  TriesInv'
  <2>1. seen[r].version < version[EventOf[r]] /\ tries[r] + since[r] <= seen[r].version + 1
    BY <1>2, <1>a, <1>b DEF LoseRace, VersionGuardsStock, TriesInv
  <2>2. /\ tries'[r] <= tries[r] + 1 /\ tries'[r] \in Nat /\ request'[r] \notin {"new", "opened"}
        /\ seen' = seen /\ version' = version /\ since' = since
        /\ \A q \in Reservations \ {r} : tries'[q] = tries[q] /\ request'[q] = request[q]
    BY <1>2, <1>a, <1>b DEF LoseRace, RequestsTypeOK, rows
  <2>3. QED
    BY <1>b, <2>1, <2>2 DEF TriesInv
<1>3. ASSUME NEW r \in Reservations, OpenReservation(r)
      PROVE  TriesInv'
  <2>1. /\ tries' = tries /\ version' = version
        /\ request'[r] = "opened" /\ seen'[r].version = version[EventOf[r]]
        /\ since'[r] = IF request[r] = "new" THEN version[EventOf[r]] ELSE since[r]
        /\ \A q \in Reservations \ {r} :
              request'[q] = request[q] /\ seen'[q] = seen[q] /\ since'[q] = since[q]
    BY <1>3, <1>a DEF OpenReservation, RequestsTypeOK, ReadEvent, rows
  <2>2. QED
    BY <1>b, <2>1 DEF TriesInv
<1>4. ASSUME NEW r \in Reservations,
             SoldOut(r) \/ CommitReservation(r) \/ AbandonRequest(r)
      PROVE  TriesInv'
  BY <1>1, <1>4, <1>a DEF SoldOut, CommitReservation, SaveReservation, AbandonRequest,
                          RequestsTypeOK
<1>5. ASSUME NEW w \in Lockers, LockEvent(w)
      PROVE  TriesInv'
  BY <1>1, <1>5, <1>a, BookingAssumption DEF LockEvent, RequestsTypeOK, requests
<1>6. CASE UNCHANGED <<requests, seen>>
  BY <1>1, <1>6 DEF requests
<1>7. QED
  BY <1>2, <1>3, <1>4, <1>5, <1>6, RequestsFrame DEF RequestStep

\* A request answered 409 for conflicts has seen at least ReserveAttempts - 1 commits of
\* others since its first attempt (@Retryable on reserve).
THEOREM ConflictsAreCommits == Spec => []ConflictsComeFromCommits
<1>1. Init => TriesInv
  BY BookingAssumption DEF Init, TriesInv
<1>2. SafetyInv /\ TriesInv /\ [Next]_vars => TriesInv'
  BY TriesStep
<1>3. SafetyInv /\ TriesInv => ConflictsComeFromCommits
  BY BookingAssumption DEF SafetyInv, TypeOK, RowsTypeOK, RequestsTypeOK, TriesInv, ConflictsComeFromCommits
<1>4. QED
  BY <1>1, <1>2, <1>3, SafetyInvariant, PTL DEF Spec

-----------------------------------------------------------------------------
(* Deadlines.                                                              *)

\* A scheduler compares with an instant that is past, and the deadline of a
\* reservation it has locked for expiration has passed.
DeadlineInv ==
    \A s \in Schedulers :
        /\ scanTime[s] <= clock
        /\ pc[s] \in {"reservationLocked", "eventLocked"} => expiresAt[target[s]] <= clock

\* The deadline of an inserted reservation never moves, and time does not go back.
LEMMA DeadlineFrame ==
  ASSUME SafetyInv, [Next]_vars
  PROVE  /\ \A r \in Reservations : status[r] # "NONE" => expiresAt'[r] = expiresAt[r]
         /\ clock \in Nat /\ clock' \in Nat /\ clock <= clock'
<1>a. RequestsTypeOK /\ TopicsTypeOK /\ TopicsTypeOK' /\ RequestInv
  BY SafetyStep DEF SafetyInv, TypeOK
<1>1. clock \in Nat /\ clock' \in Nat /\ clock <= clock'
  <2>1. clock' = clock \/ clock' = clock + 1
    BY TopicsFrame DEF topics, PublishResult, RepublishResult, DeadLetter, Ack, Tick
  <2>2. QED
    BY <1>a, <2>1 DEF TopicsTypeOK
<1>2. ASSUME NEW r \in Reservations, OpenReservation(r)
      PROVE  \A q \in Reservations : status[q] # "NONE" => expiresAt'[q] = expiresAt[q]
  BY <1>2, <1>a DEF OpenReservation, RequestsTypeOK, RequestInv
<1>3. QED
  BY <1>1, <1>2, RequestsFrame
     DEF requests, RequestStep, SoldOut, CommitReservation, SaveReservation, LoseRace,
         AbandonRequest, LockEvent

\* Every step keeps the schedulers behind the clock.
LEMMA DeadlineStep ==
  ASSUME ResultsInv, DeadlineInv, [Next]_vars
  PROVE  DeadlineInv'
<1>a. /\ WorkersTypeOK /\ TopicsTypeOK /\ WorkersTypeOK' /\ SafetyInv
      /\ \A w \in Lockers : HoldsCurrentRows(w)
      /\ \A s \in Schedulers : s \in Lockers /\ s \notin Consumers
  BY SafetyStep, BookingAssumption DEF ResultsInv, SafetyInv, TypeOK, LockedRowsAreCurrent,
                                       Lockers
<1>b. /\ \A r \in Reservations : status[r] # "NONE" => expiresAt'[r] = expiresAt[r]
      /\ clock \in Nat /\ clock' \in Nat /\ clock <= clock'
  BY <1>a, DeadlineFrame
<1>1. ASSUME NEW s \in Schedulers, pc'[s] = pc[s], target'[s] = target[s],
             scanTime'[s] = scanTime[s]
      PROVE  /\ scanTime'[s] <= clock'
             /\ pc'[s] \in {"reservationLocked", "eventLocked"} =>
                   expiresAt'[target'[s]] <= clock'
  <2>1. scanTime[s] \in Nat /\ scanTime[s] <= clock
    BY <1>a DEF WorkersTypeOK, DeadlineInv
  <2>2. CASE pc[s] \in {"reservationLocked", "eventLocked"}
    <3>1. target[s] \in Reservations /\ status[target[s]] = "PENDING"
      BY <2>2, <1>a DEF WorkersTypeOK, HoldsCurrentRows
    <3>2. expiresAt[target[s]] <= clock /\ expiresAt[target[s]] \in Nat
      BY <2>2, <3>1, <1>a DEF DeadlineInv, SafetyInv, TypeOK, RequestsTypeOK
    <3>3. QED
      BY <1>1, <1>b, <2>1, <3>1, <3>2
  <2>3. QED
    BY <1>1, <1>b, <2>1, <2>2
<1>2. ASSUME NEW s \in Schedulers, Scan(s)
      PROVE  DeadlineInv'
  <2>1. scanTime'[s] <= clock' /\ pc'[s] = "idle"
    BY <1>2, <1>a, <1>b DEF Scan, WorkersTypeOK
  <2>2. \A t \in Schedulers \ {s} :
           pc'[t] = pc[t] /\ target'[t] = target[t] /\ scanTime'[t] = scanTime[t]
    BY <1>2, <1>a DEF Scan, WorkersTypeOK
  <2>3. QED
    BY <1>1, <2>1, <2>2 DEF DeadlineInv
<1>3. ASSUME NEW s \in Schedulers, BeginExpire(s)
      PROVE  DeadlineInv'
  <2>1. PICK r \in Reservations :
           Expirable(r, scanTime[s]) /\ LockReservation(s, r, "reservationLocked")
    BY <1>3 DEF BeginExpire
  <2>2. /\ target'[s] = r /\ scanTime' = scanTime /\ expiresAt' = expiresAt /\ clock' = clock
        /\ \A t \in Schedulers \ {s} : pc'[t] = pc[t] /\ target'[t] = target[t]
    BY <2>1, <1>a DEF LockReservation, WorkersTypeOK, scans, requests
  <2>3. scanTime[s] <= clock /\ scanTime[s] \in Nat /\ expiresAt[r] <= scanTime[s]
        /\ expiresAt[r] \in Nat
    BY <2>1, <1>a DEF Expirable, DeadlineInv, WorkersTypeOK, SafetyInv, TypeOK, RequestsTypeOK
  <2>4. QED
    BY <1>1, <1>b, <2>2, <2>3 DEF DeadlineInv
<1>4. ASSUME NEW s \in Schedulers, LockEvent(s)
      PROVE  DeadlineInv'
  BY <1>4, <1>a DEF LockEvent, WorkersTypeOK, scans, requests, DeadlineInv
<1>5. ASSUME NEW s \in Schedulers,
             CommitExpire(s) \/ ExpireFails(s) \/ CrashScheduler(s)
      PROVE  DeadlineInv'
  <2>1. pc'[s] = "idle" /\ scanTime' = scanTime /\ clock' = clock
        /\ \A t \in Schedulers \ {s} : pc'[t] = pc[t] /\ target'[t] = target[t]
    BY <1>5, <1>a DEF CommitExpire, ExpireFails, CrashScheduler, WorkersTypeOK
  <2>2. QED
    BY <1>1, <2>1 DEF DeadlineInv
<1>6. CASE \A s \in Schedulers :
              pc'[s] = pc[s] /\ target'[s] = target[s] /\ scanTime'[s] = scanTime[s]
  BY <1>1, <1>6 DEF DeadlineInv
<1>7. ASSUME NEW c \in Consumers,
             \/ ConsumerStep(c) \/ DeliveryFails(c) \/ CrashConsumer(c)
             \/ \E r \in Reservations : Poll(c, r)
      PROVE  DeadlineInv'
  BY <1>6, <1>7, <1>a
     DEF ConsumerStep, CheckProcessed, BeginResult, LockReservation, RecordOnly, IssueTicket,
         LockEvent, Compensate, Reject, DeliveryFails, FailAttempt, DeadLetter, Ack,
         CrashConsumer, Poll, WorkersTypeOK, scans
<1>8. QED
  BY <1>2, <1>3, <1>4, <1>5, <1>6, <1>7, WorkersFrame DEF SchedulerStep, SkipDue, scans

\* A reservation never expires before its deadline, however old the list the scheduler
\* walks (findExpiredIds, then expire under the lock).
THEOREM ExpiresInTime == Spec => NeverExpiresEarly
<1>1. Init => DeadlineInv
  BY DEF Init, DeadlineInv, Lockers
<1>2. ResultsInv /\ DeadlineInv /\ [Next]_vars => DeadlineInv'
  BY DeadlineStep
<1>3. ASSUME ResultsInv, DeadlineInv, [Next]_vars, NEW r \in Reservations,
             status[r] # "EXPIRED", status'[r] = "EXPIRED"
      PROVE  expiresAt[r] <= clock
  <2>1. RowsTypeOK
    BY <1>3 DEF ResultsInv, SafetyInv, TypeOK
  <2>2. PICK s \in Schedulers : CommitExpire(s)
    BY <1>3, <2>1, RowsFrame
       DEF CommitReservation, SaveReservation, RecordOnly, IssueTicket, Compensate, rows,
           RowsTypeOK
  <2>3. QED
    BY <1>3, <2>1, <2>2 DEF CommitExpire, DeadlineInv, RowsTypeOK
<1>4. ResultsInv /\ DeadlineInv /\ [Next]_vars =>
         [\A r \in Reservations :
             status[r] # "EXPIRED" /\ status'[r] = "EXPIRED" => expiresAt[r] <= clock]_vars
  BY <1>3
<1>5. QED
  BY <1>1, <1>2, <1>4, ResultsInvariant, PTL DEF Spec, NeverExpiresEarly
=============================================================================
