---------------------------- MODULE PaymentService --------------------------
(***************************************************************************)
(* payment-service: its consumer of SeatReserved (three attempts, then the *)
(* dead letter queue) and POST /payments decide the payment of a           *)
(* reservation in the same table.  The consumer also writes the result     *)
(* for booking into the outbox, in the transaction of the payment.         *)
(*                                                                         *)
(* A record of Kafka is <<r, n>>: reservation r, and n attempts already    *)
(* counted in its header x-retry-count.  Several consumers are the         *)
(* instances of a rolling update, which can handle the same record.  A     *)
(* transaction is split where it reads; its writes appear at the commit,   *)
(* and an insert that meets a unique row fails then, as it would after     *)
(* waiting for the transaction that has inserted it.                       *)
(***************************************************************************)
EXTENDS Integers

CONSTANTS
    Reservations,
    Consumers,    \* running instances of the consumer
    Posts,        \* clients of POST /payments
    PostFor,      \* PostFor[p]: the reservation p pays
    Amounts,
    Stored,       \* Stored[a]: what the column numeric(12,2) makes of amount a
    Due,          \* the amount in SeatReserved
    Deadline,     \* Deadline[r]: expiresAt
    MaxAttempts,  \* KAFKA_MAX_ATTEMPTS (3)
    MaxTime,      \* bound: the last instant of the clock
    None

ASSUME PaymentAssumption ==
    /\ PostFor \in [Posts -> Reservations]
    /\ Stored \in [Amounts -> Amounts]
    /\ Due \in Amounts /\ Stored[Due] = Due  \* Reservation.open has rounded it
    /\ Deadline \in [Reservations -> Nat]
    /\ MaxAttempts \in Nat \ {0}
    /\ MaxTime \in Nat
    /\ None \notin Reservations

PaymentStatus == {"RECEIVED", "REJECTED"}
Payment == [status : PaymentStatus, amount : Amounts]

ASSUME NoPayment == None \notin Payment

\* The row made of an entity. save() fills in what the database generates and leaves
\* the amount of the entity as it was given.
Row(entity) == [entity EXCEPT !.amount = Stored[@]]

VARIABLES
    clock,      \* wall clock
    payment,    \* table payments: payment[r] or None (reservationId is unique)
    outbox,     \* table outbox: the result recorded for r, or None (eventId is the payment's id)
    lateRows,   \* rows of the outbox written by a call that had found r expired
    announced,  \* reservations of which SeatReserved was ever published
    topic,      \* booking.seat-reserved: records whose offset is not committed
    dlq,        \* reservations of the records copied to the dead letter queue
    pc,         \* pc[c]: where eachMessage is
    record,     \* record[c]: the record in hand
    attempt,    \* attempt[c]: the attempt of this call
    late,       \* late[c]: has this attempt found the reservation expired
    faulted,    \* faulted[c]: has an attempt of this call failed otherwise than by a race
    done,       \* done[c]: records handled by c, offset not committed
    post,       \* post[p]: where the request is
    offer,      \* offer[p]: the amount in the body of the request
    answer      \* answer[p]: the payment the client was shown

calls == <<pc, record, attempt, late, faulted, done>>
posts == <<post, offer, answer>>
tables == <<payment, outbox, lateRows>>
kafka == <<announced, topic, dlq>>
paymentVars == <<clock, tables, kafka, calls, posts>>

Records == Reservations \X (0..MaxAttempts)
Target(c) == record[c][1]

PaymentTypeOK ==
    /\ clock \in 0..MaxTime
    /\ payment \in [Reservations -> Payment \cup {None}]
    /\ outbox \in [Reservations -> Payment \cup {None}]
    /\ lateRows \subseteq Reservations
    /\ announced \subseteq Reservations
    /\ topic \subseteq Records
    /\ dlq \subseteq Reservations
    /\ pc \in [Consumers -> {"idle", "polled", "checked", "create", "found", "insert", "toDlq"}]
    /\ record \in [Consumers -> Records \cup {None}]
    /\ \A c \in Consumers : pc[c] # "idle" => record[c] \in Records
    /\ attempt \in [Consumers -> 0..MaxAttempts]
    /\ late \in [Consumers -> BOOLEAN]
    /\ faulted \in [Consumers -> BOOLEAN]
    /\ done \in [Consumers -> SUBSET Records]
    /\ post \in [Posts -> {"idle", "create", "created", "existing"}]
    /\ offer \in [Posts -> Amounts]
    /\ answer \in [Posts -> Payment \cup {None}]

Init ==
    /\ clock = 0
    /\ payment = [r \in Reservations |-> None]
    /\ outbox = [r \in Reservations |-> None]
    /\ lateRows = {}
    /\ announced = {}
    /\ topic = {}
    /\ dlq = {}
    /\ pc = [c \in Consumers |-> "idle"]
    /\ record = [c \in Consumers |-> None]
    /\ attempt = [c \in Consumers |-> 0]
    /\ late = [c \in Consumers |-> FALSE]
    /\ faulted = [c \in Consumers |-> FALSE]
    /\ done = [c \in Consumers |-> {}]
    /\ post = [p \in Posts |-> "idle"]
    /\ offer = [p \in Posts |-> Due]
    /\ answer = [p \in Posts |-> None]

-----------------------------------------------------------------------------
(* Environment.                                                            *)

Tick ==
    /\ clock < MaxTime
    /\ clock' = clock + 1
    /\ UNCHANGED <<tables, kafka, calls, posts>>

\* The relay of booking publishes SeatReserved, perhaps again (see OutboxRelay).
Announce(r) ==
    /\ <<r, 0>> \notin topic
    /\ topic' = topic \cup {<<r, 0>>}
    /\ announced' = announced \cup {r}
    /\ UNCHANGED <<clock, tables, dlq, calls, posts>>

\* An operator puts a dead letter back, with its headers.
Replay(r) ==
    /\ r \in dlq
    /\ <<r, MaxAttempts>> \notin topic
    /\ topic' = topic \cup {<<r, MaxAttempts>>}
    /\ UNCHANGED <<clock, tables, announced, dlq, calls, posts>>

-----------------------------------------------------------------------------
(* Consumer.                                                               *)

\* eachMessage is called; a record without attempts left goes to the dead letter queue.
Poll(c) ==
    /\ pc[c] = "idle"
    /\ \E m \in topic \ done[c] :
        /\ record' = [record EXCEPT ![c] = m]
        /\ attempt' = [attempt EXCEPT ![c] = IF m[2] < MaxAttempts THEN m[2] + 1 ELSE m[2]]
        /\ pc' = [pc EXCEPT ![c] = IF m[2] < MaxAttempts THEN "polled" ELSE "toDlq"]
    /\ UNCHANGED <<clock, tables, kafka, late, faulted, done, posts>>

\* handleSeatReserved compares expiresAt with the clock before the transaction begins.
Check(c) ==
    /\ pc[c] = "polled"
    /\ late' = [late EXCEPT ![c] = Deadline[Target(c)] <= clock]
    /\ pc' = [pc EXCEPT ![c] = "checked"]
    /\ UNCHANGED <<clock, tables, kafka, record, attempt, faulted, done, posts>>

\* authorize: is there a payment of this reservation?
Read(c) ==
    /\ pc[c] = "checked"
    /\ pc' = [pc EXCEPT ![c] = IF payment[Target(c)] = None THEN "create" ELSE "found"]
    /\ UNCHANGED <<clock, tables, kafka, record, attempt, late, faulted, done, posts>>

\* The call ends, and with it its local state.
Leave(c) ==
    /\ pc' = [pc EXCEPT ![c] = "idle"]
    /\ record' = [record EXCEPT ![c] = None]
    /\ attempt' = [attempt EXCEPT ![c] = 0]
    /\ late' = [late EXCEPT ![c] = FALSE]
    /\ faulted' = [faulted EXCEPT ![c] = FALSE]

\* eachMessage returns.
Return(c) ==
    /\ Leave(c)
    /\ done' = [done EXCEPT ![c] = @ \cup {record[c]}]
    /\ UNCHANGED <<clock, announced, topic, posts>>

Finish(c) == Return(c) /\ UNCHANGED dlq

\* The result of r is in the outbox.
Enqueue(c, r, result) ==
    /\ outbox' = [outbox EXCEPT ![r] = result]
    /\ lateRows' = IF late[c] THEN lateRows \cup {r} ELSE lateRows

\* Mutant: the payment is inserted over one that exists.
CreateAgain(c) ==
    /\ pc[c] = "create"
    /\ \E s \in IF late[c] THEN {"REJECTED"} ELSE PaymentStatus :
        LET new == [status |-> s, amount |-> Due] IN
        /\ payment' = [payment EXCEPT ![Target(c)] = Row(new)]
        /\ Enqueue(c, Target(c), new)
    /\ Finish(c)

\* No payment yet: payment and result are committed together. The threshold and the
\* random rate refuse some payments; an expired reservation is always refused.
Create(c) ==
    /\ pc[c] = "create"
    /\ payment[Target(c)] = None
    /\ \E s \in IF late[c] THEN {"REJECTED"} ELSE PaymentStatus :
        LET new == [status |-> s, amount |-> Due] IN
        /\ payment' = [payment EXCEPT ![Target(c)] = Row(new)]
        /\ Enqueue(c, Target(c), new)
    /\ Finish(c)

\* Mutant: nothing is left to do when the payment exists.
LookUpSkips(c) ==
    /\ pc[c] = "found"
    /\ Finish(c)
    /\ UNCHANGED tables

\* The payment exists: has its result been recorded?
LookUp(c) ==
    /\ pc[c] = "found"
    /\ \/ /\ outbox[Target(c)] # None
          /\ Finish(c)
       \/ /\ outbox[Target(c)] = None
          /\ pc' = [pc EXCEPT ![c] = "insert"]
          /\ UNCHANGED <<clock, kafka, record, attempt, late, faulted, done, posts>>
    /\ UNCHANGED tables

\* The result of a payment that POST /payments has created.
Insert(c) ==
    /\ pc[c] = "insert"
    /\ outbox[Target(c)] = None
    /\ Enqueue(c, Target(c), payment[Target(c)])
    /\ Finish(c)
    /\ UNCHANGED payment

\* Mutant: the budget is one attempt shorter.
AttemptFailsEarly(c) ==
    /\ IF attempt[c] + 1 >= MaxAttempts
         THEN /\ pc' = [pc EXCEPT ![c] = "toDlq"]
              /\ UNCHANGED attempt
         ELSE /\ pc' = [pc EXCEPT ![c] = "polled"]
              /\ attempt' = [attempt EXCEPT ![c] = @ + 1]
    /\ UNCHANGED <<clock, tables, kafka, record, late, done, posts>>

\* The transaction is rolled back; another attempt, or the dead letter queue.
AttemptFails(c) ==
    /\ IF attempt[c] >= MaxAttempts
         THEN /\ pc' = [pc EXCEPT ![c] = "toDlq"]
              /\ UNCHANGED attempt
         ELSE /\ pc' = [pc EXCEPT ![c] = "polled"]
              /\ attempt' = [attempt EXCEPT ![c] = @ + 1]
    /\ UNCHANGED <<clock, tables, kafka, record, late, done, posts>>

\* Mutant: the winner's payment is taken for the whole result.
LoseAndFinish(c) ==
    /\ \/ pc[c] = "create" /\ payment[Target(c)] # None
       \/ pc[c] = "insert" /\ outbox[Target(c)] # None
    /\ Finish(c)
    /\ UNCHANGED tables

\* A unique constraint: somebody has inserted the payment, or the result, since it was
\* looked for. Inside a transaction authorize throws.
LoseRace(c) ==
    /\ \/ pc[c] = "create" /\ payment[Target(c)] # None
       \/ pc[c] = "insert" /\ outbox[Target(c)] # None
    /\ AttemptFails(c)
    /\ UNCHANGED faulted

\* Any other error: a malformed record, the database.
Fault(c) ==
    /\ pc[c] \notin {"idle", "toDlq"}
    /\ AttemptFails(c)
    /\ faulted' = [faulted EXCEPT ![c] = TRUE]

\* publishToDlq, then eachMessage returns.
DeadLetter(c) ==
    /\ pc[c] = "toDlq"
    /\ dlq' = dlq \cup {Target(c)}
    /\ Return(c)
    /\ UNCHANGED tables

\* publishToDlq throws, and so does eachMessage: kafkajs fetches the record again.
DeadLetterFails(c) ==
    /\ pc[c] = "toDlq"
    /\ Leave(c)
    /\ UNCHANGED <<clock, tables, kafka, done, posts>>

\* kafkajs commits the offsets of the records eachMessage has returned from.
Ack(c) ==
    /\ done[c] # {}
    /\ topic' = topic \ done[c]
    /\ done' = [done EXCEPT ![c] = {}]
    /\ UNCHANGED <<clock, tables, announced, dlq, pc, record, attempt, late, faulted, posts>>

\* The instance stops, or loses its partition.
Crash(c) ==
    /\ pc[c] # "idle" \/ done[c] # {}
    /\ Leave(c)
    /\ done' = [done EXCEPT ![c] = {}]
    /\ UNCHANGED <<clock, tables, kafka, posts>>

-----------------------------------------------------------------------------
(* POST /payments.                                                         *)

\* The answer: 201 ("created") or 200 ("existing"), with a payment.
Answer(p, code, shown) ==
    /\ post' = [post EXCEPT ![p] = code]
    /\ answer' = [answer EXCEPT ![p] = shown]

\* authorize without a transaction: a payment that exists is shown.
PostRead(p) ==
    /\ post[p] = "idle"
    /\ \E a \in Amounts :
        /\ offer' = [offer EXCEPT ![p] = a]
        /\ IF payment[PostFor[p]] # None
             THEN Answer(p, "existing", payment[PostFor[p]])
             ELSE /\ post' = [post EXCEPT ![p] = "create"]
                  /\ UNCHANGED answer
    /\ UNCHANGED <<clock, tables, kafka, calls>>

\* The payment is inserted, without a look at the deadline and without a result. The
\* client is shown the entity, not the row.
PostCreate(p) ==
    /\ post[p] = "create"
    /\ payment[PostFor[p]] = None
    /\ \E s \in PaymentStatus :
        LET new == [status |-> s, amount |-> offer[p]] IN
        /\ payment' = [payment EXCEPT ![PostFor[p]] = Row(new)]
        /\ Answer(p, "created", new)
    /\ UNCHANGED <<clock, outbox, lateRows, kafka, calls, offer>>

\* Mutant: the loser is shown what it wanted to insert.
PostLoseBlind(p) ==
    /\ post[p] = "create"
    /\ payment[PostFor[p]] # None
    /\ Answer(p, "existing", [status |-> "RECEIVED", amount |-> offer[p]])
    /\ UNCHANGED <<clock, tables, kafka, calls, offer>>

\* Error 23505: the winner's payment is read and shown.
PostLose(p) ==
    /\ post[p] = "create"
    /\ payment[PostFor[p]] # None
    /\ Answer(p, "existing", payment[PostFor[p]])
    /\ UNCHANGED <<clock, tables, kafka, calls, offer>>

\* Another error, answered by 500; the client may ask again.
PostFails(p) ==
    /\ post[p] = "create"
    /\ post' = [post EXCEPT ![p] = "idle"]
    /\ UNCHANGED <<clock, tables, kafka, calls, offer, answer>>

-----------------------------------------------------------------------------
Handle(c) ==
    \/ Check(c) \/ Read(c) \/ Create(c) \/ LookUp(c) \/ Insert(c) \/ LoseRace(c) \/ DeadLetter(c)
Serve(p) == PostRead(p) \/ PostCreate(p) \/ PostLose(p)

\* Everything that happens when nothing fails.
Working ==
    \/ Tick
    \/ \E r \in Reservations : Announce(r) \/ Replay(r)
    \/ \E c \in Consumers : Poll(c) \/ Handle(c) \/ Ack(c)
    \/ \E p \in Posts : Serve(p)

Failure ==
    \/ \E c \in Consumers : Fault(c) \/ DeadLetterFails(c) \/ Crash(c)
    \/ \E p \in Posts : PostFails(p)

Next == Working \/ Failure

Spec == Init /\ [][Next]_paymentVars

-----------------------------------------------------------------------------
(* Safety.                                                                 *)

Once == INSTANCE PaymentOnce WITH Decisions <- Payment, decision <- payment, told <- outbox

\* Whichever of HTTP and Kafka comes first, and however often: the payment of a reservation
\* is decided once, and booking is told exactly that decision, once (the comment of
\* PaymentsService, the transaction of authorizeAndEnqueue).
ImplementsPaymentOnce == Once!Spec

\* Every client was shown the one payment of its reservation: also the loser of a race
\* with another client or with the consumer (authorize, error 23505). At most one client
\* is told 201, and it alone may be shown another amount than the others, the one it has
\* sent, of which the row is the rounding.
AnswersAgree ==
    /\ \A p \in Posts : post[p] = "existing" => answer[p] = payment[PostFor[p]]
    /\ \A p \in Posts : post[p] = "created" => Row(answer[p]) = payment[PostFor[p]]
    /\ \A p, q \in Posts :
          post[p] = "created" /\ post[q] = "created" /\ PostFor[p] = PostFor[q] => p = q

\* A reservation announced to payment-service is not forgotten: its result is recorded, or
\* its record is still to be delivered or in the dead letter queue.
NothingUnanswered ==
    \A r \in announced :
        outbox[r] # None \/ r \in dlq \/ \E m \in topic : m[1] = r

\* Losing races, with a client or with the other instance of a rolling update, never
\* brings a record to the dead letter queue: three attempts are enough to find what the
\* winners have inserted (processWithRetry, KAFKA_MAX_ATTEMPTS).
RacesAreAbsorbed ==
    \A c \in Consumers :
        pc[c] = "toDlq" /\ record[c][2] = 0 => faulted[c]

\* README of payment-service: "Un message traité après cette échéance est persisté
\* REJECTED [...]; aucune réservation expirée n'est encaissée". The result that a call
\* records after it has found the reservation expired is a refusal.
LateResultIsRefusal ==
    \A r \in lateRows : outbox[r].status = "REJECTED"

-----------------------------------------------------------------------------
(* Liveness. kafkajs delivers what is not committed, a call that can go on *)
(* does, and failures do not go on for ever. Nobody has to send a request. *)

Fairness ==
    /\ \A c \in Consumers : SF_paymentVars(Poll(c) \/ Handle(c))
    /\ \A p \in Posts : WF_paymentVars(PostCreate(p) \/ PostLose(p))

\* From some moment on every step is one of a working system.
FailuresCease == <>[][Working]_paymentVars

FairSpec == Spec /\ Fairness /\ FailuresCease

\* Every announced reservation gets a result, or an operator gets its record.
ResultRecorded == \A r \in Reservations : r \in announced ~> outbox[r] # None \/ r \in dlq
=============================================================================
