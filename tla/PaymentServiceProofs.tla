------------------------ MODULE PaymentServiceProofs ------------------------
(***************************************************************************)
(* One payment per reservation, told once and not forgotten, for any       *)
(* number of reservations, consumers, clients, amounts and attempts.       *)
(***************************************************************************)
EXTENDS PaymentService, TLAPS

\* A result in the outbox is the payment it is about.
ResultOK == \A r \in Reservations : outbox[r] # None => outbox[r] = payment[r]

\* A call that has found a payment goes on with one that exists.
FoundOK == \A c \in Consumers : pc[c] \in {"found", "insert"} => payment[Target(c)] # None

\* What waits for its offset to be committed has been answered.
Settled(r) == outbox[r] # None \/ r \in dlq
DoneOK == \A c \in Consumers : \A m \in done[c] : Settled(m[1])

\* A client that has an answer was shown a payment.
ShownOK == \A p \in Posts : post[p] \in {"created", "existing"} => answer[p] # None

PaymentInv ==
    PaymentTypeOK /\ ResultOK /\ FoundOK /\ DoneOK /\ NothingUnanswered /\ AnswersAgree /\ ShownOK

\* Attempts of a call that only lost races: the second finds the payment, the third the
\* result.
RaceOK ==
    \A c \in Consumers :
        pc[c] # "idle" /\ record[c][2] = 0 /\ ~faulted[c] =>
            /\ attempt[c] >= 2 => payment[Target(c)] # None
            /\ attempt[c] >= 3 => outbox[Target(c)] # None
            /\ pc[c] = "create" => attempt[c] < 2
            /\ pc[c] = "insert" => attempt[c] < 3
            /\ pc[c] # "toDlq"

-----------------------------------------------------------------------------
(* Rows.                                                                   *)

\* A row is a payment.
LEMMA RowIsPayment ==
  ASSUME NEW entity \in Payment
  PROVE  Row(entity) \in Payment /\ Row(entity) # None
<1>1. Row(entity) \in Payment
  BY PaymentAssumption DEF Row, Payment
<1>2. QED
  BY <1>1, NoPayment

\* An amount with two decimals, as in SeatReserved, is stored as it is.
LEMMA DueIsStored ==
  ASSUME NEW s \in PaymentStatus
  PROVE  /\ [status |-> s, amount |-> Due] \in Payment
         /\ Row([status |-> s, amount |-> Due]) = [status |-> s, amount |-> Due]
BY PaymentAssumption DEF Row, Payment

-----------------------------------------------------------------------------
(* Which actions change what.                                              *)

CallStep(c) ==
    \/ Poll(c) \/ Check(c) \/ Read(c) \/ Create(c) \/ LookUp(c) \/ Insert(c) \/ LoseRace(c)
    \/ DeadLetter(c) \/ Ack(c) \/ Fault(c) \/ DeadLetterFails(c) \/ Crash(c)
PostStep(p) == PostRead(p) \/ PostCreate(p) \/ PostLose(p) \/ PostFails(p)

LEMMA StepFrame ==
  [Next]_paymentVars =>
    \/ UNCHANGED paymentVars
    \/ Tick
    \/ \E r \in Reservations : Announce(r) \/ Replay(r)
    \/ \E c \in Consumers : CallStep(c)
    \/ \E p \in Posts : PostStep(p)
BY DEF Next, Working, Failure, Handle, Serve, CallStep, PostStep

\* Payments and results are written once.
LEMMA TablesGrow ==
  ASSUME PaymentTypeOK, ResultOK, [Next]_paymentVars
  PROVE  \A r \in Reservations :
            /\ payment[r] # None => payment'[r] = payment[r]
            /\ outbox[r] # None => outbox'[r] = outbox[r]
<1>1. CASE UNCHANGED paymentVars \/ Tick
  BY <1>1 DEF paymentVars, tables, Tick
<1>2. ASSUME NEW s \in Reservations, Announce(s) \/ Replay(s)
      PROVE  UNCHANGED <<payment, outbox>>
  BY <1>2 DEF Announce, Replay, tables
<1>3. ASSUME NEW c \in Consumers, CallStep(c)
      PROVE  \A r \in Reservations :
                /\ payment[r] # None => payment'[r] = payment[r]
                /\ outbox[r] # None => outbox'[r] = outbox[r]
  <2>1. CASE Create(c)
    <3> DEFINE s == Target(c)
    <3>1. PICK new : payment[s] = None /\ payment' = [payment EXCEPT ![s] = Row(new)] /\ pc[c] # "idle"
                     /\ outbox' = [outbox EXCEPT ![s] = new]
      BY <2>1 DEF Create, Enqueue
    <3>2. s \in Reservations
      BY <3>1 DEF PaymentTypeOK, Records, Target
    <3>3. outbox[s] = None
      BY <3>1, <3>2 DEF ResultOK
    <3> HIDE DEF s
    <3>4. QED
      BY <3>1, <3>2, <3>3 DEF PaymentTypeOK
  <2>2. CASE Insert(c)
    BY <2>2 DEF Insert, Enqueue, PaymentTypeOK
  <2>3. CASE ~Create(c) /\ ~Insert(c)
    BY <1>3, <2>3 DEF CallStep, Poll, Check, Read, LookUp, LoseRace, DeadLetter, Ack, Fault,
                      DeadLetterFails, Crash, AttemptFails, tables
  <2>4. QED
    BY <2>1, <2>2, <2>3
<1>4. ASSUME NEW p \in Posts, PostStep(p)
      PROVE  \A r \in Reservations :
                /\ payment[r] # None => payment'[r] = payment[r]
                /\ outbox[r] # None => outbox'[r] = outbox[r]
  BY <1>4 DEF PostStep, PostRead, PostCreate, PostLose, PostFails, tables, PaymentTypeOK
<1>5. QED
  BY <1>1, <1>2, <1>3, <1>4, StepFrame

\* The calls of other consumers are not touched.
LEMMA OtherCalls ==
  ASSUME PaymentTypeOK, NEW c \in Consumers, CallStep(c), NEW d \in Consumers, d # c
  PROVE  UNCHANGED <<pc[d], record[d], attempt[d], late[d], faulted[d], done[d]>>
BY DEF PaymentTypeOK, CallStep, Poll, Check, Read, Create, LookUp, Insert, LoseRace, DeadLetter, Ack,
       Fault, DeadLetterFails, Crash, AttemptFails, Finish, Return, Leave

\* Only consumers change their calls.
LEMMA CallFrame ==
  [Next]_paymentVars => UNCHANGED calls \/ \E c \in Consumers : CallStep(c)
BY StepFrame DEF paymentVars, Tick, Announce, Replay, PostStep, PostRead, PostCreate, PostLose, PostFails

LEMMA PaymentTypeStep ==
  ASSUME PaymentTypeOK, [Next]_paymentVars
  PROVE  PaymentTypeOK'
<1> USE PaymentAssumption DEF PaymentTypeOK, Records
<1>1. CASE UNCHANGED paymentVars
  BY <1>1 DEF paymentVars, tables, kafka, calls, posts
<1>2. CASE Tick
  BY <1>2 DEF Tick, tables, kafka, calls, posts
<1>3. ASSUME NEW r \in Reservations, Announce(r) \/ Replay(r)
      PROVE  PaymentTypeOK'
  BY <1>3 DEF Announce, Replay, tables, calls, posts
<1>4. ASSUME NEW c \in Consumers, CallStep(c)
      PROVE  PaymentTypeOK'
  <2>1. CASE Poll(c)
    BY <2>1 DEF Poll, tables, kafka, posts
  <2>2. CASE Check(c)
    BY <2>2 DEF Check, tables, kafka, posts
  <2>3. CASE Read(c)
    BY <2>3 DEF Read, tables, kafka, posts
  <2>4. CASE Create(c)
    <3>1. Target(c) \in Reservations
      BY <2>4 DEF Create, Target
    <3>2. PICK s \in PaymentStatus :
             /\ payment' = [payment EXCEPT ![Target(c)] = Row([status |-> s, amount |-> Due])]
             /\ Enqueue(c, Target(c), [status |-> s, amount |-> Due])
      BY <2>4 DEF Create, PaymentStatus
    <3>3. /\ [status |-> s, amount |-> Due] \in Payment
          /\ Row([status |-> s, amount |-> Due]) \in Payment
      BY DueIsStored
    <3>4. /\ payment' \in [Reservations -> Payment \cup {None}]
          /\ outbox' \in [Reservations -> Payment \cup {None}]
          /\ lateRows' \subseteq Reservations
      BY <3>1, <3>2, <3>3 DEF Enqueue
    <3>5. Finish(c) /\ record[c] \in Records
      BY <2>4 DEF Create
    <3>6. QED
      BY <3>4, <3>5 DEF Finish, Return, Leave, posts
  <2>5. CASE LookUp(c)
    <3>1. CASE Finish(c)
      BY <2>5, <3>1 DEF LookUp, Finish, Return, Leave, posts, tables
    <3>2. CASE ~Finish(c)
      BY <2>5, <3>2 DEF LookUp, posts, kafka, tables
    <3>3. QED
      BY <3>1, <3>2
  <2>6. CASE Insert(c)
    <3>1. Target(c) \in Reservations
      BY <2>6 DEF Insert, Target
    <3>2. QED
      BY <2>6, <3>1 DEF Insert, Enqueue, Finish, Return, Leave, posts
  <2>7. CASE LoseRace(c) \/ Fault(c)
    <3>1. CASE attempt[c] >= MaxAttempts
      BY <2>7, <3>1 DEF LoseRace, Fault, AttemptFails, tables, kafka, posts
    <3>2. CASE ~(attempt[c] >= MaxAttempts)
      <4>1. attempt[c] + 1 \in 0..MaxAttempts
        BY <3>2
      <4>2. attempt' = [attempt EXCEPT ![c] = attempt[c] + 1] /\ pc' = [pc EXCEPT ![c] = "polled"]
        BY <2>7, <3>2 DEF LoseRace, Fault, AttemptFails
      <4>3. attempt' \in [Consumers -> 0..MaxAttempts]
        BY <4>1, <4>2
      <4>4. faulted' \in [Consumers -> BOOLEAN]
        BY <2>7 DEF LoseRace, Fault
      <4>5. /\ UNCHANGED <<clock, tables, kafka, record, late, done, posts>>
            /\ pc[c] # "idle"
        BY <2>7 DEF LoseRace, Fault, AttemptFails
      <4>6. QED
        BY <4>2, <4>3, <4>4, <4>5 DEF tables, kafka, posts
    <3>3. QED
      BY <3>1, <3>2
  <2>8. CASE DeadLetter(c)
    <3>1. Target(c) \in Reservations
      BY <2>8 DEF DeadLetter, Target
    <3>2. QED
      BY <2>8, <3>1 DEF DeadLetter, Return, Leave, tables, posts
  <2>9. CASE Ack(c)
    BY <2>9 DEF Ack, tables, posts
  <2>10. CASE DeadLetterFails(c) \/ Crash(c)
    <3>1. Leave(c) /\ UNCHANGED <<clock, tables, kafka, posts>>
      BY <2>10 DEF DeadLetterFails, Crash
    <3>2. done' \in [Consumers -> SUBSET Records]
      <4>1. CASE done' = done
        BY <4>1
      <4>2. CASE done' = [done EXCEPT ![c] = {}]
        BY <4>2
      <4>3. QED
        BY <2>10, <4>1, <4>2 DEF DeadLetterFails, Crash
    <3>3. /\ pc' \in [Consumers -> {"idle", "polled", "checked", "create", "found", "insert", "toDlq"}]
          /\ record' \in [Consumers -> Records \cup {None}]
          /\ \A d \in Consumers : pc'[d] # "idle" => record'[d] \in Records
      BY <3>1 DEF Leave
    <3>4. /\ attempt' \in [Consumers -> 0..MaxAttempts]
          /\ late' \in [Consumers -> BOOLEAN]
          /\ faulted' \in [Consumers -> BOOLEAN]
      BY <3>1 DEF Leave
    <3>5. QED
      BY <3>1, <3>2, <3>3, <3>4 DEF tables, kafka, posts
  <2>11. QED
    BY <1>4, <2>1, <2>2, <2>3, <2>4, <2>5, <2>6, <2>7, <2>8, <2>9, <2>10 DEF CallStep
<1>5. ASSUME NEW p \in Posts, PostStep(p)
      PROVE  PaymentTypeOK'
  <2>1. PostFor[p] \in Reservations
    OBVIOUS
  <2>2. CASE PostRead(p)
    BY <2>1, <2>2 DEF PostRead, Answer, tables, kafka, calls
  <2>3. CASE PostCreate(p)
    <3>1. PICK s \in PaymentStatus :
             /\ payment' = [payment EXCEPT ![PostFor[p]] = Row([status |-> s, amount |-> offer[p]])]
             /\ Answer(p, "created", [status |-> s, amount |-> offer[p]])
      BY <2>3 DEF PostCreate
    <3>2. /\ [status |-> s, amount |-> offer[p]] \in Payment
          /\ Row([status |-> s, amount |-> offer[p]]) \in Payment
      BY RowIsPayment DEF Payment
    <3>3. /\ payment' \in [Reservations -> Payment \cup {None}]
          /\ answer' \in [Posts -> Payment \cup {None}]
          /\ post' \in [Posts -> {"idle", "create", "created", "existing"}]
      BY <2>1, <3>1, <3>2 DEF Answer
    <3>4. QED
      BY <2>3, <3>3 DEF PostCreate, kafka, calls
  <2>4. CASE PostLose(p)
    BY <2>1, <2>4 DEF PostLose, Answer, tables, kafka, calls
  <2>5. CASE PostFails(p)
    BY <2>5 DEF PostFails, tables, kafka, calls
  <2>6. QED
    BY <1>5, <2>2, <2>3, <2>4, <2>5 DEF PostStep
<1>6. QED
  BY <1>1, <1>2, <1>3, <1>4, <1>5, StepFrame

-----------------------------------------------------------------------------
(* The parts of the invariant.                                             *)

\* Results are written with their payment, or copied from it.
LEMMA ResultStep ==
  ASSUME PaymentInv, [Next]_paymentVars
  PROVE  ResultOK'
<1> USE DEF PaymentInv
<1> SUFFICES ASSUME NEW r \in Reservations, outbox'[r] # None
             PROVE  outbox'[r] = payment'[r]
  BY DEF ResultOK
<1>1. CASE outbox[r] # None
  <2>1. outbox[r] = payment[r]
    BY <1>1 DEF ResultOK
  <2>2. QED
    BY <1>1, <2>1, TablesGrow
<1>2. CASE outbox[r] = None
  <2>1. PICK c \in Consumers : Create(c) \/ Insert(c)
    BY <1>2, StepFrame
       DEF paymentVars, Tick, Announce, Replay, CallStep, Poll, Check, Read, LookUp, LoseRace,
           DeadLetter, Ack, Fault, DeadLetterFails, Crash, AttemptFails, PostStep, PostRead,
           PostCreate, PostLose, PostFails, tables
  <2>2. CASE Create(c)
    <3>1. PICK s \in PaymentStatus :
             /\ payment' = [payment EXCEPT ![Target(c)] = Row([status |-> s, amount |-> Due])]
             /\ outbox' = [outbox EXCEPT ![Target(c)] = [status |-> s, amount |-> Due]]
      BY <2>2 DEF Create, Enqueue, PaymentStatus
    <3>2. Row([status |-> s, amount |-> Due]) = [status |-> s, amount |-> Due]
      BY DueIsStored
    <3>3. QED
      BY <1>2, <3>1, <3>2 DEF PaymentTypeOK
  <2>3. CASE Insert(c)
    <3>1. outbox' = [outbox EXCEPT ![Target(c)] = payment[Target(c)]] /\ payment' = payment
      BY <2>3 DEF Insert, Enqueue
    <3>2. QED
      BY <1>2, <3>1 DEF PaymentTypeOK
  <2>4. QED
    BY <2>1, <2>2, <2>3
<1>3. QED
  BY <1>1, <1>2

\* A payment that was found is never deleted.
LEMMA FoundStep ==
  ASSUME PaymentInv, [Next]_paymentVars
  PROVE  FoundOK'
<1> USE DEF PaymentInv
<1> SUFFICES ASSUME NEW c \in Consumers, pc'[c] \in {"found", "insert"}
             PROVE  payment'[record'[c][1]] # None
  BY DEF FoundOK, Target
<1>1. ASSUME record'[c] = record[c], pc[c] # "idle", payment[record[c][1]] # None
      PROVE  payment'[record'[c][1]] # None
  <2>1. record[c][1] \in Reservations
    BY <1>1 DEF PaymentTypeOK, Records
  <2>2. QED
    BY <1>1, <2>1, TablesGrow
<1>2. CASE UNCHANGED <<pc[c], record[c]>>
  BY <1>1, <1>2 DEF FoundOK, Target
<1>3. CASE CallStep(c) /\ ~UNCHANGED <<pc[c], record[c]>>
  <2>1. ~Poll(c) /\ ~Check(c)
    BY DEF Poll, Check, PaymentTypeOK
  <2>2. ~Leave(c)
    BY DEF Leave, PaymentTypeOK
  <2>3. ~AttemptFails(c)
    BY DEF AttemptFails, PaymentTypeOK
  <2>4. Read(c) \/ LookUp(c)
    BY <1>3, <2>1, <2>2, <2>3
       DEF CallStep, Create, Insert, LoseRace, DeadLetter, Ack, Fault, DeadLetterFails, Crash, Finish, Return
  <2>5. record' = record
    BY <2>2, <2>4 DEF Read, LookUp, Finish, Return
  <2>6. CASE Read(c)
    BY <1>1, <2>5, <2>6 DEF Read, Target, PaymentTypeOK
  <2>7. CASE LookUp(c)
    BY <1>1, <2>5, <2>7 DEF LookUp, FoundOK, Target
  <2>8. QED
    BY <2>4, <2>6, <2>7
<1>4. QED
  BY <1>2, <1>3, CallFrame, OtherCalls DEF calls

\* An answered record stays answered.
LEMMA SettledStays ==
  ASSUME PaymentInv, [Next]_paymentVars, NEW r \in Reservations, Settled(r)
  PROVE  Settled(r)'
<1>1. dlq \subseteq dlq'
  BY StepFrame
     DEF paymentVars, Tick, Announce, Replay, CallStep, Poll, Check, Read, Create, LookUp, Insert, LoseRace,
         DeadLetter, Ack, Fault, DeadLetterFails, Crash, AttemptFails, Finish, Return, PostStep, PostRead,
         PostCreate, PostLose, PostFails, kafka
<1>2. outbox[r] # None => outbox'[r] # None
  BY TablesGrow DEF PaymentInv
<1>3. QED
  BY <1>1, <1>2 DEF Settled

\* A record is done when its result is in the outbox or it is in the dead letter queue.
LEMMA DoneStep ==
  ASSUME PaymentInv, [Next]_paymentVars
  PROVE  DoneOK'
<1> USE DEF PaymentInv
<1> SUFFICES ASSUME NEW c \in Consumers, NEW m \in done'[c]
             PROVE  Settled(m[1])'
  BY DEF DoneOK
<1>1. CASE m \in done[c]
  <2>1. m[1] \in Reservations
    BY <1>1 DEF PaymentTypeOK, Records
  <2>2. QED
    BY <1>1, <2>1, SettledStays DEF DoneOK
<1>2. CASE m \notin done[c]
  <2>1. CallStep(c)
    BY <1>2, CallFrame, OtherCalls DEF calls
  <2>2. m = record[c] /\ (DeadLetter(c) \/ Create(c) \/ Insert(c) \/ (LookUp(c) /\ Finish(c)))
    <3>1. Return(c)
      BY <1>2, <2>1 DEF PaymentTypeOK, CallStep, Poll, Check, Read, Create, LookUp, Insert, LoseRace,
                        DeadLetter, Ack, Fault, DeadLetterFails, Crash, AttemptFails, Finish
    <3>2. m = record[c]
      BY <1>2, <3>1 DEF Return, PaymentTypeOK
    <3>3. done'[c] # done[c]
      BY <1>2
    <3>4. ~Poll(c) /\ ~Check(c) /\ ~Read(c) /\ ~AttemptFails(c) /\ ~DeadLetterFails(c)
      BY <3>3 DEF Poll, Check, Read, AttemptFails, DeadLetterFails
    <3>5. ~Ack(c) /\ ~Crash(c)
      BY <1>2 DEF Ack, Crash, PaymentTypeOK
    <3>6. LookUp(c) => Finish(c)
      BY <3>3 DEF LookUp
    <3>7. QED
      BY <2>1, <3>2, <3>4, <3>5, <3>6 DEF CallStep, LoseRace, Fault
  <2>3. m[1] = Target(c) /\ Target(c) \in Reservations
    BY <2>2 DEF Target, PaymentTypeOK, Records, DeadLetter, Create, Insert, LookUp
  <2>4. CASE DeadLetter(c)
    BY <2>3, <2>4 DEF DeadLetter, Settled
  <2>5. CASE Create(c)
    <3>1. PICK s : outbox' = [outbox EXCEPT ![Target(c)] = [status |-> s, amount |-> Due]]
                   /\ s \in PaymentStatus
      BY <2>5 DEF Create, Enqueue, PaymentStatus
    <3>2. [status |-> s, amount |-> Due] # None
      BY <3>1, PaymentAssumption, NoPayment DEF Payment
    <3>3. QED
      BY <2>3, <3>1, <3>2 DEF Settled, PaymentTypeOK
  <2>6. CASE Insert(c)
    BY <2>3, <2>6 DEF Insert, Enqueue, FoundOK, Settled, PaymentTypeOK
  <2>7. CASE LookUp(c) /\ Finish(c)
    <3>1. outbox[Target(c)] # None
      BY <2>7, <2>3 DEF LookUp, Finish, Return, Leave, PaymentTypeOK
    <3>2. QED
      BY <2>3, <2>7, <3>1 DEF LookUp, tables, Settled
  <2>8. QED
    BY <2>2, <2>4, <2>5, <2>6, <2>7
<1>3. QED
  BY <1>1, <1>2

\* The offset of a record is committed only after the record is answered.
LEMMA AnnouncedStep ==
  ASSUME PaymentInv, [Next]_paymentVars
  PROVE  NothingUnanswered'
<1> USE DEF PaymentInv
<1> SUFFICES ASSUME NEW r \in announced'
             PROVE  Settled(r)' \/ \E m \in topic' : m[1] = r
  BY DEF NothingUnanswered, Settled
<1>1. r \in Reservations
  BY PaymentTypeStep DEF PaymentTypeOK
<1>2. CASE Settled(r)
  BY <1>1, <1>2, SettledStays
<1>3. CASE Announce(r)
  <2>1. <<r, 0>> \in topic' /\ <<r, 0>>[1] = r
    BY <1>3 DEF Announce
  <2>2. QED
    BY <2>1
<1>4. CASE ~Announce(r) /\ ~Settled(r)
  <2>1. r \in announced
    BY <1>4, StepFrame
       DEF paymentVars, Tick, Announce, Replay, CallStep, Poll, Check, Read, Create, LookUp, Insert, LoseRace,
           DeadLetter, Ack, Fault, DeadLetterFails, Crash, AttemptFails, Finish, Return, PostStep, PostRead,
           PostCreate, PostLose, PostFails, kafka
  <2>2. PICK m \in topic : m[1] = r
    BY <1>4, <2>1 DEF NothingUnanswered, Settled
  <2>3. ASSUME NEW c \in Consumers, Ack(c)
        PROVE  m \in topic'
    BY <1>4, <2>2, <2>3 DEF Ack, DoneOK
  <2>4. CASE \A c \in Consumers : ~Ack(c)
    <3>1. topic \subseteq topic'
      BY <2>4, StepFrame
         DEF paymentVars, Tick, Announce, Replay, CallStep, Poll, Check, Read, Create, LookUp, Insert, LoseRace,
             DeadLetter, Fault, DeadLetterFails, Crash, AttemptFails, Finish, Return, PostStep,
             PostRead, PostCreate, PostLose, PostFails, kafka
    <3>2. QED
      BY <2>2, <3>1
  <2>5. QED
    BY <2>2, <2>3, <2>4
<1>5. QED
  BY <1>2, <1>3, <1>4

\* Only clients change what they were shown, one at a time.
LEMMA PostFrame ==
  ASSUME PaymentTypeOK, [Next]_paymentVars, NEW p \in Posts, ~UNCHANGED <<post[p], answer[p]>>
  PROVE  /\ PostStep(p)
         /\ \A q \in Posts : q # p => UNCHANGED <<post[q], answer[q]>>
<1>1. PICK c \in Posts : PostStep(c)
  BY StepFrame
     DEF paymentVars, posts, Tick, Announce, Replay, CallStep, Poll, Check, Read, Create, LookUp, Insert,
         LoseRace, DeadLetter, Ack, Fault, DeadLetterFails, Crash, AttemptFails, Finish, Return
<1>2. \A q \in Posts : q # c => UNCHANGED <<post[q], answer[q]>>
  BY <1>1 DEF PostStep, PostRead, PostCreate, PostLose, PostFails, Answer, PaymentTypeOK
<1>3. QED
  BY <1>1, <1>2

\* A client is shown a payment that stays.
LEMMA AnswerStep ==
  ASSUME PaymentInv, [Next]_paymentVars, NEW p \in Posts, post'[p] \in {"created", "existing"}
  PROVE  /\ answer'[p] # None
         /\ post'[p] = "existing" => answer'[p] = payment'[PostFor[p]]
         /\ post'[p] = "created" => Row(answer'[p]) = payment'[PostFor[p]]
         /\ post'[p] = "created" /\ post[p] # "created" => payment[PostFor[p]] = None
         /\ post[p] \in {"created", "existing"} => payment[PostFor[p]] # None
<1> USE PaymentAssumption DEF PaymentInv
<1>1. PostFor[p] \in Reservations
  OBVIOUS
<1>2. post[p] \in {"created", "existing"} => payment[PostFor[p]] # None
  <2>1. CASE post[p] = "existing"
    BY <2>1 DEF AnswersAgree, ShownOK
  <2>2. CASE post[p] = "created"
    <3>1. answer[p] \in Payment
      BY <2>2 DEF ShownOK, PaymentTypeOK
    <3>2. QED
      BY <2>2, <3>1, RowIsPayment DEF AnswersAgree
  <2>3. QED
    BY <2>1, <2>2
<1>3. CASE UNCHANGED <<post[p], answer[p]>>
  <2>1. payment'[PostFor[p]] = payment[PostFor[p]]
    BY <1>1, <1>2, <1>3, TablesGrow
  <2>2. QED
    BY <1>2, <1>3, <2>1 DEF AnswersAgree, ShownOK
<1>4. CASE PostRead(p) \/ PostLose(p)
  BY <1>1, <1>2, <1>4 DEF PostRead, PostLose, Answer, tables, PaymentTypeOK
<1>5. CASE PostCreate(p)
  <2>1. PICK s \in PaymentStatus :
           /\ payment' = [payment EXCEPT ![PostFor[p]] = Row([status |-> s, amount |-> offer[p]])]
           /\ Answer(p, "created", [status |-> s, amount |-> offer[p]])
           /\ payment[PostFor[p]] = None
    BY <1>5 DEF PostCreate
  <2>2. [status |-> s, amount |-> offer[p]] # None
    BY NoPayment DEF Payment, PaymentTypeOK
  <2>3. QED
    BY <1>1, <1>2, <2>1, <2>2 DEF Answer, PaymentTypeOK
<1>6. CASE PostFails(p)
  BY <1>6 DEF PostFails, PaymentTypeOK
<1>7. QED
  BY <1>3, <1>4, <1>5, <1>6, PostFrame DEF PostStep

\* The second client of a reservation finds the payment of the first.
LEMMA CreatorStep ==
  ASSUME PaymentInv, [Next]_paymentVars,
         NEW p \in Posts, NEW q \in Posts, post'[p] = "created", post'[q] = "created",
         PostFor[p] = PostFor[q]
  PROVE  p = q
<1> SUFFICES ASSUME p # q PROVE FALSE
  OBVIOUS
<1>1. CASE post[p] = "created" /\ post[q] = "created"
  BY <1>1 DEF PaymentInv, AnswersAgree
<1>2. CASE post[p] # "created" /\ post[q] # "created"
  BY <1>2, PostFrame DEF PaymentInv
<1>3. CASE (post[p] = "created") # (post[q] = "created")
  BY <1>3, AnswerStep
<1>4. QED
  BY <1>1, <1>2, <1>3

LEMMA AnswersStep ==
  ASSUME PaymentInv, [Next]_paymentVars
  PROVE  AnswersAgree' /\ ShownOK'
BY AnswerStep, CreatorStep DEF AnswersAgree, ShownOK

LEMMA PaymentInit == Init => PaymentInv
<1> SUFFICES ASSUME Init PROVE PaymentInv
  OBVIOUS
<1>1. PaymentTypeOK
  BY PaymentAssumption DEF Init, PaymentTypeOK
<1>2. ResultOK /\ FoundOK /\ DoneOK
  BY DEF Init, ResultOK, FoundOK, DoneOK
<1>3. NothingUnanswered /\ AnswersAgree /\ ShownOK
  BY DEF Init, NothingUnanswered, AnswersAgree, ShownOK
<1>4. QED
  BY <1>1, <1>2, <1>3 DEF PaymentInv

LEMMA PaymentStep == PaymentInv /\ [Next]_paymentVars => PaymentInv'
BY PaymentTypeStep, ResultStep, FoundStep, DoneStep, AnnouncedStep, AnswersStep DEF PaymentInv

-----------------------------------------------------------------------------
\* The inductive invariant of payment-service.
THEOREM PaymentInvariant == Spec => []PaymentInv
BY PaymentInit, PaymentStep, PTL DEF Spec

\* Every variable of payment-service keeps its type; no call has more attempts than
\* KAFKA_MAX_ATTEMPTS.
THEOREM PaymentTypeCorrect == Spec => []PaymentTypeOK
<1>1. PaymentInv => PaymentTypeOK
  BY DEF PaymentInv
<1>2. QED
  BY <1>1, PaymentInvariant, PTL

\* The clients of a reservation are shown the one row of its payment, except the one whose
\* request has created it: that one is shown what it sent, of which the row is the
\* rounding (authorize, the column numeric(12,2)).
THEOREM ClientsSeeOnePayment == Spec => []AnswersAgree
<1>1. PaymentInv => AnswersAgree
  BY DEF PaymentInv
<1>2. QED
  BY <1>1, PaymentInvariant, PTL

\* No announced reservation is forgotten: the offset follows the commit or the copy to the
\* dead letter queue (eachMessage).
THEOREM NoReservationForgotten == Spec => []NothingUnanswered
<1>1. PaymentInv => NothingUnanswered
  BY DEF PaymentInv
<1>2. QED
  BY <1>1, PaymentInvariant, PTL

-----------------------------------------------------------------------------
(* Races.                                                                  *)

\* What is lost to a race is found by the next attempt.
LEMMA RaceStep ==
  ASSUME MaxAttempts >= 3, PaymentInv, RaceOK, [Next]_paymentVars
  PROVE  RaceOK'
<1> USE PaymentAssumption DEF PaymentInv
<1> SUFFICES ASSUME NEW c \in Consumers,
                    pc'[c] # "idle" /\ record'[c][2] = 0 /\ ~faulted'[c]
             PROVE  /\ attempt'[c] >= 2 => payment'[record'[c][1]] # None
                    /\ attempt'[c] >= 3 => outbox'[record'[c][1]] # None
                    /\ pc'[c] = "create" => attempt'[c] < 2
                    /\ pc'[c] = "insert" => attempt'[c] < 3
                    /\ pc'[c] # "toDlq"
  BY DEF RaceOK, Target
<1>1. ~Leave(c)
  BY DEF Leave, PaymentTypeOK
<1>2. attempt[c] \in Nat /\ MaxAttempts \in Nat
  BY DEF PaymentTypeOK
<1>3. CASE Poll(c)
  <2>1. PICK m \in topic : /\ record' = [record EXCEPT ![c] = m]
                           /\ attempt' = [attempt EXCEPT ![c] = IF m[2] < MaxAttempts THEN m[2] + 1 ELSE m[2]]
                           /\ pc' = [pc EXCEPT ![c] = IF m[2] < MaxAttempts THEN "polled" ELSE "toDlq"]
    BY <1>3 DEF Poll
  <2>2. m[2] = 0 /\ 0 < MaxAttempts
    BY <2>1 DEF PaymentTypeOK
  <2>3. attempt'[c] = 1 /\ pc'[c] = "polled"
    BY <2>1, <2>2 DEF PaymentTypeOK
  <2>4. QED
    BY <2>3
<1>4. CASE ~Poll(c)
  <2>1. record'[c] = record[c] /\ pc[c] # "idle" /\ faulted'[c] = faulted[c]
    <3>1. CASE CallStep(c)
      BY <1>1, <1>4, <3>1
         DEF CallStep, Check, Read, Create, LookUp, Insert, LoseRace, DeadLetter, Ack, Fault,
             DeadLetterFails, Crash, AttemptFails, Finish, Return, PaymentTypeOK
    <3>2. CASE UNCHANGED <<pc[c], record[c], faulted[c]>>
      BY <3>2
    <3>3. QED
      BY <3>1, <3>2, CallFrame, OtherCalls DEF calls
  <2> DEFINE s == record[c][1]
  <2>2. s \in Reservations
    BY <2>1 DEF PaymentTypeOK, Records
  <2>3. /\ payment[s] # None => payment'[s] # None
        /\ outbox[s] # None => outbox'[s] # None
    BY <2>2, TablesGrow
  <2>4. /\ attempt[c] >= 2 => payment[s] # None
        /\ attempt[c] >= 3 => outbox[s] # None
        /\ pc[c] = "create" => attempt[c] < 2
        /\ pc[c] = "insert" => attempt[c] < 3
        /\ pc[c] # "toDlq"
    BY <2>1 DEF RaceOK, Target
  <2>5. CASE LoseRace(c)
    <3>1. attempt[c] < 3 /\ payment[s] # None /\ (attempt[c] >= 2 => outbox[s] # None)
      BY <1>2, <2>4, <2>5 DEF LoseRace, FoundOK, Target
    <3>2. ~(attempt[c] >= MaxAttempts)
      BY <1>2, <3>1
    <3>3. attempt'[c] = attempt[c] + 1 /\ pc'[c] = "polled" /\ UNCHANGED <<payment, outbox>>
      BY <2>5, <3>2 DEF LoseRace, AttemptFails, tables, PaymentTypeOK
    <3> HIDE DEF s
    <3>4. QED
      BY <1>2, <2>1, <3>1, <3>3 DEF s
  <2>6. CASE UNCHANGED <<pc[c], attempt[c]>>
    BY <2>1, <2>3, <2>4, <2>6
  <2>7. CASE Check(c) \/ Read(c) \/ LookUp(c)
    <3>1. attempt'[c] = attempt[c] /\ pc'[c] \in {"checked", "create", "found", "insert"}
      BY <1>1, <2>7 DEF Check, Read, LookUp, Finish, Return, PaymentTypeOK
    <3>2. pc'[c] = "create" => payment[s] = None
      BY <2>7, <1>1 DEF Check, Read, LookUp, Finish, Return, PaymentTypeOK, Target
    <3>3. pc'[c] = "insert" => outbox[s] = None
      BY <2>7, <1>1 DEF Check, Read, LookUp, Finish, Return, PaymentTypeOK, Target
    <3> HIDE DEF s
    <3>4. QED
      BY <1>2, <2>1, <2>3, <2>4, <3>1, <3>2, <3>3 DEF s
  <2>8. CASE Fault(c)
    BY <2>8 DEF Fault, PaymentTypeOK
  <2>9. QED
    <3>1. CASE CallStep(c)
      BY <1>1, <1>4, <2>5, <2>6, <2>7, <2>8, <3>1
         DEF CallStep, Create, Insert, DeadLetter, Ack, DeadLetterFails, Crash, Finish, Return
    <3>2. CASE ~CallStep(c)
      BY <2>6, <3>2, CallFrame, OtherCalls DEF calls
    <3>3. QED
      BY <3>1, <3>2
<1>5. QED
  BY <1>3, <1>4

\* With at least three attempts a record comes to the dead letter queue only after an
\* attempt failed for another reason than a lost race, however many instances and clients
\* compete (processWithRetry).
THEOREM RacesNeverDeadLetter ==
  ASSUME MaxAttempts >= 3
  PROVE  Spec => []RacesAreAbsorbed
<1>1. Init => RaceOK
  BY DEF Init, RaceOK
<1>2. PaymentInv /\ RaceOK /\ [Next]_paymentVars => RaceOK'
  BY RaceStep
<1>3. RaceOK => RacesAreAbsorbed
  BY DEF RaceOK, RacesAreAbsorbed
<1>4. QED
  BY <1>1, <1>2, <1>3, PaymentInvariant, PTL DEF Spec

-----------------------------------------------------------------------------
(* Refinement.                                                             *)

\* Each step decides a payment, tells it, does both, or neither.
LEMMA OnceStep ==
  ASSUME PaymentInv, [Next]_paymentVars
  PROVE  [Once!Next]_<<payment, outbox>>
<1> USE PaymentAssumption DEF PaymentInv
<1>1. CASE UNCHANGED <<payment, outbox>>
  BY <1>1
<1>2. ASSUME NEW c \in Consumers, Create(c)
      PROVE  Once!Next
  <2>1. PICK s \in PaymentStatus :
           /\ payment' = [payment EXCEPT ![Target(c)] = Row([status |-> s, amount |-> Due])]
           /\ outbox' = [outbox EXCEPT ![Target(c)] = [status |-> s, amount |-> Due]]
    BY <1>2 DEF Create, Enqueue, PaymentStatus
  <2>2. Target(c) \in Reservations /\ payment[Target(c)] = None
    BY <1>2 DEF Create, Target, PaymentTypeOK, Records
  <2>3. outbox[Target(c)] = None /\ [status |-> s, amount |-> Due] \in Payment
    BY <2>2 DEF ResultOK, Payment
  <2>4. Once!Settle(Target(c), [status |-> s, amount |-> Due])
    BY <2>1, <2>2, <2>3, DueIsStored DEF Once!Settle
  <2>5. QED
    BY <2>2, <2>3, <2>4 DEF Once!Next
<1>3. ASSUME NEW c \in Consumers, Insert(c)
      PROVE  Once!Next
  <2>1. Target(c) \in Reservations /\ payment[Target(c)] # None
    BY <1>3 DEF Insert, Target, FoundOK, PaymentTypeOK, Records
  <2>2. Once!Tell(Target(c))
    BY <1>3, <2>1 DEF Insert, Enqueue, Once!Tell
  <2>3. QED
    BY <2>1, <2>2 DEF Once!Next
<1>4. ASSUME NEW p \in Posts, PostCreate(p)
      PROVE  Once!Next
  <2>1. PICK s \in PaymentStatus :
           payment' = [payment EXCEPT ![PostFor[p]] = Row([status |-> s, amount |-> offer[p]])]
    BY <1>4 DEF PostCreate
  <2>2. PostFor[p] \in Reservations /\ Row([status |-> s, amount |-> offer[p]]) \in Payment
    BY RowIsPayment DEF Payment, PaymentTypeOK
  <2>3. Once!Decide(PostFor[p], Row([status |-> s, amount |-> offer[p]]))
    BY <1>4, <2>1 DEF PostCreate, Once!Decide
  <2>4. QED
    BY <2>2, <2>3 DEF Once!Next
<1>5. UNCHANGED <<payment, outbox>> \/ (\E c \in Consumers : Create(c) \/ Insert(c))
         \/ \E p \in Posts : PostCreate(p)
  BY StepFrame
     DEF paymentVars, Tick, Announce, Replay, CallStep, Poll, Check, Read, LookUp, LoseRace,
         DeadLetter, Ack, Fault, DeadLetterFails, Crash, AttemptFails, PostStep, PostRead,
         PostLose, PostFails, tables
<1>6. QED
  BY <1>1, <1>2, <1>3, <1>4, <1>5

\* Payments are decided once, results are told once and agree, whatever the order of
\* clients, consumers, failures and duplicates.
THEOREM ServiceImplementsOnce == Spec => ImplementsPaymentOnce
<1>1. Init => Once!Init
  BY DEF Init, Once!Init
<1>2. PaymentInv /\ [Next]_paymentVars => [Once!Next]_<<payment, outbox>>
  BY OnceStep
<1>3. QED
  BY <1>1, <1>2, PaymentInvariant, PTL DEF Spec, ImplementsPaymentOnce, Once!Spec, Once!onceVars
=============================================================================
