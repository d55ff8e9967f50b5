--------------------------- MODULE PaymentRelayLoop --------------------------
(***************************************************************************)
(* The process around publishNext (payment-outbox-relay.service.ts): a     *)
(* timer starts a poll, the poll connects the producer and publishes up to *)
(* a batch of rows, and its end, good or bad, sets the timer again. A stop *)
(* clears the timer and closes the producer under a poll that goes on.     *)
(***************************************************************************)
EXTENDS PaymentRelay

CONSTANT BatchSize  \* OUTBOX_RELAY_BATCH_SIZE (50)

ASSUME BatchAssumption == BatchSize \in Nat \ {0}

VARIABLES
    loop,      \* loop[w]: no process, timer set, poll in progress, nothing more to come
    stopped,   \* stopped[w]: onModuleDestroy has begun
    producer,  \* producer[w]: "new" until connected, then "open", "closed" by a stop
    published  \* published[w]: rows published by this poll

loopVars == <<loop, stopped, producer, published>>
vars == <<relayVars, loopVars>>

LoopInit ==
    /\ Init
    /\ loop = [w \in Relays |-> "timer"]
    /\ stopped = [w \in Relays |-> FALSE]
    /\ producer = [w \in Relays |-> "new"]
    /\ published = [w \in Relays |-> 0]

-----------------------------------------------------------------------------
\* schedule: no timer once stopped.
Schedule(w) == loop' = [loop EXCEPT ![w] = IF stopped[w] THEN "over" ELSE "timer"]

\* onModuleInit in a new process.
Start(w) ==
    /\ loop[w] = "down"
    /\ Schedule(w)
    /\ UNCHANGED <<relayVars, stopped, producer, published>>

\* The timer fires: pollAndSchedule calls relayPending.
Fire(w) ==
    /\ loop[w] = "timer"
    /\ loop' = [loop EXCEPT ![w] = "poll"]
    /\ published' = [published EXCEPT ![w] = 0]
    /\ UNCHANGED <<relayVars, stopped, producer>>

\* ensureConnected.
Connect(w) ==
    /\ loop[w] = "poll"
    /\ producer[w] = "new"
    /\ producer' = [producer EXCEPT ![w] = "open"]
    /\ UNCHANGED <<relayVars, loop, stopped, published>>

ConnectFails(w) ==
    /\ loop[w] = "poll"
    /\ producer[w] = "new"
    /\ Schedule(w)
    /\ UNCHANGED <<relayVars, stopped, producer, published>>

\* relayPending asks for one row after the other, and does not look at stopped.
Publish(w) ==
    /\ loop[w] = "poll"
    /\ producer[w] # "new"
    /\ \/ published[w] < BatchSize /\ Query(w) /\ UNCHANGED loopVars
       \/ LockNext(w) /\ UNCHANGED loopVars
       \/ producer[w] = "open" /\ Send(w) /\ UNCHANGED loopVars
       \/ /\ Mark(w)
          /\ published' = [published EXCEPT ![w] = @ + 1]
          /\ UNCHANGED <<loop, stopped, producer>>
       \/ Nothing(w) /\ Schedule(w) /\ UNCHANGED <<stopped, producer, published>>

\* The batch is full.
Full(w) ==
    /\ loop[w] = "poll"
    /\ pc[w] = "idle" /\ published[w] = BatchSize
    /\ Schedule(w)
    /\ UNCHANGED <<relayVars, stopped, producer, published>>

\* Mutant: schedule stands after relayPending, not in finally.
PublishFailsForGood(w) ==
    /\ GiveUp(w)
    /\ loop' = [loop EXCEPT ![w] = "over"]
    /\ UNCHANGED <<stopped, producer, published>>

\* An error ends the transaction and the poll: pollAndSchedule logs it.
PublishFails(w) ==
    /\ GiveUp(w)
    /\ Schedule(w)
    /\ UNCHANGED <<stopped, producer, published>>

\* onModuleDestroy: no timer any more; a producer that is connected is disconnected.
Stop(w) ==
    /\ loop[w] \in {"timer", "poll"}
    /\ ~stopped[w]
    /\ stopped' = [stopped EXCEPT ![w] = TRUE]
    /\ loop' = [loop EXCEPT ![w] = IF @ = "timer" THEN "over" ELSE @]
    /\ producer' = [producer EXCEPT ![w] = IF @ = "open" THEN "closed" ELSE @]
    /\ UNCHANGED <<relayVars, published>>

\* The process ends, and with it its transaction.
Die(w) ==
    /\ IF pc[w] = "idle" THEN UNCHANGED relayVars ELSE GiveUp(w)
    /\ loop' = [loop EXCEPT ![w] = "down"]
    /\ stopped' = [stopped EXCEPT ![w] = FALSE]
    /\ producer' = [producer EXCEPT ![w] = "new"]
    /\ published' = [published EXCEPT ![w] = 0]

Exit(w) == stopped[w] /\ Die(w)
Crash(w) == loop[w] # "down" /\ Die(w)

-----------------------------------------------------------------------------
LoopStep(w) == Start(w) \/ Fire(w) \/ Connect(w) \/ Publish(w) \/ Full(w)

LoopWorking ==
    \/ \E w \in Relays :
        \/ LoopStep(w) \/ Exit(w)
        \/ \E i \in Rows : Take(w, i) /\ UNCHANGED loopVars
    \/ \E i \in Rows : Commit(i) /\ UNCHANGED loopVars

LoopFailure == \E w \in Relays :
    \/ ConnectFails(w) \/ PublishFails(w) \/ Stop(w) \/ Crash(w)
    \/ \E i \in Rows : Lose(w, i) /\ UNCHANGED loopVars

LoopNext == LoopWorking \/ LoopFailure

LoopSpec == LoopInit /\ [][LoopNext]_vars

\* Timers fire, Node runs what is ready, Postgres gives a free lock to one that waits
\* for it in the end, Kafka answers, a stopped process ends and Kubernetes starts
\* another.
LoopFairness == \A w \in Relays :
    /\ SF_vars(LoopStep(w))
    /\ WF_vars(Exit(w))
    /\ \A i \in Rows : WF_vars(Take(w, i) /\ UNCHANGED loopVars)

LoopFairSpec == LoopSpec /\ LoopFairness /\ <>[][LoopWorking]_vars
=============================================================================
