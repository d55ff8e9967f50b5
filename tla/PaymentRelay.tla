----------------------------- MODULE PaymentRelay ---------------------------
(***************************************************************************)
(* The relay of payment-service's outbox. publishNext asks for the pending *)
(* rows with SELECT ... ORDER BY id FOR UPDATE, without a limit, sends the *)
(* first one and marks it, all in one transaction: it holds the locks of   *)
(* every pending row while Kafka answers.  Postgres (READ COMMITTED) takes *)
(* a snapshot, locks its rows one after the other in the order of the ids, *)
(* waits for each one locked elsewhere, and leaves out those that are not  *)
(* pending any more.  Several relays are the instances of a rolling        *)
(* update.  There is one row per reservation, hence no order to keep.      *)
(***************************************************************************)
EXTENDS Integers

CONSTANTS
    Rows,    \* ids of the rows of table outbox
    Relays,  \* relays, one per running instance
    None

ASSUME PaymentRelayAssumption == Rows \subseteq Nat /\ None \notin Relays

VARIABLES
    state,     \* state[i]: "pending" is published_at IS NULL in a committed row
    rowLock,   \* rowLock[i]: the relay whose transaction has locked row i, or None
    pc,        \* pc[w]: where publishNext is
    snapshot,  \* snapshot[w]: rows the query of w has found and not yet locked
    inFlight,  \* inFlight[w]: rows whose record the producer of w may still bring to Kafka
    delivered  \* rows that Kafka has taken at least once

relayVars == <<state, rowLock, pc, snapshot, inFlight, delivered>>

PaymentRelayTypeOK ==
    /\ state \in [Rows -> {"free", "pending", "published"}]
    /\ rowLock \in [Rows -> Relays \cup {None}]
    /\ pc \in [Relays -> {"idle", "locking", "sending", "acked"}]
    /\ snapshot \in [Relays -> SUBSET Rows]
    /\ inFlight \in [Relays -> SUBSET Rows]
    /\ delivered \subseteq Rows

Init ==
    /\ state = [i \in Rows |-> "free"]
    /\ rowLock = [i \in Rows |-> None]
    /\ pc = [w \in Relays |-> "idle"]
    /\ snapshot = [w \in Relays |-> {}]
    /\ inFlight = [w \in Relays |-> {}]
    /\ delivered = {}

Pending == {i \in Rows : state[i] = "pending"}
Locked(w) == {i \in Rows : rowLock[i] = w}
IsFirst(i, S) == i \in S /\ \A j \in S : i <= j

-----------------------------------------------------------------------------
\* A transaction of the consumer commits a row; ids need not become visible in order.
Commit(i) ==
    /\ state[i] = "free"
    /\ state' = [state EXCEPT ![i] = "pending"]
    /\ UNCHANGED <<rowLock, pc, snapshot, inFlight, delivered>>

\* publishNext begins: the query takes its snapshot.
Query(w) ==
    /\ pc[w] = "idle"
    /\ snapshot' = [snapshot EXCEPT ![w] = Pending]
    /\ pc' = [pc EXCEPT ![w] = "locking"]
    /\ UNCHANGED <<state, rowLock, inFlight, delivered>>

\* Mutant: FOR UPDATE SKIP LOCKED.
LockFree(w) ==
    /\ pc[w] = "locking"
    /\ \E i \in Rows :
        /\ IsFirst(i, snapshot[w])
        /\ rowLock' = [rowLock EXCEPT ![i] = IF state[i] = "pending" /\ @ = None THEN w ELSE @]
        /\ snapshot' = [snapshot EXCEPT ![w] = @ \ {i}]
    /\ UNCHANGED <<state, pc, inFlight, delivered>>

\* Mutant: SELECT ... FOR UPDATE without ORDER BY locks rows as it meets them.
LockAny(w) ==
    /\ pc[w] = "locking"
    /\ \E i \in snapshot[w] :
        /\ rowLock[i] = None
        /\ rowLock' = [rowLock EXCEPT ![i] = IF state[i] = "pending" THEN w ELSE None]
        /\ snapshot' = [snapshot EXCEPT ![w] = @ \ {i}]
    /\ UNCHANGED <<state, pc, inFlight, delivered>>

\* The next row of the snapshot is free: it is locked if it is still pending.
LockNext(w) ==
    /\ pc[w] = "locking"
    /\ \E i \in Rows :
        /\ IsFirst(i, snapshot[w])
        /\ rowLock[i] = None
        /\ rowLock' = [rowLock EXCEPT ![i] = IF state[i] = "pending" THEN w ELSE None]
        /\ snapshot' = [snapshot EXCEPT ![w] = @ \ {i}]
    /\ UNCHANGED <<state, pc, inFlight, delivered>>

\* No row is left: publishNext returns false.
Nothing(w) ==
    /\ pc[w] = "locking"
    /\ snapshot[w] = {}
    /\ Locked(w) = {}
    /\ pc' = [pc EXCEPT ![w] = "idle"]
    /\ UNCHANGED <<state, rowLock, snapshot, inFlight, delivered>>

\* getOne keeps the first row; its record is sent.
Send(w) ==
    /\ pc[w] = "locking"
    /\ snapshot[w] = {}
    /\ \E i \in Rows :
        /\ IsFirst(i, Locked(w))
        /\ inFlight' = [inFlight EXCEPT ![w] = @ \cup {i}]
    /\ pc' = [pc EXCEPT ![w] = "sending"]
    /\ UNCHANGED <<state, rowLock, snapshot, delivered>>

\* Kafka takes a record and acknowledges it, to the relay if it still waits.
Take(w, i) ==
    /\ i \in inFlight[w]
    /\ inFlight' = [inFlight EXCEPT ![w] = @ \ {i}]
    /\ delivered' = delivered \cup {i}
    /\ pc' = [pc EXCEPT ![w] = IF @ = "sending" /\ IsFirst(i, Locked(w)) THEN "acked" ELSE @]
    /\ UNCHANGED <<state, rowLock, snapshot>>

\* The transaction of w ends.
EndTransaction(w) ==
    /\ rowLock' = [i \in Rows |-> IF rowLock[i] = w THEN None ELSE rowLock[i]]
    /\ snapshot' = [snapshot EXCEPT ![w] = {}]
    /\ pc' = [pc EXCEPT ![w] = "idle"]

\* Mutant: the row is marked before the acknowledgement.
MarkEarly(w) ==
    /\ pc[w] \in {"sending", "acked"}
    /\ \E i \in Rows : IsFirst(i, Locked(w)) /\ state' = [state EXCEPT ![i] = "published"]
    /\ EndTransaction(w)
    /\ UNCHANGED <<inFlight, delivered>>

\* publishedAt is saved and the transaction commits.
Mark(w) ==
    /\ pc[w] = "acked"
    /\ \E i \in Rows : IsFirst(i, Locked(w)) /\ state' = [state EXCEPT ![i] = "published"]
    /\ EndTransaction(w)
    /\ UNCHANGED <<inFlight, delivered>>

\* An error of Kafka or of the database rolls the transaction back; pollAndSchedule waits
\* for the next poll.
GiveUp(w) ==
    /\ pc[w] # "idle"
    /\ EndTransaction(w)
    /\ UNCHANGED <<state, inFlight, delivered>>

\* A record given up is lost on its way.
Lose(w, i) ==
    /\ i \in inFlight[w]
    /\ ~(pc[w] = "sending" /\ IsFirst(i, Locked(w)))
    /\ inFlight' = [inFlight EXCEPT ![w] = @ \ {i}]
    /\ UNCHANGED <<state, rowLock, pc, snapshot, delivered>>

-----------------------------------------------------------------------------
PublishStep(w) == Query(w) \/ LockNext(w) \/ Nothing(w) \/ Send(w) \/ Mark(w)

\* Everything that happens when nothing fails. An instance that stops is a GiveUp:
\* Postgres rolls back, and what it has sent may arrive or be lost.
Working ==
    \/ \E i \in Rows : Commit(i)
    \/ \E w \in Relays : PublishStep(w) \/ \E i \in Rows : Take(w, i)
Failure == \E w \in Relays : GiveUp(w) \/ \E i \in Rows : Lose(w, i)

Next == Working \/ Failure

Spec == Init /\ [][Next]_relayVars

-----------------------------------------------------------------------------
\* published_at is only set after Kafka's acknowledgement (README, publishNext), whatever
\* is rolled back, sent twice or taken late.
ResultMarkedIsDelivered == \A i \in Rows : state[i] = "published" => i \in delivered

\* Two instances never send at the same time, although nothing but the locks of the rows
\* they find relates them, and they find different ones. This is about transactions that
\* live: what one has sent before Postgres rolled it back may still be in flight.
OneSender ==
    \A v, w \in Relays :
        pc[v] \in {"sending", "acked"} /\ pc[w] \in {"sending", "acked"} => v = w

\* No deadlock between instances, though each holds rows while it waits for others, for
\* as long as Kafka takes: however many they are, and whatever they have found, one of
\* them wants no row that the others hold.
NoWaitCircle ==
    \A S \in SUBSET Relays : S # {} =>
        \E w \in S : \A i \in snapshot[w] : rowLock[i] \notin S

\* Every result reaches Kafka and is marked (under the fairness of PaymentRelayLoop):
\* instances that wait for each other's rows never wait in a circle, and no failed or
\* full poll is the last one.
EveryResultPublished == \A i \in Rows : state[i] = "pending" ~> state[i] = "published"
=============================================================================
