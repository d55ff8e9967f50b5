----------------------------- MODULE OutboxRelay ----------------------------
(***************************************************************************)
(* The outbox of booking-service and its relay: OutboxRelayScheduler reads *)
(* the ids of a batch of unpublished rows, OutboxRelay publishes them one  *)
(* after the other, each in a transaction that locks the row, sends its    *)
(* event and, once Kafka has acknowledged it, marks the row.  A send that  *)
(* is given up after its timeout stays in the producer's buffer and may    *)
(* still arrive; the events of one reservation go to different topics, so  *)
(* the producer keeps no order between records of different rows.  Several *)
(* relays are the instances of a rolling update.                           *)
(*                                                                         *)
(* The transactions that insert rows are an environment: identity values   *)
(* are handed out in order, commits come in any order, and two             *)
(* transactions never write rows of one key at the same time, because      *)
(* they hold the lock of its reservation (see BookingService).             *)
(***************************************************************************)
EXTENDS Integers, FiniteSets

CONSTANTS
    Rows,         \* ids of the rows of table outbox
    Keys,         \* event_key: the reservation an event is about
    KeyOf,        \* KeyOf[i]: the key of row i
    Relays,       \* relays, one per running instance
    BatchSize,    \* rows read by one scan (50 in the code)
    MaxBuffered,  \* bound: records of one row a producer keeps, the ones given up included
    None

ASSUME RelayAssumption ==
    /\ Rows \subseteq Nat
    /\ KeyOf \in [Rows -> Keys]
    /\ BatchSize \in Nat \ {0}
    /\ MaxBuffered \in Nat \ {0}
    /\ None \notin Relays

VARIABLES
    state,     \* state[i]: "pending" is published_at IS NULL in a committed row
    rowLock,   \* rowLock[i]: the relay whose transaction has locked row i, or None
    pc,        \* pc[w]: is relay w between two rows, waiting for Kafka, or acknowledged
    batch,     \* batch[w]: the ids w has read and not yet handled
    buffer,    \* buffer[w][i]: records of row i in the producer of w, not yet taken by Kafka
    delivered  \* rows that Kafka has taken at least once

vars == <<state, rowLock, pc, batch, buffer, delivered>>

RowState == {"free", "inserted", "rolledBack", "pending", "published"}

\* Every variable keeps its type.
RelayTypeOK ==
    /\ state \in [Rows -> RowState]
    /\ rowLock \in [Rows -> Relays \cup {None}]
    /\ pc \in [Relays -> {"idle", "sending", "acked"}]
    /\ batch \in [Relays -> SUBSET Rows]
    /\ buffer \in [Relays -> [Rows -> 0..MaxBuffered]]
    /\ delivered \subseteq Rows

Init ==
    /\ state = [i \in Rows |-> "free"]
    /\ rowLock = [i \in Rows |-> None]
    /\ pc = [w \in Relays |-> "idle"]
    /\ batch = [w \in Relays |-> {}]
    /\ buffer = [w \in Relays |-> [i \in Rows |-> 0]]
    /\ delivered = {}

Pending == {i \in Rows : state[i] = "pending"}

-----------------------------------------------------------------------------
(* Business transactions.                                                  *)

\* BookingOutboxRecorder: the INSERT takes the next identity value at once.
Insert(i) ==
    /\ state[i] = "free"
    /\ \A j \in Rows : j < i => state[j] # "free"
    /\ state' = [state EXCEPT ![i] = "inserted"]
    /\ UNCHANGED <<rowLock, pc, batch, buffer, delivered>>

\* The transaction of key k ends: its rows become visible, or never exist.
EndInserts(k, s) ==
    /\ \E i \in Rows : KeyOf[i] = k /\ state[i] = "inserted"
    /\ state' = [i \in Rows |-> IF KeyOf[i] = k /\ state[i] = "inserted" THEN s ELSE state[i]]
    /\ UNCHANGED <<rowLock, pc, batch, buffer, delivered>>

Commit(k) == EndInserts(k, "pending")
Rollback(k) == EndInserts(k, "rolledBack")

-----------------------------------------------------------------------------
(* Relay.                                                                  *)

\* findPendingIds: the smallest ids of unpublished rows, BatchSize of them at most.
Scan(w) ==
    /\ pc[w] = "idle"
    /\ batch[w] = {}
    /\ \E ids \in SUBSET Pending :
        /\ \A i \in ids, j \in Pending \ ids : i < j
        /\ ids = Pending \/ Cardinality(ids) = BatchSize
        /\ Cardinality(ids) <= BatchSize
        /\ batch' = [batch EXCEPT ![w] = ids]
    /\ UNCHANGED <<state, rowLock, pc, buffer, delivered>>

\* The list is walked by increasing id.
IsNext(w, i) == i \in batch[w] /\ \A j \in batch[w] : i <= j

\* findByIdForUpdate finds the row published by another instance meanwhile.
Skip(w) ==
    \E i \in Rows :
        /\ pc[w] = "idle"
        /\ IsNext(w, i)
        /\ rowLock[i] = None
        /\ state[i] = "published"
        /\ batch' = [batch EXCEPT ![w] = @ \ {i}]
        /\ UNCHANGED <<state, rowLock, pc, buffer, delivered>>

\* The row is locked and still unpublished: its record goes to the producer.
Send(w) ==
    \E i \in Rows :
        /\ pc[w] = "idle"
        /\ IsNext(w, i)
        /\ rowLock[i] = None
        /\ state[i] # "published"
        /\ buffer[w][i] < MaxBuffered
        /\ rowLock' = [rowLock EXCEPT ![i] = w]
        /\ buffer' = [buffer EXCEPT ![w][i] = @ + 1]
        /\ pc' = [pc EXCEPT ![w] = "sending"]
        /\ UNCHANGED <<state, batch, delivered>>

\* w waits for the record of row i, and that is the only one left.
Awaits(w, i) == pc[w] = "sending" /\ IsNext(w, i) /\ buffer[w][i] = 1

\* Kafka takes the oldest record of row i (idempotent producer) and acknowledges it.
Take(w, i) ==
    /\ buffer[w][i] > 0
    /\ delivered' = delivered \cup {i}
    /\ buffer' = [buffer EXCEPT ![w][i] = @ - 1]
    /\ pc' = [pc EXCEPT ![w] = IF Awaits(w, i) THEN "acked" ELSE @]
    /\ UNCHANGED <<state, rowLock, batch>>

\* Mutant: published_at is set without waiting for the acknowledgement.
MarkAtOnce(w) ==
    \E i \in Rows :
        /\ pc[w] \in {"sending", "acked"}
        /\ IsNext(w, i)
        /\ state' = [state EXCEPT ![i] = "published"]
        /\ rowLock' = [rowLock EXCEPT ![i] = None]
        /\ batch' = [batch EXCEPT ![w] = @ \ {i}]
        /\ pc' = [pc EXCEPT ![w] = "idle"]
        /\ UNCHANGED <<buffer, delivered>>

\* markPublished and the commit that makes it durable.
Mark(w) ==
    \E i \in Rows :
        /\ pc[w] = "acked"
        /\ IsNext(w, i)
        /\ state' = [state EXCEPT ![i] = "published"]
        /\ rowLock' = [rowLock EXCEPT ![i] = None]
        /\ batch' = [batch EXCEPT ![w] = @ \ {i}]
        /\ pc' = [pc EXCEPT ![w] = "idle"]
        /\ UNCHANGED <<buffer, delivered>>

\* The transaction of w ends without an effect.
Abort(w) ==
    /\ rowLock' = [i \in Rows |-> IF rowLock[i] = w THEN None ELSE rowLock[i]]
    /\ pc' = [pc EXCEPT ![w] = "idle"]

\* Mutant: the loop goes on with the next row.
GiveUpOne(w) ==
    \E i \in Rows :
        /\ pc[w] # "idle"
        /\ IsNext(w, i)
        /\ Abort(w)
        /\ batch' = [batch EXCEPT ![w] = @ \ {i}]
        /\ UNCHANGED <<state, buffer, delivered>>

\* Mutant: the loop stops, the transaction stays open.
GiveUpOpen(w) ==
    /\ pc[w] # "idle"
    /\ pc' = [pc EXCEPT ![w] = "idle"]
    /\ batch' = [batch EXCEPT ![w] = {}]
    /\ UNCHANGED <<state, rowLock, buffer, delivered>>

\* send-timeout-ms has passed, Kafka refuses, or the commit fails: publish throws
\* and the loop stops there. The record stays where it is.
GiveUp(w) ==
    /\ pc[w] # "idle"
    /\ Abort(w)
    /\ batch' = [batch EXCEPT ![w] = {}]
    /\ UNCHANGED <<state, buffer, delivered>>

\* delivery.timeout.ms, longer than send-timeout-ms: nobody waits for the record.
Drop(w, i) ==
    /\ buffer[w][i] > 0
    /\ ~Awaits(w, i)
    /\ buffer' = [buffer EXCEPT ![w][i] = @ - 1]
    /\ UNCHANGED <<state, rowLock, pc, batch, delivered>>

\* The instance stops: its producer is gone with its buffer.
Crash(w) ==
    /\ batch[w] # {} \/ \E i \in Rows : buffer[w][i] > 0
    /\ Abort(w)
    /\ batch' = [batch EXCEPT ![w] = {}]
    /\ buffer' = [buffer EXCEPT ![w] = [i \in Rows |-> 0]]
    /\ UNCHANGED <<state, delivered>>

-----------------------------------------------------------------------------
Transaction ==
    \/ \E i \in Rows : Insert(i)
    \/ \E k \in Keys : Commit(k) \/ Rollback(k)
RelayStep(w) == Scan(w) \/ Skip(w) \/ Send(w) \/ Mark(w)

\* Everything that happens when nothing fails.
Working == Transaction \/ \E w \in Relays : RelayStep(w) \/ \E i \in Rows : Take(w, i)
Failure == \E w \in Relays : GiveUp(w) \/ Crash(w) \/ \E i \in Rows : Drop(w, i)

Next == Working \/ Failure

Spec == Init /\ [][Next]_vars

-----------------------------------------------------------------------------
(* Safety.                                                                 *)

\* Rows whose transaction has committed.
Recorded == {i \in Rows : state[i] \in {"pending", "published"}}

Feed == INSTANCE EventFeed WITH recorded <- Recorded

\* Whatever the failures and the overlapping instances: only events of committed
\* transactions are delivered, and an event is first delivered after all the events
\* recorded before it for its reservation (publish, and the break of relayPending).
ImplementsEventFeed == Feed!Spec

\* A row that is marked published has been taken by Kafka: no crash, timeout or
\* failed commit between the two systems loses an event.
MarkedIsDelivered == \A i \in Rows : state[i] = "published" => i \in delivered

\* One instance only: a record waiting in the producer is not older than what Kafka has
\* of its reservation, so Kafka never sees an old event again after a newer one.
\* (With two instances a record given up by one may arrive after the other has
\* published it and the next.)
NoLateDuplicate ==
    \A w \in Relays, i \in delivered, j \in Rows :
        buffer[w][j] > 0 /\ KeyOf[i] = KeyOf[j] => i <= j

-----------------------------------------------------------------------------
(* Liveness. The scheduled task runs again and again, Kafka answers, and   *)
(* failures do not go on for ever (a row that Kafka refuses every time     *)
(* does block every row after it).                                         *)

Fairness ==
    /\ \A w \in Relays : SF_vars(RelayStep(w))
    /\ \A w \in Relays, i \in Rows : WF_vars(Take(w, i))

\* From some moment on every step is one of a working system.
FailuresCease == <>[][Working]_vars

FairSpec == Spec /\ Fairness /\ FailuresCease

\* Every recorded event is delivered and its row marked, after any failures.
EveryRowPublished == \A i \in Rows : state[i] = "pending" ~> state[i] = "published"
=============================================================================
