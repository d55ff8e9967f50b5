------------------------------ MODULE EventFeed -----------------------------
(***************************************************************************)
(* What a transactional outbox promises: the events that committed         *)
(* transactions have recorded reach Kafka, those of one key in the order   *)
(* in which they were recorded.  Only the first delivery of an event is    *)
(* here: an event delivered before may be delivered again at any time.     *)
(***************************************************************************)
EXTENDS Integers

CONSTANTS
    Rows,   \* ids of the rows of table outbox
    Keys,   \* event_key: the reservation an event is about
    KeyOf   \* KeyOf[i]: the key of row i

VARIABLES
    recorded,  \* rows of committed transactions
    delivered  \* rows that Kafka has taken at least once

feedVars == <<recorded, delivered>>

\* The rows of the same key before i.
Earlier(i) == {j \in Rows : j < i /\ KeyOf[j] = KeyOf[i]}

-----------------------------------------------------------------------------
Init == recorded = {} /\ delivered = {}

\* A transaction commits its rows; they come after all the recorded rows of their key.
Record(S) ==
    /\ S \cap recorded = {}
    /\ \A i \in S : \A j \in recorded : KeyOf[j] = KeyOf[i] => j < i
    /\ recorded' = recorded \cup S
    /\ UNCHANGED delivered

\* The first delivery of i: everything recorded before it for its key has arrived.
Deliver(i) ==
    /\ i \in recorded \ delivered
    /\ Earlier(i) \cap recorded \subseteq delivered
    /\ delivered' = delivered \cup {i}
    /\ UNCHANGED recorded

Next == (\E S \in SUBSET Rows : Record(S)) \/ (\E i \in Rows : Deliver(i))

Spec == Init /\ [][Next]_feedVars
=============================================================================
