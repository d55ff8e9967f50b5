------------------------- MODULE NotificationWorker -------------------------
(***************************************************************************)
(* The Kafka worker of notification-service (kafka_worker.py): it mails    *)
(* what booking-service publishes, moves to a dead letter topic what it    *)
(* cannot mail, and only then commits the offset.  The workers are the     *)
(* members of the consumer group, two of them during a rolling update.     *)
(*                                                                         *)
(* Kafka, the mail server and the processes fail in every way the code     *)
(* can meet, as often as they like, until things are calm.                 *)
(***************************************************************************)
EXTENDS Integers

CONSTANTS
    Workers,      \* processes of notification-service
    Partitions,   \* partitions of the two topics it reads
    Size,         \* Size[p]: how many records partition p holds
    Verdict,      \* Verdict[p][o]: what handle_kafka_event makes of a record
    MaxAttempts,  \* attempts per record (3 in the code)
    None

ASSUME WorkerAssumption ==
    /\ Size \in [Partitions -> Nat]
    /\ MaxAttempts \in Nat \ {0}
    /\ None \notin Workers

VARIABLES
    pc,         \* pc[w]: where the thread of w is
    record,     \* record[w]: the record <<partition, offset>> it works on
    attempt,    \* attempt[w]: the attempt it is at
    owner,      \* owner[p]: the member the group has given p to, or None
    position,   \* position[p]: the next record the owner of p reads
    committed,  \* committed[p]: where the next owner of p starts
    mailed,     \* records whose mail has been sent
    letters,    \* records in the dead letter topics
    buffered,   \* dead letters given up on, still in a producer
    calm,       \* no more failures from now on
    again,      \* history: records mailed more than once
    troubled    \* history: records with a failed commit, a lost reply of the
                \* mail server, or a crash or a lost partition while at work

groupVars == <<owner, position, committed>>
historyVars == <<again, troubled>>
vars == <<pc, record, attempt, groupVars, mailed, letters, buffered, calm, historyVars>>

Records == UNION {{p} \X (1..Size[p]) : p \in Partitions}

Stopped == {"hung", "ended"}
Idle == {"down", "poll", "ended"}
WorkerPc == Idle \cup {"handle", "hung", "commit", "deadLetter", "commitDead", "seek"}

\* w has taken a record and not finished with it.
Busy(w) == pc[w] \notin Idle

\* w is still the member that holds the partition of its record.
Owns(w) == owner[record[w][1]] = w

Settled(r) == r \in mailed \cup letters \/ Verdict[r[1]][r[2]] = "ignore"

TypeOK ==
    /\ pc \in [Workers -> WorkerPc]
    /\ record \in [Workers -> Records \cup {None}]
    /\ \A w \in Workers : Busy(w) => record[w] \in Records
    /\ attempt \in [Workers -> 1..MaxAttempts]
    /\ owner \in [Partitions -> Workers \cup {None}]
    /\ \A p \in Partitions :
        /\ position[p] \in 1..(Size[p] + 1)
        /\ committed[p] \in 1..(Size[p] + 1)
    /\ position \in [Partitions -> Nat]
    /\ committed \in [Partitions -> Nat]
    /\ mailed \subseteq Records
    /\ letters \subseteq Records
    /\ buffered \subseteq Records
    /\ calm \in BOOLEAN
    /\ again \subseteq mailed
    /\ troubled \subseteq Records

-----------------------------------------------------------------------------
\* auto.offset.reset earliest: a group without offsets starts at the first record.
Init ==
    /\ pc = [w \in Workers |-> "poll"]
    /\ record = [w \in Workers |-> None]
    /\ attempt = [w \in Workers |-> 1]
    /\ owner = [p \in Partitions |-> None]
    /\ position = [p \in Partitions |-> 1]
    /\ committed = [p \in Partitions |-> 1]
    /\ mailed = {}
    /\ letters = {}
    /\ buffered = {}
    /\ calm = FALSE
    /\ again = {}
    /\ troubled = {}

Go(w, place) == pc' = [pc EXCEPT ![w] = place]

\* The end of _process and of what the loop does with its record.
Done(w, place) ==
    /\ Go(w, place)
    /\ record' = [record EXCEPT ![w] = None]
    /\ attempt' = [attempt EXCEPT ![w] = 1]

\* w's record is mailed and will be worked on again.
Trouble(w) == troubled' = troubled \cup ({record[w]} \cap mailed)

\* Mutant: the attempts of a record are not counted.
RetryForEver(w) ==
    /\ Go(w, "handle")
    /\ UNCHANGED attempt

\* Mutant: one attempt too many.
RetryOnceMore(w) ==
    \/ /\ attempt[w] <= MaxAttempts
       /\ attempt' = [attempt EXCEPT ![w] = @ + 1]
       /\ Go(w, "handle")
    \/ /\ attempt[w] > MaxAttempts
       /\ Go(w, "deadLetter")
       /\ UNCHANGED attempt

\* The except of _process: another attempt, or the dead letter topic after the last.
Retry(w) ==
    \/ /\ attempt[w] < MaxAttempts
       /\ attempt' = [attempt EXCEPT ![w] = @ + 1]
       /\ Go(w, "handle")
    \/ /\ attempt[w] = MaxAttempts
       /\ Go(w, "deadLetter")
       /\ UNCHANGED attempt

\* The group gives a free partition to a member that polls.
Assign(w, p) ==
    /\ pc[w] = "poll"
    /\ owner[p] = None
    /\ owner' = [owner EXCEPT ![p] = w]
    /\ position' = [position EXCEPT ![p] = committed[p]]
    /\ UNCHANGED <<pc, record, attempt, committed, mailed, letters, buffered, calm, historyVars>>

\* The group takes a partition back: a member joins or leaves, or w has not polled
\* for max.poll.interval.ms, which a thread that hangs does not escape.
Revoke(w, p) ==
    /\ ~calm \/ pc[w] = "hung"
    /\ owner[p] = w
    /\ owner' = [owner EXCEPT ![p] = None]
    /\ troubled' = troubled \cup (IF Busy(w) THEN {record[w]} ELSE {})
    /\ UNCHANGED <<pc, record, attempt, position, committed, mailed, letters, buffered, calm, again>>

\* consumer.poll returns the next record of a partition of w.
Poll(w) ==
    \E p \in Partitions :
        /\ pc[w] = "poll"
        /\ owner[p] = w
        /\ position[p] <= Size[p]
        /\ record' = [record EXCEPT ![w] = <<p, position[p]>>]
        /\ position' = [position EXCEPT ![p] = @ + 1]
        /\ Go(w, "handle")
        /\ UNCHANGED <<attempt, owner, committed, mailed, letters, buffered, calm, historyVars>>

\* The mail of w's record reaches the mail server.
Mail(w) ==
    /\ mailed' = mailed \cup {record[w]}
    /\ again' = again \cup ({record[w]} \cap mailed)

\* handle_kafka_event accepts the record and its mail is sent, or it has none to send.
Handle(w) ==
    /\ pc[w] = "handle"
    /\ Go(w, "commit")
    /\ \/ Verdict[record[w][1]][record[w][2]] = "mail" /\ Mail(w)
       \/ Verdict[record[w][1]][record[w][2]] = "ignore" /\ UNCHANGED <<mailed, again>>
    /\ UNCHANGED <<record, attempt, groupVars, letters, buffered, calm, troubled>>

\* It raises: the record is not what booking-service promises, or the mail server
\* fails, before it has taken the mail or after.
HandleFails(w) ==
    /\ pc[w] = "handle"
    /\ Retry(w)
    /\ \/ /\ Verdict[record[w][1]][record[w][2]] = "refuse"
          /\ UNCHANGED <<mailed, historyVars>>
       \/ /\ Verdict[record[w][1]][record[w][2]] = "mail"
          /\ ~calm
          /\ \/ UNCHANGED <<mailed, historyVars>>
             \/ Mail(w) /\ troubled' = troubled \cup {record[w]}
    /\ UNCHANGED <<record, groupVars, letters, buffered, calm>>

\* smtplib.SMTP is opened without a timeout: a silent server blocks the thread.
Hang(w) ==
    /\ pc[w] = "handle"
    /\ Verdict[record[w][1]][record[w][2]] = "mail"
    /\ ~calm
    /\ Go(w, "hung")
    /\ UNCHANGED <<record, attempt, groupVars, mailed, letters, buffered, calm, historyVars>>

Advance(w) ==
    committed' = [committed EXCEPT ![record[w][1]] = record[w][2] + 1]

\* Mutant: no commit; the offset stays where the group found it.
CommitForgotten(w) ==
    /\ pc[w] \in {"commit", "commitDead"}
    /\ Owns(w)
    /\ Done(w, "poll")
    /\ UNCHANGED <<groupVars, mailed, letters, buffered, calm, historyVars>>

\* consumer.commit, synchronous: Kafka takes it from the owner of the partition only.
Commit(w) ==
    /\ pc[w] \in {"commit", "commitDead"}
    /\ Owns(w)
    /\ Advance(w)
    /\ Done(w, "poll")
    /\ UNCHANGED <<owner, position, mailed, letters, buffered, calm, historyVars>>

\* It raises: w has lost the partition, or Kafka is in trouble and may have stored
\* the offset all the same.  After a mail the whole attempt is made again.
CommitFails(w) ==
    /\ pc[w] \in {"commit", "commitDead"}
    /\ ~calm \/ ~Owns(w)
    /\ \/ pc[w] = "commit" /\ Retry(w)
       \/ pc[w] = "commitDead" /\ Go(w, "seek") /\ UNCHANGED attempt
    /\ UNCHANGED committed \/ (Owns(w) /\ Advance(w))
    /\ Trouble(w)
    /\ UNCHANGED <<record, owner, position, mailed, letters, buffered, calm, again>>

\* produce and flush: Kafka has acknowledged the dead letter.
DeadLetter(w) ==
    /\ pc[w] = "deadLetter"
    /\ letters' = letters \cup {record[w]}
    /\ Go(w, "commitDead")
    /\ UNCHANGED <<record, attempt, groupVars, mailed, buffered, calm, historyVars>>

\* Mutant: the outcome of flush is not looked at.
DeadLetterUnchecked(w) ==
    /\ pc[w] = "deadLetter"
    /\ ~calm
    /\ Go(w, "commitDead")
    /\ UNCHANGED <<record, attempt, groupVars, mailed, letters, buffered, calm, historyVars>>

\* Kafka refuses it, or flush gives up after 10 s with the record in the producer.
DeadLetterFails(w) ==
    /\ pc[w] = "deadLetter"
    /\ ~calm
    /\ Go(w, "seek")
    /\ \/ UNCHANGED buffered
       \/ buffered' = buffered \cup {record[w]}
    /\ UNCHANGED <<record, attempt, groupVars, mailed, letters, calm, historyVars>>

\* A dead letter that was given up on may still arrive.
Arrive ==
    \E r \in buffered :
        /\ buffered' = buffered \ {r}
        /\ letters' = letters \cup {r}
        /\ UNCHANGED <<pc, record, attempt, groupVars, mailed, calm, historyVars>>

\* Mutant: the record that could not be moved is left behind.
SeekForgotten(w) ==
    /\ pc[w] = "seek"
    /\ Done(w, "poll")
    /\ UNCHANGED <<groupVars, mailed, letters, buffered, calm, historyVars>>

\* consumer.seek back to the record; the loop goes on.
Seek(w) ==
    /\ pc[w] = "seek"
    /\ position' = IF Owns(w) THEN [position EXCEPT ![record[w][1]] = record[w][2]]
                   ELSE position
    /\ Done(w, "poll")
    /\ UNCHANGED <<owner, committed, mailed, letters, buffered, calm, historyVars>>

Leave(w) == owner' = [p \in Partitions |-> IF owner[p] = w THEN None ELSE owner[p]]

\* seek may refuse a partition that w no longer holds. Nothing catches that: _run
\* flushes, closes the consumer and the thread is over; the process stays, and healthy.
SeekRaises(w) ==
    /\ pc[w] = "seek"
    /\ ~Owns(w)
    /\ Leave(w)
    /\ Done(w, "ended")
    /\ UNCHANGED <<position, committed, mailed, letters, buffered, calm, historyVars>>

\* The process stops, anywhere.  A stop asked for waits 10 s for the record at
\* hand and flushes: then the crash is at "poll", after Arrive.
Crash(w) ==
    /\ ~calm
    /\ pc[w] # "down"
    /\ Leave(w)
    /\ Done(w, "down")
    /\ IF Busy(w) THEN Trouble(w) ELSE UNCHANGED troubled
    /\ UNCHANGED <<position, committed, mailed, letters, buffered, calm, again>>

Start(w) ==
    /\ pc[w] = "down"
    /\ Go(w, "poll")
    /\ UNCHANGED <<record, attempt, groupVars, mailed, letters, buffered, calm, historyVars>>

CalmDown ==
    /\ ~calm
    /\ calm' = TRUE
    /\ UNCHANGED <<pc, record, attempt, groupVars, mailed, letters, buffered, historyVars>>

Work(w) ==
    \/ Poll(w) \/ Handle(w) \/ HandleFails(w) \/ Commit(w) \/ CommitFails(w)
    \/ DeadLetter(w) \/ DeadLetterFails(w) \/ Seek(w) \/ SeekRaises(w)

Next ==
    \/ CalmDown \/ Arrive
    \/ \E w \in Workers :
        \/ Work(w) \/ Hang(w) \/ Crash(w) \/ Start(w)
        \/ \E p \in Partitions : Assign(w, p) \/ Revoke(w, p)

Spec == Init /\ [][Next]_vars

\* The thread goes on, Kubernetes restarts what has stopped, the group gives every
\* partition to a member and takes it from one that does not poll. A thread that
\* hangs or has ended is never helped.
Fairness ==
    /\ \A w \in Workers : WF_vars(Work(w)) /\ WF_vars(Start(w))
    /\ \A p \in Partitions :
        /\ WF_vars(\E w \in Workers : Assign(w, p))
        /\ WF_vars(\E w \in Workers : pc[w] = "hung" /\ Revoke(w, p))

FairSpec == Spec /\ Fairness

-----------------------------------------------------------------------------
Before(r) == {<<r[1], o>> : o \in 1..(r[2] - 1)}

\* An offset moves past a record only when its mail is sent or Kafka has its dead
\* letter: no crash, lost partition or refused dead letter makes a notification
\* disappear (_process and the seek of _run).
CommittedIsSettled ==
    \A p \in Partitions : \A r \in Before(<<p, committed[p]>>) : Settled(r)

\* Nothing overtakes: when a record is mailed or dead-lettered, so is every record
\* before it in its partition, even by a member that has lost the partition.
SettledInOrder ==
    \A r \in mailed \cup letters : \A s \in Before(r) : Settled(s)

\* A customer gets a mail twice only after a commit that failed, a lost reply of the
\* mail server, a crash or a partition taken away while the record was at work.
RepeatsHaveACause == again \subseteq troubled

\* Once things are calm every record is mailed or dead-lettered, unless no thread
\* is left that reads: all of them hang on the mail server or have ended.
EveryRecordSettles ==
    calm ~> \/ \A r \in Records : Settled(r)
            \/ \A w \in Workers : pc[w] \in Stopped
=============================================================================
