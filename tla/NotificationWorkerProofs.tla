----------------------- MODULE NotificationWorkerProofs ---------------------
(***************************************************************************)
(* No notification disappears and none overtakes another, for any number   *)
(* of workers, partitions and records.                                     *)
(*                                                                         *)
(* The argument follows a record through a worker: everything before it in *)
(* its partition was settled when it was polled, settled records stay so,  *)
(* and what a worker has polled it either settles or seeks back to.        *)
(***************************************************************************)
EXTENDS NotificationWorker, TLAPS

AllSettled(S) == \A s \in S : Settled(s)

\* A record at work, or given up on in a producer, comes after settled records only.
TakenInOrder ==
    /\ \A w \in Workers : Busy(w) => AllSettled(Before(record[w]))
    /\ \A r \in buffered : AllSettled(Before(r))

\* What an owner will poll next comes after settled records and the one it has at work.
PositionsInOrder ==
    \A w \in Workers, p \in Partitions :
        owner[p] = w =>
            IF Busy(w) /\ record[w][1] = p THEN position[p] = record[w][2] + 1
            ELSE AllSettled(Before(<<p, position[p]>>))

\* A worker commits only what is settled.
CommitsAreSettled ==
    \A w \in Workers : pc[w] \in {"commit", "commitDead"} => Settled(record[w])

\* What a worker has at work without trouble is in a partition it holds, and not
\* mailed before the commit that follows its mail.
FreshAtWork ==
    \A w \in Workers :
        Busy(w) /\ record[w] \notin troubled =>
            Owns(w) /\ (pc[w] # "commit" => record[w] \notin mailed)

\* What is mailed without trouble is committed, or about to be.
MailedMovesOn ==
    \A r \in mailed \ troubled :
        \/ r[2] < committed[r[1]]
        \/ \E w \in Workers : pc[w] = "commit" /\ record[w] = r

\* An owner is never behind the offset, but for one record: a dead letter whose
\* commit was reported as failed and was stored.
OwnersKeepUp ==
    \A w \in Workers, p \in Partitions :
        owner[p] = w =>
            IF Busy(w) /\ record[w][1] = p THEN committed[p] <= record[w][2] + 1
            ELSE \/ committed[p] <= position[p]
                 \/ /\ committed[p] = position[p] + 1
                    /\ <<p, position[p]>> \notin mailed \ troubled

WorkerInv ==
    /\ TypeOK /\ TakenInOrder /\ PositionsInOrder /\ CommitsAreSettled
    /\ CommittedIsSettled /\ SettledInOrder

RepeatInv ==
    WorkerInv /\ FreshAtWork /\ MailedMovesOn /\ OwnersKeepUp /\ RepeatsHaveACause

-----------------------------------------------------------------------------
LEMMA RecordShape ==
  ASSUME NEW r \in Records
  PROVE  /\ r[1] \in Partitions /\ r[2] \in 1..Size[r[1]]
         /\ r[2] \in Nat /\ Size[r[1]] \in Nat /\ r = <<r[1], r[2]>>
BY WorkerAssumption DEF Records

LEMMA RecordMember ==
  ASSUME NEW p \in Partitions, NEW o \in 1..Size[p]
  PROVE  <<p, o>> \in Records
BY DEF Records

LEMMA Frame ==
  [Next]_vars =>
    \/ UNCHANGED vars \/ CalmDown \/ Arrive
    \/ \E w \in Workers :
        \/ Poll(w) \/ Handle(w) \/ HandleFails(w) \/ Commit(w) \/ CommitFails(w)
        \/ DeadLetter(w) \/ DeadLetterFails(w) \/ Seek(w) \/ SeekRaises(w)
        \/ Hang(w) \/ Crash(w) \/ Start(w)
    \/ \E w \in Workers, p \in Partitions : Assign(w, p) \/ Revoke(w, p)
BY DEF Next, Work

LEMMA TypeStep ==
  ASSUME TypeOK, [Next]_vars
  PROVE  TypeOK'
<1> USE WorkerAssumption DEF TypeOK, groupVars, historyVars, Busy, Idle
<1>1. CASE UNCHANGED vars
  BY <1>1 DEF vars, Records
<1>2. CASE CalmDown
  BY <1>2 DEF CalmDown
<1>3. CASE Arrive
  BY <1>3 DEF Arrive
<1>4. ASSUME NEW w \in Workers, Poll(w)
      PROVE  TypeOK'
  <2>1. PICK p \in Partitions : Poll(w)!(p)
    BY <1>4 DEF Poll
  <2>2. position[p] \in 1..Size[p] /\ position[p] + 1 \in 1..(Size[p] + 1)
    BY <2>1
  <2>3. <<p, position[p]>> \in Records
    BY <2>2, RecordMember
  <2>4. QED
    BY <2>1, <2>2, <2>3 DEF Go, WorkerPc
<1>5. ASSUME NEW w \in Workers, Handle(w)
      PROVE  TypeOK'
  BY <1>5 DEF Handle, Go, Mail, WorkerPc
<1>6. ASSUME NEW w \in Workers, HandleFails(w)
      PROVE  TypeOK'
  BY <1>6 DEF HandleFails, Retry, Go, Mail, WorkerPc
<1>7. ASSUME NEW w \in Workers, Commit(w)
      PROVE  TypeOK'
  <2>1. record[w] \in Records
    BY <1>7 DEF Commit
  <2>2. record[w][2] + 1 \in 1..(Size[record[w][1]] + 1) /\ record[w][1] \in Partitions
    BY <2>1, RecordShape
  <2>3. QED
    BY <1>7, <2>2 DEF Commit, Advance, Done, Go, WorkerPc
<1>8. ASSUME NEW w \in Workers, CommitFails(w)
      PROVE  TypeOK'
  <2>1. record[w] \in Records
    BY <1>8 DEF CommitFails
  <2>2. record[w][2] + 1 \in 1..(Size[record[w][1]] + 1) /\ record[w][1] \in Partitions
    BY <2>1, RecordShape
  <2>3. pc' \in [Workers -> WorkerPc] /\ attempt' \in [Workers -> 1..MaxAttempts]
    BY <1>8 DEF CommitFails, Retry, Go, WorkerPc
  <2>4. \A v \in Workers : Busy(v)' => record'[v] \in Records
    BY <1>8, <2>1 DEF CommitFails, Retry, Go
  <2>5. /\ committed' \in [Partitions -> Nat]
        /\ \A p \in Partitions : committed'[p] \in 1..(Size[p] + 1)
    BY <1>8, <2>2 DEF CommitFails, Advance
  <2>6. troubled' \subseteq Records
    BY <1>8, <2>1 DEF CommitFails, Trouble
  <2>7. QED
    BY <1>8, <2>3, <2>4, <2>5, <2>6 DEF CommitFails
<1>9. ASSUME NEW w \in Workers, DeadLetter(w)
      PROVE  TypeOK'
  BY <1>9 DEF DeadLetter, Go, WorkerPc
<1>10. ASSUME NEW w \in Workers, DeadLetterFails(w)
       PROVE  TypeOK'
  BY <1>10 DEF DeadLetterFails, Go, WorkerPc
<1>11. ASSUME NEW w \in Workers, Seek(w)
       PROVE  TypeOK'
  <2>1. record[w] \in Records
    BY <1>11 DEF Seek
  <2>2. record[w][2] \in 1..(Size[record[w][1]] + 1) /\ record[w][1] \in Partitions
    BY <2>1, RecordShape
  <2>3. QED
    BY <1>11, <2>2 DEF Seek, Done, Go, WorkerPc
<1>12. ASSUME NEW w \in Workers, SeekRaises(w)
       PROVE  TypeOK'
  BY <1>12 DEF SeekRaises, Leave, Done, Go, WorkerPc
<1>13. ASSUME NEW w \in Workers, Hang(w)
       PROVE  TypeOK'
  BY <1>13 DEF Hang, Go, WorkerPc
<1>14. ASSUME NEW w \in Workers, Crash(w)
       PROVE  TypeOK'
  BY <1>14 DEF Crash, Leave, Trouble, Done, Go, WorkerPc
<1>15. ASSUME NEW w \in Workers, Start(w)
       PROVE  TypeOK'
  BY <1>15 DEF Start, Go, WorkerPc
<1>16. ASSUME NEW w \in Workers, NEW p \in Partitions, Assign(w, p)
       PROVE  TypeOK'
  BY <1>16 DEF Assign
<1>17. ASSUME NEW w \in Workers, NEW p \in Partitions, Revoke(w, p)
       PROVE  TypeOK'
  BY <1>17 DEF Revoke
<1>18. QED
  BY <1>1, <1>2, <1>3, <1>4, <1>5, <1>6, <1>7, <1>8, <1>9, <1>10, <1>11, <1>12,
     <1>13, <1>14, <1>15, <1>16, <1>17, Frame

\* Mails and dead letters are never taken back.
LEMMA SettledStable ==
  ASSUME [Next]_vars, NEW r, Settled(r)
  PROVE  Settled(r)'
<1>1. mailed \subseteq mailed'
  BY Frame DEF vars, CalmDown, Arrive, Poll, Handle, HandleFails, Mail, Commit, CommitFails, historyVars,
     DeadLetter, DeadLetterFails, Seek, SeekRaises, Hang, Crash, Start, Assign, Revoke
<1>2. letters \subseteq letters'
  BY Frame DEF vars, CalmDown, Arrive, Poll, Handle, HandleFails, Commit, CommitFails,
     DeadLetter, DeadLetterFails, Seek, SeekRaises, Hang, Crash, Start, Assign, Revoke
<1>3. QED
  BY <1>1, <1>2 DEF Settled

LEMMA AllSettledStable ==
  ASSUME [Next]_vars, NEW S, AllSettled(S)
  PROVE  AllSettled(S)'
BY SettledStable DEF AllSettled

\* The end of a commit moves the offset just past a settled record.
LEMMA AfterSettled ==
  ASSUME NEW p, NEW o \in Nat, AllSettled(Before(<<p, o>>)), Settled(<<p, o>>)
  PROVE  AllSettled(Before(<<p, o + 1>>))
<1>1. Before(<<p, o + 1>>) \subseteq Before(<<p, o>>) \cup {<<p, o>>}
  BY DEF Before
<1>2. QED
  BY <1>1 DEF AllSettled

LEMMA CommitsSettledStep ==
  ASSUME WorkerInv, [Next]_vars
  PROVE  CommitsAreSettled'
<1> SUFFICES ASSUME NEW v \in Workers, pc'[v] \in {"commit", "commitDead"}
             PROVE  Settled(record[v])' 
  BY DEF CommitsAreSettled
<1> USE DEF WorkerInv, TypeOK
<1>1. ASSUME pc[v] \in {"commit", "commitDead"}, record'[v] = record[v]
      PROVE  Settled(record[v])'
  BY <1>1, SettledStable DEF CommitsAreSettled, Settled
<1>2. CASE Handle(v)
  BY <1>2 DEF Handle, Mail, Settled
<1>3. CASE DeadLetter(v)
  BY <1>3 DEF DeadLetter, Settled
<1>4. QED
  BY <1>1, <1>2, <1>3, Frame
     DEF vars, CalmDown, Arrive, Poll, Handle, HandleFails, Retry, Go, Done, Commit, CommitFails,
     DeadLetter, DeadLetterFails, Seek, SeekRaises, Hang, Crash, Start, Assign, Revoke

LEMMA TakenStep ==
  ASSUME WorkerInv, [Next]_vars
  PROVE  TakenInOrder'
<1> USE DEF WorkerInv, TypeOK, Busy, Idle
<1>1. ASSUME NEW v \in Workers, Busy(v)'
      PROVE  AllSettled(Before(record[v]))'
  <2>1. ASSUME Busy(v), record'[v] = record[v]
        PROVE  AllSettled(Before(record[v]))'
    <3>1. AllSettled(Before(record[v]))
      BY <2>1 DEF TakenInOrder
    <3>2. QED
      BY <2>1, <3>1, SettledStable DEF AllSettled, Before
  <2>2. CASE Poll(v)
    <3>1. PICK p \in Partitions : Poll(v)!(p)
      BY <2>2 DEF Poll
    <3>2. AllSettled(Before(<<p, position[p]>>))
      BY <3>1 DEF PositionsInOrder
    <3>3. record'[v] = <<p, position[p]>>
      BY <3>1
    <3>4. QED
      BY <3>2, <3>3, SettledStable DEF AllSettled, Before
  <2>3. QED
    BY <1>1, <2>1, <2>2, Frame
       DEF vars, CalmDown, Arrive, Poll, Handle, HandleFails, Retry, Go, Done, Commit, CommitFails,
       DeadLetter, DeadLetterFails, Seek, SeekRaises, Hang, Crash, Start, Assign, Revoke
<1>2. ASSUME NEW r \in buffered'
      PROVE  AllSettled(Before(r))'
  <2>1. r \in buffered \/ \E w \in Workers : DeadLetterFails(w) /\ r = record[w]
    BY <1>2, Frame
       DEF vars, CalmDown, Arrive, Poll, Handle, HandleFails, Commit, CommitFails,
       DeadLetter, DeadLetterFails, Seek, SeekRaises, Hang, Crash, Start, Assign, Revoke
  <2>2. AllSettled(Before(r))
    BY <2>1 DEF TakenInOrder, DeadLetterFails
  <2>3. QED
    BY <2>2, AllSettledStable DEF AllSettled, Before
<1>3. QED
  BY <1>1, <1>2 DEF TakenInOrder

LEMMA OrderStep ==
  ASSUME WorkerInv, [Next]_vars
  PROVE  SettledInOrder'
<1> SUFFICES ASSUME NEW r \in mailed' \cup letters'
             PROVE  AllSettled(Before(r))'
  BY DEF SettledInOrder, AllSettled
<1> USE DEF WorkerInv, TypeOK, Busy, Idle
<1>1. \/ r \in mailed \cup letters \cup buffered
      \/ \E w \in Workers : Busy(w) /\ r = record[w]
  BY Frame DEF vars, CalmDown, Arrive, Poll, Handle, HandleFails, Mail, Commit, CommitFails, historyVars,
     DeadLetter, DeadLetterFails, Seek, SeekRaises, Hang, Crash, Start, Assign, Revoke
<1>2. AllSettled(Before(r))
  BY <1>1 DEF SettledInOrder, TakenInOrder, AllSettled
<1>3. QED
  BY <1>2, AllSettledStable DEF AllSettled, Before

LEMMA CommittedStep ==
  ASSUME WorkerInv, [Next]_vars
  PROVE  CommittedIsSettled'
<1> SUFFICES ASSUME NEW p \in Partitions
             PROVE  AllSettled(Before(<<p, committed[p]>>))'
  BY DEF CommittedIsSettled, AllSettled
<1> USE DEF WorkerInv, TypeOK, Busy, Idle
<1>1. ASSUME committed'[p] = committed[p]
      PROVE  AllSettled(Before(<<p, committed[p]>>))'
  <2>1. AllSettled(Before(<<p, committed[p]>>))
    BY DEF CommittedIsSettled, AllSettled
  <2>2. QED
    BY <1>1, <2>1, SettledStable DEF AllSettled, Before
<1>2. ASSUME NEW w \in Workers, pc[w] \in {"commit", "commitDead"}, Advance(w)
      PROVE  AllSettled(Before(<<p, committed[p]>>))'
  <2>1. record[w] \in Records /\ AllSettled(Before(record[w])) /\ Settled(record[w])
    BY <1>2 DEF TakenInOrder, CommitsAreSettled
  <2>2. CASE p = record[w][1]
    <3>1. record[w] = <<p, record[w][2]>> /\ record[w][2] \in Nat
      BY <2>1, <2>2, RecordShape
    <3>2. AllSettled(Before(<<p, record[w][2] + 1>>))
      BY <2>1, <3>1, AfterSettled
    <3>3. committed'[p] = record[w][2] + 1
      BY <1>2, <2>2 DEF Advance
    <3>4. QED
      BY <3>2, <3>3, SettledStable DEF AllSettled, Before
  <2>3. CASE p # record[w][1]
    BY <1>1, <1>2, <2>3 DEF Advance
  <2>4. QED
    BY <2>2, <2>3
<1>3. QED
  BY <1>1, <1>2, Frame
     DEF vars, groupVars, CalmDown, Arrive, Poll, Handle, HandleFails, Commit, CommitFails,
     DeadLetter, DeadLetterFails, Seek, SeekRaises, Hang, Crash, Start, Assign, Revoke

LEMMA PositionsStep ==
  ASSUME WorkerInv, [Next]_vars
  PROVE  PositionsInOrder'
<1> SUFFICES ASSUME NEW v \in Workers, NEW p \in Partitions, owner'[p] = v
             PROVE  IF Busy(v)' /\ record'[v][1] = p THEN position'[p] = record'[v][2] + 1
                    ELSE AllSettled(Before(<<p, position[p]>>))'
  BY DEF PositionsInOrder
<1> USE WorkerAssumption DEF WorkerInv, TypeOK, Busy, Idle
\* Nothing about v and p changes.
<1>1. ASSUME owner[p] = v, position'[p] = position[p], record'[v] = record[v], Busy(v)' = Busy(v)
      PROVE  IF Busy(v)' /\ record'[v][1] = p THEN position'[p] = record'[v][2] + 1
             ELSE AllSettled(Before(<<p, position[p]>>))'
  BY <1>1, SettledStable DEF PositionsInOrder, AllSettled, Before
\* v is through with a settled record.
<1>2. ASSUME Commit(v)
      PROVE  IF Busy(v)' /\ record'[v][1] = p THEN position'[p] = record'[v][2] + 1
             ELSE AllSettled(Before(<<p, position[p]>>))'
  <2>1. ~Busy(v)' /\ owner[p] = v /\ position'[p] = position[p] /\ Busy(v)
    BY <1>2 DEF Commit, Done, Go
  <2>2. AllSettled(Before(<<p, position[p]>>))
    <3>1. CASE record[v][1] = p
      <4>1. record[v] \in Records /\ AllSettled(Before(record[v])) /\ Settled(record[v])
        BY <1>2, <2>1 DEF Commit, TakenInOrder, CommitsAreSettled
      <4>2. record[v] = <<p, record[v][2]>> /\ record[v][2] \in Nat
        BY <3>1, <4>1, RecordShape
      <4>3. position[p] = record[v][2] + 1
        BY <2>1, <3>1 DEF PositionsInOrder
      <4>4. QED
        BY <4>1, <4>2, <4>3, AfterSettled
    <3>2. CASE record[v][1] # p
      BY <2>1, <3>2 DEF PositionsInOrder
    <3>3. QED
      BY <3>1, <3>2
  <2>3. QED
    BY <2>1, <2>2, SettledStable DEF AllSettled, Before
\* v goes back to its record, or goes on with the partitions it holds.
<1>3. ASSUME Seek(v)
      PROVE  IF Busy(v)' /\ record'[v][1] = p THEN position'[p] = record'[v][2] + 1
             ELSE AllSettled(Before(<<p, position[p]>>))'
  <2>1. ~Busy(v)' /\ owner[p] = v /\ Busy(v)
    BY <1>3 DEF Seek, Done, Go
  <2>2. record[v] \in Records /\ AllSettled(Before(record[v]))
    BY <2>1 DEF TakenInOrder
  <2>3. CASE record[v][1] = p
    <3>1. record[v] = <<p, record[v][2]>>
      BY <2>2, <2>3, RecordShape
    <3>2. position'[p] = record[v][2]
      BY <1>3, <2>1, <2>3 DEF Seek, Owns
    <3>3. QED
      BY <2>1, <2>2, <3>1, <3>2, SettledStable DEF AllSettled, Before
  <2>4. CASE record[v][1] # p
    <3>1. position'[p] = position[p] /\ AllSettled(Before(<<p, position[p]>>))
      BY <1>3, <2>1, <2>4 DEF Seek, PositionsInOrder
    <3>2. QED
      BY <2>1, <3>1, SettledStable DEF AllSettled, Before
  <2>5. QED
    BY <2>3, <2>4
<1>4. ASSUME Poll(v)
      PROVE  IF Busy(v)' /\ record'[v][1] = p THEN position'[p] = record'[v][2] + 1
             ELSE AllSettled(Before(<<p, position[p]>>))'
  <2>1. PICK q \in Partitions : Poll(v)!(q)
    BY <1>4 DEF Poll
  <2>2. record'[v] = <<q, position[q]>> /\ ~Busy(v) /\ owner[p] = v /\ Busy(v)'
    BY <2>1 DEF Go
  <2>3. CASE p = q
    BY <2>1, <2>2, <2>3
  <2>4. CASE p # q
    <3>1. position'[p] = position[p] /\ AllSettled(Before(<<p, position[p]>>))
      BY <2>1, <2>2, <2>4 DEF PositionsInOrder
    <3>2. QED
      BY <2>2, <2>4, <3>1, SettledStable DEF AllSettled, Before
  <2>5. QED
    BY <2>3, <2>4
<1>5. ASSUME Assign(v, p)
      PROVE  IF Busy(v)' /\ record'[v][1] = p THEN position'[p] = record'[v][2] + 1
             ELSE AllSettled(Before(<<p, position[p]>>))'
  <2>1. ~Busy(v)' /\ position'[p] = committed[p] /\ AllSettled(Before(<<p, committed[p]>>))
    BY <1>5 DEF Assign, CommittedIsSettled, AllSettled
  <2>2. QED
    BY <2>1, SettledStable DEF AllSettled, Before
\* A worker that moves another partition, or none.
<1>6. ASSUME NEW w \in Workers, NEW q \in Partitions, Assign(w, q) \/ Revoke(w, q), <<w, q>> # <<v, p>>
      PROVE  owner[p] = v /\ position'[p] = position[p] /\ record' = record /\ pc' = pc
  BY <1>6 DEF Assign, Revoke
<1>7. ASSUME NEW w \in Workers, w # v, Poll(w) \/ Seek(w)
      PROVE  /\ owner[p] = v /\ position'[p] = position[p]
             /\ record'[v] = record[v] /\ pc'[v] = pc[v]
  BY <1>7 DEF Poll, Seek, Owns, Done, Go
<1>8. ASSUME NEW w \in Workers, SeekRaises(w) \/ Crash(w)
      PROVE  /\ owner[p] = v /\ position'[p] = position[p]
             /\ record'[v] = record[v] /\ pc'[v] = pc[v]
  <2>1. owner[p] = v /\ w # v
    BY <1>8, WorkerAssumption DEF SeekRaises, Crash, Leave
  <2>2. QED
    BY <1>8, <2>1 DEF SeekRaises, Crash, Done, Go
<1>9. ASSUME NEW w \in Workers,
             \/ Handle(w) \/ HandleFails(w) \/ CommitFails(w) \/ DeadLetter(w)
             \/ DeadLetterFails(w) \/ Hang(w) \/ Start(w) \/ (Commit(w) /\ w # v)
      PROVE  /\ owner[p] = v /\ position'[p] = position[p]
             /\ record'[v] = record[v] /\ Busy(v)' = Busy(v)
  BY <1>9 DEF Handle, HandleFails, CommitFails, DeadLetter, DeadLetterFails, Hang, Start, Commit,
     Retry, Done, Go, groupVars
<1>10. CASE UNCHANGED vars \/ CalmDown \/ Arrive
  BY <1>1, <1>10 DEF vars, groupVars, CalmDown, Arrive
<1>11. ~Revoke(v, p)
  BY WorkerAssumption DEF Revoke
<1>12. QED
  BY <1>1, <1>2, <1>3, <1>4, <1>5, <1>6, <1>7, <1>8, <1>9, <1>10, <1>11, Frame

-----------------------------------------------------------------------------
LEMMA FreshStep ==
  ASSUME RepeatInv, [Next]_vars
  PROVE  FreshAtWork'
<1> SUFFICES ASSUME NEW v \in Workers, Busy(v)', record'[v] \notin troubled'
             PROVE  Owns(v)' /\ (pc'[v] # "commit" => record'[v] \notin mailed')
  BY DEF FreshAtWork
<1> USE WorkerAssumption DEF RepeatInv, WorkerInv, TypeOK, Busy, Idle
<1>1. troubled \subseteq troubled'
  BY Frame DEF vars, historyVars, CalmDown, Arrive, Poll, Handle, HandleFails, Trouble, Commit, CommitFails,
     DeadLetter, DeadLetterFails, Seek, SeekRaises, Hang, Crash, Start, Assign, Revoke
<1>2. CASE Poll(v)
  <2>1. PICK p \in Partitions : Poll(v)!(p)
    BY <1>2 DEF Poll
  <2>2. <<p, position[p]>> \notin mailed \ troubled
    <3>1. SUFFICES ASSUME <<p, position[p]>> \in mailed \ troubled
                   PROVE  FALSE
      OBVIOUS
    <3>2. committed[p] <= position[p] /\ committed[p] \in Nat /\ position[p] \in Nat
      BY <2>1, <3>1 DEF OwnersKeepUp
    <3>3. PICK w \in Workers : pc[w] = "commit" /\ record[w] = <<p, position[p]>>
      BY <3>1, <3>2 DEF MailedMovesOn
    <3>4. owner[p] = w
      BY <3>1, <3>3 DEF FreshAtWork, Owns
    <3>5. QED
      BY <2>1, <3>3, <3>4
  <2>3. QED
    BY <1>1, <2>1, <2>2 DEF Owns, historyVars
<1>3. ASSUME Busy(v), record'[v] = record[v]
      PROVE  Owns(v)' /\ (pc'[v] # "commit" => record'[v] \notin mailed')
  <2>1. Owns(v) /\ record[v] \notin troubled /\ record[v] \in Records
        /\ (pc[v] # "commit" => record[v] \notin mailed)
    BY <1>1, <1>3 DEF FreshAtWork
  <2>2. Owns(v)'
    <3>1. record[v][1] \in Partitions
      BY <2>1, RecordShape
    <3>2. ASSUME NEW w \in Workers, SeekRaises(w) \/ Crash(w)
          PROVE  w # v
      BY <3>2 DEF SeekRaises, Crash, Done, Go
    <3>3. ASSUME NEW w \in Workers, NEW p \in Partitions, Revoke(w, p)
          PROVE  <<w, p>> # <<v, record[v][1]>>
      BY <1>3, <3>3 DEF Revoke
    <3>4. QED
      BY <1>3, <2>1, <3>1, <3>2, <3>3, Frame
         DEF vars, groupVars, CalmDown, Arrive, Poll, Handle, HandleFails, Commit, CommitFails, Owns, Leave,
         DeadLetter, DeadLetterFails, Seek, SeekRaises, Hang, Crash, Start, Assign, Revoke
  <2>3. ASSUME pc'[v] # "commit"
        PROVE  record[v] \notin mailed'
    <3>1. ASSUME NEW w \in Workers, Handle(w) \/ HandleFails(w), record[v] = record[w]
          PROVE  w = v
      BY <1>1, <2>1, <3>1 DEF FreshAtWork, Handle, HandleFails, Owns
    <3>2. ~(pc[v] = "commit" /\ CommitFails(v) /\ record[v] \in mailed)
      BY <1>3 DEF CommitFails, Trouble
    <3>3. pc[v] = "commit" => \/ CommitFails(v)
                              \/ pc'[v] = "commit"
      BY <1>3, Frame DEF vars, CalmDown, Arrive, Poll, Handle, HandleFails, Retry, Go, Done, Commit, CommitFails,
         DeadLetter, DeadLetterFails, Seek, SeekRaises, Hang, Crash, Start, Assign, Revoke
    <3>4. record[v] \notin mailed
      BY <2>1, <2>3, <3>2, <3>3
    <3>5. ~Handle(v) /\ ~(HandleFails(v) /\ record[v] \in mailed')
      BY <1>3, <2>1, <2>3, <3>4 DEF Handle, HandleFails, Go, Mail
    <3>6. QED
      BY <1>1, <1>3, <3>1, <3>4, <3>5, Frame
         DEF vars, CalmDown, Arrive, Poll, Handle, HandleFails, Mail, Commit, CommitFails, historyVars,
         DeadLetter, DeadLetterFails, Seek, SeekRaises, Hang, Crash, Start, Assign, Revoke
  <2>4. QED
    BY <1>3, <2>2, <2>3
<1>4. QED
  BY <1>2, <1>3, Frame
     DEF vars, CalmDown, Arrive, Poll, Handle, HandleFails, Retry, Go, Done, Commit, CommitFails,
     DeadLetter, DeadLetterFails, Seek, SeekRaises, Hang, Crash, Start, Assign, Revoke

\* Offsets stored by an owner never go back.
LEMMA CommittedGrows ==
  ASSUME RepeatInv, [Next]_vars, NEW p \in Partitions
  PROVE  committed[p] <= committed'[p]
<1> USE DEF RepeatInv, WorkerInv, TypeOK, Busy, Idle
<1>1. ASSUME NEW w \in Workers, pc[w] \in {"commit", "commitDead"}, Owns(w), Advance(w)
      PROVE  committed[p] <= committed'[p]
  <2>1. CASE p = record[w][1]
    <3>1. committed[p] <= record[w][2] + 1
      BY <1>1, <2>1 DEF OwnersKeepUp, Owns
    <3>2. QED
      BY <1>1, <2>1, <3>1 DEF Advance
  <2>2. CASE p # record[w][1]
    BY <1>1, <2>2 DEF Advance
  <2>3. QED
    BY <2>1, <2>2
<1>2. committed[p] <= committed[p]
  OBVIOUS
<1>3. QED
  BY <1>1, <1>2, Frame
     DEF vars, groupVars, CalmDown, Arrive, Poll, Handle, HandleFails, Commit, CommitFails,
     DeadLetter, DeadLetterFails, Seek, SeekRaises, Hang, Crash, Start, Assign, Revoke

LEMMA MovesOnStep ==
  ASSUME RepeatInv, [Next]_vars
  PROVE  MailedMovesOn'
<1> SUFFICES ASSUME NEW r \in mailed' \ troubled'
             PROVE  \/ r[2] < committed'[r[1]]
                    \/ \E w \in Workers : pc'[w] = "commit" /\ record'[w] = r
  BY DEF MailedMovesOn
<1> USE DEF RepeatInv, WorkerInv, TypeOK, Busy, Idle
<1>1. /\ troubled \subseteq troubled'
      /\ \A w \in Workers : HandleFails(w) => r \in mailed
  BY Frame DEF vars, historyVars, CalmDown, Arrive, Poll, Handle, HandleFails, Trouble, Commit, CommitFails, Mail,
     DeadLetter, DeadLetterFails, Seek, SeekRaises, Hang, Crash, Start, Assign, Revoke
<1>2. CASE r \notin mailed
  <2>1. \E w \in Workers : Handle(w) /\ Mail(w)
    BY <1>1, <1>2, Frame DEF vars, CalmDown, Arrive, Poll, Handle, HandleFails, Commit, CommitFails,
       DeadLetter, DeadLetterFails, Seek, SeekRaises, Hang, Crash, Start, Assign, Revoke
  <2>2. QED
    BY <1>2, <2>1 DEF Handle, Mail, Go
<1>3. CASE r \in mailed
  <2>1. r[1] \in Partitions /\ r[2] \in Nat /\ r \in Records
    BY <1>3, RecordShape
  <2>2. CASE r[2] < committed[r[1]]
    <3>1. committed'[r[1]] \in Nat
      BY <2>1, TypeStep
    <3>2. QED
      BY <2>1, <2>2, <3>1, CommittedGrows
  <2>3. ASSUME NEW w \in Workers, pc[w] = "commit", record[w] = r
        PROVE  \/ r[2] < committed'[r[1]]
               \/ \E v \in Workers : pc'[v] = "commit" /\ record'[v] = r
    <3>1. CASE Commit(w)
      <4>1. committed'[r[1]] = r[2] + 1
        BY <2>1, <2>3, <3>1 DEF Commit, Advance
      <4>2. QED
        BY <2>1, <4>1
    <3>2. ~CommitFails(w) /\ ~Crash(w)
      BY <1>3, <2>3 DEF CommitFails, Crash, Trouble
    <3>3. QED
      BY <2>3, <3>1, <3>2, Frame
         DEF vars, CalmDown, Arrive, Poll, Handle, HandleFails, Retry, Go, Done, Commit, CommitFails,
         DeadLetter, DeadLetterFails, Seek, SeekRaises, Hang, Crash, Start, Assign, Revoke
  <2>4. QED
    BY <1>1, <1>3, <2>2, <2>3 DEF MailedMovesOn
<1>4. QED
  BY <1>2, <1>3

LEMMA KeepUpStep ==
  ASSUME RepeatInv, [Next]_vars
  PROVE  OwnersKeepUp'
<1> DEFINE Up(w, p) ==
      IF Busy(w) /\ record[w][1] = p THEN committed[p] <= record[w][2] + 1
      ELSE \/ committed[p] <= position[p]
           \/ committed[p] = position[p] + 1 /\ <<p, position[p]>> \notin mailed \ troubled
<1> SUFFICES ASSUME NEW v \in Workers, NEW p \in Partitions, owner'[p] = v
             PROVE  Up(v, p)'
  BY DEF OwnersKeepUp
<1> USE WorkerAssumption DEF RepeatInv, WorkerInv, TypeOK, Busy, Idle
<1>1. ASSUME owner[p] = v, position'[p] = position[p], committed'[p] = committed[p],
             record'[v] = record[v], Busy(v)' = Busy(v)
      PROVE  Up(v, p)'
  <2>1. ASSUME ~(Busy(v) /\ record[v][1] = p), <<p, position[p]>> \notin mailed \ troubled
        PROVE  <<p, position[p]>> \notin mailed' \ troubled'
    <3>1. troubled \subseteq troubled'
      BY Frame DEF vars, historyVars, CalmDown, Arrive, Poll, Handle, HandleFails, Trouble, Commit, CommitFails,
         DeadLetter, DeadLetterFails, Seek, SeekRaises, Hang, Crash, Start, Assign, Revoke
    <3>2. ASSUME NEW w \in Workers, Handle(w) \/ HandleFails(w), record[w] = <<p, position[p]>>
          PROVE  record[w] \in troubled
      <4>1. w # v
        BY <2>1, <3>2 DEF Handle, HandleFails
      <4>2. QED
        BY <1>1, <3>2, <4>1 DEF FreshAtWork, Owns, Handle, HandleFails
    <3>3. QED
      BY <2>1, <3>1, <3>2, Frame
         DEF vars, historyVars, CalmDown, Arrive, Poll, Handle, HandleFails, Mail, Commit, CommitFails,
         DeadLetter, DeadLetterFails, Seek, SeekRaises, Hang, Crash, Start, Assign, Revoke
  <2>2. QED
    BY <1>1, <2>1 DEF OwnersKeepUp
<1>2. CASE Commit(v)
  <2>1. CASE record[v][1] = p
    <3>1. committed'[p] = record[v][2] + 1 /\ owner[p] = v /\ position'[p] = position[p] /\ ~Busy(v)'
      BY <1>2, <2>1 DEF Commit, Advance, Done, Go
    <3>2. position[p] = record[v][2] + 1
      BY <1>2, <2>1, <3>1 DEF Commit, PositionsInOrder
    <3>3. QED
      BY <3>1, <3>2
  <2>2. CASE record[v][1] # p
    BY <1>2, <2>2 DEF Commit, Advance, Done, Go, OwnersKeepUp, historyVars
  <2>3. QED
    BY <2>1, <2>2
<1>3. CASE Seek(v)
  <2>1. ~Busy(v)' /\ owner[p] = v /\ Busy(v) /\ committed' = committed /\ mailed' = mailed /\ troubled' = troubled
    BY <1>3 DEF Seek, Done, Go, historyVars
  <2>2. CASE record[v][1] = p
    <3>1. record[v] \notin mailed \ troubled
      BY <1>3 DEF Seek, FreshAtWork
    <3>2. record[v] = <<p, record[v][2]>> /\ record[v][2] \in Nat
      BY <2>1, <2>2, RecordShape
    <3>3. position'[p] = record[v][2] /\ committed[p] <= record[v][2] + 1
      BY <1>3, <2>1, <2>2 DEF Seek, Owns, OwnersKeepUp
    <3>4. QED
      BY <2>1, <3>1, <3>2, <3>3
  <2>3. CASE record[v][1] # p
    BY <1>3, <2>1, <2>3 DEF Seek, OwnersKeepUp
  <2>4. QED
    BY <2>2, <2>3
<1>4. CASE Poll(v)
  <2>1. PICK q \in Partitions : Poll(v)!(q)
    BY <1>4 DEF Poll
  <2>2. /\ record'[v] = <<q, position[q]>> /\ ~Busy(v) /\ owner[p] = v /\ Busy(v)'
        /\ committed' = committed /\ mailed' = mailed /\ troubled' = troubled
    BY <2>1 DEF Go, historyVars
  <2>3. CASE p = q
    <3>3. position[p] \in Nat /\ committed[p] \in Nat
      OBVIOUS
    <3>1. committed[p] <= position[p] + 1
      <4>1. committed[p] <= position[p] \/ committed[p] = position[p] + 1
        BY <2>2 DEF OwnersKeepUp
      <4>2. QED
        BY <3>3, <4>1
    <3>2. record'[v][1] = p /\ record'[v][2] = position[p]
      BY <2>2, <2>3
    <3>4. QED
      BY <2>2, <3>1, <3>2
  <2>4. CASE p # q
    BY <2>1, <2>2, <2>4 DEF OwnersKeepUp
  <2>5. QED
    BY <2>3, <2>4
<1>5. CASE Assign(v, p)
  BY <1>5 DEF Assign
\* A commit that failed for v and may have been stored.
<1>6. CASE CommitFails(v)
  <2>1. /\ owner[p] = v /\ position'[p] = position[p] /\ record' = record /\ Busy(v) /\ Busy(v)'
        /\ mailed' = mailed /\ troubled \subseteq troubled'
    BY <1>6 DEF CommitFails, Retry, Go, Trouble
  <2>2. CASE record[v][1] = p
    <3>1. committed'[p] = committed[p] \/ committed'[p] = record[v][2] + 1
      BY <1>6, <2>2 DEF CommitFails, Advance
    <3>2. record[v][2] \in Nat
      BY <2>1, RecordShape
    <3>3. committed[p] <= record[v][2] + 1
      BY <2>1, <2>2 DEF OwnersKeepUp
    <3>4. committed'[p] <= record[v][2] + 1
      BY <3>1, <3>2, <3>3
    <3>5. QED
      BY <2>1, <2>2, <3>4
  <2>3. CASE record[v][1] # p
    BY <1>6, <2>1, <2>3 DEF CommitFails, Advance, OwnersKeepUp
  <2>4. QED
    BY <2>2, <2>3
<1>7. ASSUME NEW w \in Workers, NEW q \in Partitions, Assign(w, q) \/ Revoke(w, q), <<w, q>> # <<v, p>>
      PROVE  /\ owner[p] = v /\ position'[p] = position[p] /\ committed' = committed
             /\ record' = record /\ pc' = pc
  BY <1>7 DEF Assign, Revoke
<1>8. ASSUME NEW w \in Workers, w # v, Poll(w) \/ Seek(w)
      PROVE  /\ owner[p] = v /\ position'[p] = position[p] /\ committed' = committed
             /\ record'[v] = record[v] /\ pc'[v] = pc[v]
  BY <1>8 DEF Poll, Seek, Owns, Done, Go
<1>9. ASSUME NEW w \in Workers, SeekRaises(w) \/ Crash(w)
      PROVE  /\ owner[p] = v /\ position'[p] = position[p] /\ committed' = committed
             /\ record'[v] = record[v] /\ pc'[v] = pc[v]
  <2>1. owner[p] = v /\ w # v
    BY <1>9 DEF SeekRaises, Crash, Leave
  <2>2. QED
    BY <1>9, <2>1 DEF SeekRaises, Crash, Done, Go
<1>10. ASSUME NEW w \in Workers,
              \/ Handle(w) \/ HandleFails(w) \/ DeadLetter(w) \/ DeadLetterFails(w)
              \/ Hang(w) \/ Start(w)
       PROVE  /\ owner[p] = v /\ position'[p] = position[p] /\ committed' = committed
              /\ record'[v] = record[v] /\ Busy(v)' = Busy(v)
  BY <1>10 DEF Handle, HandleFails, DeadLetter, DeadLetterFails, Hang, Start, Retry, Go, groupVars
<1>11. ASSUME NEW w \in Workers, w # v, Commit(w) \/ CommitFails(w)
       PROVE  /\ owner[p] = v /\ position'[p] = position[p] /\ committed'[p] = committed[p]
              /\ record'[v] = record[v] /\ pc'[v] = pc[v]
  <2>1. owner[p] = v /\ position'[p] = position[p] /\ record'[v] = record[v] /\ pc'[v] = pc[v]
    BY <1>11 DEF Commit, CommitFails, Retry, Done, Go
  <2>2. committed'[p] = committed[p]
    BY <1>11, <2>1 DEF Commit, CommitFails, Advance, Owns
  <2>3. QED
    BY <2>1, <2>2
<1>12. CASE UNCHANGED vars \/ CalmDown \/ Arrive
  BY <1>1, <1>12 DEF vars, groupVars, CalmDown, Arrive
<1>13. ~Revoke(v, p)
  BY DEF Revoke
<1>14. QED
  BY <1>1, <1>2, <1>3, <1>4, <1>5, <1>6, <1>7, <1>8, <1>9, <1>10, <1>11, <1>12, <1>13, Frame

LEMMA CauseStep ==
  ASSUME RepeatInv, [Next]_vars
  PROVE  RepeatsHaveACause'
<1> USE DEF RepeatInv, WorkerInv, TypeOK, Busy, Idle
<1>1. troubled \subseteq troubled'
  BY Frame DEF vars, historyVars, CalmDown, Arrive, Poll, Handle, HandleFails, Trouble, Commit, CommitFails,
     DeadLetter, DeadLetterFails, Seek, SeekRaises, Hang, Crash, Start, Assign, Revoke
<1>2. ASSUME NEW w \in Workers, Handle(w) \/ HandleFails(w), record[w] \in mailed
      PROVE  record[w] \in troubled
  BY <1>2 DEF FreshAtWork, Handle, HandleFails
<1>3. QED
  BY <1>1, <1>2, Frame
     DEF RepeatsHaveACause, vars, historyVars, CalmDown, Arrive, Poll, Handle, HandleFails, Mail, Commit,
     CommitFails, DeadLetter, DeadLetterFails, Seek, SeekRaises, Hang, Crash, Start, Assign, Revoke

LEMMA InitWorkerInv ==
  ASSUME Init
  PROVE  WorkerInv
<1> USE WorkerAssumption DEF Init
<1>1. TypeOK
  <2>1. \A p \in Partitions : 1 \in 1..(Size[p] + 1)
    OBVIOUS
  <2>2. \A p \in Partitions : position[p] \in 1..(Size[p] + 1) /\ committed[p] \in 1..(Size[p] + 1)
    BY <2>1
  <2>3. pc \in [Workers -> WorkerPc] /\ \A w \in Workers : ~Busy(w)
    BY DEF Busy, Idle, WorkerPc
  <2>4. attempt \in [Workers -> 1..MaxAttempts]
    OBVIOUS
  <2>5. QED
    BY <2>2, <2>3, <2>4 DEF TypeOK
<1>2. TakenInOrder /\ CommitsAreSettled /\ SettledInOrder
  BY DEF TakenInOrder, CommitsAreSettled, SettledInOrder, Busy, Idle
<1>3. CommittedIsSettled
  BY DEF CommittedIsSettled, Before
<1>4. PositionsInOrder
  BY DEF PositionsInOrder
<1>5. QED
  BY <1>1, <1>2, <1>3, <1>4 DEF WorkerInv

LEMMA WorkerInvStep ==
  ASSUME WorkerInv, [Next]_vars
  PROVE  WorkerInv'
BY TypeStep, TakenStep, PositionsStep, CommitsSettledStep, CommittedStep, OrderStep DEF WorkerInv

THEOREM WorkerInvHolds == Spec => []WorkerInv
BY InitWorkerInv, WorkerInvStep, PTL DEF Spec

\* The worker keeps its variables in their types: no attempt past the last
\* (_process), no position outside the partition.
THEOREM WorkerTypes == Spec => []TypeOK
<1>1. WorkerInv => TypeOK
  BY DEF WorkerInv
<1>2. QED
  BY <1>1, WorkerInvHolds, PTL

\* No notification disappears (_process, _run).
THEOREM NothingIsLost == Spec => []CommittedIsSettled
<1>1. WorkerInv => CommittedIsSettled
  BY DEF WorkerInv
<1>2. QED
  BY <1>1, WorkerInvHolds, PTL

\* No notification overtakes one before it in its partition (the seek of _run).
THEOREM NothingOvertakes == Spec => []SettledInOrder
<1>1. WorkerInv => SettledInOrder
  BY DEF WorkerInv
<1>2. QED
  BY <1>1, WorkerInvHolds, PTL

LEMMA InitRepeatInv ==
  ASSUME Init
  PROVE  RepeatInv
<1>1. FreshAtWork /\ MailedMovesOn /\ RepeatsHaveACause
  BY DEF Init, FreshAtWork, MailedMovesOn, RepeatsHaveACause, Busy, Idle
<1>2. OwnersKeepUp
  BY WorkerAssumption DEF Init, OwnersKeepUp
<1>3. QED
  BY <1>1, <1>2, InitWorkerInv DEF RepeatInv

LEMMA RepeatInvStep ==
  ASSUME RepeatInv, [Next]_vars
  PROVE  RepeatInv'
BY WorkerInvStep, FreshStep, MovesOnStep, KeepUpStep, CauseStep DEF RepeatInv

\* A second mail for one record always has a cause (_process: the commit is in the
\* try of the mail; _run: a lost partition; a crash between mail and commit).
THEOREM RepeatsAreExplained == Spec => []RepeatsHaveACause
<1>1. RepeatInv => RepeatsHaveACause
  BY DEF RepeatInv
<1>2. QED
  BY <1>1, InitRepeatInv, RepeatInvStep, PTL DEF Spec
=============================================================================
