-------------------------- MODULE OutboxRelayProofs -------------------------
(***************************************************************************)
(* The relay loses nothing and keeps the order of first deliveries, for    *)
(* any rows, keys, number of relays and batch size.                        *)
(*                                                                         *)
(* The order does not rest on the row locks (they only avoid duplicates)   *)
(* but on the ids: what a relay reads in one scan has no gap below, except *)
(* rows of other keys that are not committed yet (IdsOK), and it stops at  *)
(* the first row it cannot publish (BatchOK).                              *)
(***************************************************************************)
EXTENDS OutboxRelay, TLAPS

\* Identity values are handed out in order; rows of one key are committed in order.
IdsOK ==
    /\ \A i, j \in Rows : state[i] # "free" /\ state[j] = "free" => i < j
    /\ \A i, j \in Rows :
          i \in Recorded /\ state[j] \in {"free", "inserted"} /\ KeyOf[i] = KeyOf[j] => i < j

\* What is recorded before a row of the batch for its key is published or in the batch.
BatchOK ==
    \A w \in Relays :
        /\ batch[w] \subseteq Recorded
        /\ \A i \in batch[w], j \in Recorded :
              j < i /\ KeyOf[j] = KeyOf[i] => state[j] = "published" \/ j \in batch[w]

\* The row a relay waits for is in its producer; once acknowledged, it is delivered.
SendingOK ==
    \A w \in Relays, i \in Rows :
        IsNext(w, i) => /\ pc[w] = "sending" => buffer[w][i] > 0
                        /\ pc[w] = "acked" => i \in delivered

\* i may be delivered: it is recorded and so is everything before it for its key.
Ready(i) ==
    /\ i \in Recorded
    /\ \A j \in Recorded : j < i /\ KeyOf[j] = KeyOf[i] => j \in delivered
BufferOK == \A w \in Relays, i \in Rows : buffer[w][i] > 0 => Ready(i)

RelayInv == RelayTypeOK /\ IdsOK /\ BatchOK /\ SendingOK /\ BufferOK /\ MarkedIsDelivered

-----------------------------------------------------------------------------
(* Which actions change what.                                              *)

\* Only inserts, ends of transactions and marks change the state of a row.
LEMMA StateFrame ==
  [Next]_vars =>
    \/ UNCHANGED state
    \/ \E i \in Rows : Insert(i)
    \/ \E k \in Keys : Commit(k) \/ Rollback(k)
    \/ \E w \in Relays : Mark(w)
BY DEF vars, Next, Working, Failure, Transaction, RelayStep, Scan, Skip, Send, Take, Mark,
       GiveUp, Drop, Crash

\* Only Kafka's taking of a record changes what is delivered.
LEMMA DeliveredFrame ==
  [Next]_vars => UNCHANGED delivered \/ \E w \in Relays, i \in Rows : Take(w, i)
BY DEF vars, Next, Working, Failure, Transaction, RelayStep, Scan, Skip, Send, Take, Mark,
       GiveUp, Drop, Crash, Insert, Commit, Rollback, EndInserts

\* Only one relay at a time changes its program counter, batch and buffer.
LEMMA RelayFrame ==
  [Next]_vars =>
    \/ UNCHANGED <<pc, batch, buffer>>
    \/ \E w \in Relays :
          RelayStep(w) \/ GiveUp(w) \/ Crash(w) \/ \E i \in Rows : Take(w, i) \/ Drop(w, i)
BY DEF vars, Next, Working, Failure, Transaction, Insert, Commit, Rollback, EndInserts

LEMMA TypeStep ==
  ASSUME RelayTypeOK, [Next]_vars
  PROVE  RelayTypeOK'
<1>1. state' \in [Rows -> RowState]
  BY StateFrame DEF RelayTypeOK, RowState, Insert, Commit, Rollback, EndInserts, Mark
<1>2. rowLock' \in [Rows -> Relays \cup {None}]
  BY DEF RelayTypeOK, vars, Next, Working, Failure, Transaction, RelayStep, Insert, Commit, Rollback,
         EndInserts, Scan, Skip, Send, Take, Mark, GiveUp, Drop, Crash, Abort
<1>3. pc' \in [Relays -> {"idle", "sending", "acked"}]
  BY RelayFrame DEF RelayTypeOK, RelayStep, Scan, Skip, Send, Take, Mark, GiveUp, Drop, Crash, Abort
<1>4. batch' \in [Relays -> SUBSET Rows]
  <2>1. ASSUME NEW w \in Relays, NEW ids \in SUBSET Rows, batch' = [batch EXCEPT ![w] = ids]
        PROVE  batch' \in [Relays -> SUBSET Rows]
    BY <2>1 DEF RelayTypeOK
  <2>2. ASSUME NEW w \in Relays, Scan(w)
        PROVE  batch' \in [Relays -> SUBSET Rows]
    <3>1. PICK ids \in SUBSET Pending : batch' = [batch EXCEPT ![w] = ids]
      BY <2>2 DEF Scan
    <3>2. ids \in SUBSET Rows
      BY <3>1 DEF Pending
    <3>3. QED
      BY <2>1, <3>1, <3>2
  <2>3. ASSUME NEW w \in Relays, Skip(w) \/ Mark(w)
        PROVE  batch' \in [Relays -> SUBSET Rows]
    <3>1. PICK i \in Rows : batch' = [batch EXCEPT ![w] = batch[w] \ {i}]
      BY <2>3 DEF Skip, Mark
    <3>2. batch[w] \ {i} \in SUBSET Rows
      BY DEF RelayTypeOK
    <3>3. QED
      BY <2>1, <3>1, <3>2
  <2>4. ASSUME NEW w \in Relays, GiveUp(w) \/ Crash(w)
        PROVE  batch' \in [Relays -> SUBSET Rows]
    <3>1. batch' = [batch EXCEPT ![w] = {}]
      BY <2>4 DEF GiveUp, Crash
    <3>2. QED
      BY <2>1, <3>1
  <2>5. CASE batch' = batch
    BY <2>5 DEF RelayTypeOK
  <2>6. QED
    BY <2>2, <2>3, <2>4, <2>5, RelayFrame DEF RelayStep, Send, Take, Drop
<1>5. buffer' \in [Relays -> [Rows -> 0..MaxBuffered]]
  <2>1. ASSUME NEW w \in Relays, NEW i \in Rows, NEW n \in 0..MaxBuffered,
               buffer' = [buffer EXCEPT ![w][i] = n]
        PROVE  buffer' \in [Relays -> [Rows -> 0..MaxBuffered]]
    BY <2>1 DEF RelayTypeOK
  <2>2. ASSUME NEW w \in Relays, Send(w)
        PROVE  buffer' \in [Relays -> [Rows -> 0..MaxBuffered]]
    <3>1. PICK i \in Rows : /\ buffer[w][i] < MaxBuffered
                            /\ buffer' = [buffer EXCEPT ![w][i] = buffer[w][i] + 1]
      BY <2>2 DEF Send
    <3>2. buffer[w][i] + 1 \in 0..MaxBuffered
      BY <3>1, RelayAssumption DEF RelayTypeOK
    <3>3. QED
      BY <2>1, <3>1, <3>2
  <2>3. ASSUME NEW w \in Relays, NEW i \in Rows, Take(w, i) \/ Drop(w, i)
        PROVE  buffer' \in [Relays -> [Rows -> 0..MaxBuffered]]
    <3>1. buffer[w][i] > 0 /\ buffer' = [buffer EXCEPT ![w][i] = buffer[w][i] - 1]
      BY <2>3 DEF Take, Drop
    <3>2. buffer[w][i] - 1 \in 0..MaxBuffered
      BY <3>1, RelayAssumption DEF RelayTypeOK
    <3>3. QED
      BY <2>1, <3>1, <3>2
  <2>4. ASSUME NEW w \in Relays, Crash(w)
        PROVE  buffer' \in [Relays -> [Rows -> 0..MaxBuffered]]
    BY <2>4, RelayAssumption DEF Crash, RelayTypeOK
  <2>5. CASE buffer' = buffer
    BY <2>5 DEF RelayTypeOK
  <2>6. QED
    BY <2>2, <2>3, <2>4, <2>5, RelayFrame DEF RelayStep, Scan, Skip, Mark, GiveUp
<1>6. delivered' \subseteq Rows
  BY DeliveredFrame DEF RelayTypeOK, Take
<1>7. QED
  BY <1>1, <1>2, <1>3, <1>4, <1>5, <1>6 DEF RelayTypeOK

-----------------------------------------------------------------------------
(* Consequences of a step for the rows.                                    *)

\* Recorded rows stay recorded, published rows published, delivered rows delivered.
LEMMA RowsGrow ==
  ASSUME RelayTypeOK, [Next]_vars
  PROVE  /\ Recorded \subseteq Recorded'
         /\ \A i \in Rows : state[i] = "published" => state'[i] = "published"
         /\ delivered \subseteq delivered'
<1>1. /\ Recorded \subseteq Recorded'
      /\ \A i \in Rows : state[i] = "published" => state'[i] = "published"
  BY StateFrame DEF RelayTypeOK, Recorded, Insert, Commit, Rollback, EndInserts, Mark
<1>2. delivered \subseteq delivered'
  BY DeliveredFrame DEF Take
<1>3. QED
  BY <1>1, <1>2

\* A row is recorded after all the recorded rows of its key.
LEMMA RecordedLast ==
  ASSUME RelayTypeOK, IdsOK, [Next]_vars, SendingOK, BatchOK
  PROVE  \A i \in Recorded, j \in Recorded' \ Recorded : KeyOf[i] = KeyOf[j] => i < j
BY StateFrame
   DEF RelayTypeOK, IdsOK, BatchOK, Recorded, Insert, Commit, Rollback, EndInserts, Mark, IsNext

LEMMA IdsStep ==
  ASSUME RelayTypeOK, IdsOK, BatchOK, [Next]_vars
  PROVE  IdsOK'
<1> USE RelayAssumption
<1>1. CASE UNCHANGED state
  BY <1>1 DEF IdsOK, Recorded
<1>2. ASSUME NEW i \in Rows, Insert(i)
      PROVE  IdsOK'
  BY <1>2 DEF Insert, IdsOK, Recorded, RelayTypeOK
<1>3. ASSUME NEW k \in Keys, Commit(k) \/ Rollback(k)
      PROVE  IdsOK'
  <2>1. PICK s \in {"pending", "rolledBack"} : EndInserts(k, s)
    BY <1>3 DEF Commit, Rollback
  <2>2. \A i \in Rows : state'[i] = IF KeyOf[i] = k /\ state[i] = "inserted" THEN s
                                                                         ELSE state[i]
    BY <2>1 DEF EndInserts
  <2>3. \A i, j \in Rows : state'[i] # "free" /\ state'[j] = "free" => i < j
    BY <2>2 DEF IdsOK
  <2>4. ASSUME NEW i \in Rows, NEW j \in Rows, i \in Recorded',
               state'[j] \in {"free", "inserted"}, KeyOf[i] = KeyOf[j]
        PROVE  i < j
    <3>1. state[j] \in {"free", "inserted"} /\ ~(KeyOf[j] = k /\ state[j] = "inserted")
      BY <2>2, <2>4
    <3>2. CASE i \in Recorded
      BY <2>4, <3>1, <3>2 DEF IdsOK
    <3>3. CASE i \notin Recorded
      <4>1. KeyOf[i] = k /\ state[i] = "inserted"
        BY <2>2, <2>4, <3>3 DEF Recorded
      <4>2. state[j] = "free"
        BY <2>4, <3>1, <4>1
      <4>3. QED
        BY <4>1, <4>2 DEF IdsOK
    <3>4. QED
      BY <3>2, <3>3
  <2>5. QED
    BY <2>3, <2>4 DEF IdsOK
<1>4. ASSUME NEW w \in Relays, Mark(w)
      PROVE  IdsOK'
  BY <1>4 DEF Mark, IdsOK, BatchOK, IsNext, Recorded, RelayTypeOK
<1>5. QED
  BY <1>1, <1>2, <1>3, <1>4, StateFrame

\* A batch stays closed: scans read it so, the walk removes its smallest row, commits add
\* nothing below.
LEMMA BatchStep ==
  ASSUME RelayTypeOK, IdsOK, SendingOK, BatchOK, [Next]_vars
  PROVE  BatchOK'
<1> USE RelayAssumption
<1> SUFFICES ASSUME NEW w \in Relays
             PROVE  /\ batch'[w] \subseteq Recorded'
                    /\ \A i \in batch'[w], j \in Recorded' :
                          j < i /\ KeyOf[j] = KeyOf[i] =>
                             state'[j] = "published" \/ j \in batch'[w]
  BY DEF BatchOK
<1> DEFINE Closed(ids) ==
      /\ ids \subseteq Recorded
      /\ \A i \in ids, j \in Recorded :
            j < i /\ KeyOf[j] = KeyOf[i] => state'[j] = "published" \/ j \in ids
<1>1. ASSUME Closed(batch'[w])
      PROVE  /\ batch'[w] \subseteq Recorded'
             /\ \A i \in batch'[w], j \in Recorded' :
                   j < i /\ KeyOf[j] = KeyOf[i] =>
                      state'[j] = "published" \/ j \in batch'[w]
  <2>1. ASSUME NEW i \in batch'[w], NEW j \in Recorded' \ Recorded, KeyOf[j] = KeyOf[i]
        PROVE  ~(j < i)
    <3>1. i < j
      BY <1>1, <2>1, RecordedLast
    <3>2. i \in Nat /\ j \in Nat
      BY <1>1, <2>1 DEF Recorded
    <3>3. QED
      BY <3>1, <3>2
  <2>2. QED
    BY <1>1, <2>1, RowsGrow
<1>2. Closed(batch[w])
  BY RowsGrow DEF BatchOK, Recorded
<1>3. CASE batch'[w] = batch[w]
  BY <1>1, <1>2, <1>3
<1>4. CASE batch'[w] = {}
  BY <1>4
<1>5. CASE Scan(w)
  <2>1. PICK ids \in SUBSET Pending :
           (\A i \in ids, j \in Pending \ ids : i < j) /\ batch'[w] = ids
    BY <1>5 DEF Scan, RelayTypeOK
  <2>2. UNCHANGED state
    BY <1>5 DEF Scan
  <2>3. Closed(ids)
    BY <2>1, <2>2 DEF Pending, Recorded
  <2>4. QED
    BY <1>1, <2>1, <2>3
<1>6. CASE Skip(w) \/ Mark(w)
  <2>1. PICK i \in Rows : state'[i] = "published" /\ batch'[w] = batch[w] \ {i}
    BY <1>6 DEF Skip, Mark, RelayTypeOK
  <2>2. Closed(batch[w] \ {i})
    BY <1>2, <2>1
  <2>3. QED
    BY <1>1, <2>1, <2>2
<1>7. ASSUME NEW v \in Relays, v # w, RelayStep(v) \/ GiveUp(v) \/ Crash(v)
      PROVE  batch'[w] = batch[w]
  BY <1>7 DEF RelayStep, Scan, Skip, Send, Mark, GiveUp, Crash, RelayTypeOK
<1>8. ASSUME NEW v \in Relays, NEW i \in Rows, Take(v, i) \/ Drop(v, i)
      PROVE  batch'[w] = batch[w]
  BY <1>8 DEF Take, Drop
<1>9. CASE GiveUp(w) \/ Crash(w)
  BY <1>4, <1>9 DEF GiveUp, Crash, RelayTypeOK
<1>10. CASE UNCHANGED batch
  BY <1>3, <1>10
<1>11. QED
  <2>1. ASSUME NEW v \in Relays, RelayStep(v) \/ GiveUp(v) \/ Crash(v)
        PROVE  batch'[w] = batch[w] \/ Scan(w) \/ Skip(w) \/ Mark(w) \/ GiveUp(w) \/ Crash(w)
    <3>1. CASE v = w
      <4>1. RelayStep(w) \/ GiveUp(w) \/ Crash(w)
        BY <2>1, <3>1
      <4>2. QED
        BY <4>1 DEF RelayStep, Send
    <3>2. CASE v # w
      BY <1>7, <2>1, <3>2
    <3>3. QED
      BY <3>1, <3>2
  <2>2. batch'[w] = batch[w] \/ Scan(w) \/ Skip(w) \/ Mark(w) \/ GiveUp(w) \/ Crash(w)
    BY <1>8, <2>1, RelayFrame
  <2>3. QED
    BY <1>3, <1>5, <1>6, <1>9, <2>2

\* Two next rows of a relay are the same row.
LEMMA NextIsUnique ==
  ASSUME RelayTypeOK, NEW w \in Relays, NEW i \in Rows, NEW j \in Rows, IsNext(w, i), IsNext(w, j)
  PROVE  i = j
BY RelayAssumption DEF IsNext

\* A relay waits for the record it has sent, and its row stays the next one meanwhile.
LEMMA SendingStep ==
  ASSUME RelayTypeOK, SendingOK, [Next]_vars
  PROVE  SendingOK'
<1> SUFFICES ASSUME NEW w \in Relays, NEW i \in Rows, IsNext(w, i)'
             PROVE  /\ pc'[w] = "sending" => buffer'[w][i] > 0
                    /\ pc'[w] = "acked" => i \in delivered'
  BY DEF SendingOK
<1>1. CASE UNCHANGED <<pc[w], batch[w], buffer[w]>>
  BY <1>1, RowsGrow DEF SendingOK, IsNext
<1>2. ASSUME NEW v \in Relays, v # w,
             RelayStep(v) \/ GiveUp(v) \/ Crash(v) \/ \E j \in Rows : Take(v, j) \/ Drop(v, j)
      PROVE  UNCHANGED <<pc[w], batch[w], buffer[w]>>
  BY <1>2
     DEF RelayStep, Scan, Skip, Send, Take, Mark, GiveUp, Drop, Crash, Abort, RelayTypeOK
<1>3. CASE Scan(w) \/ Skip(w) \/ Mark(w) \/ GiveUp(w) \/ Crash(w)
  <2>1. pc'[w] = "idle"
    BY <1>3 DEF Scan, Skip, Mark, GiveUp, Crash, Abort, RelayTypeOK
  <2>2. QED
    BY <2>1
<1>4. CASE Send(w)
  <2>1. PICK j \in Rows : IsNext(w, j) /\ buffer' = [buffer EXCEPT ![w][j] = buffer[w][j] + 1]
    BY <1>4 DEF Send
  <2>2. pc'[w] = "sending" /\ batch' = batch
    BY <1>4 DEF Send, RelayTypeOK
  <2>3. i = j
    BY <2>1, <2>2, NextIsUnique DEF IsNext
  <2>4. buffer'[w][i] = buffer[w][i] + 1 /\ buffer[w][i] \in 0..MaxBuffered
    BY <2>1, <2>3 DEF RelayTypeOK
  <2>5. QED
    BY <2>2, <2>4
<1>5. ASSUME NEW j \in Rows, Take(w, j) \/ Drop(w, j)
      PROVE  /\ pc'[w] = "sending" => buffer'[w][i] > 0
             /\ pc'[w] = "acked" => i \in delivered'
  <2>1. buffer' = [buffer EXCEPT ![w][j] = buffer[w][j] - 1] /\ buffer[w] \in [Rows -> 0..MaxBuffered]
    BY <1>5 DEF Take, Drop, RelayTypeOK
  <2>2. IsNext(w, i)
    BY <1>5 DEF Take, Drop, IsNext
  <2>3. ASSUME pc'[w] = "sending"
        PROVE  buffer'[w][i] > 0
    <3>1. pc[w] = "sending" /\ ~Awaits(w, j)
      BY <1>5, <2>3 DEF Take, Drop, RelayTypeOK
    <3>2. buffer[w][i] > 0
      BY <2>2, <3>1 DEF SendingOK
    <3>3. i = j => buffer[w][i] # 1
      BY <2>2, <3>1 DEF Awaits
    <3>4. QED
      BY <2>1, <3>2, <3>3 DEF RelayTypeOK
  <2>4. ASSUME pc'[w] = "acked"
        PROVE  i \in delivered'
    <3>1. CASE pc[w] = "acked"
      BY <2>2, <3>1, RowsGrow DEF SendingOK
    <3>2. CASE pc[w] # "acked"
      <4>1. Take(w, j) /\ Awaits(w, j)
        BY <1>5, <2>4, <3>2 DEF Take, Drop, RelayTypeOK
      <4>2. i = j
        BY <2>2, <4>1, NextIsUnique DEF Awaits
      <4>3. QED
        BY <4>1, <4>2 DEF Take
    <3>3. QED
      BY <3>1, <3>2
  <2>5. QED
    BY <2>3, <2>4
<1>6. QED
  BY <1>1, <1>2, <1>3, <1>4, <1>5, RelayFrame DEF RelayStep

\* What waits in a producer stays ready: a send is of the smallest row of the batch, a
\* commit adds nothing below a recorded row.
LEMMA BufferStep ==
  ASSUME RelayInv, [Next]_vars
  PROVE  BufferOK'
<1> USE RelayAssumption DEF RelayInv
<1> DEFINE ReadyNext(i) ==
             /\ i \in Recorded'
             /\ \A j \in Recorded' : j < i /\ KeyOf[j] = KeyOf[i] => j \in delivered'
<1> SUFFICES ASSUME NEW w \in Relays, NEW i \in Rows, buffer'[w][i] > 0
             PROVE  ReadyNext(i)
  BY DEF BufferOK, Ready
<1>1. ASSUME Ready(i)
      PROVE  ReadyNext(i)
  <2>1. i \in Recorded' /\ i \in Nat
    BY <1>1, RowsGrow DEF Ready, Recorded
  <2>2. ASSUME NEW j \in Recorded', j < i, KeyOf[j] = KeyOf[i]
        PROVE  j \in delivered'
    <3>1. CASE j \in Recorded
      BY <1>1, <2>2, <3>1, RowsGrow DEF Ready
    <3>2. CASE j \notin Recorded
      <4>1. i < j
        BY <1>1, <2>2, <3>2, RecordedLast DEF Ready
      <4>2. j \in Nat
        BY <2>2 DEF Recorded
      <4>3. QED
        BY <2>1, <2>2, <4>1, <4>2
    <3>3. QED
      BY <3>1, <3>2
  <2>3. QED
    BY <2>1, <2>2
<1> HIDE DEF ReadyNext
<1>2. CASE buffer[w][i] > 0
  BY <1>1, <1>2 DEF BufferOK
<1>3. CASE Send(w) /\ ~(buffer[w][i] > 0)
  <2>1. IsNext(w, i)
    BY <1>3 DEF Send, RelayTypeOK
  <2>2. i \in Recorded
    BY <2>1 DEF IsNext, BatchOK
  <2>3. ASSUME NEW j \in Recorded, j < i, KeyOf[j] = KeyOf[i]
        PROVE  j \in delivered
    <3>1. j \in Rows /\ j \in Nat /\ i \in Nat
      BY DEF Recorded
    <3>2. j \notin batch[w]
      BY <2>1, <2>3, <3>1 DEF IsNext
    <3>3. state[j] = "published"
      BY <2>1, <2>3, <3>2 DEF IsNext, BatchOK
    <3>4. QED
      BY <3>1, <3>3 DEF MarkedIsDelivered
  <2>4. QED
    BY <1>1, <2>2, <2>3 DEF Ready
<1>4. ASSUME ~(buffer[w][i] > 0)
      PROVE  Send(w)
  <2>1. buffer[w][i] = 0
    BY <1>4 DEF RelayTypeOK
  <2>2. ASSUME NEW v \in Relays, v # w, Send(v)
        PROVE  FALSE
    BY <2>1, <2>2 DEF Send, RelayTypeOK
  <2>3. ASSUME NEW v \in Relays, NEW j \in Rows, Take(v, j) \/ Drop(v, j)
        PROVE  FALSE
    BY <2>1, <2>3 DEF Take, Drop, RelayTypeOK
  <2>4. ASSUME NEW v \in Relays, Crash(v)
        PROVE  FALSE
    BY <2>1, <2>4 DEF Crash, RelayTypeOK
  <2>5. ASSUME NEW v \in Relays, Scan(v) \/ Skip(v) \/ Mark(v) \/ GiveUp(v)
        PROVE  FALSE
    BY <2>1, <2>5 DEF Scan, Skip, Mark, GiveUp
  <2>6. ~UNCHANGED buffer
    BY <2>1
  <2>7. QED
    BY <2>2, <2>3, <2>4, <2>5, <2>6, RelayFrame DEF RelayStep
<1>5. QED
  BY <1>2, <1>3, <1>4

\* A row is marked after the acknowledgement of its record.
LEMMA MarkStep ==
  ASSUME RelayInv, [Next]_vars
  PROVE  MarkedIsDelivered'
<1> USE RelayAssumption DEF RelayInv
<1>1. ASSUME NEW i \in Rows, state'[i] = "published", state[i] # "published"
      PROVE  i \in delivered
  <2>1. PICK w \in Relays : Mark(w)
    BY <1>1, StateFrame DEF RelayTypeOK, Insert, Commit, Rollback, EndInserts
  <2>2. PICK j \in Rows : pc[w] = "acked" /\ IsNext(w, j) /\ state' = [state EXCEPT ![j] = "published"]
    BY <2>1 DEF Mark
  <2>3. i = j
    BY <1>1, <2>2 DEF RelayTypeOK
  <2>4. QED
    BY <2>2, <2>3 DEF SendingOK
<1>2. QED
  BY <1>1, RowsGrow DEF MarkedIsDelivered

LEMMA RelayInit == Init => RelayInv
<1> SUFFICES ASSUME Init PROVE RelayInv
  OBVIOUS
<1>1. RelayTypeOK
  BY RelayAssumption DEF Init, RelayTypeOK, RowState
<1>2. IdsOK /\ BatchOK /\ MarkedIsDelivered
  BY DEF Init, IdsOK, BatchOK, MarkedIsDelivered, Recorded
<1>3. SendingOK /\ BufferOK
  BY DEF Init, SendingOK, BufferOK
<1>4. QED
  BY <1>1, <1>2, <1>3 DEF RelayInv

LEMMA RelayStepInv == RelayInv /\ [Next]_vars => RelayInv'
BY TypeStep, IdsStep, BatchStep, SendingStep, BufferStep, MarkStep DEF RelayInv

-----------------------------------------------------------------------------
\* The inductive invariant of the relay, for any number of instances.
THEOREM RelayInvariant == Spec => []RelayInv
BY RelayInit, RelayStepInv, PTL DEF Spec

\* A row marked published is in Kafka: the mark follows the acknowledgement (publish).
THEOREM NothingMarkedIsLost == Spec => []MarkedIsDelivered
<1>1. RelayInv => MarkedIsDelivered
  BY DEF RelayInv
<1>2. QED
  BY <1>1, RelayInvariant, PTL

\* Each step of the relay is a step of the feed: first deliveries follow the order of
\* the rows of a reservation (findPendingIds, relayPending).
LEMMA FeedStep ==
  ASSUME RelayInv, [Next]_vars
  PROVE  [Feed!Next]_<<Recorded, delivered>>
<1> USE DEF RelayInv
<1>1. CASE Recorded' = Recorded /\ delivered' = delivered
  BY <1>1
<1>2. ASSUME NEW w \in Relays, NEW i \in Rows, Take(w, i), delivered' # delivered
      PROVE  Feed!Deliver(i)
  <2>1. buffer[w][i] > 0 /\ delivered' = delivered \cup {i} /\ state' = state
    BY <1>2 DEF Take
  <2>2. Ready(i)
    BY <2>1 DEF BufferOK
  <2>3. i \in Recorded \ delivered /\ UNCHANGED Recorded
    BY <1>2, <2>1, <2>2 DEF Ready, Recorded
  <2>4. QED
    BY <2>1, <2>2, <2>3 DEF Ready, Feed!Deliver, Feed!Earlier
<1>3. ASSUME NEW k \in Keys, Commit(k), delivered' = delivered
      PROVE  \E S \in SUBSET Rows : Feed!Record(S)
  <2> DEFINE S == Recorded' \ Recorded
  <2>1. S \in SUBSET Rows /\ S \cap Recorded = {} /\ Recorded' = Recorded \cup S
    BY RowsGrow DEF Recorded
  <2>2. \A i \in S : \A j \in Recorded : KeyOf[j] = KeyOf[i] => j < i
    BY RecordedLast
  <2>3. Feed!Record(S)
    BY <1>3, <2>1, <2>2 DEF Feed!Record
  <2>4. QED
    BY <2>1, <2>3
<1>4. ASSUME Recorded' # Recorded
      PROVE  \E k \in Keys : Commit(k)
  BY <1>4, StateFrame
     DEF Recorded, RelayTypeOK, BatchOK, Insert, Commit, Rollback, EndInserts, Mark, IsNext
<1>5. ASSUME NEW w \in Relays, NEW i \in Rows, Take(w, i)
      PROVE  Recorded' = Recorded
  BY <1>5 DEF Take, Recorded
<1>6. QED
  BY <1>1, <1>2, <1>3, <1>4, <1>5, DeliveredFrame DEF Feed!Next

THEOREM RelayImplementsFeed == Spec => ImplementsEventFeed
<1>1. Init => Feed!Init
  BY DEF Init, Recorded, Feed!Init
<1>2. RelayInv /\ [Next]_vars => [Feed!Next]_<<Recorded, delivered>>
  BY FeedStep
<1>3. QED
  BY <1>1, <1>2, RelayInvariant, PTL DEF Spec, ImplementsEventFeed, Feed!Spec, Feed!feedVars

-----------------------------------------------------------------------------
(* With one instance.                                                      *)

\* Nothing of a published or acknowledged row is left in the producer, and nothing newer
\* than a pending row of the same reservation has been sent.
OneRelayOK ==
    /\ \A w \in Relays, i \in Rows :
          state[i] = "published" \/ (pc[w] = "acked" /\ IsNext(w, i)) => buffer[w][i] = 0
    /\ \A w \in Relays, i, j \in Rows :
          KeyOf[j] = KeyOf[i] /\ j < i /\ state[j] = "pending" =>
             i \notin delivered /\ buffer[w][i] = 0
    /\ delivered \subseteq Recorded

LEMMA OneRelayStep ==
  ASSUME \A v, w \in Relays : v = w, RelayInv, OneRelayOK, [Next]_vars
  PROVE  OneRelayOK'
<1> USE RelayAssumption DEF RelayInv
<1>1. \A w \in Relays, i \in Rows :
         (state[i] = "published" \/ (pc[w] = "acked" /\ IsNext(w, i)) => buffer[w][i] = 0)'
  <2> SUFFICES ASSUME NEW w \in Relays, NEW i \in Rows,
                      (state[i] = "published" \/ (pc[w] = "acked" /\ IsNext(w, i)))'
               PROVE  buffer'[w][i] = 0
    OBVIOUS
  <2>1. CASE UNCHANGED <<pc, batch, buffer, state>>
    BY <2>1 DEF OneRelayOK, IsNext
  <2>2. CASE Transaction
    BY <2>2 DEF Transaction, Insert, Commit, Rollback, EndInserts, OneRelayOK, IsNext, RelayTypeOK
  <2>3. CASE Scan(w) \/ Skip(w) \/ GiveUp(w)
    BY <2>3 DEF Scan, Skip, GiveUp, Abort, OneRelayOK, RelayTypeOK
  <2>4. CASE Mark(w)
    BY <2>4 DEF Mark, OneRelayOK, RelayTypeOK
  <2>5. CASE Crash(w)
    BY <2>5 DEF Crash, RelayTypeOK
  <2>6. CASE Send(w)
    BY <2>6 DEF Send, OneRelayOK, RelayTypeOK
  <2>7. ASSUME NEW j \in Rows, Take(w, j) \/ Drop(w, j)
        PROVE  buffer'[w][i] = 0
    BY <2>7 DEF Take, Drop, Awaits, IsNext, OneRelayOK, RelayTypeOK
  <2>8. QED
    BY <2>1, <2>2, <2>3, <2>4, <2>5, <2>6, <2>7 DEF Next, vars, Working, Failure, RelayStep
<1>2. ASSUME NEW w \in Relays, NEW i \in Rows, NEW j \in Rows,
             KeyOf[j] = KeyOf[i], j < i, state'[j] = "pending"
      PROVE  i \notin delivered' /\ buffer'[w][i] = 0
  <2>1. ~(i \in Recorded /\ j \notin Recorded)
    <3>1. j \in Recorded'
      BY <1>2 DEF Recorded
    <3>2. j \in Nat /\ i \in Nat
      OBVIOUS
    <3>3. QED
      BY <1>2, <3>1, <3>2, RecordedLast
  <2>2. state[j] = "pending" \/ i \notin Recorded
    BY <1>2, <2>1, RowsGrow DEF Recorded
  <2>3. i \notin delivered /\ buffer[w][i] = 0
    BY <1>2, <2>2 DEF OneRelayOK, BufferOK, Ready, RelayTypeOK
  <2>4. i \notin delivered'
    BY <2>3, DeliveredFrame DEF Take
  <2>5. ASSUME buffer'[w][i] # 0
        PROVE  Send(w)
    <3>1. ~UNCHANGED buffer
      BY <2>3, <2>5
    <3>2. ASSUME NEW n \in Rows, Take(w, n) \/ Drop(w, n)
          PROVE  FALSE
      BY <2>3, <2>5, <3>2 DEF Take, Drop, RelayTypeOK
    <3>3. ~Crash(w)
      BY <2>5 DEF Crash, RelayTypeOK
    <3>4. QED
      BY <3>1, <3>2, <3>3, RelayFrame DEF RelayStep, Scan, Skip, Mark, GiveUp
  <2>6. ASSUME Send(w), buffer'[w][i] # 0
        PROVE  FALSE
    <3>1. IsNext(w, i) /\ state' = state
      BY <2>3, <2>6 DEF Send, RelayTypeOK
    <3>2. i \in Recorded /\ j \in Recorded
      BY <1>2, <3>1 DEF IsNext, BatchOK, Recorded
    <3>3. j \in batch[w]
      BY <1>2, <3>1, <3>2 DEF IsNext, BatchOK
    <3>4. i \in Nat /\ j \in Nat
      OBVIOUS
    <3>5. QED
      BY <1>2, <3>1, <3>3, <3>4 DEF IsNext
  <2>7. QED
    BY <2>4, <2>5, <2>6
<1>3. delivered' \subseteq Recorded'
  <2>1. CASE UNCHANGED delivered
    BY <2>1, RowsGrow DEF OneRelayOK
  <2>2. ASSUME NEW w \in Relays, NEW i \in Rows, Take(w, i)
        PROVE  delivered' \subseteq Recorded'
    BY <2>2, RowsGrow DEF Take, OneRelayOK, BufferOK, Ready
  <2>3. QED
    BY <2>1, <2>2, DeliveredFrame
<1>4. QED
  BY <1>1, <1>2, <1>3 DEF OneRelayOK

\* One instance never lets an old event of a reservation follow a newer one
\* (relayPending stops at a failure, publish waits for the acknowledgement).
THEOREM OneRelaySendsInOrder ==
  ASSUME \A v, w \in Relays : v = w
  PROVE  Spec => []NoLateDuplicate
<1>1. Init => OneRelayOK
  BY RelayAssumption DEF Init, OneRelayOK
<1>2. RelayInv /\ OneRelayOK /\ [Next]_vars => OneRelayOK'
  BY OneRelayStep
<1>3. RelayInv /\ OneRelayOK => NoLateDuplicate
  <2> SUFFICES ASSUME RelayInv, OneRelayOK, NEW w \in Relays, NEW i \in delivered, NEW j \in Rows,
                      buffer[w][j] > 0, KeyOf[i] = KeyOf[j]
               PROVE  i <= j
    BY DEF NoLateDuplicate
  <2>1. state[j] = "pending" /\ i \in Rows /\ i \in Nat /\ j \in Nat
    BY RelayAssumption DEF OneRelayOK, RelayInv, BufferOK, Ready, Recorded
  <2>2. QED
    BY <2>1 DEF OneRelayOK
<1>4. QED
  BY <1>1, <1>2, <1>3, RelayInvariant, PTL DEF Spec
=============================================================================
