-------------------------- MODULE PaymentRelayProofs ------------------------
(***************************************************************************)
(* Only one instance of the payment relay sends at a time, and instances   *)
(* never wait for each other in a circle, for any rows and any number of   *)
(* instances.                                                              *)
(*                                                                         *)
(* What the argument rests on: snapshots of the pending rows grow with     *)
(* time, so the rows two transactions want are always one a subset of the  *)
(* other (ClaimsNested).  Who sends holds everything it wanted; if two     *)
(* did, the rows of one would be locked by both. Rows are locked in the    *)
(* order of their ids (Ascending), so along a circle of waiting instances  *)
(* ids would grow for ever.                                                *)
(***************************************************************************)
EXTENDS PaymentRelayLoop, TLAPS, WellFoundedInduction

\* A row is locked by an open transaction, while it is pending.
LocksOK ==
    /\ \A i \in Rows : rowLock[i] # None => state[i] = "pending" /\ pc[rowLock[i]] # "idle"
    /\ \A w \in Relays : \A i \in snapshot[w] : pc[w] = "locking" /\ state[i] # "free"

\* The row a sending relay will mark; it is in Kafka once acknowledged.
SendsOK ==
    \A w \in Relays :
        pc[w] \in {"sending", "acked"} =>
            \E i \in Rows : IsFirst(i, Locked(w)) /\ (pc[w] = "acked" => i \in delivered)

\* The pending rows that transaction w has locked or will ask for.
Claims(w) == {i \in Rows : state[i] = "pending" /\ (rowLock[i] = w \/ i \in snapshot[w])}
ClaimsNested ==
    \A v, w \in Relays :
        pc[v] # "idle" /\ pc[w] # "idle" => Claims(v) \subseteq Claims(w) \/ Claims(w) \subseteq Claims(v)

PaymentRelayInv ==
    PaymentRelayTypeOK /\ LocksOK /\ SendsOK /\ ClaimsNested /\ ResultMarkedIsDelivered

-----------------------------------------------------------------------------
\* One transaction at a time moves; the others keep their place and their snapshot.
LEMMA RelayFrame ==
  [Next]_relayVars =>
    \/ UNCHANGED relayVars
    \/ \E i \in Rows : Commit(i)
    \/ \E w \in Relays : Query(w) \/ LockNext(w) \/ Nothing(w) \/ Send(w) \/ Mark(w) \/ GiveUp(w)
    \/ \E w \in Relays, i \in Rows : Take(w, i) \/ Lose(w, i)
BY DEF Next, Working, Failure, PublishStep

LEMMA TypeStep ==
  ASSUME PaymentRelayTypeOK, [Next]_relayVars
  PROVE  PaymentRelayTypeOK'
<1> USE DEF PaymentRelayTypeOK
<1>1. CASE UNCHANGED relayVars
  BY <1>1 DEF relayVars
<1>2. ASSUME NEW i \in Rows, Commit(i)
      PROVE  PaymentRelayTypeOK'
  BY <1>2 DEF Commit
<1>3. ASSUME NEW w \in Relays, Query(w)
      PROVE  PaymentRelayTypeOK'
  <2>1. Pending \in SUBSET Rows
    BY DEF Pending
  <2>2. QED
    BY <1>3, <2>1 DEF Query
<1>4. ASSUME NEW w \in Relays, LockNext(w)
      PROVE  PaymentRelayTypeOK'
  <2>1. PICK i \in Rows :
          /\ rowLock' = [rowLock EXCEPT ![i] = IF state[i] = "pending" THEN w ELSE None]
          /\ snapshot' = [snapshot EXCEPT ![w] = @ \ {i}]
    BY <1>4 DEF LockNext
  <2>2. snapshot[w] \ {i} \in SUBSET Rows
    OBVIOUS
  <2>3. snapshot' \in [Relays -> SUBSET Rows]
    BY <2>1, <2>2
  <2>4. rowLock' \in [Rows -> Relays \cup {None}]
    BY <2>1
  <2>5. QED
    BY <1>4, <2>3, <2>4 DEF LockNext
<1>5. ASSUME NEW w \in Relays, Nothing(w) \/ Send(w)
      PROVE  PaymentRelayTypeOK'
  <2>1. CASE Nothing(w)
    BY <2>1 DEF Nothing
  <2>2. CASE Send(w)
    <3>1. PICK i \in Rows : inFlight' = [inFlight EXCEPT ![w] = @ \cup {i}]
      BY <2>2 DEF Send
    <3>2. inFlight[w] \cup {i} \in SUBSET Rows
      OBVIOUS
    <3>3. inFlight' \in [Relays -> SUBSET Rows]
      BY <3>1, <3>2
    <3>4. QED
      BY <2>2, <3>3 DEF Send
  <2>3. QED
    BY <1>5, <2>1, <2>2
<1>6. ASSUME NEW w \in Relays, Mark(w) \/ GiveUp(w)
      PROVE  PaymentRelayTypeOK'
  <2>1. EndTransaction(w) /\ UNCHANGED <<inFlight, delivered>>
    BY <1>6 DEF Mark, GiveUp
  <2>2. state' \in [Rows -> {"free", "pending", "published"}]
    BY <1>6 DEF Mark, GiveUp
  <2>3. QED
    BY <2>1, <2>2 DEF EndTransaction
<1>7. ASSUME NEW w \in Relays, NEW i \in Rows, Take(w, i) \/ Lose(w, i)
      PROVE  PaymentRelayTypeOK'
  <2>1. inFlight[w] \ {i} \in SUBSET Rows
    OBVIOUS
  <2>2. inFlight' \in [Relays -> SUBSET Rows]
    BY <1>7, <2>1 DEF Take, Lose
  <2>3. QED
    BY <1>7, <2>2 DEF Take, Lose
<1>8. QED
  BY <1>1, <1>2, <1>3, <1>4, <1>5, <1>6, <1>7, RelayFrame

LEMMA LocksStep ==
  ASSUME PaymentRelayInv, [Next]_relayVars
  PROVE  LocksOK'
<1> USE PaymentRelayAssumption DEF PaymentRelayInv, PaymentRelayTypeOK, LocksOK
<1>1. CASE UNCHANGED relayVars
  BY <1>1 DEF relayVars
<1>2. ASSUME NEW i \in Rows, Commit(i)
      PROVE  LocksOK'
  BY <1>2 DEF Commit
<1>3. ASSUME NEW w \in Relays, Query(w)
      PROVE  LocksOK'
  BY <1>3 DEF Query, Pending
<1>4. ASSUME NEW w \in Relays, LockNext(w)
      PROVE  LocksOK'
  BY <1>4 DEF LockNext, IsFirst
<1>5. ASSUME NEW w \in Relays, Nothing(w) \/ Send(w)
      PROVE  LocksOK'
  <2>1. /\ UNCHANGED <<state, rowLock, snapshot>>
        /\ snapshot[w] = {}
        /\ pc'[w] = "idle" => Locked(w) = {}
        /\ \A v \in Relays : v # w => pc'[v] = pc[v]
    BY <1>5 DEF Nothing, Send
  <2>2. \A j \in Rows : rowLock[j] # None => pc'[rowLock[j]] # "idle"
    <3>1. ASSUME NEW j \in Rows, rowLock[j] # None
          PROVE  pc'[rowLock[j]] # "idle"
      <4>1. CASE rowLock[j] = w
        BY <2>1, <4>1 DEF Locked
      <4>2. CASE rowLock[j] # w
        BY <2>1, <3>1, <4>2
      <4>3. QED
        BY <4>1, <4>2
    <3>2. QED
      BY <3>1
  <2>3. \A v \in Relays : \A j \in snapshot[v] : pc'[v] = "locking"
    BY <2>1
  <2>4. QED
    BY <2>1, <2>2, <2>3
<1>6. ASSUME NEW w \in Relays, Mark(w) \/ GiveUp(w)
      PROVE  LocksOK'
  <2>1. \A i \in Rows : state'[i] # state[i] => rowLock[i] = w /\ state'[i] = "published"
    BY <1>6 DEF Mark, GiveUp, IsFirst, Locked
  <2>2. EndTransaction(w)
    BY <1>6 DEF Mark, GiveUp
  <2>3. QED
    BY <2>1, <2>2 DEF EndTransaction
<1>7. ASSUME NEW w \in Relays, NEW i \in Rows, Take(w, i) \/ Lose(w, i)
      PROVE  LocksOK'
  <2>1. /\ UNCHANGED <<state, rowLock, snapshot>>
        /\ \A v \in Relays : pc'[v] # pc[v] => pc[v] = "sending" /\ pc'[v] = "acked"
    BY <1>7 DEF Take, Lose
  <2>2. \A v \in Relays : /\ pc[v] # "idle" => pc'[v] # "idle"
                          /\ pc[v] = "locking" => pc'[v] = "locking"
    BY <2>1
  <2>3. \A j \in Rows : rowLock[j] # None => rowLock[j] \in Relays
    OBVIOUS
  <2>4. QED
    BY <2>1, <2>2, <2>3
<1>8. QED
  BY <1>1, <1>2, <1>3, <1>4, <1>5, <1>6, <1>7, RelayFrame

LEMMA SendsStep ==
  ASSUME PaymentRelayInv, [Next]_relayVars
  PROVE  SendsOK'
<1> USE PaymentRelayAssumption DEF PaymentRelayInv, PaymentRelayTypeOK, SendsOK
<1>1. CASE UNCHANGED relayVars
  BY <1>1 DEF relayVars, Locked
<1>2. ASSUME NEW i \in Rows, Commit(i)
      PROVE  SendsOK'
  BY <1>2 DEF Commit, Locked
<1>3. ASSUME NEW w \in Relays, Query(w)
      PROVE  SendsOK'
  BY <1>3 DEF Query, Locked
<1>4. ASSUME NEW w \in Relays, LockNext(w)
      PROVE  SendsOK'
  <2>1. ASSUME NEW v \in Relays, pc'[v] \in {"sending", "acked"}
        PROVE  v # w /\ Locked(v)' = Locked(v)
    BY <1>4, <2>1 DEF LockNext, Locked
  <2>2. QED
    BY <1>4, <2>1 DEF LockNext
<1>5. ASSUME NEW w \in Relays, Nothing(w) \/ Send(w)
      PROVE  SendsOK'
  BY <1>5 DEF Nothing, Send, Locked
<1>6. ASSUME NEW w \in Relays, Mark(w) \/ GiveUp(w)
      PROVE  SendsOK'
  <2>1. EndTransaction(w) /\ UNCHANGED delivered
    BY <1>6 DEF Mark, GiveUp
  <2>2. ASSUME NEW v \in Relays, pc'[v] \in {"sending", "acked"}
        PROVE  v # w /\ Locked(v)' = Locked(v) /\ pc'[v] = pc[v]
    BY <2>1, <2>2 DEF EndTransaction, Locked
  <2>3. QED
    BY <2>1, <2>2
<1>7. ASSUME NEW w \in Relays, NEW i \in Rows, Take(w, i) \/ Lose(w, i)
      PROVE  SendsOK'
  <2>1. /\ \A v \in Relays : Locked(v)' = Locked(v)
        /\ delivered \subseteq delivered'
    BY <1>7 DEF Take, Lose, Locked
  <2>2. ASSUME NEW v \in Relays, pc'[v] # pc[v]
        PROVE  v = w /\ pc'[v] = "acked" /\ IsFirst(i, Locked(v)) /\ i \in delivered'
    BY <1>7, <2>2 DEF Take, Lose
  <2>3. QED
    BY <2>1, <2>2
<1>8. QED
  BY <1>1, <1>2, <1>3, <1>4, <1>5, <1>6, <1>7, RelayFrame
LEMMA ClaimsStep ==
  ASSUME PaymentRelayInv, [Next]_relayVars
  PROVE  ClaimsNested'
<1> USE PaymentRelayAssumption DEF PaymentRelayInv, PaymentRelayTypeOK, LocksOK
\* It is enough that no transaction begins and that all claims lose the same rows.
<1>1. ASSUME NEW gone,
             \A v \in Relays :
                pc'[v] # "idle" => pc[v] # "idle" /\ Claims(v)' = Claims(v) \ gone
      PROVE  ClaimsNested'
  BY <1>1 DEF ClaimsNested
<1>2. ASSUME UNCHANGED <<state, rowLock, snapshot>>,
             \A v \in Relays : pc'[v] # "idle" => pc[v] # "idle"
      PROVE  ClaimsNested'
  <2>1. \A v \in Relays : Claims(v)' = Claims(v) \ {}
    BY <1>2 DEF Claims
  <2>2. QED
    BY <1>1, <1>2, <2>1
<1>3. ASSUME NEW i \in Rows, Commit(i)
      PROVE  ClaimsNested'
  <2>1. rowLock[i] = None /\ \A v \in Relays : i \notin snapshot[v]
    BY <1>3 DEF Commit
  <2>2. \A v \in Relays : Claims(v)' = Claims(v) \ {}
    BY <1>3, <2>1 DEF Commit, Claims
  <2>3. QED
    BY <1>1, <1>3, <2>2 DEF Commit
\* A new transaction wants every pending row.
<1>4. ASSUME NEW w \in Relays, Query(w)
      PROVE  ClaimsNested'
  <2>1. Claims(w)' = Pending
    BY <1>4 DEF Query, Claims, Pending
  <2>2. \A v \in Relays : v # w => Claims(v)' = Claims(v) /\ pc'[v] = pc[v]
    BY <1>4 DEF Query, Claims
  <2>3. \A v \in Relays : Claims(v) \subseteq Pending
    BY DEF Claims, Pending
  <2>4. QED
    BY <2>1, <2>2, <2>3 DEF ClaimsNested
\* A row that is asked for becomes a row that is locked.
<1>5. ASSUME NEW w \in Relays, LockNext(w)
      PROVE  ClaimsNested'
  <2>1. PICK i \in Rows :
          /\ i \in snapshot[w] /\ rowLock[i] = None
          /\ rowLock' = [rowLock EXCEPT ![i] = IF state[i] = "pending" THEN w ELSE None]
          /\ snapshot' = [snapshot EXCEPT ![w] = @ \ {i}]
    BY <1>5 DEF LockNext, IsFirst
  <2>2. \A v \in Relays : Claims(v)' = Claims(v) \ {}
    BY <1>5, <2>1 DEF LockNext, Claims
  <2>3. QED
    BY <1>1, <1>5, <2>2 DEF LockNext
<1>6. ASSUME NEW w \in Relays, Nothing(w) \/ Send(w)
      PROVE  ClaimsNested'
  BY <1>2, <1>6 DEF Nothing, Send
<1>7. ASSUME NEW w \in Relays, Mark(w) \/ GiveUp(w)
      PROVE  ClaimsNested'
  <2>1. EndTransaction(w)
    BY <1>7 DEF Mark, GiveUp
  <2>2. PICK gone \in SUBSET Rows :
          state' = [i \in Rows |-> IF i \in gone THEN "published" ELSE state[i]]
    <3>1. CASE Mark(w)
      <4>1. PICK i \in Rows : state' = [state EXCEPT ![i] = "published"]
        BY <3>1 DEF Mark
      <4>2. {i} \in SUBSET Rows
        OBVIOUS
      <4>3. QED
        BY <4>1, <4>2
    <3>2. CASE GiveUp(w)
      <4>1. {} \in SUBSET Rows
        OBVIOUS
      <4>2. QED
        BY <3>2, <4>1 DEF GiveUp
    <3>3. QED
      BY <1>7, <3>1, <3>2
  <2>3. \A v \in Relays : v # w => Claims(v)' = Claims(v) \ gone /\ pc'[v] = pc[v]
    BY <2>1, <2>2 DEF EndTransaction, Claims
  <2>4. QED
    BY <1>1, <2>1, <2>3 DEF EndTransaction
<1>8. ASSUME NEW w \in Relays, NEW i \in Rows, Take(w, i) \/ Lose(w, i)
      PROVE  ClaimsNested'
  <2>1. \A v \in Relays : pc'[v] # "idle" => pc[v] # "idle"
    BY <1>8 DEF Take, Lose
  <2>2. QED
    BY <1>2, <1>8, <2>1 DEF Take, Lose
<1>9. CASE UNCHANGED relayVars
  BY <1>2, <1>9 DEF relayVars
<1>10. QED
  BY <1>3, <1>4, <1>5, <1>6, <1>7, <1>8, <1>9, RelayFrame

\* A row is only marked by the relay that waited for its acknowledgement.
LEMMA MarkedStep ==
  ASSUME PaymentRelayInv, [Next]_relayVars
  PROVE  ResultMarkedIsDelivered'
<1> USE PaymentRelayAssumption DEF PaymentRelayInv, PaymentRelayTypeOK, ResultMarkedIsDelivered
<1>1. ASSUME NEW w \in Relays, Mark(w)
      PROVE  ResultMarkedIsDelivered'
  <2>1. PICK i \in Rows : IsFirst(i, Locked(w)) /\ state' = [state EXCEPT ![i] = "published"]
    BY <1>1 DEF Mark
  <2>2. PICK j \in Rows : IsFirst(j, Locked(w)) /\ j \in delivered
    BY <1>1 DEF Mark, SendsOK
  <2>3. i = j
    BY <2>1, <2>2 DEF IsFirst
  <2>4. QED
    BY <1>1, <2>1, <2>2, <2>3 DEF Mark
<1>2. ASSUME NEW w \in Relays, NEW i \in Rows, Take(w, i) \/ Lose(w, i)
      PROVE  ResultMarkedIsDelivered'
  BY <1>2 DEF Take, Lose
<1>3. ASSUME NEW w \in Relays, Query(w) \/ LockNext(w) \/ Nothing(w) \/ Send(w) \/ GiveUp(w)
      PROVE  ResultMarkedIsDelivered'
  BY <1>3 DEF Query, LockNext, Nothing, Send, GiveUp
<1>4. ASSUME NEW i \in Rows, Commit(i)
      PROVE  ResultMarkedIsDelivered'
  BY <1>4 DEF Commit
<1>5. CASE UNCHANGED relayVars
  BY <1>5 DEF relayVars
<1>6. QED
  BY <1>1, <1>2, <1>3, <1>4, <1>5, RelayFrame

\* The inductive invariant of the relay.
THEOREM PaymentRelayInvariant == Spec => []PaymentRelayInv
<1>1. Init => PaymentRelayInv
  BY DEF Init, PaymentRelayInv, PaymentRelayTypeOK, LocksOK, SendsOK, ClaimsNested,
         ResultMarkedIsDelivered
<1>2. PaymentRelayInv /\ [Next]_relayVars => PaymentRelayInv'
  BY TypeStep, LocksStep, SendsStep, ClaimsStep, MarkedStep DEF PaymentRelayInv
<1>3. QED
  BY <1>1, <1>2, PTL DEF Spec

\* Every step of the process is one of the relay or leaves it alone: timers, batches,
\* stops and new processes add nothing to what a transaction may do.
THEOREM LoopIsRelay == LoopSpec => Spec
<1>1. LoopInit => Init
  BY DEF LoopInit
<1>2. ASSUME NEW w \in Relays, LoopStep(w) \/ Exit(w)
      PROVE  [Next]_relayVars
  <2>1. CASE Start(w) \/ Fire(w) \/ Connect(w) \/ Full(w)
    BY <2>1 DEF Start, Fire, Connect, Full
  <2>2. CASE Publish(w)
    BY <2>2 DEF Publish, Next, Working, PublishStep
  <2>3. CASE Exit(w)
    BY <2>3 DEF Exit, Die, Next, Failure
  <2>4. QED
    BY <1>2, <2>1, <2>2, <2>3 DEF LoopStep
<1>3. ASSUME NEW w \in Relays, ConnectFails(w) \/ PublishFails(w) \/ Stop(w) \/ Crash(w)
      PROVE  [Next]_relayVars
  <2>1. CASE PublishFails(w)
    BY <2>1 DEF PublishFails, Next, Failure
  <2>2. CASE Crash(w)
    BY <2>2 DEF Crash, Die, Next, Failure
  <2>3. QED
    BY <1>3, <2>1, <2>2 DEF ConnectFails, Stop
<1>4. ASSUME NEW i \in Rows, Commit(i) \/ \E w \in Relays : Take(w, i) \/ Lose(w, i)
      PROVE  [Next]_relayVars
  BY <1>4 DEF Next, Working, Failure
<1>5. [LoopNext]_vars => [Next]_relayVars
  <2>1. UNCHANGED vars => [Next]_relayVars
    BY DEF vars
  <2>2. QED
    BY <1>2, <1>3, <1>4, <2>1 DEF LoopNext, LoopWorking, LoopFailure
<1>6. QED
  BY <1>1, <1>5, PTL DEF LoopSpec, Spec

\* A result whose row is marked is in Kafka (publishNext).
THEOREM MarkedResultsArrive == LoopSpec => []ResultMarkedIsDelivered
BY LoopIsRelay, PaymentRelayInvariant, PTL DEF PaymentRelayInv

\* Two instances never send at the same time (publishNext, FOR UPDATE without a limit).
THEOREM SendsAlone == LoopSpec => []OneSender
<1>1. ASSUME PaymentRelayInv, NEW v \in Relays, NEW w \in Relays,
             pc[v] \in {"sending", "acked"}, pc[w] \in {"sending", "acked"},
             Claims(v) \subseteq Claims(w)
      PROVE  v = w
  <2>1. PICK i \in Rows : i \in Locked(v)
    BY <1>1 DEF PaymentRelayInv, SendsOK, IsFirst
  <2>2. rowLock[i] = v /\ v # None
    BY <2>1, PaymentRelayAssumption DEF Locked
  <2>3. i \in Claims(w)
    BY <1>1, <2>1, <2>2 DEF PaymentRelayInv, LocksOK, Claims
  <2>4. i \notin snapshot[w]
    BY <1>1 DEF PaymentRelayInv, LocksOK
  <2>5. QED
    BY <2>2, <2>3, <2>4 DEF Claims
<1>2. PaymentRelayInv => OneSender
  BY <1>1 DEF PaymentRelayInv, ClaimsNested, OneSender
<1>3. QED
  BY <1>2, LoopIsRelay, PaymentRelayInvariant, PTL

-----------------------------------------------------------------------------
(* Waiting.                                                                *)

\* A transaction that waits has locked nothing above the rows it still wants.
Ascending ==
    \A w \in Relays : \A i \in Locked(w), j \in snapshot[w] : i < j

\* At any time the ids in use are bounded.
IdsBounded == \E n \in Nat : \A i \in Rows : state[i] # "free" => i <= n

\* The least-number principle.
LEMMA LeastNatural ==
  ASSUME NEW T, T \subseteq Nat, T # {}
  PROVE  \E x \in T : \A y \in T : x <= y
<1> DEFINE Less == OpToRel(<, Nat)
<1>1. IsWellFoundedOn(Less, Nat)
  BY NatLessThanWellFounded
<1>2. \A x, y \in Nat : y < x => <<y, x>> \in Less
  BY DEF OpToRel
<1> HIDE DEF Less
<1>3. PICK x \in T : \A y \in T : ~ (<<y, x>> \in Less)
  BY <1>1, WFMin
<1>4. \A y \in T : ~ (y < x)
  BY <1>2, <1>3
<1>5. \A y \in T : x <= y
  BY <1>4
<1>6. QED
  BY <1>5

LEMMA AscendingStep ==
  ASSUME PaymentRelayInv, Ascending, [Next]_relayVars
  PROVE  Ascending'
<1> USE PaymentRelayAssumption DEF PaymentRelayInv, PaymentRelayTypeOK, Ascending
<1>1. ASSUME \A v \in Relays : Locked(v)' \subseteq Locked(v) /\ snapshot'[v] \subseteq snapshot[v]
      PROVE  Ascending'
  BY <1>1
<1>2. ASSUME NEW w \in Relays, Query(w)
      PROVE  Ascending'
  <2>1. Locked(w)' = {}
    BY <1>2 DEF Query, Locked, LocksOK
  <2>2. \A v \in Relays \ {w} : Locked(v)' = Locked(v) /\ snapshot'[v] = snapshot[v]
    BY <1>2 DEF Query, Locked
  <2>3. QED
    BY <2>1, <2>2
<1>3. ASSUME NEW w \in Relays, LockNext(w)
      PROVE  Ascending'
  <2>1. PICK i \in Rows :
          /\ IsFirst(i, snapshot[w]) /\ rowLock[i] = None
          /\ rowLock' = [rowLock EXCEPT ![i] = IF state[i] = "pending" THEN w ELSE None]
          /\ snapshot' = [snapshot EXCEPT ![w] = @ \ {i}]
    BY <1>3 DEF LockNext
  <2>2. /\ Locked(w)' \subseteq Locked(w) \cup {i} /\ snapshot'[w] = snapshot[w] \ {i}
        /\ \A v \in Relays \ {w} : Locked(v)' = Locked(v) /\ snapshot'[v] = snapshot[v]
    BY <2>1 DEF Locked
  <2>3. \A j \in snapshot[w] \ {i} : i < j
    BY <2>1 DEF IsFirst
  <2>4. QED
    BY <2>2, <2>3
<1>4. ASSUME NEW w \in Relays, Mark(w) \/ GiveUp(w)
      PROVE  Ascending'
  <2>1. EndTransaction(w)
    BY <1>4 DEF Mark, GiveUp
  <2>2. \A v \in Relays : Locked(v)' \subseteq Locked(v) /\ snapshot'[v] \subseteq snapshot[v]
    BY <2>1 DEF EndTransaction, Locked
  <2>3. QED
    BY <1>1, <2>2
<1>5. CASE UNCHANGED <<rowLock, snapshot>>
  BY <1>5 DEF Locked
<1>6. QED
  BY <1>2, <1>3, <1>4, <1>5, RelayFrame DEF Commit, Nothing, Send, Take, Lose, relayVars

LEMMA IdsStep ==
  ASSUME PaymentRelayInv, IdsBounded, [Next]_relayVars
  PROVE  IdsBounded'
<1> USE PaymentRelayAssumption DEF PaymentRelayInv, PaymentRelayTypeOK
<1>1. PICK n \in Nat : \A i \in Rows : state[i] # "free" => i <= n
  BY DEF IdsBounded
<1>2. ASSUME NEW k \in Rows, \A i \in Rows : state'[i] # "free" => state[i] # "free" \/ i = k
      PROVE  IdsBounded'
  <2>1. CASE k <= n
    BY <1>1, <1>2, <2>1 DEF IdsBounded
  <2>2. CASE n < k
    <3>1. \A i \in Rows : state'[i] # "free" => i <= k
      BY <1>1, <1>2, <2>2
    <3>2. QED
      BY <3>1 DEF IdsBounded
  <2>3. QED
    BY <2>1, <2>2
<1>3. ASSUME \A i \in Rows : state'[i] # "free" => state[i] # "free"
      PROVE  IdsBounded'
  BY <1>1, <1>3 DEF IdsBounded
<1>4. ASSUME NEW i \in Rows, Commit(i)
      PROVE  IdsBounded'
  BY <1>2, <1>4 DEF Commit
<1>5. ASSUME NEW w \in Relays, Mark(w)
      PROVE  IdsBounded'
  <2>1. \A i \in Rows : state'[i] # state[i] => state[i] = "pending"
    BY <1>5 DEF Mark, IsFirst, Locked, LocksOK
  <2>2. QED
    BY <1>3, <2>1
<1>6. CASE UNCHANGED state
  BY <1>3, <1>6
<1>7. QED
  BY <1>4, <1>5, <1>6, RelayFrame DEF Query, LockNext, Nothing, Send, GiveUp, Take, Lose,
     relayVars

\* In a circle each instance would hold a row below the one it wants; the instance that
\* holds the highest of the rows they want from each other could not be in it.
LEMMA NobodyInACircle ==
  ASSUME PaymentRelayInv, Ascending, IdsBounded
  PROVE  NoWaitCircle
<1> USE PaymentRelayAssumption DEF PaymentRelayInv, PaymentRelayTypeOK
<1>1. SUFFICES ASSUME NEW S \in SUBSET Relays, S # {},
                      \A w \in S : \E i \in snapshot[w] : rowLock[i] \in S
               PROVE  FALSE
  BY DEF NoWaitCircle
<1>2. PICK n \in Nat : \A i \in Rows : state[i] # "free" => i <= n
  BY DEF IdsBounded
<1> DEFINE wanted == {i \in Rows : rowLock[i] \in S /\ \E w \in S : i \in snapshot[w]}
           below == {n - i : i \in wanted}
<1>3. \A w \in S : \E i \in wanted : i \in snapshot[w]
  BY <1>1
<1>4. \A i \in wanted : i \in Nat /\ i <= n /\ n - i \in Nat
  <2>1. \A i \in wanted : i \in Nat /\ state[i] # "free"
    BY DEF LocksOK
  <2>2. \A i \in wanted : i <= n
    BY <1>2, <2>1
  <2> HIDE DEF wanted
  <2>3. \A i, k \in Nat : i <= k => k - i \in Nat
    OBVIOUS
  <2>4. QED
    BY <2>1, <2>2, <2>3
<1>5. below \subseteq Nat /\ below # {}
  <2>1. wanted # {}
    BY <1>1, <1>3
  <2> HIDE DEF wanted
  <2>2. QED
    BY <1>4, <2>1
<1>6. PICK least \in below : \A k \in below : least <= k
  <2> HIDE DEF below
  <2>1. QED
    BY <1>5, LeastNatural
<1>7. PICK i \in wanted : least = n - i
  BY <1>6
<1>8. \A j \in wanted : j <= i
  BY <1>4, <1>6, <1>7
<1>9. PICK j \in wanted : j \in snapshot[rowLock[i]]
  BY <1>3
<1>10. i < j
  BY <1>1, <1>9 DEF Ascending, Locked
<1>11. QED
  BY <1>4, <1>8, <1>10

\* Instances of a rolling update never wait for each other's rows in a circle, however
\* many they are (publishNext, ORDER BY id FOR UPDATE).
THEOREM WaitsEnd == LoopSpec => []NoWaitCircle
<1>1. Init => Ascending /\ IdsBounded
  <2>1. Init => Ascending
    BY DEF Init, Ascending
  <2>2. Init => \A i \in Rows : state[i] # "free" => i <= 0
    BY DEF Init
  <2>3. QED
    BY <2>1, <2>2 DEF IdsBounded
<1>2. PaymentRelayInv /\ Ascending /\ IdsBounded /\ [Next]_relayVars => (Ascending /\ IdsBounded)'
  BY AscendingStep, IdsStep
<1>3. PaymentRelayInv /\ Ascending /\ IdsBounded => NoWaitCircle
  BY NobodyInACircle
<1>4. QED
  BY <1>1, <1>2, <1>3, LoopIsRelay, PaymentRelayInvariant, PTL DEF Spec
=============================================================================
