---------------------------- MODULE ConsoleProofs ---------------------------
(***************************************************************************)
(* The circuit breaker and the console that asks through it, for any       *)
(* settings of the breaker, any callers, reservations and prices:          *)
(*   - without an outage every outcome is a success, so nothing opens the  *)
(*     circuit;                                                            *)
(*   - in half-open, outcomes and calls on their way make up for the       *)
(*     permissions given, so the breaker always has an outcome to expect;  *)
(*   - the stock the console follows changes with its reservation or marks *)
(*     the run as disturbed, so a red step has a reason.                   *)
(***************************************************************************)
EXTENDS Console, TicketSaleProofs, SequenceTheorems

-----------------------------------------------------------------------------
(* The breaker.                                                            *)

BreakerTypeOK ==
    /\ breaker \in {"CLOSED", "OPEN", "HALF_OPEN"}
    /\ outcomes \in Seq(BOOLEAN)
    /\ permits \in Nat
    /\ waited \in BOOLEAN
    /\ calling \subseteq Callers /\ IsFiniteSet(calling)
    /\ doomed \subseteq calling
    /\ healthy \in BOOLEAN /\ outage \in BOOLEAN

\* In half-open each permission given is a call on its way or a counted outcome; calls
\* let through before that state may only add to them.
PermitsAccounted ==
    breaker = "HALF_OPEN" =>
        /\ permits < Permitted
        /\ Len(outcomes) < Permitted
        /\ Len(outcomes) + Cardinality(calling) >= Permitted - permits

\* Before the first outage nothing has failed.
NoFailureYet ==
    ~outage =>
        /\ healthy /\ doomed = {}
        /\ breaker = "CLOSED"
        /\ \A i \in 1..Len(outcomes) : outcomes[i] = TRUE

BreakerInv == BreakerTypeOK /\ PermitsAccounted /\ NoFailureYet

-----------------------------------------------------------------------------
\* A window without failure has failure rate 0.
LEMMA RateOfSuccesses ==
  ASSUME NEW s \in Seq(BOOLEAN), Len(s) >= 1, \A i \in 1..Len(s) : s[i] = TRUE
  PROVE  FailureRate(s) = 0
<1>1. {i \in DOMAIN s : ~s[i]} = {}
  OBVIOUS
<1>2. Cardinality({i \in DOMAIN s : ~s[i]}) = 0
  BY <1>1, FS_EmptySet
<1>3. Len(s) \in Nat \ {0}
  OBVIOUS
<1>4. \A n \in Nat \ {0} : (0 * 100) \div n = 0
  OBVIOUS
<1>5. QED
  BY <1>2, <1>3, <1>4 DEF FailureRate

\* The window after one more outcome.
LEMMA WindowGrows ==
  ASSUME NEW s \in Seq(BOOLEAN), NEW ok \in BOOLEAN
  PROVE  /\ Append(s, ok) \in Seq(BOOLEAN) /\ Len(Append(s, ok)) = Len(s) + 1
         /\ Tail(Append(s, ok)) \in Seq(BOOLEAN) /\ Len(Tail(Append(s, ok))) = Len(s)
         /\ (ok = TRUE /\ \A i \in 1..Len(s) : s[i] = TRUE) =>
               /\ \A i \in 1..Len(s) + 1 : Append(s, ok)[i] = TRUE
               /\ \A i \in 1..Len(s) : Tail(Append(s, ok))[i] = TRUE
<1>1. /\ Append(s, ok) \in Seq(BOOLEAN) /\ Len(Append(s, ok)) = Len(s) + 1
      /\ \A i \in 1..Len(s) : Append(s, ok)[i] = s[i]
      /\ Append(s, ok)[Len(s) + 1] = ok
  BY AppendProperties
<1>2. Append(s, ok) # << >>
  BY <1>1
<1>3. /\ Tail(Append(s, ok)) \in Seq(BOOLEAN) /\ Len(Tail(Append(s, ok))) = Len(s)
      /\ \A i \in 1..Len(s) : Tail(Append(s, ok))[i] = Append(s, ok)[i + 1]
  BY <1>1, <1>2, HeadTailProperties
<1>4. \A i \in 1..Len(s) : i + 1 \in 1..Len(s) + 1
  OBVIOUS
<1>5. QED
  BY <1>1, <1>3, <1>4

\* What Count makes of the breaker, one more outcome in hand.
LEMMA CountStep ==
  ASSUME BreakerTypeOK, PermitsAccounted, NEW ok \in BOOLEAN, Count(ok)
  PROVE  /\ breaker' \in {"CLOSED", "OPEN", "HALF_OPEN"} /\ outcomes' \in Seq(BOOLEAN)
         /\ permits' \in Nat /\ waited' \in BOOLEAN
         /\ breaker' = "HALF_OPEN" =>
               /\ breaker = "HALF_OPEN" /\ permits' = permits
               /\ Len(outcomes') = Len(outcomes) + 1 /\ Len(outcomes') < Permitted
         /\ (breaker = "CLOSED" /\ ok = TRUE /\ \A i \in 1..Len(outcomes) : outcomes[i] = TRUE) =>
               breaker' = "CLOSED" /\ \A i \in 1..Len(outcomes') : outcomes'[i] = TRUE
<1> DEFINE size == IF breaker = "CLOSED" THEN Window ELSE Permitted
           least == IF breaker = "CLOSED" THEN MinCalls ELSE Permitted
           all == Append(outcomes, ok)
           last == IF Len(all) > size THEN Tail(all) ELSE all
           next == IF Len(last) < least THEN breaker
                   ELSE IF FailureRate(last) >= Threshold THEN "OPEN" ELSE "CLOSED"
<1>1. CASE breaker = "OPEN"
  BY <1>1 DEF Count, BreakerTypeOK
<1>2. CASE breaker # "OPEN"
  <2>1. /\ breaker' = next
        /\ outcomes' = IF next = breaker THEN last ELSE << >>
        /\ permits' = IF next = breaker THEN permits ELSE 0
        /\ waited' = FALSE
    BY <1>2 DEF Count
  <2>2. /\ all \in Seq(BOOLEAN) /\ Len(all) = Len(outcomes) + 1
        /\ last \in Seq(BOOLEAN) /\ Len(last) \in Nat /\ Len(outcomes) \in Nat
    <3>1. outcomes \in Seq(BOOLEAN)
      BY DEF BreakerTypeOK
    <3>2. /\ all \in Seq(BOOLEAN) /\ Len(all) = Len(outcomes) + 1
          /\ Tail(all) \in Seq(BOOLEAN)
      BY <3>1, WindowGrows
    <3> HIDE DEF all
    <3>3. last \in Seq(BOOLEAN)
      BY <3>2
    <3>4. QED
      BY <3>1, <3>2, <3>3, LenProperties
  <2>3. least \in Nat \ {0} /\ size \in Nat /\ Threshold \in Nat \ {0}
    BY BreakerAssumption
  <2> HIDE DEF last
  <2>4. /\ breaker' \in {"CLOSED", "OPEN", "HALF_OPEN"} /\ outcomes' \in Seq(BOOLEAN)
        /\ permits' \in Nat /\ waited' \in BOOLEAN
    <3>1. next \in {"CLOSED", "OPEN", "HALF_OPEN"}
      BY DEF BreakerTypeOK
    <3> HIDE DEF next
    <3>2. << >> \in Seq(BOOLEAN)
      OBVIOUS
    <3>3. permits \in Nat
      BY DEF BreakerTypeOK
    <3>4. QED
      BY <2>1, <2>2, <3>1, <3>2, <3>3
  <2>5. ASSUME breaker' = "HALF_OPEN"
        PROVE  /\ breaker = "HALF_OPEN" /\ permits' = permits
               /\ Len(outcomes') = Len(outcomes) + 1 /\ Len(outcomes') < Permitted
    <3>1. next = breaker /\ breaker = "HALF_OPEN" /\ Len(last) < least
      BY <1>2, <2>1, <2>5 DEF BreakerTypeOK
    <3>2. Len(outcomes) < Permitted /\ Permitted \in Nat /\ least = Permitted /\ size = Permitted
      BY <3>1, BreakerAssumption DEF PermitsAccounted
    <3>3. last = all
      BY <2>2, <3>2 DEF last
    <3>4. QED
      BY <2>1, <2>2, <3>1, <3>2, <3>3
  <2>6. ASSUME breaker = "CLOSED", ok = TRUE, \A i \in 1..Len(outcomes) : outcomes[i] = TRUE
        PROVE  breaker' = "CLOSED" /\ \A i \in 1..Len(outcomes') : outcomes'[i] = TRUE
    <3>1. \A i \in 1..Len(last) : last[i] = TRUE
      BY <2>2, <2>6, WindowGrows DEF last, BreakerTypeOK
    <3>2. Len(last) >= 1 => FailureRate(last) = 0
      BY <2>2, <3>1, RateOfSuccesses
    <3>3. next = "CLOSED"
      BY <2>2, <2>3, <2>6, <3>2
    <3>4. QED
      BY <2>1, <2>6, <3>1, <3>3
  <2>7. QED
    BY <2>4, <2>5, <2>6
<1>3. QED
  BY <1>1, <1>2

\* A call that gets a permission.
LEMMA AskStep ==
  ASSUME BreakerInv, NEW c \in Callers, Ask(c)
  PROVE  BreakerInv'
<1> USE DEF BreakerInv
<1>1. /\ c \notin calling /\ calling' = calling \cup {c}
      /\ doomed' = IF healthy THEN doomed ELSE doomed \cup {c}
      /\ UNCHANGED <<healthy, outage>> /\ Acquire /\ Permits
  BY DEF Ask
<1>2. /\ IsFiniteSet(calling') /\ Cardinality(calling') = Cardinality(calling) + 1
      /\ Cardinality(calling) \in Nat
  BY <1>1, FS_AddElement, FS_CardinalityType DEF BreakerTypeOK
<1>3. Permitted \in Nat \ {0} /\ permits \in Nat /\ Len(outcomes) \in Nat
      /\ outcomes \in Seq(BOOLEAN)
  BY BreakerAssumption, LenProperties DEF BreakerTypeOK
<1>4. /\ breaker' \in {"CLOSED", "OPEN", "HALF_OPEN"} /\ outcomes' \in Seq(BOOLEAN)
      /\ permits' \in Nat /\ waited' \in BOOLEAN
  <2>1. CASE breaker = "OPEN"
    <3>1. /\ breaker' = "HALF_OPEN" /\ outcomes' = << >> /\ permits' = Permitted - 1
          /\ waited' = FALSE
      BY <1>1, <2>1 DEF Acquire
    <3>2. << >> \in Seq(BOOLEAN)
      OBVIOUS
    <3>3. outcomes' \in Seq(BOOLEAN)
      BY <3>1, <3>2, Zenon
    <3>4. permits' \in Nat
      BY <1>3, <3>1
    <3>5. QED
      BY <3>1, <3>3, <3>4
  <2>2. CASE breaker # "OPEN"
    <3>1. /\ permits' = IF breaker = "HALF_OPEN" THEN permits - 1 ELSE permits
          /\ UNCHANGED <<breaker, outcomes, waited>>
      BY <1>1, <2>2 DEF Acquire
    <3>2. breaker = "HALF_OPEN" => permits > 0
      BY <1>1, <2>2 DEF Permits
    <3>3. permits' \in Nat
      BY <1>3, <3>1, <3>2
    <3>4. QED
      BY <3>1, <3>3 DEF BreakerTypeOK
  <2>3. QED
    BY <2>1, <2>2
<1>5. BreakerTypeOK'
  BY <1>1, <1>2, <1>4 DEF BreakerTypeOK
<1>6. PermitsAccounted'
  <2>1. CASE breaker = "OPEN"
    <3>1. permits' = Permitted - 1 /\ outcomes' = << >>
      BY <1>1, <2>1 DEF Acquire
    <3>2. Len(outcomes') = 0
      BY <3>1
    <3>3. permits' < Permitted /\ 0 < Permitted /\ Permitted - permits' = 1
      BY <1>3, <3>1
    <3>4. Len(outcomes') + Cardinality(calling') >= 1
      BY <1>2, <3>2
    <3>5. QED
      BY <3>2, <3>3, <3>4 DEF PermitsAccounted
  <2>2. CASE breaker # "OPEN"
    <3>1. /\ permits' = IF breaker = "HALF_OPEN" THEN permits - 1 ELSE permits
          /\ breaker' = breaker /\ outcomes' = outcomes
      BY <1>1, <2>2 DEF Acquire
    <3>2. QED
      BY <1>2, <1>3, <3>1 DEF PermitsAccounted
  <2>3. QED
    BY <2>1, <2>2
<1>7. NoFailureYet'
  BY <1>1 DEF NoFailureYet, Acquire
<1>8. QED
  BY <1>5, <1>6, <1>7

\* A call that ends: with an answer, or as one that had met a silent service.
LEMMA ReturnStep ==
  ASSUME BreakerInv, NEW c \in calling, NEW ok \in BOOLEAN, Return(c, ok),
         ok = TRUE \/ c \in doomed
  PROVE  BreakerInv'
<1> USE DEF BreakerInv
<1>1. /\ Count(ok) /\ calling' = calling \ {c} /\ doomed' = doomed \ {c}
      /\ UNCHANGED <<healthy, outage>>
  BY DEF Return
<1>2. /\ IsFiniteSet(calling') /\ Cardinality(calling') = Cardinality(calling) - 1
      /\ Cardinality(calling) \in Nat
  BY <1>1, FS_RemoveElement, FS_CardinalityType DEF BreakerTypeOK
<1>3. BreakerTypeOK'
  BY <1>1, <1>2, CountStep DEF BreakerTypeOK
<1>4. PermitsAccounted'
  <2>1. SUFFICES ASSUME breaker' = "HALF_OPEN"
                 PROVE  /\ permits' < Permitted /\ Len(outcomes') < Permitted
                        /\ Len(outcomes') + Cardinality(calling') >= Permitted - permits'
    BY DEF PermitsAccounted
  <2>2. /\ breaker = "HALF_OPEN" /\ permits' = permits
        /\ Len(outcomes') = Len(outcomes) + 1 /\ Len(outcomes') < Permitted
    BY <1>1, <2>1, CountStep
  <2>3. Permitted \in Nat /\ permits \in Nat /\ Len(outcomes) \in Nat
    BY BreakerAssumption, LenProperties DEF BreakerTypeOK
  <2>4. QED
    BY <1>2, <2>2, <2>3 DEF PermitsAccounted
<1>5. NoFailureYet'
  <2>1. SUFFICES ASSUME ~outage'
                 PROVE  /\ healthy' /\ doomed' = {} /\ breaker' = "CLOSED"
                        /\ \A i \in 1..Len(outcomes') : outcomes'[i] = TRUE
    BY DEF NoFailureYet
  <2>2. /\ healthy /\ doomed = {} /\ breaker = "CLOSED"
        /\ \A i \in 1..Len(outcomes) : outcomes[i] = TRUE
    BY <1>1, <2>1 DEF NoFailureYet
  <2>3. ok = TRUE
    BY <2>2
  <2>4. QED
    BY <1>1, <2>2, <2>3, CountStep
<1>6. QED
  BY <1>3, <1>4, <1>5

\* Every step of a caller and every step of the environment.
LEMMA CallStep ==
  ASSUME BreakerInv, NEW c \in Callers, Ask(c) \/ Answer(c) \/ Fail(c)
  PROVE  BreakerInv'
<1>1. CASE Answer(c)
  <2>1. PICK s \in Statuses : c \in calling /\ Return(c, Succeeds(s))
    BY <1>1 DEF Answer
  <2>2. Succeeds(s) = TRUE
    BY DEF Succeeds
  <2>3. Return(c, TRUE)
    BY <2>1, <2>2
  <2>4. QED
    BY <2>1, <2>3, ReturnStep
<1>2. CASE Fail(c)
  <2>1. c \in doomed /\ c \in calling /\ Return(c, FALSE)
    BY <1>2 DEF Fail, BreakerInv, BreakerTypeOK
  <2>2. QED
    BY <2>1, ReturnStep
<1>3. QED
  BY <1>1, <1>2, AskStep

LEMMA EnvironmentStep ==
  ASSUME BreakerInv, BreakerStep
  PROVE  BreakerInv'
<1> USE DEF BreakerInv, BreakerTypeOK, PermitsAccounted, NoFailureYet
<1>1. CASE Wait
  BY <1>1 DEF Wait
<1>2. CASE GoDown
  BY <1>2 DEF GoDown
<1>3. CASE ComeBack
  BY <1>3 DEF ComeBack
<1>4. QED
  BY <1>1, <1>2, <1>3 DEF BreakerStep

-----------------------------------------------------------------------------
(* The console.                                                            *)

RunTypeOK ==
    /\ SaleTypeOK
    /\ step \in Running \cup {"idle", "rejected"}
    /\ mine \in Reservations \cup {None}
    /\ stockBefore \in Nat \cup {None}
    /\ completed \in BOOLEAN /\ disturbed \in BOOLEAN

\* The places the reservation of the run holds.
InHand == IF status[mine] \in Holding THEN Quantity[mine] ELSE 0

\* Until the stock is read again: the run has a reservation of the concert, its step
\* is not shown, and unless others have traded the stock differs from the first read
\* by what the reservation holds.
RunFollowsStock ==
    /\ step \in {"before", "post", "poll", "after"} =>
          mine \in Reservations /\ EventOf[mine] = Concert /\ stockStep = None
    /\ step \in {"before", "post"} => status[mine] = "NONE"
    /\ step \in {"before", "post", "poll"} => ~completed
    /\ step \in {"poll", "after"} => status[mine] # "NONE"
    /\ step = "after" /\ completed => status[mine] = Expected
    /\ step \in {"post", "poll", "after"} /\ ~disturbed /\ stockBefore # None =>
          availableSeats[Concert] = stockBefore - InHand

RunInv == RunTypeOK /\ RunFollowsStock /\ StockStepIsFair

-----------------------------------------------------------------------------
\* Whatever the console and the others do to the sale is a step of the sale.
LEMMA ConsoleSells ==
  ASSUME RunInv, [Next]_consoleVars
  PROVE  [SaleNext]_saleVars
<1>1. ASSUME Post \/ PostRefused \/ FetchRejected
      PROVE  [SaleNext]_saleVars
  BY <1>1 DEF Post, PostRefused, FetchRejected, SaleNext, RunInv, RunFollowsStock
<1>2. CASE SaleGoesOn
  BY <1>2 DEF SaleGoesOn
<1>3. CASE UNCHANGED saleVars
  BY <1>3
<1>4. QED
  BY <1>1, <1>2, <1>3 DEF Next, RunStep, Run, ReadBefore, Poll, ReadAfter, AskPayment,
     PaymentAnswered, OtherCall, ServiceStep, consoleVars

\* What the run says of the stock concerns these variables only.
LEMMA RunFrame ==
  ASSUME RunInv, UNCHANGED <<saleVars, mine, stockBefore, completed, stockStep, disturbed>>,
         step' = step \/ step' \in {"idle", "rejected", "status"}
  PROVE  RunInv'
BY DEF RunInv, RunTypeOK, SaleTypeOK, RunFollowsStock, StockStepIsFair, saleVars, InHand,
       Expected, Running

\* Others change the sale: what they do to the stock of the concert is seen, unless
\* it is the end of the console's own reservation.
LEMMA SaleGoesOnStep ==
  ASSUME RunInv, SaleGoesOn
  PROVE  RunInv'
<1> USE DEF RunInv
<1>1. /\ SaleNext /\ (mine # None /\ status[mine] = "NONE" => status'[mine] = "NONE")
      /\ UNCHANGED <<step, mine, stockBefore, polls, completed, stockStep>>
      /\ disturbed' = (disturbed \/ /\ step \in BetweenReads
                                    /\ availableSeats'[Concert] # availableSeats[Concert]
                                    /\ status'[mine] = status[mine])
  BY DEF SaleGoesOn, runVars
<1>2. SaleTypeOK'
  BY <1>1, SaleTypesStay DEF RunTypeOK
<1>3. RunTypeOK'
  BY <1>1, <1>2 DEF RunTypeOK
<1>4. StockStepIsFair'
  BY <1>1 DEF StockStepIsFair, RunTypeOK
<1>5. ASSUME mine \in Reservations
      PROVE  /\ status[mine] = "NONE" => status'[mine] = "NONE"
             /\ status[mine] # "NONE" => status'[mine] # "NONE"
             /\ status[mine] \in {"TICKET_ISSUED", "EXPIRED", "CANCELLED"} =>
                   status'[mine] = status[mine]
             /\ (EventOf[mine] = Concert /\ status'[mine] # status[mine]) =>
                   availableSeats'[Concert] + InHand' = availableSeats[Concert] + InHand
  <2>a. mine # None /\ Quantity[mine] \in Nat /\ Concert \in Events
        /\ status \in [Reservations -> ReservationStatus \cup {"NONE"}]
        /\ availableSeats \in [Events -> Nat] /\ mine' = mine
    BY <1>1, <1>5, ConsoleAssumption, SaleAssumption DEF RunTypeOK, SaleTypeOK
  <2>1. ASSUME NEW r \in Reservations, Reserve(r)
        PROVE  r = mine => status'[mine] = status[mine]
    BY <1>1, <2>a, <2>1 DEF Reserve
  <2>2. ASSUME NEW r \in Reservations, Reserve(r), r # mine
        PROVE  status'[mine] = status[mine]
    BY <2>a, <2>2 DEF Reserve
  <2>3. ASSUME NEW r \in Reservations, Issue(r)
        PROVE  /\ status'[mine] = status[mine] \/ (status[mine] = "PENDING" /\ status'[mine] = "TICKET_ISSUED")
               /\ availableSeats' = availableSeats
    BY <2>a, <1>5, <2>3 DEF Issue
  <2>4. ASSUME NEW r \in Reservations, GiveBack(r)
        PROVE  \/ status'[mine] = status[mine]
               \/ /\ status[mine] = "PENDING" /\ status'[mine] \in {"EXPIRED", "CANCELLED"}
                  /\ availableSeats'[EventOf[mine]] = availableSeats[EventOf[mine]] + Quantity[mine]
    BY <2>a, <1>5, <2>4, SaleAssumption DEF GiveBack
  <2>5. \/ status'[mine] = status[mine]
        \/ /\ status[mine] = "PENDING" /\ status'[mine] = "TICKET_ISSUED"
           /\ availableSeats' = availableSeats
        \/ /\ status[mine] = "PENDING" /\ status'[mine] \in {"EXPIRED", "CANCELLED"}
           /\ availableSeats'[EventOf[mine]] = availableSeats[EventOf[mine]] + Quantity[mine]
    BY <1>1, <2>1, <2>2, <2>3, <2>4 DEF SaleNext
  <2>6. QED
    BY <2>5, <2>a, <1>1 DEF InHand, Holding
<1>6. RunFollowsStock'
  <2>1. CASE step \notin {"before", "post", "poll", "after"}
    BY <1>1, <2>1 DEF RunFollowsStock
  <2>2. CASE step \in {"before", "post", "poll", "after"}
    <3>1. mine \in Reservations /\ EventOf[mine] = Concert /\ stockStep = None /\ mine' = mine
      BY <1>1, <2>2 DEF RunFollowsStock
    <3>2. /\ step \in {"before", "post"} => status'[mine] = "NONE"
          /\ step \in {"poll", "after"} => status'[mine] # "NONE"
      BY <1>5, <3>1 DEF RunFollowsStock
    <3>3. step = "after" /\ completed => status'[mine] = Expected
      BY <1>5, <3>1 DEF RunFollowsStock, Expected
    <3>4. ASSUME step \in {"post", "poll", "after"}, ~disturbed', stockBefore # None
          PROVE  availableSeats'[Concert] = stockBefore - InHand'
      <4>1. ~disturbed /\ availableSeats[Concert] = stockBefore - InHand
        BY <1>1, <3>4 DEF RunFollowsStock, RunTypeOK
      <4>2. step \in BetweenReads
        BY <3>4 DEF BetweenReads
      <4>3. /\ stockBefore \in Nat /\ Quantity[mine] \in Nat
            /\ availableSeats[Concert] \in Nat /\ availableSeats'[Concert] \in Nat
        BY <1>2, <3>1, <3>4, ConsoleAssumption, SaleAssumption DEF RunTypeOK, SaleTypeOK
      <4>4. InHand \in Nat /\ InHand' \in Nat
        BY <3>1, <4>3 DEF InHand
      <4>5. CASE status'[mine] = status[mine]
        <5>1. availableSeats'[Concert] = availableSeats[Concert]
          BY <1>1, <3>4, <4>2, <4>5
        <5>2. InHand' = InHand
          BY <3>1, <4>5 DEF InHand
        <5>3. QED
          BY <4>1, <5>1, <5>2
      <4>6. CASE status'[mine] # status[mine]
        <5>1. availableSeats'[Concert] + InHand' = availableSeats[Concert] + InHand
          BY <1>5, <3>1, <4>6
        <5>2. QED
          BY <4>1, <4>3, <4>4, <5>1
      <4>7. QED
        BY <4>5, <4>6
    <3>5. QED
      BY <1>1, <3>1, <3>2, <3>3, <3>4 DEF RunFollowsStock, Expected
  <2>3. QED
    BY <2>1, <2>2
<1>7. QED
  BY <1>3, <1>4, <1>6

\* The steps of the run itself, one lemma for each that the stock matters to.
LEMMA StartStep ==
  ASSUME RunInv, NEW r \in Reservations, Run(r) \/ ReadBefore
  PROVE  RunInv'
<1> USE ConsoleAssumption
<1>1. CASE Run(r)
  BY <1>1 DEF RunInv, Run, RunTypeOK, SaleTypeOK, RunFollowsStock, StockStepIsFair, saleVars,
     Running
<1>2. CASE ReadBefore
  <2>1. /\ step = "before" /\ step' = "post" /\ stockBefore' \in {availableSeats[Concert], None}
        /\ UNCHANGED <<saleVars, mine, completed, stockStep, disturbed>>
    BY <1>2 DEF ReadBefore
  <2>2. /\ mine \in Reservations /\ EventOf[mine] = Concert /\ stockStep = None
        /\ status[mine] = "NONE" /\ availableSeats[Concert] \in Nat
    BY <2>1 DEF RunInv, RunTypeOK, SaleTypeOK, RunFollowsStock
  <2>3. RunTypeOK'
    BY <2>1, <2>2 DEF RunInv, RunTypeOK, SaleTypeOK, saleVars, Running
  <2>4. InHand' = 0
    BY <2>1, <2>2 DEF InHand, Holding, saleVars
  <2>5. stockBefore' # None => availableSeats'[Concert] = stockBefore' - InHand'
    BY <2>1, <2>2, <2>4 DEF saleVars
  <2>6. RunFollowsStock'
    <3>1. ~completed
      BY <2>1 DEF RunInv, RunFollowsStock
    <3>2. QED
      BY <2>1, <2>2, <2>5, <3>1 DEF RunFollowsStock, saleVars
  <2>7. StockStepIsFair'
    BY <2>1, <2>2 DEF StockStepIsFair
  <2>8. QED
    BY <2>3, <2>6, <2>7 DEF RunInv
<1>3. QED
  BY <1>1, <1>2

\* The POST takes the places of the run, or the run ends with it.
LEMMA PostStep ==
  ASSUME RunInv, Post \/ PostRefused \/ FetchRejected
  PROVE  RunInv'
<1> USE ConsoleAssumption
<1>1. /\ UNCHANGED <<mine, stockBefore, completed, stockStep, disturbed>>
      /\ (step = "post" /\ Reserve(mine)) \/ UNCHANGED saleVars
      /\ step' \in {"idle", "rejected"} \/ (step = "post" /\ Reserve(mine) /\ step' = "poll")
  BY DEF Post, PostRefused, FetchRejected
<1>2. CASE UNCHANGED saleVars /\ step' \in {"idle", "rejected"}
  BY <1>1, <1>2, RunFrame
<1>3. CASE step = "post" /\ Reserve(mine)
  <2>1. /\ mine \in Reservations /\ EventOf[mine] = Concert /\ stockStep = None
        /\ status[mine] = "NONE" /\ Quantity[mine] \in Nat /\ availableSeats[Concert] \in Nat
        /\ status \in [Reservations -> ReservationStatus \cup {"NONE"}]
        /\ availableSeats \in [Events -> Nat]
        /\ stockBefore \in Nat \cup {None}
        /\ ~disturbed /\ stockBefore # None => availableSeats[Concert] = stockBefore - InHand
    BY <1>3, SaleAssumption DEF RunInv, RunTypeOK, SaleTypeOK, RunFollowsStock
  <2>2. SaleTypeOK'
    BY <1>3, <2>1, SaleTypesStay DEF RunInv, RunTypeOK, SaleNext
  <2>3. RunTypeOK'
    BY <1>1, <2>2 DEF RunInv, RunTypeOK, Running
  <2>4. status'[mine] = "PENDING" /\ availableSeats'[Concert] = availableSeats[Concert] - Quantity[mine]
    BY <1>3, <2>1 DEF Reserve
  <2>5. InHand = 0 /\ InHand' = Quantity[mine]
    BY <1>1, <2>1, <2>4 DEF InHand, Holding
  <2>6. ~disturbed /\ stockBefore # None => availableSeats'[Concert] = stockBefore - InHand'
    BY <2>1, <2>4, <2>5
  <2>7. RunFollowsStock' /\ StockStepIsFair'
    <3>1. step' = "poll" => ~completed
      BY <1>1, <1>3, <2>1 DEF RunInv, RunFollowsStock
    <3>2. QED
      BY <1>1, <2>1, <2>4, <2>6, <3>1 DEF RunFollowsStock, StockStepIsFair
  <2>8. QED
    BY <2>3, <2>7 DEF RunInv
<1>4. QED
  BY <1>1, <1>2, <1>3

LEMMA PollStep ==
  ASSUME RunInv, Poll
  PROVE  RunInv'
<1>1. /\ step = "poll" /\ step' \in {"poll", "after"} /\ (completed' => step' = "after")
      /\ completed' \in BOOLEAN /\ (completed' => status[mine] = Expected)
      /\ UNCHANGED <<saleVars, mine, stockBefore, stockStep, disturbed>>
  BY DEF Poll
<1>2. QED
  BY <1>1, ConsoleAssumption DEF RunInv, RunTypeOK, SaleTypeOK, RunFollowsStock, StockStepIsFair,
     saleVars, Running, InHand, Expected

\* The comparison of the two reads: red only if the run was not completed, the first
\* read failed or others have traded.
LEMMA ReadAfterStep ==
  ASSUME RunInv, ReadAfter
  PROVE  RunInv'
<1> DEFINE expectedStock ==
             IF mine \in Nominal THEN stockBefore - Quantity[mine] ELSE stockBefore
<1>1. /\ step = "after" /\ step' = "payment"
      /\ \/ stockStep' = Shown(stockBefore # None /\ availableSeats[Concert] = expectedStock)
         \/ stockStep' = "error"
      /\ UNCHANGED <<saleVars, mine, stockBefore, completed, disturbed>>
  BY DEF ReadAfter
<1>2. RunTypeOK'
  BY <1>1 DEF RunInv, RunTypeOK, SaleTypeOK, saleVars, Running
<1>3. ASSUME completed, stockBefore # None, ~disturbed
      PROVE  availableSeats[Concert] = expectedStock
  <2>1. /\ mine \in Reservations /\ status[mine] = Expected
        /\ availableSeats[Concert] = stockBefore - InHand
        /\ stockBefore \in Nat
    BY <1>1, <1>3 DEF RunInv, RunTypeOK, RunFollowsStock
  <2>2. InHand = IF mine \in Nominal THEN Quantity[mine] ELSE 0
    BY <2>1 DEF InHand, Holding, Expected
  <2>3. QED
    BY <2>1, <2>2
<1>4. StockStepIsFair'
  BY <1>1, <1>3 DEF StockStepIsFair, Shown
<1>5. RunFollowsStock'
  BY <1>1 DEF RunFollowsStock
<1>6. QED
  BY <1>2, <1>4, <1>5 DEF RunInv

LEMMA RunInvStep ==
  ASSUME RunInv, [Next]_consoleVars
  PROVE  RunInv'
<1>1. CASE \E r \in Reservations : Run(r)
  BY <1>1, StartStep
<1>2. CASE ReadBefore
  BY <1>2, StartStep DEF RunInv, RunFollowsStock, ReadBefore
<1>3. CASE Post \/ PostRefused \/ FetchRejected
  BY <1>3, PostStep
<1>4. CASE Poll
  BY <1>4, PollStep
<1>5. CASE ReadAfter
  BY <1>5, ReadAfterStep
<1>6. CASE AskPayment \/ PaymentAnswered
  BY <1>6, RunFrame DEF AskPayment, PaymentAnswered
<1>7. CASE SaleGoesOn
  BY <1>7, SaleGoesOnStep
<1>8. CASE (\E c \in Callers : OtherCall(c)) \/ ServiceStep \/ UNCHANGED consoleVars
  BY <1>8, RunFrame DEF OtherCall, ServiceStep, consoleVars, runVars
<1>9. QED
  BY <1>1, <1>2, <1>3, <1>4, <1>5, <1>6, <1>7, <1>8 DEF Next, RunStep

LEMMA BreakerInvStep ==
  ASSUME BreakerInv, [Next]_consoleVars
  PROVE  BreakerInv'
<1>1. CASE UNCHANGED breakerVars
  BY <1>1 DEF BreakerInv, BreakerTypeOK, PermitsAccounted, NoFailureYet, breakerVars
<1>2. CASE \E c \in Callers : Ask(c) \/ Answer(c) \/ Fail(c)
  BY <1>2, CallStep
<1>3. CASE BreakerStep
  BY <1>3, EnvironmentStep
<1>4. CASE AskPayment \/ PaymentAnswered
  BY <1>1, <1>2, <1>4, ConsoleAssumption DEF AskPayment, PaymentAnswered, FallBack
<1>5. QED
  BY <1>1, <1>2, <1>3, <1>4 DEF Next, RunStep, Run, ReadBefore, Post, PostRefused, Poll,
     ReadAfter, FetchRejected, SaleGoesOn, OtherCall, ServiceStep, consoleVars

LEMMA ConsoleInit ==
  ASSUME Init
  PROVE  BreakerInv /\ RunInv
<1>1. BreakerInv
  <2>1. outcomes \in Seq(BOOLEAN) /\ Len(outcomes) = 0
    BY DEF Init, BreakerInit
  <2>2. IsFiniteSet(calling)
    BY FS_EmptySet DEF Init, BreakerInit
  <2>3. BreakerTypeOK
    BY <2>1, <2>2 DEF Init, BreakerInit, BreakerTypeOK
  <2>4. PermitsAccounted
    BY DEF Init, BreakerInit, PermitsAccounted
  <2>5. NoFailureYet
    BY <2>1 DEF Init, BreakerInit, NoFailureYet
  <2>6. QED
    BY <2>3, <2>4, <2>5 DEF BreakerInv
<1>2. RunInv
  BY SaleAssumption, ConsoleAssumption DEF Init, SaleInit, RunInv, RunTypeOK, SaleTypeOK,
     ReservationStatus, RunFollowsStock, StockStepIsFair, Running
<1>3. QED
  BY <1>1, <1>2

-----------------------------------------------------------------------------
(* The theorems.                                                           *)

\* The accounts of the circuit breaker of application.yml: its permissions, its window
\* and the outage behind every failure.
THEOREM ConsoleBreakerInv == Spec => []BreakerInv
<1>1. Init => BreakerInv
  BY ConsoleInit
<1>2. BreakerInv /\ [Next]_consoleVars => BreakerInv'
  BY BreakerInvStep
<1>3. QED
  BY <1>1, <1>2, PTL DEF Spec

\* PaymentGateway: no number of NONE answers and no order of late ones opens the
\* circuit; an open circuit means that payment-service has failed.
THEOREM CircuitOpensForOutages == Spec => []OpensForOutagesOnly
<1>1. BreakerInv => OpensForOutagesOnly
  BY DEF BreakerInv, NoFailureYet, OpensForOutagesOnly
<1>2. QED
  BY <1>1, ConsoleBreakerInv, PTL

\* permitted-number-of-calls-in-half-open-state: a circuit that is half open and
\* refuses everybody has a call on its way, so an outcome will end that state.
THEOREM HalfOpenIsNeverStuck == Spec => []HalfOpenHasCalls
<1>1. BreakerInv => HalfOpenHasCalls
  <2>1. SUFFICES ASSUME BreakerInv, breaker = "HALF_OPEN", permits = 0, calling = {}
                 PROVE  FALSE
    BY DEF HalfOpenHasCalls
  <2>2. Cardinality(calling) = 0
    BY <2>1, FS_EmptySet
  <2>3. Permitted \in Nat /\ Len(outcomes) \in Nat
    BY <2>1, BreakerAssumption, LenProperties DEF BreakerInv, BreakerTypeOK
  <2>4. QED
    BY <2>1, <2>2, <2>3 DEF BreakerInv, PermitsAccounted
<1>2. QED
  BY <1>1, ConsoleBreakerInv, PTL

\* full-scenario.tsx: the stock step of a completed run is red for a reason, a read
\* that failed or other clients that traded.
THEOREM ConsoleIsFair == Spec => []StockStepIsFair
<1>1. Init => RunInv
  BY ConsoleInit
<1>2. RunInv /\ [Next]_consoleVars => RunInv'
  BY RunInvStep
<1>3. RunInv => StockStepIsFair
  BY DEF RunInv
<1>4. QED
  BY <1>1, <1>2, <1>3, PTL DEF Spec

\* The console is a client of the sale and nothing more: whatever it does to the
\* reservations and the stock is a step of TicketSale, also when a call is rejected
\* or answered with an error.
THEOREM ConsoleImplementsSale == Spec => SaleSpec
<1>1. Init => RunInv /\ SaleInit
  BY ConsoleInit DEF Init
<1>2. RunInv /\ [Next]_consoleVars => RunInv' /\ [SaleNext]_saleVars
  BY RunInvStep, ConsoleSells
<1>3. QED
  BY <1>1, <1>2, PTL DEF Spec, SaleSpec
=============================================================================
