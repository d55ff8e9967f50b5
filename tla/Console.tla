------------------------------- MODULE Console ------------------------------
(***************************************************************************)
(* The demonstration console, full-scenario.tsx, as a client of            *)
(* booking-service: it reads the stock of the concert, reserves, polls its *)
(* reservation, reads the stock again, compares, and asks for the payment  *)
(* status. Meanwhile the sale goes on, by the services and other clients   *)
(* (TicketSale, which BookingService implements), and so do other calls    *)
(* through the circuit breaker. Every call of fetch is answered, answered  *)
(* with an HTTP error, or rejected.                                        *)
(***************************************************************************)
EXTENDS TicketSale, PaymentBreaker

CONSTANTS
    Concert,     \* SEED_EVENTS[0]
    Nominal,     \* the reservations made by run("nominal"), the others by run("compensation")
    MaxPolls,    \* polls of the reservation before the console gives up (30)
    Self,        \* the console among the callers
    None

ASSUME ConsoleAssumption ==
    /\ Concert \in Events
    /\ Nominal \subseteq Reservations
    /\ MaxPolls \in Nat \ {0}
    /\ Self \in Callers
    /\ None \notin Reservations \cup Nat \cup {"green", "red", "error"}

VARIABLES
    step,        \* what run() waits for; "idle" when runningMode is null
    mine,        \* the reservation of this run
    stockBefore, \* the stock it has read first, None for NaN
    polls,       \* polls made
    completed,   \* the expected status has been seen
    stockStep,   \* colour of the step "Invariant de stock", None before it
    disturbed    \* others have changed the stock of the concert between the two reads

runVars == <<step, mine, stockBefore, polls, completed, stockStep>>
consoleVars == <<saleVars, breakerVars, runVars, disturbed>>

Running == {"before", "post", "poll", "after", "payment", "status"}
BetweenReads == {"post", "poll", "after"}

Init ==
    /\ SaleInit
    /\ BreakerInit
    /\ step = "idle"
    /\ mine = None
    /\ stockBefore = None
    /\ polls = 0
    /\ completed = FALSE
    /\ stockStep = None
    /\ disturbed = FALSE

-----------------------------------------------------------------------------
\* A step in the list: a green check or a red cross.
Shown(ok) == IF ok THEN "green" ELSE "red"

\* A click on one of the two buttons, enabled while runningMode is null.
Run(r) ==
    /\ step = "idle"
    /\ status[r] = "NONE" /\ EventOf[r] = Concert
    /\ step' = "before"
    /\ mine' = r
    /\ stockBefore' = None
    /\ polls' = 0
    /\ completed' = FALSE
    /\ stockStep' = None
    /\ disturbed' = FALSE
    /\ UNCHANGED <<saleVars, breakerVars>>

\* api.getEvent; an HTTP error leaves NaN.
ReadBefore ==
    /\ step = "before"
    /\ step' = "post"
    /\ stockBefore' \in {availableSeats[Concert], None}
    /\ UNCHANGED <<saleVars, breakerVars, mine, polls, completed, stockStep, disturbed>>

\* api.createReservation, answered 201.
Post ==
    /\ step = "post"
    /\ Reserve(mine)
    /\ step' = "poll"
    /\ UNCHANGED <<breakerVars, mine, stockBefore, polls, completed, stockStep, disturbed>>

\* Another answer, after the reservation was made or not: the run is over.
PostRefused ==
    /\ step = "post"
    /\ Reserve(mine) \/ UNCHANGED saleVars
    /\ step' = "idle"
    /\ UNCHANGED <<breakerVars, mine, stockBefore, polls, completed, stockStep, disturbed>>

Expected == IF mine \in Nominal THEN "TICKET_ISSUED" ELSE "CANCELLED"

\* Mutant: any end of the reservation completes the scenario.
PollAnyEnd ==
    /\ step = "poll"
    /\ polls' = polls + 1
    /\ \E ok \in BOOLEAN : completed' = (ok /\ status[mine] # "PENDING")
    /\ step' = IF completed' \/ polls' = MaxPolls THEN "after" ELSE "poll"
    /\ UNCHANGED <<saleVars, breakerVars, mine, stockBefore, stockStep, disturbed>>

\* One turn of the loop; the status counts if the answer is a success.
Poll ==
    /\ step = "poll"
    /\ polls' = polls + 1
    /\ \E ok \in BOOLEAN : completed' = (ok /\ status[mine] = Expected)
    /\ step' = IF completed' \/ polls' = MaxPolls THEN "after" ELSE "poll"
    /\ UNCHANGED <<saleVars, breakerVars, mine, stockBefore, stockStep, disturbed>>

\* The second api.getEvent. An HTTP error makes the step red too, but says so.
ReadAfter ==
    /\ step = "after"
    /\ step' = "payment"
    /\ LET expectedStock == IF mine \in Nominal THEN stockBefore - Quantity[mine] ELSE stockBefore
       IN  \/ stockStep' = Shown(stockBefore # None /\ availableSeats[Concert] = expectedStock)
           \/ stockStep' = "error"
    /\ UNCHANGED <<saleVars, breakerVars, mine, stockBefore, polls, completed, disturbed>>

\* api.paymentStatus: UNKNOWN at once, or a call to payment-service.
AskPayment ==
    /\ step = "payment"
    /\ \/ FallBack /\ step' = "idle"
       \/ Ask(Self) /\ step' = "status"
    /\ UNCHANGED <<saleVars, mine, stockBefore, polls, completed, stockStep, disturbed>>

\* It ends with a status or with UNKNOWN. (The page may be gone by then.)
PaymentAnswered ==
    /\ Answer(Self) \/ Fail(Self)
    /\ step' = IF step = "status" THEN "idle" ELSE step
    /\ UNCHANGED <<saleVars, mine, stockBefore, polls, completed, stockStep, disturbed>>

\* fetch rejects: run() has no try, runningMode stays set and both buttons stay
\* disabled until the page is loaded again.
FetchRejected ==
    /\ step \in Running
    /\ (step = "post" /\ Reserve(mine)) \/ UNCHANGED saleVars
    /\ step' = "rejected"
    /\ UNCHANGED <<breakerVars, mine, stockBefore, polls, completed, stockStep, disturbed>>

\* Services and other clients change the sale.
SaleGoesOn ==
    /\ SaleNext
    /\ mine # None /\ status[mine] = "NONE" => status'[mine] = "NONE"
    /\ disturbed' =
          (disturbed \/ /\ step \in BetweenReads
                        /\ availableSeats'[Concert] # availableSeats[Concert]
                        /\ status'[mine] = status[mine])
    /\ UNCHANGED <<breakerVars, runVars>>

OtherCall(c) ==
    /\ c # Self
    /\ Ask(c) \/ Answer(c) \/ Fail(c)
    /\ UNCHANGED <<saleVars, runVars, disturbed>>

ServiceStep == BreakerStep /\ UNCHANGED <<saleVars, runVars, disturbed>>

RunStep == ReadBefore \/ Post \/ PostRefused \/ Poll \/ ReadAfter \/ AskPayment

Next ==
    \/ \E r \in Reservations : Run(r)
    \/ RunStep \/ PaymentAnswered \/ FetchRejected
    \/ SaleGoesOn
    \/ \E c \in Callers : OtherCall(c)
    \/ ServiceStep

\* The page runs, calls end in time, others go on asking, 10 s pass.
Fairness ==
    /\ WF_consoleVars(RunStep)
    /\ WF_consoleVars(PaymentAnswered)
    /\ \A c \in Callers : WF_consoleVars(OtherCall(c))
    /\ WF_consoleVars(Wait /\ ServiceStep)

Spec == Init /\ [][Next]_consoleVars /\ Fairness

-----------------------------------------------------------------------------
\* A completed run shows a green stock step unless a read of the stock failed or
\* others have traded on the concert meanwhile: the status the console polls and the
\* stock it reads have changed in one transaction.
StockStepIsFair ==
    completed /\ stockBefore # None /\ ~disturbed => stockStep # "red"

\* A run ends, whatever services and other clients do, and its buttons are enabled
\* again, unless a rejected call has left them disabled.
RunEnds == step \in Running ~> step \in {"idle", "rejected"}
=============================================================================
