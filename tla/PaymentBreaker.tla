--------------------------- MODULE PaymentBreaker ---------------------------
(***************************************************************************)
(* GET /reservations/{id}/payment-status: booking-service asks             *)
(* payment-service over HTTP, behind a circuit breaker. The breaker is the *)
(* library resilience4j with the settings of application.yml; a call that  *)
(* it lets through ends with an answer or, at the latest, with a timeout.  *)
(***************************************************************************)
EXTENDS Integers, Sequences, FiniteSets

CONSTANTS
    Callers,   \* HTTP requests that can be in progress together
    Window,    \* sliding-window-size (10)
    MinCalls,  \* minimum-number-of-calls (5)
    Threshold, \* failure-rate-threshold, in percent (50)
    Permitted  \* permitted-number-of-calls-in-half-open-state (2)

ASSUME BreakerAssumption ==
    /\ Window \in Nat \ {0}
    /\ MinCalls \in 1..Window
    /\ Threshold \in 1..100
    /\ Permitted \in Nat \ {0}

VARIABLES
    breaker,  \* CLOSED, OPEN or HALF_OPEN
    outcomes, \* the calls the breaker has counted in this state, TRUE for a success
    permits,  \* calls it still lets through in HALF_OPEN
    waited,   \* wait-duration-in-open-state has elapsed
    calling,  \* callers whose call is on its way
    doomed,   \* those of them whose call met a service that did not answer
    healthy,  \* payment-service answers
    outage    \* it has failed to, at some time

breakerVars == <<breaker, outcomes, permits, waited, calling, doomed, healthy, outage>>

BreakerInit ==
    /\ breaker = "CLOSED"
    /\ outcomes = <<>>
    /\ permits = 0
    /\ waited = FALSE
    /\ calling = {}
    /\ doomed = {}
    /\ healthy = TRUE
    /\ outage = FALSE

-----------------------------------------------------------------------------
(* The breaker.                                                            *)

Permits == breaker = "CLOSED" \/ (breaker = "OPEN" /\ waited) \/ (breaker = "HALF_OPEN" /\ permits > 0)

\* Mutant: the permission that opens the breaker by half is counted twice.
AcquireTwice ==
    IF breaker = "OPEN"
    THEN /\ breaker' = "HALF_OPEN"
         /\ outcomes' = <<>>
         /\ permits' = Permitted - 2
         /\ waited' = FALSE
    ELSE /\ permits' = IF breaker = "HALF_OPEN" THEN permits - 1 ELSE permits
         /\ UNCHANGED <<breaker, outcomes, waited>>

\* A permission. The first one after the wait opens the breaker by half.
Acquire ==
    IF breaker = "OPEN"
    THEN /\ breaker' = "HALF_OPEN"
         /\ outcomes' = <<>>
         /\ permits' = Permitted - 1
         /\ waited' = FALSE
    ELSE /\ permits' = IF breaker = "HALF_OPEN" THEN permits - 1 ELSE permits
         /\ UNCHANGED <<breaker, outcomes, waited>>

FailureRate(s) == (Cardinality({i \in DOMAIN s : ~s[i]}) * 100) \div Len(s)

\* The outcome of a call is counted in the state the breaker is in when the call
\* ends, which need not be the state that let it through.
Count(ok) ==
    LET size == IF breaker = "CLOSED" THEN Window ELSE Permitted
        least == IF breaker = "CLOSED" THEN MinCalls ELSE Permitted
        all == Append(outcomes, ok)
        last == IF Len(all) > size THEN Tail(all) ELSE all
        next == IF Len(last) < least THEN breaker
                ELSE IF FailureRate(last) >= Threshold THEN "OPEN" ELSE "CLOSED"
    IN  IF breaker = "OPEN" THEN UNCHANGED <<breaker, outcomes, permits, waited>>
        ELSE /\ breaker' = next
             /\ outcomes' = IF next = breaker THEN last ELSE <<>>
             /\ permits' = IF next = breaker THEN permits ELSE 0
             /\ waited' = FALSE

-----------------------------------------------------------------------------
(* PaymentGateway.paymentStatus.                                           *)

\* The breaker lets the call through.
Ask(c) ==
    /\ c \notin calling
    /\ Permits
    /\ Acquire
    /\ calling' = calling \cup {c}
    /\ doomed' = IF healthy THEN doomed ELSE doomed \cup {c}
    /\ UNCHANGED <<healthy, outage>>

\* The breaker rejects the call: statusFallback answers UNKNOWN at once.
FallBack == ~Permits /\ UNCHANGED breakerVars

\* The call of c ends, and the breaker counts it.
Return(c, ok) ==
    /\ Count(ok)
    /\ calling' = calling \ {c}
    /\ doomed' = doomed \ {c}
    /\ UNCHANGED <<healthy, outage>>

\* statusOf: NONE for a reservation that has no payment.
Statuses == {"RECEIVED", "REJECTED", "NONE"}

\* Mutant: no payment is a 404, an exception of RestClient.
SucceedsIfPaid(s) == s # "NONE"

\* Every status comes with 200.
Succeeds(s) == s \in Statuses

\* payment-service answers.
Answer(c) ==
    /\ c \in calling
    /\ healthy
    /\ \E s \in Statuses : Return(c, Succeeds(s))

\* Mutant: without timeouts a call hangs as long as the service is silent.
HangOn(c) ==
    /\ c \in doomed
    /\ healthy
    /\ Return(c, FALSE)

\* Refused connection, error 500, or the timeouts of 1 s and 2 s: the call fails and
\* statusFallback answers UNKNOWN. A call the service has left hanging ends so too
\* after the service is back.
Fail(c) ==
    /\ c \in doomed
    /\ Return(c, FALSE)

\* Environment.
Wait ==
    /\ breaker = "OPEN" /\ ~waited
    /\ waited' = TRUE
    /\ UNCHANGED <<breaker, outcomes, permits, calling, doomed, healthy, outage>>

GoDown ==
    /\ healthy' = FALSE
    /\ outage' = TRUE
    /\ doomed' = calling
    /\ UNCHANGED <<breaker, outcomes, permits, waited, calling>>

ComeBack ==
    /\ healthy' = TRUE
    /\ UNCHANGED <<breaker, outcomes, permits, waited, calling, doomed, outage>>

BreakerStep == Wait \/ GoDown \/ ComeBack

-----------------------------------------------------------------------------
\* The circuit opens for failures of payment-service only: no number of
\* reservations that have no payment yet, and no mixture of late answers, opens it.
OpensForOutagesOnly == ~outage => breaker = "CLOSED"

\* Half-open, and no permission left: some call is still on its way, whose outcome the
\* breaker will count. A permission without a call would leave the circuit half open
\* for ever, for nothing but an outcome ends that state.
HalfOpenHasCalls == breaker = "HALF_OPEN" /\ permits = 0 => calling # {}

\* When payment-service answers again for good, and clients go on asking, the
\* circuit closes for good: every call gives its permission back in time.
ClosesAgain == <>[]healthy => <>[](breaker = "CLOSED")
=============================================================================
