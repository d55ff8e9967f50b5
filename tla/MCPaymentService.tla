--------------------------- MODULE MCPaymentService -------------------------
(* Values for PaymentService.                                              *)
EXTENDS PaymentService, TLC

CONSTANTS r1, c1, c2, p1, p2, due, less, raw

MCPostForOne == [p \in {p1} |-> r1]
MCPostForTwo == [p \in {p1, p2} |-> r1]
\* 49.90 and 10.01 are stored as they are, 10.005 as 10.01.
MCStored == [a \in {due, less, raw} |-> IF a = raw THEN less ELSE a]
MCStoredExactly == [a \in {due, less} |-> a]
MCDeadline == [r \in {r1} |-> 1]

SymmetricInstances == Permutations({c1, c2}) \cup Permutations({p1, p2})
=============================================================================
