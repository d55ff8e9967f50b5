------------------------ MODULE MCNotificationWorker ------------------------
(* One partition with a record of each kind, two members of the group. *)
EXTENDS NotificationWorker

CONSTANTS p1, w1, w2

MCSize == [p \in Partitions |-> 3]
MCVerdict == [p \in Partitions |-> <<"mail", "refuse", "ignore">>]
=============================================================================
