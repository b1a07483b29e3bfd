----------------------------- MODULE MCRunQueue -----------------------------
(* Three tasks woken by two concurrent producers: enough for a lost         *)
(* exchange, for head to return to an old value between a load and its      *)
(* exchange (ABA), and for a task to be relinked while its batch runs.      *)
EXTENDS RunQueue, TLC

CONSTANTS t1, t2, t3, p1, p2

MCTasks == {t1, t2, t3}
MCProducers == {p1, p2}
=============================================================================
