--------------------------- MODULE MCCoopScheduler ---------------------------
(* CoopScheduler for TLC: every history of a few tasks over two queues. *)
EXTENDS CoopScheduler

CONSTANTS t1, t2, t3, t4, q1, q2

MCTask == {t1, t2, t3, t4}
MCWaitQueue == {q1, q2}
=============================================================================
