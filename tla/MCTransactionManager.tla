------------------------ MODULE MCTransactionManager ------------------------
(***************************************************************************)
(* TransactionManager on a small instance: three ids (two transactions to  *)
(* wait for and an exclusive one), timeouts of zero and one tick, and two  *)
(* goroutine names so that a second deadline checker could be started.     *)
(***************************************************************************)
EXTENDS TransactionManager

\* Every deadline comes before the clock stops.
ASSUME DeadlinesCome == \A t \in Timeout : LastCall + t <= MaxTime
=============================================================================
