----------------------------- MODULE MCTaskPool -----------------------------
(***************************************************************************)
(* TaskPool with a target of one: two workers can block at once while a    *)
(* third runs, and three that all see two too many race to retire.  The    *)
(* caller stands for an import that is no worker of the pool.              *)
(***************************************************************************)
EXTENDS TaskPool
=============================================================================
