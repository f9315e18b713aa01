---------------------------- MODULE MCWorkerPool ----------------------------
(***************************************************************************)
(* A small instance of WorkerPool for TLC.                                 *)
(***************************************************************************)
EXTENDS WorkerPool, TLC

CONSTANTS t1, t2, t3, t4

(***************************************************************************)
(* Task t1 submits t2 while it is executed; the others come from outside.  *)
(***************************************************************************)
OneNested == [t \in Tasks |-> IF t = t2 THEN t1 ELSE External]
=============================================================================
