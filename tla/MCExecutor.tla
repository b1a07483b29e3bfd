----------------------------- MODULE MCExecutor -----------------------------
(* Instances of the executor model for TLC.                                *)
EXTENDS Executor, TLC
=============================================================================
