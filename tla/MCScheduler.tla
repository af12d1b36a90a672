---------------------------- MODULE MCScheduler ----------------------------
(***************************************************************************)
(* Instances of Scheduler.                                                 *)
(***************************************************************************)
EXTENDS Scheduler
=============================================================================
