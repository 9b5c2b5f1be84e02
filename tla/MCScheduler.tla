---- MODULE MCScheduler ----
(***************************************************************************)
(* The scheduler with as many processes as its queue admits: Idle and      *)
(* three others in a ring of five slots.                                   *)
(***************************************************************************)
EXTENDS Scheduler
====
