------------------------------- MODULE MCSched -------------------------------
(* The scheduler on a pool of four slots, five task_create calls. *)
EXTENDS Sched
=============================================================================
