---------------------------- MODULE MCScheduler -----------------------------
(* Scheduler with two events, two callers and three ticks (Scheduler.cfg).
   Events and callers are model values; no symmetry, since the run checks
   liveness as well. *)
EXTENDS Scheduler
=============================================================================
