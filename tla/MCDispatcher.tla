---------------------------- MODULE MCDispatcher ----------------------------
(* Dispatcher with two posted tasks, a timed one and two callers. *)
EXTENDS Dispatcher
=============================================================================
