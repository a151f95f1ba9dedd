-------------------------- MODULE MCDatabaseTasks ---------------------------
(* DatabaseTasks with four queries, two of them with a callback. *)
EXTENDS DatabaseTasks
=============================================================================
