--------------------------- MODULE MCWaitingList ----------------------------
(* WaitingList with one place and three players, one of them premium. *)
EXTENDS WaitingList
=============================================================================
