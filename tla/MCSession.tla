----------------------------- MODULE MCSession ------------------------------
(* Session with two connections that can make two Players. *)
EXTENDS Session
=============================================================================
