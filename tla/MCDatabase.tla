----------------------------- MODULE MCDatabase -----------------------------
(* Database with two versions of the objects, a coin, a query, two losses  *)
(* of the connection and two tries of a save.                              *)
EXTENDS Database
=============================================================================
