------------------------------ MODULE MCParty -------------------------------
(* Party with four players: a leader, two members who can inherit from each
   other, and one more who can be invited or lead another party.  A party has
   a leader and an invited or joined player of no other party, so that three
   parties are as many as four players can have. *)
EXTENDS Party
=============================================================================
