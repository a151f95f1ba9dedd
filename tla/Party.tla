------------------------------- MODULE Party --------------------------------
(***************************************************************************)
(* Parties (party.cpp), the requests of players (Game::playerInviteToParty *)
(* and the ones after it) and the player who leaves the game               *)
(* (Player::onRemoveCreature).                                             *)
(*                                                                         *)
(* A party and its players point to each other: leader, memberList and     *)
(* inviteList on one side, party and invitePartyList on the other.  w is   *)
(* all of them; a method of Party is an operator from w to w, a request is *)
(* one action.  Shared experience, channels and icons are left out, and    *)
(* the scripts' event callbacks allow everything, as in data/events.       *)
(***************************************************************************)
EXTENDS Naturals, SequencesExt, PlayersOnline

CONSTANT Parties    \* the objects: a deleted party's place can be used again

ASSUME PartyAssumption == None \notin Players \cup Parties

VARIABLE w          \* parties and players

partyVars == <<online, w>>

\* inviteList and invitePartyList hold nothing twice and are never read in order: sets.
World ==
  [leader : [Parties -> Players \cup {None}],
   memberList : [Parties -> Seq(Players)],
   inviteList : [Parties -> SUBSET Players],
   party : [Players -> Parties \cup {None}],
   invitePartyList : [Players -> SUBSET Parties]]

PartyTypeOK == online \subseteq Players /\ w \in World

Alive(v) == {b \in Parties : v.leader[b] # None}
Members(v, b) == ToSet(v.memberList[b])
All(v, b) == Members(v, b) \cup {v.leader[b]}

-----------------------------------------------------------------------------
(* Methods of Party                                                        *)

Empty(v, b) == v.memberList[b] = <<>> /\ v.inviteList[b] = {}

Without(f, gone, blank) == [b \in Parties |-> IF b \in gone THEN blank ELSE f[b]]

\* Variant: those invited are not told.
DisbandQuietly(v, gone) ==
  [leader |-> Without(v.leader, gone, None),
   memberList |-> Without(v.memberList, gone, <<>>),
   inviteList |-> Without(v.inviteList, gone, {}),
   party |-> [p \in Players |-> IF \E b \in gone : p \in All(v, b) THEN None ELSE v.party[p]],
   invitePartyList |-> v.invitePartyList]

\* disband, of every party in gone: all are let go and the object is deleted.
Disband(v, gone) ==
  [leader |-> Without(v.leader, gone, None),
   memberList |-> Without(v.memberList, gone, <<>>),
   inviteList |-> Without(v.inviteList, gone, {}),
   party |-> [p \in Players |-> IF \E b \in gone : p \in All(v, b) THEN None ELSE v.party[p]],
   invitePartyList |-> [p \in Players |->
                          v.invitePartyList[p] \ {b \in gone : p \in v.inviteList[b]}]]

\* passPartyLeadership: the old leader goes to the front of the members.
PassPartyLeadership(v, b, p) ==
  IF v.leader[b] = p \/ v.party[p] # b THEN v
  ELSE [leader |-> [v.leader EXCEPT ![b] = p],
        memberList |-> [v.memberList EXCEPT ![b] = <<v.leader[b]>> \o RemoveFirst(@, p)],
        inviteList |-> v.inviteList,
        party |-> v.party,
        invitePartyList |-> v.invitePartyList]

\* leaveParty: nobody could lead the party on, or only one would be left in it.
MissingLeader(v, b, p) ==
  v.leader[b] = p /\ Len(v.memberList[b]) <= 1 /\ (v.memberList[b] # <<>> => v.inviteList[b] = {})

\* leaveParty: a leader passes the leadership on, and leaves as a member.
Passed(v, b, p) ==
  IF v.leader[b] = p /\ ~MissingLeader(v, b, p)
  THEN PassPartyLeadership(v, b, Head(v.memberList[b])) ELSE v

Removed(v, b, p) ==
  [leader |-> v.leader,
   memberList |-> [v.memberList EXCEPT ![b] = RemoveFirst(@, p)],
   inviteList |-> v.inviteList,
   party |-> [v.party EXCEPT ![p] = None],
   invitePartyList |-> v.invitePartyList]

\* Variant: a party is disbanded only when its leader is missing.
LeavePartyKeepsLast(v, b, p) ==
  LET left == Removed(Passed(v, b, p), b, p)
  IN IF MissingLeader(v, b, p) THEN Disband(left, {b}) ELSE left

LeaveParty(v, b, p) ==
  LET left == Removed(Passed(v, b, p), b, p)
  IN IF MissingLeader(v, b, p) \/ Empty(left, b) THEN Disband(left, {b}) ELSE left

\* removeInvite, before it looks at whether the party is empty
Uninvited(v, bs, p, removeFromPlayer) ==
  [leader |-> v.leader,
   memberList |-> v.memberList,
   inviteList |-> [b \in Parties |-> IF b \in bs THEN v.inviteList[b] \ {p} ELSE v.inviteList[b]],
   party |-> v.party,
   invitePartyList |-> IF removeFromPlayer THEN [v.invitePartyList EXCEPT ![p] = @ \ bs]
                       ELSE v.invitePartyList]

\* removeInvite, of every party in bs: the last invitation of a leader without members ends
\* the party.
RemoveInvite(v, bs, p, removeFromPlayer) ==
  LET inviting == {b \in bs : p \in v.inviteList[b]}
      removed == Uninvited(v, inviting, p, removeFromPlayer)
  IN Disband(removed, {b \in inviting : Empty(removed, b)})

\* joinParty
JoinParty(v, b, p) ==
  [leader |-> v.leader,
   memberList |-> [v.memberList EXCEPT ![b] = Append(@, p)],
   inviteList |-> [v.inviteList EXCEPT ![b] = @ \ {p}],
   party |-> [v.party EXCEPT ![p] = b],
   invitePartyList |-> [v.invitePartyList EXCEPT ![p] = @ \ {b}]]

\* invitePlayer
InvitePlayer(v, b, p) ==
  [leader |-> v.leader,
   memberList |-> v.memberList,
   inviteList |-> [v.inviteList EXCEPT ![b] = @ \cup {p}],
   party |-> v.party,
   invitePartyList |-> [v.invitePartyList EXCEPT ![p] = @ \cup {b}]]

\* Party::Party
Found(v, b, p) ==
  [leader |-> [v.leader EXCEPT ![b] = p],
   memberList |-> v.memberList,
   inviteList |-> v.inviteList,
   party |-> [v.party EXCEPT ![p] = b],
   invitePartyList |-> v.invitePartyList]

\* Player::clearPartyInvitations: the steps of its loop touch different parties and players.
ClearPartyInvitations(v, p) ==
  LET cleared == RemoveInvite(v, v.invitePartyList[p], p, FALSE)
  IN [leader |-> cleared.leader,
      memberList |-> cleared.memberList,
      inviteList |-> cleared.inviteList,
      party |-> cleared.party,
      invitePartyList |-> [cleared.invitePartyList EXCEPT ![p] = {}]]

-----------------------------------------------------------------------------
(* Requests of players                                                     *)

PartyInit ==
  /\ online = {}
  /\ w = [leader |-> [b \in Parties |-> None],
          memberList |-> [b \in Parties |-> <<>>],
          inviteList |-> [b \in Parties |-> {}],
          party |-> [p \in Players |-> None],
          invitePartyList |-> [p \in Players |-> {}]]

Leads(p, b) == w.party[p] = b /\ b # None /\ w.leader[b] = p

\* Player::isInviting
IsInviting(p, q) == \E b \in Parties : Leads(p, b) /\ q \in w.inviteList[b]

MayInvite(p, q) ==
  p # q /\ {p, q} \subseteq online /\ ~IsInviting(q, p) /\ w.party[q] = None

\* playerInviteToParty: by a leader, or by a player who founds a party.
Invite(p, q) ==
  /\ MayInvite(p, q)
  /\ \/ \E b \in Parties : Leads(p, b) /\ w' = InvitePlayer(w, b, q)
     \/ /\ w.party[p] = None
        /\ \E b \in Parties \ Alive(w) : w' = InvitePlayer(Found(w, b, p), b, q)
  /\ UNCHANGED online

MayJoin(p) == p \in online /\ w.party[p] = None

\* playerJoinParty
Join(p, l) ==
  /\ MayJoin(p) /\ l \in online
  /\ \E b \in Parties : Leads(l, b) /\ p \in w.inviteList[b] /\ w' = JoinParty(w, b, p)
  /\ UNCHANGED online

\* playerRevokePartyInvitation
Revoke(p, q) ==
  /\ {p, q} \subseteq online
  /\ \E b \in Parties :
       /\ Leads(p, b) /\ q \in w.inviteList[b]
       /\ w' = RemoveInvite(w, {b}, q, TRUE)
  /\ UNCHANGED online

\* playerPassPartyLeadership
PassLeadership(p, q) ==
  /\ p # q /\ {p, q} \subseteq online
  /\ \E b \in Parties :
       Leads(p, b) /\ w.party[q] = b /\ w' = PassPartyLeadership(w, b, q)
  /\ UNCHANGED online

\* playerLeaveParty, when the player is not in a fight.
LeaveRequest(p) ==
  /\ p \in online
  /\ w.party[p] # None
  /\ w' = LeaveParty(w, w.party[p], p)
  /\ UNCHANGED online

\* Player::onRemoveCreature: invitations first, then membership.
Logout(p) ==
  /\ p \in online
  /\ LET cleared == ClearPartyInvitations(w, p)
     IN w' = IF cleared.party[p] = None THEN cleared
             ELSE LeaveParty(cleared, cleared.party[p], p)
  /\ online' = online \ {p}

Login(p) ==
  /\ p \notin online
  /\ online' = online \cup {p}
  /\ UNCHANGED w

PartyNext ==
  \/ \E p, q \in Players :
       Invite(p, q) \/ Join(p, q) \/ Revoke(p, q) \/ PassLeadership(p, q)
  \/ \E p \in Players : LeaveRequest(p) \/ Logout(p) \/ Login(p)

PartySpec == PartyInit /\ [][PartyNext]_partyVars

-----------------------------------------------------------------------------
(* Properties                                                              *)

\* The parties and players of v point to each other, and there are those in the game.
Agreement(v, there) ==
  /\ \A p \in Players, b \in Parties :
       /\ v.party[p] = b <=> b \in Alive(v) /\ p \in All(v, b)
       /\ b \in v.invitePartyList[p] <=> p \in v.inviteList[b]
       /\ p \in v.inviteList[b] => b \in Alive(v) /\ p \in there /\ v.party[p] # b
  /\ \A b \in Alive(v) :
       /\ IsInjective(v.memberList[b])
       /\ v.leader[b] \notin Members(v, b)
       /\ All(v, b) \subseteq there

\* Both sides agree on who belongs together and who is invited, whatever was passed on,
\* left, revoked or logged out in between: nobody points to a deleted party or is pointed
\* to after leaving the game, and a leader is not among the members.
PointersMatch == Agreement(w, online)

Party(v, b) == [leader |-> v.leader[b], members |-> Members(v, b), invitees |-> v.inviteList[b]]

Formed(v) == {Party(v, b) : b \in Alive(v)}

Membership == INSTANCE PartyMembership WITH parties <- Formed(w)

\* The lists and pointers implement the promise of parties.
ImplementsPartyMembership == Membership!Spec

-----------------------------------------------------------------------------
(* The inductive invariant (SocialProofs): the pointers match, a deleted    *)
(* party is blank, and no party is kept for its leader alone.              *)

Blank(v) == \A b \in Parties \ Alive(v) : v.memberList[b] = <<>>
Kept(v) == \A b \in Alive(v) : ~Empty(v, b)

PartyIInv == PartyTypeOK /\ PointersMatch /\ Blank(w) /\ Kept(w)
=============================================================================
