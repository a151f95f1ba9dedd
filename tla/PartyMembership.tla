-------------------------- MODULE PartyMembership ---------------------------
(***************************************************************************)
(* What parties promise: a player is in one party at most, a party without *)
(* other members and without invitations does not stay, joining takes an   *)
(* invitation that still stands, only a leader invites, withdraws or hands *)
(* over, and a party whose leader goes is led by one of its members.       *)
(***************************************************************************)
CONSTANT Players

VARIABLE parties    \* a set of parties, each with leader, members and invitees

Group(l, ms, is) == [leader |-> l, members |-> ms, invitees |-> is]
All(b) == b.members \cup {b.leader}
Grouped == UNION {All(b) : b \in parties}

\* A party that comes down to its leader is disbanded.
Kept(bs) == {b \in bs : b.members \cup b.invitees # {}}

\* What party b can be once p has left it.
Without(b, p) ==
  IF p = b.leader
  THEN {Group(m, b.members \ {m}, b.invitees) : m \in b.members}
  ELSE {Group(b.leader, b.members \ {p}, b.invitees)}

Init == parties = {}

Invite(p, q) ==
  /\ q \notin Grouped /\ p # q
  /\ \/ \E b \in parties :
          /\ b.leader = p
          /\ parties' = (parties \ {b}) \cup {Group(p, b.members, b.invitees \cup {q})}
     \/ p \notin Grouped /\ parties' = parties \cup {Group(p, {}, {q})}

Join(q) ==
  /\ q \notin Grouped
  /\ \E b \in parties :
       /\ q \in b.invitees
       /\ parties' = (parties \ {b})
                       \cup {Group(b.leader, b.members \cup {q}, b.invitees \ {q})}

Withdraw(q) ==
  \E b \in parties :
    /\ q \in b.invitees
    /\ parties' = Kept((parties \ {b}) \cup {Group(b.leader, b.members, b.invitees \ {q})})

HandOver(p, q) ==
  \E b \in parties :
    /\ b.leader = p /\ q \in b.members
    /\ parties' = (parties \ {b}) \cup {Group(q, (b.members \ {q}) \cup {p}, b.invitees)}

\* The parties that bs can become when p leaves.
Left(bs, p) ==
  UNION {{Kept((bs \ {b}) \cup {c}) : c \in Without(b, p)}
           \cup (IF b.members = {} THEN {bs \ {b}} ELSE {}) : b \in {b \in bs : p \in All(b)}}

Leave(p) == parties' \in Left(parties, p)

\* Out of the game: no invitation and no membership stays.
Depart(p) ==
  LET uninvited == Kept({Group(b.leader, b.members, b.invitees \ {p}) : b \in parties})
  IN IF p \in UNION {All(b) : b \in uninvited}
     THEN parties' \in Left(uninvited, p)
     ELSE parties' = uninvited

Next ==
  \/ \E p, q \in Players : Invite(p, q) \/ HandOver(p, q)
  \/ \E p \in Players : Join(p) \/ Withdraw(p) \/ Leave(p) \/ Depart(p)

Spec == Init /\ [][Next]_parties
=============================================================================
