---------------------------- MODULE SocialProofs ----------------------------
(***************************************************************************)
(* Proofs about what players do with each other: Trade and Party, two      *)
(* specifications that share who is in the game.                           *)
(*                                                                         *)
(* Trade, for any number of players, items, bags and squares: IInv is      *)
(* inductive, so that trades stand on what is at hand, an offer is final,  *)
(* and items change hands only by agreement.  The heart of it is           *)
(* OwnerNotified: whoever offers an item is among those called back when   *)
(* it, the bag it lies in, or what lies in it, moves.                      *)
(*                                                                         *)
(* Party, for any players and parties: PartyIInv is inductive, so that the *)
(* pointers of parties and players match, and every request is a step of   *)
(* PartyMembership.  The heart of it is LeaveFacts, the cases of leaving.  *)
(* Neither half uses what the other assumes of its constants.              *)
(***************************************************************************)
EXTENDS Trade, Party, FiniteSetTheorems, SequenceTheorems, TLAPS

-----------------------------------------------------------------------------
(* Where things are                                                        *)

LEMMA DistanceFacts ==
  ASSUME NEW a \in Squares, NEW b \in Squares
  PROVE  Distance(a, b) \in Nat /\ Distance(a, b) = Distance(b, a) /\ Distance(a, a) = 0
BY TradeAssumption DEF Distance, Squares

\* What an item can be in, and where that is.
LEMMA Places ==
  ASSUME TypeOK, BagsHoldNoBags, NEW i \in Items
  PROVE  /\ place[i] \in Players \cup Bags \cup Squares \cup {None}
         /\ place[i] # i
         /\ Top(i) \in Players \cup Squares \cup {None}
         /\ place[i] \in Bags => Top(i) = place[place[i]] /\ Top(place[i]) = Top(i)
         /\ place[i] \notin Bags => Top(i) = place[i]
<1> USE TradeAssumption DEF Squares
<1>1. place[i] \in Players \cup Bags \cup Squares \cup {None}
  BY DEF TypeOK
<1>2. place[i] # i
  BY <1>1 DEF BagsHoldNoBags
<1>3. CASE place[i] \in Bags
  <2>1. place[i] \in Items /\ place[place[i]] \notin Bags
    BY <1>3 DEF BagsHoldNoBags
  <2>2. place[place[i]] \in Players \cup Squares \cup {None}
    BY <2>1 DEF TypeOK
  <2> QED
    BY <1>1, <1>2, <1>3, <2>1, <2>2 DEF Top
<1>4. CASE place[i] \notin Bags
  BY <1>1, <1>2, <1>4 DEF Top
<1> QED
  BY <1>3, <1>4

\* An item in reach of p is carried by p or lies on a square next to p.
LEMMA Reached ==
  ASSUME TypeOK, BagsHoldNoBags, NEW p \in Players, NEW i \in Items
  PROVE  InReach(p, i) <=>
           \/ Top(i) = p /\ Top(i) \notin Squares
           \/ Top(i) \notin Players /\ Top(i) \in Squares /\ Distance(Top(i), x[p]) <= 1
BY TradeAssumption DEF InReach, Squares

\* Someone in the game is called back about a place that holds what is in reach: where
\* the item is, and, if it is a bag, what enters and leaves it.
LEMMA OwnerNotified ==
  ASSUME TypeOK, BagsHoldNoBags, NEW p \in online, NEW i \in Items, InReach(p, i)
  PROVE  p \in Notified(place[i]) /\ (i \in Bags => p \in Notified(i))
<1> USE TradeAssumption DEF Squares
<1>1. p \in Players /\ x[p] \in Squares
  BY DEF TypeOK
<1>2. \/ Top(i) = p /\ Top(i) \notin Squares
      \/ Top(i) \notin Players /\ Top(i) \in Squares /\ Distance(Top(i), x[p]) <= 1
  BY <1>1, Reached
<1>3. Distance(x[p], Position(i)) <= 2
  <2>1. CASE Top(i) = p
    BY <1>1, <2>1, DistanceFacts DEF Position, PositionAt
  <2>2. CASE Top(i) # p
    <3>1. Position(i) = Top(i) /\ Top(i) \in Squares /\ Distance(Top(i), x[p]) <= 1
      BY <1>2, <2>2 DEF Position, PositionAt
    <3>2. Distance(x[p], Top(i)) = Distance(Top(i), x[p]) /\ Distance(Top(i), x[p]) \in Nat
      BY <1>1, <3>1, DistanceFacts
    <3> QED
      BY <3>1, <3>2
  <2> QED
    BY <2>1, <2>2
<1>4. ASSUME i \in Bags
      PROVE  p \in Notified(i)
  BY <1>3, <1>4 DEF Notified
<1>5. p \in Notified(place[i])
  <2>1. CASE place[i] \in Bags
    <3>1. Position(place[i]) = Position(i)
      BY <2>1, Places DEF Position, PositionAt
    <3> QED
      BY <1>3, <2>1, <3>1 DEF Notified
  <2>2. CASE place[i] \notin Bags
    <3>1. place[i] = Top(i)
      BY <2>2, Places
    <3> QED
      BY <1>2, <2>2, <3>1 DEF Notified
  <2> QED
    BY <2>1, <2>2
<1> QED
  BY <1>4, <1>5

-----------------------------------------------------------------------------
(* The trades                                                              *)

LEMMA Traders ==
  ASSUME IInv, NEW p \in Players, trade[p] # NoTrade
  PROVE  /\ trade[p].partner \in Players /\ trade[p].state # "NONE"
         /\ trade[trade[p].partner] # NoTrade
         /\ trade[trade[p].partner].partner = p
         /\ p \in online /\ trade[p].partner \in online
         /\ Distance(x[p], x[trade[p].partner]) <= 2
<1> USE TradeAssumption
<1>1. trade[p].partner \in Players /\ trade[p].state # "NONE"
  BY DEF IInv, TypeOK, StateTells
<1>2. /\ trade[trade[p].partner].partner = p
      /\ p \in online /\ trade[p].partner \in online
      /\ Distance(x[p], x[trade[p].partner]) <= 2
  BY DEF IInv, TradesStand
<1>3. trade[trade[p].partner] # NoTrade
  BY <1>2 DEF NoTrade
<1> QED
  BY <1>1, <1>2, <1>3

\* What somebody offers.
LEMMA Offers ==
  ASSUME IInv, NEW p \in Players, trade[p].item # None
  PROVE  /\ trade[p].item \in Items /\ trade[p].item \in tradeItems
         /\ trade[p] # NoTrade
         /\ InReach(p, trade[p].item)
BY DEF IInv, TypeOK, TradesStand, NoTrade

LEMMA OneOwner ==
  ASSUME IInv, NEW p \in Players, NEW q \in Players,
         trade[p].item # None, trade[q].item = trade[p].item
  PROVE  p = q
<1> DEFINE i == trade[p].item
           Owners == {r \in Players : trade[r].item = i}
<1>1. i \in tradeItems
  BY Offers
<1>2. Cardinality(Owners) = 1
  BY <1>1 DEF IInv, TradesStand
<1>3. IsFiniteSet(Owners)
  BY TradeAssumption, FS_Subset
<1>4. \E r : Owners = {r}
  BY <1>2, <1>3, FS_Singleton
<1>5. p \in Owners /\ q \in Owners
  OBVIOUS
<1> QED
  BY <1>4, <1>5

\* internalCloseTrade leaves trades as they were or none, on both sides.
LEMMA Closing ==
  ASSUME IInv, NEW ps \in SUBSET Players, EndTrades(ps)
  PROVE  /\ trade' \in [Players -> [state : {"NONE", "INITIATED", "ACKNOWLEDGE", "ACCEPT"},
                                    partner : Players \cup {None}, item : Items \cup {None}]]
         /\ tradeItems' \subseteq tradeItems
         /\ \A p \in Players :
              /\ trade'[p] \in {trade[p], NoTrade}
              /\ p \in ps => trade'[p] = NoTrade
              /\ trade'[p] # NoTrade => trade'[trade[p].partner] = trade[trade[p].partner]
              /\ trade'[p].item # None => trade'[p].item \in tradeItems'
              /\ trade[p].item # None /\ trade'[p] = NoTrade => trade[p].item \notin tradeItems'
         /\ \A i \in tradeItems' : Cardinality({p \in Players : trade'[p].item = i}) = 1
<1> USE TradeAssumption
<1> DEFINE ended == ps \cup ({trade[p].partner : p \in ps} \ {None})
<1>1. /\ trade' = [p \in Players |-> IF p \in ended THEN NoTrade ELSE trade[p]]
      /\ tradeItems' = tradeItems \ {trade[p].item : p \in ended}
  BY DEF EndTrades
<1>2. ended \subseteq Players
  BY DEF IInv, TypeOK
<1>3. trade \in [Players -> [state : {"NONE", "INITIATED", "ACKNOWLEDGE", "ACCEPT"},
                             partner : Players \cup {None}, item : Items \cup {None}]]
  BY DEF IInv, TypeOK
<1>4. ASSUME NEW p \in Players, trade[p] # NoTrade, p \notin ended
      PROVE  trade[p].partner \notin ended
  <2>1. trade[p].partner \in Players /\ trade[trade[p].partner].partner = p
    BY <1>4, Traders
  <2>2. trade[p].partner \notin ps
    BY <1>4, <2>1
  <2>3. ASSUME NEW r \in ps, trade[p].partner = trade[r].partner
        PROVE  FALSE
    <3>1. trade[r] # NoTrade
      BY <2>1, <2>3 DEF NoTrade
    <3>2. trade[trade[r].partner].partner = r
      BY <3>1, Traders
    <3> QED
      BY <1>4, <2>1, <2>3, <3>2
  <2> QED
    BY <2>2, <2>3
<1> HIDE DEF ended
<1>5. trade' \in [Players -> [state : {"NONE", "INITIATED", "ACKNOWLEDGE", "ACCEPT"},
                              partner : Players \cup {None}, item : Items \cup {None}]]
  <2>1. NoTrade \in [state : {"NONE", "INITIATED", "ACKNOWLEDGE", "ACCEPT"},
                     partner : Players \cup {None}, item : Items \cup {None}]
    BY DEF NoTrade
  <2> QED
    BY <1>1, <1>3, <2>1
<1>6. ASSUME NEW p \in Players
      PROVE  /\ trade'[p] = IF p \in ended THEN NoTrade ELSE trade[p]
             /\ p \in ps => trade'[p] = NoTrade
             /\ trade'[p].item # None => p \notin ended
  BY <1>1 DEF NoTrade, ended
<1>7. ASSUME NEW p \in Players, trade'[p] # NoTrade
      PROVE  trade'[trade[p].partner] = trade[trade[p].partner]
  <2>1. p \notin ended /\ trade[p] # NoTrade
    BY <1>6, <1>7
  <2>2. trade[p].partner \in Players /\ trade[p].partner \notin ended
    BY <1>4, <2>1, Traders
  <2> QED
    BY <1>6, <2>2
<1>8. ASSUME NEW p \in Players, trade'[p].item # None
      PROVE  trade'[p].item \in tradeItems'
  <2>1. p \notin ended /\ trade'[p] = trade[p]
    BY <1>6, <1>8
  <2>2. trade[p].item \in tradeItems
    BY <1>8, <2>1, Offers
  <2>3. ASSUME NEW r \in ended, trade[r].item = trade[p].item
        PROVE  FALSE
    BY <1>2, <1>8, <2>1, <2>3, OneOwner
  <2> QED
    BY <1>1, <2>1, <2>2, <2>3
<1>9. ASSUME NEW p \in Players, trade[p].item # None, trade'[p] = NoTrade
      PROVE  trade[p].item \notin tradeItems'
  <2>1. trade[p] # NoTrade
    BY <1>9 DEF NoTrade
  <2>2. p \in ended
    BY <1>6, <1>9, <2>1
  <2> QED
    BY <1>1, <2>2
<1>10. ASSUME NEW i \in tradeItems'
       PROVE  Cardinality({p \in Players : trade'[p].item = i}) = 1
  <2>1. i \in tradeItems /\ \A r \in ended : trade[r].item # i
    BY <1>1
  <2>2. i # None
    BY <2>1 DEF IInv, TypeOK
  <2>3. \A p \in Players : trade'[p].item = i <=> trade[p].item = i
    BY <1>6, <2>1, <2>2 DEF NoTrade
  <2>4. {p \in Players : trade'[p].item = i} = {p \in Players : trade[p].item = i}
    BY <2>3
  <2> QED
    BY <2>1, <2>4 DEF IInv, TradesStand
<1> QED
  BY <1>1, <1>5, <1>6, <1>7, <1>8, <1>9, <1>10

\* A step that closes trades, and after which those that go on still stand.
LEMMA ClosingStep ==
  ASSUME IInv, NEW ps \in SUBSET Players, EndTrades(ps),
         online' \subseteq Players, x' \in [Players -> Squares],
         place' \in [Items -> Players \cup Bags \cup Squares \cup {None}],
         BagsHoldNoBags',
         \A p \in Players : trade'[p] # NoTrade =>
           p \in online' /\ Distance(x'[p], x'[trade[p].partner]) <= 2,
         \A p \in Players, i \in Items : trade'[p].item = i => InReach(p, i)',
         \A i, j \in tradeItems' : place'[i] # j
  PROVE  IInv'
<1> USE TradeAssumption
<1>1. /\ trade' \in [Players -> [state : {"NONE", "INITIATED", "ACKNOWLEDGE", "ACCEPT"},
                                 partner : Players \cup {None}, item : Items \cup {None}]]
      /\ tradeItems' \subseteq tradeItems
      /\ \A p \in Players :
           /\ trade'[p] \in {trade[p], NoTrade}
           /\ trade'[p] # NoTrade => trade'[trade[p].partner] = trade[trade[p].partner]
           /\ trade'[p].item # None => trade'[p].item \in tradeItems'
      /\ \A i \in tradeItems' : Cardinality({p \in Players : trade'[p].item = i}) = 1
  BY Closing
<1>2. TypeOK'
  BY <1>1 DEF IInv, TypeOK
<1>3. StateTells'
  BY <1>1 DEF IInv, StateTells, NoTrade
<1>4. TradesStand'
  <2>1. ASSUME NEW p \in Players, trade'[p] # NoTrade
        PROVE  LET q == trade'[p].partner
               IN  /\ p \in online' /\ q \in online'
                   /\ trade'[q].partner = p
                   /\ Distance(x'[p], x'[q]) <= 2
    <3> DEFINE q == trade[p].partner
    <3>1. trade'[p] = trade[p] /\ trade[p] # NoTrade /\ trade'[q] = trade[q]
      BY <1>1, <2>1
    <3>2. q \in Players /\ trade[q] # NoTrade /\ trade[q].partner = p
      BY <3>1, Traders
    <3>3. p \in online' /\ q \in online' /\ Distance(x'[p], x'[q]) <= 2
      BY <2>1, <3>1, <3>2
    <3> QED
      BY <3>1, <3>2, <3>3
  <2>2. ASSUME NEW p \in Players, trade'[p].item # None
        PROVE  InReach(p, trade[p].item)' /\ trade'[p].item \in tradeItems'
    BY <1>1, <2>2 DEF InReach
  <2> QED
    BY <1>1, <2>1, <2>2 DEF TradesStand
<1> QED
  BY <1>2, <1>3, <1>4 DEF IInv
LEMMA HasOwner ==
  ASSUME IInv, NEW i \in tradeItems
  PROVE  \E p \in Players : trade[p].item = i
<1> DEFINE Owners == {p \in Players : trade[p].item = i}
<1>1. Cardinality(Owners) = 1
  BY DEF IInv, TradesStand
<1>2. Owners # {}
  BY <1>1, FS_EmptySet
<1> QED
  BY <1>2

\* Reach, as long as neither the item, nor its bag, nor the player moves.
LEMMA SameReach ==
  ASSUME NEW p, NEW i, place'[i] = place[i], x'[p] = x[p],
         place[i] \in Bags => place'[place[i]] = place[place[i]]
  PROVE  InReach(p, i)' <=> InReach(p, i)
BY DEF InReach, Top

\* A walk or nothing: no item is moved.
LEMMA PeopleStep ==
  ASSUME IInv, NEW ps \in SUBSET Players, EndTrades(ps), place' = place,
         online' \subseteq Players, x' \in [Players -> Squares],
         \A p \in Players : trade'[p] # NoTrade =>
           /\ p \in online'
           /\ Distance(x'[p], x'[trade[p].partner]) <= 2
           /\ trade[p].item # None /\ Top(trade[p].item) # p =>
                Distance(Top(trade[p].item), x'[p]) <= 1
  PROVE  IInv'
<1> USE TradeAssumption
<1>1. /\ tradeItems' \subseteq tradeItems
      /\ \A p \in Players : trade'[p] \in {trade[p], NoTrade}
  BY Closing
<1>2. ASSUME NEW p \in Players, NEW i \in Items, trade'[p].item = i
      PROVE  InReach(p, i)'
  <2>1. trade'[p] = trade[p] /\ trade'[p] # NoTrade /\ trade[p].item = i /\ i # None
    BY <1>1, <1>2 DEF NoTrade
  <2>2. InReach(p, i)
    BY <2>1, Offers
  <2> QED
    BY <2>1, <2>2 DEF InReach, Top
<1>3. /\ \A i, j \in tradeItems' : place'[i] # j
      /\ place' \in [Items -> Players \cup Bags \cup Squares \cup {None}]
      /\ BagsHoldNoBags'
  BY <1>1 DEF IInv, TypeOK, BagsHoldNoBags, TradesStand
<1> QED
  BY <1>2, <1>3, ClosingStep

LEMMA CloseStep ==
  ASSUME IInv, NEW p \in Players, AcceptFails(p) \/ CloseTrade(p)
  PROVE  IInv'
<1> USE TradeAssumption
<1>1. EndTrades({p}) /\ place' = place /\ x' = x /\ online' = online
  BY DEF AcceptFails, CloseTrade
<1>2. \A r \in Players : trade'[r] \in {trade[r], NoTrade}
  BY <1>1, Closing
<1>3. ASSUME NEW r \in Players, trade'[r] # NoTrade
      PROVE  /\ r \in online'
             /\ Distance(x'[r], x'[trade[r].partner]) <= 2
             /\ trade[r].item # None /\ Top(trade[r].item) # r =>
                  Distance(Top(trade[r].item), x'[r]) <= 1
  <2>1. trade[r] # NoTrade
    BY <1>2, <1>3
  <2> QED
    BY <1>1, <2>1, Traders, Offers DEF InReach
<1>4. online' \subseteq Players /\ x' \in [Players -> Squares]
  BY <1>1 DEF IInv, TypeOK
<1> QED
  BY <1>1, <1>3, <1>4, PeopleStep

LEMMA LeaveStep ==
  ASSUME IInv, NEW p \in Players, Leave(p)
  PROVE  IInv'
<1> USE TradeAssumption
<1> DEFINE ps == IF trade[p].partner # None THEN {p} ELSE {}
<1>1. EndTrades(ps) /\ ps \in SUBSET Players /\ place' = place /\ x' = x /\ online' = online \ {p}
  BY DEF Leave
<1>2. \A r \in Players : trade'[r] \in {trade[r], NoTrade} /\ (r \in ps => trade'[r] = NoTrade)
  BY <1>1, Closing
<1>3. ASSUME NEW r \in Players, trade'[r] # NoTrade
      PROVE  /\ r \in online'
             /\ Distance(x'[r], x'[trade[r].partner]) <= 2
             /\ trade[r].item # None /\ Top(trade[r].item) # r =>
                  Distance(Top(trade[r].item), x'[r]) <= 1
  <2>1. trade[r] # NoTrade
    BY <1>2, <1>3
  <2>2. r # p
    BY <1>2, <1>3, <2>1, Traders
  <2> QED
    BY <1>1, <2>1, <2>2, Traders, Offers DEF InReach
<1>4. online' \subseteq Players /\ x' \in [Players -> Squares]
  BY <1>1 DEF IInv, TypeOK
<1> QED
  BY <1>1, <1>3, <1>4, PeopleStep

LEMMA WalkStep ==
  ASSUME IInv, NEW p \in Players, NEW y \in Squares, Walk(p, y)
  PROVE  IInv'
<1> USE TradeAssumption
<1> DEFINE pos == [x EXCEPT ![p] = y]
           ps == IF Strayed(p, pos) THEN {p} ELSE {}
<1>1. EndTrades(ps) /\ ps \in SUBSET Players /\ place' = place /\ x' = pos /\ online' = online
  BY DEF Walk
<1>2. \A r \in Players : /\ trade'[r] \in {trade[r], NoTrade}
                         /\ r \in ps => trade'[r] = NoTrade
                         /\ trade'[r] # NoTrade => trade'[trade[r].partner] = trade[trade[r].partner]
  BY <1>1, Closing
<1>3. /\ x \in [Players -> Squares] /\ pos \in [Players -> Squares]
      /\ pos[p] = y /\ \A r \in Players \ {p} : pos[r] = x[r]
      /\ online \subseteq Players
  BY DEF IInv, TypeOK
<1>4. p \notin ps => ~Strayed(p, pos)
  OBVIOUS
<1> HIDE DEF pos, ps
<1>5. ASSUME NEW r \in Players, trade'[r] # NoTrade
      PROVE  /\ r \in online'
             /\ Distance(x'[r], x'[trade[r].partner]) <= 2
             /\ trade[r].item # None /\ Top(trade[r].item) # r =>
                  Distance(Top(trade[r].item), x'[r]) <= 1
  <2> DEFINE q == trade[r].partner
  <2>1. trade[r] # NoTrade /\ trade'[q] = trade[q]
    BY <1>2, <1>5
  <2>2. /\ q \in Players /\ trade[q] # NoTrade /\ trade[q].partner = r
        /\ r \in online
        /\ Distance(x[r], x[q]) <= 2
        /\ q # None
    BY <2>1, Traders
  <2>3. Distance(pos[r], pos[q]) = Distance(pos[q], pos[r])
    BY <1>3, <2>2, DistanceFacts
  <2> HIDE DEF q
  <2>4. Distance(pos[r], pos[q]) <= 2
    <3>1. CASE r = p
      <4>1. ~Strayed(p, pos)
        BY <1>2, <1>4, <1>5, <3>1
      <4>2. ~(Distance(pos[q], pos[r]) > 2)
        BY <2>2, <3>1, <4>1 DEF Strayed, q
      <4>3. Distance(pos[q], pos[r]) \in Nat
        BY <1>3, <2>2, DistanceFacts
      <4> QED
        BY <2>3, <4>2, <4>3
    <3>2. CASE q = p
      <4>1. ~Strayed(p, pos)
        BY <1>2, <1>4, <2>1, <2>2, <3>2
      <4>2. ~(Distance(pos[r], pos[q]) > 2)
        BY <2>2, <3>2, <4>1 DEF Strayed
      <4>3. Distance(pos[r], pos[q]) \in Nat
        BY <1>3, <2>2, DistanceFacts
      <4> QED
        BY <4>2, <4>3
    <3>3. CASE r # p /\ q # p
      BY <1>3, <2>2, <3>3
    <3> QED
      BY <3>1, <3>2, <3>3
  <2>5. ASSUME trade[r].item # None, Top(trade[r].item) # r
        PROVE  Distance(Top(trade[r].item), pos[r]) <= 1
    <3> DEFINE i == trade[r].item
    <3>1. /\ i \in Items /\ InReach(r, i)
      BY <2>5, Offers
    <3>2. Top(i) \notin Players /\ Top(i) \in Squares /\ Distance(Top(i), x[r]) <= 1
      BY <2>5, <3>1, Reached DEF IInv
    <3>3. CASE r = p
      <4>1. ~Strayed(p, pos)
        BY <1>2, <1>4, <1>5, <3>3
      <4>2. ~(Distance(PositionAt(pos, i), pos[r]) > 1)
        BY <2>5, <3>3, <4>1 DEF Strayed
      <4>3. PositionAt(pos, i) = Top(i)
        BY <3>2 DEF PositionAt
      <4>4. Distance(Top(i), pos[r]) \in Nat
        BY <1>3, <3>2, DistanceFacts
      <4> QED
        BY <4>2, <4>3, <4>4
    <3>4. CASE r # p
      BY <1>3, <3>2, <3>4
    <3> QED
      BY <3>3, <3>4
  <2> QED
    BY <1>1, <2>2, <2>4, <2>5 DEF q
<1> QED
  BY <1>1, <1>3, <1>5, PeopleStep
-----------------------------------------------------------------------------
(* Items that move                                                         *)

LEMMA DisturbedPlayers ==
  ASSUME TypeOK, NEW i, NEW dest
  PROVE  Disturbed(i, dest) \in SUBSET Players
<1>1. ASSUME NEW spot
      PROVE  Notified(spot) \subseteq Players
  BY DEF TypeOK, Notified
<1> QED
  BY <1>1 DEF Disturbed

\* An offer that is not disturbed does not move: not the item, not the bag it lies in,
\* and nothing enters or leaves it.
LEMMA Undisturbed ==
  ASSUME IInv, NEW i \in Items, NEW dest \in Players \cup Bags \cup Squares \cup {None},
         NEW p \in Players, trade[p].item # None, p \notin Disturbed(i, dest)
  PROVE  LET j == trade[p].item
         IN  j # i /\ place[i] # j /\ place[j] # i /\ dest # j
<1> USE TradeAssumption DEF Squares
<1> DEFINE j == trade[p].item
<1>1. TypeOK /\ BagsHoldNoBags
  BY DEF IInv
<1>2. j \in Items /\ InReach(p, j) /\ trade[p] # NoTrade
  BY Offers
<1>3. p \in online
  BY <1>2, Traders
<1>4. p \in Notified(place[j]) /\ (j \in Bags => p \in Notified(j))
  BY <1>1, <1>2, <1>3, OwnerNotified
<1>5. \A k \in Items : place[k] \in Players \cup Bags \cup Squares \cup {None}
  BY <1>1 DEF TypeOK
<1>6. ~(p \in Notified(place[i]) /\ (j \in {i, place[i]} \/ place[j] = i))
  BY DEF Disturbed
<1>7. ~(p \in Notified(dest) /\ dest \in Bags /\ j = dest)
  BY DEF Disturbed
<1> HIDE DEF j
<1>8. j # i
  BY <1>4, <1>6
<1>9. place[i] # j
  BY <1>2, <1>4, <1>5, <1>6
<1>10. place[j] # i
  <2> SUFFICES ASSUME place[j] = i
               PROVE  FALSE
    OBVIOUS
  <2>1. Top(i) = Top(j)
    BY <1>1, <1>2, <1>5, Places
  <2>2. InReach(p, i)
    BY <1>2, <2>1 DEF InReach
  <2> QED
    BY <1>1, <1>3, <1>6, <2>2, OwnerNotified
<1>11. dest # j
  BY <1>2, <1>4, <1>7
<1> QED
  BY <1>8, <1>9, <1>10, <1>11 DEF j

\* One item goes to dest.
Moved(i, dest) ==
  /\ dest \in Players \cup Bags \cup Squares \cup {None}
  /\ dest # i /\ (dest \in Bags => i \notin Bags)
  /\ place' = [place EXCEPT ![i] = dest]
  /\ EndTrades(Disturbed(i, dest))
  /\ UNCHANGED <<online, x>>

LEMMA MoveIsMoved ==
  ASSUME NEW p \in Players, NEW i \in Items, NEW dest \in {p} \cup Squares \cup Bags, MoveItem(p, i, dest)
  PROVE  Moved(i, dest)
BY DEF MoveItem, CanHold, Moved

LEMMA RemoveIsMoved ==
  ASSUME NEW i \in Items, RemoveItem(i)
  PROVE  Moved(i, None)
BY TradeAssumption DEF RemoveItem, Moved, Squares

\* Whose trade goes on, and what of it stays in place.
LEMMA GoesOn ==
  ASSUME IInv, NEW i \in Items, NEW dest, Moved(i, dest), NEW p \in Players, trade'[p] # NoTrade
  PROVE  /\ trade'[p] = trade[p] /\ trade[p] # NoTrade
         /\ trade[p].item # None =>
              LET j == trade[p].item
              IN  /\ j # i /\ place[i] # j /\ place[j] # i /\ dest # j
                  /\ place'[j] = place[j]
                  /\ place[j] \in Bags => place'[place[j]] = place[place[j]]
<1>1. Disturbed(i, dest) \in SUBSET Players
  BY DisturbedPlayers DEF IInv
<1>2. EndTrades(Disturbed(i, dest)) /\ dest \in Players \cup Bags \cup Squares \cup {None}
  BY DEF Moved
<1>3. trade'[p] \in {trade[p], NoTrade} /\ p \notin Disturbed(i, dest)
  BY <1>1, <1>2, Closing
<1> SUFFICES ASSUME trade[p].item # None
             PROVE  LET j == trade[p].item
                    IN  /\ j # i /\ place[i] # j /\ place[j] # i /\ dest # j
                        /\ place'[j] = place[j]
                        /\ place[j] \in Bags => place'[place[j]] = place[place[j]]
  BY <1>3
<1> DEFINE j == trade[p].item
<1>4. j # i /\ place[i] # j /\ place[j] # i /\ dest # j
  BY <1>2, <1>3, Undisturbed
<1>5. j \in Items
  BY Offers
<1> HIDE DEF j
<1>6. /\ place'[j] = place[j]
      /\ place[j] \in Bags => place'[place[j]] = place[place[j]]
  BY <1>4, <1>5, TradeAssumption DEF Moved, IInv, TypeOK
<1> QED
  BY <1>4, <1>6 DEF j

LEMMA MovedStep ==
  ASSUME IInv, NEW i \in Items, NEW dest, Moved(i, dest)
  PROVE  IInv'
<1> USE TradeAssumption
<1>1. /\ TypeOK /\ BagsHoldNoBags
      /\ \A j, k \in tradeItems : place[j] # k
  BY DEF IInv, TradesStand
<1>2. /\ dest \in Players \cup Bags \cup Squares \cup {None}
      /\ dest # i /\ (dest \in Bags => i \notin Bags)
      /\ place' = [place EXCEPT ![i] = dest]
      /\ EndTrades(Disturbed(i, dest))
      /\ online' = online /\ x' = x
  BY DEF Moved
<1>3. Disturbed(i, dest) \in SUBSET Players
  BY <1>1, DisturbedPlayers
<1>4. /\ tradeItems' \subseteq tradeItems
      /\ \A p \in Players :
           trade[p].item # None /\ trade'[p] = NoTrade => trade[p].item \notin tradeItems'
  BY <1>2, <1>3, Closing
<1>5. ASSUME NEW p \in Players, trade'[p] # NoTrade
      PROVE  p \in online' /\ Distance(x'[p], x'[trade[p].partner]) <= 2
  BY <1>2, <1>5, GoesOn, Traders
<1>6. ASSUME NEW p \in Players, NEW j \in Items, trade'[p].item = j
      PROVE  InReach(p, j)'
  <2>1. trade'[p] # NoTrade /\ j # None
    BY <1>6 DEF NoTrade
  <2>2. /\ trade[p].item = j
        /\ place'[j] = place[j]
        /\ place[j] \in Bags => place'[place[j]] = place[place[j]]
    BY <1>6, <2>1, GoesOn
  <2>3. InReach(p, j) /\ x'[p] = x[p]
    BY <1>2, <2>1, <2>2, Offers
  <2> QED
    BY <2>2, <2>3, SameReach
<1>7. i \notin tradeItems'
  <2> SUFFICES ASSUME i \in tradeItems'
               PROVE  FALSE
    OBVIOUS
  <2>1. i \in tradeItems
    BY <1>4
  <2>2. PICK p \in Players : trade[p].item = i
    BY <2>1, HasOwner
  <2>3. i # None
    BY DEF Squares
  <2>4. trade'[p] = NoTrade
    BY <2>2, <2>3, GoesOn
  <2> QED
    BY <1>4, <2>2, <2>3, <2>4
<1>8. \A j, k \in tradeItems' : place'[j] # k
  BY <1>1, <1>2, <1>4, <1>7 DEF TypeOK
<1>9. /\ place' \in [Items -> Players \cup Bags \cup Squares \cup {None}]
      /\ BagsHoldNoBags'
      /\ online' \subseteq Players /\ x' \in [Players -> Squares]
  BY <1>1, <1>2 DEF TypeOK, BagsHoldNoBags
<1> QED
  BY <1>2, <1>3, <1>5, <1>6, <1>8, <1>9, ClosingStep

-----------------------------------------------------------------------------
(* playerRequestTrade and playerAcceptTrade                                *)

\* What a request finds, and what it changes of the two players' trades.
LEMMA RequestFacts ==
  ASSUME IInv, NEW p \in Players, NEW q \in Players, NEW i \in Items, RequestTrade(p, q, i)
  PROVE  /\ p \in online /\ q \in online /\ p # q
         /\ Distance(x[p], x[q]) <= 2
         /\ InReach(p, i) /\ NotTraded(i)
         /\ trade[p].item = None
         /\ trade[p] = NoTrade <=> trade[q] = NoTrade
         /\ trade[p] # NoTrade => trade[p].partner = q /\ trade[q].partner = p
         /\ trade' \in [Players -> [state : {"NONE", "INITIATED", "ACKNOWLEDGE", "ACCEPT"},
                                    partner : Players \cup {None}, item : Items \cup {None}]]
         /\ trade'[p] = [state |-> "INITIATED", partner |-> q, item |-> i]
         /\ trade'[q].partner = p /\ trade'[q].item = trade[q].item
         /\ trade'[q] = IF trade[q].state = "NONE"
                        THEN [state |-> "ACKNOWLEDGE", partner |-> p, item |-> None]
                        ELSE trade[q]
         /\ \A r \in Players \ {p, q} : trade'[r] = trade[r]
         /\ tradeItems' = tradeItems \cup {i}
         /\ online' = online /\ x' = x /\ place' = place
<1> USE TradeAssumption
<1>1. TypeOK /\ StateTells
  BY DEF IInv
<1>2. /\ p \in online /\ q \in online /\ p # q
      /\ Distance(x[p], x[q]) <= 2
      /\ InReach(p, i) /\ NotTraded(i)
      /\ \/ trade[p].state = "NONE"
         \/ trade[p].state = "ACKNOWLEDGE" /\ trade[p].partner = q
      /\ trade[q].state = "NONE" \/ trade[q].partner = p
      /\ trade' = [trade EXCEPT
                     ![p] = [state |-> "INITIATED", partner |-> q, item |-> i],
                     ![q] = IF @.state = "NONE"
                            THEN [state |-> "ACKNOWLEDGE", partner |-> p, item |-> None]
                            ELSE @]
      /\ tradeItems' = tradeItems \cup {i}
      /\ online' = online /\ x' = x /\ place' = place
  BY DEF RequestTrade
<1>3. i # None /\ p # None /\ q # None
  OBVIOUS
<1>4. /\ trade[p].item = None
      /\ trade[p] = NoTrade <=> trade[q] = NoTrade
      /\ trade[p] # NoTrade => trade[p].partner = q /\ trade[q].partner = p
  <2>1. trade[p].item = None
    BY <1>1, <1>2 DEF StateTells, NoTrade
  <2>2. ASSUME trade[p] # NoTrade
        PROVE  trade[p].partner = q /\ trade[q].partner = p /\ trade[q] # NoTrade
    BY <1>1, <1>2, <2>2, Traders DEF StateTells
  <2>3. ASSUME trade[q] # NoTrade
        PROVE  trade[p] # NoTrade
    BY <1>1, <1>2, <2>3, Traders DEF StateTells
  <2> QED
    BY <2>1, <2>2, <2>3
<1>5. /\ trade'[p] = [state |-> "INITIATED", partner |-> q, item |-> i]
      /\ trade'[q].partner = p /\ trade'[q].item = trade[q].item
      /\ trade'[q] = IF trade[q].state = "NONE"
                     THEN [state |-> "ACKNOWLEDGE", partner |-> p, item |-> None]
                     ELSE trade[q]
      /\ \A r \in Players \ {p, q} : trade'[r] = trade[r]
  <2>1. /\ trade'[p] = [state |-> "INITIATED", partner |-> q, item |-> i]
        /\ trade'[q] = IF trade[q].state = "NONE"
                       THEN [state |-> "ACKNOWLEDGE", partner |-> p, item |-> None]
                       ELSE trade[q]
        /\ \A r \in Players \ {p, q} : trade'[r] = trade[r]
    BY <1>1, <1>2 DEF TypeOK
  <2>2. trade'[q].partner = p /\ trade'[q].item = trade[q].item
    <3>1. CASE trade[q].state = "NONE"
      <4>1. trade'[q] = [state |-> "ACKNOWLEDGE", partner |-> p, item |-> None]
        BY <2>1, <3>1
      <4>2. trade[q].item = None
        BY <1>1, <3>1 DEF StateTells, NoTrade
      <4> QED
        BY <4>1, <4>2
    <3>2. CASE trade[q].state # "NONE"
      BY <1>2, <2>1, <3>2
    <3> QED
      BY <3>1, <3>2
  <2> QED
    BY <2>1, <2>2
<1>6. trade' \in [Players -> [state : {"NONE", "INITIATED", "ACKNOWLEDGE", "ACCEPT"},
                              partner : Players \cup {None}, item : Items \cup {None}]]
  BY <1>1, <1>2 DEF TypeOK
<1> QED
  BY <1>2, <1>4, <1>5, <1>6

LEMMA RequestKeepsOffers ==
  ASSUME IInv, NEW p \in Players, NEW q \in Players, NEW i \in Items, RequestTrade(p, q, i),
         NEW r \in Players, trade[r].item # None
  PROVE  trade'[r].item = trade[r].item
<1>1. trade[p].item = None
  BY RequestFacts
<1>2. /\ trade'[p] = [state |-> "INITIATED", partner |-> q, item |-> i]
      /\ trade'[q].partner = p /\ trade'[q].item = trade[q].item
      /\ trade'[q] = IF trade[q].state = "NONE"
                     THEN [state |-> "ACKNOWLEDGE", partner |-> p, item |-> None]
                     ELSE trade[q]
      /\ \A s \in Players \ {p, q} : trade'[s] = trade[s]
  BY RequestFacts
<1> QED
  BY <1>1, <1>2

LEMMA RequestStep ==
  ASSUME IInv, NEW p \in Players, NEW q \in Players, NEW i \in Items, RequestTrade(p, q, i)
  PROVE  IInv'
<1> USE TradeAssumption
<1>1. /\ TypeOK /\ BagsHoldNoBags /\ StateTells /\ TradesStand
  BY DEF IInv
<1>2. /\ p \in online /\ q \in online /\ p # q
      /\ Distance(x[p], x[q]) <= 2
      /\ InReach(p, i) /\ NotTraded(i)
      /\ tradeItems' = tradeItems \cup {i}
      /\ online' = online /\ x' = x /\ place' = place
  BY DEF RequestTrade
<1>3. i # None /\ p # None /\ q # None
  OBVIOUS
<1>4. /\ trade[p].item = None
      /\ trade[p] = NoTrade <=> trade[q] = NoTrade
      /\ trade[p] # NoTrade => trade[p].partner = q /\ trade[q].partner = p
  BY RequestFacts
<1>5. /\ trade'[p] = [state |-> "INITIATED", partner |-> q, item |-> i]
      /\ trade'[q].partner = p /\ trade'[q].item = trade[q].item
      /\ trade'[q] = IF trade[q].state = "NONE"
                     THEN [state |-> "ACKNOWLEDGE", partner |-> p, item |-> None]
                     ELSE trade[q]
      /\ \A r \in Players \ {p, q} : trade'[r] = trade[r]
  BY RequestFacts
<1>6. TypeOK'
  <2>1. trade' \in [Players -> [state : {"NONE", "INITIATED", "ACKNOWLEDGE", "ACCEPT"},
                                partner : Players \cup {None}, item : Items \cup {None}]]
    BY RequestFacts
  <2> QED
    BY <1>1, <1>2, <2>1 DEF TypeOK
<1>7. StateTells'
  BY <1>1, <1>3, <1>5 DEF StateTells
<1>8. BagsHoldNoBags'
  BY <1>1, <1>2 DEF BagsHoldNoBags
<1>9. TradesStand'
  <2>1. ASSUME NEW r \in Players, trade'[r] # NoTrade
        PROVE  LET s == trade'[r].partner
               IN  /\ r \in online' /\ s \in online'
                   /\ trade'[s].partner = r
                   /\ Distance(x'[r], x'[s]) <= 2
    <3>1. CASE r = p
      BY <1>2, <1>5, <3>1
    <3>2. CASE r = q
      <4>1. x[p] \in Squares /\ x[q] \in Squares
        BY <1>1 DEF TypeOK
      <4>2. Distance(x[q], x[p]) = Distance(x[p], x[q])
        BY <4>1, DistanceFacts
      <4> QED
        BY <1>2, <1>5, <3>2, <4>2
    <3>3. CASE r # p /\ r # q
      <4> DEFINE s == trade[r].partner
      <4>1. trade'[r] = trade[r] /\ trade[r] # NoTrade
        BY <1>5, <2>1, <3>3
      <4>2. /\ s \in Players /\ r \in online /\ s \in online /\ trade[s] # NoTrade
            /\ trade[s].partner = r /\ Distance(x[r], x[s]) <= 2
        BY <4>1, Traders
      <4>3. s # p /\ s # q
        BY <1>4, <3>3, <4>2
      <4>4. trade'[s] = trade[s]
        BY <1>5, <4>2, <4>3
      <4> QED
        BY <1>2, <4>1, <4>2, <4>4
    <3> QED
      BY <3>1, <3>2, <3>3
  <2>2. ASSUME NEW r \in Players, trade'[r].item # None
        PROVE  InReach(r, trade[r].item)' /\ trade'[r].item \in tradeItems'
    <3>1. CASE r = p
      BY <1>2, <1>5, <3>1 DEF InReach, Top
    <3>2. CASE r # p
      <4> DEFINE j == trade[r].item
      <4>1. trade'[r].item = j
        BY <1>5, <3>2
      <4>2. InReach(r, j) /\ j \in tradeItems
        BY <2>2, <4>1, Offers
      <4> HIDE DEF j
      <4>3. place' = place /\ x' = x /\ tradeItems \subseteq tradeItems'
        BY <1>2
      <4> QED
        BY ONLY <4>1, <4>2, <4>3 DEF InReach, Top
    <3> QED
      BY <3>1, <3>2
  <2>3. ASSUME NEW j \in tradeItems'
        PROVE  Cardinality({r \in Players : trade'[r].item = j}) = 1
    <3>1. i \notin tradeItems /\ \A r \in Players : trade[r].item # i
      <4>1. i \notin tradeItems
        BY <1>2 DEF NotTraded
      <4> QED
        BY <1>3, <4>1, Offers
    <3>2. CASE j = i
      <4>1. {r \in Players : trade'[r].item = j} = {p}
        BY <1>5, <3>1, <3>2
      <4> QED
        BY <4>1, FS_Singleton
    <3>3. CASE j # i
      <4>1. j \in tradeItems /\ j # None
        BY <1>1, <1>2, <3>3 DEF TypeOK
      <4>2. {r \in Players : trade'[r].item = j} = {r \in Players : trade[r].item = j}
        BY <1>4, <1>5, <3>3, <4>1
      <4> QED
        BY <1>1, <4>1, <4>2 DEF TradesStand
    <3> QED
      BY <3>2, <3>3
  <2>4. \A j, k \in tradeItems' : place'[j] # k
    <3>1. place[i] # i
      BY <1>1, Places
    <3> QED
      BY <1>1, <1>2, <3>1 DEF NotTraded, TradesStand
  <2> QED
    BY <2>1, <2>2, <2>3, <2>4 DEF TradesStand
<1> QED
  BY <1>6, <1>7, <1>8, <1>9 DEF IInv

LEMMA AcceptFirstStep ==
  ASSUME IInv, NEW p \in Players, AcceptFirst(p)
  PROVE  IInv'
<1> USE TradeAssumption
<1>1. TypeOK /\ BagsHoldNoBags /\ StateTells /\ TradesStand
  BY DEF IInv
<1>2. /\ trade[p].state \in {"ACKNOWLEDGE", "INITIATED"} /\ trade[p].partner # None
      /\ trade' = [trade EXCEPT ![p].state = "ACCEPT"]
      /\ online' = online /\ x' = x /\ place' = place /\ tradeItems' = tradeItems
  BY DEF AcceptFirst, MayAccept
<1>3. /\ trade'[p].state = "ACCEPT"
      /\ \A r \in Players : /\ trade'[r].partner = trade[r].partner
                            /\ trade'[r].item = trade[r].item
                            /\ r # p => trade'[r] = trade[r]
  BY <1>1, <1>2 DEF TypeOK
<1>4. trade[p] # NoTrade
  BY <1>2 DEF NoTrade
<1>5. TypeOK'
  BY <1>1, <1>2 DEF TypeOK
<1>6. StateTells'
  BY <1>1, <1>2, <1>3 DEF StateTells
<1>7. BagsHoldNoBags'
  BY <1>1, <1>2 DEF BagsHoldNoBags
<1>8. TradesStand'
  <2>1. ASSUME NEW r \in Players, trade'[r] # NoTrade
        PROVE  LET s == trade'[r].partner
               IN  /\ r \in online' /\ s \in online'
                   /\ trade'[s].partner = r
                   /\ Distance(x'[r], x'[s]) <= 2
    <3>1. trade[r] # NoTrade
      BY <1>3, <1>4, <2>1
    <3> QED
      BY <1>2, <1>3, <3>1, Traders
  <2>2. ASSUME NEW r \in Players, trade'[r].item # None
        PROVE  InReach(r, trade[r].item)' /\ trade'[r].item \in tradeItems'
    <3>1. InReach(r, trade[r].item) /\ trade[r].item \in tradeItems
      BY <1>3, <2>2, Offers
    <3> QED
      BY <1>2, <1>3, <3>1 DEF InReach, Top
  <2>3. ASSUME NEW j \in tradeItems'
        PROVE  Cardinality({r \in Players : trade'[r].item = j}) = 1
    <3>1. {r \in Players : trade'[r].item = j} = {r \in Players : trade[r].item = j}
      BY <1>3
    <3> QED
      BY <1>1, <1>2, <3>1 DEF TradesStand
  <2>4. \A j, k \in tradeItems' : place'[j] # k
    BY <1>1, <1>2 DEF TradesStand
  <2> QED
    BY <2>1, <2>2, <2>3, <2>4 DEF TradesStand
<1> QED
  BY <1>5, <1>6, <1>7, <1>8 DEF IInv
\* Where the two items of a trade go: mine to q, yours to p or, a stack, nowhere.
Swapped(p, q, mine, yours, d, e) ==
  /\ q \in Players /\ q # p /\ trade[p].partner = q /\ trade[q].partner = p
  /\ mine = trade[p].item /\ yours = trade[q].item
  /\ mine \in tradeItems /\ yours \in tradeItems /\ mine # yours
  /\ trade[p].state # "ACCEPT" /\ trade[q].state = "ACCEPT"
  /\ d = q \/ (d \in Bags /\ place[d] = q /\ mine \notin Bags)
  /\ \/ e = p
     \/ e \in Bags /\ place[e] = p /\ yours \notin Bags
     \/ e = place[yours] /\ yours \notin Bags
  /\ d # mine /\ d # yours /\ e # mine /\ e # yours
  /\ place' = [place EXCEPT ![mine] = d, ![yours] = e]

LEMMA TransferSwaps ==
  ASSUME IInv, NEW p \in Players, AcceptTransfers(p)
  PROVE  \E d, e : Swapped(p, trade[p].partner, trade[p].item, trade[trade[p].partner].item, d, e)
<1> USE TradeAssumption
<1> DEFINE q == trade[p].partner
           mine == trade[p].item
           yours == trade[q].item
<1>1. PICK d \in PutFor(q, mine),
           e \in PutFor(p, yours) \cup (IF yours \in Stackable THEN {place[yours]} ELSE {}) :
        place' = [place EXCEPT ![mine] = d, ![yours] = e]
  BY DEF AcceptTransfers
<1>2. /\ trade[p].state \in {"ACKNOWLEDGE", "INITIATED"} /\ q # None
      /\ trade[q].state = "ACCEPT"
      /\ mine # None /\ yours # None
  BY DEF AcceptTransfers, MayAccept, Agreed
<1>3. trade[p] # NoTrade
  BY <1>2 DEF NoTrade
<1>4. q \in Players /\ q # p /\ trade[q].partner = p
  BY <1>2, <1>3, Traders
<1>5. /\ mine \in Items /\ yours \in Items
      /\ mine \in tradeItems /\ yours \in tradeItems
  BY <1>2, <1>4, Offers
<1>6. mine # yours
  BY <1>2, <1>4, OneOwner
<1>7. place[yours] # mine /\ place[yours] # yours
  BY <1>5 DEF IInv, TradesStand
<1> HIDE DEF q, mine, yours
<1>8. d = q \/ (d \in Bags /\ place[d] = q /\ mine \notin Bags /\ d # yours)
  BY DEF PutFor, yours
<1>9. \/ e = p
      \/ e \in Bags /\ place[e] = p /\ yours \notin Bags /\ e # mine
      \/ e = place[yours] /\ yours \notin Bags
  BY DEF PutFor, mine
<1>10. d # mine /\ d # yours /\ e # mine /\ e # yours
  BY <1>4, <1>5, <1>7, <1>8, <1>9
<1>11. Swapped(p, q, mine, yours, d, e)
  BY <1>1, <1>2, <1>4, <1>5, <1>6, <1>8, <1>9, <1>10 DEF Swapped, q, mine, yours
<1> QED
  BY <1>11 DEF q, mine, yours

\* The trades of others go on, and what they rest on stays where it was.
LEMMA OthersGoOn ==
  ASSUME IInv, NEW p \in Players, AcceptTransfers(p),
         NEW q, NEW mine, NEW yours, NEW d, NEW e, Swapped(p, q, mine, yours, d, e)
  PROVE  /\ mine \notin tradeItems' /\ yours \notin tradeItems'
         /\ \A r \in Players : trade'[r] # NoTrade =>
              /\ r # p /\ r # q /\ trade'[r] = trade[r] /\ trade[r] # NoTrade
              /\ trade[r].item # None =>
                   LET j == trade[r].item
                   IN  /\ j # mine /\ j # yours /\ d # j /\ e # j
                       /\ place[mine] # j /\ place[yours] # j
                       /\ place'[j] = place[j]
                       /\ place[j] \in Bags => place'[place[j]] = place[place[j]]
<1> USE TradeAssumption
<1>1. /\ TypeOK /\ BagsHoldNoBags
      /\ \A j, k \in tradeItems : place[j] # k
  BY DEF IInv, TradesStand
<1>2. EndTrades({p})
  BY DEF AcceptTransfers
<1>3. /\ \A r \in Players :
           /\ trade'[r] \in {trade[r], NoTrade}
           /\ r = p => trade'[r] = NoTrade
           /\ trade'[r] # NoTrade => trade'[trade[r].partner] = trade[trade[r].partner]
           /\ trade[r].item # None /\ trade'[r] = NoTrade => trade[r].item \notin tradeItems'
  BY <1>2, Closing
<1>4. /\ q \in Players /\ q # p /\ trade[q].partner = p /\ trade[p].partner = q
      /\ mine = trade[p].item /\ yours = trade[q].item
      /\ mine \in tradeItems /\ yours \in tradeItems /\ mine # yours
      /\ mine \in Items /\ yours \in Items
      /\ place' = [place EXCEPT ![mine] = d, ![yours] = e]
  BY <1>1 DEF Swapped, TypeOK
<1>5. trade'[p] = NoTrade /\ trade'[q] = NoTrade
  <2>1. trade'[p] = NoTrade /\ trade[p] # NoTrade
    BY <1>3, <1>4 DEF NoTrade
  <2> QED
    BY <1>3, <1>4, <2>1
<1>6. mine \notin tradeItems' /\ yours \notin tradeItems'
  BY <1>3, <1>4, <1>5
<1>7. ASSUME NEW r \in Players, trade'[r] # NoTrade
      PROVE  /\ r # p /\ r # q /\ trade'[r] = trade[r] /\ trade[r] # NoTrade
             /\ trade[r].item # None =>
                  LET j == trade[r].item
                  IN  /\ j # mine /\ j # yours /\ d # j /\ e # j
                      /\ place[mine] # j /\ place[yours] # j
                      /\ place'[j] = place[j]
                      /\ place[j] \in Bags => place'[place[j]] = place[place[j]]
  <2>1. r # p /\ r # q /\ trade'[r] = trade[r] /\ trade[r] # NoTrade
    BY <1>3, <1>5, <1>7
  <2>2. ASSUME trade[r].item # None
        PROVE  LET j == trade[r].item
               IN  /\ j # mine /\ j # yours /\ d # j /\ e # j
                   /\ place[mine] # j /\ place[yours] # j
                   /\ place'[j] = place[j]
                   /\ place[j] \in Bags => place'[place[j]] = place[place[j]]
    <3> DEFINE j == trade[r].item
    <3>1. j \in Items /\ j \in tradeItems /\ InReach(r, j)
      BY <2>2, Offers
    <3>2. j # mine /\ j # yours
      BY <1>4, <2>1, <2>2, OneOwner
    <3> HIDE DEF j
    <3>3. place[mine] # j /\ place[yours] # j /\ place[j] # mine /\ place[j] # yours
      BY <1>1, <1>4, <3>1
    <3>4. ASSUME j \in Bags
          PROVE  place[j] # p /\ place[j] # q
      <4>1. place[j] \notin Bags /\ Top(j) = place[j]
        BY <1>1, <3>1, <3>4, Places DEF BagsHoldNoBags
      <4>2. Top(j) = r \/ Top(j) \notin Players
        BY <1>1, <3>1, Reached
      <4> QED
        BY <1>4, <2>1, <4>1, <4>2
    <3>5. d # j /\ e # j
      BY <1>4, <3>1, <3>3, <3>4 DEF Swapped
    <3>6. /\ place'[j] = place[j]
          /\ place[j] \in Bags => place'[place[j]] = place[place[j]]
      BY <1>1, <1>4, <3>1, <3>2, <3>3 DEF TypeOK
    <3> QED
      BY <3>2, <3>3, <3>5, <3>6 DEF j
  <2> QED
    BY <2>1, <2>2
<1> QED
  BY <1>6, <1>7

LEMMA TransferStep ==
  ASSUME IInv, NEW p \in Players, AcceptTransfers(p)
  PROVE  IInv'
<1> USE TradeAssumption
<1> DEFINE q == trade[p].partner
           mine == trade[p].item
           yours == trade[q].item
<1>1. PICK d, e : Swapped(p, q, mine, yours, d, e)
  BY TransferSwaps
<1> HIDE DEF q, mine, yours
<1>2. /\ TypeOK /\ BagsHoldNoBags
      /\ \A j, k \in tradeItems : place[j] # k
  BY DEF IInv, TradesStand
<1>3. EndTrades({p}) /\ online' = online /\ x' = x
  BY DEF AcceptTransfers
<1>4. /\ mine \notin tradeItems' /\ yours \notin tradeItems'
      /\ \A r \in Players : trade'[r] # NoTrade =>
           /\ r # p /\ r # q /\ trade'[r] = trade[r] /\ trade[r] # NoTrade
           /\ trade[r].item # None =>
                LET j == trade[r].item
                IN  /\ place'[j] = place[j]
                    /\ place[j] \in Bags => place'[place[j]] = place[place[j]]
  BY <1>1, OthersGoOn
<1>5. tradeItems' \subseteq tradeItems
  BY <1>3, Closing
<1>6. /\ mine \in Items /\ yours \in Items /\ mine # yours
      /\ place' = [place EXCEPT ![mine] = d, ![yours] = e]
      /\ d \in Players \cup Bags \cup Squares \cup {None}
      /\ e \in Players \cup Bags \cup Squares \cup {None}
      /\ d \in Bags => mine \notin Bags
      /\ e \in Bags => yours \notin Bags
  BY <1>1, <1>2 DEF Swapped, TypeOK
<1>7. /\ place' \in [Items -> Players \cup Bags \cup Squares \cup {None}]
      /\ BagsHoldNoBags'
      /\ online' \subseteq Players /\ x' \in [Players -> Squares]
  BY <1>2, <1>3, <1>6 DEF TypeOK, BagsHoldNoBags
<1>8. \A j, k \in tradeItems' : place'[j] # k
  BY <1>2, <1>4, <1>5, <1>6 DEF TypeOK
<1>9. ASSUME NEW r \in Players, trade'[r] # NoTrade
      PROVE  r \in online' /\ Distance(x'[r], x'[trade[r].partner]) <= 2
  BY <1>3, <1>4, <1>9, Traders
<1>10. ASSUME NEW r \in Players, NEW j \in Items, trade'[r].item = j
       PROVE  InReach(r, j)'
  <2>1. trade'[r] # NoTrade /\ j # None
    BY <1>10 DEF NoTrade
  <2>2. /\ trade[r].item = j
        /\ place'[j] = place[j]
        /\ place[j] \in Bags => place'[place[j]] = place[place[j]]
    BY <1>4, <1>10, <2>1
  <2>3. InReach(r, j) /\ x'[r] = x[r]
    BY <1>3, <2>1, <2>2, Offers
  <2> QED
    BY <2>2, <2>3, SameReach
<1>11. {p} \in SUBSET Players
  OBVIOUS
<1> QED
  BY <1>3, <1>7, <1>8, <1>9, <1>10, <1>11, ClosingStep
-----------------------------------------------------------------------------
(* The results                                                             *)

LEMMA InitInv ==
  ASSUME Init
  PROVE  IInv
<1> USE TradeAssumption DEF Init
<1>1. 0 \in Squares
  BY DEF Squares
<1>2. TypeOK
  BY <1>1 DEF TypeOK, NoTrade
<1>3. BagsHoldNoBags
  BY <1>1 DEF BagsHoldNoBags, Squares
<1>4. StateTells /\ TradesStand
  BY DEF StateTells, TradesStand, NoTrade
<1> QED
  BY <1>2, <1>3, <1>4 DEF IInv

LEMMA EnterStep ==
  ASSUME IInv, NEW p \in Players, Enter(p)
  PROVE  IInv'
<1>1. /\ online' = online \cup {p}
      /\ UNCHANGED <<x, place, trade, tradeItems>>
  BY DEF Enter
<1>2. TypeOK' /\ BagsHoldNoBags' /\ StateTells'
  BY <1>1 DEF IInv, TypeOK, BagsHoldNoBags, StateTells
<1>3. TradesStand'
  BY <1>1 DEF IInv, TradesStand, InReach, Top
<1> QED
  BY <1>2, <1>3 DEF IInv

LEMMA NextInv ==
  ASSUME IInv, Next
  PROVE  IInv'
<1>1. ASSUME NEW p \in Players, TradeStep(p)
      PROVE  IInv'
  BY <1>1, RequestStep, AcceptFirstStep, CloseStep, TransferStep DEF TradeStep
<1>2. ASSUME NEW p \in Players, WorldStep(p)
      PROVE  IInv'
  <2>1. CASE \E i \in Items, dest \in {p} \cup Squares \cup Bags : MoveItem(p, i, dest)
    BY <2>1, MoveIsMoved, MovedStep
  <2> QED
    BY <1>2, <2>1, WalkStep, LeaveStep, EnterStep DEF WorldStep
<1>3. ASSUME NEW i \in Items, RemoveItem(i)
      PROVE  IInv'
  BY <1>3, RemoveIsMoved, MovedStep
<1> QED
  BY <1>1, <1>2, <1>3 DEF Next

LEMMA StutterInv ==
  ASSUME IInv, UNCHANGED vars
  PROVE  IInv'
BY DEF vars, IInv, TypeOK, BagsHoldNoBags, StateTells, TradesStand, InReach, Top

\* The invariant holds in every state, whoever walks, moves items or leaves meanwhile.
THEOREM InductiveInv == Spec => []IInv
<1>1. Init => IInv
  BY InitInv
<1>2. IInv /\ [Next]_vars => IInv'
  BY NextInv, StutterInv
<1> QED
  BY <1>1, <1>2, PTL DEF Spec

\* While a trade lasts both sides know of it, are in the game and near each other, and
\* their offers are at hand and apart: the callbacks close it in time.
THEOREM TradesRest == Spec => []TradesStand
<1>1. IInv => TradesStand
  BY DEF IInv
<1> QED
  BY <1>1, InductiveInv, PTL

\* The steps after which no place has changed.
LEMMA NothingMoves ==
  ASSUME [Next]_vars, place' # place
  PROVE  \/ \E p \in Players, i \in Items, dest \in Players \cup Squares \cup Bags :
              dest \in {p} \cup Squares \cup Bags /\ MoveItem(p, i, dest)
         \/ \E i \in Items : RemoveItem(i)
         \/ \E p \in Players : AcceptTransfers(p)
<1>1. ASSUME NEW p \in Players, TradeStep(p)
      PROVE  AcceptTransfers(p)
  BY <1>1 DEF TradeStep, RequestTrade, AcceptFirst, AcceptFails, CloseTrade
<1>2. ASSUME NEW p \in Players, WorldStep(p)
      PROVE  \E i \in Items, dest \in {p} \cup Squares \cup Bags : MoveItem(p, i, dest)
  BY <1>2 DEF WorldStep, Walk, Leave, Enter
<1> QED
  BY <1>1, <1>2 DEF Next, vars

\* A trade that goes on with the same partner keeps its offer.
LEMMA OfferStays ==
  ASSUME IInv, [Next]_vars, NEW p \in Players,
         trade[p].item # None, trade[p].partner = trade'[p].partner
  PROVE  trade'[p] # NoTrade /\ trade'[p].item = trade[p].item
<1>1. trade[p] # NoTrade
  BY Offers
<1>2. trade[p].partner # None
  BY <1>1, Traders, TradeAssumption
<1>3. trade'[p] # NoTrade
  BY <1>2 DEF NoTrade
<1>4. ASSUME NEW ps \in SUBSET Players, EndTrades(ps)
      PROVE  trade'[p].item = trade[p].item
  BY <1>3, <1>4, Closing
<1>5. ASSUME NEW r \in Players, TradeStep(r)
      PROVE  trade'[p].item = trade[p].item
  <2>1. ASSUME NEW q \in Players, NEW i \in Items, RequestTrade(r, q, i)
        PROVE  trade'[p].item = trade[p].item
    BY <2>1, RequestKeepsOffers
  <2>2. CASE AcceptFirst(r)
    BY <2>2 DEF AcceptFirst, IInv, TypeOK
  <2>3. CASE AcceptFails(r) \/ AcceptTransfers(r) \/ CloseTrade(r)
    <3>1. EndTrades({r}) /\ {r} \in SUBSET Players
      BY <2>3 DEF AcceptFails, AcceptTransfers, CloseTrade
    <3> QED
      BY <1>4, <3>1
  <2> QED
    BY <1>5, <2>1, <2>2, <2>3 DEF TradeStep
<1>6. ASSUME NEW r \in Players, WorldStep(r)
      PROVE  trade'[p].item = trade[p].item
  <2>1. ASSUME NEW y \in Squares, Walk(r, y)
        PROVE  trade'[p].item = trade[p].item
    <3>1. EndTrades(IF Strayed(r, [x EXCEPT ![r] = y]) THEN {r} ELSE {})
      BY <2>1 DEF Walk
    <3>2. (IF Strayed(r, [x EXCEPT ![r] = y]) THEN {r} ELSE {}) \in SUBSET Players
      OBVIOUS
    <3> QED
      BY <1>4, <3>1, <3>2
  <2>2. CASE Leave(r)
    <3>1. EndTrades(IF trade[r].partner # None THEN {r} ELSE {})
      BY <2>2 DEF Leave
    <3>2. (IF trade[r].partner # None THEN {r} ELSE {}) \in SUBSET Players
      OBVIOUS
    <3> QED
      BY <1>4, <3>1, <3>2
  <2>3. CASE Enter(r)
    BY <2>3 DEF Enter
  <2>4. ASSUME NEW i \in Items, NEW dest \in {r} \cup Squares \cup Bags, MoveItem(r, i, dest)
        PROVE  trade'[p].item = trade[p].item
    BY <1>3, <2>4, MoveIsMoved, GoesOn
  <2> QED
    BY <1>6, <2>1, <2>2, <2>3, <2>4 DEF WorldStep
<1>7. ASSUME NEW i \in Items, RemoveItem(i)
      PROVE  trade'[p].item = trade[p].item
  BY <1>3, <1>7, RemoveIsMoved, GoesOn
<1>8. CASE UNCHANGED vars
  <2>1. trade' = trade
    BY <1>8 DEF vars
  <2> QED
    BY <1>3, <2>1
<1> QED
  BY <1>3, <1>5, <1>6, <1>7, <1>8 DEF Next

\* An offer is neither replaced nor moved, and nothing enters or leaves an offered bag,
\* as long as the trade it is offered in lasts.
THEOREM OffersAreFinal == Spec => OfferIsFinal
<1>1. ASSUME IInv, [Next]_vars
      PROVE  \A p \in Players : LET i == trade[p].item IN
               (i # None /\ trade[p].partner = trade'[p].partner) =>
                  /\ trade'[p].item = i
                  /\ place'[i] = place[i]
                  /\ \A j \in Items : place[j] = i <=> place'[j] = i
  <2> SUFFICES ASSUME NEW p \in Players, trade[p].item # None, trade[p].partner = trade'[p].partner
               PROVE  LET i == trade[p].item
                      IN  /\ trade'[p].item = i
                          /\ place'[i] = place[i]
                          /\ \A j \in Items : place[j] = i <=> place'[j] = i
    OBVIOUS
  <2> DEFINE i == trade[p].item
  <2>1. trade'[p] # NoTrade /\ trade'[p].item = i
    BY <1>1, OfferStays
  <2>2. TypeOK
    BY <1>1 DEF IInv
  <2>3. i # None /\ i \in Items
    BY <1>1, Offers
  <2>4. ASSUME NEW k \in Items, NEW dest, Moved(k, dest)
        PROVE  /\ place'[i] = place[i]
               /\ \A j \in Items : place[j] = i <=> place'[j] = i
    <3>1. i # k /\ place[k] # i /\ dest # i
      BY <1>1, <2>1, <2>3, <2>4, GoesOn
    <3>2. place' = [place EXCEPT ![k] = dest]
      BY <2>4 DEF Moved
    <3> HIDE DEF i
    <3> QED
      BY <2>2, <2>3, <3>1, <3>2 DEF TypeOK
  <2>5. ASSUME NEW r \in Players, AcceptTransfers(r)
        PROVE  /\ place'[i] = place[i]
               /\ \A j \in Items : place[j] = i <=> place'[j] = i
    <3> DEFINE q == trade[r].partner
               mine == trade[r].item
               yours == trade[q].item
    <3>1. PICK d, e : Swapped(r, q, mine, yours, d, e)
      BY <1>1, <2>5, TransferSwaps
    <3> HIDE DEF q, mine, yours
    <3>2. i # mine /\ i # yours /\ d # i /\ e # i /\ place[mine] # i /\ place[yours] # i
      BY <1>1, <2>1, <2>3, <2>5, <3>1, OthersGoOn
    <3>3. place' = [place EXCEPT ![mine] = d, ![yours] = e]
      BY <3>1 DEF Swapped
    <3> HIDE DEF i
    <3> QED
      BY <2>2, <2>3, <3>2, <3>3 DEF TypeOK
  <2>6. CASE place' = place
    BY <2>1, <2>6
  <2>7. CASE place' # place
    BY <1>1, <2>1, <2>4, <2>5, <2>7, NothingMoves, MoveIsMoved, RemoveIsMoved
  <2> QED
    BY <2>6, <2>7
<1>2. IInv /\ [Next]_vars
        => [\A p \in Players : LET i == trade[p].item IN
              (i # None /\ trade[p].partner = trade'[p].partner) =>
                 /\ trade'[p].item = i
                 /\ place'[i] = place[i]
                 /\ \A j \in Items : place[j] = i <=> place'[j] = i]_vars
  BY <1>1
<1> QED
  BY <1>2, InductiveInv, PTL DEF Spec, OfferIsFinal
\* Who moves an item by hand: what somebody carries, only himself, and not to another.
LEMMA NotTakenByHand ==
  ASSUME IInv, NEW m \in Players, NEW k \in Items, NEW dest \in {m} \cup Squares \cup Bags,
         MoveItem(m, k, dest), NEW p \in Players, NEW i \in Items, Top(i) = p
  PROVE  Top(i)' \in {p} \cup Squares
<1> USE TradeAssumption DEF Squares
<1>1. TypeOK /\ BagsHoldNoBags
  BY DEF IInv
<1>2. /\ InReach(m, k) /\ dest # k
      /\ dest \in Bags => k \notin Bags /\ InReach(m, dest)
      /\ place' = [place EXCEPT ![k] = dest]
  BY DEF MoveItem, CanHold
<1>3. /\ Top(k) = m \/ Top(k) \in Squares
      /\ dest \in Bags => Top(dest) = m \/ Top(dest) \in Squares
  BY <1>2 DEF InReach
<1>4. place'[k] = dest /\ \A j \in Items \ {k} : place'[j] = place[j]
  BY <1>1, <1>2 DEF TypeOK
<1>5. place[i] \in Bags => place[i] \in Items
  OBVIOUS
<1>6. CASE i = k
  <2>1. m = p
    BY <1>3, <1>6
  <2>2. CASE dest \in Bags
    <3>1. Top(i)' = place'[dest]
      BY <1>4, <1>6, <2>2 DEF Top
    <3>2. place'[dest] = place[dest] /\ Top(dest) = place[dest]
      BY <1>1, <1>2, <1>4, <2>2 DEF Top, BagsHoldNoBags
    <3> QED
      BY <1>3, <2>1, <2>2, <3>1, <3>2
  <2>3. CASE dest \notin Bags
    <3>1. Top(i)' = dest
      BY <1>4, <1>6, <2>3 DEF Top
    <3> QED
      BY <2>1, <2>3, <3>1
  <2> QED
    BY <2>2, <2>3
<1>7. CASE i # k /\ place[i] = k /\ k \in Bags
  <2>1. Top(i) = place[k] /\ Top(k) = place[k]
    BY <1>1, <1>7 DEF Top, BagsHoldNoBags
  <2>2. m = p
    BY <1>3, <2>1
  <2>3. Top(i)' = dest /\ dest \notin Bags
    BY <1>2, <1>4, <1>7 DEF Top
  <2> QED
    BY <2>2, <2>3
<1>8. CASE i # k /\ ~(place[i] = k /\ k \in Bags)
  <2>1. Top(i)' = Top(i)
    BY <1>4, <1>5, <1>8 DEF Top
  <2> QED
    BY <2>1
<1> QED
  BY <1>6, <1>7, <1>8

\* What is destroyed, with what is in it, is nowhere.
LEMMA NotTakenByRemoval ==
  ASSUME IInv, NEW k \in Items, RemoveItem(k), NEW p \in Players, NEW i \in Items, Top(i) = p
  PROVE  Top(i)' \in {p, None}
<1> USE TradeAssumption DEF Squares
<1>1. TypeOK
  BY DEF IInv
<1>2. place' = [place EXCEPT ![k] = None]
  BY DEF RemoveItem
<1>3. place'[k] = None /\ \A j \in Items \ {k} : place'[j] = place[j]
  BY <1>1, <1>2 DEF TypeOK
<1>4. CASE i = k
  <2>1. Top(i)' = None
    BY <1>3, <1>4 DEF Top
  <2> QED
    BY <2>1
<1>5. CASE i # k /\ place[i] = k /\ k \in Bags
  <2>1. Top(i)' = None
    BY <1>3, <1>5 DEF Top
  <2> QED
    BY <2>1
<1>6. CASE i # k /\ ~(place[i] = k /\ k \in Bags)
  <2>1. Top(i)' = Top(i)
    BY <1>3, <1>6 DEF Top
  <2> QED
    BY <2>1
<1> QED
  BY <1>4, <1>5, <1>6

\* Where the two items of a trade are when it is done, and where other items offered are.
LEMMA SwappedTops ==
  ASSUME IInv, NEW p \in Players, NEW q, NEW mine, NEW yours, NEW d, NEW e,
         Swapped(p, q, mine, yours, d, e)
  PROVE  /\ Top(mine)' = q /\ place[mine] # d
         /\ Top(yours)' \in {p, Top(yours)}
<1> USE TradeAssumption DEF Squares
<1>1. /\ TypeOK /\ BagsHoldNoBags
      /\ \A j, k \in tradeItems : place[j] # k
  BY DEF IInv, TradesStand
<1>2. /\ q \in Players /\ q # p
      /\ mine = trade[p].item
      /\ mine \in tradeItems /\ yours \in tradeItems /\ mine # yours
      /\ mine \in Items /\ yours \in Items
      /\ d = q \/ (d \in Bags /\ place[d] = q)
      /\ \/ e = p
         \/ e \in Bags /\ place[e] = p
         \/ e = place[yours]
      /\ d # mine /\ d # yours /\ e # mine /\ e # yours
      /\ place' = [place EXCEPT ![mine] = d, ![yours] = e]
  BY <1>1 DEF Swapped, TypeOK
<1>3. /\ place'[mine] = d /\ place'[yours] = e
      /\ \A j \in Items \ {mine, yours} : place'[j] = place[j]
  BY <1>1, <1>2 DEF TypeOK
<1>4. Top(mine)' = q
  BY <1>2, <1>3 DEF Top
<1>5. place[mine] # d
  <2>1. mine # None
    BY <1>2
  <2>2. InReach(p, mine)
    BY <1>2, <2>1, Offers
  <2>3. Top(mine) = p \/ Top(mine) \notin Players
    BY <1>1, <1>2, <2>2, Reached
  <2>4. place[mine] = d => Top(mine) = q
    BY <1>2 DEF Top
  <2> QED
    BY <1>2, <2>3, <2>4
<1>6. Top(yours)' \in {p, Top(yours)}
  <2>1. CASE e = p
    BY <1>2, <1>3, <2>1 DEF Top
  <2>2. CASE e \in Bags /\ place[e] = p
    BY <1>2, <1>3, <2>2 DEF Top
  <2>3. CASE e = place[yours]
    BY <1>2, <1>3, <2>3 DEF Top
  <2> QED
    BY <1>2, <2>1, <2>2, <2>3
<1> QED
  BY <1>4, <1>5, <1>6

\* An offer comes from its owner's hands to another player only by the trade: to the
\* partner, who offered something too, when one of them had accepted; and not while the
\* other's offer stays, if it is the first to accept who gives.
THEOREM NothingWithoutAgreement == Spec => OnlyByAgreement
<1> USE TradeAssumption
<1>1. ASSUME IInv, [Next]_vars
      PROVE  \A p \in Players, i \in Items : LET q == trade[p].partner IN
               (trade[p].item = i /\ Top(i) = p /\ Top(i)' \in Players \ {p}) =>
                  /\ Top(i)' = q
                  /\ trade[q].item # None
                  /\ "ACCEPT" \in {trade[p].state, trade[q].state}
                  /\ trade[p].state = "ACCEPT" => place'[trade[q].item] # place[trade[q].item]
  <2> SUFFICES ASSUME NEW p \in Players, NEW i \in Items,
                      trade[p].item = i, Top(i) = p, Top(i)' \in Players \ {p}
               PROVE  LET q == trade[p].partner
                      IN  /\ Top(i)' = q
                          /\ trade[q].item # None
                          /\ "ACCEPT" \in {trade[p].state, trade[q].state}
                          /\ trade[p].state = "ACCEPT" =>
                               place'[trade[q].item] # place[trade[q].item]
    OBVIOUS
  <2>1. place' # place
    <3> SUFFICES ASSUME place' = place
                 PROVE  FALSE
      OBVIOUS
    <3>1. Top(i)' = Top(i)
      BY DEF Top
    <3> QED
      BY <3>1
  <2>2. ASSUME NEW m \in Players, NEW k \in Items, NEW dest \in {m} \cup Squares \cup Bags,
               MoveItem(m, k, dest)
        PROVE  FALSE
    <3>1. Top(i)' \in {p} \cup Squares
      BY <1>1, <2>2, NotTakenByHand
    <3> QED
      BY <3>1 DEF Squares
  <2>3. ASSUME NEW k \in Items, RemoveItem(k)
        PROVE  FALSE
    <3>1. Top(i)' \in {p, None}
      BY <1>1, <2>3, NotTakenByRemoval
    <3> QED
      BY <3>1
  <2>4. PICK r \in Players : AcceptTransfers(r)
    BY <1>1, <2>1, <2>2, <2>3, NothingMoves
  <2>5. PICK s, mine, yours, d, e : Swapped(r, s, mine, yours, d, e)
    BY <1>1, <2>4, TransferSwaps
  <2>6. /\ Top(mine)' = s /\ place[mine] # d
        /\ Top(yours)' \in {r, Top(yours)}
    BY <1>1, <2>5, SwappedTops
  <2>7. /\ s \in Players /\ s # r /\ trade[r].partner = s /\ trade[s].partner = r
        /\ mine = trade[r].item /\ yours = trade[s].item
        /\ mine \in tradeItems /\ yours \in tradeItems /\ mine # yours
        /\ trade[r].state # "ACCEPT" /\ trade[s].state = "ACCEPT"
        /\ place' = [place EXCEPT ![mine] = d, ![yours] = e]
    BY <2>5 DEF Swapped
  <2>8. /\ mine \in Items /\ yours \in Items /\ place'[mine] = d
        /\ mine # None /\ yours # None /\ i # None
    BY <1>1, <2>7 DEF IInv, TypeOK
  <2>9. CASE p = r
    BY <2>6, <2>7, <2>8, <2>9
  <2>10. CASE p = s
    BY <2>6, <2>7, <2>8, <2>10
  <2>11. CASE p # r /\ p # s
    <3>1. i \in tradeItems
      BY <1>1, <2>8, Offers
    <3>2. i # mine /\ i # yours
      BY <1>1, <2>7, <2>8, <2>11, OneOwner
    <3>3. place[i] # mine /\ place[i] # yours
      BY <1>1, <2>7, <3>1 DEF IInv, TradesStand
    <3>4. Top(i)' = Top(i)
      BY <1>1, <2>7, <3>2, <3>3 DEF Top, IInv, TypeOK
    <3> QED
      BY <3>4
  <2> QED
    BY <2>9, <2>10, <2>11
<1>2. IInv /\ [Next]_vars
        => [\A p \in Players, i \in Items : LET q == trade[p].partner IN
              (trade[p].item = i /\ Top(i) = p /\ Top(i)' \in Players \ {p}) =>
                 /\ Top(i)' = q
                 /\ trade[q].item # None
                 /\ "ACCEPT" \in {trade[p].state, trade[q].state}
                 /\ trade[p].state = "ACCEPT" => place'[trade[q].item] # place[trade[q].item]]_vars
  BY <1>1
<1> QED
  BY <1>2, InductiveInv, PTL DEF Spec, OnlyByAgreement

-----------------------------------------------------------------------------
(* Parties: the lists of members                                           *)

\* Where the first occurrence is, in a list that holds nothing twice.
LEMMA FirstRemoved ==
  ASSUME NEW S, NEW s \in Seq(S), IsInjective(s), NEW e, NEW i \in 1..Len(s), s[i] = e
  PROVE  RemoveFirst(s, e) = SubSeq(s, 1, i - 1) \o SubSeq(s, i + 1, Len(s))
<1> DEFINE I == {j \in 1..Len(s) : s[j] = e}
<1>0. Len(s) \in Nat /\ DOMAIN s = 1..Len(s)
  BY LenProperties
<1>1. I = {i}
  BY <1>0 DEF IsInjective
<1>2. SelectInSeq(s, LAMBDA v : v = e) = i
  <2>1. Min(I) = i
    BY <1>1, <1>0 DEF Min
  <2>2. SelectInSeq(s, LAMBDA v : v = e) = IF I # {} THEN Min(I) ELSE 0
    BY DEF SelectInSeq
  <2> QED BY <1>1, <2>1, <2>2
<1>3. RemoveFirst(s, e) = RemoveAt(s, SelectInSeq(s, LAMBDA v : v = e))
  BY <1>0 DEF RemoveFirst
<1> QED BY <1>2, <1>3 DEF RemoveAt

\* Taking a player off a list of different players leaves a list of the others.
LEMMA RemovalFacts ==
  ASSUME NEW S, NEW s \in Seq(S), IsInjective(s), NEW e
  PROVE  /\ RemoveFirst(s, e) \in Seq(S)
         /\ IsInjective(RemoveFirst(s, e))
         /\ ToSet(RemoveFirst(s, e)) = ToSet(s) \ {e}
<1> DEFINE r == RemoveFirst(s, e)
<1>0. Len(s) \in Nat /\ DOMAIN s = 1..Len(s) /\ \A i \in 1..Len(s) : s[i] \in S
  BY LenProperties, ElementOfSeq
<1>1. CASE e \notin ToSet(s)
  <2>1. r = s
    BY <1>0, <1>1 DEF RemoveFirst, ToSet
  <2> QED BY <1>1, <2>1
<1>2. CASE e \in ToSet(s)
  <2>1. PICK i \in 1..Len(s) : s[i] = e
    BY <1>0, <1>2 DEF ToSet
  <2> DEFINE a == SubSeq(s, 1, i - 1)
             c == SubSeq(s, i + 1, Len(s))
             k == Len(s) - 1
  <2>2. r = a \o c
    BY <2>1, FirstRemoved
  <2>3. /\ a \in Seq(S) /\ Len(a) = i - 1 
        /\ \A j \in 1..(i - 1) : a[j] = s[j]
    BY <1>0, <2>1, SubSeqProperties
  <2>4. /\ c \in Seq(S) /\ Len(c) = Len(s) - i
        /\ \A j \in 1..(Len(s) - i) : c[j] = s[j + i]
    <3>1. /\ i + 1 \in Int /\ Len(s) \in Int /\ Len(s) - (i + 1) + 1 = Len(s) - i
          /\ \A j \in (i + 1)..Len(s) : s[j] \in S
      BY <1>0, <2>1
    <3>2. /\ c \in Seq(S)
          /\ Len(c) = IF i + 1 <= Len(s) THEN Len(s) - (i + 1) + 1 ELSE 0
          /\ \A j \in 1..(Len(s) - (i + 1) + 1) : c[j] = s[(i + 1) + j - 1]
      BY <3>1, SubSeqProperties
    <3> HIDE DEF c
    <3>3. Len(c) = Len(s) - i
      <4>1. ASSUME NEW n \in Nat, NEW j \in 1..n
            PROVE  (IF j + 1 <= n THEN n - (j + 1) + 1 ELSE 0) = n - j
        OBVIOUS
      <4> QED BY <1>0, <3>2, <4>1
    <3>4. ASSUME NEW j \in 1..(Len(s) - i) PROVE c[j] = s[j + i]
      <4>1. (i + 1) + j - 1 = j + i
        BY <1>0, <2>1
      <4> QED BY <3>1, <3>2, <4>1
    <3> QED BY <3>2, <3>3, <3>4
  <2>5. /\ r \in Seq(S) /\ Len(r) = k
        /\ \A j \in 1..k : r[j] = IF j < i THEN s[j] ELSE s[j + 1]
    <3> HIDE DEF a, c, r
    <3>1. a \o c \in Seq(S) /\ Len(a \o c) = Len(a) + Len(c)
          /\ \A j \in 1..(Len(a) + Len(c)) : (a \o c)[j] = IF j <= Len(a) THEN a[j] ELSE c[j - Len(a)]
      BY <2>3, <2>4, ConcatProperties
    <3>2. \A j \in 1..k : r[j] = IF j < i THEN s[j] ELSE s[j + 1]
      <4> TAKE j \in 1..k
      <4>1. CASE j < i
        BY <1>0, <2>1, <2>2, <2>3, <2>4, <3>1, <4>1
      <4>2. CASE ~(j < i)
        <5>1. r[j] = c[j - (i - 1)] /\ j - (i - 1) \in 1..(Len(s) - i)
          BY <1>0, <2>1, <2>2, <2>3, <2>4, <3>1, <4>2
        <5> QED BY <1>0, <2>1, <2>4, <4>2, <5>1
      <4> QED BY <4>1, <4>2
    <3> QED BY <1>0, <2>1, <2>2, <2>3, <2>4, <3>1, <3>2
  <2> HIDE DEF r, a, c
  <2>6. DOMAIN r = 1..k /\ k \in Nat
    BY <1>0, <2>1, <2>5, LenProperties
  <2>7. IsInjective(r)
    <3>1. SUFFICES ASSUME NEW j \in 1..k, NEW n \in 1..k, r[j] = r[n] PROVE j = n
      BY <2>6 DEF IsInjective
    <3> DEFINE at(m) == IF m < i THEN m ELSE m + 1
    <3>2. at(j) \in 1..Len(s) /\ at(n) \in 1..Len(s) /\ s[at(j)] = s[at(n)]
      BY <1>0, <2>1, <2>5, <3>1
    <3>3. at(j) = at(n)
      BY <1>0, <3>2 DEF IsInjective
    <3> QED BY <1>0, <2>1, <3>3
  <2>8. ToSet(r) \subseteq ToSet(s) \ {e}
    BY <1>0, <2>1, <2>5, <2>6 DEF ToSet, IsInjective
  <2>9. ASSUME NEW o \in ToSet(s) \ {e} PROVE o \in ToSet(r)
    <3>1. PICK j \in 1..Len(s) : s[j] = o
      BY <1>0 DEF ToSet
    <3>2. j # i
      BY <2>1, <2>9, <3>1
    <3>3. CASE j < i
      BY <1>0, <2>1, <2>5, <2>6, <3>1, <3>3 DEF ToSet
    <3>4. CASE j > i
      <4>1. j - 1 \in 1..k /\ r[j - 1] = s[j]
        BY <1>0, <2>1, <2>5, <3>1, <3>4
      <4> QED BY <2>6, <3>1, <4>1 DEF ToSet
    <3> QED BY <3>2, <3>3, <3>4
  <2> QED BY <2>5, <2>7, <2>8, <2>9 DEF r
<1> QED BY <1>1, <1>2

LEMMA AppendFacts ==
  ASSUME NEW S, NEW s \in Seq(S), IsInjective(s), NEW e \in S, e \notin ToSet(s)
  PROVE  /\ Append(s, e) \in Seq(S)
         /\ IsInjective(Append(s, e))
         /\ ToSet(Append(s, e)) = ToSet(s) \cup {e}
<1>1. Len(s) \in Nat /\ DOMAIN s = 1..Len(s)
  BY LenProperties
<1>2. /\ Append(s, e) \in Seq(S) /\ Len(Append(s, e)) = Len(s) + 1
      /\ Append(s, e)[Len(s) + 1] = e
      /\ \A i \in 1..Len(s) : Append(s, e)[i] = s[i]
  BY <1>1, AppendProperties
<1>3. DOMAIN Append(s, e) = 1..(Len(s) + 1)
  BY <1>2, LenProperties
<1> DEFINE r == Append(s, e)
<1> HIDE DEF r
<1> QED BY <1>1, <1>2, <1>3 DEF IsInjective, ToSet, r

LEMMA ConsFacts ==
  ASSUME NEW S, NEW s \in Seq(S), IsInjective(s), NEW e \in S, e \notin ToSet(s)
  PROVE  /\ <<e>> \o s \in Seq(S)
         /\ IsInjective(<<e>> \o s)
         /\ ToSet(<<e>> \o s) = ToSet(s) \cup {e}
<1> DEFINE r == <<e>> \o s
<1>1. Len(s) \in Nat /\ DOMAIN s = 1..Len(s)
  BY LenProperties
<1>2. <<e>> \in Seq(S) /\ Len(<<e>>) = 1 /\ <<e>>[1] = e
  OBVIOUS
<1>3. /\ r \in Seq(S) /\ Len(r) = 1 + Len(s)
      /\ \A i \in 1..(1 + Len(s)) : r[i] = IF i <= 1 THEN <<e>>[i] ELSE s[i - 1]
  BY <1>2, ConcatProperties
<1> HIDE DEF r
<1>4. DOMAIN r = 1..(Len(s) + 1) /\ r[1] = e /\ \A i \in 1..Len(s) : r[i + 1] = s[i]
  BY <1>1, <1>2, <1>3, LenProperties
<1>5. \A i \in 1..(Len(s) + 1) : i = 1 \/ (i - 1 \in 1..Len(s) /\ r[i] = s[i - 1])
  BY <1>1, <1>2, <1>3
<1>6. IsInjective(r)
  <2>1. SUFFICES ASSUME NEW j \in 1..(Len(s) + 1), NEW k \in 1..(Len(s) + 1), r[j] = r[k]
                 PROVE  j = k
    BY <1>4 DEF IsInjective
  <2>2. \A i \in 1..Len(s) : s[i] # e
    BY <1>1 DEF ToSet
  <2>3. CASE j = 1 \/ k = 1
    BY <1>4, <1>5, <2>1, <2>2, <2>3
  <2>4. CASE j # 1 /\ k # 1
    <3>1. j - 1 \in DOMAIN s /\ k - 1 \in DOMAIN s /\ s[j - 1] = s[k - 1]
      BY <1>1, <1>5, <2>1, <2>4
    <3>2. j - 1 = k - 1
      BY <3>1 DEF IsInjective
    <3> QED BY <1>1, <3>2
  <2> QED BY <2>3, <2>4
<1>7. ToSet(r) \subseteq ToSet(s) \cup {e}
  BY <1>1, <1>4, <1>5 DEF ToSet
<1>8. ToSet(s) \cup {e} \subseteq ToSet(r)
  <2>1. \A i \in 1..Len(s) : i + 1 \in 1..(Len(s) + 1)
    BY <1>1
  <2>2. 1 \in 1..(Len(s) + 1)
    BY <1>1
  <2> QED BY <1>1, <1>4, <2>1, <2>2 DEF ToSet
<1> QED BY <1>3, <1>6, <1>7, <1>8 DEF r

LEMMA ListSetFacts ==
  ASSUME NEW S, NEW s \in Seq(S)
  PROVE  /\ ToSet(s) \subseteq S
         /\ ToSet(s) = {} <=> s = <<>>
         /\ s # <<>> => Head(s) \in ToSet(s)
         /\ Len(s) <= 1 /\ s # <<>> => ToSet(s) = {Head(s)}
<1>1. Len(s) \in Nat /\ DOMAIN s = 1..Len(s) /\ \A i \in 1..Len(s) : s[i] \in S
  BY LenProperties, ElementOfSeq
<1>2. s # <<>> => Len(s) >= 1 /\ Head(s) = s[1]
  BY <1>1, EmptySeq, HeadTailProperties
<1>3. s = <<>> => Len(s) = 0
  OBVIOUS
<1>4. ToSet(s) \subseteq S
  BY <1>1 DEF ToSet
<1>5. s # <<>> => 1 \in DOMAIN s
  BY <1>1, <1>2
<1>6. s = <<>> => DOMAIN s = {}
  BY <1>1, <1>3
<1>7. s # <<>> => Head(s) \in ToSet(s)
  BY <1>2, <1>5 DEF ToSet
<1>8. ToSet(s) = {} <=> s = <<>>
  <2>1. s = <<>> => ToSet(s) = {}
    BY <1>6 DEF ToSet
  <2> QED BY <1>7, <2>1
<1>9. Len(s) <= 1 /\ s # <<>> => ToSet(s) = {Head(s)}
  <2> SUFFICES ASSUME Len(s) <= 1, s # <<>> PROVE ToSet(s) = {Head(s)}
    OBVIOUS
  <2>1. DOMAIN s = {1}
    <3>1. Len(s) = 1
      BY <1>1, <1>2
    <3> QED BY <1>1, <3>1
  <2> QED BY <1>2, <2>1 DEF ToSet
<1> QED BY <1>4, <1>7, <1>8, <1>9

-----------------------------------------------------------------------------
(* Worlds                                                                  *)

\* What every method leaves behind, but for parties that are kept for nobody.
Sound(v, there) == v \in World /\ Agreement(v, there) /\ Blank(v)

LEMMA Fields ==
  ASSUME NEW v \in World
  PROVE  /\ v.leader \in [Parties -> Players \cup {None}]
         /\ v.memberList \in [Parties -> Seq(Players)]
         /\ v.inviteList \in [Parties -> SUBSET Players]
         /\ v.party \in [Players -> Parties \cup {None}]
         /\ v.invitePartyList \in [Players -> SUBSET Parties]
         /\ \A b \in Parties : Members(v, b) \subseteq Players
         /\ Alive(v) \subseteq Parties
         /\ \A b \in Alive(v) : v.leader[b] \in Players /\ All(v, b) \subseteq Players
<1>1. /\ v.leader \in [Parties -> Players \cup {None}]
      /\ v.memberList \in [Parties -> Seq(Players)]
      /\ v.inviteList \in [Parties -> SUBSET Players]
      /\ v.party \in [Players -> Parties \cup {None}]
      /\ v.invitePartyList \in [Players -> SUBSET Parties]
  BY DEF World
<1>2. \A b \in Parties : Members(v, b) \subseteq Players
  BY <1>1, ListSetFacts DEF Members
<1>3. \A b \in Alive(v) : b \in Parties /\ v.leader[b] \in Players
  BY <1>1 DEF Alive
<1> QED BY <1>1, <1>2, <1>3 DEF All

\* Sound, in the parts that its proofs go through.
LEMMA SoundParts ==
  ASSUME NEW v, NEW there,
         v \in World,
         \A p \in Players, b \in Parties : v.party[p] = b <=> b \in Alive(v) /\ p \in All(v, b),
         \A p \in Players, b \in Parties : b \in v.invitePartyList[p] <=> p \in v.inviteList[b],
         \A p \in Players, b \in Parties :
           p \in v.inviteList[b] => b \in Alive(v) /\ p \in there /\ v.party[p] # b,
         \A b \in Alive(v) : IsInjective(v.memberList[b]),
         \A b \in Alive(v) : v.leader[b] \notin Members(v, b) /\ All(v, b) \subseteq there,
         \A b \in Parties \ Alive(v) : v.memberList[b] = <<>>
  PROVE  Sound(v, there)
BY DEF Sound, Agreement, Blank

LEMMA SoundFacts ==
  ASSUME NEW v, NEW there, Sound(v, there)
  PROVE  /\ v \in World
         /\ \A p \in Players, b \in Parties :
              v.party[p] = b <=> b \in Alive(v) /\ p \in All(v, b)
         /\ \A p \in Players, b \in Parties : b \in v.invitePartyList[p] <=> p \in v.inviteList[b]
         /\ \A p \in Players, b \in Parties :
              p \in v.inviteList[b] => b \in Alive(v) /\ p \in there /\ v.party[p] # b
         /\ \A b \in Alive(v) : IsInjective(v.memberList[b])
         /\ \A b \in Alive(v) : v.leader[b] \notin Members(v, b) /\ All(v, b) \subseteq there
         /\ \A b \in Parties \ Alive(v) : v.memberList[b] = <<>>
BY DEF Sound, Agreement, Blank

\* A party of which nothing changed is the same group.
SameGroup(u, v, b) ==
  /\ u.leader[b] = v.leader[b]
  /\ u.memberList[b] = v.memberList[b]
  /\ u.inviteList[b] = v.inviteList[b]

LEMMA SameFacts ==
  ASSUME NEW u, NEW v, NEW b \in Parties, SameGroup(u, v, b)
  PROVE  /\ b \in Alive(u) <=> b \in Alive(v)
         /\ Members(u, b) = Members(v, b)
         /\ All(u, b) = All(v, b)
         /\ Party(u, b) = Party(v, b)
         /\ Empty(u, b) <=> Empty(v, b)
BY DEF SameGroup, Alive, Members, All, Party, Empty

\* Disbanding leaves a sound world, without the parties disbanded and with all others as
\* they were.
LEMMA DisbandFacts ==
  ASSUME NEW v, NEW there, Sound(v, there),
         NEW gone \in SUBSET Alive(v)
  PROVE  LET d == Disband(v, gone)
         IN  /\ Sound(d, there)
             /\ Alive(d) = Alive(v) \ gone
             /\ \A b \in Alive(d) : SameGroup(d, v, b)
             /\ \A p \in Players : d.party[p] \in {v.party[p], None}
             /\ \A p \in Players : d.party[p] = None <=> v.party[p] \in gone \cup {None}
             /\ \A p \in Players : d.invitePartyList[p] \subseteq v.invitePartyList[p]
<1> DEFINE d == Disband(v, gone)
<1>1. /\ v.leader \in [Parties -> Players \cup {None}]
      /\ v.memberList \in [Parties -> Seq(Players)]
      /\ v.inviteList \in [Parties -> SUBSET Players]
      /\ v.party \in [Players -> Parties \cup {None}]
      /\ v.invitePartyList \in [Players -> SUBSET Parties]
      /\ gone \subseteq Parties
      /\ Alive(v) \subseteq Parties
  BY SoundFacts, Fields
<1>2. /\ d.leader = [b \in Parties |-> IF b \in gone THEN None ELSE v.leader[b]]
      /\ d.memberList = [b \in Parties |-> IF b \in gone THEN <<>> ELSE v.memberList[b]]
      /\ d.inviteList = [b \in Parties |-> IF b \in gone THEN {} ELSE v.inviteList[b]]
      /\ d.party = [p \in Players |-> IF \E b \in gone : p \in All(v, b) THEN None ELSE v.party[p]]
      /\ d.invitePartyList =
           [p \in Players |-> v.invitePartyList[p] \ {b \in gone : p \in v.inviteList[b]}]
  BY DEF Disband, Without
<1>3. d \in World
  <2>1. /\ d.leader \in [Parties -> Players \cup {None}]
        /\ d.memberList \in [Parties -> Seq(Players)]
        /\ d.inviteList \in [Parties -> SUBSET Players]
        /\ d.party \in [Players -> Parties \cup {None}]
        /\ d.invitePartyList \in [Players -> SUBSET Parties]
    BY <1>1, <1>2
  <2> QED BY <2>1 DEF World, Disband
<1> HIDE DEF d
<1>4. /\ Alive(d) = Alive(v) \ gone
      /\ \A b \in Parties \ gone : SameGroup(d, v, b)
  BY <1>1, <1>2 DEF Alive, SameGroup
<1>5. \A p \in Players : (\E b \in gone : p \in All(v, b)) <=> v.party[p] \in gone
  BY <1>1, SoundFacts
<1>6. \A p \in Players : d.party[p] = IF v.party[p] \in gone THEN None ELSE v.party[p]
  BY <1>2, <1>5
<1>7. \A b \in Alive(d) :
        /\ b \in Alive(v) \ gone
        /\ Members(d, b) = Members(v, b) /\ All(d, b) = All(v, b)
        /\ d.memberList[b] = v.memberList[b] /\ d.leader[b] = v.leader[b]
        /\ d.inviteList[b] = v.inviteList[b]
  <2> SUFFICES ASSUME NEW b \in Alive(d)
               PROVE  /\ b \in Alive(v) \ gone
                      /\ Members(d, b) = Members(v, b) /\ All(d, b) = All(v, b)
                      /\ SameGroup(d, v, b)
    BY DEF SameGroup
  <2>1. b \in Parties \ gone /\ b \in Alive(v) \ gone /\ SameGroup(d, v, b)
    BY <1>1, <1>4
  <2> QED BY <2>1, SameFacts
<1>8. Sound(d, there)
  <2>1. \A p \in Players, b \in Parties : d.party[p] = b <=> b \in Alive(d) /\ p \in All(d, b)
    <3> SUFFICES ASSUME NEW p \in Players, NEW b \in Parties
                 PROVE  d.party[p] = b <=> b \in Alive(d) /\ p \in All(d, b)
      OBVIOUS
    <3>1. v.party[p] = b <=> b \in Alive(v) /\ p \in All(v, b)
      BY SoundFacts
    <3>2. b # None
      BY PartyAssumption
    <3> QED BY <1>4, <1>6, <1>7, <3>1, <3>2
  <2>2. \A p \in Players, b \in Parties : b \in d.invitePartyList[p] <=> p \in d.inviteList[b]
    <3> SUFFICES ASSUME NEW p \in Players, NEW b \in Parties
                 PROVE  b \in d.invitePartyList[p] <=> p \in d.inviteList[b]
      OBVIOUS
    <3>1. b \in v.invitePartyList[p] <=> p \in v.inviteList[b]
      BY SoundFacts
    <3> QED BY <1>2, <3>1
  <2>3. \A p \in Players, b \in Parties :
          p \in d.inviteList[b] => b \in Alive(d) /\ p \in there /\ d.party[p] # b
    <3> SUFFICES ASSUME NEW p \in Players, NEW b \in Parties, p \in d.inviteList[b]
                 PROVE  b \in Alive(d) /\ p \in there /\ d.party[p] # b
      OBVIOUS
    <3>1. b \notin gone /\ p \in v.inviteList[b]
      BY <1>2
    <3>2. b \in Alive(v) /\ p \in there /\ v.party[p] # b /\ b # None
      BY <3>1, SoundFacts, PartyAssumption
    <3> QED BY <1>4, <1>6, <3>1, <3>2
  <2>4. \A b \in Alive(d) : IsInjective(d.memberList[b])
    BY <1>7, SoundFacts
  <2>5. \A b \in Alive(d) : d.leader[b] \notin Members(d, b) /\ All(d, b) \subseteq there
    BY <1>7, SoundFacts
  <2>6. \A b \in Parties \ Alive(d) : d.memberList[b] = <<>>
    BY <1>2, <1>4, SoundFacts
  <2> QED BY <1>3, <2>1, <2>2, <2>3, <2>4, <2>5, <2>6, SoundParts
<1>9. \A p \in Players : d.invitePartyList[p] \subseteq v.invitePartyList[p]
  BY <1>2
<1>10. None \notin gone
  BY <1>1, PartyAssumption
<1> QED
  <2>1. /\ Sound(d, there)
        /\ Alive(d) = Alive(v) \ gone
        /\ \A b \in Alive(d) : SameGroup(d, v, b)
    BY <1>1, <1>4, <1>7, <1>8 DEF SameGroup
  <2>2. \A p \in Players : d.party[p] \in {v.party[p], None}
    BY <1>6
  <2>3. \A p \in Players : d.party[p] = None <=> v.party[p] \in gone \cup {None}
    BY <1>6
  <2> QED BY <1>9, <2>1, <2>2, <2>3 DEF d

\* A player who founds a party, before the first invitation.
LEMMA FoundFacts ==
  ASSUME NEW v, NEW there \in SUBSET Players, Sound(v, there),
         NEW b \in Parties \ Alive(v), NEW p \in there, v.party[p] = None
  PROVE  LET f == Found(v, b, p)
         IN  /\ Sound(f, there)
             /\ Alive(f) = Alive(v) \cup {b}
             /\ \A c \in Alive(v) : SameGroup(f, v, c)
             /\ f.leader[b] = p /\ Members(f, b) = {} /\ f.inviteList[b] = {}
             /\ \A q \in Players \ {p} : f.party[q] = v.party[q]
<1> DEFINE f == Found(v, b, p)
<1>1. /\ v.leader \in [Parties -> Players \cup {None}]
      /\ v.memberList \in [Parties -> Seq(Players)]
      /\ v.inviteList \in [Parties -> SUBSET Players]
      /\ v.party \in [Players -> Parties \cup {None}]
      /\ v.invitePartyList \in [Players -> SUBSET Parties]
      /\ Alive(v) \subseteq Parties
  BY SoundFacts, Fields
<1>2. /\ f.leader = [v.leader EXCEPT ![b] = p]
      /\ f.memberList = v.memberList
      /\ f.inviteList = v.inviteList
      /\ f.party = [v.party EXCEPT ![p] = b]
      /\ f.invitePartyList = v.invitePartyList
  BY DEF Found
<1>3. f \in World
  BY <1>1 DEF World, Found
<1> HIDE DEF f
<1>4. v.memberList[b] = <<>> /\ v.inviteList[b] = {} /\ None \notin Players /\ None \notin Parties
  BY <1>1, SoundFacts, PartyAssumption
<1>5. Alive(f) = Alive(v) \cup {b}
  BY <1>1, <1>2, <1>4 DEF Alive
<1>6. \A c \in Alive(v) : SameGroup(f, v, c) /\ Members(f, c) = Members(v, c) /\ All(f, c) = All(v, c)
  <2> SUFFICES ASSUME NEW c \in Alive(v)
               PROVE  /\ SameGroup(f, v, c)
                      /\ Members(f, c) = Members(v, c) /\ All(f, c) = All(v, c)
    OBVIOUS
  <2>1. SameGroup(f, v, c) /\ c \in Parties
    BY <1>1, <1>2 DEF SameGroup
  <2> QED BY <2>1, SameFacts
<1>7. Members(f, b) = {} /\ f.leader[b] = p /\ All(f, b) = {p}
  BY <1>1, <1>2, <1>4, ListSetFacts DEF Members, All
<1>8. Sound(f, there)
  <2>1. \A q \in Players, c \in Parties : f.party[q] = c <=> c \in Alive(f) /\ q \in All(f, c)
    <3> SUFFICES ASSUME NEW q \in Players, NEW c \in Parties
                 PROVE  f.party[q] = c <=> c \in Alive(f) /\ q \in All(f, c)
      OBVIOUS
    <3>1. v.party[q] = c <=> c \in Alive(v) /\ q \in All(v, c)
      BY SoundFacts
    <3>2. c # None
      BY <1>4
    <3>3. CASE c = b
      BY <1>1, <1>2, <1>5, <1>7, <3>1, <3>3
    <3>4. CASE c # b
      BY <1>1, <1>2, <1>5, <1>6, <3>1, <3>2, <3>4
    <3> QED BY <3>3, <3>4
  <2>2. \A q \in Players, c \in Parties : c \in f.invitePartyList[q] <=> q \in f.inviteList[c]
    BY <1>2, SoundFacts
  <2>3. \A q \in Players, c \in Parties :
          q \in f.inviteList[c] => c \in Alive(f) /\ q \in there /\ f.party[q] # c
    <3> SUFFICES ASSUME NEW q \in Players, NEW c \in Parties, q \in f.inviteList[c]
                 PROVE  c \in Alive(f) /\ q \in there /\ f.party[q] # c
      OBVIOUS
    <3>1. c \in Alive(v) /\ q \in there /\ v.party[q] # c
      BY <1>2, SoundFacts
    <3> QED BY <1>1, <1>2, <1>5, <3>1
  <2>4. \A c \in Alive(f) : IsInjective(f.memberList[c])
    <3>1. IsInjective(<<>>)
      BY DEF IsInjective
    <3> QED BY <1>2, <1>4, <1>5, <3>1, SoundFacts
  <2>5. \A c \in Alive(f) : f.leader[c] \notin Members(f, c) /\ All(f, c) \subseteq there
    BY <1>5, <1>6, <1>7, SoundFacts DEF SameGroup
  <2>6. \A c \in Parties \ Alive(f) : f.memberList[c] = <<>>
    BY <1>2, <1>5, SoundFacts
  <2> QED BY <1>3, <2>1, <2>2, <2>3, <2>4, <2>5, <2>6, SoundParts
<1>9. f.inviteList[b] = {} /\ \A q \in Players \ {p} : f.party[q] = v.party[q]
  BY <1>1, <1>2, <1>4
<1> QED BY <1>5, <1>6, <1>7, <1>8, <1>9 DEF f

LEMMA InviteFacts ==
  ASSUME NEW v, NEW there \in SUBSET Players, Sound(v, there),
         NEW b \in Alive(v), NEW q \in there, v.party[q] # b
  PROVE  LET i == InvitePlayer(v, b, q)
         IN  /\ Sound(i, there)
             /\ Alive(i) = Alive(v)
             /\ \A c \in Alive(v) \ {b} : SameGroup(i, v, c)
             /\ i.leader[b] = v.leader[b] /\ i.memberList[b] = v.memberList[b]
             /\ i.inviteList[b] = v.inviteList[b] \cup {q}
             /\ i.party = v.party
<1> DEFINE i == InvitePlayer(v, b, q)
<1>1. /\ v.leader \in [Parties -> Players \cup {None}]
      /\ v.memberList \in [Parties -> Seq(Players)]
      /\ v.inviteList \in [Parties -> SUBSET Players]
      /\ v.party \in [Players -> Parties \cup {None}]
      /\ v.invitePartyList \in [Players -> SUBSET Parties]
      /\ Alive(v) \subseteq Parties
  BY SoundFacts, Fields
<1>2. /\ i.leader = v.leader
      /\ i.memberList = v.memberList
      /\ i.inviteList = [v.inviteList EXCEPT ![b] = @ \cup {q}]
      /\ i.party = v.party
      /\ i.invitePartyList = [v.invitePartyList EXCEPT ![q] = @ \cup {b}]
  BY DEF InvitePlayer
<1>3. i \in World
  BY <1>1 DEF World, InvitePlayer
<1> HIDE DEF i
<1>4. Alive(i) = Alive(v) /\ \A c \in Parties : Members(i, c) = Members(v, c) /\ All(i, c) = All(v, c)
  BY <1>2 DEF Alive, Members, All
<1>5. \A c \in Alive(v) \ {b} : SameGroup(i, v, c)
  BY <1>1, <1>2 DEF SameGroup
<1>6. Sound(i, there)
  <2>1. \A p \in Players, c \in Parties : i.party[p] = c <=> c \in Alive(i) /\ p \in All(i, c)
    BY <1>2, <1>4, SoundFacts
  <2>2. \A p \in Players, c \in Parties : c \in i.invitePartyList[p] <=> p \in i.inviteList[c]
    <3> SUFFICES ASSUME NEW p \in Players, NEW c \in Parties
                 PROVE  c \in i.invitePartyList[p] <=> p \in i.inviteList[c]
      OBVIOUS
    <3>1. c \in v.invitePartyList[p] <=> p \in v.inviteList[c]
      BY SoundFacts
    <3> QED BY <1>1, <1>2, <3>1
  <2>3. \A p \in Players, c \in Parties :
          p \in i.inviteList[c] => c \in Alive(i) /\ p \in there /\ i.party[p] # c
    <3> SUFFICES ASSUME NEW p \in Players, NEW c \in Parties, p \in i.inviteList[c]
                 PROVE  c \in Alive(i) /\ p \in there /\ i.party[p] # c
      OBVIOUS
    <3>1. p \in v.inviteList[c] \/ (c = b /\ p = q)
      BY <1>1, <1>2
    <3> QED BY <1>2, <1>4, <3>1, SoundFacts
  <2>4. \A c \in Alive(i) : IsInjective(i.memberList[c])
    BY <1>2, <1>4, SoundFacts
  <2>5. \A c \in Alive(i) : i.leader[c] \notin Members(i, c) /\ All(i, c) \subseteq there
    BY <1>1, <1>2, <1>4, SoundFacts
  <2>6. \A c \in Parties \ Alive(i) : i.memberList[c] = <<>>
    BY <1>2, <1>4, SoundFacts
  <2> QED BY <1>3, <2>1, <2>2, <2>3, <2>4, <2>5, <2>6, SoundParts
<1>7. i.inviteList[b] = v.inviteList[b] \cup {q}
  BY <1>1, <1>2
<1> QED BY <1>2, <1>4, <1>5, <1>6, <1>7 DEF i

LEMMA JoinFacts ==
  ASSUME NEW v, NEW there \in SUBSET Players, Sound(v, there),
         NEW b \in Parties, NEW p \in there, p \in v.inviteList[b], v.party[p] = None
  PROVE  LET j == JoinParty(v, b, p)
         IN  /\ Sound(j, there)
             /\ Alive(j) = Alive(v) /\ b \in Alive(v)
             /\ \A c \in Alive(v) \ {b} : SameGroup(j, v, c)
             /\ j.leader[b] = v.leader[b]
             /\ Members(j, b) = Members(v, b) \cup {p}
             /\ j.inviteList[b] = v.inviteList[b] \ {p}
<1> DEFINE j == JoinParty(v, b, p)
<1>1. /\ v.leader \in [Parties -> Players \cup {None}]
      /\ v.memberList \in [Parties -> Seq(Players)]
      /\ v.inviteList \in [Parties -> SUBSET Players]
      /\ v.party \in [Players -> Parties \cup {None}]
      /\ v.invitePartyList \in [Players -> SUBSET Parties]
      /\ Alive(v) \subseteq Parties
      /\ b \in Alive(v)
  BY SoundFacts, Fields
<1>2. /\ j.leader = v.leader
      /\ j.memberList = [v.memberList EXCEPT ![b] = Append(@, p)]
      /\ j.inviteList = [v.inviteList EXCEPT ![b] = @ \ {p}]
      /\ j.party = [v.party EXCEPT ![p] = b]
      /\ j.invitePartyList = [v.invitePartyList EXCEPT ![p] = @ \ {b}]
  BY DEF JoinParty
<1>3. p \in Players /\ None \notin Parties /\ p \notin All(v, b)
  BY <1>1, SoundFacts, PartyAssumption
<1>4. /\ Append(v.memberList[b], p) \in Seq(Players)
      /\ IsInjective(Append(v.memberList[b], p))
      /\ ToSet(Append(v.memberList[b], p)) = Members(v, b) \cup {p}
  <2>1. IsInjective(v.memberList[b])
    BY <1>1, SoundFacts
  <2> QED BY <1>1, <1>3, <2>1, AppendFacts DEF All, Members
<1>5. j \in World
  <2>1. [v.memberList EXCEPT ![b] = Append(@, p)] \in [Parties -> Seq(Players)]
    BY <1>1, <1>4
  <2>2. j.party \in [Players -> Parties \cup {None}] /\ j.inviteList \in [Parties -> SUBSET Players]
        /\ j.invitePartyList \in [Players -> SUBSET Parties]
    BY <1>1, <1>2, <1>3
  <2> QED BY <1>1, <1>2, <2>1, <2>2 DEF World, JoinParty
<1> HIDE DEF j
<1>6. Alive(j) = Alive(v)
  BY <1>2 DEF Alive
<1>7. /\ Members(j, b) = Members(v, b) \cup {p}
      /\ All(j, b) = All(v, b) \cup {p}
      /\ j.memberList[b] = Append(v.memberList[b], p)
  BY <1>1, <1>2, <1>4 DEF Members, All
<1>8. \A c \in Alive(v) \ {b} :
        SameGroup(j, v, c) /\ Members(j, c) = Members(v, c) /\ All(j, c) = All(v, c)
  BY <1>1, <1>2 DEF SameGroup, Members, All
<1>9. Sound(j, there)
  <2>1. \A q \in Players, c \in Parties : j.party[q] = c <=> c \in Alive(j) /\ q \in All(j, c)
    <3> SUFFICES ASSUME NEW q \in Players, NEW c \in Parties
                 PROVE  j.party[q] = c <=> c \in Alive(j) /\ q \in All(j, c)
      OBVIOUS
    <3>1. v.party[q] = c <=> c \in Alive(v) /\ q \in All(v, c)
      BY SoundFacts
    <3>2. CASE c = b
      BY <1>1, <1>2, <1>3, <1>6, <1>7, <3>1, <3>2
    <3>3. CASE c # b
      <4>1. c \in Alive(v) => All(j, c) = All(v, c)
        BY <1>8, <3>3
      <4>2. j.party[q] = c <=> v.party[q] = c
        BY <1>1, <1>2, <1>3, <3>3
      <4> QED BY <1>6, <3>1, <4>1, <4>2
    <3> QED BY <3>2, <3>3
  <2>2. \A q \in Players, c \in Parties : c \in j.invitePartyList[q] <=> q \in j.inviteList[c]
    <3> SUFFICES ASSUME NEW q \in Players, NEW c \in Parties
                 PROVE  c \in j.invitePartyList[q] <=> q \in j.inviteList[c]
      OBVIOUS
    <3>1. c \in v.invitePartyList[q] <=> q \in v.inviteList[c]
      BY SoundFacts
    <3> QED BY <1>1, <1>2, <1>3, <3>1
  <2>3. \A q \in Players, c \in Parties :
          q \in j.inviteList[c] => c \in Alive(j) /\ q \in there /\ j.party[q] # c
    <3> SUFFICES ASSUME NEW q \in Players, NEW c \in Parties, q \in j.inviteList[c]
                 PROVE  c \in Alive(j) /\ q \in there /\ j.party[q] # c
      OBVIOUS
    <3>1. q \in v.inviteList[c] /\ (c = b => q # p)
      BY <1>1, <1>2
    <3>2. c \in Alive(v) /\ q \in there /\ v.party[q] # c
      BY <3>1, SoundFacts
    <3> QED BY <1>1, <1>2, <1>6, <3>1, <3>2
  <2>4. \A c \in Alive(j) : IsInjective(j.memberList[c])
    BY <1>4, <1>6, <1>7, <1>8, SoundFacts DEF SameGroup
  <2>5. \A c \in Alive(j) : j.leader[c] \notin Members(j, c) /\ All(j, c) \subseteq there
    <3> SUFFICES ASSUME NEW c \in Alive(j)
                 PROVE  j.leader[c] \notin Members(j, c) /\ All(j, c) \subseteq there
      OBVIOUS
    <3>1. v.leader[c] \notin Members(v, c) /\ All(v, c) \subseteq there
      BY <1>6, SoundFacts
    <3>2. CASE c = b
      BY <1>2, <1>3, <1>7, <3>1, <3>2 DEF All
    <3>3. CASE c # b
      BY <1>2, <1>6, <1>8, <3>1, <3>3
    <3> QED BY <3>2, <3>3
  <2>6. \A c \in Parties \ Alive(j) : j.memberList[c] = <<>>
    BY <1>1, <1>2, <1>6, SoundFacts
  <2> QED BY <1>5, <2>1, <2>2, <2>3, <2>4, <2>5, <2>6, SoundParts
<1>10. j.leader[b] = v.leader[b] /\ j.inviteList[b] = v.inviteList[b] \ {p}
  BY <1>1, <1>2
<1> QED BY <1>1, <1>6, <1>7, <1>8, <1>9, <1>10 DEF j

\* removeInvite that tells the player too.
OffBoth(v, bs, p) == Uninvited(v, bs, p, TRUE)
RemoveBoth(v, bs, p) == RemoveInvite(v, bs, p, TRUE)
StillInvited(v, bs, p, b) == IF b \in bs THEN v.inviteList[b] \ {p} ELSE v.inviteList[b]

LEMMA UninvitedFacts ==
  ASSUME NEW v, NEW there \in SUBSET Players, Sound(v, there),
         NEW p \in Players, NEW bs \in SUBSET v.invitePartyList[p]
  PROVE  LET u == OffBoth(v, bs, p)
         IN  /\ Sound(u, there)
             /\ bs \subseteq Alive(v)
             /\ Alive(u) = Alive(v)
             /\ u.leader = v.leader /\ u.memberList = v.memberList /\ u.party = v.party
             /\ \A b \in Parties :
                  u.inviteList[b] = IF b \in bs THEN v.inviteList[b] \ {p} ELSE v.inviteList[b]
             /\ u.invitePartyList[p] = v.invitePartyList[p] \ bs
<1> DEFINE u == OffBoth(v, bs, p)
<1>1. /\ v.leader \in [Parties -> Players \cup {None}]
      /\ v.memberList \in [Parties -> Seq(Players)]
      /\ v.inviteList \in [Parties -> SUBSET Players]
      /\ v.party \in [Players -> Parties \cup {None}]
      /\ v.invitePartyList \in [Players -> SUBSET Parties]
      /\ Alive(v) \subseteq Parties
  BY SoundFacts, Fields
<1>2. /\ u.leader = v.leader
      /\ u.memberList = v.memberList
      /\ u.inviteList = [b \in Parties |-> IF b \in bs THEN v.inviteList[b] \ {p} ELSE v.inviteList[b]]
      /\ u.party = v.party
      /\ u.invitePartyList = [v.invitePartyList EXCEPT ![p] = @ \ bs]
  BY DEF Uninvited, OffBoth
<1>3. u \in World
  <2>1. u.inviteList \in [Parties -> SUBSET Players] /\ u.invitePartyList \in [Players -> SUBSET Parties]
    <3> HIDE DEF u
    <3> QED BY <1>1, <1>2
  <2> QED BY <1>1, <2>1 DEF World, Uninvited, OffBoth
<1> HIDE DEF u
<1>4. Alive(u) = Alive(v) /\ \A c \in Parties : Members(u, c) = Members(v, c) /\ All(u, c) = All(v, c)
  BY <1>2 DEF Alive, Members, All
<1>5. bs \subseteq Alive(v)
  BY <1>1, SoundFacts
<1>6. Sound(u, there)
  <2>1. \A q \in Players, c \in Parties : u.party[q] = c <=> c \in Alive(u) /\ q \in All(u, c)
    BY <1>2, <1>4, SoundFacts
  <2>2. \A q \in Players, c \in Parties : c \in u.invitePartyList[q] <=> q \in u.inviteList[c]
    <3> SUFFICES ASSUME NEW q \in Players, NEW c \in Parties
                 PROVE  c \in u.invitePartyList[q] <=> q \in u.inviteList[c]
      OBVIOUS
    <3>1. c \in v.invitePartyList[q] <=> q \in v.inviteList[c]
      BY SoundFacts
    <3> QED BY <1>1, <1>2, <3>1
  <2>3. \A q \in Players, c \in Parties :
          q \in u.inviteList[c] => c \in Alive(u) /\ q \in there /\ u.party[q] # c
    <3> SUFFICES ASSUME NEW q \in Players, NEW c \in Parties, q \in u.inviteList[c]
                 PROVE  c \in Alive(u) /\ q \in there /\ u.party[q] # c
      OBVIOUS
    <3>1. q \in v.inviteList[c]
      BY <1>2
    <3> QED BY <1>2, <1>4, <3>1, SoundFacts
  <2>4. \A c \in Alive(u) : IsInjective(u.memberList[c])
    BY <1>2, <1>4, SoundFacts
  <2>5. \A c \in Alive(u) : u.leader[c] \notin Members(u, c) /\ All(u, c) \subseteq there
    BY <1>1, <1>2, <1>4, SoundFacts
  <2>6. \A c \in Parties \ Alive(u) : u.memberList[c] = <<>>
    BY <1>2, <1>4, SoundFacts
  <2> QED BY <1>3, <2>1, <2>2, <2>3, <2>4, <2>5, <2>6, SoundParts
<1>7. /\ \A b \in Parties :
           u.inviteList[b] = IF b \in bs THEN v.inviteList[b] \ {p} ELSE v.inviteList[b]
      /\ u.invitePartyList[p] = v.invitePartyList[p] \ bs
  BY <1>1, <1>2
<1> QED BY <1>2, <1>4, <1>5, <1>6, <1>7 DEF u

LEMMA InvitedBy ==
  ASSUME NEW v, NEW there, Sound(v, there), NEW p \in Players, NEW bs \in SUBSET v.invitePartyList[p]
  PROVE  {b \in bs : p \in v.inviteList[b]} = bs
<1>1. v.invitePartyList[p] \subseteq Parties
  BY SoundFacts, Fields
<1> QED BY <1>1, SoundFacts

\* Ending invitations leaves the parties that still have a reason to be.
LEMMA RemoveInviteFacts ==
  ASSUME NEW v, NEW there \in SUBSET Players, Sound(v, there), Kept(v),
         NEW p \in Players, NEW bs \in SUBSET v.invitePartyList[p]
  PROVE  LET r == RemoveBoth(v, bs, p)
         IN  /\ Sound(r, there) /\ Kept(r)
             /\ bs \subseteq Alive(v)
             /\ Alive(r) = {b \in Alive(v) : v.memberList[b] # <<>> \/ StillInvited(v, bs, p, b) # {}}
             /\ \A b \in Alive(r) : /\ r.leader[b] = v.leader[b]
                                      /\ r.memberList[b] = v.memberList[b]
                                      /\ r.inviteList[b] = StillInvited(v, bs, p, b)
             /\ r.invitePartyList[p] \subseteq v.invitePartyList[p] \ bs
<1> DEFINE u == OffBoth(v, bs, p)
           gone == {b \in bs : Empty(u, b)}
           r == Disband(u, gone)
           left(b) == StillInvited(v, bs, p, b)
<1>1. /\ Sound(u, there)
      /\ bs \subseteq Alive(v)
      /\ Alive(u) = Alive(v)
      /\ u.leader = v.leader /\ u.memberList = v.memberList
      /\ \A b \in Parties : u.inviteList[b] = left(b)
      /\ u.invitePartyList[p] = v.invitePartyList[p] \ bs
  <2>1. /\ Sound(u, there)
        /\ bs \subseteq Alive(v)
        /\ Alive(u) = Alive(v)
        /\ u.leader = v.leader /\ u.memberList = v.memberList /\ u.party = v.party
        /\ \A b \in Parties :
             u.inviteList[b] = IF b \in bs THEN v.inviteList[b] \ {p} ELSE v.inviteList[b]
        /\ u.invitePartyList[p] = v.invitePartyList[p] \ bs
    BY UninvitedFacts
  <2> QED BY <2>1 DEF StillInvited
<1>2. Alive(v) \subseteq Parties
  BY SoundFacts, Fields
<1>3. RemoveBoth(v, bs, p) = r
  <2>1. {b \in bs : p \in v.inviteList[b]} = bs
    BY InvitedBy
  <2> QED BY <2>1 DEF RemoveInvite, RemoveBoth, OffBoth
<1> HIDE DEF u
<1>4. gone \in SUBSET Alive(u)
  BY <1>1
<1> HIDE DEF gone
<1>5. /\ Sound(r, there)
      /\ Alive(r) = Alive(u) \ gone
      /\ \A b \in Alive(r) : SameGroup(r, u, b)
      /\ r.invitePartyList[p] \subseteq u.invitePartyList[p]
  BY <1>1, <1>4, DisbandFacts
<1> HIDE DEF r, left
<1>6. \A b \in Alive(v) : b \in gone <=> ~(v.memberList[b] # <<>> \/ left(b) # {})
  <2> SUFFICES ASSUME NEW b \in Alive(v)
               PROVE  b \in gone <=> ~(v.memberList[b] # <<>> \/ left(b) # {})
    OBVIOUS
  <2>1. b \notin bs => left(b) = v.inviteList[b] /\ ~Empty(v, b)
    BY DEF Kept, left, StillInvited
  <2>2. Empty(u, b) <=> v.memberList[b] = <<>> /\ left(b) = {}
    BY <1>1, <1>2 DEF Empty
  <2> QED BY <2>1, <2>2 DEF gone, Empty
<1>7. Alive(r) = {b \in Alive(v) : v.memberList[b] # <<>> \/ left(b) # {}}
  BY <1>1, <1>5, <1>6
<1>8. \A b \in Alive(r) : /\ r.leader[b] = v.leader[b]
                            /\ r.memberList[b] = v.memberList[b]
                            /\ r.inviteList[b] = left(b)
  BY <1>1, <1>2, <1>5 DEF SameGroup
<1>9. Kept(r)
  BY <1>7, <1>8 DEF Kept, Empty
<1> QED BY <1>1, <1>3, <1>5, <1>7, <1>8, <1>9 DEF left

\* A player who logs out clears all invitations, and so what removePartyInvitation would.
LEMMA ClearIsRemove ==
  ASSUME NEW v, NEW there, Sound(v, there), NEW p \in Players
  PROVE  ClearPartyInvitations(v, p) = RemoveBoth(v, v.invitePartyList[p], p)
<1> DEFINE bs == v.invitePartyList[p]
           a == Uninvited(v, bs, p, FALSE)
           u == OffBoth(v, bs, p)
           gone == {b \in bs : Empty(u, b)}
           c == ClearPartyInvitations(v, p)
           r == RemoveBoth(v, bs, p)
<1>1. v.invitePartyList \in [Players -> SUBSET Parties]
  BY SoundFacts, Fields
<1>0. {b \in bs : p \in v.inviteList[b]} = bs
  BY InvitedBy
<1>2. /\ a.leader = u.leader /\ a.memberList = u.memberList /\ a.inviteList = u.inviteList
      /\ a.party = u.party /\ a.invitePartyList = v.invitePartyList
      /\ u.invitePartyList = [v.invitePartyList EXCEPT ![p] = @ \ bs]
  BY DEF Uninvited, OffBoth
<1>3. gone = {b \in bs : Empty(a, b)} /\ \A b \in Parties : All(a, b) = All(u, b)
  BY <1>2 DEF Empty, All, Members
<1>4. gone \subseteq Parties
  BY <1>1
<1> DEFINE ad == Disband(a, gone)
           ud == Disband(u, gone)
<1>5. /\ ad.leader = ud.leader /\ ad.memberList = ud.memberList /\ ad.inviteList = ud.inviteList
      /\ ad.party = ud.party
      /\ ad.invitePartyList = [q \in Players |-> v.invitePartyList[q] \ {b \in gone : q \in u.inviteList[b]}]
      /\ ud.invitePartyList = [q \in Players |-> u.invitePartyList[q] \ {b \in gone : q \in u.inviteList[b]}]
  <2> HIDE DEF a, u, gone
  <2>1. /\ ad.leader = ud.leader /\ ad.memberList = ud.memberList /\ ad.inviteList = ud.inviteList
    BY <1>2 DEF Disband
  <2>2. ad.party = ud.party
    <3>1. \A q \in Players : (\E b \in gone : q \in All(a, b)) <=> (\E b \in gone : q \in All(u, b))
      BY <1>3, <1>4
    <3>2. ad.party = [q \in Players |-> IF \E b \in gone : q \in All(a, b) THEN None ELSE a.party[q]]
      BY DEF Disband
    <3>3. ud.party = [q \in Players |-> IF \E b \in gone : q \in All(u, b) THEN None ELSE u.party[q]]
      BY DEF Disband
    <3> QED BY <1>2, <3>1, <3>2, <3>3
  <2>3. /\ ad.invitePartyList = [q \in Players |-> a.invitePartyList[q] \ {b \in gone : q \in a.inviteList[b]}]
        /\ ud.invitePartyList = [q \in Players |-> u.invitePartyList[q] \ {b \in gone : q \in u.inviteList[b]}]
    BY DEF Disband
  <2> QED BY <1>2, <2>1, <2>2, <2>3
<1>6. [ad.invitePartyList EXCEPT ![p] = {}] = ud.invitePartyList
  <2> HIDE DEF a, u, ad, ud, gone
  <2>1. \A q \in Players : [ad.invitePartyList EXCEPT ![p] = {}][q] = ud.invitePartyList[q]
    BY <1>1, <1>2, <1>5
  <2> QED BY <1>5, <2>1
<1>7. r = ud
  BY <1>0 DEF RemoveInvite, RemoveBoth, OffBoth
<1>8. RemoveInvite(v, bs, p, FALSE) = ad
  BY <1>0, <1>3 DEF RemoveInvite
<1>9. c = [leader |-> ad.leader, memberList |-> ad.memberList, inviteList |-> ad.inviteList,
           party |-> ad.party, invitePartyList |-> [ad.invitePartyList EXCEPT ![p] = {}]]
  <2> HIDE DEF ad
  <2> QED BY <1>8 DEF ClearPartyInvitations
<1>10. ud = [leader |-> ud.leader, memberList |-> ud.memberList, inviteList |-> ud.inviteList,
             party |-> ud.party, invitePartyList |-> ud.invitePartyList]
  BY DEF Disband
<1> QED
  <2> HIDE DEF ad, ud, c, r
  <2> QED BY <1>5, <1>6, <1>7, <1>9, <1>10 DEF c, r

LEMMA PassFacts ==
  ASSUME NEW v, NEW there \in SUBSET Players, Sound(v, there),
         NEW b \in Alive(v), NEW q \in Members(v, b)
  PROVE  LET s == PassPartyLeadership(v, b, q)
         IN  /\ Sound(s, there)
             /\ Alive(s) = Alive(v)
             /\ \A c \in Alive(v) \ {b} : SameGroup(s, v, c)
             /\ s.leader[b] = q
             /\ Members(s, b) = (Members(v, b) \ {q}) \cup {v.leader[b]}
             /\ s.inviteList = v.inviteList /\ s.party = v.party
             /\ s.invitePartyList = v.invitePartyList
<1> DEFINE s == PassPartyLeadership(v, b, q)
           ol == v.leader[b]
           rest == RemoveFirst(v.memberList[b], q)
<1>1. /\ v.leader \in [Parties -> Players \cup {None}]
      /\ v.memberList \in [Parties -> Seq(Players)]
      /\ v.inviteList \in [Parties -> SUBSET Players]
      /\ v.party \in [Players -> Parties \cup {None}]
      /\ v.invitePartyList \in [Players -> SUBSET Parties]
      /\ b \in Parties
      /\ Alive(v) \subseteq Parties
      /\ ol \in Players /\ q \in Players
  BY SoundFacts, Fields
<1>2. v.party[q] = b /\ ol # q /\ ol \notin Members(v, b) /\ IsInjective(v.memberList[b])
  BY <1>1, SoundFacts DEF All
<1>3. s = [leader |-> [v.leader EXCEPT ![b] = q],
           memberList |-> [v.memberList EXCEPT ![b] = <<ol>> \o rest],
           inviteList |-> v.inviteList,
           party |-> v.party,
           invitePartyList |-> v.invitePartyList]
  BY <1>2 DEF PassPartyLeadership
<1>4. /\ <<ol>> \o rest \in Seq(Players)
      /\ IsInjective(<<ol>> \o rest)
      /\ ToSet(<<ol>> \o rest) = (Members(v, b) \ {q}) \cup {ol}
  <2>1. /\ rest \in Seq(Players) /\ IsInjective(rest)
        /\ ToSet(rest) = Members(v, b) \ {q}
    BY <1>1, <1>2, RemovalFacts DEF Members
  <2> HIDE DEF rest, ol
  <2>2. ol \notin ToSet(rest)
    BY <1>2, <2>1
  <2> QED BY <1>1, <2>1, <2>2, ConsFacts
<1> DEFINE list == <<ol>> \o rest
<1> HIDE DEF s, rest, list
<1>5. /\ s.leader = [v.leader EXCEPT ![b] = q]
      /\ s.memberList = [v.memberList EXCEPT ![b] = list]
      /\ s.inviteList = v.inviteList
      /\ s.party = v.party
      /\ s.invitePartyList = v.invitePartyList
  BY <1>3 DEF list
<1>6. s \in World
  <2>1. [v.leader EXCEPT ![b] = q] \in [Parties -> Players \cup {None}]
    BY <1>1
  <2>2. [v.memberList EXCEPT ![b] = list] \in [Parties -> Seq(Players)]
    BY <1>1, <1>4 DEF list
  <2> QED BY <1>1, <1>3, <2>1, <2>2 DEF World, list
<1>7. Alive(s) = Alive(v)
  BY <1>1, <1>5, PartyAssumption DEF Alive
<1>8. /\ s.memberList[b] = list /\ s.leader[b] = q
      /\ Members(s, b) = (Members(v, b) \ {q}) \cup {ol}
      /\ All(s, b) = All(v, b)
  BY <1>1, <1>4, <1>5 DEF Members, All, list
<1>9. \A c \in Alive(v) \ {b} :
        SameGroup(s, v, c) /\ Members(s, c) = Members(v, c) /\ All(s, c) = All(v, c)
  BY <1>1, <1>5 DEF SameGroup, Members, All
<1>10. Sound(s, there)
  <2>1. \A p \in Players, c \in Parties : s.party[p] = c <=> c \in Alive(s) /\ p \in All(s, c)
    <3>1. \A c \in Alive(v) : All(s, c) = All(v, c)
      BY <1>8, <1>9
    <3> QED BY <1>5, <1>7, <3>1, SoundFacts
  <2>2. \A p \in Players, c \in Parties : c \in s.invitePartyList[p] <=> p \in s.inviteList[c]
    BY <1>5, SoundFacts
  <2>3. \A p \in Players, c \in Parties :
          p \in s.inviteList[c] => c \in Alive(s) /\ p \in there /\ s.party[p] # c
    BY <1>5, <1>7, SoundFacts
  <2>4. \A c \in Alive(s) : IsInjective(s.memberList[c])
    BY <1>4, <1>7, <1>8, <1>9, SoundFacts DEF SameGroup, list
  <2>5. \A c \in Alive(s) : s.leader[c] \notin Members(s, c) /\ All(s, c) \subseteq there
    <3> SUFFICES ASSUME NEW c \in Alive(s)
                 PROVE  s.leader[c] \notin Members(s, c) /\ All(s, c) \subseteq there
      OBVIOUS
    <3>1. v.leader[c] \notin Members(v, c) /\ All(v, c) \subseteq there
      BY <1>7, SoundFacts
    <3>2. CASE c = b
      BY <1>2, <1>8, <3>1, <3>2
    <3>3. CASE c # b
      BY <1>7, <1>9, <3>1, <3>3 DEF SameGroup
    <3> QED BY <3>2, <3>3
  <2>6. \A c \in Parties \ Alive(s) : s.memberList[c] = <<>>
    BY <1>1, <1>5, <1>7, SoundFacts
  <2> QED BY <1>6, <2>1, <2>2, <2>3, <2>4, <2>5, <2>6, SoundParts
<1> QED BY <1>5, <1>7, <1>8, <1>9, <1>10 DEF s

LEMMA RemovedFacts ==
  ASSUME NEW v, NEW there \in SUBSET Players, Sound(v, there),
         NEW b \in Alive(v), NEW p \in Members(v, b)
  PROVE  LET r == Removed(v, b, p)
         IN  /\ Sound(r, there)
             /\ Alive(r) = Alive(v)
             /\ \A c \in Alive(v) \ {b} : SameGroup(r, v, c)
             /\ r.leader = v.leader
             /\ Members(r, b) = Members(v, b) \ {p}
             /\ r.inviteList = v.inviteList
             /\ r.party[p] = None
             /\ r.invitePartyList = v.invitePartyList
<1> DEFINE r == Removed(v, b, p)
           rest == RemoveFirst(v.memberList[b], p)
<1>1. /\ v.leader \in [Parties -> Players \cup {None}]
      /\ v.memberList \in [Parties -> Seq(Players)]
      /\ v.inviteList \in [Parties -> SUBSET Players]
      /\ v.party \in [Players -> Parties \cup {None}]
      /\ v.invitePartyList \in [Players -> SUBSET Parties]
      /\ b \in Parties
      /\ Alive(v) \subseteq Parties
      /\ p \in Players
  BY SoundFacts, Fields
<1>2. v.party[p] = b /\ v.leader[b] # p /\ None \notin Parties /\ IsInjective(v.memberList[b])
  BY <1>1, SoundFacts, PartyAssumption DEF All
<1>3. rest \in Seq(Players) /\ IsInjective(rest) /\ ToSet(rest) = Members(v, b) \ {p}
  BY <1>1, <1>2, RemovalFacts DEF Members
<1>4. r = [leader |-> v.leader,
           memberList |-> [v.memberList EXCEPT ![b] = rest],
           inviteList |-> v.inviteList,
           party |-> [v.party EXCEPT ![p] = None],
           invitePartyList |-> v.invitePartyList]
  BY DEF Removed
<1> HIDE DEF r, rest
<1>5. /\ r.leader = v.leader
      /\ r.memberList = [v.memberList EXCEPT ![b] = rest]
      /\ r.inviteList = v.inviteList
      /\ r.party = [v.party EXCEPT ![p] = None]
      /\ r.invitePartyList = v.invitePartyList
  BY <1>4
<1>6. r \in World
  <2>1. [v.memberList EXCEPT ![b] = rest] \in [Parties -> Seq(Players)]
    BY <1>1, <1>3
  <2>2. [v.party EXCEPT ![p] = None] \in [Players -> Parties \cup {None}]
    BY <1>1
  <2> QED BY <1>1, <1>4, <2>1, <2>2 DEF World
<1>7. Alive(r) = Alive(v)
  BY <1>5 DEF Alive
<1>8. /\ r.memberList[b] = rest
      /\ Members(r, b) = Members(v, b) \ {p}
      /\ All(r, b) = All(v, b) \ {p}
  BY <1>1, <1>2, <1>3, <1>5 DEF Members, All
<1>9. \A c \in Alive(v) \ {b} :
        SameGroup(r, v, c) /\ Members(r, c) = Members(v, c) /\ All(r, c) = All(v, c)
  BY <1>1, <1>5 DEF SameGroup, Members, All
<1>10. Sound(r, there)
  <2>1. \A q \in Players, c \in Parties : r.party[q] = c <=> c \in Alive(r) /\ q \in All(r, c)
    <3> SUFFICES ASSUME NEW q \in Players, NEW c \in Parties
                 PROVE  r.party[q] = c <=> c \in Alive(r) /\ q \in All(r, c)
      OBVIOUS
    <3>1. v.party[q] = c <=> c \in Alive(v) /\ q \in All(v, c)
      BY SoundFacts
    <3>2. CASE c = b
      <4>1. r.party[q] = c <=> v.party[q] = c /\ q # p
        BY <1>1, <1>2, <1>5, <3>2
      <4> QED BY <1>7, <1>8, <3>1, <3>2, <4>1
    <3>3. CASE c # b
      <4>1. r.party[q] = c <=> v.party[q] = c
        BY <1>1, <1>2, <1>5, <3>3
      <4> QED BY <1>7, <1>9, <3>1, <3>3, <4>1
    <3> QED BY <3>2, <3>3
  <2>2. \A q \in Players, c \in Parties : c \in r.invitePartyList[q] <=> q \in r.inviteList[c]
    BY <1>5, SoundFacts
  <2>3. \A q \in Players, c \in Parties :
          q \in r.inviteList[c] => c \in Alive(r) /\ q \in there /\ r.party[q] # c
    <3> SUFFICES ASSUME NEW q \in Players, NEW c \in Parties, q \in r.inviteList[c]
                 PROVE  c \in Alive(r) /\ q \in there /\ r.party[q] # c
      OBVIOUS
    <3>1. c \in Alive(v) /\ q \in there /\ v.party[q] # c
      BY <1>5, SoundFacts
    <3> QED BY <1>1, <1>2, <1>5, <1>7, <3>1
  <2>4. \A c \in Alive(r) : IsInjective(r.memberList[c])
    BY <1>3, <1>7, <1>8, <1>9, SoundFacts DEF SameGroup
  <2>5. \A c \in Alive(r) : r.leader[c] \notin Members(r, c) /\ All(r, c) \subseteq there
    BY <1>5, <1>7, <1>8, <1>9, SoundFacts
  <2>6. \A c \in Parties \ Alive(r) : r.memberList[c] = <<>>
    BY <1>1, <1>5, <1>7, SoundFacts
  <2> QED BY <1>6, <2>1, <2>2, <2>3, <2>4, <2>5, <2>6, SoundParts
<1>11. r.party[p] = None
  BY <1>1, <1>5
<1> QED BY <1>5, <1>7, <1>8, <1>9, <1>10, <1>11 DEF r

\* Whoever has left already, disbanding lets the same players go.
LEMMA DisbandRemoved ==
  ASSUME NEW v, NEW there \in SUBSET Players, Sound(v, there),
         NEW b \in Alive(v), NEW p \in All(v, b)
  PROVE  Disband(Removed(v, b, p), {b}) = Disband(v, {b})
<1> DEFINE r == Removed(v, b, p)
           rest == RemoveFirst(v.memberList[b], p)
<1>1. /\ v.memberList \in [Parties -> Seq(Players)]
      /\ v.party \in [Players -> Parties \cup {None}]
      /\ b \in Parties /\ p \in Players
      /\ IsInjective(v.memberList[b])
  BY SoundFacts, Fields
<1>2. ToSet(rest) = Members(v, b) \ {p}
  BY <1>1, RemovalFacts DEF Members
<1>3. /\ r.leader = v.leader
      /\ r.memberList = [v.memberList EXCEPT ![b] = rest]
      /\ r.inviteList = v.inviteList
      /\ r.party = [v.party EXCEPT ![p] = None]
      /\ r.invitePartyList = v.invitePartyList
  BY DEF Removed
<1> HIDE DEF r, rest
<1>4. All(r, b) \cup {p} = All(v, b)
  BY <1>1, <1>2, <1>3 DEF All, Members
<1>5. Without(r.memberList, {b}, <<>>) = Without(v.memberList, {b}, <<>>)
  <2>1. \A c \in Parties : (IF c \in {b} THEN <<>> ELSE r.memberList[c])
                           = (IF c \in {b} THEN <<>> ELSE v.memberList[c])
    BY <1>1, <1>3
  <2> QED BY <2>1 DEF Without
<1>6. \A q \in Players :
        (IF \E c \in {b} : q \in All(r, c) THEN None ELSE r.party[q])
        = (IF \E c \in {b} : q \in All(v, c) THEN None ELSE v.party[q])
  BY <1>1, <1>3, <1>4
<1> QED
  <2>1. Disband(r, {b}).party = Disband(v, {b}).party
    BY <1>6 DEF Disband
  <2>2. /\ Disband(r, {b}).leader = Disband(v, {b}).leader
        /\ Disband(r, {b}).memberList = Disband(v, {b}).memberList
        /\ Disband(r, {b}).inviteList = Disband(v, {b}).inviteList
        /\ Disband(r, {b}).invitePartyList = Disband(v, {b}).invitePartyList
    BY <1>3, <1>5 DEF Disband
  <2>3. \A y : Disband(y, {b}) =
          [leader |-> Disband(y, {b}).leader, memberList |-> Disband(y, {b}).memberList,
           inviteList |-> Disband(y, {b}).inviteList, party |-> Disband(y, {b}).party,
           invitePartyList |-> Disband(y, {b}).invitePartyList]
    BY DEF Disband
  <2> QED
    <3>1. Disband(r, {b}) = Disband(v, {b})
      BY <2>1, <2>2, <2>3
    <3> QED BY <3>1 DEF r

LEMMA OneOnly ==
  ASSUME NEW S, NEW s \in Seq(S), IsInjective(s), NEW e, ToSet(s) \subseteq {e}
  PROVE  Len(s) <= 1
<1>1. Len(s) \in Nat /\ DOMAIN s = 1..Len(s)
  BY LenProperties
<1>2. SUFFICES ASSUME Len(s) >= 2 PROVE FALSE
  BY <1>1
<1>3. 1 \in DOMAIN s /\ 2 \in DOMAIN s
  BY <1>1, <1>2
<1>4. s[1] = e /\ s[2] = e
  BY <1>3 DEF ToSet
<1> QED BY <1>3, <1>4 DEF IsInjective

LEMMA NoMembers ==
  ASSUME NEW v \in World, NEW b \in Parties
  PROVE  Empty(v, b) <=> Members(v, b) = {} /\ v.inviteList[b] = {}
<1>1. v.memberList[b] \in Seq(Players)
  BY Fields
<1> QED BY <1>1, ListSetFacts DEF Empty, Members

\* What leaving a party comes to: it is disbanded when one player at most would be left in
\* it with nobody invited, or its leader was alone; otherwise it goes on without the player,
\* under one of the members if the leader left.
Ends(v, b, p) ==
  \/ v.leader[b] = p /\ Members(v, b) = {}
  \/ v.leader[b] = p /\ v.inviteList[b] = {} /\ \E m : Members(v, b) = {m}
  \/ v.leader[b] # p /\ v.inviteList[b] = {} /\ Members(v, b) = {p}

CarriesOn(v, l, b, p) ==
  /\ l.inviteList[b] = v.inviteList[b]
  /\ Members(l, b) # {} \/ l.inviteList[b] # {}
  /\ \/ /\ v.leader[b] = p
        /\ l.leader[b] \in Members(v, b)
        /\ Members(l, b) = Members(v, b) \ {l.leader[b]}
     \/ /\ v.leader[b] # p
        /\ l.leader[b] = v.leader[b]
        /\ Members(l, b) = Members(v, b) \ {p}

LEMMA LeaveFacts ==
  ASSUME NEW v, NEW there \in SUBSET Players, Sound(v, there), Kept(v),
         NEW b \in Parties, NEW p \in Players, v.party[p] = b
  PROVE  LET l == LeaveParty(v, b, p)
         IN  /\ Sound(l, there) /\ Kept(l)
             /\ l.party[p] = None
             /\ l.invitePartyList[p] \subseteq v.invitePartyList[p]
             /\ b \in Alive(v) /\ p \in All(v, b)
             /\ \A c \in Alive(v) \ {b} : c \in Alive(l) /\ SameGroup(l, v, c)
             /\ \/ Alive(l) = Alive(v) \ {b} /\ Ends(v, b, p)
                \/ Alive(l) = Alive(v) /\ CarriesOn(v, l, b, p)
<1> DEFINE l == LeaveParty(v, b, p)
<1>1. b \in Alive(v) /\ p \in All(v, b) /\ v \in World /\ Alive(v) \subseteq Parties
  BY SoundFacts, Fields
<1>2. v.memberList[b] \in Seq(Players) /\ IsInjective(v.memberList[b]) /\ v.leader[b] \notin Members(v, b)
  BY <1>1, SoundFacts, Fields
<1> DEFINE Goal == /\ Sound(l, there) /\ Kept(l)
                   /\ l.party[p] = None
                   /\ l.invitePartyList[p] \subseteq v.invitePartyList[p]
                   /\ \A c \in Alive(v) \ {b} : c \in Alive(l) /\ SameGroup(l, v, c)
                   /\ \/ Alive(l) = Alive(v) \ {b} /\ Ends(v, b, p)
                      \/ Alive(l) = Alive(v) /\ CarriesOn(v, l, b, p)
<1> SUFFICES Goal
  BY <1>1
<1>3. ASSUME l = Disband(Removed(v, b, p), {b}), Ends(v, b, p) PROVE Goal
  <2>1. l = Disband(v, {b})
    BY <1>1, <1>3, DisbandRemoved
  <2>2. /\ Sound(l, there)
        /\ Alive(l) = Alive(v) \ {b}
        /\ \A c \in Alive(l) : SameGroup(l, v, c)
        /\ l.party[p] = None
        /\ l.invitePartyList[p] \subseteq v.invitePartyList[p]
    <3>1. {b} \in SUBSET Alive(v)
      BY <1>1
    <3> HIDE DEF l
    <3> QED BY <2>1, <3>1, DisbandFacts
  <2> HIDE DEF l
  <2>3. Kept(l)
    <3> SUFFICES ASSUME NEW c \in Alive(l) PROVE ~Empty(l, c)
      BY DEF Kept
    <3>1. SameGroup(l, v, c) /\ c \in Alive(v) /\ c \in Parties
      BY <1>1, <2>2
    <3> QED BY <3>1, SameFacts DEF Kept
  <2> QED BY <1>3, <2>2, <2>3
<1>4. ASSUME NEW u, Sound(u, there), Alive(u) = Alive(v), p \in Members(u, b),
             \A c \in Alive(v) \ {b} : SameGroup(u, v, c),
             u.invitePartyList = v.invitePartyList,
             l = Removed(u, b, p), ~Empty(l, b), CarriesOn(v, l, b, p)
      PROVE  Goal
  <2> HIDE DEF l
  <2>1. /\ Sound(l, there)
        /\ Alive(l) = Alive(u)
        /\ \A c \in Alive(u) \ {b} : SameGroup(l, u, c)
        /\ l.party[p] = None
        /\ l.invitePartyList = u.invitePartyList
    BY <1>1, <1>4, RemovedFacts
  <2>2. \A c \in Alive(v) \ {b} : c \in Alive(l) /\ SameGroup(l, v, c)
    BY <1>4, <2>1 DEF SameGroup
  <2>3. Kept(l)
    <3> SUFFICES ASSUME NEW c \in Alive(l) PROVE ~Empty(l, c)
      BY DEF Kept
    <3>1. c # b => SameGroup(l, v, c) /\ c \in Alive(v) /\ c \in Parties
      BY <1>1, <1>4, <2>1, <2>2
    <3> QED BY <1>4, <3>1, SameFacts DEF Kept
  <2> QED BY <1>4, <2>1, <2>2, <2>3
<1>5. CASE MissingLeader(v, b, p)
  <2>1. l = Disband(Removed(v, b, p), {b})
    BY <1>5 DEF LeaveParty, Passed
  <2>2. Ends(v, b, p)
    <3>1. v.memberList[b] = <<>> => Members(v, b) = {}
      BY <1>2, ListSetFacts DEF Members
    <3>2. v.memberList[b] # <<>> => Members(v, b) = {Head(v.memberList[b])}
      BY <1>2, <1>5, ListSetFacts DEF Members, MissingLeader
    <3> QED BY <1>5, <3>1, <3>2 DEF Ends, MissingLeader
  <2> HIDE DEF l
  <2> QED BY <1>3, <2>1, <2>2
<1>6. CASE v.leader[b] = p /\ ~MissingLeader(v, b, p)
  <2> DEFINE h == Head(v.memberList[b])
             u == PassPartyLeadership(v, b, h)
             r == Removed(u, b, p)
  <2>1. v.memberList[b] # <<>>
    <3>1. v.memberList[b] = <<>> => Len(v.memberList[b]) <= 1
      BY <1>2
    <3> QED BY <1>6, <3>1 DEF MissingLeader
  <2>2. h \in Members(v, b)
    BY <1>2, <2>1, ListSetFacts DEF Members
  <2>3. Len(v.memberList[b]) <= 1 => v.inviteList[b] # {}
    BY <1>6, <2>1 DEF MissingLeader
  <2> HIDE DEF h
  <2>4. /\ Sound(u, there)
        /\ Alive(u) = Alive(v)
        /\ \A c \in Alive(v) \ {b} : SameGroup(u, v, c)
        /\ u.leader[b] = h
        /\ Members(u, b) = (Members(v, b) \ {h}) \cup {p}
        /\ u.inviteList = v.inviteList
        /\ u.invitePartyList = v.invitePartyList
    BY <1>1, <1>6, <2>2, PassFacts
  <2>5. Passed(v, b, p) = u
    BY <1>6 DEF Passed, h
  <2> HIDE DEF u
  <2>6. b \in Alive(u) /\ p \in Members(u, b)
    BY <1>1, <2>4
  <2>7. /\ Sound(r, there)
        /\ r.leader = u.leader
        /\ Members(r, b) = Members(u, b) \ {p}
        /\ r.inviteList = u.inviteList
    BY <2>4, <2>6, RemovedFacts
  <2> HIDE DEF r
  <2>8. r.leader[b] = h /\ Members(r, b) = Members(v, b) \ {h} /\ r.inviteList[b] = v.inviteList[b]
    <3>1. p \notin Members(v, b)
      BY <1>2, <1>6
    <3> QED BY <2>4, <2>7, <3>1
  <2>9. Members(r, b) # {} \/ r.inviteList[b] # {}
    <3> SUFFICES ASSUME Members(r, b) = {}, r.inviteList[b] = {} PROVE FALSE
      OBVIOUS
    <3>1. Members(v, b) \subseteq {h}
      BY <2>8
    <3>2. Len(v.memberList[b]) <= 1
      BY <1>2, <3>1, OneOnly DEF Members
    <3> QED BY <2>3, <2>8, <3>2
  <2>10. ~Empty(r, b)
    <3>1. r \in World
      BY <2>7, SoundFacts
    <3> QED BY <1>1, <2>9, <3>1, NoMembers
  <2>11. l = r
    BY <1>6, <2>5, <2>10 DEF LeaveParty, r
  <2>12. CarriesOn(v, r, b, p)
    BY <1>6, <2>2, <2>8, <2>9 DEF CarriesOn
  <2> HIDE DEF l
  <2> QED BY <1>4, <2>4, <2>6, <2>10, <2>11, <2>12 DEF r
<1>7. CASE v.leader[b] # p
  <2> DEFINE r == Removed(v, b, p)
  <2>1. p \in Members(v, b) /\ Passed(v, b, p) = v /\ ~MissingLeader(v, b, p)
    BY <1>1, <1>7 DEF All, Passed, MissingLeader
  <2>2. /\ Sound(r, there)
        /\ r.leader = v.leader
        /\ Members(r, b) = Members(v, b) \ {p}
        /\ r.inviteList = v.inviteList
    BY <1>1, <2>1, RemovedFacts
  <2>3. Empty(r, b) <=> Members(r, b) = {} /\ r.inviteList[b] = {}
    <3>1. r \in World
      BY <2>2, SoundFacts
    <3> HIDE DEF r
    <3> QED BY <1>1, <3>1, NoMembers
  <2>4. CASE Empty(r, b)
    <3>1. l = Disband(r, {b})
      BY <2>1, <2>4 DEF LeaveParty
    <3>2. Ends(v, b, p)
      BY <1>7, <2>1, <2>2, <2>3, <2>4 DEF Ends
    <3> HIDE DEF l
    <3> QED BY <1>3, <3>1, <3>2
  <2>5. CASE ~Empty(r, b)
    <3>1. l = r
      BY <2>1, <2>5 DEF LeaveParty
    <3>2. CarriesOn(v, r, b, p)
      BY <1>7, <2>2, <2>3, <2>5 DEF CarriesOn
    <3>3. \A c \in Alive(v) \ {b} : SameGroup(v, v, c)
      BY DEF SameGroup
    <3> HIDE DEF l
    <3> QED BY <1>4, <2>1, <2>5, <3>1, <3>2, <3>3
  <2> QED BY <2>4, <2>5
<1> QED BY <1>5, <1>6, <1>7

\* A player whom no party knows can go.
LEMMA GoneFacts ==
  ASSUME NEW v, NEW there \in SUBSET Players, Sound(v, there), NEW p \in Players,
         v.party[p] \notin Parties, v.invitePartyList[p] = {}
  PROVE  Sound(v, there \ {p})
<1>1. Alive(v) \subseteq Parties
  BY SoundFacts, Fields
<1>2. \A q \in Players, c \in Parties :
        q \in v.inviteList[c] => c \in Alive(v) /\ q \in there \ {p} /\ v.party[q] # c
  <2> SUFFICES ASSUME NEW q \in Players, NEW c \in Parties, q \in v.inviteList[c]
               PROVE  c \in Alive(v) /\ q \in there \ {p} /\ v.party[q] # c
    OBVIOUS
  <2>1. c \in Alive(v) /\ q \in there /\ v.party[q] # c /\ c \in v.invitePartyList[q]
    BY SoundFacts
  <2> QED BY <2>1
<1>3. \A c \in Alive(v) : v.leader[c] \notin Members(v, c) /\ All(v, c) \subseteq there \ {p}
  <2> SUFFICES ASSUME NEW c \in Alive(v)
               PROVE  v.leader[c] \notin Members(v, c) /\ All(v, c) \subseteq there \ {p}
    OBVIOUS
  <2>1. v.leader[c] \notin Members(v, c) /\ All(v, c) \subseteq there
    BY SoundFacts
  <2>2. p \notin All(v, c)
    BY <1>1, SoundFacts
  <2> QED BY <2>1, <2>2
<1> QED BY <1>2, <1>3, SoundFacts, SoundParts

-----------------------------------------------------------------------------
(* The invariant of parties                                                *)

LEMMA IInvParts ==
  PartyIInv <=> online \subseteq Players /\ Sound(w, online) /\ Kept(w)
BY DEF PartyIInv, PartyTypeOK, PointersMatch, Sound

LEMMA IInvPartsNext ==
  PartyIInv' <=> online' \subseteq Players /\ Sound(w', online') /\ Kept(w')
BY DEF PartyIInv, PartyTypeOK, PointersMatch, Sound, Agreement, Blank, Kept, World,
       Alive, All, Members, ToSet, IsInjective, Empty

LEMMA PartyInitInv ==
  ASSUME PartyInit
  PROVE  PartyIInv
<1>1. /\ w.leader = [b \in Parties |-> None]
      /\ w.memberList = [b \in Parties |-> <<>>]
      /\ w.inviteList = [b \in Parties |-> {}]
      /\ w.party = [p \in Players |-> None]
      /\ w.invitePartyList = [p \in Players |-> {}]
      /\ online = {}
  BY DEF PartyInit
<1>2. w \in World
  <2>1. <<>> \in Seq(Players)
    OBVIOUS
  <2> QED BY <2>1 DEF PartyInit, World
<1>3. Alive(w) = {}
  BY <1>1 DEF Alive
<1>4. Sound(w, online)
  BY <1>1, <1>2, <1>3, SoundParts, PartyAssumption
<1>5. Kept(w)
  BY <1>3 DEF Kept
<1> QED BY <1>1, <1>4, <1>5, IInvParts

\* What the requests find.
LEMMA LeaderFacts ==
  ASSUME PartyIInv, NEW p \in Players, NEW b \in Parties, Leads(p, b)
  PROVE  /\ b \in Alive(w) /\ w.leader[b] = p /\ p \in Players
BY IInvParts, SoundFacts, Fields DEF Leads

LEMMA InviteKeepsInv ==
  ASSUME PartyIInv, NEW p \in Players, NEW q \in Players, Invite(p, q)
  PROVE  PartyIInv'
<1>1. online \in SUBSET Players /\ Sound(w, online) /\ Kept(w)
  BY IInvParts
<1>2. {p, q} \subseteq online /\ p # q /\ w.party[q] = None /\ None \notin Parties /\ online' = online
  BY PartyAssumption DEF Invite, MayInvite
<1>3. ASSUME NEW v, Sound(v, online), NEW b \in Alive(v), v.party[q] # b,
             \A c \in Alive(v) \ {b} : ~Empty(v, c), w' = InvitePlayer(v, b, q)
      PROVE  PartyIInv'
  <2>1. /\ Sound(w', online)
        /\ Alive(w') = Alive(v)
        /\ \A c \in Alive(v) \ {b} : SameGroup(w', v, c)
        /\ w'.inviteList[b] = v.inviteList[b] \cup {q}
    BY <1>1, <1>2, <1>3, InviteFacts
  <2>2. Alive(v) \subseteq Parties
    BY <1>3, SoundFacts, Fields
  <2>3. Kept(w')
    <3> SUFFICES ASSUME NEW c \in Alive(w') PROVE ~Empty(w', c)
      BY DEF Kept
    <3>1. CASE c = b
      BY <2>1, <3>1 DEF Empty
    <3>2. CASE c # b
      <4>1. SameGroup(w', v, c) /\ ~Empty(v, c)
        BY <1>3, <2>1, <3>2
      <4> QED BY <4>1 DEF SameGroup, Empty
    <3> QED BY <3>1, <3>2
  <2> QED BY <1>1, <1>2, <2>1, <2>3, IInvPartsNext
<1>4. CASE \E b \in Parties : Leads(p, b) /\ w' = InvitePlayer(w, b, q)
  <2>1. PICK b \in Parties : Leads(p, b) /\ w' = InvitePlayer(w, b, q)
    BY <1>4
  <2>2. b \in Alive(w) /\ w.party[q] # b
    BY <1>2, <2>1, LeaderFacts
  <2>3. \A c \in Alive(w) \ {b} : ~Empty(w, c)
    BY <1>1 DEF Kept
  <2> QED BY <1>1, <1>3, <2>1, <2>2, <2>3
<1>5. CASE w.party[p] = None /\ \E b \in Parties \ Alive(w) : w' = InvitePlayer(Found(w, b, p), b, q)
  <2>1. PICK b \in Parties \ Alive(w) : w' = InvitePlayer(Found(w, b, p), b, q)
    BY <1>5
  <2> DEFINE f == Found(w, b, p)
  <2>2. /\ Sound(f, online)
        /\ Alive(f) = Alive(w) \cup {b}
        /\ \A c \in Alive(w) : SameGroup(f, w, c)
        /\ f.party[q] = w.party[q]
    <3> HIDE DEF f
    <3> QED BY <1>1, <1>2, <1>5, FoundFacts DEF f
  <2> HIDE DEF f
  <2>3. \A c \in Alive(f) \ {b} : ~Empty(f, c)
    BY <1>1, <2>2 DEF Kept, SameGroup, Empty
  <2>4. w' = InvitePlayer(f, b, q) /\ b \in Alive(f) /\ f.party[q] # b
    BY <1>2, <2>1, <2>2 DEF f
  <2> QED BY <1>3, <2>2, <2>3, <2>4
<1> QED BY <1>4, <1>5 DEF Invite

LEMMA JoinKeepsInv ==
  ASSUME PartyIInv, NEW p \in Players, NEW l \in Players, Join(p, l)
  PROVE  PartyIInv'
<1>1. online \in SUBSET Players /\ Sound(w, online) /\ Kept(w) /\ Alive(w) \subseteq Parties
  BY IInvParts, SoundFacts, Fields
<1>2. PICK b \in Parties : Leads(l, b) /\ p \in w.inviteList[b] /\ w' = JoinParty(w, b, p)
  BY DEF Join
<1>3. p \in online /\ w.party[p] = None /\ online' = online
  BY DEF Join, MayJoin
<1>4. /\ Sound(w', online)
      /\ Alive(w') = Alive(w)
      /\ \A c \in Alive(w) \ {b} : SameGroup(w', w, c)
      /\ Members(w', b) = Members(w, b) \cup {p}
  BY <1>1, <1>2, <1>3, JoinFacts
<1>5. Kept(w')
  <2> SUFFICES ASSUME NEW c \in Alive(w') PROVE ~Empty(w', c)
    BY DEF Kept
  <2>1. CASE c = b
    <3>1. w' \in World
      BY <1>4, SoundFacts
    <3> QED BY <1>4, <2>1, <3>1, NoMembers
  <2>2. CASE c # b
    <3>1. SameGroup(w', w, c) /\ ~Empty(w, c)
      BY <1>1, <1>4, <2>2 DEF Kept
    <3> QED BY <3>1 DEF SameGroup, Empty
  <2> QED BY <2>1, <2>2
<1> QED BY <1>1, <1>3, <1>4, <1>5, IInvPartsNext

LEMMA RevokeKeepsInv ==
  ASSUME PartyIInv, NEW p \in Players, NEW q \in Players, Revoke(p, q)
  PROVE  PartyIInv'
<1>1. online \in SUBSET Players /\ Sound(w, online) /\ Kept(w)
  BY IInvParts
<1>2. PICK b \in Parties : Leads(p, b) /\ q \in w.inviteList[b] /\ w' = RemoveBoth(w, {b}, q)
  BY DEF Revoke, RemoveBoth
<1>3. {b} \in SUBSET w.invitePartyList[q]
  BY <1>1, <1>2, SoundFacts
<1>4. Sound(RemoveBoth(w, {b}, q), online) /\ Kept(RemoveBoth(w, {b}, q))
  BY <1>1, <1>3, RemoveInviteFacts
<1>5. Sound(w', online) /\ Kept(w') /\ online' = online
  BY <1>2, <1>4 DEF Revoke
<1> QED BY <1>1, <1>5, IInvPartsNext

LEMMA PassKeepsInv ==
  ASSUME PartyIInv, NEW p \in Players, NEW q \in Players, PassLeadership(p, q)
  PROVE  PartyIInv'
<1>1. online \in SUBSET Players /\ Sound(w, online) /\ Kept(w) /\ Alive(w) \subseteq Parties
  BY IInvParts, SoundFacts, Fields
<1>2. PICK b \in Parties :
        Leads(p, b) /\ w.party[q] = b /\ w' = PassPartyLeadership(w, b, q)
  BY DEF PassLeadership
<1>3. b \in Alive(w) /\ q \in Members(w, b) /\ online' = online
  BY <1>1, <1>2, SoundFacts DEF All, PassLeadership, Leads
<1>4. /\ Sound(w', online)
      /\ Alive(w') = Alive(w)
      /\ \A c \in Alive(w) \ {b} : SameGroup(w', w, c)
      /\ Members(w', b) = (Members(w, b) \ {q}) \cup {w.leader[b]}
  BY <1>1, <1>2, <1>3, PassFacts
<1>5. Kept(w')
  <2> SUFFICES ASSUME NEW c \in Alive(w') PROVE ~Empty(w', c)
    BY DEF Kept
  <2>1. CASE c = b
    <3>1. w' \in World
      BY <1>4, SoundFacts
    <3> QED BY <1>4, <2>1, <3>1, NoMembers
  <2>2. CASE c # b
    <3>1. SameGroup(w', w, c) /\ ~Empty(w, c)
      BY <1>1, <1>4, <2>2 DEF Kept
    <3> QED BY <3>1 DEF SameGroup, Empty
  <2> QED BY <2>1, <2>2
<1> QED BY <1>1, <1>3, <1>4, <1>5, IInvPartsNext

LEMMA LeaveKeepsInv ==
  ASSUME PartyIInv, NEW p \in Players, LeaveRequest(p)
  PROVE  PartyIInv'
<1>1. online \in SUBSET Players /\ Sound(w, online) /\ Kept(w)
  BY IInvParts
<1>2. w.party[p] \in Parties /\ w' = LeaveParty(w, w.party[p], p) /\ online' = online
  BY <1>1, SoundFacts, Fields DEF LeaveRequest
<1>3. Sound(w', online) /\ Kept(w')
  BY <1>1, <1>2, LeaveFacts
<1> QED BY <1>1, <1>2, <1>3, IInvPartsNext

LEMMA LogoutKeepsInv ==
  ASSUME PartyIInv, NEW p \in Players, Logout(p)
  PROVE  PartyIInv'
<1> DEFINE c == RemoveBoth(w, w.invitePartyList[p], p)
<1>1. online \in SUBSET Players /\ Sound(w, online) /\ Kept(w) /\ w \in World
  BY IInvParts, SoundFacts
<1>2. /\ w' = IF c.party[p] = None THEN c ELSE LeaveParty(c, c.party[p], p)
      /\ online' = online \ {p}
  BY <1>1, ClearIsRemove DEF Logout
<1> HIDE DEF c
<1>3. Sound(c, online) /\ Kept(c) /\ c.invitePartyList[p] = {}
  BY <1>1, RemoveInviteFacts DEF c
<1>4. c.party[p] \in Parties \cup {None}
  BY <1>3, SoundFacts, Fields
<1>5. Sound(w', online) /\ Kept(w') /\ w'.party[p] = None /\ w'.invitePartyList[p] = {}
  <2>1. CASE c.party[p] = None
    BY <1>2, <1>3, <2>1
  <2>2. CASE c.party[p] # None
    <3>1. w' = LeaveParty(c, c.party[p], p) /\ c.party[p] \in Parties
      BY <1>2, <1>4, <2>2
    <3> QED BY <1>1, <1>3, <3>1, LeaveFacts
  <2> QED BY <2>1, <2>2
<1>6. Sound(w', online \ {p})
  BY <1>1, <1>5, GoneFacts, PartyAssumption
<1> QED BY <1>1, <1>2, <1>5, <1>6, IInvPartsNext

LEMMA LoginKeepsInv ==
  ASSUME PartyIInv, NEW p \in Players, Login(p)
  PROVE  PartyIInv'
<1>1. online \in SUBSET Players /\ Sound(w, online) /\ Kept(w)
  BY IInvParts
<1>2. w' = w /\ online' = online \cup {p}
  BY DEF Login
<1>3. Sound(w, online \cup {p})
  BY <1>1, SoundFacts, SoundParts
<1> QED BY <1>1, <1>2, <1>3, IInvPartsNext

LEMMA PartyNextInv ==
  ASSUME PartyIInv, [PartyNext]_partyVars
  PROVE  PartyIInv'
<1>1. CASE PartyNext
  BY <1>1, InviteKeepsInv, JoinKeepsInv, RevokeKeepsInv, PassKeepsInv, LeaveKeepsInv,
     LogoutKeepsInv, LoginKeepsInv DEF PartyNext
<1>2. CASE UNCHANGED partyVars
  <2>1. w' = w /\ online' = online
    BY <1>2 DEF partyVars
  <2>2. Sound(w', online') /\ Kept(w') /\ online' \subseteq Players
    BY <2>1, IInvParts
  <2> QED BY <2>2, IInvPartsNext
<1> QED BY <1>1, <1>2

\* The pointers between parties and players match, and a deleted party is blank.
THEOREM PartyInductiveInv ==
  PartySpec => []PartyIInv
<1>1. PartyInit => PartyIInv
  BY PartyInitInv
<1>2. PartyIInv /\ [PartyNext]_partyVars => PartyIInv'
  BY PartyNextInv
<1> QED BY <1>1, <1>2, PTL DEF PartySpec

THEOREM PointersStayMatched ==
  PartySpec => []PointersMatch
<1>1. PartyIInv => PointersMatch
  BY DEF PartyIInv
<1> QED BY <1>1, PartyInductiveInv, PTL

-----------------------------------------------------------------------------
(* Parties keep the promise of PartyMembership                             *)

LEMMA PartyIs ==
  ASSUME NEW v, NEW b
  PROVE  /\ Party(v, b) = Membership!Group(v.leader[b], Members(v, b), v.inviteList[b])
         /\ Party(v, b).leader = v.leader[b]
         /\ Party(v, b).members = Members(v, b)
         /\ Party(v, b).invitees = v.inviteList[b]
         /\ Membership!All(Party(v, b)) = All(v, b)
BY DEF Party, Membership!Group, Membership!All, All

LEMMA GroupIs ==
  ASSUME NEW l, NEW ms, NEW is
  PROVE  /\ Membership!Group(l, ms, is).leader = l
         /\ Membership!Group(l, ms, is).members = ms
         /\ Membership!Group(l, ms, is).invitees = is
BY DEF Membership!Group

\* No two parties are the same group: they have different leaders.
LEMMA FormedOnce ==
  ASSUME NEW v, NEW there, Sound(v, there), NEW b \in Alive(v), NEW c \in Alive(v),
         Party(v, b) = Party(v, c)
  PROVE  b = c
<1>1. b \in Parties /\ c \in Parties /\ v.leader[b] \in Players
  BY SoundFacts, Fields
<1>2. v.leader[b] = v.leader[c]
  BY PartyIs
<1>3. v.leader[b] \in All(v, b) /\ v.leader[b] \in All(v, c)
  BY <1>2 DEF All
<1> QED BY <1>1, <1>3, SoundFacts

LEMMA FormedReplaced ==
  ASSUME NEW v, NEW there, Sound(v, there), NEW b \in Alive(v), NEW u,
         Alive(u) = Alive(v), \A c \in Alive(v) \ {b} : SameGroup(u, v, c)
  PROVE  Formed(u) = (Formed(v) \ {Party(v, b)}) \cup {Party(u, b)}
<1>1. Alive(v) \subseteq Parties
  BY SoundFacts, Fields
<1>2. \A c \in Alive(v) \ {b} : Party(u, c) = Party(v, c)
  BY <1>1, SameFacts
<1>3. \A c \in Alive(v) \ {b} : Party(v, c) # Party(v, b)
  BY FormedOnce
<1> QED BY <1>2, <1>3 DEF Formed

LEMMA FormedRemoved ==
  ASSUME NEW v, NEW there, Sound(v, there), NEW b \in Alive(v), NEW u,
         Alive(u) = Alive(v) \ {b}, \A c \in Alive(v) \ {b} : SameGroup(u, v, c)
  PROVE  Formed(u) = Formed(v) \ {Party(v, b)}
<1>1. Alive(v) \subseteq Parties
  BY SoundFacts, Fields
<1>2. \A c \in Alive(v) \ {b} : Party(u, c) = Party(v, c)
  BY <1>1, SameFacts
<1>3. \A c \in Alive(v) \ {b} : Party(v, c) # Party(v, b)
  BY FormedOnce
<1> QED BY <1>2, <1>3 DEF Formed

LEMMA FormedKept ==
  ASSUME NEW v, NEW there, Sound(v, there), Kept(v)
  PROVE  \A r \in Formed(v) : r.members \cup r.invitees # {}
<1> SUFFICES ASSUME NEW b \in Alive(v)
             PROVE  Party(v, b).members \cup Party(v, b).invitees # {}
  BY DEF Formed
<1>1. b \in Parties /\ v \in World
  BY SoundFacts, Fields
<1>2. Members(v, b) # {} \/ v.inviteList[b] # {}
  BY <1>1, NoMembers DEF Kept
<1> QED BY <1>2, PartyIs

\* A world has its players in its groups.
LEMMA InAGroup ==
  ASSUME NEW v, NEW there, Sound(v, there), NEW p \in Players
  PROVE  /\ v.party[p] \in Parties <=> \E r \in Formed(v) : p \in Membership!All(r)
         /\ \A b \in Alive(v) : p \in All(v, b) <=> v.party[p] = b
<1>1. Alive(v) \subseteq Parties
  BY SoundFacts, Fields
<1>2. \A b \in Alive(v) : p \in All(v, b) <=> v.party[p] = b
  BY <1>1, SoundFacts
<1>3. (\E r \in Formed(v) : p \in Membership!All(r)) <=> \E b \in Alive(v) : p \in All(v, b)
  BY PartyIs DEF Formed
<1>4. v.party[p] \in Parties => v.party[p] \in Alive(v)
  BY SoundFacts
<1> QED BY <1>1, <1>2, <1>3, <1>4

LEMMA NotGrouped ==
  ASSUME PartyIInv, NEW p \in Players, w.party[p] = None
  PROVE  p \notin Membership!Grouped
<1>1. ~ \E r \in Formed(w) : p \in Membership!All(r)
  BY IInvParts, InAGroup, PartyAssumption
<1> QED BY <1>1 DEF Membership!Grouped

\* One step of a player who leaves, in groups.
LEMMA LeaveIsLeft ==
  ASSUME NEW v, NEW there \in SUBSET Players, Sound(v, there), Kept(v),
         NEW b \in Parties, NEW p \in Players, v.party[p] = b
  PROVE  Formed(LeaveParty(v, b, p)) \in Membership!Left(Formed(v), p)
<1> DEFINE l == LeaveParty(v, b, p)
           r == Party(v, b)
           others == Formed(v) \ {r}
<1> HIDE DEF l
<1>1. /\ Sound(l, there) /\ Kept(l)
      /\ b \in Alive(v) /\ p \in All(v, b)
      /\ \A c \in Alive(v) \ {b} : c \in Alive(l) /\ SameGroup(l, v, c)
      /\ \/ Alive(l) = Alive(v) \ {b} /\ Ends(v, b, p)
         \/ Alive(l) = Alive(v) /\ CarriesOn(v, l, b, p)
  BY LeaveFacts DEF l
<1>2. /\ r \in Formed(v) /\ p \in Membership!All(r)
      /\ r.leader = v.leader[b] /\ r.members = Members(v, b) /\ r.invitees = v.inviteList[b]
  BY <1>1, PartyIs DEF Formed
<1> HIDE DEF r
<1>3. \A y \in others : y.members \cup y.invitees # {}
  BY FormedKept
<1>4. SUFFICES \/ \E c \in Membership!Without(r, p) : Formed(l) = Membership!Kept(others \cup {c})
               \/ r.members = {} /\ Formed(l) = others
  BY <1>2 DEF Membership!Left, l
<1>5. CASE Alive(l) = Alive(v) \ {b} /\ Ends(v, b, p)
  <2>1. Formed(l) = others
    BY <1>1, <1>5, FormedRemoved DEF r
  <2>2. CASE v.leader[b] = p /\ Members(v, b) = {}
    BY <1>2, <2>1, <2>2
  <2>3. ASSUME NEW c \in Membership!Without(r, p), c.members = {}, c.invitees = {}
        PROVE  Formed(l) = Membership!Kept(others \cup {c})
    BY <1>3, <2>1, <2>3 DEF Membership!Kept
  <2>4. CASE v.leader[b] = p /\ v.inviteList[b] = {} /\ \E m : Members(v, b) = {m}
    <3>1. PICK m : Members(v, b) = {m}
      BY <2>4
    <3> DEFINE c == Membership!Group(m, r.members \ {m}, r.invitees)
    <3>2. c \in Membership!Without(r, p)
      BY <1>2, <2>4, <3>1 DEF Membership!Without
    <3>3. c.members = {} /\ c.invitees = {}
      BY <1>2, <2>4, <3>1, GroupIs
    <3> HIDE DEF c
    <3> QED BY <2>3, <3>2, <3>3
  <2>5. CASE v.leader[b] # p /\ v.inviteList[b] = {} /\ Members(v, b) = {p}
    <3> DEFINE c == Membership!Group(r.leader, r.members \ {p}, r.invitees)
    <3>1. c \in Membership!Without(r, p)
      BY <1>2, <2>5 DEF Membership!Without
    <3>2. c.members = {} /\ c.invitees = {}
      BY <1>2, <2>5, GroupIs
    <3> HIDE DEF c
    <3> QED BY <2>3, <3>1, <3>2
  <2> QED BY <1>5, <2>2, <2>4, <2>5 DEF Ends
<1>6. CASE Alive(l) = Alive(v) /\ CarriesOn(v, l, b, p)
  <2> DEFINE c == Party(l, b)
  <2>1. Formed(l) = others \cup {c}
    BY <1>1, <1>6, FormedReplaced DEF r
  <2>2. /\ c = Membership!Group(l.leader[b], Members(l, b), v.inviteList[b])
        /\ c.members \cup c.invitees # {}
    BY <1>6, PartyIs DEF CarriesOn
  <2> HIDE DEF c
  <2>3. Formed(l) = Membership!Kept(others \cup {c})
    BY <1>3, <2>1, <2>2 DEF Membership!Kept
  <2>4. c \in Membership!Without(r, p)
    BY <1>2, <1>6, <2>2 DEF CarriesOn, Membership!Without
  <2> QED BY <2>3, <2>4
<1> QED BY <1>1, <1>5, <1>6

LEMMA FormedNext == Formed(w)' = Formed(w')
BY DEF Formed, Party, Alive, Members, ToSet

LEMMA InviteImplements ==
  ASSUME PartyIInv, NEW p \in Players, NEW q \in Players, Invite(p, q)
  PROVE  Membership!Invite(p, q)
<1>1. online \in SUBSET Players /\ Sound(w, online)
  BY IInvParts
<1>2. {p, q} \subseteq online /\ p # q /\ w.party[q] = None /\ None \notin Parties
  BY PartyAssumption DEF Invite, MayInvite
<1>3. q \notin Membership!Grouped
  BY <1>2, NotGrouped
<1>4. CASE \E b \in Parties : Leads(p, b) /\ w' = InvitePlayer(w, b, q)
  <2>1. PICK b \in Parties : Leads(p, b) /\ w' = InvitePlayer(w, b, q)
    BY <1>4
  <2> DEFINE r == Party(w, b)
  <2>2. b \in Alive(w) /\ w.leader[b] = p /\ w.party[q] # b
    BY <1>2, <2>1, LeaderFacts
  <2>3. /\ Alive(w') = Alive(w)
        /\ \A c \in Alive(w) \ {b} : SameGroup(w', w, c)
        /\ w'.leader[b] = w.leader[b] /\ w'.memberList[b] = w.memberList[b]
        /\ w'.inviteList[b] = w.inviteList[b] \cup {q}
    BY <1>1, <1>2, <2>1, <2>2, InviteFacts
  <2>4. Members(w', b) = Members(w, b)
    BY <2>3 DEF Members
  <2>5. Party(w', b) = Membership!Group(p, r.members, r.invitees \cup {q})
    <3>1. Party(w', b) = Membership!Group(w'.leader[b], Members(w', b), w'.inviteList[b])
      BY PartyIs
    <3>2. r.members = Members(w, b) /\ r.invitees = w.inviteList[b]
      BY PartyIs
    <3> HIDE DEF r
    <3> QED BY <2>2, <2>3, <2>4, <3>1, <3>2
  <2>6. Formed(w') = (Formed(w) \ {r}) \cup {Party(w', b)}
    BY <1>1, <2>2, <2>3, FormedReplaced
  <2>7. r \in Formed(w) /\ r.leader = p
    BY <2>2, PartyIs DEF Formed
  <2> HIDE DEF r
  <2> QED BY <1>2, <1>3, <2>5, <2>6, <2>7, FormedNext DEF Membership!Invite
<1>5. CASE w.party[p] = None /\ \E b \in Parties \ Alive(w) : w' = InvitePlayer(Found(w, b, p), b, q)
  <2>1. PICK b \in Parties \ Alive(w) : w' = InvitePlayer(Found(w, b, p), b, q)
    BY <1>5
  <2> DEFINE f == Found(w, b, p)
  <2>2. /\ Sound(f, online)
        /\ Alive(f) = Alive(w) \cup {b}
        /\ \A c \in Alive(w) : SameGroup(f, w, c)
        /\ f.leader[b] = p /\ Members(f, b) = {} /\ f.inviteList[b] = {}
        /\ f.party[q] = w.party[q]
    <3> HIDE DEF f
    <3> QED BY <1>1, <1>2, <1>5, FoundFacts DEF f
  <2>3. w' = InvitePlayer(f, b, q)
    BY <2>1
  <2> HIDE DEF f
  <2>4. /\ Alive(w') = Alive(f)
        /\ \A c \in Alive(f) \ {b} : SameGroup(w', f, c)
        /\ w'.leader[b] = f.leader[b] /\ w'.memberList[b] = f.memberList[b]
        /\ w'.inviteList[b] = f.inviteList[b] \cup {q}
    <3>1. b \in Alive(f) /\ f.party[q] # b
      BY <1>2, <2>2
    <3> QED BY <1>1, <1>2, <2>2, <2>3, <3>1, InviteFacts
  <2>5. Party(w', b) = Membership!Group(p, {}, {q})
    <3>1. Members(w', b) = {}
      BY <2>2, <2>4 DEF Members
    <3>2. w'.leader[b] = p /\ w'.inviteList[b] = {q}
      BY <2>2, <2>4
    <3> QED BY <3>1, <3>2, PartyIs
  <2>6. \A c \in Alive(w) : Party(w', c) = Party(w, c)
    <3> SUFFICES ASSUME NEW c \in Alive(w) PROVE Party(w', c) = Party(w, c)
      OBVIOUS
    <3>1. c \in Parties /\ c \in Alive(f) \ {b}
      BY <1>1, <2>1, <2>2, SoundFacts, Fields
    <3>2. SameGroup(w', w, c)
      BY <2>2, <2>4, <3>1 DEF SameGroup
    <3> QED BY <3>1, <3>2, SameFacts
  <2>7. Formed(w') = Formed(w) \cup {Party(w', b)}
    BY <2>2, <2>4, <2>6 DEF Formed
  <2>8. p \notin Membership!Grouped
    BY <1>5, NotGrouped
  <2> QED BY <1>2, <1>3, <2>5, <2>7, <2>8, FormedNext DEF Membership!Invite
<1> QED BY <1>4, <1>5 DEF Invite

LEMMA JoinImplements ==
  ASSUME PartyIInv, NEW p \in Players, NEW l \in Players, Join(p, l)
  PROVE  Membership!Join(p)
<1>1. online \in SUBSET Players /\ Sound(w, online)
  BY IInvParts
<1>2. PICK b \in Parties : Leads(l, b) /\ p \in w.inviteList[b] /\ w' = JoinParty(w, b, p)
  BY DEF Join
<1>3. p \in online /\ w.party[p] = None
  BY DEF Join, MayJoin
<1> DEFINE r == Party(w, b)
<1>4. /\ Alive(w') = Alive(w) /\ b \in Alive(w)
      /\ \A c \in Alive(w) \ {b} : SameGroup(w', w, c)
      /\ w'.leader[b] = w.leader[b]
      /\ Members(w', b) = Members(w, b) \cup {p}
      /\ w'.inviteList[b] = w.inviteList[b] \ {p}
  BY <1>1, <1>2, <1>3, JoinFacts
<1>5. Party(w', b) = Membership!Group(r.leader, r.members \cup {p}, r.invitees \ {p})
  <2>1. Party(w', b) = Membership!Group(w'.leader[b], Members(w', b), w'.inviteList[b])
    BY PartyIs
  <2>2. r.leader = w.leader[b] /\ r.members = Members(w, b) /\ r.invitees = w.inviteList[b]
    BY PartyIs
  <2> HIDE DEF r
  <2> QED BY <1>4, <2>1, <2>2
<1>6. Formed(w') = (Formed(w) \ {r}) \cup {Party(w', b)}
  BY <1>1, <1>4, FormedReplaced
<1>7. r \in Formed(w) /\ p \in r.invitees /\ p \notin Membership!Grouped
  BY <1>2, <1>3, <1>4, PartyIs, NotGrouped DEF Formed
<1> HIDE DEF r
<1> QED BY <1>5, <1>6, <1>7, FormedNext DEF Membership!Join

LEMMA RevokeImplements ==
  ASSUME PartyIInv, NEW p \in Players, NEW q \in Players, Revoke(p, q)
  PROVE  Membership!Withdraw(q)
<1>1. online \in SUBSET Players /\ Sound(w, online) /\ Kept(w) /\ w \in World
  BY IInvParts, SoundFacts
<1>2. PICK b \in Parties : Leads(p, b) /\ q \in w.inviteList[b] /\ w' = RemoveBoth(w, {b}, q)
  BY DEF Revoke, RemoveBoth
<1>3. {b} \in SUBSET w.invitePartyList[q] /\ b \in Alive(w)
  BY <1>1, <1>2, SoundFacts
<1> DEFINE left(c) == StillInvited(w, {b}, q, c)
           r == Party(w, b)
           g == Membership!Group(r.leader, r.members, r.invitees \ {q})
<1>4. /\ Alive(w') = {c \in Alive(w) : w.memberList[c] # <<>> \/ left(c) # {}}
      /\ \A c \in Alive(w') : /\ w'.leader[c] = w.leader[c]
                                /\ w'.memberList[c] = w.memberList[c]
                                /\ w'.inviteList[c] = left(c)
  <2> DEFINE bs == {b}
             s == RemoveBoth(w, bs, q)
  <2>1. bs \in SUBSET w.invitePartyList[q] /\ w' = s
    BY <1>2, <1>3
  <2> HIDE DEF bs
  <2>2. /\ Alive(s) = {c \in Alive(w) : w.memberList[c] # <<>> \/ StillInvited(w, bs, q, c) # {}}
        /\ \A c \in Alive(s) : /\ s.leader[c] = w.leader[c]
                                 /\ s.memberList[c] = w.memberList[c]
                                 /\ s.inviteList[c] = StillInvited(w, bs, q, c)
    BY <1>1, <2>1, RemoveInviteFacts
  <2> HIDE DEF s
  <2> QED BY <2>1, <2>2 DEF bs
<1>5. \A c \in Alive(w) \ {b} : c \in Alive(w') /\ SameGroup(w', w, c)
  <2> SUFFICES ASSUME NEW c \in Alive(w) \ {b} PROVE c \in Alive(w') /\ SameGroup(w', w, c)
    OBVIOUS
  <2>1. left(c) = w.inviteList[c] /\ (w.memberList[c] # <<>> \/ left(c) # {})
    BY <1>1 DEF Kept, Empty, StillInvited
  <2> HIDE DEF left
  <2> QED BY <1>4, <2>1 DEF SameGroup
<1>6. /\ r \in Formed(w) /\ q \in r.invitees
      /\ r.leader = w.leader[b] /\ r.members = Members(w, b) /\ r.invitees = w.inviteList[b]
  BY <1>2, <1>3, PartyIs DEF Formed
<1> HIDE DEF r
<1>7. \A y \in Formed(w) : y.members \cup y.invitees # {}
  BY <1>1, FormedKept
<1>8. Members(w, b) = {} <=> w.memberList[b] = <<>>
  <2>1. w.memberList[b] \in Seq(Players)
    BY <1>1, Fields
  <2> QED BY <2>1, ListSetFacts DEF Members
<1>9. g.members \cup g.invitees # {} <=> w.memberList[b] # <<>> \/ left(b) # {}
  BY <1>6, <1>8, GroupIs DEF StillInvited
<1>10. Formed(w') = Membership!Kept((Formed(w) \ {r}) \cup {g})
  <2>1. CASE w.memberList[b] # <<>> \/ left(b) # {}
    <3>1. Alive(w') = Alive(w)
      BY <1>3, <1>4, <1>5, <2>1
    <3>2. Formed(w') = (Formed(w) \ {r}) \cup {Party(w', b)}
      BY <1>1, <1>3, <1>5, <3>1, FormedReplaced DEF r
    <3>3. Party(w', b) = g
      <4>1. /\ Members(w', b) = Members(w, b) /\ w'.leader[b] = w.leader[b]
            /\ w'.inviteList[b] = w.inviteList[b] \ {q}
        BY <1>3, <1>4, <3>1 DEF Members, StillInvited
      <4>2. Party(w', b) = Membership!Group(w'.leader[b], Members(w', b), w'.inviteList[b])
        BY PartyIs
      <4> QED BY <1>6, <4>1, <4>2
    <3> HIDE DEF g
    <3> QED BY <1>7, <1>9, <2>1, <3>2, <3>3 DEF Membership!Kept
  <2>2. CASE ~(w.memberList[b] # <<>> \/ left(b) # {})
    <3>1. Alive(w') = Alive(w) \ {b}
      BY <1>3, <1>4, <1>5, <2>2
    <3>2. Formed(w') = Formed(w) \ {r}
      BY <1>1, <1>3, <1>5, <3>1, FormedRemoved DEF r
    <3> HIDE DEF g
    <3> QED BY <1>7, <1>9, <2>2, <3>2 DEF Membership!Kept
  <2> QED BY <2>1, <2>2
<1> QED BY <1>6, <1>10, FormedNext DEF Membership!Withdraw

LEMMA PassImplements ==
  ASSUME PartyIInv, NEW p \in Players, NEW q \in Players, PassLeadership(p, q)
  PROVE  Membership!HandOver(p, q)
<1>1. online \in SUBSET Players /\ Sound(w, online)
  BY IInvParts
<1>2. PICK b \in Parties :
        Leads(p, b) /\ w.party[q] = b /\ w' = PassPartyLeadership(w, b, q)
  BY DEF PassLeadership
<1>3. b \in Alive(w) /\ q \in Members(w, b) /\ w.leader[b] = p
  BY <1>1, <1>2, SoundFacts DEF All, PassLeadership, Leads
<1> DEFINE r == Party(w, b)
<1>4. /\ Alive(w') = Alive(w)
      /\ \A c \in Alive(w) \ {b} : SameGroup(w', w, c)
      /\ w'.leader[b] = q
      /\ Members(w', b) = (Members(w, b) \ {q}) \cup {p}
      /\ w'.inviteList = w.inviteList
  BY <1>1, <1>2, <1>3, PassFacts
<1>5. Party(w', b) = Membership!Group(q, (r.members \ {q}) \cup {p}, r.invitees)
  <2>1. Party(w', b) = Membership!Group(w'.leader[b], Members(w', b), w'.inviteList[b])
    BY PartyIs
  <2>2. r.members = Members(w, b) /\ r.invitees = w.inviteList[b]
    BY PartyIs
  <2> HIDE DEF r
  <2> QED BY <1>4, <2>1, <2>2
<1>6. Formed(w') = (Formed(w) \ {r}) \cup {Party(w', b)}
  BY <1>1, <1>3, <1>4, FormedReplaced
<1>7. r \in Formed(w) /\ r.leader = p /\ q \in r.members
  BY <1>3, PartyIs DEF Formed
<1> HIDE DEF r
<1> QED BY <1>5, <1>6, <1>7, FormedNext DEF Membership!HandOver

LEMMA LeaveImplements ==
  ASSUME PartyIInv, NEW p \in Players, LeaveRequest(p)
  PROVE  Membership!Leave(p)
<1>1. online \in SUBSET Players /\ Sound(w, online) /\ Kept(w)
  BY IInvParts
<1>2. w.party[p] \in Parties /\ w' = LeaveParty(w, w.party[p], p)
  BY <1>1, SoundFacts, Fields DEF LeaveRequest
<1>3. Formed(w') \in Membership!Left(Formed(w), p)
  BY <1>1, <1>2, LeaveIsLeft
<1> QED BY <1>3, FormedNext DEF Membership!Leave

\* Clearing the invitations of p takes p from every group's invitees.
LEMMA ClearedGroups ==
  ASSUME NEW v, NEW there \in SUBSET Players, Sound(v, there), Kept(v),
         NEW p \in Players
  PROVE  Formed(RemoveBoth(v, v.invitePartyList[p], p))
           = Membership!Kept(
               {Membership!Group(r.leader, r.members, r.invitees \ {p}) : r \in Formed(v)})
<1> DEFINE bs == v.invitePartyList[p]
           c == RemoveBoth(v, bs, p)
           left(b) == StillInvited(v, bs, p, b)
           g(b) == Membership!Group(v.leader[b], Members(v, b), v.inviteList[b] \ {p})
           uninvited == {Membership!Group(r.leader, r.members, r.invitees \ {p}) : r \in Formed(v)}
<1>1. v \in World /\ Alive(v) \subseteq Parties /\ \A b \in Parties : v.memberList[b] \in Seq(Players)
  BY SoundFacts, Fields
<1>2. \A b \in Alive(v) : left(b) = v.inviteList[b] \ {p}
  BY <1>1, SoundFacts DEF StillInvited
<1>3. /\ Alive(c) = {b \in Alive(v) : v.memberList[b] # <<>> \/ left(b) # {}}
      /\ \A b \in Alive(c) : /\ c.leader[b] = v.leader[b]
                               /\ c.memberList[b] = v.memberList[b]
                               /\ c.inviteList[b] = left(b)
  <2>1. bs \in SUBSET v.invitePartyList[p]
    OBVIOUS
  <2> HIDE DEF bs
  <2> QED BY <2>1, RemoveInviteFacts
<1> HIDE DEF c, left
<1>4. uninvited = {g(b) : b \in Alive(v)}
  <2>1. \A b \in Alive(v) :
          LET r == Party(v, b) IN Membership!Group(r.leader, r.members, r.invitees \ {p}) = g(b)
    BY PartyIs
  <2> HIDE DEF g
  <2> QED BY <2>1 DEF Formed
<1>5. \A b \in Alive(v) : g(b).members \cup g(b).invitees # {} <=> b \in Alive(c)
  <2> SUFFICES ASSUME NEW b \in Alive(v)
               PROVE  g(b).members \cup g(b).invitees # {} <=> b \in Alive(c)
    OBVIOUS
  <2>1. Members(v, b) = {} <=> v.memberList[b] = <<>>
    BY <1>1, ListSetFacts DEF Members
  <2>2. g(b).members = Members(v, b) /\ g(b).invitees = v.inviteList[b] \ {p}
    BY GroupIs
  <2> HIDE DEF g
  <2> QED BY <1>2, <1>3, <2>1, <2>2
<1>6. \A b \in Alive(c) : Party(c, b) = g(b)
  <2> SUFFICES ASSUME NEW b \in Alive(c) PROVE Party(c, b) = g(b)
    OBVIOUS
  <2>1. /\ c.leader[b] = v.leader[b] /\ Members(c, b) = Members(v, b)
        /\ c.inviteList[b] = v.inviteList[b] \ {p}
    BY <1>2, <1>3 DEF Members
  <2> QED BY <2>1, PartyIs
<1>7. Alive(c) \subseteq Alive(v)
  BY <1>3
<1> HIDE DEF g, uninvited
<1>8. Formed(c) = {g(b) : b \in Alive(c)}
  BY <1>6 DEF Formed
<1>9. Membership!Kept(uninvited) = Formed(c)
  BY <1>4, <1>5, <1>7, <1>8 DEF Membership!Kept
<1> QED BY <1>9 DEF c, uninvited

LEMMA LogoutImplements ==
  ASSUME PartyIInv, NEW p \in Players, Logout(p)
  PROVE  Membership!Depart(p)
<1> DEFINE c == RemoveBoth(w, w.invitePartyList[p], p)
           uninvited == Membership!Kept(
             {Membership!Group(r.leader, r.members, r.invitees \ {p}) : r \in Formed(w)})
<1>1. online \in SUBSET Players /\ Sound(w, online) /\ Kept(w) /\ w \in World
  BY IInvParts, SoundFacts
<1>2. w' = IF c.party[p] = None THEN c ELSE LeaveParty(c, c.party[p], p)
  BY <1>1, ClearIsRemove DEF Logout
<1>3. Formed(c) = uninvited
  BY <1>1, ClearedGroups
<1>4. Sound(c, online) /\ Kept(c)
  <2> HIDE DEF c
  <2> QED BY <1>1, RemoveInviteFacts DEF c
<1> HIDE DEF c, uninvited
<1>5. c.party[p] \in Parties \cup {None}
  BY <1>4, SoundFacts, Fields
<1>6. SUFFICES IF p \in UNION {Membership!All(r) : r \in uninvited}
               THEN Formed(w') \in Membership!Left(uninvited, p)
               ELSE Formed(w') = uninvited
  BY FormedNext DEF Membership!Depart, uninvited
<1>7. p \in UNION {Membership!All(r) : r \in uninvited} <=> c.party[p] \in Parties
  BY <1>3, <1>4, InAGroup
<1>8. CASE c.party[p] = None
  BY <1>2, <1>3, <1>7, <1>8, PartyAssumption
<1>9. CASE c.party[p] # None
  <2>1. w' = LeaveParty(c, c.party[p], p) /\ c.party[p] \in Parties
    BY <1>2, <1>5, <1>9
  <2>2. Formed(w') \in Membership!Left(Formed(c), p)
    BY <1>1, <1>4, <2>1, LeaveIsLeft
  <2> QED BY <1>3, <1>7, <2>1, <2>2
<1> QED BY <1>8, <1>9

LEMMA PartyStepImplements ==
  ASSUME PartyIInv, [PartyNext]_partyVars
  PROVE  [Membership!Next]_(Formed(w))
<1>1. ASSUME w' = w PROVE Formed(w)' = Formed(w)
  BY <1>1, FormedNext
<1>2. CASE UNCHANGED partyVars
  BY <1>1, <1>2 DEF partyVars
<1>3. ASSUME NEW p \in Players, NEW q \in Players,
             Invite(p, q) \/ Join(p, q) \/ Revoke(p, q) \/ PassLeadership(p, q)
      PROVE  Membership!Next
  BY <1>3, InviteImplements, JoinImplements, RevokeImplements, PassImplements
     DEF Membership!Next
<1>4. ASSUME NEW p \in Players, LeaveRequest(p) \/ Logout(p)
      PROVE  Membership!Next
  BY <1>4, LeaveImplements, LogoutImplements DEF Membership!Next
<1>5. ASSUME NEW p \in Players, Login(p)
      PROVE  Formed(w)' = Formed(w)
  BY <1>1, <1>5 DEF Login
<1> QED BY <1>2, <1>3, <1>4, <1>5 DEF PartyNext

\* The lists and pointers of parties and players implement the promise of parties.
THEOREM PartiesKeepTheirPromise ==
  PartySpec => ImplementsPartyMembership
<1>1. PartyInit => Membership!Init
  <2>1. PartyInit => Formed(w) = {}
    BY DEF PartyInit, Formed, Alive
  <2> QED BY <2>1 DEF Membership!Init
<1>2. PartyIInv /\ [PartyNext]_partyVars => [Membership!Next]_(Formed(w))
  BY PartyStepImplements
<1> QED
  BY <1>1, <1>2, PartyInductiveInv, PTL
     DEF PartySpec, ImplementsPartyMembership, Membership!Spec
=============================================================================
