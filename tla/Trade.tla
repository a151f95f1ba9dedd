------------------------------- MODULE Trade --------------------------------
(***************************************************************************)
(* Safe trade between players (Game::playerRequestTrade,                   *)
(* internalStartTrade, playerAcceptTrade, internalCloseTrade in game.cpp)  *)
(* and the callbacks of Player that close a trade when the offer or the    *)
(* partner moves (player.cpp).                                             *)
(*                                                                         *)
(* Every action is one task of the dispatcher.  The map is a line of       *)
(* squares.  An item is carried by a player, lies on a square, or is in a  *)
(* bag; bags hold no bags (nesting depth 1).  Counts of stacks, capacity   *)
(* and slots are left out: whether a receiver has room is a choice.        *)
(***************************************************************************)
EXTENDS Integers, FiniteSets, PlayersOnline

CONSTANTS
  Items,
  Bags,         \* the containers among Items
  Stackable,    \* the items that merge with others of their kind
  MaxX          \* squares are 0..MaxX

ASSUME TradeAssumption ==
  /\ IsFiniteSet(Players)
  /\ Bags \subseteq Items
  /\ Stackable \subseteq Items \ Bags
  /\ MaxX \in Nat
  /\ Players \cap Items = {}
  /\ (Players \cup Items) \cap (0..MaxX) = {}
  /\ None \notin Players \cup Items \cup (0..MaxX)

VARIABLES
  x,            \* the square of a player
  place,        \* Item::parent: a player, a bag, a square, or None once destroyed
  trade,        \* tradeState, tradePartner and tradeItem of a player
  tradeItems    \* Game::tradeItems: the items offered, each holding a reference

vars == <<online, x, place, trade, tradeItems>>

Squares == 0..MaxX
NoTrade == [state |-> "NONE", partner |-> None, item |-> None]

-----------------------------------------------------------------------------
(* Where things are                                                        *)

Distance(a, b) == IF a < b THEN b - a ELSE a - b

\* Item::getTopParent: who carries the item, or where it lies.
Top(i) == IF place[i] \in Bags THEN place[place[i]] ELSE place[i]

\* Item::getPosition, for players who stand at pos.
PositionAt(pos, i) == IF Top(i) \in Players THEN pos[Top(i)] ELSE Top(i)
Position(i) == PositionAt(x, i)

\* internalGetThing, in range: what p carries, and what lies next to p.
InReach(p, i) ==
  \/ Top(i) = p
  \/ Top(i) \in Squares /\ Distance(Top(i), x[p]) <= 1

-----------------------------------------------------------------------------
(* The end of trades                                                       *)

\* internalCloseTrade for each of ps: both sides are reset and their items released.
EndTrades(ps) ==
  LET ended == ps \cup ({trade[p].partner : p \in ps} \ {None})
  IN /\ trade' = [p \in Players |-> IF p \in ended THEN NoTrade ELSE trade[p]]
     /\ tradeItems' = tradeItems \ {trade[p].item : p \in ended}

\* Who is called back when an item leaves or enters a place: the carrier, those around a
\* bag, or everyone who sees the square.
Notified(spot) ==
  CASE spot \in Players -> {spot}
    [] spot \in Bags -> {p \in online : Distance(x[p], Position(spot)) <= 2}
    [] OTHER -> online

\* Variant: a trade is closed only for the item itself.
DisturbedItself(i, dest) == {p \in Notified(place[i]) : trade[p].item = i}

\* onRemove...Item and onAddContainerItem: the players whose offer is the item, the bag it
\* leaves or enters, or in the item.
Disturbed(i, dest) ==
  {p \in Notified(place[i]) :
     /\ trade[p].item # None
     /\ trade[p].item \in {i, place[i]} \/ place[trade[p].item] = i}
  \cup {p \in Notified(dest) : dest \in Bags /\ trade[p].item = dest}

-----------------------------------------------------------------------------
Init ==
  /\ online = Players
  /\ x = [p \in Players |-> 0]
  /\ place \in [Items -> Players \cup {0}]
  /\ trade = [p \in Players |-> NoTrade]
  /\ tradeItems = {}

\* The item is not offered, nor in an offered bag, nor a bag that holds an offer.
NotTraded(i) == \A j \in tradeItems : i # j /\ place[i] # j /\ place[j] # i

\* playerRequestTrade and internalStartTrade.
RequestTrade(p, q, i) ==
  /\ p \in online /\ q \in online /\ p # q
  /\ Distance(x[p], x[q]) <= 2
  /\ InReach(p, i)
  /\ NotTraded(i)
  /\ \/ trade[p].state = "NONE"
     \/ trade[p].state = "ACKNOWLEDGE" /\ trade[p].partner = q
  /\ trade[q].state = "NONE" \/ trade[q].partner = p
  /\ trade' = [trade EXCEPT
                 ![p] = [state |-> "INITIATED", partner |-> q, item |-> i],
                 ![q] = IF @.state = "NONE"
                        THEN [state |-> "ACKNOWLEDGE", partner |-> p, item |-> None]
                        ELSE @]
  /\ tradeItems' = tradeItems \cup {i}
  /\ UNCHANGED <<online, x, place>>

\* Variant: one acceptance suffices.
AgreedByOne(p) == trade[p].item # None /\ trade[trade[p].partner].item # None

\* The partner has accepted before.
Agreed(p) == trade[trade[p].partner].state = "ACCEPT"

MayAccept(p) ==
  /\ p \in online
  /\ trade[p].state \in {"ACKNOWLEDGE", "INITIATED"}
  /\ trade[p].partner # None

\* playerAcceptTrade by the first of the two.
AcceptFirst(p) ==
  /\ MayAccept(p)
  /\ ~Agreed(p)
  /\ trade' = [trade EXCEPT ![p].state = "ACCEPT"]
  /\ UNCHANGED <<online, x, place, tradeItems>>

\* playerAcceptTrade by the second: a test failed, or one of them offers nothing.
AcceptFails(p) ==
  /\ MayAccept(p)
  /\ Agreed(p)
  /\ EndTrades({p})
  /\ UNCHANGED <<online, x, place>>

\* Where internalMoveItem puts item i for p: on p or in a bag of p, not the one offered.
PutFor(p, i) == {p} \cup {b \in Bags : place[b] = p /\ i \notin Bags /\ b # trade[p].item}

\* playerAcceptTrade by the second: the partner gets p's item, then p the partner's.  The
\* second move's result is not looked at: a stack whose test counted on merging may stay.
AcceptTransfers(p) ==
  LET q == trade[p].partner
      mine == trade[p].item
      yours == trade[q].item
  IN /\ MayAccept(p)
     /\ Agreed(p)
     /\ mine # None /\ yours # None
     /\ \E d \in PutFor(q, mine),
           e \in PutFor(p, yours) \cup (IF yours \in Stackable THEN {place[yours]} ELSE {}) :
          place' = [place EXCEPT ![mine] = d, ![yours] = e]
     /\ EndTrades({p})
     /\ UNCHANGED <<online, x>>

\* playerCloseTrade.
CloseTrade(p) ==
  /\ p \in online
  /\ EndTrades({p})
  /\ UNCHANGED <<online, x, place>>

-----------------------------------------------------------------------------
(* What else happens to the traders and their offers                       *)

\* Variant: the partner's distance is not looked at.
StrayedFromItem(p, pos) ==
  trade[p].item # None /\ Distance(PositionAt(pos, trade[p].item), pos[p]) > 1

\* Player::onCreatureMove: the offer or the partner is out of range.
Strayed(p, pos) ==
  \/ trade[p].item # None /\ Distance(PositionAt(pos, trade[p].item), pos[p]) > 1
  \/ trade[p].partner # None /\ Distance(pos[trade[p].partner], pos[p]) > 2

\* A walk, a push or a teleport.
Walk(p, y) ==
  LET pos == [x EXCEPT ![p] = y]
  IN /\ p \in online
     /\ x' = pos
     /\ EndTrades(IF Strayed(p, pos) THEN {p} ELSE {})
     /\ UNCHANGED <<online, place>>

\* Container::queryAdd: nothing goes into itself, and bags into no bag.
CanHold(dest, i) == dest # i /\ (dest \in Bags => i \notin Bags)

\* playerMoveItem by p: to the inventory, a square, or a bag in reach.
MoveItem(p, i, dest) ==
  /\ p \in online
  /\ place[i] # None /\ InReach(p, i)
  /\ dest # place[i]
  /\ CanHold(dest, i)
  /\ dest \in Bags => InReach(p, dest)
  /\ place' = [place EXCEPT ![i] = dest]
  /\ EndTrades(Disturbed(i, dest))
  /\ UNCHANGED <<online, x>>

\* internalRemoveItem by a script, by use or by decay.
RemoveItem(i) ==
  /\ place[i] # None
  /\ Top(i) \in online \cup Squares
  /\ place' = [place EXCEPT ![i] = None]
  /\ EndTrades(Disturbed(i, None))
  /\ UNCHANGED <<online, x>>

\* Player::onRemoveCreature: logout, kick or death.
Leave(p) ==
  /\ p \in online
  /\ online' = online \ {p}
  /\ EndTrades(IF trade[p].partner # None THEN {p} ELSE {})
  /\ UNCHANGED <<x, place>>

Enter(p) ==
  /\ p \notin online
  /\ online' = online \cup {p}
  /\ UNCHANGED <<x, place, trade, tradeItems>>

TradeStep(p) ==
  \/ \E q \in Players, i \in Items : RequestTrade(p, q, i)
  \/ AcceptFirst(p)
  \/ AcceptFails(p)
  \/ AcceptTransfers(p)
  \/ CloseTrade(p)

WorldStep(p) ==
  \/ \E y \in Squares : Walk(p, y)
  \/ \E i \in Items, dest \in {p} \cup Squares \cup Bags : MoveItem(p, i, dest)
  \/ Leave(p)
  \/ Enter(p)

Next ==
  \/ \E p \in Players : TradeStep(p) \/ WorldStep(p)
  \/ \E i \in Items : RemoveItem(i)

Spec == Init /\ [][Next]_vars

-----------------------------------------------------------------------------
(* Properties                                                              *)

\* Trades come in pairs, and what a trade rests on stays at hand: the partners are near
\* each other and in the game, each offer is near its owner and nobody else carries it,
\* and no offer is, holds or lies in another, although callbacks are all that ends a trade.
TradesStand ==
  /\ \A p \in Players : trade[p] # NoTrade =>
       LET q == trade[p].partner
       IN /\ p \in online /\ q \in online
          /\ trade[q].partner = p
          /\ Distance(x[p], x[q]) <= 2
  /\ \A p \in Players : trade[p].item # None =>
       /\ InReach(p, trade[p].item)
       /\ trade[p].item \in tradeItems
  /\ \A i \in tradeItems : Cardinality({p \in Players : trade[p].item = i}) = 1
  /\ \A i, j \in tradeItems : place[i] # j

\* What a player is shown is what is traded: while a trade lasts an offer is neither
\* replaced nor moved, and nothing enters or leaves an offered bag.
OfferIsFinal ==
  [][\A p \in Players : LET i == trade[p].item IN
       (i # None /\ trade[p].partner = trade'[p].partner) =>
          /\ trade'[p].item = i
          /\ place'[i] = place[i]
          /\ \A j \in Items : place[j] = i <=> place'[j] = i]_vars

\* An offer passes from its owner's hands to another player's only to the partner, if
\* both offered something and one of them had accepted; and what the first to accept
\* offered leaves only when the other's offer moves as well.
OnlyByAgreement ==
  [][\A p \in Players, i \in Items : LET q == trade[p].partner IN
       (trade[p].item = i /\ Top(i) = p /\ Top(i)' \in Players \ {p}) =>
          /\ Top(i)' = q
          /\ trade[q].item # None
          /\ "ACCEPT" \in {trade[p].state, trade[q].state}
          /\ trade[p].state = "ACCEPT" => place'[trade[q].item] # place[trade[q].item]]_vars

-----------------------------------------------------------------------------
(* The invariant the proofs need (SocialProofs): what stands rests on where things  *)
(* can be, and on what the state of a trade says of its partner and its item.      *)

TypeOK ==
  /\ online \subseteq Players
  /\ x \in [Players -> Squares]
  /\ place \in [Items -> Players \cup Bags \cup Squares \cup {None}]
  /\ trade \in [Players -> [state : {"NONE", "INITIATED", "ACKNOWLEDGE", "ACCEPT"},
                            partner : Players \cup {None},
                            item : Items \cup {None}]]
  /\ tradeItems \subseteq Items

BagsHoldNoBags == \A b \in Bags : place[b] \notin Bags

StateTells ==
  \A p \in Players :
    /\ trade[p].state = "NONE" \/ trade[p].partner = None => trade[p] = NoTrade
    /\ trade[p].state = "ACKNOWLEDGE" => trade[p].item = None

IInv == TypeOK /\ BagsHoldNoBags /\ StateTells /\ TradesStand
=============================================================================
