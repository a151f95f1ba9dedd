-------------------------------- MODULE Items --------------------------------
(***************************************************************************)
(* Items and the cylinders that hold them: what internalMoveItem,          *)
(* internalAddItem, internalPlayerAddItem, internalRemoveItem (game.cpp)    *)
(* do to stacks, containers, the inventory of a player and the tile he     *)
(* stands on (container.cpp, player.cpp, tile.cpp).  Every action is one   *)
(* task of the dispatcher.                                                 *)
(*                                                                         *)
(* The order of items in a container or on a tile is left out: where the   *)
(* code takes the first that fits, the item at an index or the topmost,    *)
(* the model takes any.  Scripts that refuse an item, locked and paginated *)
(* containers, hangable and blocking items, floor changes and what two     *)
(* hands can hold together are left out, as are the limits of a tile; of   *)
(* the slots of the inventory there are three.  An item that is nowhere is *)
(* free to be created; a clone is one of these.  No item is offered in a   *)
(* trade (Player::queryDestination passes over an offered one; module      *)
(* Trade has what an offer means).                                         *)
(***************************************************************************)
EXTENDS Integers, FiniteSets, Functions

CONSTANTS
  Items,
  Kinds,        \* the ids of item types, for stackables
  kind,         \* kind[i]: the id of an item
  Bags,         \* the containers among Items
  Stacks,       \* the stackable ones
  capacity,     \* capacity[b]: the slots of a container
  weight,       \* weight[i]: an item's own, or of one piece of a stack
  fits,         \* fits[i]: the slots of the inventory an item is made for
  StackSize,    \* 100
  Strength,     \* what the player can carry
  MaxItem,      \* of the configuration: in a container, at any depth
  MaxContainer,
  None

Slots  == {"left", "backpack", "ammo"}
Places == Slots \cup Bags \cup {"tile", "nowhere"}
Words  == Slots \cup {"tile", "nowhere", "player", "wherever", "index", "empty"}

ASSUME ItemsAssumption ==
  /\ IsFiniteSet(Items)
  /\ Bags \subseteq Items /\ Stacks \subseteq Items \ Bags
  /\ kind \in [Items -> Kinds]
  /\ \A i, j \in Items : kind[i] = kind[j] =>
       /\ i \in Stacks <=> j \in Stacks
       /\ weight[i] = weight[j] /\ fits[i] = fits[j]
  /\ fits \in [Items -> SUBSET Slots]
  /\ weight \in [Items -> Nat] /\ capacity \in [Bags -> Nat]
  /\ StackSize \in Nat \ {0} /\ Strength \in Nat
  /\ Words \cap Items = {} /\ None \notin Items

VARIABLES
  w,            \* what the actions change: see ItemsInit
  books,        \* history: the pieces of each kind there are, by what was reported
  event         \* history: in the last step two items were "swapped", or a part of an
                \* item was merged and the rest "cut" off by internalAddItem, or "none"

itemsVars == <<w, books, event>>

-----------------------------------------------------------------------------
(* Reading                                                                 *)

Content(v, c) == {i \in Items : v.in[i] = c}

\* The containers around an item: the least set that holds the one it is in, if any, and
\* with each container the one that is in.
Closed(v, i, A) == \A j \in A \cup {i} : v.in[j] \in Bags => v.in[j] \in A
Around(v, i) == {b \in Bags : \A A \in SUBSET Bags : Closed(v, i, A) => b \in A}

Inside(v, b) == {i \in Items : b \in Around(v, i)}

\* Item::getTopParent is the player.
Carried(v, i) == \E j \in Around(v, i) \cup {i} : v.in[j] \in Slots

\* getTopParentContainer, which stops one short of the outermost container.
TopParentContainer(v, b) ==
  LET second == {c \in Around(v, b) \cup {b} : v.in[c] \in Bags /\ v.in[v.in[c]] \notin Bags}
  IN IF second = {} THEN b ELSE CHOOSE c \in second : TRUE

\* getWeight: of a container with the cached weight of its content.
Weight(v, i) ==
  CASE i \in Bags -> weight[i] + v.total[i]
    [] i \in Stacks -> weight[i] * (IF v.count[i] > 1 THEN v.count[i] ELSE 1)
    [] OTHER -> weight[i]

Weights(v) == [i \in Items |-> Weight(v, i)]

Equals(i, j) == j # None /\ kind[i] = kind[j]

\* hasCapacity
HasCapacity(v, i, n) ==
  \/ Carried(v, i)
  \/ LET load == IF i \in Stacks THEN weight[i] * n ELSE Weight(v, i)
     IN load <= (IF Strength > v.burden THEN Strength - v.burden ELSE 0)

Occupant(v, s) == IF Content(v, s) = {} THEN None ELSE CHOOSE i \in Items : v.in[i] = s

-----------------------------------------------------------------------------
(* queryAdd: "ok", "exchange", or "no"                                     *)

QueryPlayer(v, i, n, s) ==
  LET o == Occupant(v, s) IN
  IF s \notin fits[i] THEN "no"
  ELSE IF o # None /\ (o \notin Stacks \/ kind[o] # kind[i]) THEN "exchange"
  ELSE IF HasCapacity(v, i, n) THEN "ok" ELSE "no"

Size(v, b) == Cardinality(Content(v, b))

\* Variant: a container may be put into one that lies in it.
TakesItsOwn(v, i, b, at) ==
  LET top == TopParentContainer(v, b) IN
  /\ i # b
  /\ at = "wherever" => Size(v, b) < capacity[b]
  /\ Cardinality(Inside(v, top)) < MaxItem
  /\ i \in Bags =>
       /\ Cardinality(Inside(v, i) \cap Bags) + 1 + Cardinality(Inside(v, top) \cap Bags)
            <= MaxContainer
       /\ Cardinality(Inside(v, i)) + 1 + Cardinality(Inside(v, top)) <= MaxItem

\* "wherever" is an index for which a container must have a free slot.
Takes(v, i, b, at) ==
  LET top == TopParentContainer(v, b) IN
  /\ i # b /\ i \notin Around(v, b)
  /\ at = "wherever" => Size(v, b) < capacity[b]
  /\ Cardinality(Inside(v, top)) < MaxItem
  /\ i \in Bags =>
       /\ Cardinality(Inside(v, i) \cap Bags) + 1 + Cardinality(Inside(v, top) \cap Bags)
            <= MaxContainer
       /\ Cardinality(Inside(v, i)) + 1 + Cardinality(Inside(v, top)) <= MaxItem

\* The container asks its top parent, which has nothing to add unless it is the player.
QueryContainer(v, i, n, b, at) ==
  IF Takes(v, i, b, at) /\ (Carried(v, b) => HasCapacity(v, i, n)) THEN "ok" ELSE "no"

QueryAdd(v, i, n, c, at) ==
  CASE c \in Slots -> QueryPlayer(v, i, n, c)
    [] c \in Bags -> QueryContainer(v, i, n, c, at)
    [] c = "tile" -> "ok"
    [] OTHER -> "no"

-----------------------------------------------------------------------------
(* queryMaxCount                                                           *)

Room(v, i) == StackSize - v.count[i]
Rooms(v) == [i \in Items |-> Room(v, i)]
Mergeable(v, i, c) == {j \in Content(v, c) \ {i} : i \in Stacks /\ Equals(i, j) /\ Room(v, j) > 0}

\* Variant: the slots that are taken count as free.
MaxInEmptied(v, i, b, at) ==
  LET onto == IF at = "wherever" THEN Mergeable(v, i, b)
              ELSE {j \in {at} \cap Items : Equals(i, j) /\ i \in Stacks /\ Room(v, j) > 0}
  IN IF i \in Stacks THEN capacity[b] * StackSize + SumFunctionOnSet(Rooms(v), onto)
     ELSE capacity[b]

\* The stack at an index counts when it is the one to merge with.
MaxIn(v, i, b, at) ==
  LET free  == IF capacity[b] > Size(v, b) THEN capacity[b] - Size(v, b) ELSE 0
      onto  == IF at = "wherever" THEN Mergeable(v, i, b)
               ELSE {j \in {at} \cap Items : Equals(i, j) /\ i \in Stacks /\ Room(v, j) > 0}
      takes == {j \in onto : QueryContainer(v, i, Room(v, j), b, j) = "ok"}
  IN IF i \in Stacks THEN free * StackSize + SumFunctionOnSet(Rooms(v), takes) ELSE free

MaxSlot(v, i, n, s) ==
  LET o == Occupant(v, s) IN
  IF o # None THEN IF o \in Stacks /\ Equals(i, o) THEN Room(v, o) ELSE 0
  ELSE IF QueryPlayer(v, i, n, s) # "ok" THEN 0
  ELSE IF i \in Stacks THEN StackSize ELSE 1

\* Of a player, all slots and the containers in them, at any depth.
MaxPlayer(v, i) ==
  LET open == {s \in Slots : LET o == Occupant(v, s) IN
                 o # None => QueryPlayer(v, i, Room(v, o), s) = "ok"}
  IN SumFunctionOnSet([s \in Slots |-> MaxSlot(v, i, v.count[i], s)], open)
     + SumFunctionOnSet([b \in Bags |-> MaxIn(v, i, b, "wherever")], {b \in Bags : Carried(v, b)})

MaxCount(v, i, n, c, at) ==
  CASE c \in Slots -> MaxSlot(v, i, n, c)
    [] c \in Bags -> MaxIn(v, i, c, at)
    [] c = "player" -> MaxPlayer(v, i)
    [] OTHER -> IF n > 1 THEN n ELSE 1

-----------------------------------------------------------------------------
(* queryDestination: the cylinder, and the item that is found there        *)

To(c, at, onto) == [to |-> c, at |-> at, onto |-> onto]

\* at: "wherever", an item (that of the index), or "empty" (an index beyond the items, and
\* beyond the capacity it is as good as wherever).
InContainer(v, i, b, at) ==
  LET free  == IF i \in Stacks /\ v.in[i] # b THEN Mergeable(v, i, b) ELSE {}
      index == IF at = "empty" /\ Size(v, b) >= capacity[b] THEN "wherever" ELSE at
  IN IF free # {} THEN {To(b, j, j) : j \in free}
     ELSE {To(b, index, IF at \in Items THEN at ELSE None)}

\* A container in the way is entered, wherever in it.
Enter(v, i, b, at) == IF at \in Bags THEN InContainer(v, i, at, "wherever")
                      ELSE InContainer(v, i, b, at)

\* Wherever on a player: a slot if one takes it, else a container that does.
SlotsFor(v, i) ==
  {s \in Slots : /\ QueryPlayer(v, i, v.count[i], s) = "ok"
                 /\ Occupant(v, s) # i
                 /\ Occupant(v, s) # None => Occupant(v, s) \in Mergeable(v, i, s)}

\* The room of a container is its capacity less its size, which is not zero for one that
\* holds too many.  A stack is not counted where it is, and the index is then of an item.
BagsFor(v, i) ==
  LET carried == {b \in Bags : Carried(v, b)}
      room(b) == IF i \in Stacks
                 THEN Mergeable(v, i, b) = {} /\ Cardinality(Content(v, b) \ {i}) < capacity[b]
                 ELSE Size(v, b) # capacity[b]
      at(b)   == IF i \in Stacks /\ v.in[i] = b THEN Content(v, b) ELSE {"empty"}
      open    == {b \in carried : room(b) /\ QueryContainer(v, i, v.count[i], b, "empty") = "ok"}
  IN (UNION {{To(b, j, j) : j \in Mergeable(v, i, b)} : b \in carried})
     \cup (UNION {{To(b, j, None) : j \in at(b)} : b \in open})

OnPlayer(v, i) ==
  IF SlotsFor(v, i) # {} THEN {To(s, s, Occupant(v, s)) : s \in SlotsFor(v, i)}
  ELSE BagsFor(v, i)

OnTile(v) ==
  IF Content(v, "tile") = {} THEN {To("tile", "wherever", None)}
  ELSE {To("tile", "wherever", j) : j \in Content(v, "tile")}

\* What internalMoveItem arrives at, following queryDestination as far as it leads.
Destinations(v, i, c, at) ==
  CASE c = "player" ->
         UNION {IF d.to \in Bags THEN Enter(v, i, d.to, d.at) ELSE {d} : d \in OnPlayer(v, i)}
    [] c \in Slots /\ Occupant(v, c) \in Bags -> InContainer(v, i, Occupant(v, c), "wherever")
    [] c \in Slots /\ Occupant(v, c) \notin Bags -> {To(c, c, Occupant(v, c))}
    [] c \in Bags -> Enter(v, i, c, at)
    [] c = "tile" -> OnTile(v)

-----------------------------------------------------------------------------
(* addThing, removeThing, updateThing                                      *)

\* updateItemWeight
Heavier(v, b, d) ==
  [v EXCEPT !.total = [c \in Bags |->
     IF c = b \/ c \in Around(v, b) THEN v.total[c] + d ELSE v.total[c]]]

Loads(v, c, d) == IF c \in Bags THEN Heavier(v, c, d) ELSE v

PutIn(v, i, c) == Loads([v EXCEPT !.in[i] = c], c, Weight(v, i))
TakeOut(v, i) == Loads([v EXCEPT !.in[i] = "nowhere"], v.in[i], -Weight(v, i))

\* A container takes nothing at an index beyond its capacity.
AddThing(v, c, at, i) ==
  IF c \in Bags /\ at = "empty" /\ Size(v, c) >= capacity[c] THEN v ELSE PutIn(v, i, c)

\* Variant: the containers around a stack keep the weight it had.
SetCountOnly(v, i, n) == [v EXCEPT !.count[i] = n]

SetCount(v, i, n) ==
  LET u == [v EXCEPT !.count[i] = n] IN Loads(u, v.in[i], Weight(u, i) - Weight(v, i))

RemoveThing(v, i, n) ==
  IF i \in Stacks /\ n # v.count[i] THEN SetCount(v, i, v.count[i] - n)
  ELSE TakeOut(v, i)

\* postAddNotification and postRemoveNotification: a player reckons his burden anew.
Owned(v, c) == c \in Slots \/ (c \in Bags /\ Carried(v, c))
Load(v) == SumFunctionOnSet(Weights(v), {i \in Items : v.in[i] \in Slots})

\* Variant: only what happens in a slot is a player's business.
NotifySlots(v, places) ==
  IF places \cap Slots # {} THEN [v EXCEPT !.burden = Load(v)] ELSE v

Notify(v, places) ==
  IF \E c \in places : Owned(v, c) THEN [v EXCEPT !.burden = Load(v)] ELSE v

\* ReleaseItem, with all that is inside.
Release(v, i) ==
  LET gone(j) == j = i \/ i \in Around(v, j)
  IN [v EXCEPT !.in    = [j \in Items |-> IF gone(j) THEN "nowhere" ELSE v.in[j]],
               !.count = [j \in Items |-> IF gone(j) THEN 0 ELSE v.count[j]],
               !.total = [b \in Bags |-> IF gone(b) THEN 0 ELSE v.total[b]]]

Spare(v, k) == {i \in Content(v, "nowhere") : kind[i] = k}

Pieces(v, k) ==
  SumFunctionOnSet(v.count, {i \in Items : v.in[i] # "nowhere" /\ kind[i] = k})

Least(a, b) == IF a < b THEN a ELSE b

-----------------------------------------------------------------------------
(* internalMoveItem                                                        *)

\* Two items change places, if the source takes the one that is in the way.  Nothing is
\* added to a player in this way: his addThing without a slot does nothing.
MayExchange(v, i, d) ==
  /\ QueryAdd(v, d.onto, v.count[d.onto], v.in[i], "index") = "ok"
  /\ MaxCount(v, d.onto, v.count[d.onto],
              IF v.in[i] \in Slots THEN "player" ELSE v.in[i], "wherever") > 0

Exchanged(v, i, d) ==
  LET out == RemoveThing(v, d.onto, v.count[d.onto])
  IN Notify(IF v.in[i] \in Slots THEN out ELSE AddThing(out, v.in[i], "index", d.onto),
            {d.to, v.in[i]})

\* How much of m merges with an item.
Merges(v, i, m, j) == IF i \in Stacks /\ Equals(i, j) THEN Least(Room(v, j), m) ELSE 0

Merged(v, j, k) == IF k > 0 THEN SetCount(v, j, v.count[j] + k) ELSE v

\* A stack of which nothing is left is released.
Released(v, i) ==
  IF i \in Stacks /\ v.in[i] = "nowhere" THEN [v EXCEPT !.count[i] = 0] ELSE v

Clone(v, i) ==
  IF v.in[i] = "nowhere" THEN i ELSE CHOOSE j \in Spare(v, kind[i]) : TRUE

AddClone(v, j, n, d) == AddThing([v EXCEPT !.count[j] = n], d.to, d.at, j)

\* What did not merge is added, n of it.
AddRest(v, i, n, d) ==
  IF i \notin Stacks THEN AddThing(v, d.to, d.at, i)
  ELSE IF n = 0 THEN v ELSE AddClone(v, Clone(v, i), n, d)

\* Variant: the clone keeps what was merged.
DeliverTwice(v, i, m, d) ==
  LET k == Merges(v, i, m, d.onto)
  IN AddRest(Released(Merged(v, d.onto, k), i), i, IF m = k THEN 0 ELSE m, d)

\* m of an item, taken away, come to a destination: they merge with the item found there,
\* and the rest is a clone.
Deliver(v, i, m, d) ==
  LET k == Merges(v, i, m, d.onto)
  IN AddRest(Released(Merged(v, d.onto, k), i), i, m - k, d)

\* What is moved of n is as much as fits.
Moved(v, i, n, d) ==
  LET most == MaxCount(v, i, n, d.to, d.at)
      m    == IF i \in Stacks THEN Least(n, most) ELSE most
  IN IF most = 0 THEN v ELSE Notify(Deliver(RemoveThing(v, i, m), i, m, d), {v.in[i], d.to})

MoveItem(i, n, c, at) ==
  /\ w.in[i] # "nowhere" /\ (c \in Bags => w.in[c] # "nowhere")
  /\ i \in Stacks /\ n < w.count[i] => Spare(w, kind[i]) # {}   \* bound: a clone
  /\ \E d \in Destinations(w, i, c, at) :
       LET asked == QueryAdd(w, i, n, d.to, d.at)
           after == Exchanged(w, i, d)
           then  == [d EXCEPT !.onto = None]
       IN /\ d.onto # i
          /\ \/ asked = "ok" /\ w' = Moved(w, i, n, d) /\ event' = "none"
             \/ /\ asked = "exchange"
                /\ MayExchange(w, i, d)
                /\ w' = IF QueryAdd(after, i, n, d.to, d.at) = "ok"
                        THEN Moved(after, i, n, then) ELSE after
                /\ event' = "swapped"
  /\ UNCHANGED books

-----------------------------------------------------------------------------
(* internalAddItem                                                         *)

\* internalAddItem on its way, of which count[i] pieces are yet to be added.  merges: the
\* stacks that took a part.  left: the part that did not fit and that the caller learns of.
\* dropped: the part that is forgotten, when only a slot of the player was found, when the
\* rest of a rest does not fit, or when a container that holds too many was chosen.
Adding(v) == [v |-> v, stage |-> "adding", merges |-> 0, left |-> 0, dropped |-> 0]

Vanish(v, i) == [v EXCEPT !.count[i] = 0]

\* The call for a rest is refused: what was merged stays, the rest is deleted, and nobody
\* is told but the caller of the first call.
Refused(r, i) ==
  CASE r.merges = 0 -> [r EXCEPT !.stage = "refused"]
    [] r.merges = 1 -> [r EXCEPT !.stage = "cut", !.v = Vanish(r.v, i), !.left = r.v.count[i]]
    [] OTHER -> [r EXCEPT !.stage = "cut", !.v = Vanish(r.v, i), !.dropped = @ + r.v.count[i]]

Ended(r, v, dropped) == [r EXCEPT !.stage = "done", !.v = v, !.dropped = @ + dropped]

Wherever(v, i, c) ==
  CASE c = "player" -> OnPlayer(v, i)
    [] c \in Bags -> InContainer(v, i, c, "wherever")
    [] c = "tile" -> OnTile(v)

\* What fits of item i into c, and what of that into the stack that was found.
Fit(v, i, c) == Least(v.count[i], MaxCount(v, i, v.count[i], c, "wherever"))
Filled(v, i, c, j) == Least(Room(v, j), Fit(v, i, c))

Accepts(v, i, c, d) ==
  /\ QueryAdd(v, i, v.count[i], d.to, d.at) = "ok"
  /\ d.to \in Bags => Fit(v, i, c) = v.count[i]

\* The item comes to destination d.
PutAt(r, i, d) ==
  LET put == AddThing(r.v, d.to, d.at, i)
  IN IF put.in[i] = "nowhere" THEN Ended(r, Vanish(r.v, i), r.v.count[i])
     ELSE Ended(r, Notify(put, {d.to}), 0)

\* It merges with the stack found there; the rest is added by a call of its own.
MergeAt(r, i, c, d) ==
  LET k      == Filled(r.v, i, c, d.onto)
      rest   == Fit(r.v, i, c) - k
      cut    == r.v.count[i] - Fit(r.v, i, c)
      merged == SetCount(r.v, d.onto, r.v.count[d.onto] + k)
  IN IF rest = 0 THEN Ended(r, Notify(Vanish(merged, i), {d.to}), cut)
     ELSE IF rest = r.v.count[i] THEN PutAt(r, i, d)
     ELSE [r EXCEPT !.v = [merged EXCEPT !.count[i] = rest],
                    !.merges = @ + 1, !.dropped = @ + cut]

\* One call of internalAddItem.
Call(r, i, c) ==
  IF r.stage # "adding" THEN {r}
  ELSE IF Wherever(r.v, i, c) = {} THEN {Refused(r, i)}
  ELSE {IF ~Accepts(r.v, i, c, d) THEN Refused(r, i)
        ELSE IF i \in Stacks /\ Equals(i, d.onto) THEN MergeAt(r, i, c, d)
        ELSE PutAt(r, i, d) : d \in Wherever(r.v, i, c)}

\* Item i, which is nowhere yet, comes to c: a call for it, and one for each rest, which is
\* smaller every time.
InternalAdd(v, i, c) ==
  LET after[n \in 0..v.count[i]] ==
        IF n = 0 THEN {Adding(v)} ELSE UNION {Call(r, i, c) : r \in after[n - 1]}
  IN after[v.count[i]]

Fresh(k, n) == LET i == CHOOSE i \in Spare(w, k) : TRUE
               IN [item |-> i, v |-> [w EXCEPT !.count[i] = n]]

Sizes(k) == IF \E i \in Stacks : kind[i] = k THEN 1..StackSize ELSE {1}

Books(k, n) == books' = [books EXCEPT ![k] = @ + n]

Note(r) == event' = IF r.stage = "cut" THEN "cut" ELSE "none"

\* container:addItem and tile:addItem of a script, which deletes what was refused.
AddItem(k, n, c) ==
  /\ Spare(w, k) # {} /\ (c \in Bags => w.in[c] # "nowhere")
  /\ \E r \in InternalAdd(Fresh(k, n).v, Fresh(k, n).item, c) :
       /\ r.stage \in {"done", "cut"}
       /\ w' = r.v
       /\ Books(k, n - r.left - r.dropped)
       /\ Note(r)

\* internalPlayerAddItem: what the player cannot take lies on the tile.
PlayerAddItem(k, n, dropOnMap) ==
  LET i == Fresh(k, n).item IN
  /\ Spare(w, k) # {}
  /\ \E r \in InternalAdd(Fresh(k, n).v, i, "player") :
       LET over == IF r.stage = "refused" THEN n ELSE r.left IN
       /\ r.stage = "refused" => dropOnMap
       /\ Books(k, n - r.dropped)
       /\ IF over = 0 THEN w' = r.v
          ELSE \E q \in InternalAdd([r.v EXCEPT !.count[i] = over], i, "tile") : w' = q.v
       /\ Note(r)

-----------------------------------------------------------------------------
\* internalRemoveItem
RemoveItem(i, n) ==
  /\ w.in[i] # "nowhere"
  /\ LET taken == RemoveThing(w, i, n)
     IN w' = Notify(IF taken.in[i] = "nowhere" THEN Release(taken, i) ELSE taken, {w.in[i]})
  /\ books' = [k \in Kinds |->
       books[k] - (IF kind[i] = k THEN n ELSE 0)
                - SumFunctionOnSet(w.count, {j \in Inside(w, i) : kind[j] = k})]
  /\ event' = "none"

\* A client names an index of a container only.
Indices(c) == {"wherever"} \cup (IF c \in Bags THEN Content(w, c) \cup {"empty"} ELSE {})

ItemsInit ==
  /\ w = [in |-> [i \in Items |-> "nowhere"], count |-> [i \in Items |-> 0],
          total |-> [b \in Bags |-> 0], burden |-> 0]
  /\ books = [k \in Kinds |-> 0]
  /\ event = "none"

ItemsNext ==
  \/ \E i \in Items : \E n \in 1..w.count[i] :
       \E c \in Slots \cup Bags \cup {"tile", "player"} : \E at \in Indices(c) : MoveItem(i, n, c, at)
  \/ \E k \in Kinds : \E n \in Sizes(k) :
       \/ \E c \in Bags \cup {"tile"} : AddItem(k, n, c)
       \/ \E dropOnMap \in BOOLEAN : PlayerAddItem(k, n, dropOnMap)
  \/ \E i \in Items : \E n \in 1..w.count[i] : RemoveItem(i, n)

ItemsSpec == ItemsInit /\ [][ItemsNext]_itemsVars

-----------------------------------------------------------------------------
(* Properties                                                              *)

\* Nothing is lost and nothing doubled by splitting, merging, exchanging and rearranging:
\* there are as many pieces of everything as were reported, less what internalAddItem
\* drops.  No stack is empty or higher than a stack may be, which the client's and the
\* file's one byte for it would not survive.
Accounted ==
  /\ \A k \in Kinds : Pieces(w, k) = books[k]
  /\ \A i \in Items : w.in[i] # "nowhere" =>
       w.count[i] \in 1..(IF i \in Stacks THEN StackSize ELSE 1)

\* No container is inside itself, whatever is put into what, and a slot holds one item.
InOnePlace ==
  /\ \A b \in Bags : b \notin Around(w, b)
  /\ \A s \in Slots : Cardinality(Content(w, s)) <= 1

\* The weight that a container keeps for its content is right, at every depth.
WeightsAgree ==
  \A b \in Bags : w.total[b] = SumFunctionOnSet(Weights(w), Content(w, b))

\* What is nowhere has no pieces, and nothing lies in it.
NowhereIsEmpty ==
  \A i \in Items : w.in[i] = "nowhere" => w.count[i] = 0 /\ \A j \in Items : w.in[j] # i

ItemsTypeOK ==
  /\ w \in [in : [Items -> Places], count : [Items -> Nat], total : [Bags -> Nat], burden : Nat]
  /\ books \in [Kinds -> Int]
  /\ event \in {"none", "swapped", "cut"}

\* Inductive: how many pieces there are says nothing unless those that are nowhere count
\* none, weights can be carried up only where no container is inside itself, and what is
\* put into a container is somewhere only if the container is.
ItemsIInv == ItemsTypeOK /\ Accounted /\ InOnePlace /\ WeightsAgree /\ NowhereIsEmpty

\* The burden stays right unless internalAddItem merges a part and finds no room for the
\* rest, or for a rest of that: then nobody is told.
BurdenKept == [][event' # "cut" /\ w.burden = Load(w) => w'.burden = Load(w')]_itemsVars

\* Only an exchange can fill a container beyond its capacity.
NotOverfilled ==
  [][event' # "swapped" => \A b \in Bags :
       Size(w', b) <= Size(w, b) \/ Size(w', b) <= capacity[b]]_itemsVars
=============================================================================
