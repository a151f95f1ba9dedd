---------------------------- MODULE WaitingList -----------------------------
(***************************************************************************)
(* The waiting list of a full server (waitlist.cpp), as                    *)
(* ProtocolGame::login asks it.  A client that is refused is told when to  *)
(* try again; whether it does is up to the client.                         *)
(*                                                                         *)
(* One tick is five seconds.  An entry's timeout is kept as the time that  *)
(* is left; Past is any time behind.                                       *)
(***************************************************************************)
EXTENDS Integers, SequencesExt

CONSTANTS
  Players,
  Premium,      \* isPremium
  Privileged,   \* CanAlwaysLogin, gamemasters
  MaxPlayers,   \* the configured limit
  MaxDrift      \* bound of drift

VARIABLES
  online,       \* players in the game
  priorityWaitList,
  waitList,
  left,         \* the ticks until an entry's timeout
  drift         \* by how much priorityWaitList.size() is too large

vars == <<online, priorityWaitList, waitList, left, drift>>

Past == -1
Listed == ToSet(priorityWaitList) \cup ToSet(waitList)

TypeOK ==
  /\ online \subseteq Players
  /\ Listed \subseteq Players
  /\ left \in [Players -> Int]
  /\ drift \in 0..MaxDrift

\* WaitingList::getTime, in ticks.
GetTime(slot) ==
  CASE slot < 5 -> 1
    [] slot \in 5..9 -> 2
    [] slot \in 10..19 -> 4
    [] slot \in 20..49 -> 12
    [] OTHER -> 24

GetTimeout(slot) == GetTime(slot) + 3

\* cleanupList: timeout - time is unsigned, so "<= 0" only holds at the very moment.
Cleaned(list) == SelectSeq(list, LAMBDA p : left[p] # 0)

\* findClient: the place in both lists, counted through.
Slot(first, second, p) == CHOOSE i \in DOMAIN (first \o second) : (first \o second)[i] = p

Init ==
  /\ online = {}
  /\ priorityWaitList = <<>> /\ waitList = <<>>
  /\ left = [p \in Players |-> Past]
  /\ drift = 0

\* login goes on; loading or placing the player may fail.
Admitted(p) == online' \in {online, online \cup {p}}

\* clientLogin without a look at the lists.
EntersAtOnce(p) ==
  /\ p \notin online
  /\ \/ p \in Privileged
     \/ MaxPlayers = 0
     \/ Listed = {} /\ Cardinality(online) < MaxPlayers
  /\ Admitted(p)
  /\ UNCHANGED <<priorityWaitList, waitList, left, drift>>

Waits(p) == p \notin online \cup Privileged /\ MaxPlayers # 0
            /\ (Listed # {} \/ Cardinality(online) >= MaxPlayers)

HasRoom(slot) == Cardinality(online) + slot <= MaxPlayers

\* clientLogin of a client that is listed and has room: erased through waitList even if
\* it is in the other list, whose size is not corrected.
LetIn(p) ==
  LET first == Cleaned(priorityWaitList)  second == Cleaned(waitList)
  IN /\ Waits(p)
     /\ p \in ToSet(first \o second)
     /\ HasRoom(Slot(first, second, p))
     /\ priorityWaitList' = Remove(first, p)
     /\ waitList' = Remove(second, p)
     /\ drift' = IF p \in ToSet(first) /\ drift < MaxDrift THEN drift + 1 ELSE drift
     /\ Admitted(p)
     /\ UNCHANGED left

\* clientLogin of a client that is listed and has to wait on.
WaitsOn(p) ==
  LET first == Cleaned(priorityWaitList)  second == Cleaned(waitList)
  IN /\ Waits(p)
     /\ p \in ToSet(first \o second)
     /\ ~HasRoom(Slot(first, second, p))
     /\ priorityWaitList' = first /\ waitList' = second
     /\ left' = [left EXCEPT ![p] = GetTimeout(Slot(first, second, p))]
     /\ UNCHANGED <<online, drift>>

\* clientLogin of a new client.
LinesUp(p) ==
  LET first == Cleaned(priorityWaitList)  second == Cleaned(waitList)
  IN /\ Waits(p)
     /\ p \notin ToSet(first \o second)
     /\ IF p \in Premium
        THEN /\ priorityWaitList' = Append(first, p) /\ waitList' = second
             /\ left' = [left EXCEPT ![p] = GetTimeout(Len(first) + drift + 1)]
        ELSE /\ waitList' = Append(second, p) /\ priorityWaitList' = first
             /\ left' = [left EXCEPT ![p] = GetTimeout(Len(first) + Len(second) + 1)]
     /\ UNCHANGED <<online, drift>>

ClientLogin(p) == LetIn(p) \/ WaitsOn(p) \/ LinesUp(p)

Leave(p) ==
  /\ p \in online
  /\ online' = online \ {p}
  /\ UNCHANGED <<priorityWaitList, waitList, left, drift>>

Tick ==
  /\ left' = [p \in Players |-> IF left[p] > Past THEN left[p] - 1 ELSE Past]
  /\ UNCHANGED <<online, priorityWaitList, waitList, drift>>

Next == Tick \/ \E p \in Players : EntersAtOnce(p) \/ ClientLogin(p) \/ Leave(p)

Spec == Init /\ [][Next]_vars

-----------------------------------------------------------------------------
(* Properties                                                              *)

\* A login that goes through the lists leaves no entry behind whose time has passed: a
\* client that missed its retry by more than the 15 seconds of getTimeout loses its place.
\* cleanupList does not see to that, and whoever is behind such an entry has to wait for a
\* free place more than there needs to be.
ExpiredAreDropped ==
  [][\A p \in Players : ClientLogin(p) =>
       \A q \in ToSet(priorityWaitList') \cup ToSet(waitList') : left'[q] # Past]_vars
=============================================================================
