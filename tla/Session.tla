------------------------------- MODULE Session ------------------------------
(***************************************************************************)
(* One character and the connections that log in with its name             *)
(* (protocolgame.cpp: login, connect, logout, release; game.cpp:           *)
(* placeCreature, removeCreature, checkCreatures, cleanup).                *)
(*                                                                         *)
(* A protocol is the server's half of one connection and logs in at most   *)
(* once.  A Player object is counted: by its protocol, by the map, by the  *)
(* list of creatures to check, and by ToReleaseCreatures, which gives the  *)
(* counts back later.  A task of the dispatcher is one action; the network *)
(* thread closes and destroys connections between any two of them.  A due  *)
(* event goes to the front of the queue and so runs next: it is an action. *)
(***************************************************************************)
EXTENDS Naturals, Sequences, FiniteSets

CONSTANTS
  Protocols,
  MaxPlayers,   \* bound: Player objects that may be created for the character
  None

Players == 1..MaxPlayers

ASSUME SessionAssumption ==
  /\ IsFiniteSet(Protocols)
  /\ MaxPlayers \in Nat
  /\ None \notin Protocols \cup Players

VARIABLES
  conn,         \* conn[p]: the Connection of p, until the object is destroyed
  queue,        \* the dispatcher's tasks for the protocols
  eventConnect, \* eventConnect[p]: the Player the scheduled connect is for
  player,       \* player[p]: ProtocolGame::player
  acceptPackets,\* protocols whose packets are parsed
  autosend,     \* OutputMessagePool::bufferedProtocols
  client,       \* client[c]: Player::client
  isConnecting, \* Players a connect was scheduled for
  online,       \* Players in the game: on the map, found by name and by id
  checked,      \* Players with creatureCheck
  inCheck,      \* Players in a list of creatures to check
  toRelease,    \* toRelease[c]: entries of c in ToReleaseCreatures
  refs,         \* refs[c]: the reference counter
  created,      \* how many Players were made so far
  \* history
  asked,        \* protocols whose login was queued
  ignored       \* protocols whose prey data could not be loaded

vars == <<conn, queue, eventConnect, player, acceptPackets, autosend, client, isConnecting,
          online, checked, inCheck, toRelease, refs, created, asked, ignored>>

protocolVars == <<eventConnect, acceptPackets, autosend, isConnecting>>
bindingVars  == <<player, client>>
gameVars     == <<online, checked, inCheck, toRelease>>
history      == <<created, asked, ignored>>

Task(o, p) == [op |-> o, protocol |-> p]

Init ==
  /\ conn = [p \in Protocols |-> "open"]
  /\ queue = <<>>
  /\ eventConnect = [p \in Protocols |-> None]
  /\ player = [p \in Protocols |-> None]
  /\ acceptPackets = {}
  /\ autosend = {}
  /\ client = [c \in Players |-> None]
  /\ isConnecting = {}
  /\ online = {}
  /\ checked = {}
  /\ inCheck = {}
  /\ toRelease = [c \in Players |-> 0]
  /\ refs = [c \in Players |-> 0]
  /\ created = 0
  /\ asked = {}
  /\ ignored = {}

-----------------------------------------------------------------------------
(* Connection::close and the network thread                                *)

\* Protocol::disconnect in a dispatcher task, which has left q of the queue.
\* Every close posts a release, as long as the Connection object lives.
Disconnect(p, q) ==
  IF p = None \/ conn[p] = "gone"
    THEN conn' = conn /\ queue' = q
    ELSE /\ conn' = [conn EXCEPT ![p] = IF @ = "open" THEN "closing" ELSE @]
         /\ queue' = Append(q, Task("release", p))

\* onRecvFirstMessage has found nothing wrong.
FirstMessage(p) ==
  /\ conn[p] = "open"
  /\ p \notin asked
  /\ asked' = asked \cup {p}
  /\ queue' = Append(queue, Task("login", p))
  /\ UNCHANGED <<conn, protocolVars, bindingVars, gameVars, refs, created, ignored>>

\* parsePacket of the logout byte.
LogoutPacket(p) ==
  /\ conn[p] = "open"
  /\ p \in acceptPackets
  /\ Task("logout", p) \notin {queue[i] : i \in DOMAIN queue}    \* bound: one at a time
  /\ queue' = Append(queue, Task("logout", p))
  /\ UNCHANGED <<conn, protocolVars, bindingVars, gameVars, refs, history>>

\* The client goes, a timer expires, or a read fails after the dispatcher closed.
NetworkClose(p) ==
  /\ conn[p] \in {"open", "closing"}
  /\ conn' = [conn EXCEPT ![p] = "closed"]
  /\ queue' = Append(queue, Task("release", p))
  /\ UNCHANGED <<protocolVars, bindingVars, gameVars, refs, history>>

\* The last handler that held the Connection returns.
Destroy(p) ==
  /\ conn[p] \in {"closing", "closed"}
  /\ conn' = [conn EXCEPT ![p] = "gone"]
  /\ UNCHANGED <<queue, protocolVars, bindingVars, gameVars, refs, history>>

-----------------------------------------------------------------------------
(* Reference counts and the game                                           *)

Increment(r, c) == [r EXCEPT ![c] = @ + 1]
Decrement(r, c) == [r EXCEPT ![c] = @ - 1]

\* Game::removeCreature takes c out of the game, once, and has its count given back later.
RemoveCreature(c) == online' = online \ {c} /\ checked' = checked \ {c}
ReleasedWith(c) == IF c \in online THEN Increment(toRelease, c) ELSE toRelease

\* Game::cleanup, with r the entries of ToReleaseCreatures.
Cleanup(r) ==
  /\ refs' = [c \in Players |-> refs[c] - r[c]]
  /\ toRelease' = [c \in Players |-> 0]

-----------------------------------------------------------------------------
(* Tasks of the dispatcher                                                 *)

Run(o, p) == queue # <<>> /\ Head(queue) = Task(o, p)

\* ProtocolGame::release lets go of a player who is still this protocol's.
ReleasePlayer(p) ==
  LET c == player[p] IN
  IF c # None /\ client[c] = p
    THEN /\ client' = [client EXCEPT ![c] = None]
         /\ player' = [player EXCEPT ![p] = None]
         /\ refs' = Decrement(refs, c)
    ELSE UNCHANGED <<bindingVars, refs>>

\* Variant: the protocol stays in the list of those to send for.
ReleaseButSend(p) ==
  /\ Run("release", p)
  /\ queue' = Tail(queue)
  /\ ReleasePlayer(p)
  /\ UNCHANGED <<conn, protocolVars, gameVars, history>>

Release(p) ==
  /\ Run("release", p)
  /\ queue' = Tail(queue)
  /\ ReleasePlayer(p)
  /\ autosend' = autosend \ {p}
  /\ UNCHANGED <<conn, eventConnect, acceptPackets, isConnecting, gameVars, history>>

\* login when nobody of that name is in the game: a Player is made with its client.
NewPlayer(p, c) ==
  /\ Run("login", p)
  /\ online = {}
  /\ c \in Players
  /\ c = created + 1
  /\ created' = c
  /\ player' = [player EXCEPT ![p] = c]
  /\ client' = [client EXCEPT ![c] = p]
  /\ UNCHANGED <<eventConnect, isConnecting, asked>>

\* The character cannot be loaded, is banned, has to wait or has no place to stand.
LoginRefused(p, c) ==
  /\ NewPlayer(p, c)
  /\ refs' = Increment(refs, c)
  /\ Disconnect(p, Tail(queue))
  /\ UNCHANGED <<acceptPackets, autosend, gameVars, ignored>>

\* Its prey data cannot be loaded: nobody tells the client.
LoginIgnored(p, c) ==
  /\ NewPlayer(p, c)
  /\ refs' = Increment(refs, c)
  /\ queue' = Tail(queue)
  /\ ignored' = ignored \cup {p}
  /\ UNCHANGED <<conn, acceptPackets, autosend, gameVars>>

\* Variant: the list of creatures to check does not count.
UncountedCheck(r, c) == Increment(Increment(r, c), c)

\* A Player just placed: counted by its protocol, the map and the list of creatures to check.
PlacedCounts(r, c) == Increment(Increment(Increment(r, c), c), c)

LoginPlaced(p, c) ==
  /\ NewPlayer(p, c)
  /\ refs' = PlacedCounts(refs, c)
  /\ online' = {c}
  /\ checked' = checked \cup {c}
  /\ inCheck' = inCheck \cup {c}
  /\ acceptPackets' = acceptPackets \cup {p}
  /\ autosend' = autosend \cup {p}
  /\ queue' = Tail(queue)
  /\ UNCHANGED <<conn, toRelease, ignored>>

\* A script refuses the login: the Player just placed is kicked out of the game again
\* (onPlacedCreature), and login goes on as if it had not been.
LoginKicked(p, c) ==
  /\ NewPlayer(p, c)
  /\ refs' = PlacedCounts(refs, c)
  /\ inCheck' = inCheck \cup {c}
  /\ toRelease' = Increment(toRelease, c)
  /\ Disconnect(p, Tail(queue))
  /\ acceptPackets' = acceptPackets \cup {p}
  /\ autosend' = autosend \cup {p}
  /\ UNCHANGED <<online, checked, ignored>>

\* Variant: connect does not look for a client again.
IsFreeUnchecked(c) == c \in online

\* connect finds the Player by id, and nobody else has taken it.
IsFree(c) == c \in online /\ client[c] = None

\* Variant: a connect that comes too late ends without a word.
ConnectSilently(p, c, q) ==
  \/ /\ ~IsFree(c) \/ conn[p] = "gone"
     /\ conn' = conn /\ queue' = q
     /\ UNCHANGED <<bindingVars, refs, acceptPackets, isConnecting>>
  \/ /\ IsFree(c)
     /\ conn[p] # "gone"
     /\ player' = [player EXCEPT ![p] = c]
     /\ client' = [client EXCEPT ![c] = p]
     /\ refs' = Increment(refs, c)
     /\ isConnecting' = isConnecting \ {c}
     /\ acceptPackets' = acceptPackets \cup {p}
     /\ conn' = conn /\ queue' = q

\* ProtocolGame::connect: refused, too late, or the Player is this protocol's.
Connect(p, c, q) ==
  \/ /\ ~IsFree(c)
     /\ Disconnect(p, q)
     /\ UNCHANGED <<bindingVars, refs, acceptPackets, isConnecting>>
  \/ /\ IsFree(c)
     /\ conn[p] = "gone"
     /\ conn' = conn /\ queue' = q
     /\ UNCHANGED <<bindingVars, refs, acceptPackets, isConnecting>>
  \/ /\ IsFree(c)
     /\ conn[p] # "gone"
     /\ player' = [player EXCEPT ![p] = c]
     /\ client' = [client EXCEPT ![c] = p]
     /\ refs' = Increment(refs, c)
     /\ isConnecting' = isConnecting \ {c}
     /\ acceptPackets' = acceptPackets \cup {p}
     /\ conn' = conn /\ queue' = q

\* login with a client to replace: it is disconnected, and connect comes a second later.
LoginReplaces(p, c) ==
  /\ Run("login", p)
  /\ c \in online
  /\ client[c] # None
  /\ Disconnect(client[c], Tail(queue))
  /\ isConnecting' = isConnecting \cup {c}
  /\ eventConnect' = [eventConnect EXCEPT ![p] = c]
  /\ autosend' = autosend \cup {p}
  /\ UNCHANGED <<acceptPackets, bindingVars, gameVars, refs, history>>

\* login of a character that stands in the game without a client.
LoginReconnects(p, c) ==
  /\ Run("login", p)
  /\ c \in online
  /\ client[c] = None
  /\ Connect(p, c, Tail(queue))
  /\ autosend' = autosend \cup {p}
  /\ UNCHANGED <<eventConnect, gameVars, history>>

\* The scheduled connect.
ConnectLater(p) ==
  /\ eventConnect[p] # None
  /\ Connect(p, eventConnect[p], queue)
  /\ eventConnect' = [eventConnect EXCEPT ![p] = None]
  /\ UNCHANGED <<autosend, gameVars, history>>

\* ProtocolGame::logout, from a packet; the game may forbid it to one who is in the game.
Logout(p) ==
  /\ Run("logout", p)
  /\ IF player[p] = None
       THEN UNCHANGED <<conn, gameVars>> /\ queue' = Tail(queue)
       ELSE /\ Disconnect(p, Tail(queue))
            /\ RemoveCreature(player[p])
            /\ toRelease' = ReleasedWith(player[p])
            /\ UNCHANGED inCheck
  /\ UNCHANGED <<protocolVars, bindingVars, refs, history>>

LogoutForbidden(p) ==
  /\ Run("logout", p)
  /\ player[p] \in online
  /\ queue' = Tail(queue)
  /\ UNCHANGED <<conn, protocolVars, bindingVars, gameVars, refs, history>>

-----------------------------------------------------------------------------
(* checkCreatures: the creatures of one list think, then cleanup.  A list  *)
(* holds any of the server's creatures; of ours at most one matters.       *)

\* Without creatureCheck the creature leaves the list, and the list's count with it.
Uncheck(c) ==
  /\ c \in inCheck \ checked
  /\ inCheck' = inCheck \ {c}
  /\ Cleanup(Increment(toRelease, c))
  /\ UNCHANGED <<conn, queue, protocolVars, bindingVars, online, checked, history>>

\* Nothing happens but the cleanup: also the check of a list without our creature.
Think ==
  /\ Cleanup(toRelease)
  /\ toRelease # [c \in Players |-> 0]
  /\ UNCHANGED <<conn, queue, protocolVars, bindingVars, online, checked, inCheck, history>>

\* A thinking c leaves the game, by way of its client if it has one.
Leave(c) ==
  /\ c \in inCheck \cap checked
  /\ RemoveCreature(c)
  /\ Cleanup(ReleasedWith(c))
  /\ UNCHANGED <<protocolVars, bindingVars, inCheck, history>>

\* sendPing: no pong for a minute, and canLogout allows it.
PingTimeout(c) ==
  /\ c \notin isConnecting
  /\ Leave(c)
  /\ Disconnect(client[c], queue)

\* Variant: the idle are kicked as canLogout allows.
IdleKickIfAllowed(c) ==
  /\ c \notin isConnecting
  /\ Leave(c)
  /\ Disconnect(client[c], queue)

\* onThink: idle for too long.
IdleKick(c) ==
  /\ Leave(c)
  /\ Disconnect(client[c], queue)

\* onDeath: the client stays, with a player that is no longer in the game.
Die(c) ==
  /\ Leave(c)
  /\ UNCHANGED <<conn, queue>>

-----------------------------------------------------------------------------
RunTask(p) ==
  \/ Release(p) \/ Logout(p) \/ LogoutForbidden(p)
  \/ \E c \in Players : \/ LoginRefused(p, c) \/ LoginIgnored(p, c) \/ LoginPlaced(p, c)
                       \/ LoginKicked(p, c)
                       \/ LoginReplaces(p, c) \/ LoginReconnects(p, c)

Network(p) == FirstMessage(p) \/ LogoutPacket(p) \/ NetworkClose(p) \/ Destroy(p)

CheckCreature(c) == Uncheck(c) \/ PingTimeout(c) \/ IdleKick(c) \/ Die(c)

Next ==
  \/ \E p \in Protocols : Network(p) \/ RunTask(p) \/ ConnectLater(p)
  \/ \E c \in Players : CheckCreature(c)
  \/ Think

Spec == Init /\ [][Next]_vars

\* The dispatcher runs its tasks and the due events.  The idle time of a Player without a
\* client only grows, so that it is kicked in the end: our character is not of the staff
\* and stands on no tile that forbids to log out, where the time would not be counted.
Fairness ==
  /\ \A p \in Protocols : WF_vars(RunTask(p)) /\ WF_vars(ConnectLater(p))
  /\ \A c \in Players : WF_vars(client[c] = None /\ IdleKick(c))

FairSpec == Spec /\ Fairness

-----------------------------------------------------------------------------
Queued(o, p) == \E i \in DOMAIN queue : queue[i] = Task(o, p)

Owners(c) == {p \in Protocols : player[p] = c}
OneIf(b) == IF b THEN 1 ELSE 0

\* The counter is exact: nothing that still refers to a Player sees it deleted, and
\* it is deleted when the last one lets go.
CountsExact ==
  \A c \in Players :
    refs[c] = Cardinality(Owners(c)) + OneIf(c \in online) + OneIf(c \in inCheck) + toRelease[c]

\* A protocol that messages are collected for is open, or will be taken off the list.
NothingSentToTheDead == \A p \in autosend : conn[p] = "open" \/ Queued("release", p)

\* A Player never passes from one protocol to another without being let go in between,
\* although several connects for it may be pending.
NeverStolen == [][\A c \in Players : client[c] # None => client'[c] \in {client[c], None}]_vars

\* Every login is answered: the player is in the game or the connection is closed; but
\* where the prey data could not be loaded.
LoginAnswered ==
  \A p \in Protocols :
    p \in asked ~> p \in acceptPackets \cup ignored \/ conn[p] # "open"

\* A Player in the game without a client gets one or leaves the game, also when a
\* connect that was announced never took it.
GhostLeaves == \A c \in Players : (c \in online /\ client[c] = None) ~> (c \notin online \/ client[c] # None)

-----------------------------------------------------------------------------
(* The invariant the proofs need (SessionProofs): a protocol logs in once and has  *)
(* no Player before, a Player that was not made is nobody's, and behind the login  *)
(* of a connection that is no longer open there waits its release.                 *)

Tasks == [op : {"login", "logout", "release"}, protocol : Protocols]

TypeOK ==
  /\ conn \in [Protocols -> {"open", "closing", "closed", "gone"}]
  /\ queue \in Seq(Tasks)
  /\ eventConnect \in [Protocols -> Players \cup {None}]
  /\ player \in [Protocols -> Players \cup {None}]
  /\ acceptPackets \subseteq Protocols /\ autosend \subseteq Protocols
  /\ client \in [Players -> Protocols \cup {None}]
  /\ online \subseteq Players /\ checked \subseteq Players /\ inCheck \subseteq Players
  /\ toRelease \in [Players -> Nat]
  /\ refs \in [Players -> Nat]
  /\ created \in 0..MaxPlayers

Holds(q, t) == \E i \in DOMAIN q : q[i] = t

LoginsDiffer(q) ==
  \A i, j \in DOMAIN q : q[i] = q[j] /\ q[i].op = "login" => i = j

LoginOnce ==
  /\ LoginsDiffer(queue)
  /\ \A p \in Protocols :
       /\ Holds(queue, Task("login", p)) =>
            p \in asked /\ player[p] = None /\ eventConnect[p] = None
       /\ eventConnect[p] # None => p \in asked /\ player[p] = None
       /\ player[p] # None => p \in asked

NotMadeYet == \A c \in Players : c > created => client[c] = None /\ c \notin online \cup inCheck

\* Of a queue q and the connections k.
ReleasedBehind(q, k) ==
  \A i \in DOMAIN q : q[i].op = "login" =>
    \/ k[q[i].protocol] = "open"
    \/ \E j \in DOMAIN q : j > i /\ q[j] = Task("release", q[i].protocol)

IInv ==
  /\ TypeOK
  /\ LoginOnce
  /\ NotMadeYet
  /\ ReleasedBehind(queue, conn)
  /\ CountsExact
  /\ NothingSentToTheDead
=============================================================================
