# A verification of the game server

The repository is a game server (a fork of The Forgotten Server). This directory holds TLA+ models of its
core, the TLC configurations that check them on small instances, and TLAPS proofs of what matters most for
every instance. Paths below are relative to `src/src/`.

* [The system](#the-system)
* [Modules](#modules)
* [The components, their models and their checks](#the-components-their-models-and-their-checks)
* [Findings](#findings)
* [Proofs](#proofs)
* [What is only model-checked, and what is not modelled](#what-is-only-model-checked-and-what-is-not-modelled)
* [Plan](#plan)
* [Running the checks](#running-the-checks)

## The system

The process has four threads.

| Thread | Runs | Code |
|---|---|---|
| network | `main`, in `io_service.run`: accepts, handlers of reads, writes and timers, signals | `otserv.cpp`, `server.cpp`, `connection.cpp`, `signals.cpp` |
| dispatcher | the whole game, one task after the other | `tasks.cpp`, then everything else |
| scheduler | sleeps until the earliest timed event is due and gives it to the dispatcher | `scheduler.cpp` |
| database | asynchronous queries; hands the results to the dispatcher | `databasetasks.cpp` |

The game itself is therefore sequential, and its hard behaviour is of two kinds: what the threads do to
each other at their borders, and what one *task* leaves for a later one (an id, a pointer, a flag, a
scheduled event) when other tasks run in between.

### Inventory

What each component keeps, what it does, whom it talks to, and what makes it correct. "Model" names the
module, or says that there is none.

| Component | State | Operations | Talks to | Hard behaviour, and what makes it correct | Model |
|---|---|---|---|---|---|
| Scheduler | priority queue of events, ids of the active ones, thread state | `addEvent`, `stopEvent`, `stop`, `shutdown`, the thread | dispatcher (hands over), every caller | wake-ups, a top that changes while the thread sleeps, cancellation of an event that is due: it fires once, not early, never after a cancel | `Scheduler` |
| Dispatcher | list of tasks, thread state | `addTask`, `stop`, `shutdown`, the thread | everybody | one signal for many callers, tasks that expire, priority of due events, tasks after `stop` | `Dispatcher` |
| DatabaseTasks | queue of queries, thread state | `addTask`, `flush`, `stop`, `shutdown`, the thread | database, dispatcher (callbacks) | two threads run queries; nothing accepted is lost, order is bounded | `DatabaseTasks` |
| Server lifecycle | game state, open ports, states of all threads | load, go online, save, close, signal, shut down, join | all thread holders, game, network | shutdown crosses three queues; saved at the end, process ends | `ServerLifecycle` |
| Connection | socket, handshake, message queue, two timers | accept, parse, send, write, time out, close | protocol, dispatcher | two threads; order of the stream, deferred close, handlers that come late | `Connection` |
| Service ports, connection manager | acceptors, services, set of connections | open, accept, close all | connection, scheduler | reopening after an error from another thread | part of `Connection` and `ServerLifecycle` |
| Game sessions | `ProtocolGame` and `Player` pointers, reference counts, autosend list | log in, replace, reconnect, log out, kick, die, release | connection, game, scheduler | a character is passed between connections by delayed tasks; counts exact, nobody stuck | `Session` |
| Waiting list | two lists with time-outs | `clientLogin` | login | stale entries | `WaitingList` |
| Parties | leader, members, invitations, pointers of players | invite, join, revoke, pass, leave, disband | players, chat | pointers between objects that delete each other | `Party` |
| Safe trade | partner, item and state of each player; offered items | request, accept, close; callbacks of the map and of containers | items, players, houses | an offer is a pointer to an item anyone may touch meanwhile | `Trade` |
| Output pool | list of protocols, 10 ms timer | send all, add, remove | protocols, scheduler | chain of timers | autosend list in `Session` |
| Other protocols | one request | login, status, old clients | connection, database | none beyond `Connection` | - |
| Network messages, RSA | a buffer | read, write, encrypt | protocols | encoding only | - |
| Database, transactions | one handle, one recursive mutex | query, begin, commit, roll back, reconnect | MySQL | lock given up between BEGIN and the statements, retries in a transaction: what is in store is whole at every moment | `Database` |
| Player loading and saving | rows of the database | load, save | database, players | several statements, retries: a save that reports success is in store | the save in `Database`, with the prey data, when it happens in `ServerLifecycle` |
| Market | offers, history | create, accept, cancel, expire | database tasks, inbox, bank | expiry settles what was read earlier | - |
| Items, containers, cylinders | the tree of things, cached weights | add, move, remove, exchange, transform | map, players, callbacks | checks, then moves, then notifications: no piece lost or doubled, no container in itself, weights right at every depth | `Items`; offered items in `Trade` |
| Decay, imbuements | four buckets of items | start, check, clean up | items | rounding, references held by buckets | - |
| Houses | owner, access lists, transfer document | set owner, transfer, pay rent, auction | trade, database, beds | transfer by trade | saving them in `Database`; the document is an item of `Trade` |
| Beds | sleeper | sleep, wake | players, scheduler, database | delayed kick of the sleeper | - |
| Map, path finding, map files | tiles, quadtree | move, spectators, paths, load, save | all | sequential | - |
| Creatures, monsters | targets, walk events, check lists | think, attack, walk | map, combat | sequential, walks are events | check lists in `Session` |
| Players | skills, inventory, flags | log in and out, gain, equip | all | the ties to sessions, trades, parties | `Session`, `Party`, `Trade`, the inventory in `Items` |
| Combat, conditions, spells, weapons | areas, timers per creature | execute, tick | creatures | formulas | - |
| Spawns | blocks, monsters alive, one timer | check, spawn, clean up | scheduler, monsters | the timer stops and must start again | - |
| Raids | the raid that runs, timers | start, next event, reload | scheduler | reload while a raid runs | - |
| NPCs | dialogues, in scripts | say, shop | players, scripts | content | - |
| Chat | channels, users, invitations | open, talk, close | players, guilds, parties | one call at a time | - |
| Guilds | members online, wars | add, remove | players | deletes itself with its last member | - |
| Bans | attempts per address | accept connection | network, dispatcher | one lock | - |
| Store, prey, coins | rows, prey slots | buy, transfer | database | queries in sequence | the transfer of coins in `Database` |
| Depots, mail, rewards | containers | send, collect | players on- and offline | copies of offline players | - |
| Scripts and events | Lua states | callbacks, bindings | all | content | - |
| Quests | none (derived) | look up | players | none | - |
| Configuration, files | values | load, reload | all | parsing | - |

## Modules

```
TimerService <--implements-- Scheduler ......... MCScheduler,  SchedulerProofs
WorkQueue    <--implements-- Dispatcher ........ MCDispatcher, DispatcherProofs
             <--implements-- DatabaseTasks ..... MCDatabaseTasks, DatabaseTasksProofs
                             ServerLifecycle ... MCServerLifecycle, ServerLifecycleProofs
                             Database .......... MCDatabase, StoreProofs
                             Connection ........ MCConnection, ConnectionProofs
                             Session ........... MCSession, SessionProofs
PartyMembership <--implements-- Party .......... MCParty, SocialProofs
                             Trade ............. MCTrade, SocialProofs
                             Items ............. MCItems, StoreProofs
                             WaitingList ....... MCWaitingList
```

`ServerLifecycle` composes the three thread holders at shutdown: it keeps of each one what the end needs
(the dispatcher's queue, the other threads' test of their state and their sleep). `Session` composes the
protocols, the connections and the game: of a connection it keeps whether it is open, closed or destroyed
and that every close posts a release, which is what `Connection` shows of it in detail. `Database` composes
what the dispatcher does in transactions with the queries of the database thread, which `DatabaseTasks` has
as single steps, on the one handle both use. `Party` and `Trade` extend `PlayersOnline`, who is in
the game, and are proved about in one module that extends both: so the definitions of `Party` that would
clash have the prefix of their module (`PartyInit`, `PartyNext`, `PartySpec`, `PartyTypeOK`, `PartyIInv`).
`Database` and `Items`, which share nothing, have one module of proofs as well, and `Items` the prefix.

Conventions. A section of code under one lock, and a task of the dispatcher, is one action; what the code
does between two locks is a step of its own. Variables have the names of the fields they stand for;
*history* variables are marked and never read by a guard that models code. An operator that a comment calls
a *Variant* is the operator below it with a plausible mistake: the properties are checked to fail with it.
An `MC` module fixes what a `.cfg` cannot say. No bound is hidden: `MaxTime`, `MaxEventId`, `MaxMessages`,
`MaxQueue`, `MaxPlayers`, `MaxX`, `MaxDrift`, `MaxVersion`, `MaxLosses` and `MaxTries` are constants.

## The components, their models and their checks

### Scheduler (`Scheduler.tla`, run `scheduler`)

`eventList` is the priority queue as the set of its events; `TaskComparator` does not order events that are
due together, so that any earliest one may be the top. `AddEvent` is the locked part of `addEvent`, and the
`notify_one` after the unlock is `SendSignal`; `LockAndWait`, `WakeIdle`, `WakeStopped`, `WakeDue` and
`HandOver` are `threadMain`. Spurious wake-ups and a timeout that comes with a notification are possible.

*Checked*, with two events, two callers and three ticks of the clock: the thread never sleeps past the
earliest event once nobody owes it a notification (`SleepsUntilEarliest`); the whole implements
`TimerService` - a timer fires at most once, not before its time, and not after a cancel that returned true;
and every event leaves the queue (`EveryEventLeaves`). Two events are
enough for an earlier one to overtake the one slept on, two callers for a notification to be owed by either.
For more of them there are the proofs.

*Event ids.* The counter has 32 bits and skips 0 when it wraps. An id that is given again while its first
owner is queued would make two events one. `SchedulerAssumption` excludes this by `Cardinality(Tasks) <=
MaxEventId`: the model and the proofs speak of the first 2^32 - 1 events. Two of these a millisecond take
three weeks, so a server that runs for long without a restart leaves this assumption, but an event would
have to stay queued all that time.

### Dispatcher (`Dispatcher.tla`, run `dispatcher`)

`AddTask`/`DropTask` and `SendSignal` are `addTask`; `Take`, `Run` and `Expire` are `threadMain`; `Stop` and
`Shutdown` are what `setGameState` and `Game::shutdown` call. Tasks added by the scheduler go to the front.

*Checked*, with two posted tasks, one timed, two callers and one tick: only the caller that finds the list
empty signals, and yet no wake-up is lost (`NoLostWakeup`); tasks at the back
begin in the order of their acceptance (`FifoAtBack`); when the thread ends everything accepted before
`shutdown` was run or had expired (`NothingLeftBehind`); it implements `WorkQueue` with one worker; and
`shutdown` ends the thread (`ShutdownEnds`). That timed tasks never expire, although their expiration,
unless cleared, would be the very time they were due, is only proved (`TimedTasksRun`).

### DatabaseTasks (`DatabaseTasks.tla`, run `database_tasks`)

The dispatcher flushes the queue itself during a save and at shutdown, while the database thread may hold a
query. `runTask` is two steps: the query and the callback.

*Checked*, with four queries, two of them with callbacks, and two callers: shutdown loses nothing that was accepted (`NothingLost`); no result
is handed over twice or before its query was executed, and as long as the dispatcher accepts tasks none is missing
(`ResultsAccounted`, which counts each hand-over); it implements
`WorkQueue` with two workers; and each accepted query is executed (`EveryQueryRuns`). Four queries let both
threads hold one with others before and behind. That a query is overtaken only while a thread holds it is
proved (`BoundedReordering`).

### Server lifecycle (`ServerLifecycle.tla`, runs `lifecycle` and `lifecycle_hang`)

`main` is the thread of `otserv.cpp`, `disp` where the dispatcher is in the task it runs, `queue` its list.
Loading ends well or not. A shutdown comes from a signal, a script or a scheduled save; `/closeserver` and
its opposite are tasks of a player. Network handlers check the game state first (`FirstMessage`, `Packet`)
and add their task later (`AddTask`).

*Checked*, with one player, one gamemaster and up to two tasks in the queue from the network: a closed
server holds staff only, although a login may pass the network's check before and run after
(`ClosedForPlayers`); all is saved at the end but
for players whose task came between the queueing of `Game::shutdown` and the stop of the dispatcher
(`SavedAtTheEnd`); and a shutdown that begins while the network is served ends the dispatcher and takes
`main` out of `io_service.run` (`ServingEnds`). Two queued tasks are enough for one to be in front of
`Game::shutdown` and one behind it, while a third is being added.

`g_loaderSignal.wait` has no predicate. The model has both ways this can go wrong, since the code has
them: a spurious wake-up lets `main` end the threads while the loader runs, and a loader that finishes
before `main` waits leaves `main` waiting for ever. No doc says what should happen, so no property does.

### Connection (`Connection.tla`, run `connection`)

The record `c` is the object; a method under `connectionLock` is an operator from the record to the set of
what it may become, since asio may throw where the code catches. The handlers of the network thread, the
calls of the dispatcher and the environment (client, network, clock) are the actions. A timer's handler that
is already queued is not recalled by a cancel.

*Checked*, with four messages and a server name of four characters: the client reads a prefix of what was
sent, in order (`NoGap`); the queue never stalls (`QueueMoves`); a close without force lets everything be
written before (`GracefulClose`); whatever waits on the client is under a timer (`CoveredByTimer`); and a closed
connection ends (`ClosedEnds`). That a closed connection with a protocol has told it so, and that no packet
reaches it after, is proved (`ClosedIsReleased`). Four messages are one in flight, one queued, and two more after a stop.

### Game sessions (`Session.tla`, run `session`)

One character name, several connections. A `Player` object is made for each login that finds nobody of that
name in the game; the protocol, the map, the list of creatures to check and the list of those to release
each hold a count. `Disconnect`, a failed read and a logout may each post a release. `ALLOW_CLONES` is off
and `REPLACE_KICK_ON_LOGIN` on, as in the configuration that comes with the server. A script may refuse a
login: the `Player` just placed is kicked within `placeCreature` (`player.cpp:3635`), and `login` goes on to
collect messages for a connection it has closed (`LoginKicked`).

*Checked*, with two connections that can make two `Player`s: the counter is exact (`CountsExact`); nothing is collected for a dead connection
(`NothingSentToTheDead`); a `Player` never passes from one protocol to another without being let go
(`NeverStolen`); every login is answered (`LoginAnswered`, but for one whose prey data cannot be loaded: the
code returns without a word); and a character in the game without a client gets one or leaves
(`GhostLeaves`). Two connections are the one that is replaced and the one that replaces; either may be first.

The model contains one thing a reader of the code would not expect. `ProtocolGame::connect` tests whether the
`Connection` object is gone ("to prevent leakage of the Player", `protocolgame.cpp:195`), not whether
`release` has run; between the two it binds a `Player` that nothing releases afterwards. `CountsExact` counts
that reference and holds: the leak is a count that is right and never given back.

### Parties (`Party.tla`, `PartyMembership.tla`, run `party`)

`w` holds the lists of parties and the pointers of players; each operator is a method of `Party`, composed
as the methods call each other. `disband` and `removeInvite` are written for a set of parties: a logout calls
`removeInvite` for each party that invites the player, and as no player belongs to two parties, the calls touch
different entries and make one change together. Everywhere else the set has one party.
*Checked*, with four players and three parties, and proved for any: `PointersMatch`, and the refinement of `PartyMembership`, which says what a party promises and knows no pointers. Four players are a
leader, two who can inherit, and one more; they can form no more than three parties. Shared experience and
what scripts do to parties directly are left out.

### Safe trade (`Trade.tla`, run `trade`)

Players stand on a line, items are carried, lie on a square or in a bag. Requests, counter-offers,
acceptances, and all that may happen meanwhile: walks, moves of items, items destroyed, logouts. Trades end
by the callbacks of `Player` (`Strayed`, `Disturbed`). *Checked*, with three players, a bag, a stack and a
ring, on four squares: trades come in pairs and stand on what is at hand (`TradesStand`); an offer cannot
change while it is offered (`OfferIsFinal`); and items change hands only by agreement (`OnlyByAgreement`).
Three players are two who trade and one who interferes, four squares put two of them out of reach. Players
are interchangeable, so the run uses symmetry; it checks no liveness.

`playerAcceptTrade` tests both moves and then makes both, but looks at the result of neither. A stack whose
test counted on merging with another may stay where it is after the first move: the model has this
(`AcceptTransfers`). A player may accept before the partner has made a counter-offer; the trade then ends
when the other accepts. Bags in bags, counts and capacity are left out.

### Database (`Database.tla`, run `database`)

One handle to MySQL and one recursive mutex. The dispatcher saves a player, saves the houses and transfers
coins, each in a transaction (`DBTransaction`); the database thread sends its queries over the same handle.
The dispatcher's query is one step; the database thread's is two, `TakeLock` and `RunQuery`, so that one may
wait for the other. `Begin` sends BEGIN and gives the lock up, `LockTransaction` takes it again (`gap`).
`Script` has the statements of the three jobs in their order, and which of them end the attempt when they
fail. A player has a row of his own and rows in further tables, which the transaction of a save deletes and
inserts anew; one of these tables stands for all. What a row says is the version of the object it was written
from, so that a save that mixes two states of a player is a difference of versions.

A save begins before its transaction. `savePlayerPreyById` writes the player's row of `player_preytimes` by a
command of its own, which commits at once, and `savePlayer` does not look at its result: `SavePrey` and
`PreyStaysOld` (`pc = "prey"`). The table has no key, so that a failed SELECT there makes the code insert a
second row, and a load goes on to find the first. After it comes the flag `save` (`CheckSave`): who edits the
database may set it, so that it is read as any value, and when it is not set only the last login is written,
with whatever result (`pc = "unsaved"`).

The connection is lost at any time (`Lose`), and a statement may have been done when it breaks
(`RepeatStatement`, the second branch of `Commit`, `RepeatQuery`); a commit may also fail on a connection
that is up. The server rolls back what was open; the client library connects again on the next command,
without the transaction, and the code sends the command again until it succeeds (`executeQuery`). There is no action for a crash: what is in store in any state is
what a restart finds, and the invariants speak of every state.

*Checked*, with two versions, a coin, a query, two losses and two tries (of the code's three): at any moment the
rows of a player that one transaction writes are found of one version, and so are the houses with their lists,
and the player's prey data is of the same version or a later one (`SavedWhole`); a save that
reports success is in store, prey data included (`SuccessIsSaved`); coins are neither made nor lost
(`CoinsKept`); what the database thread reported as done is there, once (`AnswersHold`); and every operation ends, whatever fails
(`OperationEnds`). Two versions are the least a mixture needs, one query is in front of, inside or behind a
transaction, and after one loss the rest of a transaction runs without it, and in that state a second one
breaks a statement that is then repeated. The proofs are for any number of each.

The properties name, as history variables, the cases in which the code does not keep the promise:

* `torn`: the connection was lost inside a transaction. `executeQuery` retries the statement (`database.cpp:105`)
  and the rest of the transaction is committed statement by statement; a crash, or an attempt that is then
  given up, leaves half of it.
* `skipped`: a failed statement whose result is not looked at - the rows of houses (`iomapserialize.cpp:328`)
  and both updates of `playerCoinTransfer` (`game.cpp:6354`); and the write of the prey data
  (`iologindata.cpp:823`), from then until it is next written. While it has not failed, the prey data may still
  be *later* than the rest, when the save fails or the server stops after it: a player is not found as he was at
  one time, and no property says so.
* `slipped`: a query of the database thread that ran in the gap between BEGIN and the lock
  (`database.cpp:66`) belongs to the dispatcher's transaction and is rolled back with it, although its caller
  was told of success.
* `repeated`: a query whose reply was lost is sent again and may be done twice.

A BEGIN that fails leaves a `DBTransaction` that believes it has started (`database.h:235`): its destructor
rolls back and unlocks a mutex this thread does not hold. The model takes the unlock as the error it is for
an error-checking mutex; by the C++ standard it is undefined, and no property speaks of it.

### Items (`Items.tla`, run `items`)

`w` has, for each item, the cylinder it is in and its count, for each container the weight it keeps for its
content, and the burden the player's client was last told. `MoveItem` is `internalMoveItem` with
`queryDestination`, `queryAdd`, `queryMaxCount`, the split and merge of stacks and the exchange of two items;
`AddItem` is `internalAddItem`, `PlayerAddItem` `internalPlayerAddItem`, `RemoveItem` `internalRemoveItem`.
Cylinders are containers in containers, three slots of an inventory, the player as a whole (the slots and
then the bags in them, in breadth) and a tile. An item that is nowhere stands for one that can be created.
Items are in no order in a container: where the code takes the first, the model takes any.

The two recursions of the code are not recursive here, so that they can be proved about. The containers
around an item (`Around`, the walks along `getParent`) are the least set closed under that step. The calls
`internalAddItem` makes to itself for each rest of a stack are rounds: `Call` is one of them, from a record
of what the calls before have done to one of what comes next, and `InternalAdd` as many rounds as the stack
has pieces, which is enough since every rest is smaller.

*Checked*, with two bags of two places, three stacks of arrows of up to two and one of spears, which are heavy
and fit the hand too: as many pieces of everything exist as were reported (`Accounted`); no bag is in itself
(`InOnePlace`); the cached weights are right at every depth (`WeightsAgree`); the burden is (`BurdenKept`);
and only an exchange fills a container beyond its capacity (`NotOverfilled`). Two bags are an outer and an
inner one in either order, stacks of two split and merge with and without a rest, and three of them are one
that moves, one that takes a part and one that takes the rest. The limits of items and containers in one
container are 3 and 2: the first is reached, and the weights are such that an exchange overfills a bag and a
merged part is left with its rest. The configuration of hands, locked containers, the mail and depots are left
out, and so are items offered in a trade, which `Player::queryDestination` passes over.

What the properties except is what the code does, as the model and the source agree:

* A part of a stack is merged and the rest finds no room (`game.cpp:1325`): the caller learns of the rest,
  but nobody is notified of the part, so that the burden stays stale (`event = "cut"`), and the player may
  then carry more than he can. When it is the rest of a rest that finds no room, no caller learns of it
  either. `BurdenKept` excepts both.
* `internalAddItem` forgets pieces (`dropped` in `InternalAdd`): when only a part fits into the slot it
  found, under the comment "fully merged with toItem, item will be destroyed" (`game.cpp:1329`); when the
  rest of a rest does not fit; and when it chose a container that holds too many (`player.cpp:2747`
  subtracts its size from its capacity, unsigned). When that container refuses the item, the same loop runs
  through some four billion indices before it goes on; the model has the end of the loop and not its length.
* An exchange puts the other item where the moved one still is, without a look at free places, and goes on
  when the second test fails: the container is over its capacity (`event = "swapped"`), and half of the
  exchange may be all of it (`game.cpp:1103`).
* `getTopParentContainer` stops one short of the outermost (`container.cpp:94`), so the limits are applied to
  the second one.

### Waiting list (`WaitingList.tla`, run `waiting_list_expiry`)

Both lists, with the time an entry has left in ticks of five seconds. Three players, one premium, and one
place. See the findings.

### Fairness

* Threads: each thread takes the step in front of it (WF of its actions). A waiting thread is only
  obliged to wake when it was notified or its deadline has passed; spurious wake-ups are never obliged. A
  caller that has left a lock goes on to its `notify_one`. No caller is obliged to call anything.
* Tasks, queries and handlers return. A query whose connection is lost is retried for ever in the code; the
  fairness of `Execute` assumes the database comes back.
* Network: handlers run, timers expire (WF of `Expire`). The client owes nothing.
* `ServerLifecycle` has strong fairness for `StopServing` alone: `die` is one handler among others that
  become ready again and again, and asio takes ready handlers in turn.
* `Session`: the dispatcher runs its tasks and scheduled connects. `IdleKick` is fair only for a `Player`
  without a client: its idle time only grows, for a character that is not of the staff and stands on no tile
  that forbids to log out.

Liveness is checked under these alone, without symmetry.

## Findings

| Run | What the code says | What it does |
|---|---|---|
| `lifecycle_hang` | "Shuts the server down" (`signals.cpp:88`) | `shutdown` stores the state and notifies outside of the lock under which the thread tests and waits; a thread in between waits for ever, and so does `main` in `join` |
| `waiting_list_expiry` | "15 seconds longer than expected retry attempt" (`waitlist.cpp:61`) | the time that is left is an unsigned difference on a 64-bit build, so `<= 0` holds for one millisecond only and entries stay |

Each of the two runs ends with a counterexample. Besides these, the models contain the following, for which
no run is kept; the properties are stated so that they except it by name:

* "this list should already be empty" (`scheduler.cpp:126`): events not yet due are still queued when
  `Scheduler::shutdown` gets there; they are deleted without a run.
* A reconnect may bind a `Player` to a protocol whose release has run (`protocolgame.cpp:194`, see *Game
  sessions*).
* The cases under *Database* and *Items*.

Read in the source, and not modelled:

* `createMarketOffer` takes the money of a buy offer from the bank and from the backpack without setting the
  balance to zero where both are needed (`game.cpp:5683`); products of price and amount are 32 bits wide.
* An offline buyer's balance is given twice (`game.cpp:5894`). An offer that expires is settled with the
  amount the database thread has read, which may have been accepted in part since (`iomarket.cpp:134`).
* A monster that left its zone moves to key 0 of `spawnedMap` and still counts (`spawn.cpp:275`): the check
  goes on, or stops, by a number that is not that of the blocks served.

## Proofs

Proved for every value of the constants that satisfies the named assumption of the module. Each proof has the
same shape: `IInv` in the module, a conjunction of named parts, is inductive (`InitInv`, `NextInv`,
`InductiveInv`), one lemma per action or group of actions; each property follows from it.

| Module | Assumption | What `IInv` adds to the properties, and why | Theorems |
|---|---|---|---|
| `SchedulerProofs` | ids suffice for the events | ids are unique and bounded by the events added (`IdsAreUnique`), each event is in one place (`QueueInv`), active ids belong to queued events: without them a stop could cancel another event | `StopIsFinal`, `NoLostWakeup`, `Refinement` (of `TimerService`) |
| `DispatcherProofs` | tasks are finite, kinds disjoint | a task is in one place (`Placement`), tickets are unique and order the list behind the timed tasks (`Tickets`, `ListOrder`, `BegunFirst`, `TimedInFront`): FIFO is about tasks that have left the list, so the order of the list must be carried along | `AlwaysWoken`, `TimedTasksRun`, `BackIsFifo`, `EndIsClean`, `Refinement` (of `WorkQueue`) |
| `DatabaseTasksProofs` | queries are finite | the same for two takers, and where the results are (`Results`, `Ending`) | `BoundedReordering`, `ShutdownLosesNothing`, `EveryResultAccounted`, `Refinement` (of `WorkQueue` with two workers) |
| `StoreProofs`, on `Database` | bounds are natural numbers | who holds the lock (`Holders`), that a transaction not forgotten is open until it ends (`Open`), and what is in it by the statement that is next (`Stored`, `Stage`): that the store is whole after a commit follows from what the transaction holds before it (these parts are `Transacted`). `Prey` adds that no player's row, in store or in the transaction, is later than the prey data or than memory, and that what a save wrote of the prey data stays to its end: a commit then cannot bring a row that is ahead of it; `Tally` counts a query in store and in the transaction, which never has less | `ASaveIsWhole`, `SuccessMeansSaved`, `CoinsAreKept`, `AnsweredIsStored` |
| `StoreProofs`, on `Items` | items are finite; items of one kind weigh and fit the same; items, slots and the other places are distinct (`ItemsAssumption`) | that what is nowhere counts no pieces and holds nothing (`NowhereIsEmpty`): how many pieces there are is inductive only if an item that is created brings exactly its own. See below | `ItemsInvariant`, `EverythingAccounted`, `EverythingInOnePlace`, `WeightsAreRight`, `OnlySwapsOverfill`, `BurdenStaysRight` |
| `ConnectionProofs` | the name has two characters or more | losses are forced, a socket closed without force had an empty queue (`LossIsForced`, `ClosedClean`), the handshake stays in its bounds (`Naming`). `Good` says the same of any record, so that methods compose | `StreamHasNoGap`, `QueueNeverStalls`, `GracefulCloseWritesAll`, `SilenceIsTimed`, `ClosedIsReleased` |
| `ServerLifecycleProofs` | staff are players | what may be behind `Game::shutdown` and behind the last task (`ShutdownInv`, `TerminateInv`), and that nobody is online before serving | `ClosedServerHoldsStaff`, `AcceptedTasksRun`, `ChangesAreSaved` |
| `SessionProofs` | protocols are finite, `None` is no protocol and no `Player` | a protocol logs in once and has no `Player` before (`LoginOnce`), a `Player` that was not made is nobody's (`NotMadeYet`), and behind the login of a connection that is no longer open there waits its release (`ReleasedBehind`): a login takes a dead connection into the list of those to send for, and only the order of the queue takes it off again. `Keeps` says the same of what a task leaves of the queue, so that the steps of one task compose | `CountsStayExact`, `DeadAreDropped`, `NobodyIsStolen` |
| `SocialProofs`, on `Trade` | players are finite; players, items, squares and `None` are distinct | where things can be (`TypeOK`, `BagsHoldNoBags`) and what the state of a trade says of its partner and its item (`StateTells`). The argument is who is called back: `OwnerNotified` and `Undisturbed`, that the owner of an offer is among those notified of whatever moves it, and `Closing`, that a trade is closed on both sides or on none | `TradesRest`, `OffersAreFinal`, `NothingWithoutAgreement` |
| `SocialProofs`, on `Party` | `None` is no player and no party (`PartyAssumption`) | a deleted party is blank (`Blank`), so that whoever takes its place begins with nothing, and no party is kept for its leader alone (`Kept`), so that a leader who leaves finds a member to lead on. `Sound` says the same of any world but for `Kept`, so that methods compose; `LeaveFacts` are the cases of leaving. For the refinement, no two parties have the same leader (`FormedOnce`), so that changing one changes one group | `PartyInductiveInv`, `PointersStayMatched`, `PartiesKeepTheirPromise` (of `PartyMembership`) |

*The argument for items.* The operators go from world to world, so each has a lemma of its own that says
what it leaves of the parts of the invariant, and an action is their composition.

* Weights. `Acyclic` and `Weighed` go together: a difference of weight is passed to the containers around a
  place, and each of these has exactly one thing in it that becomes heavier (`AroundUnique`), which is so
  because nothing is inside itself. `CarryUp` is that step. Between a removal and an addition the item is at
  no place (the *hand*, `Housed` and `Counted` except it). That a container is not put into itself is the test
  of `Takes` for a place that does not lie in what is taken away, also after the removal (`TakeOutSound`).
* Pieces. `All` counts each item, also those that are nowhere, so that splitting and merging move a number
  from one item to another (`AllChange`); by `NowhereIsEmpty` it is the number there is (`PiecesAll`). A
  sum over a finite set is the number of pairs of an element and one of its units (`SumIsCount`), so that
  sums are changed and split by the library's theorems about cardinality. Where induction is needed, on finite
  sets here and on rounds below, a least counterexample of a well-founded order takes its place (`WFMin`).
* Counts. What is merged fits since `MaxCount` was asked for the very place the destination names
  (`FitsStack`, `FitIs`); after half an exchange it is asked again.
* `internalAddItem`. `Coming` says what holds between two calls: the world is right but for the hand, of
  which `count` pieces are to come, and with what was left and dropped the pieces are those of the first call;
  once a part has merged, the burden is told at the end, or the call is cut. `CallComing` is one round, and
  the number of rounds is well-founded (`RoundsExist`, `InternalAddIs`); after the last one nothing is to come.
* `OnlySwapsOverfill` and `BurdenStaysRight` come from what two worlds have in common: `Roomy`, no container
  is fuller than it was or than it may be, and `Stirs`, only stacks have moved and whatever touched what the
  player carries is among the places that are notified.

`IInv` of the scheduler holds `TimeoutMeansDue` as well, the comment of `scheduler.cpp:40`. Type
correctness is the first part of each `IInv` and is left to the proofs. `StopIsFinal`, `TimedTasksRun`,
`BoundedReordering`, `ClosedIsReleased` and `AcceptedTasksRun` state what no run checks: a run on a small
instance adds nothing to them.

## What is only model-checked, and what is not modelled

Only model-checked: all liveness (`EveryEventLeaves`, `ShutdownEnds`, `EveryQueryRuns`, `ServingEnds`,
`ClosedEnds`, `LoginAnswered`, `GhostLeaves`, `OperationEnds`), since TLAPS does not reason about fairness and
ENABLED; and `WaitingList`, whose only run refutes what the code says. Every safety property and every action
property that a passing run checks is a theorem.

Not modelled: the components without a module in the inventory. Some are content or formulas (combat, NPCs,
scripts, quests, map files), where nothing is left for a later step; some are sequential data structures;
the others are in the plan.

Within the models: contents of messages and packets, the exact times of expiration (a clock of a few ticks),
loading from the database, and what is left of the loss of the process beyond the rows in store.

## Plan

Done, in the order of importance: the three thread holders with their abstract specifications; startup and
shutdown that cross them; the connection; sessions; trade and parties; the waiting list; the database with
its transactions; items and cylinders.

What would come next, in this order:

1. `Market`: offers, partial acceptance and the asynchronous expiry, on `DatabaseTasks`.
2. `ServicePort`: accepting, an acceptor that fails and is opened again by a timer; the output pool's chain.
3. `Spawn`, `Raids`, `Beds`, `Decay`: what a timer holds while the game goes on. For spawns: a block with no
   monster is checked again; for raids: at most one runs, also after a reload.

## Running the checks

`tlc -config <X>.cfg <MC module>` for the runs, as `PROJECT.json` lists them (the two runs named under
Findings end with a counterexample, the others with none), and `tlapm <Module>Proofs.tla` for the proofs.
