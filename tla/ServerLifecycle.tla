--------------------------- MODULE ServerLifecycle --------------------------
(***************************************************************************)
(* How the server starts and how it ends (otserv.cpp, signals.cpp, Game's  *)
(* setGameState, saveGameState and shutdown, ServiceManager): main waits   *)
(* for the loader, serves the network, and joins the other threads when    *)
(* Game::shutdown has told them to end.                                    *)
(*                                                                         *)
(* The dispatcher's queue is here as a sequence; its own waiting is the    *)
(* matter of Dispatcher.  Of the scheduler and the database thread only    *)
(* what shutdown needs is left: the test of threadState, the lock, the     *)
(* wait.  Network handlers and signal handlers run in main's thread, while *)
(* it is in io_service.run.                                                *)
(***************************************************************************)
EXTENDS Naturals, Sequences

CONSTANTS
  Players,
  Staff,       \* players with PlayerFlag_CanAlwaysLogin
  Nobody,      \* the player of a task that is no player's
  NoTask,
  MaxQueue     \* bound: the network adds no task to a longer queue

ASSUME LifecycleAssumption ==
  /\ Staff \subseteq Players
  /\ Nobody \notin Players
  /\ MaxQueue \in Nat

VARIABLES
  main,        \* where main is
  disp,        \* where the dispatcher thread is in the task it runs
  queue,       \* Dispatcher::taskList
  thread,      \* thread[t]: ThreadHolder::threadState
  sleeper,     \* sleeper[t]: where threadMain of the other two threads is
  woken,       \* woken[t]: its condition variable was notified while it waited
  loaded,      \* g_loaderSignal was notified while main waited
  acceptors,   \* ServiceManager has open ports: is_running()
  running,     \* ServiceManager::running
  gameState,
  online,      \* Game::players
  arriving,    \* the task a network handler has decided to add
  \* history
  dirty,       \* players with changes no save has written
  late         \* players with a task accepted after Game::shutdown's

vars == <<main, disp, queue, thread, sleeper, woken, loaded, acceptors, running,
          gameState, online, arriving, dirty, late>>

serviceVars == <<loaded, acceptors, running>>
sleeperVars == <<sleeper, woken>>
gameVars    == <<gameState, online, dirty>>

Sleepers == {"scheduler", "database"}
Ending   == {"endScheduler", "wakeScheduler", "endDatabase", "wakeDatabase", "endDispatcher"}
GameStates == {"STARTUP", "INIT", "NORMAL", "MAINTAIN", "CLOSED", "SHUTDOWN"}
PlayerOps == {"login", "play", "logout", "close", "open"}
ServerOps == {"load", "signal", "save", "shutdown", "terminate"}
Task == [op : PlayerOps, player : Players] \cup [op : ServerOps, player : {Nobody}]

NetworkTask == {t \in Task : t.op \notin {"load", "shutdown", "terminate"}}

ForPlayer(o, p) == [op |-> o, player |-> p]
ForServer(o) == [op |-> o, player |-> Nobody]

Init ==
  /\ main = "starting"
  /\ disp = "idle"
  /\ queue = <<>>
  /\ thread = [t \in Sleepers \cup {"dispatcher"} |-> IF t = "database" THEN "TERMINATED" ELSE "RUNNING"]
  /\ sleeper = [t \in Sleepers |-> IF t = "database" THEN "unstarted" ELSE "test"]
  /\ woken = [t \in Sleepers |-> FALSE]
  /\ loaded = FALSE
  /\ acceptors = FALSE
  /\ running = FALSE
  /\ gameState = "STARTUP"
  /\ online = {}
  /\ arriving = NoTask
  /\ dirty = {}
  /\ late = {}

-----------------------------------------------------------------------------
(* The thread classes                                                      *)

\* addTask: a task for a dispatcher that is not RUNNING is deleted.
Enqueue(t) == queue' = IF thread["dispatcher"] = "RUNNING" THEN Append(queue, t) ELSE queue
EnqueueFront(t) == queue' = IF thread["dispatcher"] = "RUNNING" THEN <<t>> \o queue ELSE queue

SetThread(t, s) == thread' = [thread EXCEPT ![t] = s]

NotifyThread(t) == woken' = [woken EXCEPT ![t] = @ \/ sleeper[t] = "asleep"]

\* while (getState() != THREAD_STATE_TERMINATED)
TestState(t) ==
  /\ sleeper[t] = "test"
  /\ sleeper' = [sleeper EXCEPT ![t] = IF thread[t] = "TERMINATED" THEN "ended" ELSE "lock"]
  /\ UNCHANGED <<main, disp, queue, thread, woken, serviceVars, gameVars, arriving, late>>

\* The thread takes the lock and waits: for a notification, or until an event is due.
FallAsleep(t) ==
  /\ sleeper[t] = "lock"
  /\ sleeper' = [sleeper EXCEPT ![t] = "asleep"]
  /\ UNCHANGED <<main, disp, queue, thread, woken, serviceVars, gameVars, arriving, late>>

WakeNotified(t) ==
  /\ sleeper[t] = "asleep"
  /\ woken[t]
  /\ sleeper' = [sleeper EXCEPT ![t] = "test"]
  /\ woken' = [woken EXCEPT ![t] = FALSE]
  /\ UNCHANGED <<main, disp, queue, thread, serviceVars, gameVars, arriving, late>>

\* New work wakes the thread, or an event is due.  shutdown empties the queues, so
\* neither happens to a thread that was told to end.
WakeForWork(t) ==
  /\ sleeper[t] = "asleep"
  /\ thread[t] # "TERMINATED"
  /\ sleeper' = [sleeper EXCEPT ![t] = "test"]
  /\ UNCHANGED <<main, disp, queue, thread, woken, serviceVars, gameVars, arriving, late>>

\* An event that saves or ends the server (server save scripts) falls due.
EventDue(o) ==
  /\ o \in {"save", "signal"}
  /\ gameState \notin {"STARTUP", "INIT"}
  /\ Len(queue) < MaxQueue
  /\ sleeper["scheduler"] = "asleep"
  /\ thread["scheduler"] # "TERMINATED"
  /\ sleeper' = [sleeper EXCEPT !["scheduler"] = "test"]
  /\ EnqueueFront(ForServer(o))
  /\ UNCHANGED <<main, disp, thread, woken, serviceVars, gameVars, arriving, late>>

-----------------------------------------------------------------------------
(* Scheduler::shutdown, DatabaseTasks::shutdown, Dispatcher::shutdown, as  *)
(* Game::shutdown and main call them one after the other                   *)

\* The order in which the threads are ended.
NextEnding ==
  [endScheduler |-> "wakeScheduler", wakeScheduler |-> "endDatabase", endDatabase |-> "wakeDatabase",
   wakeDatabase |-> "endDispatcher", endDispatcher |-> "done"]

End(at) ==
  \/ /\ at = "endScheduler"
     /\ SetThread("scheduler", "TERMINATED")
     /\ UNCHANGED <<woken, queue>>
  \/ /\ at = "wakeScheduler"
     /\ NotifyThread("scheduler")
     /\ UNCHANGED <<thread, queue>>
  \/ /\ at = "endDatabase"
     /\ SetThread("database", "TERMINATED")
     /\ UNCHANGED <<woken, queue>>
  \/ /\ at = "wakeDatabase"
     /\ NotifyThread("database")
     /\ UNCHANGED <<thread, queue>>
  \/ /\ at = "endDispatcher"
     /\ queue' = Append(queue, ForServer("terminate"))
     /\ UNCHANGED <<thread, woken>>

-----------------------------------------------------------------------------
(* main                                                                    *)

StartLoader ==
  /\ main = "starting"
  /\ main' = "started"
  /\ Enqueue(ForServer("load"))
  /\ UNCHANGED <<disp, thread, sleeperVars, serviceVars, gameVars, arriving, late>>

\* g_loaderSignal.wait has no predicate: what was notified before is lost.
WaitForLoader ==
  /\ main = "started"
  /\ main' = "waiting"
  /\ UNCHANGED <<disp, queue, thread, sleeperVars, serviceVars, gameVars, arriving, late>>

\* Either wakes main: the loader's notification, or nothing (a spurious wakeup).
LoaderSignal(spurious) ==
  /\ main = "waiting"
  /\ loaded \/ spurious
  /\ main' = IF acceptors THEN "serve" ELSE "endScheduler"
  /\ UNCHANGED <<disp, queue, thread, sleeperVars, serviceVars, gameVars, arriving, late>>

\* ServiceManager::run
Serve ==
  /\ main = "serve"
  /\ main' = "serving"
  /\ running' = TRUE
  /\ UNCHANGED <<disp, queue, thread, sleeperVars, loaded, acceptors, gameVars, arriving, late>>

\* die, 3 seconds after ServiceManager::stop: run returns when the handler it is in does.
StopServing ==
  /\ main = "serving"
  /\ ~running
  /\ arriving = NoTask
  /\ main' = "joinScheduler"
  /\ UNCHANGED <<disp, queue, thread, sleeperVars, serviceVars, gameVars, arriving, late>>

\* "No services running": main ends the threads itself.
EndFromMain ==
  /\ main \in Ending
  /\ End(main)
  /\ main' = IF NextEnding[main] = "done" THEN "joinScheduler" ELSE NextEnding[main]
  /\ UNCHANGED <<disp, sleeper, serviceVars, gameVars, arriving, late>>

Join ==
  /\ \/ main = "joinScheduler" /\ sleeper["scheduler"] = "ended" /\ main' = "joinDatabase"
     \/ main = "joinDatabase" /\ sleeper["database"] \in {"unstarted", "ended"} /\ main' = "joinDispatcher"
     \/ main = "joinDispatcher" /\ disp = "ended" /\ main' = "exited"
  /\ UNCHANGED <<disp, queue, thread, sleeperVars, serviceVars, gameVars, arriving, late>>

-----------------------------------------------------------------------------
(* The dispatcher: mainLoader                                              *)

\* Game::setGameState: nothing leaves SHUTDOWN, and nothing enters a state twice.
CanEnter(s) == gameState \notin {"SHUTDOWN", s}

\* loaderSignal.notify_all
NotifyLoader == loaded' = (loaded \/ main = "waiting")

StartDatabase ==
  /\ disp = "load"
  /\ sleeper["database"] = "unstarted"
  /\ SetThread("database", "RUNNING")
  /\ sleeper' = [sleeper EXCEPT !["database"] = "test"]
  /\ UNCHANGED <<main, disp, queue, woken, serviceVars, gameVars, arriving, late>>

\* Any of the loader's checks fails: before the database thread was started or after.
LoadFails ==
  /\ disp = "load"
  /\ NotifyLoader
  /\ disp' = "idle"
  /\ UNCHANGED <<main, queue, thread, sleeperVars, acceptors, running, gameVars, arriving, late>>

LoadSucceeds ==
  /\ disp = "load"
  /\ sleeper["database"] # "unstarted"
  /\ acceptors' = TRUE
  /\ gameState' = "INIT"
  /\ disp' = "loaded"
  /\ UNCHANGED <<main, queue, thread, sleeperVars, loaded, running, online, dirty, arriving, late>>

GoOnline ==
  /\ disp = "loaded"
  /\ gameState' = "NORMAL"
  /\ disp' = "signalLoader"
  /\ UNCHANGED <<main, queue, thread, sleeperVars, serviceVars, online, dirty, arriving, late>>

SignalLoader ==
  /\ disp = "signalLoader"
  /\ NotifyLoader
  /\ disp' = "idle"
  /\ UNCHANGED <<main, queue, thread, sleeperVars, acceptors, running, gameVars, arriving, late>>

-----------------------------------------------------------------------------
(* The dispatcher: setGameState(GAME_STATE_SHUTDOWN), then Game::shutdown  *)

\* Variant: the dispatcher is stopped before it is given Game::shutdown.
StopFirst == [kick |-> "stopDispatcher", stopDispatcher |-> "post", post |-> "stopScheduler",
              stopScheduler |-> "stopDatabase", stopDatabase |-> "idle"]

NextClosing == [kick |-> "post", post |-> "stopScheduler", stopScheduler |-> "stopDatabase",
                stopDatabase |-> "stopDispatcher", stopDispatcher |-> "idle"]

\* All players are kicked (a player who is removed is saved), and the game is saved.
KickAll ==
  /\ disp = "kick"
  /\ online' = {}
  /\ dirty' = {}
  /\ disp' = NextClosing["kick"]
  /\ UNCHANGED <<main, queue, thread, sleeperVars, serviceVars, gameState, arriving, late>>

PostShutdown ==
  /\ disp = "post"
  /\ Enqueue(ForServer("shutdown"))
  /\ disp' = NextClosing["post"]
  /\ UNCHANGED <<main, thread, sleeperVars, serviceVars, gameVars, arriving, late>>

StopThread ==
  /\ \/ disp = "stopScheduler" /\ SetThread("scheduler", "CLOSING")
     \/ disp = "stopDatabase" /\ SetThread("database", "CLOSING")
     \/ disp = "stopDispatcher" /\ SetThread("dispatcher", "CLOSING")
  /\ disp' = NextClosing[disp]
  /\ UNCHANGED <<main, queue, sleeperVars, serviceVars, gameVars, arriving, late>>

\* Variant: shutdown relies on the save that setGameState made.
ShutdownWithoutSave ==
  /\ disp = "shutdown"
  /\ disp' = "endScheduler"
  /\ UNCHANGED <<main, queue, thread, sleeperVars, serviceVars, gameVars, arriving, late>>

\* Game::shutdown saves once more: tasks may have run since the players were kicked.
FinalSave ==
  /\ disp = "shutdown"
  /\ dirty' = dirty \ online
  /\ disp' = "endScheduler"
  /\ UNCHANGED <<main, queue, thread, sleeperVars, serviceVars, gameState, online, arriving, late>>

EndFromGame ==
  /\ disp \in Ending
  /\ End(disp)
  /\ disp' = IF NextEnding[disp] = "done" THEN "stopServices" ELSE NextEnding[disp]
  /\ UNCHANGED <<main, sleeper, serviceVars, gameVars, arriving, late>>

\* ServiceManager::stop does nothing while run has not set running.
StopServices ==
  /\ disp = "stopServices"
  /\ running' = FALSE
  /\ acceptors' = (acceptors /\ ~running)
  /\ disp' = "idle"
  /\ UNCHANGED <<main, queue, thread, sleeperVars, loaded, gameVars, arriving, late>>

-----------------------------------------------------------------------------
(* The dispatcher: one task after the other                                *)

Run(o) == disp = "idle" /\ queue # <<>> /\ Head(queue).op = o /\ queue' = Tail(queue)

\* The player the task is for.
Subject == Head(queue).player

RunLoader ==
  /\ Run("load")
  /\ gameState' = "STARTUP"
  /\ disp' = "load"
  /\ UNCHANGED <<main, thread, sleeperVars, serviceVars, online, dirty, arriving, late>>

\* SIGINT, SIGTERM or a script: setGameState(GAME_STATE_SHUTDOWN).
RunSignal ==
  /\ Run("signal")
  /\ IF CanEnter("SHUTDOWN") THEN gameState' = "SHUTDOWN" /\ disp' = "kick"
                             ELSE UNCHANGED <<gameState, disp>>
  /\ UNCHANGED <<main, thread, sleeperVars, serviceVars, online, dirty, arriving, late>>

RunShutdown ==
  /\ Run("shutdown")
  /\ disp' = "shutdown"
  /\ UNCHANGED <<main, thread, sleeperVars, serviceVars, gameVars, arriving, late>>

\* The task of Dispatcher::shutdown; the loop then sees that it is to end.
RunTerminate ==
  /\ Run("terminate")
  /\ SetThread("dispatcher", "TERMINATED")
  /\ disp' = "ended"
  /\ UNCHANGED <<main, sleeperVars, serviceVars, gameVars, arriving, late>>

\* saveGameState: the network sees MAINTAIN while a NORMAL game is saved.
RunSave ==
  /\ Run("save")
  /\ IF gameState = "NORMAL" THEN gameState' = "MAINTAIN" /\ disp' = "saving" /\ UNCHANGED dirty
                             ELSE dirty' = dirty \ online /\ UNCHANGED <<gameState, disp>>
  /\ UNCHANGED <<main, thread, sleeperVars, serviceVars, online, arriving, late>>

EndSave ==
  /\ disp = "saving"
  /\ dirty' = dirty \ online
  /\ gameState' = "NORMAL"
  /\ disp' = "idle"
  /\ UNCHANGED <<main, queue, thread, sleeperVars, serviceVars, online, arriving, late>>

\* Variant: the state of the game is looked at on the network thread only.
MayEnterUnchecked(p) == TRUE

\* ProtocolGame::login knows CLOSED; it does not know SHUTDOWN.
MayEnter(p) == gameState = "CLOSED" => p \in Staff

RunLogin ==
  /\ Run("login")
  /\ LET new == IF MayEnter(Subject) THEN {Subject} \ online ELSE {}
     IN  online' = online \cup new /\ dirty' = dirty \cup new
  /\ UNCHANGED <<main, disp, thread, sleeperVars, serviceVars, gameState, arriving, late>>

\* Whatever the player does may have to be saved.
RunPlay ==
  /\ Run("play")
  /\ dirty' = dirty \cup ({Subject} \cap online)
  /\ UNCHANGED <<main, disp, thread, sleeperVars, serviceVars, gameState, online, arriving, late>>

\* A player who leaves is saved.
RunLogout ==
  /\ Run("logout")
  /\ online' = online \ {Subject}
  /\ dirty' = dirty \ {Subject}
  /\ UNCHANGED <<main, disp, thread, sleeperVars, serviceVars, gameState, arriving, late>>

\* Variant: closing leaves in the players who are there.
KeptOnClosing == online

\* The players a closed server does not kick.
KeptOnClose == online \cap Staff

\* /closeserver: setGameState(GAME_STATE_CLOSED) kicks the others and saves.
RunClose ==
  /\ Run("close")
  /\ IF Subject \in online /\ CanEnter("CLOSED")
       THEN gameState' = "CLOSED" /\ online' = KeptOnClose /\ dirty' = {}
       ELSE UNCHANGED gameVars
  /\ UNCHANGED <<main, disp, thread, sleeperVars, serviceVars, arriving, late>>

RunOpen ==
  /\ Run("open")
  /\ gameState' = IF Subject \in online /\ CanEnter("NORMAL") THEN "NORMAL" ELSE gameState
  /\ UNCHANGED <<main, disp, thread, sleeperVars, serviceVars, online, dirty, arriving, late>>

-----------------------------------------------------------------------------
(* The network: messages and signals, in main's thread                     *)

Arrives(t) ==
  /\ main = "serving"
  /\ arriving = NoTask
  /\ arriving' = t
  /\ UNCHANGED <<main, disp, queue, thread, sleeperVars, serviceVars, gameVars, late>>

\* ProtocolGame::onRecvFirstMessage
FirstMessage(p) == gameState \notin {"SHUTDOWN", "STARTUP", "MAINTAIN"} /\ Arrives(ForPlayer("login", p))

\* ProtocolGame::parsePacket
Packet(p, o) ==
  /\ gameState # "SHUTDOWN"
  /\ p \in online
  /\ o \in {"close", "open"} => p \in Staff
  /\ Arrives(ForPlayer(o, p))

Signal(o) == o \in {"signal", "save"} /\ Arrives(ForServer(o))

\* Game::shutdown was queued: its save may come before what is accepted now.
Posted == gameState = "SHUTDOWN" /\ disp \notin {"kick", "post"}

\* The handler ends: g_dispatcher.addTask.
AddTask ==
  /\ arriving # NoTask
  /\ Len(queue) < MaxQueue
  /\ Enqueue(arriving)
  /\ late' = IF Posted THEN late \cup ({arriving.player} \cap Players) ELSE late
  /\ arriving' = NoTask
  /\ UNCHANGED <<main, disp, thread, sleeperVars, serviceVars, gameVars>>

-----------------------------------------------------------------------------
MainStep == StartLoader \/ WaitForLoader \/ LoaderSignal(FALSE) \/ Serve \/ EndFromMain \/ Join

LoaderStep == LoadSucceeds \/ GoOnline \/ SignalLoader

RunTask ==
  \/ RunLoader \/ RunSignal \/ RunShutdown \/ RunTerminate \/ RunSave
  \/ RunLogin \/ RunPlay \/ RunLogout \/ RunClose \/ RunOpen

ClosingStep == KickAll \/ PostShutdown \/ StopThread \/ FinalSave \/ EndFromGame \/ StopServices

DispatcherStep == LoaderStep \/ RunTask \/ EndSave \/ ClosingStep

SleeperStep(t) == TestState(t) \/ FallAsleep(t) \/ WakeNotified(t)

NetworkInput ==
  \/ \E p \in Players : FirstMessage(p) \/ \E o \in PlayerOps \ {"login"} : Packet(p, o)
  \/ \E o \in ServerOps : Signal(o)

Next ==
  \/ MainStep \/ LoaderSignal(TRUE) \/ StopServing
  \/ DispatcherStep \/ StartDatabase \/ LoadFails
  \/ \E t \in Sleepers : SleeperStep(t) \/ WakeForWork(t)
  \/ \E o \in ServerOps : EventDue(o)
  \/ NetworkInput \/ AddTask

Spec == Init /\ [][Next]_vars

\* The threads run, the loader ends, a handler that was begun ends, and the
\* io_service takes its ready handlers in turn, so that die has its turn.
Fairness ==
  /\ WF_vars(MainStep)
  /\ SF_vars(StopServing)
  /\ WF_vars(DispatcherStep)
  /\ WF_vars(StartDatabase)
  /\ \A t \in Sleepers : WF_vars(SleeperStep(t))
  /\ WF_vars(AddTask)

FairSpec == Spec /\ Fairness

-----------------------------------------------------------------------------
Steps == {"idle", "load", "loaded", "signalLoader", "kick", "post", "stopScheduler", "stopDatabase",
          "stopDispatcher", "shutdown", "stopServices", "saving", "ended"} \cup Ending
MainSteps == {"starting", "started", "waiting", "serve", "serving", "joinScheduler", "joinDatabase",
              "joinDispatcher", "exited"} \cup Ending

TypeOK ==
  /\ main \in MainSteps
  /\ disp \in Steps
  /\ queue \in Seq(Task)
  /\ thread \in [Sleepers \cup {"dispatcher"} -> {"RUNNING", "CLOSING", "TERMINATED"}]
  /\ sleeper \in [Sleepers -> {"unstarted", "test", "lock", "asleep", "ended"}]
  /\ woken \in [Sleepers -> BOOLEAN]
  /\ loaded \in BOOLEAN /\ acceptors \in BOOLEAN /\ running \in BOOLEAN
  /\ gameState \in GameStates
  /\ dirty \subseteq online       \* who is not in the game has nothing unsaved
  /\ online \subseteq Players /\ late \subseteq Players
  /\ arriving \in NetworkTask \cup {NoTask}

\* A closed server holds staff only: kicking on entry and the check at login leave
\* no gap, although logins pass the network's checks before and are queued meanwhile.
ClosedForPlayers == gameState = "CLOSED" => online \subseteq Staff

\* When the dispatcher ends it has run every task it accepted from a player.  (Where a
\* spurious wakeup made main end the threads, a scheduled shutdown may stay behind.)
NothingLeftBehind == disp = "ended" => \A i \in DOMAIN queue : queue[i].op \in ServerOps

\* When the dispatcher ends, all changes are saved, but those of players with a task
\* accepted after Game::shutdown was queued and before the dispatcher was stopped.
SavedAtTheEnd == disp = "ended" => dirty \subseteq late

\* A shutdown that begins while the network is served ends the dispatcher, and main
\* leaves io_service.run to join the threads.
ServingEnds == (disp = "kick" /\ running) ~> (main # "serving" /\ disp = "ended")

\* signals.cpp:88, "Shuts the server down": the process ends.
ServerEnds == (gameState = "SHUTDOWN") ~> (main = "exited")

-----------------------------------------------------------------------------
(* What the proofs rest on                                                 *)

Queued(q, o) == \E i \in DOMAIN q : q[i].op = o
OnlyFrom(q, P) == \A i \in DOMAIN q : q[i].player \in P
Behind(q, o, P) == \A i, j \in DOMAIN q : q[i].op = o /\ i < j => q[j].player \in P
LoadIsFirst(q) == \A i \in DOMAIN q : q[i].op = "load" => i = 1

Stopping     == {"stopScheduler", "stopDatabase", "stopDispatcher"}
ShuttingDown == {"shutdown", "stopServices"} \cup Ending
BeforeServing == {"starting", "started", "waiting", "serve"} \cup Ending
NoMoreServing == {"joinScheduler", "joinDatabase", "joinDispatcher", "exited"} \cup Ending
LateOrServer == late \cup {Nobody}

LoadingInv ==
  /\ LoadIsFirst(queue)
  /\ Queued(queue, "load") => gameState = "STARTUP" /\ disp = "idle" /\ main # "starting"
  /\ main = "starting" => queue = <<>> /\ disp = "idle" /\ gameState = "STARTUP"
  /\ disp = "load" => gameState = "STARTUP"
  /\ disp = "loaded" => gameState = "INIT"
  /\ disp = "saving" => gameState = "MAINTAIN"

ServingInv ==
  /\ arriving # NoTask => main = "serving"
  /\ main \in BeforeServing => online = {} /\ OnlyFrom(queue, {Nobody})

\* Once Game::shutdown is queued, whatever is behind it is late, and when it runs
\* nothing is added any more.
ShutdownInv ==
  /\ disp \in {"kick", "post"} \cup Stopping \cup ShuttingDown => gameState = "SHUTDOWN"
  /\ Queued(queue, "shutdown") => gameState = "SHUTDOWN" /\ disp \notin {"kick", "post"}
  /\ Queued(queue, "shutdown") /\ disp \notin Stopping => thread["dispatcher"] # "RUNNING"
  /\ Behind(queue, "shutdown", LateOrServer)
  /\ disp \in ShuttingDown => thread["dispatcher"] # "RUNNING" /\ OnlyFrom(queue, LateOrServer)
  /\ disp \in ShuttingDown \ {"shutdown"} => dirty \subseteq late

\* Once the last task is queued, no player's task comes behind it.
TerminateInv ==
  /\ Queued(queue, "terminate") \/ disp = "ended" =>
       /\ dirty \subseteq late
       /\ OnlyFrom(queue, LateOrServer)
       /\ thread["dispatcher"] = "RUNNING" => main \in NoMoreServing
  /\ Behind(queue, "terminate", {Nobody})
  /\ disp = "ended" => OnlyFrom(queue, {Nobody})

IInv == TypeOK /\ ClosedForPlayers /\ LoadingInv /\ ServingInv /\ ShutdownInv /\ TerminateInv
=============================================================================
