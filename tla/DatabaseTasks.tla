---------------------------- MODULE DatabaseTasks ---------------------------
(***************************************************************************)
(* The asynchronous queries (databasetasks.h, databasetasks.cpp): any      *)
(* thread adds a query, the database thread runs them in turn, and the     *)
(* dispatcher thread runs what is left itself when it flushes, while the   *)
(* game state is saved and during shutdown.                                *)
(*                                                                         *)
(* A section of code run under taskLock is one action.  runTask runs       *)
(* without the lock: the query is one step (Database serialises queries)   *)
(* and the hand-over of its callback to the dispatcher another.            *)
(***************************************************************************)
EXTENDS Naturals, Sequences, FiniteSets

CONSTANTS
  Queries,      \* the DatabaseTasks that may ever be added
  HasCallback,  \* those whose caller wants the result
  Clients,      \* the threads that call addTask
  NoQuery       \* a thread that runs no query

ASSUME DatabaseTasksAssumption ==
  /\ IsFiniteSet(Queries)
  /\ HasCallback \subseteq Queries
  /\ NoQuery \notin Queries

VARIABLES
  threadState,  \* ThreadHolder::threadState, from start() on
  tasks,
  pc,           \* where the database thread is
  held,         \* the query the database thread runs
  notified,     \* taskSignal was notified while the thread waits
  flush,        \* where the thread that flushes is: the dispatcher thread
  flushed,      \* the query it runs
  closing,      \* the flush belongs to shutdown
  signal,       \* signal[c]: c left addTask's lock and has yet to notify_one
  accepting,    \* the dispatcher still accepts tasks
  \* history
  ticket,       \* ticket[q] = n: q was the n-th query accepted; 0 before
  refused,      \* queries addTask ignored
  executed,     \* queries the database has run
  delivered     \* delivered[q]: how often the dispatcher accepted q's callback

vars == <<threadState, tasks, pc, held, notified, flush, flushed, closing, signal,
          accepting, ticket, refused, executed, delivered>>

threadVars == <<pc, held>>
flushVars  == <<flush, flushed, closing>>
results    == <<executed, delivered>>

ThreadState == {"RUNNING", "CLOSING", "TERMINATED"}
PC == {"loop", "lock", "waiting", "execute", "callback", "exited"}
Flush == {"no", "pop", "execute", "callback", "notify", "done"}

-----------------------------------------------------------------------------
Queued == {tasks[i] : i \in DOMAIN tasks}
Accepted == {q \in Queries : ticket[q] # 0}
NextTicket == Cardinality(Accepted) + 1

\* Variant: signal is computed after the push.
SignalAfterPush == FALSE

\* signal: nobody has been notified for what is in the queue.
MustSignal == tasks = <<>>

NotifyOne == notified' = (notified \/ pc = "waiting")

\* The end of runTask: the dispatcher drops the callback unless it is RUNNING.
Deliver(q) ==
  delivered' = IF q \in HasCallback /\ accepting THEN [delivered EXCEPT ![q] = @ + 1]
                                                 ELSE delivered

Init ==
  /\ threadState = "RUNNING"
  /\ tasks = <<>>
  /\ pc = "loop"
  /\ held = NoQuery
  /\ notified = FALSE
  /\ flush = "no"
  /\ flushed = NoQuery
  /\ closing = FALSE
  /\ signal = [c \in Clients |-> FALSE]
  /\ accepting = TRUE
  /\ ticket = [q \in Queries |-> 0]
  /\ refused = {}
  /\ executed = {}
  /\ delivered = [q \in Queries |-> 0]

-----------------------------------------------------------------------------
(* Callers of addTask                                                      *)

AddTask(c, q) ==
  /\ ~signal[c]
  /\ q \notin Accepted \cup refused
  /\ threadState = "RUNNING"
  /\ tasks' = Append(tasks, q)
  /\ ticket' = [ticket EXCEPT ![q] = NextTicket]
  /\ signal' = [signal EXCEPT ![c] = MustSignal]
  /\ UNCHANGED <<threadState, threadVars, notified, flushVars, accepting, refused,
                 results>>

\* addTask when the thread is not RUNNING.
RefuseTask(c, q) ==
  /\ ~signal[c]
  /\ q \notin Accepted \cup refused
  /\ threadState # "RUNNING"
  /\ refused' = refused \cup {q}
  /\ UNCHANGED <<threadState, tasks, threadVars, notified, flushVars, signal, accepting,
                 ticket, results>>

SendSignal(c) ==
  /\ signal[c]
  /\ signal' = [signal EXCEPT ![c] = FALSE]
  /\ NotifyOne
  /\ UNCHANGED <<threadState, tasks, threadVars, flushVars, accepting, ticket, refused,
                 results>>

-----------------------------------------------------------------------------
(* The database thread: threadMain and its runTask                         *)

CheckState ==
  /\ pc = "loop"
  /\ pc' = IF threadState = "TERMINATED" THEN "exited" ELSE "lock"
  /\ UNCHANGED <<threadState, tasks, held, notified, flushVars, signal, accepting,
                 ticket, refused, results>>

Wait ==
  /\ pc = "lock"
  /\ tasks = <<>>
  /\ pc' = "waiting"
  /\ notified' = FALSE
  /\ UNCHANGED <<threadState, tasks, held, flushVars, signal, accepting, ticket, refused,
                 results>>

\* Variant: the query is copied and stays in the queue.
TakeKeepsTask ==
  /\ pc \in {"lock", "waiting"}
  /\ tasks # <<>>
  /\ held' = Head(tasks)
  /\ pc' = "execute"
  /\ notified' = FALSE
  /\ UNCHANGED <<threadState, tasks, flushVars, signal, accepting, ticket, refused,
                 results>>

\* At once or after a wake-up (which may be spurious): the first query is taken.
Take ==
  /\ pc \in {"lock", "waiting"}
  /\ tasks # <<>>
  /\ held' = Head(tasks)
  /\ tasks' = Tail(tasks)
  /\ pc' = "execute"
  /\ notified' = FALSE
  /\ UNCHANGED <<threadState, flushVars, signal, accepting, ticket, refused, results>>

WakeIdle ==
  /\ pc = "waiting"
  /\ tasks = <<>>
  /\ pc' = "loop"
  /\ notified' = FALSE
  /\ UNCHANGED <<threadState, tasks, held, flushVars, signal, accepting, ticket, refused,
                 results>>

Execute ==
  /\ pc = "execute"
  /\ executed' = executed \cup {held}
  /\ pc' = "callback"
  /\ UNCHANGED <<threadState, tasks, held, notified, flushVars, signal, accepting,
                 ticket, refused, delivered>>

Callback ==
  /\ pc = "callback"
  /\ Deliver(held)
  /\ held' = NoQuery
  /\ pc' = "loop"
  /\ UNCHANGED <<threadState, tasks, notified, flushVars, signal, accepting, ticket,
                 refused, executed>>

-----------------------------------------------------------------------------
(* The dispatcher thread: flush, stop and shutdown                         *)

\* flush from saveGameState.
BeginFlush ==
  /\ flush = "no"
  /\ flush' = "pop"
  /\ UNCHANGED <<threadState, tasks, threadVars, notified, flushed, closing, signal,
                 accepting, ticket, refused, results>>

\* Variant: flush copies the first query and leaves it in the queue.
FlushKeepsTask ==
  /\ flush = "pop"
  /\ tasks # <<>>
  /\ flushed' = Head(tasks)
  /\ flush' = "execute"
  /\ UNCHANGED <<threadState, tasks, threadVars, notified, closing, signal, accepting,
                 ticket, refused, results>>

\* Under the lock: the first query is taken, or the flush ends.
FlushPop ==
  /\ flush = "pop"
  /\ tasks # <<>>
  /\ flushed' = Head(tasks)
  /\ tasks' = Tail(tasks)
  /\ flush' = "execute"
  /\ UNCHANGED <<threadState, threadVars, notified, closing, signal, accepting, ticket,
                 refused, results>>

FlushEnd ==
  /\ flush = "pop"
  /\ tasks = <<>>
  /\ flush' = IF closing THEN "notify" ELSE "no"
  /\ UNCHANGED <<threadState, tasks, threadVars, notified, flushed, closing, signal,
                 accepting, ticket, refused, results>>

FlushExecute ==
  /\ flush = "execute"
  /\ executed' = executed \cup {flushed}
  /\ flush' = "callback"
  /\ UNCHANGED <<threadState, tasks, threadVars, notified, flushed, closing, signal,
                 accepting, ticket, refused, delivered>>

FlushCallback ==
  /\ flush = "callback"
  /\ Deliver(flushed)
  /\ flushed' = NoQuery
  /\ flush' = "pop"
  /\ UNCHANGED <<threadState, tasks, threadVars, notified, closing, signal, accepting,
                 ticket, refused, executed>>

\* stop, called by setGameState(GAME_STATE_SHUTDOWN), which flushes before it.
Stop ==
  /\ flush = "no"
  /\ threadState = "RUNNING"
  /\ threadState' = "CLOSING"
  /\ UNCHANGED <<tasks, threadVars, notified, flushVars, signal, accepting, ticket,
                 refused, results>>

\* The next call of setGameState(GAME_STATE_SHUTDOWN): g_dispatcher.stop.
StopDispatcher ==
  /\ threadState = "CLOSING"
  /\ accepting
  /\ accepting' = FALSE
  /\ UNCHANGED <<threadState, tasks, threadVars, notified, flushVars, signal, ticket,
                 refused, results>>

\* Variant: shutdown does not flush.
ShutdownNoFlush ==
  /\ flush = "no"
  /\ threadState' = "TERMINATED"
  /\ closing' = TRUE
  /\ flush' = "notify"
  /\ UNCHANGED <<tasks, threadVars, notified, flushed, signal, accepting, ticket, refused,
                 results>>

\* shutdown: the state is set under the lock, then the queue is flushed.  It follows
\* stop, or comes without it when the server found no service to run (otserv.cpp:98).
Shutdown ==
  /\ flush = "no"
  /\ threadState' = "TERMINATED"
  /\ closing' = TRUE
  /\ flush' = "pop"
  /\ UNCHANGED <<tasks, threadVars, notified, flushed, signal, accepting, ticket, refused,
                 results>>

ShutdownNotify ==
  /\ flush = "notify"
  /\ flush' = "done"
  /\ NotifyOne
  /\ UNCHANGED <<threadState, tasks, threadVars, flushed, closing, signal, accepting,
                 ticket, refused, results>>

-----------------------------------------------------------------------------
Thread == CheckState \/ Wait \/ Take \/ WakeIdle \/ Execute \/ Callback

Flusher == \/ BeginFlush \/ FlushPop \/ FlushEnd \/ FlushExecute \/ FlushCallback
           \/ Stop \/ StopDispatcher \/ Shutdown \/ ShutdownNotify

Caller(c) == SendSignal(c) \/ \E q \in Queries : AddTask(c, q) \/ RefuseTask(c, q)

Next == Thread \/ Flusher \/ \E c \in Clients : Caller(c)

Spec == Init /\ [][Next]_vars

\* Both threads go on, queries return, a notified thread wakes, and a caller that left
\* the lock sends its signal.
Fairness ==
  /\ WF_vars(CheckState) /\ WF_vars(Wait) /\ WF_vars(Execute) /\ WF_vars(Callback)
  /\ WF_vars((Take \/ WakeIdle) /\ (pc = "waiting" => notified))
  /\ WF_vars(FlushPop) /\ WF_vars(FlushEnd)
  /\ WF_vars(FlushExecute) /\ WF_vars(FlushCallback)
  /\ \A c \in Clients : WF_vars(SendSignal(c))

FairSpec == Spec /\ Fairness

-----------------------------------------------------------------------------
(* Properties                                                              *)

TypeOK ==
  /\ threadState \in ThreadState
  /\ tasks \in Seq(Queries)
  /\ pc \in PC
  /\ held \in Queries \cup {NoQuery}
  /\ notified \in BOOLEAN
  /\ flush \in Flush
  /\ flushed \in Queries \cup {NoQuery}
  /\ closing \in BOOLEAN
  /\ signal \in [Clients -> BOOLEAN]
  /\ accepting \in BOOLEAN
  /\ ticket \in [Queries -> Nat]
  /\ refused \in SUBSET Queries
  /\ executed \in SUBSET Queries
  /\ delivered \in [Queries -> Nat]
  /\ pc \in {"execute", "callback"} <=> held # NoQuery
  /\ flush \in {"execute", "callback"} <=> flushed # NoQuery

\* The thread sleeps over a query only while a caller owes it a notify_one, although
\* flush also takes queries and only the caller that found the queue empty notifies.
NoLostWakeup ==
  pc = "waiting" /\ tasks # <<>> => notified \/ \E c \in Clients : signal[c]

\* Queries reach the database in the order of addTask, except that each thread may be
\* overtaken with the one query it holds: while one of them holds a query, the other
\* goes on with later ones.
OvertakenIsHeld ==
  \A q, r \in Accepted :
    ticket[q] < ticket[r] /\ r \in executed => q \in executed \cup {held, flushed}

\* Nothing is lost: once shutdown is over, every query that was accepted has been
\* executed but for the one the database thread still holds, and join waits for that.
NothingLost == flush = "done" => Accepted \subseteq executed \cup {held}

\* A result is handed over at most once, after its query, whichever thread ran it; and
\* it has been, once the thread is through with the query, unless the dispatcher was
\* stopped: what it drops from then on nobody receives (runTask, Dispatcher::addTask).
ResultsAccounted ==
  /\ \A q \in Queries :
       delivered[q] <= 1 /\ (delivered[q] > 0 => q \in executed \cap HasCallback)
  /\ accepting => \A q \in (executed \cap HasCallback) \ {held, flushed} : delivered[q] = 1

\* The invariant the proofs need (DatabaseTasksProofs).
Placement ==
  /\ \A i, j \in DOMAIN tasks : tasks[i] = tasks[j] => i = j
  /\ Accepted = Queued \cup executed \cup ({held, flushed} \ {NoQuery})
  /\ Queued \cap (executed \cup {held, flushed}) = {}
  /\ held = flushed => held = NoQuery
  /\ refused \cap Accepted = {}
  /\ pc = "execute" => held \notin executed
  /\ flush = "execute" => flushed \notin executed
  /\ pc = "callback" => held \in executed
  /\ flush = "callback" => flushed \in executed

Tickets ==
  /\ \A q \in Queries : ticket[q] <= Cardinality(Accepted)
  /\ \A q, r \in Accepted : ticket[q] = ticket[r] => q = r

\* What has left the queue left it before all that is in it.
ListOrder ==
  /\ \A i, j \in DOMAIN tasks : i < j => ticket[tasks[i]] < ticket[tasks[j]]
  /\ \A q \in Accepted \ Queued, i \in DOMAIN tasks : ticket[q] < ticket[tasks[i]]

Ending ==
  /\ closing <=> threadState = "TERMINATED"
  /\ flush \in {"notify", "done"} => closing /\ tasks = <<>>

Results ==
  /\ ResultsAccounted
  /\ \A q \in Queries \cap {held, flushed} : delivered[q] = 0

IInv == TypeOK /\ NoLostWakeup /\ Placement /\ Tickets /\ ListOrder /\ Ending /\ Results

-----------------------------------------------------------------------------
\* A queue of jobs with two workers: the database thread and the thread that flushes.
JobOf(q) ==
  IF q \in {held, flushed} THEN "running"
  ELSE IF q \in executed THEN "done"
  ELSE IF q \in Accepted THEN "queued"
  ELSE IF q \in refused THEN "refused" ELSE "new"
WQ == INSTANCE WorkQueue
        WITH Jobs <- Queries, Workers <- 2,
             job <- [q \in Queries |-> JobOf(q)], open <- threadState = "RUNNING"
ImplementsWorkQueue == WQ!Spec

\* Every accepted query is executed, whether the thread, a flush or a shutdown gets it.
EveryQueryRuns == \A q \in Queries : q \in Queued ~> q \in executed
=============================================================================
