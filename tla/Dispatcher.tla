----------------------------- MODULE Dispatcher -----------------------------
(***************************************************************************)
(* The dispatcher (tasks.h, tasks.cpp): every thread may add a task, one   *)
(* thread takes them from taskList and runs the whole game.                *)
(*                                                                         *)
(* A section of code run under taskLock is one action; the loop condition, *)
(* the notify_one after addTask's unlock and the run of a task are steps   *)
(* of their own.  A task that calls addTask while it runs is one of the    *)
(* Clients too: it can take every step a client of another thread can      *)
(* take while pc = "run".                                                  *)
(***************************************************************************)
EXTENDS Naturals, Sequences, FiniteSets

CONSTANTS
  Posted,       \* tasks added at the back, with or without an expiration
  Timed,        \* tasks of the scheduler: setDontExpire, then addTask(task, true)
  ExitTask,     \* the task shutdown creates
  Clients,      \* the threads that call addTask
  MaxTime,      \* bound: the clock stops here
  NoExpiration, \* SYSTEM_TIME_ZERO
  NoTask        \* the thread holds no task

Tasks == Posted \cup Timed
Queueable == Tasks \cup {ExitTask}

ASSUME DispatcherAssumption ==
  /\ IsFiniteSet(Tasks)
  /\ Posted \cap Timed = {}
  /\ ExitTask \notin Tasks
  /\ NoTask \notin Queueable
  /\ MaxTime \in Nat
  /\ NoExpiration \notin Nat

VARIABLES
  threadState,  \* ThreadHolder::threadState
  taskList,
  expiration,   \* expiration[t]: Task::expiration
  now,          \* std::chrono::system_clock
  pc,           \* where the dispatcher thread is
  current,      \* the task threadMain took
  notified,     \* taskSignal was notified while the thread waits
  signal,       \* signal[c]: c left addTask's lock and has yet to notify_one
  \* history
  ticket,       \* ticket[t] = n: t was the n-th task accepted; 0 before
  dropped,      \* tasks addTask deleted
  ran,          \* tasks whose function was called
  expired       \* tasks deleted because hasExpired

vars == <<threadState, taskList, expiration, now, pc, current, notified, signal,
          ticket, dropped, ran, expired>>

ThreadState == {"RUNNING", "CLOSING", "TERMINATED"}
PC == {"loop", "lock", "waiting", "run", "exited"}

-----------------------------------------------------------------------------
Queued == {taskList[i] : i \in DOMAIN taskList}
Accepted == {t \in Queueable : ticket[t] # 0}
NextTicket == Cardinality(Accepted) + 1

\* Variant: do_signal is computed after the push.
SignalAfterPush == FALSE

\* do_signal: nobody has been signalled for what is in the list.
MustSignal == taskList = <<>>

\* Variant: every task is pushed to the front.
PushFrontAlways(t) == <<t>> \o taskList

\* taskList after the push: push_front for the scheduler's tasks.
Push(t) == IF t \in Timed THEN <<t>> \o taskList ELSE Append(taskList, t)

NotifyOne == notified' = (notified \/ pc = "waiting")

HasExpired(t) == expiration[t] # NoExpiration /\ expiration[t] < now

Init ==
  /\ threadState = "RUNNING"
  /\ taskList = <<>>
  /\ expiration = [t \in Queueable |-> NoExpiration]
  /\ now = 0
  /\ pc = "loop"
  /\ current = NoTask
  /\ notified = FALSE
  /\ signal = [c \in Clients |-> FALSE]
  /\ ticket = [t \in Queueable |-> 0]
  /\ dropped = {}
  /\ ran = {}
  /\ expired = {}

-----------------------------------------------------------------------------
(* Callers: createTask, addTask, shutdown                                  *)

\* createTask reads the clock before addTask takes the lock, so the expiration may
\* be any time, even one that is past; the scheduler's tasks have none.
Expirations(t) == IF t \in Timed THEN {NoExpiration} ELSE (0..MaxTime) \cup {NoExpiration}

\* Variant: the state is not looked at.
AddTaskUnchecked(c, t, e) ==
  /\ ~signal[c]
  /\ t \notin Accepted \cup dropped
  /\ e \in Expirations(t)
  /\ expiration' = [expiration EXCEPT ![t] = e]
  /\ taskList' = Push(t)
  /\ ticket' = [ticket EXCEPT ![t] = NextTicket]
  /\ signal' = [signal EXCEPT ![c] = MustSignal]
  /\ UNCHANGED <<threadState, now, pc, current, notified, dropped, ran, expired>>

AddTask(c, t, e) ==
  /\ ~signal[c]
  /\ t \notin Accepted \cup dropped
  /\ threadState = "RUNNING"
  /\ e \in Expirations(t)
  /\ expiration' = [expiration EXCEPT ![t] = e]
  /\ taskList' = Push(t)
  /\ ticket' = [ticket EXCEPT ![t] = NextTicket]
  /\ signal' = [signal EXCEPT ![c] = MustSignal]
  /\ UNCHANGED <<threadState, now, pc, current, notified, dropped, ran, expired>>

\* addTask when the dispatcher is not RUNNING.
DropTask(c, t) ==
  /\ ~signal[c]
  /\ t \notin Accepted \cup dropped
  /\ threadState # "RUNNING"
  /\ dropped' = dropped \cup {t}
  /\ UNCHANGED <<threadState, taskList, expiration, now, pc, current, notified, signal,
                 ticket, ran, expired>>

SendSignal(c) ==
  /\ signal[c]
  /\ signal' = [signal EXCEPT ![c] = FALSE]
  /\ NotifyOne
  /\ UNCHANGED <<threadState, taskList, expiration, now, pc, current, ticket, dropped,
                 ran, expired>>

\* ThreadHolder::stop, the last call of setGameState(GAME_STATE_SHUTDOWN).
Stop ==
  /\ threadState = "RUNNING"
  /\ threadState' = "CLOSING"
  /\ UNCHANGED <<taskList, expiration, now, pc, current, notified, signal, ticket,
                 dropped, ran, expired>>

\* Variant: the task that ends the thread goes to the front.
ShutdownInFront ==
  /\ ticket[ExitTask] = 0
  /\ taskList' = <<ExitTask>> \o taskList
  /\ ticket' = [ticket EXCEPT ![ExitTask] = NextTicket]
  /\ NotifyOne
  /\ UNCHANGED <<threadState, expiration, now, pc, current, signal, dropped, ran,
                 expired>>

\* Variant: nobody is notified.
ShutdownSilent ==
  /\ ticket[ExitTask] = 0
  /\ taskList' = Append(taskList, ExitTask)
  /\ ticket' = [ticket EXCEPT ![ExitTask] = NextTicket]
  /\ UNCHANGED <<threadState, expiration, now, pc, current, notified, signal, dropped,
                 ran, expired>>

\* Called once.  It pushes without asking for the state and notifies under the lock.
Shutdown ==
  /\ ticket[ExitTask] = 0
  /\ taskList' = Append(taskList, ExitTask)
  /\ ticket' = [ticket EXCEPT ![ExitTask] = NextTicket]
  /\ NotifyOne
  /\ UNCHANGED <<threadState, expiration, now, pc, current, signal, dropped, ran,
                 expired>>

-----------------------------------------------------------------------------
(* The dispatcher thread: threadMain                                       *)

CheckState ==
  /\ pc = "loop"
  /\ pc' = IF threadState = "TERMINATED" THEN "exited" ELSE "lock"
  /\ UNCHANGED <<threadState, taskList, expiration, now, current, notified, signal,
                 ticket, dropped, ran, expired>>

\* Under the lock with an empty list: wait for taskSignal.
Wait ==
  /\ pc = "lock"
  /\ taskList = <<>>
  /\ pc' = "waiting"
  /\ notified' = FALSE
  /\ UNCHANGED <<threadState, taskList, expiration, now, current, signal, ticket,
                 dropped, ran, expired>>

\* Under the lock, at once or after a wake-up (which may be spurious): the first
\* task is taken.
Take ==
  /\ pc \in {"lock", "waiting"}
  /\ taskList # <<>>
  /\ current' = Head(taskList)
  /\ taskList' = Tail(taskList)
  /\ pc' = "run"
  /\ notified' = FALSE
  /\ UNCHANGED <<threadState, expiration, now, signal, ticket, dropped, ran, expired>>

\* Woken and nothing there.
WakeIdle ==
  /\ pc = "waiting"
  /\ taskList = <<>>
  /\ pc' = "loop"
  /\ notified' = FALSE
  /\ UNCHANGED <<threadState, taskList, expiration, now, current, signal, ticket,
                 dropped, ran, expired>>

\* The task runs, and is deleted.  ++dispatcherCycle is Cardinality(ran).
Run ==
  /\ pc = "run"
  /\ ~HasExpired(current)
  /\ ran' = ran \cup {current}
  /\ threadState' = IF current = ExitTask THEN "TERMINATED" ELSE threadState
  /\ current' = NoTask
  /\ pc' = "loop"
  /\ UNCHANGED <<taskList, expiration, now, notified, signal, ticket, dropped, expired>>

\* The task is deleted without a run.
Expire ==
  /\ pc = "run"
  /\ HasExpired(current)
  /\ expired' = expired \cup {current}
  /\ current' = NoTask
  /\ pc' = "loop"
  /\ UNCHANGED <<threadState, taskList, expiration, now, notified, signal, ticket,
                 dropped, ran>>

Tick ==
  /\ now < MaxTime
  /\ now' = now + 1
  /\ UNCHANGED <<threadState, taskList, expiration, pc, current, notified, signal,
                 ticket, dropped, ran, expired>>

-----------------------------------------------------------------------------
Thread == CheckState \/ Wait \/ Take \/ WakeIdle \/ Run \/ Expire

Caller(c) ==
  \/ \E t \in Tasks, e \in (0..MaxTime) \cup {NoExpiration} : AddTask(c, t, e)
  \/ \E t \in Tasks : DropTask(c, t)
  \/ SendSignal(c)

Next == Thread \/ (\E c \in Clients : Caller(c)) \/ Stop \/ Shutdown \/ Tick

Spec == Init /\ [][Next]_vars

\* The thread takes the step in front of it, wakes when it was notified, and a caller
\* that left the lock sends its signal; tasks return (Run is one step).
Fairness ==
  /\ WF_vars(CheckState) /\ WF_vars(Wait) /\ WF_vars(Run) /\ WF_vars(Expire)
  /\ WF_vars((Take \/ WakeIdle) /\ (pc = "waiting" => notified))
  /\ \A c \in Clients : WF_vars(SendSignal(c))

FairSpec == Spec /\ Fairness

-----------------------------------------------------------------------------
(* Properties                                                              *)

TypeOK ==
  /\ threadState \in ThreadState
  /\ taskList \in Seq(Queueable)
  /\ expiration \in [Queueable -> (0..MaxTime) \cup {NoExpiration}]
  /\ now \in 0..MaxTime
  /\ pc \in PC
  /\ current \in Queueable \cup {NoTask}
  /\ notified \in BOOLEAN
  /\ signal \in [Clients -> BOOLEAN]
  /\ ticket \in [Queueable -> Nat]
  /\ dropped \in SUBSET Tasks
  /\ ran \in SUBSET Queueable
  /\ expired \in SUBSET Tasks
  /\ pc = "run" <=> current # NoTask

\* No wake-up is lost although only the caller that found the list empty notifies:
\* the thread sleeps over a task only while somebody still owes it a notify_one.
NoLostWakeup ==
  pc = "waiting" /\ taskList # <<>> => notified \/ \E c \in Clients : signal[c]

\* The scheduler's tasks never expire, whatever the delay in the queue: their expiration
\* is the time they are due, which setDontExpire must clear before addTask.
TimedNeverExpire == expired \cap Timed = {}

\* Tasks added at the back are begun in the order in which they were accepted,
\* whatever the scheduler puts in front of them.
Begun == ran \cup expired \cup {current}
FifoAtBack ==
  \A t, u \in Accepted \ Timed :
    ticket[t] < ticket[u] /\ u \in Begun => t \in Begun

\* A due event waits only for the task that runs and for events that came due after
\* it: every task of the scheduler is in front of every task added at the back.
TimedInFront ==
  \A i, j \in DOMAIN taskList : i < j /\ taskList[j] \in Timed => taskList[i] \in Timed

\* When the thread ends, what is left behind was added after shutdown: every task
\* accepted before it was run or had expired.
NothingLeftBehind ==
  pc = "exited" =>
    \A t \in Accepted : ticket[t] < ticket[ExitTask] => t \in ran \cup expired

\* The invariant the proofs need (DispatcherProofs): a task is in one place, tickets
\* tell accepted tasks apart, and the list is ordered by them but for what the
\* scheduler put in front.
Placement ==
  /\ \A i, j \in DOMAIN taskList : taskList[i] = taskList[j] => i = j
  /\ Accepted = Queued \cup (Begun \ {NoTask})
  /\ Queued \cap Begun = {}
  /\ current \notin ran \cup expired
  /\ ran \cap expired = {}
  /\ dropped \cap Accepted = {}

Tickets ==
  /\ \A t \in Queueable : ticket[t] <= Cardinality(Accepted)
  /\ \A t, u \in Accepted : ticket[t] = ticket[u] => t = u

ListOrder ==
  \A i, j \in DOMAIN taskList :
    i < j /\ taskList[i] \notin Timed => ticket[taskList[i]] < ticket[taskList[j]]

BegunFirst ==
  \A t \in Begun \ Timed, i \in DOMAIN taskList :
    t # NoTask /\ (taskList[i] \notin Timed \/ t = ExitTask)
      => ticket[t] < ticket[taskList[i]]

NoExpirationKept == \A t \in Timed \cup {ExitTask} : expiration[t] = NoExpiration

ExitBeforeEnd ==
  /\ threadState = "TERMINATED" => ExitTask \in ran
  /\ pc = "exited" => threadState = "TERMINATED"

IInv ==
  /\ TypeOK
  /\ NoLostWakeup
  /\ Placement
  /\ Tickets
  /\ ListOrder
  /\ BegunFirst
  /\ TimedInFront
  /\ NoExpirationKept
  /\ TimedNeverExpire
  /\ ExitBeforeEnd

-----------------------------------------------------------------------------
\* A queue of jobs with one worker.
JobOf(t) ==
  IF t \in ran THEN "done"
  ELSE IF t \in expired THEN "skipped"
  ELSE IF t = current THEN "running"
  ELSE IF t \in Accepted THEN "queued"
  ELSE IF t \in dropped THEN "refused" ELSE "new"
WQ == INSTANCE WorkQueue
        WITH Jobs <- Tasks, Workers <- 1,
             job <- [t \in Tasks |-> JobOf(t)], open <- threadState = "RUNNING"
ImplementsWorkQueue == WQ!Spec

\* shutdown always ends the thread.
ShutdownEnds == ticket[ExitTask] # 0 ~> pc = "exited"
=============================================================================
