----------------------------- MODULE Scheduler ------------------------------
(***************************************************************************)
(* The timed-event thread (scheduler.h, scheduler.cpp): any thread may     *)
(* call addEvent and stopEvent, the scheduler thread sleeps on eventSignal *)
(* until the earliest event is due and hands it to the dispatcher.         *)
(*                                                                         *)
(* A section of code run under eventLock is one action.  What happens      *)
(* outside the lock is a step of its own: the loop condition on            *)
(* threadState, notify_one after the unlock, the hand-over of a task.      *)
(* wait and wait_until give the lock up, so an iteration of threadMain has *)
(* a step before the wait (LockAndWait) and one after it (Wake...).        *)
(***************************************************************************)
EXTENDS Naturals, FiniteSets

CONSTANTS
  Tasks,        \* the SchedulerTask objects that may ever be created
  Clients,      \* the threads that call addEvent and stopEvent
  MaxEventId,   \* largest event id (2^32 - 1 in the code)
  MaxTime,      \* bound: the clock stops here, and no event is due later
  Forever,      \* the deadline of a wait without a timeout
  NoTask        \* the thread holds no task

ASSUME SchedulerAssumption ==
  /\ IsFiniteSet(Tasks)
  /\ MaxEventId \in Nat
  /\ Cardinality(Tasks) <= MaxEventId    \* no id is reused: see README, "Event ids"
  /\ MaxTime \in Nat
  /\ Forever \notin Nat
  /\ NoTask \notin Tasks

VARIABLES
  threadState,  \* ThreadHolder::threadState
  eventList,    \* the priority queue, as the set of tasks it holds
  cycle,        \* cycle[t]: Task::expiration, when t is due
  eventId,      \* eventId[t], 0 until addEvent gives one
  eventIds,     \* the ids of the active events
  lastEventId,
  now,          \* std::chrono::system_clock
  pc,           \* where the scheduler thread is
  deadline,     \* what wait_until waits for
  notified,     \* eventSignal was notified while the thread waits
  current,      \* the task threadMain holds outside the lock
  signal,       \* signal[c]: c left addEvent's lock and has yet to notify_one
  closing,      \* progress of Scheduler::shutdown in the thread that runs it
  \* history
  added,        \* tasks passed to addEvent
  handed,       \* tasks given to Dispatcher::addTask
  stopped       \* tasks whose stopEvent returned true

vars == <<threadState, eventList, cycle, eventId, eventIds, lastEventId, now, pc,
          deadline, notified, current, signal, closing, added, handed, stopped>>

threadVars == <<pc, deadline, current>>
queueVars  == <<eventList, cycle, eventId, eventIds, lastEventId>>
history    == <<added, handed, stopped>>

ThreadState == {"RUNNING", "CLOSING", "TERMINATED"}
PC == {"loop", "lock", "waiting", "fire", "exited"}
Closing == {"no", "clear", "notify", "done"}

-----------------------------------------------------------------------------
\* TaskComparator puts a task with the smallest expiration at the top; which of
\* several equal ones depends on the heap, so any of them may be the top.
Tops == {t \in eventList : \A u \in eventList : cycle[t] <= cycle[u]}

\* The generated id: ++lastEventId, where 0 is skipped when the counter wraps.
NextEventId == IF lastEventId = MaxEventId THEN 1 ELSE lastEventId + 1

\* Variant: only a push to an empty queue is signalled.
SignalIfEmpty(due) == eventList = {}

\* task == eventList.top() right after the push: an equal older task stays above.
IsNewTop(due) == \A u \in eventList : due < cycle[u]

\* Variant: the notification goes nowhere.
NotifyNobody == UNCHANGED notified

\* notify_one has an effect only on a thread that waits.
NotifyOne == notified' = (notified \/ pc = "waiting")

Init ==
  /\ threadState = "RUNNING"
  /\ eventList = {}
  /\ cycle = [t \in Tasks |-> 0]
  /\ eventId = [t \in Tasks |-> 0]
  /\ eventIds = {}
  /\ lastEventId = 0
  /\ now = 0
  /\ pc = "loop"
  /\ deadline = Forever
  /\ notified = FALSE
  /\ current = NoTask
  /\ signal = [c \in Clients |-> FALSE]
  /\ closing = "no"
  /\ added = {}
  /\ handed = {}
  /\ stopped = {}

-----------------------------------------------------------------------------
(* Callers: createSchedulerTask, addEvent, stopEvent                       *)

\* createSchedulerTask reads the clock before addEvent takes the lock, so the task
\* may be due at any time the caller computed, even one that is already past.
AddEvent(c, t, due) ==
  /\ ~signal[c]
  /\ t \notin added
  /\ threadState = "RUNNING"
  /\ lastEventId' = NextEventId
  /\ cycle' = [cycle EXCEPT ![t] = due]
  /\ eventId' = [eventId EXCEPT ![t] = NextEventId]
  /\ eventIds' = eventIds \cup {NextEventId}
  /\ eventList' = eventList \cup {t}
  /\ signal' = [signal EXCEPT ![c] = IsNewTop(due)]
  /\ added' = added \cup {t}
  /\ UNCHANGED <<threadState, now, threadVars, notified, closing, handed, stopped>>

\* addEvent when the thread is not RUNNING: the task is deleted, 0 is returned.
RejectEvent(c, t) ==
  /\ ~signal[c]
  /\ t \notin added
  /\ threadState # "RUNNING"
  /\ added' = added \cup {t}
  /\ UNCHANGED <<threadState, queueVars, now, threadVars, notified, signal, closing,
                 handed, stopped>>

SendSignal(c) ==
  /\ signal[c]
  /\ signal' = [signal EXCEPT ![c] = FALSE]
  /\ NotifyOne
  /\ UNCHANGED <<threadState, queueVars, now, threadVars, closing, history>>

\* stopEvent that returns true: only the id goes, the task stays queued until due.
StopEvent(c, id) ==
  /\ ~signal[c]
  /\ id \in eventIds
  /\ eventIds' = eventIds \ {id}
  /\ stopped' = stopped \cup {t \in eventList : eventId[t] = id}
  /\ UNCHANGED <<threadState, eventList, cycle, eventId, lastEventId, now, threadVars,
                 notified, signal, closing, added, handed>>

-----------------------------------------------------------------------------
(* The scheduler thread: threadMain                                        *)

\* The while condition, read without the lock.
CheckState ==
  /\ pc = "loop"
  /\ pc' = IF threadState = "TERMINATED" THEN "exited" ELSE "lock"
  /\ UNCHANGED <<threadState, queueVars, now, deadline, notified, current, signal,
                 closing, history>>

\* Under the lock: wait when there is no event, else wait_until the top is due.
LockAndWait ==
  /\ pc = "lock"
  /\ pc' = "waiting"
  /\ deadline' \in IF eventList = {} THEN {Forever} ELSE {cycle[t] : t \in Tops}
  /\ notified' = FALSE
  /\ UNCHANGED <<threadState, queueVars, now, current, signal, closing, history>>

\* Variant: the return value of wait_until is not looked at.
AnyWake == TRUE

\* wait_until returned cv_status::timeout.
TimedOut == deadline # Forever /\ deadline <= now

\* Woken with the lock held, before the deadline or from the plain wait
\* (cv_status::no_timeout), or after it with nothing left in the queue.
\* Both waits may also wake for no reason.
WakeIdle ==
  /\ pc = "waiting"
  /\ ~TimedOut \/ eventList = {}
  /\ pc' = "loop"
  /\ notified' = FALSE
  /\ UNCHANGED <<threadState, queueVars, now, deadline, current, signal, closing,
                 history>>

\* Timed out: the top is popped; it was stopped meanwhile, so it is deleted.
WakeStopped ==
  /\ pc = "waiting"
  /\ TimedOut
  /\ \E t \in Tops :
       /\ eventId[t] \notin eventIds
       /\ eventList' = eventList \ {t}
  /\ pc' = "loop"
  /\ notified' = FALSE
  /\ UNCHANGED <<threadState, cycle, eventId, eventIds, lastEventId, now, deadline,
                 current, signal, closing, history>>

\* Timed out: the top is popped and is active; its id goes before the unlock.
WakeDue ==
  /\ pc = "waiting"
  /\ TimedOut
  /\ \E t \in Tops :
       /\ eventId[t] \in eventIds
       /\ eventList' = eventList \ {t}
       /\ eventIds' = eventIds \ {eventId[t]}
       /\ current' = t
  /\ pc' = "fire"
  /\ notified' = FALSE
  /\ UNCHANGED <<threadState, cycle, eventId, lastEventId, now, deadline, signal,
                 closing, history>>

\* After the unlock: setDontExpire and g_dispatcher.addTask(task, true).
HandOver ==
  /\ pc = "fire"
  /\ handed' = handed \cup {current}
  /\ current' = NoTask
  /\ pc' = "loop"
  /\ UNCHANGED <<threadState, queueVars, now, deadline, notified, signal, closing,
                 added, stopped>>

-----------------------------------------------------------------------------
(* Closing: stop from setGameState, then shutdown from Game::shutdown      *)

Stop ==
  /\ threadState = "RUNNING"
  /\ threadState' = "CLOSING"
  /\ UNCHANGED <<queueVars, now, threadVars, notified, signal, closing, history>>

\* shutdown stores TERMINATED before it takes the lock.
ShutdownState ==
  /\ closing = "no"
  /\ threadState' = "TERMINATED"
  /\ closing' = "clear"
  /\ UNCHANGED <<queueVars, now, threadVars, notified, signal, history>>

ShutdownClear ==
  /\ closing = "clear"
  /\ eventList' = {}
  /\ eventIds' = {}
  /\ closing' = "notify"
  /\ UNCHANGED <<threadState, cycle, eventId, lastEventId, now, threadVars, notified,
                 signal, history>>

ShutdownNotify ==
  /\ closing = "notify"
  /\ closing' = "done"
  /\ NotifyOne
  /\ UNCHANGED <<threadState, queueVars, now, threadVars, signal, history>>

Tick ==
  /\ now < MaxTime
  /\ now' = now + 1
  /\ UNCHANGED <<threadState, queueVars, threadVars, notified, signal, closing, history>>

-----------------------------------------------------------------------------
Thread == CheckState \/ LockAndWait \/ WakeIdle \/ WakeStopped \/ WakeDue \/ HandOver

Caller(c) ==
  \/ \E t \in Tasks, due \in 0..MaxTime : AddEvent(c, t, due)
  \/ \E t \in Tasks : RejectEvent(c, t)
  \/ \E id \in 1..MaxEventId : StopEvent(c, id)
  \/ SendSignal(c)

Shutdown == ShutdownState \/ ShutdownClear \/ ShutdownNotify

Next == Thread \/ (\E c \in Clients : Caller(c)) \/ Stop \/ Shutdown \/ Tick

Spec == Init /\ [][Next]_vars

\* A thread the operating system runs keeps running: it takes the step in front of
\* it, a thread whose condition variable was notified or whose deadline has passed
\* wakes, a caller that left the lock sends its signal and a shutdown that began
\* goes on.  Nothing forces a call, a stop or a spurious wake-up.
Fairness ==
  /\ WF_vars(CheckState) /\ WF_vars(LockAndWait) /\ WF_vars(HandOver)
  /\ WF_vars(WakeStopped) /\ WF_vars(WakeDue)
  /\ WF_vars(WakeIdle /\ (notified \/ TimedOut))
  /\ \A c \in Clients : WF_vars(SendSignal(c))
  /\ WF_vars(ShutdownClear) /\ WF_vars(ShutdownNotify)
  /\ WF_vars(Tick)

FairSpec == Spec /\ Fairness

-----------------------------------------------------------------------------
(* Properties                                                              *)

\* Every variable keeps its type, and the thread holds a task exactly between the
\* unlock that follows a pop and the hand-over.
TypeOK ==
  /\ threadState \in ThreadState
  /\ eventList \in SUBSET Tasks
  /\ cycle \in [Tasks -> 0..MaxTime]
  /\ eventId \in [Tasks -> 0..MaxEventId]
  /\ eventIds \in SUBSET (1..MaxEventId)
  /\ lastEventId \in 0..MaxEventId
  /\ now \in 0..MaxTime
  /\ pc \in PC
  /\ deadline \in 0..MaxTime \cup {Forever}
  /\ notified \in BOOLEAN
  /\ current \in Tasks \cup {NoTask}
  /\ signal \in [Clients -> BOOLEAN]
  /\ closing \in Closing
  /\ added \in SUBSET Tasks
  /\ handed \in SUBSET Tasks
  /\ stopped \in SUBSET Tasks
  /\ pc = "fire" <=> current # NoTask

\* eventIds does not leak: an active id belongs to a queued task, so that stopEvent
\* can only return true for an event that has not fired.
ActiveIdsAreQueued == eventIds \subseteq {eventId[t] : t \in eventList}

\* No wake-up is lost while the scheduler runs: when the thread sleeps and no caller
\* still owes it a notify_one, it sleeps no longer than until the earliest event.
SleepsUntilEarliest ==
  pc = "waiting" /\ ~notified /\ (\A c \in Clients : ~signal[c]) =>
    \A t \in eventList : deadline # Forever /\ deadline <= cycle[t]

\* stopEvent that returned true is final: the task is never handed to the dispatcher,
\* although it stays in the queue until it is due.
StoppedNeverHanded == stopped \cap (handed \cup {current}) = {}

\* The invariant the proofs need (SchedulerProofs): no id is given twice, and what
\* became of each event that was added.
IdsAreUnique ==
  /\ lastEventId <= Cardinality(added)
  /\ \A t \in Tasks : eventId[t] <= lastEventId
  /\ \A t, u \in Tasks : eventId[t] = eventId[u] /\ eventId[t] # 0 => t = u

QueueInv ==
  /\ \A t \in eventList : eventId[t] # 0 /\ (eventId[t] \in eventIds \/ t \in stopped)
  /\ \A t \in Tasks : t \notin added => eventId[t] = 0
  /\ eventList \cup handed \cup stopped \subseteq added
  /\ current # NoTask => current \in added
  /\ eventList \cap (handed \cup {current}) = {}
  /\ closing # "no" => threadState = "TERMINATED"
  /\ \A t \in stopped : eventId[t] # 0 /\ eventId[t] \notin eventIds

\* "ok we had a timeout, so there has to be an event we have to execute"
\* (scheduler.cpp:40): while the thread sleeps towards a deadline an event that is
\* due by then stays queued, unless a shutdown empties the queue.
TimeoutMeansDue ==
  pc = "waiting" /\ deadline # Forever =>
    \/ \E t \in eventList : cycle[t] <= deadline
    \/ threadState = "TERMINATED" /\ eventList = {}

IInv ==
  /\ TypeOK
  /\ IdsAreUnique
  /\ QueueInv
  /\ ActiveIdsAreQueued
  /\ StoppedNeverHanded
  /\ TimeoutMeansDue

\* The scheduler is a timer service: cancelled, fired and discarded exclude each
\* other, and a timer fires only when it is due.
TimerOf(t) ==
  IF t \in handed \cup {current} THEN "fired"
  ELSE IF t \in stopped THEN "cancelled"
  ELSE IF t \in eventList THEN "pending"
  ELSE IF t \in added THEN "discarded" ELSE "idle"
TS == INSTANCE TimerService
        WITH timer <- [t \in Tasks |-> TimerOf(t)], due <- cycle, clock <- now
ImplementsTimerService == TS!Spec

\* Every event leaves the queue: it fires, was stopped, or the shutdown discards it.
EveryEventLeaves == \A t \in Tasks : t \in eventList ~> t \notin eventList
=============================================================================
