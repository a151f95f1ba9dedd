--------------------------- MODULE SchedulerProofs --------------------------
(***************************************************************************)
(* Proofs about Scheduler, for any set of events, callers and event ids    *)
(* large enough that none is reused.  IInv is inductive (InductiveInv); a  *)
(* stopped event never fires, no wake-up is lost, and every step is a step *)
(* of TimerService or leaves it unchanged.                                 *)
(***************************************************************************)
EXTENDS Scheduler, FiniteSetTheorems, TLAPS

\* The counter does not wrap while a task is left to add: the next id is fresh and
\* the cardinality of added keeps pace with it.
LEMMA FreshId ==
  ASSUME IInv, NEW t \in Tasks, t \notin added
  PROVE  /\ NextEventId = lastEventId + 1
         /\ NextEventId \in 1..MaxEventId
         /\ Cardinality(added \cup {t}) = Cardinality(added) + 1
         /\ Cardinality(added) \in Nat
<1>1. IsFiniteSet(Tasks) /\ IsFiniteSet(added)
  BY FS_Subset, SchedulerAssumption DEF IInv, TypeOK
<1>2. Cardinality(added) \in Nat /\ Cardinality(Tasks) \in Nat
  BY <1>1, FS_CardinalityType
<1>3. Cardinality(added \cup {t}) = Cardinality(added) + 1
  BY <1>1, FS_AddElement
<1>4. Cardinality(added \cup {t}) <= Cardinality(Tasks)
  <2>1. added \cup {t} \subseteq Tasks
    BY DEF IInv, TypeOK
  <2> QED BY <2>1, <1>1, FS_Subset
<1>5. lastEventId \in Nat /\ lastEventId <= Cardinality(added)
  BY DEF IInv, TypeOK, IdsAreUnique
<1>6. lastEventId < MaxEventId
  BY <1>2, <1>3, <1>4, <1>5, SchedulerAssumption
<1> QED BY <1>2, <1>3, <1>5, <1>6, SchedulerAssumption DEF NextEventId

LEMMA InitInv == Init => IInv
<1> SUFFICES ASSUME Init PROVE IInv
  OBVIOUS
<1>1. Cardinality({}) = 0
  BY FS_EmptySet
<1>2. TypeOK
  <2>1. 0 \in 0..MaxTime /\ 0 \in 0..MaxEventId
    BY <1>1, SchedulerAssumption, FS_CardinalityType
  <2> QED BY <2>1 DEF Init, TypeOK, ThreadState, PC, Closing
<1>3. IdsAreUnique /\ QueueInv
  BY <1>1, SchedulerAssumption DEF Init, IdsAreUnique, QueueInv
<1> QED BY <1>2, <1>3 DEF Init, IInv, ActiveIdsAreQueued, StoppedNeverHanded,
                          TimeoutMeansDue

LEMMA AddEventInv ==
  ASSUME IInv, NEW c \in Clients, NEW t \in Tasks, NEW due \in 0..MaxTime,
         AddEvent(c, t, due)
  PROVE  IInv'
<1> DEFINE id == NextEventId
<1>1. /\ id = lastEventId + 1
      /\ id \in 1..MaxEventId
      /\ Cardinality(added') = Cardinality(added) + 1
      /\ Cardinality(added) \in Nat
  BY FreshId DEF AddEvent
<1> HIDE DEF id
<1>2. /\ threadState = "RUNNING" /\ t \notin added
      /\ lastEventId' = id
      /\ cycle' = [cycle EXCEPT ![t] = due]
      /\ eventId' = [eventId EXCEPT ![t] = id]
      /\ eventIds' = eventIds \cup {id}
      /\ eventList' = eventList \cup {t}
      /\ signal' = [signal EXCEPT ![c] = IsNewTop(due)]
      /\ added' = added \cup {t}
      /\ UNCHANGED <<threadState, now, pc, deadline, current, notified, closing,
                     handed, stopped>>
  BY DEF AddEvent, threadVars, id
<1> USE DEF IInv
<1>3. TypeOK'
  BY <1>1, <1>2 DEF TypeOK, IsNewTop
<1>4. IdsAreUnique'
  BY <1>1, <1>2 DEF TypeOK, IdsAreUnique
<1>5. QueueInv'
  BY <1>1, <1>2, SchedulerAssumption DEF TypeOK, IdsAreUnique, QueueInv
<1>6. ActiveIdsAreQueued'
  <2> SUFFICES ASSUME NEW i \in eventIds'
               PROVE  \E u \in eventList' : i = eventId'[u]
    BY DEF ActiveIdsAreQueued
  <2>1. CASE i = id
    BY <2>1, <1>2 DEF TypeOK
  <2>2. CASE i # id
    <3>1. PICK u \in eventList : i = eventId[u]
      BY <2>2, <1>2 DEF ActiveIdsAreQueued
    <3>2. u \in Tasks /\ u # t
      BY <1>2 DEF QueueInv, TypeOK
    <3> QED BY <3>1, <3>2, <1>2 DEF TypeOK
  <2> QED BY <2>1, <2>2
<1>7. StoppedNeverHanded'
  BY <1>2 DEF StoppedNeverHanded
<1>8. TimeoutMeansDue'
  BY <1>2 DEF TimeoutMeansDue, QueueInv, TypeOK
<1> QED BY <1>3, <1>4, <1>5, <1>6, <1>7, <1>8

LEMMA RejectEventInv ==
  ASSUME IInv, NEW c \in Clients, NEW t \in Tasks, RejectEvent(c, t)
  PROVE  IInv'
<1>1. /\ Cardinality(added') = Cardinality(added) + 1
      /\ Cardinality(added) \in Nat
  BY FreshId DEF RejectEvent
<1> USE DEF IInv, RejectEvent, threadVars, queueVars
<1>2. TypeOK' BY DEF TypeOK
<1>3. IdsAreUnique' BY <1>1 DEF IdsAreUnique, TypeOK
<1>4. QueueInv' BY DEF QueueInv
<1> QED BY <1>2, <1>3, <1>4 DEF ActiveIdsAreQueued, StoppedNeverHanded, TimeoutMeansDue

LEMMA StopEventInv ==
  ASSUME IInv, NEW c \in Clients, NEW id \in 1..MaxEventId, StopEvent(c, id)
  PROVE  IInv'
<1> USE DEF IInv, StopEvent, threadVars
<1>1. TypeOK' BY DEF TypeOK
<1>2. IdsAreUnique' BY DEF IdsAreUnique
<1>3. QueueInv' BY DEF QueueInv, TypeOK
<1>4. ActiveIdsAreQueued' BY DEF ActiveIdsAreQueued
<1>5. StoppedNeverHanded' BY DEF StoppedNeverHanded, QueueInv
<1> QED BY <1>1, <1>2, <1>3, <1>4, <1>5 DEF TimeoutMeansDue

\* A pop by the thread: of a stopped event, which is deleted, or of an active one.
LEMMA WakeInv ==
  ASSUME IInv, WakeStopped \/ WakeDue
  PROVE  IInv'
<1> USE DEF IInv
<1>1. CASE WakeStopped
  <2> USE <1>1 DEF WakeStopped
  <2>1. PICK t \in Tops : eventId[t] \notin eventIds /\ eventList' = eventList \ {t}
    OBVIOUS
  <2>2. t \in eventList
    BY DEF Tops
  <2>3. TypeOK' BY DEF TypeOK, history, PC
  <2>4. IdsAreUnique' BY DEF IdsAreUnique, history
  <2>5. QueueInv' BY <2>1 DEF QueueInv, history
  <2>6. ActiveIdsAreQueued'
    <3> SUFFICES ASSUME NEW i \in eventIds
                 PROVE  \E u \in eventList' : i = eventId[u]
      BY DEF ActiveIdsAreQueued
    <3>1. PICK u \in eventList : i = eventId[u]
      BY DEF ActiveIdsAreQueued
    <3> QED BY <3>1, <2>1
  <2>7. StoppedNeverHanded' BY DEF StoppedNeverHanded, history
  <2>8. TimeoutMeansDue' BY DEF TimeoutMeansDue
  <2> QED BY <2>3, <2>4, <2>5, <2>6, <2>7, <2>8
<1>2. CASE WakeDue
  <2> USE <1>2 DEF WakeDue
  <2>1. PICK t \in Tops : /\ eventId[t] \in eventIds
                          /\ eventList' = eventList \ {t}
                          /\ eventIds' = eventIds \ {eventId[t]}
                          /\ current' = t
    OBVIOUS
  <2>2. t \in eventList /\ t \in Tasks /\ t # NoTask
    BY SchedulerAssumption DEF Tops, TypeOK
  <2>3. TypeOK' BY <2>1, <2>2 DEF TypeOK, history, PC
  <2>4. IdsAreUnique' BY DEF IdsAreUnique, history
  <2>5. QueueInv'
    <3>1. \A u \in eventList' : u \in eventList /\ u \in Tasks /\ eventId[u] # eventId[t]
      BY <2>1, <2>2 DEF IdsAreUnique, QueueInv, TypeOK
    <3> QED BY <2>1, <2>2, <3>1 DEF QueueInv, TypeOK, history
  <2>6. ActiveIdsAreQueued'
    <3> SUFFICES ASSUME NEW i \in eventIds, i # eventId[t]
                 PROVE  \E u \in eventList' : i = eventId[u]
      BY <2>1 DEF ActiveIdsAreQueued
    <3>1. PICK u \in eventList : i = eventId[u]
      BY DEF ActiveIdsAreQueued
    <3> QED BY <3>1, <2>1
  <2>7. StoppedNeverHanded'
    BY <2>1, <2>2 DEF StoppedNeverHanded, QueueInv, TypeOK, history
  <2>8. TimeoutMeansDue' BY DEF TimeoutMeansDue
  <2> QED BY <2>3, <2>4, <2>5, <2>6, <2>7, <2>8
<1> QED BY <1>1, <1>2

LEMMA HandOverInv ==
  ASSUME IInv, HandOver
  PROVE  IInv'
<1> USE DEF IInv, HandOver, queueVars
<1>1. current \in Tasks /\ current # NoTask
  BY DEF TypeOK
<1>2. TypeOK' BY <1>1 DEF TypeOK, PC
<1>3. IdsAreUnique' BY DEF IdsAreUnique
<1>4. QueueInv' BY <1>1, SchedulerAssumption DEF QueueInv, TypeOK
<1>5. StoppedNeverHanded' BY SchedulerAssumption DEF StoppedNeverHanded, TypeOK
<1> QED BY <1>2, <1>3, <1>4, <1>5 DEF ActiveIdsAreQueued, TimeoutMeansDue

\* The steps that touch neither the queue nor the history of an event.
LEMMA ControlInv ==
  ASSUME IInv,
         \/ CheckState \/ LockAndWait \/ WakeIdle
         \/ \E c \in Clients : SendSignal(c)
         \/ Stop \/ ShutdownState \/ ShutdownNotify \/ Tick
  PROVE  IInv'
<1> USE DEF IInv, queueVars, threadVars, history
<1>1. UNCHANGED <<eventList, cycle, eventId, eventIds, lastEventId, current, added,
                  handed, stopped>>
  BY DEF CheckState, LockAndWait, WakeIdle, SendSignal, Stop, ShutdownState,
         ShutdownNotify, Tick
<1>2. IdsAreUnique' BY <1>1 DEF IdsAreUnique
<1>3. QueueInv'
  BY <1>1 DEF QueueInv, CheckState, LockAndWait, WakeIdle, SendSignal, Stop,
              ShutdownState, ShutdownNotify, Tick
<1>4. ActiveIdsAreQueued' /\ StoppedNeverHanded'
  BY <1>1 DEF ActiveIdsAreQueued, StoppedNeverHanded
<1>5. TypeOK'
  <2>1. CASE CheckState BY <2>1 DEF CheckState, TypeOK, PC
  <2>2. CASE LockAndWait
    <3>1. deadline' \in 0..MaxTime \cup {Forever}
      BY <2>2 DEF LockAndWait, Tops, TypeOK
    <3> QED BY <2>2, <3>1 DEF LockAndWait, TypeOK, PC
  <2>3. CASE WakeIdle BY <2>3 DEF WakeIdle, TypeOK, PC
  <2>4. CASE \E c \in Clients : SendSignal(c)
    BY <2>4 DEF SendSignal, NotifyOne, TypeOK
  <2>5. CASE Stop BY <2>5 DEF Stop, TypeOK, ThreadState
  <2>6. CASE ShutdownState BY <2>6 DEF ShutdownState, TypeOK, ThreadState, Closing
  <2>7. CASE ShutdownNotify BY <2>7 DEF ShutdownNotify, NotifyOne, TypeOK, Closing
  <2>8. CASE Tick BY <2>8, SchedulerAssumption DEF Tick, TypeOK
  <2> QED BY <2>1, <2>2, <2>3, <2>4, <2>5, <2>6, <2>7, <2>8
<1>6. TimeoutMeansDue'
  <2>1. CASE LockAndWait
    <3>1. CASE eventList = {}
      BY <3>1, <2>1 DEF LockAndWait, TimeoutMeansDue
    <3>2. CASE eventList # {}
      <4>1. PICK t \in Tops : deadline' = cycle[t]
        BY <3>2, <2>1 DEF LockAndWait
      <4>2. t \in eventList /\ cycle[t] \in Nat
        BY SchedulerAssumption DEF Tops, TypeOK
      <4> QED BY <4>1, <4>2, <2>1 DEF LockAndWait, TimeoutMeansDue
    <3> QED BY <3>1, <3>2
  <2>2. CASE \/ CheckState \/ WakeIdle \/ Tick \/ ShutdownNotify \/ Stop \/ ShutdownState
             \/ \E c \in Clients : SendSignal(c)
    BY <2>2 DEF CheckState, WakeIdle, SendSignal, Stop, ShutdownState, ShutdownNotify,
                Tick, TimeoutMeansDue
  <2> QED BY <2>1, <2>2
<1> QED BY <1>2, <1>3, <1>4, <1>5, <1>6

LEMMA ClearInv ==
  ASSUME IInv, ShutdownClear
  PROVE  IInv'
<1> USE DEF IInv, ShutdownClear, threadVars, history
<1>1. TypeOK' BY DEF TypeOK, Closing
<1>2. IdsAreUnique' BY DEF IdsAreUnique
<1>3. QueueInv' BY DEF QueueInv
<1> QED BY <1>1, <1>2, <1>3
        DEF ActiveIdsAreQueued, StoppedNeverHanded, TimeoutMeansDue, QueueInv

LEMMA NextInv == IInv /\ [Next]_vars => IInv'
<1> SUFFICES ASSUME IInv, [Next]_vars PROVE IInv'
  OBVIOUS
<1>1. CASE Thread
  BY <1>1, ControlInv, WakeInv, HandOverInv DEF Thread
<1>2. ASSUME NEW c \in Clients, Caller(c) PROVE IInv'
  BY <1>2, AddEventInv, RejectEventInv, StopEventInv, ControlInv DEF Caller
<1>3. CASE Stop \/ Shutdown \/ Tick
  BY <1>3, ControlInv, ClearInv DEF Shutdown
<1>4. CASE UNCHANGED vars
  BY <1>4 DEF vars, IInv, TypeOK, IdsAreUnique, QueueInv, ActiveIdsAreQueued,
              StoppedNeverHanded, TimeoutMeansDue
<1> QED BY <1>1, <1>2, <1>3, <1>4 DEF Next

\* The queue, the ids and the history of the events stay consistent in every
\* reachable state, whatever callers, thread and shutdown do.
THEOREM InductiveInv == Spec => []IInv
BY InitInv, NextInv, PTL DEF Spec

\* stopEvent that returned true is final: the event is never handed to the dispatcher.
\* And a wait that times out finds an event that is due.
THEOREM StopIsFinal ==
  Spec => [](TypeOK /\ ActiveIdsAreQueued /\ StoppedNeverHanded /\ TimeoutMeansDue)
<1>1. IInv => TypeOK /\ ActiveIdsAreQueued /\ StoppedNeverHanded /\ TimeoutMeansDue
  BY DEF IInv
<1> QED BY <1>1, InductiveInv, PTL

-----------------------------------------------------------------------------
\* An added event that is not the new top has one before it, for which the thread
\* wakes in time or a signal is still owed.
LEMMA WakeUpStep ==
  IInv /\ SleepsUntilEarliest /\ [Next]_vars => SleepsUntilEarliest'
<1> SUFFICES ASSUME IInv, SleepsUntilEarliest, [Next]_vars,
                    pc' = "waiting", ~notified', \A c \in Clients : ~signal'[c]
             PROVE  \A t \in eventList' : deadline' # Forever /\ deadline' <= cycle'[t]
  BY DEF SleepsUntilEarliest
<1> USE DEF IInv, queueVars, threadVars, history
<1>1. ASSUME NEW c \in Clients, NEW t \in Tasks, NEW due \in 0..MaxTime,
             AddEvent(c, t, due)
      PROVE  \A u \in eventList' : deadline' # Forever /\ deadline' <= cycle'[u]
  <2>1. /\ pc = "waiting" /\ ~notified /\ t \notin eventList
        /\ eventList' = eventList \cup {t} /\ deadline' = deadline
        /\ cycle' = [cycle EXCEPT ![t] = due]
        /\ signal' = [signal EXCEPT ![c] = IsNewTop(due)] /\ ~signal[c]
    BY <1>1 DEF AddEvent, QueueInv
  <2>2. \A d \in Clients : ~signal[d]
    BY <2>1 DEF TypeOK
  <2>3. \A u \in eventList : deadline # Forever /\ deadline <= cycle[u]
    BY <2>1, <2>2 DEF SleepsUntilEarliest
  <2>4. ~IsNewTop(due)
    BY <2>1 DEF TypeOK
  <2>5. PICK u \in eventList : ~(due < cycle[u])
    BY <2>4 DEF IsNewTop
  <2>6. deadline # Forever /\ deadline <= due
    <3>1. u \in Tasks /\ cycle[u] \in Nat /\ due \in Nat
      BY SchedulerAssumption DEF TypeOK
    <3>2. deadline \in Nat /\ deadline <= cycle[u] /\ deadline # Forever
      BY <2>3, SchedulerAssumption DEF TypeOK
    <3> QED BY <2>5, <3>1, <3>2
  <2> QED BY <2>1, <2>3, <2>6 DEF TypeOK
<1>2. CASE LockAndWait
  <2>1. CASE eventList = {}
    BY <2>1, <1>2 DEF LockAndWait
  <2>2. CASE eventList # {}
    <3>1. PICK t \in Tops : deadline' = cycle[t]
      BY <2>2, <1>2 DEF LockAndWait
    <3>2. deadline' \in Nat /\ deadline' # Forever
      BY <3>1, SchedulerAssumption DEF Tops, TypeOK
    <3> QED BY <3>1, <3>2, <1>2 DEF LockAndWait, Tops
  <2> QED BY <2>1, <2>2
<1>3. ASSUME NEW c \in Clients, SendSignal(c)
      PROVE  FALSE
  BY <1>3 DEF SendSignal, NotifyOne, TypeOK
<1>4. CASE ShutdownNotify
  BY <1>4 DEF ShutdownNotify, NotifyOne, TypeOK
<1>5. CASE ShutdownClear
  BY <1>5 DEF ShutdownClear
<1>6. CASE \/ Stop \/ ShutdownState \/ Tick
           \/ \E c \in Clients, t \in Tasks : RejectEvent(c, t)
           \/ \E c \in Clients, id \in 1..MaxEventId : StopEvent(c, id)
  <2>1. UNCHANGED <<pc, notified, signal, eventList, deadline, cycle>>
    BY <1>6 DEF Stop, ShutdownState, Tick, RejectEvent, StopEvent
  <2> QED BY <2>1 DEF SleepsUntilEarliest
<1>7. CASE UNCHANGED vars
  BY <1>7 DEF vars, SleepsUntilEarliest
<1>8. CASE CheckState \/ WakeIdle \/ WakeStopped \/ WakeDue \/ HandOver
  BY <1>8 DEF CheckState, WakeIdle, WakeStopped, WakeDue, HandOver
<1> QED BY <1>1, <1>2, <1>3, <1>4, <1>5, <1>6, <1>7, <1>8
        DEF Next, Thread, Caller, Shutdown

\* No wake-up is lost: a sleeping thread to which no caller owes a notify_one sleeps
\* no longer than until its earliest event.
THEOREM NoLostWakeup == Spec => []SleepsUntilEarliest
<1>1. Init => SleepsUntilEarliest
  BY DEF Init, SleepsUntilEarliest
<1> QED BY <1>1, InductiveInv, WakeUpStep, PTL DEF Spec

-----------------------------------------------------------------------------
(* Refinement of TimerService                                              *)

LEMMA TimerInit == Init => TS!Init
BY SchedulerAssumption DEF Init, TS!Init, TimerOf

\* A step that changes the status of one timer at most is a step of the service.
LEMMA TimerArm ==
  ASSUME IInv, NEW c \in Clients, NEW t \in Tasks, NEW at \in 0..MaxTime,
         AddEvent(c, t, at)
  PROVE  TS!Arm(t, at)
<1>1. /\ t \notin added /\ added' = added \cup {t} /\ eventList' = eventList \cup {t}
      /\ UNCHANGED <<handed, stopped, current, now>>
      /\ cycle' = [cycle EXCEPT ![t] = at]
  BY DEF AddEvent, threadVars
<1>2. t \notin handed /\ t \notin stopped /\ t \notin eventList /\ t # current
  BY <1>1, SchedulerAssumption DEF IInv, QueueInv
<1>3. TimerOf(t) = "idle" /\ TimerOf(t)' = "pending"
  <2>1. TimerOf(t) = "idle"
    BY <1>1, <1>2 DEF TimerOf
  <2>2. TimerOf(t)' = "pending"
    <3>1. t \in eventList' /\ t \notin (handed \cup {current})' /\ t \notin stopped'
      BY <1>1, <1>2
    <3> QED BY <3>1 DEF TimerOf
  <2> QED BY <2>1, <2>2
<1>4. \A u \in Tasks : u # t => TimerOf(u)' = TimerOf(u)
  BY <1>1 DEF TimerOf
<1> QED BY <1>1, <1>3, <1>4 DEF TS!Arm

LEMMA TimerRefuse ==
  ASSUME IInv, NEW c \in Clients, NEW t \in Tasks, RejectEvent(c, t)
  PROVE  TS!Refuse(t)
<1>1. /\ t \notin added /\ added' = added \cup {t}
      /\ UNCHANGED <<handed, stopped, current, now, cycle, eventList>>
  BY DEF RejectEvent, threadVars, queueVars
<1>2. t \notin handed /\ t \notin stopped /\ t \notin eventList /\ t # current
  BY <1>1, SchedulerAssumption DEF IInv, QueueInv
<1>3. TimerOf(t) = "idle" /\ TimerOf(t)' = "discarded"
  BY <1>1, <1>2 DEF TimerOf
<1>4. \A u \in Tasks : u # t => TimerOf(u)' = TimerOf(u)
  BY <1>1 DEF TimerOf
<1> QED BY <1>1, <1>3, <1>4 DEF TS!Refuse

LEMMA TimerCancel ==
  ASSUME IInv, NEW c \in Clients, NEW id \in 1..MaxEventId, StopEvent(c, id)
  PROVE  \E t \in Tasks : TS!Cancel(t)
<1>1. PICK t \in eventList : eventId[t] = id
  BY DEF StopEvent, IInv, ActiveIdsAreQueued
<1>2. /\ stopped' = stopped \cup {t}
      /\ UNCHANGED <<handed, current, now, cycle, eventList, added>>
  BY <1>1 DEF StopEvent, IInv, IdsAreUnique, QueueInv, TypeOK, threadVars
<1>3. t \in Tasks /\ t \notin handed \cup {current} /\ t \notin stopped
  BY <1>1 DEF StopEvent, IInv, QueueInv, TypeOK
<1>4. TimerOf(t) = "pending" /\ TimerOf(t)' = "cancelled"
  <2>1. TimerOf(t) = "pending"
    BY <1>1, <1>3 DEF TimerOf
  <2>2. TimerOf(t)' = "cancelled"
    <3>1. t \notin (handed \cup {current})' /\ t \in stopped'
      BY <1>2, <1>3
    <3> QED BY <3>1 DEF TimerOf
  <2> QED BY <2>1, <2>2
<1>5. \A u \in Tasks : u # t => TimerOf(u)' = TimerOf(u)
  BY <1>2 DEF TimerOf
<1> QED BY <1>2, <1>3, <1>4, <1>5 DEF TS!Cancel

LEMMA TimerFire ==
  ASSUME IInv, WakeDue
  PROVE  \E t \in Tasks : TS!Fire(t)
<1>1. PICK t \in Tops : /\ eventId[t] \in eventIds
                        /\ eventList' = eventList \ {t}
                        /\ current' = t
  BY DEF WakeDue
<1>2. UNCHANGED <<handed, stopped, added, now, cycle>>
  BY DEF WakeDue, history
<1>3. /\ t \in Tasks /\ t \in eventList /\ t \notin stopped /\ t \notin handed
      /\ current = NoTask /\ t # NoTask
  BY <1>1, SchedulerAssumption DEF WakeDue, Tops, IInv, TypeOK, QueueInv
<1>4. cycle[t] <= now
  <2>1. PICK u \in eventList : cycle[u] <= deadline
    BY <1>3 DEF IInv, TimeoutMeansDue, WakeDue, TimedOut
  <2>2. cycle[t] <= cycle[u] /\ deadline <= now
    BY <1>1, <2>1 DEF Tops, WakeDue, TimedOut
  <2>3. /\ cycle[t] \in Nat /\ cycle[u] \in Nat /\ now \in Nat /\ deadline \in Nat
    BY <1>3, SchedulerAssumption DEF IInv, TypeOK, WakeDue, TimedOut
  <2> QED BY <2>1, <2>2, <2>3
<1>5. TimerOf(t) = "pending" /\ TimerOf(t)' = "fired"
  <2>1. t \notin handed \cup {current}
    BY <1>3
  <2>2. TimerOf(t) = "pending"
    BY <2>1, <1>3 DEF TimerOf
  <2>3. TimerOf(t)' = "fired"
    BY <1>1 DEF TimerOf
  <2> QED BY <2>2, <2>3
<1>6. \A u \in Tasks : u # t => TimerOf(u)' = TimerOf(u)
  BY <1>1, <1>2, <1>3, SchedulerAssumption DEF TimerOf
<1> QED BY <1>2, <1>3, <1>4, <1>5, <1>6 DEF TS!Fire

LEMMA TimerDiscard ==
  ASSUME IInv, ShutdownClear
  PROVE  TS!DiscardAll
<1>1. /\ eventList' = {}
      /\ UNCHANGED <<handed, stopped, added, current, now, cycle>>
  BY DEF ShutdownClear, threadVars, history
<1>2. \A t \in Tasks : TimerOf(t)' = IF TimerOf(t) = "pending" THEN "discarded"
                                     ELSE TimerOf(t)
  BY <1>1 DEF TimerOf, IInv, QueueInv
<1> QED BY <1>1, <1>2 DEF TS!DiscardAll

\* A stopped event that is deleted, the hand-over and the control of the thread do
\* not show: the timer was cancelled, or had fired, when the lock was held.
LEMMA TimerStutter ==
  ASSUME IInv,
         \/ CheckState \/ LockAndWait \/ WakeIdle \/ WakeStopped \/ HandOver
         \/ \E c \in Clients : SendSignal(c)
         \/ Stop \/ ShutdownState \/ ShutdownNotify \/ UNCHANGED vars
  PROVE  UNCHANGED TS!vars
<1> SUFFICES /\ \A t \in Tasks : TimerOf(t)' = TimerOf(t)
             /\ UNCHANGED <<cycle, now>>
  BY DEF TS!vars
<1>1. CASE \/ CheckState \/ LockAndWait \/ WakeIdle
           \/ \E c \in Clients : SendSignal(c)
           \/ Stop \/ ShutdownState \/ ShutdownNotify \/ UNCHANGED vars
  <2>1. UNCHANGED <<eventList, handed, stopped, added, current, cycle, now>>
    BY <1>1 DEF CheckState, LockAndWait, WakeIdle, SendSignal, Stop, ShutdownState,
                ShutdownNotify, vars, queueVars, threadVars, history
  <2> QED BY <2>1 DEF TimerOf
<1>2. CASE HandOver
  <2>1. /\ handed' = handed \cup {current} /\ current' = NoTask
        /\ UNCHANGED <<eventList, stopped, added, cycle, now>>
    BY <1>2 DEF HandOver, queueVars
  <2> QED BY <2>1, SchedulerAssumption DEF TimerOf
<1>3. CASE WakeStopped
  <2>1. PICK t \in Tops : eventId[t] \notin eventIds /\ eventList' = eventList \ {t}
    BY <1>3 DEF WakeStopped
  <2>2. UNCHANGED <<handed, stopped, added, current, cycle, now>>
    BY <1>3 DEF WakeStopped, history
  <2>3. t \in Tasks /\ t \in eventList /\ t \notin handed \cup {current}
    BY <2>1 DEF Tops, IInv, TypeOK, QueueInv
  <2>4. t \in stopped
    BY <2>1, <2>3 DEF IInv, QueueInv
  <2> QED BY <2>1, <2>2, <2>4 DEF TimerOf
<1> QED BY <1>1, <1>2, <1>3

LEMMA TimerStep == IInv /\ [Next]_vars => [TS!Next]_TS!vars
<1> SUFFICES ASSUME IInv, [Next]_vars PROVE TS!Next \/ UNCHANGED TS!vars
  OBVIOUS
<1>1. CASE Tick
  <2>1. UNCHANGED <<eventList, handed, stopped, added, current, cycle>>
        /\ now < MaxTime /\ now' = now + 1
    BY <1>1 DEF Tick, queueVars, threadVars, history
  <2>2. \A t \in Tasks : TimerOf(t)' = TimerOf(t)
    BY <2>1 DEF TimerOf
  <2> QED BY <2>1, <2>2 DEF TS!Tick, TS!Next
<1>2. ASSUME NEW c \in Clients, Caller(c) PROVE TS!Next \/ UNCHANGED TS!vars
  BY <1>2, TimerArm, TimerRefuse, TimerCancel, TimerStutter DEF Caller, TS!Next
<1>3. CASE Thread
  BY <1>3, TimerFire, TimerStutter DEF Thread, TS!Next
<1>4. CASE Stop \/ Shutdown
  BY <1>4, TimerDiscard, TimerStutter DEF Shutdown, TS!Next
<1> QED BY <1>1, <1>2, <1>3, <1>4, TimerStutter DEF Next

\* The scheduler implements the timer service: no event fires early, fires twice, or
\* fires after it was stopped or discarded.
THEOREM Refinement == Spec => ImplementsTimerService
BY TimerInit, TimerStep, InductiveInv, PTL DEF Spec, TS!Spec, ImplementsTimerService
=============================================================================
