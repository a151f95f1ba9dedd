-------------------------- MODULE DispatcherProofs --------------------------
(***************************************************************************)
(* Proofs about Dispatcher, for any tasks and any number of callers: IInv  *)
(* is inductive, back tasks begin in the order of their acceptance, and    *)
(* nothing accepted before shutdown is left behind when the thread ends.   *)
(***************************************************************************)
EXTENDS Dispatcher, FiniteSetTheorems, SequenceTheorems, TLAPS

LEMMA ListFacts ==
  ASSUME TypeOK
  PROVE  /\ Len(taskList) \in Nat
         /\ DOMAIN taskList = 1..Len(taskList)
         /\ \A i \in 1..Len(taskList) : taskList[i] \in Queueable
         /\ Queued \subseteq Queueable
         /\ taskList # <<>> => Len(taskList) >= 1
<1>1. taskList \in Seq(Queueable)
  BY DEF TypeOK
<1>2. Len(taskList) \in Nat /\ DOMAIN taskList = 1..Len(taskList)
  BY <1>1, LenProperties
<1>3. \A i \in 1..Len(taskList) : taskList[i] \in Queueable
  BY <1>1, ElementOfSeq
<1>4. taskList # <<>> => Len(taskList) >= 1
  BY <1>1, EmptySeq
<1> QED BY <1>2, <1>3, <1>4 DEF Queued

LEMMA TicketCount ==
  ASSUME TypeOK
  PROVE  IsFiniteSet(Accepted) /\ Cardinality(Accepted) \in Nat
<1>1. IsFiniteSet(Queueable)
  BY FS_AddElement, DispatcherAssumption DEF Queueable
<1>2. Accepted \subseteq Queueable
  BY DEF Accepted
<1>3. IsFiniteSet(Accepted)
  BY <1>1, <1>2, FS_Subset
<1> QED BY <1>3, FS_CardinalityType

\* The ticket a task gets at its acceptance is larger than all earlier ones.
LEMMA NewTicket ==
  ASSUME IInv, NEW t \in Queueable, t \notin Accepted,
         ticket' = [ticket EXCEPT ![t] = NextTicket]
  PROVE  /\ ticket' \in [Queueable -> Nat]
         /\ Accepted' = Accepted \cup {t}
         /\ \A u \in Queueable : u # t => ticket'[u] = ticket[u] /\ ticket'[u] < ticket'[t]
         /\ Tickets'
<1>1. IsFiniteSet(Accepted) /\ Cardinality(Accepted) \in Nat
  BY TicketCount DEF IInv
<1>2. ticket \in [Queueable -> Nat] /\ Tickets
  BY DEF IInv, TypeOK
<1>3. /\ ticket'[t] = Cardinality(Accepted) + 1
      /\ \A u \in Queueable : u # t => ticket'[u] = ticket[u]
      /\ ticket' \in [Queueable -> Nat]
  BY <1>1, <1>2 DEF NextTicket
<1>4. Accepted' = Accepted \cup {t}
  <2>1. ticket'[t] # 0
    BY <1>1, <1>3
  <2>2. \A u \in Queueable : ticket'[u] # 0 <=> ticket[u] # 0 \/ u = t
    BY <2>1, <1>3
  <2> QED BY <2>2 DEF Accepted
<1>5. Cardinality(Accepted') = Cardinality(Accepted) + 1
  BY <1>1, <1>4, FS_AddElement
<1>6. \A u \in Queueable : ticket[u] <= Cardinality(Accepted)
  BY <1>2 DEF Tickets
<1>7. \A u \in Queueable : u # t => ticket'[u] < ticket'[t]
  BY <1>1, <1>2, <1>3, <1>6
<1>8. Tickets'
  <2>1. \A u \in Queueable : ticket'[u] <= Cardinality(Accepted')
    BY <1>1, <1>2, <1>3, <1>5, <1>6
  <2>2. \A u, v \in Accepted' : ticket'[u] = ticket'[v] => u = v
    <3> SUFFICES ASSUME NEW u \in Accepted', NEW v \in Accepted', ticket'[u] = ticket'[v]
                 PROVE  u = v
      OBVIOUS
    <3>1. u \in Queueable /\ v \in Queueable
      BY <1>4 DEF Accepted
    <3>2. CASE u # t /\ v # t
      BY <3>1, <3>2, <1>2, <1>3, <1>4 DEF Tickets
    <3>3. CASE u = t \/ v = t
      BY <3>1, <3>3, <1>3, <1>7
    <3> QED BY <3>2, <3>3
  <2> QED BY <2>1, <2>2 DEF Tickets
<1> QED BY <1>3, <1>4, <1>7, <1>8

\* A push at either end keeps the order of the list.
LEMMA Enqueue ==
  ASSUME IInv, NEW t \in Queueable, t \notin Accepted \cup dropped,
         taskList' = Push(t), ticket' = [ticket EXCEPT ![t] = NextTicket],
         UNCHANGED <<current, dropped, ran, expired>>
  PROVE  /\ taskList' \in Seq(Queueable) /\ taskList' # <<>>
         /\ ticket' \in [Queueable -> Nat]
         /\ Placement' /\ Tickets' /\ ListOrder' /\ BegunFirst' /\ TimedInFront'
<1>1. /\ ticket' \in [Queueable -> Nat]
      /\ Accepted' = Accepted \cup {t}
      /\ \A u \in Queueable : u # t => ticket'[u] = ticket[u] /\ ticket'[u] < ticket'[t]
      /\ Tickets'
  BY NewTicket
<1>2. /\ Len(taskList) \in Nat
      /\ DOMAIN taskList = 1..Len(taskList)
      /\ \A i \in 1..Len(taskList) : taskList[i] \in Queueable
  BY ListFacts DEF IInv
<1>3. taskList \in Seq(Queueable)
  BY DEF IInv, TypeOK
<1>4. \A i \in 1..Len(taskList) : taskList[i] \in Accepted /\ taskList[i] # t
  BY <1>2 DEF IInv, Placement, Queued
<1>5. Begun' = Begun /\ t \notin Begun \ {NoTask} /\ t # NoTask
  BY DispatcherAssumption DEF Begun, IInv, Placement
<1>6. \A u \in Begun : u # NoTask => u \in Queueable /\ u \in Accepted
  BY DEF IInv, Placement, Accepted
<1> DEFINE n == Len(taskList)
<1>7. CASE t \in Timed
  <2>1. /\ taskList' \in Seq(Queueable)
        /\ Len(taskList') = n + 1
        /\ taskList'[1] = t
        /\ \A i \in 2..n + 1 : taskList'[i] = taskList[i - 1]
    <3>1. <<t>> \in Seq(Queueable) /\ Len(<<t>>) = 1 /\ <<t>>[1] = t
      OBVIOUS
    <3>2. taskList' = <<t>> \o taskList
      BY <1>7 DEF Push
    <3>3. /\ <<t>> \o taskList \in Seq(Queueable)
          /\ Len(<<t>> \o taskList) = Len(<<t>>) + n
          /\ \A i \in 1..Len(<<t>>) + n :
               (<<t>> \o taskList)[i] = IF i <= Len(<<t>>) THEN <<t>>[i]
                                        ELSE taskList[i - Len(<<t>>)]
      BY <1>3, <3>1, ConcatProperties
    <3> HIDE DEF n
    <3>4. n \in Nat
      BY <1>2 DEF n
    <3> QED BY <3>1, <3>2, <3>3, <3>4
  <2>2. DOMAIN taskList' = 1..n + 1 /\ taskList' # <<>>
    <3>1. DOMAIN taskList' = 1..n + 1
      BY <2>1, LenProperties
    <3>2. Len(<<>>) = 0
      BY EmptySeq
    <3> QED BY <3>1, <3>2, <2>1, <1>2
  <2>3. Queued' = Queued \cup {t}
    <3>1. Queued' = {taskList'[i] : i \in 1..n + 1}
      BY <2>2 DEF Queued
    <3>2. Queued = {taskList[i] : i \in 1..n}
      BY <1>2 DEF Queued
    <3>3. \A i \in 2..n + 1 : taskList'[i] \in Queued
      <4> SUFFICES ASSUME NEW i \in 2..n + 1 PROVE taskList[i - 1] \in Queued
        BY <2>1
      <4>1. i - 1 \in 1..n
        BY <1>2
      <4> QED BY <4>1, <3>2
    <3>4. \A i \in 1..n + 1 : i = 1 \/ i \in 2..n + 1
      BY <1>2
    <3>5. Queued' \subseteq Queued \cup {t}
      BY <3>1, <3>3, <3>4, <2>1
    <3>6. \A i \in 1..n : i + 1 \in 1..n + 1 /\ taskList'[i + 1] = taskList[i]
      BY <2>1, <1>2
    <3>7. Queued \subseteq Queued'
      BY <3>1, <3>2, <3>6
    <3>8. 1 \in 1..n + 1
      BY <1>2
    <3>9. t \in Queued'
      BY <3>1, <3>8, <2>1
    <3> QED BY <3>5, <3>7, <3>9
  <2>4. Placement'
    <3>1. \A i, j \in 1..n + 1 : taskList'[i] = taskList'[j] => i = j
      <4>1. \A i \in 2..n + 1 : i - 1 \in 1..n
        BY <1>2
      <4>2. \A i \in 2..n + 1 : taskList'[i] # t
        BY <2>1, <1>4, <4>1
      <4>3. \A i, j \in 2..n + 1 : taskList'[i] = taskList'[j] => i - 1 = j - 1
        BY <2>1, <1>2, <4>1 DEF IInv, Placement
      <4> QED BY <2>1, <1>2, <4>2, <4>3
    <3> QED BY <3>1, <2>2, <2>3, <1>1, <1>5 DEF Placement, IInv
  <2>5. ListOrder'
    <3> SUFFICES ASSUME NEW i \in 1..n + 1, NEW j \in 1..n + 1, i < j,
                        taskList'[i] \notin Timed
                 PROVE  ticket'[taskList'[i]] < ticket'[taskList'[j]]
      BY <2>2 DEF ListOrder
    <3>1. i # 1
      BY <2>1, <1>7
    <3>2. i - 1 \in 1..n /\ j - 1 \in 1..n /\ i - 1 < j - 1
      BY <3>1, <1>2
    <3>3. taskList'[i] = taskList[i - 1] /\ taskList'[j] = taskList[j - 1]
      BY <2>1, <1>2, <3>1
    <3>4. ticket[taskList[i - 1]] < ticket[taskList[j - 1]]
      BY <3>2, <3>3, <1>2 DEF IInv, ListOrder
    <3> QED BY <3>2, <3>3, <3>4, <1>1, <1>2, <1>4
  <2>6. BegunFirst'
    <3> SUFFICES ASSUME NEW u \in Begun \ Timed, u # NoTask, NEW i \in 1..n + 1,
                        taskList'[i] \notin Timed \/ u = ExitTask
                 PROVE  ticket'[u] < ticket'[taskList'[i]]
      BY <2>2, <1>5 DEF BegunFirst
    <3>1. u \in Queueable /\ u # t
      BY <1>5, <1>6
    <3>2. CASE i = 1
      BY <3>1, <3>2, <2>1, <1>1
    <3>3. CASE i # 1
      <4>1. i - 1 \in 1..n /\ taskList'[i] = taskList[i - 1]
        BY <3>3, <2>1, <1>2
      <4>2. ticket[u] < ticket[taskList[i - 1]]
        BY <4>1, <1>2 DEF IInv, BegunFirst
      <4> QED BY <4>1, <4>2, <3>1, <1>1, <1>2, <1>4
    <3> QED BY <3>2, <3>3
  <2>7. TimedInFront'
    <3> SUFFICES ASSUME NEW i \in 1..n + 1, NEW j \in 1..n + 1, i < j,
                        taskList'[j] \in Timed, i # 1
                 PROVE  taskList'[i] \in Timed
      BY <2>1, <2>2, <1>7 DEF TimedInFront
    <3>1. i - 1 \in 1..n /\ j - 1 \in 1..n /\ i - 1 < j - 1
      BY <1>2
    <3>2. taskList'[i] = taskList[i - 1] /\ taskList'[j] = taskList[j - 1]
      BY <2>1, <1>2
    <3> QED BY <3>1, <3>2, <1>2 DEF IInv, TimedInFront
  <2> QED BY <1>1, <2>1, <2>2, <2>4, <2>5, <2>6, <2>7
<1>8. CASE t \notin Timed
  <2>1. /\ taskList' \in Seq(Queueable) /\ taskList' # <<>>
        /\ Len(taskList') = n + 1
        /\ taskList'[n + 1] = t
        /\ \A i \in 1..n : taskList'[i] = taskList[i]
    BY <1>3, <1>8, AppendProperties DEF Push
  <2>2. DOMAIN taskList' = 1..n + 1
    BY <2>1, LenProperties
  <2>3. Queued' = Queued \cup {t}
    <3>1. 1..n + 1 = (1..n) \cup {n + 1}
      BY <1>2
    <3>2. Queued' = {taskList'[i] : i \in 1..n + 1}
      BY <2>2 DEF Queued
    <3> QED BY <3>1, <3>2, <2>1, <1>2 DEF Queued
  <2>4. Placement'
    <3>1. \A i, j \in 1..n + 1 : taskList'[i] = taskList'[j] => i = j
      <4>1. \A i \in 1..n + 1 : i \in 1..n \/ i = n + 1
        BY <1>2
      <4>2. \A i, j \in 1..n : taskList'[i] = taskList'[j] => i = j
        BY <2>1, <1>2 DEF IInv, Placement
      <4>3. \A i \in 1..n : taskList'[i] # t
        BY <2>1, <1>4
      <4> QED BY <4>1, <4>2, <4>3, <2>1
    <3> QED BY <3>1, <2>2, <2>3, <1>1, <1>5 DEF Placement, IInv
  <2>5. ListOrder'
    <3> SUFFICES ASSUME NEW i \in 1..n + 1, NEW j \in 1..n + 1, i < j,
                        taskList'[i] \notin Timed
                 PROVE  ticket'[taskList'[i]] < ticket'[taskList'[j]]
      BY <2>2 DEF ListOrder
    <3>1. i \in 1..n /\ taskList'[i] = taskList[i] /\ (j \in 1..n \/ j = n + 1)
      BY <2>1, <1>2
    <3>2. CASE j \in 1..n
      <4>1. ticket[taskList[i]] < ticket[taskList[j]]
        BY <3>1, <3>2, <1>2 DEF IInv, ListOrder
      <4> QED BY <4>1, <3>1, <3>2, <2>1, <1>1, <1>2, <1>4
    <3>3. CASE j = n + 1
      BY <3>1, <3>3, <2>1, <1>1, <1>2, <1>4
    <3> QED BY <3>1, <3>2, <3>3
  <2>6. BegunFirst'
    <3> SUFFICES ASSUME NEW u \in Begun \ Timed, u # NoTask, NEW i \in 1..n + 1,
                        taskList'[i] \notin Timed \/ u = ExitTask
                 PROVE  ticket'[u] < ticket'[taskList'[i]]
      BY <2>2, <1>5 DEF BegunFirst
    <3>1. u \in Queueable /\ u # t
      BY <1>5, <1>6
    <3>2. CASE i = n + 1
      BY <3>1, <3>2, <2>1, <1>1
    <3>3. CASE i \in 1..n
      <4>1. ticket[u] < ticket[taskList[i]]
        BY <3>3, <2>1, <1>2 DEF IInv, BegunFirst
      <4> QED BY <4>1, <3>1, <3>3, <2>1, <1>1, <1>2, <1>4
    <3> QED BY <3>2, <3>3, <1>2
  <2>7. TimedInFront'
    <3> SUFFICES ASSUME NEW i \in 1..n + 1, NEW j \in 1..n + 1, i < j,
                        taskList'[j] \in Timed
                 PROVE  taskList'[i] \in Timed
      BY <2>2 DEF TimedInFront
    <3>1. i \in 1..n /\ j \in 1..n
      BY <2>1, <1>2, <1>8
    <3> QED BY <3>1, <2>1, <1>2 DEF IInv, TimedInFront
  <2> QED BY <1>1, <2>1, <2>4, <2>5, <2>6, <2>7
<1> QED BY <1>7, <1>8

\* Taking the first task keeps the order of the rest behind it.
LEMMA Dequeue ==
  ASSUME IInv, taskList # <<>>, current = NoTask,
         current' = Head(taskList), taskList' = Tail(taskList),
         UNCHANGED <<ticket, dropped, ran, expired>>
  PROVE  /\ current' \in Queueable /\ taskList' \in Seq(Queueable)
         /\ Placement' /\ ListOrder' /\ BegunFirst' /\ TimedInFront'
<1> DEFINE n == Len(taskList)  h == taskList[1]
<1>1. taskList \in Seq(Queueable)
  BY DEF IInv, TypeOK
<1>2. /\ n \in Nat /\ n >= 1
      /\ DOMAIN taskList = 1..n
      /\ \A i \in 1..n : taskList[i] \in Queueable
  BY ListFacts DEF IInv
<1>3. current' = h /\ 1 \in 1..n /\ h \in Queueable
  BY <1>2
<1>4. /\ taskList' \in Seq(Queueable)
      /\ Len(taskList') = n - 1
      /\ \A i \in 1..n - 1 : taskList'[i] = taskList[i + 1]
  BY <1>1, HeadTailProperties
<1>5. DOMAIN taskList' = 1..n - 1
  BY <1>4, LenProperties
<1>6. \A i \in 1..n - 1 : i + 1 \in 1..n /\ i + 1 > 1 /\ taskList'[i] = taskList[i + 1]
  BY <1>2, <1>4
<1>7. \A i, j \in 1..n : taskList[i] = taskList[j] => i = j
  BY <1>2 DEF IInv, Placement
<1> HIDE DEF n, h
<1>8. Queued = {taskList[i] : i \in 1..n}
  BY <1>2 DEF Queued
<1>9. Queued' = Queued \ {h}
  <2>1. Queued' = {taskList'[i] : i \in 1..n - 1}
    BY <1>5 DEF Queued
  <2>2. \A i \in 1..n - 1 : taskList[i + 1] \in Queued \ {h}
    BY <1>3, <1>6, <1>7, <1>8 DEF h
  <2>3. \A i \in 1..n : i = 1 \/ (i - 1 \in 1..n - 1 /\ taskList'[i - 1] = taskList[i])
    <3> SUFFICES ASSUME NEW i \in 1..n, i # 1
                 PROVE  i - 1 \in 1..n - 1 /\ taskList'[i - 1] = taskList[i]
      OBVIOUS
    <3>1. i - 1 \in 1..n - 1 /\ (i - 1) + 1 = i
      BY <1>2
    <3> QED BY <3>1, <1>6
  <2>4. Queued' \subseteq Queued \ {h}
    BY <2>1, <2>2, <1>6
  <2>5. Queued \ {h} \subseteq Queued'
    <3> SUFFICES ASSUME NEW i \in 1..n, taskList[i] # h PROVE taskList[i] \in Queued'
      BY <1>8
    <3>1. i # 1
      BY DEF h
    <3> QED BY <3>1, <2>1, <2>3
  <2> QED BY <2>4, <2>5
<1>10. Begun' = Begun \cup {h} \/ Begun' = (Begun \ {NoTask}) \cup {h}
  BY <1>3 DEF Begun
<1>11. h \in Queued /\ h # NoTask /\ h \notin Begun /\ Accepted' = Accepted
  BY <1>3, <1>8, DispatcherAssumption DEF h, IInv, Placement, Accepted
<1>12. Placement'
  <2>1. \A i, j \in 1..n - 1 : taskList'[i] = taskList'[j] => i = j
    <3> SUFFICES ASSUME NEW i \in 1..n - 1, NEW j \in 1..n - 1,
                        taskList[i + 1] = taskList[j + 1]
                 PROVE  i = j
      BY <1>6
    <3>1. i + 1 = j + 1
      BY <1>6, <1>7
    <3> QED BY <3>1, <1>2
  <2> QED BY <2>1, <1>3, <1>5, <1>9, <1>11 DEF Placement, IInv, Begun
<1>13. ListOrder'
  BY <1>2, <1>5, <1>6 DEF ListOrder, IInv
<1>14. TimedInFront'
  BY <1>2, <1>5, <1>6 DEF TimedInFront, IInv
<1>15. BegunFirst'
  <2> SUFFICES ASSUME NEW u \in Begun' \ Timed, u # NoTask, NEW i \in 1..n - 1,
                      taskList[i + 1] \notin Timed \/ u = ExitTask
               PROVE  ticket[u] < ticket[taskList[i + 1]]
    BY <1>5, <1>6 DEF BegunFirst
  <2>1. CASE u = h
    BY <2>1, <1>2, <1>3, <1>6 DEF h, IInv, ListOrder
  <2>2. CASE u # h
    BY <2>2, <1>2, <1>6, <1>10 DEF IInv, BegunFirst
  <2> QED BY <2>1, <2>2
<1> QED BY <1>3, <1>4, <1>12, <1>13, <1>14, <1>15

LEMMA InitInv == Init => IInv
<1> SUFFICES ASSUME Init PROVE IInv
  OBVIOUS
<1>1. <<>> \in Seq(Queueable) /\ DOMAIN taskList = {} /\ Queued = {} /\ Accepted = {}
  BY DEF Init, Queued, Accepted
<1>2. TypeOK
  <2>1. 0 \in 0..MaxTime
    BY DispatcherAssumption
  <2>2. taskList \in Seq(Queueable)
    BY <1>1 DEF Init
  <2> QED BY <2>1, <2>2 DEF Init, TypeOK, ThreadState, PC
<1>3. Placement
  BY <1>1 DEF Init, Placement, Begun
<1>4. Tickets
  BY <1>1, FS_EmptySet DEF Init, Tickets
<1>5. ListOrder /\ TimedInFront
  BY <1>1 DEF ListOrder, TimedInFront
<1>6. BegunFirst
  BY <1>1 DEF BegunFirst
<1>7. NoExpirationKept
  BY DEF Init, NoExpirationKept, Queueable, Tasks
<1> QED BY <1>2, <1>3, <1>4, <1>5, <1>6, <1>7
        DEF Init, IInv, NoLostWakeup, TimedNeverExpire, ExitBeforeEnd

LEMMA AddTaskInv ==
  ASSUME IInv, NEW c \in Clients, NEW t \in Tasks,
         NEW e \in (0..MaxTime) \cup {NoExpiration}, AddTask(c, t, e)
  PROVE  IInv'
<1> USE DEF AddTask, Queueable
<1>1. /\ taskList' \in Seq(Queueable) /\ taskList' # <<>>
      /\ ticket' \in [Queueable -> Nat]
      /\ Placement' /\ Tickets' /\ ListOrder' /\ BegunFirst' /\ TimedInFront'
  BY Enqueue
<1>2. TypeOK'
  BY <1>1 DEF IInv, TypeOK, MustSignal
<1>3. NoLostWakeup'
  <2>1. CASE taskList = <<>>
    BY <2>1 DEF NoLostWakeup, MustSignal, IInv, TypeOK
  <2>2. CASE taskList # <<>>
    BY <2>2 DEF NoLostWakeup, MustSignal, IInv, TypeOK
  <2> QED BY <2>1, <2>2
<1>4. NoExpirationKept'
  BY DispatcherAssumption DEF NoExpirationKept, Expirations, IInv, TypeOK
<1> QED BY <1>1, <1>2, <1>3, <1>4 DEF IInv, TimedNeverExpire, ExitBeforeEnd

LEMMA ShutdownInv ==
  ASSUME IInv, Shutdown
  PROVE  IInv'
<1> USE DEF Shutdown
<1>1. ExitTask \in Queueable /\ ExitTask \notin Timed /\ ExitTask \notin Accepted \cup dropped
  BY DispatcherAssumption DEF Queueable, Tasks, Accepted, IInv, TypeOK
<1>2. taskList' = Push(ExitTask)
  BY <1>1 DEF Push
<1>3. /\ taskList' \in Seq(Queueable) /\ taskList' # <<>>
      /\ ticket' \in [Queueable -> Nat]
      /\ Placement' /\ Tickets' /\ ListOrder' /\ BegunFirst' /\ TimedInFront'
  BY <1>1, <1>2, Enqueue
<1>4. TypeOK'
  BY <1>3 DEF IInv, TypeOK, NotifyOne
<1>5. NoLostWakeup'
  BY DEF NoLostWakeup, NotifyOne
<1> QED BY <1>3, <1>4, <1>5
        DEF IInv, NoExpirationKept, TimedNeverExpire, ExitBeforeEnd

LEMMA TakeInv ==
  ASSUME IInv, Take
  PROVE  IInv'
<1> USE DEF Take
<1>1. current = NoTask
  BY DEF IInv, TypeOK
<1>2. /\ current' \in Queueable /\ taskList' \in Seq(Queueable)
      /\ Placement' /\ ListOrder' /\ BegunFirst' /\ TimedInFront'
  BY <1>1, Dequeue
<1>3. TypeOK'
  BY <1>2, DispatcherAssumption DEF IInv, TypeOK, PC
<1>4. Tickets'
  BY DEF IInv, Tickets, Accepted
<1> QED BY <1>2, <1>3, <1>4
        DEF IInv, NoLostWakeup, NoExpirationKept, TimedNeverExpire, ExitBeforeEnd

\* The end of a task: it runs, or it is deleted because it has expired.
LEMMA EndInv ==
  ASSUME IInv, Run \/ Expire
  PROVE  IInv'
<1>1. /\ current \in Queueable /\ pc = "run" /\ pc' = "loop" /\ current' = NoTask
      /\ UNCHANGED <<taskList, expiration, now, notified, signal, ticket, dropped>>
  BY DispatcherAssumption DEF Run, Expire, IInv, TypeOK
<1>2. Begun' = Begun \cup {NoTask}
  BY DEF Run, Expire, Begun
<1>3. Queued' = Queued /\ Accepted' = Accepted
  BY <1>1 DEF Queued, Accepted
<1>4. NoTask \notin Queued /\ NoTask \notin Accepted
  BY ListFacts, DispatcherAssumption DEF Accepted, IInv
<1>5. HasExpired(current) => current \in Tasks /\ current \notin Timed
  BY <1>1 DEF HasExpired, IInv, NoExpirationKept, Queueable
<1>6. current \notin ran \cup expired /\ ran \cap expired = {}
  BY DEF IInv, Placement
<1>7. TypeOK'
  BY <1>1, <1>5 DEF Run, Expire, IInv, TypeOK, ThreadState, PC
<1>8. Placement'
  <2>1. \A i, j \in DOMAIN taskList' : taskList'[i] = taskList'[j] => i = j
    BY <1>1 DEF IInv, Placement
  <2>2. Accepted' = Queued' \cup (Begun' \ {NoTask})
    BY <1>2, <1>3 DEF IInv, Placement
  <2>3. Queued' \cap Begun' = {} /\ dropped' \cap Accepted' = {}
    BY <1>1, <1>2, <1>3, <1>4 DEF IInv, Placement
  <2>4. NoTask \notin ran \cup expired
    BY DispatcherAssumption DEF IInv, TypeOK, Queueable
  <2>5. current' \notin ran' \cup expired' /\ ran' \cap expired' = {}
    BY <2>4, <1>1, <1>6, DispatcherAssumption DEF Run, Expire
  <2> QED BY <2>1, <2>2, <2>3, <2>5 DEF Placement
<1>9. BegunFirst'
  BY <1>1, <1>2 DEF IInv, BegunFirst
<1>10. Tickets' /\ ListOrder' /\ TimedInFront' /\ NoExpirationKept'
  BY <1>1, <1>3 DEF IInv, Tickets, ListOrder, TimedInFront, NoExpirationKept
<1>11. TimedNeverExpire'
  BY <1>5 DEF Run, Expire, IInv, TimedNeverExpire
<1>12. ExitBeforeEnd'
  BY <1>1 DEF Run, Expire, IInv, ExitBeforeEnd
<1> QED BY <1>1, <1>7, <1>8, <1>9, <1>10, <1>11, <1>12 DEF IInv, NoLostWakeup

\* Steps that touch neither the list nor what became of a task.
LEMMA OtherInv ==
  ASSUME IInv, \/ \E c \in Clients : SendSignal(c)
               \/ Stop \/ CheckState \/ Wait \/ WakeIdle \/ Tick \/ UNCHANGED vars
  PROVE  IInv'
<1>1. UNCHANGED <<taskList, expiration, current, ticket, dropped, ran, expired>>
  BY DEF SendSignal, Stop, CheckState, Wait, WakeIdle, Tick, vars
<1>2. /\ Placement' /\ Tickets' /\ ListOrder' /\ BegunFirst' /\ TimedInFront'
      /\ NoExpirationKept' /\ TimedNeverExpire'
  <2>1. Queued' = Queued /\ Accepted' = Accepted /\ Begun' = Begun
    BY <1>1 DEF Queued, Accepted, Begun
  <2> QED BY <2>1, <1>1 DEF IInv, Placement, Tickets, ListOrder, BegunFirst, TimedInFront,
                            NoExpirationKept, TimedNeverExpire
<1>3. TypeOK'
  <2>1. CASE \E c \in Clients : SendSignal(c)
    BY <2>1 DEF SendSignal, NotifyOne, IInv, TypeOK
  <2>2. CASE Stop \/ CheckState \/ Wait \/ WakeIdle
    BY <2>2, <1>1 DEF Stop, CheckState, Wait, WakeIdle, IInv, TypeOK, ThreadState, PC
  <2>3. CASE Tick \/ UNCHANGED vars
    BY <2>3, DispatcherAssumption DEF Tick, vars, IInv, TypeOK
  <2> QED BY <2>1, <2>2, <2>3
<1>4. NoLostWakeup'
  <2>1. CASE \E c \in Clients : SendSignal(c)
    BY <2>1 DEF SendSignal, NotifyOne, IInv, NoLostWakeup
  <2>2. CASE Stop \/ CheckState \/ Wait \/ WakeIdle \/ Tick \/ UNCHANGED vars
    BY <2>2 DEF Stop, CheckState, Wait, WakeIdle, Tick, vars, IInv, NoLostWakeup
  <2> QED BY <2>1, <2>2
<1>5. ExitBeforeEnd'
  BY DEF SendSignal, Stop, CheckState, Wait, WakeIdle, Tick, vars, IInv, ExitBeforeEnd
<1> QED BY <1>2, <1>3, <1>4, <1>5 DEF IInv

LEMMA DropTaskInv ==
  ASSUME IInv, NEW c \in Clients, NEW t \in Tasks, DropTask(c, t)
  PROVE  IInv'
<1> USE DEF DropTask
<1>1. Queued' = Queued /\ Accepted' = Accepted /\ Begun' = Begun
  BY DEF Queued, Accepted, Begun
<1>2. TypeOK'
  BY DEF IInv, TypeOK
<1>3. Placement'
  BY <1>1 DEF IInv, Placement
<1> QED BY <1>1, <1>2, <1>3
        DEF IInv, NoLostWakeup, Tickets, ListOrder, BegunFirst, TimedInFront,
            NoExpirationKept, TimedNeverExpire, ExitBeforeEnd

LEMMA NextInv == IInv /\ [Next]_vars => IInv'
<1> SUFFICES ASSUME IInv, [Next]_vars PROVE IInv'
  OBVIOUS
<1>1. ASSUME NEW c \in Clients, Caller(c) PROVE IInv'
  BY <1>1, AddTaskInv, DropTaskInv, OtherInv DEF Caller
<1>2. CASE Thread
  BY <1>2, TakeInv, EndInv, OtherInv DEF Thread
<1> QED BY <1>1, <1>2, ShutdownInv, OtherInv DEF Next

\* The dispatcher keeps its queue in order at every moment, for every number of
\* tasks and callers.
THEOREM InductiveInv == Spec => []IInv
<1> QED BY InitInv, NextInv, PTL DEF Spec

\* No wake-up is lost between addTask and the wait of threadMain.
THEOREM AlwaysWoken == Spec => []NoLostWakeup
<1>1. IInv => NoLostWakeup
  BY DEF IInv
<1> QED BY <1>1, InductiveInv, PTL

\* The scheduler's tasks are run, however long they were queued (setDontExpire).
THEOREM TimedTasksRun == Spec => []TimedNeverExpire
<1>1. IInv => TimedNeverExpire
  BY DEF IInv
<1> QED BY <1>1, InductiveInv, PTL

LEMMA FifoFromInv == IInv => FifoAtBack
<1> SUFFICES ASSUME IInv, NEW t \in Accepted \ Timed, NEW u \in Accepted \ Timed,
                    ticket[t] < ticket[u], u \in Begun, t \notin Begun
             PROVE  FALSE
  BY DEF FifoAtBack
<1>1. PICK i \in DOMAIN taskList : t = taskList[i]
  BY DEF IInv, Placement, Queued
<1>2. u # NoTask /\ ticket[t] \in Nat /\ ticket[u] \in Nat
  BY DispatcherAssumption DEF Accepted, IInv, TypeOK
<1>3. ticket[u] < ticket[t]
  BY <1>1, <1>2 DEF IInv, BegunFirst
<1> QED BY <1>2, <1>3

\* Tasks added at the back begin in the order of their acceptance.
THEOREM BackIsFifo == Spec => []FifoAtBack
<1> QED BY FifoFromInv, InductiveInv, PTL

LEMMA NothingLeftFromInv == IInv => NothingLeftBehind
<1> SUFFICES ASSUME IInv, pc = "exited", NEW t \in Accepted,
                    ticket[t] < ticket[ExitTask], t \notin ran \cup expired
             PROVE  FALSE
  BY DEF NothingLeftBehind
<1>1. ExitTask \in Begun \ Timed /\ ExitTask # NoTask /\ current = NoTask
  BY DispatcherAssumption DEF IInv, ExitBeforeEnd, TypeOK, Begun, Queueable, Tasks
<1>2. t # NoTask /\ ticket[t] \in Nat /\ ticket[ExitTask] \in Nat
  BY DispatcherAssumption DEF Accepted, IInv, TypeOK, Queueable
<1>3. PICK i \in DOMAIN taskList : t = taskList[i]
  BY <1>1, <1>2 DEF IInv, Placement, Queued, Begun
<1>4. ticket[ExitTask] < ticket[t]
  BY <1>1, <1>3 DEF IInv, BegunFirst
<1> QED BY <1>2, <1>4

\* When the thread ends, every task accepted before shutdown was run or had expired.
THEOREM EndIsClean == Spec => []NothingLeftBehind
<1> QED BY NothingLeftFromInv, InductiveInv, PTL

-----------------------------------------------------------------------------
(* The dispatcher implements a queue of jobs with one worker               *)

Job == [t \in Tasks |-> JobOf(t)]

\* One task moves on and the others stay where they are.
LEMMA OneMoves ==
  ASSUME NEW t \in Tasks, NEW from, NEW to, JobOf(t) = from, JobOf(t)' = to,
         \A u \in Tasks : u # t => JobOf(u)' = JobOf(u)
  PROVE  WQ!Become(t, from, to)
<1>1. Job' = [Job EXCEPT ![t] = to]
  BY DEF Job
<1> QED BY <1>1 DEF WQ!Become, Job

LEMMA NoneMoves ==
  ASSUME \A u \in Tasks : JobOf(u)' = JobOf(u)
  PROVE  Job' = Job
BY DEF Job

LEMMA StepRefines == IInv /\ IInv' /\ [Next]_vars => [WQ!Next]_<<Job, threadState = "RUNNING">>
<1> SUFFICES ASSUME IInv, IInv', [Next]_vars
             PROVE  WQ!Next \/ (Job' = Job /\ UNCHANGED (threadState = "RUNNING"))
  OBVIOUS
<1> USE DEF JobOf
<1>1. \A t \in Tasks : t # NoTask /\ t # ExitTask /\ t \in Queueable
  BY DispatcherAssumption DEF Queueable
<1>2. ran \cup expired \subseteq Accepted /\ dropped \cap Accepted = {}
  BY DispatcherAssumption DEF IInv, Placement, Begun, TypeOK, Queueable
<1>3. ASSUME NEW c \in Clients, NEW t \in Tasks, NEW e \in (0..MaxTime) \cup {NoExpiration},
             AddTask(c, t, e)
      PROVE  WQ!Next
  <2>1. Accepted' = Accepted \cup {t}
    BY <1>1, <1>3, NewTicket DEF AddTask
  <2>2. t # current
    BY <1>1, <1>3 DEF AddTask, IInv, Placement, Begun
  <2>3. JobOf(t) = "new" /\ JobOf(t)' = "queued"
    BY <1>2, <1>3, <2>1, <2>2 DEF AddTask
  <2>4. \A u \in Tasks : u # t => JobOf(u)' = JobOf(u)
    BY <1>3, <2>1 DEF AddTask
  <2>5. WQ!Become(t, "new", "queued")
    BY <2>3, <2>4, OneMoves
  <2> QED BY <2>5, <1>3 DEF AddTask, WQ!Next, WQ!Step, WQ!Accept
<1>4. ASSUME NEW c \in Clients, NEW t \in Tasks, DropTask(c, t)
      PROVE  WQ!Next
  <2>1. Accepted' = Accepted
    BY <1>4 DEF DropTask, Accepted
  <2>2. t # current
    BY <1>1, <1>4 DEF DropTask, IInv, Placement, Begun
  <2>3. JobOf(t) = "new" /\ JobOf(t)' = "refused"
    BY <1>2, <1>4, <2>1, <2>2 DEF DropTask
  <2>4. \A u \in Tasks : u # t => JobOf(u)' = JobOf(u)
    BY <1>4, <2>1 DEF DropTask
  <2>5. WQ!Become(t, "new", "refused")
    BY <2>3, <2>4, OneMoves
  <2> QED BY <2>5, <1>4 DEF DropTask, WQ!Next, WQ!Step, WQ!Refuse
<1>5. CASE Take
  <2>1. current = NoTask /\ Accepted' = Accepted
    BY <1>5 DEF Take, IInv, TypeOK, Accepted
  <2>2. current' \in Queueable /\ current' \in Queued
    <3>1. Len(taskList) >= 1 /\ DOMAIN taskList = 1..Len(taskList) /\ Len(taskList) \in Nat
      BY <1>5, ListFacts DEF Take, IInv
    <3> QED BY <3>1, <1>5, ListFacts DEF Take, Queued, IInv
  <2>3. current' \in Accepted /\ current' \notin ran \cup expired
    BY <2>2 DEF IInv, Placement, Begun
  <2>4. CASE current' = ExitTask
    <3>1. \A u \in Tasks : JobOf(u)' = JobOf(u)
      BY <1>1, <1>5, <2>1, <2>4 DEF Take
    <3> QED BY <3>1, <1>5, NoneMoves DEF Take
  <2>5. CASE current' # ExitTask
    <3> DEFINE h == current'
    <3>1. h \in Tasks
      BY <2>2, <2>5 DEF Queueable
    <3>2. JobOf(h) = "queued"
      BY <1>1, <2>1, <2>3, <3>1
    <3>3. \A u \in Tasks : u = h => JobOf(u)' = "running"
      BY <1>5, <2>3 DEF Take
    <3>4. \A u \in Tasks : u # h => JobOf(u)' = JobOf(u)
      BY <1>1, <1>5, <2>1 DEF Take
    <3>5. \A u \in Tasks : JobOf(u) # "running"
      BY <1>1, <2>1
    <3>6. Job' = [Job EXCEPT ![h] = "running"]
      BY <3>1, <3>3, <3>4 DEF Job
    <3>7. WQ!InProgress = {}
      BY <3>5 DEF WQ!InProgress
    <3>8. WQ!Cardinality(WQ!InProgress) < 1
      BY <3>7, FS_EmptySet DEF WQ!Cardinality, Cardinality
    <3>9. WQ!Become(h, "queued", "running")
      BY <3>1, <3>2, <3>6 DEF WQ!Become, Job
    <3> QED BY <3>1, <3>8, <3>9, <1>5 DEF Take, WQ!Next, WQ!Step, WQ!Begin
  <2> QED BY <2>4, <2>5
<1>6. CASE Run \/ Expire
  <2>1. /\ current \in Queueable /\ current' = NoTask /\ Accepted' = Accepted
        /\ UNCHANGED dropped /\ current \notin ran \cup expired
    BY <1>6, DispatcherAssumption DEF Run, Expire, IInv, TypeOK, Placement, Accepted
  <2>2. CASE current = ExitTask
    <3>1. Run
      BY <1>6, <2>2 DEF Expire, HasExpired, IInv, NoExpirationKept
    <3>2. \A u \in Tasks : JobOf(u)' = JobOf(u)
      BY <3>1, <1>1, <2>1, <2>2 DEF Run
    <3>3. Job' = Job
      BY <3>2, NoneMoves
    <3>4. threadState' = "TERMINATED"
      BY <3>1, <2>2 DEF Run
    <3>5. CASE threadState = "RUNNING"
      BY <3>3, <3>4, <3>5 DEF WQ!Next, WQ!Close, Job
    <3>6. CASE threadState # "RUNNING"
      BY <3>3, <3>4, <3>6
    <3> QED BY <3>5, <3>6
  <2>3. CASE current # ExitTask
    <3>1. current \in Tasks
      BY <2>1, <2>3 DEF Queueable
    <3>2. JobOf(current) = "running"
      BY <2>1
    <3>3. \A u \in Tasks : u # current => JobOf(u)' = JobOf(u)
      BY <1>1, <1>6, <2>1 DEF Run, Expire
    <3>4. CASE Run
      <4>1. \A u \in Tasks : u = current => JobOf(u)' = "done"
        BY <3>4 DEF Run
      <4>2. Job' = [Job EXCEPT ![current] = "done"]
        BY <3>1, <3>3, <4>1 DEF Job
      <4>3. WQ!Become(current, "running", "done")
        BY <3>1, <3>2, <4>2 DEF WQ!Become, Job
      <4> QED BY <4>3, <3>1, <3>4, <2>3 DEF Run, WQ!Next, WQ!Step, WQ!Finish
    <3>5. CASE Expire
      <4>1. \A u \in Tasks : u = current => JobOf(u)' = "skipped"
        BY <3>5, <2>1 DEF Expire
      <4>2. Job' = [Job EXCEPT ![current] = "skipped"]
        BY <3>1, <3>3, <4>1 DEF Job
      <4>3. WQ!Become(current, "running", "skipped")
        BY <3>1, <3>2, <4>2 DEF WQ!Become, Job
      <4> QED BY <4>3, <3>1, <3>5 DEF Expire, WQ!Next, WQ!Step, WQ!Skip
    <3> QED BY <3>4, <3>5, <1>6
  <2> QED BY <2>2, <2>3
<1>7. CASE Shutdown
  <2>1. \A u \in Tasks : u \in Accepted' <=> u \in Accepted
    BY <1>1, <1>7 DEF Shutdown, Accepted, IInv, TypeOK
  <2>2. \A u \in Tasks : JobOf(u)' = JobOf(u)
    BY <1>7, <2>1 DEF Shutdown
  <2> QED BY <2>2, <1>7, NoneMoves DEF Shutdown
<1>8. CASE Stop
  <2>1. \A u \in Tasks : JobOf(u)' = JobOf(u)
    BY <1>8 DEF Stop, Accepted
  <2> QED BY <2>1, <1>8, NoneMoves DEF Stop, WQ!Next, WQ!Close, Job
<1>9. CASE \/ \E c \in Clients : SendSignal(c)
           \/ CheckState \/ Wait \/ WakeIdle \/ Tick \/ UNCHANGED vars
  <2>1. UNCHANGED <<threadState, current, ticket, dropped, ran, expired>>
    BY <1>9 DEF SendSignal, CheckState, Wait, WakeIdle, Tick, vars
  <2>2. \A u \in Tasks : JobOf(u)' = JobOf(u)
    BY <2>1 DEF Accepted
  <2> QED BY <2>1, <2>2, NoneMoves
<1>10. ASSUME NEW c \in Clients, Caller(c)
       PROVE  WQ!Next \/ (Job' = Job /\ UNCHANGED (threadState = "RUNNING"))
  BY <1>3, <1>4, <1>9, <1>10 DEF Caller
<1>11. CASE Thread
  BY <1>5, <1>6, <1>9, <1>11 DEF Thread
<1> QED BY <1>7, <1>8, <1>9, <1>10, <1>11 DEF Next

LEMMA InitRefines == Init => WQ!Init
<1> SUFFICES ASSUME Init PROVE Job = [t \in Tasks |-> "new"] /\ (threadState = "RUNNING") = TRUE
  BY DEF WQ!Init, Job
<1>1. \A t \in Tasks : JobOf(t) = "new"
  BY DispatcherAssumption DEF Init, JobOf, Accepted, Queueable
<1> QED BY <1>1 DEF Job, Init

\* Every behaviour of the dispatcher is one of a queue with a single worker: each task
\* is accepted or refused once, begun at most once, and never two at a time.
THEOREM Refinement == Spec => ImplementsWorkQueue
<1>1. IInv /\ IInv' /\ [Next]_vars => [WQ!Next]_<<Job, threadState = "RUNNING">>
  BY StepRefines
<1> QED BY <1>1, InductiveInv, InitRefines, PTL DEF Spec, ImplementsWorkQueue, WQ!Spec, Job
=============================================================================
