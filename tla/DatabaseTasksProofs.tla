------------------------ MODULE DatabaseTasksProofs -------------------------
(***************************************************************************)
(* Proofs about DatabaseTasks, for any queries and any number of callers:  *)
(* IInv is inductive; queries are overtaken only while a thread holds      *)
(* them, nothing accepted is lost at shutdown, and no query runs twice.    *)
(***************************************************************************)
EXTENDS DatabaseTasks, FiniteSetTheorems, SequenceTheorems, TLAPS

LEMMA ListFacts ==
  ASSUME TypeOK
  PROVE  /\ Len(tasks) \in Nat
         /\ DOMAIN tasks = 1..Len(tasks)
         /\ \A i \in 1..Len(tasks) : tasks[i] \in Queries
         /\ tasks # <<>> => Len(tasks) >= 1
<1>1. tasks \in Seq(Queries)
  BY DEF TypeOK
<1>2. Len(tasks) \in Nat /\ DOMAIN tasks = 1..Len(tasks)
  BY <1>1, LenProperties
<1>3. \A i \in 1..Len(tasks) : tasks[i] \in Queries
  BY <1>1, ElementOfSeq
<1>4. tasks # <<>> => Len(tasks) >= 1
  BY <1>1, EmptySeq
<1> QED BY <1>2, <1>3, <1>4

\* The ticket of a new query is larger than all earlier ones.
LEMMA NewTicket ==
  ASSUME IInv, NEW q \in Queries, q \notin Accepted,
         ticket' = [ticket EXCEPT ![q] = NextTicket]
  PROVE  /\ ticket' \in [Queries -> Nat]
         /\ Accepted' = Accepted \cup {q}
         /\ \A r \in Queries : r # q => ticket'[r] = ticket[r] /\ ticket'[r] < ticket'[q]
         /\ Tickets'
<1>1. IsFiniteSet(Accepted) /\ Cardinality(Accepted) \in Nat
  <2>1. Accepted \subseteq Queries
    BY DEF Accepted
  <2>2. IsFiniteSet(Accepted)
    BY <2>1, FS_Subset, DatabaseTasksAssumption
  <2> QED BY <2>2, FS_CardinalityType
<1>2. ticket \in [Queries -> Nat] /\ Tickets
  BY DEF IInv, TypeOK
<1>3. /\ ticket'[q] = Cardinality(Accepted) + 1
      /\ \A r \in Queries : r # q => ticket'[r] = ticket[r]
      /\ ticket' \in [Queries -> Nat]
  BY <1>1, <1>2 DEF NextTicket
<1>4. Accepted' = Accepted \cup {q}
  <2>1. ticket'[q] # 0
    BY <1>1, <1>3
  <2>2. \A r \in Queries : ticket'[r] # 0 <=> ticket[r] # 0 \/ r = q
    BY <2>1, <1>3
  <2> QED BY <2>2 DEF Accepted
<1>5. Cardinality(Accepted') = Cardinality(Accepted) + 1
  BY <1>1, <1>4, FS_AddElement
<1>6. \A r \in Queries : ticket[r] <= Cardinality(Accepted)
  BY <1>2 DEF Tickets
<1>7. \A r \in Queries : r # q => ticket'[r] < ticket'[q]
  BY <1>1, <1>2, <1>3, <1>6
<1>8. Tickets'
  <2>1. \A r \in Queries : ticket'[r] <= Cardinality(Accepted')
    BY <1>1, <1>2, <1>3, <1>5, <1>6
  <2>2. \A r, u \in Accepted' : ticket'[r] = ticket'[u] => r = u
    <3> SUFFICES ASSUME NEW r \in Accepted', NEW u \in Accepted', ticket'[r] = ticket'[u]
                 PROVE  r = u
      OBVIOUS
    <3>1. r \in Queries /\ u \in Queries
      BY <1>4 DEF Accepted
    <3>2. CASE r # q /\ u # q
      BY <3>1, <3>2, <1>2, <1>3, <1>4 DEF Tickets
    <3>3. CASE r = q \/ u = q
      BY <3>1, <3>3, <1>3, <1>7
    <3> QED BY <3>2, <3>3
  <2> QED BY <2>1, <2>2 DEF Tickets
<1> QED BY <1>3, <1>4, <1>7, <1>8

LEMMA InitInv == Init => IInv
<1> SUFFICES ASSUME Init PROVE IInv
  OBVIOUS
<1>1. <<>> \in Seq(Queries) /\ DOMAIN tasks = {} /\ Queued = {} /\ Accepted = {}
  BY DEF Init, Queued, Accepted
<1>2. TypeOK
  <2>1. tasks \in Seq(Queries)
    BY <1>1 DEF Init
  <2> QED BY <2>1 DEF Init, TypeOK, ThreadState, PC, Flush
<1>3. Placement
  BY <1>1, DatabaseTasksAssumption DEF Init, Placement
<1>4. Tickets
  BY <1>1, FS_EmptySet DEF Init, Tickets
<1>5. ListOrder
  BY <1>1 DEF ListOrder
<1>6. Results
  BY DatabaseTasksAssumption DEF Init, Results, ResultsAccounted
<1> QED BY <1>2, <1>3, <1>4, <1>5, <1>6 DEF Init, IInv, NoLostWakeup, Ending

LEMMA AddTaskInv ==
  ASSUME IInv, NEW c \in Clients, NEW q \in Queries, AddTask(c, q)
  PROVE  IInv'
<1> DEFINE n == Len(tasks)
<1> USE DEF AddTask, threadVars, flushVars, results
<1>1. /\ ticket' \in [Queries -> Nat]
      /\ Accepted' = Accepted \cup {q}
      /\ \A r \in Queries : r # q => ticket'[r] = ticket[r] /\ ticket'[r] < ticket'[q]
      /\ Tickets'
  BY NewTicket
<1>2. /\ n \in Nat /\ DOMAIN tasks = 1..n
      /\ \A i \in 1..n : tasks[i] \in Queries
  BY ListFacts DEF IInv
<1>3. /\ tasks' \in Seq(Queries) /\ tasks' # <<>>
      /\ Len(tasks') = n + 1
      /\ tasks'[n + 1] = q
      /\ \A i \in 1..n : tasks'[i] = tasks[i]
  BY AppendProperties DEF IInv, TypeOK
<1>4. DOMAIN tasks' = 1..n + 1
  BY <1>3, LenProperties
<1> HIDE DEF n
<1>5. \A i \in 1..n + 1 : i \in 1..n \/ i = n + 1
  BY <1>2
<1>6. \A i \in 1..n : tasks[i] \in Accepted /\ tasks[i] # q
  BY <1>2 DEF IInv, Placement, Queued
<1>7. Queued' = Queued \cup {q}
  <2>1. 1..n + 1 = (1..n) \cup {n + 1}
    BY <1>2
  <2>2. Queued' = {tasks'[i] : i \in 1..n + 1}
    BY <1>4 DEF Queued
  <2> QED BY <2>1, <2>2, <1>2, <1>3 DEF Queued
<1>8. q \notin executed \cup {held, flushed}
  BY DatabaseTasksAssumption DEF IInv, Placement, TypeOK
<1>9. Placement'
  <2>1. \A i, j \in 1..n + 1 : tasks'[i] = tasks'[j] => i = j
    <3>1. \A i, j \in 1..n : tasks'[i] = tasks'[j] => i = j
      BY <1>2, <1>3 DEF IInv, Placement
    <3>2. \A i \in 1..n : tasks'[i] # q
      BY <1>3, <1>6
    <3> QED BY <3>1, <3>2, <1>3, <1>5
  <2>2. /\ Accepted' = Queued' \cup executed \cup ({held, flushed} \ {NoQuery})
        /\ Queued' \cap (executed \cup {held, flushed}) = {}
        /\ refused \cap Accepted' = {}
    BY <1>1, <1>7, <1>8 DEF IInv, Placement
  <2> QED BY <2>1, <2>2, <1>4 DEF Placement, IInv
<1>10. ListOrder'
  <2>1. ASSUME NEW i \in 1..n + 1, NEW j \in 1..n + 1, i < j
        PROVE  ticket'[tasks'[i]] < ticket'[tasks'[j]]
    <3>1. i \in 1..n
      BY <2>1, <1>2
    <3>2. CASE j \in 1..n
      <4>1. ticket[tasks[i]] < ticket[tasks[j]]
        BY <2>1, <3>1, <3>2, <1>2 DEF IInv, ListOrder
      <4> QED BY <4>1, <3>1, <3>2, <1>1, <1>2, <1>3, <1>6
    <3>3. CASE j = n + 1
      BY <3>1, <3>3, <1>1, <1>2, <1>3, <1>6
    <3> QED BY <3>2, <3>3, <1>5
  <2>2. ASSUME NEW r \in Accepted' \ Queued', NEW i \in 1..n + 1
        PROVE  ticket'[r] < ticket'[tasks'[i]]
    <3>1. r \in Accepted \ Queued /\ r # q /\ r \in Queries
      BY <2>2, <1>1, <1>7 DEF Accepted
    <3>2. CASE i \in 1..n
      <4>1. ticket[r] < ticket[tasks[i]]
        BY <3>1, <3>2, <1>2 DEF IInv, ListOrder
      <4> QED BY <4>1, <3>1, <3>2, <1>1, <1>2, <1>3, <1>6
    <3>3. CASE i = n + 1
      BY <3>1, <3>3, <1>1, <1>3
    <3> QED BY <3>2, <3>3, <1>5
  <2> QED BY <2>1, <2>2, <1>4 DEF ListOrder
<1>11. TypeOK'
  BY <1>1, <1>3 DEF IInv, TypeOK, MustSignal
<1>12. NoLostWakeup'
  <2>1. CASE tasks = <<>>
    BY <2>1 DEF NoLostWakeup, MustSignal, IInv, TypeOK
  <2>2. CASE tasks # <<>>
    BY <2>2 DEF NoLostWakeup, MustSignal, IInv, TypeOK
  <2> QED BY <2>1, <2>2
<1>13. Ending'
  BY DEF IInv, Ending
<1>14. Results'
  BY DEF IInv, Results, ResultsAccounted
<1> QED BY <1>1, <1>9, <1>10, <1>11, <1>12, <1>13, <1>14 DEF IInv

\* Taking the first query, by either thread: h goes from the queue to its holder.
LEMMA Dequeue ==
  ASSUME IInv, tasks # <<>>, tasks' = Tail(tasks),
         UNCHANGED <<accepting, ticket, refused, results>>,
         \/ held = NoQuery /\ held' = Head(tasks) /\ flushed' = flushed
            /\ pc' = "execute" /\ flush' = flush
         \/ flushed = NoQuery /\ flushed' = Head(tasks) /\ held' = held
            /\ flush' = "execute" /\ pc' = pc
  PROVE  /\ Head(tasks) \in Queries /\ tasks' \in Seq(Queries)
         /\ Placement' /\ Tickets' /\ ListOrder' /\ Results'
<1> DEFINE n == Len(tasks)  h == tasks[1]
<1> USE DEF results
<1>1. tasks \in Seq(Queries)
  BY DEF IInv, TypeOK
<1>2. /\ n \in Nat /\ n >= 1
      /\ DOMAIN tasks = 1..n
      /\ \A i \in 1..n : tasks[i] \in Queries
  BY ListFacts DEF IInv
<1>3. Head(tasks) = h /\ 1 \in 1..n /\ h \in Queries
  BY <1>2
<1>4. /\ tasks' \in Seq(Queries)
      /\ Len(tasks') = n - 1
      /\ \A i \in 1..n - 1 : tasks'[i] = tasks[i + 1]
  BY <1>1, HeadTailProperties
<1>5. DOMAIN tasks' = 1..n - 1
  BY <1>4, LenProperties
<1>6. \A i \in 1..n - 1 : i + 1 \in 1..n /\ i + 1 > 1 /\ tasks'[i] = tasks[i + 1]
  BY <1>2, <1>4
<1>7. \A i, j \in 1..n : tasks[i] = tasks[j] => i = j
  BY <1>2 DEF IInv, Placement
<1> HIDE DEF n, h
<1>8. Queued = {tasks[i] : i \in 1..n}
  BY <1>2 DEF Queued
<1>9. Queued' = Queued \ {h}
  <2>1. Queued' = {tasks'[i] : i \in 1..n - 1}
    BY <1>5 DEF Queued
  <2>2. \A i \in 1..n - 1 : tasks[i + 1] \in Queued \ {h}
    BY <1>3, <1>6, <1>7, <1>8 DEF h
  <2>3. \A i \in 1..n : i = 1 \/ (i - 1 \in 1..n - 1 /\ tasks'[i - 1] = tasks[i])
    <3> SUFFICES ASSUME NEW i \in 1..n, i # 1
                 PROVE  i - 1 \in 1..n - 1 /\ tasks'[i - 1] = tasks[i]
      OBVIOUS
    <3>1. i - 1 \in 1..n - 1 /\ (i - 1) + 1 = i
      BY <1>2
    <3> QED BY <3>1, <1>6
  <2>4. Queued' \subseteq Queued \ {h}
    BY <2>1, <2>2, <1>6
  <2>5. Queued \ {h} \subseteq Queued'
    <3> SUFFICES ASSUME NEW i \in 1..n, tasks[i] # h PROVE tasks[i] \in Queued'
      BY <1>8
    <3>1. i # 1
      BY DEF h
    <3> QED BY <3>1, <2>1, <2>3
  <2> QED BY <2>4, <2>5
<1>10. h \in Queued /\ h # NoQuery /\ Accepted' = Accepted
  BY <1>3, <1>8, DatabaseTasksAssumption DEF h, Accepted
<1>11. h \notin executed \cup {held, flushed} /\ h \in Accepted /\ delivered[h] = 0
  <2>1. h \notin executed \cup {held, flushed} /\ h \in Accepted
    BY <1>10 DEF IInv, Placement
  <2>2. ~(delivered[h] > 0) /\ delivered[h] \in Nat
    BY <2>1, <1>3 DEF IInv, TypeOK, Results, ResultsAccounted
  <2> QED BY <2>1, <2>2
<1>12. /\ {held', flushed'} \ {NoQuery} = ({held, flushed} \ {NoQuery}) \cup {h}
       /\ held' = flushed' => held' = NoQuery
  BY <1>3, <1>10, <1>11 DEF IInv, Placement
<1>13. Placement'
  <2>1. \A i, j \in 1..n - 1 : tasks'[i] = tasks'[j] => i = j
    <3> SUFFICES ASSUME NEW i \in 1..n - 1, NEW j \in 1..n - 1,
                        tasks[i + 1] = tasks[j + 1]
                 PROVE  i = j
      BY <1>6
    <3>1. i + 1 = j + 1
      BY <1>6, <1>7
    <3> QED BY <3>1, <1>2
  <2>2. /\ Accepted' = Queued' \cup executed' \cup ({held', flushed'} \ {NoQuery})
        /\ refused' \cap Accepted' = {}
    BY <1>9, <1>10, <1>12 DEF IInv, Placement
  <2>3. NoQuery \notin Queued
    BY <1>2, <1>8, DatabaseTasksAssumption
  <2>4. Queued' \cap (executed' \cup {held', flushed'}) = {}
    BY <1>9, <1>12, <2>3 DEF IInv, Placement
  <2>5. /\ pc' = "execute" => held' \notin executed'
        /\ flush' = "execute" => flushed' \notin executed'
        /\ pc' = "callback" => held' \in executed'
        /\ flush' = "callback" => flushed' \in executed'
    BY <1>3, <1>11 DEF IInv, Placement
  <2> QED BY <2>1, <2>2, <2>4, <2>5, <1>5, <1>12 DEF Placement
<1>14. ListOrder'
  <2>1. \A i, j \in 1..n - 1 : i < j => ticket[tasks[i + 1]] < ticket[tasks[j + 1]]
    BY <1>2, <1>6 DEF IInv, ListOrder
  <2>2. \A i \in 1..n - 1 : ticket[h] < ticket[tasks[i + 1]]
    BY <1>2, <1>3, <1>6 DEF h, IInv, ListOrder
  <2>3. \A q \in Accepted \ Queued, i \in 1..n - 1 : ticket[q] < ticket[tasks[i + 1]]
    BY <1>2, <1>6 DEF IInv, ListOrder
  <2>4. Accepted' \ Queued' \subseteq (Accepted \ Queued) \cup {h}
    BY <1>9, <1>10
  <2>5. \A i, j \in DOMAIN tasks' : i < j => ticket'[tasks'[i]] < ticket'[tasks'[j]]
    <3> SUFFICES ASSUME NEW i \in 1..n - 1, NEW j \in 1..n - 1, i < j
                 PROVE  ticket'[tasks'[i]] < ticket'[tasks'[j]]
      BY <1>5
    <3>1. tasks'[i] = tasks[i + 1] /\ tasks'[j] = tasks[j + 1] /\ ticket' = ticket
      BY <1>6
    <3> QED BY <3>1, <2>1
  <2>6. \A q \in Accepted' \ Queued', i \in DOMAIN tasks' : ticket'[q] < ticket'[tasks'[i]]
    BY <2>2, <2>3, <2>4, <1>5, <1>6
  <2> QED BY <2>5, <2>6 DEF ListOrder
<1>15. Tickets'
  BY <1>10 DEF IInv, Tickets
<1>16. Results'
  <2>1. UNCHANGED accepting
    OBVIOUS
  <2>2. ResultsAccounted'
    <3>1. NoQuery \notin executed \cap HasCallback
      BY DatabaseTasksAssumption
    <3>2. (executed \cap HasCallback) \ {held', flushed'}
            \subseteq (executed \cap HasCallback) \ {held, flushed}
      BY <3>1, <1>12
    <3> QED BY <2>1, <3>2 DEF IInv, Results, ResultsAccounted
  <2>3. \A q \in Queries \cap {held', flushed'} : delivered'[q] = 0
    BY <1>3, <1>11 DEF IInv, Results
  <2> QED BY <2>2, <2>3 DEF Results
<1> QED BY <1>3, <1>4, <1>13, <1>14, <1>15, <1>16

LEMMA TakeInv ==
  ASSUME IInv, Take \/ FlushPop
  PROVE  IInv'
<1>1. CASE Take
  <2> USE <1>1 DEF Take, flushVars
  <2>1. held = NoQuery
    BY DEF IInv, TypeOK
  <2>2. /\ Head(tasks) \in Queries /\ tasks' \in Seq(Queries)
        /\ Placement' /\ Tickets' /\ ListOrder' /\ Results'
    BY <2>1, Dequeue
  <2>3. TypeOK'
    BY <2>2, DatabaseTasksAssumption DEF IInv, TypeOK, PC, results
  <2>4. NoLostWakeup' /\ Ending'
    BY DEF IInv, NoLostWakeup, Ending
  <2> QED BY <2>2, <2>3, <2>4 DEF IInv
<1>2. CASE FlushPop
  <2> USE <1>2 DEF FlushPop, threadVars
  <2>1. flushed = NoQuery
    BY DEF IInv, TypeOK
  <2>2. /\ Head(tasks) \in Queries /\ tasks' \in Seq(Queries)
        /\ Placement' /\ Tickets' /\ ListOrder' /\ Results'
    BY <2>1, Dequeue
  <2>3. TypeOK'
    BY <2>2, DatabaseTasksAssumption DEF IInv, TypeOK, Flush, results
  <2>4. NoLostWakeup' /\ Ending'
    BY DEF IInv, NoLostWakeup, Ending
  <2> QED BY <2>2, <2>3, <2>4 DEF IInv
<1> QED BY <1>1, <1>2

\* runTask in either thread: the query, then the hand-over of its result.
LEMMA RunTaskInv ==
  ASSUME IInv, Execute \/ Callback \/ FlushExecute \/ FlushCallback
  PROVE  IInv'
<1>1. /\ UNCHANGED <<threadState, tasks, notified, closing, signal, accepting, ticket,
                     refused>>
      /\ Queued' = Queued /\ Accepted' = Accepted
  BY DEF Execute, Callback, FlushExecute, FlushCallback, threadVars, flushVars, Queued,
         Accepted
<1>2. Tickets'
  BY <1>1 DEF IInv, Tickets
<1>3. ListOrder'
  BY <1>1 DEF IInv, ListOrder
<1>4. NoLostWakeup'
  BY <1>1 DEF Execute, Callback, FlushExecute, FlushCallback, threadVars, flushVars,
              IInv, NoLostWakeup
<1>5. Ending'
  BY <1>1 DEF Execute, Callback, FlushExecute, FlushCallback, threadVars, flushVars,
              IInv, Ending
<1>6. NoQuery \notin executed \cup Queued
  <2>1. NoQuery \notin Accepted
    BY DatabaseTasksAssumption DEF Accepted
  <2> QED BY <2>1 DEF IInv, Placement
<1>7. TypeOK'
  <2>1. CASE Execute \/ FlushExecute
    BY <2>1, <1>1 DEF Execute, FlushExecute, threadVars, flushVars, IInv, TypeOK, PC, Flush
  <2>2. CASE Callback \/ FlushCallback
    <3>1. delivered' \in [Queries -> Nat]
      <4>1. PICK q \in Queries : Deliver(q)
        BY <2>2 DEF Callback, FlushCallback, IInv, TypeOK
      <4>2. delivered' = delivered \/ delivered' = [delivered EXCEPT ![q] = @ + 1]
        BY <4>1 DEF Deliver
      <4>3. delivered \in [Queries -> Nat]
        BY DEF IInv, TypeOK
      <4>4. [delivered EXCEPT ![q] = @ + 1] \in [Queries -> Nat]
        BY <4>3
      <4> QED BY <4>2, <4>3, <4>4
    <3> QED BY <2>2, <3>1, <1>1 DEF Callback, FlushCallback, threadVars, flushVars, IInv,
                                    TypeOK, PC, Flush
  <2> QED BY <2>1, <2>2
<1>8. Placement'
  <2>1. \A i, j \in DOMAIN tasks' : tasks'[i] = tasks'[j] => i = j
    BY <1>1 DEF IInv, Placement
  <2>2. CASE Execute
    <3>1. held # NoQuery /\ held' = held /\ flushed' = flushed /\ flush' = flush
          /\ executed' = executed \cup {held} /\ pc' = "callback"
      BY <2>2 DEF Execute, flushVars, IInv, TypeOK
    <3> QED BY <2>1, <3>1, <1>1 DEF IInv, Placement
  <2>3. CASE FlushExecute
    <3>1. flushed # NoQuery /\ held' = held /\ flushed' = flushed /\ pc' = pc
          /\ executed' = executed \cup {flushed} /\ flush' = "callback"
      BY <2>3 DEF FlushExecute, threadVars, IInv, TypeOK
    <3> QED BY <2>1, <3>1, <1>1 DEF IInv, Placement
  <2>4. CASE Callback
    <3>1. held \in executed /\ held' = NoQuery /\ flushed' = flushed /\ flush' = flush
          /\ executed' = executed /\ pc' = "loop"
      BY <2>4 DEF Callback, flushVars, IInv, Placement
    <3> QED BY <2>1, <3>1, <1>1, <1>6 DEF IInv, Placement
  <2>5. CASE FlushCallback
    <3>1. flushed \in executed /\ flushed' = NoQuery /\ held' = held /\ pc' = pc
          /\ executed' = executed /\ flush' = "pop"
      BY <2>5 DEF FlushCallback, threadVars, IInv, Placement
    <3> QED BY <2>1, <3>1, <1>1, <1>6 DEF IInv, Placement
  <2> QED BY <2>2, <2>3, <2>4, <2>5
<1>9. Results'
  <2>1. CASE Execute
    <3>1. held' = held /\ flushed' = flushed /\ executed' = executed \cup {held}
          /\ delivered' = delivered
      BY <2>1 DEF Execute, flushVars
    <3> QED BY <3>1, <1>1 DEF IInv, Results, ResultsAccounted
  <2>2. CASE FlushExecute
    <3>1. held' = held /\ flushed' = flushed /\ executed' = executed \cup {flushed}
          /\ delivered' = delivered
      BY <2>2 DEF FlushExecute, threadVars
    <3> QED BY <3>1, <1>1 DEF IInv, Results, ResultsAccounted
  <2>3. CASE Callback
    <3>1. /\ held # NoQuery /\ held \in executed /\ held # flushed
          /\ held \in Queries /\ delivered[held] = 0 /\ delivered \in [Queries -> Nat]
          /\ held' = NoQuery /\ flushed' = flushed /\ executed' = executed
      BY <2>3 DEF Callback, flushVars, IInv, TypeOK, Placement, Results
    <3>2. /\ \A q \in Queries : q # held => delivered'[q] = delivered[q]
          /\ delivered'[held] = IF held \in HasCallback /\ accepting THEN 1 ELSE 0
      BY <2>3, <3>1 DEF Callback, Deliver
    <3>3. \A q \in Queries :
            delivered'[q] <= 1 /\ (delivered'[q] > 0 => q \in executed' \cap HasCallback)
      BY <3>1, <3>2 DEF IInv, Results, ResultsAccounted
    <3>4. ASSUME accepting', NEW q \in (executed' \cap HasCallback) \ {held', flushed'}
          PROVE  delivered'[q] = 1
      <4>1. CASE q = held
        BY <3>1, <3>2, <3>4, <4>1, <1>1
      <4>2. CASE q # held
        BY <3>1, <3>2, <3>4, <4>2, <1>1, DatabaseTasksAssumption DEF IInv, Results, ResultsAccounted
      <4> QED BY <4>1, <4>2
    <3>5. ResultsAccounted'
      <4>1. accepting' => \A q \in (executed' \cap HasCallback) \ {held', flushed'} :
                            delivered'[q] = 1
        BY <3>4
      <4> QED BY <3>3, <4>1 DEF ResultsAccounted
    <3> QED BY <3>1, <3>2, <3>5, <1>1, DatabaseTasksAssumption DEF IInv, Results
  <2>4. CASE FlushCallback
    <3>1. /\ flushed # NoQuery /\ flushed \in executed /\ held # flushed
          /\ flushed \in Queries /\ delivered[flushed] = 0 /\ delivered \in [Queries -> Nat]
          /\ flushed' = NoQuery /\ held' = held /\ executed' = executed
      BY <2>4 DEF FlushCallback, threadVars, IInv, TypeOK, Placement, Results
    <3>2. /\ \A q \in Queries : q # flushed => delivered'[q] = delivered[q]
          /\ delivered'[flushed] = IF flushed \in HasCallback /\ accepting THEN 1 ELSE 0
      BY <2>4, <3>1 DEF FlushCallback, Deliver
    <3>3. \A q \in Queries :
            delivered'[q] <= 1 /\ (delivered'[q] > 0 => q \in executed' \cap HasCallback)
      BY <3>1, <3>2 DEF IInv, Results, ResultsAccounted
    <3>4. ASSUME accepting', NEW q \in (executed' \cap HasCallback) \ {held', flushed'}
          PROVE  delivered'[q] = 1
      <4>1. CASE q = flushed
        BY <3>1, <3>2, <3>4, <4>1, <1>1
      <4>2. CASE q # flushed
        BY <3>1, <3>2, <3>4, <4>2, <1>1, DatabaseTasksAssumption DEF IInv, Results, ResultsAccounted
      <4> QED BY <4>1, <4>2
    <3>5. ResultsAccounted'
      <4>1. accepting' => \A q \in (executed' \cap HasCallback) \ {held', flushed'} :
                            delivered'[q] = 1
        BY <3>4
      <4> QED BY <3>3, <4>1 DEF ResultsAccounted
    <3> QED BY <3>1, <3>2, <3>5, <1>1, DatabaseTasksAssumption DEF IInv, Results
  <2> QED BY <2>1, <2>2, <2>3, <2>4
<1> QED BY <1>2, <1>3, <1>4, <1>5, <1>7, <1>8, <1>9 DEF IInv

\* Steps that leave the queue and the queries where they are.
LEMMA OtherInv ==
  ASSUME IInv, \/ \E c \in Clients : SendSignal(c) \/ \E q \in Queries : RefuseTask(c, q)
               \/ CheckState \/ Wait \/ WakeIdle
               \/ BeginFlush \/ FlushEnd \/ Stop \/ StopDispatcher \/ Shutdown
               \/ ShutdownNotify \/ UNCHANGED vars
  PROVE  IInv'
<1> USE DEF SendSignal, RefuseTask, CheckState, Wait, WakeIdle, BeginFlush, FlushEnd, Stop,
            StopDispatcher, Shutdown, ShutdownNotify, vars, threadVars, flushVars, results
<1>1. UNCHANGED <<tasks, held, flushed, ticket, executed, delivered>>
  OBVIOUS
<1>2. Queued' = Queued /\ Accepted' = Accepted
  BY <1>1 DEF Queued, Accepted
<1>3. Tickets' /\ ListOrder'
  BY <1>1, <1>2 DEF IInv, Tickets, ListOrder
<1>4. Placement'
  <2>1. /\ pc' = "execute" <=> pc = "execute"
        /\ pc' = "callback" <=> pc = "callback"
        /\ flush' = "execute" <=> flush = "execute"
        /\ flush' = "callback" <=> flush = "callback"
    OBVIOUS
  <2>2. refused' \cap Accepted' = {}
    BY <1>2 DEF IInv, Placement
  <2> QED BY <2>1, <2>2, <1>1, <1>2 DEF IInv, Placement
<1>5. Results'
  <2>1. accepting' => accepting
    OBVIOUS
  <2> QED BY <2>1, <1>1 DEF IInv, Results, ResultsAccounted
<1>6. TypeOK'
  <2>1. CASE \E c \in Clients : SendSignal(c) \/ \E q \in Queries : RefuseTask(c, q)
    BY <2>1 DEF IInv, TypeOK, NotifyOne
  <2>2. CASE CheckState \/ Wait \/ WakeIdle
    BY <2>2 DEF IInv, TypeOK, PC
  <2>3. CASE BeginFlush \/ FlushEnd \/ Shutdown \/ ShutdownNotify
    BY <2>3 DEF IInv, TypeOK, NotifyOne, ThreadState, Flush
  <2>4. CASE Stop \/ StopDispatcher \/ UNCHANGED vars
    BY <2>4 DEF IInv, TypeOK, ThreadState
  <2> QED BY <2>1, <2>2, <2>3, <2>4
<1>7. NoLostWakeup'
  <2>0. CASE \E c \in Clients : \E q \in Queries : RefuseTask(c, q)
    BY <2>0 DEF IInv, NoLostWakeup
  <2>1. CASE \E c \in Clients : SendSignal(c)
    BY <2>1 DEF NotifyOne, IInv, NoLostWakeup
  <2>2. CASE Wait \/ WakeIdle
    BY <2>2 DEF IInv, NoLostWakeup
  <2>3. CASE \/ CheckState \/ BeginFlush \/ FlushEnd \/ Stop \/ StopDispatcher
             \/ Shutdown \/ UNCHANGED vars
    BY <2>3 DEF IInv, NoLostWakeup
  <2>4. CASE ShutdownNotify
    BY <2>4 DEF NotifyOne, IInv, NoLostWakeup
  <2> QED BY <2>0, <2>1, <2>2, <2>3, <2>4
<1>8. Ending'
  BY DEF IInv, Ending, TypeOK
<1> QED BY <1>3, <1>4, <1>5, <1>6, <1>7, <1>8 DEF IInv

LEMMA NextInv == IInv /\ [Next]_vars => IInv'
<1> SUFFICES ASSUME IInv, [Next]_vars PROVE IInv'
  OBVIOUS
<1>1. ASSUME NEW c \in Clients, Caller(c) PROVE IInv'
  BY <1>1, AddTaskInv, OtherInv DEF Caller
<1>2. CASE Thread
  BY <1>2, TakeInv, RunTaskInv, OtherInv DEF Thread
<1>3. CASE Flusher
  BY <1>3, TakeInv, RunTaskInv, OtherInv DEF Flusher
<1> QED BY <1>1, <1>2, <1>3, OtherInv DEF Next

\* The queue and both threads stay consistent, for any number of queries and callers.
THEOREM InductiveInv == Spec => []IInv
<1> QED BY InitInv, NextInv, PTL DEF Spec

LEMMA OrderFromInv == IInv => OvertakenIsHeld
<1> SUFFICES ASSUME IInv, NEW q \in Accepted, NEW r \in Accepted, ticket[q] < ticket[r],
                    r \in executed, q \notin executed \cup {held, flushed}
             PROVE  FALSE
  BY DEF OvertakenIsHeld
<1>1. PICK i \in DOMAIN tasks : q = tasks[i]
  BY DEF IInv, Placement, Queued
<1>2. r \in Accepted \ Queued
  BY DEF IInv, Placement
<1>3. ticket[r] < ticket[q]
  BY <1>1, <1>2 DEF IInv, ListOrder
<1> QED BY <1>3 DEF IInv, TypeOK, Accepted

\* A query is executed before an earlier one only while a thread holds the earlier one.
THEOREM BoundedReordering == Spec => []OvertakenIsHeld
<1> QED BY OrderFromInv, InductiveInv, PTL

LEMMA NothingLostFromInv == IInv => NothingLost
<1> SUFFICES ASSUME IInv, flush = "done" PROVE Accepted \subseteq executed \cup {held}
  BY DEF NothingLost
<1>1. tasks = <<>> /\ flushed = NoQuery
  BY DEF IInv, Ending, TypeOK
<1>2. Queued = {}
  BY <1>1, EmptySeq DEF Queued
<1> QED BY <1>1, <1>2 DEF IInv, Placement

\* Shutdown loses no query that was accepted.
THEOREM ShutdownLosesNothing == Spec => []NothingLost
<1> QED BY NothingLostFromInv, InductiveInv, PTL

\* No result is handed over twice or before its query, and none is missing while the
\* dispatcher accepts tasks (runTask).
THEOREM EveryResultAccounted == Spec => []ResultsAccounted
<1>1. IInv => ResultsAccounted
  BY DEF IInv, Results
<1> QED BY <1>1, InductiveInv, PTL

-----------------------------------------------------------------------------
(* Refinement of WorkQueue                                                 *)

Job == [q \in Queries |-> JobOf(q)]

LEMMA OneMoves ==
  ASSUME NEW q \in Queries, NEW a, NEW b, JobOf(q) = a, JobOf(q)' = b,
         \A r \in Queries : r # q => JobOf(r)' = JobOf(r)
  PROVE  WQ!Become(q, a, b)
<1>1. Job' = [Job EXCEPT ![q] = b]
  BY DEF Job
<1> QED BY <1>1 DEF WQ!Become, Job

LEMMA NoneMoves ==
  ASSUME \A q \in Queries : JobOf(q)' = JobOf(q)
  PROVE  Job' = Job
BY DEF Job

\* Two threads run queries, so that one that takes a query finds one in progress at most.
LEMMA OneInProgress ==
  ASSUME IInv, held = NoQuery \/ flushed = NoQuery
  PROVE  WQ!Cardinality(WQ!InProgress) < 2
<1>1. PICK x : \A q \in Queries : JobOf(q) = "running" => q = x
  <2>1. CASE held = NoQuery
    BY <2>1, DatabaseTasksAssumption DEF JobOf
  <2>2. CASE flushed = NoQuery
    BY <2>2, DatabaseTasksAssumption DEF JobOf
  <2> QED BY <2>1, <2>2
<1>2. WQ!InProgress \subseteq {x}
  BY <1>1 DEF WQ!InProgress
<1>3. WQ!InProgress = {} \/ WQ!InProgress = {x}
  BY <1>2
<1>4. Cardinality(WQ!InProgress) \in {0, 1}
  BY <1>3, FS_EmptySet, FS_Singleton
<1> QED BY <1>4 DEF WQ!Cardinality, Cardinality

LEMMA TakeRefines ==
  ASSUME IInv, Take \/ FlushPop
  PROVE  WQ!Next
<1>1. PICK q \in Queries : q = Head(tasks) /\ q \in Queued
  <2>1. Len(tasks) >= 1 /\ DOMAIN tasks = 1..Len(tasks) /\ Len(tasks) \in Nat
    BY ListFacts DEF IInv, Take, FlushPop
  <2> QED BY <2>1, ListFacts DEF Queued, IInv, Take, FlushPop
<1>2. q \in Accepted /\ q \notin executed \cup {held, flushed} /\ Accepted' = Accepted
  BY <1>1 DEF IInv, Placement, Accepted, Take, FlushPop
<1>3. CASE Take
  <2>1. held = NoQuery /\ held' = q /\ UNCHANGED <<flushed, executed, refused, threadState>>
    BY <1>1, <1>3 DEF Take, IInv, TypeOK, flushVars, results
  <2>2. JobOf(q) = "queued" /\ JobOf(q)' = "running"
    BY <1>2, <2>1 DEF JobOf
  <2>3. \A r \in Queries : r # q => JobOf(r)' = JobOf(r)
    BY <1>2, <2>1, DatabaseTasksAssumption DEF JobOf
  <2>4. WQ!Become(q, "queued", "running")
    BY <1>1, <2>2, <2>3, OneMoves
  <2> QED BY <1>1, <2>1, <2>4, OneInProgress DEF WQ!Next, WQ!Step, WQ!Begin
<1>4. CASE FlushPop
  <2>1. flushed = NoQuery /\ flushed' = q /\ UNCHANGED <<held, executed, refused, threadState>>
    BY <1>1, <1>4 DEF FlushPop, IInv, TypeOK, threadVars, results
  <2>2. JobOf(q) = "queued" /\ JobOf(q)' = "running"
    BY <1>2, <2>1 DEF JobOf
  <2>3. \A r \in Queries : r # q => JobOf(r)' = JobOf(r)
    BY <1>2, <2>1, DatabaseTasksAssumption DEF JobOf
  <2>4. WQ!Become(q, "queued", "running")
    BY <1>1, <2>2, <2>3, OneMoves
  <2> QED BY <1>1, <2>1, <2>4, OneInProgress DEF WQ!Next, WQ!Step, WQ!Begin
<1> QED BY <1>3, <1>4

LEMMA CallbackRefines ==
  ASSUME IInv, Callback \/ FlushCallback
  PROVE  WQ!Next
<1>1. Accepted' = Accepted /\ UNCHANGED <<executed, refused, threadState>>
  BY DEF Callback, FlushCallback, Accepted
<1>2. CASE Callback
  <2>1. /\ held \in Queries /\ held \in executed /\ held # flushed
        /\ held' = NoQuery /\ flushed' = flushed
    BY <1>2 DEF Callback, IInv, TypeOK, Placement, flushVars
  <2>2. JobOf(held) = "running"
    BY DEF JobOf
  <2>3. \A r \in Queries : r = held => JobOf(r)' = "done"
    BY <1>1, <2>1, DatabaseTasksAssumption DEF JobOf
  <2>4. \A r \in Queries : r # held => JobOf(r)' = JobOf(r)
    BY <1>1, <2>1, DatabaseTasksAssumption DEF JobOf
  <2>5. Job' = [Job EXCEPT ![held] = "done"]
    BY <2>1, <2>3, <2>4 DEF Job
  <2>6. WQ!Become(held, "running", "done")
    BY <2>1, <2>2, <2>5 DEF WQ!Become, Job
  <2> QED BY <1>1, <2>1, <2>6 DEF WQ!Next, WQ!Step, WQ!Finish
<1>3. CASE FlushCallback
  <2>1. /\ flushed \in Queries /\ flushed \in executed /\ held # flushed
        /\ flushed' = NoQuery /\ held' = held
    BY <1>3 DEF FlushCallback, IInv, TypeOK, Placement, threadVars
  <2>2. JobOf(flushed) = "running"
    BY DEF JobOf
  <2>3. \A r \in Queries : r = flushed => JobOf(r)' = "done"
    BY <1>1, <2>1, DatabaseTasksAssumption DEF JobOf
  <2>4. \A r \in Queries : r # flushed => JobOf(r)' = JobOf(r)
    BY <1>1, <2>1, DatabaseTasksAssumption DEF JobOf
  <2>5. Job' = [Job EXCEPT ![flushed] = "done"]
    BY <2>1, <2>3, <2>4 DEF Job
  <2>6. WQ!Become(flushed, "running", "done")
    BY <2>1, <2>2, <2>5 DEF WQ!Become, Job
  <2> QED BY <1>1, <2>1, <2>6 DEF WQ!Next, WQ!Step, WQ!Finish
<1> QED BY <1>2, <1>3

LEMMA AddRefines ==
  ASSUME IInv, NEW c \in Clients, NEW q \in Queries, AddTask(c, q) \/ RefuseTask(c, q)
  PROVE  WQ!Next
<1>1. /\ q \notin Accepted \cup refused \cup executed \cup {held, flushed}
      /\ executed \subseteq Accepted /\ refused \cap Accepted = {}
      /\ UNCHANGED <<held, flushed, executed, threadState>>
  <2>1. q \notin Accepted /\ q \notin refused
    BY DEF AddTask, RefuseTask
  <2>2. UNCHANGED <<held, flushed, executed, threadState>>
    BY DEF AddTask, RefuseTask, threadVars, flushVars, results
  <2>3. /\ executed \subseteq Accepted /\ refused \cap Accepted = {}
        /\ (held = NoQuery \/ held \in Accepted) /\ (flushed = NoQuery \/ flushed \in Accepted)
    BY DEF IInv, Placement
  <2> QED BY <2>1, <2>2, <2>3, DatabaseTasksAssumption
<1>2. CASE AddTask(c, q)
  <2>1. Accepted' = Accepted \cup {q} /\ refused' = refused
    BY <1>1, <1>2, NewTicket DEF AddTask
  <2>2. JobOf(q) = "new" /\ JobOf(q)' = "queued"
    BY <1>1, <2>1 DEF JobOf
  <2>3. \A r \in Queries : r # q => JobOf(r)' = JobOf(r)
    BY <1>1, <2>1 DEF JobOf
  <2>4. WQ!Become(q, "new", "queued")
    BY <2>2, <2>3, OneMoves
  <2> QED BY <1>1, <1>2, <2>4 DEF AddTask, WQ!Next, WQ!Step, WQ!Accept
<1>3. CASE RefuseTask(c, q)
  <2>1. Accepted' = Accepted /\ refused' = refused \cup {q}
    BY <1>3 DEF RefuseTask, Accepted
  <2>2. JobOf(q) = "new" /\ JobOf(q)' = "refused"
    BY <1>1, <2>1 DEF JobOf
  <2>3. \A r \in Queries : r # q => JobOf(r)' = JobOf(r)
    BY <1>1, <2>1 DEF JobOf
  <2>4. WQ!Become(q, "new", "refused")
    BY <2>2, <2>3, OneMoves
  <2> QED BY <1>1, <1>3, <2>4 DEF RefuseTask, WQ!Next, WQ!Step, WQ!Refuse
<1> QED BY <1>2, <1>3

LEMMA StepRefines == IInv /\ [Next]_vars => [WQ!Next]_<<Job, threadState = "RUNNING">>
<1> SUFFICES ASSUME IInv, [Next]_vars
             PROVE  WQ!Next \/ (Job' = Job /\ UNCHANGED (threadState = "RUNNING"))
  OBVIOUS
<1>1. CASE Execute \/ FlushExecute
  <2>1. Accepted' = Accepted /\ UNCHANGED <<held, flushed, refused, threadState>>
    BY <1>1 DEF Execute, FlushExecute, Accepted, threadVars, flushVars
  <2>2. executed \subseteq executed' /\ executed' \subseteq executed \cup {held, flushed}
    BY <1>1 DEF Execute, FlushExecute
  <2>3. \A q \in Queries : JobOf(q)' = JobOf(q)
    BY <2>1, <2>2 DEF JobOf
  <2> QED BY <2>1, <2>3, NoneMoves
<1>2. CASE Stop \/ Shutdown
  <2>1. Accepted' = Accepted /\ UNCHANGED <<held, flushed, refused, executed>> /\ threadState' # "RUNNING"
    BY <1>2 DEF Stop, Shutdown, Accepted, threadVars, flushVars, results
  <2>2. \A q \in Queries : JobOf(q)' = JobOf(q)
    BY <2>1 DEF JobOf
  <2>3. Job' = Job
    BY <2>2, NoneMoves
  <2> QED BY <2>1, <2>3 DEF WQ!Next, WQ!Close, Job
<1>3. CASE \/ \E c \in Clients : SendSignal(c)
           \/ CheckState \/ Wait \/ WakeIdle
           \/ BeginFlush \/ FlushEnd \/ StopDispatcher \/ ShutdownNotify \/ UNCHANGED vars
  <2>1. UNCHANGED <<threadState, held, flushed, ticket, refused, executed>>
    BY <1>3 DEF SendSignal, CheckState, Wait, WakeIdle, BeginFlush, FlushEnd, StopDispatcher,
                ShutdownNotify, vars, threadVars, flushVars, results
  <2>2. \A q \in Queries : JobOf(q)' = JobOf(q)
    BY <2>1 DEF JobOf, Accepted
  <2> QED BY <2>1, <2>2, NoneMoves
<1>4. ASSUME NEW c \in Clients, Caller(c)
      PROVE  WQ!Next \/ (Job' = Job /\ UNCHANGED (threadState = "RUNNING"))
  BY <1>3, <1>4, AddRefines DEF Caller
<1>5. CASE Thread
  BY <1>1, <1>3, <1>5, TakeRefines, CallbackRefines DEF Thread
<1>6. CASE Flusher
  BY <1>1, <1>2, <1>3, <1>6, TakeRefines, CallbackRefines DEF Flusher
<1> QED BY <1>3, <1>4, <1>5, <1>6 DEF Next

LEMMA InitRefines == Init => WQ!Init
<1> SUFFICES ASSUME Init PROVE Job = [q \in Queries |-> "new"] /\ (threadState = "RUNNING") = TRUE
  BY DEF WQ!Init, Job
<1>1. \A q \in Queries : JobOf(q) = "new"
  BY DatabaseTasksAssumption DEF Init, JobOf, Accepted
<1> QED BY <1>1 DEF Job, Init

\* The database thread and the thread that flushes are a queue with two workers: each
\* query is accepted or refused once, and executed at most once, whoever takes it.
THEOREM Refinement == Spec => ImplementsWorkQueue
<1>1. IInv /\ [Next]_vars => [WQ!Next]_<<Job, threadState = "RUNNING">>
  BY StepRefines
<1> QED BY <1>1, InductiveInv, InitRefines, PTL DEF Spec, ImplementsWorkQueue, WQ!Spec, Job
=============================================================================
