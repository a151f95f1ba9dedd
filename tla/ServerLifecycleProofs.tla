------------------------ MODULE ServerLifecycleProofs -----------------------
(***************************************************************************)
(* Proofs about ServerLifecycle, for any players and any bound on the      *)
(* queue: IInv is inductive, a closed server holds staff only, and when    *)
(* the dispatcher ends no player's task is left behind and every change is *)
(* saved, but those of the few whose tasks came too late.                  *)
(***************************************************************************)
EXTENDS ServerLifecycle, SequenceTheorems, TLAPS

-----------------------------------------------------------------------------
(* The queue                                                               *)

LEMMA TailFacts ==
  ASSUME NEW q \in Seq(Task), q # <<>>
  PROVE  /\ Tail(q) \in Seq(Task)
         /\ Head(q) \in Task
         /\ Queued(q, Head(q).op)
         /\ \A P : OnlyFrom(q, P) => OnlyFrom(Tail(q), P) /\ Head(q).player \in P
         /\ \A o : Queued(Tail(q), o) => Queued(q, o)
         /\ \A o, P : Behind(q, o, P) => Behind(Tail(q), o, P)
         /\ \A o, P : Behind(q, o, P) /\ Head(q).op = o => OnlyFrom(Tail(q), P)
         /\ LoadIsFirst(q) => ~Queued(Tail(q), "load")
<1>1. /\ Tail(q) \in Seq(Task) /\ Head(q) = q[1] /\ Head(q) \in Task
      /\ Len(Tail(q)) = Len(q) - 1
      /\ \A i \in 1..Len(Tail(q)) : Tail(q)[i] = q[i + 1]
  BY HeadTailProperties
<1>2. Len(q) \in Nat /\ Len(q) >= 1 /\ DOMAIN q = 1..Len(q) /\ DOMAIN Tail(q) = 1..Len(Tail(q))
  BY <1>1, LenProperties, EmptySeq
<1>3. 1 \in DOMAIN q
  BY <1>2
<1>4. \A i \in DOMAIN Tail(q) : i + 1 \in DOMAIN q /\ Tail(q)[i] = q[i + 1] /\ 1 < i + 1 /\ i + 1 # 1
  BY <1>1, <1>2
<1>5. \A i, j \in DOMAIN Tail(q) : i < j => i + 1 < j + 1
  BY <1>2
<1>6. \A P : OnlyFrom(q, P) => OnlyFrom(Tail(q), P) /\ Head(q).player \in P
  BY <1>1, <1>3, <1>4 DEF OnlyFrom
<1>7. \A o : Queued(Tail(q), o) => Queued(q, o)
  BY <1>4 DEF Queued
<1>8. Queued(q, Head(q).op)
  BY <1>1, <1>3 DEF Queued
<1>9. \A o, P : Behind(q, o, P) => Behind(Tail(q), o, P)
  <2> SUFFICES ASSUME NEW o, NEW P, Behind(q, o, P), NEW i \in DOMAIN Tail(q), NEW j \in DOMAIN Tail(q),
                      Tail(q)[i].op = o, i < j
               PROVE  Tail(q)[j].player \in P
    BY DEF Behind
  <2>1. i + 1 \in DOMAIN q /\ j + 1 \in DOMAIN q /\ i + 1 < j + 1 /\ q[i + 1].op = o
    BY <1>4, <1>5
  <2>2. q[j + 1].player \in P
    BY <2>1 DEF Behind
  <2> QED BY <2>2, <1>4
<1>10. \A o, P : Behind(q, o, P) /\ Head(q).op = o => OnlyFrom(Tail(q), P)
  <2> SUFFICES ASSUME NEW o, NEW P, Behind(q, o, P), Head(q).op = o, NEW j \in DOMAIN Tail(q)
               PROVE  Tail(q)[j].player \in P
    BY DEF OnlyFrom
  <2>1. j + 1 \in DOMAIN q /\ 1 < j + 1 /\ q[1].op = o
    BY <1>1, <1>4
  <2>2. q[j + 1].player \in P
    BY <2>1, <1>3 DEF Behind
  <2> QED BY <2>2, <1>4
<1>11. LoadIsFirst(q) => ~Queued(Tail(q), "load")
  BY <1>4 DEF LoadIsFirst, Queued
<1> QED BY <1>1, <1>6, <1>7, <1>8, <1>9, <1>10, <1>11

LEMMA AppendFacts ==
  ASSUME NEW q \in Seq(Task), NEW t \in Task
  PROVE  /\ Append(q, t) \in Seq(Task)
         /\ \A P : OnlyFrom(q, P) /\ t.player \in P => OnlyFrom(Append(q, t), P)
         /\ \A o : Queued(Append(q, t), o) => Queued(q, o) \/ t.op = o
         /\ \A o, P : Behind(q, o, P) /\ (t.player \in P \/ ~Queued(q, o)) => Behind(Append(q, t), o, P)
         /\ LoadIsFirst(q) /\ t.op # "load" => LoadIsFirst(Append(q, t))
<1> DEFINE s == Append(q, t)
<1>1. /\ s \in Seq(Task) /\ Len(s) = Len(q) + 1 /\ s[Len(q) + 1] = t
      /\ \A i \in 1..Len(q) : s[i] = q[i]
  BY AppendProperties
<1>2. Len(q) \in Nat /\ DOMAIN q = 1..Len(q) /\ DOMAIN s = 1..Len(s)
  BY <1>1, LenProperties
<1>3. \A i \in DOMAIN s : (i \in DOMAIN q /\ s[i] = q[i]) \/ (i = Len(q) + 1 /\ s[i] = t)
  BY <1>1, <1>2
<1>4. \A i, j \in DOMAIN s : i < j => i \in DOMAIN q
  BY <1>1, <1>2
<1> HIDE DEF s
<1>5. \A P : OnlyFrom(q, P) /\ t.player \in P => OnlyFrom(s, P)
  BY <1>3 DEF OnlyFrom
<1>6. \A o : Queued(s, o) => Queued(q, o) \/ t.op = o
  BY <1>3 DEF Queued
<1>7. \A o, P : Behind(q, o, P) /\ (t.player \in P \/ ~Queued(q, o)) => Behind(s, o, P)
  <2> SUFFICES ASSUME NEW o, NEW P, Behind(q, o, P), t.player \in P \/ ~Queued(q, o),
                      NEW i \in DOMAIN s, NEW j \in DOMAIN s, s[i].op = o, i < j
               PROVE  s[j].player \in P
    BY DEF Behind
  <2>1. i \in DOMAIN q /\ q[i].op = o
    <3>1. i \in DOMAIN q
      BY <1>4
    <3>2. i # Len(q) + 1
      BY <3>1, <1>2
    <3> QED BY <3>1, <3>2, <1>3
  <2>2. t.player \in P
    BY <2>1 DEF Queued
  <2>3. CASE j \in DOMAIN q /\ s[j] = q[j]
    BY <2>1, <2>3 DEF Behind
  <2>4. CASE s[j] = t
    BY <2>2, <2>4
  <2> QED BY <2>3, <2>4, <1>3
<1>8. LoadIsFirst(q) /\ t.op # "load" => LoadIsFirst(s)
  BY <1>3 DEF LoadIsFirst
<1> QED BY <1>1, <1>5, <1>6, <1>7, <1>8 DEF s

LEMMA FrontFacts ==
  ASSUME NEW q \in Seq(Task), NEW t \in Task
  PROVE  /\ <<t>> \o q \in Seq(Task)
         /\ \A P : OnlyFrom(q, P) /\ t.player \in P => OnlyFrom(<<t>> \o q, P)
         /\ \A o : Queued(<<t>> \o q, o) => Queued(q, o) \/ t.op = o
         /\ \A o, P : Behind(q, o, P) /\ t.op # o => Behind(<<t>> \o q, o, P)
         /\ ~Queued(q, "load") /\ t.op # "load" => LoadIsFirst(<<t>> \o q)
<1> DEFINE s == <<t>> \o q
<1>1. <<t>> \in Seq(Task) /\ Len(<<t>>) = 1 /\ <<t>>[1] = t
  OBVIOUS
<1>2. /\ s \in Seq(Task) /\ Len(s) = Len(q) + 1
      /\ \A i \in 1..Len(s) : s[i] = IF i <= 1 THEN <<t>>[i] ELSE q[i - 1]
  BY <1>1, ConcatProperties, LenProperties
<1>3. Len(q) \in Nat /\ DOMAIN q = 1..Len(q) /\ DOMAIN s = 1..Len(s)
  BY <1>2, LenProperties
<1>4. \A i \in DOMAIN s : (i = 1 /\ s[i] = t) \/ (i # 1 /\ i - 1 \in DOMAIN q /\ s[i] = q[i - 1])
  BY <1>1, <1>2, <1>3
<1>5. \A i, j \in DOMAIN s : i < j => j # 1 /\ i - 1 < j - 1
  BY <1>3
<1> HIDE DEF s
<1>6. \A P : OnlyFrom(q, P) /\ t.player \in P => OnlyFrom(s, P)
  BY <1>4 DEF OnlyFrom
<1>7. \A o : Queued(s, o) => Queued(q, o) \/ t.op = o
  BY <1>4 DEF Queued
<1>8. \A o, P : Behind(q, o, P) /\ t.op # o => Behind(s, o, P)
  <2> SUFFICES ASSUME NEW o, NEW P, Behind(q, o, P), t.op # o,
                      NEW i \in DOMAIN s, NEW j \in DOMAIN s, s[i].op = o, i < j
               PROVE  s[j].player \in P
    BY DEF Behind
  <2>1. i - 1 \in DOMAIN q /\ q[i - 1].op = o
    BY <1>4
  <2>2. j - 1 \in DOMAIN q /\ s[j] = q[j - 1] /\ i - 1 < j - 1
    BY <1>4, <1>5
  <2> QED BY <2>1, <2>2 DEF Behind
<1>9. ~Queued(q, "load") /\ t.op # "load" => LoadIsFirst(s)
  BY <1>4 DEF LoadIsFirst, Queued
<1> QED BY <1>2, <1>6, <1>7, <1>8, <1>9 DEF s

\* A larger set of players keeps what was said of the queue.
LEMMA Widen ==
  ASSUME NEW q, NEW P, NEW Q, P \subseteq Q
  PROVE  /\ OnlyFrom(q, P) => OnlyFrom(q, Q)
         /\ \A o : Behind(q, o, P) => Behind(q, o, Q)
BY DEF OnlyFrom, Behind

-----------------------------------------------------------------------------
(* Steps that leave the game and the queue alone                           *)

\* main moves on, or nobody does: nothing IInv speaks of changes but main.
LEMMA Quiet ==
  ASSUME IInv, TypeOK',
         UNCHANGED <<disp, queue, gameState, online, dirty, late, arriving>>,
         thread'["dispatcher"] = thread["dispatcher"],
         \/ main' = main
         \/ /\ main # "starting" /\ main' # "starting"
            /\ main' \in BeforeServing => main \in BeforeServing
            /\ main \in NoMoreServing => main' \in NoMoreServing
            /\ arriving # NoTask => main' = "serving"
  PROVE  IInv'
<1>1. LateOrServer' = LateOrServer
  BY DEF LateOrServer
<1>2. ClosedForPlayers'
  BY DEF IInv, ClosedForPlayers
<1>3. LoadingInv'
  BY DEF IInv, LoadingInv
<1>4. ServingInv'
  BY DEF IInv, ServingInv
<1>5. ShutdownInv'
  BY <1>1 DEF IInv, ShutdownInv
<1>6. TerminateInv'
  BY <1>1 DEF IInv, TerminateInv
<1> QED BY <1>2, <1>3, <1>4, <1>5, <1>6 DEF IInv

LEMMA SleeperKeeps ==
  ASSUME IInv, NEW t \in Sleepers, SleeperStep(t) \/ WakeForWork(t)
  PROVE  IInv'
<1>1. TypeOK'
  <2> USE DEF IInv, TypeOK, serviceVars, gameVars
  <2>1. CASE TestState(t)
    BY <2>1 DEF TestState
  <2>2. CASE FallAsleep(t)
    BY <2>2 DEF FallAsleep
  <2>3. CASE WakeNotified(t)
    BY <2>3 DEF WakeNotified
  <2>4. CASE WakeForWork(t)
    BY <2>4 DEF WakeForWork
  <2> QED BY <2>1, <2>2, <2>3, <2>4 DEF SleeperStep
<1>2. UNCHANGED <<main, disp, queue, thread, gameState, online, dirty, late, arriving>>
  BY DEF SleeperStep, TestState, FallAsleep, WakeNotified, WakeForWork, gameVars
<1> QED BY <1>1, <1>2, Quiet

LEMMA MainMovesOn ==
  ASSUME IInv, WaitForLoader \/ (\E b \in BOOLEAN : LoaderSignal(b)) \/ Serve \/ StopServing \/ Join
  PROVE  IInv'
<1>1. TypeOK'
  <2> USE DEF IInv, TypeOK, sleeperVars, serviceVars, gameVars, MainSteps, Ending
  <2>1. CASE WaitForLoader
    BY <2>1 DEF WaitForLoader
  <2>2. ASSUME NEW b \in BOOLEAN, LoaderSignal(b) PROVE TypeOK'
    BY <2>2 DEF LoaderSignal
  <2>3. CASE Serve
    BY <2>3 DEF Serve
  <2>4. CASE StopServing
    BY <2>4 DEF StopServing
  <2>5. CASE Join
    BY <2>5 DEF Join
  <2> QED BY <2>1, <2>2, <2>3, <2>4, <2>5
<1>2. UNCHANGED <<disp, queue, thread, gameState, online, dirty, late, arriving>>
  BY DEF WaitForLoader, LoaderSignal, Serve, StopServing, Join, gameVars
<1>3. /\ main # "starting" /\ main' # "starting"
      /\ main' \in BeforeServing => main \in BeforeServing
      /\ main \in NoMoreServing => main' \in NoMoreServing
      /\ arriving # NoTask => main' = "serving"
  BY DEF WaitForLoader, LoaderSignal, Serve, StopServing, Join, BeforeServing, NoMoreServing, Ending,
         IInv, ServingInv
<1> QED BY <1>1, <1>2, <1>3, Quiet

\* StartDatabase: one more thread, and the game does not know.
LEMMA DatabaseStarts ==
  ASSUME IInv, StartDatabase
  PROVE  IInv'
<1>1. TypeOK'
  BY DEF StartDatabase, SetThread, IInv, TypeOK, serviceVars, gameVars, Sleepers
<1>2. UNCHANGED <<main, disp, queue, gameState, online, dirty, late, arriving>>
  BY DEF StartDatabase, gameVars
<1>3. thread'["dispatcher"] = thread["dispatcher"]
  BY DEF StartDatabase, SetThread, IInv, TypeOK, Sleepers
<1> QED BY <1>1, <1>2, <1>3, Quiet

-----------------------------------------------------------------------------
(* The ends of the queue                                                   *)

\* Adding a server task that is neither load nor terminate, at either end.
LEMMA ServerTask ==
  ASSUME NEW o \in ServerOps
  PROVE  ForServer(o) \in Task /\ ForServer(o).op = o /\ ForServer(o).player = Nobody
BY DEF ForServer, Task

\* A task of Scheduler::shutdown and the like: what End leaves alone.
LEMMA EndChanges ==
  ASSUME IInv, NEW at \in Ending, End(at)
  PROVE  /\ thread' \in [Sleepers \cup {"dispatcher"} -> {"RUNNING", "CLOSING", "TERMINATED"}]
         /\ thread'["dispatcher"] = thread["dispatcher"]
         /\ woken' \in [Sleepers -> BOOLEAN]
         /\ at # "endDispatcher" => queue' = queue
         /\ at = "endDispatcher" => queue' = Append(queue, ForServer("terminate"))
         /\ NextEnding[at] \in Ending \/ NextEnding[at] = "done"
         /\ NextEnding[at] = "done" <=> at = "endDispatcher"
<1> USE DEF IInv, TypeOK, Sleepers
<1>1. CASE at = "endScheduler"
  BY <1>1 DEF End, SetThread, NextEnding, Ending
<1>2. CASE at = "wakeScheduler"
  BY <1>2 DEF End, NotifyThread, NextEnding, Ending
<1>3. CASE at = "endDatabase"
  BY <1>3 DEF End, SetThread, NextEnding, Ending
<1>4. CASE at = "wakeDatabase"
  BY <1>4 DEF End, NotifyThread, NextEnding, Ending
<1>5. CASE at = "endDispatcher"
  BY <1>5 DEF End, NextEnding, Ending
<1> QED BY <1>1, <1>2, <1>3, <1>4, <1>5 DEF Ending

\* What stays true of the queue when a server task is added to its back.
LEMMA ServerTaskBehind ==
  ASSUME IInv, NEW o \in ServerOps, queue' = Append(queue, ForServer(o)), UNCHANGED late
  PROVE  /\ queue' \in Seq(Task)
         /\ o # "load" => LoadIsFirst(queue')
         /\ \A x : Queued(queue', x) => Queued(queue, x) \/ x = o
         /\ OnlyFrom(queue, LateOrServer) => OnlyFrom(queue', LateOrServer')
         /\ OnlyFrom(queue, {Nobody}) => OnlyFrom(queue', {Nobody})
         /\ Behind(queue', "shutdown", LateOrServer')
         /\ Behind(queue', "terminate", {Nobody})
<1> DEFINE t == ForServer(o)
<1>1. queue \in Seq(Task) /\ t \in Task
  BY ServerTask DEF IInv, TypeOK
<1>2. t.op = o /\ t.player = Nobody
  BY ServerTask
<1>3. LateOrServer' = LateOrServer /\ Nobody \in LateOrServer
  BY DEF LateOrServer
<1>4. LoadIsFirst(queue) /\ Behind(queue, "shutdown", LateOrServer) /\ Behind(queue, "terminate", {Nobody})
  BY DEF IInv, LoadingInv, ShutdownInv, TerminateInv
<1>5. queue' = Append(queue, t)
  OBVIOUS
<1> HIDE DEF t
<1>6. queue' \in Seq(Task) /\ (o # "load" => LoadIsFirst(queue'))
  BY <1>1, <1>2, <1>4, <1>5, AppendFacts
<1>7. \A x : Queued(queue', x) => Queued(queue, x) \/ x = o
  BY <1>1, <1>2, <1>5, AppendFacts
<1>8. /\ OnlyFrom(queue, LateOrServer) => OnlyFrom(queue', LateOrServer')
      /\ OnlyFrom(queue, {Nobody}) => OnlyFrom(queue', {Nobody})
  BY <1>1, <1>2, <1>3, <1>5, AppendFacts
<1>9. Behind(queue', "shutdown", LateOrServer') /\ Behind(queue', "terminate", {Nobody})
  BY <1>1, <1>2, <1>3, <1>4, <1>5, AppendFacts
<1> QED BY <1>6, <1>7, <1>8, <1>9

LEMMA EndFromMainKeeps ==
  ASSUME IInv, EndFromMain
  PROVE  IInv'
<1>1. main \in Ending /\ End(main)
  BY DEF EndFromMain
<1>2. /\ thread'["dispatcher"] = thread["dispatcher"]
      /\ main # "endDispatcher" => queue' = queue
      /\ main = "endDispatcher" => queue' = Append(queue, ForServer("terminate"))
      /\ NextEnding[main] \in Ending \/ NextEnding[main] = "done"
      /\ NextEnding[main] = "done" <=> main = "endDispatcher"
  BY <1>1, EndChanges
<1>3. UNCHANGED <<disp, gameState, online, dirty, late, arriving>>
  BY DEF EndFromMain, gameVars
<1>4. main' \in Ending \cup {"joinScheduler"} /\ (main = "endDispatcher" => main' = "joinScheduler")
  BY <1>2 DEF EndFromMain
<1>5. online = {} /\ dirty = {} /\ OnlyFrom(queue, {Nobody})
  BY <1>1 DEF IInv, ServingInv, BeforeServing, TypeOK
<1>6. TypeOK'
  <2>1. queue' \in Seq(Task)
    <3>1. CASE main = "endDispatcher"
      BY <3>1, <1>2, ServerTask, AppendFacts DEF IInv, TypeOK, ServerOps
    <3>2. CASE main # "endDispatcher"
      BY <3>2, <1>2 DEF IInv, TypeOK
    <3> QED BY <3>1, <3>2
  <2>2. /\ thread' \in [Sleepers \cup {"dispatcher"} -> {"RUNNING", "CLOSING", "TERMINATED"}]
        /\ woken' \in [Sleepers -> BOOLEAN]
    BY <1>1, EndChanges
  <2> QED BY <2>1, <2>2, <1>3, <1>4 DEF EndFromMain, IInv, TypeOK, serviceVars, MainSteps
<1>7. CASE main # "endDispatcher"
  <2>1. /\ main # "starting" /\ main' # "starting"
        /\ main' \in BeforeServing => main \in BeforeServing
        /\ main \in NoMoreServing => main' \in NoMoreServing
        /\ arriving # NoTask => main' = "serving"
    BY <1>1, <1>4 DEF Ending, BeforeServing, NoMoreServing, IInv, ServingInv
  <2> QED BY <2>1, <1>7, <1>2, <1>3, <1>6, Quiet
<1>8. CASE main = "endDispatcher"
  <2>1. LateOrServer' = LateOrServer /\ Nobody \in LateOrServer
    BY <1>3 DEF LateOrServer
  <2>2. OnlyFrom(queue, LateOrServer)
    BY <1>5, <2>1, Widen
  <2>5. /\ OnlyFrom(queue', {Nobody}) /\ OnlyFrom(queue', LateOrServer)
        /\ LoadIsFirst(queue') /\ (Queued(queue', "load") => Queued(queue, "load"))
        /\ Queued(queue', "shutdown") => Queued(queue, "shutdown")
        /\ Behind(queue', "shutdown", LateOrServer)
        /\ Behind(queue', "terminate", {Nobody})
    BY <2>1, <2>2, <1>2, <1>3, <1>5, <1>8, ServerTaskBehind DEF ServerOps
  <2>10. main' = "joinScheduler"
    BY <1>4, <1>8
  <2>11. ClosedForPlayers'
    BY <1>3 DEF IInv, ClosedForPlayers
  <2>12. LoadingInv'
    BY <2>5, <2>10, <1>3, <1>8 DEF IInv, LoadingInv
  <2>13. ServingInv'
    BY <2>10, <1>1, <1>3, <1>8 DEF IInv, ServingInv, BeforeServing, Ending
  <2>14. ShutdownInv'
    BY <2>1, <2>5, <1>2, <1>3 DEF IInv, ShutdownInv
  <2>15. TerminateInv'
    BY <2>1, <2>5, <2>10, <1>3, <1>5 DEF TerminateInv, NoMoreServing
  <2> QED BY <1>6, <2>11, <2>12, <2>13, <2>14, <2>15 DEF IInv
<1> QED BY <1>7, <1>8


LEMMA EndFromGameKeeps ==
  ASSUME IInv, EndFromGame
  PROVE  IInv'
<1>1. disp \in Ending /\ End(disp)
  BY DEF EndFromGame
<1>2. /\ thread'["dispatcher"] = thread["dispatcher"]
      /\ queue' = queue \/ queue' = Append(queue, ForServer("terminate"))
      /\ NextEnding[disp] \in Ending \/ NextEnding[disp] = "done"
  BY <1>1, EndChanges
<1>3. UNCHANGED <<main, gameState, online, dirty, late, arriving>>
  BY DEF EndFromGame, gameVars
<1>4. disp' \in Ending \cup {"stopServices"}
  BY <1>2 DEF EndFromGame
<1>5. /\ gameState = "SHUTDOWN" /\ thread["dispatcher"] # "RUNNING"
      /\ OnlyFrom(queue, LateOrServer) /\ dirty \subseteq late
  BY <1>1 DEF IInv, ShutdownInv, ShuttingDown, Ending
<1>6. LateOrServer' = LateOrServer
  BY <1>3 DEF LateOrServer
<1>7. main # "starting" /\ disp # "idle" /\ ~Queued(queue, "load")
  BY <1>1 DEF IInv, LoadingInv, Ending
<1>8. /\ queue' \in Seq(Task) /\ LoadIsFirst(queue') /\ ~Queued(queue', "load")
      /\ OnlyFrom(queue, {Nobody}) => OnlyFrom(queue', {Nobody})
      /\ OnlyFrom(queue', LateOrServer)
      /\ Queued(queue', "shutdown") => Queued(queue, "shutdown")
      /\ Behind(queue', "shutdown", LateOrServer)
      /\ Behind(queue', "terminate", {Nobody})
  <2>1. CASE queue' = queue
    BY <2>1, <1>5, <1>7 DEF IInv, TypeOK, LoadingInv, ShutdownInv, TerminateInv
  <2>2. CASE queue' = Append(queue, ForServer("terminate"))
    BY <2>2, <1>3, <1>5, <1>6, <1>7, ServerTaskBehind DEF ServerOps
  <2> QED BY <2>1, <2>2, <1>2
<1>9. TypeOK'
  <2>1. /\ thread' \in [Sleepers \cup {"dispatcher"} -> {"RUNNING", "CLOSING", "TERMINATED"}]
        /\ woken' \in [Sleepers -> BOOLEAN]
    BY <1>1, EndChanges
  <2> QED BY <2>1, <1>3, <1>4, <1>8 DEF EndFromGame, IInv, TypeOK, serviceVars, Steps
<1>10. ClosedForPlayers'
  BY <1>3 DEF IInv, ClosedForPlayers
<1>11. LoadingInv'
  BY <1>3, <1>4, <1>7, <1>8 DEF LoadingInv, Ending
<1>12. ServingInv'
  BY <1>3, <1>8 DEF IInv, ServingInv
<1>13. ShutdownInv'
  BY <1>2, <1>3, <1>4, <1>5, <1>6, <1>8 DEF ShutdownInv, Ending
<1>14. TerminateInv'
  BY <1>2, <1>3, <1>4, <1>5, <1>6, <1>8 DEF TerminateInv, Ending
<1> QED BY <1>9, <1>10, <1>11, <1>12, <1>13, <1>14 DEF IInv

LEMMA StartLoaderKeeps ==
  ASSUME IInv, StartLoader
  PROVE  IInv'
<1>1. /\ main = "starting" /\ main' = "started"
      /\ UNCHANGED <<disp, thread, gameState, online, dirty, late, arriving>>
  BY DEF StartLoader, gameVars
<1>2. queue = <<>> /\ disp = "idle" /\ gameState = "STARTUP"
  BY <1>1 DEF IInv, LoadingInv
<1>3. LateOrServer' = LateOrServer
  BY <1>1 DEF LateOrServer
<1> DEFINE load == ForServer("load")
<1>4. load \in Task /\ load.op = "load" /\ load.player = Nobody
  BY ServerTask DEF ServerOps
<1> HIDE DEF load
<1>5. \A x : ~Queued(<<>>, x)
  BY DEF Queued
<1>6. CASE queue' = queue
  <2>1. TypeOK'
    BY <1>1, <1>6 DEF StartLoader, IInv, TypeOK, MainSteps, sleeperVars, serviceVars
  <2> QED BY <2>1, <1>1, <1>2, <1>3, <1>5, <1>6
          DEF IInv, ClosedForPlayers, LoadingInv, ServingInv, ShutdownInv, TerminateInv, BeforeServing
<1>7. CASE queue' = Append(queue, load)
  <2>1. queue' = <<load>>
    BY <1>2, <1>7
  <2>2. queue' \in Seq(Task) /\ DOMAIN queue' = {1} /\ queue'[1] = load
    BY <2>1, <1>4
  <2>3. LoadIsFirst(queue') /\ OnlyFrom(queue', {Nobody})
    BY <2>2, <1>4 DEF LoadIsFirst, OnlyFrom
  <2>4. \A x, P : x # "load" => ~Queued(queue', x) /\ Behind(queue', x, P)
    BY <2>2, <1>4 DEF Queued, Behind
  <2>5. TypeOK'
    BY <1>1, <2>2 DEF StartLoader, IInv, TypeOK, MainSteps, sleeperVars, serviceVars
  <2>6. ClosedForPlayers' /\ LoadingInv'
    BY <1>1, <1>2, <2>3, <2>4 DEF IInv, ClosedForPlayers, LoadingInv
  <2>7. ServingInv'
    BY <1>1, <2>3 DEF IInv, ServingInv, BeforeServing
  <2>8. ShutdownInv' /\ TerminateInv'
    BY <1>1, <1>2, <2>4, <2>3 DEF ShutdownInv, TerminateInv, Stopping, ShuttingDown, Ending
  <2> QED BY <2>5, <2>6, <2>7, <2>8 DEF IInv
<1> QED BY <1>6, <1>7 DEF StartLoader, Enqueue, load

-----------------------------------------------------------------------------
(* Steps of the dispatcher inside a task                                   *)

LEMMA LoaderKeeps ==
  ASSUME IInv, LoadFails \/ LoaderStep
  PROVE  IInv'
<1>1. /\ UNCHANGED <<main, queue, thread, online, dirty, late, arriving>>
      /\ disp \in {"load", "loaded", "signalLoader"}
      /\ disp' \in {"idle", "loaded", "signalLoader"}
      /\ disp' = "loaded" => disp = "load" /\ gameState' = "INIT"
      /\ disp = "loaded" => disp' = "signalLoader" /\ gameState' = "NORMAL"
      /\ disp # "loaded" /\ disp' # "loaded" => gameState' = gameState
  BY DEF LoadFails, LoaderStep, LoadSucceeds, GoOnline, SignalLoader, gameVars
<1>2. LateOrServer' = LateOrServer
  BY <1>1 DEF LateOrServer
<1>3. ~Queued(queue, "load") /\ main # "starting"
  BY <1>1 DEF IInv, LoadingInv
<1>4. gameState # "SHUTDOWN" \/ gameState' = gameState
  BY <1>1 DEF IInv, LoadingInv
<1>5. ~Queued(queue, "shutdown") \/ gameState' = gameState
  BY <1>4 DEF IInv, ShutdownInv
<1>6. TypeOK'
  BY <1>1 DEF LoadFails, LoaderStep, LoadSucceeds, GoOnline, SignalLoader, NotifyLoader, IInv, TypeOK,
              Steps, GameStates, sleeperVars, serviceVars, gameVars
<1>7. ClosedForPlayers'
  BY <1>1 DEF IInv, ClosedForPlayers
<1>8. LoadingInv'
  BY <1>1, <1>3 DEF IInv, LoadingInv
<1>9. ServingInv'
  BY <1>1 DEF IInv, ServingInv
<1>10. ShutdownInv'
  BY <1>1, <1>2, <1>5 DEF IInv, ShutdownInv, Stopping, ShuttingDown, Ending
<1>11. TerminateInv'
  BY <1>1, <1>2 DEF IInv, TerminateInv
<1> QED BY <1>6, <1>7, <1>8, <1>9, <1>10, <1>11 DEF IInv

LEMMA KickAllKeeps ==
  ASSUME IInv, KickAll
  PROVE  IInv'
<1>1. /\ UNCHANGED <<main, queue, thread, gameState, late, arriving>>
      /\ disp = "kick" /\ disp' = "post" /\ online' = {} /\ dirty' = {}
  BY DEF KickAll, NextClosing
<1>2. LateOrServer' = LateOrServer
  BY <1>1 DEF LateOrServer
<1>3. TypeOK'
  BY <1>1 DEF KickAll, IInv, TypeOK, Steps, sleeperVars, serviceVars
<1>4. ClosedForPlayers' /\ LoadingInv' /\ ServingInv'
  BY <1>1 DEF IInv, ClosedForPlayers, LoadingInv, ServingInv
<1>5. ShutdownInv'
  BY <1>1, <1>2 DEF IInv, ShutdownInv, Stopping, ShuttingDown, Ending
<1>6. TerminateInv'
  BY <1>1, <1>2 DEF IInv, TerminateInv
<1> QED BY <1>3, <1>4, <1>5, <1>6 DEF IInv

LEMMA PostShutdownKeeps ==
  ASSUME IInv, PostShutdown
  PROVE  IInv'
<1>1. /\ UNCHANGED <<main, thread, gameState, online, dirty, late, arriving>>
      /\ disp = "post" /\ disp' = "stopScheduler"
      /\ queue' = queue \/ queue' = Append(queue, ForServer("shutdown"))
  BY DEF PostShutdown, NextClosing, Enqueue, gameVars
<1>2. LateOrServer' = LateOrServer
  BY <1>1 DEF LateOrServer
<1>3. gameState = "SHUTDOWN" /\ ~Queued(queue, "load") /\ main # "starting"
  BY <1>1 DEF IInv, LoadingInv, ShutdownInv
<1>4. /\ queue' \in Seq(Task) /\ LoadIsFirst(queue') /\ ~Queued(queue', "load")
      /\ OnlyFrom(queue, {Nobody}) => OnlyFrom(queue', {Nobody})
      /\ OnlyFrom(queue, LateOrServer) => OnlyFrom(queue', LateOrServer)
      /\ Queued(queue', "terminate") => Queued(queue, "terminate")
      /\ Behind(queue', "shutdown", LateOrServer)
      /\ Behind(queue', "terminate", {Nobody})
  <2>1. CASE queue' = queue
    BY <2>1, <1>3 DEF IInv, TypeOK, LoadingInv, ShutdownInv, TerminateInv
  <2>2. CASE queue' = Append(queue, ForServer("shutdown"))
    BY <2>2, <1>1, <1>2, <1>3, ServerTaskBehind DEF ServerOps
  <2> QED BY <2>1, <2>2, <1>1
<1>5. TypeOK'
  BY <1>1, <1>4 DEF PostShutdown, IInv, TypeOK, Steps, sleeperVars, serviceVars
<1>6. ClosedForPlayers' /\ LoadingInv' /\ ServingInv'
  BY <1>1, <1>3, <1>4 DEF IInv, ClosedForPlayers, LoadingInv, ServingInv
<1>7. ShutdownInv'
  BY <1>1, <1>2, <1>3, <1>4 DEF ShutdownInv, Stopping, ShuttingDown, Ending
<1>8. TerminateInv'
  BY <1>1, <1>2, <1>4 DEF IInv, TerminateInv
<1> QED BY <1>5, <1>6, <1>7, <1>8 DEF IInv

LEMMA StopThreadKeeps ==
  ASSUME IInv, StopThread
  PROVE  IInv'
<1>1. /\ UNCHANGED <<main, queue, gameState, online, dirty, late, arriving>>
      /\ disp \in Stopping /\ disp' \in Stopping \cup {"idle"}
      /\ disp' = "idle" => disp = "stopDispatcher"
  BY DEF StopThread, NextClosing, Stopping, gameVars
<1>2. /\ thread' \in [Sleepers \cup {"dispatcher"} -> {"RUNNING", "CLOSING", "TERMINATED"}]
      /\ disp = "stopDispatcher" => thread'["dispatcher"] = "CLOSING"
      /\ disp # "stopDispatcher" => thread'["dispatcher"] = thread["dispatcher"]
  BY DEF StopThread, SetThread, IInv, TypeOK, Sleepers
<1>3. thread'["dispatcher"] = "RUNNING" => thread["dispatcher"] = "RUNNING"
  BY <1>2
<1>4. LateOrServer' = LateOrServer
  BY <1>1 DEF LateOrServer
<1>5. TypeOK'
  BY <1>1, <1>2 DEF StopThread, IInv, TypeOK, Steps, Stopping, sleeperVars, serviceVars
<1>6. ClosedForPlayers' /\ LoadingInv' /\ ServingInv'
  BY <1>1 DEF IInv, ClosedForPlayers, LoadingInv, ServingInv, Stopping
<1>7. ShutdownInv'
  BY <1>1, <1>2, <1>4 DEF IInv, ShutdownInv, Stopping, ShuttingDown, Ending
<1>8. TerminateInv'
  BY <1>1, <1>3, <1>4 DEF IInv, TerminateInv, Stopping
<1> QED BY <1>5, <1>6, <1>7, <1>8 DEF IInv

\* The final save, StopServices and the end of a save.
LEMMA GameStepKeeps ==
  ASSUME IInv, FinalSave \/ StopServices \/ EndSave
  PROVE  IInv'
<1>1. /\ UNCHANGED <<main, queue, thread, online, late, arriving>>
      /\ dirty' \subseteq dirty
      /\ \/ disp = "shutdown" /\ disp' = "endScheduler" /\ gameState' = gameState /\ dirty' = dirty \ online
         \/ disp = "stopServices" /\ disp' = "idle" /\ gameState' = gameState
         \/ disp = "saving" /\ disp' = "idle" /\ gameState' = "NORMAL"
  BY DEF FinalSave, StopServices, EndSave, gameVars
<1>2. LateOrServer' = LateOrServer
  BY <1>1 DEF LateOrServer
<1>3. disp = "saving" => gameState = "MAINTAIN" /\ ~Queued(queue, "shutdown")
  BY DEF IInv, LoadingInv, ShutdownInv
<1>4. ~Queued(queue, "load") /\ main # "starting"
  BY <1>1 DEF IInv, LoadingInv
<1>5. disp = "shutdown" => dirty' = {}
  BY <1>1 DEF IInv, TypeOK
<1>6. TypeOK'
  BY <1>1 DEF FinalSave, StopServices, EndSave, IInv, TypeOK, Steps, Ending, GameStates, sleeperVars, serviceVars, gameVars
<1>7. ClosedForPlayers' /\ LoadingInv' /\ ServingInv'
  BY <1>1, <1>4 DEF IInv, ClosedForPlayers, LoadingInv, ServingInv
<1>8. ShutdownInv'
  BY <1>1, <1>2, <1>3, <1>5 DEF IInv, ShutdownInv, Stopping, ShuttingDown, Ending
<1>9. TerminateInv'
  BY <1>1, <1>2 DEF IInv, TerminateInv
<1> QED BY <1>6, <1>7, <1>8, <1>9 DEF IInv

-----------------------------------------------------------------------------
(* The dispatcher takes a task                                             *)

LEMMA TakeTask ==
  ASSUME IInv, NEW o, Run(o), UNCHANGED late
  PROVE  /\ disp = "idle" /\ queue \in Seq(Task) /\ queue # <<>> /\ main # "starting"
         /\ Head(queue) \in Task /\ Head(queue).op = o /\ Queued(queue, o)
         /\ LateOrServer' = LateOrServer
         /\ queue' \in Seq(Task) /\ ~Queued(queue', "load") /\ LoadIsFirst(queue')
         /\ \A x : Queued(queue', x) => Queued(queue, x)
         /\ \A P : OnlyFrom(queue, P) => OnlyFrom(queue', P) /\ Subject \in P
         /\ Behind(queue', "shutdown", LateOrServer)
         /\ Behind(queue', "terminate", {Nobody})
         /\ o = "shutdown" => OnlyFrom(queue', LateOrServer)
         /\ o = "terminate" => OnlyFrom(queue', {Nobody})
<1>1. disp = "idle" /\ queue # <<>> /\ Head(queue).op = o /\ queue' = Tail(queue) /\ queue \in Seq(Task)
  BY DEF Run, IInv, TypeOK
<1>2. LateOrServer' = LateOrServer
  BY DEF LateOrServer
<1>3. LoadIsFirst(queue) /\ Behind(queue, "shutdown", LateOrServer) /\ Behind(queue, "terminate", {Nobody})
  BY DEF IInv, LoadingInv, ShutdownInv, TerminateInv
<1>4. main # "starting"
  BY <1>1 DEF IInv, LoadingInv
<1>5. ~Queued(queue', "load") /\ LoadIsFirst(queue')
  <2>1. ~Queued(queue', "load")
    BY <1>1, <1>3, TailFacts
  <2> QED BY <2>1 DEF Queued, LoadIsFirst
<1>6. /\ queue' \in Seq(Task) /\ Head(queue) \in Task /\ Queued(queue, o)
      /\ \A x : Queued(queue', x) => Queued(queue, x)
  BY <1>1, TailFacts
<1>7. \A P : OnlyFrom(queue, P) => OnlyFrom(queue', P) /\ Subject \in P
  BY <1>1, TailFacts DEF Subject
<1>8. Behind(queue', "shutdown", LateOrServer) /\ Behind(queue', "terminate", {Nobody})
  BY <1>1, <1>3, TailFacts
<1>9. /\ o = "shutdown" => OnlyFrom(queue', LateOrServer)
      /\ o = "terminate" => OnlyFrom(queue', {Nobody})
  BY <1>1, <1>3, TailFacts
<1> QED BY <1>1, <1>2, <1>4, <1>5, <1>6, <1>7, <1>8, <1>9

\* A task that leaves the threads alone and touches only the player it is for.
LEMMA PlayerTask ==
  ASSUME IInv, NEW o, Run(o), UNCHANGED <<main, thread, late, arriving>>,
         TypeOK', ClosedForPlayers',
         disp' = "idle" \/ (disp' = "saving" /\ gameState' = "MAINTAIN"),
         gameState = "SHUTDOWN" => gameState' = gameState,
         online' \subseteq online \cup ({Subject} \cap Players),
         dirty' \subseteq dirty \cup ({Subject} \cap Players)
  PROVE  IInv'
<1>1. /\ disp = "idle" /\ queue \in Seq(Task) /\ main # "starting"
      /\ LateOrServer' = LateOrServer
      /\ ~Queued(queue', "load") /\ LoadIsFirst(queue')
      /\ \A x : Queued(queue', x) => Queued(queue, x)
      /\ \A P : OnlyFrom(queue, P) => OnlyFrom(queue', P) /\ Subject \in P
      /\ Behind(queue', "shutdown", LateOrServer)
      /\ Behind(queue', "terminate", {Nobody})
  BY TakeTask
<1>2. LoadingInv'
  BY <1>1 DEF LoadingInv
<1>3. ServingInv'
  <2>1. ASSUME main \in BeforeServing PROVE online' = {} /\ OnlyFrom(queue', {Nobody})
    <3>1. online = {} /\ OnlyFrom(queue, {Nobody})
      BY <2>1 DEF IInv, ServingInv
    <3>2. Subject = Nobody /\ OnlyFrom(queue', {Nobody})
      BY <3>1, <1>1
    <3> QED BY <3>1, <3>2, LifecycleAssumption
  <2> QED BY <2>1 DEF IInv, ServingInv
<1>4. ShutdownInv'
  BY <1>1 DEF IInv, ShutdownInv, Stopping, ShuttingDown, Ending
<1>5. TerminateInv'
  <2>1. ASSUME Queued(queue', "terminate")
        PROVE  /\ dirty' \subseteq late /\ OnlyFrom(queue', LateOrServer)
               /\ thread["dispatcher"] = "RUNNING" => main \in NoMoreServing
    <3>1. /\ dirty \subseteq late /\ OnlyFrom(queue, LateOrServer)
          /\ thread["dispatcher"] = "RUNNING" => main \in NoMoreServing
      BY <2>1, <1>1 DEF IInv, TerminateInv
    <3>2. Subject \in LateOrServer /\ OnlyFrom(queue', LateOrServer)
      BY <3>1, <1>1
    <3> QED BY <3>1, <3>2, LifecycleAssumption DEF LateOrServer
  <2> QED BY <2>1, <1>1 DEF TerminateInv
<1> QED BY <1>2, <1>3, <1>4, <1>5 DEF IInv

LEMMA PlayerTasksKeep ==
  ASSUME IInv, RunLogin \/ RunPlay \/ RunLogout \/ RunClose \/ RunOpen \/ RunSave
  PROVE  IInv'
<1> USE DEF CanEnter, gameVars
<1>1. PICK o : Run(o)
  BY DEF RunLogin, RunPlay, RunLogout, RunClose, RunOpen, RunSave
<1>2. UNCHANGED <<main, thread, sleeperVars, serviceVars, late, arriving>>
  BY DEF RunLogin, RunPlay, RunLogout, RunClose, RunOpen, RunSave
<1>3. disp = "idle" /\ queue' \in Seq(Task) /\ Subject \in Players \cup {Nobody}
  BY <1>1, <1>2, TakeTask DEF Subject, Task
<1>4. disp' = "idle" \/ (disp' = "saving" /\ gameState' = "MAINTAIN")
  BY <1>3 DEF RunLogin, RunPlay, RunLogout, RunClose, RunOpen, RunSave
<1>5. gameState' \in GameStates /\ (gameState = "SHUTDOWN" => gameState' = gameState)
  BY DEF RunLogin, RunPlay, RunLogout, RunClose, RunOpen, RunSave, IInv, TypeOK, GameStates
<1>6. /\ Subject \in Players \/ Subject = Nobody
      /\ online' \subseteq online \cup ({Subject} \cap Players)
      /\ dirty' \subseteq dirty \cup ({Subject} \cap Players)
      /\ dirty' \subseteq online'
      /\ ClosedForPlayers'
  <2> USE DEF IInv, TypeOK, ClosedForPlayers
  <2>1. CASE RunLogin
    <3>1. Subject \in Players
      BY <2>1, <1>2, TakeTask DEF RunLogin, Subject, Task, ServerOps
    <3> QED BY <2>1, <3>1 DEF RunLogin, MayEnter
  <2>2. CASE RunPlay
    BY <2>2, <1>3 DEF RunPlay
  <2>3. CASE RunLogout
    BY <2>3, <1>3 DEF RunLogout
  <2>4. CASE RunClose
    BY <2>4, <1>3 DEF RunClose, KeptOnClose
  <2>5. CASE RunOpen
    BY <2>5, <1>3 DEF RunOpen
  <2>6. CASE RunSave
    BY <2>6, <1>3 DEF RunSave
  <2> QED BY <2>1, <2>2, <2>3, <2>4, <2>5, <2>6, <1>3
<1>7. TypeOK'
  <2>1. online' \subseteq Players
    BY <1>6 DEF IInv, TypeOK
  <2> QED BY <2>1, <1>2, <1>3, <1>4, <1>5, <1>6 DEF IInv, TypeOK, Steps, sleeperVars, serviceVars
<1> QED BY <1>1, <1>2, <1>4, <1>5, <1>6, <1>7, PlayerTask

\* The tasks that start the loader, a shutdown, or the end of the thread.
LEMMA ServerTasksKeep ==
  ASSUME IInv, RunLoader \/ RunSignal \/ RunShutdown \/ RunTerminate
  PROVE  IInv'
<1>1. PICK o \in {"load", "signal", "shutdown", "terminate"} : Run(o) /\
         \/ o = "load" /\ RunLoader
         \/ o = "signal" /\ RunSignal
         \/ o = "shutdown" /\ RunShutdown
         \/ o = "terminate" /\ RunTerminate
  BY DEF RunLoader, RunSignal, RunShutdown, RunTerminate
<1>2. UNCHANGED <<main, sleeperVars, serviceVars, online, dirty, late, arriving>>
  BY DEF RunLoader, RunSignal, RunShutdown, RunTerminate, gameVars
<1>3. /\ disp = "idle" /\ main # "starting" /\ Queued(queue, o)
      /\ LateOrServer' = LateOrServer
      /\ queue' \in Seq(Task) /\ ~Queued(queue', "load") /\ LoadIsFirst(queue')
      /\ \A x : Queued(queue', x) => Queued(queue, x)
      /\ \A P : OnlyFrom(queue, P) => OnlyFrom(queue', P)
      /\ Behind(queue', "shutdown", LateOrServer)
      /\ Behind(queue', "terminate", {Nobody})
      /\ o = "shutdown" => OnlyFrom(queue', LateOrServer)
      /\ o = "terminate" => OnlyFrom(queue', {Nobody})
  BY <1>1, <1>2, TakeTask
<1>4. ServingInv'
  BY <1>2, <1>3 DEF IInv, ServingInv
<1>5. CASE RunLoader /\ o = "load"
  <2>1. thread' = thread /\ disp' = "load" /\ gameState' = "STARTUP" /\ gameState = "STARTUP"
    BY <1>3, <1>5 DEF RunLoader, IInv, LoadingInv
  <2>2. TypeOK' /\ ClosedForPlayers' /\ LoadingInv'
    BY <1>2, <1>3, <2>1 DEF IInv, TypeOK, ClosedForPlayers, LoadingInv, Steps, GameStates, sleeperVars, serviceVars
  <2>3. ShutdownInv' /\ TerminateInv'
    BY <1>2, <1>3, <2>1 DEF IInv, ShutdownInv, TerminateInv, Stopping, ShuttingDown, Ending
  <2> QED BY <2>2, <2>3, <1>4 DEF IInv
<1>6. CASE RunSignal
  <2>1. /\ thread' = thread
        /\ \/ gameState # "SHUTDOWN" /\ gameState' = "SHUTDOWN" /\ disp' = "kick"
           \/ gameState' = gameState /\ disp' = "idle"
    BY <1>3, <1>6 DEF RunSignal, CanEnter
  <2>2. TypeOK' /\ ClosedForPlayers' /\ LoadingInv'
    BY <1>2, <1>3, <2>1 DEF IInv, TypeOK, ClosedForPlayers, LoadingInv, Steps, GameStates, sleeperVars, serviceVars
  <2>3. ShutdownInv'
    BY <1>2, <1>3, <2>1 DEF IInv, ShutdownInv, Stopping, ShuttingDown, Ending
  <2>4. TerminateInv'
    BY <1>2, <1>3, <2>1 DEF IInv, TerminateInv
  <2> QED BY <2>2, <2>3, <2>4, <1>4 DEF IInv
<1>7. CASE RunShutdown /\ o = "shutdown"
  <2>1. thread' = thread /\ disp' = "shutdown" /\ gameState' = gameState
    BY <1>7 DEF RunShutdown, gameVars
  <2>2. gameState = "SHUTDOWN" /\ thread["dispatcher"] # "RUNNING" /\ OnlyFrom(queue', LateOrServer)
    BY <1>3, <1>7 DEF IInv, ShutdownInv, Stopping
  <2>3. TypeOK' /\ ClosedForPlayers' /\ LoadingInv'
    BY <1>2, <1>3, <2>1 DEF IInv, TypeOK, ClosedForPlayers, LoadingInv, Steps, sleeperVars, serviceVars
  <2>4. ShutdownInv'
    BY <1>2, <1>3, <2>1, <2>2 DEF ShutdownInv, Stopping, ShuttingDown, Ending
  <2>5. TerminateInv'
    BY <1>2, <1>3, <2>1 DEF IInv, TerminateInv
  <2> QED BY <2>3, <2>4, <2>5, <1>4 DEF IInv
<1>8. CASE RunTerminate /\ o = "terminate"
  <2>1. disp' = "ended" /\ gameState' = gameState
    BY <1>8 DEF RunTerminate, gameVars
  <2>2. /\ thread' \in [Sleepers \cup {"dispatcher"} -> {"RUNNING", "CLOSING", "TERMINATED"}]
        /\ thread'["dispatcher"] = "TERMINATED"
    BY <1>8 DEF RunTerminate, SetThread, IInv, TypeOK, Sleepers
  <2>3. dirty \subseteq late /\ OnlyFrom(queue', LateOrServer) /\ OnlyFrom(queue', {Nobody})
    BY <1>3, <1>8 DEF IInv, TerminateInv
  <2>4. TypeOK' /\ ClosedForPlayers' /\ LoadingInv'
    BY <1>2, <1>3, <2>1, <2>2 DEF IInv, TypeOK, ClosedForPlayers, LoadingInv, Steps, sleeperVars, serviceVars
  <2>5. ShutdownInv'
    BY <1>2, <1>3, <2>1, <2>2 DEF IInv, ShutdownInv, Stopping, ShuttingDown, Ending
  <2>6. TerminateInv'
    BY <1>2, <1>3, <2>1, <2>2, <2>3 DEF TerminateInv
  <2> QED BY <2>4, <2>5, <2>6, <1>4 DEF IInv
<1> QED BY <1>1, <1>5, <1>6, <1>7, <1>8

-----------------------------------------------------------------------------
(* The network and the scheduler                                           *)

LEMMA ArrivesKeeps ==
  ASSUME IInv, NEW t \in NetworkTask, Arrives(t)
  PROVE  IInv'
<1>1. UNCHANGED <<main, disp, queue, thread, sleeperVars, serviceVars, gameVars, late>>
  BY DEF Arrives
<1>2. LateOrServer' = LateOrServer
  BY <1>1 DEF LateOrServer
<1>3. TypeOK' /\ ClosedForPlayers' /\ LoadingInv'
  BY <1>1 DEF Arrives, IInv, TypeOK, ClosedForPlayers, LoadingInv, sleeperVars, serviceVars, gameVars
<1>4. ServingInv'
  BY <1>1 DEF Arrives, IInv, ServingInv, gameVars
<1>5. ShutdownInv' /\ TerminateInv'
  BY <1>1, <1>2 DEF IInv, ShutdownInv, TerminateInv, gameVars
<1> QED BY <1>3, <1>4, <1>5 DEF IInv

LEMMA NetworkKeeps ==
  ASSUME IInv, NetworkInput
  PROVE  IInv'
<1>1. ASSUME NEW p \in Players, FirstMessage(p) PROVE IInv'
  BY <1>1, ArrivesKeeps DEF FirstMessage, ForPlayer, Task, NetworkTask, PlayerOps
<1>2. ASSUME NEW p \in Players, NEW o \in PlayerOps, Packet(p, o) PROVE IInv'
  BY <1>2, ArrivesKeeps DEF Packet, ForPlayer, Task, NetworkTask, PlayerOps
<1>3. ASSUME NEW o \in ServerOps, Signal(o) PROVE IInv'
  BY <1>3, ServerTask, ArrivesKeeps DEF Signal, NetworkTask
<1> QED BY <1>1, <1>2, <1>3 DEF NetworkInput

LEMMA EventDueKeeps ==
  ASSUME IInv, NEW o \in ServerOps, EventDue(o)
  PROVE  IInv'
<1>1. /\ UNCHANGED <<main, disp, thread, gameState, online, dirty, late, arriving>>
      /\ o \in {"save", "signal"} /\ gameState # "STARTUP" /\ sleeper["scheduler"] = "asleep"
      /\ queue' = queue \/ queue' = <<ForServer(o)>> \o queue
  BY DEF EventDue, EnqueueFront, gameVars
<1>2. LateOrServer' = LateOrServer /\ Nobody \in LateOrServer
  BY <1>1 DEF LateOrServer
<1>3. ~Queued(queue, "load") /\ main # "starting"
  BY <1>1 DEF IInv, LoadingInv
<1> DEFINE t == ForServer(o)
<1>4. t \in Task /\ t.op = o /\ t.player = Nobody
  BY ServerTask
<1> HIDE DEF t
<1>5. /\ queue' \in Seq(Task) /\ LoadIsFirst(queue') /\ ~Queued(queue', "load")
      /\ OnlyFrom(queue, {Nobody}) => OnlyFrom(queue', {Nobody})
      /\ OnlyFrom(queue, LateOrServer) => OnlyFrom(queue', LateOrServer)
      /\ Queued(queue', "shutdown") => Queued(queue, "shutdown")
      /\ Queued(queue', "terminate") => Queued(queue, "terminate")
      /\ Behind(queue', "shutdown", LateOrServer)
      /\ Behind(queue', "terminate", {Nobody})
  <2>1. CASE queue' = queue
    BY <2>1, <1>3 DEF IInv, TypeOK, LoadingInv, ShutdownInv, TerminateInv
  <2>2. CASE queue' = <<t>> \o queue
    <3>1. /\ queue \in Seq(Task) /\ Behind(queue, "shutdown", LateOrServer)
          /\ Behind(queue, "terminate", {Nobody})
      BY DEF IInv, TypeOK, ShutdownInv, TerminateInv
    <3>2. t.op # "load" /\ t.op # "shutdown" /\ t.op # "terminate"
      BY <1>1, <1>4
    <3> QED BY <2>2, <3>1, <3>2, <1>2, <1>3, <1>4, FrontFacts
  <2> QED BY <2>1, <2>2, <1>1 DEF t
<1>6. TypeOK'
  BY <1>1, <1>5 DEF EventDue, IInv, TypeOK, serviceVars, Sleepers
<1>7. ClosedForPlayers' /\ LoadingInv' /\ ServingInv'
  BY <1>1, <1>3, <1>5 DEF IInv, ClosedForPlayers, LoadingInv, ServingInv
<1>8. ShutdownInv'
  BY <1>1, <1>2, <1>5 DEF IInv, ShutdownInv
<1>9. TerminateInv'
  BY <1>1, <1>2, <1>5 DEF IInv, TerminateInv
<1> QED BY <1>6, <1>7, <1>8, <1>9 DEF IInv

LEMMA AddTaskKeeps ==
  ASSUME IInv, AddTask
  PROVE  IInv'
<1>1. /\ UNCHANGED <<main, disp, thread, gameState, online, dirty>>
      /\ arriving \in Task /\ arriving' = NoTask /\ main = "serving"
      /\ late' = IF Posted THEN late \cup ({arriving.player} \cap Players) ELSE late
  BY DEF AddTask, IInv, TypeOK, NetworkTask, ServingInv, gameVars
<1>2. late \subseteq late' /\ late' \subseteq Players /\ LateOrServer \subseteq LateOrServer'
  BY <1>1 DEF LateOrServer, IInv, TypeOK
<1>3. queue \in Seq(Task) /\ LoadIsFirst(queue) /\ Behind(queue, "terminate", {Nobody})
  BY DEF IInv, TypeOK, LoadingInv, TerminateInv
<1>4. Behind(queue, "shutdown", LateOrServer') /\ (OnlyFrom(queue, LateOrServer) => OnlyFrom(queue, LateOrServer'))
  BY <1>2, Widen DEF IInv, ShutdownInv
<1>5. main \notin BeforeServing /\ main \notin NoMoreServing
  BY <1>1 DEF BeforeServing, NoMoreServing, Ending
<1>6. CASE thread["dispatcher"] # "RUNNING"
  <2>1. queue' = queue
    BY <1>6 DEF AddTask, Enqueue
  <2>2. TypeOK' /\ ClosedForPlayers' /\ LoadingInv' /\ ServingInv'
    BY <2>1, <1>1, <1>2, <1>5 DEF AddTask, IInv, TypeOK, ClosedForPlayers, LoadingInv, ServingInv,
       sleeperVars, serviceVars
  <2>3. ShutdownInv'
    BY <2>1, <1>1, <1>2, <1>4 DEF IInv, ShutdownInv
  <2>4. TerminateInv'
    BY <2>1, <1>1, <1>2, <1>3, <1>4, <1>6 DEF IInv, TerminateInv
  <2> QED BY <2>2, <2>3, <2>4 DEF IInv
<1>7. CASE thread["dispatcher"] = "RUNNING"
  <2> DEFINE t == arriving
  <2>1. queue' = Append(queue, t) /\ t \in Task
    BY <1>1, <1>7 DEF AddTask, Enqueue
  <2>2. ~Queued(queue, "terminate") /\ disp # "ended" /\ disp \notin ShuttingDown
    BY <1>5, <1>7 DEF IInv, ShutdownInv, TerminateInv
  <2>3. Queued(queue, "shutdown") => Posted
    BY DEF IInv, ShutdownInv, Posted
  <2>4. Posted => t.player \in LateOrServer'
    BY <1>1 DEF LateOrServer, Task
  <2>5. t.op \notin {"load", "shutdown", "terminate"}
    BY <1>1 DEF AddTask, IInv, TypeOK, NetworkTask
  <2> HIDE DEF t
  <2>6. /\ queue' \in Seq(Task) /\ LoadIsFirst(queue')
        /\ \A o : Queued(queue', o) => Queued(queue, o) \/ t.op = o
    BY <2>1, <2>5, <1>3, AppendFacts
  <2>7. Behind(queue', "terminate", {Nobody})
    BY <2>1, <2>2, <1>3, AppendFacts
  <2>8. Behind(queue', "shutdown", LateOrServer')
    BY <2>1, <2>3, <2>4, <1>3, <1>4, AppendFacts
  <2>9. TypeOK'
    BY <2>6, <1>1, <1>2 DEF AddTask, IInv, TypeOK, sleeperVars, serviceVars
  <2>10. ClosedForPlayers' /\ LoadingInv' /\ ServingInv'
    BY <2>5, <2>6, <1>1, <1>5 DEF IInv, ClosedForPlayers, LoadingInv, ServingInv
  <2>11. ShutdownInv'
    BY <2>2, <2>5, <2>6, <2>8, <1>1 DEF IInv, ShutdownInv
  <2>12. TerminateInv'
    BY <2>2, <2>5, <2>6, <2>7, <1>1 DEF TerminateInv
  <2> QED BY <2>9, <2>10, <2>11, <2>12 DEF IInv
<1> QED BY <1>6, <1>7

-----------------------------------------------------------------------------
LEMMA InitIInv == Init => IInv
<1> SUFFICES ASSUME Init PROVE IInv
  OBVIOUS
<1>1. \A x, P : ~Queued(queue, x) /\ OnlyFrom(queue, P) /\ Behind(queue, x, P) /\ LoadIsFirst(queue)
  BY DEF Init, Queued, OnlyFrom, Behind, LoadIsFirst
<1>2. /\ thread \in [Sleepers \cup {"dispatcher"} -> {"RUNNING", "CLOSING", "TERMINATED"}]
      /\ sleeper \in [Sleepers -> {"unstarted", "test", "lock", "asleep", "ended"}]
      /\ woken \in [Sleepers -> BOOLEAN]
  BY DEF Init
<1>3. queue \in Seq(Task)
  BY DEF Init
<1>4. TypeOK
  BY <1>2, <1>3 DEF Init, TypeOK, MainSteps, Steps, GameStates
<1> QED BY <1>1, <1>4 DEF Init, IInv, ClosedForPlayers, LoadingInv, ServingInv, ShutdownInv, TerminateInv,
           Stopping, ShuttingDown, Ending

LEMMA NextIInv == IInv /\ [Next]_vars => IInv'
<1> SUFFICES ASSUME IInv, [Next]_vars PROVE IInv'
  OBVIOUS
<1>1. CASE MainStep \/ LoaderSignal(TRUE) \/ StopServing
  BY <1>1, StartLoaderKeeps, MainMovesOn, EndFromMainKeeps DEF MainStep
<1>2. CASE DispatcherStep
  BY <1>2, LoaderKeeps, PlayerTasksKeep, ServerTasksKeep, GameStepKeeps, KickAllKeeps, PostShutdownKeeps,
     StopThreadKeeps, EndFromGameKeeps DEF DispatcherStep, RunTask, ClosingStep
<1>3. CASE StartDatabase
  BY <1>3, DatabaseStarts
<1>4. CASE LoadFails
  BY <1>4, LoaderKeeps
<1>5. ASSUME NEW t \in Sleepers, SleeperStep(t) \/ WakeForWork(t) PROVE IInv'
  BY <1>5, SleeperKeeps
<1>6. ASSUME NEW o \in ServerOps, EventDue(o) PROVE IInv'
  BY <1>6, EventDueKeeps
<1>7. CASE NetworkInput
  BY <1>7, NetworkKeeps
<1>8. CASE AddTask
  BY <1>8, AddTaskKeeps
<1>9. CASE UNCHANGED vars
  <2>1. UNCHANGED <<disp, queue, gameState, online, dirty, late, arriving, main, thread>>
    BY <1>9 DEF vars
  <2>2. TypeOK'
    BY <1>9 DEF vars, IInv, TypeOK
  <2> QED BY <2>1, <2>2, Quiet
<1> QED BY <1>1, <1>2, <1>3, <1>4, <1>5, <1>6, <1>7, <1>8, <1>9 DEF Next

\* The inductive invariant: the queue, the stages of a shutdown and what is unsaved
\* belong together in every reachable state.
THEOREM InductiveInv == Spec => []IInv
BY InitIInv, NextIInv, PTL DEF Spec

\* A closed server never holds a player without the flag, however logins are queued.
THEOREM ClosedServerHoldsStaff == Spec => []ClosedForPlayers
<1>1. IInv => ClosedForPlayers
  BY DEF IInv
<1> QED BY <1>1, InductiveInv, PTL

\* The dispatcher does not end before every player's task it accepted has run.
THEOREM AcceptedTasksRun == Spec => []NothingLeftBehind
<1>1. IInv => NothingLeftBehind
  <2> SUFFICES ASSUME IInv, disp = "ended", NEW i \in DOMAIN queue
               PROVE  queue[i].op \in ServerOps
    BY DEF NothingLeftBehind
  <2>1. queue[i].player = Nobody
    BY DEF IInv, TerminateInv, OnlyFrom
  <2>2. queue \in Seq(Task)
    BY DEF IInv, TypeOK
  <2>3. queue[i] \in Task
    BY <2>2, ElementOfSeq, LenProperties
  <2> QED BY <2>1, <2>3, LifecycleAssumption DEF Task
<1> QED BY <1>1, InductiveInv, PTL

\* When the dispatcher ends, every change is saved, but those of players whose task was
\* accepted between the queueing of Game::shutdown and the stop of the dispatcher.
THEOREM ChangesAreSaved == Spec => []SavedAtTheEnd
<1>1. IInv => SavedAtTheEnd
  BY DEF IInv, TerminateInv, SavedAtTheEnd
<1> QED BY <1>1, InductiveInv, PTL
=============================================================================
