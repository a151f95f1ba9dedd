---------------------------- MODULE SessionProofs ----------------------------
(***************************************************************************)
(* Proofs about Session, for any number of connections and of Players made *)
(* for the character: IInv is inductive, so that the reference counts are  *)
(* exact, nothing stays in the list of protocols to send for without a     *)
(* release to take it off, and no Player is taken from a protocol that has *)
(* not let go of it.                                                       *)
(***************************************************************************)
EXTENDS Session, FiniteSetTheorems, SequenceTheorems, TLAPS

States == {"open", "closing", "closed", "gone"}

\* Protocol p, with connections k, is open or will be released by a task of q.
Attended(q, k, p) == k[p] = "open" \/ Holds(q, Task("release", p))

Orderly(q, k) ==
  /\ q \in Seq(Tasks)
  /\ k \in [Protocols -> States]
  /\ LoginsDiffer(q)
  /\ ReleasedBehind(q, k)

\* From q and k to r and m no login was added, and who was attended to still is.
Keeps(q, k, r, m) ==
  /\ Orderly(r, m)
  /\ \A p \in Protocols :
       /\ Holds(r, Task("login", p)) => Holds(q, Task("login", p))
       /\ Attended(q, k, p) => Attended(r, m, p)

-----------------------------------------------------------------------------
(* The queue                                                               *)

LEMMA TaskType ==
  ASSUME NEW p \in Protocols, NEW o \in {"login", "logout", "release"}
  PROVE  /\ Task(o, p) \in Tasks
         /\ Task(o, p).op = o /\ Task(o, p).protocol = p
BY DEF Task, Tasks

LEMMA TaskForm ==
  ASSUME NEW t \in Tasks
  PROVE  /\ t.protocol \in Protocols
         /\ t.op = "login" => t = Task("login", t.protocol)
BY DEF Task, Tasks

LEMMA AppendTask ==
  ASSUME NEW q \in Seq(Tasks), NEW t \in Tasks
  PROVE  /\ Append(q, t) \in Seq(Tasks)
         /\ DOMAIN Append(q, t) = 1..(Len(q) + 1)
         /\ DOMAIN q = 1..Len(q)
         /\ Len(q) \in Nat
         /\ \A i \in 1..Len(q) : Append(q, t)[i] = q[i]
         /\ Append(q, t)[Len(q) + 1] = t
         /\ \A u : Holds(Append(q, t), u) <=> Holds(q, u) \/ u = t
<1>1. /\ Append(q, t) \in Seq(Tasks)
      /\ Len(Append(q, t)) = Len(q) + 1
      /\ \A i \in 1..Len(q) : Append(q, t)[i] = q[i]
      /\ Append(q, t)[Len(q) + 1] = t
  BY AppendProperties
<1>2. /\ Len(q) \in Nat /\ DOMAIN q = 1..Len(q)
      /\ DOMAIN Append(q, t) = 1..(Len(q) + 1)
  BY <1>1, LenProperties
<1>3. ASSUME NEW u
      PROVE  Holds(Append(q, t), u) <=> Holds(q, u) \/ u = t
  BY <1>1, <1>2 DEF Holds
<1> QED
  BY <1>1, <1>2, <1>3

LEMMA TailTask ==
  ASSUME NEW q \in Seq(Tasks), q # <<>>
  PROVE  /\ Tail(q) \in Seq(Tasks)
         /\ Head(q) \in Tasks
         /\ Len(q) \in Nat \ {0}
         /\ DOMAIN q = 1..Len(q)
         /\ DOMAIN Tail(q) = 1..(Len(q) - 1)
         /\ Head(q) = q[1]
         /\ \A i \in 1..(Len(q) - 1) : Tail(q)[i] = q[i + 1]
<1>1. /\ Head(q) \in Tasks
      /\ Tail(q) \in Seq(Tasks)
      /\ Len(Tail(q)) = Len(q) - 1
      /\ \A i \in 1..Len(Tail(q)) : Tail(q)[i] = q[i + 1]
  BY HeadTailProperties
<1>2. Len(q) \in Nat \ {0} /\ DOMAIN q = 1..Len(q) /\ DOMAIN Tail(q) = 1..(Len(q) - 1)
  BY <1>1, EmptySeq, LenProperties
<1> QED
  BY <1>1, <1>2

\* A task at the end; if it is a login it is the first of an open connection, and
\* connections that are not open any more are the one it releases.
LEMMA AppendOrderly ==
  ASSUME NEW q, NEW k, Orderly(q, k), NEW t \in Tasks,
         NEW m \in [Protocols -> States],
         \A p \in Protocols : k[p] = "open" => m[p] = "open" \/ t = Task("release", p),
         t.op = "login" => m[t.protocol] = "open" /\ ~Holds(q, t)
  PROVE  /\ Orderly(Append(q, t), m)
         /\ \A p \in Protocols : Attended(q, k, p) => Attended(Append(q, t), m, p)
<1>1. q \in Seq(Tasks) /\ LoginsDiffer(q) /\ ReleasedBehind(q, k)
  BY DEF Orderly
<1> DEFINE r == Append(q, t)
           n == Len(q)
<1>2. /\ r \in Seq(Tasks) /\ DOMAIN r = 1..(n + 1) /\ DOMAIN q = 1..n /\ n \in Nat
      /\ \A i \in 1..n : r[i] = q[i]
      /\ r[n + 1] = t
      /\ \A u : Holds(r, u) <=> Holds(q, u) \/ u = t
  BY <1>1, AppendTask
<1> HIDE DEF r, n
<1>3. LoginsDiffer(r)
  <2> SUFFICES ASSUME NEW i \in 1..(n + 1), NEW j \in 1..(n + 1), r[i] = r[j], r[i].op = "login"
               PROVE  i = j
    BY <1>2 DEF LoginsDiffer
  <2>1. CASE i \in 1..n /\ j \in 1..n
    BY <1>1, <1>2, <2>1 DEF LoginsDiffer
  <2>2. CASE i = n + 1 /\ j \in 1..n
    BY <1>2, <2>2 DEF Holds
  <2>3. CASE j = n + 1 /\ i \in 1..n
    BY <1>2, <2>3 DEF Holds
  <2> QED
    BY <1>2, <2>1, <2>2, <2>3
<1>4. ReleasedBehind(r, m)
  <2> SUFFICES ASSUME NEW i \in 1..(n + 1), r[i].op = "login", m[r[i].protocol] # "open"
               PROVE  \E j \in 1..(n + 1) : j > i /\ r[j] = Task("release", r[i].protocol)
    BY <1>2 DEF ReleasedBehind
  <2>1. i \in 1..n /\ r[i] = q[i] /\ q[i] \in Tasks
    BY <1>1, <1>2, ElementOfSeq
  <2>2. q[i].protocol \in Protocols
    BY <2>1, TaskForm
  <2>3. CASE k[q[i].protocol] = "open"
    BY <1>2, <2>1, <2>2, <2>3
  <2>4. CASE k[q[i].protocol] # "open"
    <3>1. PICK j \in 1..n : j > i /\ q[j] = Task("release", q[i].protocol)
      BY <1>1, <1>2, <2>1, <2>4 DEF ReleasedBehind
    <3> QED
      BY <1>2, <2>1, <3>1
  <2> QED
    BY <2>3, <2>4
<1>5. ASSUME NEW p \in Protocols, Attended(q, k, p)
      PROVE  Attended(r, m, p)
  BY <1>2, <1>5 DEF Attended
<1> QED
  BY <1>2, <1>3, <1>4, <1>5 DEF Orderly, r

\* The first task is taken off.  Only the protocol it releases is less attended to.
LEMMA TailOrderly ==
  ASSUME NEW q, NEW k, Orderly(q, k), q # <<>>
  PROVE  /\ Orderly(Tail(q), k)
         /\ \A u : Holds(Tail(q), u) => Holds(q, u)
         /\ \A p \in Protocols :
              /\ Attended(q, k, p) /\ Head(q) # Task("release", p) => Attended(Tail(q), k, p)
              /\ Head(q) = Task("login", p) =>
                   /\ Holds(q, Task("login", p))
                   /\ ~Holds(Tail(q), Task("login", p))
                   /\ Attended(Tail(q), k, p)
<1>1. q \in Seq(Tasks) /\ LoginsDiffer(q) /\ ReleasedBehind(q, k) /\ k \in [Protocols -> States]
  BY DEF Orderly
<1> DEFINE r == Tail(q)
           n == Len(q)
<1>2. /\ r \in Seq(Tasks) /\ n \in Nat \ {0} /\ Head(q) = q[1]
      /\ DOMAIN q = 1..n /\ DOMAIN r = 1..(n - 1)
      /\ \A i \in 1..(n - 1) : r[i] = q[i + 1]
  BY <1>1, TailTask
<1> HIDE DEF r, n
<1>3. LoginsDiffer(r)
  <2> SUFFICES ASSUME NEW i \in 1..(n - 1), NEW j \in 1..(n - 1), r[i] = r[j], r[i].op = "login"
               PROVE  i = j
    BY <1>2 DEF LoginsDiffer
  <2>1. /\ i + 1 \in DOMAIN q /\ j + 1 \in DOMAIN q
        /\ q[i + 1] = q[j + 1] /\ q[i + 1].op = "login"
    BY <1>2
  <2>2. i + 1 = j + 1
    BY <1>1, <2>1 DEF LoginsDiffer
  <2> QED
    BY <2>2
<1>4. ReleasedBehind(r, k)
  <2> SUFFICES ASSUME NEW i \in 1..(n - 1), r[i].op = "login", k[r[i].protocol] # "open"
               PROVE  \E j \in 1..(n - 1) : j > i /\ r[j] = Task("release", r[i].protocol)
    BY <1>2 DEF ReleasedBehind
  <2>1. i + 1 \in 1..n /\ r[i] = q[i + 1]
    BY <1>2
  <2>2. PICK j \in 1..n : j > i + 1 /\ q[j] = Task("release", r[i].protocol)
    BY <1>1, <1>2, <2>1 DEF ReleasedBehind
  <2>3. j - 1 \in 1..(n - 1) /\ j - 1 > i /\ r[j - 1] = q[j]
    BY <1>2, <2>2
  <2> QED
    BY <2>2, <2>3
<1>5. ASSUME NEW u, Holds(r, u)
      PROVE  Holds(q, u)
  BY <1>2, <1>5 DEF Holds
<1>6. ASSUME NEW u, Holds(q, u), Head(q) # u
      PROVE  Holds(r, u)
  <2>1. PICK i \in 1..n : q[i] = u
    BY <1>2, <1>6 DEF Holds
  <2>2. i - 1 \in 1..(n - 1) /\ r[i - 1] = u
    BY <1>2, <1>6, <2>1
  <2> QED
    BY <1>2, <2>2 DEF Holds
<1>7. ASSUME NEW p \in Protocols, Head(q) = Task("login", p)
      PROVE  /\ Holds(q, Task("login", p))
             /\ ~Holds(r, Task("login", p))
             /\ Attended(r, k, p)
  <2>1. q[1].op = "login" /\ q[1].protocol = p
    BY <1>2, <1>7, TaskType
  <2>2. Holds(q, Task("login", p))
    BY <1>2, <1>7 DEF Holds
  <2>3. ~Holds(r, Task("login", p))
    <3> SUFFICES ASSUME NEW i \in 1..(n - 1), r[i] = Task("login", p)
                 PROVE  FALSE
      BY <1>2 DEF Holds
    <3>1. i + 1 \in DOMAIN q /\ q[i + 1] = q[1] /\ 1 \in DOMAIN q
      BY <1>2, <1>7
    <3> QED
      BY <1>1, <2>1, <3>1 DEF LoginsDiffer
  <2>4. Attended(r, k, p)
    <3>1. CASE k[p] = "open"
      BY <3>1 DEF Attended
    <3>2. CASE k[p] # "open"
      <4>1. PICK j \in 1..n : j > 1 /\ q[j] = Task("release", p)
        BY <1>1, <1>2, <2>1, <3>2 DEF ReleasedBehind
      <4>2. j - 1 \in 1..(n - 1) /\ r[j - 1] = Task("release", p)
        BY <1>2, <4>1
      <4> QED
        BY <1>2, <4>2 DEF Attended, Holds
    <3> QED
      BY <3>1, <3>2
  <2> QED
    BY <2>2, <2>3, <2>4
<1>8. ASSUME NEW p \in Protocols, Attended(q, k, p), Head(q) # Task("release", p)
      PROVE  Attended(r, k, p)
  BY <1>6, <1>8 DEF Attended
<1> QED
  BY <1>1, <1>2, <1>3, <1>4, <1>5, <1>7, <1>8 DEF Orderly, r

LEMMA KeepsAll ==
  ASSUME NEW q, NEW k, Orderly(q, k)
  PROVE  Keeps(q, k, q, k)
BY DEF Keeps

\* Protocol::disconnect.
LEMMA DisconnectKeeps ==
  ASSUME NEW q, Orderly(q, conn), NEW p \in Protocols \cup {None}, Disconnect(p, q)
  PROVE  Keeps(q, conn, queue', conn')
<1> USE SessionAssumption
<1>1. CASE p = None \/ conn[p] = "gone"
  BY <1>1, KeepsAll DEF Disconnect
<1>2. CASE ~(p = None \/ conn[p] = "gone")
  <2>1. /\ p \in Protocols
        /\ conn' = [conn EXCEPT ![p] = IF @ = "open" THEN "closing" ELSE @]
        /\ queue' = Append(q, Task("release", p))
    BY <1>2 DEF Disconnect
  <2>2. conn \in [Protocols -> States] /\ q \in Seq(Tasks)
    BY DEF Orderly
  <2>3. /\ conn' \in [Protocols -> States]
        /\ \A o \in Protocols : conn[o] = "open" => conn'[o] = "open" \/ Task("release", p) = Task("release", o)
    BY <2>1, <2>2 DEF States
  <2>4. Task("release", p) \in Tasks /\ Task("release", p).op # "login"
    BY <2>1, TaskType
  <2>5. /\ Orderly(queue', conn')
        /\ \A o \in Protocols : Attended(q, conn, o) => Attended(queue', conn', o)
    BY <2>1, <2>3, <2>4, AppendOrderly
  <2>6. ASSUME NEW o \in Protocols, Holds(queue', Task("login", o))
        PROVE  Holds(q, Task("login", o))
    <3>1. Holds(q, Task("login", o)) \/ Task("login", o) = Task("release", p)
      BY <2>1, <2>2, <2>4, <2>6, AppendTask
    <3> QED
      BY <3>1 DEF Task
  <2> QED
    BY <2>5, <2>6 DEF Keeps
<1> QED
  BY <1>1, <1>2

-----------------------------------------------------------------------------
(* Counting                                                                *)

LEMMA OwnersType ==
  ASSUME NEW c
  PROVE  IsFiniteSet(Owners(c)) /\ Cardinality(Owners(c)) \in Nat
<1>1. Owners(c) \subseteq Protocols
  BY DEF Owners
<1> QED
  BY <1>1, SessionAssumption, FS_Subset, FS_CardinalityType

\* A protocol without a Player gets one.
LEMMA OwnersGain ==
  ASSUME TypeOK, NEW p \in Protocols, player[p] = None, NEW c \in Players,
         player' = [player EXCEPT ![p] = c]
  PROVE  \A d \in Players : Cardinality(Owners(d)') = Cardinality(Owners(d)) + OneIf(d = c)
<1> USE SessionAssumption
<1> SUFFICES ASSUME NEW d \in Players
             PROVE  Cardinality(Owners(d)') = Cardinality(Owners(d)) + OneIf(d = c)
  OBVIOUS
<1>1. IsFiniteSet(Owners(d)) /\ Cardinality(Owners(d)) \in Nat
  BY OwnersType
<1>2. CASE d = c
  <2>1. p \notin Owners(d) /\ Owners(d)' = Owners(d) \cup {p}
    BY <1>2 DEF Owners, TypeOK
  <2>2. Cardinality(Owners(d) \cup {p}) = Cardinality(Owners(d)) + 1
    BY <1>1, <2>1, FS_AddElement
  <2> QED
    BY <1>2, <2>1, <2>2 DEF OneIf
<1>3. CASE d # c
  <2>1. Owners(d)' = Owners(d)
    BY <1>3 DEF Owners, TypeOK
  <2> QED
    BY <1>1, <1>3, <2>1 DEF OneIf
<1> QED
  BY <1>2, <1>3

\* A protocol lets go of its Player.
LEMMA OwnersLoss ==
  ASSUME TypeOK, NEW p \in Protocols, NEW c \in Players, player[p] = c,
         player' = [player EXCEPT ![p] = None]
  PROVE  /\ \A d \in Players : Cardinality(Owners(d)') = Cardinality(Owners(d)) - OneIf(d = c)
         /\ Cardinality(Owners(c)) >= 1
<1> USE SessionAssumption
<1>1. ASSUME NEW d \in Players
      PROVE  IsFiniteSet(Owners(d)) /\ Cardinality(Owners(d)) \in Nat
  BY OwnersType
<1>2. p \in Owners(c) /\ Owners(c)' = Owners(c) \ {p}
  BY DEF Owners, TypeOK
<1>3. Cardinality(Owners(c) \ {p}) = Cardinality(Owners(c)) - 1
  BY <1>1, <1>2, FS_RemoveElement
<1>4. IsFiniteSet(Owners(c) \ {p}) /\ Cardinality(Owners(c) \ {p}) \in Nat
  BY <1>1, FS_RemoveElement, FS_CardinalityType
<1>5. ASSUME NEW d \in Players
      PROVE  Cardinality(Owners(d)') = Cardinality(Owners(d)) - OneIf(d = c)
  <2>1. CASE d = c
    BY <1>2, <1>3, <2>1 DEF OneIf
  <2>2. CASE d # c
    <3>1. Owners(d)' = Owners(d)
      BY <2>2 DEF Owners, TypeOK
    <3> QED
      BY <1>1, <2>2, <3>1 DEF OneIf
  <2> QED
    BY <2>1, <2>2
<1> QED
  BY <1>1, <1>3, <1>4, <1>5

LEMMA IncrementAt ==
  ASSUME NEW r \in [Players -> Nat], NEW c \in Players
  PROVE  /\ Increment(r, c) \in [Players -> Nat]
         /\ \A d \in Players : Increment(r, c)[d] = r[d] + OneIf(d = c)
BY DEF Increment, OneIf

-----------------------------------------------------------------------------
(* What the parts of the invariant rest on                                 *)

\* A step that binds no Player: its counts are right by themselves, and a connect is
\* scheduled only for a protocol that has logged in and waits for its Player.
LEMMA UnboundStep ==
  ASSUME IInv, Keeps(queue, conn, queue', conn'),
         UNCHANGED <<player, client, created, asked>>,
         eventConnect' \in [Protocols -> Players \cup {None}],
         \A p \in Protocols : eventConnect'[p] # None =>
           \/ eventConnect'[p] = eventConnect[p]
           \/ p \in asked /\ player[p] = None /\ ~Holds(queue', Task("login", p)),
         acceptPackets' \subseteq Protocols, autosend' \subseteq Protocols,
         \A p \in autosend' : p \in autosend \/ Attended(queue', conn', p),
         online' \subseteq online, checked' \subseteq Players, inCheck' \subseteq inCheck,
         toRelease' \in [Players -> Nat], refs' \in [Players -> Nat], CountsExact'
  PROVE  IInv'
<1> USE SessionAssumption
<1>1. TypeOK /\ LoginOnce /\ NotMadeYet /\ NothingSentToTheDead
  BY DEF IInv
<1>2. Orderly(queue', conn')
  BY DEF Keeps
<1>3. TypeOK'
  BY <1>1, <1>2 DEF TypeOK, Orderly, States
<1>4. LoginOnce'
  <2>1. LoginsDiffer(queue')
    BY <1>2 DEF Orderly
  <2>2. ASSUME NEW p \in Protocols, Holds(queue', Task("login", p))
        PROVE  p \in asked /\ player[p] = None /\ eventConnect'[p] = None
    <3>1. Holds(queue, Task("login", p))
      BY <2>2 DEF Keeps
    <3>2. p \in asked /\ player[p] = None /\ eventConnect[p] = None
      BY <1>1, <3>1 DEF LoginOnce
    <3> QED
      BY <2>2, <3>2
  <2>3. ASSUME NEW p \in Protocols, eventConnect'[p] # None
        PROVE  p \in asked /\ player[p] = None
    BY <1>1, <2>3 DEF LoginOnce
  <2> QED
    BY <1>1, <2>1, <2>2, <2>3 DEF LoginOnce
<1>5. NotMadeYet'
  BY <1>1 DEF NotMadeYet
<1>6. ReleasedBehind(queue', conn')
  BY <1>2 DEF Orderly
<1>7. NothingSentToTheDead'
  BY <1>1 DEF NothingSentToTheDead, Keeps, Attended, Queued, Holds, TypeOK
<1> QED
  BY <1>3, <1>4, <1>5, <1>6, <1>7 DEF IInv

\* As long as bindings, counts and what counts stay, so does the rest of the invariant.
LEMMA QueueOnly ==
  ASSUME IInv, Keeps(queue, conn, queue', conn'),
         UNCHANGED <<eventConnect, player, client, gameVars, refs, created, asked>>,
         acceptPackets' \subseteq Protocols, autosend' \subseteq Protocols,
         \A p \in autosend' : p \in autosend \/ Attended(queue', conn', p)
  PROVE  IInv'
<1>1. TypeOK /\ CountsExact
  BY DEF IInv
<1>2. UNCHANGED <<eventConnect, player, client, online, checked, inCheck, toRelease, refs>>
  BY DEF gameVars
<1>3. CountsExact'
  BY <1>1, <1>2 DEF CountsExact, Owners
<1> QED
  BY <1>1, <1>2, <1>3, UnboundStep DEF TypeOK

LEMMA InvOrderly ==
  ASSUME IInv
  PROVE  Orderly(queue, conn)
BY DEF IInv, TypeOK, LoginOnce, Orderly, States

-----------------------------------------------------------------------------
(* The network thread                                                      *)

LEMMA FirstMessageStep ==
  ASSUME IInv, NEW p \in Protocols, FirstMessage(p)
  PROVE  IInv'
<1> USE SessionAssumption
<1>1. TypeOK /\ LoginOnce /\ NotMadeYet /\ CountsExact /\ NothingSentToTheDead
  BY DEF IInv
<1>2. /\ conn[p] = "open" /\ p \notin asked
      /\ asked' = asked \cup {p}
      /\ queue' = Append(queue, Task("login", p))
      /\ UNCHANGED <<conn, eventConnect, acceptPackets, autosend, isConnecting, player, client,
                     online, checked, inCheck, toRelease, refs, created, ignored>>
  BY DEF FirstMessage, protocolVars, bindingVars, gameVars
<1>3. /\ Task("login", p) \in Tasks
      /\ Task("login", p).op = "login" /\ Task("login", p).protocol = p
  BY TaskType
<1>4. ~Holds(queue, Task("login", p)) /\ eventConnect[p] = None /\ player[p] = None
  BY <1>1, <1>2 DEF LoginOnce
<1>5. /\ Orderly(queue', conn)
      /\ \A o \in Protocols : Attended(queue, conn, o) => Attended(queue', conn, o)
  BY <1>1, <1>2, <1>3, <1>4, InvOrderly, AppendOrderly DEF TypeOK, States
<1>6. TypeOK'
  BY <1>1, <1>2, <1>5 DEF TypeOK, Orderly
<1>7. LoginOnce'
  <2>1. ASSUME NEW o \in Protocols, Holds(queue', Task("login", o))
        PROVE  o = p \/ Holds(queue, Task("login", o))
    <3>1. Holds(queue, Task("login", o)) \/ Task("login", o) = Task("login", p)
      BY <1>1, <1>2, <1>3, <2>1, AppendTask DEF TypeOK
    <3> QED
      BY <3>1, <1>3, TaskType
  <2>2. LoginsDiffer(queue')
    BY <1>5 DEF Orderly
  <2> QED
    BY <1>1, <1>2, <1>4, <2>1, <2>2 DEF LoginOnce
<1>8. NotMadeYet'
  BY <1>1, <1>2 DEF NotMadeYet
<1>9. ReleasedBehind(queue, conn)'
  BY <1>2, <1>5 DEF Orderly
<1>10. CountsExact'
  BY <1>1, <1>2 DEF CountsExact, Owners
<1>11. NothingSentToTheDead'
  BY <1>1, <1>2, <1>5 DEF NothingSentToTheDead, Attended, Queued, Holds, TypeOK
<1> QED
  BY <1>6, <1>7, <1>8, <1>9, <1>10, <1>11 DEF IInv

\* A task other than a login is added, and only the connection it releases is no longer open.
LEMMA AppendKeeps ==
  ASSUME IInv, NEW p \in Protocols, NEW o \in {"logout", "release"},
         queue' = Append(queue, Task(o, p)), conn' \in [Protocols -> States],
         \A r \in Protocols : conn[r] = "open" => conn'[r] = "open" \/ (r = p /\ o = "release")
  PROVE  Keeps(queue, conn, queue', conn')
<1>1. Task(o, p) \in Tasks /\ Task(o, p).op # "login"
  BY TaskType
<1>2. /\ Orderly(queue', conn')
      /\ \A r \in Protocols : Attended(queue, conn, r) => Attended(queue', conn', r)
  BY <1>1, InvOrderly, AppendOrderly
<1>3. ASSUME NEW r \in Protocols, Holds(queue', Task("login", r))
      PROVE  Holds(queue, Task("login", r))
  <2>1. Holds(queue, Task("login", r)) \/ Task("login", r) = Task(o, p)
    BY <1>1, <1>3, AppendTask DEF IInv, TypeOK
  <2> QED
    BY <2>1, <1>1, TaskType
<1> QED
  BY <1>2, <1>3 DEF Keeps

LEMMA NetworkStep ==
  ASSUME IInv, NEW p \in Protocols, Network(p)
  PROVE  IInv'
<1>1. TypeOK
  BY DEF IInv
<1>2. CASE FirstMessage(p)
  BY <1>2, FirstMessageStep
<1>3. CASE LogoutPacket(p)
  <2>1. Keeps(queue, conn, queue', conn')
    BY <1>1, <1>3, AppendKeeps DEF LogoutPacket, TypeOK, States
  <2> QED
    BY <1>1, <1>3, <2>1, QueueOnly
    DEF LogoutPacket, protocolVars, bindingVars, history, TypeOK
<1>4. CASE NetworkClose(p)
  <2>1. Keeps(queue, conn, queue', conn')
    BY <1>1, <1>4, AppendKeeps DEF NetworkClose, TypeOK, States
  <2> QED
    BY <1>1, <1>4, <2>1, QueueOnly
    DEF NetworkClose, protocolVars, bindingVars, history, TypeOK
<1>5. CASE Destroy(p)
  <2>1. /\ conn' \in [Protocols -> States] /\ queue' = queue
        /\ \A r \in Protocols : conn'[r] = "open" <=> conn[r] = "open"
    BY <1>1, <1>5 DEF Destroy, TypeOK, States
  <2>2. Orderly(queue', conn')
    <3>1. Orderly(queue, conn)
      BY InvOrderly
    <3>2. \A i \in DOMAIN queue : queue[i].protocol \in Protocols
      BY <1>1, LenProperties, ElementOfSeq, TaskForm DEF TypeOK
    <3>3. ReleasedBehind(queue', conn')
      BY <2>1, <3>1, <3>2 DEF Orderly, ReleasedBehind
    <3> QED
      BY <2>1, <3>1, <3>3 DEF Orderly
  <2>3. Keeps(queue, conn, queue', conn')
    BY <2>1, <2>2 DEF Keeps, Attended
  <2> QED
    BY <1>1, <1>5, <2>3, QueueOnly
    DEF Destroy, protocolVars, bindingVars, history, TypeOK
<1> QED
  BY <1>2, <1>3, <1>4, <1>5 DEF Network

-----------------------------------------------------------------------------
(* Tasks of the dispatcher                                                 *)

\* The task has left the queue.
LEMMA RunKeeps ==
  ASSUME IInv, NEW p \in Protocols, NEW o \in {"login", "logout", "release"}, Run(o, p)
  PROVE  /\ Orderly(Tail(queue), conn)
         /\ \A r \in Protocols :
              /\ Holds(Tail(queue), Task("login", r)) => Holds(queue, Task("login", r))
              /\ Attended(queue, conn, r) /\ (r # p \/ o # "release") => Attended(Tail(queue), conn, r)
         /\ o # "release" => Keeps(queue, conn, Tail(queue), conn)
         /\ o = "login" =>
              /\ p \in asked /\ player[p] = None /\ eventConnect[p] = None
              /\ ~Holds(Tail(queue), Task("login", p))
              /\ Attended(Tail(queue), conn, p)
<1>1. Orderly(queue, conn) /\ queue # <<>> /\ Head(queue) = Task(o, p)
  BY InvOrderly DEF Run
<1>2. /\ Orderly(Tail(queue), conn)
      /\ \A u : Holds(Tail(queue), u) => Holds(queue, u)
      /\ \A r \in Protocols :
           /\ Attended(queue, conn, r) /\ Head(queue) # Task("release", r) => Attended(Tail(queue), conn, r)
           /\ Head(queue) = Task("login", r) =>
                /\ Holds(queue, Task("login", r))
                /\ ~Holds(Tail(queue), Task("login", r))
                /\ Attended(Tail(queue), conn, r)
  BY <1>1, TailOrderly
<1>3. ASSUME NEW r \in Protocols, Task(o, p) = Task("release", r)
      PROVE  r = p /\ o = "release"
  BY <1>3, TaskType
<1>4. \A r \in Protocols :
        Attended(queue, conn, r) /\ (r # p \/ o # "release") => Attended(Tail(queue), conn, r)
  BY <1>1, <1>2, <1>3
<1>5. o # "release" => Keeps(queue, conn, Tail(queue), conn)
  BY <1>2, <1>4 DEF Keeps
<1>6. ASSUME o = "login"
      PROVE  /\ p \in asked /\ player[p] = None /\ eventConnect[p] = None
             /\ ~Holds(Tail(queue), Task("login", p))
             /\ Attended(Tail(queue), conn, p)
  BY <1>1, <1>2, <1>6 DEF IInv, LoginOnce
<1> QED
  BY <1>2, <1>4, <1>5, <1>6

LEMMA KeepsTransitive ==
  ASSUME NEW q, NEW k, NEW r, NEW m, NEW s, NEW n, Keeps(q, k, r, m), Keeps(r, m, s, n)
  PROVE  Keeps(q, k, s, n)
BY DEF Keeps

LEMMA ReleaseStep ==
  ASSUME IInv, NEW p \in Protocols, Release(p)
  PROVE  IInv'
<1> USE SessionAssumption
<1>1. TypeOK /\ LoginOnce /\ NotMadeYet /\ CountsExact /\ NothingSentToTheDead
  BY DEF IInv
<1>2. /\ Run("release", p) /\ ReleasePlayer(p)
      /\ queue' = Tail(queue)
      /\ autosend' = autosend \ {p}
      /\ UNCHANGED <<conn, eventConnect, acceptPackets, isConnecting, online, checked, inCheck,
                     toRelease, created, asked, ignored>>
  BY DEF Release, gameVars, history
<1>3. /\ Orderly(queue', conn)
      /\ \A r \in Protocols :
           /\ Holds(queue', Task("login", r)) => Holds(queue, Task("login", r))
           /\ Attended(queue, conn, r) /\ r # p => Attended(queue', conn, r)
  BY <1>2, RunKeeps
<1>4. /\ player' \in [Protocols -> Players \cup {None}]
      /\ client' \in [Players -> Protocols \cup {None}]
      /\ refs' \in [Players -> Nat]
      /\ \A r \in Protocols : player'[r] \in {player[r], None}
      /\ \A d \in Players : client'[d] \in {client[d], None}
      /\ CountsExact'
  <2>1. CASE UNCHANGED <<player, client, refs>>
    BY <1>1, <1>2, <2>1 DEF TypeOK, CountsExact, Owners
  <2>2. CASE ~UNCHANGED <<player, client, refs>>
    <3> DEFINE c == player[p]
    <3>1. /\ c # None /\ client[c] = p
          /\ client' = [client EXCEPT ![c] = None]
          /\ player' = [player EXCEPT ![p] = None]
          /\ refs' = Decrement(refs, c)
      BY <1>2, <2>2 DEF ReleasePlayer, bindingVars
    <3>2. c \in Players
      BY <1>1, <3>1 DEF TypeOK
    <3> HIDE DEF c
    <3>3. /\ \A d \in Players : Cardinality(Owners(d)') = Cardinality(Owners(d)) - OneIf(d = c)
          /\ Cardinality(Owners(c)) >= 1
      BY <1>1, <3>1, <3>2, OwnersLoss DEF c
    <3>4. \A d \in Players : Cardinality(Owners(d)) \in Nat
      BY OwnersType
    <3>5. /\ \A d \in Players : refs[d] \in Nat /\ toRelease[d] \in Nat
          /\ \A d \in Players : OneIf(d \in online) \in {0, 1} /\ OneIf(d \in inCheck) \in {0, 1}
      BY <1>1 DEF TypeOK, OneIf
    <3>6. \A d \in Players : refs[d] = Cardinality(Owners(d)) + OneIf(d \in online)
                                         + OneIf(d \in inCheck) + toRelease[d]
      BY <1>1 DEF CountsExact
    <3>7. refs[c] >= 1
      BY <3>2, <3>3, <3>4, <3>5, <3>6
    <3>8. /\ refs' \in [Players -> Nat]
          /\ \A d \in Players : refs'[d] = refs[d] - OneIf(d = c)
      BY <1>1, <3>1, <3>2, <3>7 DEF Decrement, TypeOK, OneIf
    <3>9. CountsExact'
      <4> SUFFICES ASSUME NEW d \in Players
                   PROVE  refs'[d] = Cardinality(Owners(d)') + OneIf(d \in online)
                                       + OneIf(d \in inCheck) + toRelease[d]
        BY <1>2 DEF CountsExact, OneIf
      <4>1. OneIf(d = c) \in {0, 1}
        BY DEF OneIf
      <4> QED
        BY <3>3, <3>4, <3>5, <3>6, <3>8, <4>1
    <3> QED
      BY <1>1, <3>1, <3>2, <3>8, <3>9 DEF TypeOK
  <2> QED
    BY <2>1, <2>2
<1>5. TypeOK'
  BY <1>1, <1>2, <1>3, <1>4 DEF TypeOK, Orderly
<1>6. LoginOnce'
  BY <1>1, <1>2, <1>3, <1>4 DEF LoginOnce, Orderly
<1>7. NotMadeYet'
  BY <1>1, <1>2, <1>4 DEF NotMadeYet
<1>8. ReleasedBehind(queue, conn)'
  BY <1>2, <1>3 DEF Orderly
<1>9. NothingSentToTheDead'
  BY <1>1, <1>2, <1>3 DEF NothingSentToTheDead, Attended, Queued, Holds, TypeOK
<1> QED
  BY <1>4, <1>5, <1>6, <1>7, <1>8, <1>9 DEF IInv

\* Protocol p and Player c are each other's.
Bound(p, c) ==
  /\ player' = [player EXCEPT ![p] = c]
  /\ client' = [client EXCEPT ![c] = p]

\* login or connect gives c to p: it counts c once, and n times for the places c is put in.
LEMMA BindStep ==
  ASSUME IInv, NEW p \in Protocols, NEW c \in Players,
         p \in asked, player[p] = None, ~Holds(queue', Task("login", p)),
         Keeps(queue, conn, queue', conn'),
         Bound(p, c), NEW n \in Nat,
         refs' \in [Players -> Nat],
         \A d \in Players : refs'[d] = refs[d] + OneIf(d = c) * (n + 1),
         toRelease' \in [Players -> Nat],
         \A d \in Players : OneIf(d \in online') + OneIf(d \in inCheck') + toRelease'[d] =
                              OneIf(d \in online) + OneIf(d \in inCheck) + toRelease[d]
                                + OneIf(d = c) * n,
         eventConnect' \in [Protocols -> Players \cup {None}],
         \A r \in Protocols : eventConnect'[r] # None => r # p /\ eventConnect'[r] = eventConnect[r],
         acceptPackets' \subseteq Protocols,
         autosend' \subseteq Protocols,
         \A r \in autosend' : r \in autosend \/ Attended(queue', conn', r),
         online' \subseteq Players, checked' \subseteq Players, inCheck' \subseteq Players,
         created' \in 0..MaxPlayers, created' >= created, created' >= c,
         online' \cup inCheck' \subseteq online \cup inCheck \cup {c},
         UNCHANGED asked
  PROVE  IInv'
<1> USE SessionAssumption
<1>1. TypeOK /\ LoginOnce /\ NotMadeYet /\ CountsExact /\ NothingSentToTheDead
  BY DEF IInv
<1>2. Orderly(queue', conn')
  BY DEF Keeps
<1>3. /\ player' \in [Protocols -> Players \cup {None}]
      /\ player'[p] = c
      /\ \A r \in Protocols \ {p} : player'[r] = player[r]
      /\ client' \in [Players -> Protocols \cup {None}]
      /\ \A d \in Players \ {c} : client'[d] = client[d]
  BY <1>1 DEF Bound, TypeOK
<1>4. TypeOK'
  BY <1>1, <1>2, <1>3 DEF TypeOK, Orderly, States
<1>5. LoginOnce'
  BY <1>1, <1>2, <1>3 DEF LoginOnce, Orderly, Keeps
<1>6. NotMadeYet'
  BY <1>1, <1>3 DEF NotMadeYet, TypeOK, Players
<1>7. CountsExact'
  <2>1. \A d \in Players : Cardinality(Owners(d)') = Cardinality(Owners(d)) + OneIf(d = c)
    <3>1. player' = [player EXCEPT ![p] = c]
      BY DEF Bound
    <3>2. TypeOK /\ player[p] = None
      BY <1>1
    <3> QED
      BY ONLY <3>1, <3>2, p \in Protocols, c \in Players, OwnersGain
  <2> SUFFICES ASSUME NEW d \in Players
               PROVE  refs'[d] = Cardinality(Owners(d)') + OneIf(d \in online')
                                   + OneIf(d \in inCheck') + toRelease'[d]
    BY DEF CountsExact, OneIf
  <2>2. /\ Cardinality(Owners(d)) \in Nat /\ refs[d] \in Nat
        /\ toRelease[d] \in Nat /\ toRelease'[d] \in Nat
        /\ refs[d] = Cardinality(Owners(d)) + OneIf(d \in online)
                       + OneIf(d \in inCheck) + toRelease[d]
    BY <1>1, OwnersType DEF TypeOK, CountsExact
  <2>3. /\ OneIf(d \in online) \in {0, 1} /\ OneIf(d \in inCheck) \in {0, 1}
        /\ OneIf(d \in online') \in {0, 1} /\ OneIf(d \in inCheck') \in {0, 1}
    BY DEF OneIf
  <2>4. CASE d = c
    <3>1. OneIf(d = c) = 1
      BY <2>4 DEF OneIf
    <3> QED
      BY <2>1, <2>2, <2>3, <3>1
  <2>5. CASE d # c
    <3>1. OneIf(d = c) = 0
      BY <2>5 DEF OneIf
    <3> QED
      BY <2>1, <2>2, <2>3, <3>1
  <2> QED
    BY <2>4, <2>5
<1>8. NothingSentToTheDead'
  BY <1>1 DEF NothingSentToTheDead, Keeps, Attended, Queued, Holds, TypeOK
<1> QED
  BY <1>2, <1>4, <1>5, <1>6, <1>7, <1>8 DEF IInv, Orderly
\* What login finds for a character who is not in the game.
LEMMA NewPlayerFacts ==
  ASSUME IInv, NEW p \in Protocols, NEW c \in Players, NewPlayer(p, c)
  PROVE  /\ Orderly(Tail(queue), conn)
         /\ Keeps(queue, conn, Tail(queue), conn)
         /\ p \in asked /\ player[p] = None /\ eventConnect[p] = None
         /\ ~Holds(Tail(queue), Task("login", p))
         /\ Attended(Tail(queue), conn, p)
         /\ client[c] = None /\ c \notin online /\ c \notin inCheck
         /\ Bound(p, c)
         /\ created' \in 0..MaxPlayers /\ created' >= created /\ created' >= c
         /\ online = {}
         /\ UNCHANGED <<eventConnect, asked>>
<1> USE SessionAssumption
<1>1. Run("login", p)
  BY DEF NewPlayer
<1>2. /\ Orderly(Tail(queue), conn)
      /\ Keeps(queue, conn, Tail(queue), conn)
      /\ p \in asked /\ player[p] = None /\ eventConnect[p] = None
      /\ ~Holds(Tail(queue), Task("login", p))
      /\ Attended(Tail(queue), conn, p)
  BY <1>1, RunKeeps
<1>3. /\ c = created + 1 /\ created' = c /\ created \in 0..MaxPlayers
      /\ Bound(p, c)
      /\ online = {}
      /\ UNCHANGED <<eventConnect, asked>>
  BY DEF NewPlayer, Bound, IInv, TypeOK
<1>4. c > created /\ created' \in 0..MaxPlayers /\ created' >= created /\ created' >= c
  BY <1>3 DEF Players
<1>5. client[c] = None /\ c \notin online /\ c \notin inCheck
  BY <1>4 DEF IInv, NotMadeYet
<1> QED
  BY <1>2, <1>3, <1>4, <1>5

LEMMA LoginUnplacedStep ==
  ASSUME IInv, NEW p \in Protocols, NEW c \in Players, LoginRefused(p, c) \/ LoginIgnored(p, c)
  PROVE  IInv'
<1> USE SessionAssumption
<1>1. /\ NewPlayer(p, c)
      /\ refs' = Increment(refs, c)
      /\ UNCHANGED <<acceptPackets, autosend, online, checked, inCheck, toRelease>>
  BY DEF LoginRefused, LoginIgnored, gameVars
<1>2. /\ Orderly(Tail(queue), conn)
      /\ Keeps(queue, conn, Tail(queue), conn)
      /\ p \in asked /\ player[p] = None /\ eventConnect[p] = None
      /\ ~Holds(Tail(queue), Task("login", p))
      /\ Bound(p, c)
      /\ created' \in 0..MaxPlayers /\ created' >= created /\ created' >= c
      /\ UNCHANGED <<eventConnect, asked>>
  BY <1>1, NewPlayerFacts
<1>3. Keeps(Tail(queue), conn, queue', conn')
  <2>1. CASE LoginRefused(p, c)
    BY <1>2, <2>1, DisconnectKeeps DEF LoginRefused
  <2>2. CASE LoginIgnored(p, c)
    BY <1>2, <2>2, KeepsAll DEF LoginIgnored
  <2> QED
    BY <2>1, <2>2
<1>4. Keeps(queue, conn, queue', conn') /\ ~Holds(queue', Task("login", p))
  <2>1. Keeps(queue, conn, queue', conn')
    BY <1>2, <1>3, KeepsTransitive
  <2> QED
    BY <1>2, <1>3, <2>1 DEF Keeps
<1>5. TypeOK
  BY DEF IInv
<1>6. /\ refs' \in [Players -> Nat]
      /\ \A d \in Players : refs'[d] = refs[d] + OneIf(d = c)
  <2>1. refs \in [Players -> Nat] /\ refs' = Increment(refs, c)
    BY <1>1, <1>5 DEF TypeOK
  <2> QED
    BY ONLY <2>1, c \in Players, IncrementAt
<1>7. \A d \in Players : /\ OneIf(d = c) * (0 + 1) = OneIf(d = c)
                         /\ OneIf(d = c) * 0 = 0
                         /\ OneIf(d \in online) + OneIf(d \in inCheck) + toRelease[d] \in Nat
  BY <1>5 DEF OneIf, TypeOK
<1>8. /\ \A d \in Players : refs'[d] = refs[d] + OneIf(d = c) * (0 + 1)
      /\ toRelease' \in [Players -> Nat]
      /\ \A d \in Players : OneIf(d \in online') + OneIf(d \in inCheck') + toRelease'[d] =
                              OneIf(d \in online) + OneIf(d \in inCheck) + toRelease[d]
                                + OneIf(d = c) * 0
  BY <1>1, <1>5, <1>6, <1>7 DEF TypeOK
<1>9. /\ eventConnect' \in [Protocols -> Players \cup {None}]
      /\ \A r \in Protocols : eventConnect'[r] # None => r # p /\ eventConnect'[r] = eventConnect[r]
      /\ acceptPackets' \subseteq Protocols /\ autosend' \subseteq Protocols
      /\ \A r \in autosend' : r \in autosend \/ Attended(queue', conn', r)
      /\ online' \subseteq Players /\ checked' \subseteq Players /\ inCheck' \subseteq Players
      /\ online' \cup inCheck' \subseteq online \cup inCheck \cup {c}
  BY <1>1, <1>2, <1>5 DEF TypeOK
<1> QED
  BY <1>2, <1>4, <1>6, <1>8, <1>9, BindStep

\* The counts of a Player just placed.
LEMMA PlacedCountsAre ==
  ASSUME refs \in [Players -> Nat], NEW c \in Players
  PROVE  /\ PlacedCounts(refs, c) \in [Players -> Nat]
         /\ \A d \in Players : PlacedCounts(refs, c)[d] = refs[d] + OneIf(d = c) * (2 + 1)
<1>1. Increment(refs, c) \in [Players -> Nat]
  BY IncrementAt
<1>2. Increment(Increment(refs, c), c) \in [Players -> Nat]
  BY <1>1, IncrementAt
<1>3. /\ PlacedCounts(refs, c) \in [Players -> Nat]
      /\ \A d \in Players :
           PlacedCounts(refs, c)[d] = Increment(Increment(refs, c), c)[d] + OneIf(d = c)
  BY <1>2, IncrementAt DEF PlacedCounts
<1>4. \A d \in Players : Increment(Increment(refs, c), c)[d] = Increment(refs, c)[d] + OneIf(d = c)
  BY <1>1, IncrementAt
<1>5. \A d \in Players : Increment(refs, c)[d] = refs[d] + OneIf(d = c) /\ refs[d] \in Nat
  BY IncrementAt
<1>6. \A d \in Players : OneIf(d = c) \in {0, 1}
  BY DEF OneIf
<1> QED
  BY <1>3, <1>4, <1>5, <1>6

LEMMA LoginPlacedStep ==
  ASSUME IInv, NEW p \in Protocols, NEW c \in Players, LoginPlaced(p, c)
  PROVE  IInv'
<1> USE SessionAssumption
<1>1. /\ NewPlayer(p, c)
      /\ refs' = PlacedCounts(refs, c)
      /\ online' = {c} /\ checked' = checked \cup {c} /\ inCheck' = inCheck \cup {c}
      /\ toRelease' = toRelease
      /\ acceptPackets' = acceptPackets \cup {p} /\ autosend' = autosend \cup {p}
      /\ queue' = Tail(queue) /\ conn' = conn
  BY DEF LoginPlaced
<1>2. /\ Keeps(queue, conn, queue', conn')
      /\ p \in asked /\ player[p] = None /\ eventConnect[p] = None
      /\ ~Holds(queue', Task("login", p))
      /\ Attended(queue', conn', p)
      /\ c \notin inCheck /\ online = {}
      /\ Bound(p, c)
      /\ created' \in 0..MaxPlayers /\ created' >= created /\ created' >= c
      /\ UNCHANGED <<eventConnect, asked>>
  BY <1>1, NewPlayerFacts
<1>3. TypeOK
  BY DEF IInv
<1>4. /\ refs' \in [Players -> Nat]
      /\ \A d \in Players : refs'[d] = refs[d] + OneIf(d = c) * (2 + 1)
  BY <1>1, <1>3, PlacedCountsAre DEF TypeOK
<1>5. /\ toRelease' \in [Players -> Nat]
      /\ \A d \in Players : OneIf(d \in online') + OneIf(d \in inCheck') + toRelease'[d] =
                              OneIf(d \in online) + OneIf(d \in inCheck) + toRelease[d]
                                + OneIf(d = c) * 2
  BY <1>1, <1>2, <1>3 DEF OneIf, TypeOK
<1>6. /\ eventConnect' \in [Protocols -> Players \cup {None}]
      /\ \A r \in Protocols : eventConnect'[r] # None => r # p /\ eventConnect'[r] = eventConnect[r]
      /\ acceptPackets' \subseteq Protocols /\ autosend' \subseteq Protocols
      /\ \A r \in autosend' : r \in autosend \/ Attended(queue', conn', r)
      /\ online' \subseteq Players /\ checked' \subseteq Players /\ inCheck' \subseteq Players
      /\ online' \cup inCheck' \subseteq online \cup inCheck \cup {c}
  BY <1>1, <1>2, <1>3 DEF TypeOK
<1> QED
  BY <1>2, <1>4, <1>5, <1>6, BindStep

\* Placed and kicked: c is counted by the list to check and by the pending release.
LEMMA LoginKickedStep ==
  ASSUME IInv, NEW p \in Protocols, NEW c \in Players, LoginKicked(p, c)
  PROVE  IInv'
<1> USE SessionAssumption
<1>1. /\ NewPlayer(p, c)
      /\ refs' = PlacedCounts(refs, c)
      /\ online' = online /\ checked' = checked /\ inCheck' = inCheck \cup {c}
      /\ toRelease' = Increment(toRelease, c)
      /\ acceptPackets' = acceptPackets \cup {p} /\ autosend' = autosend \cup {p}
      /\ Disconnect(p, Tail(queue))
  BY DEF LoginKicked
<1>2. /\ Orderly(Tail(queue), conn)
      /\ Keeps(queue, conn, Tail(queue), conn)
      /\ p \in asked /\ player[p] = None /\ eventConnect[p] = None
      /\ ~Holds(Tail(queue), Task("login", p))
      /\ Attended(Tail(queue), conn, p)
      /\ c \notin inCheck
      /\ Bound(p, c)
      /\ created' \in 0..MaxPlayers /\ created' >= created /\ created' >= c
      /\ UNCHANGED <<eventConnect, asked>>
  BY <1>1, NewPlayerFacts
<1>3. TypeOK
  BY DEF IInv
<1>4. Keeps(Tail(queue), conn, queue', conn')
  BY <1>1, <1>2, DisconnectKeeps
<1>5. Keeps(queue, conn, queue', conn')
  BY <1>2, <1>4, KeepsTransitive
<1>6. ~Holds(queue', Task("login", p)) /\ Attended(queue', conn', p)
  BY <1>2, <1>4 DEF Keeps
<1>7. /\ refs' \in [Players -> Nat]
      /\ \A d \in Players : refs'[d] = refs[d] + OneIf(d = c) * (2 + 1)
  BY <1>1, <1>3, PlacedCountsAre DEF TypeOK
<1>8. /\ toRelease' \in [Players -> Nat]
      /\ \A d \in Players : toRelease'[d] = toRelease[d] + OneIf(d = c) /\ toRelease[d] \in Nat
  BY <1>1, <1>3, IncrementAt DEF TypeOK
<1>9. \A d \in Players : OneIf(d \in online') + OneIf(d \in inCheck') + toRelease'[d] =
                           OneIf(d \in online) + OneIf(d \in inCheck) + toRelease[d]
                             + OneIf(d = c) * 2
  BY <1>1, <1>2, <1>8 DEF OneIf
<1>10. /\ eventConnect' \in [Protocols -> Players \cup {None}]
       /\ \A r \in Protocols : eventConnect'[r] # None => r # p /\ eventConnect'[r] = eventConnect[r]
       /\ acceptPackets' \subseteq Protocols /\ autosend' \subseteq Protocols
       /\ \A r \in autosend' : r \in autosend \/ Attended(queue', conn', r)
       /\ online' \subseteq Players /\ checked' \subseteq Players /\ inCheck' \subseteq Players
       /\ online' \cup inCheck' \subseteq online \cup inCheck \cup {c}
  BY <1>1, <1>2, <1>3, <1>6 DEF TypeOK
<1> QED
  BY <1>2, <1>5, <1>6, <1>7, <1>8, <1>9, <1>10, BindStep

\* connect, for a protocol that waits for its Player with q left of the queue: whichever
\* way it ends.
LEMMA ConnectStep ==
  ASSUME IInv, NEW p \in Protocols, NEW c \in Players, NEW q, Connect(p, c, q),
         Keeps(queue, conn, q, conn),
         p \in asked, player[p] = None, ~Holds(q, Task("login", p)),
         eventConnect' \in [Protocols -> Players \cup {None}],
         \A r \in Protocols : eventConnect'[r] # None => r # p /\ eventConnect'[r] = eventConnect[r],
         autosend' \subseteq Protocols,
         \A r \in autosend' : r \in autosend \/ Attended(q, conn, r),
         UNCHANGED <<online, checked, inCheck, toRelease, created, asked>>
  PROVE  IInv'
<1> USE SessionAssumption
<1>1. TypeOK /\ NotMadeYet /\ CountsExact
  BY DEF IInv
<1>2. Orderly(q, conn)
  BY DEF Keeps
<1>3. Keeps(q, conn, queue', conn')
  <2>1. CASE Disconnect(p, q)
    BY <1>2, <2>1, DisconnectKeeps
  <2>2. CASE conn' = conn /\ queue' = q
    BY <1>2, <2>2, KeepsAll
  <2> QED
    BY <2>1, <2>2 DEF Connect
<1>4. /\ Keeps(queue, conn, queue', conn')
      /\ ~Holds(queue', Task("login", p))
      /\ \A r \in autosend' : r \in autosend \/ Attended(queue', conn', r)
  <2>1. Keeps(queue, conn, queue', conn')
    BY <1>3, KeepsTransitive
  <2> QED
    BY <1>3, <2>1 DEF Keeps
<1>5. CASE UNCHANGED <<bindingVars, refs, acceptPackets, isConnecting>>
  <2>1. CountsExact'
    BY <1>1, <1>5 DEF CountsExact, Owners, bindingVars
  <2> QED
    BY <1>1, <1>4, <1>5, <2>1, UnboundStep DEF TypeOK, bindingVars
<1>6. CASE /\ IsFree(c)
           /\ Bound(p, c)
           /\ refs' = Increment(refs, c)
           /\ acceptPackets' = acceptPackets \cup {p}
  <2>1. /\ refs' \in [Players -> Nat]
        /\ \A d \in Players : refs'[d] = refs[d] + OneIf(d = c)
    <3>1. refs \in [Players -> Nat] /\ refs' = Increment(refs, c)
      BY <1>1, <1>6 DEF TypeOK
    <3> QED
      BY ONLY <3>1, c \in Players, IncrementAt
  <2>2. \A d \in Players : /\ OneIf(d = c) * (0 + 1) = OneIf(d = c)
                           /\ OneIf(d = c) * 0 = 0
                           /\ OneIf(d \in online) + OneIf(d \in inCheck) + toRelease[d] \in Nat
    BY <1>1 DEF OneIf, TypeOK
  <2>3. /\ \A d \in Players : refs'[d] = refs[d] + OneIf(d = c) * (0 + 1)
        /\ toRelease' \in [Players -> Nat]
        /\ \A d \in Players : OneIf(d \in online') + OneIf(d \in inCheck') + toRelease'[d] =
                                OneIf(d \in online) + OneIf(d \in inCheck) + toRelease[d]
                                  + OneIf(d = c) * 0
    BY <1>1, <2>1, <2>2 DEF TypeOK
  <2>4. created' \in 0..MaxPlayers /\ created' >= created /\ created' >= c
    BY <1>1, <1>6 DEF TypeOK, NotMadeYet, IsFree, Players
  <2>5. /\ acceptPackets' \subseteq Protocols
        /\ online' \subseteq Players /\ checked' \subseteq Players /\ inCheck' \subseteq Players
        /\ online' \cup inCheck' \subseteq online \cup inCheck \cup {c}
    BY <1>1, <1>6 DEF TypeOK
  <2> QED
    BY <1>4, <1>6, <2>1, <2>3, <2>4, <2>5, BindStep
<1> QED
  BY <1>5, <1>6 DEF Connect, Bound

LEMMA LoginReconnectsStep ==
  ASSUME IInv, NEW p \in Protocols, NEW c \in Players, LoginReconnects(p, c)
  PROVE  IInv'
<1>1. /\ Run("login", p) /\ Connect(p, c, Tail(queue))
      /\ autosend' = autosend \cup {p}
      /\ UNCHANGED <<eventConnect, online, checked, inCheck, toRelease, created, asked>>
  BY DEF LoginReconnects, gameVars, history
<1>2. /\ Keeps(queue, conn, Tail(queue), conn)
      /\ p \in asked /\ player[p] = None /\ eventConnect[p] = None
      /\ ~Holds(Tail(queue), Task("login", p))
      /\ Attended(Tail(queue), conn, p)
  BY <1>1, RunKeeps
<1>3. /\ eventConnect' \in [Protocols -> Players \cup {None}]
      /\ \A r \in Protocols : eventConnect'[r] # None => r # p /\ eventConnect'[r] = eventConnect[r]
      /\ autosend' \subseteq Protocols
      /\ \A r \in autosend' : r \in autosend \/ Attended(Tail(queue), conn, r)
  BY <1>1, <1>2 DEF IInv, TypeOK
<1> QED
  BY <1>1, <1>2, <1>3, ConnectStep

LEMMA ConnectLaterStep ==
  ASSUME IInv, NEW p \in Protocols, ConnectLater(p)
  PROVE  IInv'
<1> USE SessionAssumption
<1> DEFINE c == eventConnect[p]
<1>1. /\ c # None /\ Connect(p, c, queue)
      /\ eventConnect' = [eventConnect EXCEPT ![p] = None]
      /\ UNCHANGED <<autosend, online, checked, inCheck, toRelease, created, asked>>
  BY DEF ConnectLater, gameVars, history
<1>2. TypeOK /\ LoginOnce
  BY DEF IInv
<1>3. c \in Players
  BY <1>1, <1>2 DEF TypeOK
<1>4. p \in asked /\ player[p] = None /\ ~Holds(queue, Task("login", p))
  BY <1>1, <1>2 DEF LoginOnce
<1>5. Keeps(queue, conn, queue, conn)
  BY InvOrderly, KeepsAll
<1>6. /\ eventConnect' \in [Protocols -> Players \cup {None}]
      /\ \A r \in Protocols : eventConnect'[r] # None => r # p /\ eventConnect'[r] = eventConnect[r]
      /\ autosend' \subseteq Protocols
      /\ \A r \in autosend' : r \in autosend \/ Attended(queue, conn, r)
  BY <1>1, <1>2 DEF TypeOK
<1> HIDE DEF c
<1> QED
  BY <1>1, <1>3, <1>4, <1>5, <1>6, ConnectStep

LEMMA LoginReplacesStep ==
  ASSUME IInv, NEW p \in Protocols, NEW c \in Players, LoginReplaces(p, c)
  PROVE  IInv'
<1> USE SessionAssumption
<1>1. /\ Run("login", p) /\ client[c] # None
      /\ Disconnect(client[c], Tail(queue))
      /\ eventConnect' = [eventConnect EXCEPT ![p] = c]
      /\ autosend' = autosend \cup {p}
      /\ UNCHANGED <<acceptPackets, player, client, online, checked, inCheck, toRelease, refs,
                     created, asked>>
  BY DEF LoginReplaces, bindingVars, gameVars, history
<1>2. TypeOK /\ CountsExact
  BY DEF IInv
<1>3. /\ Orderly(Tail(queue), conn)
      /\ Keeps(queue, conn, Tail(queue), conn)
      /\ p \in asked /\ player[p] = None
      /\ ~Holds(Tail(queue), Task("login", p))
      /\ Attended(Tail(queue), conn, p)
  BY <1>1, RunKeeps
<1>4. Keeps(Tail(queue), conn, queue', conn')
  BY <1>1, <1>2, <1>3, DisconnectKeeps DEF TypeOK
<1>5. Keeps(queue, conn, queue', conn')
  BY <1>3, <1>4, KeepsTransitive
<1>6. ~Holds(queue', Task("login", p)) /\ Attended(queue', conn', p)
  BY <1>3, <1>4 DEF Keeps
<1>7. /\ eventConnect' \in [Protocols -> Players \cup {None}]
      /\ \A r \in Protocols : eventConnect'[r] # None =>
           \/ eventConnect'[r] = eventConnect[r]
           \/ r \in asked /\ player[r] = None /\ ~Holds(queue', Task("login", r))
  BY <1>1, <1>2, <1>3, <1>6 DEF TypeOK
<1>8. CountsExact'
  BY <1>1, <1>2 DEF CountsExact, Owners
<1>9. /\ acceptPackets' \subseteq Protocols /\ autosend' \subseteq Protocols
      /\ \A r \in autosend' : r \in autosend \/ Attended(queue', conn', r)
      /\ online' \subseteq online /\ checked' \subseteq Players /\ inCheck' \subseteq inCheck
      /\ toRelease' \in [Players -> Nat] /\ refs' \in [Players -> Nat]
  BY <1>1, <1>2, <1>6 DEF TypeOK
<1> QED
  BY <1>1, <1>5, <1>7, <1>8, <1>9, UnboundStep
-----------------------------------------------------------------------------
(* The game gives counts back                                              *)

\* removeCreature and the count it has given back later.
LEMMA LeavingCounts ==
  ASSUME TypeOK, NEW c \in Players, RemoveCreature(c)
  PROVE  /\ ReleasedWith(c) \in [Players -> Nat]
         /\ online' \subseteq online /\ checked' \subseteq Players
         /\ \A d \in Players : OneIf(d \in online') + ReleasedWith(c)[d] = OneIf(d \in online) + toRelease[d]
<1>1. toRelease \in [Players -> Nat] /\ online' = online \ {c} /\ checked' = checked \ {c}
      /\ checked \subseteq Players
  BY DEF TypeOK, RemoveCreature
<1>2. CASE c \in online
  <2>1. ReleasedWith(c) = Increment(toRelease, c)
    BY <1>2 DEF ReleasedWith
  <2>2. /\ ReleasedWith(c) \in [Players -> Nat]
        /\ \A d \in Players : ReleasedWith(c)[d] = toRelease[d] + OneIf(d = c)
    BY <1>1, <2>1, IncrementAt
  <2>3. \A d \in Players : OneIf(d \in online') = OneIf(d \in online) - OneIf(d = c)
    BY <1>1, <1>2 DEF OneIf
  <2>4. \A d \in Players : OneIf(d = c) \in {0, 1} /\ OneIf(d \in online) \in {0, 1} /\ toRelease[d] \in Nat
    BY <1>1 DEF OneIf
  <2> QED
    BY <1>1, <2>2, <2>3, <2>4
<1>3. CASE c \notin online
  BY <1>1, <1>3 DEF ReleasedWith
<1> QED
  BY <1>2, <1>3

\* cleanup, when as much leaves the counted places as r gains over toRelease.
LEMMA CleanupCounts ==
  ASSUME TypeOK, CountsExact, player' = player, NEW r \in [Players -> Nat], Cleanup(r),
         \A d \in Players : OneIf(d \in online') + OneIf(d \in inCheck') + r[d] =
                              OneIf(d \in online) + OneIf(d \in inCheck) + toRelease[d]
  PROVE  /\ toRelease' \in [Players -> Nat] /\ refs' \in [Players -> Nat]
         /\ CountsExact'
<1>1. /\ refs' = [d \in Players |-> refs[d] - r[d]]
      /\ toRelease' = [d \in Players |-> 0]
  BY DEF Cleanup
<1>2. ASSUME NEW d \in Players
      PROVE  /\ refs'[d] \in Nat
             /\ refs'[d] = Cardinality(Owners(d)') + OneIf(d \in online')
                             + OneIf(d \in inCheck') + toRelease'[d]
  <2>1. Owners(d)' = Owners(d) /\ Cardinality(Owners(d)) \in Nat
    BY OwnersType DEF Owners
  <2>2. /\ refs[d] \in Nat /\ toRelease[d] \in Nat /\ r[d] \in Nat
        /\ refs[d] = Cardinality(Owners(d)) + OneIf(d \in online)
                       + OneIf(d \in inCheck) + toRelease[d]
    BY DEF TypeOK, CountsExact
  <2>3. /\ OneIf(d \in online) \in {0, 1} /\ OneIf(d \in inCheck) \in {0, 1}
        /\ OneIf(d \in online') \in {0, 1} /\ OneIf(d \in inCheck') \in {0, 1}
    BY DEF OneIf
  <2>4. refs'[d] = refs[d] - r[d] /\ toRelease'[d] = 0
    BY <1>1
  <2>5. /\ refs'[d] = Cardinality(Owners(d)) + OneIf(d \in online') + OneIf(d \in inCheck')
        /\ refs'[d] \in Nat
    BY <2>1, <2>2, <2>3, <2>4
  <2> QED
    BY <2>1, <2>3, <2>4, <2>5
<1>3. refs' \in [Players -> Nat] /\ toRelease' \in [Players -> Nat]
  BY <1>1, <1>2
<1>4. CountsExact'
  BY <1>2 DEF CountsExact, OneIf
<1> QED
  BY <1>3, <1>4

LEMMA LogoutStep ==
  ASSUME IInv, NEW p \in Protocols, Logout(p) \/ LogoutForbidden(p)
  PROVE  IInv'
<1> USE SessionAssumption
<1>1. TypeOK /\ CountsExact
  BY DEF IInv
<1>2. Run("logout", p)
  BY DEF Logout, LogoutForbidden
<1>3. /\ Keeps(queue, conn, Tail(queue), conn)
      /\ Orderly(Tail(queue), conn)
  BY <1>2, RunKeeps
<1>4. CASE queue' = Tail(queue) /\ conn' = conn
           /\ UNCHANGED <<protocolVars, bindingVars, gameVars, refs, history>>
  BY <1>1, <1>3, <1>4, QueueOnly DEF TypeOK, protocolVars, bindingVars, history
<1>5. CASE Logout(p) /\ player[p] # None
  <2> DEFINE c == player[p]
  <2>1. /\ Disconnect(p, Tail(queue)) /\ RemoveCreature(c)
        /\ toRelease' = ReleasedWith(c)
        /\ UNCHANGED <<inCheck, eventConnect, acceptPackets, autosend, player, client, refs,
                       created, asked>>
    BY <1>5 DEF Logout, protocolVars, bindingVars, history
  <2>2. c \in Players
    BY <1>1, <1>5 DEF TypeOK
  <2> HIDE DEF c
  <2>3. Keeps(queue, conn, queue', conn')
    BY <1>3, <2>1, DisconnectKeeps, KeepsTransitive
  <2>4. /\ toRelease' \in [Players -> Nat]
        /\ online' \subseteq online /\ checked' \subseteq Players
        /\ \A d \in Players : OneIf(d \in online') + toRelease'[d] = OneIf(d \in online) + toRelease[d]
    BY <1>1, <2>1, <2>2, LeavingCounts
  <2>5. CountsExact'
    <3> SUFFICES ASSUME NEW d \in Players
                 PROVE  refs'[d] = Cardinality(Owners(d)') + OneIf(d \in online')
                                     + OneIf(d \in inCheck') + toRelease'[d]
      BY DEF CountsExact, OneIf
    <3>1. Owners(d)' = Owners(d) /\ Cardinality(Owners(d)) \in Nat
      BY <2>1, OwnersType DEF Owners
    <3>2. /\ toRelease[d] \in Nat /\ toRelease'[d] \in Nat
          /\ refs[d] = Cardinality(Owners(d)) + OneIf(d \in online)
                         + OneIf(d \in inCheck) + toRelease[d]
      BY <1>1, <2>4 DEF TypeOK, CountsExact
    <3>3. /\ OneIf(d \in online) \in {0, 1} /\ OneIf(d \in inCheck) \in {0, 1}
          /\ OneIf(d \in online') \in {0, 1}
      BY DEF OneIf
    <3>4. refs'[d] = refs[d] /\ OneIf(d \in inCheck') = OneIf(d \in inCheck)
      BY <2>1
    <3> QED
      BY <2>4, <3>1, <3>2, <3>3, <3>4
  <2>6. /\ eventConnect' \in [Protocols -> Players \cup {None}] /\ eventConnect' = eventConnect
        /\ acceptPackets' \subseteq Protocols /\ autosend' \subseteq Protocols
        /\ autosend' = autosend /\ inCheck' \subseteq inCheck
        /\ refs' \in [Players -> Nat]
    BY <1>1, <2>1 DEF TypeOK
  <2> QED
    BY <2>1, <2>3, <2>4, <2>5, <2>6, UnboundStep
<1> QED
  BY <1>2, <1>4, <1>5 DEF Logout, LogoutForbidden, Run

\* checkCreatures ends with cleanup, whoever left the game or the list.
LEMMA CheckedStep ==
  ASSUME IInv, Keeps(queue, conn, queue', conn'),
         UNCHANGED <<protocolVars, bindingVars, history>>,
         NEW r \in [Players -> Nat], Cleanup(r),
         online' \subseteq online, checked' \subseteq Players, inCheck' \subseteq inCheck,
         \A d \in Players : OneIf(d \in online') + OneIf(d \in inCheck') + r[d] =
                              OneIf(d \in online) + OneIf(d \in inCheck) + toRelease[d]
  PROVE  IInv'
<1>1. TypeOK /\ CountsExact
  BY DEF IInv
<1>2. UNCHANGED <<player, client, created, asked, eventConnect, acceptPackets, autosend>>
  BY DEF protocolVars, bindingVars, history
<1>3. toRelease' \in [Players -> Nat] /\ refs' \in [Players -> Nat] /\ CountsExact'
  BY <1>1, <1>2, CleanupCounts
<1>4. /\ eventConnect' \in [Protocols -> Players \cup {None}]
      /\ acceptPackets' \subseteq Protocols /\ autosend' \subseteq Protocols
  BY <1>1, <1>2 DEF TypeOK
<1> QED
  BY <1>2, <1>3, <1>4, UnboundStep

LEMMA ThinkStep ==
  ASSUME IInv, Think
  PROVE  IInv'
<1>1. toRelease \in [Players -> Nat] /\ online \subseteq Players /\ checked \subseteq Players
  BY DEF IInv, TypeOK
<1>2. /\ Cleanup(toRelease)
      /\ UNCHANGED <<conn, queue, protocolVars, bindingVars, online, checked, inCheck, history>>
  BY DEF Think
<1>3. Keeps(queue, conn, queue', conn')
  BY <1>2, InvOrderly, KeepsAll
<1> QED
  BY <1>1, <1>2, <1>3, CheckedStep

LEMMA UncheckStep ==
  ASSUME IInv, NEW c \in Players, Uncheck(c)
  PROVE  IInv'
<1>1. toRelease \in [Players -> Nat] /\ online \subseteq Players /\ checked \subseteq Players
  BY DEF IInv, TypeOK
<1>2. /\ c \in inCheck /\ inCheck' = inCheck \ {c}
      /\ Cleanup(Increment(toRelease, c))
      /\ UNCHANGED <<conn, queue, protocolVars, bindingVars, online, checked, history>>
  BY DEF Uncheck
<1>3. Keeps(queue, conn, queue', conn')
  BY <1>2, InvOrderly, KeepsAll
<1>4. /\ Increment(toRelease, c) \in [Players -> Nat]
      /\ \A d \in Players : Increment(toRelease, c)[d] = toRelease[d] + OneIf(d = c)
  BY <1>1, IncrementAt
<1>5. ASSUME NEW d \in Players
      PROVE  OneIf(d \in online') + OneIf(d \in inCheck') + Increment(toRelease, c)[d] =
               OneIf(d \in online) + OneIf(d \in inCheck) + toRelease[d]
  <2>1. OneIf(d \in inCheck') = OneIf(d \in inCheck) - OneIf(d = c)
    BY <1>2 DEF OneIf
  <2>2. /\ OneIf(d = c) \in {0, 1} /\ OneIf(d \in online) \in {0, 1}
        /\ OneIf(d \in inCheck) \in {0, 1} /\ toRelease[d] \in Nat
    BY <1>1 DEF OneIf
  <2>3. online' = online
    BY <1>2
  <2> QED
    BY <1>4, <2>1, <2>2, <2>3
<1> QED
  BY <1>1, <1>2, <1>3, <1>4, <1>5, CheckedStep

LEMMA LeaveStep ==
  ASSUME IInv, NEW c \in Players, Leave(c),
         Disconnect(client[c], queue) \/ UNCHANGED <<conn, queue>>
  PROVE  IInv'
<1>1. TypeOK
  BY DEF IInv
<1>2. /\ RemoveCreature(c) /\ Cleanup(ReleasedWith(c))
      /\ UNCHANGED <<protocolVars, bindingVars, inCheck, history>>
  BY DEF Leave
<1>3. Keeps(queue, conn, queue', conn')
  <2>1. Orderly(queue, conn) /\ client[c] \in Protocols \cup {None}
    BY <1>1, InvOrderly DEF TypeOK
  <2>2. CASE Disconnect(client[c], queue)
    BY <2>1, <2>2, DisconnectKeeps
  <2>3. CASE UNCHANGED <<conn, queue>>
    BY <2>1, <2>3, KeepsAll
  <2> QED
    BY <2>2, <2>3
<1>4. /\ ReleasedWith(c) \in [Players -> Nat]
      /\ online' \subseteq online /\ checked' \subseteq Players
      /\ \A d \in Players : OneIf(d \in online') + ReleasedWith(c)[d] = OneIf(d \in online) + toRelease[d]
  BY <1>1, <1>2, LeavingCounts
<1>5. ASSUME NEW d \in Players
      PROVE  OneIf(d \in online') + OneIf(d \in inCheck') + ReleasedWith(c)[d] =
               OneIf(d \in online) + OneIf(d \in inCheck) + toRelease[d]
  <2>1. /\ OneIf(d \in online) \in {0, 1} /\ OneIf(d \in online') \in {0, 1}
        /\ OneIf(d \in inCheck) \in {0, 1} /\ toRelease[d] \in Nat /\ ReleasedWith(c)[d] \in Nat
    BY <1>1, <1>4 DEF OneIf, TypeOK
  <2>2. inCheck' = inCheck
    BY <1>2
  <2> QED
    BY <1>4, <2>1, <2>2
<1> QED
  BY <1>2, <1>3, <1>4, <1>5, CheckedStep

-----------------------------------------------------------------------------
(* The results                                                             *)

LEMMA InitInv ==
  ASSUME Init
  PROVE  IInv
<1> USE SessionAssumption DEF Init
<1>1. TypeOK
  BY DEF TypeOK
<1>2. LoginOnce /\ NotMadeYet /\ ReleasedBehind(queue, conn) /\ NothingSentToTheDead
  BY DEF LoginOnce, LoginsDiffer, Holds, NotMadeYet, ReleasedBehind, NothingSentToTheDead
<1>3. CountsExact
  <2> SUFFICES ASSUME NEW c \in Players
               PROVE  refs[c] = Cardinality(Owners(c)) + OneIf(c \in online)
                                  + OneIf(c \in inCheck) + toRelease[c]
    BY DEF CountsExact
  <2>1. Owners(c) = {}
    BY DEF Owners
  <2>2. Cardinality({}) = 0
    BY FS_EmptySet
  <2> QED
    BY <2>1, <2>2 DEF OneIf
<1> QED
  BY <1>1, <1>2, <1>3 DEF IInv

LEMMA NextInv ==
  ASSUME IInv, Next
  PROVE  IInv'
<1>1. CASE \E p \in Protocols : Network(p) \/ RunTask(p) \/ ConnectLater(p)
  <2>1. PICK p \in Protocols : Network(p) \/ RunTask(p) \/ ConnectLater(p)
    BY <1>1
  <2>2. CASE RunTask(p)
    BY <2>2, ReleaseStep, LogoutStep, LoginUnplacedStep, LoginPlacedStep, LoginKickedStep,
       LoginReplacesStep, LoginReconnectsStep DEF RunTask
  <2> QED
    BY <2>1, <2>2, NetworkStep, ConnectLaterStep
<1>2. CASE \E c \in Players : CheckCreature(c)
  BY <1>2, UncheckStep, LeaveStep DEF CheckCreature, PingTimeout, IdleKick, Die
<1>3. CASE Think
  BY <1>3, ThinkStep
<1> QED
  BY <1>1, <1>2, <1>3 DEF Next

LEMMA StutterInv ==
  ASSUME IInv, UNCHANGED vars
  PROVE  IInv'
BY DEF vars, IInv, TypeOK, LoginOnce, LoginsDiffer, Holds, NotMadeYet, ReleasedBehind,
       CountsExact, Owners, NothingSentToTheDead, Queued

\* The invariant holds in every state, whatever the network thread does between two tasks.
THEOREM InductiveInv == Spec => []IInv
<1>1. Init => IInv
  BY InitInv
<1>2. IInv /\ [Next]_vars => IInv'
  BY NextInv, StutterInv
<1> QED
  BY <1>1, <1>2, PTL DEF Spec

\* The counter of a Player is always the number of protocols, lists and pending releases
\* that refer to it: nothing that still does sees the Player deleted.
THEOREM CountsStayExact == Spec => []CountsExact
<1>1. IInv => CountsExact
  BY DEF IInv
<1> QED
  BY <1>1, InductiveInv, PTL

\* A protocol whose connection is not open any more is in the list of those to send for
\* only until a release that is already queued.
THEOREM DeadAreDropped == Spec => []NothingSentToTheDead
<1>1. IInv => NothingSentToTheDead
  BY DEF IInv
<1> QED
  BY <1>1, InductiveInv, PTL

\* A Player's client is never replaced by another, however many connects are pending: it
\* is let go first.
THEOREM NobodyIsStolen == Spec => NeverStolen
<1>1. ASSUME IInv, [Next]_vars
      PROVE  \A c \in Players : client[c] # None => client'[c] \in {client[c], None}
  <2> SUFFICES ASSUME NEW c \in Players, client[c] # None
               PROVE  client'[c] \in {client[c], None}
    OBVIOUS
  <2>1. TypeOK
    BY <1>1 DEF IInv
  <2>2. ASSUME client' = client
        PROVE  client'[c] \in {client[c], None}
    BY <2>2
  <2>3. ASSUME NEW p \in Protocols, Release(p)
        PROVE  client'[c] \in {client[c], None}
    BY <2>1, <2>3 DEF Release, ReleasePlayer, bindingVars, TypeOK
  <2>4. ASSUME NEW p \in Protocols, NEW d \in Players, NewPlayer(p, d)
        PROVE  client'[c] \in {client[c], None}
    <3>1. client[d] = None /\ client' = [client EXCEPT ![d] = p]
      BY <1>1, <2>4, NewPlayerFacts DEF Bound
    <3> QED
      BY <2>1, <3>1 DEF TypeOK
  <2>5. ASSUME NEW p \in Protocols, NEW d, NEW q, Connect(p, d, q)
        PROVE  client'[c] \in {client[c], None}
    BY <2>1, <2>5 DEF Connect, IsFree, bindingVars, TypeOK
  <2>6. CASE \E p \in Protocols : Network(p) \/ RunTask(p) \/ ConnectLater(p)
    <3>1. PICK p \in Protocols : Network(p) \/ RunTask(p) \/ ConnectLater(p)
      BY <2>6
    <3>2. CASE Network(p)
      BY <2>2, <3>2 DEF Network, FirstMessage, LogoutPacket, NetworkClose, Destroy, bindingVars
    <3>3. CASE RunTask(p)
      <4>1. CASE Logout(p) \/ LogoutForbidden(p)
        BY <2>2, <4>1 DEF Logout, LogoutForbidden, bindingVars
      <4>2. CASE \E d \in Players : LoginReplaces(p, d)
        BY <2>2, <4>2 DEF LoginReplaces, bindingVars
      <4>3. CASE \E d \in Players : LoginReconnects(p, d)
        BY <2>5, <4>3 DEF LoginReconnects
      <4>4. CASE \E d \in Players : LoginRefused(p, d) \/ LoginIgnored(p, d) \/ LoginPlaced(p, d)
                                       \/ LoginKicked(p, d)
        BY <2>4, <4>4 DEF LoginRefused, LoginIgnored, LoginPlaced, LoginKicked
      <4> QED
        BY <2>3, <3>3, <4>1, <4>2, <4>3, <4>4 DEF RunTask
    <3>4. CASE ConnectLater(p)
      BY <2>5, <3>4 DEF ConnectLater
    <3> QED
      BY <3>1, <3>2, <3>3, <3>4
  <2>7. CASE \E d \in Players : CheckCreature(d)
    BY <2>2, <2>7 DEF CheckCreature, Uncheck, PingTimeout, IdleKick, Die, Leave, bindingVars
  <2>8. CASE Think \/ UNCHANGED vars
    BY <2>2, <2>8 DEF Think, bindingVars, vars
  <2> QED
    BY <1>1, <2>6, <2>7, <2>8 DEF Next
<1>2. IInv /\ [Next]_vars
        => [\A c \in Players : client[c] # None => client'[c] \in {client[c], None}]_vars
  BY <1>1
<1> QED
  BY <1>2, InductiveInv, PTL DEF Spec, NeverStolen
=============================================================================
