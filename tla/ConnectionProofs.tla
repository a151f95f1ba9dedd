-------------------------- MODULE ConnectionProofs --------------------------
(***************************************************************************)
(* Proofs about Connection, for any number of messages and any length of   *)
(* the server's name: IInv is inductive, so the stream the client reads    *)
(* has no gap, a graceful close cuts nothing off, and whatever waits on    *)
(* the client is under a timer.                                            *)
(*                                                                         *)
(* Good says of a record d what IInv says of c, but for the part of        *)
(* QueueMoves that the methods break for a moment (Moving).                *)
(***************************************************************************)
EXTENDS Connection, SequenceTheorems, TLAPS

Good(d, st, n, w) ==
  /\ d \in Connections
  /\ Numbered(w \o d.messageQueue)
  /\ d.state # "DISCONNECTED" \/ ~d.forced \/ st # "done"
       => Len(w) + Len(d.messageQueue) = n
  /\ d.write # "none" => d.messageQueue # <<>>
  /\ d.open /\ d.input = "pending" => "read" \in d.armed \cup d.fired
  /\ d.open /\ d.write = "pending" => "write" \in d.armed \cup d.fired
  /\ d.state = "DISCONNECTED" /\ d.protocol # "none" => d.released
  /\ ~d.open /\ ~d.forced => d.state = "DISCONNECTED" /\ d.messageQueue = <<>>
  /\ d.read = "char" => d.receivedName /\ ~d.receivedLastChar
  /\ d.receivedName /\ ~d.receivedLastChar => d.serverNameTime < NameLength
  /\ d.forced => ~d.open
  /\ d.state = "DISCONNECTED" /\ st # "done" => d.forced

Moving(d) ==
  d.write = "none" /\ d.messageQueue # <<>> => d.state = "DISCONNECTED" \/ ~d.open

\* The handshake of e is the one of d.
SameName(e, d) ==
  /\ e.read = d.read
  /\ e.receivedName = d.receivedName /\ e.receivedLastChar = d.receivedLastChar
  /\ e.serverNameTime = d.serverNameTime

\* The same facts, as the state predicate.
LEMMA InvIsGood ==
  IInv <=> /\ starting \in {"new", "posted", "staged", "done"}
           /\ accepted \in 0..MaxMessages
           /\ written \in Seq(Nat)
           /\ Good(c, starting, accepted, written)
           /\ Moving(c)
           /\ Fresh
BY DEF IInv, TypeOK, NoGap, Kept, QueueMoves, CoveredByTimer, ReleaseIsPosted,
       LossIsForced, ClosedClean, Naming, Good, Moving

-----------------------------------------------------------------------------
(* Numbered sequences                                                      *)

LEMMA AppendNumbered ==
  ASSUME NEW w \in Seq(Nat), NEW q \in Seq(Nat), NEW n \in Nat,
         Numbered(w \o q), Len(w) + Len(q) = n
  PROVE  Numbered(w \o Append(q, n + 1))
<1>1. Len(w) \in Nat /\ Len(q) \in Nat
  BY LenProperties
<1>2. w \o Append(q, n + 1) = Append(w \o q, n + 1)
  BY <1>1
<1>3. w \o q \in Seq(Nat) /\ Len(w \o q) = n
  BY ConcatProperties
<1> DEFINE s == w \o q
<1>4. s \in Seq(Nat) /\ Len(s) = n /\ s = [i \in 1..n |-> i]
  BY <1>3 DEF Numbered
<1> HIDE DEF s
<1>5. /\ Append(s, n + 1) \in Seq(Nat)
      /\ Len(Append(s, n + 1)) = n + 1
      /\ \A i \in 1..n : Append(s, n + 1)[i] = s[i]
      /\ Append(s, n + 1)[n + 1] = n + 1
  BY <1>4, AppendProperties
<1>6. \A i \in 1..(n + 1) : Append(s, n + 1)[i] = i
  BY <1>4, <1>5
<1>7. Append(s, n + 1) = [i \in 1..(n + 1) |-> Append(s, n + 1)[i]]
  BY <1>5, LenProperties
<1>8. Append(s, n + 1) = [i \in 1..(n + 1) |-> i]
  BY <1>6, <1>7
<1> QED BY <1>2, <1>5, <1>8 DEF Numbered, s

LEMMA PrefixNumbered ==
  ASSUME NEW w \in Seq(Nat), NEW q \in Seq(Nat), Numbered(w \o q)
  PROVE  Numbered(w \o <<>>)
<1>1. Len(w) \in Nat /\ Len(q) \in Nat
  BY LenProperties
<1>2. /\ Len(w \o q) = Len(w) + Len(q)
      /\ \A i \in 1..Len(w) : (w \o q)[i] = w[i]
  BY <1>1, ConcatProperties
<1>3. w \o <<>> = w
  BY ConcatEmptySeq
<1>4. ASSUME NEW i \in 1..Len(w)
      PROVE  w[i] = i
  <2>1. i \in 1..Len(w \o q)
    BY <1>1, <1>2
  <2>2. (w \o q)[i] = i
    BY <2>1 DEF Numbered
  <2> QED BY <1>2, <2>2
<1>5. w = [i \in 1..Len(w) |-> w[i]]
  BY LenProperties
<1>6. w = [i \in 1..Len(w) |-> i]
  BY <1>4, <1>5
<1> QED BY <1>3, <1>6 DEF Numbered

LEMMA ShiftNumbered ==
  ASSUME NEW w \in Seq(Nat), NEW q \in Seq(Nat), q # <<>>
  PROVE  /\ Append(w, Head(q)) \in Seq(Nat)
         /\ Tail(q) \in Seq(Nat)
         /\ Append(w, Head(q)) \o Tail(q) = w \o q
         /\ Len(Append(w, Head(q))) + Len(Tail(q)) = Len(w) + Len(q)
         /\ Len(q) = 1 => Tail(q) = <<>>
         /\ Len(q) > 1 => Tail(q) # <<>>
<1>1. Len(w) \in Nat /\ Len(q) \in Nat \ {0}
  BY LenProperties, EmptySeq
<1>2. /\ Head(q) \in Nat
      /\ Tail(q) \in Seq(Nat)
      /\ Len(Tail(q)) = Len(q) - 1
      /\ \A i \in 1..Len(Tail(q)) : Tail(q)[i] = q[i + 1]
      /\ Head(q) = q[1]
  BY HeadTailProperties
<1>3. /\ Append(w, Head(q)) \in Seq(Nat)
      /\ Len(Append(w, Head(q))) = Len(w) + 1
      /\ \A i \in 1..Len(w) : Append(w, Head(q))[i] = w[i]
      /\ Append(w, Head(q))[Len(w) + 1] = Head(q)
  BY <1>2, AppendProperties
<1> DEFINE a == Append(w, Head(q))
           t == Tail(q)
<1>4. /\ a \o t \in Seq(Nat) /\ w \o q \in Seq(Nat)
      /\ Len(a \o t) = Len(a) + Len(t)
      /\ Len(w \o q) = Len(w) + Len(q)
      /\ \A i \in 1..(Len(a) + Len(t)) :
           (a \o t)[i] = IF i <= Len(a) THEN a[i] ELSE t[i - Len(a)]
      /\ \A i \in 1..(Len(w) + Len(q)) :
           (w \o q)[i] = IF i <= Len(w) THEN w[i] ELSE q[i - Len(w)]
  BY <1>2, <1>3, ConcatProperties
<1>5. ASSUME NEW i \in 1..(Len(w) + Len(q))
      PROVE  (a \o t)[i] = (w \o q)[i]
  BY <1>1, <1>2, <1>3, <1>4
<1>6. Len(a \o t) = Len(w) + Len(q)
  BY <1>1, <1>2, <1>3, <1>4
<1>7. a \o t = w \o q
  BY <1>4, <1>5, <1>6, SeqEqual
<1>8. Len(q) = 1 => Tail(q) = <<>>
  <2> SUFFICES ASSUME Len(q) = 1 PROVE t = <<>>
    OBVIOUS
  <2>1. t \in Seq(Nat) /\ Len(t) = 0
    BY <1>2
  <2> HIDE DEF t
  <2> QED BY <2>1, EmptySeq
<1>9. Len(q) > 1 => Tail(q) # <<>>
  <2> SUFFICES ASSUME Len(q) > 1 PROVE t # <<>>
    OBVIOUS
  <2>1. Len(t) = Len(q) - 1
    BY <1>2
  <2> HIDE DEF t
  <2> QED BY <1>1, <2>1, EmptySeq
<1>10. Len(Append(w, Head(q))) + Len(Tail(q)) = Len(w) + Len(q)
  BY <1>1, <1>2, <1>3
<1> QED BY <1>2, <1>3, <1>7, <1>8, <1>9, <1>10

-----------------------------------------------------------------------------
(* Methods                                                                 *)

\* What close does before it looks at the queue.
Marked(d, force) ==
  [d EXCEPT !.registered = FALSE, !.state = "DISCONNECTED",
            !.released = @ \/ d.protocol # "none",
            !.forced = @ \/ force]

LEMMA MarkedFields ==
  ASSUME NEW d \in Connections, NEW force \in BOOLEAN
  PROVE  LET e == Marked(d, force)
         IN /\ e \in Connections
            /\ e.state = "DISCONNECTED"
            /\ e.released <=> d.released \/ d.protocol # "none"
            /\ e.forced <=> d.forced \/ force
            /\ e.open = d.open /\ e.messageQueue = d.messageQueue
            /\ e.write = d.write /\ e.input = d.input /\ e.protocol = d.protocol
            /\ e.armed = d.armed /\ e.fired = d.fired /\ SameName(e, d)
<1> DEFINE r == d.released \/ d.protocol # "none"
           g == d.forced \/ force
           e == Marked(d, force)
<1>1. r \in BOOLEAN /\ g \in BOOLEAN
  OBVIOUS
<1>2. e = [d EXCEPT !.registered = FALSE, !.state = "DISCONNECTED",
                    !.released = r, !.forced = g]
  BY DEF Marked
<1> HIDE DEF r, g, e
<1>3. /\ e \in Connections
      /\ e.state = "DISCONNECTED" /\ e.released = r /\ e.forced = g
      /\ e.open = d.open /\ e.messageQueue = d.messageQueue
      /\ e.write = d.write /\ e.input = d.input /\ e.protocol = d.protocol
      /\ e.armed = d.armed /\ e.fired = d.fired /\ SameName(e, d)
  BY <1>1, <1>2 DEF Connections, States, SameName
<1> QED BY <1>3 DEF r, g, e

LEMMA CloseSocketFields ==
  ASSUME NEW d \in Connections
  PROVE  LET e == CloseSocket(d)
         IN /\ e \in Connections
            /\ e.open = FALSE
            /\ e.state = d.state /\ e.released = d.released /\ e.forced = d.forced
            /\ e.messageQueue = d.messageQueue /\ e.protocol = d.protocol
            /\ e.write = "none" <=> d.write = "none"
            /\ SameName(e, d)
<1> DEFINE a == Abort(d.input)
           b == Abort(d.write)
           f == [d EXCEPT !.open = FALSE, !.armed = {}, !.input = a, !.write = b]
<1>1. /\ a \in Result /\ b \in Result
      /\ b = "none" <=> d.write = "none"
  BY DEF Connections, Abort, Result
<1>2. CloseSocket(d) = IF d.open THEN f ELSE d
  BY DEF CloseSocket
<1> HIDE DEF a, b
<1>3. /\ f \in Connections
      /\ f.open = FALSE
      /\ f.state = d.state /\ f.released = d.released /\ f.forced = d.forced
      /\ f.messageQueue = d.messageQueue /\ f.protocol = d.protocol
      /\ f.write = b /\ SameName(f, d)
  BY <1>1 DEF Connections, SameName
<1> HIDE DEF f
<1>4. CASE d.open
  BY <1>1, <1>2, <1>3, <1>4
<1>5. CASE ~d.open
  <2>1. d.open = FALSE
    BY <1>5 DEF Connections
  <2> QED BY <1>2, <2>1 DEF SameName
<1> QED BY <1>4, <1>5

LEMMA CloseFields ==
  ASSUME NEW d \in Connections, NEW force \in BOOLEAN
  PROVE  LET e == Close(d, force)
         IN /\ e \in Connections
            /\ e.state = "DISCONNECTED"
            /\ e.released <=> d.released \/ d.protocol # "none"
            /\ e.forced <=> d.forced \/ force
            /\ e.messageQueue = d.messageQueue /\ e.protocol = d.protocol
            /\ e.write = "none" <=> d.write = "none"
            /\ SameName(e, d)
            /\ \/ e.open = FALSE /\ (d.messageQueue = <<>> \/ force)
               \/ /\ e.open = d.open /\ ~(d.messageQueue = <<>> \/ force)
                  /\ e.write = d.write /\ e.input = d.input
                  /\ e.armed = d.armed /\ e.fired = d.fired
<1> DEFINE m == Marked(d, force)
<1>1. Close(d, force)
        = IF m.messageQueue = <<>> \/ force THEN CloseSocket(m) ELSE m
  BY DEF Close, Marked
<1>2. m \in Connections
  BY MarkedFields
<1> HIDE DEF m
<1>3. CASE m.messageQueue = <<>> \/ force
  <2> DEFINE e == CloseSocket(m)
  <2>1. Close(d, force) = e
    BY <1>1, <1>3
  <2>2. /\ e \in Connections
        /\ e.open = FALSE
        /\ e.state = m.state /\ e.released = m.released /\ e.forced = m.forced
        /\ e.messageQueue = m.messageQueue /\ e.protocol = m.protocol
        /\ e.write = "none" <=> m.write = "none"
        /\ SameName(e, m)
    BY <1>2, CloseSocketFields
  <2>3. /\ m.state = "DISCONNECTED"
        /\ m.released <=> d.released \/ d.protocol # "none"
        /\ m.forced <=> d.forced \/ force
        /\ m.messageQueue = d.messageQueue
        /\ m.write = d.write /\ m.protocol = d.protocol /\ SameName(m, d)
    BY MarkedFields DEF m
  <2> HIDE DEF e
  <2> QED BY <1>3, <2>1, <2>2, <2>3 DEF SameName
<1>4. CASE ~(m.messageQueue = <<>> \/ force)
  <2>1. Close(d, force) = m
    BY <1>1, <1>4
  <2> QED BY <1>2, <1>4, <2>1, MarkedFields DEF m
<1> QED BY <1>3, <1>4

LEMMA CloseByForce ==
  ASSUME NEW d, NEW st, NEW n \in Nat, NEW w \in Seq(Nat), Good(d, st, n, w)
  PROVE  Good(Close(d, TRUE), st, n, w) /\ Moving(Close(d, TRUE))
<1> DEFINE e == Close(d, TRUE)
<1>1. d \in Connections
  BY DEF Good
<1>2. /\ e \in Connections
      /\ e.state = "DISCONNECTED"
      /\ e.released <=> d.released \/ d.protocol # "none"
      /\ e.forced
      /\ e.messageQueue = d.messageQueue /\ e.protocol = d.protocol
      /\ e.write = "none" <=> d.write = "none"
      /\ e.open = FALSE /\ SameName(e, d)
  BY <1>1, CloseFields
<1> HIDE DEF e
<1>3. Good(e, st, n, w) /\ Moving(e)
  BY <1>2 DEF Good, Moving, SameName
<1> QED BY <1>3 DEF e

LEMMA CloseSoftly ==
  ASSUME NEW d, NEW n \in Nat, NEW w \in Seq(Nat), Good(d, "done", n, w)
  PROVE  Good(Close(d, FALSE), "done", n, w) /\ Moving(Close(d, FALSE))
<1> DEFINE e == Close(d, FALSE)
<1>1. d \in Connections
  BY DEF Good
<1>2. /\ e \in Connections
      /\ e.state = "DISCONNECTED"
      /\ e.released <=> d.released \/ d.protocol # "none"
      /\ e.forced <=> d.forced
      /\ e.messageQueue = d.messageQueue /\ e.protocol = d.protocol
      /\ e.write = "none" <=> d.write = "none"
      /\ SameName(e, d)
      /\ \/ e.open = FALSE /\ d.messageQueue = <<>>
         \/ /\ e.open = d.open /\ d.messageQueue # <<>>
            /\ e.write = d.write /\ e.input = d.input
            /\ e.armed = d.armed /\ e.fired = d.fired
  BY <1>1, CloseFields
<1> HIDE DEF e
<1>3. Good(e, "done", n, w) /\ Moving(e)
  BY <1>2 DEF Good, Moving, SameName
<1> QED BY <1>3 DEF e

LEMMA ReadNextIsGood ==
  ASSUME NEW d, NEW st, NEW n \in Nat, NEW w \in Seq(Nat), Good(d, st, n, w), Moving(d),
         NEW what \in {"header", "char", "body"}, NEW e \in ReadNext(d, what),
         what = "char" => d.receivedName /\ ~d.receivedLastChar
  PROVE  Good(e, st, n, w) /\ Moving(e)
<1>1. CASE e = Close(d, TRUE)
  BY <1>1, CloseByForce
<1>2. CASE e = [d EXCEPT !.armed = @ \cup {"read"}, !.read = what, !.input = Started(d)]
  <2>1. d \in Connections /\ Started(d) \in Result
    BY DEF Good, Started, Result
  <2>2. /\ e \in Connections
        /\ e.armed = d.armed \cup {"read"} /\ e.fired = d.fired
        /\ e.open = d.open /\ e.state = d.state /\ e.messageQueue = d.messageQueue
        /\ e.write = d.write /\ e.protocol = d.protocol
        /\ e.released = d.released /\ e.forced = d.forced
        /\ e.read = what /\ e.receivedName = d.receivedName
        /\ e.receivedLastChar = d.receivedLastChar
        /\ e.serverNameTime = d.serverNameTime
    BY <1>2, <2>1 DEF Connections, Timers
  <2> QED BY <2>2 DEF Good, Moving
<1> QED BY <1>1, <1>2 DEF ReadNext

LEMMA AcceptIsGood ==
  ASSUME NEW d, NEW st, NEW n \in Nat, NEW w \in Seq(Nat), Good(d, st, n, w), Moving(d),
         NEW e \in Accept(d)
  PROVE  Good(e, st, n, w) /\ Moving(e)
BY ReadNextIsGood DEF Accept

LEMMA InternalSendIsGood ==
  ASSUME NEW d, NEW st, NEW n \in Nat, NEW w \in Seq(Nat), Good(d, st, n, w),
         d.messageQueue # <<>>, NEW e \in InternalSend(d)
  PROVE  Good(e, st, n, w) /\ Moving(e)
<1>1. CASE e = Close(d, TRUE)
  BY <1>1, CloseByForce
<1>2. CASE e = [d EXCEPT !.armed = @ \cup {"write"}, !.write = Started(d)]
  <2>1. d \in Connections /\ Started(d) \in {"pending", "error"} /\ Started(d) \in Result
    BY DEF Good, Started, Result
  <2>2. /\ e \in Connections
        /\ e.armed = d.armed \cup {"write"} /\ e.fired = d.fired
        /\ e.open = d.open /\ e.state = d.state /\ e.messageQueue = d.messageQueue
        /\ e.write # "none" /\ e.input = d.input /\ e.protocol = d.protocol
        /\ e.released = d.released /\ e.forced = d.forced /\ SameName(e, d)
    BY <1>2, <2>1 DEF Connections, Timers, SameName
  <2> QED BY <2>2 DEF Good, Moving, SameName
<1> QED BY <1>1, <1>2 DEF InternalSend

LEMMA SendIsGood ==
  ASSUME NEW d, NEW st, NEW n \in Nat, NEW w \in Seq(Nat), Good(d, st, n, w), Moving(d),
         d.state # "DISCONNECTED", NEW e \in Send(d, n + 1)
  PROVE  Good(e, st, n + 1, w) /\ Moving(e)
<1> DEFINE q == d.messageQueue
           f == [d EXCEPT !.messageQueue = Append(@, n + 1)]
<1>1. d \in Connections /\ q \in Seq(Nat) /\ Len(w) + Len(q) = n /\ Numbered(w \o q)
  BY DEF Good, Connections
<1>2. /\ Append(q, n + 1) \in Seq(Nat)
      /\ Append(q, n + 1) # <<>>
      /\ Len(Append(q, n + 1)) = Len(q) + 1
  <2> HIDE DEF q
  <2> QED BY <1>1, AppendProperties
<1>3. Numbered(w \o Append(q, n + 1))
  BY <1>1, AppendNumbered
<1>4. Len(w) + Len(Append(q, n + 1)) = n + 1
  <2> HIDE DEF q, f
  <2>1. Len(w) \in Nat /\ Len(q) \in Nat
    BY <1>1, LenProperties
  <2>2. Len(w) + Len(q) = n
    BY <1>1
  <2> DEFINE lw == Len(w)
             lq == Len(q)
             la == Len(Append(q, n + 1))
  <2>3. la = lq + 1
    BY <1>2
  <2>4. lw \in Nat /\ lq \in Nat /\ lw + lq = n
    BY <2>1, <2>2
  <2> HIDE DEF lw, lq, la
  <2>5. lw + la = n + 1
    BY <2>3, <2>4
  <2> QED BY <2>5 DEF lw, la
<1>5. f \in Connections /\ f.messageQueue = Append(q, n + 1) /\ f.state = d.state
  BY <1>1, <1>2 DEF Connections
<1>6. ~d.open /\ ~d.forced => FALSE
  BY DEF Good
<1>10. /\ f.write = d.write /\ f.input = d.input /\ f.open = d.open /\ f.protocol = d.protocol
       /\ f.armed = d.armed /\ f.fired = d.fired /\ f.released = d.released
       /\ f.forced = d.forced /\ SameName(f, d)
  BY <1>1 DEF Connections, SameName
<1>7. Good(f, st, n + 1, w)
  <2> HIDE DEF f, q
  <2> QED BY <1>1, <1>2, <1>3, <1>4, <1>5, <1>6, <1>10 DEF Good, SameName
<1>8. CASE q = <<>>
  <2>1. e \in InternalSend(f)
    BY <1>8 DEF Send
  <2>2. f.messageQueue # <<>> /\ n + 1 \in Nat
    BY <1>2, <1>5
  <2> HIDE DEF f
  <2> QED BY <1>7, <2>1, <2>2, InternalSendIsGood
<1>9. CASE q # <<>>
  <2>1. e = f
    BY <1>9 DEF Send
  <2>2. Moving(f)
    BY <1>1, <1>2, <1>9 DEF Moving, Connections
  <2> QED BY <1>7, <2>1, <2>2
<1> QED BY <1>8, <1>9

LEMMA ConsumedIsGood ==
  ASSUME IInv
  PROVE  /\ Good(Consumed, starting, accepted, written) /\ Moving(Consumed)
         /\ Consumed.state = c.state /\ Consumed.protocol = c.protocol
         /\ Consumed.receivedName = c.receivedName
         /\ Consumed.receivedLastChar = c.receivedLastChar
         /\ Consumed.serverNameTime = c.serverNameTime
         /\ Consumed.read = "none"
<1> DEFINE e == Consumed
<1>1. Good(c, starting, accepted, written) /\ Moving(c) /\ c \in Connections
  BY InvIsGood DEF Good
<1>2. e = [c EXCEPT !.read = "none", !.input = "none", !.armed = @ \ {"read"}]
  BY <1>1 DEF Consumed, Cancel, Connections
<1> HIDE DEF e
<1>3. /\ e \in Connections
      /\ e.input = "none" /\ e.armed = c.armed \ {"read"} /\ e.fired = c.fired
      /\ e.open = c.open /\ e.state = c.state /\ e.messageQueue = c.messageQueue
      /\ e.write = c.write /\ e.protocol = c.protocol
      /\ e.released = c.released /\ e.forced = c.forced
      /\ e.read = "none" /\ e.receivedName = c.receivedName
      /\ e.receivedLastChar = c.receivedLastChar
      /\ e.serverNameTime = c.serverNameTime
  BY <1>1, <1>2 DEF Connections, Result
<1>4. Good(e, starting, accepted, written) /\ Moving(e)
  BY <1>1, <1>3 DEF Good, Moving
<1> QED BY <1>3, <1>4 DEF e

-----------------------------------------------------------------------------
(* Steps                                                                   *)

\* What a step must show.
LEMMA ByGood ==
  ASSUME starting' \in {"new", "posted", "staged", "done"},
         accepted' \in 0..MaxMessages, written' \in Seq(Nat),
         Good(c', starting', accepted', written'), Moving(c'), Fresh'
  PROVE  IInv'
BY DEF IInv, TypeOK, NoGap, Kept, QueueMoves, CoveredByTimer, ReleaseIsPosted,
       LossIsForced, ClosedClean, Naming, Good, Moving

\* onAccept is over: less is asked.
LEMMA GoodWhenDone ==
  ASSUME NEW d, NEW st, NEW n, NEW w, Good(d, st, n, w)
  PROVE  Good(d, "done", n, w)
BY DEF Good

LEMMA Facts ==
  ASSUME IInv
  PROVE  /\ accepted \in Nat /\ written \in Seq(Nat) /\ c \in Connections
         /\ Good(c, starting, accepted, written) /\ Moving(c) /\ Fresh
         /\ accepted \in 0..MaxMessages
BY InvIsGood, ConnectionAssumption DEF Good

LEMMA StartingStep ==
  ASSUME IInv, Starting
  PROVE  IInv'
<1>1. /\ accepted \in Nat /\ written \in Seq(Nat) /\ c \in Connections
      /\ Good(c, starting, accepted, written) /\ Moving(c) /\ Fresh
      /\ accepted \in 0..MaxMessages
  BY Facts
<1>2. CASE AcceptProtocol
  <2>1. /\ c' \in Connections /\ c'.protocol = "game" /\ c'.state = "PENDING"
        /\ c'.armed = c.armed /\ c'.fired = c.fired /\ c'.open = c.open
        /\ c'.messageQueue = c.messageQueue /\ c'.write = c.write /\ c'.input = c.input
        /\ c'.forced = c.forced /\ SameName(c', c)
    BY <1>1, <1>2 DEF AcceptProtocol, Connections, Fresh, SameName
  <2>2. starting = "new" /\ starting' = "posted" /\ UNCHANGED <<accepted, written>>
    BY <1>2 DEF AcceptProtocol
  <2>3. Good(c', starting', accepted', written') /\ Moving(c')
    BY <1>1, <2>1, <2>2 DEF Good, Moving, Fresh, SameName
  <2>4. Fresh'
    BY <2>2 DEF Fresh
  <2> QED BY <1>1, <2>2, <2>3, <2>4, ByGood
<1>3. CASE SetStage2
  <2>1. /\ c' \in Connections /\ c'.state = "STAGE2"
        /\ c'.armed = c.armed /\ c'.fired = c.fired /\ c'.open = c.open
        /\ c'.messageQueue = c.messageQueue /\ c'.write = c.write /\ c'.input = c.input
        /\ c'.forced = c.forced /\ c'.protocol = c.protocol /\ SameName(c', c)
    BY <1>1, <1>3 DEF SetStage2, Connections, States, SameName
  <2>2. starting = "posted" /\ starting' = "staged" /\ UNCHANGED <<accepted, written>>
    BY <1>3 DEF SetStage2
  <2>5. ~c.open => c.forced
    BY <1>1, <2>2 DEF Good
  <2>6. c.write = "none" /\ c.messageQueue # <<>> => ~c.open
    BY <1>1, <2>2 DEF Good, Moving
  <2>3. Good(c', starting', accepted', written') /\ Moving(c')
    BY <1>1, <2>1, <2>2, <2>5, <2>6 DEF Good, Moving, SameName
  <2>4. Fresh'
    BY <2>2 DEF Fresh
  <2> QED BY <1>1, <2>2, <2>3, <2>4, ByGood
<1>4. CASE StartRead
  <2>1. starting' = "done" /\ UNCHANGED <<accepted, written>> /\ c' \in Accept(c)
    BY <1>4 DEF StartRead
  <2>2. Good(c, "done", accepted, written)
    BY <1>1, GoodWhenDone
  <2>3. Good(c', "done", accepted, written) /\ Moving(c')
    BY <1>1, <2>1, <2>2, AcceptIsGood
  <2> QED BY <1>1, <2>1, <2>3, ByGood DEF Fresh
<1>5. CASE AcceptPlain
  <2> DEFINE d == [c EXCEPT !.state = "STAGE1"]
  <2>1. starting = "new" /\ starting' = "done" /\ UNCHANGED <<accepted, written>>
    BY <1>5 DEF AcceptPlain
  <2>2. c' \in Accept(d)
    BY <1>5 DEF AcceptPlain
  <2>3. /\ d \in Connections /\ d.state = "STAGE1"
        /\ d.armed = c.armed /\ d.fired = c.fired /\ d.open = c.open
        /\ d.messageQueue = c.messageQueue /\ d.write = c.write /\ d.input = c.input
        /\ d.forced = c.forced /\ d.protocol = c.protocol /\ SameName(d, c)
    BY <1>1 DEF Connections, States, SameName
  <2> HIDE DEF d
  <2>4. c.state = "PENDING"
    BY <1>1, <2>1 DEF Fresh
  <2>5. Good(d, "done", accepted, written) /\ Moving(d)
    BY <1>1, <2>1, <2>3, <2>4 DEF Good, Moving, SameName
  <2>6. Good(c', "done", accepted, written) /\ Moving(c')
    BY <1>1, <2>2, <2>5, AcceptIsGood
  <2> QED BY <1>1, <2>1, <2>6, ByGood DEF Fresh
<1>6. CASE Refuse
  <2>1. starting' = "done" /\ UNCHANGED <<accepted, written>> /\ c' = Close(c, TRUE)
    BY <1>6 DEF Refuse
  <2>2. Good(c', "done", accepted, written) /\ Moving(c')
    BY <1>1, <2>1, GoodWhenDone, CloseByForce
  <2> QED BY <1>1, <2>1, <2>2, ByGood DEF Fresh
<1> QED BY <1>2, <1>3, <1>4, <1>5, <1>6 DEF Starting

\* A handler ends in a good c' and leaves accepted and written alone.
LEMMA HandlerEnds ==
  ASSUME IInv, starting = "done", UNCHANGED <<starting, accepted, written>>,
         Good(c', "done", accepted, written), Moving(c')
  PROVE  IInv'
BY Facts, ByGood DEF Fresh

LEMMA ReadHandlerStep ==
  ASSUME IInv, ReadHandler
  PROVE  IInv'
<1>1. /\ accepted \in Nat /\ written \in Seq(Nat) /\ c \in Connections
      /\ Good(c, "done", accepted, written) /\ Moving(c)
      /\ accepted \in 0..MaxMessages /\ starting = "done"
  BY Facts DEF ReadHandler
<1>2. /\ Good(Consumed, "done", accepted, written) /\ Moving(Consumed)
      /\ Consumed \in Connections
      /\ Consumed.state = c.state /\ Consumed.protocol = c.protocol
      /\ Consumed.read = "none" /\ Consumed.receivedName = c.receivedName
      /\ Consumed.receivedLastChar = c.receivedLastChar
      /\ Consumed.serverNameTime = c.serverNameTime
  BY <1>1, ConsumedIsGood DEF Good
<1>3. CASE ReadFails \/ NameIsWrong \/ NoSuchProtocol
  <2>1. c' = Close(Consumed, TRUE) /\ UNCHANGED <<starting, accepted, written>>
    BY <1>3 DEF ReadFails, NameIsWrong, NoSuchProtocol
  <2> QED BY <1>1, <1>2, <2>1, CloseByForce, HandlerEnds
<1>4. CASE ReadAfterClose
  BY <1>1, <1>2, <1>4, HandlerEnds DEF ReadAfterClose
<1>5. CASE OverLimit
  BY <1>1, <1>2, <1>5, CloseSoftly, HandlerEnds DEF OverLimit
<1>6. ASSUME NEW legal \in BOOLEAN, HeaderOf(legal)
      PROVE  IInv'
  <2> DEFINE l == Consumed.receivedLastChar \/ c.state = "STAGE2"
             d == [Consumed EXCEPT !.receivedLastChar = @ \/ c.state = "STAGE2"]
             s == IF d.receivedLastChar /\ d.state = "STAGE2" THEN "GAME" ELSE d.state
             e == [d EXCEPT !.state = IF d.receivedLastChar /\ d.state = "STAGE2"
                                      THEN "GAME" ELSE @]
  <2>1. c' \in ReadBody(d, legal) /\ UNCHANGED <<starting, accepted, written>>
    BY <1>6 DEF HeaderOf
  <2>2. d = [Consumed EXCEPT !.receivedLastChar = l] /\ l \in BOOLEAN
    BY <1>2
  <2>3. c.state # "DISCONNECTED"
    BY <1>6 DEF HeaderOf, Arrived
  <2> HIDE DEF l, d
  <2>4. /\ d \in Connections /\ d.state = c.state
        /\ d.armed = Consumed.armed /\ d.fired = Consumed.fired
        /\ d.open = Consumed.open /\ d.messageQueue = Consumed.messageQueue
        /\ d.write = Consumed.write /\ d.input = Consumed.input
        /\ d.forced = Consumed.forced /\ d.protocol = Consumed.protocol
        /\ d.released = Consumed.released
        /\ d.read = "none" /\ d.receivedName = Consumed.receivedName
        /\ d.receivedLastChar = l /\ d.serverNameTime = Consumed.serverNameTime
    BY <1>2, <2>2 DEF Connections
  <2>5. s \in States \ {"DISCONNECTED"} /\ e = [d EXCEPT !.state = s]
    BY <1>1, <2>3, <2>4 DEF Connections, States
  <2> HIDE DEF s, e
  <2>6. /\ e \in Connections /\ e.state # "DISCONNECTED"
        /\ e.armed = d.armed /\ e.fired = d.fired
        /\ e.open = d.open /\ e.messageQueue = d.messageQueue
        /\ e.write = d.write /\ e.input = d.input
        /\ e.forced = d.forced /\ e.protocol = d.protocol
        /\ e.released = d.released /\ SameName(e, d)
    BY <2>4, <2>5 DEF Connections, SameName
  <2>10. Consumed.receivedLastChar => d.receivedLastChar
    BY <2>4 DEF l
  <2>7. Good(e, "done", accepted, written) /\ Moving(e)
    BY <1>2, <2>3, <2>4, <2>6, <2>10 DEF Good, Moving, SameName
  <2>8. c' \in ReadNext(e, "body") \/ c' = Close(e, TRUE)
    BY <2>1 DEF ReadBody, e
  <2>9. Good(c', "done", accepted, written) /\ Moving(c')
    BY <1>1, <2>7, <2>8, ReadNextIsGood, CloseByForce
  <2> QED BY <1>1, <2>1, <2>9, HandlerEnds
<1>7. CASE NameBegins
  <2> DEFINE d == [Consumed EXCEPT !.receivedName = TRUE, !.serverNameTime = 1]
  <2>1. c' \in Accept(d) /\ UNCHANGED <<starting, accepted, written>>
    BY <1>7 DEF NameBegins
  <2>5. 1 \in 0..NameLength /\ 1 < NameLength
    BY ConnectionAssumption
  <2>2. /\ d \in Connections /\ d.state = Consumed.state
        /\ d.armed = Consumed.armed /\ d.fired = Consumed.fired
        /\ d.open = Consumed.open /\ d.messageQueue = Consumed.messageQueue
        /\ d.write = Consumed.write /\ d.input = Consumed.input
        /\ d.forced = Consumed.forced /\ d.protocol = Consumed.protocol
        /\ d.released = Consumed.released
        /\ d.read = "none" /\ d.serverNameTime = 1
    BY <1>2, <2>5 DEF Connections
  <2> HIDE DEF d
  <2>3. Good(d, "done", accepted, written) /\ Moving(d)
    BY <1>2, <2>2, <2>5 DEF Good, Moving
  <2>4. Good(c', "done", accepted, written) /\ Moving(c')
    BY <1>1, <2>1, <2>3, AcceptIsGood
  <2> QED BY <1>1, <2>1, <2>4, HandlerEnds
<1>8. CASE NameContinues
  <2> DEFINE next == c.serverNameTime + 1
             last == next = NameLength
             d == [Consumed EXCEPT !.serverNameTime = next, !.receivedLastChar = last]
  <2>1. c' \in Accept(d) /\ UNCHANGED <<starting, accepted, written>>
    BY <1>8 DEF NameContinues
  <2>2. c.read = "char"
    BY <1>8 DEF NameContinues, Arrived
  <2>3. next \in 0..NameLength /\ last \in BOOLEAN /\ (~last => next < NameLength)
    BY <1>1, <2>2, ConnectionAssumption DEF Good, Connections
  <2> HIDE DEF next, last
  <2>4. /\ d \in Connections /\ d.state = Consumed.state
        /\ d.armed = Consumed.armed /\ d.fired = Consumed.fired
        /\ d.open = Consumed.open /\ d.messageQueue = Consumed.messageQueue
        /\ d.write = Consumed.write /\ d.input = Consumed.input
        /\ d.forced = Consumed.forced /\ d.protocol = Consumed.protocol
        /\ d.released = Consumed.released
        /\ d.read = "none" /\ d.serverNameTime = next /\ d.receivedLastChar = last
    BY <1>2, <2>3 DEF Connections
  <2> HIDE DEF d
  <2>5. Good(d, "done", accepted, written) /\ Moving(d)
    BY <1>2, <2>3, <2>4 DEF Good, Moving
  <2>6. Good(c', "done", accepted, written) /\ Moving(c')
    BY <1>1, <2>1, <2>5, AcceptIsGood
  <2> QED BY <1>1, <2>1, <2>6, HandlerEnds
<1> DEFINE p == IF Consumed.protocol = "none" THEN "other" ELSE Consumed.protocol
<1>11. ASSUME Arrived({"body"})
       PROVE  Good(Parsed, "done", accepted, written) /\ Moving(Parsed)
              /\ Parsed.state = c.state
  <2>1. Parsed = [Consumed EXCEPT !.receivedFirst = TRUE, !.protocol = p]
        /\ p \in {"none", "game", "other"}
    BY <1>2 DEF Parsed, Connections
  <2> HIDE DEF p
  <2>2. /\ Parsed \in Connections /\ Parsed.state = Consumed.state
        /\ Parsed.armed = Consumed.armed /\ Parsed.fired = Consumed.fired
        /\ Parsed.open = Consumed.open /\ Parsed.messageQueue = Consumed.messageQueue
        /\ Parsed.write = Consumed.write /\ Parsed.input = Consumed.input
        /\ Parsed.forced = Consumed.forced /\ Parsed.released = Consumed.released
        /\ SameName(Parsed, Consumed)
    BY <1>2, <2>1 DEF Connections, SameName
  <2>3. c.state # "DISCONNECTED"
    BY <1>11 DEF Arrived
  <2> QED BY <1>2, <2>2, <2>3 DEF Good, Moving, SameName
<1>9. CASE PacketTaken
  <2>1. /\ c' \in ReadNext(Parsed, "header") /\ UNCHANGED <<starting, accepted, written>>
        /\ Arrived({"body"})
    BY <1>9 DEF PacketTaken
  <2>2. Good(c', "done", accepted, written) /\ Moving(c')
    BY <1>1, <1>11, <2>1, ReadNextIsGood
  <2> QED BY <1>1, <2>1, <2>2, HandlerEnds
<1>10. CASE PacketRefused
  <2>1. /\ Arrived({"body"}) /\ accepted < MaxMessages /\ accepted' = accepted + 1
        /\ UNCHANGED <<starting, written>> /\ c.state # "DISCONNECTED"
    BY <1>10 DEF PacketRefused, Arrived
  <2>2. PICK d \in Send(Parsed, accepted + 1) : c' \in ReadNext(Close(d, FALSE), "header")
    BY <1>10 DEF PacketRefused
  <2>3. Good(d, "done", accepted + 1, written) /\ Moving(d)
    BY <1>1, <1>11, <2>1, <2>2, SendIsGood
  <2>4. accepted + 1 \in Nat /\ accepted + 1 \in 0..MaxMessages
    BY <1>1, <2>1, ConnectionAssumption
  <2>5. Good(Close(d, FALSE), "done", accepted + 1, written) /\ Moving(Close(d, FALSE))
    BY <1>1, <2>3, <2>4, CloseSoftly
  <2>6. Good(c', "done", accepted + 1, written) /\ Moving(c')
    BY <1>1, <2>2, <2>4, <2>5, ReadNextIsGood
  <2> QED BY <1>1, <2>1, <2>4, <2>6, ByGood DEF Fresh
<1> QED BY <1>1, <1>3, <1>4, <1>5, <1>6, <1>7, <1>8, <1>9, <1>10 DEF ReadHandler

LEMMA WriteHandlerStep ==
  ASSUME IInv, WriteHandler
  PROVE  IInv'
<1> DEFINE q == c.messageQueue
           k == Cancel(c, "write")
<1>1. /\ accepted \in Nat /\ written \in Seq(Nat) /\ c \in Connections
      /\ Good(c, "done", accepted, written) /\ Moving(c)
      /\ accepted \in 0..MaxMessages /\ starting = "done"
  BY Facts DEF WriteHandler
<1>2. /\ q \in Seq(Nat) /\ q # <<>> /\ c.write \in {"done", "error"}
      /\ UNCHANGED <<starting, accepted>> /\ Numbered(written \o q)
      /\ c.open => ~c.forced
  BY <1>1 DEF WriteHandler, WriteFails, WroteOne, WroteLast, Good, Connections
\* What onWriteOperation makes of c, before it goes on, when the rest r stays queued.
<1>3. ASSUME NEW r \in Seq(Nat), NEW w \in Seq(Nat),
             Numbered(w \o r), r # <<>> \/ r = <<>>,
             c.state # "DISCONNECTED" \/ ~c.forced => Len(w) + Len(r) = accepted,
             NEW d, d = [k EXCEPT !.write = "none", !.messageQueue = r],
             ~c.open => c.forced
      PROVE  /\ Good(d, "done", accepted, w) /\ d \in Connections
             /\ d.messageQueue = r /\ d.state = c.state /\ d.open = c.open
             /\ d.forced = c.forced
             /\ r = <<>> => Moving(d)
  <2>1. /\ d \in Connections /\ d.messageQueue = r /\ d.write = "none"
        /\ d.armed = c.armed \ {"write"} /\ d.fired = c.fired
        /\ d.open = c.open /\ d.state = c.state /\ d.input = c.input
        /\ d.forced = c.forced /\ d.released = c.released /\ d.protocol = c.protocol
        /\ SameName(d, c)
    BY <1>1, <1>3 DEF Cancel, Connections, Result, SameName
  <2> QED BY <1>1, <1>3, <2>1 DEF Good, Moving, SameName
<1>4. ~c.open => c.forced
  BY <1>1, <1>2 DEF Good
<1>5. CASE WriteFails
  <2> DEFINE d == [k EXCEPT !.write = "none", !.messageQueue = <<>>]
  <2>1. c' = Close(d, TRUE) /\ UNCHANGED written
    BY <1>5 DEF WriteFails
  <2>2. /\ d \in Connections /\ d.messageQueue = <<>> /\ d.write = "none"
        /\ d.armed = c.armed \ {"write"} /\ d.fired = c.fired
        /\ d.open = c.open /\ d.state = c.state /\ d.input = c.input
        /\ d.released = c.released /\ d.protocol = c.protocol /\ SameName(d, c)
    <3> DEFINE r == <<>>
    <3>1. r \in Seq(Nat)
      OBVIOUS
    <3>2. d = [k EXCEPT !.write = "none", !.messageQueue = r]
      OBVIOUS
    <3> HIDE DEF r, d
    <3>3. /\ d \in Connections /\ d.messageQueue = r /\ d.write = "none"
          /\ d.armed = c.armed \ {"write"} /\ d.fired = c.fired
          /\ d.open = c.open /\ d.state = c.state /\ d.input = c.input
          /\ d.released = c.released /\ d.protocol = c.protocol /\ SameName(d, c)
      BY <1>1, <3>1, <3>2 DEF Cancel, Connections, Result, SameName
    <3> QED BY <3>3 DEF r
  <2> HIDE DEF d
  <2>3. /\ c' \in Connections /\ c'.state = "DISCONNECTED"
        /\ c'.released <=> d.released \/ d.protocol # "none"
        /\ c'.forced /\ c'.open = FALSE
        /\ c'.messageQueue = <<>> /\ c'.protocol = d.protocol
        /\ c'.write = "none" /\ SameName(c', d)
    BY <2>1, <2>2, CloseFields
  <2>4. Numbered(written \o <<>>)
    BY <1>1, <1>2, PrefixNumbered
  <2>5. Good(c', "done", accepted, written) /\ Moving(c')
    BY <1>1, <2>2, <2>3, <2>4 DEF Good, Moving, SameName
  <2> QED BY <1>1, <1>2, <2>1, <2>5, HandlerEnds
<1> DEFINE w == Append(written, Head(q))
           t == Tail(q)
<1>6. /\ w \in Seq(Nat) /\ t \in Seq(Nat) /\ w \o t = written \o q
      /\ Len(w) + Len(t) = Len(written) + Len(q)
      /\ Len(q) = 1 => t = <<>>
      /\ Len(q) > 1 => t # <<>>
  BY <1>1, <1>2, ShiftNumbered
<1>7. /\ Numbered(w \o t)
      /\ c.state # "DISCONNECTED" \/ ~c.forced => Len(w) + Len(t) = accepted
  BY <1>1, <1>2, <1>6 DEF Good
<1>8. CASE WroteOne
  <2> DEFINE d == [k EXCEPT !.write = "none", !.messageQueue = t]
  <2>1. written' = w /\ Len(q) > 1 /\ c' \in InternalSend(d)
    BY <1>1, <1>8 DEF WroteOne, Cancel, Connections
  <2> HIDE DEF w, t
  <2>2. Good(d, "done", accepted, w) /\ d.messageQueue = t
    BY <1>3, <1>4, <1>6, <1>7
  <2> HIDE DEF d
  <2>3. Good(c', "done", accepted, w) /\ Moving(c')
    BY <1>1, <1>6, <2>1, <2>2, InternalSendIsGood
  <2> QED BY <1>1, <1>2, <1>6, <2>1, <2>3, ByGood DEF Fresh
<1>9. CASE WroteLast
  <2> DEFINE d == [k EXCEPT !.write = "none", !.messageQueue = <<>>]
  <2>1. /\ written' = w /\ t = <<>>
        /\ c' = IF d.state = "DISCONNECTED" THEN CloseSocket(d) ELSE d
    BY <1>6, <1>9 DEF WroteLast
  <2> HIDE DEF w, t
  <2>2. /\ Good(d, "done", accepted, w) /\ d.messageQueue = <<>> /\ Moving(d)
        /\ d \in Connections
    BY <1>3, <1>4, <1>6, <1>7, <2>1
  <2> HIDE DEF d
  <2>3. CASE d.state = "DISCONNECTED"
    <3> DEFINE e == CloseSocket(d)
    <3>1. /\ e \in Connections /\ e.open = FALSE
          /\ e.state = d.state /\ e.released = d.released /\ e.forced = d.forced
          /\ e.messageQueue = d.messageQueue /\ e.protocol = d.protocol
          /\ e.write = "none" <=> d.write = "none"
          /\ SameName(e, d)
      BY <2>2, CloseSocketFields
    <3> HIDE DEF e
    <3>2. Good(e, "done", accepted, w) /\ Moving(e)
      BY <2>2, <2>3, <3>1 DEF Good, Moving, SameName
    <3>3. c' = e
      BY <2>1, <2>3 DEF e
    <3> QED BY <1>1, <1>2, <1>6, <2>1, <3>2, <3>3, ByGood DEF Fresh
  <2>4. CASE d.state # "DISCONNECTED"
    BY <1>1, <1>2, <1>6, <2>1, <2>2, <2>4, ByGood DEF Fresh
  <2> QED BY <2>3, <2>4
<1> QED BY <1>5, <1>8, <1>9 DEF WriteHandler

LEMMA TimeoutStep ==
  ASSUME IInv, NEW timer \in Timers, TimeoutHandler(timer)
  PROVE  IInv'
<1> DEFINE d == [c EXCEPT !.fired = @ \ {timer}]
<1>1. /\ accepted \in Nat /\ written \in Seq(Nat) /\ c \in Connections
      /\ Good(c, "done", accepted, written) /\ starting = "done"
  BY Facts DEF TimeoutHandler
<1>2. c' = Close(d, TRUE) /\ UNCHANGED <<starting, accepted, written>>
  BY DEF TimeoutHandler, HandleTimeout
<1>3. /\ d \in Connections /\ d.state = c.state /\ d.open = c.open
      /\ d.messageQueue = c.messageQueue /\ d.write = c.write /\ d.forced = c.forced
      /\ d.released = c.released /\ d.protocol = c.protocol /\ SameName(d, c)
  BY <1>1 DEF Connections, SameName
<1> HIDE DEF d
<1>4. /\ c' \in Connections /\ c'.state = "DISCONNECTED"
      /\ c'.released <=> d.released \/ d.protocol # "none"
      /\ c'.forced /\ c'.open = FALSE
      /\ c'.messageQueue = d.messageQueue /\ c'.protocol = d.protocol
      /\ c'.write = "none" <=> d.write = "none"
      /\ SameName(c', d)
  BY <1>2, <1>3, CloseFields
<1>5. Good(c', "done", accepted, written) /\ Moving(c')
  BY <1>1, <1>3, <1>4 DEF Good, Moving, SameName
<1> QED BY <1>1, <1>2, <1>5, HandlerEnds

LEMMA DispatcherStep ==
  ASSUME IInv, Dispatcher
  PROVE  IInv'
<1>1. /\ accepted \in Nat /\ written \in Seq(Nat) /\ c \in Connections
      /\ Good(c, starting, accepted, written) /\ Moving(c) /\ Fresh
      /\ accepted \in 0..MaxMessages
      /\ starting \in {"new", "posted", "staged", "done"}
  BY Facts, InvIsGood
<1>2. CASE SendMessage
  <2>1. /\ c' \in Send(c, accepted + 1) /\ accepted < MaxMessages
        /\ accepted' = accepted + 1 /\ UNCHANGED <<starting, written>>
        /\ c.state # "DISCONNECTED" /\ c.protocol # "none"
    BY <1>2 DEF SendMessage
  <2>2. Good(c', starting, accepted + 1, written) /\ Moving(c')
    BY <1>1, <2>1, SendIsGood
  <2>3. starting # "new"
    BY <1>1, <2>1 DEF Fresh
  <2>4. accepted + 1 \in 0..MaxMessages
    BY <1>1, <2>1, ConnectionAssumption
  <2> QED BY <1>1, <2>1, <2>2, <2>3, <2>4, ByGood DEF Fresh
<1>3. CASE Disconnect
  <2>1. /\ c' = Close(c, FALSE) /\ starting = "done"
        /\ UNCHANGED <<starting, accepted, written>>
    BY <1>3 DEF Disconnect
  <2> QED BY <1>1, <2>1, CloseSoftly, HandlerEnds
<1>4. CASE CloseAll
  <2> DEFINE a == Abort(c.input)
             b == Abort(c.write)
  <2>1. /\ a \in Result /\ b \in Result
        /\ b = "none" <=> c.write = "none"
    BY <1>1 DEF Connections, Abort, Result
  <2>2. c' = [c EXCEPT !.registered = FALSE, !.open = FALSE, !.forced = TRUE,
                       !.input = a, !.write = b]
    BY <1>4 DEF CloseAll
  <2> HIDE DEF a, b
  <2>3. /\ c' \in Connections /\ c'.state = c.state /\ c'.open = FALSE /\ c'.forced = TRUE
        /\ c'.messageQueue = c.messageQueue /\ c'.write = b
        /\ c'.released = c.released /\ c'.protocol = c.protocol /\ SameName(c', c)
    BY <1>1, <2>1, <2>2 DEF Connections, SameName
  <2>4. Good(c', starting, accepted, written) /\ Moving(c')
    BY <1>1, <2>1, <2>3 DEF Good, Moving, SameName
  <2>5. UNCHANGED <<starting, accepted, written>>
    BY <1>4 DEF CloseAll
  <2> QED BY <1>1, <2>3, <2>4, <2>5, ByGood DEF Fresh
<1> QED BY <1>2, <1>3, <1>4 DEF Dispatcher

\* e is d but for results that came and timers that expired.
Alike(e, d) ==
  /\ e \in Connections /\ e.state = d.state /\ e.open = d.open
  /\ e.forced = d.forced /\ e.messageQueue = d.messageQueue
  /\ e.write = "none" <=> d.write = "none"
  /\ e.write = "pending" => d.write = "pending"
  /\ e.input = "pending" => d.input = "pending"
  /\ e.armed \cup e.fired = d.armed \cup d.fired
  /\ e.released = d.released /\ e.protocol = d.protocol /\ SameName(e, d)

LEMMA EnvironmentStep ==
  ASSUME IInv, Environment
  PROVE  IInv'
<1>1. /\ accepted \in Nat /\ written \in Seq(Nat) /\ c \in Connections
      /\ Good(c, starting, accepted, written) /\ Moving(c) /\ Fresh
      /\ accepted \in 0..MaxMessages
      /\ starting \in {"new", "posted", "staged", "done"}
  BY Facts, InvIsGood
<1>2. UNCHANGED <<starting, accepted, written>>
  BY DEF Environment, ReadCompletes, WriteCompletes, Expire
<1>3. Alike(c', c)
  <2>1. CASE ReadCompletes
    BY <1>1, <2>1 DEF ReadCompletes, Connections, Result, SameName, Alike
  <2>2. CASE WriteCompletes
    BY <1>1, <2>2 DEF WriteCompletes, Connections, Result, SameName, Alike
  <2>3. ASSUME NEW timer \in Timers, Expire(timer)
        PROVE  Alike(c', c)
    BY <1>1, <2>3 DEF Expire, Connections, SameName, Alike
  <2> QED BY <2>1, <2>2, <2>3 DEF Environment
<1>4. Good(c', starting, accepted, written) /\ Moving(c')
  BY <1>1, <1>3 DEF Good, Moving, SameName, Alike
<1> QED BY <1>1, <1>2, <1>3, <1>4, ByGood DEF Fresh, Alike

-----------------------------------------------------------------------------
\* IInv is inductive, for any number of messages and any length of the name.
THEOREM InductiveInv == Spec => []IInv
<1>1. Init => IInv
  <2> SUFFICES ASSUME Init PROVE IInv
    OBVIOUS
  <2>1. <<>> \in Seq(Nat) /\ Len(<<>>) = 0 /\ <<>> \o <<>> = <<>>
    OBVIOUS
  <2>2. TypeOK
    BY <2>1, ConnectionAssumption
       DEF Init, TypeOK, Connections, States, Result, Timers
  <2>3. Numbered(<<>>)
    BY DEF Numbered
  <2> QED BY <2>1, <2>2, <2>3, ConnectionAssumption
          DEF Init, IInv, NoGap, Kept, QueueMoves, CoveredByTimer, ReleaseIsPosted,
              LossIsForced, ClosedClean, Fresh, Naming
<1>2. IInv /\ [Next]_vars => IInv'
  <2> SUFFICES ASSUME IInv, [Next]_vars PROVE IInv'
    OBVIOUS
  <2>1. CASE UNCHANGED vars
    BY <2>1 DEF vars, IInv, TypeOK, NoGap, Kept, QueueMoves, CoveredByTimer,
                ReleaseIsPosted, LossIsForced, ClosedClean, Fresh, Naming
  <2> QED BY <2>1, StartingStep, ReadHandlerStep, WriteHandlerStep, TimeoutStep,
             DispatcherStep, EnvironmentStep DEF Next
<1> QED BY <1>1, <1>2, PTL DEF Spec

\* The client reads what was sent, in order and without a gap (onWriteOperation, send).
THEOREM StreamHasNoGap == Spec => []NoGap
<1>1. IInv => NoGap
  BY DEF IInv
<1> QED BY <1>1, InductiveInv, PTL

\* A connection that is closed without force has written all its messages (close).
THEOREM GracefulCloseWritesAll == Spec => []GracefulClose
<1>1. IInv => GracefulClose
  BY DEF IInv, GracefulClose, ClosedClean, LossIsForced, Kept, TypeOK
<1> QED BY <1>1, InductiveInv, PTL

\* A silent client is always under a timer (accept, parseHeader, internalSend).
THEOREM SilenceIsTimed == Spec => []CoveredByTimer
<1>1. IInv => CoveredByTimer
  BY DEF IInv
<1> QED BY <1>1, InductiveInv, PTL

\* A closed connection has posted the release of its protocol (close).
THEOREM ClosedIsReleased == Spec => []ReleaseIsPosted
<1>1. IInv => ReleaseIsPosted
  BY DEF IInv
<1> QED BY <1>1, InductiveInv, PTL

\* The queue never stalls: while messages wait, a write is in flight that starts the next
\* one, unless the connection was closed by force (send, onWriteOperation).
THEOREM QueueNeverStalls == Spec => []QueueMoves
<1>1. IInv => QueueMoves
  BY DEF IInv
<1> QED BY <1>1, InductiveInv, PTL
=============================================================================
