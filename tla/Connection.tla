----------------------------- MODULE Connection -----------------------------
(***************************************************************************)
(* One connection with a client (connection.h, connection.cpp): the        *)
(* handshake, the reads, the queue of messages with one write in flight,   *)
(* the two timers and the deferred close.                                  *)
(*                                                                         *)
(* The fields of the C++ object are the fields of c, and a method that     *)
(* runs under connectionLock is an operator from c to what c may become:   *)
(* a set, because asio may throw where the code has a catch.  A handler is *)
(* one action.  The two threads are the network thread, which runs the     *)
(* handlers, and the dispatcher, which sends, disconnects and closes all.  *)
(* A timer's handler, once it is queued, is not recalled by a cancel.      *)
(***************************************************************************)
EXTENDS Naturals, Sequences

CONSTANTS
  MaxMessages,  \* bound: so many messages are given to send
  NameLength    \* serverName[NameLength] is the newline

ASSUME ConnectionAssumption ==
  /\ MaxMessages \in Nat
  /\ NameLength \in Nat /\ NameLength > 1

VARIABLES
  c,         \* the Connection
  starting,  \* where ServicePort::onAccept is: "new", "posted", "staged", "done"
  accepted,  \* history: number of the last message put into messageQueue
  written    \* history: the messages that were written completely

vars == <<c, starting, accepted, written>>

States == {"DISCONNECTED", "STAGE1", "STAGE2", "GAME", "PENDING"}
Timers == {"read", "write"}
Result == {"none", "pending", "done", "error"}

Connections ==
  [state : States,
   registered : BOOLEAN,                          \* in ConnectionManager::connections
   open : BOOLEAN,                                \* socket.is_open()
   messageQueue : Seq(Nat),
   write : Result,                                \* async_write of the first message
   read : {"none", "header", "char", "body"},     \* what async_read waits for
   input : Result,                                \* and its result
   armed : SUBSET Timers,                         \* timers that run
   fired : SUBSET Timers,                         \* handlers queued with no error
   protocol : {"none", "game", "other"},
   released : BOOLEAN,                            \* Protocol::release was posted
   receivedFirst : BOOLEAN,
   receivedName : BOOLEAN,
   receivedLastChar : BOOLEAN,
   serverNameTime : 0..NameLength,
   forced : BOOLEAN]                              \* history: closed by force or closeAll

Init ==
  /\ c = [state |-> "PENDING", registered |-> TRUE, open |-> TRUE, messageQueue |-> <<>>,
          write |-> "none", read |-> "none", input |-> "none", armed |-> {}, fired |-> {},
          protocol |-> "none", released |-> FALSE, receivedFirst |-> FALSE,
          receivedName |-> FALSE, receivedLastChar |-> FALSE, serverNameTime |-> 0,
          forced |-> FALSE]
  /\ starting = "new"
  /\ accepted = 0
  /\ written = <<>>

-----------------------------------------------------------------------------
(* Methods                                                                 *)

\* operation_aborted, for what was still waiting on the socket.
Abort(result) == IF result = "pending" THEN "error" ELSE result

\* An operation on the socket waits, or fails when the socket was closed.
Started(conn) == IF conn.open THEN "pending" ELSE "error"

CloseSocket(conn) ==
  IF conn.open
  THEN [conn EXCEPT !.open = FALSE, !.armed = {},
                    !.input = Abort(@), !.write = Abort(@)]
  ELSE conn

\* Variant: the queue is not looked at.
CloseAtOnce(conn, force) ==
  CloseSocket([conn EXCEPT !.registered = FALSE, !.state = "DISCONNECTED",
                           !.released = @ \/ conn.protocol # "none",
                           !.forced = @ \/ force])

\* Variant: a second close posts nothing and leaves the socket as it is.
CloseOnce(conn, force) ==
  IF conn.state = "DISCONNECTED" THEN conn
  ELSE LET d == [conn EXCEPT !.registered = FALSE, !.state = "DISCONNECTED",
                             !.released = @ \/ conn.protocol # "none",
                             !.forced = @ \/ force]
       IN IF d.messageQueue = <<>> \/ force THEN CloseSocket(d) ELSE d

Close(conn, force) ==
  LET d == [conn EXCEPT !.registered = FALSE, !.state = "DISCONNECTED",
                        !.released = @ \/ conn.protocol # "none",
                        !.forced = @ \/ force]
  IN IF d.messageQueue = <<>> \/ force THEN CloseSocket(d) ELSE d

Cancel(conn, timer) == [conn EXCEPT !.armed = @ \ {timer}]

InternalSend(conn) ==
  {[conn EXCEPT !.armed = @ \cup {"write"}, !.write = Started(conn)], Close(conn, TRUE)}

\* send, for message m.
Send(conn, m) ==
  IF conn.state = "DISCONNECTED" THEN {conn}
  ELSE LET d == [conn EXCEPT !.messageQueue = Append(@, m)]
       IN IF conn.messageQueue = <<>> THEN InternalSend(d) ELSE {d}

\* Variant: the timer is only set by accept.
ReadNextUntimed(conn, what) ==
  {[conn EXCEPT !.armed = IF conn.protocol = "none" THEN @ \cup {"read"} ELSE @,
                !.read = what, !.input = Started(conn)],
   Close(conn, TRUE)}

\* The end of accept, parseHeader and parsePacket: set the timer, read on.
ReadNext(conn, what) ==
  {[conn EXCEPT !.armed = @ \cup {"read"}, !.read = what, !.input = Started(conn)],
   Close(conn, TRUE)}

\* The locked part of accept.
Accept(conn) ==
  ReadNext(conn, IF conn.state = "STAGE2" /\ conn.receivedName /\ ~conn.receivedLastChar
                 THEN "char" ELSE "header")

\* The end of parseHeader, once the handshake is over; size is legal or not.
ReadBody(conn, legalSize) ==
  LET d == [conn EXCEPT !.state = IF conn.receivedLastChar /\ conn.state = "STAGE2"
                                  THEN "GAME" ELSE @]
  IN IF legalSize THEN ReadNext(d, "body") ELSE {Close(d, TRUE)}

-----------------------------------------------------------------------------
(* The network thread: ServicePort::onAccept                               *)

\* A port with a single service that sends first: accept(protocol) posts onConnect...
AcceptProtocol ==
  /\ starting = "new"
  /\ c' = [c EXCEPT !.protocol = "game"]
  /\ starting' = "posted"
  /\ UNCHANGED <<accepted, written>>

\* ... sets the state without the lock ...
SetStage2 ==
  /\ starting = "posted"
  /\ c' = [c EXCEPT !.state = "STAGE2"]
  /\ starting' = "staged"
  /\ UNCHANGED <<accepted, written>>

\* ... and starts to read.
StartRead ==
  /\ starting = "staged"
  /\ c' \in Accept(c)
  /\ starting' = "done"
  /\ UNCHANGED <<accepted, written>>

\* accept(): the first message tells the protocol.
AcceptPlain ==
  /\ starting = "new"
  /\ c' \in Accept([c EXCEPT !.state = "STAGE1"])
  /\ starting' = "done"
  /\ UNCHANGED <<accepted, written>>

\* The address is refused.
Refuse ==
  /\ starting = "new"
  /\ c' = Close(c, TRUE)
  /\ starting' = "done"
  /\ UNCHANGED <<accepted, written>>

-----------------------------------------------------------------------------
(* The network thread: handlers.  What a read handler finds in c is Consumed. *)

Consumed == Cancel([c EXCEPT !.read = "none", !.input = "none"], "read")

ReadFails ==
  /\ c.input = "error"
  /\ c' = Close(Consumed, TRUE)
  /\ UNCHANGED <<starting, accepted, written>>

ReadAfterClose ==
  /\ c.input = "done"
  /\ c.state = "DISCONNECTED"
  /\ c' = Consumed
  /\ UNCHANGED <<starting, accepted, written>>

\* A packet arrived in time.
Arrived(what) == c.input = "done" /\ c.state # "DISCONNECTED" /\ c.read \in what

Handshake == c.state = "STAGE2" /\ ~c.receivedLastChar

\* parseHeader: too many packets per second.
OverLimit ==
  /\ Arrived({"header", "char"})
  /\ c.protocol = "game"
  /\ c' = Close(Consumed, FALSE)
  /\ UNCHANGED <<starting, accepted, written>>

\* parseHeader of the length of a packet; a client that sends no name skips it.
HeaderOf(legalSize) ==
  /\ Arrived({"header"})
  /\ c' \in ReadBody([Consumed EXCEPT !.receivedLastChar = @ \/ c.state = "STAGE2"],
                     legalSize)
  /\ UNCHANGED <<starting, accepted, written>>

\* parseHeader of the first two characters of the name.
NameBegins ==
  /\ Arrived({"header"})
  /\ Handshake
  /\ c' \in Accept([Consumed EXCEPT !.receivedName = TRUE, !.serverNameTime = 1])
  /\ UNCHANGED <<starting, accepted, written>>

\* parseHeader of the next character of the name; the newline is the last one.
NameContinues ==
  /\ Arrived({"char"})
  /\ LET next == c.serverNameTime + 1
     IN c' \in Accept([Consumed EXCEPT !.serverNameTime = next,
                                       !.receivedLastChar = (next = NameLength)])
  /\ UNCHANGED <<starting, accepted, written>>

\* parseHeader of anything else.
NameIsWrong ==
  /\ Arrived({"header", "char"})
  /\ Handshake
  /\ c' = Close(Consumed, TRUE)
  /\ UNCHANGED <<starting, accepted, written>>

\* parsePacket: the first packet makes the protocol, which may fail.
NoSuchProtocol ==
  /\ Arrived({"body"})
  /\ c.protocol = "none"
  /\ c' = Close(Consumed, TRUE)
  /\ UNCHANGED <<starting, accepted, written>>

Parsed == [Consumed EXCEPT !.receivedFirst = TRUE,
                           !.protocol = IF @ = "none" THEN "other" ELSE @]

\* parsePacket: the protocol takes the packet and answers with nothing in this thread...
PacketTaken ==
  /\ Arrived({"body"})
  /\ c' \in ReadNext(Parsed, "header")
  /\ UNCHANGED <<starting, accepted, written>>

\* ... or with disconnectClient: a message, then disconnect; and reads on.
PacketRefused ==
  /\ Arrived({"body"})
  /\ accepted < MaxMessages
  /\ \E d \in Send(Parsed, accepted + 1) : c' \in ReadNext(Close(d, FALSE), "header")
       /\ accepted' = accepted + 1
  /\ UNCHANGED <<starting, written>>

\* Variant: the rest of the queue is kept.
WriteFailsKeepsQueue ==
  /\ c.write = "error"
  /\ c' = Close([Cancel(c, "write") EXCEPT !.write = "none",
                                           !.messageQueue = Tail(@)], FALSE)
  /\ UNCHANGED <<starting, accepted, written>>

\* onWriteOperation
WriteFails ==
  /\ c.write = "error"
  /\ c' = Close([Cancel(c, "write") EXCEPT !.write = "none", !.messageQueue = <<>>], TRUE)
  /\ UNCHANGED <<starting, accepted, written>>

\* Variant: the next message waits for the next send.
WroteOneStops ==
  /\ c.write = "done"
  /\ Len(c.messageQueue) > 1
  /\ written' = Append(written, Head(c.messageQueue))
  /\ c' = [Cancel(c, "write") EXCEPT !.write = "none", !.messageQueue = Tail(@)]
  /\ UNCHANGED <<starting, accepted>>

WroteOne ==
  /\ c.write = "done"
  /\ Len(c.messageQueue) > 1
  /\ written' = Append(written, Head(c.messageQueue))
  /\ c' \in InternalSend([Cancel(c, "write") EXCEPT !.write = "none",
                                                    !.messageQueue = Tail(@)])
  /\ UNCHANGED <<starting, accepted>>

WroteLast ==
  /\ c.write = "done"
  /\ Len(c.messageQueue) = 1
  /\ written' = Append(written, Head(c.messageQueue))
  /\ LET d == [Cancel(c, "write") EXCEPT !.write = "none", !.messageQueue = <<>>]
     IN c' = IF d.state = "DISCONNECTED" THEN CloseSocket(d) ELSE d
  /\ UNCHANGED <<starting, accepted>>

HandleTimeout(timer) ==
  /\ timer \in c.fired
  /\ c' = Close([c EXCEPT !.fired = @ \ {timer}], TRUE)
  /\ UNCHANGED <<starting, accepted, written>>

-----------------------------------------------------------------------------
(* The dispatcher                                                          *)

\* Protocol::send
SendMessage ==
  /\ c.protocol # "none"
  /\ c.state # "DISCONNECTED"
  /\ accepted < MaxMessages
  /\ c' \in Send(c, accepted + 1)
  /\ accepted' = accepted + 1
  /\ UNCHANGED <<starting, written>>

\* Protocol::disconnect
Disconnect ==
  /\ c.protocol # "none"
  /\ c.registered \/ c.read # "none" \/ c.write # "none"
  /\ starting = "done"
  /\ c' = Close(c, FALSE)
  /\ UNCHANGED <<starting, accepted, written>>

\* ConnectionManager::closeAll closes the socket without the lock, and tells nobody.
CloseAll ==
  /\ c.registered
  /\ c' = [c EXCEPT !.registered = FALSE, !.open = FALSE, !.forced = TRUE,
                    !.input = Abort(@), !.write = Abort(@)]
  /\ UNCHANGED <<starting, accepted, written>>

-----------------------------------------------------------------------------
(* The client, the network and the clock                                   *)

ReadCompletes ==
  /\ c.input = "pending"
  /\ \E result \in {"done", "error"} : c' = [c EXCEPT !.input = result]
  /\ UNCHANGED <<starting, accepted, written>>

WriteCompletes ==
  /\ c.write = "pending"
  /\ \E result \in {"done", "error"} : c' = [c EXCEPT !.write = result]
  /\ UNCHANGED <<starting, accepted, written>>

Expire(timer) ==
  /\ timer \in c.armed
  /\ c' = [c EXCEPT !.armed = @ \ {timer}, !.fired = @ \cup {timer}]
  /\ UNCHANGED <<starting, accepted, written>>

-----------------------------------------------------------------------------
Starting == AcceptProtocol \/ SetStage2 \/ StartRead \/ AcceptPlain \/ Refuse

\* Handlers run in the network thread, which is in onAccept until starting = "done".
ReadHandler ==
  /\ starting = "done"
  /\ \/ ReadFails \/ ReadAfterClose
     \/ OverLimit \/ (\E legal \in BOOLEAN : HeaderOf(legal))
     \/ NameBegins \/ NameContinues \/ NameIsWrong
     \/ NoSuchProtocol \/ PacketTaken \/ PacketRefused

WriteHandler == starting = "done" /\ (WriteFails \/ WroteOne \/ WroteLast)

TimeoutHandler(timer) == starting = "done" /\ HandleTimeout(timer)

Dispatcher == SendMessage \/ Disconnect \/ CloseAll

Environment == ReadCompletes \/ WriteCompletes \/ (\E t \in Timers : Expire(t))

Next ==
  \/ Starting \/ ReadHandler \/ WriteHandler
  \/ \E t \in Timers : TimeoutHandler(t)
  \/ Dispatcher
  \/ Environment

Spec == Init /\ [][Next]_vars

\* The network thread runs the handlers it has, and time passes.  Neither the client
\* nor the dispatcher owes anything.
Fairness ==
  /\ WF_vars(Starting)
  /\ WF_vars(ReadHandler)
  /\ WF_vars(WriteHandler)
  /\ \A t \in Timers : WF_vars(TimeoutHandler(t)) /\ WF_vars(Expire(t))

FairSpec == Spec /\ Fairness

-----------------------------------------------------------------------------
(* Properties                                                              *)

TypeOK ==
  /\ c \in Connections
  /\ starting \in {"new", "posted", "staged", "done"}
  /\ accepted \in 0..MaxMessages
  /\ written \in Seq(Nat)

\* The client reads the messages in the order in which they were sent and without a
\* gap, whatever is cleared, cancelled or closed: the cipher's sequence numbers and the
\* world the client draws depend on it.
Numbered(s) == s = [i \in 1..Len(s) |-> i]
Kept == Len(written) + Len(c.messageQueue) = accepted
NoGap ==
  /\ Numbered(written \o c.messageQueue)
  /\ c.state # "DISCONNECTED" => Kept

\* The queue never stalls: send starts a write only when the queue was empty, so while
\* there are messages a write must be in flight that will start the next one.
QueueMoves ==
  /\ c.write # "none" => c.messageQueue # <<>>
  /\ c.write = "none" /\ c.messageQueue # <<>> => c.state = "DISCONNECTED" \/ ~c.open

\* disconnect does not cut off what was sent before it (the reason a login was refused,
\* say): without a forced close the socket is closed only when everything was written.
GracefulClose == ~c.open /\ ~c.forced => Len(written) = accepted

\* Whatever waits on the client is under a timer, so that a client that falls silent
\* cannot keep a connection.
CoveredByTimer ==
  /\ c.open /\ c.input = "pending" => "read" \in c.armed \cup c.fired
  /\ c.open /\ c.write = "pending" => "write" \in c.armed \cup c.fired

\* The protocol of a closed connection learns of it: its release is posted.  No packet
\* makes a protocol, or reaches one, after that.
ReleaseIsPosted ==
  c.state = "DISCONNECTED" /\ c.protocol # "none" => c.released

\* The name is compared within its bounds.
Naming ==
  /\ c.read = "char" => c.receivedName /\ ~c.receivedLastChar
  /\ c.receivedName /\ ~c.receivedLastChar => c.serverNameTime < NameLength

\* The invariant the proofs need (ConnectionProofs): the parts above; only a forced
\* close loses messages, and never while onAccept runs; and a socket that was closed
\* without force had nothing left to write.
LossIsForced == ~c.forced \/ starting # "done" => Kept
Fresh == starting = "new" => c.state = "PENDING" /\ c.protocol = "none"
ClosedClean ==
  /\ ~c.open /\ ~c.forced => c.state = "DISCONNECTED" /\ c.messageQueue = <<>>
  /\ c.forced => ~c.open
  /\ c.state = "DISCONNECTED" /\ starting # "done" => c.forced

IInv ==
  /\ TypeOK
  /\ NoGap
  /\ QueueMoves
  /\ CoveredByTimer
  /\ ReleaseIsPosted
  /\ LossIsForced
  /\ Fresh
  /\ Naming
  /\ ClosedClean

\* A closed connection ends: the socket is closed, no handler is left and the object
\* is deleted, even when the client neither reads nor writes.
Ended == ~c.open /\ c.read = "none" /\ c.write = "none" /\ ~c.registered
ClosedEnds == c.state = "DISCONNECTED" ~> Ended
=============================================================================
