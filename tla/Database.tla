------------------------------ MODULE Database -------------------------------
(***************************************************************************)
(* The one connection to the database (database.h, database.cpp) and what  *)
(* the dispatcher does on it in transactions: a player is saved            *)
(* (iologindata.cpp), the houses are (iomapserialize.cpp), coins are given *)
(* to another account (game.cpp).  The database thread sends its queries   *)
(* over the same handle.                                                   *)
(*                                                                         *)
(* A query runs under databaseLock.  The dispatcher's query is one step,   *)
(* the database thread's two: it takes the lock, and the query returns.    *)
(* beginTransaction gives the lock up between BEGIN and the statements.    *)
(* The server and the client library are external: the server rolls an     *)
(* open transaction back when its connection is lost, the library connects *)
(* again (MYSQL_OPT_RECONNECT), without the transaction.                   *)
(*                                                                         *)
(* A player has a row of his own and rows in further tables, each deleted  *)
(* and inserted anew by the transaction of a save: one of these tables     *)
(* stands for all.  His prey data is written before it, by a command of    *)
(* its own.  The content of a row is the version of the object it was      *)
(* written from.                                                           *)
(* What is in store at any time is what a crash leaves.                    *)
(***************************************************************************)
EXTENDS Integers, Sequences

CONSTANTS
  Queries,      \* the queries the database thread is given
  Coins,        \* on the sender's account at first
  MaxVersion,   \* bound: how often the player and the houses change
  MaxLosses,    \* bound: how often the connection is lost
  MaxTries,     \* how often a logout tries to save its player, the server its houses (3)
  NoQuery,      \* the database thread runs no query
  NoView        \* no transaction is open

ASSUME DatabaseAssumption ==
  /\ Coins \in Nat
  /\ MaxVersion \in Nat
  /\ MaxLosses \in Nat
  /\ MaxTries \in Nat \ {0}
  /\ NoQuery \notin Queries

VARIABLES
  store,        \* what is committed
  view,         \* what the open transaction would commit
  link,         \* "up", or "lost" until the client connects again
  inTrans,      \* the handle's status: a transaction is open
  lock,         \* who holds databaseLock
  memory,       \* the version of the objects in memory
  job,          \* what the dispatcher does
  pc,           \* and where it is
  step,         \* the statement that is next
  tries,        \* attempts that are left
  success,      \* what the attempt returns
  query,        \* the query of the database thread
  losses,
  \* history
  answered,     \* queries whose caller was told of success
  asked,        \* queries the database thread has run
  slipped,      \* queries that ran in the dispatcher's transaction
  repeated,     \* queries that may have run twice: their reply was lost
  torn,         \* a transaction was forgotten and its statements ran outside it
  skipped       \* the jobs of which a statement failed and the transaction went on, and
                \* "prey" while the prey data is older than the last save

server  == <<store, view, link, inTrans, losses>>
task    == <<job, pc, step, tries, success, memory>>
thread  == <<query, answered, asked, slipped, repeated>>
history == <<torn, skipped>>
vars    == <<store, view, link, inTrans, lock, memory, job, pc, step, tries, success,
             query, losses, answered, asked, slipped, repeated, torn, skipped>>

Tables == {"players", "items", "houses", "lists"}
Jobs   == {"none", "player", "houses", "coins"}
PC     == {"idle", "prey", "check", "begin", "gap", "statement", "commit", "rollback",
           "unlocked", "unsaved", "returned"}

-----------------------------------------------------------------------------
(* Statements                                                              *)

\* The statements of a transaction (a save has written the prey data before it, SavePrey).
\* "must": the attempt is given up when it fails.
Statement(op, table, must) == [op |-> op, table |-> table, must |-> must]

Script == [
  none   |-> <<>>,
  player |-> << Statement("update", "players", TRUE),
                Statement("delete", "items", TRUE), Statement("insert", "items", TRUE) >>,
  houses |-> << Statement("delete", "lists", TRUE), Statement("update", "houses", FALSE),
                Statement("insert", "lists", TRUE) >>,
  coins  |-> << Statement("take", "from", FALSE), Statement("give", "to", FALSE) >> ]

\* The rows of a table.
NoRows == <<>>
Row(v) == <<v>>
Added(rows, v) == Append(rows, v)
Put(d, table, rows) == [d EXCEPT !.rows[table] = rows]

\* What a statement makes of the data.  The other account's balance is unsigned.
Effect(d, s) ==
  CASE s.op = "update" -> Put(d, s.table, Row(memory))
    [] s.op = "delete" -> Put(d, s.table, NoRows)
    [] s.op = "insert" -> Put(d, s.table, Added(d.rows[s.table], memory))
    [] s.op = "take"   -> [d EXCEPT !.from = @ - 1]
    [] s.op = "give"   -> [d EXCEPT !.to = @ + 1]

\* A command that reaches the server works on the open transaction, or commits at once.
Current == IF inTrans THEN view ELSE store
Apply(d) == IF inTrans THEN view' = d /\ UNCHANGED store ELSE store' = d /\ UNCHANGED view

\* The connection is lost, and with it the transaction.
Breaks ==
  /\ losses < MaxLosses
  /\ losses' = losses + 1
  /\ link' = "lost"
  /\ view' = NoView

\* The dispatcher can send a command.
CanSend == link = "up" /\ lock \in {"free", "disp"}

Init ==
  \* prey: what a load finds, the player's first row of player_preytimes
  /\ store = [rows |-> [t \in Tables |-> Row(0)], prey |-> 0,
              from |-> Coins, to |-> 0, log |-> [q \in Queries |-> 0]]
  /\ view = NoView
  /\ link = "up"
  /\ inTrans = FALSE
  /\ lock = "free"
  /\ memory = 0
  /\ job = "none"
  /\ pc = "idle"
  /\ step = 1
  /\ tries = 0
  /\ success = FALSE
  /\ query = NoQuery
  /\ losses = 0
  /\ answered = {} /\ asked = {} /\ slipped = {} /\ repeated = {}
  /\ torn = FALSE /\ skipped = {}

-----------------------------------------------------------------------------
(* The dispatcher between two operations                                   *)

Play ==
  /\ pc = "idle"
  /\ memory < MaxVersion
  /\ memory' = memory + 1
  /\ UNCHANGED <<server, lock, job, pc, step, tries, success, thread, history>>

Starts(j, n, p) ==
  /\ pc = "idle"
  /\ job' = j
  /\ tries' = n
  /\ pc' = p
  /\ UNCHANGED <<server, lock, step, success, memory, thread, history>>

\* savePlayer is called up to MaxTries times by a logout, once by the others.
SavePlayer == \E n \in {1, MaxTries} : Starts("player", n, "prey")
SaveHouses == Starts("houses", MaxTries, "begin")

\* playerCoinTransfer, once it has found an account to give to and coins to give.  Bound:
\* no more coins than there were arrive (when a failed update took none).
GiveCoins ==
  /\ CanSend
  /\ store.from >= 1 /\ store.to < Coins
  /\ Starts("coins", 1, "begin")

-----------------------------------------------------------------------------
(* savePlayer before its transaction                                       *)

\* savePlayerPreyById: the player's rows are updated, or the first is inserted.
SavePrey ==
  /\ pc = "prey"
  /\ CanSend
  /\ store' = [store EXCEPT !.prey = memory]
  /\ skipped' = skipped \ {"prey"}
  /\ pc' = "check"
  /\ lock' = "free"
  /\ UNCHANGED <<view, link, inTrans, losses, job, step, tries, success, memory, thread, torn>>

\* The command fails, and savePlayer does not look at its result.  Or the SELECT before
\* it fails, as if there were no row: the new one is inserted behind the old (the table
\* has no key), which a load goes on to find.
PreyStaysOld ==
  /\ pc = "prey"
  /\ CanSend
  /\ skipped' = IF store.prey = memory THEN skipped ELSE skipped \cup {"prey"}
  /\ pc' = "check"
  /\ lock' = "free"
  /\ UNCHANGED <<server, job, step, tries, success, memory, thread, torn>>

\* The SELECT of the flag `save` in the player's row (which whoever edits the database
\* may set): it fails, or says that only lastlogin is written, or lets go on.
CheckSave ==
  /\ pc = "check"
  /\ CanSend
  /\ \/ pc' = "returned" /\ success' = FALSE
     \/ pc' = "unsaved" /\ success' \in BOOLEAN
     \/ pc' = "begin" /\ UNCHANGED success
  /\ lock' = "free"
  /\ UNCHANGED <<server, job, step, tries, memory, thread, history>>

-----------------------------------------------------------------------------
(* A transaction (DBTransaction)                                           *)

\* Variant: the statements are sent without BEGIN.
BeginNothing ==
  /\ pc = "begin"
  /\ CanSend
  /\ pc' = "gap"
  /\ lock' = "free"
  /\ UNCHANGED <<server, job, step, tries, success, memory, thread, history>>

\* beginTransaction: BEGIN, which commits what is open, and the lock is free again.
Begin ==
  /\ pc = "begin"
  /\ CanSend
  /\ store' = IF inTrans THEN view ELSE store
  /\ view' = store'
  /\ inTrans' = TRUE
  /\ pc' = "gap"
  /\ lock' = "free"
  /\ UNCHANGED <<link, losses, job, step, tries, success, memory, thread, history>>

\* BEGIN fails, but the transaction believes that it has started.
BeginFails ==
  /\ pc = "begin"
  /\ CanSend
  /\ pc' = "unlocked"
  /\ lock' = "free"
  /\ UNCHANGED <<server, job, step, tries, success, memory, thread, history>>

\* Variant: the statements do not wait for the lock.
GoOnUnlocked ==
  /\ pc = "gap"
  /\ pc' = "statement"
  /\ step' = 1
  /\ UNCHANGED <<server, lock, job, tries, success, memory, thread, history>>

\* The lock is taken for the whole transaction.
LockTransaction ==
  /\ pc = "gap"
  /\ lock # "db"
  /\ lock' = "disp"
  /\ pc' = "statement"
  /\ step' = 1
  /\ UNCHANGED <<server, job, tries, success, memory, thread, history>>

GoOn ==
  IF step < Len(Script[job]) THEN step' = step + 1 /\ UNCHANGED pc
  ELSE pc' = "commit" /\ step' = 1

RunStatement ==
  /\ pc = "statement"
  /\ CanSend
  /\ Apply(Effect(Current, Script[job][step]))
  /\ GoOn
  /\ UNCHANGED <<link, inTrans, losses, lock, job, tries, success, memory, thread, history>>

\* Outside of a transaction: it was done when the connection broke, and is sent again.
RepeatStatement ==
  /\ pc = "statement"
  /\ CanSend
  /\ ~inTrans
  /\ store' = Effect(store, Script[job][step])
  /\ Breaks
  /\ UNCHANGED <<inTrans, lock, task, thread, history>>

\* Variant: a failed statement does not end the attempt.
FailureIsIgnored ==
  /\ pc = "statement"
  /\ CanSend
  /\ GoOn
  /\ UNCHANGED <<server, lock, job, tries, success, memory, thread, history>>

StatementFails ==
  /\ pc = "statement"
  /\ CanSend
  /\ IF Script[job][step].must THEN pc' = "rollback" /\ step' = 1 /\ UNCHANGED skipped
     ELSE GoOn /\ skipped' = skipped \cup {job}
  /\ UNCHANGED <<server, lock, job, tries, success, memory, thread, torn>>

Returns(s) ==
  /\ success' = s
  /\ pc' = "returned"
  /\ UNCHANGED <<job, step, tries, memory>>

Closes == inTrans' = FALSE /\ view' = NoView

\* Variant: commit reports success whatever mysql_commit says.
CommitBlindly ==
  /\ pc = "commit"
  /\ lock' = "free"
  /\ Closes
  /\ store' = IF link = "up" /\ inTrans THEN view ELSE store
  /\ Returns(TRUE)
  /\ UNCHANGED <<link, losses, thread, history>>

\* mysql_commit, which does not connect again while it believes in a transaction.
Commit ==
  /\ pc = "commit"
  /\ lock' = "free"
  /\ \/ /\ link = "up"
        /\ store' = IF inTrans THEN view ELSE store
        /\ Closes
        /\ Returns(TRUE)
        /\ UNCHANGED <<link, losses>>
     \/ /\ link = "up"       \* done, but the reply is lost
        /\ store' = IF inTrans THEN view ELSE store
        /\ Breaks
        /\ inTrans' = FALSE
        /\ Returns(FALSE)
     \/ /\ Closes            \* it fails, and the server rolls back
        /\ Returns(FALSE)
        /\ UNCHANGED <<store, link, losses>>
     \/ /\ link = "lost"     \* it connects again, and commits nothing
        /\ ~inTrans
        /\ link' = "up"
        /\ Returns(TRUE)
        /\ UNCHANGED <<store, view, inTrans, losses>>
  /\ UNCHANGED <<thread, history>>

\* The destructor of a transaction that was begun and not committed.
Rollback ==
  /\ pc = "rollback"
  /\ lock' = "free"
  /\ Closes
  /\ Returns(FALSE)
  /\ UNCHANGED <<store, link, losses, thread, history>>

\* The same after a BEGIN that failed: this thread does not hold the lock, so that the
\* handle may be in use, and unlocking (an error code of the mutex) changes nothing.
RollbackUnlocked ==
  /\ pc = "unlocked"
  /\ Returns(FALSE)
  /\ UNCHANGED <<server, lock, thread, history>>

\* Variant: the caller tries until it succeeds.
ReturnUntilSuccess ==
  /\ pc \in {"unsaved", "returned"}
  /\ IF ~success
     THEN pc' = (IF job = "player" THEN "prey" ELSE "begin") /\ UNCHANGED job
     ELSE pc' = "idle" /\ job' = "none"
  /\ step' = 1
  /\ success' = FALSE
  /\ UNCHANGED <<server, lock, tries, memory, thread, history>>

\* The caller tries again, or goes on.
Return ==
  /\ pc \in {"unsaved", "returned"}
  /\ IF ~success /\ tries > 1
     THEN /\ pc' = (IF job = "player" THEN "prey" ELSE "begin")
          /\ tries' = tries - 1
          /\ UNCHANGED job
     ELSE pc' = "idle" /\ job' = "none" /\ tries' = 0
  /\ step' = 1
  /\ success' = FALSE
  /\ UNCHANGED <<server, lock, memory, thread, history>>

-----------------------------------------------------------------------------
(* The database thread (runTask)                                           *)

TakeLock(q) ==
  /\ query = NoQuery
  /\ q \notin asked
  /\ lock = "free"
  /\ lock' = "db"
  /\ query' = q
  /\ UNCHANGED <<server, task, answered, asked, slipped, repeated, history>>

Logged(d) == [d EXCEPT !.log[query] = @ + 1]

Ends ==
  /\ query' = NoQuery
  /\ asked' = asked \cup {query}
  /\ lock' = "free"

RunQuery ==
  /\ query # NoQuery
  /\ link = "up"
  /\ Apply(Logged(Current))
  /\ answered' = answered \cup {query}
  /\ slipped' = IF pc = "gap" THEN slipped \cup {query} ELSE slipped
  /\ Ends
  /\ UNCHANGED <<link, inTrans, losses, task, repeated, history>>

QueryFails ==
  /\ query # NoQuery
  /\ link = "up"
  /\ Ends
  /\ UNCHANGED <<server, task, answered, slipped, repeated, history>>

RepeatQuery ==
  /\ query # NoQuery
  /\ link = "up"
  /\ ~inTrans
  /\ store' = Logged(store)
  /\ repeated' = repeated \cup {query}
  /\ Breaks
  /\ UNCHANGED <<inTrans, lock, task, query, answered, asked, slipped, history>>

-----------------------------------------------------------------------------
(* The connection                                                          *)

Lose ==
  /\ link = "up"
  /\ Breaks
  /\ UNCHANGED <<store, inTrans, lock, task, thread, history>>

\* A command finds the connection lost.  The transaction it belonged to is forgotten,
\* and the command is sent again until the server takes it.
Sending ==
  \/ query # NoQuery
  \/ pc \in {"prey", "check", "begin", "statement"} /\ lock \in {"free", "disp"}

Reconnect ==
  /\ link = "lost"
  /\ Sending
  /\ link' = "up"
  /\ inTrans' = FALSE
  /\ torn' = (torn \/ pc \in {"gap", "statement"})
  /\ UNCHANGED <<store, view, losses, lock, task, thread, skipped>>

-----------------------------------------------------------------------------
Operation ==
  \/ SavePrey \/ PreyStaysOld \/ CheckSave
  \/ Begin \/ BeginFails \/ LockTransaction \/ RunStatement
  \/ RepeatStatement \/ StatementFails \/ Commit \/ Rollback \/ RollbackUnlocked \/ Return

DatabaseThread == RunQuery \/ QueryFails \/ RepeatQuery

Next ==
  \/ Play \/ SavePlayer \/ SaveHouses \/ GiveCoins
  \/ Operation
  \/ DatabaseThread \/ \E q \in Queries : TakeLock(q)
  \/ Lose \/ Reconnect

Spec == Init /\ [][Next]_vars

\* Both threads go on with what they began, and the database can be reached again.  No
\* query has to be asked.
Fairness == WF_vars(Operation) /\ WF_vars(DatabaseThread) /\ WF_vars(Reconnect)

FairSpec == Spec /\ Fairness

-----------------------------------------------------------------------------
(* Properties                                                              *)

Data == [rows : [Tables -> Seq(Nat)], prey : Nat, from : Int, to : Int,
         log : [Queries -> Nat]]

TypeOK ==
  /\ store \in Data
  /\ link = "up" /\ inTrans => view \in Data
  /\ link \in {"up", "lost"}
  /\ inTrans \in BOOLEAN
  /\ lock \in {"free", "disp", "db"}
  /\ memory \in 0..MaxVersion
  /\ job \in Jobs
  /\ pc \in PC
  /\ step \in 1..3
  /\ success \in BOOLEAN
  /\ query \in Queries \cup {NoQuery}
  /\ torn \in BOOLEAN

Whole(tables) == \E v \in 0..MaxVersion : \A t \in tables : store.rows[t] = Row(v)

\* Whenever the server stops, a player's row and those of the tables that are written in
\* the transaction of his save are found of one version, and so are the houses and their
\* lists (whose updates may fail unnoticed); unless a transaction was forgotten with its
\* connection.  The prey data, written before, may be of a later version (the save failed,
\* or the server stopped in it), but of an earlier one only when a save failed to write it.
SavedWhole ==
  /\ ~torn => Whole({"players", "items"}) /\ ("houses" \notin skipped => Whole({"houses", "lists"}))
  /\ "prey" \notin skipped =>
       \A v \in 0..MaxVersion : store.rows["players"] = Row(v) => v <= store.prey

\* A save that reports success, of a player who may be saved, has written what was in
\* memory (a failure may be a commit whose reply was lost), but for the prey data, which
\* may have stayed old without a word.
SuccessIsSaved ==
  pc = "returned" /\ job = "player" /\ success /\ ~torn
    => /\ \A t \in {"players", "items"} : store.rows[t] = Row(memory)
       /\ "prey" \notin skipped => store.prey = memory

\* Coins change accounts, they are not made and not lost, at no time: but for the two
\* updates whose results are not looked at.
CoinsKept == ~torn /\ "coins" \notin skipped => store.from + store.to = Coins

\* What the database thread reports as done is there, once, unless the query slipped in
\* between BEGIN and the lock (when it is rolled back with what it slipped into) or was
\* sent again.
AnswersHold ==
  \A q \in answered :
    /\ q \notin slipped => store.log[q] >= 1
    /\ q \notin repeated => store.log[q] <= 1

\* Every save and every transfer comes to an end, whatever fails, and so does every query
\* of the database thread.
OperationEnds == /\ pc # "idle" ~> pc = "idle"
                 /\ query # NoQuery ~> query = NoQuery

-----------------------------------------------------------------------------
(* The invariant the proofs need (StoreProofs): who holds the lock, that a         *)
(* transaction that was not forgotten is open until it ends, and what is in it by  *)
(* the statement that is next.                                                     *)

Holders ==
  /\ query # NoQuery <=> lock = "db"
  /\ pc \in {"statement", "commit", "rollback"} <=> lock = "disp"
  /\ pc = "idle" <=> job = "none"
  /\ pc \in {"prey", "check"} => job = "player"
  /\ pc = "statement" => step \in 1..Len(Script[job])

Open ==
  /\ inTrans => pc \in {"gap", "statement", "commit", "rollback"}
  /\ ~torn /\ pc \in {"gap", "statement", "commit"} => inTrans

PlayerWhole(d) == \E v \in 0..MaxVersion : d.rows["players"] = Row(v) /\ d.rows["items"] = Row(v)
HousesWhole(d) == "houses" \notin skipped =>
  \E v \in 0..MaxVersion : d.rows["houses"] = Row(v) /\ d.rows["lists"] = Row(v)
PurseHolds(d, n) == "coins" \notin skipped => d.from + d.to = n

First == pc = "gap" \/ (pc = "statement" /\ step = 1)
At(n) == pc = "statement" /\ step = n
Done  == pc = "commit"

Stage(d) ==
  /\ job # "player" \/ First => PlayerWhole(d)
  /\ job # "houses" \/ First => HousesWhole(d)
  /\ job # "coins" \/ First => PurseHolds(d, Coins)
  /\ job = "player" /\ ~First => d.rows["players"] = Row(memory)
  /\ job = "player" /\ At(3) => d.rows["items"] = NoRows
  /\ job = "player" /\ Done => d.rows["items"] = Row(memory)
  /\ job = "houses" /\ (At(2) \/ At(3)) => d.rows["lists"] = NoRows
  /\ job = "houses" /\ (At(3) \/ Done) =>
       ("houses" \notin skipped => d.rows["houses"] = Row(memory))
  /\ job = "houses" /\ Done => d.rows["lists"] = Row(memory)
  /\ job = "coins" /\ At(2) => PurseHolds(d, Coins - 1)
  /\ job = "coins" /\ Done => PurseHolds(d, Coins)

Stored ==
  ~torn =>
    /\ PlayerWhole(store) /\ HousesWhole(store) /\ PurseHolds(store, Coins)
    /\ link = "up" /\ inTrans /\ pc # "rollback" => Stage(view)

\* What a save that reports success has written in its transaction.
RowsSaved ==
  pc = "returned" /\ job = "player" /\ success /\ ~torn
    => \A t \in {"players", "items"} : store.rows[t] = Row(memory)

Transacted == TypeOK /\ Holders /\ Open /\ Stored /\ RowsSaved

\* The prey data is no older than the player's row, and what this save wrote stays.
PreyWritten(d) ==
  /\ \A v \in 0..MaxVersion : d.rows["players"] = Row(v) =>
       v <= memory /\ ("prey" \notin skipped => v <= d.prey)
  /\ job = "player" /\ pc # "prey" /\ "prey" \notin skipped => d.prey = memory

Prey == PreyWritten(store) /\ (link = "up" /\ inTrans => PreyWritten(view))

IInv == Transacted /\ Prey

\* How often the queries of the database thread are found in store and in the transaction.
Tally ==
  /\ query # NoQuery => query \notin asked
  /\ answered \subseteq asked /\ asked \subseteq Queries
  /\ \A q \in Queries :
       /\ q \notin asked \cup repeated => store.log[q] = 0
       /\ q \notin repeated => store.log[q] <= 1
       /\ q \in answered \ slipped => store.log[q] >= 1
       /\ link = "up" /\ inTrans =>
            /\ q \notin asked \cup repeated => view.log[q] = 0
            /\ q \notin repeated => view.log[q] <= 1
            /\ store.log[q] <= view.log[q]
=============================================================================
