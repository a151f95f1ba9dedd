---------------------------- MODULE StoreProofs -----------------------------
(***************************************************************************)
(* Proofs about what players have: what is in store of it, Database, and    *)
(* what is in the world, Items; two specifications that share nothing.     *)
(*                                                                         *)
(* Database, what a crash finds in store, for any number of queries,       *)
(* coins, versions and losses of the connection.  The invariant is Transacted.   *)
(*                                                                         *)
(* Items, for any items, kinds, weights, capacities and limits: ItemsIInv  *)
(* is inductive, so that no piece is lost or doubled, nothing lies in      *)
(* itself and the weights agree; and no step but an exchange overfills a   *)
(* container or, unless internalAddItem gives up in the middle, spoils the *)
(* burden.  The heart of it is Coming, what holds of an item between the   *)
(* calls that internalAddItem makes to itself, and AroundUnique, by which  *)
(* a weight is carried up.                                                 *)
(***************************************************************************)
EXTENDS Database, Items, FiniteSetTheorems, SequenceTheorems, WellFoundedInduction, TLAPS

-----------------------------------------------------------------------------
(* The statements of the scripts                                           *)

LEMMA Lengths == /\ Len(Script["none"]) = 0
                 /\ Len(Script["player"]) = 3
                 /\ Len(Script["houses"]) = 3
                 /\ Len(Script["coins"]) = 2
  BY DEF Script

LEMMA Statements ==
  /\ Script["player"][1] = Statement("update", "players", TRUE)
  /\ Script["player"][2] = Statement("delete", "items", TRUE)
  /\ Script["player"][3] = Statement("insert", "items", TRUE)
  /\ Script["houses"][1] = Statement("delete", "lists", TRUE)
  /\ Script["houses"][2] = Statement("update", "houses", FALSE)
  /\ Script["houses"][3] = Statement("insert", "lists", TRUE)
  /\ Script["coins"][1] = Statement("take", "from", FALSE)
  /\ Script["coins"][2] = Statement("give", "to", FALSE)
  BY DEF Script, Statement

LEMMA CoinsEffects ==
  ASSUME NEW d \in Data, NEW s \in 1..2
  PROVE  LET e == Effect(d, Script["coins"][s]) IN
         /\ e \in Data
         /\ e.rows = d.rows /\ e.log = d.log /\ e.prey = d.prey
         /\ s = 1 => e.from = d.from - 1 /\ e.to = d.to
         /\ s = 2 => e.from = d.from /\ e.to = d.to + 1
<1> DEFINE e == Effect(d, Script["coins"][s])
<1>1. d.from - 1 \in Int /\ d.to + 1 \in Int
  BY DEF Data
<1>2. CASE s = 1
  <2>1. e = [d EXCEPT !.from = d.from - 1]
    BY <1>2, Statements DEF Effect, Statement
  <2>2. [d EXCEPT !.from = d.from - 1] \in Data
    BY <1>1 DEF Data
  <2>3. /\ [d EXCEPT !.from = d.from - 1].rows = d.rows
        /\ [d EXCEPT !.from = d.from - 1].log = d.log
        /\ [d EXCEPT !.from = d.from - 1].prey = d.prey
        /\ [d EXCEPT !.from = d.from - 1].from = d.from - 1
        /\ [d EXCEPT !.from = d.from - 1].to = d.to
    BY DEF Data
  <2> QED
    BY <1>2, <2>1, <2>2, <2>3
<1>3. CASE s = 2
  <2>1. e = [d EXCEPT !.to = d.to + 1]
    BY <1>3, Statements DEF Effect, Statement
  <2>2. [d EXCEPT !.to = d.to + 1] \in Data
    BY <1>1 DEF Data
  <2>3. /\ [d EXCEPT !.to = d.to + 1].rows = d.rows
        /\ [d EXCEPT !.to = d.to + 1].log = d.log
        /\ [d EXCEPT !.to = d.to + 1].prey = d.prey
        /\ [d EXCEPT !.to = d.to + 1].from = d.from
        /\ [d EXCEPT !.to = d.to + 1].to = d.to + 1
    BY DEF Data
  <2> QED
    BY <1>3, <2>1, <2>2, <2>3
<1> QED
  BY <1>2, <1>3

LEMMA LoggedKeeps ==
  ASSUME NEW d \in Data, query \in Queries
  PROVE  /\ Logged(d) \in Data
         /\ Logged(d).rows = d.rows
         /\ Logged(d).from = d.from
         /\ Logged(d).to = d.to
         /\ Logged(d).prey = d.prey
<1> DEFINE l == [d.log EXCEPT ![query] = @ + 1]
<1>1. l \in [Queries -> Nat]
  BY DEF Data
<1>2. Logged(d) = [d EXCEPT !.log = l]
  BY DEF Logged
<1> HIDE DEF l
<1> QED
  BY <1>1, <1>2 DEF Data

LEMMA LoggedCounts ==
  ASSUME NEW d \in Data, query \in Queries
  PROVE  /\ Logged(d).log[query] = d.log[query] + 1
         /\ \A q \in Queries \ {query} : Logged(d).log[q] = d.log[q]
<1> DEFINE l == [d.log EXCEPT ![query] = @ + 1]
<1>1. l[query] = d.log[query] + 1 /\ \A q \in Queries \ {query} : l[q] = d.log[q]
  BY DEF Data
<1>2. Logged(d) = [d EXCEPT !.log = l]
  BY DEF Logged
<1> HIDE DEF l
<1>3. Logged(d).log = l
  BY <1>2 DEF Data
<1> QED
  BY <1>1, <1>3

LEMMA RowTypes ==
  ASSUME NEW v \in Nat
  PROVE  /\ NoRows \in Seq(Nat)
         /\ Row(v) \in Seq(Nat)
         /\ \A r \in Seq(Nat) : Added(r, v) \in Seq(Nat)
         /\ Added(NoRows, v) = Row(v)
  BY DEF NoRows, Row, Added

\* A statement that writes one table.
LEMMA RowsOf ==
  ASSUME NEW d \in Data, NEW t \in Tables, NEW r \in Seq(Nat)
  PROVE  /\ Put(d, t, r) \in Data
         /\ Put(d, t, r).rows[t] = r
         /\ \A u \in Tables \ {t} : Put(d, t, r).rows[u] = d.rows[u]
         /\ Put(d, t, r).from = d.from
         /\ Put(d, t, r).to = d.to
         /\ Put(d, t, r).log = d.log
         /\ Put(d, t, r).prey = d.prey
<1> DEFINE rows == [d.rows EXCEPT ![t] = r]
<1>1. rows \in [Tables -> Seq(Nat)]
  BY DEF Data
<1>2. Put(d, t, r) = [d EXCEPT !.rows = rows]
  BY DEF Put
<1> HIDE DEF rows
<1>3. [d EXCEPT !.rows = rows] \in Data
  BY <1>1 DEF Data
<1> QED
  BY <1>1, <1>2, <1>3 DEF Data, rows

LEMMA PlayerEffects ==
  ASSUME NEW d \in Data, NEW s \in 1..3, memory \in Nat
  PROVE  LET e == Effect(d, Script["player"][s]) IN
         /\ e \in Data
         /\ e.from = d.from /\ e.to = d.to /\ e.log = d.log /\ e.prey = d.prey
         /\ \A t \in {"houses", "lists"} : e.rows[t] = d.rows[t]
         /\ s = 1 => e.rows["players"] = Row(memory)
         /\ s # 1 => e.rows["players"] = d.rows["players"]
         /\ s = 2 => e.rows["items"] = NoRows
         /\ s = 3 => e.rows["items"] = Added(d.rows["items"], memory)
<1> DEFINE e == Effect(d, Script["player"][s])
<1>1. Tables = {"players", "items", "houses", "lists"}
  BY DEF Tables
<1>2. Row(memory) \in Seq(Nat) /\ NoRows \in Seq(Nat) /\ Added(d.rows["items"], memory) \in Seq(Nat)
  BY <1>1, RowTypes DEF Data
<1>3. CASE s = 1
  <2>1. e = Put(d, "players", Row(memory))
    BY <1>3, Statements DEF Effect, Statement
  <2>2. "players" \in Tables /\ Row(memory) \in Seq(Nat)
    BY <1>1, <1>2
  <2>3. /\ Put(d, "players", Row(memory)) \in Data
        /\ Put(d, "players", Row(memory)).rows["players"] = Row(memory)
        /\ Put(d, "players", Row(memory)).from = d.from
        /\ Put(d, "players", Row(memory)).to = d.to
        /\ Put(d, "players", Row(memory)).log = d.log
        /\ Put(d, "players", Row(memory)).prey = d.prey
        /\ \A u \in Tables \ {"players"} : Put(d, "players", Row(memory)).rows[u] = d.rows[u]
    BY <2>2, RowsOf
  <2> QED
    BY <1>1, <1>3, <2>1, <2>3
<1>4. CASE s = 2
  <2>1. e = Put(d, "items", NoRows)
    BY <1>4, Statements DEF Effect, Statement
  <2>2. "items" \in Tables /\ NoRows \in Seq(Nat)
    BY <1>1, <1>2
  <2>3. /\ Put(d, "items", NoRows) \in Data
        /\ Put(d, "items", NoRows).rows["items"] = NoRows
        /\ Put(d, "items", NoRows).from = d.from
        /\ Put(d, "items", NoRows).to = d.to
        /\ Put(d, "items", NoRows).log = d.log
        /\ Put(d, "items", NoRows).prey = d.prey
        /\ \A u \in Tables \ {"items"} : Put(d, "items", NoRows).rows[u] = d.rows[u]
    BY <2>2, RowsOf
  <2> QED
    BY <1>1, <1>4, <2>1, <2>3
<1>5. CASE s = 3
  <2>1. e = Put(d, "items", Added(d.rows["items"], memory))
    BY <1>5, Statements DEF Effect, Statement
  <2>2. "items" \in Tables /\ Added(d.rows["items"], memory) \in Seq(Nat)
    BY <1>1, <1>2
  <2>3. /\ Put(d, "items", Added(d.rows["items"], memory)) \in Data
        /\ Put(d, "items", Added(d.rows["items"], memory)).rows["items"] = Added(d.rows["items"], memory)
        /\ Put(d, "items", Added(d.rows["items"], memory)).from = d.from
        /\ Put(d, "items", Added(d.rows["items"], memory)).to = d.to
        /\ Put(d, "items", Added(d.rows["items"], memory)).log = d.log
        /\ Put(d, "items", Added(d.rows["items"], memory)).prey = d.prey
        /\ \A u \in Tables \ {"items"} : Put(d, "items", Added(d.rows["items"], memory)).rows[u] = d.rows[u]
    BY <2>2, RowsOf
  <2> QED
    BY <1>1, <1>5, <2>1, <2>3
<1> QED
  BY <1>3, <1>4, <1>5

LEMMA HousesEffects ==
  ASSUME NEW d \in Data, NEW s \in 1..3, memory \in Nat
  PROVE  LET e == Effect(d, Script["houses"][s]) IN
         /\ e \in Data
         /\ e.from = d.from /\ e.to = d.to /\ e.log = d.log /\ e.prey = d.prey
         /\ \A t \in {"players", "items"} : e.rows[t] = d.rows[t]
         /\ s = 1 => e.rows["lists"] = NoRows
         /\ s = 2 => e.rows["lists"] = d.rows["lists"] /\ e.rows["houses"] = Row(memory)
         /\ s = 3 => e.rows["lists"] = Added(d.rows["lists"], memory)
         /\ s # 2 => e.rows["houses"] = d.rows["houses"]
<1> DEFINE e == Effect(d, Script["houses"][s])
<1>1. Tables = {"players", "items", "houses", "lists"}
  BY DEF Tables
<1>2. Row(memory) \in Seq(Nat) /\ NoRows \in Seq(Nat) /\ Added(d.rows["lists"], memory) \in Seq(Nat)
  BY <1>1, RowTypes DEF Data
<1>3. CASE s = 1
  <2>1. e = Put(d, "lists", NoRows)
    BY <1>3, Statements DEF Effect, Statement
  <2>2. "lists" \in Tables /\ NoRows \in Seq(Nat)
    BY <1>1, <1>2
  <2>3. /\ Put(d, "lists", NoRows) \in Data
        /\ Put(d, "lists", NoRows).rows["lists"] = NoRows
        /\ Put(d, "lists", NoRows).from = d.from
        /\ Put(d, "lists", NoRows).to = d.to
        /\ Put(d, "lists", NoRows).log = d.log
        /\ Put(d, "lists", NoRows).prey = d.prey
        /\ \A u \in Tables \ {"lists"} : Put(d, "lists", NoRows).rows[u] = d.rows[u]
    BY <2>2, RowsOf
  <2> QED
    BY <1>1, <1>3, <2>1, <2>3
<1>4. CASE s = 2
  <2>1. e = Put(d, "houses", Row(memory))
    BY <1>4, Statements DEF Effect, Statement
  <2>2. "houses" \in Tables /\ Row(memory) \in Seq(Nat)
    BY <1>1, <1>2
  <2>3. /\ Put(d, "houses", Row(memory)) \in Data
        /\ Put(d, "houses", Row(memory)).rows["houses"] = Row(memory)
        /\ Put(d, "houses", Row(memory)).from = d.from
        /\ Put(d, "houses", Row(memory)).to = d.to
        /\ Put(d, "houses", Row(memory)).log = d.log
        /\ Put(d, "houses", Row(memory)).prey = d.prey
        /\ \A u \in Tables \ {"houses"} : Put(d, "houses", Row(memory)).rows[u] = d.rows[u]
    BY <2>2, RowsOf
  <2> QED
    BY <1>1, <1>4, <2>1, <2>3
<1>5. CASE s = 3
  <2>1. e = Put(d, "lists", Added(d.rows["lists"], memory))
    BY <1>5, Statements DEF Effect, Statement
  <2>2. "lists" \in Tables /\ Added(d.rows["lists"], memory) \in Seq(Nat)
    BY <1>1, <1>2
  <2>3. /\ Put(d, "lists", Added(d.rows["lists"], memory)) \in Data
        /\ Put(d, "lists", Added(d.rows["lists"], memory)).rows["lists"] = Added(d.rows["lists"], memory)
        /\ Put(d, "lists", Added(d.rows["lists"], memory)).from = d.from
        /\ Put(d, "lists", Added(d.rows["lists"], memory)).to = d.to
        /\ Put(d, "lists", Added(d.rows["lists"], memory)).log = d.log
        /\ Put(d, "lists", Added(d.rows["lists"], memory)).prey = d.prey
        /\ \A u \in Tables \ {"lists"} : Put(d, "lists", Added(d.rows["lists"], memory)).rows[u] = d.rows[u]
    BY <2>2, RowsOf
  <2> QED
    BY <1>1, <1>5, <2>1, <2>3
<1> QED
  BY <1>3, <1>4, <1>5

-----------------------------------------------------------------------------
(* Initial states, and steps that change nothing the invariant is about    *)

LEMMA InitTransacted == Init => Transacted
<1> SUFFICES ASSUME Init PROVE Transacted
  OBVIOUS
<1> USE DatabaseAssumption
<1>1. store = [rows |-> [t \in Tables |-> Row(0)], prey |-> 0,
               from |-> Coins, to |-> 0, log |-> [q \in Queries |-> 0]]
  BY DEF Init
<1>2. store \in Data
  <2>1. Row(0) \in Seq(Nat)
    BY DEF Row
  <2> QED
    BY <1>1, <2>1 DEF Data
<1>3. TypeOK
  <2>1. /\ link = "up" /\ inTrans = FALSE /\ lock = "free" /\ memory = 0 /\ job = "none"
        /\ pc = "idle" /\ step = 1 /\ success = FALSE /\ query = NoQuery /\ torn = FALSE
    BY DEF Init
  <2>2. link = "up" /\ inTrans => view \in Data
    BY <2>1
  <2>3. memory \in 0..MaxVersion /\ step \in 1..3
    BY <2>1
  <2>4. success \in BOOLEAN /\ torn \in BOOLEAN /\ inTrans \in BOOLEAN
    BY <2>1
  <2> QED
    BY <1>2, <2>1, <2>2, <2>3, <2>4 DEF TypeOK, Jobs, PC
<1>4. Holders /\ Open
  BY DEF Init, Holders, Open
<1>5. PlayerWhole(store) /\ HousesWhole(store)
  <2>1. 0 \in 0..MaxVersion
    OBVIOUS
  <2>2. \A t \in Tables : store.rows[t] = Row(0)
    BY <1>1
  <2> QED
    BY <2>1, <2>2 DEF PlayerWhole, HousesWhole, Tables
<1>6. PurseHolds(store, Coins)
  BY <1>1 DEF PurseHolds
<1>7. Stored
  BY <1>5, <1>6 DEF Init, Stored
<1>8. RowsSaved
  BY DEF Init, RowsSaved
<1> QED
  BY <1>3, <1>4, <1>7, <1>8 DEF Transacted

\* The dispatcher between two operations, and steps in which the server is not reached.
LEMMA IdleSteps ==
  ASSUME Transacted, Play \/ SavePlayer \/ SaveHouses \/ GiveCoins
  PROVE  Transacted'
<1> USE DatabaseAssumption DEF Transacted
<1>1. CASE Play
  <2>1. TypeOK' /\ Holders' /\ Open' /\ RowsSaved'
    BY <1>1 DEF Play, server, task, thread, history, TypeOK, Holders, Open, RowsSaved
  <2>2. Stored'
    BY <1>1 DEF Play, server, thread, history, Open, Stored, PlayerWhole, HousesWhole, PurseHolds
  <2> QED
    BY <2>1, <2>2
<1>2. CASE SavePlayer \/ SaveHouses \/ GiveCoins
  <2>1. PICK j \in Jobs \ {"none"}, n \in {1, MaxTries}, p \in {"prey", "begin"} :
          Starts(j, n, p) /\ (p = "prey" => j = "player")
    <3>1. CASE SavePlayer
      <4>1. PICK n \in {1, MaxTries} : Starts("player", n, "prey")
        BY <3>1 DEF SavePlayer
      <4> QED
        BY <4>1, Zenon DEF Jobs
    <3>2. CASE SaveHouses
      BY <3>2, Zenon DEF SaveHouses, Jobs
    <3>3. CASE GiveCoins
      BY <3>3, Zenon DEF GiveCoins, Jobs
    <3> QED
      BY <1>2, <3>1, <3>2, <3>3
  <2>2. TypeOK' /\ Holders' /\ Open' /\ RowsSaved'
    BY <2>1 DEF Starts, server, thread, history, TypeOK, Holders, Open, RowsSaved, Jobs, PC
  <2>3. Stored'
    BY <2>1 DEF Starts, server, thread, history, Open, Stored, PlayerWhole, HousesWhole, PurseHolds
  <2> QED
    BY <2>2, <2>3
<1> QED
  BY <1>1, <1>2

-----------------------------------------------------------------------------
(* The transaction                                                         *)

LEMMA TheStatement ==
  ASSUME TypeOK, Holders, pc = "statement"
  PROVE  \/ job = "player" /\ step \in 1..3
         \/ job = "houses" /\ step \in 1..3
         \/ job = "coins" /\ step \in 1..2
<1>1. job \in {"player", "houses", "coins"} /\ step \in 1..Len(Script[job])
  BY DEF TypeOK, Holders, Jobs
<1>2. CASE job = "player"
  BY <1>1, <1>2, Lengths
<1>3. CASE job = "houses"
  BY <1>1, <1>3, Lengths
<1>4. CASE job = "coins"
  BY <1>1, <1>4, Lengths
<1> QED
  BY <1>1, <1>2, <1>3, <1>4

LEMMA EffectType ==
  ASSUME TypeOK, Holders, pc = "statement", NEW d \in Data
  PROVE  /\ Effect(d, Script[job][step]) \in Data
         /\ Effect(d, Script[job][step]).log = d.log
<1>1. memory \in Nat
  BY DatabaseAssumption DEF TypeOK
<1>2. CASE job = "player" /\ step \in 1..3
  BY <1>1, <1>2, PlayerEffects
<1>3. CASE job = "houses" /\ step \in 1..3
  BY <1>1, <1>3, HousesEffects
<1>4. CASE job = "coins" /\ step \in 1..2
  BY <1>4, CoinsEffects
<1> QED
  BY <1>2, <1>3, <1>4, TheStatement

\* Steps of an operation that touch no data.
LEMMA QuietSteps ==
  ASSUME Transacted, PreyStaysOld \/ CheckSave \/ BeginFails \/ LockTransaction \/ Rollback \/ RollbackUnlocked \/ Return
  PROVE  Transacted'
<1> USE DatabaseAssumption DEF Transacted
<1>0. CASE PreyStaysOld
  <2>1. TypeOK' /\ Holders' /\ Open' /\ RowsSaved'
    BY <1>0 DEF PreyStaysOld, CanSend, server, thread, TypeOK, Holders, Open, RowsSaved, PC
  <2>2. "houses" \notin skipped' <=> "houses" \notin skipped
    BY <1>0 DEF PreyStaysOld
  <2>3. "coins" \notin skipped' <=> "coins" \notin skipped
    BY <1>0 DEF PreyStaysOld
  <2>4. Stored'
    BY <1>0, <2>2, <2>3 DEF PreyStaysOld, CanSend, server, thread, Open, Stored, PlayerWhole,
                            HousesWhole, PurseHolds
  <2> QED
    BY <2>1, <2>4
<1>1. CASE CheckSave
  <2>1. TypeOK'
    BY <1>1 DEF CheckSave, CanSend, server, thread, history, TypeOK, PC
  <2>2. Holders' /\ Open'
    BY <1>1 DEF CheckSave, CanSend, server, thread, history, Holders, Open
  <2>3. RowsSaved'
    BY <1>1 DEF CheckSave, server, RowsSaved
  <2>4. Stored'
    BY <1>1 DEF CheckSave, CanSend, server, thread, history, Open, Stored, PlayerWhole, HousesWhole,
                PurseHolds
  <2> QED
    BY <2>1, <2>2, <2>3, <2>4
<1>2. CASE BeginFails
  <2>1. TypeOK' /\ Holders' /\ Open' /\ RowsSaved'
    BY <1>2 DEF BeginFails, CanSend, server, thread, history, TypeOK, Holders, Open, RowsSaved, PC
  <2>2. Stored'
    BY <1>2 DEF BeginFails, CanSend, server, thread, history, Open, Stored, PlayerWhole, HousesWhole,
                PurseHolds
  <2> QED
    BY <2>1, <2>2
<1>3. CASE LockTransaction
  <2>0. step' = 1 /\ step' \in 1..Len(Script[job])
    <3>1. step' = 1 /\ pc = "gap"
      BY <1>3 DEF LockTransaction
    <3>2. job \in {"player", "houses", "coins"}
      BY <3>1 DEF TypeOK, Holders, Jobs
    <3>3. Len(Script[job]) \in {2, 3}
      BY <3>2, Lengths
    <3> QED
      BY <3>1, <3>3
  <2>1. TypeOK' /\ Holders' /\ Open' /\ RowsSaved'
    BY <1>3, <2>0 DEF LockTransaction, server, thread, history, TypeOK, Holders, Open, RowsSaved, PC
  <2>2. Stored'
    BY <1>3 DEF LockTransaction, server, thread, history, Open, Stored, PlayerWhole, HousesWhole,
                PurseHolds, Stage, First, At, Done
  <2> QED
    BY <2>1, <2>2
<1>4. CASE Rollback
  <2>1. TypeOK' /\ Holders' /\ Open' /\ RowsSaved'
    BY <1>4 DEF Rollback, Closes, Returns, thread, history, TypeOK, Holders, Open, RowsSaved, PC
  <2>2. Stored'
    BY <1>4 DEF Rollback, Closes, Returns, thread, history, Stored, PlayerWhole, HousesWhole, PurseHolds
  <2> QED
    BY <2>1, <2>2
<1>5. CASE RollbackUnlocked
  <2>1. TypeOK' /\ Holders' /\ Open' /\ RowsSaved'
    BY <1>5 DEF RollbackUnlocked, Returns, server, thread, history, TypeOK, Holders, Open,
                RowsSaved, PC
  <2>2. Stored'
    BY <1>5 DEF RollbackUnlocked, Returns, server, thread, history, Open, Stored, PlayerWhole,
                HousesWhole, PurseHolds
  <2> QED
    BY <2>1, <2>2
<1>6. CASE Return
  <2>0. pc' \in PC /\ job' \in Jobs
    BY <1>6 DEF Return, TypeOK, PC, Jobs
  <2>1. TypeOK'
    <3>1. step' = 1 /\ success' = FALSE /\ UNCHANGED <<server, lock, memory, thread, history>>
      BY <1>6 DEF Return
    <3>2. step' \in 1..3
      BY <3>1
    <3>3. success' \in BOOLEAN
      BY <3>1
    <3> QED
      BY <2>0, <3>1, <3>2, <3>3 DEF server, thread, history, TypeOK
  <2>2. Holders' /\ Open' /\ RowsSaved'
    BY <1>6 DEF Return, server, thread, history, Holders, Open, RowsSaved
  <2>3. Stored'
    BY <1>6 DEF Return, server, thread, history, Open, Stored, PlayerWhole, HousesWhole, PurseHolds
  <2> QED
    BY <2>1, <2>2, <2>3
<1> QED
  BY <1>0, <1>1, <1>2, <1>3, <1>4, <1>5, <1>6

LEMMA PreyKeeps ==
  ASSUME NEW d \in Data, NEW v \in Nat
  PROVE  LET e == [d EXCEPT !.prey = v] IN
         /\ e \in Data /\ e.prey = v
         /\ e.rows = d.rows /\ e.from = d.from /\ e.to = d.to /\ e.log = d.log
  BY DEF Data

\* The prey data is written on its own, no transaction being open.
LEMMA SavePreyStep ==
  ASSUME Transacted, SavePrey
  PROVE  Transacted'
<1> USE DatabaseAssumption
<1>1. TypeOK /\ Holders /\ Open /\ Stored /\ RowsSaved
  BY DEF Transacted
<1>2. /\ pc = "prey" /\ pc' = "check" /\ lock' = "free" /\ lock # "db" /\ ~inTrans
      /\ UNCHANGED <<view, link, inTrans, job, step, success, memory, query, torn>>
  BY <1>1 DEF SavePrey, CanSend, thread, Open
<1>3. /\ store' \in Data
      /\ store'.rows = store.rows /\ store'.from = store.from /\ store'.to = store.to
  <2>1. memory \in Nat /\ store \in Data
    BY <1>1 DEF TypeOK
  <2> QED
    BY <2>1, PreyKeeps DEF SavePrey
<1>4. /\ "houses" \notin skipped' <=> "houses" \notin skipped
      /\ "coins" \notin skipped' <=> "coins" \notin skipped
  BY DEF SavePrey
<1>5. TypeOK' /\ Holders' /\ Open' /\ RowsSaved'
  BY <1>1, <1>2, <1>3 DEF TypeOK, Holders, Open, RowsSaved, PC
<1>6. Stored'
  BY <1>1, <1>2, <1>3, <1>4 DEF Stored, PlayerWhole, HousesWhole, PurseHolds
<1> QED
  BY <1>5, <1>6 DEF Transacted

LEMMA BeginStep ==
  ASSUME Transacted, Begin
  PROVE  Transacted'
<1> USE DatabaseAssumption DEF Transacted
<1>1. ~inTrans /\ link = "up" /\ store' = store /\ view' = store
  BY DEF Begin, CanSend, Open
<1>2. TypeOK' /\ Holders' /\ Open' /\ RowsSaved'
  BY <1>1 DEF Begin, CanSend, thread, history, TypeOK, Holders, Open, RowsSaved, PC
<1>3. Stored'
  BY <1>1 DEF Begin, thread, history, Stored, PlayerWhole, HousesWhole, PurseHolds, Stage, First, At, Done
<1> QED
  BY <1>2, <1>3

\* What a statement makes of the open transaction.
LEMMA PlayerMoves ==
  ASSUME Stage(view), view \in Data, memory \in Nat, memory \in 0..MaxVersion,
         pc = "statement", job = "player", step \in 1..3, GoOn,
         view' = Effect(view, Script["player"][step]), UNCHANGED <<job, memory, skipped>>
  PROVE  Stage(view)'
<1>1. /\ view'.from = view.from /\ view'.to = view.to
      /\ view'.rows["houses"] = view.rows["houses"]
      /\ view'.rows["lists"] = view.rows["lists"]
      /\ step = 1 => view'.rows["players"] = Row(memory)
      /\ step # 1 => view'.rows["players"] = view.rows["players"]
      /\ step = 2 => view'.rows["items"] = NoRows
      /\ step = 3 => view'.rows["items"] = Added(view.rows["items"], memory)
  BY PlayerEffects
<1>2. HousesWhole(view)' /\ PurseHolds(view, Coins)'
  BY <1>1 DEF Stage, HousesWhole, PurseHolds
<1>3. /\ step = 1 => pc' = "statement" /\ step' = 2
      /\ step = 2 => pc' = "statement" /\ step' = 3
      /\ step = 3 => pc' = "commit"
  BY Lengths DEF GoOn
<1>4. /\ step # 1 => view.rows["players"] = Row(memory)
      /\ step = 3 => view.rows["items"] = NoRows
  BY DEF Stage, First, At
<1>5. Added(NoRows, memory) = Row(memory)
  BY RowTypes
<1>6. /\ view'.rows["players"] = Row(memory)
      /\ pc' = "statement" /\ step' = 3 => view'.rows["items"] = NoRows
      /\ pc' = "commit" => view'.rows["items"] = Row(memory)
  BY <1>1, <1>3, <1>4, <1>5
<1>7. ~First'
  BY <1>3 DEF First
<1> QED
  BY <1>2, <1>6, <1>7 DEF Stage, At, Done

LEMMA HousesMove ==
  ASSUME Stage(view), view \in Data, memory \in Nat, memory \in 0..MaxVersion,
         pc = "statement", job = "houses", step \in 1..3, GoOn,
         view' = Effect(view, Script["houses"][step]), UNCHANGED <<job, memory, skipped>>
  PROVE  Stage(view)'
<1>1. /\ view'.from = view.from /\ view'.to = view.to
      /\ view'.rows["players"] = view.rows["players"]
      /\ view'.rows["items"] = view.rows["items"]
      /\ step = 1 => view'.rows["lists"] = NoRows
      /\ step = 2 => view'.rows["lists"] = view.rows["lists"] /\ view'.rows["houses"] = Row(memory)
      /\ step = 3 => view'.rows["lists"] = Added(view.rows["lists"], memory)
      /\ step # 2 => view'.rows["houses"] = view.rows["houses"]
  BY HousesEffects
<1>2. PlayerWhole(view)' /\ PurseHolds(view, Coins)'
  BY <1>1 DEF Stage, PlayerWhole, PurseHolds
<1>3. /\ step = 1 => pc' = "statement" /\ step' = 2
      /\ step = 2 => pc' = "statement" /\ step' = 3
      /\ step = 3 => pc' = "commit"
  BY Lengths DEF GoOn
<1>4. /\ step # 1 => view.rows["lists"] = NoRows
      /\ step = 3 => ("houses" \notin skipped => view.rows["houses"] = Row(memory))
  BY DEF Stage, At
<1>5. Added(NoRows, memory) = Row(memory)
  BY RowTypes
<1>6. /\ pc' = "statement" => view'.rows["lists"] = NoRows
      /\ pc' = "commit" => view'.rows["lists"] = Row(memory)
      /\ (pc' = "statement" /\ step' = 3) \/ pc' = "commit"
           => ("houses" \notin skipped => view'.rows["houses"] = Row(memory))
  BY <1>1, <1>3, <1>4, <1>5
<1>7. ~First'
  BY <1>3 DEF First
<1> QED
  BY <1>2, <1>6, <1>7 DEF Stage, At, Done

LEMMA CoinsMove ==
  ASSUME Stage(view), view \in Data, pc = "statement", job = "coins", step \in 1..2, GoOn,
         view' = Effect(view, Script["coins"][step]), UNCHANGED <<job, memory, skipped>>
  PROVE  Stage(view)'
<1>1. /\ view'.rows = view.rows
      /\ step = 1 => view'.from = view.from - 1 /\ view'.to = view.to
      /\ step = 2 => view'.from = view.from /\ view'.to = view.to + 1
  BY CoinsEffects
<1>2. PlayerWhole(view)' /\ HousesWhole(view)'
  BY <1>1 DEF Stage, PlayerWhole, HousesWhole
<1>3. /\ step = 1 => pc' = "statement" /\ step' = 2
      /\ step = 2 => pc' = "commit"
  BY Lengths DEF GoOn
<1>4. /\ step = 1 => PurseHolds(view, Coins)
      /\ step = 2 => PurseHolds(view, Coins - 1)
  BY DEF Stage, First, At
<1>5. view.from \in Int /\ view.to \in Int /\ Coins \in Int
  BY DatabaseAssumption DEF Data
<1>6. /\ step = 1 => PurseHolds(view, Coins - 1)'
      /\ step = 2 => PurseHolds(view, Coins)'
  BY <1>1, <1>4, <1>5 DEF PurseHolds
<1>7. ~First'
  BY <1>3 DEF First
<1> QED
  BY <1>2, <1>3, <1>6, <1>7 DEF Stage, At, Done

LEMMA RunStatementStep ==
  ASSUME Transacted, RunStatement
  PROVE  Transacted'
<1> USE DatabaseAssumption
<1>1. TypeOK /\ Holders /\ Open /\ Stored /\ RowsSaved
  BY DEF Transacted
<1>2. /\ pc = "statement" /\ link = "up" /\ lock = "disp" /\ GoOn
      /\ UNCHANGED <<link, inTrans, losses, lock, job, memory, success, query, torn, skipped>>
      /\ memory \in Nat /\ memory \in 0..MaxVersion
  BY <1>1 DEF RunStatement, CanSend, thread, history, TypeOK, Holders
<1>3. /\ step' \in 1..3 /\ pc' \in {"statement", "commit"}
      /\ pc' = "statement" => step' \in 1..Len(Script[job])
  <2> DEFINE l == Len(Script[job])
  <2>1. l \in {2, 3} /\ step \in 1..l
    <3>1. job \in {"player", "houses", "coins"} /\ step \in 1..l
      BY <1>1, <1>2, TheStatement DEF Holders
    <3> QED
      BY <3>1, Lengths
  <2>2. IF step < l THEN step' = step + 1 /\ pc' = pc ELSE pc' = "commit" /\ step' = 1
    BY <1>2 DEF GoOn
  <2> HIDE DEF l
  <2>3. step' \in 1..3 /\ step' \in 1..l /\ pc' \in {"statement", "commit"}
    BY <1>2, <2>1, <2>2
  <2> QED
    BY <2>3 DEF l
<1>4. CASE inTrans
  <2>1. view \in Data /\ view' = Effect(view, Script[job][step]) /\ store' = store
    BY <1>1, <1>2, <1>4 DEF RunStatement, Apply, Current, TypeOK
  <2>2. view' \in Data
    BY <1>1, <1>2, <2>1, EffectType
  <2>3. TypeOK'
    BY <1>1, <1>2, <1>3, <2>1, <2>2 DEF TypeOK, PC
  <2>4. Holders' /\ Open' /\ RowsSaved'
    BY <1>1, <1>2, <1>3, <1>4 DEF Holders, Open, RowsSaved
  <2>5. ASSUME ~torn, Stage(view) PROVE Stage(view)'
    BY <1>1, <1>2, <2>1, <2>5, TheStatement, PlayerMoves, HousesMove, CoinsMove
  <2>6. Stored'
    BY <1>1, <1>2, <1>4, <2>1, <2>5 DEF Stored, PlayerWhole, HousesWhole, PurseHolds
  <2> QED
    BY <2>3, <2>4, <2>6 DEF Transacted
<1>5. CASE ~inTrans
  <2>1. store' = Effect(store, Script[job][step]) /\ view' = view
    BY <1>5 DEF RunStatement, Apply, Current
  <2>2. store' \in Data
    BY <1>1, <1>2, <2>1, EffectType DEF TypeOK
  <2>3. TypeOK'
    BY <1>1, <1>2, <1>3, <1>5, <2>1, <2>2 DEF TypeOK, PC
  <2>4. torn /\ torn'
    BY <1>1, <1>2, <1>5 DEF Open
  <2>5. Holders' /\ Open' /\ RowsSaved' /\ Stored'
    BY <1>1, <1>2, <1>3, <1>5, <2>4 DEF Holders, Open, RowsSaved, Stored
  <2> QED
    BY <2>3, <2>5 DEF Transacted
<1> QED
  BY <1>1, <1>4, <1>5 DEF TypeOK

LEMMA RepeatStatementStep ==
  ASSUME Transacted, RepeatStatement
  PROVE  Transacted'
<1> USE DatabaseAssumption
<1>1. TypeOK /\ Holders /\ Open /\ Stored /\ RowsSaved
  BY DEF Transacted
<1>2. /\ pc = "statement" /\ ~inTrans /\ link' = "lost"
      /\ UNCHANGED <<inTrans, lock, job, pc, step, memory, success, query, torn, skipped>>
  BY DEF RepeatStatement, Breaks, task, thread, history
<1>3. store' \in Data
  BY <1>1, <1>2, EffectType DEF RepeatStatement, TypeOK
<1>4. TypeOK' /\ Holders' /\ Open'
  BY <1>1, <1>2, <1>3 DEF TypeOK, Holders, Open
<1>5. torn /\ torn'
  BY <1>1, <1>2 DEF Open
<1>6. RowsSaved' /\ Stored'
  BY <1>5 DEF RowsSaved, Stored
<1> QED
  BY <1>4, <1>6 DEF Transacted

\* A failure ends the attempt, or is remembered in skipped.
LEMMA StatementFailsStep ==
  ASSUME Transacted, StatementFails
  PROVE  Transacted'
<1> USE DatabaseAssumption
<1>1. TypeOK /\ Holders /\ Open /\ Stored /\ RowsSaved
  BY DEF Transacted
<1>2. /\ pc = "statement"
      /\ UNCHANGED <<store, view, link, inTrans, lock, job, memory, success, query, torn>>
  BY DEF StatementFails, server, thread
<1>3. CASE pc' = "rollback" /\ step' = 1 /\ UNCHANGED skipped
  <2>1. TypeOK' /\ Holders' /\ Open' /\ RowsSaved'
    BY <1>1, <1>2, <1>3 DEF TypeOK, Holders, Open, RowsSaved, PC
  <2>2. Stored'
    BY <1>1, <1>2, <1>3 DEF Stored, PlayerWhole, HousesWhole, PurseHolds
  <2> QED
    BY <2>1, <2>2 DEF Transacted
<1>4. CASE ~Script[job][step].must /\ GoOn /\ skipped' = skipped \cup {job}
  <2>1. \/ job = "houses" /\ step = 2 /\ pc' = "statement" /\ step' = 3
        \/ job = "coins" /\ step = 1 /\ pc' = "statement" /\ step' = 2
        \/ job = "coins" /\ step = 2 /\ pc' = "commit" /\ step' = 1
    <3>1. \/ job = "houses" /\ step = 2
          \/ job = "coins" /\ step = 1
          \/ job = "coins" /\ step = 2
      BY <1>1, <1>2, <1>4, TheStatement, Statements DEF Statement
    <3>2. IF step < Len(Script[job]) THEN step' = step + 1 /\ pc' = pc ELSE pc' = "commit" /\ step' = 1
      BY <1>4 DEF GoOn
    <3>3. CASE job = "houses" /\ step = 2
      BY <1>2, <3>2, <3>3, Lengths
    <3>4. CASE job = "coins" /\ step = 1
      BY <1>2, <3>2, <3>4, Lengths
    <3>5. CASE job = "coins" /\ step = 2
      BY <1>2, <3>2, <3>5, Lengths
    <3> QED
      BY <3>1, <3>3, <3>4, <3>5
  <2>2. TypeOK' /\ Holders' /\ Open' /\ RowsSaved'
    <3>1. step' \in 1..3
      BY <2>1
    <3>2. pc' = "statement" => step' \in 1..Len(Script[job])
      <4>1. CASE job = "houses" /\ step' = 3
        BY <4>1, Lengths
      <4>2. CASE job = "coins" /\ step' = 2
        BY <4>2, Lengths
      <4> QED
        BY <2>1, <4>1, <4>2
    <3> QED
      BY <1>1, <1>2, <2>1, <3>1, <3>2 DEF TypeOK, Holders, Open, RowsSaved, PC
  <2>3. \A d : /\ PlayerWhole(d) => PlayerWhole(d)'
               /\ HousesWhole(d) => HousesWhole(d)'
               /\ PurseHolds(d, Coins) => PurseHolds(d, Coins)'
    BY <1>4 DEF PlayerWhole, HousesWhole, PurseHolds
  <2>4. Stage(view) => Stage(view)'
    BY <1>2, <1>4, <2>1 DEF Stage, First, At, Done, PlayerWhole, HousesWhole, PurseHolds
  <2>5. Stored'
    BY <1>1, <1>2, <2>3, <2>4 DEF Stored
  <2> QED
    BY <2>2, <2>5 DEF Transacted
<1> QED
  BY <1>3, <1>4 DEF StatementFails

LEMMA CommitStep ==
  ASSUME Transacted, Commit
  PROVE  Transacted'
<1> USE DatabaseAssumption
<1>1. TypeOK /\ Holders /\ Open /\ Stored /\ RowsSaved
  BY DEF Transacted
<1>2. /\ pc = "commit" /\ pc' = "returned" /\ lock' = "free" /\ lock = "disp" /\ query = NoQuery
      /\ UNCHANGED <<job, step, memory, query, torn, skipped>>
      /\ success' \in BOOLEAN
  BY <1>1 DEF Commit, Returns, thread, history, TypeOK, Holders
<1>3. CASE link = "up" /\ inTrans /\ store' = view
  <2>1. store' = view /\ inTrans' = FALSE /\ link' \in {"up", "lost"} /\ view \in Data
    BY <1>1, <1>3 DEF Commit, Closes, Breaks, TypeOK
  <2>2. TypeOK' /\ Holders' /\ Open'
    BY <1>1, <1>2, <2>1 DEF TypeOK, Holders, Open, PC
  <2>3. ~torn => Stage(view)
    BY <1>1, <1>2, <1>3 DEF Stored
  <2>4. ~torn => PlayerWhole(store') /\ HousesWhole(store') /\ PurseHolds(store', Coins)
    <3>1. memory \in 0..MaxVersion
      BY <1>1 DEF TypeOK
    <3> QED
      BY <1>2, <2>1, <2>3, <3>1 DEF Stage, Done, First, PlayerWhole, HousesWhole, PurseHolds
  <2>5. Stored'
    BY <1>2, <2>1, <2>4 DEF Stored, PlayerWhole, HousesWhole, PurseHolds
  <2>6. RowsSaved'
    BY <1>2, <2>1, <2>3 DEF RowsSaved, Stage, Done, First
  <2> QED
    BY <2>2, <2>5, <2>6 DEF Transacted
<1>4. CASE store' = store /\ (success' = FALSE \/ ~inTrans)
  <2>1. store' = store /\ inTrans' = FALSE /\ link' \in {"up", "lost"}
    BY <1>1, <1>4 DEF Commit, Closes, Breaks, TypeOK
  <2>2. TypeOK' /\ Holders' /\ Open'
    BY <1>1, <1>2, <2>1 DEF TypeOK, Holders, Open, PC
  <2>3. Stored'
    BY <1>1, <1>2, <2>1 DEF Stored, PlayerWhole, HousesWhole, PurseHolds
  <2>4. ~torn => success' = FALSE
    BY <1>1, <1>2, <1>4 DEF Open
  <2>5. RowsSaved'
    BY <1>2, <2>4 DEF RowsSaved
  <2> QED
    BY <2>2, <2>3, <2>5 DEF Transacted
<1>5. \/ link = "up" /\ inTrans /\ store' = view
      \/ store' = store /\ (success' = FALSE \/ ~inTrans)
  BY <1>1 DEF Commit, Returns, TypeOK
<1> QED
  BY <1>3, <1>4, <1>5

-----------------------------------------------------------------------------
(* The database thread, and the connection                                 *)

LEMMA QuerySteps ==
  ASSUME Transacted, (\E q \in Queries : TakeLock(q)) \/ RunQuery \/ QueryFails \/ RepeatQuery
  PROVE  Transacted'
<1> USE DatabaseAssumption
<1>1. TypeOK /\ Holders /\ Open /\ Stored /\ RowsSaved
  BY DEF Transacted
<1>2. UNCHANGED <<job, pc, step, memory, success, torn, skipped>>
  BY DEF TakeLock, RunQuery, QueryFails, RepeatQuery, task, history
<1>3. CASE \E q \in Queries : TakeLock(q)
  <2>1. TypeOK' /\ Holders' /\ Open'
    BY <1>1, <1>2, <1>3 DEF TakeLock, server, TypeOK, Holders, Open
  <2>2. RowsSaved' /\ Stored'
    BY <1>1, <1>2, <1>3 DEF TakeLock, server, RowsSaved, Stored, Stage, First, At, Done,
                            PlayerWhole, HousesWhole, PurseHolds
  <2> QED
    BY <2>1, <2>2 DEF Transacted
<1>4. CASE QueryFails
  <2>1. TypeOK' /\ Holders' /\ Open'
    BY <1>1, <1>2, <1>4 DEF QueryFails, Ends, server, TypeOK, Holders, Open
  <2>2. RowsSaved' /\ Stored'
    BY <1>1, <1>2, <1>4 DEF QueryFails, server, RowsSaved, Stored, Stage, First, At, Done,
                            PlayerWhole, HousesWhole, PurseHolds
  <2> QED
    BY <2>1, <2>2 DEF Transacted
<1>5. CASE RunQuery /\ inTrans
  <2>1. /\ link = "up" /\ view \in Data /\ query \in Queries
        /\ view' = Logged(view) /\ UNCHANGED <<store, link, inTrans>>
        /\ query' = NoQuery /\ lock' = "free" /\ lock = "db"
    BY <1>1, <1>5 DEF RunQuery, Apply, Current, Ends, TypeOK, Holders
  <2>2. view' \in Data /\ view'.rows = view.rows /\ view'.from = view.from /\ view'.to = view.to
    BY <2>1, LoggedKeeps
  <2>3. TypeOK' /\ Holders' /\ Open'
    BY <1>1, <1>2, <2>1, <2>2 DEF TypeOK, Holders, Open
  <2>4. RowsSaved' /\ Stored'
    BY <1>1, <1>2, <2>1, <2>2 DEF RowsSaved, Stored, Stage, First, At, Done, PlayerWhole,
                                  HousesWhole, PurseHolds
  <2> QED
    BY <2>3, <2>4 DEF Transacted
<1>6. CASE (RunQuery \/ RepeatQuery) /\ ~inTrans
  <2>1. /\ query \in Queries /\ store' = Logged(store) /\ inTrans' = inTrans
        /\ query' \in {query, NoQuery} /\ lock = "db" /\ link' \in {"up", "lost"}
        /\ query' = NoQuery => lock' = "free"
        /\ query' = query => lock' = lock \/ query' = NoQuery
        /\ lock' \in {"db", "free"}
    BY <1>1, <1>6 DEF RunQuery, RepeatQuery, Apply, Current, Ends, Breaks, TypeOK, Holders
  <2>2. /\ store' \in Data /\ store'.rows = store.rows /\ store'.from = store.from
        /\ store'.to = store.to
    BY <1>1, <2>1, LoggedKeeps DEF TypeOK
  <2>3. TypeOK' /\ Holders' /\ Open'
    BY <1>1, <1>2, <1>6, <2>1, <2>2 DEF TypeOK, Holders, Open
  <2>4. RowsSaved' /\ Stored'
    BY <1>1, <1>2, <1>6, <2>1, <2>2 DEF RowsSaved, Stored, PlayerWhole, HousesWhole, PurseHolds
  <2> QED
    BY <2>3, <2>4 DEF Transacted
<1> QED
  BY <1>1, <1>3, <1>4, <1>5, <1>6 DEF RepeatQuery, TypeOK

LEMMA ConnectionSteps ==
  ASSUME Transacted, Lose \/ Reconnect
  PROVE  Transacted'
<1> USE DatabaseAssumption
<1>1. TypeOK /\ Holders /\ Open /\ Stored /\ RowsSaved
  BY DEF Transacted
<1>2. CASE Lose
  <2>1. TypeOK' /\ Holders' /\ Open' /\ RowsSaved'
    BY <1>1, <1>2 DEF Lose, Breaks, task, thread, history, TypeOK, Holders, Open, RowsSaved
  <2>2. Stored'
    BY <1>1, <1>2 DEF Lose, Breaks, task, thread, history, Stored, PlayerWhole, HousesWhole, PurseHolds
  <2> QED
    BY <2>1, <2>2 DEF Transacted
<1>3. CASE Reconnect
  <2>1. /\ link' = "up" /\ inTrans' = FALSE
        /\ UNCHANGED <<store, view, lock, job, pc, step, memory, success, query, skipped>>
        /\ torn' = (torn \/ pc \in {"gap", "statement"})
        /\ pc # "commit" \/ query # NoQuery
    BY <1>3 DEF Reconnect, Sending, task, thread
  <2>2. pc # "commit"
    BY <1>1, <2>1 DEF Holders
  <2>3. TypeOK' /\ Holders' /\ Open'
    BY <1>1, <2>1, <2>2 DEF TypeOK, Holders, Open
  <2>4. RowsSaved' /\ Stored'
    BY <1>1, <2>1 DEF RowsSaved, Stored, PlayerWhole, HousesWhole, PurseHolds, TypeOK
  <2> QED
    BY <2>3, <2>4 DEF Transacted
<1> QED
  BY <1>2, <1>3

-----------------------------------------------------------------------------
LEMMA NextTransacted == Transacted /\ [Next]_vars => Transacted'
<1> SUFFICES ASSUME Transacted, [Next]_vars PROVE Transacted'
  OBVIOUS
<1>1. CASE Next
  <2>1. \/ Play \/ SavePlayer \/ SaveHouses \/ GiveCoins
        \/ SavePrey \/ PreyStaysOld \/ CheckSave \/ BeginFails \/ LockTransaction \/ Rollback \/ RollbackUnlocked \/ Return
        \/ Begin \/ RunStatement \/ RepeatStatement \/ StatementFails \/ Commit
        \/ (\E q \in Queries : TakeLock(q)) \/ RunQuery \/ QueryFails \/ RepeatQuery
        \/ Lose \/ Reconnect
    BY <1>1 DEF Next, Operation, DatabaseThread
  <2> QED
    BY <2>1, IdleSteps, QuietSteps, SavePreyStep, BeginStep, RunStatementStep, RepeatStatementStep,
       StatementFailsStep, CommitStep, QuerySteps, ConnectionSteps
<1>2. CASE UNCHANGED vars
  BY <1>2 DEF vars, Transacted, TypeOK, Holders, Open, Stored, RowsSaved, Stage, First, At, Done,
              PlayerWhole, HousesWhole, PurseHolds
<1> QED
  BY <1>1, <1>2

-----------------------------------------------------------------------------
(* The prey data, which is written before the transaction                  *)

\* No statement of a transaction writes the prey data.
LEMMA EffectOnPrey ==
  ASSUME TypeOK, Holders, pc = "statement", NEW d \in Data
  PROVE  LET e == Effect(d, Script[job][step]) IN
         /\ e.prey = d.prey
         /\ \/ e.rows["players"] = d.rows["players"]
            \/ job = "player" /\ e.rows["players"] = Row(memory)
<1>1. memory \in Nat
  BY DatabaseAssumption DEF TypeOK
<1>2. CASE job = "player" /\ step \in 1..3
  BY <1>1, <1>2, PlayerEffects
<1>3. CASE job = "houses" /\ step \in 1..3
  BY <1>1, <1>3, HousesEffects
<1>4. CASE job = "coins" /\ step \in 1..2
  BY <1>4, CoinsEffects
<1> QED
  BY <1>2, <1>3, <1>4, TheStatement

LEMMA StatementOnPrey ==
  ASSUME TypeOK, Holders, pc = "statement", NEW d \in Data, PreyWritten(d)
  PROVE  LET e == Effect(d, Script[job][step]) IN
         /\ \A v \in 0..MaxVersion : e.rows["players"] = Row(v) =>
              v <= memory /\ ("prey" \notin skipped => v <= e.prey)
         /\ job = "player" /\ "prey" \notin skipped => e.prey = memory
<1> DEFINE e == Effect(d, Script[job][step])
<1>1. /\ e.prey = d.prey
      /\ \/ e.rows["players"] = d.rows["players"]
         \/ job = "player" /\ e.rows["players"] = Row(memory)
  BY EffectOnPrey
<1>2. job = "player" /\ "prey" \notin skipped => d.prey = memory
  BY DEF PreyWritten
<1>3. memory \in Nat /\ \A v \in 0..MaxVersion : Row(memory) = Row(v) => v = memory
  BY DatabaseAssumption DEF TypeOK, Row
<1> HIDE DEF e
<1>4. ASSUME NEW v \in 0..MaxVersion, e.rows["players"] = Row(v)
      PROVE  v <= memory /\ ("prey" \notin skipped => v <= e.prey)
  <2>1. CASE e.rows["players"] = d.rows["players"]
    BY <1>1, <1>4, <2>1 DEF PreyWritten
  <2>2. CASE job = "player" /\ e.rows["players"] = Row(memory)
    <3>1. Row(memory) = Row(v)
      BY <1>4, <2>2
    <3>2. v = memory
      BY <1>3, <3>1
    <3> QED
      BY <1>1, <1>2, <1>3, <2>2, <3>2
  <2> QED
    BY <1>1, <2>1, <2>2
<1> QED
  BY <1>1, <1>2, <1>4 DEF e

LEMMA InitPrey == Init => Prey
<1> SUFFICES ASSUME Init PROVE Prey
  OBVIOUS
<1>1. /\ store.prey = 0 /\ store.rows["players"] = Row(0)
      /\ memory = 0 /\ job = "none" /\ inTrans = FALSE
  BY DEF Init, Tables
<1>2. \A v \in 0..MaxVersion : Row(0) = Row(v) => v = 0
  BY DatabaseAssumption DEF Row
<1> QED
  BY <1>1, <1>2 DEF Prey, PreyWritten

LEMMA NextPrey == Transacted /\ Prey /\ [Next]_vars => Prey'
<1> SUFFICES ASSUME Transacted, Prey, [Next]_vars PROVE Prey'
  OBVIOUS
<1>1. /\ TypeOK /\ Holders /\ Open /\ memory \in Nat /\ memory \in 0..MaxVersion
      /\ PreyWritten(store)
      /\ link = "up" /\ inTrans => PreyWritten(view)
  BY DatabaseAssumption DEF Transacted, TypeOK, Prey
<1>2. CASE Play
  <2>1. /\ memory' = memory + 1 /\ job' # "player" /\ inTrans' = FALSE
        /\ UNCHANGED <<store, skipped>>
    BY <1>1, <1>2 DEF Play, server, history, Open, Holders, TypeOK
  <2>2. \A v \in 0..MaxVersion : v <= memory => v <= memory'
    BY <1>1, <2>1
  <2> QED
    BY <1>1, <2>1, <2>2 DEF Prey, PreyWritten
<1>3. CASE SavePlayer \/ SaveHouses \/ GiveCoins
  BY <1>1, <1>3 DEF SavePlayer, SaveHouses, GiveCoins, Starts, server, history, Open, Prey, PreyWritten
<1>4. CASE SavePrey
  <2>1. store'.prey = memory /\ store'.rows = store.rows
    BY <1>1, <1>4, PreyKeeps DEF SavePrey, TypeOK
  <2>2. inTrans' = FALSE /\ memory' = memory
    BY <1>1, <1>4 DEF SavePrey, Open, TypeOK
  <2> QED
    BY <1>1, <2>1, <2>2 DEF Prey, PreyWritten
<1>5. CASE PreyStaysOld
  <2>1. inTrans' = FALSE /\ UNCHANGED <<store, job, memory>>
    BY <1>1, <1>5 DEF PreyStaysOld, server, Open, TypeOK
  <2>2. CASE store.prey = memory
    BY <1>1, <2>1, <2>2 DEF Prey, PreyWritten
  <2>3. CASE store.prey # memory
    <3>1. "prey" \in skipped'
      BY <1>5, <2>3 DEF PreyStaysOld
    <3> QED
      BY <1>1, <2>1, <3>1 DEF Prey, PreyWritten
  <2> QED
    BY <2>2, <2>3
<1>6. CASE \/ CheckSave \/ BeginFails \/ LockTransaction \/ StatementFails \/ Rollback
           \/ RollbackUnlocked \/ Return
  <2>1. /\ UNCHANGED <<store, memory>>
        /\ link' = "up" /\ inTrans' => view' = view /\ link = "up" /\ inTrans
        /\ "prey" \in skipped => "prey" \in skipped'
        /\ job' = "player" => job = "player" /\ (pc # "prey" \/ pc' = "prey")
    BY <1>6 DEF CheckSave, BeginFails, LockTransaction, StatementFails, Rollback, RollbackUnlocked,
                Return, Returns, Closes, server, history
  <2> QED
    BY <1>1, <2>1 DEF Prey, PreyWritten
<1>7. CASE Begin
  <2>1. /\ store' = store /\ view' = store /\ UNCHANGED <<job, memory, skipped>>
        /\ pc # "prey"
    BY <1>1, <1>7 DEF Begin, Open, history
  <2> QED
    BY <1>1, <2>1 DEF Prey, PreyWritten
<1>8. CASE RunStatement
  <2>1. /\ pc = "statement" /\ link = "up" /\ UNCHANGED <<link, inTrans, job, memory, skipped>>
    BY <1>8 DEF RunStatement, CanSend, history
  <2>2. CASE inTrans
    <3>1. view \in Data /\ view' = Effect(view, Script[job][step]) /\ store' = store
      BY <1>1, <1>8, <2>1, <2>2 DEF RunStatement, Apply, Current, TypeOK
    <3>2. PreyWritten(view)'
      BY <1>1, <2>1, <2>2, <3>1, StatementOnPrey DEF PreyWritten
    <3> QED
      BY <1>1, <2>1, <3>1, <3>2 DEF Prey, PreyWritten
  <2>3. CASE ~inTrans
    <3>1. store \in Data /\ store' = Effect(store, Script[job][step])
      BY <1>1, <1>8, <2>1, <2>3 DEF RunStatement, Apply, Current, TypeOK
    <3>2. PreyWritten(store)'
      BY <1>1, <2>1, <3>1, StatementOnPrey DEF PreyWritten
    <3> QED
      BY <2>1, <2>3, <3>2 DEF Prey
  <2> QED
    BY <2>2, <2>3
<1>9. CASE RepeatStatement
  <2>1. /\ pc = "statement" /\ link' = "lost" /\ UNCHANGED <<pc, job, memory, skipped>>
        /\ store \in Data /\ store' = Effect(store, Script[job][step])
    BY <1>1, <1>9 DEF RepeatStatement, Breaks, task, history, TypeOK
  <2>2. PreyWritten(store)'
    BY <1>1, <2>1, StatementOnPrey DEF PreyWritten
  <2> QED
    BY <2>1, <2>2 DEF Prey
<1>10. CASE Commit
  <2>1. /\ store' = store \/ (store' = view /\ link = "up" /\ inTrans)
        /\ inTrans' = FALSE /\ pc = "commit" /\ UNCHANGED <<job, memory, skipped>>
    BY <1>1, <1>10 DEF Commit, Closes, Returns, history, TypeOK
  <2> QED
    BY <1>1, <2>1 DEF Prey, PreyWritten
<1>11. CASE (\E q \in Queries : TakeLock(q)) \/ QueryFails \/ Lose \/ Reconnect
  <2>1. /\ UNCHANGED <<store, job, pc, memory, skipped>>
        /\ link' = "up" /\ inTrans' => view' = view /\ link = "up" /\ inTrans
    BY <1>11 DEF TakeLock, QueryFails, Lose, Reconnect, Breaks, server, task, history
  <2> QED
    BY <1>1, <2>1 DEF Prey, PreyWritten
<1>12. CASE RunQuery \/ RepeatQuery
  <2>1. /\ query \in Queries /\ link = "up" /\ UNCHANGED <<job, pc, memory, skipped, inTrans>>
        /\ store \in Data
    BY <1>1, <1>12 DEF RunQuery, RepeatQuery, task, history, TypeOK
  <2>2. CASE inTrans
    <3>1. view \in Data /\ view' = Logged(view) /\ store' = store
      BY <1>1, <1>12, <2>1, <2>2 DEF RunQuery, RepeatQuery, Apply, Current, TypeOK
    <3>2. view'.rows = view.rows /\ view'.prey = view.prey
      BY <2>1, <3>1, LoggedKeeps
    <3> QED
      BY <1>1, <2>1, <2>2, <3>1, <3>2 DEF Prey, PreyWritten
  <2>3. CASE ~inTrans
    <3>1. store' = Logged(store)
      BY <1>12, <2>1, <2>3 DEF RunQuery, RepeatQuery, Apply, Current
    <3>2. store'.rows = store.rows /\ store'.prey = store.prey
      BY <2>1, <3>1, LoggedKeeps
    <3> QED
      BY <1>1, <2>1, <2>3, <3>2 DEF Prey, PreyWritten
  <2> QED
    BY <2>2, <2>3
<1>13. CASE UNCHANGED vars
  BY <1>1, <1>13 DEF vars, Prey, PreyWritten
<1> QED
  BY <1>2, <1>3, <1>4, <1>5, <1>6, <1>7, <1>8, <1>9, <1>10, <1>11, <1>12, <1>13
     DEF Next, Operation, DatabaseThread

-----------------------------------------------------------------------------
LEMMA InitInv == Init => IInv
  BY InitTransacted, InitPrey DEF IInv

LEMMA NextInv == IInv /\ [Next]_vars => IInv'
  BY NextTransacted, NextPrey DEF IInv

LEMMA InductiveInv == Spec => []IInv
  BY InitInv, NextInv, PTL DEF Spec

-----------------------------------------------------------------------------
\* A crash finds a player's row and the tables of his transaction of one version, and the
\* houses and their lists (SavedWhole): the statements of a save are in one transaction, and
\* the one connection is held from the first statement to the commit.  The prey data, which
\* savePlayer writes before it begins, is found no older than the row, unless its write
\* failed: a later save writes the later version, and writes it first.
THEOREM ASaveIsWhole == Spec => []SavedWhole
<1>1. IInv => SavedWhole
  <2> SUFFICES ASSUME IInv PROVE SavedWhole
    OBVIOUS
  <2>1. ~torn => PlayerWhole(store) /\ HousesWhole(store)
    BY DEF IInv, Transacted, Stored
  <2>2. ~torn => Whole({"players", "items"}) /\ ("houses" \notin skipped => Whole({"houses", "lists"}))
    BY <2>1 DEF PlayerWhole, HousesWhole, Whole
  <2>3. PreyWritten(store)
    BY DEF IInv, Prey
  <2> QED
    BY <2>2, <2>3 DEF SavedWhole, PreyWritten
<1> QED
  BY <1>1, InductiveInv, PTL

\* A save that returns true has written what was in memory, but for the prey data when its
\* write, whose result savePlayer ignores, failed.
THEOREM SuccessMeansSaved == Spec => []SuccessIsSaved
<1>1. IInv => SuccessIsSaved
  BY DEF IInv, Transacted, RowsSaved, Prey, PreyWritten, SuccessIsSaved
<1> QED
  BY <1>1, InductiveInv, PTL

\* A transfer makes no coins and loses none, wherever it stops.
THEOREM CoinsAreKept == Spec => []CoinsKept
<1>1. IInv => CoinsKept
  BY DEF IInv, Transacted, Stored, PurseHolds, CoinsKept
<1> QED
  BY <1>1, InductiveInv, PTL

-----------------------------------------------------------------------------
(* The queries of the database thread                                      *)

LEMMA InitTally == Init => Tally
<1> SUFFICES ASSUME Init PROVE Tally
  OBVIOUS
<1>1. \A q \in Queries : store.log[q] = 0
  <2>1. store = [rows |-> [t \in Tables |-> Row(0)], prey |-> 0,
                 from |-> Coins, to |-> 0, log |-> [q \in Queries |-> 0]]
    BY DEF Init
  <2>2. store.log = [q \in Queries |-> 0]
    BY <2>1
  <2> QED
    BY <2>2
<1>2. inTrans = FALSE /\ query = NoQuery /\ answered = {} /\ asked = {}
  BY DEF Init
<1> QED
  BY <1>1, <1>2 DEF Tally

LEMMA NextTally == IInv /\ Tally /\ [Next]_vars => Tally'
<1> SUFFICES ASSUME IInv, Tally, [Next]_vars PROVE Tally'
  OBVIOUS
<1>1. /\ TypeOK /\ Holders /\ Open
      /\ store.log \in [Queries -> Nat]
      /\ link = "up" /\ inTrans => view.log \in [Queries -> Nat]
  BY DEF IInv, Transacted, TypeOK, Data
<1>2. CASE UNCHANGED <<store, view, link, inTrans, thread>>
  BY <1>2 DEF thread, Tally
<1>3. CASE Begin
  BY <1>1, <1>3 DEF Begin, CanSend, Open, thread, Tally
<1>31. CASE SavePrey
  <2>1. store'.log = store.log /\ UNCHANGED <<view, link, inTrans, thread>>
    BY <1>1, <1>31, PreyKeeps DEF SavePrey, TypeOK
  <2> QED
    BY <1>1, <2>1 DEF thread, Tally
<1>4. CASE RunStatement
  <2>1. /\ inTrans => view'.log = view.log /\ store' = store
        /\ ~inTrans => store'.log = store.log
        /\ link = "up" /\ UNCHANGED <<link, inTrans, thread>>
    BY <1>1, <1>4, EffectType DEF RunStatement, CanSend, Apply, Current, TypeOK
  <2> QED
    BY <1>1, <2>1 DEF thread, Tally
<1>5. CASE RepeatStatement
  <2>1. store'.log = store.log /\ link' = "lost" /\ UNCHANGED <<inTrans, thread>>
    BY <1>1, <1>5, EffectType DEF RepeatStatement, Breaks, TypeOK
  <2> QED
    BY <2>1 DEF thread, Tally
<1>6. CASE Commit
  <2>1. /\ store' = store \/ (link = "up" /\ inTrans /\ store' = view)
        /\ inTrans' = FALSE /\ UNCHANGED thread
    BY <1>1, <1>6 DEF Commit, Closes, TypeOK
  <2> QED
    BY <1>1, <2>1 DEF thread, Tally
<1>7. CASE Rollback
  BY <1>7 DEF Rollback, Closes, thread, Tally
<1>8. CASE \E q \in Queries : TakeLock(q)
  BY <1>8 DEF TakeLock, server, Tally
<1>9. CASE QueryFails
  <2>1. /\ query \in Queries /\ asked' = asked \cup {query} /\ query' = NoQuery
        /\ UNCHANGED <<store, view, link, inTrans, answered, slipped, repeated>>
    BY <1>1, <1>9 DEF QueryFails, Ends, server, TypeOK
  <2> QED
    BY <2>1 DEF Tally
<1>10. CASE RunQuery
  <2>1. /\ query \in Queries /\ asked' = asked \cup {query} /\ query' = NoQuery
        /\ answered' = answered \cup {query} /\ UNCHANGED <<link, inTrans, repeated>> /\ link = "up"
        /\ slipped \subseteq slipped'
        /\ inTrans => query \in slipped'
    BY <1>1, <1>10 DEF RunQuery, Ends, TypeOK, Holders, Open
  <2>2. query \notin asked /\ query \notin answered
    BY <2>1, DatabaseAssumption DEF Tally
  <2>3. CASE inTrans
    <3>1. store' = store /\ view' = Logged(view) /\ view \in Data
      BY <1>1, <1>10, <2>3 DEF RunQuery, Apply, Current, TypeOK
    <3>2. /\ view'.log[query] = view.log[query] + 1
          /\ \A q \in Queries \ {query} : view'.log[q] = view.log[q]
      BY <2>1, <3>1, LoggedCounts
    <3>3. ASSUME NEW q \in Queries
          PROVE  /\ q \notin asked' \cup repeated' => store'.log[q] = 0
                 /\ q \notin repeated' => store'.log[q] <= 1
                 /\ q \in answered' \ slipped' => store'.log[q] >= 1
                 /\ link' = "up" /\ inTrans' =>
                      /\ q \notin asked' \cup repeated' => view'.log[q] = 0
                      /\ q \notin repeated' => view'.log[q] <= 1
                      /\ store'.log[q] <= view'.log[q]
      <4>1. /\ q \notin asked \cup repeated => store.log[q] = 0
            /\ q \notin repeated => store.log[q] <= 1
            /\ q \in answered \ slipped => store.log[q] >= 1
            /\ inTrans => /\ q \notin asked \cup repeated => view.log[q] = 0
                          /\ q \notin repeated => view.log[q] <= 1
                          /\ store.log[q] <= view.log[q]
        BY <2>1 DEF Tally
      <4>2. /\ link' = link /\ link = "up" /\ inTrans' = inTrans
            /\ q \in repeated' <=> q \in repeated
            /\ store.log[q] \in Nat
            /\ inTrans => view.log[q] \in Nat
        BY <1>1, <2>1
      <4>3. CASE q = query
        <5>1. q \in asked' /\ q \notin asked /\ (inTrans => q \in slipped')
          BY <2>1, <2>2, <4>3
        <5> QED
          BY <2>3, <3>1, <3>2, <4>1, <4>2, <4>3, <5>1
      <4>4. CASE q # query
        <5>1. /\ q \in asked' <=> q \in asked
              /\ q \in answered' <=> q \in answered
              /\ q \in slipped => q \in slipped'
          BY <2>1, <4>4
        <5> QED
          BY <2>3, <3>1, <3>2, <4>1, <4>2, <4>4, <5>1
      <4> QED
        BY <4>3, <4>4
    <3>4. /\ query' # NoQuery => query' \notin asked'
          /\ answered' \subseteq asked' /\ asked' \subseteq Queries
      BY <2>1 DEF Tally
    <3> QED
      BY <3>3, <3>4 DEF Tally
  <2>4. CASE ~inTrans
    <3>1. store' = Logged(store) /\ store \in Data
      BY <1>1, <1>10, <2>4 DEF RunQuery, Apply, Current, TypeOK
    <3>2. /\ store'.log[query] = store.log[query] + 1
          /\ \A q \in Queries \ {query} : store'.log[q] = store.log[q]
      BY <2>1, <3>1, LoggedCounts
    <3>3. ASSUME NEW q \in Queries
          PROVE  /\ q \notin asked' \cup repeated' => store'.log[q] = 0
                 /\ q \notin repeated' => store'.log[q] <= 1
                 /\ q \in answered' \ slipped' => store'.log[q] >= 1
                 /\ link' = "up" /\ inTrans' =>
                      /\ q \notin asked' \cup repeated' => view'.log[q] = 0
                      /\ q \notin repeated' => view'.log[q] <= 1
                      /\ store'.log[q] <= view'.log[q]
      <4>1. /\ q \notin asked \cup repeated => store.log[q] = 0
            /\ q \notin repeated => store.log[q] <= 1
            /\ q \in answered \ slipped => store.log[q] >= 1
            /\ inTrans => /\ q \notin asked \cup repeated => view.log[q] = 0
                          /\ q \notin repeated => view.log[q] <= 1
                          /\ store.log[q] <= view.log[q]
        BY <2>1 DEF Tally
      <4>2. /\ link' = link /\ link = "up" /\ inTrans' = inTrans
            /\ q \in repeated' <=> q \in repeated
            /\ store.log[q] \in Nat
            /\ inTrans => view.log[q] \in Nat
        BY <1>1, <2>1
      <4>3. CASE q = query
        <5>1. q \in asked' /\ q \notin asked /\ (inTrans => q \in slipped')
          BY <2>1, <2>2, <4>3
        <5> QED
          BY <2>4, <3>1, <3>2, <4>1, <4>2, <4>3, <5>1
      <4>4. CASE q # query
        <5>1. /\ q \in asked' <=> q \in asked
              /\ q \in answered' <=> q \in answered
              /\ q \in slipped => q \in slipped'
          BY <2>1, <4>4
        <5> QED
          BY <2>4, <3>1, <3>2, <4>1, <4>2, <4>4, <5>1
      <4> QED
        BY <4>3, <4>4
    <3>4. /\ query' # NoQuery => query' \notin asked'
          /\ answered' \subseteq asked' /\ asked' \subseteq Queries
      BY <2>1 DEF Tally
    <3> QED
      BY <3>3, <3>4 DEF Tally
  <2> QED
    BY <2>3, <2>4
<1>11. CASE RepeatQuery
  <2>1. /\ query \in Queries /\ store' = Logged(store) /\ store \in Data /\ link' = "lost"
        /\ repeated' = repeated \cup {query} /\ UNCHANGED <<query, answered, asked, slipped>>
    BY <1>1, <1>11 DEF RepeatQuery, Breaks, TypeOK
  <2>2. /\ store'.log[query] = store.log[query] + 1
        /\ \A q \in Queries \ {query} : store'.log[q] = store.log[q]
    BY <2>1, LoggedCounts
  <2> QED
    BY <1>1, <2>1, <2>2 DEF Tally
<1>12. CASE Lose \/ Reconnect
  <2>1. store' = store /\ UNCHANGED thread /\ (link' = "lost" \/ inTrans' = FALSE)
    BY <1>12 DEF Lose, Reconnect, Breaks
  <2> QED
    BY <2>1 DEF thread, Tally
<1> QED
  <2>1. CASE Next
    <3>1. \/ SavePrey \/ Begin \/ RunStatement \/ RepeatStatement \/ Commit \/ Rollback
          \/ (\E q \in Queries : TakeLock(q)) \/ QueryFails \/ RunQuery \/ RepeatQuery
          \/ Lose \/ Reconnect
          \/ UNCHANGED <<store, view, link, inTrans, thread>>
      BY <2>1 DEF Next, Operation, DatabaseThread, Play, SavePlayer, SaveHouses, GiveCoins, Starts,
                  PreyStaysOld, CheckSave, BeginFails, LockTransaction, StatementFails, RollbackUnlocked,
                  Return, server
    <3> QED
      BY <3>1, <1>2, <1>3, <1>31, <1>4, <1>5, <1>6, <1>7, <1>8, <1>9, <1>10, <1>11, <1>12
  <2>2. CASE UNCHANGED vars
    BY <1>2, <2>2 DEF vars, thread
  <2> QED
    BY <2>1, <2>2

\* What the database thread was told is done is in store, once, but for the queries that
\* slipped into the dispatcher's transaction or were sent again.
THEOREM AnsweredIsStored == Spec => []AnswersHold
<1>1. IInv /\ Tally => AnswersHold
  BY DEF IInv, Transacted, TypeOK, Tally, AnswersHold
<1>2. Init => IInv /\ Tally
  BY InitInv, InitTally
<1>3. (IInv /\ Tally) /\ [Next]_vars => (IInv /\ Tally)'
  BY NextInv, NextTally
<1> QED
  BY <1>1, <1>2, <1>3, PTL DEF Spec

-----------------------------------------------------------------------------
(* Sums of a function over a finite set, by counting pairs                 *)

Pairs(f, S) == UNION {{x} \X (1..f[x]) : x \in S}

LEMMA RowFinite ==
  ASSUME NEW x, NEW n \in Nat
  PROVE  IsFiniteSet({x} \X (1..n)) /\ Cardinality({x} \X (1..n)) = n
<1>1. IsFiniteSet({x}) /\ Cardinality({x}) = 1
  BY FS_Singleton
<1>2. IsFiniteSet(1..n) /\ Cardinality(1..n) = n
  BY FS_Interval
<1>3. /\ IsFiniteSet({x} \X (1..n))
      /\ Cardinality({x} \X (1..n)) = Cardinality({x}) * Cardinality(1..n)
  BY <1>1, <1>2, FS_Product
<1> QED
  BY <1>1, <1>2, <1>3

LEMMA PairsFinite ==
  ASSUME NEW S, IsFiniteSet(S), NEW f, \A x \in S : f[x] \in Nat
  PROVE  IsFiniteSet(Pairs(f, S))
<1> DEFINE Line(x) == {x} \X (1..f[x])
           Lines == {Line(x) : x \in S}
           h == [x \in S |-> Line(x)]
<1>1. h \in Surjection(S, Lines)
  BY DEF Surjection
<1>2. IsFiniteSet(Lines)
  BY <1>1, FS_Surjection
<1>3. ASSUME NEW x \in S PROVE IsFiniteSet(Line(x))
  BY RowFinite
<1>4. \A R \in Lines : IsFiniteSet(R)
  BY <1>3
<1> QED
  BY <1>2, <1>4, FS_UNION DEF Pairs

LEMMA PairsRemove ==
  ASSUME NEW S, IsFiniteSet(S), NEW f, \A x \in S : f[x] \in Nat, NEW x \in S
  PROVE  /\ Cardinality(Pairs(f, S \ {x})) \in Nat
         /\ Cardinality(Pairs(f, S)) = f[x] + Cardinality(Pairs(f, S \ {x}))
<1> DEFINE Line == {x} \X (1..f[x])
           Rest == Pairs(f, S \ {x})
<1>1. IsFiniteSet(S \ {x})
  BY FS_RemoveElement
<1>2. IsFiniteSet(Rest)
  BY <1>1, PairsFinite
<1>3. IsFiniteSet(Line) /\ Cardinality(Line) = f[x]
  BY RowFinite
<1>4. Pairs(f, S) = Line \cup Rest
  BY DEF Pairs
<1>5. Line \cap Rest = {}
  BY DEF Pairs
<1>6. Cardinality(Line \cap Rest) = 0
  BY <1>5, FS_EmptySet
<1>7. Cardinality(Rest) \in Nat
  BY <1>2, FS_CardinalityType
<1> HIDE DEF Line, Rest
<1>8. Cardinality(Line \cup Rest) = Cardinality(Line) + Cardinality(Rest) - Cardinality(Line \cap Rest)
  BY <1>2, <1>3, FS_Union
<1> QED
  BY <1>3, <1>4, <1>6, <1>7, <1>8 DEF Rest

LEMMA SumIsCount ==
  ASSUME NEW S, IsFiniteSet(S), NEW f, \A x \in S : f[x] \in Nat
  PROVE  SumFunctionOnSet(f, S) = Cardinality(Pairs(f, S))
<1> DEFINE ch(T) == CHOOSE x \in T : TRUE
           Rec(g) == g = [T \in SUBSET S |->
                            IF T = {} THEN 0 ELSE f[ch(T)] + g[T \ {ch(T)}]]
           G == [T \in SUBSET S |-> Cardinality(Pairs(f, T))]
<1>1. Rec(G)
  <2> SUFFICES ASSUME NEW T \in SUBSET S
               PROVE  G[T] = IF T = {} THEN 0 ELSE f[ch(T)] + G[T \ {ch(T)}]
    OBVIOUS
  <2>1. CASE T = {}
    <3>1. Pairs(f, T) = {}
      BY <2>1 DEF Pairs
    <3> QED
      BY <2>1, <3>1, FS_EmptySet
  <2>2. CASE T # {}
    <3>1. ch(T) \in T
      BY <2>2
    <3>2. IsFiniteSet(T)
      BY FS_Subset
    <3>3. Cardinality(Pairs(f, T)) = f[ch(T)] + Cardinality(Pairs(f, T \ {ch(T)}))
      BY <3>1, <3>2, PairsRemove
    <3> QED
      BY <2>2, <3>1, <3>3
  <2> QED
    BY <2>1, <2>2
<1>2. ASSUME NEW g, Rec(g) PROVE g[S] = G[S]
  <2> DEFINE Bad == {T \in SUBSET S : g[T] # G[T]}
  <2>1. SUFFICES ASSUME Bad # {} PROVE FALSE
    OBVIOUS
  <2>2. IsWellFoundedOn(StrictSubsetOrdering(S), SUBSET S)
    BY FS_StrictSubsetOrderingWellFounded, FS_FiniteSubsetsOfFinite
  <2>3. PICK T \in Bad : \A U \in Bad : ~(<<U, T>> \in StrictSubsetOrdering(S))
    BY <2>1, <2>2, WFMin
  <2>4. g[T] = IF T = {} THEN 0 ELSE f[ch(T)] + g[T \ {ch(T)}]
    BY <1>2
  <2>5. G[T] = IF T = {} THEN 0 ELSE f[ch(T)] + G[T \ {ch(T)}]
    BY <1>1
  <2>6. T # {} => ch(T) \in T
    OBVIOUS
  <2>7. T # {} => <<T \ {ch(T)}, T>> \in StrictSubsetOrdering(S)
    BY <2>6 DEF StrictSubsetOrdering
  <2>8. T # {} => g[T \ {ch(T)}] = G[T \ {ch(T)}]
    BY <2>3, <2>7
  <2> QED
    BY <2>3, <2>4, <2>5, <2>8
<1>3. SumFunctionOnSet(f, S) = (CHOOSE g : Rec(g))[S]
  BY DEF SumFunctionOnSet, FoldFunctionOnSet, MapThenFoldSet
<1>4. Rec(CHOOSE g : Rec(g))
  BY <1>1
<1> QED
  BY <1>2, <1>3, <1>4

\* The sum of no element, and of one more.
LEMMA SumEmpty ==
  ASSUME NEW f PROVE SumFunctionOnSet(f, {}) = 0
<1>1. Pairs(f, {}) = {}
  BY DEF Pairs
<1> QED
  BY <1>1, FS_EmptySet, SumIsCount

LEMMA SumNat ==
  ASSUME NEW S, IsFiniteSet(S), NEW f, \A x \in S : f[x] \in Nat
  PROVE  SumFunctionOnSet(f, S) \in Nat
BY SumIsCount, PairsFinite, FS_CardinalityType

LEMMA SumOut ==
  ASSUME NEW S, IsFiniteSet(S), NEW f, \A x \in S : f[x] \in Nat, NEW x \in S
  PROVE  /\ SumFunctionOnSet(f, S \ {x}) \in Nat
         /\ SumFunctionOnSet(f, S) = f[x] + SumFunctionOnSet(f, S \ {x})
<1>1. IsFiniteSet(S \ {x})
  BY FS_RemoveElement
<1>2. SumFunctionOnSet(f, S \ {x}) = Cardinality(Pairs(f, S \ {x}))
  BY <1>1, SumIsCount
<1> QED
  BY <1>2, SumIsCount, PairsRemove

\* Two functions that agree on the set have the same sum.
LEMMA SumSame ==
  ASSUME NEW S, IsFiniteSet(S), NEW f, NEW g, \A x \in S : f[x] \in Nat /\ f[x] = g[x]
  PROVE  SumFunctionOnSet(f, S) = SumFunctionOnSet(g, S)
<1>1. Pairs(f, S) = Pairs(g, S)
  BY DEF Pairs
<1> QED
  BY <1>1, SumIsCount

\* They differ by what they differ by at one element.
LEMMA SumChange ==
  ASSUME NEW S, IsFiniteSet(S), NEW f, NEW g, NEW x \in S,
         \A y \in S : f[y] \in Nat /\ g[y] \in Nat,
         \A y \in S \ {x} : f[y] = g[y]
  PROVE  SumFunctionOnSet(g, S) = SumFunctionOnSet(f, S) + (g[x] - f[x])
<1>1. IsFiniteSet(S \ {x})
  BY FS_RemoveElement
<1>2. SumFunctionOnSet(f, S \ {x}) = SumFunctionOnSet(g, S \ {x})
  BY <1>1, SumSame
<1>3. /\ SumFunctionOnSet(f, S \ {x}) \in Nat
      /\ SumFunctionOnSet(f, S) = f[x] + SumFunctionOnSet(f, S \ {x})
  BY SumOut
<1>4. SumFunctionOnSet(g, S) = g[x] + SumFunctionOnSet(g, S \ {x})
  BY SumOut
<1> QED
  BY <1>2, <1>3, <1>4

\* A set falls into two parts.
LEMMA SumSplit ==
  ASSUME NEW S, IsFiniteSet(S), NEW f, \A x \in S : f[x] \in Nat, NEW T \in SUBSET S
  PROVE  /\ SumFunctionOnSet(f, T) \in Nat
         /\ SumFunctionOnSet(f, S) = SumFunctionOnSet(f, T) + SumFunctionOnSet(f, S \ T)
<1>1. IsFiniteSet(T) /\ IsFiniteSet(S \ T)
  BY FS_Subset, FS_Difference
<1> DEFINE A == Pairs(f, T)
           B == Pairs(f, S \ T)
<1>2. IsFiniteSet(A) /\ IsFiniteSet(B)
  BY <1>1, PairsFinite
<1>3. Pairs(f, S) = A \cup B /\ A \cap B = {}
  BY DEF Pairs
<1>4. SumFunctionOnSet(f, T) = Cardinality(A) /\ SumFunctionOnSet(f, S \ T) = Cardinality(B)
  BY <1>1, SumIsCount
<1> HIDE DEF A, B
<1>5. Cardinality(A \cup B) = Cardinality(A) + Cardinality(B) - Cardinality(A \cap B)
  BY <1>2, FS_Union
<1>6. Cardinality(A) \in Nat /\ Cardinality(B) \in Nat /\ Cardinality(A \cap B) = 0
  BY <1>2, <1>3, FS_CardinalityType, FS_EmptySet
<1>7. SumFunctionOnSet(f, S) = Cardinality(A \cup B)
  BY <1>3, SumIsCount
<1> QED
  BY <1>4, <1>5, <1>6, <1>7

\* A sum of nothing but zeros.
LEMMA SumZero ==
  ASSUME NEW S, IsFiniteSet(S), NEW f, \A x \in S : f[x] = 0
  PROVE  SumFunctionOnSet(f, S) = 0
<1>1. Pairs(f, S) = {}
  BY DEF Pairs
<1> QED
  BY <1>1, FS_EmptySet, SumIsCount

-----------------------------------------------------------------------------
(* The containers around an item                                           *)

\* What the code walks outwards: the set is closed, and there is none smaller.
LEMMA AroundLeast ==
  ASSUME NEW v, NEW i, NEW A \in SUBSET Bags, Closed(v, i, A)
  PROVE  Around(v, i) \subseteq A
BY DEF Around

LEMMA AroundClosed ==
  ASSUME NEW v, NEW i
  PROVE  Around(v, i) \subseteq Bags /\ Closed(v, i, Around(v, i))
BY DEF Around, Closed

\* What is around a container around an item is around the item.
LEMMA AroundTransitive ==
  ASSUME NEW v, NEW i, NEW b \in Around(v, i)
  PROVE  Around(v, b) \subseteq Around(v, i)
<1>1. Closed(v, b, Around(v, i))
  BY AroundClosed DEF Closed
<1> QED
  BY <1>1, AroundLeast, AroundClosed

\* One step outwards.
LEMMA AroundStep ==
  ASSUME NEW v, NEW i
  PROVE  Around(v, i) = IF v.in[i] \in Bags THEN {v.in[i]} \cup Around(v, v.in[i]) ELSE {}
<1>1. CASE v.in[i] \in Bags
  <2> DEFINE A == {v.in[i]} \cup Around(v, v.in[i])
  <2>1. Closed(v, i, A) /\ A \subseteq Bags
    BY <1>1, AroundClosed DEF Closed
  <2>2. v.in[i] \in Around(v, i)
    BY <1>1, AroundClosed DEF Closed
  <2> QED
    BY <1>1, <2>1, <2>2, AroundLeast, AroundTransitive
<1>2. CASE v.in[i] \notin Bags
  <2>1. Closed(v, i, {})
    BY <1>2 DEF Closed
  <2> QED
    BY <1>2, <2>1, AroundLeast
<1> QED
  BY <1>1, <1>2

\* Each container around an item holds the item or another one around it.
LEMMA AroundHolds ==
  ASSUME NEW v, NEW i, NEW b \in Around(v, i)
  PROVE  \E j \in Around(v, i) \cup {i} : v.in[j] = b
<1> SUFFICES ASSUME \A j \in Around(v, i) \cup {i} : v.in[j] # b
             PROVE  FALSE
  OBVIOUS
<1>1. Closed(v, i, Around(v, i) \ {b})
  BY AroundClosed DEF Closed
<1> QED
  BY <1>1, AroundLeast, AroundClosed

\* They lie in each other.
LEMMA AroundLinear ==
  ASSUME NEW v, NEW i, NEW a \in Around(v, i), NEW b \in Around(v, i)
  PROVE  a = b \/ a \in Around(v, b) \/ b \in Around(v, a)
<1> DEFINE A == {x \in Around(v, i) : x = a \/ x \in Around(v, a) \/ a \in Around(v, x)}
<1>1. A \subseteq Bags
  BY AroundClosed
<1>2. ASSUME NEW j \in A \cup {i}, v.in[j] \in Bags
      PROVE  v.in[j] \in A
  <2>1. v.in[j] \in Around(v, i)
    BY <1>2, AroundClosed DEF Closed
  <2>2. Around(v, j) = {v.in[j]} \cup Around(v, v.in[j])
    BY <1>2, AroundStep
  <2>3. CASE j = a \/ a \in Around(v, j)
    BY <2>1, <2>2, <2>3
  <2>4. CASE j \in Around(v, a)
    BY <1>2, <2>1, <2>4, AroundClosed DEF Closed
  <2> QED
    BY <1>2, <2>3, <2>4
<1>3. Closed(v, i, A)
  BY <1>2 DEF Closed
<1> QED
  BY <1>1, <1>3, AroundLeast

\* No container is inside itself.
Acyclic(v) == \A b \in Bags : b \notin Around(v, b)

\* On the way outwards there is one item in each container.
LEMMA AroundUnique ==
  ASSUME NEW v, NEW c \in Bags, Acyclic(v),
         NEW a \in Around(v, c) \cup {c}, NEW b \in Around(v, c) \cup {c},
         v.in[a] \in Bags, v.in[a] = v.in[b]
  PROVE  a = b
<1>1. a \in Bags /\ b \in Bags
  BY AroundClosed
<1>2. Around(v, a) = {v.in[a]} \cup Around(v, v.in[a]) /\ Around(v, b) = Around(v, a)
  BY AroundStep
<1>3. a = b \/ a \in Around(v, b) \/ b \in Around(v, a)
  BY AroundLinear
<1> QED
  BY <1>1, <1>2, <1>3 DEF Acyclic

\* What is around an item depends on nothing but what holds it and those around it.
LEMMA AroundAgree ==
  ASSUME NEW v, NEW u, NEW i, \A j \in Around(v, i) \cup {i} : u.in[j] = v.in[j]
  PROVE  Around(u, i) = Around(v, i)
<1>1. Around(u, i) \subseteq Around(v, i)
  BY AroundClosed, AroundLeast DEF Closed
<1>2. Closed(v, i, Around(u, i))
  BY <1>1, AroundClosed DEF Closed
<1> QED
  BY <1>1, <1>2, AroundLeast, AroundClosed

LEMMA CarriedAgree ==
  ASSUME NEW v, NEW u, NEW i, \A j \in Around(v, i) \cup {i} : u.in[j] = v.in[j]
  PROVE  Carried(u, i) <=> Carried(v, i)
BY AroundAgree DEF Carried

-----------------------------------------------------------------------------
(* Worlds                                                                  *)

Worlds == [in : [Items -> Places], count : [Items -> Nat], total : [Bags -> Nat], burden : Nat]

Weighed(v) == \A b \in Bags : v.total[b] = SumFunctionOnSet(Weights(v), Content(v, b))

LEMMA PlacesApart ==
  /\ "nowhere" \notin Bags /\ "tile" \notin Bags /\ "nowhere" \notin Slots /\ "tile" \notin Slots
  /\ "player" \notin Bags /\ "player" \notin Slots
  /\ Bags \subseteq Items /\ Bags \cap Slots = {} /\ Bags \cap Stacks = {}
  /\ \A i \in Items : i \notin {"wherever", "index", "empty", "tile", "nowhere", "player"}
BY ItemsAssumption DEF Words, Slots

LEMMA ContentFinite ==
  ASSUME NEW v, NEW c
  PROVE  IsFiniteSet(Content(v, c))
BY ItemsAssumption, FS_Subset DEF Content

LEMMA WeightNat ==
  ASSUME NEW v \in Worlds, NEW i \in Items
  PROVE  Weight(v, i) \in Nat /\ Weights(v)[i] = Weight(v, i)
<1>1. weight[i] \in Nat /\ v.count[i] \in Nat /\ (i \in Bags => v.total[i] \in Nat)
  BY ItemsAssumption DEF Worlds
<1>2. weight[i] * (IF v.count[i] > 1 THEN v.count[i] ELSE 1) \in Nat
  BY <1>1
<1> QED
  BY <1>1, <1>2 DEF Weight, Weights

\* The sum of the weights in a container, or anywhere.
LEMMA WeightsSum ==
  ASSUME NEW v \in Worlds, NEW S \in SUBSET Items
  PROVE  /\ IsFiniteSet(S)
         /\ \A i \in S : Weights(v)[i] \in Nat
         /\ SumFunctionOnSet(Weights(v), S) \in Nat
<1>1. IsFiniteSet(S)
  BY ItemsAssumption, FS_Subset
<1>2. \A i \in S : Weights(v)[i] \in Nat
  BY WeightNat
<1> QED
  BY <1>1, <1>2, SumNat

LEMMA LoadsIs ==
  ASSUME NEW v \in Worlds, NEW c, NEW d \in Int
  PROVE  Loads(v, c, d) =
           [in |-> v.in, count |-> v.count, burden |-> v.burden,
            total |-> [b \in Bags |-> IF c \in Bags /\ (b = c \/ b \in Around(v, c))
                                      THEN v.total[b] + d ELSE v.total[b]]]
BY DEF Loads, Heavier, Worlds

\* What lies in a container weighs no more than any container around it.
LEMMA TotalAtLeast ==
  ASSUME NEW v \in Worlds, Weighed(v), NEW i \in Items, v.in[i] \in Bags
  PROVE  \A b \in Around(v, i) : v.total[b] >= Weight(v, i)
<1>1. ASSUME NEW j \in Items, v.in[j] \in Bags
      PROVE  v.total[v.in[j]] >= Weight(v, j)
  <2> DEFINE C == Content(v, v.in[j])
             rest == SumFunctionOnSet(Weights(v), C \ {j})
  <2>1. j \in C /\ C \subseteq Items
    BY DEF Content
  <2>2. \A k \in C : Weights(v)[k] \in Nat
    BY <2>1, WeightNat
  <2>3. rest \in Nat /\ SumFunctionOnSet(Weights(v), C) = Weights(v)[j] + rest
    BY <2>1, <2>2, ContentFinite, SumOut
  <2>4. v.total[v.in[j]] = Weight(v, j) + rest
    BY <1>1, <2>3, WeightNat DEF Weighed
  <2> QED
    BY <2>3, <2>4, WeightNat
<1> DEFINE A == {b \in Around(v, i) : v.total[b] >= Weight(v, i)}
<1>2. A \subseteq Bags
  BY AroundClosed
<1>3. ASSUME NEW j \in A \cup {i}, v.in[j] \in Bags PROVE v.in[j] \in A
  <2>1. v.in[j] \in Around(v, i)
    BY <1>3, AroundClosed DEF Closed
  <2>2. j \in Items
    BY <1>2, PlacesApart
  <2>3. v.total[v.in[j]] >= Weight(v, j)
    BY <1>1, <1>3, <2>2
  <2>4. CASE j = i
    BY <2>1, <2>3, <2>4
  <2>5. CASE j \in A
    <3>1. j \in Bags /\ weight[j] \in Nat /\ v.total[j] \in Nat /\ v.total[v.in[j]] \in Nat
      BY <1>2, <1>3, <2>5, ItemsAssumption DEF Worlds
    <3>2. Weight(v, j) = weight[j] + v.total[j]
      BY <3>1, PlacesApart DEF Weight
    <3>3. v.total[j] >= Weight(v, i)
      BY <2>5
    <3> QED
      BY <2>1, <2>3, <3>1, <3>2, <3>3, WeightNat
  <2> QED
    BY <2>4, <2>5
<1>4. Closed(v, i, A)
  BY <1>3 DEF Closed
<1> QED
  BY <1>2, <1>4, AroundLeast

\* A difference at c is passed on to all the containers around it: their weights are right
\* when that of c is.
LEMMA CarryUp ==
  ASSUME NEW v \in Worlds, NEW u \in Worlds, Acyclic(v), Weighed(v),
         NEW i \in Items, NEW c \in Bags, NEW d \in Int,
         i \notin Around(v, c) \cup {c},
         \A j \in Items \ {i} : u.in[j] = v.in[j] /\ u.count[j] = v.count[j],
         v.in[i] \in {c, "nowhere"}, u.in[i] \in {c, "nowhere"},
         \A b \in Bags : u.total[b] = IF b = c \/ b \in Around(v, c)
                                      THEN v.total[b] + d ELSE v.total[b],
         u.total[c] = SumFunctionOnSet(Weights(u), Content(u, c))
  PROVE  Weighed(u)
<1> SUFFICES ASSUME NEW b \in Bags, b # c
             PROVE  u.total[b] = SumFunctionOnSet(Weights(u), Content(u, b))
  BY DEF Weighed
<1> DEFINE C == Content(v, b)
<1>1. Content(u, b) = C /\ i \notin C /\ C \subseteq Items
  BY PlacesApart DEF Content
<1>2. v.total[b] = SumFunctionOnSet(Weights(v), C)
  BY DEF Weighed
<1>3. \A j \in C : Weights(v)[j] \in Nat /\ Weights(u)[j] \in Nat
  BY <1>1, WeightNat
<1>4. ASSUME NEW j \in C, j \notin Around(v, c) \cup {c}
      PROVE  Weights(u)[j] = Weights(v)[j]
  <2>1. Weight(u, j) = Weight(v, j)
    BY <1>1, <1>4 DEF Weight
  <2> QED
    BY <1>1, <2>1, WeightNat
<1>5. IsFiniteSet(C)
  BY ContentFinite
<1>6. CASE b \in Around(v, c)
  <2>1. PICK a \in Around(v, c) \cup {c} : v.in[a] = b
    BY <1>6, AroundHolds
  <2>2. a \in Bags /\ a \in C
    BY <2>1, AroundClosed, PlacesApart DEF Content
  <2>3. ASSUME NEW j \in C \ {a} PROVE Weights(u)[j] = Weights(v)[j]
    <3>1. v.in[j] = b
      BY DEF Content
    <3>2. j \notin Around(v, c) \cup {c}
      BY <2>1, <3>1, AroundUnique
    <3> QED
      BY <1>4, <3>2
  <2>4. Weight(u, a) = weight[a] + u.total[a] /\ Weight(v, a) = weight[a] + v.total[a]
    BY <2>2, PlacesApart DEF Weight
  <2>5. u.total[a] = v.total[a] + d
    BY <2>1, <2>2
  <2>6. weight[a] \in Nat /\ u.total[a] \in Nat /\ v.total[a] \in Nat
    BY <2>2, PlacesApart, ItemsAssumption DEF Worlds
  <2>7. Weights(u)[a] - Weights(v)[a] = d
    BY <1>1, <2>2, <2>4, <2>5, <2>6, WeightNat
  <2>8. SumFunctionOnSet(Weights(u), C) =
          SumFunctionOnSet(Weights(v), C) + (Weights(u)[a] - Weights(v)[a])
    BY <1>3, <1>5, <2>2, <2>3, SumChange
  <2> QED
    BY <1>1, <1>2, <1>6, <2>7, <2>8
<1>7. CASE b \notin Around(v, c)
  <2>1. ASSUME NEW j \in C PROVE j \notin Around(v, c) \cup {c}
    BY <1>7, AroundClosed DEF Closed, Content
  <2>2. \A j \in C : Weights(u)[j] \in Nat /\ Weights(u)[j] = Weights(v)[j]
    BY <1>3, <1>4, <2>1
  <2>3. SumFunctionOnSet(Weights(u), C) = SumFunctionOnSet(Weights(v), C)
    BY <1>5, <2>2, SumSame
  <2> QED
    BY <1>1, <1>2, <1>7, <2>3
<1> QED
  BY <1>6, <1>7

-----------------------------------------------------------------------------
(* Taking out, putting in, counting                                        *)

\* No container holds anything when it is nowhere, unless it is in hand; a slot holds one.
Housed(v, h) == \A i \in Items : v.in[i] \in Bags \ {h} => v.in[v.in[i]] # "nowhere"
OneEach(v) == \A i, j \in Items : v.in[i] \in Slots /\ v.in[i] = v.in[j] => i = j

\* A world in which item h, or None, is in hand.
Sound(v, h) == v \in Worlds /\ Acyclic(v) /\ Weighed(v) /\ Housed(v, h) /\ OneEach(v)

\* An item is not among what is around it.
LEMMA NotAroundOwn ==
  ASSUME NEW v \in Worlds, Acyclic(v), NEW i \in Items, v.in[i] \in Bags
  PROVE  i \notin Around(v, v.in[i]) \cup {v.in[i]}
<1>1. Around(v, i) = {v.in[i]} \cup Around(v, v.in[i])
  BY AroundStep
<1> QED
  BY <1>1, AroundClosed DEF Acyclic

LEMMA TakeOutIs ==
  ASSUME NEW v, Sound(v, None), NEW i \in Items, v.in[i] # "nowhere"
  PROVE  /\ TakeOut(v, i).in = [v.in EXCEPT ![i] = "nowhere"]
         /\ TakeOut(v, i).count = v.count
         /\ TakeOut(v, i).burden = v.burden
         /\ TakeOut(v, i).total =
              [b \in Bags |-> IF b \in Around(v, i) THEN v.total[b] - Weight(v, i) ELSE v.total[b]]
         /\ TakeOut(v, i) \in Worlds
<1> DEFINE c == v.in[i]
           o == [v EXCEPT !.in[i] = "nowhere"]
<1>1. v \in Worlds /\ o \in Worlds /\ o.in = [v.in EXCEPT ![i] = "nowhere"]
      /\ o.count = v.count /\ o.total = v.total /\ o.burden = v.burden
  BY DEF Worlds, Places, Sound
<1>2. Weight(v, i) \in Nat /\ -Weight(v, i) \in Int
  BY <1>1, WeightNat
<1>3. TakeOut(v, i) =
        [in |-> o.in, count |-> o.count, burden |-> o.burden,
         total |-> [b \in Bags |-> IF c \in Bags /\ (b = c \/ b \in Around(o, c))
                                   THEN o.total[b] + (-Weight(v, i)) ELSE o.total[b]]]
  <2>1. TakeOut(v, i) = Loads(o, c, -Weight(v, i))
    BY DEF TakeOut
  <2> HIDE DEF o, c
  <2> QED
    BY <1>1, <1>2, <2>1, LoadsIs
<1>4. CASE c \in Bags
  <2>1. i \notin Around(v, c) \cup {c}
    BY <1>1, <1>4, NotAroundOwn DEF Sound
  <2>2. \A j \in Around(v, c) \cup {c} : o.in[j] = v.in[j]
    BY <1>1, <1>4, <2>1, PlacesApart, AroundClosed DEF Worlds
  <2>3. Around(o, c) = Around(v, c)
    BY <2>2, AroundAgree
  <2>4. Around(v, i) = {c} \cup Around(v, c)
    BY <1>4, AroundStep
  <2>5. \A b \in Around(v, i) : v.total[b] - Weight(v, i) \in Nat
    BY <1>1, <1>2, <1>4, TotalAtLeast, AroundClosed DEF Sound, Worlds
  <2>6. TakeOut(v, i).total =
          [b \in Bags |-> IF b \in Around(v, i) THEN v.total[b] - Weight(v, i) ELSE v.total[b]]
    BY <1>1, <1>2, <1>3, <1>4, <2>3, <2>4 DEF Worlds
  <2> QED
    BY <1>1, <1>3, <2>5, <2>6 DEF Worlds
<1>5. CASE c \notin Bags
  <2>1. Around(v, i) = {}
    BY <1>5, AroundStep
  <2>2. TakeOut(v, i).total = v.total
    BY <1>1, <1>3, <1>5 DEF Worlds
  <2> QED
    BY <1>1, <1>3, <2>1, <2>2 DEF Worlds
<1> QED
  BY <1>4, <1>5

\* Fewer items lie in fewer places.
LEMMA AroundFewer ==
  ASSUME NEW v, NEW u, NEW i, \A j \in Bags \cup {i} : u.in[j] = v.in[j] \/ u.in[j] \notin Bags
  PROVE  Around(u, i) \subseteq Around(v, i)
<1>1. Closed(u, i, Around(v, i))
  BY AroundClosed DEF Closed
<1> QED
  BY <1>1, AroundClosed, AroundLeast

LEMMA TakeOutSound ==
  ASSUME NEW v, Sound(v, None), NEW i \in Items, v.in[i] # "nowhere"
  PROVE  Sound(TakeOut(v, i), i)
<1> DEFINE u == TakeOut(v, i)
           c == v.in[i]
<1>1. /\ u \in Worlds /\ u.in = [v.in EXCEPT ![i] = "nowhere"] /\ u.count = v.count
      /\ u.total = [b \in Bags |-> IF b \in Around(v, i) THEN v.total[b] - Weight(v, i)
                                   ELSE v.total[b]]
  BY TakeOutIs
<1>2. v \in Worlds /\ Acyclic(v) /\ Weighed(v) /\ Housed(v, None) /\ OneEach(v)
  BY DEF Sound
<1> HIDE DEF u
<1>3. \A j \in Items \ {i} : u.in[j] = v.in[j] /\ u.count[j] = v.count[j]
  BY <1>1, <1>2 DEF Worlds
<1>4. u.in[i] = "nowhere"
  BY <1>1, <1>2 DEF Worlds
<1>5. Acyclic(u)
  <2> SUFFICES ASSUME NEW b \in Bags PROVE b \notin Around(u, b)
    BY DEF Acyclic
  <2>1. Around(u, b) \subseteq Around(v, b)
    BY <1>3, <1>4, PlacesApart, AroundFewer
  <2> QED
    BY <1>2, <2>1 DEF Acyclic
<1>6. Weighed(u)
  <2>1. CASE c \in Bags
    <3>1. i \notin Around(v, c) \cup {c} /\ Around(v, i) = {c} \cup Around(v, c)
      BY <1>2, <2>1, NotAroundOwn, AroundStep
    <3> DEFINE d == -Weight(v, i)
               C == Content(v, c)
    <3>2. d \in Int /\ Weight(v, i) \in Nat
      BY <1>2, WeightNat
    <3>3. \A b \in Bags : u.total[b] = IF b = c \/ b \in Around(v, c) THEN v.total[b] + d
                                       ELSE v.total[b]
      BY <1>1, <1>2, <3>1, <3>2 DEF Worlds
    <3>4. i \in C /\ Content(u, c) = C \ {i} /\ C \subseteq Items
      BY <1>3, <1>4, <2>1, PlacesApart DEF Content
    <3>5. \A j \in C : Weights(v)[j] \in Nat
      BY <1>2, <3>4, WeightNat
    <3>6. SumFunctionOnSet(Weights(v), C \ {i}) \in Nat
          /\ SumFunctionOnSet(Weights(v), C) = Weights(v)[i] + SumFunctionOnSet(Weights(v), C \ {i})
      BY <3>4, <3>5, ContentFinite, SumOut
    <3>7. ASSUME NEW j \in C \ {i} PROVE Weights(u)[j] = Weights(v)[j]
      <4>1. v.in[j] = c /\ j \in Items
        BY DEF Content
      <4>2. j \notin Around(v, c) \cup {c}
        BY <1>2, <2>1, <4>1, NotAroundOwn
      <4>3. Weight(u, j) = Weight(v, j)
        BY <1>3, <3>3, <4>1, <4>2 DEF Weight
      <4> QED
        BY <1>1, <1>2, <4>1, <4>3, WeightNat
    <3>8. SumFunctionOnSet(Weights(u), C \ {i}) = SumFunctionOnSet(Weights(v), C \ {i})
      <4>1. IsFiniteSet(C \ {i})
        BY ContentFinite, FS_RemoveElement
      <4> QED
        BY <3>5, <3>7, <4>1, SumSame
    <3>9. v.total[c] = SumFunctionOnSet(Weights(v), C)
      BY <1>2, <2>1 DEF Weighed
    <3>10. u.total[c] = SumFunctionOnSet(Weights(u), Content(u, c))
      BY <1>2, <2>1, <3>2, <3>3, <3>4, <3>6, <3>8, <3>9, WeightNat
    <3>11. v.in[i] \in {c, "nowhere"} /\ u.in[i] \in {c, "nowhere"}
      BY <1>4
    <3> HIDE DEF c, d
    <3> QED
      BY <1>1, <1>2, <1>3, <2>1, <3>1, <3>2, <3>3, <3>10, <3>11, CarryUp
  <2>2. CASE c \notin Bags
    <3>1. Around(v, i) = {}
      BY <2>2, AroundStep
    <3>2. u.total = v.total
      BY <1>1, <1>2, <3>1 DEF Worlds
    <3>3. ASSUME NEW b \in Bags PROVE u.total[b] = SumFunctionOnSet(Weights(u), Content(u, b))
      <4>1. Content(u, b) = Content(v, b)
        BY <1>3, <1>4, <2>2, PlacesApart DEF Content
      <4>2. Weights(u) = Weights(v)
        BY <1>1, <3>2 DEF Weights, Weight
      <4> QED
        BY <1>2, <3>2, <4>1, <4>2 DEF Weighed
    <3> QED
      BY <3>3 DEF Weighed
  <2> QED
    BY <2>1, <2>2
<1>7. Housed(u, i)
  <2>1. ASSUME NEW j \in Items, u.in[j] \in Bags \ {i}
        PROVE  u.in[u.in[j]] # "nowhere"
    <3>1. j # i /\ u.in[j] = v.in[j] /\ v.in[j] \in Items
      BY <1>3, <1>4, <2>1, PlacesApart
    <3> QED
      BY <1>2, <1>3, <2>1, <3>1, ItemsAssumption DEF Housed
  <2> QED
    BY <2>1 DEF Housed
<1>8. OneEach(u)
  BY <1>2, <1>3, <1>4, PlacesApart DEF OneEach
<1> QED
  BY <1>1, <1>5, <1>6, <1>7, <1>8 DEF Sound, u

\* Where an item may be put.
Free(v, i, c) ==
  /\ c \in Places \ {"nowhere"}
  /\ c \in Bags => i \notin Around(v, c) \cup {c} /\ v.in[c] # "nowhere"
  /\ c \in Slots => Content(v, c) = {}

LEMMA PutInIs ==
  ASSUME NEW v, NEW i \in Items, Sound(v, i), v.in[i] = "nowhere", NEW c, Free(v, i, c)
  PROVE  /\ PutIn(v, i, c).in = [v.in EXCEPT ![i] = c]
         /\ PutIn(v, i, c).count = v.count
         /\ PutIn(v, i, c).burden = v.burden
         /\ PutIn(v, i, c).total =
              [b \in Bags |-> IF c \in Bags /\ (b = c \/ b \in Around(v, c))
                              THEN v.total[b] + Weight(v, i) ELSE v.total[b]]
         /\ PutIn(v, i, c) \in Worlds
<1> DEFINE o == [v EXCEPT !.in[i] = c]
           d == Weight(v, i)
<1>1. v \in Worlds /\ o \in Worlds /\ o.in = [v.in EXCEPT ![i] = c]
      /\ o.count = v.count /\ o.total = v.total /\ o.burden = v.burden
  BY DEF Worlds, Places, Sound, Free
<1>2. d \in Nat /\ d \in Int
  BY <1>1, WeightNat
<1>3. PutIn(v, i, c) = Loads(o, c, d)
  BY DEF PutIn
<1>4. c \in Bags => Around(o, c) = Around(v, c)
  <2>1. c \in Bags => \A j \in Around(v, c) \cup {c} : o.in[j] = v.in[j]
    BY <1>1, PlacesApart, AroundClosed DEF Worlds, Free
  <2> QED
    BY <2>1, AroundAgree
<1> HIDE DEF o, d
<1>5. PutIn(v, i, c) =
        [in |-> o.in, count |-> o.count, burden |-> o.burden,
         total |-> [b \in Bags |-> IF c \in Bags /\ (b = c \/ b \in Around(o, c))
                                   THEN o.total[b] + d ELSE o.total[b]]]
  BY <1>1, <1>2, <1>3, LoadsIs
<1>6. PutIn(v, i, c).total =
        [b \in Bags |-> IF c \in Bags /\ (b = c \/ b \in Around(v, c))
                        THEN v.total[b] + d ELSE v.total[b]]
  BY <1>1, <1>4, <1>5
<1> QED
  BY <1>1, <1>2, <1>5, <1>6 DEF Worlds, d

LEMMA PutInPlaces ==
  ASSUME NEW v, NEW i \in Items, Sound(v, i), v.in[i] = "nowhere", NEW c, Free(v, i, c)
  PROVE  /\ PutIn(v, i, c).in = [v.in EXCEPT ![i] = c]
         /\ PutIn(v, i, c).count = v.count
         /\ PutIn(v, i, c).burden = v.burden
<1>1. /\ PutIn(v, i, c).in = [v.in EXCEPT ![i] = c]
      /\ PutIn(v, i, c).count = v.count
      /\ PutIn(v, i, c).burden = v.burden
      /\ PutIn(v, i, c).total =
            [b \in Bags |-> IF c \in Bags /\ (b = c \/ b \in Around(v, c))
                            THEN v.total[b] + Weight(v, i) ELSE v.total[b]]
      /\ PutIn(v, i, c) \in Worlds
  BY PutInIs
<1> QED
  BY <1>1

LEMMA PutInSound ==
  ASSUME NEW v, NEW i \in Items, Sound(v, i), v.in[i] = "nowhere", NEW c, Free(v, i, c)
  PROVE  Sound(PutIn(v, i, c), None)
<1> DEFINE u == PutIn(v, i, c)
           d == Weight(v, i)
<1>1. /\ u \in Worlds /\ u.in = [v.in EXCEPT ![i] = c] /\ u.count = v.count
      /\ u.total = [b \in Bags |-> IF c \in Bags /\ (b = c \/ b \in Around(v, c))
                                   THEN v.total[b] + d ELSE v.total[b]]
  BY PutInIs
<1>2. v \in Worlds /\ Acyclic(v) /\ Weighed(v) /\ Housed(v, i) /\ OneEach(v)
  BY DEF Sound
<1> HIDE DEF u
<1>3. \A j \in Items \ {i} : u.in[j] = v.in[j] /\ u.count[j] = v.count[j]
  BY <1>1, <1>2 DEF Worlds
<1>4. u.in[i] = c
  BY <1>1, <1>2 DEF Worlds
<1>5. Acyclic(u)
  <2> SUFFICES ASSUME NEW b \in Bags, b \in Around(u, b) PROVE FALSE
    BY DEF Acyclic
  <2> DEFINE A == Around(v, b) \cup
                  (IF c \in Bags /\ i \in Around(v, b) \cup {b} THEN {c} \cup Around(v, c) ELSE {})
  <2>1. A \subseteq Bags
    BY AroundClosed
  <2>2. ASSUME NEW j \in A \cup {b}, u.in[j] \in Bags PROVE u.in[j] \in A
    <3>1. j \in Items
      BY <2>1, PlacesApart
    <3>2. CASE j = i
      BY <1>4, <2>2, <3>2 DEF Free
    <3>3. CASE j # i
      <4>1. u.in[j] = v.in[j]
        BY <1>3, <3>1, <3>3
      <4> QED
        BY <2>2, <4>1, AroundClosed DEF Closed
    <3> QED
      BY <3>2, <3>3
  <2>3. Closed(u, b, A)
    BY <2>2 DEF Closed
  <2>4. b \in A
    BY <2>1, <2>3, AroundLeast
  <2>5. c \in Bags /\ i \in Around(v, b) \cup {b} /\ b \in {c} \cup Around(v, c)
    BY <1>2, <2>4 DEF Acyclic
  <2>6. i \notin Around(v, c) \cup {c}
    BY <2>5 DEF Free
  <2>7. b # i /\ i \in Around(v, b)
    BY <2>5, <2>6
  <2> QED
    BY <2>5, <2>6, <2>7, AroundTransitive
<1>6. d \in Nat /\ d \in Int
  BY <1>2, WeightNat
<1>7. Weighed(u)
  <2>1. CASE c \in Bags
    <3> DEFINE C == Content(v, c)
    <3>1. i \notin Around(v, c) \cup {c}
      BY <2>1 DEF Free
    <3>2. \A b \in Bags : u.total[b] = IF b = c \/ b \in Around(v, c) THEN v.total[b] + d
                                       ELSE v.total[b]
      BY <1>1, <2>1
    <3>3. i \notin C /\ Content(u, c) = C \cup {i} /\ C \subseteq Items
      BY <1>3, <1>4, <2>1, PlacesApart DEF Content
    <3>4. \A j \in C \cup {i} : Weights(v)[j] \in Nat /\ Weights(u)[j] \in Nat
      BY <1>1, <1>2, <3>3, WeightNat
    <3>5. ASSUME NEW j \in C PROVE Weights(u)[j] = Weights(v)[j]
      <4>1. v.in[j] = c /\ j \in Items
        BY DEF Content
      <4>2. j \notin Around(v, c) \cup {c}
        BY <1>2, <2>1, <4>1, NotAroundOwn
      <4>3. Weight(u, j) = Weight(v, j)
        BY <1>1, <3>2, <4>1, <4>2 DEF Weight
      <4> QED
        BY <1>1, <1>2, <4>1, <4>3, WeightNat
    <3>6. Weights(u)[i] = d
      <4>1. Weight(u, i) = Weight(v, i)
        BY <1>1, <3>1, <3>2 DEF Weight
      <4> QED
        BY <1>1, <4>1, WeightNat
    <3>7. SumFunctionOnSet(Weights(u), C) = SumFunctionOnSet(Weights(v), C)
      BY <3>4, <3>5, ContentFinite, SumSame
    <3>8. SumFunctionOnSet(Weights(u), C \cup {i}) = d + SumFunctionOnSet(Weights(u), C)
      <4>1. IsFiniteSet(C \cup {i}) /\ (C \cup {i}) \ {i} = C
        BY <3>3, ContentFinite, FS_AddElement
      <4>2. SumFunctionOnSet(Weights(u), C \cup {i})
              = Weights(u)[i] + SumFunctionOnSet(Weights(u), (C \cup {i}) \ {i})
        <5> HIDE DEF C
        <5> QED
          BY <3>4, <4>1, SumOut
      <4> QED
        BY <3>6, <4>1, <4>2
    <3>9. v.total[c] = SumFunctionOnSet(Weights(v), C) /\ v.total[c] \in Nat
      BY <1>2, <2>1 DEF Weighed, Worlds
    <3>10. u.total[c] = SumFunctionOnSet(Weights(u), Content(u, c))
      BY <1>6, <2>1, <3>2, <3>3, <3>7, <3>8, <3>9
    <3>11. v.in[i] \in {c, "nowhere"} /\ u.in[i] \in {c, "nowhere"}
      BY <1>4
    <3>12. v \in Worlds /\ u \in Worlds /\ Acyclic(v) /\ Weighed(v) /\ d \in Int
      BY <1>1, <1>2, <1>6
    <3> HIDE DEF d, C
    <3> QED
      BY <1>3, <2>1, <3>1, <3>2, <3>10, <3>11, <3>12, CarryUp
  <2>2. CASE c \notin Bags
    <3>1. u.total = v.total
      BY <1>1, <1>2, <2>2 DEF Worlds
    <3>2. ASSUME NEW b \in Bags PROVE u.total[b] = SumFunctionOnSet(Weights(u), Content(u, b))
      <4>1. Content(u, b) = Content(v, b)
        BY <1>3, <1>4, <2>2, PlacesApart DEF Content
      <4>2. Weights(u) = Weights(v)
        BY <1>1, <3>1 DEF Weights, Weight
      <4> QED
        BY <1>2, <3>1, <4>1, <4>2 DEF Weighed
    <3> QED
      BY <3>2 DEF Weighed
  <2> QED
    BY <2>1, <2>2
<1>8. Housed(u, None)
  <2> SUFFICES ASSUME NEW j \in Items, u.in[j] \in Bags \ {None}
               PROVE  u.in[u.in[j]] # "nowhere"
    BY DEF Housed
  <2>1. CASE j = i
    BY <1>3, <1>4, <2>1, PlacesApart DEF Free
  <2>2. CASE u.in[j] = i
    BY <1>4, <2>2 DEF Free
  <2>3. CASE j # i /\ u.in[j] # i
    BY <1>2, <1>3, <2>3, PlacesApart DEF Housed
  <2> QED
    BY <2>1, <2>2, <2>3
<1>9. OneEach(u)
  BY <1>2, <1>3, <1>4 DEF OneEach, Free, Content
<1> QED
  BY <1>1, <1>5, <1>7, <1>8, <1>9 DEF Sound, u

LEMMA SetCountIs ==
  ASSUME NEW v, NEW h, Sound(v, h), NEW i \in Items, NEW n \in Nat
  PROVE  /\ SetCount(v, i, n).in = v.in
         /\ SetCount(v, i, n).count = [v.count EXCEPT ![i] = n]
         /\ SetCount(v, i, n).burden = v.burden
         /\ SetCount(v, i, n) \in Worlds
         /\ \A b \in Bags : b \notin Around(v, i) => SetCount(v, i, n).total[b] = v.total[b]
         /\ Weighed(SetCount(v, i, n))
<1> DEFINE o == [v EXCEPT !.count[i] = n]
           c == v.in[i]
           d == Weight(o, i) - Weight(v, i)
           u == SetCount(v, i, n)
<1>1. v \in Worlds /\ o \in Worlds /\ o.count = [v.count EXCEPT ![i] = n]
      /\ o.in = v.in /\ o.total = v.total /\ o.burden = v.burden
      /\ Acyclic(v) /\ Weighed(v)
  BY DEF Worlds, Sound
<1>2. Weight(o, i) \in Nat /\ Weight(v, i) \in Nat /\ d \in Int
  BY <1>1, WeightNat
<1>3. u = Loads(o, c, d)
  BY <1>1 DEF SetCount
<1>4. \A b : Around(o, b) = Around(v, b)
  BY <1>1, AroundAgree
<1>5. Weight(o, i) = Weight(v, i) + d
  BY <1>2
<1> HIDE DEF o, d, u
<1>6. u = [in |-> o.in, count |-> o.count, burden |-> o.burden,
           total |-> [b \in Bags |-> IF c \in Bags /\ (b = c \/ b \in Around(o, c))
                                     THEN o.total[b] + d ELSE o.total[b]]]
  BY <1>1, <1>2, <1>3, LoadsIs
<1>7. u.in = v.in /\ u.count = [v.count EXCEPT ![i] = n] /\ u.burden = v.burden
  BY <1>1, <1>6
<1>8. Around(v, i) = IF c \in Bags THEN {c} \cup Around(v, c) ELSE {}
  BY AroundStep
<1>9. \A b \in Bags : u.total[b] = IF b \in Around(v, i) THEN v.total[b] + d ELSE v.total[b]
  BY <1>1, <1>4, <1>6, <1>8
<1>10. u \in Worlds
  <2>1. \A b \in Around(v, i) : v.total[b] + d \in Nat
    BY <1>1, <1>2, <1>5, <1>8, TotalAtLeast, AroundClosed DEF Worlds
  <2>2. \A b \in Bags : u.total[b] \in Nat
    BY <1>1, <1>9, <2>1 DEF Worlds
  <2>3. u.total = [b \in Bags |-> u.total[b]]
    BY <1>6
  <2>4. u.total \in [Bags -> Nat]
    BY <2>2, <2>3
  <2> QED
    BY <1>1, <1>6, <2>4 DEF Worlds
<1>11. \A j \in Items \ {i} : u.in[j] = v.in[j] /\ u.count[j] = v.count[j]
  BY <1>1, <1>7 DEF Worlds
<1>12. Weighed(u)
  <2>1. CASE c \in Bags
    <3> DEFINE C == Content(v, c)
    <3>1. i \notin Around(v, c) \cup {c}
      BY <1>1, <2>1, NotAroundOwn
    <3>2. \A b \in Bags : u.total[b] = IF b = c \/ b \in Around(v, c) THEN v.total[b] + d
                                       ELSE v.total[b]
      BY <1>8, <1>9, <2>1
    <3>3. i \in C /\ Content(u, c) = C /\ C \subseteq Items
      BY <1>7 DEF Content
    <3>4. \A j \in C : Weights(v)[j] \in Nat /\ Weights(u)[j] \in Nat
      BY <1>1, <1>10, <3>3, WeightNat
    <3>5. ASSUME NEW j \in C \ {i} PROVE Weights(u)[j] = Weights(v)[j]
      <4>1. v.in[j] = c /\ j \in Items
        BY DEF Content
      <4>2. j \notin Around(v, c) \cup {c}
        BY <1>1, <2>1, <4>1, NotAroundOwn
      <4>3. Weight(u, j) = Weight(v, j)
        BY <1>11, <3>2, <4>1, <4>2 DEF Weight
      <4> QED
        BY <1>1, <1>10, <4>1, <4>3, WeightNat
    <3>6. Weights(u)[i] - Weights(v)[i] = d
      <4>1. i \in Bags => u.total[i] = v.total[i] /\ o.total[i] = v.total[i]
        BY <1>1, <3>1, <3>2
      <4>2. u.count[i] = o.count[i]
        BY <1>1, <1>7
      <4>3. Weight(u, i) = Weight(o, i)
        BY <4>1, <4>2 DEF Weight
      <4> QED
        BY <1>1, <1>2, <1>5, <1>10, <4>3, WeightNat
    <3>7. SumFunctionOnSet(Weights(u), C)
            = SumFunctionOnSet(Weights(v), C) + (Weights(u)[i] - Weights(v)[i])
      BY <3>3, <3>4, <3>5, ContentFinite, SumChange
    <3>8. v.total[c] = SumFunctionOnSet(Weights(v), C) /\ v.total[c] \in Nat
      BY <1>1, <2>1 DEF Weighed, Worlds
    <3>9. u.total[c] = SumFunctionOnSet(Weights(u), Content(u, c))
      BY <2>1, <3>2, <3>3, <3>6, <3>7, <3>8
    <3>10. v.in[i] \in {c, "nowhere"} /\ u.in[i] \in {c, "nowhere"}
      BY <1>7
    <3> HIDE DEF c
    <3> QED
      BY <1>1, <1>2, <1>10, <1>11, <2>1, <3>1, <3>2, <3>9, <3>10, CarryUp
  <2>2. CASE c \notin Bags
    <3> SUFFICES ASSUME NEW b \in Bags
                 PROVE  u.total[b] = SumFunctionOnSet(Weights(u), Content(u, b))
      BY DEF Weighed
    <3> DEFINE C == Content(v, b)
    <3>1. Content(u, b) = C /\ C \subseteq Items /\ i \notin C
      BY <1>7, <2>2 DEF Content
    <3>2. \A k \in Bags : u.total[k] = v.total[k]
      BY <1>8, <1>9, <2>2
    <3>3. ASSUME NEW j \in C PROVE Weights(v)[j] \in Nat /\ Weights(u)[j] = Weights(v)[j]
      <4>1. Weight(u, j) = Weight(v, j)
        BY <1>11, <3>1, <3>2 DEF Weight
      <4> QED
        BY <1>1, <1>10, <3>1, <4>1, WeightNat
    <3>4. SumFunctionOnSet(Weights(v), C) = SumFunctionOnSet(Weights(u), C)
      BY <3>3, ContentFinite, SumSame
    <3> QED
      BY <1>1, <3>1, <3>2, <3>4 DEF Weighed
  <2> QED
    BY <2>1, <2>2
<1> QED
  BY <1>7, <1>9, <1>10, <1>12 DEF u

LEMMA SetCountSound ==
  ASSUME NEW v, NEW h, Sound(v, h), NEW i \in Items, NEW n \in Nat
  PROVE  Sound(SetCount(v, i, n), h)
<1> DEFINE u == SetCount(v, i, n)
<1>1. u \in Worlds /\ u.in = v.in /\ Weighed(u)
  BY SetCountIs
<1>2. \A b : Around(u, b) = Around(v, b)
  BY <1>1, AroundAgree
<1> HIDE DEF u
<1>3. Acyclic(u) /\ Housed(u, h) /\ OneEach(u)
  BY <1>1, <1>2 DEF Sound, Acyclic, Housed, OneEach
<1> QED
  BY <1>1, <1>3 DEF Sound, u

\* Of an item that is nowhere, nothing else depends on the count.
LEMMA SetCountNowhere ==
  ASSUME NEW v \in Worlds, NEW i \in Items, NEW n, v.in[i] = "nowhere"
  PROVE  SetCount(v, i, n) = [v EXCEPT !.count[i] = n]
BY PlacesApart DEF SetCount, Loads, Worlds

-----------------------------------------------------------------------------
(* What the player carries                                                 *)

Worn(v) == {i \in Items : v.in[i] \in Slots}

LEMMA LoadNat ==
  ASSUME NEW v \in Worlds
  PROVE  Load(v) \in Nat
<1>1. Worn(v) \subseteq Items
  BY DEF Worn
<1> QED
  BY <1>1, WeightsSum DEF Load, Worn

\* The load is the same when what is worn is the same and weighs the same.
LEMMA LoadSame ==
  ASSUME NEW v \in Worlds, NEW u \in Worlds, Worn(u) = Worn(v),
         \A i \in Worn(v) : Weight(u, i) = Weight(v, i)
  PROVE  Load(u) = Load(v)
<1>1. Worn(v) \subseteq Items /\ IsFiniteSet(Worn(v))
  BY WeightsSum DEF Worn
<1>2. \A i \in Worn(v) : Weights(v)[i] \in Nat /\ Weights(v)[i] = Weights(u)[i]
  BY <1>1, WeightNat
<1> HIDE DEF Worn
<1>3. SumFunctionOnSet(Weights(v), Worn(v)) = SumFunctionOnSet(Weights(u), Worn(v))
  BY <1>1, <1>2, SumSame
<1> QED
  BY <1>3 DEF Load, Worn

\* A place that is not the player's has nothing worn around it.
LEMMA NotOwned ==
  ASSUME NEW v, NEW c, ~Owned(v, c)
  PROVE  c \notin Slots /\ (c \in Bags => \A j \in Around(v, c) \cup {c} : v.in[j] \notin Slots)
BY DEF Owned, Carried

LEMMA OwnedAgree ==
  ASSUME NEW v, NEW u, NEW i, NEW c,
         \A j \in Items \ {i} : u.in[j] = v.in[j],
         c \in Bags => i \notin Around(v, c) \cup {c}
  PROVE  (Owned(u, c) <=> Owned(v, c)) /\ (c \in Bags => Around(u, c) = Around(v, c))
<1>1. CASE c \in Bags
  <2>1. \A j \in Around(v, c) \cup {c} : u.in[j] = v.in[j]
    BY <1>1, AroundClosed, PlacesApart
  <2> QED
    BY <1>1, <2>1, AroundAgree, CarriedAgree DEF Owned
<1>2. CASE c \notin Bags
  BY <1>2 DEF Owned
<1> QED
  BY <1>1, <1>2

LEMMA TakeOutLoad ==
  ASSUME NEW v, NEW i \in Items, Sound(v, None), v.in[i] # "nowhere", ~Owned(v, v.in[i])
  PROVE  Load(TakeOut(v, i)) = Load(v)
<1> DEFINE u == TakeOut(v, i)
<1>1. /\ u \in Worlds /\ u.in = [v.in EXCEPT ![i] = "nowhere"] /\ u.count = v.count
      /\ u.total = [b \in Bags |-> IF b \in Around(v, i) THEN v.total[b] - Weight(v, i)
                                   ELSE v.total[b]]
  BY TakeOutIs
<1>2. v \in Worlds
  BY DEF Sound
<1> HIDE DEF u
<1>3. v.in[i] \notin Slots
  BY NotOwned
<1>4. Worn(u) = Worn(v)
  BY <1>1, <1>2, <1>3, PlacesApart DEF Worn, Worlds
<1>5. ASSUME NEW j \in Worn(v) PROVE Weight(u, j) = Weight(v, j)
  <2>1. j \notin Around(v, i)
    BY AroundStep, NotOwned DEF Worn
  <2> QED
    BY <1>1, <2>1 DEF Weight, Worn
<1> QED
  BY <1>1, <1>2, <1>4, <1>5, LoadSame DEF u

LEMMA PutInLoad ==
  ASSUME NEW v, NEW i \in Items, Sound(v, i), v.in[i] = "nowhere", NEW c, Free(v, i, c), ~Owned(v, c)
  PROVE  Load(PutIn(v, i, c)) = Load(v)
<1> DEFINE u == PutIn(v, i, c)
<1>1. /\ u \in Worlds /\ u.in = [v.in EXCEPT ![i] = c] /\ u.count = v.count
      /\ u.total = [b \in Bags |-> IF c \in Bags /\ (b = c \/ b \in Around(v, c))
                                   THEN v.total[b] + Weight(v, i) ELSE v.total[b]]
  BY PutInIs
<1>2. v \in Worlds
  BY DEF Sound
<1> HIDE DEF u
<1>3. c \notin Slots
  BY NotOwned
<1>4. Worn(u) = Worn(v)
  BY <1>1, <1>2, <1>3, PlacesApart DEF Worn, Worlds
<1>5. ASSUME NEW j \in Worn(v) PROVE Weight(u, j) = Weight(v, j)
  <2>1. c \in Bags => j # c /\ j \notin Around(v, c)
    BY NotOwned DEF Worn
  <2> QED
    BY <1>1, <2>1 DEF Weight, Worn
<1> QED
  BY <1>1, <1>2, <1>4, <1>5, LoadSame DEF u

LEMMA SetCountLoad ==
  ASSUME NEW v, NEW h, Sound(v, h), NEW i \in Items, NEW n \in Nat, ~Owned(v, v.in[i])
  PROVE  Load(SetCount(v, i, n)) = Load(v)
<1> DEFINE u == SetCount(v, i, n)
<1>1. /\ u \in Worlds /\ u.in = v.in /\ u.count = [v.count EXCEPT ![i] = n]
      /\ \A b \in Bags : b \notin Around(v, i) => u.total[b] = v.total[b]
  BY SetCountIs
<1>2. v \in Worlds
  BY DEF Sound
<1> HIDE DEF u
<1>3. Worn(u) = Worn(v)
  BY <1>1 DEF Worn
<1>4. ASSUME NEW j \in Worn(v) PROVE Weight(u, j) = Weight(v, j)
  <2>1. j \notin Around(v, i) /\ j # i
    BY AroundStep, NotOwned DEF Worn
  <2>2. u.count[j] = v.count[j]
    BY <1>1, <1>2, <2>1 DEF Worlds, Worn
  <2> QED
    BY <1>1, <2>1, <2>2 DEF Weight
<1> QED
  BY <1>1, <1>2, <1>3, <1>4, LoadSame DEF u

\* The player reckons his burden anew, and nothing else changes.
LEMMA NotifyIs ==
  ASSUME NEW v, NEW h, Sound(v, h), NEW S
  PROVE  /\ Notify(v, S).in = v.in /\ Notify(v, S).count = v.count
         /\ Notify(v, S).total = v.total
         /\ Sound(Notify(v, S), h)
         /\ Load(Notify(v, S)) = Load(v)
         /\ (\E c \in S : Owned(v, c)) => Notify(v, S).burden = Load(v)
         /\ ~(\E c \in S : Owned(v, c)) => Notify(v, S) = v
<1>1. CASE \E c \in S : Owned(v, c)
  <2> DEFINE u == [v EXCEPT !.burden = Load(v)]
  <2>1. v \in Worlds /\ Load(v) \in Nat
    BY LoadNat DEF Sound
  <2>2. /\ u \in Worlds /\ u.in = v.in /\ u.count = v.count /\ u.total = v.total
        /\ u.burden = Load(v)
    BY <2>1 DEF Worlds
  <2>3. Notify(v, S) = u
    BY <1>1 DEF Notify
  <2> HIDE DEF u
  <2>4. \A b : Around(u, b) = Around(v, b)
    BY <2>2, AroundAgree
  <2>5. \A i : Weight(u, i) = Weight(v, i)
    BY <2>2 DEF Weight
  <2>6. Weights(u) = Weights(v) /\ \A c : Content(u, c) = Content(v, c)
    BY <2>2, <2>5 DEF Weights, Content
  <2>7. Load(u) = Load(v)
    BY <2>2, <2>6 DEF Load
  <2>8. Sound(u, h)
    BY <2>2, <2>4, <2>6 DEF Sound, Acyclic, Weighed, Housed, OneEach
  <2> QED
    BY <1>1, <2>2, <2>3, <2>7, <2>8
<1>2. CASE ~(\E c \in S : Owned(v, c))
  BY <1>2 DEF Notify
<1> QED
  BY <1>1, <1>2

-----------------------------------------------------------------------------
(* How many pieces there are                                               *)

Kin(k) == {i \in Items : kind[i] = k}
All(v, k) == SumFunctionOnSet(v.count, Kin(k))

LEMMA KinFinite ==
  ASSUME NEW k PROVE IsFiniteSet(Kin(k)) /\ Kin(k) \subseteq Items
BY ItemsAssumption, FS_Subset DEF Kin

LEMMA AllNat ==
  ASSUME NEW v \in Worlds, NEW k PROVE All(v, k) \in Nat
BY KinFinite, SumNat DEF All, Worlds

LEMMA AllChange ==
  ASSUME NEW v \in Worlds, NEW u, NEW i \in Items, NEW n \in Nat,
         u.count = [v.count EXCEPT ![i] = n], NEW k
  PROVE  All(u, k) = All(v, k) + (IF kind[i] = k THEN n - v.count[i] ELSE 0)
<1> DEFINE K == Kin(k)
           f == v.count
           g == u.count
<1>1. f \in [Items -> Nat] /\ g \in [Items -> Nat]
      /\ g[i] = n /\ \A j \in Items \ {i} : f[j] = g[j]
  BY DEF Worlds
<1>2. IsFiniteSet(K) /\ K \subseteq Items /\ (i \in K <=> kind[i] = k)
  BY KinFinite DEF Kin
<1>3. All(v, k) = SumFunctionOnSet(f, K) /\ All(u, k) = SumFunctionOnSet(g, K)
  BY DEF All
<1> HIDE DEF f, g, K
<1>4. \A j \in K : f[j] \in Nat /\ g[j] \in Nat
  BY <1>1, <1>2
<1>5. \A j \in K \ {i} : f[j] = g[j]
  BY <1>1, <1>2
<1>6. CASE kind[i] = k
  <2>1. SumFunctionOnSet(g, K) = SumFunctionOnSet(f, K) + (g[i] - f[i])
    BY <1>2, <1>4, <1>5, <1>6, SumChange
  <2> QED
    BY <1>1, <1>3, <1>6, <2>1 DEF f
<1>7. CASE kind[i] # k
  <2>1. \A j \in K : f[j] \in Nat /\ f[j] = g[j]
    BY <1>2, <1>4, <1>5, <1>7
  <2>2. SumFunctionOnSet(f, K) = SumFunctionOnSet(g, K) /\ SumFunctionOnSet(f, K) \in Nat
    BY <1>2, <2>1, SumSame, SumNat
  <2> QED
    BY <1>3, <1>7, <2>2
<1> QED
  BY <1>6, <1>7

\* What is nowhere does not count.
LEMMA PiecesAll ==
  ASSUME NEW v \in Worlds, \A i \in Items : v.in[i] = "nowhere" => v.count[i] = 0, NEW k
  PROVE  Pieces(v, k) = All(v, k)
<1> DEFINE S == Kin(k)
           T == {i \in Items : v.in[i] # "nowhere" /\ kind[i] = k}
<1>1. T \in SUBSET S /\ IsFiniteSet(S \ T)
  BY KinFinite, FS_Difference DEF Kin
<1>2. \A i \in S : v.count[i] \in Nat
  BY DEF Worlds, Kin
<1>3. \A i \in S \ T : v.count[i] = 0
  BY DEF Kin
<1>4. SumFunctionOnSet(v.count, S \ T) = 0
  BY <1>1, <1>3, SumZero
<1>5. Pieces(v, k) = SumFunctionOnSet(v.count, T)
  BY DEF Pieces
<1> HIDE DEF S, T
<1>6. /\ SumFunctionOnSet(v.count, T) \in Nat
      /\ SumFunctionOnSet(v.count, S) = SumFunctionOnSet(v.count, T) + SumFunctionOnSet(v.count, S \ T)
  <2>1. IsFiniteSet(S)
    BY KinFinite DEF S
  <2> QED
    BY <1>1, <1>2, <2>1, SumSplit
<1> QED
  BY <1>4, <1>5, <1>6 DEF All, S

-----------------------------------------------------------------------------
(* Steps in which nothing but stacks changes its place                     *)

LEMMA SoundHand ==
  ASSUME NEW v, NEW h, Sound(v, h), h \notin Bags, NEW k
  PROVE  Sound(v, k)
BY DEF Sound, Housed

LEMMA SoundAnyHand ==
  ASSUME NEW v, Sound(v, None), NEW k
  PROVE  Sound(v, k)
BY PlacesApart, ItemsAssumption, SoundHand

\* From v to u no container moves, no burden is reckoned, and the load is the same unless
\* one of the places P is the player's.
Stirs(v, u, P) ==
  /\ Sound(u, None)
  /\ \A b \in Bags : u.in[b] = v.in[b]
  /\ u.burden = v.burden
  /\ (\A c \in P : ~Owned(v, c)) => Load(u) = Load(v)

LEMMA StirsOwned ==
  ASSUME NEW v, NEW u, NEW P, Stirs(v, u, P)
  PROVE  /\ \A b \in Bags : Around(u, b) = Around(v, b)
         /\ \A c : Owned(u, c) <=> Owned(v, c)
<1>1. ASSUME NEW b \in Bags
      PROVE  Around(u, b) = Around(v, b) /\ (Carried(u, b) <=> Carried(v, b))
  <2>1. \A j \in Around(v, b) \cup {b} : u.in[j] = v.in[j]
    BY AroundClosed DEF Stirs
  <2> QED
    BY <2>1, AroundAgree, CarriedAgree
<1> QED
  BY <1>1 DEF Owned

LEMMA StirsTransitive ==
  ASSUME NEW v, NEW u, NEW t, NEW P, Stirs(v, u, P), Stirs(u, t, P)
  PROVE  Stirs(v, t, P)
BY StirsOwned DEF Stirs

LEMMA StirsSetCount ==
  ASSUME NEW v, Sound(v, None), NEW i \in Items, NEW n \in Nat, NEW P, v.in[i] \in P \cup {"nowhere"}
  PROVE  Stirs(v, SetCount(v, i, n), P)
<1>1. (\A c \in P : ~Owned(v, c)) => Load(SetCount(v, i, n)) = Load(v)
  <2>1. ~Owned(v, "nowhere")
    BY PlacesApart DEF Owned
  <2> QED
    BY <2>1, SetCountLoad
<1>2. Sound(SetCount(v, i, n), None)
  BY SetCountSound
<1>3. SetCount(v, i, n).in = v.in /\ SetCount(v, i, n).burden = v.burden
  BY SetCountIs
<1> QED
  BY <1>1, <1>2, <1>3 DEF Stirs

LEMMA StirsTakeOut ==
  ASSUME NEW v, Sound(v, None), NEW i \in Items \ Bags, v.in[i] # "nowhere", NEW P, v.in[i] \in P
  PROVE  Stirs(v, TakeOut(v, i), P)
<1>1. (\A c \in P : ~Owned(v, c)) => Load(TakeOut(v, i)) = Load(v)
  BY TakeOutLoad
<1>2. Sound(TakeOut(v, i), None)
  BY TakeOutSound, SoundHand
<1>3. TakeOut(v, i).in = [v.in EXCEPT ![i] = "nowhere"] /\ TakeOut(v, i).burden = v.burden
  BY TakeOutIs
<1>4. \A b \in Bags : TakeOut(v, i).in[b] = v.in[b]
  BY <1>3, PlacesApart DEF Sound, Worlds
<1> QED
  BY <1>1, <1>2, <1>3, <1>4 DEF Stirs

LEMMA StirsPutIn ==
  ASSUME NEW v, Sound(v, None), NEW i \in Items \ Bags, v.in[i] = "nowhere",
         NEW P, NEW c \in P, Free(v, i, c)
  PROVE  Stirs(v, PutIn(v, i, c), P)
<1>0. Sound(v, i)
  BY SoundAnyHand
<1>1. (\A p \in P : ~Owned(v, p)) => Load(PutIn(v, i, c)) = Load(v)
  BY <1>0, PutInLoad
<1>2. Sound(PutIn(v, i, c), None)
  BY <1>0, PutInSound
<1>3. PutIn(v, i, c).in = [v.in EXCEPT ![i] = c] /\ PutIn(v, i, c).burden = v.burden
  BY <1>0, PutInPlaces
<1>4. \A b \in Bags : PutIn(v, i, c).in[b] = v.in[b]
  BY <1>3, PlacesApart DEF Sound, Worlds
<1> QED
  BY <1>1, <1>2, <1>3, <1>4 DEF Stirs

\* Who is told of such a step knows his burden.
LEMMA StirsNotify ==
  ASSUME NEW v, NEW u, NEW P, Stirs(v, u, P)
  PROVE  /\ Notify(u, P).in = u.in /\ Notify(u, P).count = u.count
         /\ Sound(Notify(u, P), None)
         /\ v.burden = Load(v) => Notify(u, P).burden = Load(Notify(u, P))
<1>1. Sound(u, None)
  BY DEF Stirs
<1> DEFINE t == Notify(u, P)
<1>2. /\ t.in = u.in /\ t.count = u.count /\ Sound(t, None) /\ Load(t) = Load(u)
      /\ (\E c \in P : Owned(u, c)) => t.burden = Load(u)
      /\ ~(\E c \in P : Owned(u, c)) => t = u
  BY <1>1, NotifyIs
<1> HIDE DEF t
<1>3. ASSUME v.burden = Load(v) PROVE t.burden = Load(t)
  <2>1. CASE \E c \in P : Owned(u, c)
    BY <1>2, <2>1
  <2>2. CASE ~(\E c \in P : Owned(u, c))
    BY <1>2, <1>3, <2>2, StirsOwned DEF Stirs
  <2> QED
    BY <2>1, <2>2
<1> QED
  BY <1>2, <1>3 DEF t

-----------------------------------------------------------------------------
(* The size of stacks and of containers                                    *)

Most(i) == IF i \in Stacks THEN StackSize ELSE 1

\* Every item has as many pieces as it may, but the one in hand.
Counted(v, h) ==
  \A i \in Items \ {h} : IF v.in[i] = "nowhere" THEN v.count[i] = 0 ELSE v.count[i] \in 1..Most(i)

LEMMA MostNat == \A i : Most(i) \in Nat /\ Most(i) >= 1
BY ItemsAssumption DEF Most

LEMMA SizeNat ==
  ASSUME NEW v, NEW b PROVE Size(v, b) \in Nat
BY ContentFinite, FS_CardinalityType DEF Size

\* No container gets fuller than it may be.
Roomy(v, u) == \A b \in Bags : Size(u, b) <= Size(v, b) \/ Size(u, b) <= capacity[b]

LEMMA CapacityNat == \A b \in Bags : capacity[b] \in Nat
BY ItemsAssumption

LEMMA RoomyTransitive ==
  ASSUME NEW v, NEW u, NEW t, Roomy(v, u), Roomy(u, t)
  PROVE  Roomy(v, t)
<1> SUFFICES ASSUME NEW b \in Bags PROVE Size(t, b) <= Size(v, b) \/ Size(t, b) <= capacity[b]
  BY DEF Roomy
<1> QED
  BY SizeNat, CapacityNat DEF Roomy

LEMMA RoomyFewer ==
  ASSUME NEW v, NEW u, \A b \in Bags : Content(u, b) \subseteq Content(v, b)
  PROVE  Roomy(v, u) /\ \A b \in Bags : Size(u, b) <= Size(v, b)
<1> SUFFICES ASSUME NEW b \in Bags PROVE Size(u, b) <= Size(v, b)
  BY DEF Roomy
<1> QED
  BY ContentFinite, FS_Subset DEF Size

LEMMA RoomyPutIn ==
  ASSUME NEW v, NEW u, NEW i,
         \A b \in Bags : \/ Content(u, b) \subseteq Content(v, b)
                         \/ Size(v, b) < capacity[b] /\ Content(u, b) \subseteq Content(v, b) \cup {i}
  PROVE  Roomy(v, u)
<1> SUFFICES ASSUME NEW b \in Bags PROVE Size(u, b) <= Size(v, b) \/ Size(u, b) <= capacity[b]
  BY DEF Roomy
<1>1. CASE Size(v, b) < capacity[b] /\ Content(u, b) \subseteq Content(v, b) \cup {i}
  <2>1. Content(u, b) \subseteq Content(v, b) \cup {i}
    BY <1>1
  <2>2. IsFiniteSet(Content(v, b)) /\ Size(v, b) \in Nat /\ Size(u, b) \in Nat
    BY ContentFinite, SizeNat
  <2>3. /\ IsFiniteSet(Content(v, b) \cup {i})
        /\ Cardinality(Content(v, b) \cup {i}) <= Cardinality(Content(v, b)) + 1
    <3> DEFINE C == Content(v, b)
    <3>1. IsFiniteSet(C) /\ Cardinality(C) \in Nat
      BY <2>2 DEF Size
    <3> HIDE DEF C
    <3>2. /\ IsFiniteSet(C \cup {i})
          /\ Cardinality(C \cup {i}) = IF i \in C THEN Cardinality(C) ELSE Cardinality(C) + 1
      BY <3>1, FS_AddElement
    <3> QED
      BY <3>1, <3>2 DEF C
  <2>4. Cardinality(Content(u, b)) <= Cardinality(Content(v, b) \cup {i})
    BY <2>1, <2>3, FS_Subset
  <2>5. Cardinality(Content(v, b) \cup {i}) \in Nat
    BY <2>3, FS_CardinalityType
  <2> QED
    BY <1>1, <2>2, <2>3, <2>4, <2>5, CapacityNat DEF Size
<1>2. CASE Content(u, b) \subseteq Content(v, b)
  BY <1>2, ContentFinite, FS_Subset DEF Size
<1> QED
  BY <1>1, <1>2

\* The item in a slot.
LEMMA OccupantIs ==
  ASSUME NEW v, OneEach(v), NEW s \in Slots
  PROVE  /\ Content(v, s) = {} => Occupant(v, s) = None
         /\ Content(v, s) # {} => /\ Occupant(v, s) \in Items
                                  /\ Content(v, s) = {Occupant(v, s)}
                                  /\ v.in[Occupant(v, s)] = s
         /\ \A i \in Items : v.in[i] = s => Occupant(v, s) = i
BY ItemsAssumption DEF OneEach, Occupant, Content

-----------------------------------------------------------------------------
(* Destinations                                                            *)

\* A place there is, with the item found in it: that of the index, or that of the slot.
Lands(v, d) ==
  /\ d = To(d.to, d.at, d.onto)
  /\ d.to \in Slots \cup Bags \cup {"tile"}
  /\ d.to \in Bags => v.in[d.to] # "nowhere"
  /\ d.onto # None => d.onto \in Items /\ v.in[d.onto] = d.to
  /\ d.to \in Slots => d.onto = Occupant(v, d.to)
  /\ d.to \in Bags => IF d.at \in Items THEN d.onto = d.at
                      ELSE d.at \in {"wherever", "empty"} /\ d.onto = None

\* An index beyond the items is within the capacity.
Within(v, d) == d.to \in Bags /\ d.at = "empty" => Size(v, d.to) < capacity[d.to]

LEMMA LandsInContainer ==
  ASSUME NEW v, NEW i \in Items, NEW b \in Bags, v.in[b] # "nowhere",
         NEW at \in Content(v, b) \cup {"wherever", "empty"},
         NEW d \in InContainer(v, i, b, at)
  PROVE  Lands(v, d) /\ Within(v, d) /\ d.to = b
         /\ (v.in[i] # b => (d.onto = None \/ d.onto \in Mergeable(v, i, b)) \/ d.at = at)
<1> DEFINE free == IF i \in Stacks /\ v.in[i] # b THEN Mergeable(v, i, b) ELSE {}
           index == IF at = "empty" /\ Size(v, b) >= capacity[b] THEN "wherever" ELSE at
<1>1. free \subseteq Content(v, b) /\ Content(v, b) \subseteq Items /\ Mergeable(v, i, b) \subseteq Items
  BY DEF Mergeable, Content
<1>2. CASE free # {}
  <2>1. PICK j \in free : d = To(b, j, j)
    BY <1>2 DEF InContainer
  <2>2. j \in Items /\ v.in[j] = b /\ j \in Mergeable(v, i, b)
    BY <1>1 DEF Content
  <2>3. j # "empty"
    BY <2>2, PlacesApart
  <2> QED
    BY <2>1, <2>2, <2>3, PlacesApart DEF Lands, Within, To
<1>3. CASE free = {}
  <2>1. d = To(b, index, IF at \in Items THEN at ELSE None)
    BY <1>3 DEF InContainer
  <2>2. CASE at \in Items
    <3>1. v.in[at] = b /\ index = at /\ at # "empty"
      BY <2>2, PlacesApart DEF Content
    <3> HIDE DEF index
    <3> QED
      BY <2>1, <2>2, <3>1, PlacesApart DEF Lands, Within, To
  <2>3. CASE at \notin Items
    <3>1. at \in {"wherever", "empty"} /\ "empty" \notin Items /\ "wherever" \notin Items
      BY <1>1, <2>3, PlacesApart
    <3>2. index \in {"wherever", "empty"} /\ (index = "empty" => Size(v, b) < capacity[b])
      BY <3>1, SizeNat, CapacityNat
    <3> HIDE DEF index
    <3> QED
      BY <2>1, <2>3, <3>1, <3>2, PlacesApart DEF Lands, Within, To
  <2> QED
    BY <2>2, <2>3
<1> QED
  BY <1>2, <1>3

LEMMA CarriedSomewhere ==
  ASSUME NEW v, NEW b, Carried(v, b)
  PROVE  v.in[b] # "nowhere"
BY AroundStep, PlacesApart DEF Carried

LEMMA LandsSlot ==
  ASSUME NEW v, OneEach(v), NEW s \in Slots
  PROVE  Lands(v, To(s, s, Occupant(v, s))) /\ Within(v, To(s, s, Occupant(v, s)))
BY OccupantIs, PlacesApart DEF Lands, Within, To

LEMMA LandsOnTile ==
  ASSUME NEW v, NEW d \in OnTile(v)
  PROVE  Lands(v, d) /\ Within(v, d) /\ d.to = "tile"
BY PlacesApart DEF OnTile, Lands, Within, To, Content

LEMMA LandsOnPlayer ==
  ASSUME NEW v, OneEach(v), NEW i \in Items, NEW d \in OnPlayer(v, i)
  PROVE  \/ /\ d.to \in Slots /\ Lands(v, d) /\ Within(v, d)
            /\ d.onto # i /\ (d.onto # None => d.onto \in Mergeable(v, i, d.to))
         \/ /\ d.to \in Bags /\ v.in[d.to] # "nowhere" /\ Carried(v, d.to)
            /\ d.at \in Content(v, d.to) \cup {"empty"}
            /\ v.in[i] = "nowhere" =>
                 /\ Lands(v, d)
                 /\ d.onto # None => d.onto \in Mergeable(v, i, d.to)
                 /\ i \in Stacks => Within(v, d)
<1>1. CASE SlotsFor(v, i) # {}
  <2>1. PICK s \in SlotsFor(v, i) : d = To(s, s, Occupant(v, s))
    BY <1>1 DEF OnPlayer
  <2>2. s \in Slots /\ Occupant(v, s) # i /\ (Occupant(v, s) # None => Occupant(v, s) \in Mergeable(v, i, s))
    BY <2>1 DEF SlotsFor
  <2> QED
    BY <2>1, <2>2, LandsSlot DEF To
<1>2. CASE SlotsFor(v, i) = {}
  <2>1. d \in BagsFor(v, i)
    BY <1>2 DEF OnPlayer
  <2>2. CASE \E b \in Bags : Carried(v, b) /\ \E j \in Mergeable(v, i, b) : d = To(b, j, j)
    <3>1. PICK b \in Bags : Carried(v, b) /\ \E j \in Mergeable(v, i, b) : d = To(b, j, j)
      BY <2>2
    <3>2. PICK j \in Mergeable(v, i, b) : d = To(b, j, j)
      BY <3>1
    <3>3. j \in Items /\ v.in[j] = b /\ j \in Content(v, b) /\ j # "empty"
      BY <3>2, PlacesApart DEF Mergeable, Content
    <3> QED
      BY <3>1, <3>2, <3>3, CarriedSomewhere, PlacesApart DEF Lands, Within, To
  <2>3. CASE \E b \in Bags : /\ Carried(v, b)
                             /\ i \in Stacks => Cardinality(Content(v, b) \ {i}) < capacity[b]
                             /\ \E j \in (IF i \in Stacks /\ v.in[i] = b THEN Content(v, b) ELSE {"empty"}) :
                                  d = To(b, j, None)
    <3>1. PICK b \in Bags : /\ Carried(v, b)
                            /\ i \in Stacks => Cardinality(Content(v, b) \ {i}) < capacity[b]
                            /\ \E j \in (IF i \in Stacks /\ v.in[i] = b THEN Content(v, b) ELSE {"empty"}) :
                                 d = To(b, j, None)
      BY <2>3
    <3>2. PICK j \in (IF i \in Stacks /\ v.in[i] = b THEN Content(v, b) ELSE {"empty"}) :
            d = To(b, j, None)
      BY <3>1
    <3>3. v.in[b] # "nowhere" /\ j \in Content(v, b) \cup {"empty"}
      BY <3>1, <3>2, CarriedSomewhere
    <3>4. ASSUME v.in[i] = "nowhere"
          PROVE  Lands(v, d) /\ d.onto = None /\ (i \in Stacks => Within(v, d))
      <4>1. j = "empty" /\ "empty" \notin Items
        BY <3>2, <3>4, PlacesApart
      <4>2. Content(v, b) \ {i} = Content(v, b)
        BY <3>4, PlacesApart DEF Content
      <4> QED
        BY <3>1, <3>2, <3>3, <4>1, <4>2, PlacesApart DEF Lands, Within, To, Size
    <3> QED
      BY <3>1, <3>2, <3>3, <3>4 DEF To
  <2> DEFINE carried == {b \in Bags : Carried(v, b)}
             room(b) == IF i \in Stacks
                        THEN Mergeable(v, i, b) = {} /\ Cardinality(Content(v, b) \ {i}) < capacity[b]
                        ELSE Size(v, b) # capacity[b]
             at(b) == IF i \in Stacks /\ v.in[i] = b THEN Content(v, b) ELSE {"empty"}
             open == {b \in carried :
                        room(b) /\ QueryContainer(v, i, v.count[i], b, "empty") = "ok"}
  <2>4. \/ d \in UNION {{To(b, j, j) : j \in Mergeable(v, i, b)} : b \in carried}
        \/ d \in UNION {{To(b, j, None) : j \in at(b)} : b \in open}
    BY <2>1 DEF BagsFor
  <2>5. CASE d \in UNION {{To(b, j, j) : j \in Mergeable(v, i, b)} : b \in carried}
    <3>1. PICK b \in carried : d \in {To(b, j, j) : j \in Mergeable(v, i, b)}
      BY <2>5
    <3> QED
      BY <2>2, <3>1
  <2>6. CASE d \in UNION {{To(b, j, None) : j \in at(b)} : b \in open}
    <3>1. PICK b \in open : d \in {To(b, j, None) : j \in at(b)}
      BY <2>6
    <3>2. b \in Bags /\ Carried(v, b) /\ room(b)
      BY <3>1
    <3> QED
      BY <2>3, <3>1, <3>2
  <2> QED
    BY <2>4, <2>5, <2>6
<1> QED
  BY <1>1, <1>2

LEMMA LandsDestination ==
  ASSUME NEW v, OneEach(v), NEW i \in Items, NEW c \in Slots \cup Bags \cup {"tile", "player"},
         c \in Bags => v.in[c] # "nowhere",
         NEW at \in {"wherever"} \cup (IF c \in Bags THEN Content(v, c) \cup {"empty"} ELSE {}),
         NEW d \in Destinations(v, i, c, at)
  PROVE  Lands(v, d) /\ Within(v, d)
<1>1. ASSUME NEW b \in Bags, v.in[b] # "nowhere", NEW j \in Content(v, b) \cup {"wherever", "empty"},
             d \in Enter(v, i, b, j)
      PROVE  Lands(v, d) /\ Within(v, d)
  <2>1. CASE j \in Bags
    <3>1. v.in[j] # "nowhere" /\ d \in InContainer(v, i, j, "wherever")
      BY <1>1, <2>1, PlacesApart DEF Enter, Content
    <3> QED
      BY <2>1, <3>1, LandsInContainer
  <2>2. CASE j \notin Bags
    <3>1. d \in InContainer(v, i, b, j)
      BY <1>1, <2>2 DEF Enter
    <3> QED
      BY <1>1, <3>1, LandsInContainer
  <2> QED
    BY <2>1, <2>2
<1>2. CASE c = "player"
  <2>1. PICK e \in OnPlayer(v, i) : d \in (IF e.to \in Bags THEN Enter(v, i, e.to, e.at) ELSE {e})
    <3>1. Destinations(v, i, c, at) =
            UNION {IF e.to \in Bags THEN Enter(v, i, e.to, e.at) ELSE {e} : e \in OnPlayer(v, i)}
      BY <1>2, PlacesApart DEF Destinations
    <3> QED
      BY <3>1
  <2>2. CASE e.to \in Bags
    <3>1. v.in[e.to] # "nowhere" /\ e.at \in Content(v, e.to) \cup {"empty"}
      BY <2>2, LandsOnPlayer, PlacesApart
    <3> QED
      BY <1>1, <2>1, <2>2, <3>1
  <2>3. CASE e.to \notin Bags
    BY <2>1, <2>3, LandsOnPlayer
  <2> QED
    BY <2>2, <2>3
<1>3. CASE c \in Slots /\ Occupant(v, c) \in Bags
  <2>1. d \in InContainer(v, i, Occupant(v, c), "wherever")
    <3>1. c # "player"
      BY <1>3, PlacesApart
    <3>2. Destinations(v, i, c, at) = InContainer(v, i, Occupant(v, c), "wherever")
      BY PlacesApart, <1>3, <3>1 DEF Destinations
    <3> QED
      BY <3>2
  <2>2. v.in[Occupant(v, c)] = c
    BY <1>3, OccupantIs, PlacesApart, ItemsAssumption
  <2> QED
    BY <1>3, <2>1, <2>2, LandsInContainer, PlacesApart
<1>4. CASE c \in Slots /\ Occupant(v, c) \notin Bags
  <2>1. d = To(c, c, Occupant(v, c))
    BY <1>4, PlacesApart DEF Destinations
  <2> QED
    BY <1>4, <2>1, LandsSlot
<1>5. CASE c \in Bags
  <2>1. d \in Enter(v, i, c, at)
    BY <1>5, PlacesApart DEF Destinations
  <2>2. at \in Content(v, c) \cup {"wherever", "empty"}
    BY <1>5
  <2> QED
    BY <1>1, <1>5, <2>1, <2>2
<1>6. CASE c = "tile"
  <2>1. d \in OnTile(v)
    BY <1>6, PlacesApart DEF Destinations
  <2> QED
    BY <2>1, LandsOnTile
<1> QED
  BY <1>2, <1>3, <1>4, <1>5, <1>6

-----------------------------------------------------------------------------
(* How much fits                                                           *)

Good(v) == Sound(v, None) /\ Counted(v, None)

\* An item in some place of a good world.
LEMMA PlacedCount ==
  ASSUME NEW v, NEW h, v \in Worlds, Counted(v, h), NEW i \in Items \ {h}, v.in[i] # "nowhere"
  PROVE  v.count[i] \in 1..Most(i) /\ (i \in Stacks => Room(v, i) \in Nat /\ Room(v, i) < StackSize)
BY ItemsAssumption DEF Counted, Most, Room

LEMMA RoomsSum ==
  ASSUME NEW v \in Worlds, NEW S \in SUBSET Items, \A j \in S : Room(v, j) > 0
  PROVE  /\ SumFunctionOnSet(Rooms(v), S) \in Nat
         /\ \A j \in Items : S = {j} => SumFunctionOnSet(Rooms(v), S) = Room(v, j)
<1>1. IsFiniteSet(S)
  BY ItemsAssumption, FS_Subset
<1>2. \A j \in Items : Rooms(v)[j] = Room(v, j) /\ Room(v, j) \in Int
  BY ItemsAssumption DEF Rooms, Room, Worlds
<1>3. \A j \in S : Rooms(v)[j] \in Nat
  BY <1>2
<1>4. SumFunctionOnSet(Rooms(v), S) \in Nat
  BY <1>1, <1>3, SumNat
<1>5. ASSUME NEW j \in Items, S = {j} PROVE SumFunctionOnSet(Rooms(v), S) = Room(v, j)
  <2> DEFINE f == Rooms(v)
  <2>1. j \in S /\ S \ {j} = {} /\ f[j] = Room(v, j) /\ \A x \in S : f[x] \in Nat
    BY <1>2, <1>3, <1>5
  <2> HIDE DEF f
  <2>2. SumFunctionOnSet(f, S) = f[j] + SumFunctionOnSet(f, S \ {j})
    BY <1>1, <2>1, SumOut
  <2>3. SumFunctionOnSet(f, S \ {j}) = 0
    BY <2>1, SumEmpty
  <2>4. Room(v, j) \in Int
    BY <1>2
  <2> QED
    BY <2>1, <2>2, <2>3, <2>4 DEF f
<1> QED
  BY <1>4, <1>5

\* Into a container goes what its free slots hold and what merges.
LEMMA MaxInStack ==
  ASSUME NEW v \in Worlds, NEW i \in Stacks, NEW b \in Bags, NEW at
  PROVE  /\ MaxIn(v, i, b, at) \in Nat
         /\ Size(v, b) < capacity[b] => MaxIn(v, i, b, at) >= StackSize
         /\ Size(v, b) >= capacity[b] /\ at \in Items /\ MaxIn(v, i, b, at) # 0 =>
              /\ kind[at] = kind[i]
              /\ MaxIn(v, i, b, at) = Room(v, at)
<1> DEFINE free  == IF capacity[b] > Size(v, b) THEN capacity[b] - Size(v, b) ELSE 0
           onto  == IF at = "wherever" THEN Mergeable(v, i, b)
                    ELSE {j \in {at} \cap Items : Equals(i, j) /\ i \in Stacks /\ Room(v, j) > 0}
           takes == {j \in onto : QueryContainer(v, i, Room(v, j), b, j) = "ok"}
           sum   == SumFunctionOnSet(Rooms(v), takes)
<1>1. MaxIn(v, i, b, at) = free * StackSize + sum
  BY DEF MaxIn
<1>2. free \in Nat /\ (Size(v, b) < capacity[b] => free >= 1) /\ (Size(v, b) >= capacity[b] => free = 0)
  BY SizeNat, CapacityNat
<1>3. takes \in SUBSET Items /\ \A j \in takes : Room(v, j) > 0
  BY DEF Mergeable, Content
<1>4. at \in Items => takes = {} \/ (takes = {at} /\ Equals(i, at))
  <2> SUFFICES ASSUME at \in Items, takes # {} PROVE takes = {at} /\ Equals(i, at)
    OBVIOUS
  <2>1. onto = {j \in {at} \cap Items : Equals(i, j) /\ i \in Stacks /\ Room(v, j) > 0}
    BY PlacesApart
  <2>2. takes \subseteq onto
    OBVIOUS
  <2> HIDE DEF takes, onto
  <2> QED
    BY <2>1, <2>2
<1> HIDE DEF takes, onto
<1>5. sum \in Nat /\ \A j \in Items : takes = {j} => sum = Room(v, j)
  BY <1>3, RoomsSum
<1>6. takes = {} => sum = 0
  BY SumEmpty
<1> HIDE DEF sum, free
<1>7. StackSize \in Nat /\ free * StackSize \in Nat /\ (free >= 1 => free * StackSize >= StackSize)
      /\ (free = 0 => free * StackSize = 0)
  <2>1. StackSize \in Nat
    BY ItemsAssumption
  <2> QED
    BY <1>2, <2>1
<1>8. MaxIn(v, i, b, at) \in Nat
  BY <1>1, <1>5, <1>7
<1>9. Size(v, b) < capacity[b] => MaxIn(v, i, b, at) >= StackSize
  BY <1>1, <1>2, <1>5, <1>7
<1>10. ASSUME Size(v, b) >= capacity[b], at \in Items, MaxIn(v, i, b, at) # 0
       PROVE  kind[at] = kind[i] /\ MaxIn(v, i, b, at) = Room(v, at)
  <2>1. MaxIn(v, i, b, at) = sum
    BY <1>1, <1>2, <1>5, <1>7, <1>10
  <2>2. takes = {at} /\ Equals(i, at)
    BY <1>4, <1>6, <1>10, <2>1
  <2> QED
    BY <1>5, <1>10, <2>1, <2>2 DEF Equals
<1> QED
  BY <1>8, <1>9, <1>10

\* A container that takes an item is not in it, and one with all its slots taken takes
\* nothing wherever.
LEMMA TakesIs ==
  ASSUME NEW v, NEW i, NEW n, NEW d, Lands(v, d), QueryAdd(v, i, n, d.to, d.at) = "ok", d.to \in Bags
  PROVE  /\ i # d.to /\ i \notin Around(v, d.to)
         /\ d.at = "wherever" => Size(v, d.to) < capacity[d.to]
<1>1. QueryAdd(v, i, n, d.to, d.at) = QueryContainer(v, i, n, d.to, d.at)
  BY PlacesApart DEF QueryAdd
<1>2. Takes(v, i, d.to, d.at)
  BY <1>1 DEF QueryContainer
<1> QED
  BY <1>2 DEF Takes

\* A slot that takes an item is empty or holds a stack of its kind.
LEMMA SlotTakesIs ==
  ASSUME NEW v, OneEach(v), NEW i \in Items, NEW n, NEW s \in Slots, NEW at, QueryAdd(v, i, n, s, at) = "ok"
  PROVE  \/ Content(v, s) = {} /\ Occupant(v, s) = None
         \/ Occupant(v, s) \in Stacks /\ kind[Occupant(v, s)] = kind[i] /\ i \in Stacks
<1>1. QueryAdd(v, i, n, s, at) = QueryPlayer(v, i, n, s)
  BY PlacesApart DEF QueryAdd
<1>2. Occupant(v, s) # None => Occupant(v, s) \in Stacks /\ kind[Occupant(v, s)] = kind[i]
  <2> DEFINE o == Occupant(v, s)
  <2>1. QueryPlayer(v, i, n, s) = IF s \notin fits[i] THEN "no"
          ELSE IF o # None /\ (o \notin Stacks \/ kind[o] # kind[i]) THEN "exchange"
          ELSE IF HasCapacity(v, i, n) THEN "ok" ELSE "no"
    BY DEF QueryPlayer
  <2>2. QueryPlayer(v, i, n, s) = "ok"
    BY <1>1
  <2>3. ~(o # None /\ (o \notin Stacks \/ kind[o] # kind[i]))
    <3> HIDE DEF o
    <3> QED
      BY <2>1, <2>2
  <2> QED
    BY <2>3
<1> QED
  BY <1>2, OccupantIs, ItemsAssumption

\* What is left of a stack after merging moves whole and finds a free slot.
LEMMA FitsStack ==
  ASSUME NEW v, Good(v), NEW i \in Stacks, NEW n \in 1..StackSize, NEW d, Lands(v, d), Within(v, d),
         d.onto # i, QueryAdd(v, i, n, d.to, d.at) = "ok",
         NEW most, most = MaxCount(v, i, n, d.to, d.at), most # 0,
         NEW m, m = Least(n, most), NEW k, k = Merges(v, i, m, d.onto)
  PROVE  /\ most \in Nat /\ m \in 1..n /\ k \in 0..m
         /\ k > 0 => /\ d.onto \in Stacks /\ kind[d.onto] = kind[i]
                     /\ v.count[d.onto] + k <= StackSize
         /\ m > k => /\ m = n
                     /\ d.to \in Slots => Content(v, d.to) = {}
                     /\ d.to \in Bags => Size(v, d.to) < capacity[d.to]
<1>0. v \in Worlds /\ OneEach(v) /\ Counted(v, None) /\ i \in Items /\ StackSize \in Nat
  BY ItemsAssumption DEF Good, Sound
<1>1. d.onto # None => /\ d.onto \in Items /\ v.in[d.onto] = d.to /\ v.in[d.onto] # "nowhere"
                       /\ d.onto \in Stacks => Room(v, d.onto) \in Nat
                       /\ Room(v, d.onto) = StackSize - v.count[d.onto]
                       /\ v.count[d.onto] \in Nat
  <2> SUFFICES ASSUME d.onto # None
               PROVE  /\ d.onto \in Items /\ v.in[d.onto] = d.to /\ v.in[d.onto] # "nowhere"
                      /\ d.onto \in Stacks => Room(v, d.onto) \in Nat
                      /\ Room(v, d.onto) = StackSize - v.count[d.onto]
                      /\ v.count[d.onto] \in Nat
    OBVIOUS
  <2>1. d.onto \in Items /\ v.in[d.onto] = d.to /\ v.in[d.onto] # "nowhere"
    BY PlacesApart DEF Lands
  <2>2. d.onto \in Stacks => Room(v, d.onto) \in Nat
    BY <1>0, <2>1, PlacedCount
  <2> QED
    BY <1>0, <2>1, <2>2 DEF Room, Worlds
<1>2. Equals(i, d.onto) => /\ d.onto # None /\ d.onto \in Stacks /\ kind[d.onto] = kind[i]
                           /\ k = Least(Room(v, d.onto), m)
  BY <1>0, <1>1, ItemsAssumption DEF Equals, Merges
<1>3. ~Equals(i, d.onto) => k = 0
  BY DEF Merges
<1>4. CASE d.to \in Slots
  <2>1. most = MaxSlot(v, i, n, d.to) /\ d.onto = Occupant(v, d.to) /\ QueryPlayer(v, i, n, d.to) = "ok"
    BY <1>4, PlacesApart DEF MaxCount, Lands, QueryAdd
  <2>2. CASE d.onto = None
    <3>1. most = StackSize /\ Content(v, d.to) = {} /\ ~Equals(i, d.onto)
      <4>1. Content(v, d.to) = {}
        <5>1. Occupant(v, d.to) \notin Items
          BY <2>1, <2>2, ItemsAssumption
        <5> QED
          BY <1>0, <1>4, <5>1, OccupantIs
      <4>2. ~Equals(i, d.onto)
        BY <2>2 DEF Equals
      <4>3. most = StackSize
        BY <2>1, <2>2 DEF MaxSlot
      <4> QED
        BY <4>1, <4>2, <4>3
    <3> QED
      BY <1>0, <1>3, <1>4, <2>2, <3>1, PlacesApart DEF Least
  <2>3. CASE d.onto # None
    <3>1. Equals(i, d.onto) /\ most = Room(v, d.onto)
      BY <2>1, <2>3 DEF MaxSlot
    <3> QED
      BY <1>0, <1>1, <1>2, <2>3, <3>1 DEF Least
  <2> QED
    BY <2>2, <2>3
<1>5. CASE d.to \in Bags
  <2>1. most = MaxIn(v, i, d.to, d.at)
    BY <1>5, PlacesApart DEF MaxCount
  <2>2. most \in Nat /\ (Size(v, d.to) < capacity[d.to] => most >= StackSize)
    BY <1>0, <1>5, <2>1, MaxInStack
  <2>3. m \in 1..n /\ k \in 0..m /\ (Equals(i, d.onto) => k <= Room(v, d.onto))
    BY <1>0, <1>1, <1>2, <1>3, <2>2 DEF Least
  <2>4. k > 0 => /\ d.onto \in Stacks /\ kind[d.onto] = kind[i]
                 /\ v.count[d.onto] + k <= StackSize
    BY <1>0, <1>1, <1>2, <1>3, <2>3
  <2>5. CASE Size(v, d.to) < capacity[d.to]
    BY <1>0, <1>5, <2>2, <2>3, <2>4, <2>5, PlacesApart DEF Least
  <2>6. CASE ~(Size(v, d.to) < capacity[d.to])
    <3>1. Size(v, d.to) >= capacity[d.to]
      BY <1>5, <2>6, SizeNat, CapacityNat
    <3>2. d.at \in Items /\ d.onto = d.at
      BY <1>5, <2>6, TakesIs DEF Lands, Within
    <3>3. kind[d.at] = kind[i] /\ most = Room(v, d.at)
      BY <1>0, <1>5, <2>1, <3>1, <3>2, MaxInStack
    <3>4. Equals(i, d.onto)
      BY <3>2, <3>3, ItemsAssumption DEF Equals
    <3>5. k = m
      BY <1>0, <1>1, <1>2, <2>2, <3>2, <3>3, <3>4 DEF Least
    <3> QED
      BY <1>0, <2>2, <2>3, <2>4, <3>5
  <2> QED
    BY <2>5, <2>6
<1>6. CASE d.to = "tile"
  <2>1. most = IF n > 1 THEN n ELSE 1
    BY <1>6, PlacesApart DEF MaxCount
  <2>2. most = n
    BY <1>0, <2>1
  <2>3. m = n
    BY <1>0, <2>2 DEF Least
  <2>4. k \in 0..m /\ (Equals(i, d.onto) => k <= Room(v, d.onto))
    BY <1>0, <1>1, <1>2, <1>3, <2>3 DEF Least
  <2> QED
    BY <1>0, <1>1, <1>2, <1>3, <1>6, <2>2, <2>3, <2>4, PlacesApart
<1> QED
  BY <1>4, <1>5, <1>6 DEF Lands

\* What is no stack finds a free slot.
LEMMA FitsSingle ==
  ASSUME NEW v, Good(v), NEW i \in Items \ Stacks, NEW n, NEW d, Lands(v, d),
         QueryAdd(v, i, n, d.to, d.at) = "ok"
  PROVE  /\ d.to \in Slots => Content(v, d.to) = {}
         /\ d.to \in Bags /\ MaxCount(v, i, n, d.to, d.at) # 0 => Size(v, d.to) < capacity[d.to]
<1>1. d.to \in Slots => Content(v, d.to) = {}
  BY SlotTakesIs DEF Good, Sound
<1>2. ASSUME d.to \in Bags, MaxCount(v, i, n, d.to, d.at) # 0 PROVE Size(v, d.to) < capacity[d.to]
  <2>1. MaxCount(v, i, n, d.to, d.at) = MaxIn(v, i, d.to, d.at)
    BY <1>2, PlacesApart DEF MaxCount
  <2> QED
    BY <1>2, <2>1, SizeNat, CapacityNat DEF MaxIn
<1> QED
  BY <1>1, <1>2

-----------------------------------------------------------------------------
(* internalMoveItem                                                        *)

LEMMA SetCountAll ==
  ASSUME NEW v, NEW h, Sound(v, h), NEW i \in Items, NEW n \in Nat, NEW k
  PROVE  All(SetCount(v, i, n), k) = All(v, k) + (IF kind[i] = k THEN n - v.count[i] ELSE 0)
<1>1. v \in Worlds /\ SetCount(v, i, n).count = [v.count EXCEPT ![i] = n]
  BY SetCountIs DEF Sound
<1> QED
  BY <1>1, AllChange

\* A slot of a container, of the player or of the tile is free for an item.
Space(v, d) ==
  /\ d.to \in Slots => Content(v, d.to) = {}
  /\ d.to \in Bags => Size(v, d.to) < capacity[d.to] /\ v.in[d.to] # "nowhere"
  /\ d.to \in Slots \cup Bags \cup {"tile"}

\* An item is added where there is space.
LEMMA AddThingIs ==
  ASSUME NEW v, NEW i, NEW d, Space(v, d)
  PROVE  AddThing(v, d.to, d.at, i) = PutIn(v, i, d.to)
BY SizeNat, CapacityNat DEF AddThing, Space

LEMMA AddCloneIs ==
  ASSUME NEW v, Sound(v, None), NEW j \in Items \ Bags, v.in[j] = "nowhere", NEW n \in Nat,
         NEW d, Space(v, d), NEW P, d.to \in P
  PROVE  /\ AddClone(v, j, n, d).in = [v.in EXCEPT ![j] = d.to]
         /\ AddClone(v, j, n, d).count = [v.count EXCEPT ![j] = n]
         /\ Stirs(v, AddClone(v, j, n, d), P)
<1> DEFINE u == SetCount(v, j, n)
<1>0. v \in Worlds /\ j \in Items
  BY DEF Sound
<1>1. u = [v EXCEPT !.count[j] = n]
  BY <1>0, SetCountNowhere
<1>2. Stirs(v, u, P)
  BY <1>0, StirsSetCount
<1>3. u.in = v.in /\ u.count = [v.count EXCEPT ![j] = n] /\ Sound(u, None)
  BY <1>0, <1>2, SetCountIs DEF Stirs
<1>4. AddClone(v, j, n, d) = AddThing(u, d.to, d.at, j)
  BY <1>1 DEF AddClone
<1> HIDE DEF u
<1>5. Space(u, d)
  BY <1>3 DEF Space, Content, Size
<1>6. AddClone(v, j, n, d) = PutIn(u, j, d.to)
  BY <1>4, <1>5, AddThingIs
<1>7. Free(u, j, d.to)
  <2>1. d.to \in Bags => j \notin Around(u, d.to) \cup {d.to}
    BY AroundClosed
  <2> QED
    BY <1>5, <2>1, PlacesApart DEF Free, Space, Places
<1>8. Stirs(u, PutIn(u, j, d.to), P)
  BY <1>3, <1>7, StirsPutIn
<1>9. PutIn(u, j, d.to).in = [u.in EXCEPT ![j] = d.to] /\ PutIn(u, j, d.to).count = u.count
  <2>1. Sound(u, j)
    BY <1>3, SoundAnyHand
  <2> QED
    BY <1>0, <1>3, <1>7, <2>1, PutInPlaces
<1> QED
  BY <1>2, <1>3, <1>6, <1>8, <1>9, StirsTransitive

\* m pieces of a stack are taken away.
LEMMA RemoveStackIs ==
  ASSUME NEW v, Good(v), NEW i \in Stacks, v.in[i] # "nowhere", NEW m \in 1..v.count[i],
         NEW P, v.in[i] \in P
  PROVE  /\ Stirs(v, RemoveThing(v, i, m), P)
         /\ RemoveThing(v, i, m).in = IF m = v.count[i] THEN [v.in EXCEPT ![i] = "nowhere"] ELSE v.in
         /\ RemoveThing(v, i, m).count =
              IF m = v.count[i] THEN v.count ELSE [v.count EXCEPT ![i] = v.count[i] - m]
<1>0. Sound(v, None) /\ v \in Worlds /\ i \in Items \ Bags /\ v.count[i] \in Nat
  BY ItemsAssumption DEF Good, Sound, Worlds
<1>1. CASE m = v.count[i]
  <2>1. RemoveThing(v, i, m) = TakeOut(v, i)
    BY <1>1 DEF RemoveThing
  <2>2. Stirs(v, TakeOut(v, i), P)
    BY <1>0, StirsTakeOut
  <2>3. TakeOut(v, i).in = [v.in EXCEPT ![i] = "nowhere"] /\ TakeOut(v, i).count = v.count
    BY <1>0, TakeOutIs
  <2> QED
    BY <1>1, <2>1, <2>2, <2>3
<1>2. CASE m # v.count[i]
  <2> DEFINE n == v.count[i] - m
  <2>1. RemoveThing(v, i, m) = SetCount(v, i, n) /\ n \in Nat
    BY <1>0, <1>2 DEF RemoveThing
  <2>2. Stirs(v, SetCount(v, i, n), P)
    BY <1>0, <2>1, StirsSetCount
  <2>3. SetCount(v, i, n).in = v.in /\ SetCount(v, i, n).count = [v.count EXCEPT ![i] = n]
    BY <1>0, <2>1, SetCountIs
  <2> QED
    BY <1>2, <2>1, <2>2, <2>3
<1> QED
  BY <1>1, <1>2

\* k of them merge with another stack, and a stack of which nothing is left is released.
LEMMA MergedIs ==
  ASSUME NEW v, Good(v), NEW i \in Stacks, v.in[i] # "nowhere", NEW m \in 1..v.count[i],
         NEW j, NEW k \in 0..m,
         k > 0 => /\ j \in Stacks \ {i} /\ v.in[j] # "nowhere" /\ kind[j] = kind[i]
                  /\ v.count[j] + k <= StackSize,
         NEW P, v.in[i] \in P, k > 0 => v.in[j] \in P,
         NEW u, u = Released(Merged(RemoveThing(v, i, m), j, k), i)
  PROVE  /\ Stirs(v, u, P)
         /\ u.in = IF m = v.count[i] THEN [v.in EXCEPT ![i] = "nowhere"] ELSE v.in
         /\ Counted(u, None)
         /\ \A s : All(u, s) = All(v, s) + (IF kind[i] = s THEN k - m ELSE 0)
<1> DEFINE a == RemoveThing(v, i, m)
           b == Merged(a, j, k)
<1>0. /\ Sound(v, None) /\ v \in Worlds /\ Counted(v, None)
      /\ i \in Items \ Bags /\ v.count[i] \in Nat /\ v.in \in [Items -> Places] /\ v.count \in [Items -> Nat]
      /\ i # None
  BY ItemsAssumption DEF Good, Sound, Worlds
<1>1. /\ Stirs(v, a, P)
      /\ a.in = IF m = v.count[i] THEN [v.in EXCEPT ![i] = "nowhere"] ELSE v.in
      /\ a.count = IF m = v.count[i] THEN v.count ELSE [v.count EXCEPT ![i] = v.count[i] - m]
  BY RemoveStackIs
<1>2. \A s : All(a, s) = All(v, s) + (IF kind[i] = s /\ m # v.count[i] THEN -m ELSE 0)
  <2> TAKE s
  <2>1. CASE m = v.count[i]
    BY <1>0, <1>1, <2>1, AllNat DEF All
  <2>2. CASE m # v.count[i]
    <3>1. a.count = [v.count EXCEPT ![i] = v.count[i] - m] /\ v.count[i] - m \in Nat
      BY <1>0, <1>1, <2>2
    <3>2. All(a, s) = All(v, s) + (IF kind[i] = s THEN (v.count[i] - m) - v.count[i] ELSE 0)
      BY <1>0, <3>1, AllChange
    <3> QED
      BY <1>0, <2>2, <3>2, AllNat
  <2> QED
    BY <2>1, <2>2
<1> HIDE DEF a
<1>3. /\ Stirs(a, b, P) /\ b.in = a.in
      /\ b.count = IF k > 0 THEN [a.count EXCEPT ![j] = a.count[j] + k] ELSE a.count
      /\ \A s : All(b, s) = All(a, s) + (IF kind[i] = s THEN k ELSE 0)
  <2>0. Sound(a, None) /\ a \in Worlds
    BY <1>1 DEF Stirs, Sound
  <2>1. CASE k > 0
    <3>1. j \in Items /\ a.count[j] + k \in Nat /\ a.in[j] \in P
      BY <1>0, <1>1, <2>1, ItemsAssumption
    <3>2. b = SetCount(a, j, a.count[j] + k)
      BY <2>1 DEF Merged
    <3>3. Stirs(a, b, P)
      BY <2>0, <3>1, <3>2, StirsSetCount
    <3>4. b.in = a.in /\ b.count = [a.count EXCEPT ![j] = a.count[j] + k]
      BY <2>0, <3>1, <3>2, SetCountIs
    <3>5. ASSUME NEW s PROVE All(b, s) = All(a, s) + (IF kind[i] = s THEN k ELSE 0)
      <4>1. All(b, s) = All(a, s) + (IF kind[j] = s THEN (a.count[j] + k) - a.count[j] ELSE 0)
        BY <2>0, <3>1, <3>2, SetCountAll
      <4>2. a.count[j] \in Nat /\ All(a, s) \in Nat
        BY <2>0, <3>1, AllNat DEF Worlds
      <4> QED
        BY <2>1, <4>1, <4>2
    <3> QED
      BY <2>1, <3>3, <3>4, <3>5
  <2>2. CASE ~(k > 0)
    <3>1. b = a
      BY <2>2 DEF Merged
    <3> HIDE DEF b
    <3> QED
      BY <2>0, <2>2, <3>1, AllNat DEF Stirs
  <2> QED
    BY <2>1, <2>2
<1> HIDE DEF b
<1>4. /\ Stirs(b, u, P) /\ u.in = b.in
      /\ u.count = IF m = v.count[i] THEN [b.count EXCEPT ![i] = 0] ELSE b.count
  <2>0. Sound(b, None) /\ b \in Worlds
    BY <1>3 DEF Stirs, Sound
  <2>1. CASE m = v.count[i]
    <3>1. b.in[i] = "nowhere"
      BY <1>0, <1>1, <1>3, <2>1
    <3>2. u = [b EXCEPT !.count[i] = 0]
      <4>1. u = Released(b, i)
        BY DEF a, b
      <4> QED
        BY <3>1, <4>1 DEF Released
    <3>3. u = SetCount(b, i, 0)
      BY <1>0, <2>0, <3>1, <3>2, SetCountNowhere
    <3> QED
      BY <1>0, <2>0, <2>1, <3>1, <3>3, StirsSetCount, SetCountIs
  <2>2. CASE m # v.count[i]
    <3>1. u = b
      <4>1. u = Released(b, i)
        BY DEF a, b
      <4>2. b.in[i] # "nowhere"
        BY <1>1, <1>3, <2>2
      <4> QED
        BY <4>1, <4>2 DEF Released
    <3> QED
      BY <2>0, <2>2, <3>1 DEF Stirs
  <2> QED
    BY <2>1, <2>2
<1>5. Stirs(v, u, P)
  BY <1>1, <1>3, <1>4, StirsTransitive
<1>6. u.in = IF m = v.count[i] THEN [v.in EXCEPT ![i] = "nowhere"] ELSE v.in
  BY <1>1, <1>3, <1>4
<1>7. \A s : All(u, s) = All(v, s) + (IF kind[i] = s THEN k - m ELSE 0)
  <2> TAKE s
  <2>0. b \in Worlds /\ All(v, s) \in Nat /\ i \in Items
    BY <1>0, <1>3, AllNat DEF Stirs, Sound
  <2>1. CASE m = v.count[i]
    <3>1. u.count = [b.count EXCEPT ![i] = 0]
      BY <1>4, <2>1
    <3>2. All(u, s) = All(b, s) + (IF kind[i] = s THEN 0 - b.count[i] ELSE 0)
      BY <2>0, <3>1, AllChange
    <3>3. b.count[i] = m
      BY <1>0, <1>1, <1>3, <2>1
    <3> QED
      BY <1>2, <1>3, <2>0, <2>1, <3>2, <3>3
  <2>2. CASE m # v.count[i]
    <3>1. All(u, s) = All(b, s)
      BY <1>4, <2>2 DEF All
    <3> QED
      BY <1>2, <1>3, <2>0, <2>2, <3>1
  <2> QED
    BY <2>1, <2>2
<1>8. ASSUME NEW x \in Items
      PROVE  u.count[x] = IF x = i THEN v.count[i] - m
                          ELSE IF k > 0 /\ x = j THEN v.count[j] + k ELSE v.count[x]
  BY <1>0, <1>1, <1>3, <1>4
<1>9. Counted(u, None)
  <2> SUFFICES ASSUME NEW x \in Items
               PROVE  IF u.in[x] = "nowhere" THEN u.count[x] = 0 ELSE u.count[x] \in 1..Most(x)
    BY DEF Counted
  <2>1. IF v.in[x] = "nowhere" THEN v.count[x] = 0 ELSE v.count[x] \in 1..Most(x)
    BY <1>0, ItemsAssumption DEF Counted
  <2>2. Most(x) \in Nat
    BY MostNat
  <2>3. CASE x = i
    BY <1>0, <1>6, <1>8, <2>1, <2>2, <2>3
  <2>4. CASE x # i /\ k > 0 /\ x = j
    <3>1. Most(x) = StackSize /\ u.in[x] # "nowhere"
      BY <1>0, <1>6, <2>4 DEF Most
    <3> QED
      BY <1>8, <2>1, <2>4, <3>1, ItemsAssumption
  <2>5. CASE x # i /\ ~(k > 0 /\ x = j)
    BY <1>0, <1>6, <1>8, <2>1, <2>5
  <2> QED
    BY <2>3, <2>4, <2>5
<1> QED
  BY <1>5, <1>6, <1>7, <1>9

\* From v to u nothing is lost or doubled, and the player who knew his burden knows it.
Arranged(v, u) ==
  /\ Good(u)
  /\ \A k : All(u, k) = All(v, k)
  /\ v.burden = Load(v) => u.burden = Load(u)

LEMMA ArrangedSame ==
  ASSUME NEW v, Good(v)
  PROVE  Arranged(v, v) /\ Roomy(v, v)
BY RoomyFewer DEF Arranged

\* The rest of a stack is a clone in a free slot.
LEMMA AddRestIs ==
  ASSUME NEW v, Sound(v, None), Counted(v, None), NEW i \in Stacks, NEW n \in 0..StackSize, NEW d,
         n > 0 => Space(v, d) /\ (v.in[i] = "nowhere" \/ Spare(v, kind[i]) # {}),
         NEW P, d.to \in P
  PROVE  /\ Stirs(v, AddRest(v, i, n, d), P)
         /\ Counted(AddRest(v, i, n, d), None)
         /\ \A k : All(AddRest(v, i, n, d), k) = All(v, k) + (IF kind[i] = k THEN n ELSE 0)
         /\ Roomy(v, AddRest(v, i, n, d))
<1>0. /\ v \in Worlds /\ v.in \in [Items -> Places] /\ v.count \in [Items -> Nat]
      /\ i \in Items /\ StackSize \in Nat
  BY ItemsAssumption DEF Sound, Worlds
<1>1. CASE n = 0
  <2>1. AddRest(v, i, n, d) = v
    BY <1>1 DEF AddRest
  <2>2. \A k : All(v, k) \in Nat
    BY <1>0, AllNat
  <2> QED
    BY <1>1, <2>1, <2>2, RoomyFewer DEF Stirs
<1>2. CASE n # 0
  <2> DEFINE j == Clone(v, i)
             u == AddClone(v, j, n, d)
  <2>1. n > 0 /\ n \in Nat /\ AddRest(v, i, n, d) = u
    BY <1>0, <1>2 DEF AddRest
  <2>2. j \in Items /\ v.in[j] = "nowhere" /\ kind[j] = kind[i]
    <3>1. CASE v.in[i] = "nowhere"
      BY <1>0, <3>1 DEF Clone
    <3>2. CASE v.in[i] # "nowhere"
      <4>1. j \in Spare(v, kind[i])
        BY <2>1, <3>2 DEF Clone
      <4> QED
        BY <4>1 DEF Spare, Content
    <3> QED
      BY <3>1, <3>2
  <2>3. j \in Stacks /\ j \in Items \ Bags
    BY <1>0, <2>2, ItemsAssumption
  <2> HIDE DEF j
  <2>4. /\ u.in = [v.in EXCEPT ![j] = d.to]
        /\ u.count = [v.count EXCEPT ![j] = n]
        /\ Stirs(v, u, P)
    BY <2>1, <2>2, <2>3, AddCloneIs
  <2> HIDE DEF u
  <2>5. v.count[j] = 0
    BY <2>2, ItemsAssumption DEF Counted
  <2>6. d.to # "nowhere"
    BY <2>1, PlacesApart DEF Space
  <2>7. Counted(u, None)
    <3> SUFFICES ASSUME NEW x \in Items
                 PROVE  IF u.in[x] = "nowhere" THEN u.count[x] = 0 ELSE u.count[x] \in 1..Most(x)
      BY DEF Counted
    <3>1. IF v.in[x] = "nowhere" THEN v.count[x] = 0 ELSE v.count[x] \in 1..Most(x)
      BY ItemsAssumption DEF Counted
    <3>2. CASE x = j
      BY <1>0, <2>1, <2>3, <2>4, <2>6, <3>2 DEF Most
    <3>3. CASE x # j
      BY <1>0, <2>4, <3>1, <3>3
    <3> QED
      BY <3>2, <3>3
  <2>8. ASSUME NEW k PROVE All(u, k) = All(v, k) + (IF kind[i] = k THEN n ELSE 0)
    <3>1. All(u, k) = All(v, k) + (IF kind[j] = k THEN n - v.count[j] ELSE 0)
      BY <1>0, <2>1, <2>2, <2>4, AllChange
    <3> QED
      BY <2>1, <2>2, <2>5, <3>1
  <2>9. Roomy(v, u)
    <3>1. d.to \in Bags => Size(v, d.to) < capacity[d.to]
      BY <2>1 DEF Space
    <3> QED
      <4>1. \A b \in Bags : IF b = d.to THEN Content(u, b) \subseteq Content(v, b) \cup {j}
                           ELSE Content(u, b) \subseteq Content(v, b)
        BY <1>0, <2>2, <2>4 DEF Content
      <4>2. \A b \in Bags : \/ Content(u, b) \subseteq Content(v, b)
                            \/ Size(v, b) < capacity[b] /\ Content(u, b) \subseteq Content(v, b) \cup {j}
        BY <3>1, <4>1
      <4> QED
        BY <4>2, RoomyPutIn
  <2> QED
    BY <2>1, <2>4, <2>7, <2>8, <2>9
<1> QED
  BY <1>1, <1>2

LEMMA MovedStack ==
  ASSUME NEW v, Good(v), NEW i \in Stacks, v.in[i] # "nowhere", NEW n \in 1..v.count[i],
         n < v.count[i] => Spare(v, kind[i]) # {},
         NEW d, Lands(v, d), Within(v, d), d.onto # i, QueryAdd(v, i, n, d.to, d.at) = "ok"
  PROVE  Arranged(v, Moved(v, i, n, d)) /\ Roomy(v, Moved(v, i, n, d))
<1> DEFINE most == MaxCount(v, i, n, d.to, d.at)
           m == Least(n, most)
           P == {v.in[i], d.to}
<1>0. /\ Sound(v, None) /\ Counted(v, None) /\ v \in Worlds /\ v.in \in [Items -> Places]
      /\ v.count \in [Items -> Nat] /\ i \in Items /\ StackSize \in Nat /\ i # None
  BY ItemsAssumption DEF Good, Sound, Worlds
<1>1. CASE most = 0
  <2>1. Moved(v, i, n, d) = v
    BY <1>1 DEF Moved
  <2> QED
    BY <2>1, ArrangedSame
<1>2. CASE most # 0
  <2> DEFINE a == RemoveThing(v, i, m)
             k == Merges(v, i, m, d.onto)
             b == Released(Merged(a, d.onto, k), i)
             u == AddRest(b, i, m - k, d)
  <2>1. v.count[i] \in 1..StackSize /\ n \in 1..StackSize
    <3>1. v.count[i] \in 1..StackSize
      BY <1>0, PlacedCount DEF Most
    <3> QED
      BY <1>0, <3>1
  <2>2. /\ m \in 1..n /\ k \in 0..m
        /\ k > 0 => /\ d.onto \in Stacks /\ kind[d.onto] = kind[i] /\ v.count[d.onto] + k <= StackSize
        /\ m > k => /\ m = n
                    /\ d.to \in Slots => Content(v, d.to) = {}
                    /\ d.to \in Bags => Size(v, d.to) < capacity[d.to]
    <3> HIDE DEF most, m, k
    <3>1. most = MaxCount(v, i, n, d.to, d.at) /\ m = Least(n, most) /\ k = Merges(v, i, m, d.onto)
      BY DEF most, m, k
    <3> QED
      BY <1>2, <2>1, <3>1, FitsStack
  <2>3. Moved(v, i, n, d) = Notify(Deliver(a, i, m, d), P)
    BY <1>2 DEF Moved
  <2> HIDE DEF most, m
  <2>4. m \in 1..v.count[i]
    BY <1>0, <2>1, <2>2
  <2>5. a.in = (IF m = v.count[i] THEN [v.in EXCEPT ![i] = "nowhere"] ELSE v.in)
        /\ a.count = (IF m = v.count[i] THEN v.count ELSE [v.count EXCEPT ![i] = v.count[i] - m])
    <3> HIDE DEF P
    <3>1. v.in[i] \in P
      BY DEF P
    <3>2. /\ Stirs(v, a, P)
          /\ a.in = IF m = v.count[i] THEN [v.in EXCEPT ![i] = "nowhere"] ELSE v.in
          /\ a.count = IF m = v.count[i] THEN v.count ELSE [v.count EXCEPT ![i] = v.count[i] - m]
      BY <2>4, <3>1, RemoveStackIs
    <3> QED
      BY <3>2
  <2>6. Merges(a, i, m, d.onto) = k
    <3>1. d.onto # None => a.count[d.onto] = v.count[d.onto]
      BY <1>0, <2>5 DEF Lands
    <3> QED
      BY <3>1 DEF Merges, Room, Equals
  <2>7. Deliver(a, i, m, d) = u
    BY <2>6 DEF Deliver
  <2> HIDE DEF k
  <2>8. k > 0 => d.onto \in Stacks \ {i} /\ v.in[d.onto] = d.to /\ v.in[d.onto] # "nowhere"
    <3>1. d.to # "nowhere"
      BY PlacesApart DEF Lands
    <3> QED
      BY <2>2, <3>1, ItemsAssumption DEF Lands
  <2>9. /\ Stirs(v, b, P)
        /\ b.in = IF m = v.count[i] THEN [v.in EXCEPT ![i] = "nowhere"] ELSE v.in
        /\ Counted(b, None)
        /\ \A s : All(b, s) = All(v, s) + (IF kind[i] = s THEN k - m ELSE 0)
    <3> HIDE DEF b, P
    <3>1. b = Released(Merged(RemoveThing(v, i, m), d.onto, k), i) /\ v.in[i] \in P /\ d.to \in P
      BY DEF b, P
    <3> QED
      <4> DEFINE j == d.onto
      <4>1. k \in 0..m /\ (k > 0 => /\ j \in Stacks \ {i} /\ v.in[j] # "nowhere" /\ kind[j] = kind[i]
                                     /\ v.count[j] + k <= StackSize)
            /\ (k > 0 => v.in[j] \in P)
        BY <2>2, <2>8, <3>1
      <4>2. b = Released(Merged(RemoveThing(v, i, m), j, k), i)
        BY <3>1
      <4> HIDE DEF j
      <4> QED
        BY <2>4, <3>1, <4>1, <4>2, MergedIs
  <2> HIDE DEF a, b
  <2>10. /\ Sound(b, None) /\ Roomy(v, b) /\ \A c \in Bags : Size(b, c) <= Size(v, c)
         /\ \A c \in Slots \cup Bags : Content(b, c) \subseteq Content(v, c)
    <3>1. \A c \in Slots \cup Bags : Content(b, c) \subseteq Content(v, c)
      BY <1>0, <2>9, PlacesApart DEF Content
    <3> QED
      BY <2>9, <3>1, RoomyFewer DEF Stirs
  <2>11. m - k \in 0..StackSize
    BY <1>0, <2>1, <2>2
  <2>12. ASSUME m - k > 0 PROVE Space(b, d) /\ (b.in[i] = "nowhere" \/ Spare(b, kind[i]) # {})
    <3>1. m = n /\ (d.to \in Slots => Content(v, d.to) = {})
          /\ (d.to \in Bags => Size(v, d.to) < capacity[d.to])
      BY <2>1, <2>2, <2>12
    <3>2. d.to \in Bags => b.in[d.to] # "nowhere"
      <4>1. d.to \in Bags => d.to # i
        BY ItemsAssumption
      <4> QED
        BY <1>0, <2>9, <4>1 DEF Lands
    <3>3. Space(b, d)
      <4>1. d.to \in Bags => Size(b, d.to) < capacity[d.to]
        BY <2>10, <3>1, SizeNat, CapacityNat
      <4> QED
        BY <2>10, <3>1, <3>2, <4>1 DEF Space, Lands
    <3>4. b.in[i] = "nowhere" \/ Spare(b, kind[i]) # {}
      <4>1. CASE n = v.count[i]
        BY <1>0, <2>9, <3>1, <4>1
      <4>2. CASE n # v.count[i]
        <5>1. Spare(v, kind[i]) # {} /\ b.in = v.in
          BY <2>1, <2>9, <3>1, <4>2
        <5> QED
          BY <5>1 DEF Spare, Content
      <4> QED
        BY <4>1, <4>2
    <3> QED
      BY <3>3, <3>4
  <2>13. /\ Stirs(b, u, P) /\ Counted(u, None) /\ Roomy(b, u)
         /\ \A s : All(u, s) = All(b, s) + (IF kind[i] = s THEN m - k ELSE 0)
    <3> DEFINE r == m - k
    <3>1. r \in 0..StackSize /\ (r > 0 => Space(b, d) /\ (b.in[i] = "nowhere" \/ Spare(b, kind[i]) # {}))
      BY <2>11, <2>12
    <3>2. u = AddRest(b, i, r, d) /\ d.to \in P
      OBVIOUS
    <3>3. \A s : All(AddRest(b, i, r, d), s) = All(b, s) + (IF kind[i] = s THEN r ELSE 0)
          /\ Stirs(b, AddRest(b, i, r, d), P) /\ Counted(AddRest(b, i, r, d), None)
          /\ Roomy(b, AddRest(b, i, r, d))
      <4> HIDE DEF r, P
      <4> QED
        BY <2>9, <2>10, <3>1, <3>2, AddRestIs
    <3> QED
      BY <3>2, <3>3
  <2> HIDE DEF u, P
  <2>14. Stirs(v, u, P) /\ Roomy(v, u)
    BY <2>9, <2>10, <2>13, StirsTransitive, RoomyTransitive
  <2>15. \A s : All(u, s) = All(v, s)
    <3> TAKE s
    <3>1. All(v, s) \in Nat
      BY <1>0, AllNat
    <3>2. All(b, s) = All(v, s) + (IF kind[i] = s THEN k - m ELSE 0)
          /\ All(u, s) = All(b, s) + (IF kind[i] = s THEN m - k ELSE 0)
      BY <2>9, <2>13
    <3> QED
      BY <2>1, <2>2, <3>1, <3>2
  <2> DEFINE t == Notify(u, P)
  <2>16. /\ t.in = u.in /\ t.count = u.count /\ Sound(t, None)
         /\ v.burden = Load(v) => t.burden = Load(t)
    BY <2>14, StirsNotify
  <2>17. Moved(v, i, n, d) = t
    BY <2>3, <2>7
  <2> HIDE DEF t
  <2>18. Counted(t, None) /\ Roomy(v, t) /\ \A s : All(t, s) = All(v, s)
    BY <2>13, <2>14, <2>15, <2>16 DEF Counted, Roomy, Size, Content, All
  <2> QED
    BY <2>16, <2>17, <2>18 DEF Arranged, Good
<1> QED
  BY <1>1, <1>2

\* An item is added in a free slot, and whose it is is told.
LEMMA PutInTold ==
  ASSUME NEW v, NEW i \in Items, Sound(v, i), v.in[i] = "nowhere", NEW d, Space(v, d),
         d.to \in Bags => i \notin Around(v, d.to) \cup {d.to}
  PROVE  /\ Free(v, i, d.to)
         /\ AddThing(v, d.to, d.at, i) = PutIn(v, i, d.to)
         /\ PutIn(v, i, d.to).in = [v.in EXCEPT ![i] = d.to]
         /\ PutIn(v, i, d.to).count = v.count
         /\ Sound(PutIn(v, i, d.to), None)
         /\ Roomy(v, PutIn(v, i, d.to))
<1> DEFINE c == d.to
           u == PutIn(v, i, c)
<1>1. Free(v, i, c)
  BY PlacesApart DEF Free, Space, Places
<1>2. u.in = [v.in EXCEPT ![i] = c] /\ u.count = v.count
  <2> HIDE DEF c
  <2> QED
    BY <1>1, PutInPlaces
<1>3. Sound(u, None)
  <2> HIDE DEF c
  <2> QED
    BY <1>1, PutInSound
<1>4. v.in \in [Items -> Places]
  BY DEF Sound, Worlds
<1>5. Roomy(v, u)
  <2>1. \A b \in Bags : IF b = c THEN Content(u, b) \subseteq Content(v, b) \cup {i}
                        ELSE Content(u, b) \subseteq Content(v, b)
    <3> HIDE DEF c, u
    <3> QED
      BY <1>2, <1>4 DEF Content
  <2>2. \A b \in Bags : \/ Content(u, b) \subseteq Content(v, b)
                        \/ Size(v, b) < capacity[b] /\ Content(u, b) \subseteq Content(v, b) \cup {i}
    <3> HIDE DEF u
    <3> QED
      BY <2>1 DEF Space
  <2> HIDE DEF u
  <2> QED
    BY <2>2, RoomyPutIn
<1> QED
  BY <1>1, <1>2, <1>3, <1>5, AddThingIs

\* What is no stack comes to its destination whole.
LEMMA MovedSingle ==
  ASSUME NEW v, Good(v), NEW i \in Items \ Stacks, v.in[i] # "nowhere", NEW n,
         NEW d, Lands(v, d), Within(v, d), QueryAdd(v, i, n, d.to, d.at) = "ok"
  PROVE  Arranged(v, Moved(v, i, n, d)) /\ Roomy(v, Moved(v, i, n, d))
<1> DEFINE most == MaxCount(v, i, n, d.to, d.at)
           P == {v.in[i], d.to}
           a == TakeOut(v, i)
           u == PutIn(a, i, d.to)
<1>0. /\ Sound(v, None) /\ Counted(v, None) /\ v \in Worlds /\ v.in \in [Items -> Places]
      /\ i \in Items /\ i # None /\ Acyclic(v)
  BY ItemsAssumption DEF Good, Sound, Worlds
<1>1. CASE most = 0
  <2>1. Moved(v, i, n, d) = v
    BY <1>1 DEF Moved
  <2> QED
    BY <2>1, ArrangedSame
<1>2. CASE most # 0
  <2>1. Moved(v, i, n, d) = Notify(AddThing(a, d.to, d.at, i), P)
    <3>1. Moved(v, i, n, d) = Notify(Deliver(RemoveThing(v, i, most), i, most, d), P)
      BY <1>2 DEF Moved
    <3>2. RemoveThing(v, i, most) = a
      BY DEF RemoveThing
    <3> HIDE DEF a, most
    <3>3. Deliver(a, i, most, d) = AddThing(a, d.to, d.at, i)
      BY DEF Deliver, Merges, Merged, Released, AddRest
    <3> QED
      BY <3>1, <3>2, <3>3
  <2>2. /\ a.in = [v.in EXCEPT ![i] = "nowhere"] /\ a.count = v.count /\ a.burden = v.burden
        /\ a \in Worlds
    BY <1>0, TakeOutIs
  <2>3. Sound(a, i)
    BY <1>0, TakeOutSound
  <2> HIDE DEF a
  <2>4. /\ \A c \in Slots \cup Bags : Content(a, c) \subseteq Content(v, c)
        /\ \A b \in Bags : Around(a, b) \subseteq Around(v, b)
    <3>1. \A c \in Slots \cup Bags : Content(a, c) \subseteq Content(v, c)
      BY <1>0, <2>2, PlacesApart DEF Content
    <3>2. \A j \in Items : a.in[j] = v.in[j] \/ a.in[j] \notin Bags
      BY <1>0, <2>2, PlacesApart
    <3>3. ASSUME NEW b \in Bags PROVE Around(a, b) \subseteq Around(v, b)
      <4>1. \A j \in Bags \cup {b} : a.in[j] = v.in[j] \/ a.in[j] \notin Bags
        BY <3>2, PlacesApart
      <4> QED
        BY <4>1, AroundFewer
    <3> QED
      BY <3>1, <3>3
  <2>5. Roomy(v, a) /\ \A c \in Bags : Size(a, c) <= Size(v, c)
    BY <2>4, RoomyFewer
  <2>6. /\ d.to \in Slots => Content(v, d.to) = {}
        /\ d.to \in Bags => Size(v, d.to) < capacity[d.to]
    BY <1>2, FitsSingle
  <2>7. d.to \in Bags => i # d.to /\ i \notin Around(v, d.to)
    BY TakesIs
  <2>8. Space(a, d)
    <3>1. d.to \in Bags => a.in[d.to] # "nowhere"
      BY <1>0, <2>2, <2>7 DEF Lands
    <3>2. d.to \in Bags => Size(a, d.to) < capacity[d.to]
      BY <2>5, <2>6, SizeNat, CapacityNat
    <3>3. d.to \in Slots => Content(a, d.to) = {}
      BY <2>4, <2>6
    <3> QED
      BY <3>1, <3>2, <3>3 DEF Space, Lands
  <2>9. d.to \in Bags => i \notin Around(a, d.to) \cup {d.to}
    BY <2>4, <2>7
  <2>10. a.in[i] = "nowhere"
    BY <1>0, <2>2
  <2>11. /\ Free(a, i, d.to) /\ AddThing(a, d.to, d.at, i) = u
         /\ u.in = [a.in EXCEPT ![i] = d.to] /\ u.count = a.count
         /\ Sound(u, None) /\ Roomy(a, u)
    BY <2>3, <2>8, <2>9, <2>10, PutInTold
  <2>12. u.burden = a.burden
    <3> DEFINE c == d.to
    <3>1. Free(a, i, c)
      BY <2>11
    <3> HIDE DEF c
    <3>2. PutIn(a, i, c).burden = a.burden
      BY <2>3, <2>10, <3>1, PutInPlaces
    <3> QED
      BY <3>2 DEF c
  <2>13. ~Owned(a, d.to) => Load(u) = Load(a)
    <3> DEFINE c == d.to
    <3>1. Free(a, i, c)
      BY <2>11
    <3> HIDE DEF c
    <3>2. ~Owned(a, c) => Load(PutIn(a, i, c)) = Load(a)
      BY <2>3, <2>10, <3>1, PutInLoad
    <3> QED
      BY <3>2 DEF c
  <2>14. ~Owned(v, v.in[i]) => Load(a) = Load(v)
    BY <1>0, TakeOutLoad DEF a
  <2> HIDE DEF u
  <2>15. \A j \in Items \ {i} : u.in[j] = a.in[j] /\ u.in[j] = v.in[j]
    BY <1>0, <2>2, <2>11
  <2>16. Owned(u, d.to) <=> Owned(a, d.to)
    BY <2>9, <2>15, OwnedAgree
  <2>17. Owned(u, v.in[i]) <=> Owned(v, v.in[i])
    <3> DEFINE c == v.in[i]
    <3>1. c \in Bags => i \notin Around(v, c) \cup {c}
      BY <1>0, NotAroundOwn
    <3> HIDE DEF c
    <3>2. Owned(u, c) <=> Owned(v, c)
      BY <2>15, <3>1, OwnedAgree
    <3> QED
      BY <3>2 DEF c
  <2> DEFINE t == Notify(u, P)
  <2>18. /\ t.in = u.in /\ t.count = u.count /\ Sound(t, None) /\ Load(t) = Load(u)
         /\ (\E c \in P : Owned(u, c)) => t.burden = Load(u)
         /\ ~(\E c \in P : Owned(u, c)) => t = u
    BY <2>11, NotifyIs
  <2>19. Moved(v, i, n, d) = t
    BY <2>1, <2>11
  <2> HIDE DEF t
  <2>20. ASSUME v.burden = Load(v) PROVE t.burden = Load(t)
    <3>1. CASE \E c \in P : Owned(u, c)
      BY <2>18, <3>1
    <3>2. CASE ~(\E c \in P : Owned(u, c))
      <4>1. ~Owned(u, d.to) /\ ~Owned(u, v.in[i])
        BY <3>2
      <4>2. Load(u) = Load(v)
        BY <2>13, <2>14, <2>16, <2>17, <4>1
      <4> QED
        BY <2>2, <2>12, <2>18, <2>20, <3>2, <4>2
    <3> QED
      BY <3>1, <3>2
  <2>21. Counted(t, None)
    <3> SUFFICES ASSUME NEW x \in Items
                 PROVE  IF t.in[x] = "nowhere" THEN t.count[x] = 0 ELSE t.count[x] \in 1..Most(x)
      BY DEF Counted
    <3>1. IF v.in[x] = "nowhere" THEN v.count[x] = 0 ELSE v.count[x] \in 1..Most(x)
      BY <1>0, ItemsAssumption DEF Counted
    <3>2. d.to # "nowhere"
      BY PlacesApart DEF Lands
    <3> QED
      BY <1>0, <2>2, <2>11, <2>18, <3>1, <3>2
  <2>22. Roomy(v, t)
    <3>1. Roomy(v, u)
      BY <2>5, <2>11, RoomyTransitive
    <3> QED
      BY <2>18, <3>1 DEF Roomy, Size, Content
  <2>23. \A k : All(t, k) = All(v, k)
    BY <2>2, <2>11, <2>18 DEF All
  <2> QED
    BY <2>18, <2>19, <2>20, <2>21, <2>22, <2>23 DEF Arranged, Good
<1> QED
  BY <1>1, <1>2

\* Only a slot asks for an exchange, and for an item that does not merge.
LEMMA AsksExchange ==
  ASSUME NEW v, OneEach(v), NEW i \in Items, NEW n, NEW d, Lands(v, d),
         QueryAdd(v, i, n, d.to, d.at) = "exchange"
  PROVE  /\ d.to \in Slots /\ d.onto \in Items /\ v.in[d.onto] = d.to
         /\ Content(v, d.to) = {d.onto}
         /\ d.onto \notin Stacks \/ kind[d.onto] # kind[i]
<1>1. d.to \in Slots /\ QueryPlayer(v, i, n, d.to) = "exchange"
  BY PlacesApart DEF QueryAdd, QueryContainer, Lands
<1>2. d.onto = Occupant(v, d.to)
  BY <1>1 DEF Lands
<1> DEFINE o == Occupant(v, d.to)
<1>3. QueryPlayer(v, i, n, d.to) = IF d.to \notin fits[i] THEN "no"
        ELSE IF o # None /\ (o \notin Stacks \/ kind[o] # kind[i]) THEN "exchange"
        ELSE IF HasCapacity(v, i, n) THEN "ok" ELSE "no"
  BY DEF QueryPlayer
<1>4. o # None /\ (o \notin Stacks \/ kind[o] # kind[i])
  <2> HIDE DEF o
  <2> QED
    BY <1>1, <1>3
<1> QED
  BY <1>1, <1>2, <1>4, OccupantIs

\* The item in the way comes to where the other one was, which is no slot of the player.
LEMMA ExchangedIs ==
  ASSUME NEW v, Good(v), NEW i \in Items, v.in[i] # "nowhere", NEW n, NEW d, Lands(v, d),
         d.onto # i, QueryAdd(v, i, n, d.to, d.at) = "exchange", MayExchange(v, i, d)
  PROVE  /\ Arranged(v, Exchanged(v, i, d))
         /\ Exchanged(v, i, d).in = [v.in EXCEPT ![d.onto] = v.in[i]]
         /\ Exchanged(v, i, d).count = v.count
         /\ d.to \in Slots /\ Content(Exchanged(v, i, d), d.to) = {}
<1> DEFINE o == d.onto
           c == v.in[i]
           a == TakeOut(v, o)
           u == PutIn(a, o, c)
           t == Notify(u, {d.to, c})
<1>0. /\ Sound(v, None) /\ Counted(v, None) /\ v \in Worlds /\ v.in \in [Items -> Places]
      /\ OneEach(v) /\ Acyclic(v) /\ Housed(v, None) /\ None \notin Items
  BY ItemsAssumption DEF Good, Sound, Worlds
<1>1. /\ d.to \in Slots /\ o \in Items /\ v.in[o] = d.to /\ Content(v, d.to) = {o} /\ o # i
      /\ o \notin Stacks \/ kind[o] # kind[i]
      /\ d.to # "nowhere"
  <2>1. /\ d.to \in Slots /\ d.onto \in Items /\ v.in[d.onto] = d.to
        /\ Content(v, d.to) = {d.onto}
        /\ d.onto \notin Stacks \/ kind[d.onto] # kind[i]
    <3>1. OneEach(v)
      BY <1>0
    <3> HIDE DEF o, c, a, u, t
    <3> QED
      BY <3>1, AsksExchange
  <2> QED
    BY <2>1, PlacesApart
<1>2. QueryAdd(v, o, v.count[o], c, "index") = "ok"
  BY DEF MayExchange
<1>3. c \notin Slots
  <2> SUFFICES ASSUME c \in Slots PROVE FALSE
    OBVIOUS
  <2>1. Occupant(v, c) = i
    BY <1>0, OccupantIs
  <2>2. Content(v, c) # {}
    BY DEF Content
  <2> QED
    BY <1>0, <1>1, <1>2, <2>1, <2>2, SlotTakesIs, ItemsAssumption
<1>4. c \in Bags \cup {"tile"}
  BY <1>0, <1>3 DEF Places
<1>5. c \in Bags => o \notin Around(v, c) \cup {c}
  <2> SUFFICES ASSUME c \in Bags PROVE o \notin Around(v, c) \cup {c}
    OBVIOUS
  <2>1. QueryAdd(v, o, v.count[o], c, "index") = QueryContainer(v, o, v.count[o], c, "index")
    BY PlacesApart DEF QueryAdd
  <2>2. Takes(v, o, c, "index")
    BY <1>2, <2>1 DEF QueryContainer
  <2> QED
    BY <2>2 DEF Takes
<1>6. /\ a.in = [v.in EXCEPT ![o] = "nowhere"] /\ a.count = v.count /\ a \in Worlds
      /\ Sound(a, o)
  <2> HIDE DEF o
  <2> QED
    BY <1>0, <1>1, TakeOutIs, TakeOutSound
<1>7. Exchanged(v, i, d) = t
  <2>1. RemoveThing(v, o, v.count[o]) = a
    BY DEF RemoveThing
  <2>2. AddThing(a, c, "index", o) = u
    BY DEF AddThing
  <2> HIDE DEF a, u
  <2>3. Exchanged(v, i, d) = Notify(u, {d.to, c})
    BY <1>3, <2>1, <2>2 DEF Exchanged
  <2> QED
    BY <2>3
<1> HIDE DEF a
<1>8. Free(a, o, c)
  <2> SUFFICES ASSUME c \in Bags PROVE o \notin Around(a, c) \cup {c} /\ a.in[c] # "nowhere"
    BY <1>3, <1>4, PlacesApart DEF Free, Places
  <2>1. \A j \in Bags \cup {c} : a.in[j] = v.in[j] \/ a.in[j] \notin Bags
    BY <1>0, <1>6, PlacesApart
  <2>2. Around(a, c) \subseteq Around(v, c)
    BY <2>1, AroundFewer
  <2>3. v.in[c] # "nowhere"
    BY <1>0, PlacesApart DEF Housed
  <2> QED
    BY <1>0, <1>5, <1>6, <2>2, <2>3, PlacesApart
<1>9. u.in = [a.in EXCEPT ![o] = c] /\ u.count = a.count /\ Sound(u, None)
  <2> HIDE DEF o, c
  <2>1. a.in[o] = "nowhere"
    BY <1>0, <1>1, <1>6
  <2> QED
    BY <1>1, <1>6, <1>8, <2>1, PutInPlaces, PutInSound
<1> HIDE DEF u
<1>10. /\ t.in = u.in /\ t.count = u.count /\ Sound(t, None) /\ t.burden = Load(t)
  <2> DEFINE P == {d.to, c}
  <2>1. \E p \in P : Owned(u, p)
    BY <1>1 DEF Owned
  <2> HIDE DEF P
  <2>2. /\ Notify(u, P).in = u.in /\ Notify(u, P).count = u.count /\ Sound(Notify(u, P), None)
        /\ Load(Notify(u, P)) = Load(u) /\ Notify(u, P).burden = Load(u)
    BY <1>9, <2>1, NotifyIs
  <2> QED
    BY <2>2 DEF P
<1> HIDE DEF t
<1>11. t.in = [v.in EXCEPT ![o] = c] /\ t.count = v.count
  BY <1>0, <1>6, <1>9, <1>10
<1>12. Counted(t, None)
  <2> SUFFICES ASSUME NEW x \in Items
               PROVE  IF t.in[x] = "nowhere" THEN t.count[x] = 0 ELSE t.count[x] \in 1..Most(x)
    BY DEF Counted
  <2>1. IF v.in[x] = "nowhere" THEN v.count[x] = 0 ELSE v.count[x] \in 1..Most(x)
    BY <1>0 DEF Counted
  <2> QED
    BY <1>0, <1>1, <1>11, <2>1
<1>13. Arranged(v, t)
  BY <1>10, <1>11, <1>12 DEF Arranged, Good, All
<1>14. Content(t, d.to) = {}
  BY <1>0, <1>1, <1>3, <1>11 DEF Content
<1> QED
  BY <1>1, <1>7, <1>11, <1>13, <1>14

LEMMA MoveItemGood ==
  ASSUME Good(w), NEW i \in Items, NEW n \in 1..w.count[i],
         NEW c \in Slots \cup Bags \cup {"tile", "player"}, NEW at \in Indices(c),
         MoveItem(i, n, c, at)
  PROVE  /\ Arranged(w, w') /\ books' = books
         /\ event' = "none" \/ event' = "swapped"
         /\ event' # "swapped" => Roomy(w, w')
<1> DEFINE v == w
<1>1. w.in[i] # "nowhere" /\ (c \in Bags => w.in[c] # "nowhere") /\ books' = books
  BY DEF MoveItem
<1>2. i \in Stacks /\ n < w.count[i] => Spare(w, kind[i]) # {}
  BY DEF MoveItem
<1>3. PICK d \in Destinations(w, i, c, at) :
        LET answer == QueryAdd(w, i, n, d.to, d.at)
            after == Exchanged(w, i, d)
            then  == [d EXCEPT !.onto = None]
        IN /\ d.onto # i
           /\ \/ answer = "ok" /\ w' = Moved(w, i, n, d) /\ event' = "none"
              \/ /\ answer = "exchange"
                 /\ MayExchange(w, i, d)
                 /\ w' = IF QueryAdd(after, i, n, d.to, d.at) = "ok"
                         THEN Moved(after, i, n, then) ELSE after
                 /\ event' = "swapped"
  BY DEF MoveItem
<1>4. OneEach(w) /\ None \notin Items
  BY ItemsAssumption DEF Good, Sound
<1>5. Lands(w, d) /\ Within(w, d)
  <2>1. at \in {"wherever"} \cup (IF c \in Bags THEN Content(w, c) \cup {"empty"} ELSE {})
    BY DEF Indices
  <2> QED
    BY <1>1, <1>4, <2>1, LandsDestination
<1>6. CASE /\ QueryAdd(w, i, n, d.to, d.at) = "ok" /\ w' = Moved(w, i, n, d) /\ event' = "none"
  <2>1. CASE i \in Stacks
    <3>1. Arranged(w, Moved(w, i, n, d)) /\ Roomy(w, Moved(w, i, n, d))
      BY <1>1, <1>2, <1>3, <1>5, <1>6, <2>1, MovedStack
    <3> QED
      BY <1>1, <1>6, <3>1
  <2>2. CASE i \notin Stacks
    <3>1. Arranged(w, Moved(w, i, n, d)) /\ Roomy(w, Moved(w, i, n, d))
      BY <1>1, <1>5, <1>6, <2>2, MovedSingle
    <3> QED
      BY <1>1, <1>6, <3>1
  <2> QED
    BY <2>1, <2>2
<1> DEFINE after == Exchanged(w, i, d)
           then == [d EXCEPT !.onto = None]
<1>7. CASE /\ QueryAdd(w, i, n, d.to, d.at) = "exchange" /\ MayExchange(w, i, d)
           /\ w' = (IF QueryAdd(after, i, n, d.to, d.at) = "ok" THEN Moved(after, i, n, then) ELSE after)
           /\ event' = "swapped"
  <2>1. /\ Arranged(w, after)
        /\ after.in = [w.in EXCEPT ![d.onto] = w.in[i]] /\ after.count = w.count
        /\ d.to \in Slots /\ Content(after, d.to) = {}
    <3>1. w.in[i] # "nowhere" /\ Lands(w, d) /\ d.onto # i
          /\ QueryAdd(w, i, n, d.to, d.at) = "exchange" /\ MayExchange(w, i, d)
      BY <1>1, <1>3, <1>5, <1>7
    <3>2. /\ Arranged(w, Exchanged(w, i, d))
          /\ Exchanged(w, i, d).in = [w.in EXCEPT ![d.onto] = w.in[i]]
          /\ Exchanged(w, i, d).count = w.count
          /\ d.to \in Slots /\ Content(Exchanged(w, i, d), d.to) = {}
      BY <3>1, ExchangedIs
    <3> QED
      BY <3>2
  <2>2. Good(after) /\ OneEach(after)
    BY <2>1 DEF Arranged, Good, Sound
  <2>3. CASE QueryAdd(after, i, n, d.to, d.at) # "ok"
    BY <1>1, <1>7, <2>1, <2>3
  <2>4. CASE QueryAdd(after, i, n, d.to, d.at) = "ok"
    <3>1. then = To(d.to, d.at, None) /\ then.to = d.to /\ then.at = d.at /\ then.onto = None
      BY <1>5 DEF Lands, To
    <3>2. /\ w.in \in [Items -> Places] /\ d.onto # i
          /\ d.to \in Slots /\ d.onto \in Items /\ w.in[d.onto] = d.to
      <4>1. /\ d.to \in Slots /\ d.onto \in Items /\ w.in[d.onto] = d.to
            /\ Content(w, d.to) = {d.onto}
            /\ d.onto \notin Stacks \/ kind[d.onto] # kind[i]
        BY <1>4, <1>5, <1>7, AsksExchange
      <4> QED
        BY <1>3, <4>1 DEF Good, Sound, Worlds
    <3>3. after.in[i] # "nowhere" /\ after.count[i] = w.count[i]
      BY <1>1, <2>1, <3>2
    <3> HIDE DEF after
    <3>4. Lands(after, then) /\ Within(after, then)
      <4>1. Occupant(after, d.to) = None
        BY <2>1, <2>2, OccupantIs
      <4> HIDE DEF then
      <4> QED
        BY <2>1, <3>1, <4>1, PlacesApart DEF Lands, Within
    <3> HIDE DEF then
    <3>5. i \in Stacks /\ n < after.count[i] => Spare(after, kind[i]) # {}
      <4>1. \A k : Spare(after, k) = Spare(w, k)
        <5>1. d.to # "nowhere" /\ w.in[d.onto] = d.to
          BY <3>2, PlacesApart
        <5>2. \A j \in Items : after.in[j] = "nowhere" <=> w.in[j] = "nowhere"
          BY <1>1, <2>1, <3>2, <5>1
        <5> QED
          BY <5>2 DEF Spare, Content
      <4> QED
        BY <1>2, <3>3, <4>1
    <3>6. QueryAdd(after, i, n, then.to, then.at) = "ok" /\ then.onto # i
      BY <1>4, <2>4, <3>1
    <3>7. Arranged(after, Moved(after, i, n, then))
      <4>1. CASE i \in Stacks
        <5>1. n \in 1..after.count[i]
          BY <3>3
        <5> QED
          BY <2>2, <3>3, <3>4, <3>5, <3>6, <4>1, <5>1, MovedStack
      <4>2. CASE i \notin Stacks
        BY <2>2, <3>3, <3>4, <3>6, <4>2, MovedSingle
      <4> QED
        BY <4>1, <4>2
    <3>8. w' = Moved(after, i, n, then)
      BY <1>7, <2>4 DEF after, then
    <3>9. Arranged(w, w')
      BY <2>1, <3>7, <3>8 DEF Arranged
    <3> QED
      BY <1>1, <1>7, <3>9
  <2> QED
    BY <2>3, <2>4
<1> QED
  BY <1>3, <1>6, <1>7

-----------------------------------------------------------------------------
(* internalRemoveItem                                                      *)

\* What is inside an item is the same when it is taken out.
LEMMA InsideTakenOut ==
  ASSUME NEW v, Sound(v, None), NEW i \in Items, v.in[i] # "nowhere", NEW j \in Items
  PROVE  i \in Around(TakeOut(v, i), j) <=> i \in Around(v, j) /\ j # i
<1> DEFINE a == TakeOut(v, i)
<1>0. v \in Worlds /\ v.in \in [Items -> Places] /\ Acyclic(v)
  BY DEF Sound, Worlds
<1>1. a.in = [v.in EXCEPT ![i] = "nowhere"]
  <2>1. /\ TakeOut(v, i).in = [v.in EXCEPT ![i] = "nowhere"]
        /\ TakeOut(v, i).count = v.count
        /\ TakeOut(v, i).burden = v.burden
        /\ TakeOut(v, i).total =
             [b \in Bags |-> IF b \in Around(v, i) THEN v.total[b] - Weight(v, i) ELSE v.total[b]]
        /\ TakeOut(v, i) \in Worlds
    BY TakeOutIs
  <2> QED
    BY <2>1
<1> HIDE DEF a
<1>2. ASSUME i \in Around(a, j) PROVE i \in Around(v, j) /\ j # i
  <2>1. \A x \in Bags \cup {j} : a.in[x] = v.in[x] \/ a.in[x] \notin Bags
    BY <1>0, <1>1, PlacesApart
  <2>2. Around(a, j) \subseteq Around(v, j)
    BY <2>1, AroundFewer
  <2>3. Around(a, i) = {}
    BY <1>0, <1>1, AroundStep, PlacesApart
  <2> QED
    BY <1>2, <2>2, <2>3
<1>3. ASSUME i \in Around(v, j), j # i, i \notin Around(a, j) PROVE FALSE
  <2>1. \A x \in Around(a, j) \cup {j} : v.in[x] = a.in[x]
    BY <1>0, <1>1, <1>3, AroundClosed, PlacesApart
  <2>2. Around(v, j) = Around(a, j)
    BY <2>1, AroundAgree
  <2> QED
    BY <1>3, <2>2
<1> QED
  BY <1>2, <1>3 DEF a

\* An item that is released is gone with all that is inside.
Gone(v, i) == {i} \cup Inside(v, i)

LEMMA GoneIs ==
  ASSUME NEW v, Sound(v, None), NEW i \in Items
  PROVE  /\ Gone(v, i) \subseteq Items /\ i \in Gone(v, i)
         /\ \A j \in Items : v.in[j] \in Gone(v, i) \cap Bags => j \in Gone(v, i)
         /\ \A j \in Items \ {i} : v.in[j] \in Bags \ Gone(v, i) => j \notin Gone(v, i)
         /\ \A j \in Gone(v, i) \ {i} : v.in[j] \in Bags
         /\ v.in[i] \in Bags => \A x \in Around(v, v.in[i]) \cup {v.in[i]} : x \notin Gone(v, i)
<1>0. v \in Worlds /\ v.in \in [Items -> Places] /\ Acyclic(v)
  BY DEF Sound, Worlds
<1>1. \A j \in Items : j \in Gone(v, i) <=> j = i \/ i \in Around(v, j)
  BY DEF Gone, Inside
<1>2. \A j \in Items : i \in Around(v, j) <=>
         v.in[j] \in Bags /\ (i = v.in[j] \/ i \in Around(v, v.in[j]))
  BY AroundStep
<1>3. ASSUME NEW j \in Items, v.in[j] \in Gone(v, i) \cap Bags PROVE j \in Gone(v, i)
  BY <1>1, <1>2, <1>3, PlacesApart
<1>4. ASSUME NEW j \in Items \ {i}, v.in[j] \in Bags \ Gone(v, i) PROVE j \notin Gone(v, i)
  BY <1>1, <1>2, <1>4, PlacesApart
<1>5. ASSUME NEW j \in Gone(v, i) \ {i} PROVE v.in[j] \in Bags
  BY <1>1, <1>2, <1>5 DEF Gone, Inside
<1>6. ASSUME v.in[i] \in Bags, NEW x \in Around(v, v.in[i]) \cup {v.in[i]} PROVE x \notin Gone(v, i)
  <2>1. i \notin Around(v, v.in[i]) \cup {v.in[i]}
    BY <1>0, <1>6, NotAroundOwn
  <2>2. Around(v, x) \subseteq Around(v, v.in[i])
    BY <1>6, AroundTransitive
  <2>3. x \in Items
    BY <1>6, AroundClosed, PlacesApart
  <2> QED
    BY <1>1, <2>1, <2>2, <2>3
<1> QED
  BY <1>1, <1>3, <1>4, <1>5, <1>6 DEF Gone, Inside

LEMMA ReleaseIs ==
  ASSUME NEW v, Sound(v, None), NEW i \in Items, v.in[i] # "nowhere",
         NEW u, u = Release(TakeOut(v, i), i)
  PROVE  /\ Sound(u, None)
         /\ u.in = [j \in Items |-> IF j \in Gone(v, i) THEN "nowhere" ELSE v.in[j]]
         /\ u.count = [j \in Items |-> IF j \in Gone(v, i) THEN 0 ELSE v.count[j]]
         /\ u.burden = v.burden
         /\ Owned(u, v.in[i]) <=> Owned(v, v.in[i])
         /\ ~Owned(v, v.in[i]) => Load(u) = Load(v)
<1> DEFINE a == TakeOut(v, i)
           G == Gone(v, i)
<1>0. /\ v \in Worlds /\ v.in \in [Items -> Places] /\ v.count \in [Items -> Nat]
      /\ Acyclic(v) /\ Housed(v, None) /\ OneEach(v) /\ None \notin Bags
  BY ItemsAssumption DEF Sound, Worlds
<1>1. /\ a.in = [v.in EXCEPT ![i] = "nowhere"] /\ a.count = v.count /\ a.burden = v.burden
      /\ a \in Worlds
  <2>1. /\ TakeOut(v, i).in = [v.in EXCEPT ![i] = "nowhere"]
        /\ TakeOut(v, i).count = v.count
        /\ TakeOut(v, i).burden = v.burden
        /\ TakeOut(v, i).total =
             [b \in Bags |-> IF b \in Around(v, i) THEN v.total[b] - Weight(v, i) ELSE v.total[b]]
        /\ TakeOut(v, i) \in Worlds
    BY TakeOutIs
  <2> QED
    BY <2>1
<1>2. Sound(a, i) /\ Weighed(a)
  BY TakeOutSound DEF Sound
<1>3. \A j \in Items : (j = i \/ i \in Around(a, j)) <=> j \in G
  <2>1. \A j \in Items : i \in Around(a, j) <=> i \in Around(v, j) /\ j # i
    BY InsideTakenOut
  <2> QED
    BY <2>1 DEF Gone, Inside
<1>4. ~Owned(v, v.in[i]) => Load(a) = Load(v)
  BY TakeOutLoad
<1>5. /\ u = [in    |-> [j \in Items |-> IF j \in G THEN "nowhere" ELSE a.in[j]],
              count |-> [j \in Items |-> IF j \in G THEN 0 ELSE a.count[j]],
              total |-> [b \in Bags |-> IF b \in G THEN 0 ELSE a.total[b]],
              burden |-> a.burden]
  <2> HIDE DEF a, G
  <2>1. u = [a EXCEPT !.in    = [j \in Items |-> IF j \in G THEN "nowhere" ELSE a.in[j]],
                      !.count = [j \in Items |-> IF j \in G THEN 0 ELSE a.count[j]],
                      !.total = [b \in Bags |-> IF b \in G THEN 0 ELSE a.total[b]]]
    <3>1. u = [a EXCEPT !.in    = [j \in Items |-> IF j = i \/ i \in Around(a, j) THEN "nowhere" ELSE a.in[j]],
                        !.count = [j \in Items |-> IF j = i \/ i \in Around(a, j) THEN 0 ELSE a.count[j]],
                        !.total = [b \in Bags |-> IF b = i \/ i \in Around(a, b) THEN 0 ELSE a.total[b]]]
      BY DEF Release, a
    <3>2. /\ [j \in Items |-> IF j = i \/ i \in Around(a, j) THEN "nowhere" ELSE a.in[j]]
               = [j \in Items |-> IF j \in G THEN "nowhere" ELSE a.in[j]]
          /\ [j \in Items |-> IF j = i \/ i \in Around(a, j) THEN 0 ELSE a.count[j]]
               = [j \in Items |-> IF j \in G THEN 0 ELSE a.count[j]]
          /\ [b \in Bags |-> IF b = i \/ i \in Around(a, b) THEN 0 ELSE a.total[b]]
               = [b \in Bags |-> IF b \in G THEN 0 ELSE a.total[b]]
      BY <1>3, PlacesApart
    <3> QED
      BY <3>1, <3>2
  <2> QED
    BY <1>1, <2>1 DEF Worlds
<1>6. /\ i \in G /\ G \subseteq Items
      /\ \A j \in Items : v.in[j] \in G \cap Bags => j \in G
      /\ \A j \in Items \ {i} : v.in[j] \in Bags \ G => j \notin G
      /\ \A j \in G \ {i} : v.in[j] \in Bags
      /\ v.in[i] \in Bags => \A x \in Around(v, v.in[i]) \cup {v.in[i]} : x \notin G
  BY GoneIs
<1> HIDE DEF a, G
<1>7. /\ u.in = [j \in Items |-> IF j \in G THEN "nowhere" ELSE v.in[j]]
      /\ u.count = [j \in Items |-> IF j \in G THEN 0 ELSE v.count[j]]
      /\ u.burden = v.burden
      /\ u.total = [b \in Bags |-> IF b \in G THEN 0 ELSE a.total[b]]
  <2>1. [j \in Items |-> IF j \in G THEN "nowhere" ELSE a.in[j]]
          = [j \in Items |-> IF j \in G THEN "nowhere" ELSE v.in[j]]
    BY <1>0, <1>1, <1>6
  <2> QED
    BY <1>1, <1>5, <2>1
<1>8. u \in Worlds
  BY <1>0, <1>1, <1>5 DEF Worlds, Places
<1>9. Acyclic(u)
  <2> SUFFICES ASSUME NEW b \in Bags PROVE b \notin Around(u, b)
    BY DEF Acyclic
  <2>1. \A j \in Bags \cup {b} : u.in[j] = v.in[j] \/ u.in[j] \notin Bags
    BY <1>7, PlacesApart
  <2>2. Around(u, b) \subseteq Around(v, b)
    BY <2>1, AroundFewer
  <2> QED
    BY <1>0, <2>2 DEF Acyclic
<1>10. Housed(u, None) /\ OneEach(u)
  <2>1. ASSUME NEW j \in Items, u.in[j] \in Bags \ {None} PROVE u.in[u.in[j]] # "nowhere"
    <3>1. j \notin G /\ u.in[j] = v.in[j]
      BY <1>7, <2>1, PlacesApart
    <3>2. v.in[j] \notin G /\ v.in[j] \in Items
      BY <1>6, <2>1, <3>1, PlacesApart
    <3>3. v.in[v.in[j]] # "nowhere"
      BY <1>0, <2>1, <3>1 DEF Housed
    <3> QED
      BY <1>7, <3>1, <3>2, <3>3
  <2>2. OneEach(u)
    BY <1>0, <1>7, PlacesApart DEF OneEach
  <2> QED
    BY <2>1, <2>2 DEF Housed
<1>11. \A j \in Items \ G : Weight(u, j) = Weight(a, j)
  BY <1>1, <1>7 DEF Weight
<1>12. Weighed(u)
  <2> SUFFICES ASSUME NEW b \in Bags
               PROVE  u.total[b] = SumFunctionOnSet(Weights(u), Content(u, b))
    BY DEF Weighed
  <2>1. CASE b \in G
    <3>1. Content(u, b) = {}
      BY <1>6, <1>7, <2>1, PlacesApart DEF Content
    <3>2. u.total[b] = 0
      BY <1>7, <2>1
    <3> QED
      BY <3>1, <3>2, SumEmpty
  <2>2. CASE b \notin G
    <3> DEFINE C == Content(a, b)
    <3>1. C \subseteq Items /\ IsFiniteSet(C) /\ C \cap G = {}
      <4>1. C \subseteq Items /\ IsFiniteSet(C)
        BY ContentFinite DEF Content
      <4>2. ASSUME NEW j \in C PROVE j \notin G
        <5>1. j \in Items /\ a.in[j] = b
          BY <4>2 DEF Content
        <5>2. j # i /\ v.in[j] = b
          BY <1>0, <1>1, <5>1, PlacesApart
        <5> QED
          BY <1>6, <2>2, <5>1, <5>2
      <4> HIDE DEF C
      <4> QED
        BY <4>1, <4>2
    <3>2. Content(u, b) = C
      BY <1>0, <1>1, <1>6, <1>7, <2>2, PlacesApart DEF Content
    <3> HIDE DEF C
    <3>3. \A j \in C : Weights(a)[j] \in Nat /\ Weights(a)[j] = Weights(u)[j]
      BY <1>1, <1>8, <1>11, <3>1, WeightNat
    <3>4. SumFunctionOnSet(Weights(a), C) = SumFunctionOnSet(Weights(u), C)
      BY <3>1, <3>3, SumSame
    <3>5. u.total[b] = a.total[b] /\ a.total[b] = SumFunctionOnSet(Weights(a), C)
      BY <1>2, <1>7, <2>2 DEF Weighed, C
    <3> QED
      BY <3>2, <3>4, <3>5
  <2> QED
    BY <2>1, <2>2
<1>13. Owned(u, v.in[i]) <=> Owned(v, v.in[i])
  <2> DEFINE c == v.in[i]
  <2>1. CASE c \in Bags
    <3>1. \A x \in Around(v, c) \cup {c} : u.in[x] = v.in[x]
      BY <1>6, <1>7, <2>1, AroundClosed, PlacesApart
    <3> HIDE DEF c
    <3>2. Carried(u, c) <=> Carried(v, c)
      BY <3>1, CarriedAgree
    <3> QED
      BY <2>1, <3>2 DEF Owned, c
  <2>2. CASE c \notin Bags
    BY <2>2 DEF Owned
  <2> QED
    BY <2>1, <2>2
<1>14. ~Owned(v, v.in[i]) => Load(u) = Load(v)
  <2> SUFFICES ASSUME ~Owned(v, v.in[i]) PROVE Load(u) = Load(v)
    OBVIOUS
  <2>1. v.in[i] \notin Slots
    BY DEF Owned
  <2>2. Worn(u) = Worn(a) /\ Worn(a) \cap G = {} /\ Worn(a) \subseteq Items
    BY <1>0, <1>1, <1>6, <1>7, <2>1, PlacesApart DEF Worn
  <2>3. \A j \in Worn(a) : Weight(u, j) = Weight(a, j)
    BY <1>11, <2>2
  <2>4. Load(u) = Load(a)
    BY <1>1, <1>8, <2>2, <2>3, LoadSame
  <2> QED
    BY <1>4, <2>4 DEF a
<1>15. Sound(u, None)
  BY <1>8, <1>9, <1>10, <1>12 DEF Sound
<1> QED
  BY <1>7, <1>13, <1>14, <1>15 DEF G

LEMMA RemoveItemGood ==
  ASSUME Good(w), NEW i \in Items, NEW n \in 1..w.count[i], RemoveItem(i, n)
  PROVE  /\ Good(w') /\ Roomy(w, w') /\ event' = "none"
         /\ w.burden = Load(w) => w'.burden = Load(w')
         /\ \A k : All(w', k) = All(w, k) - (IF kind[i] = k THEN n ELSE 0)
                                - SumFunctionOnSet(w.count, {j \in Inside(w, i) : kind[j] = k})
<1> DEFINE taken == RemoveThing(w, i, n)
           P == {w.in[i]}
<1>0. /\ Sound(w, None) /\ Counted(w, None) /\ w \in Worlds /\ w.in \in [Items -> Places]
      /\ w.count \in [Items -> Nat] /\ i # None /\ None \notin Items
  BY ItemsAssumption DEF Good, Sound, Worlds
<1>1. /\ w.in[i] # "nowhere" /\ event' = "none"
      /\ w' = Notify(IF taken.in[i] = "nowhere" THEN Release(taken, i) ELSE taken, P)
  BY DEF RemoveItem
<1>2. w.count[i] \in 1..Most(i)
  BY <1>0, <1>1, PlacedCount
<1>3. CASE i \in Stacks /\ n # w.count[i]
  <2>1. /\ Stirs(w, taken, P) /\ taken.in = w.in
        /\ taken.count = [w.count EXCEPT ![i] = w.count[i] - n]
    <3> DEFINE Q == P
    <3>1. w.in[i] \in Q
      OBVIOUS
    <3> HIDE DEF Q
    <3>2. /\ Stirs(w, RemoveThing(w, i, n), Q)
          /\ RemoveThing(w, i, n).in = IF n = w.count[i] THEN [w.in EXCEPT ![i] = "nowhere"] ELSE w.in
          /\ RemoveThing(w, i, n).count =
               IF n = w.count[i] THEN w.count ELSE [w.count EXCEPT ![i] = w.count[i] - n]
      <4>1. i \in Stacks /\ n \in 1..w.count[i]
        BY <1>3
      <4> HIDE DEF taken, P
      <4> QED
        BY <1>1, <3>1, <4>1, RemoveStackIs
    <3> QED
      BY <1>3, <3>2 DEF Q
  <2> HIDE DEF taken, P
  <2>2. w' = Notify(taken, P)
    BY <1>1, <2>1
  <2>3. /\ w'.in = w.in /\ w'.count = [w.count EXCEPT ![i] = w.count[i] - n] /\ Sound(w', None)
        /\ w.burden = Load(w) => w'.burden = Load(w')
    BY <2>1, <2>2, StirsNotify
  <2>4. w.count[i] - n \in 1..Most(i)
    BY <1>0, <1>2, <1>3, MostNat
  <2>5. Counted(w', None)
    <3> SUFFICES ASSUME NEW x \in Items
                 PROVE  IF w'.in[x] = "nowhere" THEN w'.count[x] = 0 ELSE w'.count[x] \in 1..Most(x)
      BY DEF Counted
    <3>1. IF w.in[x] = "nowhere" THEN w.count[x] = 0 ELSE w.count[x] \in 1..Most(x)
      BY <1>0 DEF Counted
    <3> QED
      BY <1>0, <1>1, <2>3, <2>4, <3>1
  <2>6. Roomy(w, w')
    <3>1. \A b \in Bags : Content(w', b) \subseteq Content(w, b)
      BY <2>3 DEF Content
    <3> QED
      BY <3>1, RoomyFewer
  <2>7. ASSUME NEW k
        PROVE  All(w', k) = All(w, k) - (IF kind[i] = k THEN n ELSE 0)
                                - SumFunctionOnSet(w.count, {j \in Inside(w, i) : kind[j] = k})
    <3>1. w.count[i] - n \in Nat /\ n \in Nat /\ w.count[i] \in Nat
      BY <1>0, <2>4
    <3>2. All(w', k) = All(w, k) + (IF kind[i] = k THEN (w.count[i] - n) - w.count[i] ELSE 0)
      BY <1>0, <2>3, <3>1, AllChange
    <3>3. {j \in Inside(w, i) : kind[j] = k} = {}
      <4>1. i \notin Bags
        BY <1>3, PlacesApart
      <4> QED
        BY <4>1, AroundClosed DEF Inside
    <3>4. All(w, k) \in Nat
      BY <1>0, AllNat
    <3>5. SumFunctionOnSet(w.count, {j \in Inside(w, i) : kind[j] = k}) = 0
      BY <3>3, SumEmpty
    <3> QED
      BY <3>1, <3>2, <3>4, <3>5
  <2> QED
    BY <1>1, <2>3, <2>5, <2>6, <2>7 DEF Good
<1>4. CASE ~(i \in Stacks /\ n # w.count[i])
  <2> DEFINE a == TakeOut(w, i)
             u == Release(a, i)
             G == Gone(w, i)
  <2>1. n = w.count[i]
    BY <1>0, <1>2, <1>4 DEF Most
  <2>2. taken = a
    BY <1>4 DEF RemoveThing
  <2>3. a.in[i] = "nowhere"
    <3>1. /\ TakeOut(w, i).in = [w.in EXCEPT ![i] = "nowhere"]
          /\ TakeOut(w, i).count = w.count
          /\ TakeOut(w, i).burden = w.burden
          /\ TakeOut(w, i).total =
               [b \in Bags |-> IF b \in Around(w, i) THEN w.total[b] - Weight(w, i) ELSE w.total[b]]
          /\ TakeOut(w, i) \in Worlds
      BY <1>0, <1>1, TakeOutIs
    <3> QED
      BY <1>0, <3>1
  <2>4. w' = Notify(u, P)
    BY <1>1, <2>2, <2>3
  <2>5. /\ Sound(u, None)
        /\ u.in = [j \in Items |-> IF j \in G THEN "nowhere" ELSE w.in[j]]
        /\ u.count = [j \in Items |-> IF j \in G THEN 0 ELSE w.count[j]]
        /\ u.burden = w.burden
        /\ Owned(u, w.in[i]) <=> Owned(w, w.in[i])
        /\ ~Owned(w, w.in[i]) => Load(u) = Load(w)
    BY <1>0, <1>1, ReleaseIs
  <2> HIDE DEF u, a, taken, G
  <2>6. /\ w'.in = u.in /\ w'.count = u.count /\ Sound(w', None) /\ Load(w') = Load(u)
        /\ Owned(u, w.in[i]) => w'.burden = Load(u)
        /\ ~Owned(u, w.in[i]) => w' = u
    <3>1. /\ Notify(u, P).in = u.in /\ Notify(u, P).count = u.count /\ Sound(Notify(u, P), None)
          /\ Load(Notify(u, P)) = Load(u)
          /\ (\E c \in P : Owned(u, c)) => Notify(u, P).burden = Load(u)
          /\ ~(\E c \in P : Owned(u, c)) => Notify(u, P) = u
      BY <2>5, NotifyIs
    <3> QED
      BY <2>4, <3>1
  <2>7. w.burden = Load(w) => w'.burden = Load(w')
    BY <2>5, <2>6
  <2>8. Counted(w', None)
    <3> SUFFICES ASSUME NEW x \in Items
                 PROVE  IF w'.in[x] = "nowhere" THEN w'.count[x] = 0 ELSE w'.count[x] \in 1..Most(x)
      BY DEF Counted
    <3>1. IF w.in[x] = "nowhere" THEN w.count[x] = 0 ELSE w.count[x] \in 1..Most(x)
      BY <1>0 DEF Counted
    <3> QED
      BY <2>5, <2>6, <3>1
  <2>9. Roomy(w, w')
    <3>1. \A b \in Bags : Content(w', b) \subseteq Content(w, b)
      BY <2>5, <2>6, PlacesApart DEF Content
    <3> QED
      BY <3>1, RoomyFewer
  <2>10. ASSUME NEW k
         PROVE  All(w', k) = All(w, k) - (IF kind[i] = k THEN n ELSE 0)
                                 - SumFunctionOnSet(w.count, {j \in Inside(w, i) : kind[j] = k})
    <3> DEFINE f == w.count
               g == w'.count
               K == Kin(k)
               T == {j \in Inside(w, i) : kind[j] = k}
               D == K \ (T \cup {i})
    <3>1. /\ IsFiniteSet(K) /\ K \subseteq Items /\ T \subseteq K /\ i \notin T
          /\ (i \in K <=> kind[i] = k)
      <4>1. i \notin Around(w, i)
        BY <1>0, AroundClosed DEF Sound, Acyclic
      <4> QED
        BY <4>1, KinFinite DEF Kin, Inside
    <3>2. \A j \in K : f[j] \in Nat /\ g[j] \in Nat
      BY <1>0, <2>5, <2>6, <3>1
    <3>3. /\ \A j \in D : f[j] = g[j]
          /\ \A j \in K \ D : g[j] = 0
      BY <2>5, <2>6, <3>1 DEF Gone, G, Kin
    <3>4. f[i] = n
      BY <2>1
    <3>5. All(w, k) = SumFunctionOnSet(f, K) /\ All(w', k) = SumFunctionOnSet(g, K)
      BY DEF All
    <3>6. D \in SUBSET K /\ T \in SUBSET K /\ IsFiniteSet(D) /\ IsFiniteSet(T) /\ IsFiniteSet(K \ D)
          /\ IsFiniteSet(K \ T)
      BY <3>1, FS_Subset, FS_Difference
    <3>7. K \ D = T \cup ({i} \cap K) /\ D = (K \ T) \ {i}
      BY <3>1
    <3> HIDE DEF f, g, K, T
    <3>8. SumFunctionOnSet(f, T) \in Nat /\ SumFunctionOnSet(f, K \ T) \in Nat
          /\ SumFunctionOnSet(f, K) = SumFunctionOnSet(f, T) + SumFunctionOnSet(f, K \ T)
      <4>1. \A j \in K \ T : f[j] \in Nat
        BY <3>2
      <4> QED
        BY <3>1, <3>2, <3>6, <4>1, SumSplit, SumNat
    <3>9. SumFunctionOnSet(f, D) \in Nat
          /\ SumFunctionOnSet(f, K \ T) = SumFunctionOnSet(f, D) + (IF kind[i] = k THEN n ELSE 0)
      <4>1. CASE kind[i] = k
        <5>1. i \in K \ T /\ \A j \in K \ T : f[j] \in Nat
          BY <3>1, <3>2, <4>1
        <5>2. /\ SumFunctionOnSet(f, (K \ T) \ {i}) \in Nat
              /\ SumFunctionOnSet(f, K \ T) = f[i] + SumFunctionOnSet(f, (K \ T) \ {i})
          BY <3>6, <5>1, SumOut
        <5>3. n \in Nat
          BY <1>0 DEF f
        <5> DEFINE x == SumFunctionOnSet(f, K \ T)
                   y == SumFunctionOnSet(f, D)
        <5>4. y \in Nat /\ x = n + y
          BY <3>4, <3>7, <5>2
        <5> HIDE DEF x, y
        <5>5. y \in Nat /\ x = y + (IF kind[i] = k THEN n ELSE 0)
          BY <4>1, <5>3, <5>4
        <5> QED
          BY <5>5 DEF x, y
      <4>2. CASE kind[i] # k
        <5>1. K \ T = D
          BY <3>1, <3>7, <4>2
        <5> DEFINE x == SumFunctionOnSet(f, K \ T)
                   y == SumFunctionOnSet(f, D)
        <5>2. x = y
          BY <5>1
        <5>3. x \in Nat
          BY <3>8
        <5> HIDE DEF x, y
        <5>4. y \in Nat /\ x = y + (IF kind[i] = k THEN n ELSE 0)
          BY <4>2, <5>2, <5>3
        <5> QED
          BY <5>4 DEF x, y
      <4> QED
        BY <4>1, <4>2
    <3> HIDE DEF D
    <3>10. SumFunctionOnSet(g, K) = SumFunctionOnSet(f, D)
      <4>1. SumFunctionOnSet(g, D) \in Nat
            /\ SumFunctionOnSet(g, K) = SumFunctionOnSet(g, D) + SumFunctionOnSet(g, K \ D)
        BY <3>1, <3>2, <3>6, SumSplit
      <4>2. SumFunctionOnSet(g, K \ D) = 0
        BY <3>3, <3>6, SumZero
      <4>3. \A j \in D : g[j] \in Nat /\ g[j] = f[j]
        BY <3>2, <3>3, <3>6
      <4>4. SumFunctionOnSet(g, D) = SumFunctionOnSet(f, D)
        BY <3>6, <4>3, SumSame
      <4> QED
        BY <4>1, <4>2, <4>4
    <3>11. n \in Nat
      BY <1>0 DEF f
    <3>12. All(w', k) = All(w, k) - (IF kind[i] = k THEN n ELSE 0) - SumFunctionOnSet(f, T)
      BY <3>5, <3>8, <3>9, <3>10, <3>11
    <3> QED
      BY <3>12 DEF f, T
  <2> QED
    BY <1>1, <2>6, <2>7, <2>8, <2>9, <2>10 DEF Good
<1> QED
  BY <1>3, <1>4

-----------------------------------------------------------------------------
(* internalAddItem                                                         *)

LEMMA WhereverIs ==
  ASSUME NEW v, OneEach(v), NEW i \in Items, v.in[i] = "nowhere",
         NEW c \in Bags \cup {"tile", "player"}, c \in Bags => v.in[c] # "nowhere",
         NEW d \in Wherever(v, i, c)
  PROVE  /\ Lands(v, d) /\ (i \in Stacks => Within(v, d))
         /\ d.onto # None => d.onto # i /\ (c = "tile" \/ d.onto \in Mergeable(v, i, d.to))
         /\ c = "player" => Owned(v, d.to)
         /\ c # "player" => d.to = c
<1>0. d.onto # None /\ Lands(v, d) => d.onto # i
  BY PlacesApart DEF Lands
<1>1. CASE c = "player"
  <2>1. d \in OnPlayer(v, i)
    BY <1>1, PlacesApart DEF Wherever
  <2>2. Owned(v, d.to)
    BY <2>1, LandsOnPlayer DEF Owned
  <2> QED
    BY <1>0, <1>1, <2>1, <2>2, LandsOnPlayer
<1>2. CASE c \in Bags
  <2>1. c # "player" /\ c # "tile" /\ "wherever" \notin Items
    BY <1>2, PlacesApart
  <2>2. d \in InContainer(v, i, c, "wherever")
    BY <1>2, <2>1 DEF Wherever
  <2>3. Lands(v, d) /\ Within(v, d) /\ d.to = c
        /\ (v.in[i] # c => (d.onto = None \/ d.onto \in Mergeable(v, i, c)) \/ d.at = "wherever")
    BY <1>2, <2>2, LandsInContainer
  <2>4. d.at = "wherever" => d.onto = None
    BY <1>2, <2>1, <2>3 DEF Lands
  <2> QED
    BY <1>0, <1>2, <2>1, <2>3, <2>4, PlacesApart
<1>3. CASE c = "tile"
  <2>1. d \in OnTile(v) /\ c # "player"
    BY <1>3, PlacesApart DEF Wherever
  <2> QED
    BY <1>0, <1>3, <2>1, LandsOnTile
<1> QED
  BY <1>1, <1>2, <1>3

\* What fits of a stack is a number of its pieces, and on the tile all do.
LEMMA FitIs ==
  ASSUME NEW v, Sound(v, None), NEW i \in Stacks, Counted(v, i), v.in[i] = "nowhere", v.count[i] > 0,
         NEW c \in Bags \cup {"tile", "player"}
  PROVE  Fit(v, i, c) \in 0..v.count[i] /\ (c = "tile" => Fit(v, i, c) = v.count[i])
<1> DEFINE most == MaxCount(v, i, v.count[i], c, "wherever")
<1>0. v \in Worlds /\ OneEach(v) /\ i \in Items /\ v.count[i] \in Nat /\ StackSize \in Nat
  BY ItemsAssumption DEF Sound, Worlds
<1>1. \A b \in Bags : MaxIn(v, i, b, "wherever") \in Nat
  BY <1>0, MaxInStack
<1>2. \A s \in Slots : MaxSlot(v, i, v.count[i], s) \in Nat
  <2> SUFFICES ASSUME NEW s \in Slots PROVE MaxSlot(v, i, v.count[i], s) \in Nat
    OBVIOUS
  <2> DEFINE o == Occupant(v, s)
  <2>1. o \in Stacks => Room(v, o) \in Nat
    <3> SUFFICES ASSUME o \in Stacks PROVE Room(v, o) \in Nat
      OBVIOUS
    <3>1. o \in Items /\ v.in[o] = s /\ s # "nowhere"
      BY <1>0, OccupantIs, PlacesApart, ItemsAssumption
    <3>2. o # i
      BY <3>1
    <3> QED
      BY <1>0, <3>1, <3>2, PlacedCount
  <2>2. MaxSlot(v, i, v.count[i], s) =
          IF o # None THEN IF o \in Stacks /\ Equals(i, o) THEN Room(v, o) ELSE 0
          ELSE IF QueryPlayer(v, i, v.count[i], s) # "ok" THEN 0
          ELSE IF i \in Stacks THEN StackSize ELSE 1
    BY DEF MaxSlot
  <2> HIDE DEF o
  <2> QED
    BY <1>0, <2>1, <2>2
<1>3. CASE c = "player"
  <2> DEFINE open == {s \in Slots : LET o == Occupant(v, s) IN
                        o # None => QueryPlayer(v, i, Room(v, o), s) = "ok"}
             f == [s \in Slots |-> MaxSlot(v, i, v.count[i], s)]
             g == [b \in Bags |-> MaxIn(v, i, b, "wherever")]
             carried == {b \in Bags : Carried(v, b)}
  <2>1. most = SumFunctionOnSet(f, open) + SumFunctionOnSet(g, carried)
    BY <1>3, PlacesApart DEF MaxCount, MaxPlayer
  <2>2. IsFiniteSet(open)
    <3>1. IsFiniteSet({"left"}) /\ IsFiniteSet({"backpack"}) /\ IsFiniteSet({"ammo"})
      BY FS_Singleton
    <3>2. IsFiniteSet({"left"} \cup {"backpack"})
      BY <3>1, FS_Union
    <3>3. IsFiniteSet(({"left"} \cup {"backpack"}) \cup {"ammo"})
      BY <3>1, <3>2, FS_Union
    <3>4. open \subseteq ({"left"} \cup {"backpack"}) \cup {"ammo"}
      BY DEF Slots
    <3> HIDE DEF open
    <3> QED
      BY <3>3, <3>4, FS_Subset
  <2>3. IsFiniteSet(carried)
    BY ItemsAssumption, FS_Subset
  <2>4. (\A s \in open : f[s] \in Nat) /\ (\A b \in carried : g[b] \in Nat)
    BY <1>1, <1>2
  <2> HIDE DEF open, f, g, carried
  <2>5. SumFunctionOnSet(f, open) \in Nat /\ SumFunctionOnSet(g, carried) \in Nat
    BY <2>2, <2>3, <2>4, SumNat
  <2>6. most \in Nat
    BY <2>1, <2>5
  <2> HIDE DEF most
  <2>7. Fit(v, i, c) = Least(v.count[i], most)
    BY DEF Fit, most
  <2> QED
    BY <1>0, <1>3, <2>6, <2>7, PlacesApart DEF Least
<1>4. CASE c \in Bags
  <2>1. most \in Nat
    BY <1>1, <1>4, PlacesApart DEF MaxCount
  <2> HIDE DEF most
  <2>2. Fit(v, i, c) = Least(v.count[i], most)
    BY DEF Fit, most
  <2> QED
    BY <1>0, <1>4, <2>1, <2>2, PlacesApart DEF Least
<1>5. CASE c = "tile"
  <2>1. most = v.count[i]
    <3>1. most = IF v.count[i] > 1 THEN v.count[i] ELSE 1
      BY <1>5, PlacesApart DEF MaxCount
    <3> QED
      BY <1>0, <3>1
  <2> HIDE DEF most
  <2>2. Fit(v, i, c) = Least(v.count[i], most)
    BY DEF Fit, most
  <2> QED
    BY <1>0, <2>1, <2>2 DEF Least
<1> QED
  BY <1>3, <1>4, <1>5

\* An item on its way to c, from the world z on.  What merged with a stack, what fits
\* nowhere and what is forgotten make up what it was.
Stages == {"adding", "done", "cut", "refused"}

Ways == [v : Worlds, stage : Stages, merges : Nat, left : Nat, dropped : Nat]

Told(r, z, c) ==
  z.burden = Load(z) =>
    /\ r.stage \in {"done", "refused"} => r.v.burden = Load(r.v)
    /\ r.stage = "adding" => r.v.burden = Load(r.v) \/ c = "player" \/ Owned(r.v, c)

Coming(r, z, i, c) ==
  /\ r \in Ways
  /\ Sound(r.v, None) /\ Counted(r.v, i) /\ Roomy(z, r.v) /\ Told(r, z, c)
  /\ \A k : All(r.v, k) + (IF kind[i] = k THEN r.left + r.dropped ELSE 0) = All(z, k)
  /\ r.stage \in {"adding", "refused"} =>
       /\ r.v.in[i] = "nowhere" /\ r.v.count[i] \in 1..Most(i) /\ r.left = 0
       /\ c \in Bags => r.v.in[c] # "nowhere"
       /\ r.merges = 0 => r.v = z /\ r.dropped = 0
  /\ r.stage = "refused" => r.merges = 0
  /\ r.stage \in {"done", "cut"} => Counted(r.v, None)
  /\ r.merges > 0 => i \in Stacks
  /\ r.left > 0 => r.stage = "cut" /\ r.v.in[i] = "nowhere" /\ r.left <= Most(i)
  /\ c = "tile" => r.stage \in {"adding", "done"} /\ r.left = 0 /\ r.dropped = 0

\* An item that is nowhere and about to be added.
Entering(z, i, c) ==
  /\ Sound(z, None) /\ Counted(z, i) /\ i \in Items /\ z.in[i] = "nowhere" /\ z.count[i] \in 1..Most(i)
  /\ c \in Bags \cup {"tile", "player"}
  /\ c \in Bags => z.in[c] # "nowhere"

LEMMA ComingFirst ==
  ASSUME NEW z, NEW i, NEW c, Entering(z, i, c)
  PROVE  Coming(Adding(z), z, i, c)
<1>1. z \in Worlds
  BY DEF Entering, Sound
<1>2. \A k : All(z, k) \in Nat
  BY <1>1, AllNat
<1>3. Roomy(z, z)
  BY RoomyFewer
<1> DEFINE r == Adding(z)
<1>4. r \in Ways
      /\ r.v = z /\ r.stage = "adding" /\ r.merges = 0 /\ r.left = 0 /\ r.dropped = 0
  BY <1>1 DEF Adding, Stages, Ways
<1> HIDE DEF r
<1>5. Told(r, z, c)
  BY <1>4 DEF Told
<1>6. Coming(r, z, i, c)
  BY <1>2, <1>3, <1>4, <1>5 DEF Coming, Entering
<1> QED
  BY <1>6 DEF r

\* A destination that internalAddItem arrives at and accepts.
Found(r, z, i, c, d) ==
  /\ Coming(r, z, i, c) /\ r.stage = "adding"
  /\ Lands(r.v, d) /\ (i \in Stacks => Within(r.v, d))
  /\ d.onto # None => d.onto # i /\ (c = "tile" \/ d.onto \in Mergeable(r.v, i, d.to))
  /\ c = "player" => Owned(r.v, d.to)
  /\ c # "player" => d.to = c
  /\ QueryAdd(r.v, i, r.v.count[i], d.to, d.at) = "ok"

\* What the start of every case is.
LEMMA FoundIs ==
  ASSUME NEW r, NEW z, NEW i, NEW c, NEW d, Entering(z, i, c), Found(r, z, i, c, d)
  PROVE  /\ r.v \in Worlds /\ Sound(r.v, None) /\ Sound(r.v, i) /\ OneEach(r.v)
         /\ i \in Items /\ i # None /\ r.v.in[i] = "nowhere" /\ r.v.count[i] \in 1..Most(i)
         /\ r.v.count[i] \in Nat /\ r.v.count \in [Items -> Nat]
         /\ \A k : All(r.v, k) \in Nat
         /\ r.dropped \in Nat /\ r.merges \in Nat /\ r.left = 0
         /\ z.burden = Load(z) /\ ~Owned(r.v, d.to) => r.v.burden = Load(r.v)
<1>1. /\ r.v \in Worlds /\ Sound(r.v, None) /\ OneEach(r.v)
      /\ i \in Items /\ i # None /\ r.v.in[i] = "nowhere" /\ r.v.count[i] \in 1..Most(i)
      /\ r.dropped \in Nat /\ r.merges \in Nat /\ r.left = 0
  BY ItemsAssumption DEF Found, Coming, Entering, Sound, Ways
<1>2. r.v.count[i] \in Nat /\ r.v.count \in [Items -> Nat]
  BY <1>1 DEF Worlds
<1>3. \A k : All(r.v, k) \in Nat
  BY <1>1, AllNat
<1>4. Sound(r.v, i)
  BY <1>1, SoundAnyHand
<1>5. ASSUME z.burden = Load(z), ~Owned(r.v, d.to) PROVE r.v.burden = Load(r.v)
  <2>1. r.v.burden = Load(r.v) \/ c = "player" \/ Owned(r.v, c)
    BY <1>5 DEF Found, Coming, Told
  <2> QED
    BY <1>5, <2>1 DEF Found
<1> QED
  BY <1>1, <1>2, <1>3, <1>4, <1>5

\* An item that is nowhere does not weigh on anything.
LEMMA VanishIs ==
  ASSUME NEW v, Sound(v, None), NEW i \in Items, v.in[i] = "nowhere", NEW n \in Nat
  PROVE  /\ [v EXCEPT !.count[i] = n] = SetCount(v, i, n)
         /\ [v EXCEPT !.count[i] = n].in = v.in
         /\ [v EXCEPT !.count[i] = n].count = [v.count EXCEPT ![i] = n]
         /\ \A P : Stirs(v, [v EXCEPT !.count[i] = n], P)
         /\ \A k : All([v EXCEPT !.count[i] = n], k) = All(v, k) + (IF kind[i] = k THEN n - v.count[i] ELSE 0)
         /\ Roomy(v, [v EXCEPT !.count[i] = n])
<1> DEFINE u == [v EXCEPT !.count[i] = n]
<1>0. v \in Worlds
  BY DEF Sound
<1>1. u = SetCount(v, i, n)
  BY <1>0, SetCountNowhere
<1>2. u.in = v.in /\ u.count = [v.count EXCEPT ![i] = n]
  BY <1>1, SetCountIs
<1>3. \A P : Stirs(v, u, P)
  BY <1>1, StirsSetCount
<1>4. \A k : All(u, k) = All(v, k) + (IF kind[i] = k THEN n - v.count[i] ELSE 0)
  BY <1>1, SetCountAll
<1>5. Roomy(v, u)
  <2> HIDE DEF u
  <2>1. \A b \in Bags : Content(u, b) \subseteq Content(v, b)
    BY <1>2 DEF Content
  <2> QED
    BY <2>1, RoomyFewer
<1> QED
  BY <1>1, <1>2, <1>3, <1>4, <1>5

\* An item that vanishes leaves everything counted.
LEMMA VanishCounted ==
  ASSUME NEW v, Sound(v, None), NEW i \in Items, v.in[i] = "nowhere", Counted(v, i)
  PROVE  Counted(Vanish(v, i), None)
<1> DEFINE u == [v EXCEPT !.count[i] = 0]
<1>1. u.in = v.in /\ u.count = [v.count EXCEPT ![i] = 0] /\ v.count \in [Items -> Nat]
  BY VanishIs DEF Sound, Worlds
<1> HIDE DEF u
<1>2. Counted(u, None)
  BY <1>1 DEF Counted
<1> QED
  BY <1>2 DEF Vanish, u

\* The call for a rest is refused.
LEMMA RefusedComing ==
  ASSUME NEW r, NEW z, NEW i, NEW c, Entering(z, i, c), Coming(r, z, i, c), r.stage = "adding",
         c # "tile"
  PROVE  Coming(Refused(r, i), z, i, c) /\ Refused(r, i).stage # "adding"
<1> DEFINE v == r.v
           u == Vanish(v, i)
           q == Refused(r, i)
<1>0. /\ Sound(v, None) /\ i \in Items /\ v.in[i] = "nowhere" /\ v.count[i] \in 1..Most(i)
      /\ Counted(v, i) /\ r.left = 0 /\ r.dropped \in Nat /\ r.merges \in Nat
      /\ v.count[i] \in Nat /\ Most(i) \in Nat
      /\ r = [v |-> v, stage |-> r.stage, merges |-> r.merges, left |-> r.left, dropped |-> r.dropped]
      /\ v \in Worlds /\ c \in Bags \cup {"tile", "player"}
  <2>1. Most(i) \in Nat
    BY MostNat
  <2> QED
    BY <2>1 DEF Coming, Entering, Ways
<1>1. CASE r.merges = 0
  <2>1. q = [v |-> v, stage |-> "refused", merges |-> r.merges, left |-> r.left, dropped |-> r.dropped]
    BY <1>0, <1>1 DEF Refused
  <2>2. v = z /\ r.dropped = 0
    BY <1>1 DEF Coming
  <2> HIDE DEF v, q
  <2>3. q.v = v /\ q.stage = "refused" /\ q.merges = 0 /\ q.left = 0 /\ q.dropped = 0
        /\ q \in Ways
    BY <1>0, <1>1, <2>1, <2>2 DEF Stages, Ways
  <2>4. Told(q, z, c)
    BY <2>2, <2>3 DEF Told
  <2>5. /\ Roomy(z, v)
        /\ \A k : All(v, k) + (IF kind[i] = k THEN r.left + r.dropped ELSE 0) = All(z, k)
        /\ c \in Bags => v.in[c] # "nowhere"
    BY <2>2 DEF Coming, v
  <2>6. Coming(q, z, i, c)
    BY <1>0, <2>2, <2>3, <2>4, <2>5 DEF Coming
  <2> QED
    BY <2>3, <2>6 DEF q
<1>2. CASE r.merges # 0
  <2> DEFINE l == IF r.merges = 1 THEN v.count[i] ELSE 0
             f == IF r.merges = 1 THEN r.dropped ELSE r.dropped + v.count[i]
  <2>1. q = [v |-> u, stage |-> "cut", merges |-> r.merges, left |-> l, dropped |-> f]
    <3> HIDE DEF u, v
    <3>1. CASE r.merges = 1
      BY <1>0, <1>2, <3>1 DEF Refused, u, v
    <3>2. CASE r.merges # 1
      BY <1>0, <1>2, <3>2 DEF Refused, u, v
    <3> QED
      BY <3>1, <3>2
  <2>2. /\ u.in = v.in
        /\ Stirs(v, u, {}) /\ Roomy(v, u)
        /\ \A k : All(u, k) = All(v, k) + (IF kind[i] = k THEN 0 - v.count[i] ELSE 0)
    <3> DEFINE t == [v EXCEPT !.count[i] = 0]
    <3>1. /\ t.in = v.in
          /\ \A P : Stirs(v, t, P)
          /\ \A k : All(t, k) = All(v, k) + (IF kind[i] = k THEN 0 - v.count[i] ELSE 0)
          /\ Roomy(v, t)
      <4> HIDE DEF v
      <4>1. 0 \in Nat
        OBVIOUS
      <4>2. /\ [v EXCEPT !.count[i] = 0] = SetCount(v, i, 0)
            /\ [v EXCEPT !.count[i] = 0].in = v.in
            /\ [v EXCEPT !.count[i] = 0].count = [v.count EXCEPT ![i] = 0]
            /\ \A P : Stirs(v, [v EXCEPT !.count[i] = 0], P)
            /\ \A k : All([v EXCEPT !.count[i] = 0], k) = All(v, k) + (IF kind[i] = k THEN 0 - v.count[i] ELSE 0)
            /\ Roomy(v, [v EXCEPT !.count[i] = 0])
        BY <1>0, <4>1, VanishIs
      <4> QED
        BY <4>2
    <3>2. u = t
      BY DEF Vanish
    <3> HIDE DEF t, u, v
    <3> QED
      BY <3>1, <3>2
  <2>3. Counted(u, None)
    BY <1>0, VanishCounted
  <2>4. /\ Roomy(z, v)
        /\ \A k : All(v, k) + (IF kind[i] = k THEN r.left + r.dropped ELSE 0) = All(z, k)
        /\ i \in Stacks
    BY <1>0, <1>2 DEF Coming
  <2>5. \A k : All(v, k) \in Nat
    BY <1>0, AllNat
  <2> HIDE DEF v, u, q
  <2>6. Sound(u, None) /\ u \in Worlds /\ Counted(u, i) /\ Roomy(z, u)
    <3>1. Roomy(z, u)
      BY <2>2, <2>4, RoomyTransitive
    <3> QED
      BY <2>2, <2>3, <3>1, ItemsAssumption DEF Stirs, Sound, Counted
  <2>7. l \in Nat /\ f \in Nat /\ l + f = r.dropped + v.count[i] /\ l <= Most(i)
    BY <1>0
  <2> HIDE DEF l, f
  <2>8. q.v = u /\ q.stage = "cut" /\ q.merges = r.merges /\ q.left = l /\ q.dropped = f
        /\ q \in Ways
    BY <1>0, <2>1, <2>6, <2>7 DEF Stages, Ways
  <2>9. \A k : All(u, k) + (IF kind[i] = k THEN l + f ELSE 0) = All(z, k)
    <3> TAKE k
    <3>1. All(u, k) = All(v, k) + (IF kind[i] = k THEN 0 - v.count[i] ELSE 0)
          /\ All(v, k) + (IF kind[i] = k THEN r.left + r.dropped ELSE 0) = All(z, k)
          /\ All(v, k) \in Nat
      BY <2>2, <2>4, <2>5
    <3> QED
      BY <1>0, <2>7, <3>1
  <2>10. Told(q, z, c)
    BY <2>8 DEF Told
  <2>11. Coming(q, z, i, c)
    BY <1>0, <2>2, <2>3, <2>4, <2>6, <2>7, <2>8, <2>9, <2>10 DEF Coming
  <2> QED
    BY <2>8, <2>11 DEF q
<1> QED
  BY <1>1, <1>2

LEMMA EndedIs ==
  ASSUME NEW r \in Ways,
         NEW u \in Worlds, NEW f \in Nat
  PROVE  /\ Ended(r, u, f) \in Ways
         /\ Ended(r, u, f).v = u /\ Ended(r, u, f).stage = "done"
         /\ Ended(r, u, f).merges = r.merges /\ Ended(r, u, f).left = r.left
         /\ Ended(r, u, f).dropped = r.dropped + f
<1> DEFINE g == r.dropped + f
           p == [r EXCEPT !.stage = "done", !.v = u, !.dropped = g]
<1>1. Ended(r, u, f) = p
  BY DEF Ended
<1>2. g \in Nat /\ "done" \in Stages
  BY DEF Stages, Ways
<1> HIDE DEF g
<1>3. p \in Ways
  BY <1>2 DEF Ways
<1>4. p.v = u /\ p.stage = "done" /\ p.merges = r.merges /\ p.left = r.left /\ p.dropped = g
  BY DEF Ways
<1> HIDE DEF p
<1> QED
  BY <1>1, <1>3, <1>4 DEF g

\* The last call, which forgets f pieces.
LEMMA EndedComing ==
  ASSUME NEW r, NEW z, NEW i, NEW c, Entering(z, i, c), Coming(r, z, i, c), r.stage = "adding",
         NEW u, Sound(u, None), Counted(u, None), Roomy(r.v, u), NEW f \in Nat,
         \A k : All(u, k) + (IF kind[i] = k THEN f ELSE 0) = All(r.v, k),
         c = "tile" => f = 0,
         z.burden = Load(z) => u.burden = Load(u)
  PROVE  Coming(Ended(r, u, f), z, i, c) /\ Ended(r, u, f).stage # "adding"
<1> DEFINE v == r.v
           q == Ended(r, u, f)
           g == r.dropped + f
<1>0. /\ r.dropped \in Nat /\ r.merges \in Nat /\ r.left = 0 /\ u \in Worlds /\ v \in Worlds
      /\ r = [v |-> v, stage |-> r.stage, merges |-> r.merges, left |-> r.left, dropped |-> r.dropped]
      /\ Roomy(z, v) /\ None \notin Items /\ Counted(u, i)
  BY ItemsAssumption DEF Coming, Sound, Counted, Ways
<1>1. /\ q \in Ways
      /\ q.v = u /\ q.stage = "done" /\ q.merges = r.merges /\ q.left = r.left /\ q.dropped = g
  <2>1. r \in Ways /\ u \in Worlds
    BY <1>0 DEF Coming, Ways
  <2>2. /\ Ended(r, u, f) \in Ways
        /\ Ended(r, u, f).v = u /\ Ended(r, u, f).stage = "done"
        /\ Ended(r, u, f).merges = r.merges /\ Ended(r, u, f).left = r.left
        /\ Ended(r, u, f).dropped = r.dropped + f
    BY <2>1, EndedIs
  <2> QED
    BY <2>2
<1>2. \A k : /\ All(u, k) + (IF kind[i] = k THEN f ELSE 0) = All(v, k)
             /\ All(v, k) + (IF kind[i] = k THEN r.left + r.dropped ELSE 0) = All(z, k)
             /\ All(u, k) \in Nat
  BY <1>0, AllNat DEF Coming
<1>3. Roomy(z, u)
  BY <1>0, RoomyTransitive
<1>4. /\ r.merges > 0 => i \in Stacks
      /\ c = "tile" => r.dropped = 0
  BY DEF Coming
<1> HIDE DEF v, q
<1>5. q.v = u /\ q.stage = "done" /\ q.merges = r.merges /\ q.left = 0 /\ q.dropped = g
      /\ q \in Ways
  BY <1>0, <1>1
<1>6. \A k : All(u, k) + (IF kind[i] = k THEN 0 + g ELSE 0) = All(z, k)
  <2> TAKE k
  <2> QED
    BY <1>0, <1>2
<1>7. Told(q, z, c)
  BY <1>5 DEF Told
<1>8. c = "tile" => g = 0
  BY <1>4
<1> HIDE DEF g
<1>9. Coming(q, z, i, c)
  BY <1>0, <1>3, <1>4, <1>5, <1>6, <1>7, <1>8 DEF Coming
<1> QED
  BY <1>5, <1>9 DEF q

LEMMA PutAtComing ==
  ASSUME NEW r, NEW z, NEW i, NEW c, NEW d, Entering(z, i, c), Found(r, z, i, c, d),
         d.to \in Slots => Content(r.v, d.to) = {},
         d.to \in Bags => d.onto = None
  PROVE  Coming(PutAt(r, i, d), z, i, c) /\ PutAt(r, i, d).stage # "adding"
<1> DEFINE v == r.v
           put == AddThing(v, d.to, d.at, i)
           q == PutAt(r, i, d)
<1>0. /\ v \in Worlds /\ Sound(v, None) /\ Sound(v, i) /\ OneEach(v)
      /\ i \in Items /\ i # None /\ v.in[i] = "nowhere" /\ v.count[i] \in 1..Most(i)
      /\ v.count[i] \in Nat /\ v.count \in [Items -> Nat] /\ v.in \in [Items -> Places]
      /\ \A k : All(v, k) \in Nat
      /\ r.dropped \in Nat /\ r.merges \in Nat /\ r.left = 0
      /\ z.burden = Load(z) /\ ~Owned(v, d.to) => v.burden = Load(v)
  BY FoundIs DEF Worlds
<1>1. Coming(r, z, i, c) /\ r.stage = "adding" /\ Lands(v, d) /\ Counted(v, i) /\ None \notin Items
      /\ QueryAdd(v, i, v.count[i], d.to, d.at) = "ok"
  BY ItemsAssumption DEF Found, Coming
<1>2. d.to \in Bags => i # d.to /\ i \notin Around(v, d.to) /\ v.in[d.to] # "nowhere"
                       /\ (d.at = "wherever" => Size(v, d.to) < capacity[d.to])
  BY <1>1, TakesIs DEF Lands
<1>3. CASE d.to \in Bags /\ ~(Size(v, d.to) < capacity[d.to])
  <2>1. d.at = "empty"
    <3>1. d.at \notin Items
      BY <1>1, <1>3, ItemsAssumption DEF Lands
    <3> QED
      BY <1>1, <1>2, <1>3, <3>1 DEF Lands
  <2>2. i \notin Stacks
    BY <1>3, <2>1 DEF Found, Within
  <2>3. v = z /\ r.dropped = 0 /\ c # "tile"
    <3>1. r.merges = 0
      BY <1>0, <1>1, <2>2 DEF Coming
    <3>2. v = z /\ r.dropped = 0
      BY <1>1, <3>1 DEF Coming
    <3> QED
      BY <1>3, <3>2, PlacesApart DEF Found
  <2>4. put = v
    BY <1>3, <2>1, SizeNat, CapacityNat DEF AddThing
  <2> DEFINE u == Vanish(v, i)
  <2>5. q = Ended(r, u, v.count[i])
    BY <1>0, <2>4 DEF PutAt
  <2>6. /\ u.in = v.in /\ Stirs(v, u, {}) /\ Roomy(v, u)
        /\ \A k : All(u, k) = All(v, k) + (IF kind[i] = k THEN 0 - v.count[i] ELSE 0)
    <3> HIDE DEF v
    <3>1. 0 \in Nat
      OBVIOUS
    <3>2. /\ [v EXCEPT !.count[i] = 0] = SetCount(v, i, 0)
          /\ [v EXCEPT !.count[i] = 0].in = v.in
          /\ [v EXCEPT !.count[i] = 0].count = [v.count EXCEPT ![i] = 0]
          /\ \A P : Stirs(v, [v EXCEPT !.count[i] = 0], P)
          /\ \A k : All([v EXCEPT !.count[i] = 0], k) = All(v, k) + (IF kind[i] = k THEN 0 - v.count[i] ELSE 0)
          /\ Roomy(v, [v EXCEPT !.count[i] = 0])
      <4>1. Sound(v, None) /\ i \in Items /\ v.in[i] = "nowhere"
        BY <1>0
      <4> QED
        BY <3>1, <4>1, VanishIs
    <3> QED
      BY <3>2 DEF Vanish
  <2>7. Counted(u, None)
    BY <1>0, <1>1, VanishCounted
  <2> HIDE DEF u
  <2>8. Sound(u, None) /\ (z.burden = Load(z) => u.burden = Load(u))
    BY <2>3, <2>6 DEF Stirs
  <2>9. \A k : All(u, k) + (IF kind[i] = k THEN v.count[i] ELSE 0) = All(v, k)
    BY <1>0, <2>6
  <2>10. Coming(Ended(r, u, v.count[i]), z, i, c) /\ Ended(r, u, v.count[i]).stage # "adding"
    <3> DEFINE f == v.count[i]
    <3>1. f \in Nat /\ (c = "tile" => f = 0) /\ Roomy(r.v, u)
          /\ \A k : All(u, k) + (IF kind[i] = k THEN f ELSE 0) = All(r.v, k)
      BY <1>0, <2>3, <2>6, <2>9
    <3> HIDE DEF f
    <3> QED
      BY <1>1, <2>7, <2>8, <3>1, EndedComing DEF f
  <2> QED
    BY <2>5, <2>10
<1>4. CASE ~(d.to \in Bags /\ ~(Size(v, d.to) < capacity[d.to]))
  <2>1. Space(v, d)
    BY <1>1, <1>2, <1>4 DEF Space, Lands
  <2> DEFINE p == PutIn(v, i, d.to)
             u == Notify(p, {d.to})
  <2>2. /\ Free(v, i, d.to) /\ put = p
        /\ p.in = [v.in EXCEPT ![i] = d.to] /\ p.count = v.count
        /\ Sound(p, None) /\ Roomy(v, p)
    <3> HIDE DEF v
    <3>1. d.to \in Bags => i \notin Around(v, d.to) \cup {d.to}
      BY <1>2
    <3> QED
      BY <1>0, <2>1, <3>1, PutInTold
  <2>3. p.burden = v.burden /\ (~Owned(v, d.to) => Load(p) = Load(v))
    <3> DEFINE s == d.to
    <3>1. Free(v, i, s)
      BY <2>2
    <3> HIDE DEF s, v
    <3>2. PutIn(v, i, s).burden = v.burden /\ (~Owned(v, s) => Load(PutIn(v, i, s)) = Load(v))
      BY <1>0, <3>1, PutInPlaces, PutInLoad
    <3> QED
      BY <3>2 DEF s
  <2>4. d.to # "nowhere"
    BY <1>1, PlacesApart DEF Lands
  <2>5. q = Ended(r, u, 0)
    <3>1. put.in[i] # "nowhere"
      BY <1>0, <2>2, <2>4
    <3> QED
      BY <2>2, <3>1 DEF PutAt
  <2> HIDE DEF p
  <2>6. Owned(p, d.to) <=> Owned(v, d.to)
    <3> DEFINE s == d.to
    <3>1. \A j \in Items \ {i} : p.in[j] = v.in[j]
      BY <1>0, <2>2
    <3>2. s \in Bags => i \notin Around(v, s) \cup {s}
      BY <1>2
    <3> HIDE DEF s, v
    <3> QED
      BY <3>1, <3>2, OwnedAgree DEF s
  <2>7. /\ u.in = p.in /\ u.count = p.count /\ Sound(u, None) /\ Load(u) = Load(p)
        /\ Owned(p, d.to) => u.burden = Load(p)
        /\ ~Owned(p, d.to) => u = p
    <3> DEFINE P == {d.to}
    <3>0. Owned(p, d.to) <=> \E s \in P : Owned(p, s)
      OBVIOUS
    <3> HIDE DEF P
    <3>1. /\ Notify(p, P).in = p.in /\ Notify(p, P).count = p.count /\ Sound(Notify(p, P), None)
          /\ Load(Notify(p, P)) = Load(p)
          /\ (\E s \in P : Owned(p, s)) => Notify(p, P).burden = Load(p)
          /\ ~(\E s \in P : Owned(p, s)) => Notify(p, P) = p
      BY <2>2, NotifyIs
    <3> QED
      BY <3>0, <3>1 DEF P
  <2> HIDE DEF u
  <2>8. z.burden = Load(z) => u.burden = Load(u)
    BY <1>0, <2>3, <2>6, <2>7
  <2>9. Counted(u, None)
    <3> SUFFICES ASSUME NEW x \in Items
                 PROVE  IF u.in[x] = "nowhere" THEN u.count[x] = 0 ELSE u.count[x] \in 1..Most(x)
      BY DEF Counted
    <3>1. x # i => IF v.in[x] = "nowhere" THEN v.count[x] = 0 ELSE v.count[x] \in 1..Most(x)
      BY <1>1 DEF Counted
    <3> QED
      BY <1>0, <2>2, <2>4, <2>7, <3>1
  <2>10. Roomy(v, u)
    BY <2>2, <2>7 DEF Roomy, Size, Content
  <2>11. \A k : All(u, k) + (IF kind[i] = k THEN 0 ELSE 0) = All(v, k)
    BY <1>0, <2>2, <2>7 DEF All
  <2>12. Coming(Ended(r, u, 0), z, i, c) /\ Ended(r, u, 0).stage # "adding"
    <3> DEFINE f == 0
    <3>1. f \in Nat /\ (c = "tile" => f = 0) /\ Roomy(r.v, u)
          /\ \A k : All(u, k) + (IF kind[i] = k THEN f ELSE 0) = All(r.v, k)
      BY <2>10, <2>11
    <3> HIDE DEF f
    <3> QED
      BY <1>1, <2>7, <2>8, <2>9, <3>1, EndedComing DEF f
  <2> QED
    BY <2>5, <2>12
<1> QED
  BY <1>3, <1>4

Merging(r, v, f) == [r EXCEPT !.v = v, !.merges = @ + 1, !.dropped = @ + f]

LEMMA MergingIs ==
  ASSUME NEW r \in Ways, NEW u \in Worlds, NEW f \in Nat
  PROVE  /\ Merging(r, u, f) \in Ways
         /\ Merging(r, u, f).v = u /\ Merging(r, u, f).stage = r.stage
         /\ Merging(r, u, f).merges = r.merges + 1 /\ Merging(r, u, f).left = r.left
         /\ Merging(r, u, f).dropped = r.dropped + f
<1> DEFINE g == r.dropped + f
           m == r.merges + 1
           p == [r EXCEPT !.v = u, !.merges = m, !.dropped = g]
<1>1. Merging(r, u, f) = p
  BY DEF Merging
<1>2. g \in Nat /\ m \in Nat
  BY DEF Ways
<1> HIDE DEF g, m
<1>3. p \in Ways
  BY <1>2 DEF Ways
<1>4. p.v = u /\ p.stage = r.stage /\ p.merges = m /\ p.left = r.left /\ p.dropped = g
  BY DEF Ways
<1> HIDE DEF p
<1> QED
  BY <1>1, <1>3, <1>4 DEF g, m

\* k pieces of what is coming merge with the stack that was found, n are still to come.
Filling(v, i, j, k, n) == [SetCount(v, j, v.count[j] + k) EXCEPT !.count[i] = n]

\* From v to u, k pieces have merged and n are left of item i: of its kind there are as many
\* pieces as before but for those that were cut off.
Reckoned(v, u, i, k, n, P) ==
  /\ Stirs(v, u, P) /\ Roomy(v, u) /\ u.in = v.in
  /\ u.count[i] = n /\ Counted(u, i) /\ (n = 0 => Counted(u, None))
  /\ \A s : All(u, s) = All(v, s) + (IF kind[i] = s THEN k + n - v.count[i] ELSE 0)

LEMMA FilledIs ==
  ASSUME NEW r, NEW z, NEW i \in Stacks, NEW c, NEW d, Entering(z, i, c), Found(r, z, i, c, d),
         Equals(i, d.onto), NEW k \in Nat, k <= Room(r.v, d.onto), NEW n \in Nat,
         NEW P, d.to \in P, NEW v, v = r.v, NEW u, u = Filling(v, i, d.onto, k, n)
  PROVE  Reckoned(v, u, i, k, n, P)
<1> DEFINE j == d.onto
           m == SetCount(v, j, v.count[j] + k)
<1>0. /\ v \in Worlds /\ Sound(v, None) /\ i \in Items /\ v.in[i] = "nowhere"
      /\ v.count[i] \in Nat /\ v.count \in [Items -> Nat] /\ Counted(v, i)
      /\ \A s : All(v, s) \in Nat
  <2>1. Counted(v, i)
    BY DEF Found, Coming
  <2> QED
    BY <2>1, FoundIs
<1>1. /\ j \in Stacks /\ j \in Items /\ j # i /\ kind[j] = kind[i] /\ v.in[j] = d.to /\ d.to # "nowhere"
      /\ Most(j) = StackSize /\ StackSize \in Nat /\ None \notin Items
  <2>1. j \in Items /\ v.in[j] = d.to /\ d.to \in Slots \cup Bags \cup {"tile"} /\ j # None /\ kind[j] = kind[i]
    BY DEF Equals, Found, Lands
  <2>2. j # i /\ d.to # "nowhere"
    BY <1>0, <2>1, PlacesApart
  <2>3. j \in Stacks
    BY <1>0, <2>1, ItemsAssumption
  <2> QED
    BY <2>1, <2>2, <2>3, ItemsAssumption DEF Most
<1>2. v.count[j] \in 1..StackSize /\ v.count[j] + k \in 1..StackSize
  <2>1. v.count[j] \in 1..StackSize
    BY <1>0, <1>1 DEF Counted
  <2> QED
    BY <1>1, <2>1 DEF Room
<1>3. /\ m.in = v.in /\ m.count = [v.count EXCEPT ![j] = v.count[j] + k]
      /\ Stirs(v, m, P)
      /\ \A s : All(m, s) = All(v, s) + (IF kind[j] = s THEN (v.count[j] + k) - v.count[j] ELSE 0)
  <2> DEFINE y == v.count[j] + k
  <2>1. y \in Nat /\ v.in[j] \in P \cup {"nowhere"}
    BY <1>1, <1>2
  <2> HIDE DEF y, j
  <2>2. SetCount(v, j, y).in = v.in /\ SetCount(v, j, y).count = [v.count EXCEPT ![j] = y]
    BY <1>0, <1>1, <2>1, SetCountIs
  <2>3. Stirs(v, SetCount(v, j, y), P)
    BY <1>0, <1>1, <2>1, StirsSetCount
  <2>4. \A s : All(SetCount(v, j, y), s) = All(v, s) + (IF kind[j] = s THEN y - v.count[j] ELSE 0)
    BY <1>0, <1>1, <2>1, SetCountAll
  <2> QED
    BY <2>2, <2>3, <2>4 DEF y
<1> HIDE DEF m
<1>4. Sound(m, None) /\ m \in Worlds
  BY <1>3 DEF Stirs, Sound
<1>5. u = [m EXCEPT !.count[i] = n]
  BY DEF m, Filling
<1> HIDE DEF j
<1>6. /\ u.in = m.in /\ u.count = [m.count EXCEPT ![i] = n]
      /\ Stirs(m, u, P) /\ Roomy(m, u)
      /\ \A s : All(u, s) = All(m, s) + (IF kind[i] = s THEN n - m.count[i] ELSE 0)
  <2>1. m.in[i] = "nowhere"
    BY <1>0, <1>3
  <2>2. /\ [m EXCEPT !.count[i] = n] = SetCount(m, i, n)
        /\ [m EXCEPT !.count[i] = n].in = m.in
        /\ [m EXCEPT !.count[i] = n].count = [m.count EXCEPT ![i] = n]
        /\ \A Q : Stirs(m, [m EXCEPT !.count[i] = n], Q)
        /\ \A s : All([m EXCEPT !.count[i] = n], s) = All(m, s) + (IF kind[i] = s THEN n - m.count[i] ELSE 0)
        /\ Roomy(m, [m EXCEPT !.count[i] = n])
    BY <1>0, <1>4, <2>1, VanishIs
  <2> QED
    BY <1>5, <2>2
<1>7. Stirs(v, u, P)
  BY <1>3, <1>6, StirsTransitive
<1>8. Roomy(v, u)
  BY <1>3, <1>6, RoomyTransitive DEF Roomy, Size, Content
<1>9. m.count[i] = v.count[i] /\ u.count[i] = n /\ m.count[j] = v.count[j] + k
      /\ m.count \in [Items -> Nat] /\ u.count[j] = v.count[j] + k
      /\ \A x \in Items \ {i, j} : u.count[x] = v.count[x]
  BY <1>0, <1>1, <1>2, <1>3, <1>4, <1>6 DEF Worlds
<1>10. \A s : All(u, s) = All(v, s) + (IF kind[i] = s THEN k + n - v.count[i] ELSE 0)
  <2> TAKE s
  <2>1. All(m, s) = All(v, s) + (IF kind[i] = s THEN k ELSE 0)
    BY <1>0, <1>1, <1>2, <1>3
  <2>2. All(u, s) = All(m, s) + (IF kind[i] = s THEN n - v.count[i] ELSE 0)
    BY <1>6, <1>9
  <2> QED
    BY <1>0, <2>1, <2>2
<1>11. Counted(u, i) /\ (n = 0 => Counted(u, None))
  <2>1. \A x \in Items \ {i} : IF u.in[x] = "nowhere" THEN u.count[x] = 0 ELSE u.count[x] \in 1..Most(x)
    <3> TAKE x \in Items \ {i}
    <3>1. IF v.in[x] = "nowhere" THEN v.count[x] = 0 ELSE v.count[x] \in 1..Most(x)
      BY <1>0 DEF Counted
    <3>2. CASE x = j
      BY <1>1, <1>2, <1>3, <1>6, <1>9, <3>2
    <3>3. CASE x # j
      BY <1>3, <1>6, <1>9, <3>1, <3>3
    <3> QED
      BY <3>2, <3>3
  <2>2. u.in[i] = "nowhere"
    BY <1>0, <1>3, <1>6
  <2> QED
    BY <1>9, <2>1, <2>2 DEF Counted
<1>12. u.in = v.in
  BY <1>3, <1>6
<1> QED
  BY <1>7, <1>8, <1>9, <1>10, <1>11, <1>12 DEF Reckoned

LEMMA MergeAtComing ==
  ASSUME NEW r, NEW z, NEW i \in Stacks, NEW c, NEW d, Entering(z, i, c), Found(r, z, i, c, d),
         Equals(i, d.onto)
  PROVE  /\ Coming(MergeAt(r, i, c, d), z, i, c)
         /\ MergeAt(r, i, c, d).stage = "adding" => MergeAt(r, i, c, d).v.count[i] < r.v.count[i]
<1> DEFINE v == r.v
           N == v.count[i]
           j == d.onto
           F == Fit(v, i, c)
           k == Filled(v, i, c, j)
           rest == F - k
           cut == N - F
           m == SetCount(v, j, v.count[j] + k)
           t == [m EXCEPT !.count[i] = rest]
           q == MergeAt(r, i, c, d)
<1>0. /\ v \in Worlds /\ Sound(v, None) /\ OneEach(v) /\ i \in Items /\ v.in[i] = "nowhere"
      /\ N \in Nat /\ N > 0 /\ Counted(v, i)
      /\ \A s : All(v, s) \in Nat
      /\ r \in Ways /\ r.stage = "adding" /\ r.left = 0 /\ r.dropped \in Nat /\ r.merges \in Nat
      /\ c \in Bags \cup {"tile", "player"} /\ Coming(r, z, i, c)
      /\ N <= Most(i)
  <2>1. Counted(v, i) /\ r \in Ways /\ r.stage = "adding" /\ c \in Bags \cup {"tile", "player"}
        /\ Coming(r, z, i, c)
    BY DEF Found, Coming, Entering
  <2>2. N \in 1..Most(i) /\ Most(i) \in Nat
    BY FoundIs, MostNat
  <2> QED
    BY <2>1, <2>2, FoundIs
<1>1. /\ j \in Items /\ j # None /\ Room(v, j) \in Nat /\ (c # "tile" => Room(v, j) > 0)
  <2>1. j \in Items /\ v.in[j] = d.to /\ d.to \in Slots \cup Bags \cup {"tile"} /\ j # None /\ kind[j] = kind[i]
        /\ j # i /\ (c = "tile" \/ j \in Mergeable(v, i, d.to))
    BY DEF Equals, Found, Lands
  <2>2. j \in Stacks /\ d.to # "nowhere"
    BY <1>0, <2>1, ItemsAssumption, PlacesApart
  <2> HIDE DEF v, j
  <2>3. Room(v, j) \in Nat
    BY <1>0, <2>1, <2>2, PlacedCount
  <2> QED
    BY <2>1, <2>3 DEF Mergeable
<1>2. F \in 0..N /\ (c = "tile" => F = N)
  <2> HIDE DEF v
  <2> QED
    BY <1>0, FitIs
<1>3. k \in 0..F /\ k <= Room(v, j) /\ (k = F \/ k = Room(v, j))
  <2> DEFINE R == Room(v, j)
  <2>1. k = Least(R, F) /\ R \in Nat
    BY <1>1 DEF Filled
  <2> HIDE DEF R, F, k
  <2> QED
    BY <1>2, <2>1 DEF Least, R
<1>4. rest \in 0..N /\ cut \in Nat /\ k \in Nat
  <2> HIDE DEF k, F, N
  <2> QED
    BY <1>0, <1>2, <1>3
<1>5. /\ Stirs(v, t, {d.to}) /\ Roomy(v, t) /\ t.in = v.in
      /\ t.count[i] = rest /\ Counted(t, i) /\ (rest = 0 => Counted(t, None))
      /\ \A s : All(t, s) = All(v, s) + (IF kind[i] = s THEN k + rest - N ELSE 0)
  <2> DEFINE n == rest
  <2>1. n \in Nat /\ k \in Nat /\ k <= Room(r.v, d.onto)
    BY <1>3, <1>4
  <2> HIDE DEF n, k
  <2>2. t = Filling(r.v, i, d.onto, k, n)
    BY DEF n, Filling
  <2> HIDE DEF t
  <2> QED
    <3> DEFINE P == {d.to}
    <3>1. d.to \in P
      OBVIOUS
    <3> HIDE DEF P, t, v
    <3>2. v = r.v
      BY DEF v
    <3>3. t = Filling(v, i, d.onto, k, n)
      BY <2>2, <3>2
    <3>4. Reckoned(v, t, i, k, n, P)
      BY <2>1, <3>1, <3>2, <3>3, FilledIs
    <3> QED
      BY <3>4 DEF n, P, Reckoned
<1>6. q = IF rest = 0 THEN Ended(r, Notify(Vanish(m, i), {d.to}), cut)
          ELSE IF rest = N THEN PutAt(r, i, d)
          ELSE Merging(r, t, cut)
  <2> HIDE DEF F, k
  <2> QED
    BY DEF MergeAt, Merging, F, k
<1>7. CASE rest = 0
  <2> DEFINE u == Notify(t, {d.to})
  <2>1. Vanish(m, i) = t
    BY <1>7 DEF Vanish
  <2>2. q = Ended(r, u, cut)
    BY <1>6, <1>7, <2>1
  <2> HIDE DEF t, q, m, rest, k, F
  <2>3. /\ u.in = t.in /\ u.count = t.count /\ Sound(u, None)
        /\ Owned(t, d.to) => u.burden = Load(u)
        /\ v.burden = Load(v) => u.burden = Load(u)
    <3> DEFINE P == {d.to}
    <3>1. Sound(t, None) /\ Stirs(v, t, P) /\ (Owned(t, d.to) => \E s \in P : Owned(t, s))
      BY <1>5 DEF Stirs
    <3> HIDE DEF P, v
    <3>2. /\ Notify(t, P).in = t.in /\ Notify(t, P).count = t.count
          /\ Sound(Notify(t, P), None) /\ Load(Notify(t, P)) = Load(t)
          /\ (\E s \in P : Owned(t, s)) => Notify(t, P).burden = Load(t)
      BY <3>1, NotifyIs
    <3>3. v.burden = Load(v) => Notify(t, P).burden = Load(Notify(t, P))
      BY <3>1, StirsNotify
    <3> QED
      BY <3>1, <3>2, <3>3 DEF P
  <2>4. Owned(t, d.to) <=> Owned(v, d.to)
    <3> HIDE DEF v
    <3> QED
      BY <1>5, StirsOwned
  <2> HIDE DEF u
  <2>5. z.burden = Load(z) => u.burden = Load(u)
    BY <2>3, <2>4, FoundIs
  <2>6. Counted(u, None) /\ Roomy(v, u)
    <3>1. Counted(t, None) /\ Roomy(v, t)
      BY <1>5, <1>7
    <3> QED
      BY <2>3, <3>1 DEF Counted, Roomy, Size, Content
  <2>7. cut \in Nat /\ (c = "tile" => cut = 0)
    BY <1>0, <1>2, <1>4
  <2>8. \A s : All(u, s) + (IF kind[i] = s THEN cut ELSE 0) = All(v, s)
    <3> TAKE s
    <3>1. All(u, s) = All(t, s)
      BY <2>3 DEF All
    <3>2. k = F
      BY <1>2, <1>3, <1>7 DEF rest
    <3> HIDE DEF v, N
    <3> QED
      BY <1>0, <1>2, <1>4, <1>5, <1>7, <3>1, <3>2 DEF rest
  <2>9. Coming(Ended(r, u, cut), z, i, c) /\ Ended(r, u, cut).stage # "adding"
    <3> DEFINE f == cut
    <3>1. f \in Nat /\ (c = "tile" => f = 0) /\ Roomy(r.v, u)
          /\ \A s : All(u, s) + (IF kind[i] = s THEN f ELSE 0) = All(r.v, s)
      BY <2>6, <2>7, <2>8
    <3> HIDE DEF f
    <3> QED
      BY <1>0, <2>3, <2>5, <2>6, <3>1, EndedComing DEF f
  <2> QED
    BY <2>2, <2>9 DEF q
<1>8. CASE rest # 0 /\ rest = N
  <2>1. q = PutAt(r, i, d)
    BY <1>6, <1>8
  <2>2. k = 0 /\ F = N
    <3> HIDE DEF k, F
    <3> QED
      BY <1>0, <1>2, <1>3, <1>8
  <2>3. c = "tile"
    <3> HIDE DEF k, F
    <3> QED
      BY <1>0, <1>1, <1>3, <2>2
  <2>4. d.to = "tile" /\ d.to \notin Slots /\ d.to \notin Bags
    BY <2>3, PlacesApart DEF Found
  <2>5. Coming(PutAt(r, i, d), z, i, c) /\ PutAt(r, i, d).stage # "adding"
    BY <2>4, PutAtComing
  <2> QED
    BY <2>1, <2>5
<1>9. CASE rest # 0 /\ rest # N
  <2>1. q = Merging(r, t, cut)
    BY <1>6, <1>9
  <2>2. t \in Worlds /\ Sound(t, None)
    BY <1>5 DEF Stirs, Sound
  <2> HIDE DEF t, q
  <2>3. /\ q \in Ways
        /\ q.v = t /\ q.stage = "adding" /\ q.merges = r.merges + 1 /\ q.left = 0
        /\ q.dropped = r.dropped + cut
    <3> DEFINE f == cut
    <3>1. f \in Nat /\ q = Merging(r, t, f)
      BY <1>4, <2>1
    <3> HIDE DEF f
    <3>2. /\ Merging(r, t, f) \in Ways
          /\ Merging(r, t, f).v = t /\ Merging(r, t, f).stage = r.stage
          /\ Merging(r, t, f).merges = r.merges + 1 /\ Merging(r, t, f).left = r.left
          /\ Merging(r, t, f).dropped = r.dropped + f
      <4>1. r \in Ways /\ t \in Worlds /\ f \in Nat
        BY <1>0, <2>2, <3>1
      <4> HIDE DEF v, j
      <4> QED
        BY <4>1, MergingIs
    <3> QED
      BY <1>0, <3>1, <3>2 DEF f
  <2> HIDE DEF m, rest, k, F
  <2>4. rest \in 1..N - 1 /\ rest \in 1..Most(i)
    <3> HIDE DEF N
    <3>1. Most(i) \in Nat
      BY MostNat
    <3> QED
      BY <1>0, <1>4, <1>9, <3>1
  <2>5. z.burden = Load(z) => t.burden = Load(t) \/ c = "player" \/ Owned(t, c)
    <3> SUFFICES ASSUME z.burden = Load(z), c # "player", ~Owned(t, c) PROVE t.burden = Load(t)
      OBVIOUS
    <3>1. d.to = c
      BY DEF Found
    <3>2. ~Owned(v, c)
      <4> HIDE DEF v
      <4> QED
        BY <1>5, StirsOwned
    <3>3. v.burden = Load(v)
      BY <3>1, <3>2, FoundIs
    <3> QED
      BY <1>5, <3>1, <3>2, <3>3 DEF Stirs
  <2>6. Told(q, z, c)
    BY <2>3, <2>5 DEF Told
  <2>7. Roomy(z, t)
    <3>1. Roomy(z, v)
      BY <1>0 DEF Coming
    <3> HIDE DEF v
    <3> QED
      BY <1>5, <3>1, RoomyTransitive
  <2>8. \A s : All(t, s) + (IF kind[i] = s THEN q.left + q.dropped ELSE 0) = All(z, s)
    <3> TAKE s
    <3>1. All(v, s) + (IF kind[i] = s THEN r.left + r.dropped ELSE 0) = All(z, s)
      BY <1>0 DEF Coming
    <3>2. k + rest = F
      BY <1>2, <1>3 DEF rest
    <3> HIDE DEF v, N
    <3> QED
      BY <1>0, <1>2, <1>4, <1>5, <2>3, <3>1, <3>2
  <2>9. c \in Bags => t.in[c] # "nowhere"
    <3>1. c \in Bags => v.in[c] # "nowhere"
      BY <1>0 DEF Coming
    <3> QED
      BY <1>5, <3>1
  <2>10. c = "tile" => cut = 0 /\ r.dropped = 0
    <3>1. c = "tile" => r.dropped = 0
      BY <1>0 DEF Coming
    <3> QED
      BY <1>0, <1>2, <3>1
  <2>11. q.merges > 0 /\ q.merges \in Nat /\ q.merges # 0
    BY <1>0, <2>3
  <2> HIDE DEF v, N, cut
  <2>12. Coming(q, z, i, c)
    BY <1>0, <1>5, <2>2, <2>3, <2>4, <2>6, <2>7, <2>8, <2>9, <2>10, <2>11 DEF Coming
  <2>13. q.v.count[i] < N
    BY <1>0, <1>5, <2>3, <2>4
  <2> QED
    BY <2>12, <2>13 DEF q, N, v
<1> QED
  BY <1>7, <1>8, <1>9

\* One call keeps all this, and leaves less to come.
LEMMA CallComing ==
  ASSUME NEW z, NEW i, NEW c, Entering(z, i, c), NEW r, Coming(r, z, i, c), NEW q \in Call(r, i, c)
  PROVE  /\ Coming(q, z, i, c)
         /\ q.stage = "adding" => r.stage = "adding" /\ q.v.count[i] < r.v.count[i]
<1> DEFINE v == r.v
<1>1. CASE r.stage # "adding"
  BY <1>1 DEF Call
<1>2. CASE r.stage = "adding" /\ Wherever(v, i, c) = {}
  <2>1. q = Refused(r, i)
    BY <1>2 DEF Call
  <2>2. c # "tile"
    <3> SUFFICES ASSUME c = "tile" PROVE FALSE
      OBVIOUS
    <3>1. Wherever(v, i, c) = OnTile(v)
      BY PlacesApart DEF Wherever
    <3>2. OnTile(v) # {}
      BY DEF OnTile
    <3> QED
      BY <1>2, <3>1, <3>2
  <2> QED
    BY <1>2, <2>1, <2>2, RefusedComing
<1>3. CASE r.stage = "adding" /\ Wherever(v, i, c) # {}
  <2>1. PICK d \in Wherever(v, i, c) :
          q = IF ~Accepts(v, i, c, d) THEN Refused(r, i)
              ELSE IF i \in Stacks /\ Equals(i, d.onto) THEN MergeAt(r, i, c, d)
              ELSE PutAt(r, i, d)
    BY <1>3 DEF Call
  <2>2. /\ Lands(v, d) /\ (i \in Stacks => Within(v, d))
        /\ d.onto # None => d.onto # i /\ (c = "tile" \/ d.onto \in Mergeable(v, i, d.to))
        /\ c = "player" => Owned(v, d.to)
        /\ c # "player" => d.to = c
    <3>1. OneEach(v) /\ i \in Items /\ v.in[i] = "nowhere" /\ c \in Bags \cup {"tile", "player"}
          /\ (c \in Bags => v.in[c] # "nowhere")
      BY <1>3 DEF Coming, Entering, Sound
    <3> HIDE DEF v
    <3> QED
      BY <2>1, <3>1, WhereverIs
  <2>3. CASE ~Accepts(v, i, c, d)
    <3>1. c # "tile"
      <4> SUFFICES ASSUME c = "tile" PROVE FALSE
        OBVIOUS
      <4>1. d.to = "tile" /\ d.to \notin Bags /\ d.to \notin Slots
        BY <2>2, PlacesApart
      <4>2. QueryAdd(v, i, v.count[i], d.to, d.at) = "ok"
        BY <4>1 DEF QueryAdd
      <4> QED
        BY <2>3, <4>1, <4>2 DEF Accepts
    <3> QED
      BY <1>3, <2>1, <2>3, <3>1, RefusedComing
  <2>4. CASE Accepts(v, i, c, d)
    <3>1. QueryAdd(v, i, v.count[i], d.to, d.at) = "ok"
      BY <2>4 DEF Accepts
    <3>2. Found(r, z, i, c, d)
      BY <1>3, <2>2, <3>1 DEF Found
    <3>3. CASE i \in Stacks /\ Equals(i, d.onto)
      <4>1. q = MergeAt(r, i, c, d)
        BY <2>1, <2>4, <3>3
      <4> QED
        BY <1>3, <3>2, <3>3, <4>1, MergeAtComing
    <3>4. CASE ~(i \in Stacks /\ Equals(i, d.onto))
      <4>1. q = PutAt(r, i, d)
        BY <2>1, <2>4, <3>4
      <4>2. d.to \in Slots => Content(r.v, d.to) = {}
        <5> SUFFICES ASSUME d.to \in Slots, Content(v, d.to) # {} PROVE FALSE
          OBVIOUS
        <5>1. OneEach(v) /\ i \in Items /\ d.onto = Occupant(v, d.to)
          BY <2>2 DEF Coming, Entering, Sound, Lands
        <5> DEFINE s == d.to
        <5>2. s \in Slots /\ Content(v, s) # {} /\ QueryAdd(v, i, v.count[i], s, d.at) = "ok"
          BY <3>1
        <5> HIDE DEF v, s
        <5>3. Occupant(v, s) \in Stacks /\ kind[Occupant(v, s)] = kind[i] /\ i \in Stacks
          BY <5>1, <5>2, SlotTakesIs
        <5>4. d.onto \in Stacks /\ kind[d.onto] = kind[i]
          BY <5>1, <5>3 DEF s
        <5> QED
          BY <3>4, <5>3, <5>4, ItemsAssumption DEF Equals
      <4>3. d.to \in Bags => d.onto = None
        <5> SUFFICES ASSUME d.to \in Bags, d.onto # None PROVE FALSE
          OBVIOUS
        <5>1. c # "tile"
          BY <2>2, PlacesApart
        <5>2. d.onto \in Mergeable(v, i, d.to)
          BY <2>2, <5>1
        <5> QED
          BY <3>4, <5>2 DEF Mergeable
      <4> QED
        BY <3>2, <4>1, <4>2, <4>3, PutAtComing
    <3> QED
      BY <3>3, <3>4
  <2> QED
    BY <2>3, <2>4
<1> QED
  BY <1>1, <1>2, <1>3

\* The rounds of internalAddItem: there is such a function, by the rounds there are up to m.
Rounds(f, v, i, c, m) ==
  f = [n \in 0..m |-> IF n = 0 THEN {Adding(v)} ELSE UNION {Call(r, i, c) : r \in f[n - 1]}]

LEMMA RoundsExist ==
  ASSUME NEW v, NEW i, NEW c, NEW N \in Nat
  PROVE  \E f : Rounds(f, v, i, c, N)
<1> DEFINE Bad == {m \in Nat : ~\E f : Rounds(f, v, i, c, m)}
<1>1. SUFFICES ASSUME Bad # {} PROVE FALSE
  OBVIOUS
<1>2. PICK m \in Bad : \A n \in Bad : ~(<<n, m>> \in OpToRel(<, Nat))
  BY <1>1, NatLessThanWellFounded, WFMin
<1>3. CASE m = 0
  <2> DEFINE g == [n \in 0..0 |-> {Adding(v)}]
  <2>1. \A n \in 0..0 : n = 0
    OBVIOUS
  <2>2. g = [n \in 0..0 |-> IF n = 0 THEN {Adding(v)} ELSE UNION {Call(r, i, c) : r \in g[n - 1]}]
    BY <2>1
  <2>3. Rounds(g, v, i, c, m)
    BY <1>3, <2>2 DEF Rounds
  <2> QED
    BY <2>3
<1>4. CASE m # 0
  <2>1. m - 1 \in Nat /\ m - 1 < m
    BY <1>4
  <2>2. m - 1 \notin Bad
    BY <1>2, <2>1 DEF OpToRel
  <2>3. PICK f : Rounds(f, v, i, c, m - 1)
    BY <2>1, <2>2
  <2> DEFINE g == [n \in 0..m |-> IF n = m THEN UNION {Call(r, i, c) : r \in f[m - 1]} ELSE f[n]]
             h == [n \in 0..m |-> IF n = 0 THEN {Adding(v)} ELSE UNION {Call(r, i, c) : r \in g[n - 1]}]
  <2>4. \A n \in 0..m : g[n] = h[n]
    <3> TAKE n \in 0..m
    <3>1. f = [k \in 0..m - 1 |-> IF k = 0 THEN {Adding(v)} ELSE UNION {Call(r, i, c) : r \in f[k - 1]}]
      BY <2>3 DEF Rounds
    <3>2. CASE n = m
      <4>1. m - 1 \in 0..m /\ m - 1 # m
        BY <1>4
      <4>2. g[m - 1] = f[m - 1]
        BY <4>1
      <4> QED
        BY <1>4, <3>2, <4>2
    <3>3. CASE n # m
      <4>1. n \in 0..m - 1 /\ (n # 0 => n - 1 \in 0..m /\ n - 1 # m)
        BY <3>3
      <4>2. f[n] = IF n = 0 THEN {Adding(v)} ELSE UNION {Call(r, i, c) : r \in f[n - 1]}
        BY <3>1, <4>1
      <4>3. n # 0 => g[n - 1] = f[n - 1]
        BY <4>1
      <4> QED
        BY <3>3, <4>2, <4>3
    <3> QED
      BY <3>2, <3>3
  <2>5. g = h
    <3>1. g = [n \in 0..m |-> g[n]] /\ h = [n \in 0..m |-> h[n]]
      OBVIOUS
    <3> HIDE DEF g, h
    <3> QED
      BY <2>4, <3>1
  <2>6. Rounds(g, v, i, c, m)
    <3> HIDE DEF g
    <3> QED
      BY <2>5 DEF Rounds
  <2> QED
    BY <2>6
<1> QED
  BY <1>3, <1>4

\* What internalAddItem comes to: it ends, since every rest is smaller.
LEMMA InternalAddIs ==
  ASSUME NEW z, NEW i, NEW c, Entering(z, i, c), NEW q \in InternalAdd(z, i, c)
  PROVE  Coming(q, z, i, c) /\ q.stage # "adding"
<1> DEFINE N == z.count[i]
           f == CHOOSE h : Rounds(h, z, i, c, N)
           Bad == {m \in 0..N : ~\A r \in f[m] : /\ Coming(r, z, i, c)
                                                 /\ r.stage = "adding" => r.v.count[i] <= N - m}
<1>1. N \in Nat /\ Most(i) \in Nat
  BY MostNat DEF Entering, Sound, Worlds
<1>2. Rounds(f, z, i, c, N)
  BY <1>1, RoundsExist
<1>3. InternalAdd(z, i, c) = f[N]
  BY DEF InternalAdd, Rounds
<1>4. \A m \in 0..N : f[m] = IF m = 0 THEN {Adding(z)} ELSE UNION {Call(r, i, c) : r \in f[m - 1]}
  <2> HIDE DEF f, N
  <2>1. f = [n \in 0..N |-> IF n = 0 THEN {Adding(z)} ELSE UNION {Call(r, i, c) : r \in f[n - 1]}]
    BY <1>2 DEF Rounds
  <2> QED
    BY <2>1
<1> HIDE DEF f
<1>5. Bad = {}
  <2>1. SUFFICES ASSUME Bad # {} PROVE FALSE
    OBVIOUS
  <2>2. Bad \subseteq Nat
    BY <1>1
  <2>3. PICK m \in Bad : \A n \in Bad : ~(<<n, m>> \in OpToRel(<, Nat))
    BY <2>1, <2>2, NatLessThanWellFounded, WFMin
  <2>4. m \in 0..N
    OBVIOUS
  <2>5. CASE m = 0
    <3>1. f[0] = {Adding(z)}
      BY <1>4, <2>4, <2>5
    <3>2. Coming(Adding(z), z, i, c)
      BY ComingFirst
    <3>3. Adding(z).v = z
      BY DEF Adding
    <3>4. \A r \in f[m] : Coming(r, z, i, c) /\ r.v.count[i] <= N - m
      <4> TAKE r \in f[m]
      <4>1. r = Adding(z)
        BY <2>5, <3>1
      <4>2. N <= N - m
        BY <1>1, <2>5
      <4> QED
        BY <3>2, <3>3, <4>1, <4>2
    <3> QED
      BY <2>3, <3>4
  <2>6. CASE m # 0
    <3>1. m - 1 \in 0..N /\ m - 1 \in Nat /\ m \in Nat /\ m - 1 < m
      BY <1>1, <2>4, <2>6
    <3>2. m - 1 \notin Bad
      BY <2>3, <3>1 DEF OpToRel
    <3>3. \A r \in f[m - 1] : /\ Coming(r, z, i, c)
                              /\ r.stage = "adding" => r.v.count[i] <= N - (m - 1)
      BY <3>1, <3>2
    <3>4. f[m] = UNION {Call(r, i, c) : r \in f[m - 1]}
      BY <1>4, <2>4, <2>6
    <3>5. ASSUME NEW p \in f[m]
          PROVE  Coming(p, z, i, c) /\ (p.stage = "adding" => p.v.count[i] <= N - m)
      <4>1. PICK r \in f[m - 1] : p \in Call(r, i, c)
        BY <3>4
      <4>2. Coming(r, z, i, c) /\ (r.stage = "adding" => r.v.count[i] <= N - (m - 1))
        BY <3>3
      <4>3. /\ Coming(p, z, i, c)
            /\ p.stage = "adding" => r.stage = "adding" /\ p.v.count[i] < r.v.count[i]
        BY <4>1, <4>2, CallComing
      <4>4. p.v.count[i] \in Nat /\ r.v.count[i] \in Nat
        BY <4>2, <4>3 DEF Entering, Coming, Sound, Worlds
      <4> DEFINE x == p.v.count[i]
                 y == r.v.count[i]
      <4>5. p.stage = "adding" => x < y /\ y <= N - (m - 1)
        BY <4>2, <4>3
      <4> HIDE DEF x, y, N
      <4>6. x \in Nat /\ y \in Nat
        BY <4>4 DEF x, y
      <4>7. p.stage = "adding" => x <= N - m
        BY <1>1, <3>1, <4>5, <4>6
      <4> QED
        BY <4>3, <4>7 DEF x
    <3> QED
      BY <2>3, <3>5
  <2> QED
    BY <2>5, <2>6
<1>6. N \in 0..N
  BY <1>1
<1>7. Coming(q, z, i, c) /\ (q.stage = "adding" => q.v.count[i] <= N - N)
  BY <1>3, <1>5, <1>6
<1>8. q.stage # "adding"
  <2> SUFFICES ASSUME q.stage = "adding" PROVE FALSE
    OBVIOUS
  <2>1. q.v.count[i] \in 1..Most(i)
    BY <1>7 DEF Coming
  <2> QED
    BY <1>1, <1>7, <2>1
<1> QED
  BY <1>7, <1>8

\* An item that is nowhere gets n pieces, to be added.
Appears(v, z, i, n) ==
  /\ Sound(z, None) /\ Counted(z, i) /\ z.in = v.in /\ z.count[i] = n
  /\ Roomy(v, z) /\ Stirs(v, z, {})
  /\ \A s : All(z, s) = All(v, s) + (IF kind[i] = s THEN n - v.count[i] ELSE 0)

LEMMA AppearsIs ==
  ASSUME NEW v, Sound(v, None), NEW i \in Items, v.in[i] = "nowhere", Counted(v, i), NEW n \in Nat
  PROVE  Appears(v, [v EXCEPT !.count[i] = n], i, n)
<1> DEFINE z == [v EXCEPT !.count[i] = n]
<1>1. /\ z.in = v.in /\ z.count = [v.count EXCEPT ![i] = n]
      /\ \A P : Stirs(v, z, P)
      /\ \A s : All(z, s) = All(v, s) + (IF kind[i] = s THEN n - v.count[i] ELSE 0)
      /\ Roomy(v, z)
  <2>1. z = SetCount(v, i, n)
    BY SetCountNowhere DEF Sound
  <2> HIDE DEF z
  <2>2. z.in = v.in /\ z.count = [v.count EXCEPT ![i] = n]
    BY <2>1, SetCountIs
  <2>3. \A P : Stirs(v, z, P)
    BY <2>1, StirsSetCount
  <2>4. \A s : All(z, s) = All(v, s) + (IF kind[i] = s THEN n - v.count[i] ELSE 0)
    BY <2>1, SetCountAll
  <2>5. \A b \in Bags : Content(z, b) \subseteq Content(v, b)
    BY <2>2 DEF Content
  <2> QED
    BY <2>2, <2>3, <2>4, <2>5, RoomyFewer
<1> HIDE DEF z
<1>2. v.count \in [Items -> Nat]
  BY DEF Sound, Worlds
<1>3. z.count[i] = n /\ \A x \in Items \ {i} : z.count[x] = v.count[x]
  BY <1>1, <1>2
<1>4. Counted(z, i)
  BY <1>1, <1>3 DEF Counted
<1>5. Stirs(v, z, {})
  BY <1>1
<1>6. Sound(z, None)
  BY <1>5 DEF Stirs
<1>7. Appears(v, z, i, n)
  BY <1>1, <1>3, <1>4, <1>5, <1>6 DEF Appears
<1> QED
  BY <1>7 DEF z

LEMMA FreshIs ==
  ASSUME Good(w), NEW k \in Kinds, Spare(w, k) # {}, NEW n \in Sizes(k),
         NEW i, i = Fresh(k, n).item, NEW z, z = Fresh(k, n).v
  PROVE  /\ i \in Items /\ kind[i] = k /\ n \in 1..Most(i) /\ w.in[i] = "nowhere" /\ w.count[i] = 0
         /\ Appears(w, z, i, n)
<1>1. i \in Items /\ w.in[i] = "nowhere" /\ kind[i] = k /\ z = [w EXCEPT !.count[i] = n]
  <2>1. i = CHOOSE j \in Spare(w, k) : TRUE
    BY DEF Fresh
  <2>2. i \in Spare(w, k)
    BY <2>1
  <2>3. z = [w EXCEPT !.count[i] = n]
    BY DEF Fresh
  <2> QED
    BY <2>2, <2>3 DEF Spare, Content
<1>2. n \in 1..Most(i) /\ n \in Nat
  <2>1. CASE \E j \in Stacks : kind[j] = k
    <3>1. i \in Stacks
      BY <1>1, <2>1, ItemsAssumption
    <3>2. StackSize \in Nat
      BY ItemsAssumption
    <3> QED
      BY <2>1, <3>1, <3>2 DEF Sizes, Most
  <2>2. CASE ~\E j \in Stacks : kind[j] = k
    <3>1. n = 1
      BY <2>2 DEF Sizes
    <3> QED
      BY <3>1, MostNat
  <2> QED
    BY <2>1, <2>2
<1>3. Sound(w, None) /\ Counted(w, None) /\ None \notin Items /\ Counted(w, i)
  BY ItemsAssumption DEF Good, Counted
<1>4. w.count[i] = 0
  BY <1>1, <1>3 DEF Counted
<1>5. Appears(w, [w EXCEPT !.count[i] = n], i, n)
  BY <1>1, <1>2, <1>3, AppearsIs
<1> QED
  BY <1>1, <1>2, <1>4, <1>5

\* Items of kind k came into being, as many as the books say.
Came(k) ==
  /\ Good(w') /\ Roomy(w, w')
  /\ event' \in {"none", "cut"}
  /\ event' # "cut" /\ w.burden = Load(w) => w'.burden = Load(w')
  /\ \E x \in Int : /\ Books(k, x)
                    /\ \A s : All(w', s) = All(w, s) + (IF k = s THEN x ELSE 0)

LEMMA AddItemGood ==
  ASSUME Good(w), NEW k \in Kinds, NEW n \in Sizes(k), NEW c \in Bags \cup {"tile"}, AddItem(k, n, c)
  PROVE  Came(k)
<1> DEFINE i == Fresh(k, n).item
           z == Fresh(k, n).v
<1>1. PICK r \in InternalAdd(z, i, c) :
        /\ r.stage \in {"done", "cut"} /\ w' = r.v /\ Books(k, n - r.left - r.dropped) /\ Note(r)
  BY DEF AddItem
<1>2. Spare(w, k) # {} /\ (c \in Bags => w.in[c] # "nowhere")
  BY DEF AddItem
<1>3. /\ i \in Items /\ kind[i] = k /\ n \in 1..Most(i) /\ z.count[i] = n
      /\ Sound(z, None) /\ Counted(z, i) /\ z.in = w.in /\ z.in[i] = "nowhere"
      /\ Roomy(w, z) /\ Stirs(w, z, {})
      /\ \A s : All(z, s) = All(w, s) + (IF kind[i] = s THEN n - 0 ELSE 0)
  <2>1. i = Fresh(k, n).item /\ z = Fresh(k, n).v
    OBVIOUS
  <2> HIDE DEF i, z
  <2>2. /\ i \in Items /\ kind[i] = k /\ n \in 1..Most(i) /\ w.in[i] = "nowhere" /\ w.count[i] = 0
        /\ Appears(w, z, i, n)
    BY <1>2, <2>1, FreshIs
  <2> QED
    BY <2>2 DEF Appears
<1> HIDE DEF i, z
<1>4. Entering(z, i, c)
  BY <1>2, <1>3 DEF Entering
<1>5. Coming(r, z, i, c)
  BY <1>1, <1>4, InternalAddIs
<1>6. Good(w')
  BY <1>1, <1>5 DEF Good, Coming
<1>7. Roomy(w, w')
  <2>1. Roomy(z, r.v)
    BY <1>5 DEF Coming
  <2>2. Roomy(w, r.v)
    BY <1>3, <2>1, RoomyTransitive
  <2> QED
    BY <1>1, <2>2
<1>8. event' \in {"none", "cut"} /\ (event' # "cut" => r.stage = "done")
  BY <1>1 DEF Note
<1>9. event' # "cut" /\ w.burden = Load(w) => w'.burden = Load(w')
  <2> SUFFICES ASSUME event' # "cut", w.burden = Load(w) PROVE r.v.burden = Load(r.v)
    BY <1>1
  <2>1. z.burden = Load(z)
    BY <1>3 DEF Stirs
  <2> QED
    BY <1>5, <1>8, <2>1 DEF Coming, Told
<1> DEFINE x == n - r.left - r.dropped
<1>10. n \in Int /\ r.left \in Nat /\ r.dropped \in Nat
  BY <1>3, <1>5, MostNat DEF Coming, Ways
<1>11. x \in Int /\ Books(k, x)
  BY <1>1, <1>10
<1>12. \A s : All(w', s) = All(w, s) + (IF k = s THEN x ELSE 0)
  <2> TAKE s
  <2>1. All(r.v, s) + (IF kind[i] = s THEN r.left + r.dropped ELSE 0) = All(z, s)
    BY <1>5 DEF Coming
  <2>2. All(r.v, s) \in Nat /\ All(w, s) \in Nat
    <3>1. r.v \in Worlds /\ w \in Worlds
      BY <1>5 DEF Coming, Sound, Good
    <3> QED
      BY <3>1, AllNat
  <2>3. All(w', s) = All(r.v, s)
    BY <1>1 DEF All
  <2> QED
    BY <1>3, <1>10, <2>1, <2>2, <2>3
<1> HIDE DEF x
<1> QED
  BY <1>6, <1>7, <1>8, <1>9, <1>11, <1>12 DEF Came

LEMMA PlayerAddItemGood ==
  ASSUME Good(w), NEW k \in Kinds, NEW n \in Sizes(k), NEW dropOnMap, PlayerAddItem(k, n, dropOnMap)
  PROVE  Came(k)
<1> DEFINE i == Fresh(k, n).item
           z == Fresh(k, n).v
<1>1. Spare(w, k) # {}
  BY DEF PlayerAddItem
<1>2. PICK r \in InternalAdd(z, i, "player") :
        LET over == IF r.stage = "refused" THEN n ELSE r.left IN
        /\ Books(k, n - r.dropped)
        /\ IF over = 0 THEN w' = r.v
           ELSE \E q \in InternalAdd([r.v EXCEPT !.count[i] = over], i, "tile") : w' = q.v
        /\ Note(r)
  BY DEF PlayerAddItem
<1> DEFINE over == IF r.stage = "refused" THEN n ELSE r.left
           u == [r.v EXCEPT !.count[i] = over]
           x == n - r.dropped
<1>3. /\ i \in Items /\ kind[i] = k /\ n \in 1..Most(i) /\ z.count[i] = n
      /\ Sound(z, None) /\ Counted(z, i) /\ z.in = w.in /\ z.in[i] = "nowhere"
      /\ Roomy(w, z) /\ Stirs(w, z, {})
      /\ \A s : All(z, s) = All(w, s) + (IF kind[i] = s THEN n - 0 ELSE 0)
  <2>1. i = Fresh(k, n).item /\ z = Fresh(k, n).v
    OBVIOUS
  <2> HIDE DEF i, z
  <2>2. /\ i \in Items /\ kind[i] = k /\ n \in 1..Most(i) /\ w.in[i] = "nowhere" /\ w.count[i] = 0
        /\ Appears(w, z, i, n)
    BY <1>1, <2>1, FreshIs
  <2> QED
    BY <2>2 DEF Appears
<1>4. /\ Books(k, x) /\ Note(r)
      /\ over = 0 => w' = r.v
      /\ over # 0 => \E q \in InternalAdd(u, i, "tile") : w' = q.v
  BY <1>2
<1> HIDE DEF i, z, x, u
<1>5. Entering(z, i, "player")
  BY <1>3, PlacesApart DEF Entering
<1>6. Coming(r, z, i, "player") /\ r.stage # "adding"
  BY <1>2, <1>5, InternalAddIs
<1>7. n \in Nat /\ n > 0 /\ Most(i) \in Nat /\ r.left \in Nat /\ r.dropped \in Nat /\ x \in Int
      /\ r.v \in Worlds /\ w \in Worlds /\ r.stage \in Stages
  BY <1>3, <1>6, MostNat DEF Coming, Ways, Sound, Good, x
<1>8. \A s : All(r.v, s) \in Nat /\ All(w, s) \in Nat
  BY <1>7, AllNat
<1>9. Roomy(z, r.v) /\ Roomy(w, r.v)
  <2>1. Roomy(z, r.v)
    BY <1>6 DEF Coming
  <2> QED
    BY <1>3, <2>1, RoomyTransitive
<1>10. event' \in {"none", "cut"} /\ (event' # "cut" => r.stage # "cut")
  BY <1>4 DEF Note
<1>11. event' # "cut" /\ w.burden = Load(w) => r.v.burden = Load(r.v)
  <2> SUFFICES ASSUME event' # "cut", w.burden = Load(w) PROVE r.v.burden = Load(r.v)
    OBVIOUS
  <2>1. z.burden = Load(z)
    BY <1>3 DEF Stirs
  <2>2. r.stage \in {"done", "refused"}
    BY <1>6, <1>7, <1>10 DEF Stages
  <2> QED
    BY <1>6, <2>1, <2>2 DEF Coming, Told
<1>12. \A s : All(r.v, s) + (IF k = s THEN r.left + r.dropped ELSE 0) = All(w, s) + (IF k = s THEN n ELSE 0)
  <2> TAKE s
  <2>1. All(r.v, s) + (IF kind[i] = s THEN r.left + r.dropped ELSE 0) = All(z, s)
    BY <1>6 DEF Coming
  <2> QED
    BY <1>3, <1>7, <1>8, <2>1
<1>13. CASE over = 0
  <2>1. w' = r.v /\ r.stage # "refused" /\ r.left = 0
    BY <1>4, <1>7, <1>13
  <2>2. r.stage \in {"done", "cut"}
    BY <1>6, <1>7, <2>1 DEF Stages
  <2>3. Good(w')
    BY <1>6, <2>1, <2>2 DEF Good, Coming
  <2>4. \A s : All(w', s) = All(w, s) + (IF k = s THEN x ELSE 0)
    <3> TAKE s
    <3>1. All(w', s) = All(r.v, s)
      BY <2>1 DEF All
    <3> QED
      BY <1>7, <1>8, <1>12, <2>1, <3>1 DEF x
  <2>5. Roomy(w, w') /\ (event' # "cut" /\ w.burden = Load(w) => w'.burden = Load(w'))
    BY <1>9, <1>11, <2>1
  <2> QED
    BY <1>4, <1>7, <1>10, <2>3, <2>4, <2>5 DEF Came
<1>14. CASE over # 0
  <2>1. /\ r.v.in[i] = "nowhere" /\ over \in 1..Most(i) /\ Sound(r.v, None) /\ Counted(r.v, i)
        /\ over - r.v.count[i] = IF r.stage = "refused" THEN 0 ELSE r.left
        /\ r.stage = "refused" => r.left = 0
    <3>1. CASE r.stage = "refused"
      <4>1. r.v = z /\ r.left = 0 /\ Sound(r.v, None) /\ Counted(r.v, i)
        BY <1>6, <3>1 DEF Coming
      <4> QED
        BY <1>3, <1>7, <3>1, <4>1
    <3>2. CASE r.stage # "refused"
      <4>1. r.left > 0 /\ over = r.left
        BY <1>7, <1>14, <3>2
      <4>2. r.stage = "cut" /\ r.v.in[i] = "nowhere" /\ r.left <= Most(i) /\ Sound(r.v, None) /\ Counted(r.v, i)
            /\ Counted(r.v, None)
        BY <1>6, <4>1 DEF Coming
      <4>3. r.v.count[i] = 0
        BY <1>3, <4>2, ItemsAssumption DEF Counted
      <4> QED
        BY <1>7, <3>2, <4>1, <4>2, <4>3
    <3> QED
      BY <3>1, <3>2
  <2>2. Appears(r.v, u, i, over)
    <3>1. over \in Nat
      BY <1>7, <2>1
    <3> HIDE DEF over
    <3>2. Appears(r.v, [r.v EXCEPT !.count[i] = over], i, over)
      <4> DEFINE v == r.v
      <4>1. Sound(v, None) /\ i \in Items /\ v.in[i] = "nowhere" /\ Counted(v, i) /\ over \in Nat
        BY <1>3, <2>1, <3>1
      <4> HIDE DEF v
      <4>2. Appears(v, [v EXCEPT !.count[i] = over], i, over)
        BY <4>1, AppearsIs
      <4> QED
        BY <4>2 DEF v
    <3> QED
      BY <3>2 DEF u
  <2>3. PICK q \in InternalAdd(u, i, "tile") : w' = q.v
    BY <1>4, <1>14
  <2> HIDE DEF over
  <2>4. Entering(u, i, "tile")
    <3>1. u.in[i] = "nowhere" /\ u.count[i] \in 1..Most(i) /\ Sound(u, None) /\ Counted(u, i)
      BY <2>1, <2>2 DEF Appears
    <3> QED
      BY <1>3, <3>1, PlacesApart DEF Entering
  <2>5. Coming(q, u, i, "tile") /\ q.stage # "adding"
    BY <2>3, <2>4, InternalAddIs
  <2>6. q.stage = "done" /\ q.left = 0 /\ q.dropped = 0
    BY <2>5 DEF Coming
  <2>7. Good(w')
    BY <2>3, <2>5, <2>6 DEF Good, Coming
  <2>8. Roomy(w, w')
    <3>1. Roomy(r.v, u) /\ Roomy(u, q.v)
      BY <2>2, <2>5 DEF Appears, Coming
    <3>2. Roomy(r.v, q.v)
      BY <3>1, RoomyTransitive
    <3>3. Roomy(w, q.v)
      BY <1>9, <3>2, RoomyTransitive
    <3> QED
      BY <2>3, <3>3
  <2>9. event' # "cut" /\ w.burden = Load(w) => w'.burden = Load(w')
    <3> SUFFICES ASSUME event' # "cut", w.burden = Load(w) PROVE q.v.burden = Load(q.v)
      BY <2>3
    <3>1. r.v.burden = Load(r.v)
      BY <1>11
    <3>2. Stirs(r.v, u, {})
      BY <2>2 DEF Appears
    <3>3. u.burden = Load(u)
      BY <3>1, <3>2 DEF Stirs
    <3> QED
      BY <2>5, <2>6, <3>3 DEF Coming, Told
  <2>10. \A s : All(w', s) = All(w, s) + (IF k = s THEN x ELSE 0)
    <3> TAKE s
    <3>1. All(q.v, s) + (IF kind[i] = s THEN 0 + 0 ELSE 0) = All(u, s)
      BY <2>5, <2>6 DEF Coming
    <3>2. All(u, s) = All(r.v, s) + (IF kind[i] = s THEN over - r.v.count[i] ELSE 0)
      BY <2>2 DEF Appears
    <3>3. All(w', s) = All(q.v, s)
      BY <2>3 DEF All
    <3>4. All(q.v, s) \in Nat
      <4>1. q.v \in Worlds
        BY <2>5 DEF Coming, Sound
      <4> QED
        BY <4>1, AllNat
    <3> QED
      BY <1>3, <1>7, <1>8, <1>12, <2>1, <3>1, <3>2, <3>3, <3>4 DEF x
  <2> QED
    BY <1>4, <1>7, <1>10, <2>7, <2>8, <2>9, <2>10 DEF Came
<1> QED
  BY <1>13, <1>14

-----------------------------------------------------------------------------
(* The invariant                                                           *)

LEMMA OneEachIs ==
  ASSUME NEW v
  PROVE  OneEach(v) <=> \A s \in Slots : Cardinality(Content(v, s)) <= 1
<1>1. ASSUME OneEach(v), NEW s \in Slots PROVE Cardinality(Content(v, s)) <= 1
  <2>1. CASE Content(v, s) = {}
    BY <2>1, FS_EmptySet
  <2>2. CASE Content(v, s) # {}
    <3>1. Content(v, s) = {Occupant(v, s)}
      BY <1>1, <2>2, OccupantIs
    <3> QED
      BY <3>1, FS_Singleton
  <2> QED
    BY <2>1, <2>2
<1>2. ASSUME \A s \in Slots : Cardinality(Content(v, s)) <= 1,
             NEW i \in Items, NEW j \in Items, v.in[i] \in Slots, v.in[i] = v.in[j], i # j
      PROVE  FALSE
  <2> DEFINE S == Content(v, v.in[i])
  <2>1. IsFiniteSet(S) /\ Cardinality(S) \in Nat
    BY ContentFinite, FS_CardinalityType
  <2>2. i \in S /\ j \in S \ {i} /\ Cardinality(S) <= 1
    BY <1>2 DEF Content
  <2> HIDE DEF S
  <2>3. IsFiniteSet(S \ {i}) /\ Cardinality(S \ {i}) = Cardinality(S) - 1
    BY <2>1, <2>2, FS_RemoveElement
  <2>4. Cardinality(S \ {i}) = 0
    <3>1. Cardinality(S \ {i}) \in Nat
      BY <2>3, FS_CardinalityType
    <3> QED
      BY <2>1, <2>2, <2>3, <3>1
  <2> QED
    BY <2>2, <2>3, <2>4, FS_EmptySet
<1> QED
  BY <1>1, <1>2 DEF OneEach

\* Good, in the words of the properties.
LEMMA GoodIs ==
  ASSUME NEW v
  PROVE  Good(v) <=>
           /\ v \in Worlds
           /\ \A i \in Items : v.in[i] # "nowhere" =>
                v.count[i] \in 1..(IF i \in Stacks THEN StackSize ELSE 1)
           /\ \A b \in Bags : b \notin Around(v, b)
           /\ \A s \in Slots : Cardinality(Content(v, s)) <= 1
           /\ \A b \in Bags : v.total[b] = SumFunctionOnSet(Weights(v), Content(v, b))
           /\ \A i \in Items : v.in[i] = "nowhere" => v.count[i] = 0 /\ \A j \in Items : v.in[j] # i
<1> DEFINE A == \A i \in Items : v.in[i] # "nowhere" =>
                  v.count[i] \in 1..(IF i \in Stacks THEN StackSize ELSE 1)
           B == \A i \in Items : v.in[i] = "nowhere" => v.count[i] = 0
           C == \A i \in Items : v.in[i] = "nowhere" => \A j \in Items : v.in[j] # i
<1>1. None \notin Items
  BY ItemsAssumption
<1>2. Counted(v, None) <=> A /\ B
  BY <1>1 DEF Counted, Most
<1>3. v \in Worlds => (Housed(v, None) <=> C)
  <2> SUFFICES ASSUME v \in Worlds PROVE Housed(v, None) <=> C
    OBVIOUS
  <2>1. \A j \in Items : v.in[j] \in Slots \cup Bags \cup {"tile", "nowhere"}
    BY DEF Worlds, Places
  <2>2. \A i \in Items : i \notin Slots /\ i # "tile" /\ i # "nowhere"
    BY ItemsAssumption DEF Words
  <2>3. \A i, j \in Items : v.in[j] = i => i \in Bags
    BY <2>1, <2>2
  <2>4. Bags \subseteq Items /\ None \notin Bags
    BY <1>1, ItemsAssumption
  <2> QED
    BY <2>3, <2>4 DEF Housed
<1> HIDE DEF A, B, C
<1>4. Good(v) <=> /\ v \in Worlds /\ A /\ Acyclic(v)
                  /\ \A s \in Slots : Cardinality(Content(v, s)) <= 1
                  /\ Weighed(v) /\ B /\ C
  BY <1>2, <1>3, OneEachIs DEF Good, Sound
<1> QED
  BY <1>4 DEF A, B, C, Acyclic, Weighed

\* The invariant says that the world is good and the books are right.
LEMMA InvIs ==
  /\ ItemsIInv <=> /\ Good(w) /\ books \in [Kinds -> Int] /\ event \in {"none", "swapped", "cut"}
                   /\ \A k \in Kinds : All(w, k) = books[k]
  /\ ItemsIInv' <=> /\ Good(w') /\ books' \in [Kinds -> Int] /\ event' \in {"none", "swapped", "cut"}
                    /\ \A k \in Kinds : All(w', k) = books'[k]
<1>1. ASSUME NEW v, v \in Worlds, \A i \in Items : v.in[i] = "nowhere" => v.count[i] = 0
      PROVE  \A k : Pieces(v, k) = All(v, k)
  BY <1>1, PiecesAll
<1>2. \A v : Good(v) => \A k : Pieces(v, k) = All(v, k)
  BY <1>1, GoodIs
<1>3. ItemsIInv <=> /\ Good(w) /\ books \in [Kinds -> Int] /\ event \in {"none", "swapped", "cut"}
                    /\ \A k \in Kinds : Pieces(w, k) = books[k]
  BY GoodIs DEF ItemsIInv, ItemsTypeOK, Worlds, Accounted, InOnePlace, WeightsAgree, NowhereIsEmpty
<1>4. ItemsIInv' <=> /\ Good(w') /\ books' \in [Kinds -> Int] /\ event' \in {"none", "swapped", "cut"}
                     /\ \A k \in Kinds : Pieces(w', k) = books'[k]
  BY GoodIs DEF ItemsIInv, ItemsTypeOK, Worlds, Accounted, InOnePlace, WeightsAgree, NowhereIsEmpty
<1> QED
  BY <1>2, <1>3, <1>4

LEMMA ItemsInitInv == ItemsInit => ItemsIInv
<1> SUFFICES ASSUME ItemsInit PROVE ItemsIInv
  OBVIOUS
<1>1. w = [in |-> [i \in Items |-> "nowhere"], count |-> [i \in Items |-> 0],
           total |-> [b \in Bags |-> 0], burden |-> 0]
      /\ books = [k \in Kinds |-> 0] /\ event = "none"
  BY DEF ItemsInit
<1>2. w \in Worlds
  BY <1>1 DEF Worlds, Places
<1>3. \A i \in Items : w.in[i] = "nowhere" /\ w.count[i] = 0
  BY <1>1
<1>4. \A b \in Bags : w.total[b] = 0
  BY <1>1
<1>5. \A b \in Bags : b \notin Around(w, b)
  <2> TAKE b \in Bags
  <2>1. w.in[b] \notin Bags
    BY <1>3, PlacesApart
  <2>2. Closed(w, b, {})
    BY <2>1 DEF Closed
  <2> QED
    BY <2>2 DEF Around
<1>6. \A c \in Slots \cup Bags : Content(w, c) = {}
  BY <1>3, PlacesApart DEF Content
<1>7. \A s \in Slots : Cardinality(Content(w, s)) <= 1
  BY <1>6, FS_EmptySet
<1>8. \A b \in Bags : w.total[b] = SumFunctionOnSet(Weights(w), Content(w, b))
  <2> TAKE b \in Bags
  <2>1. Content(w, b) = {}
    BY <1>6
  <2> QED
    BY <1>4, <2>1, SumEmpty
<1>9. \A i \in Items : w.in[i] = "nowhere" => w.count[i] = 0 /\ \A j \in Items : w.in[j] # i
  BY <1>3, PlacesApart
<1>10. Good(w)
  BY <1>2, <1>3, <1>5, <1>7, <1>8, <1>9, GoodIs
<1>11. \A k \in Kinds : All(w, k) = books[k]
  <2> TAKE k \in Kinds
  <2>1. IsFiniteSet(Kin(k)) /\ \A i \in Kin(k) : w.count[i] = 0
    BY <1>3, KinFinite
  <2>2. All(w, k) = 0
    BY <2>1, SumZero DEF All
  <2> QED
    BY <1>1, <2>2
<1> QED
  BY <1>1, <1>10, <1>11, InvIs

\* What every step keeps.
LEMMA ItemsNextInv ==
  ASSUME ItemsIInv, [ItemsNext]_itemsVars
  PROVE  /\ ItemsIInv'
         /\ event' # "swapped" => Roomy(w, w')
         /\ event' # "cut" /\ w.burden = Load(w) => w'.burden = Load(w')
<1>0. /\ Good(w) /\ books \in [Kinds -> Int] /\ event \in {"none", "swapped", "cut"}
      /\ \A k \in Kinds : All(w, k) = books[k]
  BY InvIs
<1>1. ASSUME NEW i \in Items, NEW n \in 1..w.count[i], NEW c \in Slots \cup Bags \cup {"tile", "player"},
             NEW at \in Indices(c), MoveItem(i, n, c, at)
      PROVE  /\ ItemsIInv'
             /\ event' # "swapped" => Roomy(w, w')
             /\ event' # "cut" /\ w.burden = Load(w) => w'.burden = Load(w')
  <2>1. /\ Arranged(w, w') /\ books' = books
        /\ event' = "none" \/ event' = "swapped"
        /\ event' # "swapped" => Roomy(w, w')
    BY <1>0, <1>1, MoveItemGood
  <2>2. Good(w') /\ (\A k : All(w', k) = All(w, k)) /\ (w.burden = Load(w) => w'.burden = Load(w'))
    BY <2>1 DEF Arranged
  <2>3. \A k \in Kinds : All(w', k) = books'[k]
    BY <1>0, <2>1, <2>2
  <2>4. ItemsIInv'
    BY <1>0, <2>1, <2>2, <2>3, InvIs
  <2> QED
    BY <2>1, <2>2, <2>4
<1>2. ASSUME NEW k \in Kinds, Came(k)
      PROVE  /\ ItemsIInv'
             /\ event' # "swapped" => Roomy(w, w')
             /\ event' # "cut" /\ w.burden = Load(w) => w'.burden = Load(w')
  <2>1. /\ Good(w') /\ Roomy(w, w') /\ event' \in {"none", "cut"}
        /\ event' # "cut" /\ w.burden = Load(w) => w'.burden = Load(w')
    BY <1>2 DEF Came
  <2>2. PICK x \in Int : /\ books' = [books EXCEPT ![k] = books[k] + x]
                         /\ \A s : All(w', s) = All(w, s) + (IF k = s THEN x ELSE 0)
    BY <1>2 DEF Came, Books
  <2>3. books' \in [Kinds -> Int]
    BY <1>0, <2>2
  <2>4. \A s \in Kinds : All(w', s) = books'[s]
    <3> TAKE s \in Kinds
    <3>1. All(w, s) = books[s] /\ books[s] \in Int
      BY <1>0
    <3> QED
      BY <1>0, <2>2, <3>1
  <2>5. ItemsIInv'
    BY <2>1, <2>3, <2>4, InvIs
  <2> QED
    BY <2>1, <2>5
<1>3. ASSUME NEW i \in Items, NEW n \in 1..w.count[i], RemoveItem(i, n)
      PROVE  /\ ItemsIInv'
             /\ event' # "swapped" => Roomy(w, w')
             /\ event' # "cut" /\ w.burden = Load(w) => w'.burden = Load(w')
  <2>1. /\ Good(w') /\ Roomy(w, w') /\ event' = "none"
        /\ w.burden = Load(w) => w'.burden = Load(w')
        /\ \A k : All(w', k) = All(w, k) - (IF kind[i] = k THEN n ELSE 0)
                               - SumFunctionOnSet(w.count, {j \in Inside(w, i) : kind[j] = k})
    BY <1>0, <1>3, RemoveItemGood
  <2>2. books' = [k \in Kinds |-> books[k] - (IF kind[i] = k THEN n ELSE 0)
                    - SumFunctionOnSet(w.count, {j \in Inside(w, i) : kind[j] = k})]
    BY <1>3 DEF RemoveItem
  <2>3. \A k : SumFunctionOnSet(w.count, {j \in Inside(w, i) : kind[j] = k}) \in Nat
    <3> TAKE k
    <3> DEFINE T == {j \in Inside(w, i) : kind[j] = k}
    <3>1. T \subseteq Items
      BY DEF Inside
    <3>2. IsFiniteSet(T) /\ \A j \in T : w.count[j] \in Nat
      BY <1>0, <3>1, FS_Subset, ItemsAssumption DEF Good, Sound, Worlds
    <3> HIDE DEF T
    <3>3. SumFunctionOnSet(w.count, T) \in Nat
      BY <3>2, SumNat
    <3> QED
      BY <3>3 DEF T
  <2> DEFINE S(k) == SumFunctionOnSet(w.count, {j \in Inside(w, i) : kind[j] = k})
  <2> HIDE DEF S
  <2>4. \A k \in Kinds : books'[k] = All(w', k) /\ books'[k] \in Int
    <3> TAKE k \in Kinds
    <3>1. /\ books'[k] = books[k] - (IF kind[i] = k THEN n ELSE 0) - S(k)
          /\ All(w', k) = All(w, k) - (IF kind[i] = k THEN n ELSE 0) - S(k)
          /\ S(k) \in Nat /\ All(w, k) = books[k] /\ books[k] \in Int
      BY <1>0, <2>1, <2>2, <2>3 DEF S
    <3> QED
      BY <3>1
  <2>5. books' \in [Kinds -> Int]
    BY <2>2, <2>4
  <2>6. ItemsIInv'
    BY <2>1, <2>4, <2>5, InvIs
  <2> QED
    BY <2>1, <2>6
<1>4. CASE UNCHANGED itemsVars
  <2>1. w' = w /\ books' = books /\ event' = event
    BY <1>4 DEF itemsVars
  <2>2. Roomy(w, w')
    BY <2>1, RoomyFewer
  <2>3. ItemsIInv'
    <3>1. Good(w') /\ \A k : All(w', k) = All(w, k)
      BY <1>0, <2>1
    <3> QED
      BY <1>0, <2>1, <3>1, InvIs
  <2> QED
    BY <2>1, <2>2, <2>3
<1>5. CASE ItemsNext
  <2>1. CASE \E i \in Items : \E n \in 1..w.count[i] :
               \E c \in Slots \cup Bags \cup {"tile", "player"} : \E at \in Indices(c) :
                 MoveItem(i, n, c, at)
    BY <1>1, <2>1
  <2>2. CASE \E k \in Kinds : \E n \in Sizes(k) : \E c \in Bags \cup {"tile"} : AddItem(k, n, c)
    BY <1>0, <1>2, <2>2, AddItemGood
  <2>3. CASE \E k \in Kinds : \E n \in Sizes(k) : \E dropOnMap \in BOOLEAN : PlayerAddItem(k, n, dropOnMap)
    BY <1>0, <1>2, <2>3, PlayerAddItemGood
  <2>4. CASE \E i \in Items : \E n \in 1..w.count[i] : RemoveItem(i, n)
    BY <1>3, <2>4
  <2> QED
    BY <1>5, <2>1, <2>2, <2>3, <2>4 DEF ItemsNext
<1> QED
  BY <1>4, <1>5

\* For any items, containers, weights and limits, what the three operations of game.cpp
\* need of each other holds in every state that they reach.
THEOREM ItemsInvariant == ItemsSpec => []ItemsIInv
<1>1. ItemsIInv /\ [ItemsNext]_itemsVars => ItemsIInv'
  BY ItemsNextInv
<1> QED
  BY <1>1, ItemsInitInv, PTL DEF ItemsSpec

\* Splitting, merging, exchanging and rearranging lose no piece and double none, and no
\* stack outgrows a stack: internalMoveItem, internalAddItem and internalRemoveItem.
THEOREM EverythingAccounted == ItemsSpec => []Accounted
<1>1. ItemsIInv => Accounted
  BY DEF ItemsIInv
<1> QED
  BY <1>1, ItemsInvariant, PTL

\* No container comes to lie inside itself, and no slot of a player holds two items.
THEOREM EverythingInOnePlace == ItemsSpec => []InOnePlace
<1>1. ItemsIInv => InOnePlace
  BY DEF ItemsIInv
<1> QED
  BY <1>1, ItemsInvariant, PTL

\* The weight a container keeps for its content is the weight of its content, at any depth.
THEOREM WeightsAreRight == ItemsSpec => []WeightsAgree
<1>1. ItemsIInv => WeightsAgree
  BY DEF ItemsIInv
<1> QED
  BY <1>1, ItemsInvariant, PTL

\* Nothing but an exchange fills a container beyond its capacity, whatever merges and
\* however often internalAddItem calls itself.
THEOREM OnlySwapsOverfill == ItemsSpec => NotOverfilled
<1>1. ItemsIInv /\ [ItemsNext]_itemsVars =>
        (event' # "swapped" => \A b \in Bags : Size(w', b) <= Size(w, b) \/ Size(w', b) <= capacity[b])
  BY ItemsNextInv DEF Roomy
<1> QED
  BY <1>1, ItemsInvariant, PTL DEF ItemsSpec, NotOverfilled

\* Whoever carries what an operation moves, splits or merges is told, and his burden is the
\* load of his slots again, unless internalAddItem gave up in the middle.
THEOREM BurdenStaysRight == ItemsSpec => BurdenKept
<1>1. ItemsIInv /\ [ItemsNext]_itemsVars =>
        (event' # "cut" /\ w.burden = Load(w) => w'.burden = Load(w'))
  BY ItemsNextInv
<1> QED
  BY <1>1, ItemsInvariant, PTL DEF ItemsSpec, BurdenKept
=============================================================================
