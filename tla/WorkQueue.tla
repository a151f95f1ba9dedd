----------------------------- MODULE WorkQueue ------------------------------
(***************************************************************************)
(* What a queue of jobs served by a few workers promises, whatever the     *)
(* order: a job is accepted or refused once, an accepted job is begun at   *)
(* most once, never more than Workers of them at a time, and it is either  *)
(* done or skipped.  Dispatcher (one worker) and DatabaseTasks (its own    *)
(* thread, and the thread that flushes) implement it.                      *)
(***************************************************************************)
EXTENDS Naturals, FiniteSets

CONSTANTS
  Jobs,     \* the jobs that may ever be offered
  Workers   \* how many jobs may be in progress together

VARIABLES
  job,      \* job[j]: what became of j
  open      \* jobs are still accepted

JobState == {"new", "refused", "queued", "running", "done", "skipped"}

InProgress == {j \in Jobs : job[j] = "running"}

Become(j, from, to) == job[j] = from /\ job' = [job EXCEPT ![j] = to]

Init == job = [j \in Jobs |-> "new"] /\ open = TRUE

Accept(j) == open /\ Become(j, "new", "queued") /\ UNCHANGED open

Refuse(j) == ~open /\ Become(j, "new", "refused") /\ UNCHANGED open

Begin(j) ==
  /\ Cardinality(InProgress) < Workers
  /\ Become(j, "queued", "running")
  /\ UNCHANGED open

Finish(j) == Become(j, "running", "done") /\ UNCHANGED open

\* A job that was taken from the queue and found not worth running any more.
Skip(j) == Become(j, "running", "skipped") /\ UNCHANGED open

Close == open /\ open' = FALSE /\ UNCHANGED job

Step(j) == Accept(j) \/ Refuse(j) \/ Begin(j) \/ Finish(j) \/ Skip(j)

Next == Close \/ \E j \in Jobs : Step(j)

Spec == Init /\ [][Next]_<<job, open>>
=============================================================================
