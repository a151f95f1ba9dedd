---------------------------- MODULE TimerService ----------------------------
(***************************************************************************)
(* What the event scheduler promises the game code, with no threads, no    *)
(* queue and no event ids: a timer is armed once, and from then on it      *)
(* fires once at or after its due time, or is cancelled, or is discarded   *)
(* by a shutdown - and never two of these.                                 *)
(***************************************************************************)
EXTENDS Naturals

CONSTANTS
  Tasks,       \* the timers
  MaxTime      \* the clock stops here

VARIABLES
  timer,       \* timer[t]: "idle", "pending", "fired", "cancelled" or "discarded"
  due,         \* due[t]: the time before which t may not fire
  clock

vars == <<timer, due, clock>>

Status == {"idle", "pending", "fired", "cancelled", "discarded"}

Init ==
  /\ timer = [t \in Tasks |-> "idle"]
  /\ due   = [t \in Tasks |-> 0]
  /\ clock = 0

Arm(t, at) ==
  /\ timer[t] = "idle"
  /\ timer' = [timer EXCEPT ![t] = "pending"]
  /\ due'   = [due EXCEPT ![t] = at]
  /\ UNCHANGED clock

\* A scheduler that is shutting down arms nothing.
Refuse(t) ==
  /\ timer[t] = "idle"
  /\ timer' = [timer EXCEPT ![t] = "discarded"]
  /\ UNCHANGED <<due, clock>>

Cancel(t) ==
  /\ timer[t] = "pending"
  /\ timer' = [timer EXCEPT ![t] = "cancelled"]
  /\ UNCHANGED <<due, clock>>

Fire(t) ==
  /\ timer[t] = "pending"
  /\ due[t] <= clock
  /\ timer' = [timer EXCEPT ![t] = "fired"]
  /\ UNCHANGED <<due, clock>>

\* The shutdown discards every timer that is still pending.
DiscardAll ==
  /\ timer' = [t \in Tasks |-> IF timer[t] = "pending" THEN "discarded" ELSE timer[t]]
  /\ UNCHANGED <<due, clock>>

Tick ==
  /\ clock < MaxTime
  /\ clock' = clock + 1
  /\ UNCHANGED <<timer, due>>

Next ==
  \/ \E t \in Tasks, at \in 0..MaxTime : Arm(t, at)
  \/ \E t \in Tasks : Refuse(t) \/ Cancel(t) \/ Fire(t)
  \/ DiscardAll
  \/ Tick

Spec == Init /\ [][Next]_vars
=============================================================================
