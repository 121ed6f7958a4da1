--------------------------- MODULE TaskletService ---------------------------
(***************************************************************************)
(* What tasklets promise to a driver, as linux/interrupt.h words it: a     *)
(* tasklet that is scheduled again before its execution has started is     *)
(* executed once; one that is scheduled while it is executed is executed   *)
(* again later; a tasklet is strictly serialized with respect to itself.   *)
(* After tasklet_disable() has returned it is not executed, and            *)
(* tasklet_kill() returns only when it is neither scheduled nor executed.  *)
(***************************************************************************)
CONSTANTS Tasklets, Users

VARIABLES scheduled, killing, running, disabled

vars == <<scheduled, killing, running, disabled>>

Init ==
  /\ scheduled = {}
  /\ killing = {}
  /\ running = {}
  /\ disabled = [t \in Tasklets |-> {}]

Schedule(t) ==
  /\ t \notin scheduled \cup killing
  /\ scheduled' = scheduled \cup {t}
  /\ UNCHANGED <<killing, running, disabled>>

\* The execution starts: a request from now on is a new one.
Start(t) ==
  /\ t \in scheduled
  /\ t \notin running
  /\ disabled[t] = {}
  /\ scheduled' = scheduled \ {t}
  /\ running' = running \cup {t}
  /\ UNCHANGED <<killing, disabled>>

Finish(t) ==
  /\ t \in running
  /\ running' = running \ {t}
  /\ UNCHANGED <<scheduled, killing, disabled>>

\* tasklet_disable(t) returns to u.
Disabled(t, u) ==
  /\ t \notin running
  /\ disabled' = [disabled EXCEPT ![t] = @ \cup {u}]
  /\ UNCHANGED <<scheduled, killing, running>>

Enable(t, u) ==
  /\ u \in disabled[t]
  /\ disabled' = [disabled EXCEPT ![t] = @ \ {u}]
  /\ UNCHANGED <<scheduled, killing, running>>

\* tasklet_kill(t) has t for itself: nobody can schedule it until it returns.
Kill(t) ==
  /\ t \notin scheduled \cup killing
  /\ killing' = killing \cup {t}
  /\ UNCHANGED <<scheduled, running, disabled>>

Killed(t) ==
  /\ t \in killing
  /\ t \notin running
  /\ killing' = killing \ {t}
  /\ UNCHANGED <<scheduled, running, disabled>>

Next ==
  \E t \in Tasklets :
    \/ Schedule(t) \/ Start(t) \/ Finish(t) \/ Kill(t) \/ Killed(t)
    \/ \E u \in Users : Disabled(t, u) \/ Enable(t, u)

Spec == Init /\ [][Next]_vars

=============================================================================
