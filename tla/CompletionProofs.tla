-------------------------- MODULE CompletionProofs --------------------------
(***************************************************************************)
(* No wake-up of Completion is lost, for any number of waiters and         *)
(* completers.  NoLostWakeup speaks of the waiters that are down on their  *)
(* sleep locks.  What makes it inductive is to say the same of the waiters *)
(* that have unlocked and are on their way to schedule(): complete() finds *)
(* every one of them on the queue, and only the waiter itself takes counts *)
(* from its sleep lock.                                                    *)
(***************************************************************************)
EXTENDS Completion, TLAPS

\* Whoever is in complete() has the lock.
Locked ==
  /\ \A c \in Completers :
       /\ pc[c] \in {"idle", "wake", "wake_sem"}
       /\ pc[c] # "idle" <=> lock = c
       /\ pc[c] = "wake_sem" => target \in Tasks
  /\ lock = NULL => woken = {}

Asleep == {"add_timer", "schedule", "down"}

\* NoLostWakeup, from the moment the waiter unlocks.
Noticed ==
  done > 0 => \A p \in Tasks : pc[p] \in Asleep => sleep[p] > 0 \/ Waking(p)

IInv == TypeOK /\ Locked /\ QueuedWhileWaiting /\ Noticed

\* The sleep lock keeps its range, no other count changes, and sem_up()
\* leaves a count.
LEMMA SemUp ==
  ASSUME NEW p \in Tasks, sleep \in [Tasks -> 0..MaxSleep], sem_up(p)
  PROVE  /\ sleep' \in [Tasks -> 0..MaxSleep]
         /\ sleep'[p] > 0
         /\ \A q \in Tasks : sleep[q] > 0 => sleep'[q] > 0
  BY SleepAssumption DEF sem_up

LEMMA SemDown ==
  ASSUME NEW p \in Tasks, sleep \in [Tasks -> 0..MaxSleep], sem_down(p)
  PROVE  /\ sleep' \in [Tasks -> 0..MaxSleep]
         /\ \A q \in Tasks \ {p} : sleep'[q] = sleep[q]
  BY SleepAssumption DEF sem_down

LEMMA InitIInv == Init => IInv
  BY SleepAssumption, CompletionAssumption
  DEF Init, IInv, TypeOK, SchedTypeOK, SchedInit, Locked, QueuedWhileWaiting, Noticed, Waiting,
      Threads, Asleep, TASK_RUNNING

LEMMA NextIInv == IInv /\ [Next]_vars => IInv'
PROOF
  <1> SUFFICES ASSUME IInv, [Next]_vars PROVE IInv'
    OBVIOUS
  <1> USE SleepAssumption, CompletionAssumption
  <1> USE DEF IInv, TypeOK, SchedTypeOK, Locked, QueuedWhileWaiting, Noticed, Waiting, Waking,
              Threads, Asleep, Goto, set_current_state, TASK_RUNNING, TASK_UNINTERRUPTIBLE
  <1>1. CASE UNCHANGED vars
    BY <1>1 DEF vars, sleeping, sched_vars
  <1>2. ASSUME NEW p \in Tasks, wait_for_completion(p) PROVE IInv'
    <2>1. CASE done > 0
      BY <1>2, <2>1 DEF wait_for_completion, timers
    <2>2. CASE ~ (done > 0)
      BY <1>2, <2>2 DEF wait_for_completion, Sleep, timers
    <2> QED
      BY <2>1, <2>2
  <1>3. ASSUME NEW p \in Tasks, schedule_timeout(p) PROVE IInv'
    BY <1>3 DEF schedule_timeout, add_timer
  <1>4. ASSUME NEW p \in Tasks, schedule(p) PROVE IInv'
    BY <1>4 DEF schedule, AfterSchedule, sleeping, sched_vars
  <1>5. ASSUME NEW p \in Tasks, schedule_down(p) PROVE IInv'
    BY <1>5, SemDown DEF schedule_down, AfterSchedule, timers
  <1>6. ASSUME NEW p \in Tasks, schedule_timeout_return(p) PROVE IInv'
    BY <1>6 DEF schedule_timeout_return, del_timer
  <1>7. ASSUME NEW p \in Tasks, wait_again(p) PROVE IInv'
    <2>1. CASE done > 0
      BY <1>7, <2>1 DEF wait_again, timers
    <2>2. CASE ~ (done > 0)
      BY <1>7, <2>2 DEF wait_again, Sleep, timers
    <2> QED
      BY <2>1, <2>2
  <1>8. ASSUME NEW p \in Tasks, wait_timeout(p) PROVE IInv'
    BY <1>8 DEF wait_timeout, sleeping, sched_vars
  <1>9. ASSUME NEW p \in Tasks, Clock(p) PROVE IInv'
    BY <1>9 DEF Clock, elapse
  <1>10. ASSUME NEW c \in Completers, complete(c) PROVE IInv'
    BY <1>10 DEF complete, sleeping, sched_vars
  <1>11. ASSUME NEW c \in Completers, wake_up_common(c) PROVE IInv'
    BY <1>11 DEF wake_up_common, wake_state, timers
  <1>12. ASSUME NEW c \in Completers, try_to_wake_up(c) PROVE IInv'
    BY <1>12, SemUp DEF try_to_wake_up, wake_sem, timers
  <1>13. ASSUME NEW c \in Completers, complete_unlock(c) PROVE IInv'
    BY <1>13 DEF complete_unlock, sleeping, sched_vars
  <1>14. ASSUME Timer PROVE IInv'
    <2>1. ASSUME NEW p \in Tasks, timer_expired(p) PROVE IInv'
      BY <1>14, <2>1 DEF Timer, timer_expired
    <2>2. ASSUME process_timeout PROVE IInv'
      BY <1>14, <2>2 DEF Timer, process_timeout, wake_state
    <2>3. ASSUME process_timeout_up PROVE IInv'
      BY <1>14, <2>3, SemUp DEF Timer, process_timeout_up, wake_sem
    <2> QED
      BY <1>14, <2>1, <2>2, <2>3 DEF Timer, TimerThread
  <1> QED
    BY <1>1, <1>2, <1>3, <1>4, <1>5, <1>6, <1>7, <1>8, <1>9, <1>10, <1>11, <1>12, <1>13, <1>14
    DEF Next, Waiter, Completer

THEOREM Inductive == Spec => []IInv
  BY InitIInv, NextIInv, PTL DEF Spec

\* The variables keep their types: done neither wraps below zero nor
\* exceeds its bound.
THEOREM TypeCorrect == Spec => []TypeOK
  BY Inductive, PTL DEF IInv

\* While the completion is there no waiter sleeps for good, whatever number
\* of waiters, timeouts and completers race.
THEOREM NoLostWakeupHolds == Spec => []NoLostWakeup
PROOF
  <1>1. IInv => NoLostWakeup
    BY DEF IInv, Noticed, NoLostWakeup, Asleep
  <1> QED
    BY Inductive, <1>1, PTL

\* The queue holds the tasks that wait and no other.
THEOREM QueuedWhileWaitingHolds == Spec => []QueuedWhileWaiting
  BY Inductive, PTL DEF IInv
=============================================================================
