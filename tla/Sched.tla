-------------------------------- MODULE Sched --------------------------------
(***************************************************************************)
(* Sleeping and waking in DDE Linux 2.6 (arch/dde_kit/sched.c).            *)
(*                                                                         *)
(* A task sleeps on a semaphore of its own, the sleep lock.  Its state is  *)
(* a plain variable that the task and its wakers write without a lock, so  *)
(* try_to_wake_up() is two steps, and schedule() reads the state in one    *)
(* step and goes down on the sleep lock in another.  schedule() and        *)
(* try_to_wake_up() do not tell TASK_INTERRUPTIBLE from                    *)
(* TASK_UNINTERRUPTIBLE, and no signals exist (arch/dde_kit/signal.c): the *)
(* model has the second only.                                              *)
(***************************************************************************)
EXTENDS Naturals

CONSTANTS Tasks,
          NULL,       \* no task
          MaxSleep    \* a count of MaxSleep stands for MaxSleep or more

ASSUME SleepAssumption == MaxSleep \in Nat \ {0} /\ NULL \notin Tasks

VARIABLES state,      \* current->state of each task
          sleep       \* the count of its sleep lock

sched_vars == <<state, sleep>>

TASK_RUNNING == "TASK_RUNNING"
TASK_UNINTERRUPTIBLE == "TASK_UNINTERRUPTIBLE"

SchedInit ==
  /\ state = [p \in Tasks |-> TASK_RUNNING]
  /\ sleep = [p \in Tasks |-> 0]

set_current_state(p, s) == state' = [state EXCEPT ![p] = s]

\* dde_kit_sem_up(), dde_kit_sem_down() of the sleep lock of p.
sem_up(p) == sleep' = [sleep EXCEPT ![p] = IF @ < MaxSleep THEN @ + 1 ELSE @]

sem_down(p) ==
  /\ sleep[p] > 0
  /\ \/ sleep' = [sleep EXCEPT ![p] = @ - 1]
     \/ sleep[p] = MaxSleep /\ UNCHANGED sleep

\* try_to_wake_up(), first and second half.
wake_state(p) == set_current_state(p, TASK_RUNNING)
wake_sem(p) == sem_up(p)

\* schedule(): a running task yields, any other goes down on its sleep lock.
schedule_running(p) == state[p] = TASK_RUNNING

SchedTypeOK ==
  /\ state \in [Tasks -> {TASK_RUNNING, TASK_UNINTERRUPTIBLE}]
  /\ sleep \in [Tasks -> 0..MaxSleep]

=============================================================================
