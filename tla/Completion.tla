----------------------------- MODULE Completion -----------------------------
(***************************************************************************)
(* Completions (kernel/sched.c) on the sleep locks of arch/dde_kit: any    *)
(* number of tasks wait for one completion, some of them with a timeout,   *)
(* while others complete it.                                               *)
(*                                                                         *)
(* x->wait.lock guards done and the queue.  A waiter never sleeps with the *)
(* lock, so what it does between lock and unlock is one step.  complete()  *)
(* wakes the queue step by step with the lock held: the tasks it wakes run *)
(* meanwhile.                                                              *)
(***************************************************************************)
EXTENDS Sched

CONSTANTS Timed,        \* the waiters that call wait_for_completion_timeout()
          Completers,
          MaxDone       \* bound: complete() is not called with done at MaxDone

ASSUME CompletionAssumption ==
  /\ Timed \subseteq Tasks
  /\ Completers \cap (Tasks \cup {NULL}) = {}
  /\ MaxDone \in Nat \ {0}

VARIABLES armed,        \* the tasks whose schedule_timeout() timer is pending
          late,         \* the tasks whose timeout has passed
          tpc,          \* the control point of DDE kit's timer thread
          ttask,        \* the task whose process_timeout() it executes
          done,         \* x->done
          queue,        \* the tasks in x->wait.task_list
          lock,         \* who is in complete() with x->wait.lock
          pc,
          woken,        \* the tasks that the running complete() has woken
          target        \* the task that it is waking

timers == <<armed, tpc, ttask>>
sleeping == <<sched_vars, armed, late, tpc, ttask>>
vars == <<sleeping, done, queue, lock, pc, woken, target>>

Threads == Tasks \cup Completers

Init ==
  /\ SchedInit
  /\ armed = {}
  /\ late = {}
  /\ tpc = "idle"
  /\ ttask = NULL
  /\ done = 0
  /\ queue = {}
  /\ lock = NULL
  /\ pc = [th \in Threads |-> "idle"]
  /\ woken = {}
  /\ target = NULL

Goto(th, from, to) == pc[th] = from /\ pc' = [pc EXCEPT ![th] = to]

\* The top of the loop: the task announces that it sleeps and unlocks.
Sleep(p, from) ==
  /\ Goto(p, from, IF p \in Timed THEN "add_timer" ELSE "schedule")
  /\ set_current_state(p, TASK_UNINTERRUPTIBLE)

-----------------------------------------------------------------------------
(* The timers of schedule_timeout() are on the stacks of the tasks.        *)

\* The timer calls of schedule_timeout().
add_timer(p) == armed' = armed \cup {p}
del_timer(p) == armed' = armed \ {p}

\* Time passes: the timeout of p elapses.
elapse(p) ==
  /\ p \notin late
  /\ late' = late \cup {p}
  /\ UNCHANGED <<state, sleep, armed, tpc, ttask>>

\* The timer thread takes an expired timer off its list...
timer_expired(p) ==
  /\ tpc = "idle"
  /\ p \in armed \cap late
  /\ armed' = armed \ {p}
  /\ tpc' = "process_timeout"
  /\ ttask' = p
  /\ UNCHANGED <<state, sleep, late>>

\* ... and calls process_timeout(), which wakes the task.
process_timeout ==
  /\ tpc = "process_timeout"
  /\ wake_state(ttask)
  /\ tpc' = "up"
  /\ UNCHANGED <<sleep, armed, late, ttask>>

process_timeout_up ==
  /\ tpc = "up"
  /\ wake_sem(ttask)
  /\ tpc' = "idle"
  /\ ttask' = NULL
  /\ UNCHANGED <<state, armed, late>>

TimerThread == (\E p \in Tasks : timer_expired(p)) \/ process_timeout \/ process_timeout_up

-----------------------------------------------------------------------------

\* wait_for_completion() and its variants, up to the first schedule().
wait_for_completion(p) ==
  /\ lock = NULL
  /\ IF done > 0
     THEN /\ Goto(p, "idle", "idle")
          /\ done' = done - 1
          /\ UNCHANGED <<state, queue>>
     ELSE /\ Sleep(p, "idle")
          /\ queue' = queue \cup {p}
          /\ UNCHANGED done
  /\ late' = late \ {p}
  /\ UNCHANGED <<sleep, timers, lock, woken, target>>

\* Faulty: the timer is not armed.
schedule_timeout_unarmed(p) ==
  /\ Goto(p, "add_timer", "schedule")
  /\ UNCHANGED <<sleeping, done, queue, lock, woken, target>>

\* schedule_timeout() arms its timer.
schedule_timeout(p) ==
  /\ Goto(p, "add_timer", "schedule")
  /\ add_timer(p)
  /\ UNCHANGED <<state, sleep, late, tpc, ttask, done, queue, lock, woken, target>>

AfterSchedule(p) == IF p \in Timed THEN "del_timer" ELSE "relock"

\* schedule() reads current->state.
schedule(p) ==
  /\ Goto(p, "schedule", IF schedule_running(p) THEN AfterSchedule(p) ELSE "down")
  /\ UNCHANGED <<sleeping, done, queue, lock, woken, target>>

\* It returns when the sleep lock has a count.
schedule_down(p) ==
  /\ Goto(p, "down", AfterSchedule(p))
  /\ sem_down(p)
  /\ UNCHANGED <<state, late, timers, done, queue, lock, woken, target>>

\* The end of schedule_timeout(): the time left is zero if it has passed.
schedule_timeout_return(p) ==
  /\ Goto(p, "del_timer", IF p \in late THEN "timeout" ELSE "relock")
  /\ del_timer(p)
  /\ UNCHANGED <<state, sleep, late, tpc, ttask, done, queue, lock, woken, target>>

\* A woken waiter takes the lock, and the completion if there is one.
wait_again(p) ==
  /\ lock = NULL
  /\ IF done > 0
     THEN /\ Goto(p, "relock", "idle")
          /\ queue' = queue \ {p}
          /\ done' = done - 1
          /\ UNCHANGED state
     ELSE /\ Sleep(p, "relock")
          /\ UNCHANGED <<queue, done>>
  /\ UNCHANGED <<sleep, late, timers, lock, woken, target>>

\* Faulty: the waiter stays on the queue.
wait_timeout_queued(p) ==
  /\ lock = NULL
  /\ Goto(p, "timeout", "idle")
  /\ UNCHANGED <<sleeping, done, queue, lock, woken, target>>

\* A waiter whose time has passed leaves without the completion.
wait_timeout(p) ==
  /\ lock = NULL
  /\ Goto(p, "timeout", "idle")
  /\ queue' = queue \ {p}
  /\ UNCHANGED <<sleeping, done, lock, woken, target>>

-----------------------------------------------------------------------------

\* complete() takes the lock and counts.
complete(c) ==
  /\ lock = NULL
  /\ done < MaxDone
  /\ Goto(c, "idle", "wake")
  /\ lock' = c
  /\ done' = done + 1
  /\ UNCHANGED <<sleeping, queue, woken, target>>

\* __wake_up_common() wakes the next task of the queue.
wake_up_common(c) ==
  /\ Goto(c, "wake", "wake_sem")
  /\ \E p \in queue \ woken : wake_state(p) /\ target' = p
  /\ UNCHANGED <<sleep, late, timers, done, queue, lock, woken>>

\* Faulty: try_to_wake_up() reports success, and the loop ends with the first
\* exclusive task.
try_to_wake_up_one(c) ==
  /\ Goto(c, "wake_sem", "wake")
  /\ wake_sem(target)
  /\ woken' = queue
  /\ target' = NULL
  /\ UNCHANGED <<state, late, timers, done, queue, lock>>

\* try_to_wake_up() returns 0, so the loop goes on whatever nr_exclusive is.
try_to_wake_up(c) ==
  /\ Goto(c, "wake_sem", "wake")
  /\ wake_sem(target)
  /\ woken' = woken \cup {target}
  /\ target' = NULL
  /\ UNCHANGED <<state, late, timers, done, queue, lock>>

\* The end of complete().
complete_unlock(c) ==
  /\ Goto(c, "wake", "idle")
  /\ queue \subseteq woken
  /\ lock' = NULL
  /\ woken' = {}
  /\ UNCHANGED <<sleeping, done, queue, target>>

Waiter(p) ==
  \/ wait_for_completion(p)
  \/ schedule_timeout(p)
  \/ schedule(p)
  \/ schedule_down(p)
  \/ schedule_timeout_return(p)
  \/ wait_again(p)
  \/ wait_timeout(p)

Completer(c) ==
  \/ complete(c)
  \/ wake_up_common(c)
  \/ try_to_wake_up(c)
  \/ complete_unlock(c)

\* The timeout of a task passes while the task is in schedule_timeout().
Clock(p) ==
  /\ p \in Timed /\ pc[p] \in {"schedule", "down", "del_timer"}
  /\ elapse(p)
  /\ UNCHANGED <<done, queue, lock, pc, woken, target>>

\* The timer thread of DDE kit.
Timer == TimerThread /\ UNCHANGED <<done, queue, lock, pc, woken, target>>

Next ==
  \/ \E p \in Tasks : Waiter(p) \/ Clock(p)
  \/ \E c \in Completers : Completer(c)
  \/ Timer

Spec == Init /\ [][Next]_vars

\* Threads run, the timer thread runs expired timers, and a thread that
\* wants the lock gets it: DDE kit's spin locks queue their applicants.  Time
\* passes, also for a task that wakes and sleeps again without end (a count
\* of MaxSleep may stand for any number of wake-ups).  Nobody has to wait
\* for, or to complete, anything.
FairSpec ==
  /\ Spec
  /\ \A p \in Tasks :
       /\ WF_vars(schedule_timeout(p) \/ schedule(p) \/ schedule_down(p)
                    \/ schedule_timeout_return(p))
       /\ SF_vars(wait_again(p) \/ wait_timeout(p))
       /\ SF_vars(Clock(p))
  /\ \A c \in Completers : WF_vars(wake_up_common(c) \/ try_to_wake_up(c) \/ complete_unlock(c))
  /\ WF_vars(Timer)

-----------------------------------------------------------------------------

Waiting(p) == pc[p] # "idle"

\* The running complete() has yet to wake p.
Waking(p) == lock # NULL /\ p \in queue \ woken

TypeOK ==
  /\ SchedTypeOK
  /\ armed \in SUBSET Tasks
  /\ late \in SUBSET Tasks
  /\ tpc \in {"idle", "process_timeout", "up"}
  /\ ttask \in IF tpc = "idle" THEN {NULL} ELSE Tasks
  /\ done \in 0..MaxDone
  /\ queue \in SUBSET Tasks
  /\ lock \in Completers \cup {NULL}
  /\ pc \in [Threads -> {"idle", "add_timer", "schedule", "down", "del_timer", "relock",
                         "timeout", "wake", "wake_sem"}]
  /\ woken \in SUBSET Tasks
  /\ target \in Tasks \cup {NULL}

\* While the completion is there, no waiter sleeps for good: it has a count
\* in its sleep lock, or the complete() in progress will wake it.  A waiter
\* that was woken and times out, or finds the completion taken by another,
\* takes nobody's wake-up with it.
NoLostWakeup ==
  done > 0 => \A p \in Tasks : pc[p] = "down" => sleep[p] > 0 \/ Waking(p)

\* A task is on the queue exactly while it waits: complete() never wakes a
\* task through a queue entry on the stack of a wait that has returned.
QueuedWhileWaiting == queue = {p \in Tasks : Waiting(p)}

\* A completion that stays there is taken by every task that waits for it.
CompletionTaken ==
  \A p \in Tasks : (Waiting(p) /\ done > 0) ~> (~ Waiting(p) \/ done = 0)

\* wait_for_completion_timeout() returns, completed or not.
TimeoutReturns == \A p \in Timed : Waiting(p) ~> ~ Waiting(p)

=============================================================================
