------------------------------ MODULE Workqueue ------------------------------
(***************************************************************************)
(* The work queues of kernel/workqueue.c on the scheduler and the timers   *)
(* of arch/dde_kit: one cpu_workqueue_struct, its worker thread, clients   *)
(* that queue, cancel, flush and run work, and DDE kit's timer thread.     *)
(*                                                                         *)
(* cwq->lock guards the list and the sequence counters.  A section that    *)
(* wakes nobody is one step; one that wakes keeps the lock while the task  *)
(* it wakes runs.  more_work has a lock of its own, which the worker takes *)
(* without cwq->lock.  Every entry carries the insert_sequence it was      *)
(* queued with, which the code does not store.  BUG_ON() ends the run.     *)
(***************************************************************************)
EXTENDS Sched, Sequences, FiniteSets

CONSTANTS Worker,      \* cwq->thread
          Timer,       \* DDE kit's timer thread
          Works,
          Delayed,     \* the works that are a delayed_work
          Submitters,  \* the clients that queue work
          Flushers,    \* the clients that flush, cancel and run work
          MaxInsert,   \* bound: no work is queued beyond this insert_sequence
          MaxDepth     \* bound: run_depth of the worker

ASSUME WorkAssumption ==
  /\ Worker \in Tasks /\ Timer \notin Tasks \cup {NULL}
  /\ Submitters \cup Flushers \subseteq Tasks \ {Worker}
  /\ Delayed \subseteq Works /\ NULL \notin Works
  /\ MaxInsert \in Nat /\ MaxDepth \in Nat

VARIABLES pending,           \* the works with WORK_STRUCT_PENDING
          worklist,
          insert_sequence, remove_sequence,
          more_work,         \* is the worker on the wait queue more_work?
          work_done,         \* the clients on the wait queue work_done
          lock,              \* who holds cwq->lock over a step
          towake, target,    \* what remains of a wake_up(work_done)
          pc, arg,           \* control point, and the work it is about
          running,           \* the works each thread executes, innermost last
          needed,            \* sequence_needed of each flush
          timer,             \* the timer of each delayed work
          entered,           \* insert_sequence when each flush began
          early,             \* has a flush returned before such a work ended?
          overtaken,         \* has a work ended before one queued earlier?
          raced,             \* has a timer changed within a del_timer()?
          bug                \* has a BUG_ON() fired?

list == <<pending, worklist, insert_sequence, remove_sequence>>
waits == <<more_work, work_done, towake, target, needed>>
ghosts == <<entered, early, overtaken, raced, bug>>
vars == <<sched_vars, list, waits, lock, pc, arg, running, timer, ghosts>>

Clients == Tasks \ {Worker}
Threads == Tasks \cup {Timer}

Init ==
  /\ state = [p \in Tasks |-> IF p = Worker THEN TASK_UNINTERRUPTIBLE ELSE TASK_RUNNING]
  /\ sleep = [p \in Tasks |-> 0]
  /\ pending = {} /\ worklist = << >>
  /\ insert_sequence = 0 /\ remove_sequence = 0
  /\ more_work = FALSE /\ work_done = {}
  /\ lock = NULL /\ towake = {} /\ target = NULL
  /\ pc = [th \in Threads |-> IF th = Worker THEN "add" ELSE "idle"]
  /\ arg = [th \in Threads |-> NULL]
  /\ running = [th \in Threads |-> << >>]
  /\ needed = [c \in Clients |-> 0]
  /\ timer = [d \in Delayed |-> "none"]
  /\ entered = [c \in Clients |-> 0]
  /\ early = FALSE /\ overtaken = FALSE /\ raced = FALSE /\ bug = FALSE

Goto(th, from, to) == pc[th] = from /\ pc' = [pc EXCEPT ![th] = to]

\* The thread has done what it wanted with its work.
Forget(th) == arg' = [arg EXCEPT ![th] = NULL]

\* Where a thread calls the functions below, and where they return to: a
\* client anywhere, the worker in a work function.
Caller(th) == IF running[th] = << >> THEN "idle" ELSE "call"

Queued(w) == \E i \in DOMAIN worklist : worklist[i].work = w

\* more_work.lock is taken by a wake_up(&cwq->more_work).
MoreLocked == lock # NULL /\ pc[lock] \in {"more", "more_up"}

-----------------------------------------------------------------------------
(* Queueing.                                                               *)

\* test_and_set_bit(WORK_STRUCT_PENDING) was clear.
test_and_set(th, w, to) ==
  /\ insert_sequence + Cardinality(pending) < MaxInsert
  /\ w \notin pending
  /\ pending' = pending \cup {w}
  /\ Goto(th, Caller(th), to)
  /\ arg' = [arg EXCEPT ![th] = w]
  /\ UNCHANGED <<sched_vars, worklist, insert_sequence, remove_sequence, waits, lock,
                 running, timer, entered, early, overtaken, raced>>

\* Faulty: the bit is not tested.
queue_work_untested(th, w) ==
  /\ insert_sequence + Cardinality(pending) < MaxInsert
  /\ pending' = pending \cup {w}
  /\ Goto(th, Caller(th), "insert")
  /\ arg' = [arg EXCEPT ![th] = w]
  /\ bug' = Queued(w)
  /\ UNCHANGED <<sched_vars, worklist, insert_sequence, remove_sequence, waits, lock,
                 running, timer, entered, early, overtaken, raced>>

queue_work(th, w) == test_and_set(th, w, "insert") /\ bug' = Queued(w)

queue_delayed_work(th, d) ==
  /\ d \in Delayed
  /\ test_and_set(th, d, "add_timer")
  /\ bug' = (Queued(d) \/ timer[d] = "armed")

add_timer(th) ==
  /\ Goto(th, "add_timer", Caller(th))
  /\ timer' = [timer EXCEPT ![arg[th]] = "armed"]
  /\ Forget(th)
  /\ UNCHANGED <<sched_vars, list, waits, lock, running, ghosts>>

\* The timer thread takes an expired timer and calls delayed_work_timer_fn().
timer_expired(d) ==
  /\ timer[d] = "armed"
  /\ Goto(Timer, "idle", "insert")
  /\ timer' = [timer EXCEPT ![d] = "fired"]
  /\ arg' = [arg EXCEPT ![Timer] = d]
  /\ UNCHANGED <<sched_vars, list, waits, lock, running, ghosts>>

\* __queue_work(); set_wq_data() has the BUG_ON.
queue_work_locked(th) ==
  /\ lock = NULL
  /\ Goto(th, "insert", IF more_work THEN "more" ELSE Caller(th))
  /\ bug' = (arg[th] \notin pending)
  /\ insert_sequence' = insert_sequence + 1
  /\ worklist' = Append(worklist, [work |-> arg[th], seq |-> insert_sequence + 1])
  /\ lock' = IF more_work THEN th ELSE NULL
  /\ Forget(th)
  /\ UNCHANGED <<sched_vars, pending, remove_sequence, waits, running, timer, entered,
                 early, overtaken, raced>>

\* wake_up(&cwq->more_work) and the end of __queue_work().
wake_more(th) ==
  /\ Goto(th, "more", "more_up")
  /\ wake_state(Worker)
  /\ UNCHANGED <<sleep, list, waits, lock, arg, running, timer, ghosts>>

wake_more_up(th) ==
  /\ Goto(th, "more_up", Caller(th))
  /\ wake_sem(Worker)
  /\ lock' = NULL
  /\ UNCHANGED <<state, list, waits, arg, running, timer, ghosts>>

-----------------------------------------------------------------------------
(* cancel_delayed_work(): del_timer() reads whether the timer is pending   *)
(* and deletes it in two calls of DDE kit, then the bit is cleared.        *)

cancel_delayed_work(c, d) ==
  /\ timer[d] # "none"
  /\ Goto(c, Caller(c), IF timer[d] = "armed" THEN "del_pending" ELSE "del")
  /\ arg' = [arg EXCEPT ![c] = d]
  /\ UNCHANGED <<sched_vars, list, waits, lock, running, timer, ghosts>>

dde_kit_timer_del(c) ==
  /\ \/ Goto(c, "del_pending", "cancel") /\ UNCHANGED arg
     \/ Goto(c, "del", Caller(c)) /\ Forget(c)
  /\ timer' = [timer EXCEPT ![arg[c]] = "none"]
  /\ raced' = (raced \/ (pc[c] = "del_pending") # (timer[arg[c]] = "armed"))
  /\ UNCHANGED <<sched_vars, list, waits, lock, running, entered, early, overtaken, bug>>

cancel_release(c) ==
  /\ Goto(c, "cancel", Caller(c))
  /\ pending' = pending \ {arg[c]}
  /\ Forget(c)
  /\ UNCHANGED <<sched_vars, worklist, insert_sequence, remove_sequence, waits, lock,
                 running, timer, ghosts>>

-----------------------------------------------------------------------------
(* Executing work: run_workqueue() in the worker, __run_work() in a client *)
(* that calls run_scheduled_work().                                        *)

Push(th, e) == running' = [running EXCEPT ![th] = Append(@, e)]

run_workqueue ==
  /\ lock \in {NULL, Worker}
  /\ lock' = NULL
  /\ IF worklist = << >>
     THEN /\ Goto(Worker, "run", IF running[Worker] = << >> THEN "set_state" ELSE "call")
          /\ UNCHANGED <<worklist, running>>
     ELSE /\ Goto(Worker, "run", "release")
          /\ worklist' = Tail(worklist)
          /\ Push(Worker, Head(worklist))
  /\ UNCHANGED <<sched_vars, pending, insert_sequence, remove_sequence, waits, arg,
                 timer, ghosts>>

run_scheduled_work(c, w) ==
  /\ lock = NULL
  /\ w \in pending
  /\ Goto(c, "idle", "release")
  /\ \E i \in DOMAIN worklist :
       /\ worklist[i].work = w
       /\ Push(c, worklist[i])
       /\ worklist' = SubSeq(worklist, 1, i - 1) \o SubSeq(worklist, i + 1, Len(worklist))
  /\ UNCHANGED <<sched_vars, pending, insert_sequence, remove_sequence, waits, lock, arg,
                 timer, ghosts>>

Current(th) == running[th][Len(running[th])]

\* Faulty: the work keeps its bit.
work_release_none(th) ==
  /\ Goto(th, "release", "call")
  /\ UNCHANGED <<sched_vars, list, waits, lock, arg, running, timer, ghosts>>

work_release(th) ==
  /\ Goto(th, "release", "call")
  /\ pending' = pending \ {Current(th).work}
  /\ UNCHANGED <<sched_vars, worklist, insert_sequence, remove_sequence, waits, lock,
                 arg, running, timer, ghosts>>

Unfinished ==
  {worklist[i] : i \in DOMAIN worklist}
    \cup UNION {{running[th][i] : i \in DOMAIN running[th]} : th \in Tasks}

\* The work function has returned.
finish(th, done) ==
  /\ lock = NULL
  /\ Goto(th, "call", "done")
  /\ lock' = th
  /\ towake' = done
  /\ running' = [running EXCEPT ![th] = SubSeq(@, 1, Len(@) - 1)]
  /\ overtaken' = (overtaken \/ \E e \in Unfinished : e.seq < Current(th).seq)
  /\ UNCHANGED <<sched_vars, pending, worklist, insert_sequence, more_work, work_done,
                 target, needed, arg, timer, entered, early, raced, bug>>

\* Faulty: every task is woken.
work_end_all(th) == finish(th, Tasks) /\ remove_sequence' = remove_sequence + 1

\* Faulty: the work is not counted.
work_end_uncounted(th) == finish(th, work_done) /\ UNCHANGED remove_sequence

\* Faulty: nobody is woken.
work_end_silent(th) == finish(th, {}) /\ remove_sequence' = remove_sequence + 1

work_end(th) == finish(th, work_done) /\ remove_sequence' = remove_sequence + 1

\* wake_up(&cwq->work_done), and what follows it.
wake_done(th) ==
  /\ Goto(th, "done", "done_up")
  /\ \E p \in towake : wake_state(p) /\ target' = p
  /\ UNCHANGED <<sleep, list, more_work, work_done, towake, needed, lock, arg, running,
                 timer, ghosts>>

wake_done_up(th) ==
  /\ Goto(th, "done_up", "done")
  /\ wake_sem(target)
  /\ towake' = towake \ {target}
  /\ target' = NULL
  /\ UNCHANGED <<state, list, more_work, work_done, needed, lock, arg, running, timer,
                 ghosts>>

woken_done(th) ==
  /\ towake = {}
  /\ Goto(th, "done", IF th = Worker THEN "run" ELSE "idle")
  /\ lock' = IF th = Worker THEN Worker ELSE NULL
  /\ UNCHANGED <<sched_vars, list, waits, arg, running, timer, ghosts>>

-----------------------------------------------------------------------------
(* worker_thread().                                                        *)

worker_state ==
  /\ Goto(Worker, "set_state", "add")
  /\ set_current_state(Worker, TASK_UNINTERRUPTIBLE)
  /\ UNCHANGED <<sleep, list, waits, lock, arg, running, timer, ghosts>>

\* Faulty: the worker is not on more_work when it looks at the list.
worker_add_none ==
  /\ Goto(Worker, "add", "test")
  /\ UNCHANGED <<sched_vars, list, waits, lock, arg, running, timer, ghosts>>

\* add_wait_queue(), remove_wait_queue().
worker_queue(from, to, queued) ==
  /\ ~ MoreLocked
  /\ Goto(Worker, from, to)
  /\ more_work' = queued
  /\ UNCHANGED <<sched_vars, list, work_done, towake, target, needed, lock, arg,
                 running, timer, ghosts>>

worker_add == worker_queue("add", "test", TRUE)

worker_remove == worker_queue("remove", "check", FALSE)

worker_test ==
  /\ IF worklist = << >>
     THEN Goto(Worker, "test", "schedule") /\ UNCHANGED state
     ELSE Goto(Worker, "test", "remove") /\ set_current_state(Worker, TASK_RUNNING)
  /\ UNCHANGED <<sleep, list, waits, lock, arg, running, timer, ghosts>>

worker_check ==
  /\ Goto(Worker, "check", IF worklist = << >> THEN "set_state" ELSE "run")
  /\ UNCHANGED <<sched_vars, list, waits, lock, arg, running, timer, ghosts>>

AfterSchedule(p) == IF p = Worker THEN "remove" ELSE "relock"

schedule(p) ==
  /\ Goto(p, "schedule", IF schedule_running(p) THEN AfterSchedule(p) ELSE "down")
  /\ UNCHANGED <<sched_vars, list, waits, lock, arg, running, timer, ghosts>>

schedule_down(p) ==
  /\ Goto(p, "down", AfterSchedule(p))
  /\ sem_down(p)
  /\ UNCHANGED <<state, list, waits, lock, arg, running, timer, ghosts>>

-----------------------------------------------------------------------------
(* flush_workqueue().                                                      *)

\* The loop of flush_cpu_workqueue(): prepare_to_wait(), or finish_wait() and
\* return.
wait_for(c, sequence, entry) ==
  /\ lock = NULL
  /\ IF sequence > remove_sequence
     THEN /\ pc' = [pc EXCEPT ![c] = "schedule"]
          /\ set_current_state(c, TASK_UNINTERRUPTIBLE)
          /\ work_done' = work_done \cup {c}
          /\ needed' = [needed EXCEPT ![c] = sequence]
          /\ entered' = [entered EXCEPT ![c] = entry]
          /\ UNCHANGED early
     ELSE /\ pc' = [pc EXCEPT ![c] = "idle"]
          /\ set_current_state(c, TASK_RUNNING)
          /\ work_done' = work_done \ {c}
          /\ needed' = [needed EXCEPT ![c] = 0]
          /\ entered' = [entered EXCEPT ![c] = 0]
          /\ early' = (early \/ \E e \in Unfinished : e.seq <= entry)
  /\ UNCHANGED <<sleep, list, more_work, towake, target, lock, arg, running, timer,
                 overtaken, raced, bug>>

\* Faulty: the last work that was queued is not waited for.
flush_workqueue_short(c) ==
  /\ pc[c] = "idle" /\ insert_sequence > 0
  /\ wait_for(c, insert_sequence - 1, insert_sequence)

flush_workqueue(c) == pc[c] = "idle" /\ wait_for(c, insert_sequence, insert_sequence)

\* Faulty: the client returns with its wait-queue entry on work_done.
flush_again_queued(c) ==
  /\ lock = NULL
  /\ Goto(c, "relock", IF needed[c] > remove_sequence THEN "schedule" ELSE "idle")
  /\ UNCHANGED <<sched_vars, list, waits, lock, arg, running, timer, ghosts>>

flush_again(c) == pc[c] = "relock" /\ wait_for(c, needed[c], entered[c])

\* The worker flushes its own queue: it runs it by hand.
flush_own ==
  /\ Len(running[Worker]) < MaxDepth
  /\ Goto(Worker, "call", "run")
  /\ UNCHANGED <<sched_vars, list, waits, lock, arg, running, timer, ghosts>>

-----------------------------------------------------------------------------

\* What a thread goes on with, without and with cwq->lock or more_work.lock.
Continue(th) ==
  \/ add_timer(th) \/ wake_more(th) \/ wake_more_up(th)
  \/ th \in Clients /\ (dde_kit_timer_del(th) \/ cancel_release(th))
  \/ th \in Tasks /\ (\/ work_release(th) \/ wake_done(th) \/ wake_done_up(th)
                      \/ woken_done(th) \/ schedule(th) \/ schedule_down(th))
  \/ th = Worker /\ (worker_state \/ worker_test \/ worker_check)

Locked(th) ==
  \/ queue_work_locked(th)
  \/ th \in Tasks /\ work_end(th)
  \/ th \in Clients /\ flush_again(th)
  \/ th = Worker /\ (run_workqueue \/ worker_add \/ worker_remove)

\* What a thread may do, and need not.
Call(th) ==
  \/ /\ th \in Submitters \cup {Worker}
     /\ \E w \in Works : queue_work(th, w) \/ queue_delayed_work(th, w)
  \/ /\ th \in Flushers
     /\ \/ flush_workqueue(th)
        \/ \E d \in Delayed : cancel_delayed_work(th, d)
        \/ \E w \in Works \ Delayed : run_scheduled_work(th, w)
  \/ th = Worker /\ flush_own

Next ==
  /\ ~ bug
  /\ \/ \E th \in Threads : Continue(th) \/ Locked(th)
     \/ \E th \in Tasks : Call(th)
     \/ \E d \in Delayed : timer_expired(d)

Spec == Init /\ [][Next]_vars

\* Threads run and get a lock that is free for good, timers expire, and a
\* work function returns however often it flushes its own queue.
FairSpec ==
  /\ Spec
  /\ \A th \in Threads : WF_vars(~ bug /\ (Continue(th) \/ Locked(th)))
  /\ WF_vars(~ bug /\ \E d \in Delayed : timer_expired(d))
  /\ SF_vars(~ bug /\ work_end(Worker))

-----------------------------------------------------------------------------

Labels ==
  {"idle", "insert", "add_timer", "more", "more_up", "del_pending", "del", "cancel", "run",
   "release", "call", "done", "done_up", "set_state", "add", "test", "remove", "check",
   "schedule", "down", "relock"}

Entry == [work : Works, seq : Nat \ {0}]

TypeOK ==
  /\ SchedTypeOK
  /\ pending \in SUBSET Works /\ worklist \in Seq(Entry)
  /\ insert_sequence \in Nat /\ remove_sequence \in Nat
  /\ more_work \in BOOLEAN /\ work_done \in SUBSET Clients
  /\ lock \in Tasks \cup {Timer, NULL}
  /\ towake \in SUBSET Clients /\ target \in Clients \cup {NULL}
  /\ pc \in [Threads -> Labels]
  /\ arg \in [Threads -> Works \cup {NULL}]
  /\ running \in [Threads -> Seq(Entry)]
  /\ needed \in [Clients -> Nat]
  /\ timer \in [Delayed -> {"none", "armed", "fired"}]
  /\ entered \in [Clients -> Nat]
  /\ early \in BOOLEAN /\ overtaken \in BOOLEAN /\ raced \in BOOLEAN /\ bug \in BOOLEAN

\* No BUG_ON() of workqueue.c fires, as long as no timer expires or is armed
\* between the two calls of a del_timer(): a work is on at most one of list
\* and timer, and only while it has WORK_STRUCT_PENDING.
NoBug == ~ raced => ~ bug

\* "Must *only* be called if the pending flag is set" (set_wq_data): what
\* the BUG_ON() in it checks.
SetWhilePending ==
  \A th \in Threads : pc[th] = "insert" => arg[th] \in pending

\* The sequence counters, which flush_workqueue() compares, differ by the
\* works that are queued or running, whoever runs them and in what order.
Accounted == insert_sequence - remove_sequence = Cardinality(Unfinished)

\* "we sleep until all works which were queued on entry have been handled"
\* (flush_workqueue): true unless a work ends before one queued earlier, for
\* the counters count the ends and do not tell whose they are.
FlushComplete == early => overtaken

\* The worker does not sleep over a queued work, nor a flush over the last
\* work it waits for: its sleep lock has a count, or a wake_up() is under way.
NoLostWakeup ==
  /\ pc[Worker] = "down" /\ worklist # << >> => sleep[Worker] > 0 \/ MoreLocked
  /\ \A c \in Clients :
       pc[c] = "down" /\ needed[c] <= remove_sequence => sleep[c] > 0 \/ c \in towake

\* wake_up(&cwq->work_done) finds exactly the flushes that wait, and no entry
\* on the stack of one that has returned.
WaitersQueued ==
  work_done = {c \in Clients : pc[c] \in {"schedule", "down", "relock"}}

\* A pending work is executed or cancelled, whether it was queued, delayed or
\* queued again by its own function.
PendingReleased == \A w \in Works : (w \in pending) ~> (w \notin pending \/ raced)

\* flush_workqueue() returns.
FlushReturns == \A c \in Clients : (c \in work_done) ~> (c \notin work_done \/ raced)

==============================================================================
