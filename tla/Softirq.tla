------------------------------ MODULE Softirq ------------------------------
(***************************************************************************)
(* Softirqs and tasklets of DDE Linux 2.6 (arch/dde_kit/softirq.c), with   *)
(* the inline half of the tasklet interface (linux/interrupt.h) and the    *)
(* end of the interrupt handler (arch/dde_kit/irq.c) that wakes the        *)
(* softirq thread.                                                         *)
(*                                                                         *)
(* Every thread of a DDE driver is a CPU of its own: local_irq_save() does *)
(* not exclude anybody, so each shared access is a step of its own.  The   *)
(* pending word is a plain variable; "pending |= bit" is a load and a      *)
(* store.                                                                  *)
(***************************************************************************)
EXTENDS Naturals, Sequences, Functions

CONSTANTS Drivers,     \* IRQ, timer and kernel threads that use tasklets
          Softirqd,    \* the softirq thread
          Callers,     \* threads that call do_softirq() (netif_rx_ni())
          Disablers,   \* the drivers that use tasklet_disable() and friends
          Killers,     \* the drivers that use tasklet_kill()
          Tasklets,
          UsedVecs,    \* the softirqs whose tasklets are in use
          NULL,        \* no tasklet; also the owner of a free list lock
          MaxRetries,  \* MAX_SOFTIRQ_RETRIES, 10 in the code
          MaxSem       \* a count of MaxSem stands for MaxSem or more

HI_SOFTIRQ == 0
TASKLET_SOFTIRQ == 5
Vecs == {HI_SOFTIRQ, TASKLET_SOFTIRQ}

Runners == {Softirqd} \cup Callers
Threads == Drivers \cup Runners

ASSUME ThreadsAssumption ==
  /\ Drivers \cap Runners = {}
  /\ Softirqd \notin Callers
  /\ Disablers \subseteq Drivers
  /\ Killers \subseteq Drivers
  /\ NULL \notin Threads
  /\ NULL \notin Tasklets
  /\ UsedVecs \subseteq Vecs

ASSUME BoundsAssumption ==
  /\ MaxRetries \in Nat \ {0}
  /\ MaxSem \in Nat \ {0}

VARIABLES
  pending,   \* local_softirq_pending(): the softirqs raised
  sem,       \* softirq_sem
  list,      \* tasklet_hi_vec.list and tasklet_vec.list, head first
  lock,      \* who holds tasklet_hi_vec.lock / tasklet_vec.lock
  sched,     \* the tasklets with TASKLET_STATE_SCHED set
  run,       \* the tasklets with TASKLET_STATE_RUN set
  count,     \* t->count, as the set of those who have disabled t
  quiet,     \* whose tasklet_disable(t) has returned
  pc,        \* where each thread is
  arg,       \* the tasklet a tasklet_*() call is about
  nr,        \* the softirq a call raises
  old,       \* the pending word loaded by "pending |= bit"
  todo,      \* __do_softirq(): the local copy of the pending word
  act,       \* __do_softirq(): the softirq whose handler is executed
  work,      \* tasklet_action(): the detached list
  cur,       \* tasklet_action(): the tasklet t
  retries    \* __do_softirq(): retries

shared == <<pending, sem, list, lock, sched, run, count, quiet>>
local == <<pc, arg, nr, old, todo, act, work, cur, retries>>
vars == <<pending, sem, list, lock, sched, run, count, quiet,
          pc, arg, nr, old, todo, act, work, cur, retries>>

\* Where a thread is when it executes none of this code.
Home(th) == IF th = Softirqd THEN "sem_down" ELSE "idle"

\* A tasklet is declared enabled or disabled (DECLARE_TASKLET,
\* DECLARE_TASKLET_DISABLED); NULL stands for the latter's count of 1.
Init ==
  /\ pending = {}
  /\ sem = 0
  /\ list = [v \in Vecs |-> <<>>]
  /\ lock = [v \in Vecs |-> NULL]
  /\ sched = {}
  /\ run = {}
  /\ count \in [Tasklets -> IF Disablers = {} THEN {{}} ELSE {{}, {NULL}}]
  /\ quiet = [t \in Tasklets |-> {}]
  /\ pc = [th \in Threads |-> Home(th)]
  /\ arg = [th \in Threads |-> NULL]
  /\ nr = [th \in Threads |-> TASKLET_SOFTIRQ]
  /\ old = [th \in Threads |-> {}]
  /\ todo = [r \in Runners |-> {}]
  /\ act = [r \in Runners |-> TASKLET_SOFTIRQ]
  /\ work = [r \in Runners |-> <<>>]
  /\ cur = [r \in Runners |-> NULL]
  /\ retries = [r \in Runners |-> 0]

\* Locals are reset when they are dead, to keep the state space small.
Goto(th, from, to) ==
  /\ pc[th] = from
  /\ pc' = [pc EXCEPT ![th] = to]

\* dde_kit_sem_up() and dde_kit_sem_down() of softirq_sem.  Its count has no
\* bound: MaxSem stands for all counts from there on, so that one token may
\* be taken from it and leave it as it is.
sem_up == sem' = IF sem < MaxSem THEN sem + 1 ELSE sem

sem_down ==
  /\ sem > 0
  /\ \/ sem' = sem - 1
     \/ sem = MaxSem /\ sem' = sem

-----------------------------------------------------------------------------
(* Raising a softirq: mark it, then wake the softirq thread.               *)

\* __raise_softirq_irqoff(nr): load the pending word ...
raise_load(th) ==
  /\ Goto(th, "raise_load", "raise_store")
  /\ old' = [old EXCEPT ![th] = pending]
  /\ UNCHANGED <<shared, arg, nr, todo, act, work, cur, retries>>

\* ... and store it with the bit set.
raise_store(th) ==
  /\ Goto(th, "raise_store", "raise_up")
  /\ pending' = old[th] \cup {nr[th]}
  /\ old' = [old EXCEPT ![th] = {}]
  /\ UNCHANGED <<sem, list, lock, sched, run, count, quiet,
                 arg, nr, todo, act, work, cur, retries>>

\* Faulty: as in Linux, a raise in softirq context does not wake the thread.
raise_up_no_wake(th) ==
  LET requeued == lock[nr[th]] = th
  IN  /\ Goto(th, "raise_up", IF th \in Drivers THEN "idle"
                              ELSE IF requeued THEN "next" ELSE "func")
      /\ IF th \in Runners THEN UNCHANGED sem ELSE sem_up
      /\ lock' = IF requeued THEN [lock EXCEPT ![nr[th]] = NULL] ELSE lock
      /\ nr' = [nr EXCEPT ![th] = TASKLET_SOFTIRQ]
      /\ UNCHANGED <<pending, list, sched, run, count, quiet,
                     arg, old, todo, act, work, cur, retries>>

\* dde_kit_sem_up(softirq_sem), and the return to the caller: the driver,
\* the tasklet function that scheduled a tasklet, or the loop of
\* tasklet_action(), which raises with the list lock held and now drops it.
raise_up(th) ==
  LET requeued == lock[nr[th]] = th
  IN  /\ Goto(th, "raise_up", IF th \in Drivers THEN "idle"
                              ELSE IF requeued THEN "next" ELSE "func")
      /\ sem_up
      /\ lock' = IF requeued THEN [lock EXCEPT ![nr[th]] = NULL] ELSE lock
      /\ nr' = [nr EXCEPT ![th] = TASKLET_SOFTIRQ]
      /\ UNCHANGED <<pending, list, sched, run, count, quiet,
                     arg, old, todo, act, work, cur, retries>>

\* irq_handler(), after the actions: wake the softirq thread if there is work.
irq_handler_exit(d) ==
  /\ pc[d] = "idle"
  /\ pending # {}
  /\ sem_up
  /\ UNCHANGED <<pending, list, lock, sched, run, count, quiet, local>>

-----------------------------------------------------------------------------
(* The tasklet interface.  A driver calls it when idle, a tasklet function  *)
(* while it is executed by a runner.                                       *)

\* Faulty: SCHED is set without testing it.
tasklet_schedule_no_test(th, t, v) ==
  /\ pc[th] = (IF th \in Drivers THEN "idle" ELSE "func")
  /\ sched' = sched \cup {t}
  /\ pc' = [pc EXCEPT ![th] = "enqueue"]
  /\ arg' = [arg EXCEPT ![th] = t]
  /\ nr' = [nr EXCEPT ![th] = v]
  /\ UNCHANGED <<pending, sem, list, lock, run, count, quiet,
                 old, todo, act, work, cur, retries>>

\* tasklet_schedule(t), tasklet_hi_schedule(t): test_and_set_bit(SCHED) ...
tasklet_schedule(th, t, v) ==
  /\ pc[th] = (IF th \in Drivers THEN "idle" ELSE "func")
  /\ t \notin sched
  /\ sched' = sched \cup {t}
  /\ pc' = [pc EXCEPT ![th] = "enqueue"]
  /\ arg' = [arg EXCEPT ![th] = t]
  /\ nr' = [nr EXCEPT ![th] = v]
  /\ UNCHANGED <<pending, sem, list, lock, run, count, quiet,
                 old, todo, act, work, cur, retries>>

\* ... which makes the call do nothing when the bit is set already.
tasklet_scheduled(th, t) ==
  /\ pc[th] = (IF th \in Drivers THEN "idle" ELSE "func")
  /\ t \in sched
  /\ UNCHANGED vars

\* Faulty: the list lock is not released.
tasklet_enqueue_locked(th) ==
  /\ Goto(th, "enqueue", "raise_load")
  /\ lock[nr[th]] = NULL
  /\ lock' = [lock EXCEPT ![nr[th]] = th]
  /\ list' = [list EXCEPT ![nr[th]] = <<arg[th]>> \o @]
  /\ arg' = [arg EXCEPT ![th] = NULL]
  /\ UNCHANGED <<pending, sem, sched, run, count, quiet,
                 nr, old, todo, act, work, cur, retries>>

\* __tasklet_enqueue(): put t in front of the list, under the list lock.
tasklet_enqueue(th) ==
  /\ Goto(th, "enqueue", "raise_load")
  /\ lock[nr[th]] = NULL
  /\ list' = [list EXCEPT ![nr[th]] = <<arg[th]>> \o @]
  /\ arg' = [arg EXCEPT ![th] = NULL]
  /\ UNCHANGED <<pending, sem, lock, sched, run, count, quiet,
                 nr, old, todo, act, work, cur, retries>>

\* tasklet_disable_nosync(t): count the disabler.
tasklet_disable_nosync(d, t) ==
  /\ pc[d] = "idle"
  /\ d \notin count[t]
  /\ count' = [count EXCEPT ![t] = @ \cup {d}]
  /\ UNCHANGED <<pending, sem, list, lock, sched, run, quiet, local>>

\* tasklet_disable(t): count the disabler, then wait for t to be done.
tasklet_disable(d, t) ==
  /\ Goto(d, "idle", "disable_wait")
  /\ d \notin count[t]
  /\ count' = [count EXCEPT ![t] = @ \cup {d}]
  /\ arg' = [arg EXCEPT ![d] = t]
  /\ UNCHANGED <<pending, sem, list, lock, sched, run, quiet,
                 nr, old, todo, act, work, cur, retries>>

\* Faulty: the uniprocessor tasklet_unlock_wait(), which does not wait.
tasklet_disable_no_wait(d) ==
  /\ Goto(d, "disable_wait", "idle")
  /\ quiet' = [quiet EXCEPT ![arg[d]] = @ \cup {d}]
  /\ arg' = [arg EXCEPT ![d] = NULL]
  /\ UNCHANGED <<pending, sem, list, lock, sched, run, count,
                 nr, old, todo, act, work, cur, retries>>

\* tasklet_unlock_wait(t) in tasklet_disable(): RUN is clear, return.
tasklet_disable_wait(d) ==
  /\ Goto(d, "disable_wait", "idle")
  /\ arg[d] \notin run
  /\ quiet' = [quiet EXCEPT ![arg[d]] = @ \cup {d}]
  /\ arg' = [arg EXCEPT ![d] = NULL]
  /\ UNCHANGED <<pending, sem, list, lock, sched, run, count,
                 nr, old, todo, act, work, cur, retries>>

\* tasklet_enable(t), by who disabled t, or of a tasklet declared disabled.
tasklet_enable(d, t) ==
  /\ pc[d] = "idle"
  /\ \E who \in count[t] \cap {d, NULL} :
       /\ count' = [count EXCEPT ![t] = @ \ {who}]
       /\ quiet' = [quiet EXCEPT ![t] = @ \ {who}]
  /\ UNCHANGED <<pending, sem, list, lock, sched, run, local>>

\* Faulty: tasklet_kill() does not wait for SCHED to be clear.
tasklet_kill_no_test(d, t) ==
  /\ Goto(d, "idle", "kill_wait")
  /\ sched' = sched \cup {t}
  /\ arg' = [arg EXCEPT ![d] = t]
  /\ UNCHANGED <<pending, sem, list, lock, run, count, quiet,
                 nr, old, todo, act, work, cur, retries>>

\* tasklet_kill(t): spin until SCHED is clear and set it ...
tasklet_kill(d, t) ==
  /\ Goto(d, "idle", "kill_wait")
  /\ t \notin sched
  /\ sched' = sched \cup {t}
  /\ arg' = [arg EXCEPT ![d] = t]
  /\ UNCHANGED <<pending, sem, list, lock, run, count, quiet,
                 nr, old, todo, act, work, cur, retries>>

\* Faulty: tasklet_kill() does not wait for RUN to be clear.
tasklet_kill_no_wait(d) ==
  /\ Goto(d, "kill_wait", "kill_clear")
  /\ UNCHANGED <<shared, arg, nr, old, todo, act, work, cur, retries>>

\* ... tasklet_unlock_wait(t) ...
tasklet_kill_wait(d) ==
  /\ Goto(d, "kill_wait", "kill_clear")
  /\ arg[d] \notin run
  /\ UNCHANGED <<shared, arg, nr, old, todo, act, work, cur, retries>>

\* ... and clear SCHED.
tasklet_kill_clear(d) ==
  /\ Goto(d, "kill_clear", "idle")
  /\ sched' = sched \ {arg[d]}
  /\ arg' = [arg EXCEPT ![d] = NULL]
  /\ UNCHANGED <<pending, sem, list, lock, run, count, quiet,
                 nr, old, todo, act, work, cur, retries>>

-----------------------------------------------------------------------------
(* The softirq thread, and do_softirq() called by others.                  *)

\* dde_linux26_softirq_thread(): wait for a wake-up.
softirq_thread(r) ==
  /\ r = Softirqd
  /\ Goto(r, "sem_down", "do_softirq")
  /\ sem_down
  /\ UNCHANGED <<pending, list, lock, sched, run, count, quiet,
                 arg, nr, old, todo, act, work, cur, retries>>

\* netif_rx_ni(): softirqs are pending, call do_softirq().
netif_rx_ni(r) ==
  /\ r # Softirqd
  /\ pending # {}
  /\ Goto(r, "idle", "do_softirq")
  /\ UNCHANGED <<shared, arg, nr, old, todo, act, work, cur, retries>>

\* do_softirq(): enter __do_softirq() if softirqs are pending.
do_softirq(r) ==
  /\ Goto(r, "do_softirq", IF pending = {} THEN Home(r) ELSE "load")
  /\ retries' = [retries EXCEPT ![r] = IF pending = {} THEN 0 ELSE MaxRetries]
  /\ UNCHANGED <<shared, arg, nr, old, todo, act, work, cur>>

\* __do_softirq(): copy the pending word ...
do_softirq_load(r) ==
  /\ Goto(r, "load", "clear")
  /\ todo' = [todo EXCEPT ![r] = pending]
  /\ UNCHANGED <<shared, arg, nr, old, act, work, cur, retries>>

\* ... and reset it.
do_softirq_clear(r) ==
  /\ Goto(r, "clear", "dispatch")
  /\ pending' = {}
  /\ UNCHANGED <<sem, list, lock, sched, run, count, quiet,
                 arg, nr, old, todo, act, work, cur, retries>>

\* Call the handlers of the bits copied, lowest first.
do_softirq_dispatch(r) ==
  /\ \E v \in todo[r] :
       /\ \A w \in todo[r] : v <= w
       /\ Goto(r, "dispatch", "detach")
       /\ todo' = [todo EXCEPT ![r] = @ \ {v}]
       /\ act' = [act EXCEPT ![r] = v]
  /\ UNCHANGED <<shared, arg, nr, old, work, cur, retries>>

\* All handlers called: once more if softirqs were raised meanwhile.
do_softirq_again(r) ==
  /\ todo[r] = {}
  /\ LET again == pending # {} /\ retries[r] > 1
     IN  /\ Goto(r, "dispatch", IF again THEN "load" ELSE Home(r))
         /\ retries' = [retries EXCEPT ![r] = IF again THEN @ - 1 ELSE 0]
  /\ UNCHANGED <<shared, arg, nr, old, todo, act, work, cur>>

\* Faulty: only the first tasklet of the list is kept.
tasklet_action_first(r) ==
  /\ Goto(r, "detach", "next")
  /\ lock[act[r]] = NULL
  /\ work' = [work EXCEPT ![r] = IF list[act[r]] = <<>> THEN <<>> ELSE <<Head(list[act[r]])>>]
  /\ list' = [list EXCEPT ![act[r]] = <<>>]
  /\ UNCHANGED <<pending, sem, lock, sched, run, count, quiet,
                 arg, nr, old, todo, act, cur, retries>>

\* tasklet_action(), tasklet_hi_action(): take the whole list ...
tasklet_action(r) ==
  /\ Goto(r, "detach", "next")
  /\ lock[act[r]] = NULL
  /\ work' = [work EXCEPT ![r] = list[act[r]]]
  /\ list' = [list EXCEPT ![act[r]] = <<>>]
  /\ UNCHANGED <<pending, sem, lock, sched, run, count, quiet,
                 arg, nr, old, todo, act, cur, retries>>

\* ... and go through it.
tasklet_next(r) ==
  /\ work[r] # <<>>
  /\ Goto(r, "next", "trylock")
  /\ cur' = [cur EXCEPT ![r] = Head(work[r])]
  /\ work' = [work EXCEPT ![r] = Tail(work[r])]
  /\ UNCHANGED <<shared, arg, nr, old, todo, act, retries>>

tasklet_action_done(r) ==
  /\ work[r] = <<>>
  /\ Goto(r, "next", "dispatch")
  /\ act' = [act EXCEPT ![r] = TASKLET_SOFTIRQ]
  /\ UNCHANGED <<shared, arg, nr, old, todo, work, cur, retries>>

\* Faulty: the uniprocessor tasklet_trylock(), which always succeeds.
tasklet_trylock_up(r) ==
  /\ Goto(r, "trylock", "count")
  /\ run' = run \cup {cur[r]}
  /\ UNCHANGED <<pending, sem, list, lock, sched, count, quiet,
                 arg, nr, old, todo, act, work, cur, retries>>

\* tasklet_trylock(t): test_and_set_bit(RUN).
tasklet_trylock(r) ==
  /\ Goto(r, "trylock", IF cur[r] \in run THEN "requeue" ELSE "count")
  /\ run' = run \cup {cur[r]}
  /\ UNCHANGED <<pending, sem, list, lock, sched, count, quiet,
                 arg, nr, old, todo, act, work, cur, retries>>

\* if (!atomic_read(&t->count))
tasklet_count(r) ==
  /\ Goto(r, "count", IF count[cur[r]] = {} THEN "start" ELSE "unlock")
  /\ UNCHANGED <<shared, arg, nr, old, todo, act, work, cur, retries>>

\* Faulty: SCHED is tested and not cleared.
tasklet_start_no_clear(r) ==
  /\ Goto(r, "start", IF cur[r] \in sched THEN "func" ELSE "BUG")
  /\ UNCHANGED <<shared, arg, nr, old, todo, act, work, cur, retries>>

\* test_and_clear_bit(SCHED), BUG() if it was clear, and call t->func().
tasklet_start(r) ==
  /\ Goto(r, "start", IF cur[r] \in sched THEN "func" ELSE "BUG")
  /\ sched' = sched \ {cur[r]}
  /\ UNCHANGED <<pending, sem, list, lock, run, count, quiet,
                 arg, nr, old, todo, act, work, cur, retries>>

\* t->func() has returned: tasklet_unlock(t); continue.
tasklet_return(r) ==
  /\ Goto(r, "func", "next")
  /\ run' = run \ {cur[r]}
  /\ cur' = [cur EXCEPT ![r] = NULL]
  /\ UNCHANGED <<pending, sem, list, lock, sched, count, quiet,
                 arg, nr, old, todo, act, work, retries>>

\* The tasklet is disabled: tasklet_unlock(t) without having run it.
tasklet_unlock(r) ==
  /\ Goto(r, "unlock", "requeue")
  /\ run' = run \ {cur[r]}
  /\ UNCHANGED <<pending, sem, list, lock, sched, count, quiet,
                 arg, nr, old, todo, act, work, cur, retries>>

\* Not executed: put t back, keep the list lock and raise the softirq again.
tasklet_requeue(r) ==
  /\ Goto(r, "requeue", "raise_load")
  /\ lock[act[r]] = NULL
  /\ lock' = [lock EXCEPT ![act[r]] = r]
  /\ list' = [list EXCEPT ![act[r]] = <<cur[r]>> \o @]
  /\ nr' = [nr EXCEPT ![r] = act[r]]
  /\ cur' = [cur EXCEPT ![r] = NULL]
  /\ UNCHANGED <<pending, sem, sched, run, count, quiet,
                 arg, old, todo, act, work, retries>>

-----------------------------------------------------------------------------
Raise(th) == raise_load(th) \/ raise_store(th) \/ raise_up(th)

\* A call of the tasklet interface in progress goes on.
DriverStep(d) ==
  \/ Raise(d)
  \/ tasklet_enqueue(d)
  \/ tasklet_disable_wait(d)
  \/ tasklet_kill_wait(d)
  \/ tasklet_kill_clear(d)

\* A driver calls the tasklet interface, or an interrupt handler ends.
DriverCall(d) ==
  \/ irq_handler_exit(d)
  \/ \E t \in Tasklets :
       \/ \E v \in UsedVecs : tasklet_schedule(d, t, v)
       \/ tasklet_scheduled(d, t)
       \/ d \in Disablers /\ tasklet_disable_nosync(d, t)
       \/ d \in Disablers /\ tasklet_disable(d, t)
       \/ d \in Disablers /\ tasklet_enable(d, t)
       \/ d \in Killers /\ tasklet_kill(d, t)

\* A runner goes on.
RunnerStep(r) ==
  \/ Raise(r)
  \/ tasklet_enqueue(r)
  \/ softirq_thread(r)
  \/ do_softirq(r)
  \/ do_softirq_load(r)
  \/ do_softirq_clear(r)
  \/ do_softirq_dispatch(r)
  \/ do_softirq_again(r)
  \/ tasklet_action(r)
  \/ tasklet_next(r)
  \/ tasklet_action_done(r)
  \/ tasklet_trylock(r)
  \/ tasklet_count(r)
  \/ tasklet_start(r)
  \/ tasklet_return(r)
  \/ tasklet_unlock(r)
  \/ tasklet_requeue(r)

\* A caller enters do_softirq(), or a tasklet function schedules a tasklet.
RunnerCall(r) ==
  \/ netif_rx_ni(r)
  \/ \E t \in Tasklets :
       \/ \E v \in UsedVecs : tasklet_schedule(r, t, v)
       \/ tasklet_scheduled(r, t)

Next ==
  \/ \E d \in Drivers : DriverStep(d) \/ DriverCall(d)
  \/ \E r \in Runners : RunnerStep(r) \/ RunnerCall(r)

Spec == Init /\ [][Next]_vars

\* The kernel schedules every thread, so a thread that can go on does, and
\* the lock of a list queues its applicants.
Fairness ==
  /\ \A d \in Drivers : WF_vars(DriverStep(d)) /\ SF_vars(tasklet_enqueue(d))
  /\ \A r \in Runners : WF_vars(RunnerStep(r))

FairSpec == Spec /\ Fairness

-----------------------------------------------------------------------------
Labels == {"idle", "raise_load", "raise_store", "raise_up", "enqueue",
           "disable_wait", "kill_wait", "kill_clear", "sem_down",
           "do_softirq", "load", "clear", "dispatch", "detach", "next",
           "trylock", "count", "start", "func", "unlock", "requeue", "BUG"}

TypeOK ==
  /\ pending \in SUBSET Vecs
  /\ sem \in 0..MaxSem
  /\ list \in [Vecs -> Seq(Tasklets)]
  /\ lock \in [Vecs -> Runners \cup {NULL}]
  /\ sched \in SUBSET Tasklets
  /\ run \in SUBSET Tasklets
  /\ count \in [Tasklets -> SUBSET (Disablers \cup {NULL})]
  /\ quiet \in [Tasklets -> SUBSET Disablers]
  /\ pc \in [Threads -> Labels]
  /\ arg \in [Threads -> Tasklets \cup {NULL}]
  /\ nr \in [Threads -> Vecs]
  /\ old \in [Threads -> SUBSET Vecs]
  /\ todo \in [Runners -> SUBSET Vecs]
  /\ act \in [Runners -> Vecs]
  /\ work \in [Runners -> Seq(Tasklets)]
  /\ cur \in [Runners -> Tasklets \cup {NULL}]
  /\ retries \in [Runners -> 0..MaxRetries]

\* The runner r is inside t->func(): at its own code, or in a
\* tasklet_schedule() that the function calls.
InFunc(r) ==
  \/ pc[r] \in {"func", "enqueue"}
  \/ pc[r] \in {"raise_load", "raise_store", "raise_up"} /\ lock[nr[r]] # r

\* The scheduled tasklet that a thread has in its hands, if any.
Hand(th) ==
  IF pc[th] \in {"enqueue", "kill_wait", "kill_clear"} THEN {arg[th]}
  ELSE IF pc[th] \in {"trylock", "count", "start", "unlock", "requeue"} THEN {cur[th]}
  ELSE {}

\* SCHED is set for the tasklets that are on a list or in somebody's hands.
SchedMarked ==
  \A t \in Tasklets :
    t \in sched <=> \/ \E v \in Vecs : t \in Range(list[v])
                    \/ \E r \in Runners : t \in Range(work[r])
                    \/ \E th \in Threads : t \in Hand(th)

\* No tasklet is at two places, or at one place twice.
OnePlace ==
  /\ \A v \in Vecs : IsInjective(list[v])
  /\ \A r \in Runners : IsInjective(work[r])
  /\ \A v, w \in Vecs : v # w => Range(list[v]) \cap Range(list[w]) = {}
  /\ \A r, s \in Runners : r # s => Range(work[r]) \cap Range(work[s]) = {}
  /\ \A th, u \in Threads : th # u => Hand(th) \cap Hand(u) = {}
  /\ \A v \in Vecs, r \in Runners : Range(list[v]) \cap Range(work[r]) = {}
  /\ \A v \in Vecs, th \in Threads : Range(list[v]) \cap Hand(th) = {}
  /\ \A r \in Runners, th \in Threads : Range(work[r]) \cap Hand(th) = {}

\* A tasklet with SCHED set is at exactly one place (on one of the lists, in
\* the list detached by one tasklet_action(), or in the hands of one thread)
\* and one with SCHED clear at none.  No list is ever linked into itself, and
\* no schedule request is made that leaves its tasklet unreachable.
ScheduledOnce == SchedMarked /\ OnePlace

\* BUG() in tasklet_action() and tasklet_hi_action() is never reached.
NoBug == \A r \in Runners : pc[r] # "BUG"

\* A tasklet is strictly serialized with respect to itself: no two threads
\* execute its function at a time.
Serialized ==
  \A r, s \in Runners : r # s /\ InFunc(r) /\ InFunc(s) => cur[r] # cur[s]

\* Once tasklet_disable(t) has returned, and until the matching
\* tasklet_enable(t), the function of t is not executed.
DisabledNotRunning ==
  \A r \in Runners : InFunc(r) => quiet[cur[r]] = {}

\* The softirq thread does not go to sleep over a raised softirq: a softirq
\* is pending only if the thread is awake, or has a wake-up to consume, or
\* the thread that raised the softirq is about to give it one.
NoLostWakeup ==
  pc[Softirqd] = "sem_down" /\ pending # {} =>
     sem > 0 \/ \E th \in Threads : pc[th] = "raise_up"

\* When tasklet_kill(t) returns, t is not executed and on no list.
KilledIsGone ==
  [][\A d \in Drivers : tasklet_kill_clear(d) =>
        /\ \A r \in Runners : InFunc(r) => cur[r] # arg[d]
        /\ \A v \in Vecs : arg[d] \notin Range(list[v])]_vars

\* A raised softirq is collected by a run of __do_softirq().
PendingCollected == pending # {} ~> pending = {}

\* linux/interrupt.h: "If tasklet_schedule() is called, then tasklet is
\* guaranteed to be executed on some cpu at least once after this."  It is
\* not while it is disabled.
ScheduledExecuted ==
  \A t \in Tasklets :
    t \in sched ~> \/ \E r \in Runners : cur[r] = t /\ InFunc(r)
                  \/ count[t] # {}

-----------------------------------------------------------------------------
(* The tasklet service that drivers see.                                   *)

KillHeld == {arg[d] : d \in {x \in Drivers : pc[x] \in {"kill_wait", "kill_clear"}}}

Service == INSTANCE TaskletService WITH
  Users <- Drivers,
  scheduled <- sched \ KillHeld,
  killing <- KillHeld,
  running <- {cur[r] : r \in {x \in Runners : InFunc(x)}},
  disabled <- quiet

\* The softirq code implements the tasklet service.
ServiceSpec == Service!Spec

=============================================================================
