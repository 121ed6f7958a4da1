--------------------------- MODULE SoftirqProofs ---------------------------
(***************************************************************************)
(* Theorems about module Softirq, for any number of driver threads,        *)
(* callers of do_softirq() and tasklets.                                   *)
(*                                                                         *)
(* First the parts of the inductive invariant on control, locks and        *)
(* wake-ups, each for the steps in four groups; then that every step       *)
(* leaves a scheduled tasklet at exactly one place.  From these follow the *)
(* invariants, the action property of tasklet_kill(), and that the module  *)
(* implements TaskletService.                                              *)
(***************************************************************************)
EXTENDS Softirq, TLAPS

Raising == {"raise_load", "raise_store", "raise_up"}

\* The runner has set RUN of the tasklet it is at.
Holds(r) == pc[r] \in {"count", "start", "unlock"} \/ InFunc(r)

\* The control points of drivers and runners, and the locals live there.
Control ==
  /\ \A d \in Drivers :
       pc[d] \in Raising \cup {"idle", "enqueue", "disable_wait", "kill_wait", "kill_clear"}
  /\ \A r \in Runners : pc[r] \notin {"disable_wait", "kill_wait", "kill_clear", "BUG"}
  /\ \A th \in Threads :
       pc[th] \in {"enqueue", "disable_wait", "kill_wait", "kill_clear"} => arg[th] \in Tasklets
  /\ \A r \in Runners : Holds(r) \/ pc[r] \in {"trylock", "requeue"} => cur[r] \in Tasklets
  /\ \A r \in Runners :
       pc[r] \in {"idle", "sem_down", "do_softirq", "load", "clear", "dispatch", "detach"}
         => work[r] = <<>>

\* RUN is a lock: each tasklet has one holder at most, and RUN says so.
RunLock ==
  /\ \A r \in Runners : Holds(r) => cur[r] \in run
  /\ \A r, s \in Runners : r # s /\ Holds(r) /\ Holds(s) => cur[r] # cur[s]

\* A disabler whose tasklet_disable() has returned is counted; a tasklet
\* whose count was seen to be zero has no such disabler.
Quiet ==
  /\ \A t \in Tasklets : quiet[t] \subseteq count[t]
  /\ \A d \in Drivers : pc[d] = "disable_wait" => d \in Disablers /\ d \in count[arg[d]]
  /\ \A r \in Runners : pc[r] = "start" \/ InFunc(r) => quiet[cur[r]] = {}

\* tasklet_kill() has seen RUN clear, and nobody can set it again.
Killing == \A d \in Drivers : pc[d] = "kill_clear" => arg[d] \notin run

\* A raised softirq has a wake-up, or the softirq thread is about to see it.
Wakeup ==
  pending # {} =>
    \/ sem > 0
    \/ \E th \in Threads : pc[th] = "raise_up"
    \/ pc[Softirqd] \in {"do_softirq", "load", "clear"}

IInv == TypeOK /\ Control /\ ScheduledOnce /\ RunLock /\ Quiet /\ Killing /\ Wakeup

\* A thread schedules a tasklet or raises a softirq.
RaiseStep ==
  \/ \E th \in Threads : raise_load(th)
  \/ \E th \in Threads : raise_store(th)
  \/ \E th \in Threads : raise_up(th)
  \/ \E d \in Drivers : irq_handler_exit(d)
  \/ \E th \in Threads, t \in Tasklets, v \in UsedVecs : tasklet_schedule(th, t, v)
  \/ \E th \in Threads : tasklet_enqueue(th)

\* A thread disables, enables or kills a tasklet.
CallStep ==
  \/ \E d \in Disablers, t \in Tasklets : tasklet_disable_nosync(d, t)
  \/ \E d \in Disablers, t \in Tasklets : tasklet_disable(d, t)
  \/ \E d \in Drivers : tasklet_disable_wait(d)
  \/ \E d \in Disablers, t \in Tasklets : tasklet_enable(d, t)
  \/ \E d \in Killers, t \in Tasklets : tasklet_kill(d, t)
  \/ \E d \in Drivers : tasklet_kill_wait(d)
  \/ \E d \in Drivers : tasklet_kill_clear(d)

\* A thread is at the loop of __do_softirq().
LoopStep ==
  \/ \E r \in Runners : softirq_thread(r)
  \/ \E r \in Runners : netif_rx_ni(r)
  \/ \E r \in Runners : do_softirq(r)
  \/ \E r \in Runners : do_softirq_load(r)
  \/ \E r \in Runners : do_softirq_clear(r)
  \/ \E r \in Runners : do_softirq_dispatch(r)
  \/ \E r \in Runners : do_softirq_again(r)

\* A thread is at a list of tasklets.
ActionStep ==
  \/ \E r \in Runners : tasklet_action(r)
  \/ \E r \in Runners : tasklet_next(r)
  \/ \E r \in Runners : tasklet_action_done(r)
  \/ \E r \in Runners : tasklet_trylock(r)
  \/ \E r \in Runners : tasklet_count(r)
  \/ \E r \in Runners : tasklet_start(r)
  \/ \E r \in Runners : tasklet_return(r)
  \/ \E r \in Runners : tasklet_unlock(r)
  \/ \E r \in Runners : tasklet_requeue(r)

\* Every step of the system is of one of these kinds.
LEMMA StepCases == [Next]_vars => RaiseStep \/ CallStep \/ LoopStep \/ ActionStep \/ UNCHANGED vars
BY Zenon
   DEF Next, DriverStep, DriverCall, RunnerStep, RunnerCall, Raise, Threads,
       tasklet_scheduled, RaiseStep, CallStep, LoopStep, ActionStep

\* Type correctness is preserved,
\* when a thread schedules a tasklet or raises a softirq.
LEMMA TypeRaiseStep ==
  ASSUME TypeOK, Control, Quiet, RaiseStep
  PROVE  TypeOK'
<1>1. ASSUME NEW th \in Threads, raise_load(th)
      PROVE  TypeOK'
  BY Zenon, <1>1 DEF TypeOK, raise_load, Goto, shared, Labels
<1>2. ASSUME NEW th \in Threads, raise_store(th)
      PROVE  TypeOK'
  BY Zenon, <1>2 DEF TypeOK, raise_store, Goto, Labels, Vecs
<1>3. ASSUME NEW th \in Threads, raise_up(th)
      PROVE  TypeOK'
  BY SMTT(30), <1>3, BoundsAssumption DEF TypeOK, raise_up, Goto, sem_up, Labels, Vecs,
    TASKLET_SOFTIRQ
<1>4. ASSUME NEW d \in Drivers, irq_handler_exit(d)
      PROVE  TypeOK'
  BY <1>4, BoundsAssumption DEF TypeOK, irq_handler_exit, local, sem_up,
    Threads
<1>5. ASSUME NEW th \in Threads, NEW t \in Tasklets, NEW v \in UsedVecs, tasklet_schedule(th, t, v)
      PROVE  TypeOK'
  BY Zenon, <1>5, ThreadsAssumption DEF TypeOK, tasklet_schedule, Labels, Vecs
<1>6. ASSUME NEW th \in Threads, tasklet_enqueue(th)
      PROVE  TypeOK'
  <2>1. arg[th] \in Tasklets /\ nr[th] \in Vecs
    BY Zenon, <1>6 DEF tasklet_enqueue, Goto, TypeOK, Control
  <2>2. <<arg[th]>> \o list[nr[th]] \in Seq(Tasklets)
    BY <2>1 DEF TypeOK
  <2> QED
    BY Zenon, <1>6, <2>1, <2>2 DEF TypeOK, tasklet_enqueue, Goto, Labels
<1> QED
  BY Zenon, <1>1, <1>2, <1>3, <1>4, <1>5, <1>6 DEF RaiseStep

\* Type correctness is preserved,
\* when a thread disables, enables or kills a tasklet.
LEMMA TypeCallStep ==
  ASSUME TypeOK, Control, Quiet, CallStep
  PROVE  TypeOK'
<1>1. ASSUME NEW d \in Disablers, NEW t \in Tasklets, tasklet_disable_nosync(d, t)
      PROVE  TypeOK'
  BY Zenon, <1>1 DEF TypeOK, tasklet_disable_nosync, local,
    Threads
<1>2. ASSUME NEW d \in Disablers, NEW t \in Tasklets, tasklet_disable(d, t)
      PROVE  TypeOK'
  BY <1>2, ThreadsAssumption DEF TypeOK, tasklet_disable, Goto, Labels, Threads
<1>3. ASSUME NEW d \in Drivers, tasklet_disable_wait(d)
      PROVE  TypeOK'
  <2>1. arg[d] \in Tasklets /\ d \in Disablers
    BY Zenon, <1>3 DEF tasklet_disable_wait, Goto, Control, Quiet, Threads
  <2> QED
    BY <1>3, <2>1 DEF TypeOK, tasklet_disable_wait, Goto, Labels, Threads
<1>4. ASSUME NEW d \in Disablers, NEW t \in Tasklets, tasklet_enable(d, t)
      PROVE  TypeOK'
  BY <1>4 DEF TypeOK, tasklet_enable, local, Threads
<1>5. ASSUME NEW d \in Killers, NEW t \in Tasklets, tasklet_kill(d, t)
      PROVE  TypeOK'
  BY Zenon, <1>5 DEF TypeOK, tasklet_kill, Goto, Labels, Threads
<1>6. ASSUME NEW d \in Drivers, tasklet_kill_wait(d)
      PROVE  TypeOK'
  BY Zenon, <1>6 DEF TypeOK, tasklet_kill_wait, Goto, shared, Labels, Threads
<1>7. ASSUME NEW d \in Drivers, tasklet_kill_clear(d)
      PROVE  TypeOK'
  BY Zenon, <1>7 DEF TypeOK, tasklet_kill_clear, Goto, Labels, Threads
<1> QED
  BY Zenon, <1>1, <1>2, <1>3, <1>4, <1>5, <1>6, <1>7 DEF CallStep

\* Type correctness is preserved,
\* when a thread is at the loop of __do_softirq().
LEMMA TypeLoopStep ==
  ASSUME TypeOK, Control, Quiet, LoopStep
  PROVE  TypeOK'
<1>1. ASSUME NEW r \in Runners, softirq_thread(r)
      PROVE  TypeOK'
  BY SMTT(30), <1>1, BoundsAssumption DEF TypeOK, softirq_thread, Goto, sem_down,
    Labels, Threads
<1>2. ASSUME NEW r \in Runners, netif_rx_ni(r)
      PROVE  TypeOK'
  BY Zenon, <1>2 DEF TypeOK, netif_rx_ni, Goto, shared, Labels, Threads
<1>3. ASSUME NEW r \in Runners, do_softirq(r)
      PROVE  TypeOK'
  BY SMTT(30), <1>3, BoundsAssumption DEF TypeOK, do_softirq, Goto, shared, Home,
    Labels, Threads
<1>4. ASSUME NEW r \in Runners, do_softirq_load(r)
      PROVE  TypeOK'
  BY Zenon, <1>4 DEF TypeOK, do_softirq_load, Goto, shared, Labels, Threads
<1>5. ASSUME NEW r \in Runners, do_softirq_clear(r)
      PROVE  TypeOK'
  BY Zenon, <1>5 DEF TypeOK, do_softirq_clear, Goto, Labels, Threads
<1>6. ASSUME NEW r \in Runners, do_softirq_dispatch(r)
      PROVE  TypeOK'
  BY SMTT(30), <1>6 DEF TypeOK, do_softirq_dispatch, Goto, shared, Labels, Threads
<1>7. ASSUME NEW r \in Runners, do_softirq_again(r)
      PROVE  TypeOK'
  <2>1. retries' \in [Runners -> 0..MaxRetries]
    BY SMTT(30), <1>7, BoundsAssumption DEF TypeOK, do_softirq_again
  <2> QED
    BY Zenon, <1>7, <2>1 DEF TypeOK, do_softirq_again, Goto, shared, Home, Labels, Threads
<1> QED
  BY Zenon, <1>1, <1>2, <1>3, <1>4, <1>5, <1>6, <1>7 DEF LoopStep

\* Type correctness is preserved,
\* when a thread is at a list of tasklets.
LEMMA TypeActionStep ==
  ASSUME TypeOK, Control, Quiet, ActionStep
  PROVE  TypeOK'
<1>1. ASSUME NEW r \in Runners, tasklet_action(r)
      PROVE  TypeOK'
  BY <1>1 DEF TypeOK, tasklet_action, Goto, Labels, Threads
<1>2. ASSUME NEW r \in Runners, tasklet_next(r)
      PROVE  TypeOK'
  <2>1. Head(work[r]) \in Tasklets /\ Tail(work[r]) \in Seq(Tasklets)
    BY <1>2 DEF TypeOK, tasklet_next
  <2> QED
    BY Zenon, <1>2, <2>1 DEF TypeOK, tasklet_next, Goto, shared, Labels, Threads
<1>3. ASSUME NEW r \in Runners, tasklet_action_done(r)
      PROVE  TypeOK'
  BY Zenon, <1>3 DEF TypeOK, tasklet_action_done, Goto, shared, Labels, Threads,
    Vecs, TASKLET_SOFTIRQ
<1>4. ASSUME NEW r \in Runners, tasklet_trylock(r)
      PROVE  TypeOK'
  BY <1>4 DEF TypeOK, Control, tasklet_trylock, Goto, Labels, Threads
<1>5. ASSUME NEW r \in Runners, tasklet_count(r)
      PROVE  TypeOK'
  BY Zenon, <1>5 DEF TypeOK, tasklet_count, Goto, shared, Labels, Threads
<1>6. ASSUME NEW r \in Runners, tasklet_start(r)
      PROVE  TypeOK'
  BY Zenon, <1>6 DEF TypeOK, tasklet_start, Goto, Labels, Threads
<1>7. ASSUME NEW r \in Runners, tasklet_return(r)
      PROVE  TypeOK'
  BY Zenon, <1>7 DEF TypeOK, tasklet_return, Goto, Labels, Threads
<1>8. ASSUME NEW r \in Runners, tasklet_unlock(r)
      PROVE  TypeOK'
  BY Zenon, <1>8 DEF TypeOK, tasklet_unlock, Goto, Labels, Threads
<1>9. ASSUME NEW r \in Runners, tasklet_requeue(r)
      PROVE  TypeOK'
  <2>1. cur[r] \in Tasklets /\ act[r] \in Vecs
    BY Zenon, <1>9 DEF tasklet_requeue, Goto, TypeOK, Control
  <2>2. <<cur[r]>> \o list[act[r]] \in Seq(Tasklets)
    BY <2>1 DEF TypeOK
  <2> QED
    BY Zenon, <1>9, <2>1, <2>2 DEF TypeOK, tasklet_requeue, Goto, Labels, Threads
<1> QED
  BY Zenon, <1>1, <1>2, <1>3, <1>4, <1>5, <1>6, <1>7, <1>8, <1>9 DEF ActionStep

\* Threads stay at their control points, with live locals; no BUG(),
\* when a thread schedules a tasklet or raises a softirq.
LEMMA ControlRaiseStep ==
  ASSUME TypeOK, Control, ScheduledOnce, RaiseStep
  PROVE  Control'
<1>0. /\ pc \in [Threads -> Labels] /\ arg \in [Threads -> Tasklets \cup {NULL}]
      /\ nr \in [Threads -> Vecs] /\ lock \in [Vecs -> Runners \cup {NULL}]
      /\ cur \in [Runners -> Tasklets \cup {NULL}] /\ work \in [Runners -> Seq(Tasklets)]
      /\ act \in [Runners -> Vecs]
  BY Zenon DEF TypeOK
<1> USE <1>0
<1>1. ASSUME NEW th \in Threads, raise_load(th)
      PROVE  Control'
  BY Zenon, <1>1 DEF raise_load, Goto, shared, Control,
    Holds, InFunc, Raising, Threads, Runners
<1>2. ASSUME NEW th \in Threads, raise_store(th)
      PROVE  Control'
  BY ZenonT(60), <1>2 DEF raise_store, Goto, Control, Holds,
    InFunc, Raising, Threads, Runners
<1>3. ASSUME NEW th \in Threads, raise_up(th)
      PROVE  Control'
  BY <1>3, ThreadsAssumption DEF raise_up, Goto, sem_up, Control,
    Holds, InFunc, Raising, Threads, Runners
<1>4. ASSUME NEW d \in Drivers, irq_handler_exit(d)
      PROVE  Control'
  BY Zenon, <1>4 DEF irq_handler_exit, local, sem_up,
    Control, Holds, InFunc, Raising, Threads, Runners
<1>5. ASSUME NEW th \in Threads, NEW t \in Tasklets, NEW v \in UsedVecs, tasklet_schedule(th, t, v)
      PROVE  Control'
  BY <1>5, ThreadsAssumption DEF tasklet_schedule, Control, Holds,
    InFunc, Raising, Threads, Runners
<1>6. ASSUME NEW th \in Threads, tasklet_enqueue(th)
      PROVE  Control'
  BY Zenon, <1>6 DEF tasklet_enqueue, Goto, Control,
    Holds, InFunc, Raising, Threads, Runners
<1> QED
  BY Zenon, <1>1, <1>2, <1>3, <1>4, <1>5, <1>6 DEF RaiseStep

\* Threads stay at their control points, with live locals; no BUG(),
\* when a thread disables, enables or kills a tasklet.
LEMMA ControlCallStep ==
  ASSUME TypeOK, Control, ScheduledOnce, CallStep
  PROVE  Control'
<1>0. /\ pc \in [Threads -> Labels] /\ arg \in [Threads -> Tasklets \cup {NULL}]
      /\ nr \in [Threads -> Vecs] /\ lock \in [Vecs -> Runners \cup {NULL}]
      /\ cur \in [Runners -> Tasklets \cup {NULL}] /\ work \in [Runners -> Seq(Tasklets)]
      /\ act \in [Runners -> Vecs]
  BY Zenon DEF TypeOK
<1> USE <1>0
<1>1. ASSUME NEW d \in Disablers, NEW t \in Tasklets, tasklet_disable_nosync(d, t)
      PROVE  Control'
  BY Zenon, <1>1 DEF tasklet_disable_nosync, local,
    Control, Holds, InFunc, Raising, Threads, Runners
<1>2. ASSUME NEW d \in Disablers, NEW t \in Tasklets, tasklet_disable(d, t)
      PROVE  Control'
  BY <1>2, ThreadsAssumption DEF tasklet_disable, Goto, Control,
    Holds, InFunc, Raising, Threads, Runners
<1>3. ASSUME NEW d \in Drivers, tasklet_disable_wait(d)
      PROVE  Control'
  BY ZenonT(60), <1>3 DEF tasklet_disable_wait, Goto, Control,
    Holds, InFunc, Raising, Threads, Runners
<1>4. ASSUME NEW d \in Disablers, NEW t \in Tasklets, tasklet_enable(d, t)
      PROVE  Control'
  BY Zenon, <1>4 DEF tasklet_enable, local, Control,
    Holds, InFunc, Raising, Threads, Runners
<1>5. ASSUME NEW d \in Killers, NEW t \in Tasklets, tasklet_kill(d, t)
      PROVE  Control'
  BY <1>5, ThreadsAssumption DEF tasklet_kill, Goto, Control, Holds,
    InFunc, Raising, Threads, Runners
<1>6. ASSUME NEW d \in Drivers, tasklet_kill_wait(d)
      PROVE  Control'
  BY Zenon, <1>6 DEF tasklet_kill_wait, Goto, shared,
    Control, Holds, InFunc, Raising, Threads, Runners
<1>7. ASSUME NEW d \in Drivers, tasklet_kill_clear(d)
      PROVE  Control'
  BY Zenon, <1>7 DEF tasklet_kill_clear, Goto, Control,
    Holds, InFunc, Raising, Threads, Runners
<1> QED
  BY Zenon, <1>1, <1>2, <1>3, <1>4, <1>5, <1>6, <1>7 DEF CallStep

\* Threads stay at their control points, with live locals; no BUG(),
\* when a thread is at the loop of __do_softirq().
LEMMA ControlLoopStep ==
  ASSUME TypeOK, Control, ScheduledOnce, LoopStep
  PROVE  Control'
<1>0. /\ pc \in [Threads -> Labels] /\ arg \in [Threads -> Tasklets \cup {NULL}]
      /\ nr \in [Threads -> Vecs] /\ lock \in [Vecs -> Runners \cup {NULL}]
      /\ cur \in [Runners -> Tasklets \cup {NULL}] /\ work \in [Runners -> Seq(Tasklets)]
      /\ act \in [Runners -> Vecs]
  BY Zenon DEF TypeOK
<1> USE <1>0
<1>1. ASSUME NEW r \in Runners, softirq_thread(r)
      PROVE  Control'
  BY Zenon, <1>1 DEF softirq_thread, Goto, sem_down, TypeOK,
    Control, Holds, InFunc, Raising, Threads, Runners
<1>2. ASSUME NEW r \in Runners, netif_rx_ni(r)
      PROVE  Control'
  BY <1>2, ThreadsAssumption DEF netif_rx_ni, Goto, shared, Control,
    Holds, InFunc, Raising, Threads, Runners
<1>3. ASSUME NEW r \in Runners, do_softirq(r)
      PROVE  Control'
  BY Zenon, <1>3 DEF do_softirq, Goto, shared, Home, TypeOK,
    Control, Holds, InFunc, Raising, Threads, Runners
<1>4. ASSUME NEW r \in Runners, do_softirq_load(r)
      PROVE  Control'
  BY Zenon, <1>4 DEF do_softirq_load, Goto, shared,
    Control, Holds, InFunc, Raising, Threads, Runners
<1>5. ASSUME NEW r \in Runners, do_softirq_clear(r)
      PROVE  Control'
  BY Zenon, <1>5 DEF do_softirq_clear, Goto, Control,
    Holds, InFunc, Raising, Threads, Runners
<1>6. ASSUME NEW r \in Runners, do_softirq_dispatch(r)
      PROVE  Control'
  BY <1>6 DEF do_softirq_dispatch, Goto, shared,
    Control, Holds, InFunc, Raising, Threads, Runners
<1>7. ASSUME NEW r \in Runners, do_softirq_again(r)
      PROVE  Control'
  BY Zenon, <1>7 DEF do_softirq_again, Goto, shared, Home,
    TypeOK, Control, Holds, InFunc, Raising, Threads, Runners
<1> QED
  BY Zenon, <1>1, <1>2, <1>3, <1>4, <1>5, <1>6, <1>7 DEF LoopStep

\* Threads stay at their control points, with live locals; no BUG(),
\* when a thread is at a list of tasklets.
LEMMA ControlActionStep ==
  ASSUME TypeOK, Control, ScheduledOnce, ActionStep
  PROVE  Control'
<1>0. /\ pc \in [Threads -> Labels] /\ arg \in [Threads -> Tasklets \cup {NULL}]
      /\ nr \in [Threads -> Vecs] /\ lock \in [Vecs -> Runners \cup {NULL}]
      /\ cur \in [Runners -> Tasklets \cup {NULL}] /\ work \in [Runners -> Seq(Tasklets)]
      /\ act \in [Runners -> Vecs]
  BY Zenon DEF TypeOK
<1> USE <1>0
<1>1. ASSUME NEW r \in Runners, tasklet_action(r)
      PROVE  Control'
  BY Zenon, <1>1 DEF tasklet_action, Goto, Control,
    Holds, InFunc, Raising, Threads, Runners
<1>2. ASSUME NEW r \in Runners, tasklet_next(r)
      PROVE  Control'
  BY <1>2 DEF tasklet_next, Goto, shared, Control,
    Holds, InFunc, Raising, Threads, Runners
<1>3. ASSUME NEW r \in Runners, tasklet_action_done(r)
      PROVE  Control'
  BY Zenon, <1>3 DEF tasklet_action_done, Goto, shared,
    Control, Holds, InFunc, Raising, Threads, Runners
<1>4. ASSUME NEW r \in Runners, tasklet_trylock(r)
      PROVE  Control'
  BY Zenon, <1>4 DEF tasklet_trylock, Goto, Control,
    Holds, InFunc, Raising, Threads, Runners
<1>5. ASSUME NEW r \in Runners, tasklet_count(r)
      PROVE  Control'
  BY Zenon, <1>5 DEF tasklet_count, Goto, shared,
    Control, Holds, InFunc, Raising, Threads, Runners
<1>6. ASSUME NEW r \in Runners, tasklet_start(r)
      PROVE  Control'
  <2>1. r \in Threads
    BY Zenon DEF Threads
  <2>2. Hand(r) = {cur[r]}
    BY Zenon, <1>6 DEF tasklet_start, Goto, Hand
  <2>3. cur[r] \in sched
    BY Zenon, <1>6, <2>1, <2>2 DEF tasklet_start, Goto, Control, Holds, ScheduledOnce, SchedMarked
  <2> QED
    BY Zenon, <1>6, <2>3 DEF tasklet_start, Goto, Control,
      Holds, InFunc, Raising, Threads, Runners
<1>7. ASSUME NEW r \in Runners, tasklet_return(r)
      PROVE  Control'
  BY Zenon, <1>7 DEF tasklet_return, Goto, Control,
    Holds, InFunc, Raising, Threads, Runners
<1>8. ASSUME NEW r \in Runners, tasklet_unlock(r)
      PROVE  Control'
  BY ZenonT(60), <1>8 DEF tasklet_unlock, Goto, Control,
    Holds, InFunc, Raising, Threads, Runners
<1>9. ASSUME NEW r \in Runners, tasklet_requeue(r)
      PROVE  Control'
  BY <1>9, ThreadsAssumption DEF tasklet_requeue, Goto, Control,
    Holds, InFunc, Raising, Threads, Runners
<1> QED
  BY Zenon, <1>1, <1>2, <1>3, <1>4, <1>5, <1>6, <1>7, <1>8, <1>9 DEF ActionStep

-----------------------------------------------------------------------------
(* RUN, count and the waits of tasklet_disable() and tasklet_kill().       *)

\* The step takes no RUN, starts no function, ends no wait and disables nothing.
Elsewhere ==
  /\ UNCHANGED <<run, count, quiet>>
  /\ \A r \in Runners :
       /\ Holds(r)' => Holds(r) /\ cur'[r] = cur[r]
       /\ pc'[r] = "start" \/ InFunc(r)' => pc[r] = "start" \/ InFunc(r)
  /\ \A d \in Drivers :
       pc'[d] \in {"disable_wait", "kill_clear"} => pc'[d] = pc[d] /\ arg'[d] = arg[d]

\* Such a step keeps what is known of RUN, count and the waits.
LEMMA ElsewhereKeeps ==
  ASSUME RunLock, Quiet, Killing, Elsewhere
  PROVE  RunLock' /\ Quiet' /\ Killing'
<1>1. RunLock'
  BY Zenon DEF Elsewhere, RunLock
<1>2. Quiet'
  BY Zenon DEF Elsewhere, Quiet, Holds
<1>3. Killing'
  BY Zenon DEF Elsewhere, Killing
<1> QED
  BY Zenon, <1>1, <1>2, <1>3

\* Raising, scheduling and the loops over softirqs and tasklets are such steps.
LEMMA ElsewhereSteps ==
  ASSUME TypeOK,
         \/ RaiseStep \/ LoopStep \/ UNCHANGED vars
         \/ \E d \in Killers, t \in Tasklets : tasklet_kill(d, t)
         \/ \E d \in Drivers : tasklet_kill_clear(d)
         \/ \E r \in Runners : \/ tasklet_action(r) \/ tasklet_next(r) \/ tasklet_action_done(r)
                               \/ tasklet_start(r) \/ tasklet_requeue(r)
  PROVE  Elsewhere
<1>0. /\ pc \in [Threads -> Labels] /\ arg \in [Threads -> Tasklets \cup {NULL}]
      /\ nr \in [Threads -> Vecs] /\ lock \in [Vecs -> Runners \cup {NULL}]
      /\ cur \in [Runners -> Tasklets \cup {NULL}] /\ act \in [Runners -> Vecs]
  BY Zenon DEF TypeOK
<1> USE <1>0 DEF Elsewhere, Holds, InFunc, Threads, Goto
<1>1. CASE UNCHANGED vars
  BY Zenon, <1>1 DEF vars
<1>2. ASSUME NEW th \in Threads, raise_load(th) \/ raise_store(th) PROVE Elsewhere
  BY Zenon, <1>2 DEF raise_load, raise_store, shared
<1>3. ASSUME NEW th \in Threads, raise_up(th) PROVE Elsewhere
  BY ZenonT(60), <1>3 DEF raise_up
<1>4. ASSUME NEW d \in Drivers, irq_handler_exit(d) PROVE Elsewhere
  BY Zenon, <1>4 DEF irq_handler_exit, local
<1>5. ASSUME NEW th \in Threads, NEW t \in Tasklets, NEW v \in UsedVecs, tasklet_schedule(th, t, v)
      PROVE  Elsewhere
  BY <1>5, ThreadsAssumption DEF tasklet_schedule
<1>6. ASSUME NEW th \in Threads, tasklet_enqueue(th) PROVE Elsewhere
  BY Zenon, <1>6 DEF tasklet_enqueue
<1>7. ASSUME NEW d \in Killers, NEW t \in Tasklets, tasklet_kill(d, t) PROVE Elsewhere
  BY Zenon, <1>7 DEF tasklet_kill
<1>8. ASSUME NEW d \in Drivers, tasklet_kill_clear(d) PROVE Elsewhere
  BY Zenon, <1>8 DEF tasklet_kill_clear
<1>9. ASSUME NEW r \in Runners, softirq_thread(r) PROVE Elsewhere
  BY Zenon, <1>9 DEF softirq_thread
<1>10. ASSUME NEW r \in Runners, netif_rx_ni(r) PROVE Elsewhere
  BY Zenon, <1>10 DEF netif_rx_ni, shared
<1>11. ASSUME NEW r \in Runners, do_softirq(r) PROVE Elsewhere
  BY Zenon, <1>11 DEF do_softirq, Home, shared
<1>12. ASSUME NEW r \in Runners, do_softirq_again(r) PROVE Elsewhere
  BY Zenon, <1>12 DEF do_softirq_again, Home, shared
<1>13. ASSUME NEW r \in Runners, do_softirq_load(r) PROVE Elsewhere
  BY Zenon, <1>13 DEF do_softirq_load, shared
<1>14. ASSUME NEW r \in Runners, do_softirq_clear(r) PROVE Elsewhere
  BY Zenon, <1>14 DEF do_softirq_clear
<1>15. ASSUME NEW r \in Runners, do_softirq_dispatch(r) PROVE Elsewhere
  BY Zenon, <1>15 DEF do_softirq_dispatch, shared
<1>16. ASSUME NEW r \in Runners, tasklet_action(r) PROVE Elsewhere
  BY Zenon, <1>16 DEF tasklet_action
<1>17. ASSUME NEW r \in Runners, tasklet_action_done(r) PROVE Elsewhere
  BY Zenon, <1>17 DEF tasklet_action_done, shared
<1>18. ASSUME NEW r \in Runners, tasklet_next(r) PROVE Elsewhere
  BY Zenon, <1>18 DEF tasklet_next, shared
<1>19. ASSUME NEW r \in Runners, tasklet_start(r) PROVE Elsewhere
  BY Zenon, <1>19 DEF tasklet_start
<1>20. ASSUME NEW r \in Runners, tasklet_requeue(r) PROVE Elsewhere
  <2>1. r \notin Drivers /\ NULL \notin Runners
    BY ThreadsAssumption, Zenon
  <2>2. /\ UNCHANGED <<run, count, quiet, arg>>
        /\ pc' = [pc EXCEPT ![r] = "raise_load"]
        /\ lock[act[r]] = NULL
        /\ lock' = [lock EXCEPT ![act[r]] = r]
        /\ nr' = [nr EXCEPT ![r] = act[r]]
        /\ cur' = [cur EXCEPT ![r] = NULL]
    BY Zenon, <1>20 DEF tasklet_requeue
  <2>3. /\ nr'[r] = act[r] /\ act[r] \in Vecs
        /\ \A s \in Runners \ {r} : nr'[s] = nr[s] /\ nr[s] \in Vecs /\ cur'[s] = cur[s]
    BY Zenon, <2>2
  <2>4. \A v \in Vecs : lock'[v] = IF v = act[r] THEN r ELSE lock[v]
    BY Zenon, <2>2
  <2>5. /\ lock'[nr'[r]] = r
        /\ \A s \in Runners \ {r} : lock'[nr'[s]] # s => lock[nr[s]] # s
    BY ONLY <2>1, <2>2, <2>3, <2>4
  <2> QED
    BY Zenon, <2>1, <2>2, <2>3, <2>5
<1> HIDE <1>0 DEF Elsewhere, Holds, InFunc, Threads, Goto
<1> QED
  BY Zenon, <1>1, <1>2, <1>3, <1>4, <1>5, <1>6, <1>7, <1>8, <1>9, <1>10, <1>11, <1>12, <1>13, <1>14, <1>15,
     <1>16, <1>17, <1>18, <1>19, <1>20
  DEF RaiseStep, LoopStep

\* RUN stays a lock, a disabled tasklet is not started, and RUN of a tasklet
\* that is being killed stays clear.
LEMMA LockStep ==
  ASSUME TypeOK, Control, ScheduledOnce, RunLock, Quiet, Killing, [Next]_vars
  PROVE  RunLock' /\ Quiet' /\ Killing'
<1> DEFINE Kept == RunLock' /\ Quiet' /\ Killing'
<1>0. /\ pc \in [Threads -> Labels] /\ arg \in [Threads -> Tasklets \cup {NULL}]
      /\ cur \in [Runners -> Tasklets \cup {NULL}]
      /\ count \in [Tasklets -> SUBSET (Disablers \cup {NULL})]
      /\ quiet \in [Tasklets -> SUBSET Disablers]
      /\ \A r \in Runners : Holds(r) \/ pc[r] = "trylock" => cur[r] \in Tasklets
      /\ \A d \in Drivers : pc[d] = "disable_wait" => arg[d] \in Tasklets
  BY Zenon DEF TypeOK, Control, Threads
<1> USE <1>0 DEF Holds, InFunc, Threads, Goto
<1>1. ASSUME NEW d \in Disablers, NEW t \in Tasklets,
             tasklet_disable_nosync(d, t) \/ tasklet_disable(d, t)
      PROVE  Kept
  <2>1. RunLock' /\ Killing'
    BY <1>1 DEF tasklet_disable_nosync, tasklet_disable, local, RunLock, Killing
  <2>2. Quiet'
    BY <1>1 DEF tasklet_disable_nosync, tasklet_disable, local, Quiet
  <2> QED
    BY ONLY Zenon, <2>1, <2>2
<1>2. ASSUME NEW d \in Drivers, tasklet_disable_wait(d) PROVE Kept
  <2>1. RunLock' /\ Killing'
    BY <1>2 DEF tasklet_disable_wait, RunLock, Killing
  <2>2. Quiet'
    BY <1>2 DEF tasklet_disable_wait, RunLock, Quiet
  <2> QED
    BY ONLY Zenon, <2>1, <2>2
<1>3. ASSUME NEW d \in Disablers, NEW t \in Tasklets, tasklet_enable(d, t) PROVE Kept
  <2>1. RunLock' /\ Killing'
    BY <1>3 DEF tasklet_enable, local, RunLock, Killing
  <2>2. Quiet'
    BY <1>3, ThreadsAssumption DEF tasklet_enable, local, Quiet
  <2> QED
    BY ONLY Zenon, <2>1, <2>2
<1>4. ASSUME NEW d \in Drivers, tasklet_kill_wait(d) PROVE Kept
  <2>1. RunLock' /\ Killing'
    BY <1>4 DEF tasklet_kill_wait, shared, RunLock, Killing
  <2>2. Quiet'
    BY Zenon, <1>4 DEF tasklet_kill_wait, shared, Quiet
  <2> QED
    BY ONLY Zenon, <2>1, <2>2
<1>5. ASSUME NEW r \in Runners, tasklet_trylock(r) PROVE Kept
  <2>1. ASSUME NEW d \in Drivers, pc[d] = "kill_clear" PROVE cur[r] # arg[d]
    <3>1. r # d /\ r \in Threads /\ d \in Threads
      BY ThreadsAssumption
    <3>2. Hand(r) = {cur[r]} /\ Hand(d) = {arg[d]}
      BY Zenon, <1>5, <2>1 DEF tasklet_trylock, Hand
    <3>3. Hand(r) \cap Hand(d) = {}
      BY <3>1, Zenon DEF ScheduledOnce, OnePlace
    <3> QED
      BY <3>2, <3>3, Zenon
  <2>2. Killing'
    BY Zenon, <1>5, <2>1 DEF tasklet_trylock, Killing
  <2>3. RunLock'
    BY <1>5 DEF tasklet_trylock, RunLock
  <2>4. Quiet'
    BY Zenon, <1>5 DEF tasklet_trylock, Quiet
  <2> QED
    BY ONLY Zenon, <2>2, <2>3, <2>4
<1>6. ASSUME NEW r \in Runners, tasklet_count(r) PROVE Kept
  <2>1. RunLock' /\ Killing'
    BY <1>6 DEF tasklet_count, shared, RunLock, Killing
  <2>2. Quiet'
    BY ZenonT(60), <1>6 DEF tasklet_count, shared, Quiet
  <2> QED
    BY ONLY Zenon, <2>1, <2>2
<1>7. ASSUME NEW r \in Runners, tasklet_return(r) \/ tasklet_unlock(r) PROVE Kept
  <2>1. RunLock' /\ Killing'
    BY SMTT(30), <1>7 DEF tasklet_return, tasklet_unlock, RunLock, Killing
  <2>2. Quiet'
    BY <1>7 DEF tasklet_return, tasklet_unlock, Quiet
  <2> QED
    BY ONLY Zenon, <2>1, <2>2
<1>8. Elsewhere => Kept
  BY Zenon, ElsewhereKeeps
<1> HIDE <1>0 DEF Kept, Holds, InFunc, Threads, Goto
<1>9. ASSUME CallStep PROVE Kept
  BY Zenon, <1>1, <1>2, <1>3, <1>4, <1>8, <1>9, ElsewhereSteps DEF CallStep
<1>10. ASSUME ActionStep PROVE Kept
  BY Zenon, <1>5, <1>6, <1>7, <1>8, <1>10, ElsewhereSteps DEF ActionStep
<1>11. Kept
  BY Zenon, <1>8, <1>9, <1>10, ElsewhereSteps, StepCases
<1> QED
  BY Zenon, <1>11 DEF Kept

-----------------------------------------------------------------------------
(* The softirq thread's wake-ups.                                          *)

\* The step raises nothing, and takes no wake-up.
Silent ==
  /\ pending' = pending /\ sem' = sem
  /\ \A th \in Threads : pc[th] = "raise_up" => pc'[th] = "raise_up"
  /\ pc[Softirqd] \in {"do_softirq", "load", "clear"} =>
       pc'[Softirqd] \in {"do_softirq", "load", "clear"}

\* The calls of drivers and the loop over the tasklets are silent.
LEMMA SilentSteps ==
  ASSUME TypeOK, CallStep \/ ActionStep
  PROVE  Silent
<1>0. pc \in [Threads -> Labels]
  BY Zenon DEF TypeOK
<1> USE <1>0 DEF Silent, Threads, Runners, Goto
<1>1. ASSUME NEW d \in Disablers, NEW t \in Tasklets, tasklet_disable_nosync(d, t) \/ tasklet_enable(d, t)
      PROVE  Silent
  BY Zenon, <1>1 DEF tasklet_disable_nosync, tasklet_enable, local
<1>2. ASSUME NEW d \in Disablers, NEW t \in Tasklets, tasklet_disable(d, t)
      PROVE  Silent
  BY Zenon, <1>2 DEF tasklet_disable, local
<1>3. ASSUME NEW d \in Drivers, tasklet_disable_wait(d)
      PROVE  Silent
  BY Zenon, <1>3 DEF tasklet_disable_wait
<1>4. ASSUME NEW d \in Killers, NEW t \in Tasklets, tasklet_kill(d, t)
      PROVE  Silent
  BY Zenon, <1>4 DEF tasklet_kill
<1>5. ASSUME NEW d \in Drivers, tasklet_kill_wait(d) \/ tasklet_kill_clear(d)
      PROVE  Silent
  BY Zenon, <1>5 DEF tasklet_kill_wait, tasklet_kill_clear, shared
<1>6. ASSUME NEW r \in Runners, tasklet_action(r) \/ tasklet_action_done(r)
      PROVE  Silent
  BY Zenon, <1>6 DEF tasklet_action, tasklet_action_done, shared
<1>7. ASSUME NEW r \in Runners, tasklet_next(r) \/ tasklet_count(r)
      PROVE  Silent
  BY Zenon, <1>7 DEF tasklet_next, tasklet_count, shared
<1>8. ASSUME NEW r \in Runners, tasklet_trylock(r)
      PROVE  Silent
  BY Zenon, <1>8 DEF tasklet_trylock
<1>9. ASSUME NEW r \in Runners, tasklet_start(r)
      PROVE  Silent
  BY Zenon, <1>9 DEF tasklet_start
<1>10. ASSUME NEW r \in Runners, tasklet_return(r) \/ tasklet_unlock(r)
      PROVE  Silent
  BY Zenon, <1>10 DEF tasklet_return, tasklet_unlock
<1>11. ASSUME NEW r \in Runners, tasklet_requeue(r)
      PROVE  Silent
  BY Zenon, <1>11 DEF tasklet_requeue
<1> HIDE DEF Silent
<1> QED
  BY <1>1, <1>2, <1>3, <1>4, <1>5, <1>6, <1>7, <1>8, <1>9, <1>10, <1>11, Zenon
  DEF CallStep, ActionStep

\* A raised softirq keeps its wake-up.
LEMMA WakeupStep ==
  ASSUME TypeOK, Wakeup, [Next]_vars
  PROVE  Wakeup'
<1>0. pc \in [Threads -> Labels] /\ sem \in 0..MaxSem /\ MaxSem \in Nat \ {0}
  BY Zenon, BoundsAssumption DEF TypeOK
<1>1. Silent => Wakeup'
  BY Zenon DEF Silent, Wakeup
<1> USE <1>0 DEF Wakeup, Threads, Runners, Goto
<1>2. CASE UNCHANGED vars
  BY Zenon, <1>2 DEF vars
<1>3. ASSUME NEW th \in Threads, raise_load(th) \/ raise_store(th) PROVE Wakeup'
  BY Zenon, <1>3 DEF raise_load, raise_store, shared
<1>4. ASSUME NEW th \in Threads, raise_up(th) PROVE Wakeup'
  BY <1>4 DEF raise_up, sem_up
<1>5. ASSUME NEW d \in Drivers, irq_handler_exit(d) PROVE Wakeup'
  BY <1>5 DEF irq_handler_exit, sem_up, local
<1>6. ASSUME NEW th \in Threads, NEW t \in Tasklets, NEW v \in UsedVecs, tasklet_schedule(th, t, v)
      PROVE  Wakeup'
  BY Zenon, <1>6 DEF tasklet_schedule
<1>7. ASSUME NEW th \in Threads, tasklet_enqueue(th) PROVE Wakeup'
  BY Zenon, <1>7 DEF tasklet_enqueue
<1>8. ASSUME NEW r \in Runners, softirq_thread(r) \/ netif_rx_ni(r) PROVE Wakeup'
  BY Zenon, <1>8 DEF softirq_thread, netif_rx_ni, shared
<1>9. ASSUME NEW r \in Runners, do_softirq(r) PROVE Wakeup'
  BY Zenon, <1>9 DEF do_softirq, shared
<1>10. ASSUME NEW r \in Runners, do_softirq_load(r) \/ do_softirq_clear(r) PROVE Wakeup'
  BY Zenon, <1>10 DEF do_softirq_load, do_softirq_clear, shared
<1>11. ASSUME NEW r \in Runners, do_softirq_dispatch(r) PROVE Wakeup'
  BY Zenon, <1>11 DEF do_softirq_dispatch, shared
<1>12. ASSUME NEW r \in Runners, do_softirq_again(r) PROVE Wakeup'
  BY Zenon, <1>12 DEF do_softirq_again, shared
<1> HIDE DEF Wakeup
<1> QED
  BY Zenon, <1>1, <1>2, <1>3, <1>4, <1>5, <1>6, <1>7, <1>8, <1>9, <1>10, <1>11, <1>12, SilentSteps, StepCases
  DEF RaiseStep, LoopStep

-----------------------------------------------------------------------------
(* Sequences as the lists of tasklets, and the hands of the threads.       *)

\* The empty list.
LEMMA EmptyList == Range(<<>>) = {} /\ IsInjective(<<>>)
BY DEF Range, IsInjective

\* Putting a tasklet that is not on a list in front of it.
LEMMA PushList ==
  ASSUME NEW S, NEW x \in S, NEW s \in Seq(S)
  PROVE  /\ Range(<<x>> \o s) = {x} \cup Range(s)
         /\ IsInjective(s) /\ x \notin Range(s) => IsInjective(<<x>> \o s)
<1> DEFINE q == <<x>> \o s
<1>1. /\ q \in Seq(S)
      /\ Len(q) = Len(s) + 1
      /\ q[1] = x
      /\ \A i \in 1 .. Len(s) : q[i + 1] = s[i]
      /\ \A i \in 2 .. Len(q) : q[i] = s[i - 1]
  BY SMTT(30)
<1>2. DOMAIN q = 1 .. Len(q) /\ DOMAIN s = 1 .. Len(s) /\ Len(s) \in Nat
  BY <1>1
<1> HIDE DEF q
<1>3. Range(q) = {x} \cup Range(s)
  <2>1. ASSUME NEW i \in DOMAIN q
        PROVE  q[i] \in {x} \cup Range(s)
    <3>1. CASE i = 1
      BY Zenon, <3>1, <1>1
    <3>2. CASE i # 1
      <4>1. i \in 2 .. Len(q) /\ i - 1 \in DOMAIN s
        BY <3>2, <1>1, <1>2
      <4> QED
        BY ZenonT(60), <4>1, <1>1 DEF Range
    <3> QED
      BY Zenon, <3>1, <3>2
  <2>2. x \in Range(q)
    BY <1>1, <1>2 DEF Range
  <2>3. ASSUME NEW i \in DOMAIN s
        PROVE  s[i] \in Range(q)
    <3>1. i + 1 \in DOMAIN q /\ q[i + 1] = s[i]
      BY <1>1, <1>2
    <3> QED
      BY Zenon, <3>1 DEF Range
  <2> QED
    BY Zenon, <2>1, <2>2, <2>3 DEF Range
<1>4. ASSUME IsInjective(s), x \notin Range(s)
      PROVE  IsInjective(q)
  <2> SUFFICES ASSUME NEW i \in DOMAIN q, NEW j \in DOMAIN q, q[i] = q[j], i < j
               PROVE  FALSE
    BY <1>2 DEF IsInjective
  <2>1. j - 1 \in DOMAIN s /\ q[j] = s[j - 1]
    BY <1>1, <1>2
  <2>2. CASE i = 1
    BY Zenon, <2>1, <2>2, <1>1, <1>4 DEF Range
  <2>3. CASE i # 1
    <3>1. i - 1 \in DOMAIN s /\ q[i] = s[i - 1]
      BY <2>3, <1>1, <1>2
    <3>2. i - 1 = j - 1
      BY Zenon, <3>1, <2>1, <1>4 DEF IsInjective
    <3> QED
      BY <3>2, <1>2
  <2> QED
    BY Zenon, <2>2, <2>3
<1> QED
  BY Zenon, <1>3, <1>4 DEF q

\* Taking the first tasklet from a list.
LEMMA PopList ==
  ASSUME NEW S, NEW s \in Seq(S), s # <<>>
  PROVE  /\ Range(s) = {Head(s)} \cup Range(Tail(s))
         /\ IsInjective(s) => IsInjective(Tail(s)) /\ Head(s) \notin Range(Tail(s))
<1>1. /\ Head(s) = s[1]
      /\ Tail(s) \in Seq(S)
      /\ Len(Tail(s)) = Len(s) - 1
      /\ \A i \in 1 .. Len(Tail(s)) : Tail(s)[i] = s[i + 1]
      /\ Len(s) \in Nat \ {0}
  OBVIOUS
<1>2. DOMAIN s = 1 .. Len(s) /\ DOMAIN Tail(s) = 1 .. (Len(s) - 1)
  BY <1>1
<1>3. \A i \in DOMAIN s : i = 1 \/ (i - 1 \in DOMAIN Tail(s) /\ s[i] = Tail(s)[i - 1])
  BY <1>1, <1>2
<1>4. \A i \in DOMAIN Tail(s) : i + 1 \in DOMAIN s /\ Tail(s)[i] = s[i + 1]
  BY <1>1, <1>2
<1>5. Range(s) = {Head(s)} \cup Range(Tail(s))
  <2>1. 1 \in DOMAIN s
    BY <1>1, <1>2
  <2>2. ASSUME NEW i \in DOMAIN s
        PROVE  s[i] \in {Head(s)} \cup Range(Tail(s))
    BY Zenon, <1>1, <1>3 DEF Range
  <2>3. ASSUME NEW i \in DOMAIN Tail(s)
        PROVE  Tail(s)[i] \in Range(s)
    BY Zenon, <1>4 DEF Range
  <2>4. Head(s) \in Range(s)
    BY Zenon, <1>1, <2>1 DEF Range
  <2> QED
    BY Zenon, <2>2, <2>3, <2>4 DEF Range
<1>6. ASSUME IsInjective(s)
      PROVE  IsInjective(Tail(s)) /\ Head(s) \notin Range(Tail(s))
  <2>1. IsInjective(Tail(s))
    <3> SUFFICES ASSUME NEW i \in DOMAIN Tail(s), NEW j \in DOMAIN Tail(s),
                        Tail(s)[i] = Tail(s)[j]
                 PROVE  i = j
      BY Zenon DEF IsInjective
    <3>1. i + 1 = j + 1
      BY Zenon, <1>4, <1>6 DEF IsInjective
    <3> QED
      BY <3>1, <1>2
  <2>2. Head(s) \notin Range(Tail(s))
    <3> SUFFICES ASSUME NEW i \in DOMAIN Tail(s), Tail(s)[i] = s[1]
                 PROVE  FALSE
      BY Zenon, <1>1 DEF Range
    <3>1. i + 1 = 1
      BY <1>1, <1>2, <1>4, <1>6 DEF IsInjective
    <3> QED
      BY <3>1, <1>2
  <2> QED
    BY Zenon, <2>1, <2>2
<1> QED
  BY Zenon, <1>5, <1>6

-----------------------------------------------------------------------------
(* Tasklets move between lists and hands.                                  *)

\* A step that changes no list, no hand and no SCHED bit.
LEMMA SameHands ==
  ASSUME ScheduledOnce, list' = list, work' = work, sched' = sched,
         \A u \in Threads : Hand(u)' = Hand(u)
  PROVE  ScheduledOnce'
<1>1. SchedMarked'
  BY Zenon DEF ScheduledOnce, SchedMarked
<1>2. OnePlace'
  BY Zenon DEF ScheduledOnce, OnePlace
<1> QED
  BY Zenon, <1>1, <1>2 DEF ScheduledOnce

\* As long as the lists stay, it is enough to look at the hands.
LEMMA NewHands ==
  ASSUME OnePlace, list' = list, work' = work,
         \A u, w \in Threads : u # w => Hand(u)' \cap Hand(w)' = {},
         \A v \in Vecs, u \in Threads : Range(list[v]) \cap Hand(u)' = {},
         \A r \in Runners, u \in Threads : Range(work[r]) \cap Hand(u)' = {}
  PROVE  OnePlace'
BY Zenon DEF OnePlace

\* A thread that sets SCHED has the tasklet in its hands.
LEMMA TakeInHand ==
  ASSUME ScheduledOnce, NEW th \in Threads, NEW t \in Tasklets,
         Hand(th) = {}, Hand(th)' = {t},
         \A u \in Threads \ {th} : Hand(u)' = Hand(u),
         t \notin sched, sched' = sched \cup {t}, list' = list, work' = work
  PROVE  ScheduledOnce'
<1>0. SchedMarked /\ OnePlace
  BY Zenon DEF ScheduledOnce
<1>1. /\ \A v \in Vecs : t \notin Range(list[v])
      /\ \A r \in Runners : t \notin Range(work[r])
      /\ \A u \in Threads : t \notin Hand(u)
  BY <1>0, Zenon DEF SchedMarked
<1>2. SchedMarked'
  <2> SUFFICES ASSUME NEW x \in Tasklets
               PROVE  x \in sched' <=> \/ \E v \in Vecs : x \in Range(list[v])
                                       \/ \E r \in Runners : x \in Range(work[r])
                                       \/ \E u \in Threads : x \in Hand(u)'
    BY Zenon DEF SchedMarked
  <2>1. x \in sched' <=> x \in sched \/ x = t
    BY Zenon
  <2>2. (\E u \in Threads : x \in Hand(u)') <=> (\E u \in Threads : x \in Hand(u)) \/ x = t
    BY Zenon
  <2> QED
    BY <1>0, <2>1, <2>2, Zenon DEF SchedMarked
<1>3. \A u, w \in Threads : u # w => Hand(u)' \cap Hand(w)' = {}
  BY SMTT(30), <1>0, <1>1 DEF OnePlace
<1>4. \A v \in Vecs, u \in Threads : Range(list[v]) \cap Hand(u)' = {}
  BY SMTT(30), <1>0, <1>1 DEF OnePlace
<1>5. \A r \in Runners, u \in Threads : Range(work[r]) \cap Hand(u)' = {}
  BY <1>0, <1>1 DEF OnePlace
<1> QED
  BY Zenon, <1>0, <1>2, <1>3, <1>4, <1>5, NewHands DEF ScheduledOnce

\* A thread that clears SCHED lets the tasklet go.
LEMMA DropFromHand ==
  ASSUME ScheduledOnce, NEW th \in Threads, NEW t \in Tasklets,
         Hand(th) = {t}, Hand(th)' = {},
         \A u \in Threads \ {th} : Hand(u)' = Hand(u),
         sched' = sched \ {t}, list' = list, work' = work
  PROVE  ScheduledOnce'
<1>0. SchedMarked /\ OnePlace
  BY Zenon DEF ScheduledOnce
<1>1. /\ \A v \in Vecs : t \notin Range(list[v])
      /\ \A r \in Runners : t \notin Range(work[r])
      /\ \A u \in Threads \ {th} : t \notin Hand(u)
  BY Zenon, <1>0 DEF OnePlace
<1>2. \A u \in Threads : Hand(u)' \subseteq Hand(u)
  BY Zenon
<1>3. SchedMarked'
  <2> SUFFICES ASSUME NEW x \in Tasklets
               PROVE  x \in sched' <=> \/ \E v \in Vecs : x \in Range(list[v])
                                       \/ \E r \in Runners : x \in Range(work[r])
                                       \/ \E u \in Threads : x \in Hand(u)'
    BY Zenon DEF SchedMarked
  <2>1. x \in sched' <=> x \in sched /\ x # t
    BY Zenon
  <2>2. (\E u \in Threads : x \in Hand(u)') <=> (\E u \in Threads : x \in Hand(u)) /\ x # t
    BY Zenon, <1>1
  <2> QED
    BY <1>0, <1>1, <2>1, <2>2, Zenon DEF SchedMarked
<1>4. \A u, w \in Threads : u # w => Hand(u)' \cap Hand(w)' = {}
  BY Zenon, <1>0, <1>2 DEF OnePlace
<1>5. \A v \in Vecs, u \in Threads : Range(list[v]) \cap Hand(u)' = {}
  BY Zenon, <1>0, <1>2 DEF OnePlace
<1>6. \A r \in Runners, u \in Threads : Range(work[r]) \cap Hand(u)' = {}
  BY Zenon, <1>0, <1>2 DEF OnePlace
<1> QED
  BY Zenon, <1>0, <1>3, <1>4, <1>5, <1>6, NewHands DEF ScheduledOnce

\* A thread puts the tasklet in its hands on a list.
LEMMA PutOnList ==
  ASSUME TypeOK, ScheduledOnce, NEW th \in Threads, NEW t \in Tasklets, NEW v \in Vecs,
         Hand(th) = {t}, Hand(th)' = {},
         \A u \in Threads \ {th} : Hand(u)' = Hand(u),
         list' = [list EXCEPT ![v] = <<t>> \o @], work' = work, sched' = sched
  PROVE  ScheduledOnce'
<1>1. list[v] \in Seq(Tasklets) /\ t \notin Range(list[v]) /\ IsInjective(list[v])
  BY Zenon DEF TypeOK, ScheduledOnce, OnePlace
<1>2. list'[v] = <<t>> \o list[v]
  BY Zenon DEF TypeOK
<1>3. Range(list'[v]) = {t} \cup Range(list[v]) /\ IsInjective(list'[v])
  BY <1>1, <1>2, PushList
<1>4. \A w \in Vecs \ {v} : list'[w] = list[w]
  BY Zenon DEF TypeOK
<1>5. SchedMarked'
  BY ZenonT(60), <1>3, <1>4 DEF ScheduledOnce, SchedMarked
<1>6. \A w, x \in Vecs : w # x => Range(list[w]) \cap Range(list[x]) = {}
  BY Zenon DEF ScheduledOnce, OnePlace
<1>7. \A w \in Vecs : t \notin Range(list[w])
  BY Zenon DEF ScheduledOnce, OnePlace
<1>8. OnePlace'
  <2>0. OnePlace
    BY Zenon DEF ScheduledOnce
  <2>1. \A w \in Vecs : IsInjective(list'[w])
    BY Zenon, <1>3, <1>4, <2>0 DEF OnePlace
  <2>2. \A s \in Runners : IsInjective(work'[s])
    BY <2>0, Zenon DEF OnePlace
  <2>3. \A w, x \in Vecs : w # x => Range(list'[w]) \cap Range(list'[x]) = {}
    <3> SUFFICES ASSUME NEW w \in Vecs, NEW x \in Vecs, w # x
                 PROVE  Range(list'[w]) \cap Range(list'[x]) = {}
      BY Zenon
    <3>1. CASE w = v
      BY SMTT(30), <3>1, <1>3, <1>4, <1>6, <1>7
    <3>2. CASE x = v
      BY Zenon, <3>2, <1>3, <1>4, <1>6, <1>7
    <3>3. CASE w # v /\ x # v
      BY Zenon, <3>3, <1>4, <1>6
    <3> QED
      BY <3>1, <3>2, <3>3, Zenon
  <2>4. \A q, s \in Runners : q # s => Range(work'[q]) \cap Range(work'[s]) = {}
    BY <2>0, Zenon DEF OnePlace
  <2>5. \A u, w \in Threads : u # w => Hand(u)' \cap Hand(w)' = {}
    BY SMTT(30), <2>0 DEF OnePlace
  <2>6. \A w \in Vecs, s \in Runners : Range(list'[w]) \cap Range(work'[s]) = {}
    BY SMTT(30), <1>3, <1>4, <2>0 DEF OnePlace
  <2>7. \A w \in Vecs, u \in Threads : Range(list'[w]) \cap Hand(u)' = {}
    BY SMTT(30), <1>3, <1>4, <2>0 DEF OnePlace
  <2>8. \A s \in Runners, u \in Threads : Range(work'[s]) \cap Hand(u)' = {}
    BY <2>0 DEF OnePlace
  <2> QED
    BY Zenon, <2>1, <2>2, <2>3, <2>4, <2>5, <2>6, <2>7, <2>8 DEF OnePlace
<1> QED
  BY Zenon, <1>5, <1>8 DEF ScheduledOnce

-----------------------------------------------------------------------------
(* What a step changes of the lists, the executions and the kills.         *)

USE ThreadsAssumption

\* No execution starts or ends.
SameRunning == \A s \in Runners : InFunc(s)' = InFunc(s) /\ (InFunc(s) => cur'[s] = cur[s])

\* No tasklet_kill() gets its tasklet, or ends.
SameKilling ==
  \A d \in Drivers :
    /\ pc'[d] \in {"kill_wait", "kill_clear"} <=> pc[d] \in {"kill_wait", "kill_clear"}
    /\ pc[d] \in {"kill_wait", "kill_clear"} => arg'[d] = arg[d]

\* The step is of no concern to the drivers, and no tasklet changes its place.
Unseen ==
  /\ UNCHANGED <<list, work, sched, quiet>>
  /\ \A u \in Threads : Hand(u)' = Hand(u)
  /\ SameRunning
  /\ SameKilling

\* Raising a softirq, the loop over the softirqs and the tests that
\* tasklet_action() makes before it starts a tasklet are such steps.
LEMMA UnseenSteps ==
  ASSUME TypeOK,
         \/ LoopStep \/ UNCHANGED vars
         \/ \E th \in Threads : raise_load(th) \/ raise_store(th) \/ raise_up(th)
         \/ \E d \in Drivers : irq_handler_exit(d) \/ tasklet_kill_wait(d)
         \/ \E d \in Disablers, t \in Tasklets : tasklet_disable_nosync(d, t) \/ tasklet_disable(d, t)
         \/ \E r \in Runners : \/ tasklet_action_done(r) \/ tasklet_trylock(r)
                               \/ tasklet_count(r) \/ tasklet_unlock(r)
  PROVE  Unseen
<1>0. /\ pc \in [Threads -> Labels] /\ arg \in [Threads -> Tasklets \cup {NULL}]
      /\ nr \in [Threads -> Vecs] /\ lock \in [Vecs -> Runners \cup {NULL}]
      /\ cur \in [Runners -> Tasklets \cup {NULL}]
  BY Zenon DEF TypeOK
<1> USE <1>0 DEF Unseen, SameRunning, SameKilling, Hand, InFunc, Threads, Goto
<1>1. CASE UNCHANGED vars
  BY Zenon, <1>1 DEF vars
<1>2. ASSUME NEW th \in Threads, raise_load(th) \/ raise_store(th)
      PROVE  Unseen
  BY ZenonT(60), <1>2 DEF raise_load, raise_store, shared
<1>3. ASSUME NEW th \in Threads, raise_up(th)
      PROVE  Unseen
  BY <1>3 DEF raise_up
<1>4. ASSUME NEW d \in Drivers, irq_handler_exit(d) \/ tasklet_kill_wait(d)
      PROVE  Unseen
  BY ZenonT(60), <1>4 DEF irq_handler_exit, tasklet_kill_wait, local, shared
<1>5. ASSUME NEW d \in Disablers, NEW t \in Tasklets, tasklet_disable_nosync(d, t) \/ tasklet_disable(d, t)
      PROVE  Unseen
  BY ZenonT(60), <1>5 DEF tasklet_disable_nosync, tasklet_disable, local
<1>6. ASSUME NEW r \in Runners, softirq_thread(r) \/ netif_rx_ni(r)
      PROVE  Unseen
  BY ZenonT(60), <1>6 DEF softirq_thread, netif_rx_ni, shared
<1>7. ASSUME NEW r \in Runners, do_softirq(r) \/ do_softirq_again(r)
      PROVE  Unseen
  BY ZenonT(60), <1>7 DEF do_softirq, do_softirq_again, Home, shared
<1>8. ASSUME NEW r \in Runners, do_softirq_load(r) \/ do_softirq_clear(r)
      PROVE  Unseen
  BY ZenonT(60), <1>8 DEF do_softirq_load, do_softirq_clear, shared
<1>9. ASSUME NEW r \in Runners, do_softirq_dispatch(r) \/ tasklet_action_done(r)
      PROVE  Unseen
  BY ZenonT(60), <1>9 DEF do_softirq_dispatch, tasklet_action_done, shared
<1>10. ASSUME NEW r \in Runners, tasklet_trylock(r)
       PROVE  Unseen
  BY Zenon, <1>10 DEF tasklet_trylock
<1>11. ASSUME NEW r \in Runners, tasklet_count(r) \/ tasklet_unlock(r)
       PROVE  Unseen
  BY ZenonT(60), <1>11 DEF tasklet_count, tasklet_unlock, shared
<1> HIDE <1>0 DEF Unseen, Threads
<1> QED
  BY Zenon, <1>1, <1>2, <1>3, <1>4, <1>5, <1>6, <1>7, <1>8, <1>9, <1>10, <1>11 DEF LoopStep

\* tasklet_disable_wait(), tasklet_enable() and the end of an execution move
\* no tasklet.
LEMMA SameHandsSteps ==
  ASSUME TypeOK, Control,
         \/ \E d \in Drivers : tasklet_disable_wait(d)
         \/ \E d \in Disablers, t \in Tasklets : tasklet_enable(d, t)
         \/ \E r \in Runners : tasklet_return(r)
  PROVE  /\ list' = list /\ work' = work /\ sched' = sched
         /\ \A u \in Threads : Hand(u)' = Hand(u)
<1>0. /\ pc \in [Threads -> Labels] /\ arg \in [Threads -> Tasklets \cup {NULL}]
      /\ cur \in [Runners -> Tasklets \cup {NULL}]
  BY Zenon DEF TypeOK
<1>1. ASSUME NEW d \in Disablers, NEW t \in Tasklets, tasklet_enable(d, t)
      PROVE  /\ list' = list /\ work' = work /\ sched' = sched
             /\ \A u \in Threads : Hand(u)' = Hand(u)
  BY Zenon, <1>1 DEF tasklet_enable, local, Hand
<1>2. ASSUME NEW d \in Drivers, tasklet_disable_wait(d)
      PROVE  /\ list' = list /\ work' = work /\ sched' = sched
             /\ \A u \in Threads : Hand(u)' = Hand(u)
  BY Zenon, <1>0, <1>2 DEF tasklet_disable_wait, Goto, Hand, Threads
<1>3. ASSUME NEW r \in Runners, tasklet_return(r)
      PROVE  /\ list' = list /\ work' = work /\ sched' = sched
             /\ \A u \in Threads : Hand(u)' = Hand(u)
  <2>1. \A d \in Drivers : pc[d] \notin {"trylock", "count", "start", "unlock", "requeue"}
    BY Zenon DEF Control, Raising
  <2> QED
    BY Zenon, <1>0, <1>3, <2>1 DEF tasklet_return, Goto, Hand, Threads
<1> QED
  BY Zenon, <1>1, <1>2, <1>3

-----------------------------------------------------------------------------
(* A scheduled tasklet is at one place.                                    *)

\* The list that tasklet_action() detaches keeps its tasklets, and the next
\* one goes from it to the hands of the runner.
LEMMA ListsDetach ==
  ASSUME TypeOK, Control, ScheduledOnce,
         \E r \in Runners : tasklet_action(r) \/ tasklet_next(r)
  PROVE  ScheduledOnce'
<1>1. ASSUME NEW r \in Runners, tasklet_action(r)
      PROVE  ScheduledOnce'
  <2>1. \A u \in Threads : Hand(u)' = Hand(u)
    BY Zenon, <1>1 DEF tasklet_action, Goto, TypeOK, Hand, Threads
  <2>2. /\ act[r] \in Vecs
        /\ work[r] = <<>>
        /\ list' = [list EXCEPT ![act[r]] = <<>>]
        /\ work' = [work EXCEPT ![r] = list[act[r]]]
        /\ sched' = sched
    BY Zenon, <1>1 DEF tasklet_action, Goto, TypeOK, Control
  <2>3. /\ Range(list'[act[r]]) = {} /\ IsInjective(list'[act[r]])
        /\ Range(work[r]) = {}
        /\ work'[r] = list[act[r]]
    BY Zenon, <2>2, EmptyList DEF TypeOK
  <2>4. /\ \A v \in Vecs \ {act[r]} : list'[v] = list[v]
        /\ \A s \in Runners \ {r} : work'[s] = work[s]
    BY ZenonT(60), <2>2 DEF TypeOK
  <2>5. SchedMarked'
    BY ZenonT(60), <2>1, <2>2, <2>3, <2>4 DEF ScheduledOnce, SchedMarked
  <2>6. OnePlace'
    <3>1. \A v \in Vecs : IsInjective(list'[v])
      BY Zenon, <2>1, <2>2, <2>3, <2>4 DEF ScheduledOnce, OnePlace
    <3>2. \A s \in Runners : IsInjective(work'[s])
      BY ZenonT(60), <2>1, <2>2, <2>3, <2>4 DEF ScheduledOnce, OnePlace
    <3>3. \A v, w \in Vecs : v # w => Range(list'[v]) \cap Range(list'[w]) = {}
      BY ZenonT(60), <2>1, <2>2, <2>3, <2>4 DEF ScheduledOnce, OnePlace
    <3>4. \A q, s \in Runners : q # s => Range(work'[q]) \cap Range(work'[s]) = {}
      <4>1. \A s \in Runners \ {r} : Range(work'[r]) \cap Range(work'[s]) = {}
        BY Zenon, <2>2, <2>3, <2>4 DEF ScheduledOnce, OnePlace
      <4>2. \A q, s \in Runners \ {r} : q # s => Range(work'[q]) \cap Range(work'[s]) = {}
        BY Zenon, <2>4 DEF ScheduledOnce, OnePlace
      <4> QED
        BY Zenon, <4>1, <4>2
    <3>5. \A u, w \in Threads : u # w => Hand(u)' \cap Hand(w)' = {}
      BY ZenonT(60), <2>1, <2>2, <2>3, <2>4 DEF ScheduledOnce, OnePlace
    <3>6. \A v \in Vecs, s \in Runners : Range(list'[v]) \cap Range(work'[s]) = {}
      BY ZenonT(60), <2>1, <2>2, <2>3, <2>4 DEF ScheduledOnce, OnePlace
    <3>7. \A v \in Vecs, u \in Threads : Range(list'[v]) \cap Hand(u)' = {}
      BY Zenon, <2>1, <2>2, <2>3, <2>4 DEF ScheduledOnce, OnePlace
    <3>8. \A s \in Runners, u \in Threads : Range(work'[s]) \cap Hand(u)' = {}
      <4>1. \A u \in Threads : Range(work'[r]) \cap Hand(u)' = {}
        BY Zenon, <2>1, <2>2, <2>3 DEF ScheduledOnce, OnePlace
      <4>2. \A s \in Runners \ {r}, u \in Threads : Range(work'[s]) \cap Hand(u)' = {}
        BY Zenon, <2>1, <2>4 DEF ScheduledOnce, OnePlace
      <4> QED
        BY Zenon, <4>1, <4>2
    <3> QED
      BY Zenon, <3>1, <3>2, <3>3, <3>4, <3>5, <3>6, <3>7, <3>8 DEF OnePlace
  <2> QED
    BY Zenon, <2>5, <2>6 DEF ScheduledOnce
<1>2. ASSUME NEW r \in Runners, tasklet_next(r)
      PROVE  ScheduledOnce'
  <2>1. Hand(r) = {} /\ Hand(r)' = {Head(work[r])}
    BY SMTT(30), <1>2 DEF tasklet_next, Goto, TypeOK, Hand, Threads
  <2>2. \A u \in Threads \ {r} : Hand(u)' = Hand(u)
    BY <1>2 DEF tasklet_next, Goto, TypeOK, Hand, Threads
  <2>3. r \in Threads
    BY Zenon DEF Threads
  <2>4. /\ work[r] \in Seq(Tasklets) /\ work[r] # <<>>
        /\ work' = [work EXCEPT ![r] = Tail(work[r])]
        /\ list' = list
        /\ sched' = sched
    BY ZenonT(60), <1>2 DEF tasklet_next, TypeOK, shared
  <2> DEFINE h == Head(work[r])
  <2>5. /\ Range(work'[r]) \subseteq Range(work[r]) /\ h \in Range(work[r])
        /\ Range(work[r]) = {h} \cup Range(work'[r])
        /\ h \notin Range(work'[r])
        /\ IsInjective(work'[r])
    BY <2>4, PopList DEF TypeOK, ScheduledOnce, OnePlace
  <2>6. \A s \in Runners \ {r} : work'[s] = work[s]
    BY Zenon, <2>4 DEF TypeOK
  <2> HIDE DEF h
  <2>7. Hand(r) = {} /\ Hand(r)' = {h}
    BY Zenon, <2>1 DEF h
  <2>8. \A t : t \in Range(work[r]) <=> t = h \/ t \in Range(work'[r])
    BY ZenonT(60), <2>5
  <2>9. SchedMarked'
    BY ZenonT(60), <2>2, <2>3, <2>4, <2>6, <2>7, <2>8 DEF ScheduledOnce, SchedMarked
  <2>10. OnePlace'
    <3>1. \A v \in Vecs : IsInjective(list'[v])
      BY Zenon, <2>2, <2>3, <2>4, <2>5, <2>6, <2>7, <2>8 DEF ScheduledOnce, OnePlace
    <3>2. \A s \in Runners : IsInjective(work'[s])
      BY Zenon, <2>2, <2>3, <2>4, <2>5, <2>6, <2>7, <2>8 DEF ScheduledOnce, OnePlace
    <3>3. \A v, w \in Vecs : v # w => Range(list'[v]) \cap Range(list'[w]) = {}
      BY Zenon, <2>2, <2>3, <2>4, <2>5, <2>6, <2>7, <2>8 DEF ScheduledOnce, OnePlace
    <3>4. \A q, s \in Runners : q # s => Range(work'[q]) \cap Range(work'[s]) = {}
      BY ZenonT(60), <2>2, <2>3, <2>4, <2>5, <2>6, <2>7, <2>8 DEF ScheduledOnce, OnePlace
    <3>5. \A u, w \in Threads : u # w => Hand(u)' \cap Hand(w)' = {}
      <4>1. \A u \in Threads \ {r} : h \notin Hand(u)
        BY Zenon, <2>5 DEF ScheduledOnce, OnePlace
      <4>2. \A u \in Threads \ {r} : Hand(r)' \cap Hand(u)' = {} /\ Hand(u)' \cap Hand(r)' = {}
        BY Zenon, <2>2, <2>7, <4>1
      <4>3. \A u, w \in Threads \ {r} : u # w => Hand(u)' \cap Hand(w)' = {}
        BY Zenon, <2>2 DEF ScheduledOnce, OnePlace
      <4> QED
        <5> SUFFICES ASSUME NEW u \in Threads, NEW w \in Threads, u # w
                     PROVE  Hand(u)' \cap Hand(w)' = {}
          BY Zenon
        <5>1. CASE u = r
          BY Zenon, <4>2, <5>1
        <5>2. CASE w = r
          BY Zenon, <4>2, <5>2
        <5>3. CASE u # r /\ w # r
          BY Zenon, <4>3, <5>3
        <5> QED
          BY Zenon, <5>1, <5>2, <5>3
    <3>6. \A v \in Vecs, s \in Runners : Range(list'[v]) \cap Range(work'[s]) = {}
      <4>1. \A s \in Runners : Range(work'[s]) \subseteq Range(work[s])
        BY Zenon, <2>5, <2>6
      <4> QED
        BY Zenon, <2>4, <4>1 DEF ScheduledOnce, OnePlace
    <3>7. \A v \in Vecs, u \in Threads : Range(list'[v]) \cap Hand(u)' = {}
      BY ZenonT(60), <2>2, <2>3, <2>4, <2>5, <2>6, <2>7, <2>8 DEF ScheduledOnce, OnePlace
    <3>8. \A s \in Runners, u \in Threads : Range(work'[s]) \cap Hand(u)' = {}
      <4>1. \A s \in Runners : Range(work'[s]) \subseteq Range(work[s])
        BY Zenon, <2>5, <2>6
      <4>2. \A s \in Runners : h \notin Range(work'[s])
        BY Zenon, <2>5, <2>6 DEF ScheduledOnce, OnePlace
      <4>3. \A s \in Runners : Range(work'[s]) \cap Hand(r)' = {}
        BY Zenon, <2>7, <4>2
      <4>4. \A s \in Runners, u \in Threads \ {r} : Range(work'[s]) \cap Hand(u)' = {}
        <5> SUFFICES ASSUME NEW s \in Runners, NEW u \in Threads \ {r}
                     PROVE  Range(work'[s]) \cap Hand(u)' = {}
          OBVIOUS
        <5>1. Range(work[s]) \cap Hand(u) = {}
          BY Zenon DEF ScheduledOnce, OnePlace
        <5>2. Range(work'[s]) \subseteq Range(work[s]) /\ Hand(u)' = Hand(u)
          BY Zenon, <2>2, <4>1
        <5> QED
          BY Zenon, <5>1, <5>2
      <4> QED
        BY Zenon, <4>3, <4>4
    <3> QED
      BY Zenon, <3>1, <3>2, <3>3, <3>4, <3>5, <3>6, <3>7, <3>8 DEF OnePlace
  <2> QED
    BY Zenon, <2>9, <2>10 DEF ScheduledOnce
<1> QED
  BY Zenon, <1>1, <1>2

\* Every step leaves a scheduled tasklet at exactly one place.
LEMMA ListsStep ==
  ASSUME TypeOK, Control, ScheduledOnce, [Next]_vars
  PROVE  ScheduledOnce'
<1>0. /\ pc \in [Threads -> Labels] /\ arg \in [Threads -> Tasklets \cup {NULL}]
      /\ nr \in [Threads -> Vecs] /\ act \in [Runners -> Vecs]
      /\ cur \in [Runners -> Tasklets \cup {NULL}]
      /\ \A th \in Threads : pc[th] \in {"enqueue", "kill_clear"} => arg[th] \in Tasklets
      /\ \A r \in Runners : pc[r] \in {"start", "requeue"} => cur[r] \in Tasklets
  BY Zenon DEF TypeOK, Control, Holds
<1>1. Unseen => ScheduledOnce'
  BY Zenon, SameHands DEF Unseen
<1>2. ASSUME NEW th \in Threads, NEW t \in Tasklets, NEW v \in UsedVecs, tasklet_schedule(th, t, v)
      PROVE  ScheduledOnce'
  <2>1. Hand(th) = {} /\ Hand(th)' = {t} /\ \A u \in Threads \ {th} : Hand(u)' = Hand(u)
    BY Zenon, <1>0, <1>2 DEF tasklet_schedule, Goto, Hand, Threads
  <2>2. th \in Threads /\ t \notin sched /\ sched' = sched \cup {t} /\ list' = list /\ work' = work
    BY Zenon, <1>0, <1>2 DEF tasklet_schedule, Goto, Threads
  <2> QED
    BY Zenon, <2>1, <2>2, TakeInHand
<1>3. ASSUME NEW d \in Killers, NEW t \in Tasklets, tasklet_kill(d, t)
      PROVE  ScheduledOnce'
  <2>1. Hand(d) = {} /\ Hand(d)' = {t} /\ \A u \in Threads \ {d} : Hand(u)' = Hand(u)
    BY Zenon, <1>0, <1>3 DEF tasklet_kill, Goto, Hand, Threads
  <2>2. d \in Threads /\ t \notin sched /\ sched' = sched \cup {t} /\ list' = list /\ work' = work
    BY Zenon, <1>0, <1>3 DEF tasklet_kill, Goto, Threads
  <2> QED
    BY Zenon, <2>1, <2>2, TakeInHand
<1>4. ASSUME NEW d \in Drivers, tasklet_kill_clear(d)
      PROVE  ScheduledOnce'
  <2>1. Hand(d) = {arg[d]} /\ Hand(d)' = {} /\ \A u \in Threads \ {d} : Hand(u)' = Hand(u)
    BY Zenon, <1>0, <1>4 DEF tasklet_kill_clear, Goto, Hand, Threads
  <2>2. /\ d \in Threads /\ arg[d] \in Tasklets
        /\ sched' = sched \ {arg[d]} /\ list' = list /\ work' = work
    BY Zenon, <1>0, <1>4 DEF tasklet_kill_clear, Goto, Threads
  <2> QED
    BY Zenon, <2>1, <2>2, DropFromHand
<1>5. ASSUME NEW r \in Runners, tasklet_start(r)
      PROVE  ScheduledOnce'
  <2>1. Hand(r) = {cur[r]} /\ Hand(r)' = {} /\ \A u \in Threads \ {r} : Hand(u)' = Hand(u)
    BY Zenon, <1>0, <1>5 DEF tasklet_start, Goto, Hand, Threads
  <2>2. /\ r \in Threads /\ cur[r] \in Tasklets
        /\ sched' = sched \ {cur[r]} /\ list' = list /\ work' = work
    BY Zenon, <1>0, <1>5 DEF tasklet_start, Goto, Threads
  <2> QED
    BY Zenon, <2>1, <2>2, DropFromHand
<1>6. ASSUME NEW th \in Threads, tasklet_enqueue(th)
      PROVE  ScheduledOnce'
  <2>1. Hand(th) = {arg[th]} /\ Hand(th)' = {} /\ \A u \in Threads \ {th} : Hand(u)' = Hand(u)
    BY Zenon, <1>0, <1>6 DEF tasklet_enqueue, Goto, Hand, Threads
  <2>2. /\ arg[th] \in Tasklets /\ nr[th] \in Vecs
        /\ list' = [list EXCEPT ![nr[th]] = <<arg[th]>> \o @] /\ work' = work /\ sched' = sched
    BY Zenon, <1>0, <1>6 DEF tasklet_enqueue, Goto, Threads
  <2> QED
    BY <2>1, <2>2, PutOnList, Zenon
<1>7. ASSUME NEW r \in Runners, tasklet_requeue(r)
      PROVE  ScheduledOnce'
  <2>1. Hand(r) = {cur[r]} /\ Hand(r)' = {} /\ \A u \in Threads \ {r} : Hand(u)' = Hand(u)
    BY SMTT(30), <1>0, <1>7 DEF tasklet_requeue, Goto, Hand, Threads
  <2>2. /\ r \in Threads /\ cur[r] \in Tasklets /\ act[r] \in Vecs
        /\ list' = [list EXCEPT ![act[r]] = <<cur[r]>> \o @] /\ work' = work /\ sched' = sched
    BY Zenon, <1>0, <1>7 DEF tasklet_requeue, Goto, Threads
  <2> QED
    BY <2>1, <2>2, PutOnList, ZenonT(60)
<1>8. CASE RaiseStep \/ LoopStep \/ UNCHANGED vars
  BY Zenon, <1>1, <1>2, <1>6, <1>8, UnseenSteps DEF RaiseStep
<1>9. CASE CallStep
  BY Zenon, <1>1, <1>3, <1>4, <1>9, UnseenSteps, SameHandsSteps, SameHands DEF CallStep
<1>10. CASE ActionStep
  BY Zenon, <1>1, <1>5, <1>7, <1>10, UnseenSteps, SameHandsSteps, SameHands, ListsDetach DEF ActionStep
<1> QED
  BY Zenon, <1>8, <1>9, <1>10, StepCases

-----------------------------------------------------------------------------
(* The inductive invariant, and what follows from it.                      *)

\* The invariant holds after dde_linux26_softirq_init().
LEMMA InitInv == Init => IInv
<1> SUFFICES ASSUME Init
             PROVE  IInv
  BY Zenon
<1> USE ThreadsAssumption, BoundsAssumption
<1>1. TypeOK
  BY SMTT(30) DEF Init, TypeOK, Home, Labels, Vecs, HI_SOFTIRQ, TASKLET_SOFTIRQ
<1>2. Control
  BY Zenon DEF Init, Control, Holds, InFunc, Home, Raising, Threads, Runners
<1>3. ScheduledOnce
  <2>1. \A th \in Threads : Hand(th) = {}
    BY Zenon DEF Init, Hand, Home
  <2> QED
    BY Zenon, <2>1, EmptyList DEF Init, ScheduledOnce, SchedMarked, OnePlace
<1>4. \A r \in Runners : ~ Holds(r) /\ pc[r] # "start" /\ ~ InFunc(r)
  BY Zenon DEF Init, Holds, InFunc, Home, Threads
<1>5. RunLock /\ Quiet /\ Killing /\ Wakeup
  BY Zenon, <1>4 DEF Init, RunLock, Quiet, Killing, Wakeup, Home, Threads
<1> QED
  BY Zenon, <1>1, <1>2, <1>3, <1>5 DEF IInv

\* Types and control do not depend on anything but the variables.
LEMMA InvStutter == ASSUME TypeOK, Control, UNCHANGED vars PROVE TypeOK' /\ Control'
<1>1. TypeOK'
  BY Zenon DEF TypeOK, vars
<1>2. Control'
  BY Zenon DEF Control, Holds, InFunc, vars
<1> QED
  BY Zenon, <1>1, <1>2

\* The invariant is preserved by every step.
LEMMA InvStep == IInv /\ [Next]_vars => IInv'
<1> SUFFICES ASSUME IInv, [Next]_vars
             PROVE  IInv'
  BY Zenon
<1>1. ScheduledOnce' /\ RunLock' /\ Quiet' /\ Killing' /\ Wakeup'
  BY Zenon, ListsStep, LockStep, WakeupStep DEF IInv
<1>2. TypeOK'
  BY Zenon, TypeRaiseStep, TypeCallStep, TypeLoopStep, TypeActionStep, InvStutter, StepCases DEF IInv
<1>3. Control'
  BY Zenon, ControlRaiseStep, ControlCallStep, ControlLoopStep, ControlActionStep, InvStutter, StepCases
  DEF IInv
<1> QED
  BY Zenon, <1>1, <1>2, <1>3 DEF IInv

\* The invariant is inductive.
THEOREM Invariance == Spec => []IInv
BY InitInv, InvStep, PTL DEF Spec

\* The variables of softirq.c keep their types.
THEOREM TypeCorrect == Spec => []TypeOK
<1>1. IInv => TypeOK
  BY Zenon DEF IInv
<1> QED
  BY Invariance, <1>1, PTL

\* SCHED and the lists agree: a scheduled tasklet is at exactly one place.
THEOREM ScheduledOnceHolds == Spec => []ScheduledOnce
<1>1. IInv => ScheduledOnce
  BY Zenon DEF IInv
<1> QED
  BY Invariance, <1>1, PTL

\* tasklet_action() and tasklet_hi_action() never reach their BUG().
THEOREM NoBugHolds == Spec => []NoBug
<1>1. IInv => NoBug
  BY Zenon DEF IInv, Control, NoBug
<1> QED
  BY Invariance, <1>1, PTL

\* No two threads execute the function of one tasklet.
THEOREM SerializedHolds == Spec => []Serialized
<1>1. IInv => Serialized
  BY Zenon DEF IInv, RunLock, Holds, Serialized
<1> QED
  BY Invariance, <1>1, PTL

\* After tasklet_disable() has returned, the tasklet is not executed.
THEOREM DisabledNotRunningHolds == Spec => []DisabledNotRunning
<1>1. IInv => DisabledNotRunning
  BY Zenon DEF IInv, Quiet, DisabledNotRunning
<1> QED
  BY Invariance, <1>1, PTL

\* The softirq thread does not sleep over a raised softirq.
THEOREM NoLostWakeupHolds == Spec => []NoLostWakeup
<1>1. IInv => NoLostWakeup
  BY Zenon DEF IInv, Wakeup, NoLostWakeup
<1> QED
  BY Invariance, <1>1, PTL

\* When tasklet_kill() returns, the tasklet is neither executed nor listed.
THEOREM KilledIsGoneHolds == Spec => KilledIsGone
<1> DEFINE Gone ==
      \A d \in Drivers : tasklet_kill_clear(d) =>
        /\ \A r \in Runners : InFunc(r) => cur[r] # arg[d]
        /\ \A v \in Vecs : arg[d] \notin Range(list[v])
<1>1. IInv => Gone
  <2> SUFFICES ASSUME IInv, NEW d \in Drivers, tasklet_kill_clear(d)
               PROVE  /\ \A r \in Runners : InFunc(r) => cur[r] # arg[d]
                      /\ \A v \in Vecs : arg[d] \notin Range(list[v])
    BY Zenon
  <2>1. pc[d] = "kill_clear" /\ d \in Threads
    BY Zenon DEF tasklet_kill_clear, Goto, Threads
  <2>2. arg[d] \notin run /\ Hand(d) = {arg[d]}
    BY Zenon, <2>1 DEF IInv, Killing, Hand
  <2>3. \A r \in Runners : InFunc(r) => cur[r] # arg[d]
    BY Zenon, <2>2 DEF IInv, RunLock, Holds
  <2>4. \A v \in Vecs : arg[d] \notin Range(list[v])
    BY Zenon, <2>1, <2>2 DEF IInv, ScheduledOnce, OnePlace
  <2> QED
    BY Zenon, <2>3, <2>4
<1>2. IInv => [Gone]_vars
  BY Zenon, <1>1
<1>3. Spec => [][Gone]_vars
  BY Invariance, <1>2, PTL
<1> QED
  BY Zenon, <1>3 DEF KilledIsGone

-----------------------------------------------------------------------------
(* The softirq code implements the tasklet service.                        *)

Running == {cur[r] : r \in {x \in Runners : InFunc(x)}}

\* A tasklet that is being killed is in its killer's hands, hence scheduled.
LEMMA HeldScheduled == ASSUME TypeOK, Control, ScheduledOnce PROVE KillHeld \subseteq sched
<1> SUFFICES ASSUME NEW d \in Drivers, pc[d] \in {"kill_wait", "kill_clear"}
             PROVE  arg[d] \in sched
  BY Zenon DEF KillHeld
<1>1. d \in Threads /\ Hand(d) = {arg[d]} /\ arg[d] \in Tasklets
  BY Zenon DEF Threads, Hand, Control
<1> QED
  BY Zenon, <1>1 DEF ScheduledOnce, SchedMarked

\* A tasklet in the hands of a runner is not being killed.
LEMMA NotHeld ==
  ASSUME TypeOK, Control, ScheduledOnce, NEW r \in Runners, NEW t, Hand(r) = {t}
  PROVE  t \notin KillHeld
<1> SUFFICES ASSUME NEW d \in Drivers, pc[d] \in {"kill_wait", "kill_clear"}, arg[d] = t
             PROVE  FALSE
  BY Zenon DEF KillHeld
<1>1. d \in Threads /\ r \in Threads /\ d # r /\ Hand(d) = {t}
  BY Zenon DEF Threads, Hand
<1> QED
  BY Zenon, <1>1 DEF ScheduledOnce, OnePlace

\* What the service sees of executions and kills.
LEMMA SameView ==
  /\ SameRunning => Running' = Running
  /\ SameKilling => KillHeld' = KillHeld
BY Zenon DEF SameRunning, SameKilling, Running, KillHeld

\* A step that neither schedules, starts, ends nor kills an execution.
LEMMA Stutter ==
  ASSUME SameRunning, SameKilling, sched' = sched, quiet' = quiet
  PROVE  UNCHANGED Service!vars
BY Zenon, SameView DEF Running, Service!vars

\* Every step of the code is a step of the service, or changes nothing there.
LEMMA ServiceStep == IInv /\ [Next]_vars => [Service!Next]_(Service!vars)
<1> DEFINE Served == Service!Next \/ UNCHANGED Service!vars
<1> SUFFICES ASSUME IInv, [Next]_vars
             PROVE  Served
  BY Zenon
<1>0. /\ TypeOK /\ Control /\ ScheduledOnce
      /\ pc \in [Threads -> Labels] /\ arg \in [Threads -> Tasklets \cup {NULL}]
      /\ nr \in [Threads -> Vecs] /\ lock \in [Vecs -> Runners \cup {NULL}]
      /\ cur \in [Runners -> Tasklets \cup {NULL}] /\ act \in [Runners -> Vecs]
      /\ quiet \in [Tasklets -> SUBSET Disablers]
      /\ \A d \in Drivers : pc[d] \in {"disable_wait", "kill_clear"} => arg[d] \in Tasklets
      /\ \A r \in Runners : pc[r] \in {"start", "func"} => cur[r] \in Tasklets
      /\ KillHeld \subseteq sched
  BY Zenon, HeldScheduled DEF IInv, TypeOK, Control, Holds, InFunc, Threads
<1>1. Unseen => Served
  BY Zenon, Stutter DEF Unseen
<1>2. ASSUME NEW th \in Threads, tasklet_enqueue(th) PROVE Served
  <2>1. SameRunning /\ SameKilling
    BY Zenon, <1>0, <1>2 DEF tasklet_enqueue, Goto, SameRunning, SameKilling, InFunc, Threads
  <2> QED
    BY Zenon, <1>2, <2>1, Stutter DEF tasklet_enqueue
<1>3. ASSUME NEW r \in Runners, tasklet_action(r) \/ tasklet_next(r) PROVE Served
  <2>1. SameRunning /\ SameKilling
    BY ZenonT(60), <1>0, <1>3 DEF tasklet_action, tasklet_next, Goto, shared, SameRunning, SameKilling, InFunc, Threads
  <2> QED
    BY ZenonT(60), <1>3, <2>1, Stutter DEF tasklet_action, tasklet_next, shared
<1>4. ASSUME NEW r \in Runners, tasklet_requeue(r) PROVE Served
  <2>1. SameRunning /\ SameKilling
    BY Zenon, <1>0, <1>4 DEF tasklet_requeue, Goto, SameRunning, SameKilling, InFunc, Threads
  <2> QED
    BY ZenonT(60), <1>4, <2>1, Stutter DEF tasklet_requeue
<1>5. ASSUME NEW th \in Threads, NEW t \in Tasklets, NEW v \in UsedVecs, tasklet_schedule(th, t, v)
      PROVE  Served
  <2>1. SameRunning /\ SameKilling
    BY Zenon, <1>0, <1>5 DEF tasklet_schedule, SameRunning, SameKilling, InFunc, Threads
  <2>2. Service!Schedule(t)
    BY ZenonT(60), <1>0, <1>5, <2>1, SameView DEF tasklet_schedule, Service!Schedule, Running
  <2> QED
    BY ZenonT(60), <2>2 DEF Service!Next
<1>6. ASSUME NEW d \in Drivers, tasklet_disable_wait(d) PROVE Served
  <2>1. SameRunning /\ SameKilling
    BY Zenon, <1>0, <1>6 DEF tasklet_disable_wait, Goto, SameRunning, SameKilling, InFunc, Threads
  <2>2. arg[d] \in Tasklets /\ arg[d] \notin run
    BY Zenon, <1>0, <1>6 DEF tasklet_disable_wait, Goto
  <2>3. arg[d] \notin Running
    BY Zenon, <2>2 DEF IInv, Running, RunLock, Holds
  <2>4. Service!Disabled(arg[d], d)
    BY Zenon, <1>6, <2>1, <2>3, SameView DEF tasklet_disable_wait, Service!Disabled, Running
  <2> QED
    BY Zenon, <2>2, <2>4 DEF Service!Next
<1>7. ASSUME NEW d \in Disablers, NEW t \in Tasklets, tasklet_enable(d, t) PROVE Served
  <2>0. pc' = pc /\ arg' = arg /\ nr' = nr /\ cur' = cur /\ lock' = lock /\ sched' = sched
    BY <1>7, Zenon DEF tasklet_enable, local
  <2>1. Running' = Running /\ KillHeld' = KillHeld
    BY <2>0, Zenon DEF Running, KillHeld, InFunc
  <2>2. PICK who \in {d, NULL} : quiet' = [quiet EXCEPT ![t] = @ \ {who}]
    BY <1>7, Zenon DEF tasklet_enable
  <2>3. CASE who \in quiet[t]
    <3>1. who \in Drivers
      BY Zenon, <1>0, <2>3
    <3>2. Service!Enable(t, who)
      BY <2>0, <2>1, <2>2, <2>3, Zenon DEF Service!Enable, Running
    <3> QED
      BY Zenon, <3>1, <3>2 DEF Service!Next
  <2>4. CASE who \notin quiet[t]
    <3>1. quiet' = quiet
      BY <1>0, <2>2, <2>4
    <3> QED
      BY <2>0, <2>1, <3>1, Zenon DEF Running, Service!vars
  <2> QED
    BY Zenon, <2>3, <2>4
<1>8. ASSUME NEW d \in Killers, NEW t \in Tasklets, tasklet_kill(d, t) PROVE Served
  <2>1. SameRunning
    BY Zenon, <1>0, <1>8 DEF tasklet_kill, Goto, SameRunning, InFunc, Threads
  <2>2. KillHeld' = KillHeld \cup {t}
    BY ZenonT(60), <1>0, <1>8 DEF tasklet_kill, Goto, KillHeld, Threads
  <2>3. Service!Kill(t)
    BY ZenonT(60), <1>0, <1>8, <2>1, <2>2, SameView DEF tasklet_kill, Service!Kill, Running
  <2> QED
    BY Zenon, <2>3 DEF Service!Next
<1>9. ASSUME NEW d \in Drivers, tasklet_kill_clear(d) PROVE Served
  <2>1. SameRunning
    BY Zenon, <1>0, <1>9 DEF tasklet_kill_clear, Goto, SameRunning, InFunc, Threads
  <2>2. /\ pc[d] = "kill_clear" /\ d \in Threads /\ arg[d] \in Tasklets /\ arg[d] \notin run
        /\ Hand(d) = {arg[d]}
    BY Zenon, <1>0, <1>9 DEF tasklet_kill_clear, Goto, IInv, Killing, Hand, Threads
  <2>3. ASSUME NEW x \in Drivers \ {d}, pc[x] \in {"kill_wait", "kill_clear"}
        PROVE  arg[x] # arg[d]
    <3>1. Hand(x) = {arg[x]} /\ x \in Threads
      BY Zenon, <2>3 DEF Hand, Threads
    <3> QED
      BY Zenon, <1>0, <2>2, <3>1 DEF ScheduledOnce, OnePlace
  <2>4. arg[d] \in KillHeld /\ KillHeld' = KillHeld \ {arg[d]}
    BY SMTT(30), <1>0, <1>9, <2>2, <2>3 DEF tasklet_kill_clear, Goto, KillHeld, Threads
  <2>5. arg[d] \notin Running
    BY Zenon, <2>2 DEF IInv, Running, RunLock, Holds
  <2>6. Service!Killed(arg[d])
    BY Zenon, <1>9, <2>1, <2>4, <2>5, SameView DEF tasklet_kill_clear, Service!Killed, Running
  <2> QED
    BY Zenon, <2>2, <2>6 DEF Service!Next
<1>10. ASSUME NEW r \in Runners, tasklet_start(r) PROVE Served
  <2>1. SameKilling
    BY Zenon, <1>0, <1>10 DEF tasklet_start, Goto, SameKilling, Threads
  <2>2. /\ pc[r] = "start" /\ r \in Threads /\ cur[r] \in Tasklets /\ cur' = cur
        /\ Hand(r) = {cur[r]}
    BY Zenon, <1>0, <1>10 DEF tasklet_start, Goto, Hand, Threads
  <2>3. cur[r] \in sched
    BY Zenon, <1>0, <2>2 DEF ScheduledOnce, SchedMarked
  <2>4. cur[r] \notin KillHeld
    BY Zenon, <1>0, <2>2, NotHeld
  <2>5. \A s \in Runners : InFunc(s) => s # r /\ cur[s] # cur[r]
    BY Zenon, <2>2 DEF IInv, RunLock, Holds, InFunc
  <2>6. InFunc(r)' /\ \A s \in Runners \ {r} : InFunc(s)' = InFunc(s)
    BY Zenon, <1>0, <1>10, <2>3 DEF tasklet_start, Goto, InFunc, Threads
  <2>7. cur[r] \notin Running /\ Running' = Running \cup {cur[r]}
    BY Zenon, <2>2, <2>5, <2>6 DEF Running
  <2>8. quiet[cur[r]] = {}
    BY Zenon, <2>2 DEF IInv, Quiet
  <2>9. PICK t \in Tasklets : t = cur[r]
    BY Zenon, <2>2
  <2>10. Service!Start(t)
    BY Zenon, <1>10, <2>1, <2>3, <2>4, <2>7, <2>8, <2>9, SameView DEF tasklet_start, Service!Start, Running
  <2> QED
    BY Zenon, <2>10 DEF Service!Next
<1>11. ASSUME NEW r \in Runners, tasklet_return(r) PROVE Served
  <2>1. SameKilling
    BY Zenon, <1>0, <1>11 DEF tasklet_return, Goto, SameKilling, Threads
  <2>2. InFunc(r) /\ cur[r] \in Tasklets
    BY Zenon, <1>0, <1>11 DEF tasklet_return, Goto, InFunc
  <2>3. ~ InFunc(r)' /\ \A s \in Runners \ {r} : InFunc(s)' = InFunc(s) /\ cur'[s] = cur[s]
    BY Zenon, <1>0, <1>11 DEF tasklet_return, Goto, InFunc, Threads
  <2>4. \A s \in Runners \ {r} : InFunc(s) => cur[s] # cur[r]
    BY Zenon, <2>2 DEF IInv, RunLock, Holds
  <2>5. cur[r] \in Running /\ Running' = Running \ {cur[r]}
    BY Zenon, <2>2, <2>3, <2>4 DEF Running
  <2>6. PICK t \in Tasklets : t = cur[r]
    BY Zenon, <2>2
  <2>7. Service!Finish(t)
    BY Zenon, <1>11, <2>1, <2>5, <2>6, SameView DEF tasklet_return, Service!Finish, Running
  <2> QED
    BY Zenon, <2>7 DEF Service!Next
<1> HIDE DEF Served
<1>12. CASE RaiseStep \/ LoopStep \/ UNCHANGED vars
  BY Zenon, <1>0, <1>1, <1>2, <1>5, <1>12, UnseenSteps DEF RaiseStep
<1>13. CASE CallStep
  BY Zenon, <1>0, <1>1, <1>6, <1>7, <1>8, <1>9, <1>13, UnseenSteps DEF CallStep
<1>14. CASE ActionStep
  BY Zenon, <1>0, <1>1, <1>3, <1>4, <1>10, <1>11, <1>14, UnseenSteps DEF ActionStep
<1> QED
  BY Zenon, <1>12, <1>13, <1>14, StepCases

\* The softirq and tasklet code implements the tasklet service.
THEOREM Refinement == Spec => ServiceSpec
<1>1. Init => Service!Init
  <2> SUFFICES ASSUME Init
               PROVE  Service!Init
    BY Zenon
  <2>1. KillHeld = {} /\ Running = {}
    BY Zenon DEF Init, KillHeld, Running, InFunc, Home, Threads
  <2> QED
    BY Zenon, <2>1 DEF Init, Service!Init, Running
<1> QED
  BY <1>1, Invariance, ServiceStep, PTL DEF Spec, ServiceSpec, Service!Spec

=============================================================================
