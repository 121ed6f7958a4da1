---------------------------- MODULE WorkqueueInv ----------------------------
(***************************************************************************)
(* The first four parts of the inductive invariant of module Workqueue,    *)
(* each proved on top of the one before: types and control; who holds      *)
(* cwq->lock and who is on which wait queue (no wake-up is lost); where a  *)
(* pending work is (no BUG_ON() fires); and the order of the sequence      *)
(* numbers (a flush is complete).                                          *)
(***************************************************************************)
EXTENDS Workqueue, TLAPS, SequenceTheorems

\* The locals that are live at a control point.
Control ==
  \A th \in Threads :
    /\ pc[th] \in {"insert", "cancel"} => arg[th] \in Works
    /\ pc[th] \in {"add_timer", "del_pending", "del"} => arg[th] \in Delayed
    /\ pc[th] \in {"release", "call"} => running[th] # << >>

TypeInv == TypeOK /\ Control

\* Whoever wakes with cwq->lock has it.
LockInv ==
  /\ \A th \in Threads : pc[th] \in {"more", "more_up", "done", "done_up"} => lock = th
  /\ \A th \in Threads : pc[th] = "done_up" => target \in Clients

\* The worker is on more_work from before it looks at the list until after
\* it has slept.
MoreWork == more_work <=> pc[Worker] \in {"test", "schedule", "down", "remove"}

\* NoLostWakeup, from the moment the sleeper has looked.
Noticed ==
  /\ pc[Worker] \in {"schedule", "down"} /\ worklist # << >> => sleep[Worker] > 0 \/ MoreLocked
  /\ \A c \in Clients :
       pc[c] \in {"schedule", "down"} /\ needed[c] <= remove_sequence
         => sleep[c] > 0 \/ c \in towake

WakeInv == LockInv /\ MoreWork /\ WaitersQueued /\ Noticed

-----------------------------------------------------------------------------
(* Sequences.                                                              *)

\* A sequence that has an entry is not empty.
LEMMA NonEmpty ==
  ASSUME NEW s, NEW i \in DOMAIN s
  PROVE  s # << >>
  OBVIOUS

\* What is left of a sequence without its last entry.
Front1(s) == SubSeq(s, 1, Len(s) - 1)

\* Its type, length and entries.
LEMMA Front1Properties ==
  ASSUME NEW E, NEW s \in Seq(E), s # << >>
  PROVE  /\ Front1(s) \in Seq(E)
         /\ Len(Front1(s)) = Len(s) - 1
         /\ \A i \in 1..(Len(s) - 1) : Front1(s)[i] = s[i]
         /\ Len(s) \in Nat \ {0}
PROOF
  <1>1. Len(s) \in Nat \ {0}
    BY Zenon, EmptySeq, LenProperties
  <1>2. \A i \in 1..(Len(s) - 1) : s[i] \in E
    BY <1>1, ElementOfSeq
  <1> DEFINE n == Len(s) - 1
  <1>3. n \in Nat /\ Len(s) = n + 1
    BY <1>1
  <1> HIDE DEF n
  <1>4. /\ SubSeq(s, 1, n) \in Seq(E)
        /\ Len(SubSeq(s, 1, n)) = n
        /\ \A i \in 1..n : SubSeq(s, 1, n)[i] = s[i]
    BY <1>2, <1>3, SubSeqProperties DEF n
  <1> QED
    BY Zenon, <1>1, <1>3, <1>4 DEF Front1, n

\* What is left of a sequence without entry i.
Without(s, i) == SubSeq(s, 1, i - 1) \o SubSeq(s, i + 1, Len(s))

\* Its type, length and entries.
LEMMA WithoutProperties ==
  ASSUME NEW E, NEW s \in Seq(E), NEW i \in 1..Len(s)
  PROVE  /\ Without(s, i) \in Seq(E)
         /\ Len(Without(s, i)) = Len(s) - 1
         /\ \A j \in 1..(Len(s) - 1) : Without(s, i)[j] = IF j < i THEN s[j] ELSE s[j + 1]
PROOF
  <1> DEFINE a == SubSeq(s, 1, i - 1)
             b == SubSeq(s, i + 1, Len(s))
  <1>1. Len(s) \in Nat /\ \A j \in 1..Len(s) : s[j] \in E
    BY Zenon, LenProperties, ElementOfSeq
  <1>2. /\ a \in Seq(E) /\ Len(a) = i - 1
        /\ \A j \in 1..(i - 1) : a[j] = s[j]
    BY <1>1, SubSeqProperties
  <1>3. /\ b \in Seq(E) /\ Len(b) = Len(s) - i
        /\ \A j \in 1..(Len(s) - i) : b[j] = s[i + j]
    BY <1>1, SubSeqProperties
  <1> HIDE DEF a, b
  <1>4. /\ a \o b \in Seq(E) /\ Len(a \o b) = Len(a) + Len(b)
        /\ \A j \in 1..(Len(a) + Len(b)) :
             (a \o b)[j] = IF j <= Len(a) THEN a[j] ELSE b[j - Len(a)]
    BY Zenon, <1>2, <1>3, ConcatProperties
  <1>5. Len(a) + Len(b) = Len(s) - 1
    BY <1>1, <1>2, <1>3
  <1>6. ASSUME NEW j \in 1..(Len(s) - 1) PROVE (a \o b)[j] = IF j < i THEN s[j] ELSE s[j + 1]
    <2>1. CASE j < i
      BY <1>1, <1>2, <1>4, <1>5, <2>1
    <2>2. CASE ~ (j < i)
      <3>1. (a \o b)[j] = b[j - (i - 1)]
        BY SMTT(30), <1>1, <1>2, <1>4, <1>5, <2>2
      <3>2. j - (i - 1) \in 1..(Len(s) - i) /\ i + (j - (i - 1)) = j + 1
        BY <1>1, <2>2
      <3> QED
        BY Zenon, <1>3, <2>2, <3>1, <3>2
    <2> QED
      BY Zenon, <2>1, <2>2
  <1> QED
    BY Zenon, <1>4, <1>5, <1>6 DEF Without, a, b

\* A sequence with an entry appended.
LEMMA Appended ==
  ASSUME NEW E, NEW s \in Seq(E), NEW e \in E
  PROVE  /\ DOMAIN s = 1..Len(s) /\ Len(s) \in Nat
         /\ DOMAIN Append(s, e) = 1..(Len(s) + 1)
         /\ \A i \in DOMAIN s : Append(s, e)[i] = s[i]
         /\ Append(s, e)[Len(s) + 1] = e
  BY AppendProperties, LenProperties

\* The first entry of a sequence, and the others.
LEMMA HeadIsFirst ==
  ASSUME NEW E, NEW s \in Seq(E), s # << >>
  PROVE  1 \in DOMAIN s /\ Head(s) = s[1] /\ Tail(s) = Without(s, 1)
PROOF
  <1>1. Len(s) \in Nat \ {0} /\ DOMAIN s = 1..Len(s)
    BY Zenon, EmptySeq, LenProperties
  <1>2. SubSeq(s, 1, 0) = << >>
    BY SubSeqEmpty
  <1>3. Tail(s) = SubSeq(s, 2, Len(s)) /\ Tail(s) \in Seq(E)
    BY Zenon, TailIsSubSeq, HeadTailProperties
  <1>4. << >> \o Tail(s) = Tail(s)
    BY Zenon, <1>3, ConcatEmptySeq
  <1> QED
    BY <1>1, <1>2, <1>3, <1>4 DEF Without

-----------------------------------------------------------------------------
(* Types and control.                                                      *)

\* dde_kit_sem_up() leaves its sleep lock, and every one that had a count,
\* with a count.
LEMMA SemUp ==
  ASSUME NEW p, sleep \in [Tasks -> 0..MaxSleep], sem_up(p)
  PROVE  /\ sleep' \in [Tasks -> 0..MaxSleep]
         /\ p \in Tasks => sleep'[p] > 0
         /\ \A q \in Tasks : sleep[q] > 0 => sleep'[q] > 0
PROOF
  <1>1. CASE p \in Tasks
    BY <1>1, SleepAssumption DEF sem_up
  <1>2. CASE p \notin Tasks
    <2>1. sleep' = sleep
      BY Zenon, <1>2 DEF sem_up
    <2> QED
      BY Zenon, <1>2, <2>1
  <1> QED
    BY Zenon, <1>1, <1>2

\* dde_kit_sem_down() takes from its own sleep lock only.
LEMMA SemDown ==
  ASSUME NEW p \in Tasks, sleep \in [Tasks -> 0..MaxSleep], sem_down(p)
  PROVE  /\ sleep' \in [Tasks -> 0..MaxSleep]
         /\ \A q \in Tasks \ {p} : sleep'[q] = sleep[q]
  BY SleepAssumption DEF sem_down

\* The work a thread executes, and those below it.
LEMMA Finished ==
  ASSUME TypeInv, NEW th \in Tasks, running[th] # << >>
  PROVE  /\ Len(running[th]) \in DOMAIN running[th]
         /\ Current(th) \in Entry
         /\ Front1(running[th]) \in Seq(Entry)
  BY Front1Properties, ElementOfSeq, LenProperties DEF TypeInv, TypeOK, Threads, Current

\* The types and locals of the work queue and the thread it is created with.
LEMMA InitTypeInv == Init => TypeInv
PROOF
  <1> SUFFICES ASSUME Init PROVE TypeInv
    BY Zenon
  <1>1. worklist \in Seq(Entry) /\ running \in [Threads -> Seq(Entry)]
    BY Zenon, EmptySeq DEF Init
  <1>2. SchedTypeOK
    BY SleepAssumption, WorkAssumption
    DEF Init, SchedTypeOK, TASK_RUNNING, TASK_UNINTERRUPTIBLE
  <1>3. pc \in [Threads -> Labels] /\ Control
    BY Zenon, WorkAssumption DEF Init, Labels, Control
  <1>4. early \in BOOLEAN /\ overtaken \in BOOLEAN /\ raced \in BOOLEAN /\ bug \in BOOLEAN
    BY Zenon DEF Init
  <1> QED
    BY Zenon, <1>1, <1>2, <1>3, <1>4 DEF Init, TypeInv, TypeOK

\* Every step keeps types and locals.
LEMMA NextTypeInv == TypeInv /\ [Next]_vars => TypeInv'
PROOF
  <1> SUFFICES ASSUME TypeInv, [Next]_vars PROVE TypeInv'
    BY Zenon
  <1>0. /\ worklist \in Seq(Entry) /\ running \in [Threads -> Seq(Entry)]
        /\ insert_sequence \in Nat /\ remove_sequence \in Nat
        /\ sleep \in [Tasks -> 0..MaxSleep]
        /\ Tasks \subseteq Threads /\ Clients \subseteq Threads /\ Worker \in Threads
    BY WorkAssumption DEF TypeInv, TypeOK, SchedTypeOK, Threads, Clients
  <1> USE SleepAssumption, WorkAssumption
  <1> USE DEF Labels, TypeInv, TypeOK, SchedTypeOK, Control, Threads, Clients, Goto, Forget,
              Caller, set_current_state, TASK_RUNNING, TASK_UNINTERRUPTIBLE
  <1>1. CASE UNCHANGED vars
    BY Zenon, <1>1 DEF vars, sched_vars, list, waits, ghosts
  <1>2. ASSUME NEW th \in Tasks, NEW w \in Works, queue_work(th, w) \/ queue_delayed_work(th, w)
        PROVE  TypeInv'
    <2>1. bug' \in BOOLEAN
      BY <1>2, Zenon DEF queue_work, queue_delayed_work, Queued
    <2>2. PICK to \in {"insert", "add_timer"} :
            test_and_set(th, w, to) /\ (to = "add_timer" => w \in Delayed)
      BY Zenon, <1>2 DEF queue_work, queue_delayed_work
    <2> QED
      BY ZenonT(60), <2>1, <2>2 DEF test_and_set, sched_vars, waits
  <1>3. ASSUME NEW th \in Threads, add_timer(th) PROVE TypeInv'
    BY ZenonT(60), <1>3 DEF add_timer, sched_vars, list, waits, ghosts
  <1>4. ASSUME NEW d \in Delayed, timer_expired(d) PROVE TypeInv'
    BY ZenonT(60), <1>4 DEF timer_expired, sched_vars, list, waits, ghosts
  <1>5. ASSUME NEW th \in Threads, queue_work_locked(th) PROVE TypeInv'
    <2>1. [work |-> arg[th], seq |-> insert_sequence + 1] \in Entry
      BY <1>5 DEF queue_work_locked, Entry
    <2>2. worklist' \in Seq(Entry)
      BY Zenon, <1>5, <2>1, AppendProperties DEF queue_work_locked
    <2>3. insert_sequence' \in Nat
      BY ONLY <1>0, <1>5 DEF queue_work_locked
    <2> QED
      BY ZenonT(60), <1>5, <2>2, <2>3 DEF queue_work_locked, sched_vars, waits
  <1>6. ASSUME NEW th \in Threads, wake_more(th) PROVE TypeInv'
    BY ZenonT(60), <1>6 DEF wake_more, wake_state, list, waits, ghosts
  <1>7. ASSUME NEW th \in Threads, wake_more_up(th) PROVE TypeInv'
    BY Zenon, <1>7, SemUp DEF wake_more_up, wake_sem, list, waits, ghosts
  <1>8. ASSUME NEW c \in Clients, NEW d \in Delayed, cancel_delayed_work(c, d) PROVE TypeInv'
    BY ZenonT(60), <1>8 DEF cancel_delayed_work, sched_vars, list, waits, ghosts
  <1>9. ASSUME NEW c \in Clients, dde_kit_timer_del(c) PROVE TypeInv'
    <2>1. raced' \in BOOLEAN
      BY <1>9, Zenon DEF dde_kit_timer_del
    <2>2. timer' \in [Delayed -> {"none", "armed", "fired"}]
      BY Zenon, <1>9 DEF dde_kit_timer_del
    <2>3. UNCHANGED <<sched_vars, list, waits, lock, running, entered, early, overtaken, bug>>
      BY Zenon, <1>9 DEF dde_kit_timer_del
    <2>4. CASE Goto(c, "del_pending", "cancel") /\ UNCHANGED arg
      BY Zenon, <2>1, <2>2, <2>3, <2>4 DEF sched_vars, list, waits
    <2>5. CASE Goto(c, "del", Caller(c)) /\ Forget(c)
      BY ZenonT(60), <2>1, <2>2, <2>3, <2>5 DEF sched_vars, list, waits
    <2> QED
      BY Zenon, <1>9, <2>4, <2>5 DEF dde_kit_timer_del
  <1>10. ASSUME NEW c \in Clients, cancel_release(c) PROVE TypeInv'
    BY ZenonT(60), <1>10 DEF cancel_release, sched_vars, waits, ghosts
  <1>11. ASSUME run_workqueue PROVE TypeInv'
    <2>1. CASE worklist = << >>
      <3>1. PICK to \in {"set_state", "call"} :
              /\ pc' = [pc EXCEPT ![Worker] = to]
              /\ to = "call" => running[Worker] # << >>
        BY Zenon, <1>11, <2>1 DEF run_workqueue
      <3>2. lock' = NULL /\ UNCHANGED <<sched_vars, list, waits, arg, running, timer, ghosts>>
        BY Zenon, <1>11, <2>1 DEF run_workqueue, list
      <3> QED
        BY ZenonT(60), <3>1, <3>2 DEF sched_vars, list, waits, ghosts
    <2>2. CASE worklist # << >>
      <3>1. Head(worklist) \in Entry /\ Tail(worklist) \in Seq(Entry)
        BY ONLY <1>0, <2>2, HeadTailProperties
      <3>2. /\ Append(running[Worker], Head(worklist)) \in Seq(Entry)
            /\ Append(running[Worker], Head(worklist)) # << >>
        BY ONLY SMTT(30), <1>0, <3>1, AppendProperties
      <3>3. /\ lock' = NULL
            /\ pc' = [pc EXCEPT ![Worker] = "release"]
            /\ worklist' = Tail(worklist)
            /\ running' = [running EXCEPT ![Worker] = Append(running[Worker], Head(worklist))]
            /\ UNCHANGED <<sched_vars, pending, insert_sequence, remove_sequence, waits, arg,
                           timer, ghosts>>
        BY Zenon, <1>11, <2>2 DEF run_workqueue, Push
      <3> QED
        BY ZenonT(60), <3>1, <3>2, <3>3 DEF sched_vars, waits, ghosts
    <2> QED
      BY Zenon, <2>1, <2>2
  <1>12. ASSUME NEW c \in Clients, NEW w \in Works, run_scheduled_work(c, w) PROVE TypeInv'
    <2>1. PICK i \in DOMAIN worklist :
            Push(c, worklist[i]) /\ worklist' = Without(worklist, i)
      BY Zenon, <1>12 DEF run_scheduled_work, Without
    <2>2. worklist[i] \in Entry /\ worklist' \in Seq(Entry)
      BY ONLY SMTT(30), <1>0, <2>1, WithoutProperties, ElementOfSeq, LenProperties
    <2>3. running' \in [Threads -> Seq(Entry)] /\ running'[c] # << >>
      <3>1. /\ Append(running[c], worklist[i]) \in Seq(Entry)
            /\ Append(running[c], worklist[i]) # << >>
        BY ONLY SMTT(30), <1>0, <2>2, AppendProperties
      <3> QED
        BY ONLY <1>0, <2>1, <3>1, Zenon DEF Push
    <2> QED
      BY ZenonT(60), <1>12, <2>1, <2>2, <2>3 DEF run_scheduled_work, Push, sched_vars, waits, ghosts
  <1>13. ASSUME NEW th \in Tasks, work_release(th) PROVE TypeInv'
    BY ZenonT(60), <1>13 DEF work_release, sched_vars, waits, ghosts
  <1>14. ASSUME NEW th \in Tasks, work_end(th) PROVE TypeInv'
    <2>1. running' \in [Threads -> Seq(Entry)]
      BY ONLY TypeInv, <1>0, <1>14, Finished, Zenon DEF work_end, finish, Front1
    <2>2. overtaken' \in BOOLEAN
      BY <1>14, Zenon DEF work_end, finish
    <2>3. remove_sequence' \in Nat
      BY ONLY SMTT(30), <1>0, <1>14 DEF work_end
    <2> QED
      BY Zenon, <1>14, <2>1, <2>2, <2>3 DEF work_end, finish, sched_vars
  <1>15. ASSUME NEW th \in Tasks, wake_done(th) PROVE TypeInv'
    BY SMTT(30), <1>15 DEF wake_done, wake_state, list, ghosts
  <1>16. ASSUME NEW th \in Tasks, wake_done_up(th) PROVE TypeInv'
    BY Zenon, <1>16, SemUp DEF wake_done_up, wake_sem, list, ghosts
  <1>17. ASSUME NEW th \in Tasks, woken_done(th) PROVE TypeInv'
    BY Zenon, <1>17 DEF woken_done, sched_vars, list, waits, ghosts
  <1>18. ASSUME worker_state PROVE TypeInv'
    BY Zenon, <1>18 DEF worker_state, list, waits, ghosts
  <1>19. ASSUME worker_test PROVE TypeInv'
    <2>1. PICK to \in {"schedule", "remove"} : pc' = [pc EXCEPT ![Worker] = to]
      BY <1>19, Zenon DEF worker_test
    <2>2. state' \in [Tasks -> {TASK_RUNNING, TASK_UNINTERRUPTIBLE}]
      BY <1>19, ZenonT(60) DEF worker_test
    <2>3. UNCHANGED <<sleep, list, waits, lock, arg, running, timer, ghosts>>
      BY Zenon, <1>19 DEF worker_test
    <2> QED
      BY ZenonT(60), <2>1, <2>2, <2>3 DEF list, waits, ghosts
  <1>20. ASSUME worker_check PROVE TypeInv'
    <2>1. PICK to \in {"set_state", "run"} : pc' = [pc EXCEPT ![Worker] = to]
      BY Zenon, <1>20 DEF worker_check
    <2>2. UNCHANGED <<sched_vars, list, waits, lock, arg, running, timer, ghosts>>
      BY Zenon, <1>20 DEF worker_check
    <2> QED
      BY ZenonT(60), <2>1, <2>2 DEF sched_vars, list, waits, ghosts
  <1>21. ASSUME worker_add PROVE TypeInv'
    BY Zenon, <1>21 DEF worker_add, worker_queue, sched_vars, list, ghosts
  <1>22. ASSUME worker_remove PROVE TypeInv'
    BY Zenon, <1>22 DEF worker_remove, worker_queue, sched_vars, list, ghosts
  <1>23. ASSUME NEW p \in Tasks, schedule(p) PROVE TypeInv'
    <2>1. PICK to \in {"remove", "relock", "down"} : pc' = [pc EXCEPT ![p] = to]
      BY Zenon, <1>23 DEF schedule, AfterSchedule
    <2>2. UNCHANGED <<sched_vars, list, waits, lock, arg, running, timer, ghosts>>
      BY Zenon, <1>23 DEF schedule
    <2> QED
      BY ZenonT(60), <2>1, <2>2 DEF sched_vars, list, waits, ghosts
  <1>24. ASSUME NEW p \in Tasks, schedule_down(p) PROVE TypeInv'
    <2>1. PICK to \in {"remove", "relock"} : pc' = [pc EXCEPT ![p] = to]
      BY Zenon, <1>24 DEF schedule_down, AfterSchedule
    <2>2. sleep' \in [Tasks -> 0..MaxSleep]
      BY ONLY SMTT(30), <1>0, <1>24, SemDown DEF schedule_down
    <2>3. UNCHANGED <<state, list, waits, lock, arg, running, timer, ghosts>>
      BY Zenon, <1>24 DEF schedule_down
    <2> QED
      BY ZenonT(60), <2>1, <2>2, <2>3 DEF list, waits, ghosts
  <1>25. ASSUME NEW c \in Clients, NEW n \in Nat, NEW m \in Nat, wait_for(c, n, m) PROVE TypeInv'
    <2>1. early' \in BOOLEAN
      BY <1>25, Zenon DEF wait_for
    <2>2. PICK to \in {"schedule", "idle"}, s \in {TASK_RUNNING, TASK_UNINTERRUPTIBLE} :
            pc' = [pc EXCEPT ![c] = to] /\ state' = [state EXCEPT ![c] = s]
      BY Zenon, <1>25 DEF wait_for
    <2>3. PICK k \in Nat, l \in Nat :
            /\ needed' = [needed EXCEPT ![c] = k] /\ entered' = [entered EXCEPT ![c] = l]
            /\ work_done' \subseteq work_done \cup {c}
      BY ONLY <1>25, Zenon DEF wait_for
    <2>4. UNCHANGED <<sleep, list, more_work, towake, target, lock, arg, running, timer,
                      overtaken, raced, bug>>
      BY Zenon, <1>25 DEF wait_for
    <2> QED
      BY ZenonT(60), <2>1, <2>2, <2>3, <2>4 DEF list
  <1>26. ASSUME NEW c \in Clients, flush_workqueue(c) \/ flush_again(c) PROVE TypeInv'
    BY Zenon, <1>25, <1>26 DEF flush_workqueue, flush_again
  <1>27. ASSUME flush_own PROVE TypeInv'
    BY ZenonT(60), <1>27 DEF flush_own, sched_vars, list, waits, ghosts
  <1> QED
    BY ZenonT(60), <1>1, <1>2, <1>3, <1>4, <1>5, <1>6, <1>7, <1>8, <1>9, <1>10, <1>11, <1>12,
       <1>13, <1>14, <1>15, <1>16, <1>17, <1>18, <1>19, <1>20, <1>21, <1>22, <1>23, <1>24, <1>26, <1>27
    DEF Next, Continue, Locked, Call

-----------------------------------------------------------------------------
(* Locks, wait queues and wake-ups.                                        *)

\* At first nobody has the lock or waits.
LEMMA InitWakeInv == Init => WakeInv
  BY Zenon, WorkAssumption
  DEF Init, WakeInv, LockInv, MoreWork, WaitersQueued, Noticed, Threads, Clients

\* Every step keeps the lock with its holder and the wake-ups noticed.
LEMMA NextWakeInv == TypeInv /\ WakeInv /\ [Next]_vars => WakeInv'
PROOF
  <1> SUFFICES ASSUME TypeInv, WakeInv, [Next]_vars PROVE WakeInv'
    BY Zenon
  <1>0. /\ pc \in [Threads -> Labels] /\ sleep \in [Tasks -> 0..MaxSleep]
        /\ needed \in [Clients -> Nat] /\ remove_sequence \in Nat
        /\ work_done \subseteq Clients /\ towake \subseteq Clients
    BY Zenon DEF TypeInv, TypeOK, SchedTypeOK
  <1> USE <1>0, SleepAssumption, WorkAssumption
  <1> USE DEF WakeInv, LockInv, MoreWork, WaitersQueued, Noticed, MoreLocked, Threads, Clients,
              Goto, Caller
  <1>1. CASE UNCHANGED vars
    BY Zenon, <1>1 DEF vars, sched_vars, list, waits, ghosts
  <1>2. ASSUME NEW th \in Tasks, NEW w \in Works, queue_work(th, w) \/ queue_delayed_work(th, w)
        PROVE  WakeInv'
    <2>1. PICK to \in {"insert", "add_timer"} : test_and_set(th, w, to)
      BY Zenon, <1>2 DEF queue_work, queue_delayed_work
    <2> QED
      BY SMTT(30), <2>1 DEF test_and_set, sched_vars, waits
  <1>3. ASSUME NEW th \in Threads, add_timer(th) PROVE WakeInv'
    BY SMTT(30), <1>3 DEF add_timer, sched_vars, list, waits
  <1>4. ASSUME NEW d \in Delayed, timer_expired(d) PROVE WakeInv'
    BY SMTT(30), <1>4 DEF timer_expired, sched_vars, list, waits
  <1>5. ASSUME NEW th \in Threads, queue_work_locked(th) PROVE WakeInv'
    BY <1>5 DEF queue_work_locked, sched_vars, waits
  <1>6. ASSUME NEW th \in Threads, wake_more(th) PROVE WakeInv'
    BY Zenon, <1>6 DEF wake_more, list, waits
  <1>7. ASSUME NEW th \in Threads, wake_more_up(th) PROVE WakeInv'
    BY ZenonT(60), <1>7, SemUp DEF wake_more_up, wake_sem, list, waits
  <1>8. ASSUME NEW c \in Clients, NEW d \in Delayed, cancel_delayed_work(c, d) PROVE WakeInv'
    BY SMTT(30), <1>8 DEF cancel_delayed_work, sched_vars, list, waits
  <1>9. ASSUME NEW c \in Clients, dde_kit_timer_del(c) PROVE WakeInv'
    <2>1. UNCHANGED <<sched_vars, list, waits, lock, running>>
      BY Zenon, <1>9 DEF dde_kit_timer_del
    <2>2. PICK to \in {"cancel", "idle", "call"} :
            /\ pc[c] \in {"del_pending", "del"}
            /\ pc' = [pc EXCEPT ![c] = to]
      BY Zenon, <1>9 DEF dde_kit_timer_del
    <2> QED
      BY <2>1, <2>2 DEF sched_vars, list, waits
  <1>10. ASSUME NEW c \in Clients, cancel_release(c) PROVE WakeInv'
    BY SMTT(30), <1>10 DEF cancel_release, sched_vars, waits
  <1>11. ASSUME run_workqueue PROVE WakeInv'
    BY SMTT(30), <1>11 DEF run_workqueue, sched_vars, waits
  <1>12. ASSUME NEW c \in Clients, NEW w \in Works, run_scheduled_work(c, w) PROVE WakeInv'
    <2>1. PICK i \in DOMAIN worklist : TRUE
      BY Zenon, <1>12 DEF run_scheduled_work
    <2>2. worklist # << >>
      BY Zenon, NonEmpty
    <2> QED
      BY Zenon, <1>12, <2>2 DEF run_scheduled_work, sched_vars, waits
  <1>13. ASSUME NEW th \in Tasks, work_release(th) PROVE WakeInv'
    BY <1>13 DEF work_release, sched_vars, waits
  <1>14. ASSUME NEW th \in Tasks, work_end(th) PROVE WakeInv'
    BY Zenon, <1>14 DEF work_end, finish, sched_vars
  <1>15. ASSUME NEW th \in Tasks, wake_done(th) PROVE WakeInv'
    BY Zenon, <1>15 DEF wake_done, list
  <1>16. ASSUME NEW th \in Tasks, wake_done_up(th) PROVE WakeInv'
    BY ZenonT(60), <1>16, SemUp DEF wake_done_up, wake_sem, list
  <1>17. ASSUME NEW th \in Tasks, woken_done(th) PROVE WakeInv'
    BY ZenonT(60), <1>17 DEF woken_done, sched_vars, list, waits
  <1>18. ASSUME worker_state \/ worker_test \/ worker_check PROVE WakeInv'
    BY SMTT(30), <1>18 DEF worker_state, worker_test, worker_check, sched_vars, list, waits
  <1>19. ASSUME worker_add \/ worker_remove PROVE WakeInv'
    BY SMTT(30), <1>19 DEF worker_add, worker_remove, worker_queue, sched_vars, list
  <1>20. ASSUME NEW p \in Tasks, schedule(p) PROVE WakeInv'
    BY SMTT(30), <1>20 DEF schedule, AfterSchedule, sched_vars, list, waits
  <1>21. ASSUME NEW p \in Tasks, schedule_down(p) PROVE WakeInv'
    BY SMTT(30), <1>21, SemDown DEF schedule_down, AfterSchedule, list, waits
  <1>22. ASSUME NEW c \in Clients, flush_workqueue(c) \/ flush_again(c) PROVE WakeInv'
    <2>1. PICK n \in Nat, m \in Nat : wait_for(c, n, m)
      BY ZenonT(60), <1>22 DEF flush_workqueue, flush_again, TypeInv, TypeOK
    <2>2. CASE n > remove_sequence
      BY SMTT(30), <2>1, <2>2 DEF wait_for, list
    <2>3. CASE ~ (n > remove_sequence)
      BY ZenonT(60), <2>1, <2>3 DEF wait_for, list
    <2> QED
      BY Zenon, <2>2, <2>3
  <1>23. ASSUME flush_own PROVE WakeInv'
    BY Zenon, <1>23 DEF flush_own, sched_vars, list, waits
  <1> QED
    BY ZenonT(60), <1>1, <1>2, <1>3, <1>4, <1>5, <1>6, <1>7, <1>8, <1>9, <1>10, <1>11, <1>12,
       <1>13, <1>14, <1>15, <1>16, <1>17, <1>18, <1>19, <1>20, <1>21, <1>22, <1>23
    DEF Next, Continue, Locked, Call

-----------------------------------------------------------------------------
(* Where a pending work is.                                                *)

\* The pending work that a thread has taken and not yet put anywhere.
Held(th) ==
  IF pc[th] \in {"insert", "add_timer", "cancel"} THEN arg[th]
  ELSE IF pc[th] = "release" THEN Current(th).work ELSE NULL

Armed(w) == w \in Delayed /\ timer[w] = "armed"

Once(w) ==
  \A i, j \in DOMAIN worklist : worklist[i].work = w /\ worklist[j].work = w => i = j

\* A work that is pending is in one place: in the hands of a thread, on the
\* list or on a timer; and a work that is in one of them is pending.
Placed(w) ==
  /\ Queued(w) => w \in pending /\ ~ Armed(w)
  /\ Armed(w) => w \in pending
  /\ \A th \in Threads : Held(th) = w =>
       /\ w \in pending /\ ~ Armed(w) /\ ~ Queued(w)
       /\ \A u \in Threads : Held(u) = w => u = th
  /\ Once(w)

OnePlace == \A w \in Works : Placed(w)

PendingInv == ~ raced => OnePlace /\ ~ bug

\* The steps that move no work.
MovesNone ==
  \/ UNCHANGED vars
  \/ \E th \in Threads : wake_more(th) \/ wake_more_up(th)
  \/ \E c \in Clients, d \in Delayed : cancel_delayed_work(c, d)
  \/ \E th \in Tasks :
       \/ work_end(th) \/ wake_done(th) \/ wake_done_up(th) \/ woken_done(th)
       \/ schedule(th) \/ schedule_down(th)
  \/ worker_state \/ worker_test \/ worker_check \/ worker_add \/ worker_remove \/ flush_own
  \/ \E c \in Clients : flush_workqueue(c) \/ flush_again(c)

Hands == {"insert", "add_timer", "cancel", "release"}

\* A step of th that leaves the hands of the other threads alone.
OnlyHands(th) ==
  \A u \in Threads \ {th} : pc'[u] = pc[u] /\ arg'[u] = arg[u] /\ running'[u] = running[u]

\* What the other threads hold does not change.
LEMMA HeldOfOthers ==
  ASSUME NEW th, OnlyHands(th)
  PROVE  \A u \in Threads \ {th} : Held(u)' = Held(u)
  BY Zenon DEF OnlyHands, Held, Current

\* A step between control points that hold nothing changes no hand.
LEMMA HeldByNone ==
  ASSUME NEW th \in Threads, OnlyHands(th), pc[th] \notin Hands, pc'[th] \notin Hands
  PROVE  \A u \in Threads : Held(u)' = Held(u)
PROOF
  <1>1. Held(th) = NULL /\ Held(th)' = NULL
    BY Zenon DEF Held, Hands
  <1> QED
    BY Zenon, <1>1, HeldOfOthers

\* Those steps leave every work where it is.
LEMMA NoneMoved ==
  ASSUME TypeInv, MovesNone
  PROVE  /\ UNCHANGED <<pending, worklist, timer, bug, raced>>
         /\ \A u \in Threads : Held(u)' = Held(u)
PROOF
  <1>0. pc \in [Threads -> Labels] /\ arg \in [Threads -> Works \cup {NULL}]
          /\ running \in [Threads -> Seq(Entry)]
    BY Zenon DEF TypeInv, TypeOK
  <1> USE <1>0, WorkAssumption
  <1>1. UNCHANGED <<pending, worklist, timer, bug, raced>>
    BY Zenon DEF MovesNone, vars, list, ghosts, wake_more, wake_more_up, cancel_delayed_work, work_end,
           finish, wake_done, wake_done_up, woken_done, schedule, schedule_down, worker_state,
           worker_test, worker_check, worker_add, worker_remove, worker_queue, flush_own,
           flush_workqueue, flush_again, wait_for
  <1>2. \/ UNCHANGED vars
        \/ \E th \in Threads : OnlyHands(th) /\ pc[th] \notin Hands /\ pc'[th] \notin Hands
    <2> USE DEF OnlyHands, Hands, Goto, Caller, Threads, Clients, AfterSchedule
    <2>1. ASSUME NEW th \in Threads, wake_more(th) \/ wake_more_up(th)
          PROVE  OnlyHands(th) /\ pc[th] \notin Hands /\ pc'[th] \notin Hands
      BY Zenon, <2>1 DEF wake_more, wake_more_up
    <2>2. ASSUME NEW c \in Clients, NEW d \in Delayed, cancel_delayed_work(c, d)
          PROVE  OnlyHands(c) /\ pc[c] \notin Hands /\ pc'[c] \notin Hands
      BY Zenon, <2>2 DEF cancel_delayed_work
    <2>3. ASSUME NEW th \in Tasks, work_end(th) \/ wake_done(th) \/ wake_done_up(th) \/ woken_done(th)
          PROVE  OnlyHands(th) /\ pc[th] \notin Hands /\ pc'[th] \notin Hands
      BY Zenon, <2>3 DEF work_end, finish, wake_done, wake_done_up, woken_done
    <2>4. ASSUME NEW th \in Tasks, schedule(th) \/ schedule_down(th)
          PROVE  OnlyHands(th) /\ pc[th] \notin Hands /\ pc'[th] \notin Hands
      BY Zenon, <2>4 DEF schedule, schedule_down
    <2>5. ASSUME \/ worker_state \/ worker_test \/ worker_check
                 \/ worker_add \/ worker_remove \/ flush_own
          PROVE  OnlyHands(Worker) /\ pc[Worker] \notin Hands /\ pc'[Worker] \notin Hands
      BY Zenon, <2>5 DEF worker_state, worker_test, worker_check, worker_add, worker_remove,
                  worker_queue, flush_own
    <2>6. ASSUME NEW c \in Clients, flush_workqueue(c) \/ flush_again(c)
          PROVE  OnlyHands(c) /\ pc[c] \notin Hands /\ pc'[c] \notin Hands
      BY ZenonT(60), <2>6 DEF flush_workqueue, flush_again, wait_for
    <2> QED
      BY Zenon, <2>1, <2>2, <2>3, <2>4, <2>5, <2>6 DEF MovesNone
  <1>3. CASE UNCHANGED vars
    <2>1. UNCHANGED <<pc, arg, running>>
      BY Zenon, <1>3 DEF vars
    <2> QED
      BY Zenon, <1>1, <2>1 DEF Held, Current
  <1> QED
    BY Zenon, <1>1, <1>2, <1>3, HeldByNone

\* Whether a work is queued depends on the list alone.
LEMMA ListUnchanged ==
  ASSUME NEW w, worklist' = worklist
  PROVE  (Queued(w)' <=> Queued(w)) /\ (Once(w)' <=> Once(w))
  BY Zenon DEF Queued, Once

\* Whether a work is armed depends on its timer alone.
LEMMA TimersUnchanged ==
  ASSUME NEW w, timer' = timer
  PROVE  Armed(w)' <=> Armed(w)
  BY Zenon DEF Armed

\* What a step of th may do with a work that it does not put anywhere.
LEMMA Kept ==
  ASSUME NEW w \in Works, Placed(w), w \in pending => w \in pending',
         Queued(w)' => Queued(w), Once(w)', Armed(w)' => Armed(w),
         \A u \in Threads : Held(u)' = w => Held(u) = w
  PROVE  Placed(w)'
  BY Zenon DEF Placed

\* A thread clears WORK_STRUCT_PENDING of the work in its hands.
LEMMA Released ==
  ASSUME OnePlace, NEW th \in Threads, NEW w \in Works,
         Held(th) = w, Held(th)' = NULL, OnlyHands(th),
         UNCHANGED <<worklist, timer>>, pending' = pending \ {w}
  PROVE  OnePlace'
PROOF
  <1> SUFFICES ASSUME NEW x \in Works PROVE Placed(x)'
    BY Zenon DEF OnePlace
  <1>1. Placed(x)
    BY Zenon DEF OnePlace
  <1>2. (Queued(x)' <=> Queued(x)) /\ (Armed(x)' <=> Armed(x)) /\ (Once(x)' <=> Once(x))
    BY Zenon, ListUnchanged, TimersUnchanged
  <1>3. \A u \in Threads : Held(u)' = x => u # th /\ Held(u) = x
    BY Zenon, WorkAssumption, HeldOfOthers
  <1>4. CASE x = w
    BY Zenon, <1>1, <1>2, <1>3, <1>4 DEF Placed
  <1>5. CASE x # w
    BY Zenon, <1>1, <1>2, <1>3, <1>5 DEF Placed
  <1> QED
    BY Zenon, <1>4, <1>5

\* A thread takes entry i off the list and executes it.
LEMMA Taken ==
  ASSUME TypeInv, OnePlace, NEW th \in Tasks, NEW i \in DOMAIN worklist,
         worklist' = Without(worklist, i), Push(th, worklist[i]),
         pc[th] \notin Hands, pc' = [pc EXCEPT ![th] = "release"],
         UNCHANGED <<pending, timer, arg>>
  PROVE  OnePlace'
PROOF
  <1>0. /\ pc \in [Threads -> Labels] /\ arg \in [Threads -> Works \cup {NULL}]
        /\ running \in [Threads -> Seq(Entry)] /\ worklist \in Seq(Entry)
    BY ZenonT(60) DEF TypeInv, TypeOK
  <1> USE <1>0, WorkAssumption
  <1>1. /\ DOMAIN worklist = 1..Len(worklist) /\ Len(worklist) \in Nat
        /\ DOMAIN worklist' = 1..(Len(worklist) - 1)
        /\ \A j \in 1..(Len(worklist) - 1) :
             worklist'[j] = IF j < i THEN worklist[j] ELSE worklist[j + 1]
    BY SMTT(30), WithoutProperties, LenProperties
  <1>2. worklist[i] \in Entry
    BY Zenon, <1>1, ElementOfSeq
  <1>3. running'[th] = Append(running[th], worklist[i])
    BY Zenon DEF Push, Threads
  <1>4. Current(th)' = worklist[i]
    <2>1. /\ Len(Append(running[th], worklist[i])) = Len(running[th]) + 1
          /\ Append(running[th], worklist[i])[Len(running[th]) + 1] = worklist[i]
      BY <1>2, AppendProperties DEF Threads
    <2> QED
      BY Zenon, <1>3, <2>1 DEF Current
  <1>5. OnlyHands(th) /\ Held(th)' = worklist[i].work
    BY Zenon, <1>4 DEF OnlyHands, Held, Threads, Push
  <1>6. Held(th) = NULL
    BY Zenon DEF Held, Hands
  <1>7. \A j \in DOMAIN worklist' :
          \E k \in DOMAIN worklist \ {i} :
            worklist'[j] = worklist[k] /\ k = IF j < i THEN j ELSE j + 1
    BY <1>1
  <1> SUFFICES ASSUME NEW w \in Works PROVE Placed(w)'
    BY Zenon DEF OnePlace
  <1>8. Placed(w)
    BY Zenon DEF OnePlace
  <1>9. (Queued(w)' => Queued(w)) /\ (Armed(w)' <=> Armed(w))
    BY ZenonT(60), <1>7 DEF Queued, Armed
  <1>10. Once(w)'
    BY <1>1, <1>7, <1>8 DEF Placed, Once
  <1>11. CASE w = worklist[i].work
    <2>1. Queued(w) /\ Once(w)
      BY Zenon, <1>8, <1>11 DEF Queued, Placed
    <2>2. ~ Queued(w)'
      BY ZenonT(60), <1>7, <1>11, <2>1 DEF Queued, Once
    <2>3. \A u \in Threads : Held(u)' = w => u = th
      BY Zenon, <1>5, <1>8, <2>1, HeldOfOthers DEF Placed
    <2> QED
      BY Zenon, <1>8, <1>9, <1>10, <2>1, <2>2, <2>3 DEF Placed
  <1>12. CASE w # worklist[i].work
    BY Zenon, <1>5, <1>8, <1>9, <1>10, <1>12, HeldOfOthers, Kept
  <1> QED
    BY Zenon, <1>11, <1>12

\* At first no work is pending, and none is anywhere.
LEMMA InitPendingInv == Init => PendingInv
PROOF
  <1> SUFFICES ASSUME Init PROVE OnePlace /\ ~ bug
    BY Zenon DEF PendingInv
  <1>1. \A th \in Threads : Held(th) = NULL
    BY Zenon DEF Init, Held
  <1>2. DOMAIN worklist = {}
    BY DEF Init
  <1> QED
    BY Zenon, <1>1, <1>2, WorkAssumption DEF Init, OnePlace, Placed, Once, Queued, Armed

\* Every step keeps each pending work in one place, and no BUG_ON() fires.
LEMMA NextPendingInv == TypeInv /\ PendingInv /\ [Next]_vars => PendingInv'
PROOF
  <1> SUFFICES ASSUME TypeInv, PendingInv, [Next]_vars, ~ raced' PROVE OnePlace' /\ ~ bug'
    BY Zenon DEF PendingInv
  <1>0. /\ pc \in [Threads -> Labels] /\ arg \in [Threads -> Works \cup {NULL}]
        /\ running \in [Threads -> Seq(Entry)] /\ worklist \in Seq(Entry)
        /\ timer \in [Delayed -> {"none", "armed", "fired"}] /\ pending \subseteq Works
        /\ Control
    BY Zenon DEF TypeInv, TypeOK
  <1> USE <1>0, WorkAssumption
  <1> USE DEF Threads, Clients, Goto, Forget, Caller
  <1>1. CASE MovesNone
    <2>1. OnePlace /\ ~ bug
      BY Zenon, <1>1, NoneMoved DEF PendingInv
    <2>2. ASSUME NEW w \in Works PROVE Placed(w)'
      BY SMTT(30), <1>1, <2>1, NoneMoved, ListUnchanged, TimersUnchanged DEF OnePlace, Placed
    <2> QED
      BY SMTT(30), <1>1, <2>1, <2>2, NoneMoved DEF OnePlace
  <1>2. ASSUME NEW th \in Tasks, NEW w \in Works, queue_work(th, w) \/ queue_delayed_work(th, w)
        PROVE  OnePlace' /\ ~ bug'
    <2>1. PICK to \in {"insert", "add_timer"} : test_and_set(th, w, to)
      BY Zenon, <1>2 DEF queue_work, queue_delayed_work
    <2>2. OnePlace
      BY Zenon, <2>1 DEF test_and_set, PendingInv
    <2>3. ~ Queued(w) /\ ~ Armed(w) /\ \A u \in Threads : Held(u) # w
      BY Zenon, <2>1, <2>2 DEF test_and_set, OnePlace, Placed
    <2>4. ~ bug'
      BY <1>2, <2>3, Zenon DEF queue_work, queue_delayed_work, Armed
    <2>5. OnlyHands(th) /\ Held(th)' = w
      BY Zenon, <2>1 DEF test_and_set, OnlyHands, Held
    <2>6. UNCHANGED <<worklist, timer>> /\ pending' = pending \cup {w}
      BY Zenon, <2>1 DEF test_and_set
    <2>7. ASSUME NEW x \in Works PROVE Placed(x)'
      BY SMTT(30), <2>2, <2>3, <2>5, <2>6, HeldOfOthers, ListUnchanged, TimersUnchanged
      DEF OnePlace, Placed
    <2> QED
      BY Zenon, <2>4, <2>7 DEF OnePlace
  <1>3. ASSUME NEW th \in Threads, add_timer(th) PROVE OnePlace' /\ ~ bug'
    <2>1. OnePlace /\ ~ bug'
      BY Zenon, <1>3 DEF add_timer, ghosts, PendingInv
    <2>2. OnlyHands(th) /\ Held(th)' = NULL /\ Held(th) = arg[th] /\ arg[th] \in Delayed
      BY Zenon, <1>3 DEF add_timer, OnlyHands, Held, Control
    <2>3. UNCHANGED <<worklist, pending>> /\ timer' = [timer EXCEPT ![arg[th]] = "armed"]
      BY Zenon, <1>3 DEF add_timer, list
    <2>4. ASSUME NEW x \in Works PROVE Placed(x)'
      <3>1. Armed(x)' <=> x = arg[th] \/ Armed(x)
        BY SMTT(30), <2>2, <2>3 DEF Armed
      <3> QED
        BY SMTT(30), <2>1, <2>2, <2>3, <3>1, HeldOfOthers, ListUnchanged DEF OnePlace, Placed
    <2> QED
      BY Zenon, <2>1, <2>4 DEF OnePlace
  <1>4. ASSUME NEW d \in Delayed, timer_expired(d) PROVE OnePlace' /\ ~ bug'
    <2>1. OnePlace /\ ~ bug'
      BY Zenon, <1>4 DEF timer_expired, ghosts, PendingInv
    <2>2. OnlyHands(Timer) /\ Held(Timer)' = d /\ Armed(d)
      BY Zenon, <1>4 DEF timer_expired, OnlyHands, Held, Armed
    <2>3. UNCHANGED <<worklist, pending>> /\ timer' = [timer EXCEPT ![d] = "fired"]
      BY ZenonT(60), <1>4 DEF timer_expired, list
    <2>4. ASSUME NEW x \in Works PROVE Placed(x)'
      <3>1. Armed(x)' <=> x # d /\ Armed(x)
        BY Zenon, <2>3 DEF Armed
      <3> QED
        BY SMTT(30), <2>1, <2>2, <2>3, <3>1, HeldOfOthers, ListUnchanged DEF OnePlace, Placed
    <2> QED
      BY Zenon, <2>1, <2>4 DEF OnePlace
  <1>5. ASSUME NEW th \in Threads, queue_work_locked(th) PROVE OnePlace' /\ ~ bug'
    <2> DEFINE e == [work |-> arg[th], seq |-> insert_sequence + 1]
    <2>1. OnePlace
      BY Zenon, <1>5 DEF queue_work_locked, PendingInv
    <2>2. OnlyHands(th) /\ Held(th)' = NULL /\ Held(th) = arg[th] /\ arg[th] \in Works
      BY Zenon, <1>5 DEF queue_work_locked, OnlyHands, Held, Control
    <2>3. ~ bug'
      <3>1. arg[th] \in pending
        BY ZenonT(60), <2>1, <2>2 DEF OnePlace, Placed
      <3> QED
        BY <1>5, <3>1, Zenon DEF queue_work_locked
    <2>4. UNCHANGED <<timer, pending>> /\ worklist' = Append(worklist, e)
      BY Zenon, <1>5 DEF queue_work_locked
    <2>5. e.work = arg[th] /\ e \in Entry
      BY SMTT(30), <2>2 DEF TypeInv, TypeOK, Entry
    <2> HIDE DEF e
    <2>6. /\ DOMAIN worklist = 1..Len(worklist) /\ Len(worklist) \in Nat
          /\ DOMAIN worklist' = 1..(Len(worklist) + 1)
          /\ \A i \in DOMAIN worklist : worklist'[i] = worklist[i]
          /\ worklist'[Len(worklist) + 1] = e
      BY SMTT(30), <2>4, <2>5, Appended
    <2>7. ASSUME NEW x \in Works PROVE Placed(x)'
      <3>1. Queued(x)' <=> x = arg[th] \/ Queued(x)
        <4>1. ASSUME Queued(x)' PROVE x = arg[th] \/ Queued(x)
          <5>1. PICK i \in DOMAIN worklist' : worklist'[i].work = x
            BY ZenonT(60), <4>1 DEF Queued
          <5>2. i \in DOMAIN worklist \/ i = Len(worklist) + 1
            BY SMTT(30), <2>6
          <5> QED
            BY Zenon, <2>5, <2>6, <5>1, <5>2 DEF Queued
        <4>2. ASSUME Queued(x) PROVE Queued(x)'
          <5>1. PICK i \in DOMAIN worklist : worklist[i].work = x
            BY Zenon, <4>2 DEF Queued
          <5>2. i \in DOMAIN worklist'
            BY <2>6
          <5> QED
            BY Zenon, <2>6, <5>1, <5>2 DEF Queued
        <4>3. ASSUME x = arg[th] PROVE Queued(x)'
          <5>1. Len(worklist) + 1 \in DOMAIN worklist'
            BY SMTT(30), <2>6
          <5> QED
            BY ZenonT(60), <2>5, <2>6, <4>3, <5>1 DEF Queued
        <4> QED
          BY Zenon, <4>1, <4>2, <4>3
      <3>2. Once(x)'
        BY SMTT(30), <2>1, <2>2, <2>5, <2>6 DEF OnePlace, Placed, Once, Queued
      <3> QED
        BY SMTT(30), <2>1, <2>2, <2>4, <3>1, <3>2, HeldOfOthers, TimersUnchanged DEF OnePlace, Placed
    <2> QED
      BY Zenon, <2>3, <2>7 DEF OnePlace
  <1>6. ASSUME NEW c \in Clients, dde_kit_timer_del(c) PROVE OnePlace' /\ ~ bug'
    <2>1. /\ ~ raced /\ UNCHANGED <<worklist, pending, bug, running>>
          /\ timer' = [timer EXCEPT ![arg[c]] = "none"]
      BY Zenon, <1>6 DEF dde_kit_timer_del, list
    <2>2. pc[c] = "del_pending" <=> timer[arg[c]] = "armed"
      BY <1>6, Zenon DEF dde_kit_timer_del
    <2>3. OnePlace /\ ~ bug'
      BY Zenon, <2>1 DEF PendingInv
    <2>4. CASE Goto(c, "del_pending", "cancel") /\ UNCHANGED arg
      <3>1. OnlyHands(c) /\ Held(c)' = arg[c] /\ Armed(arg[c]) /\ arg[c] \in Delayed
        BY ZenonT(60), <2>1, <2>2, <2>4 DEF OnlyHands, Held, Armed, Control
      <3>2. ASSUME NEW x \in Works PROVE Placed(x)'
        <4>1. Armed(x)' <=> x # arg[c] /\ Armed(x)
          BY Zenon, <2>1, <3>1 DEF Armed
        <4> QED
          BY SMTT(30), <2>1, <2>3, <3>1, <4>1, HeldOfOthers, ListUnchanged DEF OnePlace, Placed
      <3> QED
        BY Zenon, <2>3, <3>2 DEF OnePlace
    <2>5. CASE Goto(c, "del", Caller(c)) /\ Forget(c)
      <3>1. \A u \in Threads : Held(u)' = Held(u)
        BY ZenonT(60), <2>1, <2>5, HeldByNone DEF OnlyHands, Hands
      <3>2. ASSUME NEW x \in Works PROVE Placed(x)'
        <4>1. Armed(x)' => Armed(x)
          BY Zenon, <2>1 DEF Armed
        <4> QED
          BY SMTT(30), <2>1, <2>3, <3>1, <4>1, ListUnchanged DEF OnePlace, Placed
      <3> QED
        BY Zenon, <2>3, <3>2 DEF OnePlace
    <2> QED
      BY Zenon, <1>6, <2>4, <2>5 DEF dde_kit_timer_del
  <1>7. ASSUME NEW c \in Clients, cancel_release(c) PROVE OnePlace' /\ ~ bug'
    <2>1. OnePlace /\ ~ bug'
      BY Zenon, <1>7 DEF cancel_release, ghosts, PendingInv
    <2>2. OnlyHands(c) /\ Held(c)' = NULL /\ Held(c) = arg[c] /\ arg[c] \in Works
      BY Zenon, <1>7 DEF cancel_release, OnlyHands, Held, Control
    <2>3. UNCHANGED <<worklist, timer>> /\ pending' = pending \ {arg[c]}
      BY Zenon, <1>7 DEF cancel_release
    <2> QED
      BY Zenon, <2>1, <2>2, <2>3, Released
  <1>8. ASSUME run_workqueue PROVE OnePlace' /\ ~ bug'
    <2>1. OnePlace /\ ~ bug' /\ UNCHANGED <<pending, timer, arg>>
      BY Zenon, <1>8 DEF run_workqueue, ghosts, PendingInv
    <2>2. CASE worklist = << >>
      <3>1. /\ UNCHANGED <<worklist, running>> /\ pc[Worker] = "run"
            /\ \E to \in {"set_state", "call"} : pc' = [pc EXCEPT ![Worker] = to]
        BY Zenon, <1>8, <2>2 DEF run_workqueue
      <3>2. \A u \in Threads : Held(u)' = Held(u)
        <4>1. OnlyHands(Worker)
          BY Zenon, <2>1, <3>1 DEF OnlyHands
        <4>2. pc[Worker] \notin Hands /\ pc'[Worker] \notin Hands
          BY Zenon, <3>1 DEF Hands
        <4> QED
          BY Zenon, <4>1, <4>2, HeldByNone
      <3>3. ASSUME NEW x \in Works PROVE Placed(x)'
        BY Zenon, <2>1, <3>1, <3>2, ListUnchanged, TimersUnchanged DEF OnePlace, Placed
      <3> QED
        BY Zenon, <2>1, <3>3 DEF OnePlace
    <2>3. CASE worklist # << >>
      <3>1. /\ 1 \in DOMAIN worklist /\ Head(worklist) = worklist[1]
            /\ Tail(worklist) = Without(worklist, 1)
        BY Zenon, <2>3, HeadIsFirst
      <3>2. /\ worklist' = Tail(worklist) /\ Push(Worker, Head(worklist))
            /\ pc[Worker] = "run" /\ pc' = [pc EXCEPT ![Worker] = "release"]
        BY Zenon, <1>8, <2>3 DEF run_workqueue
      <3> QED
        BY ZenonT(60), <2>1, <3>1, <3>2, Taken DEF Hands
    <2> QED
      BY Zenon, <2>2, <2>3
  <1>9. ASSUME NEW c \in Clients, NEW w \in Works, run_scheduled_work(c, w)
        PROVE  OnePlace' /\ ~ bug'
    <2>1. OnePlace /\ ~ bug' /\ UNCHANGED <<pending, timer, arg>>
      BY Zenon, <1>9 DEF run_scheduled_work, ghosts, PendingInv
    <2>2. PICK i \in DOMAIN worklist :
            Push(c, worklist[i]) /\ worklist' = Without(worklist, i)
      BY Zenon, <1>9 DEF run_scheduled_work, Without
    <2>3. pc[c] = "idle" /\ pc' = [pc EXCEPT ![c] = "release"]
      BY Zenon, <1>9 DEF run_scheduled_work
    <2> QED
      BY Zenon, <2>1, <2>2, <2>3, Taken DEF Hands
  <1>10. ASSUME NEW th \in Tasks, work_release(th) PROVE OnePlace' /\ ~ bug'
    <2>1. OnePlace /\ ~ bug'
      BY Zenon, <1>10 DEF work_release, ghosts, PendingInv
    <2>2. OnlyHands(th) /\ Held(th)' = NULL /\ Held(th) = Current(th).work
      BY Zenon, <1>10 DEF work_release, OnlyHands, Held, Current
    <2>3. Current(th).work \in Works
      BY Zenon, <1>10, Finished DEF work_release, Control, Entry
    <2>4. UNCHANGED <<worklist, timer>> /\ pending' = pending \ {Current(th).work}
      BY Zenon, <1>10 DEF work_release
    <2> QED
      BY Zenon, <2>1, <2>2, <2>3, <2>4, Released
  <1>11. Next \/ UNCHANGED vars
    BY Zenon
  <1> QED
    BY ZenonT(60), <1>1, <1>2, <1>3, <1>4, <1>5, <1>6, <1>7, <1>8, <1>9, <1>10, <1>11
    DEF Next, Continue, Locked, Call, MovesNone

-----------------------------------------------------------------------------
(* The order of the sequence numbers.                                      *)

Listed(n) == \E i \in DOMAIN worklist : worklist[i].seq = n

Runs(th, n) == \E k \in DOMAIN running[th] : running[th][k].seq = n

\* No two works that are queued or running have the same number.
Numbered(n) ==
  /\ \A i, j \in DOMAIN worklist : worklist[i].seq = n /\ worklist[j].seq = n => i = j
  /\ Listed(n) => n <= insert_sequence /\ \A th \in Tasks : ~ Runs(th, n)
  /\ \A th \in Tasks : Runs(th, n) =>
       /\ n <= insert_sequence
       /\ \A u \in Tasks : Runs(u, n) => u = th
       /\ \A k, l \in DOMAIN running[th] :
            running[th][k].seq = n /\ running[th][l].seq = n => k = l

\* Without overtaking, the works that have ended are the first ones, and no
\* flush has returned early.
InOrder ==
  ~ overtaken =>
    /\ remove_sequence <= insert_sequence
    /\ \A n \in Nat : Listed(n) \/ (\E th \in Tasks : Runs(th, n)) => n > remove_sequence
    /\ ~ early

Flushing == {"schedule", "down", "relock"}

SequenceInv ==
  /\ \A n \in Nat : Numbered(n)
  /\ InOrder
  /\ \A c \in Clients : pc[c] \in Flushing => needed[c] = entered[c]

\* The numbers of the unfinished works.
LEMMA UnfinishedNumbers ==
  ASSUME TypeInv, NEW e \in Unfinished
  PROVE  e.seq \in Nat /\ (Listed(e.seq) \/ \E th \in Tasks : Runs(th, e.seq))
PROOF
  <1>1. CASE \E i \in DOMAIN worklist : e = worklist[i]
    <2>1. PICK i \in DOMAIN worklist : e = worklist[i]
      BY Zenon, <1>1
    <2>2. worklist[i] \in Entry
      BY Zenon, LenProperties, ElementOfSeq DEF TypeInv, TypeOK
    <2> QED
      BY Zenon, <2>1, <2>2 DEF Listed, Entry
  <1>2. CASE \E th \in Tasks : \E k \in DOMAIN running[th] : e = running[th][k]
    <2>0. PICK th \in Tasks : \E k \in DOMAIN running[th] : e = running[th][k]
      BY Zenon, <1>2
    <2>1. PICK k \in DOMAIN running[th] : e = running[th][k]
      BY Zenon, <2>0
    <2>2. running[th] \in Seq(Entry)
      BY Zenon DEF TypeInv, TypeOK, Threads
    <2>3. running[th][k] \in Entry
      BY Zenon, <2>2, LenProperties, ElementOfSeq
    <2> QED
      BY Zenon, <2>1, <2>3 DEF Runs, Entry
  <1> QED
    BY Zenon, <1>1, <1>2 DEF Unfinished

\* The steps that leave lists and counters alone.
Uncounted ==
  /\ UNCHANGED <<worklist, running, insert_sequence, remove_sequence, overtaken, early,
                 needed, entered>>
  /\ \A c \in Clients : pc'[c] \in Flushing => pc[c] \in Flushing

\* Those steps keep the order of the numbers.
LEMMA UncountedKeeps == SequenceInv /\ Uncounted => SequenceInv'
PROOF
  <1> SUFFICES ASSUME SequenceInv, Uncounted PROVE SequenceInv'
    BY ZenonT(60)
  <1>1. ASSUME NEW n \in Nat PROVE Numbered(n)'
    BY DEF SequenceInv, Uncounted, Numbered, Listed, Runs
  <1>2. InOrder'
    BY Zenon DEF SequenceInv, Uncounted, InOrder, Listed, Runs
  <1>3. \A c \in Clients : pc'[c] \in Flushing => needed'[c] = entered'[c]
    BY Zenon DEF SequenceInv, Uncounted
  <1> QED
    BY Zenon, <1>1, <1>2, <1>3 DEF SequenceInv

\* Every step but those that queue, take or end a work and those of a flush.
LEMMA UncountedSteps ==
  ASSUME TypeInv,
         \/ UNCHANGED vars
         \/ \E th \in Tasks, w \in Works : queue_work(th, w) \/ queue_delayed_work(th, w)
         \/ \E th \in Threads : add_timer(th) \/ wake_more(th) \/ wake_more_up(th)
         \/ \E d \in Delayed : timer_expired(d)
         \/ \E c \in Clients : \/ \E d \in Delayed : cancel_delayed_work(c, d)
                               \/ dde_kit_timer_del(c) \/ cancel_release(c)
         \/ run_workqueue /\ worklist = << >>
         \/ \E th \in Tasks :
              \/ work_release(th) \/ wake_done(th) \/ wake_done_up(th) \/ woken_done(th)
              \/ schedule(th) \/ schedule_down(th)
         \/ worker_state \/ worker_test \/ worker_check \/ worker_add \/ worker_remove
         \/ flush_own
  PROVE  Uncounted
PROOF
  <1>0. pc \in [Threads -> Labels]
    BY Zenon DEF TypeInv, TypeOK
  <1> USE <1>0, WorkAssumption
  <1> USE DEF Uncounted, Flushing, Threads, Clients, Goto, Caller
  <1>1. CASE UNCHANGED vars
    BY Zenon, <1>1 DEF vars, list, waits, ghosts
  <1>2. ASSUME NEW th \in Tasks, NEW w \in Works, queue_work(th, w) \/ queue_delayed_work(th, w)
        PROVE  Uncounted
    <2>1. PICK to \in {"insert", "add_timer"} : test_and_set(th, w, to)
      BY Zenon, <1>2 DEF queue_work, queue_delayed_work
    <2> QED
      BY Zenon, <2>1 DEF test_and_set, waits
  <1>3. ASSUME NEW th \in Threads, add_timer(th) \/ wake_more(th) \/ wake_more_up(th)
        PROVE  Uncounted
    BY Zenon, <1>3 DEF add_timer, wake_more, wake_more_up, list, waits, ghosts
  <1>4. ASSUME NEW d \in Delayed, timer_expired(d) PROVE Uncounted
    BY Zenon, <1>4 DEF timer_expired, list, waits, ghosts
  <1>5. ASSUME NEW c \in Clients, NEW d \in Delayed, cancel_delayed_work(c, d) PROVE Uncounted
    BY Zenon, <1>5 DEF cancel_delayed_work, list, waits, ghosts
  <1>6. ASSUME NEW c \in Clients, dde_kit_timer_del(c) PROVE Uncounted
    <2>1. UNCHANGED <<list, waits, running, entered, early, overtaken>>
      BY Zenon, <1>6 DEF dde_kit_timer_del
    <2>2. PICK to \in {"cancel", "idle", "call"} : pc' = [pc EXCEPT ![c] = to]
      BY Zenon, <1>6 DEF dde_kit_timer_del
    <2> QED
      BY Zenon, <2>1, <2>2 DEF list, waits
  <1>7. ASSUME NEW c \in Clients, cancel_release(c) PROVE Uncounted
    BY Zenon, <1>7 DEF cancel_release, waits, ghosts
  <1>8. CASE run_workqueue /\ worklist = << >>
    BY Zenon, <1>8 DEF run_workqueue, waits, ghosts
  <1>9. ASSUME NEW th \in Tasks, work_release(th) \/ wake_done(th) \/ wake_done_up(th)
        PROVE  Uncounted
    BY Zenon, <1>9 DEF work_release, wake_done, wake_done_up, list, waits, ghosts
  <1>10. ASSUME NEW th \in Tasks, woken_done(th) \/ schedule(th) \/ schedule_down(th)
         PROVE  Uncounted
    BY Zenon, <1>10 DEF woken_done, schedule, schedule_down, AfterSchedule, list, waits, ghosts
  <1>11. CASE worker_state \/ worker_test \/ worker_check
    BY Zenon, <1>11 DEF worker_state, worker_test, worker_check, list, waits, ghosts
  <1>12. CASE worker_add \/ worker_remove \/ flush_own
    BY Zenon, <1>12 DEF worker_add, worker_remove, worker_queue, flush_own, list, waits, ghosts
  <1> QED
    BY ZenonT(60), <1>1, <1>2, <1>3, <1>4, <1>5, <1>6, <1>7, <1>8, <1>9, <1>10, <1>11, <1>12

\* What is where after a thread has taken entry i off the list.
LEMMA TakenOff ==
  ASSUME TypeInv, NEW th \in Tasks, NEW i \in DOMAIN worklist,
         worklist' = Without(worklist, i), Push(th, worklist[i])
  PROVE  /\ DOMAIN worklist = 1..Len(worklist) /\ Len(worklist) \in Nat
         /\ DOMAIN worklist' = 1..(Len(worklist) - 1)
         /\ \A j \in 1..(Len(worklist) - 1) :
              worklist'[j] = IF j < i THEN worklist[j] ELSE worklist[j + 1]
         /\ worklist[i] \in Entry
         /\ DOMAIN running[th] = 1..Len(running[th]) /\ Len(running[th]) \in Nat
         /\ DOMAIN running'[th] = 1..(Len(running[th]) + 1)
         /\ \A k \in DOMAIN running[th] : running'[th][k] = running[th][k]
         /\ running'[th][Len(running[th]) + 1] = worklist[i]
         /\ \A u \in Tasks \ {th} : running'[u] = running[u]
PROOF
  <1> DEFINE r == running[th]
  <1>0. /\ running \in [Threads -> Seq(Entry)] /\ worklist \in Seq(Entry)
        /\ r \in Seq(Entry) /\ th \in Threads
    BY Zenon DEF TypeInv, TypeOK, Threads
  <1>1. DOMAIN worklist = 1..Len(worklist) /\ Len(worklist) \in Nat
    BY Zenon, <1>0, LenProperties
  <1>2. /\ worklist' \in Seq(Entry) /\ Len(worklist') = Len(worklist) - 1
        /\ \A j \in 1..(Len(worklist) - 1) :
             worklist'[j] = IF j < i THEN worklist[j] ELSE worklist[j + 1]
    BY Zenon, <1>0, <1>1, WithoutProperties
  <1>3. DOMAIN worklist' = 1..(Len(worklist) - 1)
    BY Zenon, <1>2, LenProperties
  <1>4. worklist[i] \in Entry
    BY Zenon, <1>0, <1>1, ElementOfSeq
  <1> HIDE DEF r
  <1>5. running'[th] = Append(r, worklist[i]) /\ \A u \in Tasks \ {th} : running'[u] = running[u]
    BY Zenon, <1>0 DEF Push, Threads, r
  <1>6. /\ DOMAIN r = 1..Len(r) /\ Len(r) \in Nat
        /\ DOMAIN running'[th] = 1..(Len(r) + 1)
        /\ \A k \in DOMAIN r : running'[th][k] = r[k]
        /\ running'[th][Len(r) + 1] = worklist[i]
    BY SMTT(30), <1>0, <1>4, <1>5, Appended
  <1> QED
    BY Zenon, <1>1, <1>2, <1>3, <1>4, <1>5, <1>6 DEF r

\* A thread takes entry i off the list: its number moves with it.
LEMMA TakenNumber ==
  ASSUME TypeInv, SequenceInv, NEW th \in Tasks, NEW i \in DOMAIN worklist,
         worklist' = Without(worklist, i), Push(th, worklist[i]),
         pc[th] \notin Flushing, pc' = [pc EXCEPT ![th] = "release"],
         UNCHANGED <<insert_sequence, remove_sequence, overtaken, early, needed, entered>>
  PROVE  SequenceInv'
PROOF
  <1> DEFINE m == worklist[i].seq
             r == running[th]
  <1>0. pc \in [Threads -> Labels] /\ th \in Threads
    BY Zenon DEF TypeInv, TypeOK, Threads
  <1>1. /\ DOMAIN worklist = 1..Len(worklist) /\ Len(worklist) \in Nat
        /\ DOMAIN worklist' = 1..(Len(worklist) - 1)
        /\ \A j \in 1..(Len(worklist) - 1) :
             worklist'[j] = IF j < i THEN worklist[j] ELSE worklist[j + 1]
    BY Zenon, TakenOff
  <1>2. worklist[i] \in Entry /\ m \in Nat
    BY Zenon, TakenOff DEF Entry
  <1>3. \A u \in Tasks \ {th} : running'[u] = running[u]
    BY Zenon, TakenOff
  <1>4. /\ DOMAIN r = 1..Len(r) /\ Len(r) \in Nat
        /\ DOMAIN running'[th] = 1..(Len(r) + 1)
        /\ \A k \in DOMAIN r : running'[th][k] = r[k]
        /\ running'[th][Len(r) + 1] = worklist[i]
    BY Zenon, TakenOff
  <1> HIDE DEF r
  <1>5. \A j \in DOMAIN worklist' :
          \E k \in DOMAIN worklist \ {i} :
            worklist'[j] = worklist[k] /\ k = IF j < i THEN j ELSE j + 1
    BY SMTT(30), <1>1
  <1>6. Numbered(m) /\ Listed(m)
    BY Zenon, <1>2 DEF SequenceInv, Listed
  <1> HIDE DEF m
  <1>7. ASSUME NEW n \in Nat PROVE Numbered(n)' /\ (Listed(n)' => Listed(n))
                                /\ \A u \in Tasks : Runs(u, n)' => Runs(u, n) \/ (u = th /\ n = m)
    <2>1. Numbered(n)
      BY ZenonT(60) DEF SequenceInv
    <2>2. Listed(n)' => Listed(n) /\ n # m
      BY SMTT(30), <1>5, <1>6 DEF Listed, Numbered, m
    <2>3. \A u \in Tasks : Runs(u, n)' => Runs(u, n) \/ (u = th /\ n = m)
      <3>1. Runs(th, n)' => Runs(th, n) \/ n = m
        <4>1. ASSUME NEW k \in DOMAIN running'[th], running'[th][k].seq = n
              PROVE  Runs(th, n) \/ n = m
          <5>1. k \in DOMAIN r \/ k = Len(r) + 1
            BY SMTT(30), <1>4
          <5> QED
            BY ZenonT(60), <1>4, <4>1, <5>1 DEF Runs, m, r
        <4> QED
          BY Zenon, <4>1 DEF Runs
      <3> QED
        BY Zenon, <1>3, <3>1 DEF Runs
    <2>4. \A j, k \in DOMAIN worklist' : worklist'[j].seq = n /\ worklist'[k].seq = n => j = k
      <3>1. ASSUME NEW j \in DOMAIN worklist', NEW k \in DOMAIN worklist',
                   worklist'[j].seq = n, worklist'[k].seq = n
            PROVE  j = k
        <4>1. (IF j < i THEN j ELSE j + 1) = (IF k < i THEN k ELSE k + 1)
          <5>1. PICK a \in DOMAIN worklist : /\ worklist'[j] = worklist[a]
                                             /\ a = IF j < i THEN j ELSE j + 1
            BY Zenon, <1>5
          <5>2. PICK b \in DOMAIN worklist : /\ worklist'[k] = worklist[b]
                                             /\ b = IF k < i THEN k ELSE k + 1
            BY Zenon, <1>5
          <5>3. a = b
            BY Zenon, <2>1, <3>1, <5>1, <5>2 DEF Numbered
          <5> QED
            BY Zenon, <5>1, <5>2, <5>3
        <4> QED
          BY SMTT(30), <1>1, <4>1
      <3> QED
        BY ZenonT(60), <3>1
    <2>5. ASSUME NEW u \in Tasks, NEW k \in DOMAIN running'[u], NEW l \in DOMAIN running'[u],
                 running'[u][k].seq = n, running'[u][l].seq = n
          PROVE  k = l
      <3>1. CASE u # th
        BY ZenonT(60), <1>3, <2>1, <2>5, <3>1 DEF Numbered, Runs
      <3>2. CASE u = th
        <4>1. ~ Runs(th, m)
          BY Zenon, <1>6 DEF Numbered
        <4>2. k \in DOMAIN r \/ k = Len(r) + 1
          BY SMTT(30), <1>4, <3>2
        <4>3. l \in DOMAIN r \/ l = Len(r) + 1
          BY SMTT(30), <1>4, <3>2
        <4>4. CASE n = m
          BY ZenonT(60), <1>4, <2>5, <3>2, <4>1, <4>2, <4>3, <4>4 DEF Runs, r
        <4>5. CASE n # m
          <5>1. k \in DOMAIN r /\ l \in DOMAIN r /\ r[k].seq = n /\ r[l].seq = n
            BY ZenonT(60), <1>4, <2>5, <3>2, <4>2, <4>3, <4>5 DEF m
          <5> QED
            BY Zenon, <2>1, <3>2, <5>1 DEF Numbered, Runs, r
        <4> QED
          BY Zenon, <4>4, <4>5
      <3> QED
        BY Zenon, <3>1, <3>2
    <2>6. Listed(n)' => n <= insert_sequence' /\ \A u \in Tasks : ~ Runs(u, n)'
      BY Zenon, <2>1, <2>2, <2>3 DEF Numbered
    <2>7. \A u \in Tasks : Runs(u, n)' => n <= insert_sequence' /\ \A v \in Tasks : Runs(v, n)' => v = u
      BY Zenon, <1>6, <2>1, <2>3 DEF Numbered
    <2> QED
      BY ZenonT(60), <2>2, <2>3, <2>4, <2>5, <2>6, <2>7 DEF Numbered
  <1>8. InOrder'
    BY Zenon, <1>2, <1>6, <1>7 DEF SequenceInv, InOrder
  <1>9. \A c \in Clients : pc'[c] \in Flushing => needed'[c] = entered'[c]
    BY ZenonT(60), <1>0 DEF SequenceInv, Flushing, Clients, Threads
  <1> QED
    BY Zenon, <1>7, <1>8, <1>9 DEF SequenceInv

\* At first no work has a number.
LEMMA InitSequenceInv == Init => SequenceInv
PROOF
  <1> SUFFICES ASSUME Init PROVE SequenceInv
    BY Zenon
  <1>1. DOMAIN worklist = {} /\ \A th \in Tasks : DOMAIN running[th] = {}
    BY DEF Init, Threads
  <1>2. \A n \in Nat : ~ Listed(n) /\ \A th \in Tasks : ~ Runs(th, n)
    BY Zenon, <1>1 DEF Listed, Runs
  <1> QED
    BY SMTT(30), <1>1, <1>2 DEF Init, SequenceInv, Numbered, InOrder

\* Every step keeps the order of the numbers.
LEMMA NextSequenceInv == TypeInv /\ SequenceInv /\ [Next]_vars => SequenceInv'
PROOF
  <1> SUFFICES ASSUME TypeInv, SequenceInv, [Next]_vars PROVE SequenceInv'
    BY Zenon
  <1>0. /\ pc \in [Threads -> Labels] /\ running \in [Threads -> Seq(Entry)]
        /\ worklist \in Seq(Entry) /\ insert_sequence \in Nat /\ remove_sequence \in Nat
        /\ needed \in [Clients -> Nat] /\ entered \in [Clients -> Nat]
    BY Zenon DEF TypeInv, TypeOK
  <1>1. ASSUME NEW th \in Threads, queue_work_locked(th) PROVE SequenceInv'
    <2> DEFINE m == insert_sequence + 1
               e == [work |-> arg[th], seq |-> m]
    <2>1. /\ worklist' = Append(worklist, e) /\ insert_sequence' = m
          /\ UNCHANGED <<running, remove_sequence, overtaken, early, needed, entered>>
          /\ \E to \in {"more", "idle", "call"} : pc' = [pc EXCEPT ![th] = to]
      BY ZenonT(60), <1>1 DEF queue_work_locked, waits, Goto, Caller
    <2>2. e \in Entry /\ e.seq = m /\ m \in Nat /\ m > insert_sequence
      BY SMTT(30), <1>0, <1>1 DEF queue_work_locked, Goto, TypeInv, Control, Entry
    <2> HIDE DEF e, m
    <2>3. /\ DOMAIN worklist = 1..Len(worklist) /\ Len(worklist) \in Nat
          /\ DOMAIN worklist' = 1..(Len(worklist) + 1)
          /\ \A i \in DOMAIN worklist : worklist'[i] = worklist[i]
          /\ worklist'[Len(worklist) + 1] = e
      BY SMTT(30), <1>0, <2>1, <2>2, Appended
    <2>4. \A i \in DOMAIN worklist' : i \in DOMAIN worklist \/ i = Len(worklist) + 1
      BY SMTT(30), <2>3
    <2>5. Numbered(m) /\ ~ Listed(m) /\ \A u \in Tasks : ~ Runs(u, m)
      <3>1. Numbered(m)
        BY Zenon, <2>2 DEF SequenceInv
      <3>2. ~ (m <= insert_sequence)
        BY <1>0, <2>2
      <3> QED
        BY Zenon, <3>1, <3>2 DEF Numbered
    <2>6. ASSUME NEW n \in Nat
          PROVE  Numbered(n)' /\ (Listed(n)' => Listed(n) \/ n = m)
                 /\ \A u \in Tasks : Runs(u, n)' <=> Runs(u, n)
      <3>1. Numbered(n)
        BY Zenon DEF SequenceInv
      <3>2. Listed(n)' => Listed(n) \/ n = m
        BY Zenon, <2>2, <2>3, <2>4 DEF Listed
      <3>3. \A u \in Tasks : Runs(u, n)' <=> Runs(u, n)
        BY Zenon, <2>1 DEF Runs
      <3>4. \A i, j \in DOMAIN worklist' : worklist'[i].seq = n /\ worklist'[j].seq = n => i = j
        BY ZenonT(60), <2>2, <2>3, <2>4, <2>5, <3>1 DEF Numbered, Listed
      <3>5. Listed(n)' => n <= insert_sequence' /\ \A u \in Tasks : ~ Runs(u, n)'
        <4>1. CASE n = m
          BY SMTT(30), <2>1, <2>2, <2>5, <3>3, <4>1
        <4>2. CASE Listed(n)
          BY SMTT(30), <1>0, <2>1, <2>2, <3>1, <3>3, <4>2 DEF Numbered
        <4> QED
          BY ZenonT(60), <3>2, <4>1, <4>2
      <3>6. \A u \in Tasks : Runs(u, n)' =>
              /\ n <= insert_sequence'
              /\ \A v \in Tasks : Runs(v, n)' => v = u
              /\ \A k, l \in DOMAIN running'[u] :
                   running'[u][k].seq = n /\ running'[u][l].seq = n => k = l
        BY SMTT(30), <1>0, <2>1, <2>2, <3>1, <3>3 DEF Numbered
      <3> QED
        BY ZenonT(60), <3>2, <3>3, <3>4, <3>5, <3>6 DEF Numbered
    <2>7. InOrder'
      BY SMTT(30), <1>0, <2>1, <2>2, <2>6 DEF SequenceInv, InOrder
    <2>8. \A c \in Clients : pc'[c] \in Flushing => needed'[c] = entered'[c]
      BY Zenon, <1>0, <2>1 DEF SequenceInv, Flushing, Clients, Threads
    <2> QED
      BY Zenon, <2>6, <2>7, <2>8 DEF SequenceInv
  <1>2. CASE run_workqueue /\ worklist # << >>
    <2>1. /\ 1 \in DOMAIN worklist /\ Head(worklist) = worklist[1]
          /\ Tail(worklist) = Without(worklist, 1)
      BY Zenon, <1>0, <1>2, HeadIsFirst
    <2>2. /\ worklist' = Tail(worklist) /\ Push(Worker, Head(worklist))
          /\ pc[Worker] = "run" /\ pc' = [pc EXCEPT ![Worker] = "release"]
          /\ UNCHANGED <<insert_sequence, remove_sequence, overtaken, early, needed, entered>>
      BY Zenon, <1>2 DEF run_workqueue, Goto, waits, ghosts
    <2> QED
      BY Zenon, <2>1, <2>2, WorkAssumption, TakenNumber DEF Flushing
  <1>3. ASSUME NEW c \in Clients, NEW w \in Works, run_scheduled_work(c, w) PROVE SequenceInv'
    <2>1. PICK i \in DOMAIN worklist :
            Push(c, worklist[i]) /\ worklist' = Without(worklist, i)
      BY Zenon, <1>3 DEF run_scheduled_work, Without
    <2>2. /\ pc[c] = "idle" /\ pc' = [pc EXCEPT ![c] = "release"]
          /\ UNCHANGED <<insert_sequence, remove_sequence, overtaken, early, needed, entered>>
      BY Zenon, <1>3 DEF run_scheduled_work, Goto, waits, ghosts
    <2> QED
      BY Zenon, <2>1, <2>2, TakenNumber DEF Flushing, Clients
  <1>4. ASSUME NEW th \in Tasks, work_end(th) PROVE SequenceInv'
    <2> DEFINE r == running[th]
               m == Current(th).seq
    <2>1. /\ r # << >> /\ pc[th] = "call" /\ pc' = [pc EXCEPT ![th] = "done"]
          /\ running' = [running EXCEPT ![th] = Front1(r)]
          /\ remove_sequence' = remove_sequence + 1
          /\ UNCHANGED <<worklist, insert_sequence, needed, entered, early>>
      BY Zenon, <1>4 DEF work_end, finish, Goto, Front1, TypeInv, Control, Threads
    <2>2. ~ overtaken' => ~ overtaken /\ \A x \in Unfinished : ~ (x.seq < m)
      BY <1>4, Zenon DEF work_end, finish
    <2>3. r \in Seq(Entry) /\ th \in Threads
      BY ZenonT(60), <1>0 DEF Threads
    <2>4. /\ Len(r) \in Nat \ {0} /\ DOMAIN r = 1..Len(r)
          /\ DOMAIN Front1(r) = 1..(Len(r) - 1)
          /\ \A k \in 1..(Len(r) - 1) : Front1(r)[k] = r[k]
      BY SMTT(30), <2>1, <2>3, Front1Properties, LenProperties
    <2>5. m = r[Len(r)].seq /\ Len(r) \in DOMAIN r /\ m \in Nat
      <3>1. Current(th) \in Entry
        BY Zenon, <2>1, Finished
      <3> QED
        BY SMTT(30), <2>4, <3>1 DEF Current, Entry
    <2> HIDE DEF r, m
    <2>6. Numbered(m) /\ Runs(th, m)
      BY Zenon, <2>5 DEF SequenceInv, Runs, r
    <2>7. running'[th] = Front1(r) /\ \A u \in Tasks \ {th} : running'[u] = running[u]
      BY Zenon, <1>0, <2>1, <2>3 DEF Threads
    <2>8. ASSUME NEW n \in Nat
          PROVE  /\ Numbered(n)' /\ (Listed(n)' => Listed(n) /\ n # m)
                 /\ \A u \in Tasks : Runs(u, n)' => Runs(u, n) /\ n # m
      <3>1. Numbered(n)
        BY Zenon DEF SequenceInv
      <3>2. Listed(n)' <=> Listed(n)
        BY Zenon, <2>1 DEF Listed
      <3>3. Listed(n) => n # m
        BY Zenon, <2>6 DEF Numbered
      <3>4. Runs(th, n)' => Runs(th, n) /\ n # m
        <4> SUFFICES ASSUME NEW k \in DOMAIN Front1(r), Front1(r)[k].seq = n
                     PROVE  Runs(th, n) /\ n # m
          BY ZenonT(60), <2>7 DEF Runs
        <4>1. k \in DOMAIN r /\ k # Len(r) /\ r[k].seq = n
          BY SMTT(30), <2>4
        <4>2. n # m
          BY Zenon, <2>5, <2>6, <4>1 DEF Numbered, r
        <4> QED
          BY Zenon, <4>1, <4>2 DEF Runs, r
      <3>5. \A u \in Tasks : Runs(u, n)' => Runs(u, n) /\ n # m
        BY ZenonT(60), <2>6, <2>7, <3>4 DEF Runs, Numbered
      <3>6. ASSUME NEW u \in Tasks, NEW k \in DOMAIN running'[u], NEW l \in DOMAIN running'[u],
                   running'[u][k].seq = n, running'[u][l].seq = n
            PROVE  k = l
        <4>1. CASE u # th
          BY ZenonT(60), <2>7, <3>1, <3>6, <4>1 DEF Numbered, Runs
        <4>2. CASE u = th
          <5>1. /\ k \in DOMAIN r /\ r[k].seq = n
                /\ l \in DOMAIN r /\ r[l].seq = n
            BY SMTT(30), <2>4, <2>7, <3>6, <4>2
          <5> QED
            BY ZenonT(60), <3>1, <5>1 DEF Numbered, Runs, r
        <4> QED
          BY Zenon, <4>1, <4>2
      <3> QED
        BY ZenonT(60), <2>1, <3>1, <3>2, <3>3, <3>5, <3>6 DEF Numbered
    <2>9. InOrder'
      <3> SUFFICES ASSUME ~ overtaken'
                   PROVE  /\ remove_sequence' <= insert_sequence'
                          /\ \A n \in Nat : Listed(n)' \/ (\E u \in Tasks : Runs(u, n)')
                                              => n > remove_sequence'
                          /\ ~ early'
        BY Zenon DEF InOrder
      <3>1. ~ overtaken /\ ~ early /\ m > remove_sequence
        BY Zenon, <2>2, <2>5, <2>6 DEF SequenceInv, InOrder
      <3>2. m <= insert_sequence
        BY Zenon, <2>6 DEF Numbered
      <3>3. ASSUME NEW n \in Nat, Listed(n) \/ \E u \in Tasks : Runs(u, n) PROVE n >= m
        <4>1. \E x \in Unfinished : x.seq = n
          BY SMTT(30), <3>3 DEF Unfinished, Listed, Runs
        <4> QED
          BY SMTT(30), <2>2, <2>5, <4>1
      <3>4. remove_sequence' <= insert_sequence'
        BY SMTT(30), <1>0, <2>1, <2>5, <3>1, <3>2
      <3>5. ASSUME NEW n \in Nat, Listed(n)' \/ \E u \in Tasks : Runs(u, n)'
            PROVE  n > remove_sequence'
        <4>1. n # m /\ (Listed(n) \/ \E u \in Tasks : Runs(u, n))
          BY Zenon, <2>8, <3>5
        <4>2. n >= m
          BY Zenon, <3>3, <4>1
        <4> QED
          BY SMTT(30), <1>0, <2>1, <2>5, <3>1, <4>1, <4>2
      <3>6. ~ early'
        BY <2>1, <3>1, Zenon
      <3> QED
        BY Zenon, <3>4, <3>5, <3>6
    <2>10. \A c \in Clients : pc'[c] \in Flushing => needed'[c] = entered'[c]
      BY Zenon, <1>0, <2>1 DEF SequenceInv, Flushing, Clients, Threads
    <2> QED
      BY Zenon, <2>8, <2>9, <2>10 DEF SequenceInv
  <1>5. ASSUME NEW c \in Clients, NEW n \in Nat, wait_for(c, n, n) PROVE SequenceInv'
    <2>1. UNCHANGED <<worklist, running, insert_sequence, remove_sequence, overtaken>>
      BY ZenonT(60), <1>5 DEF wait_for, list
    <2>2. \/ early' = early
          \/ n <= remove_sequence /\ early' = (early \/ \E x \in Unfinished : x.seq <= n)
      BY SMTT(30), <1>0, <1>5 DEF wait_for
    <2>3. \A x \in Nat : (Listed(x)' <=> Listed(x)) /\ \A u \in Tasks : Runs(u, x)' <=> Runs(u, x)
      BY Zenon, <2>1 DEF Listed, Runs
    <2>4. \A x \in Nat : Numbered(x)'
      BY ZenonT(60), <2>1, <2>3 DEF SequenceInv, Numbered
    <2>5. InOrder'
      <3> SUFFICES ASSUME ~ overtaken' PROVE ~ early'
        BY Zenon, <2>1, <2>3 DEF SequenceInv, InOrder
      <3>1. ~ early
        BY Zenon, <2>1 DEF SequenceInv, InOrder
      <3>2. CASE early' = early
        BY <3>1, <3>2, Zenon
      <3>3. CASE n <= remove_sequence /\ early' = (early \/ \E x \in Unfinished : x.seq <= n)
        <4>1. ASSUME NEW x \in Unfinished PROVE ~ (x.seq <= n)
          <5>1. x.seq \in Nat /\ x.seq > remove_sequence
            BY Zenon, <2>1, UnfinishedNumbers DEF SequenceInv, InOrder
          <5> QED
            BY SMTT(30), <1>0, <3>3, <5>1
        <4> QED
          BY <3>1, <3>3, <4>1, ZenonT(60)
      <3> QED
        BY Zenon, <2>2, <3>2, <3>3
    <2>6. \A d \in Clients : pc'[d] \in Flushing => needed'[d] = entered'[d]
      BY ZenonT(60), <1>0, <1>5 DEF wait_for, SequenceInv, Flushing, Clients, Threads
    <2> QED
      BY Zenon, <2>4, <2>5, <2>6 DEF SequenceInv
  <1>6. ASSUME NEW c \in Clients, flush_workqueue(c) \/ flush_again(c) PROVE SequenceInv'
    <2>1. CASE flush_workqueue(c)
      BY Zenon, <1>0, <1>5, <2>1 DEF flush_workqueue
    <2>2. CASE flush_again(c)
      BY Zenon, <1>0, <1>5, <2>2 DEF flush_again, SequenceInv, Flushing
    <2> QED
      BY Zenon, <1>6, <2>1, <2>2
  <1>7. Next \/ UNCHANGED vars
    BY Zenon
  <1> QED
    BY ZenonT(60), <1>1, <1>2, <1>3, <1>4, <1>6, <1>7, UncountedSteps, UncountedKeeps, WorkAssumption
    DEF Next, Continue, Locked, Call, Clients

=============================================================================
