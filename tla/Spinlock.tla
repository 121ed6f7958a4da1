------------------------------ MODULE Spinlock ------------------------------
(***************************************************************************)
(* Spin locks (include/dde_linux26/linux/spinlock.h) and local_irq_save()  *)
(* (arch/dde_kit/cli_sti.c) of DDE Linux 2.6, which spin_lock_irqsave(),   *)
(* spin_unlock_irqrestore() and spin_trylock_irqsave() put together.       *)
(*                                                                         *)
(* A lock that DEFINE_SPINLOCK defines is initialised by whoever uses it   *)
(* first; a driver may also call spin_lock_init() before.  Interrupts are  *)
(* one counter for all threads, which no thread waits on.                  *)
(***************************************************************************)
EXTENDS Integers, FiniteSets

CONSTANTS Threads,
          NULL,
          MaxNest     \* bound: how deep a thread nests its irq sections

ASSUME NestAssumption == MaxNest \in Nat \ {0} /\ NULL \notin Threads
ASSUME ThreadsAssumption == IsFiniteSet(Threads)

VARIABLES need_init,  \* lock->need_init
          lock,       \* who holds lock->dde_kit_spin_lock
          inside,     \* the threads between spin_lock() and spin_unlock()
          call,       \* the function in which each thread takes the lock
          reinit,     \* was the lock initialised after it had been?
          refcnt,     \* _refcnt
          depth,      \* the irq sections each thread has entered and not left
          i,          \* the local of raw_local_irq_enable()
          pc

lock_vars == <<need_init, lock, inside, reinit>>
irq_vars == <<refcnt, depth, i>>
vars == <<lock_vars, call, irq_vars, pc>>

Init ==
  /\ need_init \in BOOLEAN /\ reinit = FALSE
  /\ lock = NULL /\ inside = {}
  /\ call = [th \in Threads |-> "spin_lock"]
  /\ refcnt = 0
  /\ depth = [th \in Threads |-> 0]
  /\ i = [th \in Threads |-> 0]
  /\ pc = [th \in Threads |-> "run"]

Goto(th, from, to) == pc[th] = from /\ pc' = [pc EXCEPT ![th] = to]

-----------------------------------------------------------------------------
(* The lock.                                                               *)

\* COND_INIT_LOCK, at the beginning of spin_lock() and spin_trylock(): read
\* need_init...
cond_init_lock(th, fn) ==
  /\ th \notin inside
  /\ Goto(th, "run", IF need_init THEN "init" ELSE "get")
  /\ call' = [call EXCEPT ![th] = fn]
  /\ UNCHANGED <<lock_vars, irq_vars>>

\* ... initialise the lock of DDE kit, which is free then, whoever holds it...
dde_kit_spin_lock_init(th) ==
  /\ Goto(th, "init", "need")
  /\ lock' = NULL
  /\ reinit' = (reinit \/ ~ need_init \/ \E u \in Threads : pc[u] = "need")
  /\ UNCHANGED <<need_init, inside, call, irq_vars>>

\* ... and clear need_init.
need_init_clear(th) ==
  /\ Goto(th, "need", "get")
  /\ need_init' = FALSE
  /\ UNCHANGED <<lock, inside, reinit, call, irq_vars>>

\* Faulty: spin_trylock() reports success whatever the lock of DDE kit says.
spin_lock_get_any(th) ==
  /\ Goto(th, "get", "run")
  /\ lock = NULL \/ call[th] = "spin_trylock"
  /\ lock' = th /\ inside' = inside \cup {th}
  /\ UNCHANGED <<need_init, reinit, call, irq_vars>>

\* dde_kit_spin_lock_lock(), dde_kit_spin_lock_try_lock().
spin_lock_get(th) ==
  /\ Goto(th, "get", "run")
  /\ IF lock = NULL
     THEN lock' = th /\ inside' = inside \cup {th}
     ELSE call[th] = "spin_trylock" /\ UNCHANGED <<lock, inside>>
  /\ UNCHANGED <<need_init, reinit, call, irq_vars>>

\* spin_unlock(); need_init is clear since the lock was taken.
spin_unlock(th) ==
  /\ pc[th] = "run" /\ th \in inside
  /\ lock' = NULL /\ inside' = inside \ {th}
  /\ UNCHANGED <<need_init, reinit, call, irq_vars, pc>>

-----------------------------------------------------------------------------
(* The interrupt flag.                                                     *)

raw_irqs_disabled_flags(f) == f > 0
irqs_disabled == raw_irqs_disabled_flags(refcnt)

\* local_irq_disable() and local_irq_save(), whose saved flags nothing reads.
raw_local_irq_disable(th) ==
  /\ pc[th] = "run" /\ depth[th] < MaxNest
  /\ refcnt' = refcnt + 1
  /\ depth' = [depth EXCEPT ![th] = @ + 1]
  /\ UNCHANGED <<i, pc, lock_vars, call>>

\* local_irq_enable(), and local_irq_restore(), which ignores the saved flags:
\* read the counter...
raw_local_irq_enable(th) ==
  /\ pc[th] = "run" /\ depth[th] > 0
  /\ i' = [i EXCEPT ![th] = refcnt]
  /\ depth' = [depth EXCEPT ![th] = @ - 1]
  /\ pc' = [pc EXCEPT ![th] = "enable"]
  /\ UNCHANGED <<refcnt, lock_vars, call>>

\* Faulty: the loop stops at one.
atomic_dec_but_one(th) ==
  /\ pc[th] = "enable"
  /\ IF i[th] > 1
     THEN /\ refcnt' = refcnt - 1
          /\ i' = [i EXCEPT ![th] = @ - 1]
          /\ UNCHANGED pc
     ELSE /\ pc' = [pc EXCEPT ![th] = "run"]
          /\ UNCHANGED <<refcnt, i>>
  /\ UNCHANGED <<depth, lock_vars, call>>

\* ... and decrement it as often as that value says.
atomic_dec(th) ==
  /\ pc[th] = "enable"
  /\ IF i[th] > 0
     THEN /\ refcnt' = refcnt - 1
          /\ i' = [i EXCEPT ![th] = @ - 1]
          /\ UNCHANGED pc
     ELSE /\ pc' = [pc EXCEPT ![th] = "run"]
          /\ UNCHANGED <<refcnt, i>>
  /\ UNCHANGED <<depth, lock_vars, call>>

Next ==
  \E th \in Threads :
    \/ cond_init_lock(th, "spin_lock") \/ cond_init_lock(th, "spin_trylock")
    \/ dde_kit_spin_lock_init(th) \/ need_init_clear(th)
    \/ spin_lock_get(th) \/ spin_unlock(th)
    \/ raw_local_irq_disable(th)
    \/ raw_local_irq_enable(th) \/ atomic_dec(th)

Spec == Init /\ [][Next]_vars

-----------------------------------------------------------------------------

TypeOK ==
  /\ need_init \in BOOLEAN /\ reinit \in BOOLEAN
  /\ lock \in Threads \cup {NULL} /\ inside \subseteq Threads
  /\ call \in [Threads -> {"spin_lock", "spin_trylock"}]
  /\ refcnt \in Int /\ refcnt <= MaxNest * Cardinality(Threads)
  /\ depth \in [Threads -> 0..MaxNest]
  /\ i \in [Threads -> Int]
  /\ pc \in [Threads -> {"run", "init", "need", "get", "enable"}]

\* At most one thread is between spin_lock() and spin_unlock(), if the lock
\* was initialised before, or by one first user alone: a second thread that
\* has read need_init before the first has cleared it frees the lock again.
Exclusive == ~ reinit => \A th, u \in inside : th = u

\* Whatever the interleaving of the decrements, interrupts do not stay
\* disabled: irqs_disabled() is false when every thread has left its sections.
QuietEnabled ==
  (\A th \in Threads : depth[th] = 0 /\ pc[th] # "enable") => ~ irqs_disabled

=============================================================================
