--------------------------- MODULE SpinlockProofs ---------------------------
(***************************************************************************)
(* Spinlock for any number of threads.                                     *)
(*                                                                         *)
(* The lock.  While need_init is set nobody has it or is about to take it, *)
(* so the first initialisation does no harm; after it, and as long as      *)
(* there is no second, whoever is inside is the holder of the lock of DDE  *)
(* kit.                                                                    *)
(*                                                                         *)
(* The interrupt flag.  The counter is never above the number of sections  *)
(* that are open, where a section whose end has read a positive counter is *)
(* open until its last decrement.                                          *)
(***************************************************************************)
EXTENDS Spinlock, FiniteSetTheorems, TLAPS

Labels == {"run", "init", "need", "get", "enable"}

LockInv ==
    /\ need_init \in BOOLEAN /\ reinit \in BOOLEAN
    /\ lock \in Threads \cup {NULL} /\ inside \subseteq Threads
    /\ call \in [Threads -> {"spin_lock", "spin_trylock"}]
    /\ pc \in [Threads -> Labels]
    /\ need_init => inside = {} /\ \A th \in Threads : pc[th] # "get"
    /\ ~ reinit => \A th \in inside : lock = th

\* The steps of the interrupt flag leave the lock alone.
IrqStep(th) == raw_local_irq_disable(th) \/ raw_local_irq_enable(th) \/ atomic_dec(th)

\* The steps of the lock leave the interrupt flag alone.
LockStep(th) ==
    \/ cond_init_lock(th, "spin_lock") \/ cond_init_lock(th, "spin_trylock")
    \/ dde_kit_spin_lock_init(th) \/ need_init_clear(th)
    \/ spin_lock_get(th) \/ spin_unlock(th)

\* The lock is free, initialised or not.
LEMMA InitLockInv == Init => LockInv
  BY Zenon DEF Init, LockInv, Labels

\* No step lets a second thread in before the lock is initialised again.
LEMMA NextLockInv == LockInv /\ [Next]_vars => LockInv'
PROOF
  <1> SUFFICES ASSUME LockInv, [Next]_vars PROVE LockInv'
    OBVIOUS
  <1> USE DEF LockInv, Labels, Goto
  <1>1. CASE UNCHANGED vars
    BY <1>1 DEF vars, lock_vars
  <1>2. ASSUME NEW th \in Threads,
               cond_init_lock(th, "spin_lock") \/ cond_init_lock(th, "spin_trylock")
        PROVE  LockInv'
    BY <1>2 DEF cond_init_lock, lock_vars
  <1>3. ASSUME NEW th \in Threads, dde_kit_spin_lock_init(th) PROVE LockInv'
    BY Zenon, <1>3 DEF dde_kit_spin_lock_init
  <1>4. ASSUME NEW th \in Threads, need_init_clear(th) PROVE LockInv'
    BY Zenon, <1>4 DEF need_init_clear
  <1>5. ASSUME NEW th \in Threads, spin_lock_get(th) PROVE LockInv'
    BY <1>5, NestAssumption DEF spin_lock_get
  <1>6. ASSUME NEW th \in Threads, spin_unlock(th) PROVE LockInv'
    BY <1>6 DEF spin_unlock
  <1>7. ASSUME NEW th \in Threads, IrqStep(th) PROVE LockInv'
    BY <1>7 DEF IrqStep, raw_local_irq_disable, raw_local_irq_enable, atomic_dec, lock_vars
  <1> QED
    BY <1>1, <1>2, <1>3, <1>4, <1>5, <1>6, <1>7 DEF Next, IrqStep

\* A spin lock that is initialised once is exclusive, for any number of
\* threads that take it, try it, release it and disable interrupts.
THEOREM ExclusiveHolds == Spec => []Exclusive
PROOF
  <1>1. LockInv => Exclusive
    BY DEF LockInv, Exclusive
  <1> QED
    BY InitLockInv, NextLockInv, <1>1, PTL DEF Spec

-----------------------------------------------------------------------------
(* The interrupt flag.                                                     *)

\* How many sections of each thread are open.
sections ==
    [th \in Threads |-> depth[th] + (IF pc[th] = "enable" /\ i[th] > 0 THEN 1 ELSE 0)]

\* The sections as a set, s[th] of thread th.
Open(s) == {x \in Threads \X (1..MaxNest) : x[2] <= s[x[1]]}

IrqInv ==
    /\ refcnt \in Int
    /\ depth \in [Threads -> 0..MaxNest]
    /\ i \in [Threads -> Int]
    /\ pc \in [Threads -> Labels]
    /\ \A th \in Threads : pc[th] = "enable" => depth[th] < MaxNest
    /\ IsFiniteSet(Open(sections))
    /\ refcnt <= Cardinality(Open(sections))

\* One section more of a thread is one element more.
LEMMA OpenOne ==
  ASSUME NEW s \in [Threads -> 0..MaxNest], NEW th \in Threads, s[th] < MaxNest,
         IsFiniteSet(Open(s)), NEW t, t = [s EXCEPT ![th] = @ + 1]
  PROVE  IsFiniteSet(Open(t)) /\ Cardinality(Open(t)) = Cardinality(Open(s)) + 1
PROOF
  <1> DEFINE x == <<th, s[th] + 1>>
  <1>1. x \notin Open(s)
    BY DEF Open
  <1>2. Open(t) = Open(s) \cup {x}
    BY NestAssumption DEF Open
  <1> HIDE DEF x
  <1>3. /\ IsFiniteSet(Open(s) \cup {x})
        /\ Cardinality(Open(s) \cup {x}) =
             IF x \in Open(s) THEN Cardinality(Open(s)) ELSE Cardinality(Open(s)) + 1
    BY FS_AddElement
  <1> QED
    BY <1>1, <1>2, <1>3, Zenon

\* One section less is one element less.
LEMMA CloseOne ==
  ASSUME NEW s \in [Threads -> 0..MaxNest], NEW th \in Threads, s[th] > 0,
         IsFiniteSet(Open(s)), NEW t, t = [s EXCEPT ![th] = @ - 1]
  PROVE  IsFiniteSet(Open(t)) /\ Cardinality(Open(t)) = Cardinality(Open(s)) - 1
PROOF
  <1> DEFINE x == <<th, s[th]>>
  <1>1. x \in Open(s)
    BY NestAssumption DEF Open
  <1>2. Open(t) = Open(s) \ {x}
    BY NestAssumption DEF Open
  <1> HIDE DEF x
  <1> QED
    BY <1>1, <1>2, FS_RemoveElement, Zenon

\* At first no section is open.
LEMMA InitIrqInv == Init => IrqInv
PROOF
  <1> SUFFICES ASSUME Init PROVE IrqInv
    OBVIOUS
  <1>1. sections = [th \in Threads |-> 0]
    BY DEF sections, Init
  <1>2. Open(sections) = {}
    BY <1>1, NestAssumption DEF Open
  <1>3. IsFiniteSet(Open(sections)) /\ Cardinality(Open(sections)) = 0
    BY <1>2, FS_EmptySet, Zenon
  <1> QED
    BY <1>3, NestAssumption DEF IrqInv, Init, Labels

\* A step that raises the counter opens a section; one that closes a section
\* lowers it, or finds it at zero or below.
LEMMA NextIrqInv == IrqInv /\ [Next]_vars => IrqInv'
PROOF
  <1> SUFFICES ASSUME IrqInv, [Next]_vars PROVE IrqInv'
    OBVIOUS
  <1> USE NestAssumption DEF Labels
  <1>1. /\ sections \in [Threads -> 0..MaxNest]
        /\ Cardinality(Open(sections)) \in Nat
    <2>1. sections \in [Threads -> 0..MaxNest]
      BY DEF IrqInv, sections
    <2> QED
      BY <2>1, FS_CardinalityType DEF IrqInv
  <1>2. ASSUME sections' = sections, refcnt' \in Int, refcnt' <= refcnt,
               depth' \in [Threads -> 0..MaxNest], i' \in [Threads -> Int],
               pc' \in [Threads -> Labels],
               \A th \in Threads : pc'[th] = "enable" => depth'[th] < MaxNest
        PROVE  IrqInv'
    <2>1. Open(sections') = Open(sections)
      BY <1>2, Zenon
    <2> HIDE DEF Labels
    <2> QED
      BY <1>1, <1>2, <2>1 DEF IrqInv
  <1>3. CASE UNCHANGED <<irq_vars, pc>>
    BY <1>2, <1>3 DEF irq_vars, sections, IrqInv
  <1>4. ASSUME NEW th \in Threads, LockStep(th) PROVE IrqInv'
    <2>1. UNCHANGED irq_vars /\ pc[th] # "enable"
      BY <1>4 DEF LockStep, cond_init_lock, dde_kit_spin_lock_init, need_init_clear, spin_lock_get,
                  spin_unlock, Goto
    <2>2. \E l \in Labels \ {"enable"} : pc' = [pc EXCEPT ![th] = l]
      BY <1>4 DEF LockStep, cond_init_lock, dde_kit_spin_lock_init, need_init_clear, spin_lock_get,
                  spin_unlock, Goto, IrqInv
    <2>3. sections' = sections
      BY <2>1, <2>2 DEF IrqInv, sections, irq_vars
    <2> QED
      BY <1>2, <2>1, <2>2, <2>3 DEF IrqInv, irq_vars
  <1>5. ASSUME NEW th \in Threads, raw_local_irq_disable(th) PROVE IrqInv'
    <2> USE <1>5 DEF raw_local_irq_disable
    <2>1. sections[th] < MaxNest /\ sections' = [sections EXCEPT ![th] = @ + 1]
      BY DEF IrqInv, sections
    <2>2. /\ IsFiniteSet(Open(sections'))
          /\ Cardinality(Open(sections')) = Cardinality(Open(sections)) + 1
      BY Zenon, <1>1, <2>1, OpenOne DEF IrqInv
    <2> QED
      BY <1>1, <2>2 DEF IrqInv
  <1>6. ASSUME NEW th \in Threads, raw_local_irq_enable(th) PROVE IrqInv'
    <2> USE <1>6 DEF raw_local_irq_enable
    <2>1. CASE refcnt > 0
      <3>1. sections' = sections
        BY <2>1 DEF IrqInv, sections
      <3> QED
        BY <1>2, <3>1 DEF IrqInv
    <2>2. CASE refcnt <= 0
      <3>1. sections[th] > 0 /\ sections' = [sections EXCEPT ![th] = @ - 1]
        BY <2>2 DEF IrqInv, sections
      <3>2. IsFiniteSet(Open(sections'))
        BY Zenon, <1>1, <3>1, CloseOne DEF IrqInv
      <3>3. Cardinality(Open(sections')) \in Nat
        BY <3>2, FS_CardinalityType
      <3> QED
        BY <2>2, <3>2, <3>3 DEF IrqInv
    <2> QED
      BY <2>1, <2>2 DEF IrqInv
  <1>7. ASSUME NEW th \in Threads, atomic_dec(th) PROVE IrqInv'
    <2> USE <1>7 DEF atomic_dec
    <2>1. CASE i[th] # 1
      <3>1. sections' = sections
        BY <2>1 DEF IrqInv, sections
      <3> QED
        BY <1>2, <3>1 DEF IrqInv
    <2>2. CASE i[th] = 1
      <3>1. sections[th] > 0 /\ sections' = [sections EXCEPT ![th] = @ - 1]
        BY <2>2 DEF IrqInv, sections
      <3>2. /\ IsFiniteSet(Open(sections'))
            /\ Cardinality(Open(sections')) = Cardinality(Open(sections)) - 1
        BY Zenon, <1>1, <3>1, CloseOne DEF IrqInv
      <3> QED
        BY <1>1, <2>2, <3>2 DEF IrqInv
    <2> QED
      BY <2>1, <2>2
  <1> QED
    BY <1>3, <1>4, <1>5, <1>6, <1>7, Zenon DEF Next, LockStep, vars

\* Whatever the interleaving of the decrements in raw_local_irq_enable(),
\* interrupts do not stay disabled, for any number of threads and any nesting.
THEOREM QuietEnabledHolds == Spec => []QuietEnabled
PROOF
  <1>1. ASSUME IrqInv, \A th \in Threads : depth[th] = 0 /\ pc[th] # "enable"
        PROVE  ~ irqs_disabled
    <2>1. sections = [th \in Threads |-> 0]
      BY <1>1 DEF sections
    <2>2. Open(sections) = {}
      BY <2>1, NestAssumption DEF Open
    <2>3. Cardinality(Open(sections)) = 0
      BY <2>2, FS_EmptySet, Zenon
    <2> QED
      BY <1>1, <2>3 DEF IrqInv, irqs_disabled, raw_irqs_disabled_flags
  <1>2. IrqInv => QuietEnabled
    BY <1>1 DEF QuietEnabled
  <1> QED
    BY InitIrqInv, NextIrqInv, <1>2, PTL DEF Spec

\* The variables keep their types, and the counter behind local_irq_save() is
\* at most the number of threads times the depth to which they nest.
THEOREM TypeCorrect == Spec => []TypeOK
PROOF
  <1>1. LockInv /\ IrqInv => TypeOK
    <2> SUFFICES ASSUME LockInv, IrqInv PROVE TypeOK
      OBVIOUS
    <2>1. /\ IsFiniteSet(1..MaxNest) /\ Cardinality(1..MaxNest) = MaxNest
      BY FS_Interval, NestAssumption
    <2>2. /\ IsFiniteSet(Threads \X (1..MaxNest))
          /\ Cardinality(Threads \X (1..MaxNest)) = Cardinality(Threads) * MaxNest
      BY Zenon, <2>1, FS_Product, ThreadsAssumption
    <2>3. Open(sections) \in SUBSET (Threads \X (1..MaxNest))
      BY DEF Open
    <2>4. Cardinality(Open(sections)) <= Cardinality(Threads \X (1..MaxNest))
      BY <2>2, <2>3, FS_Subset
    <2>5. Cardinality(Open(sections)) \in Nat /\ Cardinality(Threads) \in Nat
      BY FS_CardinalityType, ThreadsAssumption DEF IrqInv
    <2>6. refcnt <= MaxNest * Cardinality(Threads)
      BY <2>2, <2>4, <2>5, NestAssumption DEF IrqInv
    <2> QED
      BY <2>6 DEF LockInv, IrqInv, Labels, TypeOK
  <1> QED
    BY InitLockInv, NextLockInv, InitIrqInv, NextIrqInv, <1>1, PTL DEF Spec

=============================================================================
