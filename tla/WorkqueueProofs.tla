--------------------------- MODULE WorkqueueProofs ---------------------------
(***************************************************************************)
(* What holds of the work queues for any number of clients and works and   *)
(* any bound on the sequence counters.                                     *)
(*                                                                         *)
(* The fifth part of the inductive invariant, on top of the four of        *)
(* WorkqueueInv, is the number of works that are queued or running.        *)
(***************************************************************************)
EXTENDS WorkqueueInv, FiniteSetTheorems

-----------------------------------------------------------------------------
(* The works that are queued or running.                                   *)

AccountInv == IsFiniteSet(Unfinished) /\ Accounted

\* __queue_work() adds one that is not there.
LEMMA QueuedEntry ==
  ASSUME TypeInv, SequenceInv, NEW e \in Entry, e.seq = insert_sequence + 1,
         worklist' = Append(worklist, e), UNCHANGED running
  PROVE  e \notin Unfinished /\ Unfinished' = Unfinished \cup {e}
PROOF
  <1>0. worklist \in Seq(Entry) /\ insert_sequence \in Nat
    BY Zenon DEF TypeInv, TypeOK
  <1>1. e \notin Unfinished
    <2> SUFFICES ASSUME e \in Unfinished PROVE FALSE
      BY Zenon
    <2>1. e.seq \in Nat /\ e.seq <= insert_sequence
      BY Zenon, UnfinishedNumbers DEF SequenceInv, Numbered
    <2> QED
      BY <1>0, <2>1
  <1>2. /\ DOMAIN worklist = 1..Len(worklist) /\ Len(worklist) \in Nat
        /\ DOMAIN worklist' = 1..(Len(worklist) + 1)
        /\ \A i \in DOMAIN worklist : worklist'[i] = worklist[i]
        /\ worklist'[Len(worklist) + 1] = e
    BY <1>0, Appended
  <1>3. {worklist'[i] : i \in DOMAIN worklist'} = {worklist[i] : i \in DOMAIN worklist} \cup {e}
    BY <1>2
  <1> DEFINE L == {worklist[i] : i \in DOMAIN worklist}
             R(run) == UNION {{run[th][i] : i \in DOMAIN run[th]} : th \in Tasks}
  <1>4. Unfinished = L \cup R(running)
    BY Zenon DEF Unfinished
  <1>5. Unfinished' = {worklist'[i] : i \in DOMAIN worklist'} \cup R(running')
    BY Zenon DEF Unfinished
  <1> HIDE DEF R
  <1> QED
    BY <1>1, <1>3, <1>4, <1>5, ZenonT(60)

\* Who takes an entry off the list executes it.
LEMMA TakenEntry ==
  ASSUME TypeInv, NEW th \in Tasks, NEW i \in DOMAIN worklist,
         worklist' = Without(worklist, i), Push(th, worklist[i])
  PROVE  Unfinished' = Unfinished
PROOF
  <1> DEFINE r == running[th]
             L == {worklist[j] : j \in DOMAIN worklist}
             R(u) == {running[u][j] : j \in DOMAIN running[u]}
  <1>1. /\ DOMAIN worklist = 1..Len(worklist) /\ Len(worklist) \in Nat
        /\ DOMAIN worklist' = 1..(Len(worklist) - 1)
        /\ \A j \in 1..(Len(worklist) - 1) :
             worklist'[j] = IF j < i THEN worklist[j] ELSE worklist[j + 1]
        /\ DOMAIN r = 1..Len(r) /\ Len(r) \in Nat
        /\ DOMAIN running'[th] = 1..(Len(r) + 1)
        /\ \A k \in DOMAIN r : running'[th][k] = r[k]
        /\ running'[th][Len(r) + 1] = worklist[i]
        /\ \A u \in Tasks \ {th} : running'[u] = running[u]
    BY TakenOff
  <1>2. {worklist'[j] : j \in DOMAIN worklist'} \cup {worklist[i]} = L
    <2>1. ASSUME NEW k \in DOMAIN worklist, k # i
          PROVE  \E j \in DOMAIN worklist' : worklist'[j] = worklist[k]
      <3>1. CASE k < i
        BY <1>1, <2>1, <3>1
      <3>2. CASE k > i
        <4>1. k - 1 \in DOMAIN worklist' /\ worklist'[k - 1] = worklist[k]
          BY SMTT(30), <1>1, <2>1, <3>2
        <4> QED
          BY <4>1
      <3> QED
        BY SMTT(30), <1>1, <2>1, <3>1, <3>2
    <2>2. ASSUME NEW j \in DOMAIN worklist'
          PROVE  \E k \in DOMAIN worklist : worklist'[j] = worklist[k]
      BY SMTT(30), <1>1
    <2> QED
      BY <2>1, <2>2
  <1>3. {running'[th][k] : k \in DOMAIN running'[th]} = R(th) \cup {worklist[i]}
    <2>1. \A k \in DOMAIN running'[th] : k \in DOMAIN r \/ k = Len(r) + 1
      BY <1>1
    <2>2. \A k \in DOMAIN r : k \in DOMAIN running'[th] /\ running'[th][k] = r[k]
      BY <1>1
    <2>3. Len(r) + 1 \in DOMAIN running'[th] /\ running'[th][Len(r) + 1] = worklist[i]
      BY <1>1
    <2> QED
      BY <2>1, <2>2, <2>3
  <1>4. \A u \in Tasks \ {th} : {running'[u][k] : k \in DOMAIN running'[u]} = R(u)
    BY <1>1
  <1>5. Unfinished = L \cup UNION {R(u) : u \in Tasks}
    BY Zenon DEF Unfinished
  <1>6. Unfinished' = {worklist'[j] : j \in DOMAIN worklist'}
                        \cup UNION {{running'[u][k] : k \in DOMAIN running'[u]} : u \in Tasks}
    BY Zenon DEF Unfinished
  <1> DEFINE N(u) == {running'[u][k] : k \in DOMAIN running'[u]}
             M == {worklist'[j] : j \in DOMAIN worklist'}
  <1>7. /\ M \cup {worklist[i]} = L /\ N(th) = R(th) \cup {worklist[i]}
        /\ \A u \in Tasks \ {th} : N(u) = R(u)
        /\ Unfinished' = M \cup UNION {N(u) : u \in Tasks}
    BY <1>2, <1>3, <1>4, <1>6, ZenonT(60)
  <1> HIDE DEF L, M, N, R
  <1> QED
    BY <1>5, <1>7

\* A work that ends is no longer there.
LEMMA EndedEntry ==
  ASSUME TypeInv, SequenceInv, NEW th \in Tasks, running[th] # << >>,
         running' = [running EXCEPT ![th] = Front1(running[th])], UNCHANGED worklist
  PROVE  Current(th) \in Unfinished /\ Unfinished' = Unfinished \ {Current(th)}
PROOF
  <1> DEFINE r == running[th]
             c == Current(th)
  <1>0. running \in [Threads -> Seq(Entry)] /\ r \in Seq(Entry) /\ th \in Threads
    BY Zenon DEF TypeInv, TypeOK, Threads
  <1>1. /\ Len(r) \in Nat \ {0} /\ DOMAIN r = 1..Len(r)
        /\ DOMAIN Front1(r) = 1..(Len(r) - 1)
        /\ \A k \in 1..(Len(r) - 1) : Front1(r)[k] = r[k]
    BY <1>0, Front1Properties, LenProperties
  <1>2. running'[th] = Front1(r) /\ \A u \in Tasks \ {th} : running'[u] = running[u]
    BY Zenon, <1>0 DEF Threads
  <1>3. c = r[Len(r)] /\ Len(r) \in DOMAIN r
    BY <1>1 DEF Current
  <1>4. c.seq \in Nat
    BY Zenon, Finished DEF Entry
  <1>5. Runs(th, c.seq) /\ Numbered(c.seq)
    BY <1>3, <1>4, ZenonT(60) DEF Runs, SequenceInv
  <1> HIDE DEF r, c
  <1>6. \A j \in DOMAIN worklist : worklist[j] # c
    BY <1>5, Zenon DEF Numbered, Listed
  <1>7. \A u \in Tasks \ {th} : \A k \in DOMAIN running[u] : running[u][k] # c
    BY <1>5, Zenon DEF Numbered, Runs
  <1>8. \A k \in DOMAIN r : r[k] = c => k = Len(r)
    BY <1>3, <1>5, ZenonT(60) DEF Numbered, r
  <1>9. {running'[th][k] : k \in DOMAIN running'[th]} = {r[k] : k \in DOMAIN r} \ {c}
    BY SMTT(30), <1>1, <1>2, <1>3, <1>8
  <1>10. c \in Unfinished
    <2>1. c \in {running[th][k] : k \in DOMAIN running[th]}
      BY <1>3 DEF r
    <2> QED
      BY <2>1 DEF Unfinished
  <1>11. Unfinished' = Unfinished \ {c}
    <2> DEFINE L == {worklist[j] : j \in DOMAIN worklist}
               R(u) == {running[u][j] : j \in DOMAIN running[u]}
               N(u) == {running'[u][k] : k \in DOMAIN running'[u]}
    <2>1. /\ c \notin L /\ N(th) = R(th) \ {c}
          /\ \A u \in Tasks \ {th} : N(u) = R(u) /\ c \notin R(u)
          /\ Unfinished = L \cup UNION {R(u) : u \in Tasks}
          /\ Unfinished' = L \cup UNION {N(u) : u \in Tasks}
      <3>1. c \notin L
        BY <1>6, Zenon
      <3>2. N(th) = R(th) \ {c}
        BY <1>9, Zenon DEF r
      <3>3. \A u \in Tasks \ {th} : N(u) = R(u) /\ c \notin R(u)
        BY <1>2, <1>7, ZenonT(60)
      <3> QED
        BY <3>1, <3>2, <3>3, ZenonT(60) DEF Unfinished
    <2> HIDE DEF L, N, R
    <2> QED
      BY <2>1
  <1> QED
    BY <1>10, <1>11, ZenonT(60) DEF c

\* At first there is none, and none was counted.
LEMMA InitAccountInv == Init => AccountInv
PROOF
  <1> SUFFICES ASSUME Init PROVE AccountInv
    BY Zenon
  <1>1. DOMAIN worklist = {} /\ \A th \in Tasks : DOMAIN running[th] = {}
    BY DEF Init, Threads
  <1>2. Unfinished = {}
    BY <1>1 DEF Unfinished
  <1>3. IsFiniteSet(Unfinished) /\ Cardinality(Unfinished) = 0
    BY <1>2, FS_EmptySet, Zenon
  <1>4. insert_sequence = 0 /\ remove_sequence = 0
    BY Zenon DEF Init
  <1> QED
    BY <1>3, <1>4 DEF AccountInv, Accounted

\* Every step that changes the works that are queued or running counts it.
LEMMA NextAccountInv == TypeInv /\ SequenceInv /\ AccountInv /\ [Next]_vars => AccountInv'
PROOF
  <1> SUFFICES ASSUME TypeInv, SequenceInv, AccountInv, [Next]_vars PROVE AccountInv'
    BY Zenon
  <1>0. /\ insert_sequence \in Nat /\ remove_sequence \in Nat
        /\ IsFiniteSet(Unfinished) /\ Cardinality(Unfinished) \in Nat
        /\ insert_sequence - remove_sequence = Cardinality(Unfinished)
    BY Zenon, FS_CardinalityType DEF TypeInv, TypeOK, AccountInv, Accounted
  <1>1. ASSUME Unfinished' = Unfinished, UNCHANGED <<insert_sequence, remove_sequence>>
        PROVE  AccountInv'
    BY Zenon, <1>1 DEF AccountInv, Accounted
  <1>2. ASSUME NEW th \in Threads, queue_work_locked(th) PROVE AccountInv'
    <2> DEFINE e == [work |-> arg[th], seq |-> insert_sequence + 1]
    <2>1. /\ worklist' = Append(worklist, e) /\ insert_sequence' = insert_sequence + 1
          /\ UNCHANGED <<running, remove_sequence>>
      BY ZenonT(60), <1>2 DEF queue_work_locked
    <2>2. e \in Entry /\ e.seq = insert_sequence + 1
      BY <1>0, <1>2 DEF queue_work_locked, Goto, TypeInv, Control, Entry
    <2> HIDE DEF e
    <2>3. e \notin Unfinished /\ Unfinished' = Unfinished \cup {e}
      BY ZenonT(60), <2>1, <2>2, QueuedEntry
    <2>4. IsFiniteSet(Unfinished') /\ Cardinality(Unfinished') = Cardinality(Unfinished) + 1
      BY ZenonT(60), <1>0, <2>3, FS_AddElement
    <2> QED
      BY SMTT(30), <1>0, <2>1, <2>4 DEF AccountInv, Accounted
  <1>3. CASE run_workqueue /\ worklist # << >>
    <2>1. worklist \in Seq(Entry)
      BY Zenon DEF TypeInv, TypeOK
    <2>2. /\ 1 \in DOMAIN worklist /\ Head(worklist) = worklist[1]
          /\ Tail(worklist) = Without(worklist, 1)
      BY ZenonT(60), <1>3, <2>1, HeadIsFirst
    <2>3. /\ worklist' = Tail(worklist) /\ Push(Worker, Head(worklist))
          /\ UNCHANGED <<insert_sequence, remove_sequence>>
      BY Zenon, <1>3 DEF run_workqueue
    <2> QED
      BY ZenonT(60), <1>1, <2>2, <2>3, WorkAssumption, TakenEntry
  <1>4. ASSUME NEW c \in Clients, NEW w \in Works, run_scheduled_work(c, w) PROVE AccountInv'
    <2>1. PICK i \in DOMAIN worklist :
            Push(c, worklist[i]) /\ worklist' = Without(worklist, i)
      BY Zenon, <1>4 DEF run_scheduled_work, Without
    <2>2. UNCHANGED <<insert_sequence, remove_sequence>>
      BY ZenonT(60), <1>4 DEF run_scheduled_work
    <2> QED
      BY ZenonT(60), <1>1, <2>1, <2>2, TakenEntry DEF Clients
  <1>5. ASSUME NEW th \in Tasks, work_end(th) PROVE AccountInv'
    <2>1. /\ running[th] # << >>
          /\ running' = [running EXCEPT ![th] = Front1(running[th])]
          /\ remove_sequence' = remove_sequence + 1
          /\ UNCHANGED <<worklist, insert_sequence>>
      BY Zenon, <1>5 DEF work_end, finish, Goto, Front1, TypeInv, Control, Threads
    <2>2. Current(th) \in Unfinished /\ Unfinished' = Unfinished \ {Current(th)}
      BY Zenon, <2>1, EndedEntry
    <2>3. IsFiniteSet(Unfinished') /\ Cardinality(Unfinished') = Cardinality(Unfinished) - 1
      BY ZenonT(60), <1>0, <2>2, FS_RemoveElement
    <2> QED
      BY SMTT(30), <1>0, <2>1, <2>3 DEF AccountInv, Accounted
  <1>6. ASSUME UNCHANGED <<worklist, running, insert_sequence, remove_sequence>> PROVE AccountInv'
    <2> DEFINE U(lst, run) == {lst[i] : i \in DOMAIN lst}
                                \cup UNION {{run[th][i] : i \in DOMAIN run[th]} : th \in Tasks}
    <2>1. Unfinished = U(worklist, running) /\ Unfinished' = U(worklist', running')
      BY Zenon DEF Unfinished
    <2> HIDE DEF U
    <2> QED
      BY ZenonT(60), <1>1, <1>6, <2>1
  <1>7. ASSUME NEW c \in Clients, flush_workqueue(c) \/ flush_again(c) PROVE AccountInv'
    BY ZenonT(60), <1>6, <1>7 DEF flush_workqueue, flush_again, wait_for, list
  <1>8. CASE Uncounted
    BY ZenonT(60), <1>6, <1>8 DEF Uncounted
  <1>9. Next \/ UNCHANGED vars
    BY Zenon
  <1> QED
    BY ZenonT(60), <1>2, <1>3, <1>4, <1>5, <1>7, <1>8, <1>9, UncountedSteps, WorkAssumption
    DEF Next, Continue, Locked, Call, Clients

-----------------------------------------------------------------------------

IInv == TypeInv /\ WakeInv /\ PendingInv /\ SequenceInv /\ AccountInv

\* The five parts together are an invariant of the work queues.
THEOREM Inductive == Spec => []IInv
PROOF
  <1>1. Init => IInv
    BY ZenonT(60), InitTypeInv, InitWakeInv, InitPendingInv, InitSequenceInv, InitAccountInv
    DEF IInv
  <1>2. IInv /\ [Next]_vars => IInv'
    BY ZenonT(60), NextTypeInv, NextWakeInv, NextPendingInv, NextSequenceInv, NextAccountInv
    DEF IInv
  <1> QED
    BY <1>1, <1>2, PTL DEF Spec

\* The variables of the work queues keep their types.
THEOREM TypeCorrect == Spec => []TypeOK
PROOF
  <1>1. IInv => TypeOK
    BY ZenonT(60) DEF IInv, TypeInv
  <1> QED
    BY Inductive, <1>1, PTL

\* Neither the worker nor a flush sleeps over a wake-up, for any number of
\* clients and works.
THEOREM NoLostWakeupHolds == Spec => []NoLostWakeup
PROOF
  <1>1. IInv => NoLostWakeup
    BY ZenonT(60) DEF IInv, WakeInv, Noticed, NoLostWakeup
  <1> QED
    BY Inductive, <1>1, PTL

\* wake_up(&cwq->work_done) finds the flushes that wait and no other.
THEOREM WaitersQueuedHolds == Spec => []WaitersQueued
PROOF
  <1>1. IInv => WaitersQueued
    BY ZenonT(60) DEF IInv, WakeInv
  <1> QED
    BY Inductive, <1>1, PTL

\* No BUG_ON() of workqueue.c fires as long as no timer changes within a
\* del_timer().
THEOREM NoBugHolds == Spec => []NoBug
PROOF
  <1>1. IInv => NoBug
    BY ZenonT(60) DEF IInv, PendingInv, NoBug
  <1> QED
    BY Inductive, <1>1, PTL

\* flush_workqueue() returns early only after a work was overtaken.
THEOREM FlushCompleteHolds == Spec => []FlushComplete
PROOF
  <1>1. IInv => FlushComplete
    BY ZenonT(60) DEF IInv, SequenceInv, InOrder, FlushComplete
  <1> QED
    BY Inductive, <1>1, PTL

\* The sequence counters that flush_cpu_workqueue() compares differ by the works
\* that are queued or running.
THEOREM AccountedHolds == Spec => []Accounted
PROOF
  <1>1. IInv => Accounted
    BY Zenon DEF IInv, AccountInv
  <1> QED
    BY Inductive, <1>1, PTL

=============================================================================
