------------------------------ MODULE IrqProofs ------------------------------
(***************************************************************************)
(* The registration of interrupt handlers for any number of interrupts,    *)
(* handlers and descriptors. RegisterInv, on the list of descriptors and   *)
(* the request under way, holds also when attaching to an interrupt fails. *)
(* CalledInv, on the handlers of the descriptors, needs that it works.     *)
(***************************************************************************)
EXTENDS Irq, TLAPS, SequenceTheorems

\* The descriptor of the request under way is on the list and is one of its
\* interrupt; a descriptor without an interrupt is not on the list.
RegisterInv ==
  /\ TypeOK
  /\ action \in [Descs -> Seq(Handlers)]
  /\ \A d \in Descs : irq[d] = NULL => d \notin Range(used_irqs) /\ action[d] = <<>>
  /\ pc # "idle" => /\ req \in Handlers /\ cur \in Descs
                    /\ irq[cur] = req[1] /\ cur \in Range(used_irqs)

\* As long as attaching works: every descriptor on the list has its thread
\* when its first handler is added, its flag is that of the first handler, and
\* the handlers are those that were granted.
CalledInv ==
  /\ \A d \in Descs : d \in Range(used_irqs) => d \in attached \/ (pc = "attach" /\ d = cur)
  /\ \A d \in Descs : d \in Range(used_irqs) /\ action[d] = <<>> =>
       pc # "idle" /\ d = cur /\ shared[d] = req[2]
  /\ \A d \in Descs : shared[d] => \A h \in Range(action[d]) : h[2]
  /\ \A d \in Descs : shared[d] \/ Len(action[d]) <= 1
  /\ \A d \in Descs : Range(action[d]) \subseteq granted
  /\ \A h \in granted :
       \E d \in attached : irq[d] = h[1] /\ d \in Range(used_irqs) /\ h \in Range(action[d])

\* A list with a new head.
LEMMA Prepended ==
  ASSUME NEW E, NEW s \in Seq(E), NEW e \in E
  PROVE  /\ <<e>> \o s \in Seq(E) /\ <<e>> \o s # << >>
         /\ Len(s) \in Nat /\ Len(<<e>> \o s) = Len(s) + 1
         /\ (<<e>> \o s)[1] = e
         /\ \A k \in 2..(Len(s) + 1) : (<<e>> \o s)[k] = s[k - 1]
         /\ \A x : x \in Range(<<e>> \o s) <=> x = e \/ x \in Range(s)
PROOF
  <1> DEFINE t == <<e>> \o s
  <1>1. <<e>> \in Seq(E) /\ Len(<<e>>) = 1 /\ <<e>>[1] = e
    OBVIOUS
  <1>2. Len(s) \in Nat /\ DOMAIN s = 1..Len(s)
    BY LenProperties
  <1>3. /\ t \in Seq(E) /\ Len(t) = Len(s) + 1 /\ DOMAIN t = 1..(Len(s) + 1)
        /\ \A k \in 1..(Len(s) + 1) : t[k] = IF k <= 1 THEN <<e>>[k] ELSE s[k - 1]
    BY <1>1, <1>2, ConcatProperties, LenProperties
  <1> HIDE DEF t
  <1>4. /\ t[1] = e
        /\ \A k \in 2..(Len(s) + 1) : t[k] = s[k - 1]
    BY <1>1, <1>2, <1>3
  <1>5. t # << >>
    BY <1>2, <1>3
  <1>6. ASSUME NEW x PROVE x \in Range(t) <=> x = e \/ x \in Range(s)
    <2>1. ASSUME x \in Range(t) PROVE x = e \/ x \in Range(s)
      <3>1. PICK k \in 1..(Len(s) + 1) : t[k] = x
        BY <1>3, <2>1 DEF Range
      <3>2. CASE k = 1
        BY <1>4, <3>1, <3>2
      <3>3. CASE k # 1
        <4>1. k - 1 \in 1..Len(s) /\ s[k - 1] = x
          BY <1>2, <1>4, <3>1, <3>3
        <4> QED
          BY <1>2, <4>1 DEF Range
      <3> QED
        BY <3>2, <3>3
    <2>2. ASSUME x = e PROVE x \in Range(t)
      BY <1>2, <1>3, <1>4, <2>2 DEF Range
    <2>3. ASSUME x \in Range(s) PROVE x \in Range(t)
      <3>1. PICK k \in 1..Len(s) : s[k] = x
        BY <1>2, <2>3 DEF Range
      <3>2. k + 1 \in DOMAIN t /\ t[k + 1] = s[(k + 1) - 1] /\ (k + 1) - 1 = k
        BY <1>2, <1>3, <1>4
      <3> QED
        BY <3>1, <3>2 DEF Range
    <2> QED
      BY <2>1, <2>2, <2>3
  <1> QED
    BY <1>2, <1>3, <1>4, <1>5, <1>6 DEF t

\* At first nothing is registered.
LEMMA InitRegisterInv == Init => RegisterInv /\ CalledInv
  BY DEF Init, RegisterInv, CalledInv, TypeOK, Range, IsInjective

\* The steps keep the list and the request under way in order, whether
\* attaching fails or not.
LEMMA NextRegisterInv == RegisterInv /\ [Next]_vars => RegisterInv'
PROOF
  <1> SUFFICES ASSUME RegisterInv, [Next]_vars PROVE RegisterInv'
    OBVIOUS
  <1>0. /\ used_irqs \in Seq(Descs) /\ irq \in [Descs -> Irqs \cup {NULL}]
        /\ shared \in [Descs -> BOOLEAN] /\ action \in [Descs -> Seq(Handlers)]
        /\ attached \in SUBSET Descs /\ freed \in SUBSET Descs
        /\ pc \in {"idle", "attach", "add"} /\ req \in Handlers \cup {NULL}
        /\ cur \in Descs \cup {NULL} /\ granted \in SUBSET Handlers
        /\ refused \in SUBSET Handlers
    BY Zenon DEF RegisterInv, TypeOK
  <1>1. ASSUME UNCHANGED <<used_irqs, irq, shared, action>>, attached' \in SUBSET Descs,
               freed' \in SUBSET Descs, pc' \in {"idle", "attach", "add"},
               req' \in Handlers \cup {NULL}, cur' \in Descs \cup {NULL},
               granted' \in SUBSET Handlers, refused' \in SUBSET Handlers,
               pc' # "idle" => /\ req' \in Handlers /\ cur' \in Descs
                               /\ irq[cur'] = req'[1] /\ cur' \in Range(used_irqs)
        PROVE  RegisterInv'
    BY <1>1 DEF RegisterInv, TypeOK
  <1>2. CASE UNCHANGED vars
    BY <1>0, <1>1, <1>2 DEF vars, desc_vars, RegisterInv
  <1>3. ASSUME NEW h \in Handlers, request_irq_fails(h) PROVE RegisterInv'
    BY <1>0, <1>1, <1>3 DEF request_irq_fails, Return, desc_vars
  <1>4. ASSUME NEW h \in Handlers, claim_irq_found(h) PROVE RegisterInv'
    <2>1. PICK k \in DOMAIN used_irqs : irq[used_irqs[k]] = h[1] /\ cur' = used_irqs[k]
      BY <1>4 DEF claim_irq_found
    <2>2. used_irqs[k] \in Descs
      BY <1>0, LenProperties, ElementOfSeq
    <2>3. cur' \in Range(used_irqs)
      BY <2>1 DEF Range
    <2> QED
      BY <1>0, <1>1, <1>4, <2>1, <2>2, <2>3 DEF claim_irq_found, desc_vars
  <1>5. ASSUME NEW h \in Handlers, claim_irq_new(h) PROVE RegisterInv'
    <2>1. PICK d \in Descs :
            /\ irq[d] = NULL /\ irq' = [irq EXCEPT ![d] = h[1]]
            /\ shared' = [shared EXCEPT ![d] = h[2]]
            /\ used_irqs' = <<d>> \o used_irqs /\ cur' = d
      BY <1>5, Zenon DEF claim_irq_new
    <2>2. /\ \A k \in DOMAIN used_irqs : irq[used_irqs[k]] # h[1]
          /\ req' = h /\ pc' = "attach"
          /\ UNCHANGED <<action, attached, freed, granted, refused>>
      BY <1>5 DEF claim_irq_new
    <2>3. h[1] \in Irqs /\ h[2] \in BOOLEAN /\ h[1] # NULL
      BY NullAssumption DEF Handlers
    <2>4. /\ used_irqs' \in Seq(Descs) /\ Len(used_irqs) \in Nat
          /\ Len(used_irqs') = Len(used_irqs) + 1
          /\ used_irqs'[1] = d
          /\ \A k \in 2..(Len(used_irqs) + 1) : used_irqs'[k] = used_irqs[k - 1]
          /\ \A x : x \in Range(used_irqs') <=> x = d \/ x \in Range(used_irqs)
      BY <1>0, <2>1, Prepended
    <2>5. /\ DOMAIN used_irqs = 1..Len(used_irqs)
          /\ DOMAIN used_irqs' = 1..(Len(used_irqs) + 1)
      BY <1>0, <2>4, LenProperties
    <2>6. \A k \in DOMAIN used_irqs : used_irqs[k] \in Descs /\ used_irqs[k] # d
      <3>1. d \notin Range(used_irqs)
        BY <2>1 DEF RegisterInv
      <3> QED
        BY <1>0, <2>5, <3>1, ElementOfSeq DEF Range
    <2>7. /\ irq'[used_irqs'[1]] = h[1]
          /\ \A k \in 1..(Len(used_irqs) + 1) : k # 1 =>
               k - 1 \in DOMAIN used_irqs /\ irq'[used_irqs'[k]] = irq[used_irqs[k - 1]]
      <3>1. \A k \in 1..(Len(used_irqs) + 1) : k # 1 =>
              k - 1 \in DOMAIN used_irqs /\ used_irqs'[k] = used_irqs[k - 1]
        BY <2>4, <2>5
      <3>2. irq'[d] = h[1] /\ \A x \in Descs \ {d} : irq'[x] = irq[x]
        BY <1>0, <2>1
      <3> QED
        BY <2>4, <2>6, <3>1, <3>2, Zenon
    <2>8. IsInjective([k \in DOMAIN used_irqs |-> irq[used_irqs[k]]])'
      <3>1. \A a, b \in DOMAIN used_irqs : irq[used_irqs[a]] = irq[used_irqs[b]] => a = b
        BY DEF RegisterInv, TypeOK, IsInjective
      <3>2. ASSUME NEW a \in 1..(Len(used_irqs) + 1), NEW b \in 1..(Len(used_irqs) + 1),
                   irq'[used_irqs'[a]] = irq'[used_irqs'[b]]
            PROVE  a = b
        <4>1. a = 1 <=> b = 1
          BY <2>2, <2>7, <3>2, ZenonT(60)
        <4>2. ASSUME a # 1 PROVE a = b
          <5>1. /\ a - 1 \in DOMAIN used_irqs /\ b - 1 \in DOMAIN used_irqs
                /\ irq[used_irqs[a - 1]] = irq[used_irqs[b - 1]]
            BY <2>7, <3>2, <4>1, <4>2, Zenon
          <5>2. a - 1 = b - 1
            BY <3>1, <5>1, Zenon
          <5> QED
            BY <5>2
        <4> QED
          BY <4>1, <4>2, Zenon
      <3> QED
        BY <2>5, <3>2 DEF IsInjective
    <2>9. /\ irq' \in [Descs -> Irqs \cup {NULL}] /\ shared' \in [Descs -> BOOLEAN]
          /\ \A x \in Descs : irq'[x] = NULL => x # d /\ irq[x] = NULL
          /\ irq'[d] = h[1]
      BY <1>0, <2>1, <2>3
    <2>10. \A x \in Descs : irq'[x] = NULL => x \notin Range(used_irqs') /\ action'[x] = <<>>
      BY <2>2, <2>4, <2>9 DEF RegisterInv
    <2> QED
      BY <1>0, <2>1, <2>2, <2>4, <2>8, <2>9, <2>10, Zenon DEF RegisterInv, TypeOK
  <1>6. CASE claim_irq_attach
    <2>1. req \in Handlers /\ cur \in Descs
      BY <1>6 DEF claim_irq_attach, RegisterInv
    <2> QED
      BY <1>0, <1>1, <1>6, <2>1 DEF claim_irq_attach, Return, RegisterInv
  <1>7. CASE claim_irq_add
    <2>1. req \in Handlers /\ cur \in Descs /\ irq[cur] = req[1] /\ cur \in Range(used_irqs)
      BY <1>7 DEF claim_irq_add, RegisterInv
    <2>2. /\ pc' = "idle" /\ req' = NULL /\ cur' = NULL
          /\ granted' \in SUBSET Handlers /\ refused' \in SUBSET Handlers
          /\ UNCHANGED <<used_irqs, irq, shared, attached, freed>>
      BY <1>0, <1>7, <2>1 DEF claim_irq_add, Return
    <2>3. CASE action' = action
      BY <1>0, <1>1, <2>2, <2>3
    <2>4. CASE action' = [action EXCEPT ![cur] = <<req>> \o @]
      <3>1. irq[cur] # NULL
        BY <2>1 DEF RegisterInv
      <3>2. <<req>> \o action[cur] \in Seq(Handlers)
        BY <1>0, <2>1, Prepended
      <3>3. /\ action' \in [Descs -> Seq(Handlers)]
            /\ \A d \in Descs : irq[d] = NULL => action'[d] = action[d]
        BY <1>0, <2>4, <3>1, <3>2, Zenon
      <3> QED
        BY <1>0, <2>2, <3>3 DEF RegisterInv, TypeOK
    <2> QED
      BY <1>7, <2>3, <2>4, Zenon DEF claim_irq_add
  <1>8. ASSUME NEW d \in Descs, irq_handler(d) \/ irq_handler_next(d) PROVE RegisterInv'
    BY <1>0, <1>1, <1>8 DEF irq_handler, irq_handler_next, desc_vars, RegisterInv
  <1> QED
    BY <1>2, <1>3, <1>4, <1>5, <1>6, <1>7, <1>8 DEF Next

\* Each descriptor has one flag, and every handler that was granted has a
\* descriptor with a thread.
LEMMA NextCalledInv ==
  ~ AttachFails /\ RegisterInv /\ CalledInv /\ [Next]_vars => CalledInv'
PROOF
  <1> SUFFICES ASSUME ~ AttachFails, RegisterInv, CalledInv, [Next]_vars PROVE CalledInv'
    OBVIOUS
  <1>0. /\ used_irqs \in Seq(Descs) /\ irq \in [Descs -> Irqs \cup {NULL}]
        /\ shared \in [Descs -> BOOLEAN] /\ action \in [Descs -> Seq(Handlers)]
        /\ attached \in SUBSET Descs /\ granted \in SUBSET Handlers
        /\ pc # "idle" => /\ req \in Handlers /\ cur \in Descs
                          /\ irq[cur] = req[1] /\ cur \in Range(used_irqs)
    BY Zenon DEF RegisterInv, TypeOK
  <1>1. CASE UNCHANGED <<desc_vars, pc, req, cur, granted, refused>>
    BY <1>1, Zenon DEF desc_vars, CalledInv
  <1>2. CASE UNCHANGED vars
    BY <1>1, <1>2, Zenon DEF vars
  <1>3. ASSUME NEW h \in Handlers, request_irq_fails(h) PROVE CalledInv'
    BY <1>3 DEF request_irq_fails, Return, desc_vars, CalledInv
  <1>4. ASSUME NEW h \in Handlers, claim_irq_found(h) PROVE CalledInv'
    BY <1>4 DEF claim_irq_found, desc_vars, CalledInv
  <1>5. ASSUME NEW h \in Handlers, claim_irq_new(h) PROVE CalledInv'
    <2>1. PICK d \in Descs :
            /\ irq[d] = NULL /\ irq' = [irq EXCEPT ![d] = h[1]]
            /\ shared' = [shared EXCEPT ![d] = h[2]]
            /\ used_irqs' = <<d>> \o used_irqs /\ cur' = d
      BY <1>5, Zenon DEF claim_irq_new
    <2>2. /\ pc = "idle" /\ req' = h /\ pc' = "attach"
          /\ UNCHANGED <<action, attached, granted>>
      BY <1>5 DEF claim_irq_new
    <2>3. \A x : x \in Range(used_irqs') <=> x = d \/ x \in Range(used_irqs)
      BY <1>0, <2>1, Prepended
    <2>4. /\ action[d] = <<>> /\ d \notin Range(used_irqs)
      BY <2>1 DEF RegisterInv
    <2>5. /\ \A x : x \notin Range(<<>>)
          /\ Len(<<>>) = 0
      BY DEF Range
    <2>6. /\ irq'[d] = h[1] /\ shared'[d] = h[2]
          /\ \A x \in Descs \ {d} : irq'[x] = irq[x] /\ shared'[x] = shared[x]
      BY <1>0, <2>1
    <2>7. \A x \in Descs : x \in Range(used_irqs') => x \in attached' \/ (pc' = "attach" /\ x = cur')
      BY <2>1, <2>2, <2>3, Zenon DEF CalledInv
    <2>8. \A x \in Descs : x \in Range(used_irqs') /\ action'[x] = <<>> =>
            pc' # "idle" /\ x = cur' /\ shared'[x] = req'[2]
      BY <2>1, <2>2, <2>3, <2>6 DEF CalledInv
    <2>9. ASSUME NEW x \in Descs, shared'[x], NEW g \in Range(action'[x])
          PROVE  g[2]
      <3>1. g \in Range(action[x])
        BY <2>2, <2>9, Zenon
      <3>2. shared[x]
        BY <2>4, <2>5, <2>6, <2>9, <3>1, Zenon
      <3> QED
        BY <3>1, <3>2, Zenon DEF CalledInv
    <2>10. \A x \in Descs : shared'[x] \/ Len(action'[x]) <= 1
      BY <2>2, <2>4, <2>5, <2>6 DEF CalledInv
    <2>11. \A x \in Descs : Range(action'[x]) \subseteq granted'
      BY <2>2, Zenon DEF CalledInv
    <2>12. \A g \in granted' :
             \E x \in attached' : /\ irq'[x] = g[1] /\ x \in Range(used_irqs')
                                  /\ g \in Range(action'[x])
      BY <1>0, <2>2, <2>3, <2>4, <2>6, ZenonT(60) DEF CalledInv
    <2> QED
      BY <2>7, <2>8, <2>9, <2>10, <2>11, <2>12, Zenon DEF CalledInv
  <1>6. CASE claim_irq_attach
    <2>1. /\ pc = "attach" /\ pc' = "add" /\ attached' = attached \cup {cur}
          /\ UNCHANGED <<used_irqs, irq, shared, action, req, cur, granted>>
      BY <1>6, Zenon DEF claim_irq_attach
    <2> QED
      BY <2>1 DEF CalledInv
  <1>7. CASE claim_irq_add
    <2>1. /\ req \in Handlers /\ cur \in Descs /\ irq[cur] = req[1] /\ cur \in Range(used_irqs)
          /\ cur \in attached
      BY <1>0, <1>7 DEF claim_irq_add, CalledInv
    <2>2. /\ pc = "add" /\ pc' = "idle"
          /\ UNCHANGED <<used_irqs, irq, shared, attached>>
      BY <1>7 DEF claim_irq_add, Return
    <2>3. CASE ~ (shared[cur] /\ req[2]) /\ action[cur] # <<>>
      <3>1. UNCHANGED <<action, granted>>
        BY <1>7, <2>3 DEF claim_irq_add, Return
      <3> QED
        BY <2>2, <2>3, <3>1 DEF CalledInv
    <2>4. CASE (shared[cur] /\ req[2]) \/ action[cur] = <<>>
      <3> DEFINE new == <<req>> \o action[cur]
      <3>1. action' = [action EXCEPT ![cur] = new] /\ granted' = granted \cup {req}
        BY <1>7, <2>4 DEF claim_irq_add, Return
      <3>2. /\ new # <<>> /\ Len(action[cur]) \in Nat /\ Len(new) = Len(action[cur]) + 1
            /\ \A x : x \in Range(new) <=> x = req \/ x \in Range(action[cur])
        BY <1>0, <2>1, Prepended
      <3> HIDE DEF new
      <3>3. action'[cur] = new /\ \A x \in Descs \ {cur} : action'[x] = action[x]
        BY <1>0, <2>1, <3>1
      <3>4. shared[cur] => req[2]
        BY <2>1, <2>2, <2>4 DEF CalledInv
      <3>5. shared[cur] \/ Len(new) <= 1
        BY <2>4, <3>2
      <3>6. \A x \in Descs : x \in Range(used_irqs') => x \in attached' \/ (pc' = "attach" /\ x = cur')
        BY <2>2 DEF CalledInv
      <3>7. \A x \in Descs : x \in Range(used_irqs') => action'[x] # <<>>
        BY <2>2, <3>2, <3>3, Zenon DEF CalledInv
      <3>8. \A x \in Descs : shared'[x] => \A g \in Range(action'[x]) : g[2]
        BY <2>2, <3>2, <3>3, <3>4, Zenon DEF CalledInv
      <3>9. \A x \in Descs : shared'[x] \/ Len(action'[x]) <= 1
        BY <2>2, <3>3, <3>5, Zenon DEF CalledInv
      <3>10. \A x \in Descs : Range(action'[x]) \subseteq granted'
        BY <3>1, <3>2, <3>3 DEF CalledInv
      <3>11. ASSUME NEW g \in granted'
             PROVE  \E x \in attached' : /\ irq'[x] = g[1] /\ x \in Range(used_irqs')
                                         /\ g \in Range(action'[x])
        <4>1. CASE g = req
          BY <2>1, <2>2, <3>2, <3>3, <4>1, Zenon
        <4>2. CASE g \in granted
          <5>1. PICK x \in attached : /\ irq[x] = g[1] /\ x \in Range(used_irqs)
                                      /\ g \in Range(action[x])
            BY <4>2, Zenon DEF CalledInv
          <5>2. g \in Range(action'[x])
            BY <1>0, <3>2, <3>3, <5>1, Zenon
          <5> QED
            BY <2>2, <5>1, <5>2, Zenon
        <4> QED
          BY <3>1, <4>1, <4>2, Zenon
      <3> QED
        BY <3>6, <3>7, <3>8, <3>9, <3>10, <3>11, Zenon DEF CalledInv
    <2> QED
      BY <2>3, <2>4, Zenon
  <1>8. ASSUME NEW d \in Descs, irq_handler(d) \/ irq_handler_next(d) PROVE CalledInv'
    BY <1>1, <1>8, Zenon DEF irq_handler, irq_handler_next
  <1> QED
    BY <1>2, <1>3, <1>4, <1>5, <1>6, <1>7, <1>8 DEF Next

\* The list of descriptors has one of each interrupt, also after
\* dde_kit_interrupt_attach() has failed, and the variables keep their types.
THEOREM TypeCorrect == Spec => []TypeOK
PROOF
  <1>1. RegisterInv => TypeOK
    BY Zenon DEF RegisterInv
  <1> QED
    BY InitRegisterInv, NextRegisterInv, <1>1, PTL DEF Spec

\* As long as dde_kit_interrupt_attach() works, both parts hold.
THEOREM Inductive == ~ AttachFails /\ Spec => [](RegisterInv /\ CalledInv)
PROOF
  <1> SUFFICES ASSUME ~ AttachFails PROVE Spec => [](RegisterInv /\ CalledInv)
    OBVIOUS
  <1>1. RegisterInv /\ CalledInv /\ [Next]_vars => CalledInv'
    BY NextCalledInv
  <1> QED
    BY InitRegisterInv, NextRegisterInv, <1>1, PTL DEF Spec

\* request_irq() does not let a second driver share the interrupt of one that
\* asked for it exclusively, for any order of the requests.
THEOREM ExclusiveAloneHolds == ~ AttachFails /\ Spec => []ExclusiveAlone
PROOF
  <1>1. RegisterInv /\ CalledInv => ExclusiveAlone
    <2> SUFFICES ASSUME RegisterInv, CalledInv, NEW d \in Descs, NEW k \in DOMAIN action[d],
                        ~ action[d][k][2]
                 PROVE  Len(action[d]) = 1
      BY Zenon DEF ExclusiveAlone
    <2>1. action[d] \in Seq(Handlers)
      BY Zenon DEF RegisterInv
    <2>2. k \in 1..Len(action[d]) /\ Len(action[d]) \in Nat /\ action[d][k] \in Handlers
      BY <2>1, LenProperties, ElementOfSeq
    <2>3. action[d][k] \in Range(action[d])
      BY <2>2, Zenon DEF Range
    <2>4. ~ shared[d]
      BY <2>2, <2>3, Zenon DEF CalledInv
    <2>5. Len(action[d]) <= 1
      BY <2>4, Zenon DEF CalledInv
    <2>6. \A n \in Nat : \A j \in 1..n : n <= 1 => n = 1
      OBVIOUS
    <2> QED
      BY <2>2, <2>5, <2>6, Zenon
  <1> QED
    BY Inductive, <1>1, PTL

\* As long as dde_kit_interrupt_attach() works, request_irq() returns 0 exactly
\* for the handlers that the IRQ threads call.
THEOREM GrantedIsCalledHolds == ~ AttachFails /\ Spec => []GrantedIsCalled
PROOF
  <1>1. RegisterInv /\ CalledInv => GrantedIsCalled
    BY Zenon DEF RegisterInv, TypeOK, CalledInv, GrantedIsCalled, Asked
  <1> QED
    BY Inductive, <1>1, PTL

=============================================================================
