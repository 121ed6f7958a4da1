--------------------------------- MODULE Irq ---------------------------------
(***************************************************************************)
(* Registration of interrupt handlers (arch/dde_kit/irq.c).  Drivers       *)
(* register from their initcalls, one after the other; an attached IRQ has *)
(* a thread of its own that walks the handlers while more are registered.  *)
(*                                                                         *)
(* A handler is <<irq, shared, dev_id>>.  Memory that was freed keeps its  *)
(* contents: the model does not hand it out again.  The usage count is the *)
(* length of the list of handlers.  The soft IRQs that irq_handler() raises*)
(* when it is done are the raise_softirq calls of module Softirq.          *)
(***************************************************************************)
EXTENDS Naturals, Sequences, Functions

CONSTANTS Irqs,
          DevIds,
          Descs,          \* the memory for struct dde_linux26_irq
          NULL,
          AttachFails     \* dde_kit_interrupt_attach() may fail

ASSUME NullAssumption == NULL \notin Irqs \cup Descs

VARIABLES used_irqs,      \* the list of descriptors, head first
          irq, shared,    \* the fields of a descriptor
          action,         \* its handlers, head first
          attached,       \* the descriptors with an IRQ thread
          freed,          \* the descriptors given back to the allocator
          cursor,         \* what is left to call for the IRQ thread
          pc, req, cur,   \* request_irq(): where it is, for which handler,
                          \* at which descriptor
          granted,        \* the handlers whose request_irq() returned 0
          refused         \* those whose request_irq() returned an error

desc_vars == <<used_irqs, irq, shared, action, attached, freed>>
vars == <<desc_vars, cursor, pc, req, cur, granted, refused>>

Handlers == Irqs \X BOOLEAN \X DevIds
Asked == granted \cup refused

Init ==
  /\ used_irqs = <<>>
  /\ irq = [d \in Descs |-> NULL]
  /\ shared = [d \in Descs |-> FALSE]
  /\ action = [d \in Descs |-> <<>>]
  /\ attached = {}
  /\ freed = {}
  /\ cursor = [d \in Descs |-> <<>>]
  /\ pc = "idle"
  /\ req = NULL
  /\ cur = NULL
  /\ granted = {}
  /\ refused = {}

\* request_irq() returns.
Return(h, ok) ==
  /\ pc' = "idle"
  /\ req' = NULL
  /\ cur' = NULL
  /\ granted' = IF ok THEN granted \cup {h} ELSE granted
  /\ refused' = IF ok THEN refused ELSE refused \cup {h}

\* There is no handler, or an allocation of request_irq() or claim_irq() fails.
request_irq_fails(h) ==
  /\ pc = "idle" /\ h \notin Asked
  /\ Return(h, FALSE)
  /\ UNCHANGED <<desc_vars, cursor>>

\* claim_irq() finds a descriptor of the IRQ...
claim_irq_found(h) ==
  /\ pc = "idle" /\ h \notin Asked
  /\ \E k \in DOMAIN used_irqs :
       /\ irq[used_irqs[k]] = h[1]
       /\ \A j \in 1..(k - 1) : irq[used_irqs[j]] # h[1]
       /\ cur' = used_irqs[k]
  /\ req' = h
  /\ pc' = "add"
  /\ UNCHANGED <<desc_vars, cursor, granted, refused>>

\* Faulty: the new descriptor does not point to the rest of the list.
claim_irq_new_first(h) ==
  /\ pc = "idle" /\ h \notin Asked
  /\ \A k \in DOMAIN used_irqs : irq[used_irqs[k]] # h[1]
  /\ \E d \in Descs :
       /\ irq[d] = NULL
       /\ irq' = [irq EXCEPT ![d] = h[1]]
       /\ shared' = [shared EXCEPT ![d] = h[2]]
       /\ used_irqs' = <<d>>
       /\ cur' = d
  /\ req' = h
  /\ pc' = "attach"
  /\ UNCHANGED <<action, attached, freed, cursor, granted, refused>>

\* Faulty: the search stops at the head of the list.
claim_irq_new_head(h) ==
  /\ pc = "idle" /\ h \notin Asked
  /\ used_irqs # <<>> => irq[Head(used_irqs)] # h[1]
  /\ \E d \in Descs :
       /\ irq[d] = NULL
       /\ irq' = [irq EXCEPT ![d] = h[1]]
       /\ shared' = [shared EXCEPT ![d] = h[2]]
       /\ used_irqs' = <<d>> \o used_irqs
       /\ cur' = d
  /\ req' = h
  /\ pc' = "attach"
  /\ UNCHANGED <<action, attached, freed, cursor, granted, refused>>

\* ... or links a new one...
claim_irq_new(h) ==
  /\ pc = "idle" /\ h \notin Asked
  /\ \A k \in DOMAIN used_irqs : irq[used_irqs[k]] # h[1]
  /\ \E d \in Descs :
       /\ irq[d] = NULL
       /\ irq' = [irq EXCEPT ![d] = h[1]]
       /\ shared' = [shared EXCEPT ![d] = h[2]]
       /\ used_irqs' = <<d>> \o used_irqs
       /\ cur' = d
  /\ req' = h
  /\ pc' = "attach"
  /\ UNCHANGED <<action, attached, freed, cursor, granted, refused>>

\* ... and attaches to the interrupt; a failure frees the descriptor, which
\* is on the list.
claim_irq_attach ==
  /\ pc = "attach"
  /\ \/ /\ attached' = attached \cup {cur}
        /\ pc' = "add"
        /\ UNCHANGED <<freed, req, cur, granted, refused>>
     \/ /\ AttachFails
        /\ freed' = freed \cup {cur}
        /\ Return(req, FALSE)
        /\ UNCHANGED attached
  /\ UNCHANGED <<used_irqs, irq, shared, action, cursor>>

\* Faulty: the new handler's own flag is not looked at.
claim_irq_add_any ==
  /\ pc = "add"
  /\ IF ~ shared[cur] /\ action[cur] # <<>>
     THEN Return(req, FALSE) /\ UNCHANGED action
     ELSE Return(req, TRUE) /\ action' = [action EXCEPT ![cur] = <<req>> \o @]
  /\ UNCHANGED <<used_irqs, irq, shared, attached, freed, cursor>>

\* The descriptor allows the handler, or does not.
claim_irq_add ==
  /\ pc = "add"
  /\ IF ~ (shared[cur] /\ req[2]) /\ action[cur] # <<>>
     THEN Return(req, FALSE) /\ UNCHANGED action
     ELSE Return(req, TRUE) /\ action' = [action EXCEPT ![cur] = <<req>> \o @]
  /\ UNCHANGED <<used_irqs, irq, shared, attached, freed, cursor>>

\* An interrupt: the IRQ thread starts with the first handler.
irq_handler(d) ==
  /\ d \in attached /\ cursor[d] = <<>> /\ action[d] # <<>>
  /\ cursor' = [cursor EXCEPT ![d] = action[d]]
  /\ UNCHANGED <<desc_vars, pc, req, cur, granted, refused>>

\* action->handler() returns.
irq_handler_next(d) ==
  /\ cursor[d] # <<>>
  /\ cursor' = [cursor EXCEPT ![d] = Tail(@)]
  /\ UNCHANGED <<desc_vars, pc, req, cur, granted, refused>>

Next ==
  \/ \E h \in Handlers : request_irq_fails(h) \/ claim_irq_found(h) \/ claim_irq_new(h)
  \/ claim_irq_attach
  \/ claim_irq_add
  \/ \E d \in Descs : irq_handler(d) \/ irq_handler_next(d)

Spec == Init /\ [][Next]_vars

-----------------------------------------------------------------------------

\* The type of the state; the list has one descriptor for an IRQ number,
\* since claim_irq() searches it before it links another.
TypeOK ==
  /\ used_irqs \in Seq(Descs)
  /\ IsInjective([k \in DOMAIN used_irqs |-> irq[used_irqs[k]]])
  /\ irq \in [Descs -> Irqs \cup {NULL}]
  /\ shared \in [Descs -> BOOLEAN]
  /\ \A d \in Descs : action[d] \in Seq(Handlers)
  /\ attached \in SUBSET Descs /\ freed \in SUBSET Descs
  /\ pc \in {"idle", "attach", "add"}
  /\ req \in Handlers \cup {NULL} /\ cur \in Descs \cup {NULL}
  /\ granted \in SUBSET Handlers /\ refused \in SUBSET Handlers

\* A driver that asked for an IRQ of its own does not share it, whoever
\* registers before or after it.
ExclusiveAlone ==
  \A d \in Descs : \A k \in DOMAIN action[d] : ~ action[d][k][2] => Len(action[d]) = 1

\* What request_irq() returns says what happened ("0 on success; error code
\* otherwise"): a handler is called by the IRQ thread of its interrupt if and
\* only if its request was granted.  The thread reaches it from a descriptor
\* that later requests find.
GrantedIsCalled ==
  \A h \in Asked :
    h \in granted <=>
      \E d \in attached : irq[d] = h[1] /\ d \in Range(used_irqs) /\ h \in Range(action[d])

=============================================================================
