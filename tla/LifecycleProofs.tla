--------------------------- MODULE LifecycleProofs ---------------------------
(***************************************************************************)
(* Proof that Governance implements QueueLifecycle.                        *)
(***************************************************************************)
EXTENDS GovernanceProofs

\* A step as the observer of QueueLifecycle sees it.
ObservedStep == Lifecycle!Next \/ UNCHANGED Lifecycle!lvars

\* What the observer sees of fences and generations, queue by queue.
SameFences == \A r \in Queues : fence'[r].fenced = fence[r].fenced
SameGenerations == \A r \in Queues : def'[r].generation = def[r].generation

\* Nothing the observer sees has changed.
LEMMA AsStutter ==
  ASSUME UNCHANGED lifecycle, SameFences, SameGenerations
  PROVE  ObservedStep
BY DEF ObservedStep, Lifecycle!lvars, SameFences, SameGenerations

\* A move along the transition table.
LEMMA AsMove ==
  ASSUME NEW q \in Queues, NEW to \in Lifecycles, ~fence[q].fenced, <<lifecycle[q], to>> \in kRules,
         lifecycle' = [lifecycle EXCEPT ![q] = to], SameFences, SameGenerations
  PROVE  ObservedStep
<1>1. Lifecycle!Move(q, to)
  BY DEF Lifecycle!Move, Lifecycle!kRules, kRules, SameFences, SameGenerations
<1> QED
  BY <1>1 DEF ObservedStep, Lifecycle!Next, Lifecycle!Lifecycles, Lifecycles

\* The declaration of a queue.
LEMMA AsDeclare ==
  ASSUME NEW q \in Queues, lifecycle[q] = "undeclared",
         lifecycle' = [lifecycle EXCEPT ![q] = "declared"], SameFences, def'[q].generation = 1,
         \A r \in Queues \ {q} : def'[r].generation = def[r].generation
  PROVE  ObservedStep
<1>1. Lifecycle!Declare(q)
  BY DEF Lifecycle!Declare, SameFences
<1> QED
  BY <1>1 DEF ObservedStep, Lifecycle!Next

\* A new definition.
LEMMA AsRedefine ==
  ASSUME NEW q \in Queues, ~fence[q].fenced,
         lifecycle[q] \notin {"undeclared", "retired", "failed"}, UNCHANGED lifecycle, SameFences,
         def'[q].generation = def[q].generation + 1,
         \A r \in Queues \ {q} : def'[r].generation = def[r].generation
  PROVE  ObservedStep
<1>1. Lifecycle!Redefine(q)
  BY DEF Lifecycle!Redefine, Lifecycle!InService, SameFences
<1> QED
  BY <1>1 DEF ObservedStep, Lifecycle!Next

\* A fence.
LEMMA AsFence ==
  ASSUME NEW q \in Queues, ~fence[q].fenced,
         lifecycle[q] \notin {"undeclared", "retired", "failed"}, UNCHANGED lifecycle,
         SameGenerations, fence'[q].fenced = TRUE,
         \A r \in Queues \ {q} : fence'[r].fenced = fence[r].fenced
  PROVE  ObservedStep
<1>1. Lifecycle!Fence(q)
  BY DEF Lifecycle!Fence, Lifecycle!InService, SameGenerations
<1> QED
  BY <1>1 DEF ObservedStep, Lifecycle!Next

\* The lifting of a fence.
LEMMA AsUnfence ==
  ASSUME NEW q \in Queues, fence[q].fenced, UNCHANGED lifecycle, SameGenerations,
         fence'[q].fenced = FALSE,
         \A r \in Queues \ {q} : fence'[r].fenced = fence[r].fenced
  PROVE  ObservedStep
<1>1. Lifecycle!Unfence(q)
  BY DEF Lifecycle!Unfence, SameGenerations
<1> QED
  BY <1>1 DEF ObservedStep, Lifecycle!Next

\* One step of the fabric is one step of QueueLifecycle, or none.
LEMMA ObservedByNext == IInv /\ [Next]_vars => ObservedStep
<1> SUFFICES ASSUME IInv, [Next]_vars PROVE ObservedStep
  OBVIOUS
<1>1. CASE UNCHANGED <<lifecycle, def, fence>>
  BY <1>1, AsStutter DEF SameFences, SameGenerations
<1>2. ASSUME NEW q \in Queues, NEW p \in Principals, NEW g \in Generations, NEW e \in Epochs,
             Mutate(q, p, g, e)
      PROVE  ObservedStep
  <2>1. CASE ValidateQueue(q, p, g, e)
    <3>1. ~fence[q].fenced
      BY <2>1 DEF ValidateQueue, IInv, FenceConsistent, Admitted, authorize, required_capability
    <3>2. /\ <<lifecycle[q], "validated">> \in kRules
          /\ lifecycle' = [lifecycle EXCEPT ![q] = "validated"]
      BY <2>1 DEF ValidateQueue, check_transition
    <3>3. SameFences /\ SameGenerations /\ "validated" \in Lifecycles
      BY <2>1 DEF ValidateQueue, SameFences, SameGenerations, Lifecycles
    <3> QED
      BY <3>1, <3>2, <3>3, AsMove
  <2>2. CASE ActivateQueue(q, p, g, e)
    <3>1. ~fence[q].fenced
      BY <2>2 DEF ActivateQueue, IInv, FenceConsistent, Admitted, authorize, required_capability
    <3>2. /\ <<lifecycle[q], "active">> \in kRules
          /\ lifecycle' = [lifecycle EXCEPT ![q] = "active"]
      BY <2>2 DEF ActivateQueue, check_transition
    <3>3. SameFences /\ SameGenerations /\ "active" \in Lifecycles
      BY <2>2 DEF ActivateQueue, SameFences, SameGenerations, Lifecycles
    <3> QED
      BY <3>1, <3>2, <3>3, AsMove
  <2>3. CASE Redefines(q, p, g, e)
    <3>1. ~fence[q].fenced /\ lifecycle[q] \notin {"undeclared", "retired", "failed"}
      BY <2>3, RedefineEffect
         DEF IInv, FenceConsistent, Admitted, Declared, authorize, required_capability
    <3>2. PICK d \in Definition :
             AdvanceDefinition(q, d) /\ d.generation = def[q].generation + 1
      BY <2>3, RedefineEffect DEF IInv
    <3>3. /\ UNCHANGED lifecycle /\ SameFences /\ def'[q].generation = def[q].generation + 1
          /\ \A r \in Queues \ {q} : def'[r].generation = def[r].generation
      BY <3>2, AdvanceEffect DEF IInv, SameFences
    <3> QED
      BY <3>1, <3>3, AsRedefine
  <2>4. CASE RequestDrain(q, p, g, e)
    <3>1. ~fence[q].fenced
      BY <2>4 DEF RequestDrain, IInv, FenceConsistent, Admitted, authorize, required_capability
    <3>2. /\ <<lifecycle[q], "draining">> \in kRules
          /\ lifecycle' = [lifecycle EXCEPT ![q] = "draining"]
      BY <2>4 DEF RequestDrain, check_transition
    <3>3. SameFences /\ SameGenerations /\ "draining" \in Lifecycles
      BY <2>4 DEF RequestDrain, SameFences, SameGenerations, Lifecycles
    <3> QED
      BY <3>1, <3>2, <3>3, AsMove
  <2>5. CASE CancelDrain(q, p, g, e)
    <3>1. ~fence[q].fenced
      BY <2>5 DEF CancelDrain, IInv, FenceConsistent, Admitted, authorize, required_capability
    <3>2. /\ <<lifecycle[q], "active">> \in kRules
          /\ lifecycle' = [lifecycle EXCEPT ![q] = "active"]
      BY <2>5 DEF CancelDrain, check_transition, kRules
    <3>3. SameFences /\ SameGenerations /\ "active" \in Lifecycles
      BY <2>5 DEF CancelDrain, SameFences, SameGenerations, Lifecycles
    <3> QED
      BY <3>1, <3>2, <3>3, AsMove
  <2>6. CASE QuiesceQueue(q, p, g, e)
    <3>1. ~fence[q].fenced
      BY <2>6 DEF QuiesceQueue, IInv, FenceConsistent, Admitted, authorize, required_capability
    <3>2. /\ <<lifecycle[q], "quiesced">> \in kRules
          /\ lifecycle' = [lifecycle EXCEPT ![q] = "quiesced"]
      BY <2>6 DEF QuiesceQueue, check_transition
    <3>3. SameFences /\ SameGenerations /\ "quiesced" \in Lifecycles
      BY <2>6 DEF QuiesceQueue, SameFences, SameGenerations, Lifecycles
    <3> QED
      BY <3>1, <3>2, <3>3, AsMove
  <2>7. CASE FenceQueue(q, p, g, e)
    <3>1. ~fence[q].fenced /\ lifecycle[q] \notin {"undeclared", "retired", "failed"}
      BY <2>7 DEF FenceQueue, Admitted, Declared, authorize, required_capability
    <3>2. /\ UNCHANGED lifecycle /\ SameGenerations /\ fence'[q].fenced = TRUE
          /\ \A r \in Queues \ {q} : fence'[r].fenced = fence[r].fenced
      BY <2>7 DEF FenceQueue, IInv, TypeOK, SameGenerations
    <3> QED
      BY <3>1, <3>2, AsFence
  <2>8. CASE UnfenceQueue(q, p, g, e)
    <3>1. fence[q] \in [fenced : BOOLEAN, token : Nat, epoch : Nat]
      BY DEF IInv, TypeOK
    <3>2. fence'[q] = [fence[q] EXCEPT !.fenced = FALSE]
      BY <2>8 DEF UnfenceQueue, IInv, TypeOK
    <3>3. fence'[q].fenced = FALSE
      BY <3>1, <3>2
    <3>4. /\ fence[q].fenced /\ UNCHANGED lifecycle /\ SameGenerations
          /\ \A r \in Queues \ {q} : fence'[r].fenced = fence[r].fenced
      BY <2>8 DEF UnfenceQueue, IInv, TypeOK, SameGenerations
    <3> QED
      BY <3>3, <3>4, AsUnfence
  <2>9. CASE FailQueue(q, p, g, e)
    <3>1. ~fence[q].fenced
      BY <2>9 DEF FailQueue, IInv, FenceConsistent, Admitted, authorize, required_capability
    <3>2. /\ <<lifecycle[q], "failed">> \in kRules
          /\ lifecycle' = [lifecycle EXCEPT ![q] = "failed"]
      BY <2>9 DEF FailQueue, check_transition
    <3>3. SameFences /\ SameGenerations /\ "failed" \in Lifecycles
      BY <2>9 DEF FailQueue, SameFences, SameGenerations, Lifecycles
    <3> QED
      BY <3>1, <3>2, <3>3, AsMove
  <2>10. CASE RetireQueue(q, p, g, e)
    <3>1. ~fence[q].fenced
      BY <2>10 DEF RetireQueue, IInv, FenceConsistent, Admitted, authorize, required_capability
    <3>2. /\ <<lifecycle[q], "retired">> \in kRules
          /\ lifecycle' = [lifecycle EXCEPT ![q] = "retired"]
      BY <2>10 DEF RetireQueue, check_transition
    <3>3. SameFences /\ SameGenerations /\ "retired" \in Lifecycles
      BY <2>10 DEF RetireQueue, SameFences, SameGenerations, Lifecycles
    <3> QED
      BY <3>1, <3>2, <3>3, AsMove
  <2> QED
    BY <1>1, <1>2, <2>1, <2>2, <2>3, <2>4, <2>5, <2>6, <2>7, <2>8, <2>9, <2>10
       DEF Mutate, Redefines, IngestOccupancy, SubmitDrainEvidence, FenceNotDurable,
           AcknowledgeBackend, queueVars, topologyVars
<1>3. ASSUME NEW p \in Principals, NEW e \in Epochs, Govern(p, e)
      PROVE  ObservedStep
  <2>1. ASSUME NEW q \in Queues, NEW n \in Names,
               NEW cls \in [id : Classes, generation : Generations],
               NEW pool \in [id : Pools, generation : Generations], NEW maximum \in Maxima,
               DeclareQueue(q, p, e, n, cls, pool, maximum)
        PROVE  ObservedStep
    <3>1. lifecycle[q] = "undeclared"
      BY <2>1, DeclareFresh
    <3>2. /\ lifecycle' = [lifecycle EXCEPT ![q] = "declared"] /\ SameFences
          /\ def'[q].generation = 1
          /\ \A r \in Queues \ {q} : def'[r].generation = def[r].generation
      BY <2>1 DEF DeclareQueue, IInv, TypeOK, SameFences
    <3> QED
      BY <3>1, <3>2, AsDeclare
  <2> QED
    BY <1>1, <1>3, <2>1 DEF Govern, GrantCapabilities, DeclareClass, DeclarePool, RegisterBackend,
                            MarkBackendDead, SyncFails, InvalidateEvidence, queueVars,
                            topologyVars
<1> QED
  BY <1>1, <1>2, <1>3 DEF Next, vars, AdvanceEpoch, RefreshFreshness, Shutdown, Restart, Tick,
                          queueVars, topologyVars

\* Governance implements QueueLifecycle: lifecycle, fence and generation of every
\* queue move only as the abstract specification allows.
THEOREM ImplementsLifecycle == Spec => LifecycleRefinement
<1>1. Init => Lifecycle!Init
  BY DEF Init, Lifecycle!Init, NoFence, NoDefinition
<1>2. IInv /\ [Next]_vars => [Lifecycle!Next]_(Lifecycle!lvars)
  BY ObservedByNext DEF ObservedStep
<1> QED
  BY Inductive, <1>1, <1>2, PTL DEF Spec, LifecycleRefinement, Lifecycle!Spec
=============================================================================
