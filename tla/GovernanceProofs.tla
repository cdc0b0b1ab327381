-------------------------- MODULE GovernanceProofs --------------------------
(***************************************************************************)
(* Proofs about Governance, for every value of its constants.              *)
(***************************************************************************)
EXTENDS Governance, TLAPS

-----------------------------------------------------------------------------
(* What the pure functions return *)

\* invalidate_occupancy() keeps the stored observation an observation.
LEMMA InvalidateType ==
  ASSUME NEW o \in Occupancy, NEW reason \in Freshnesses
  PROVE  /\ invalidate_occupancy(o, reason) \in Occupancy
         /\ invalidate_occupancy(o, reason).present = o.present
         /\ invalidate_occupancy(o, reason).level = o.level
         /\ invalidate_occupancy(o, reason).sequence = o.sequence
         /\ invalidate_occupancy(o, reason).epoch = o.epoch
         /\ invalidate_occupancy(o, reason).generation = o.generation
         /\ invalidate_occupancy(o, reason).freshness = IF o.present THEN reason ELSE "unknown"
BY DEF invalidate_occupancy, Occupancy, Freshnesses

\* classify_freshness() never reports a sticky reason away, calls nothing fresh
\* that is from another generation, and leaves absent evidence unknown.
LEMMA ClassifyType ==
  ASSUME NEW o \in Occupancy, NEW n \in Nat, NEW g \in Nat
  PROVE  LET f == classify_freshness(o, n, MaxAge, MaxSkew, g) IN
         /\ f \in Freshnesses
         /\ ~o.present => f = "unknown"
         /\ o.present /\ is_sticky(o.freshness) => f = o.freshness
         /\ f = "fresh" => o.present /\ o.generation = g
BY DEF classify_freshness, is_sticky, Occupancy, Freshnesses

\* Withdrawing an acknowledgement makes it unknown.
LEMMA WithdrawBare ==
  ASSUME NEW a \in Acknowledgement
  PROVE  ~[a EXCEPT !.known = FALSE].known
BY DEF Acknowledgement

\* Re-evaluating freshness keeps what was observed.
LEMMA RefreshKeeps ==
  ASSUME NEW o \in Occupancy, NEW f \in Freshnesses
  PROVE  /\ [o EXCEPT !.freshness = f].present = o.present
         /\ [o EXCEPT !.freshness = f].level = o.level
         /\ [o EXCEPT !.freshness = f].sequence = o.sequence
         /\ [o EXCEPT !.freshness = f].epoch = o.epoch
         /\ [o EXCEPT !.freshness = f].generation = o.generation
         /\ [o EXCEPT !.freshness = f].freshness = f
BY DEF Occupancy, Freshnesses

\* A restored drain state is a drain state; an idle one stays idle and one in
\* progress stays in progress.
LEMMA RestoredDrainType ==
  ASSUME NEW d \in DrainState
  PROVE  /\ RestoredDrain(d) \in DrainState
         /\ d.phase = "idle" => RestoredDrain(d) = d
         /\ in_progress(d) => in_progress(RestoredDrain(d))
BY DEF RestoredDrain, DrainState, in_progress

\* Withdrawing an acknowledgement keeps its type.
LEMMA WithdrawType ==
  ASSUME NEW a \in Acknowledgement
  PROVE  [a EXCEPT !.known = FALSE] \in Acknowledgement
BY DEF Acknowledgement

\* Updating one field of a drain state keeps its type.
LEMMA DrainUpdateType ==
  ASSUME NEW d \in DrainState, NEW zero \in BOOLEAN
  PROVE  /\ [d EXCEPT !.zero_observed = zero] \in DrainState
         /\ [d EXCEPT !.phase = "completed"] \in DrainState
BY DEF DrainState

\* The constants as far as the types of the variables need them.
LEMMA ConstantTypes ==
  /\ Names \subseteq Nat /\ Principals \subseteq Nat /\ Maxima \subseteq Nat
  /\ Incarnations \subseteq Nat /\ Backends \subseteq Nat
  /\ MaxGeneration \in Nat /\ 1 \in Generations /\ Generations \subseteq Nat
  /\ MaxEpoch \in Nat /\ Epochs \subseteq Nat
  /\ [id : Classes, generation : Generations] \subseteq Binding
  /\ [id : Pools, generation : Generations] \subseteq Binding
<1>1. /\ Names \subseteq Nat /\ Principals \subseteq Nat /\ Maxima \subseteq Nat
      /\ Incarnations \subseteq Nat /\ Backends \subseteq Nat
      /\ MaxGeneration \in Nat /\ 1 \in Generations /\ Generations \subseteq Nat
      /\ MaxEpoch \in Nat /\ Epochs \subseteq Nat
      /\ Classes \subseteq Nat /\ Pools \subseteq Nat
  BY ConstantsAssumption DEF ConstantsAssumption, Backends, Epochs, Generations
<1> QED
  BY <1>1 DEF Binding

\* Whatever a backend sends as an acknowledgement has the type of one.
LEMMA AcknowledgementsType == Acknowledgements \subseteq Acknowledgement
BY ConstantTypes DEF Acknowledgements, Acknowledgement

\* A new class binding with the next generation gives a definition.
LEMMA RebindType ==
  ASSUME NEW d \in Definition, d.generation < MaxGeneration, NEW cls \in Binding
  PROVE  /\ [d EXCEPT !.cls = cls, !.generation = @ + 1] \in Definition
         /\ [d EXCEPT !.cls = cls, !.generation = @ + 1].generation = d.generation + 1
         /\ [d EXCEPT !.cls = cls, !.generation = @ + 1].generation \in 0..MaxGeneration
<1>1. d.generation + 1 \in Nat /\ d.generation + 1 \in 0..MaxGeneration
  BY ConstantTypes DEF Definition
<1> QED
  BY <1>1 DEF Definition

\* A new threshold ladder with the next generation gives a definition.
LEMMA ThresholdsType ==
  ASSUME NEW d \in Definition, d.generation < MaxGeneration, NEW maximum \in Nat
  PROVE  /\ [d EXCEPT !.maximum = maximum, !.generation = @ + 1] \in Definition
         /\ [d EXCEPT !.maximum = maximum, !.generation = @ + 1].generation = d.generation + 1
         /\ [d EXCEPT !.maximum = maximum, !.generation = @ + 1].generation \in 0..MaxGeneration
<1>1. d.generation + 1 \in Nat /\ d.generation + 1 \in 0..MaxGeneration
  BY ConstantTypes DEF Definition
<1> QED
  BY <1>1 DEF Definition

\* A new owner with the next generation gives a definition.
LEMMA OwnerType ==
  ASSUME NEW d \in Definition, d.generation < MaxGeneration, NEW owner \in Nat
  PROVE  /\ [d EXCEPT !.owner = owner, !.generation = @ + 1] \in Definition
         /\ [d EXCEPT !.owner = owner, !.generation = @ + 1].generation = d.generation + 1
         /\ [d EXCEPT !.owner = owner, !.generation = @ + 1].generation \in 0..MaxGeneration
<1>1. d.generation + 1 \in Nat /\ d.generation + 1 \in 0..MaxGeneration
  BY ConstantTypes DEF Definition
<1> QED
  BY <1>1 DEF Definition

\* Re-evaluating the freshness of an observation changes nothing else of it.
LEMMA FreshnessUpdateType ==
  ASSUME NEW o \in Occupancy, NEW f \in Freshnesses
  PROVE  [o EXCEPT !.freshness = f] \in Occupancy
BY DEF Occupancy

-----------------------------------------------------------------------------
(* Type correctness *)

\* The initial state is well typed.
LEMMA InitType == Init => TypeOK
<1> SUFFICES ASSUME Init PROVE TypeOK
  OBVIOUS
<1> USE ConstantsAssumption DEF Init, ConstantsAssumption
<1>1. now \in Nat /\ epoch \in Epochs /\ fenceTokens \in Nat
  BY DEF Epochs
<1>10. closed \in BOOLEAN /\ healthy \in BOOLEAN
  OBVIOUS
<1>2. grants \in [Principals -> SUBSET Capabilities]
  OBVIOUS
<1>3. /\ classGen \in [Classes -> Generations] /\ poolGen \in [Pools -> Generations]
      /\ backends \in [Backends -> [incarnation : Nat, alive : BOOLEAN]]
  BY DEF Generations
<1>4. /\ lifecycle \in [Queues -> Lifecycles \cup {"undeclared"}]
      /\ flags \in [Queues -> SUBSET Applicabilities]
      /\ overflowed \in [Queues -> BOOLEAN]
  OBVIOUS
<1>5. /\ def \in [Queues -> Definition]
      /\ \A q \in Queues : def[q].generation \in 0..MaxGeneration
  BY DEF Definition, Binding, NoDefinition, NoBinding
<1>6. fence \in [Queues -> [fenced : BOOLEAN, token : Nat, epoch : Nat]]
  BY DEF NoFence
<1>7. occ \in [Queues -> Occupancy]
  BY DEF Occupancy, NoOccupancy, Freshnesses
<1>8. drain \in [Queues -> DrainState]
  BY DEF DrainState, NoDrain
<1>9. applied \in [Queues -> Acknowledgement]
  BY DEF Acknowledgement, NoAcknowledgement, Binding, NoBinding
<1> QED
  BY <1>1, <1>2, <1>3, <1>4, <1>5, <1>6, <1>7, <1>8, <1>9, <1>10 DEF TypeOK

\* Every step keeps the types: one case per operation.
LEMMA TypeStep == TypeOK /\ [Next]_vars => TypeOK'
<1> SUFFICES ASSUME TypeOK, [Next]_vars PROVE TypeOK'
  OBVIOUS
<1> USE ConstantsAssumption DEF ConstantsAssumption, TypeOK, queueVars, topologyVars
<1>1. CASE UNCHANGED vars
  BY <1>1 DEF vars
<1>2. ASSUME NEW q \in Queues, NEW p \in Principals, NEW g \in Generations, NEW e \in Epochs,
             Mutate(q, p, g, e)
      PROVE  TypeOK'
  <2>1. CASE ValidateQueue(q, p, g, e)
    BY <2>1 DEF ValidateQueue, Lifecycles
  <2>2. CASE ActivateQueue(q, p, g, e)
    BY <2>2 DEF ActivateQueue, Lifecycles
  <2>3. ASSUME NEW d \in Definition, d.generation \in 0..MaxGeneration, AdvanceDefinition(q, d)
        PROVE  TypeOK'
    <3>1. /\ def' \in [Queues -> Definition]
          /\ \A r \in Queues : def'[r].generation \in 0..MaxGeneration
      BY <2>3 DEF AdvanceDefinition
    <3>2. occ' \in [Queues -> Occupancy]
      BY <2>3, InvalidateType DEF AdvanceDefinition, Freshnesses
    <3>3. applied' \in [Queues -> Acknowledgement]
      BY <2>3, WithdrawType DEF AdvanceDefinition
    <3> QED
      BY <2>3, <3>1, <3>2, <3>3 DEF AdvanceDefinition, Applicabilities
  <2>4. ASSUME NEW cls \in [id : Classes, generation : Generations], RebindClass(q, p, g, e, cls)
        PROVE  TypeOK'
    <3> DEFINE d == [def[q] EXCEPT !.cls = cls, !.generation = @ + 1]
    <3>1. d \in Definition /\ d.generation \in 0..MaxGeneration
      <4>1. def[q] \in Definition /\ def[q].generation < MaxGeneration
        BY <2>4 DEF RebindClass, CanAdvance
      <4>2. cls \in Binding
        BY ConstantTypes
      <4> QED
        BY <4>1, <4>2, RebindType, Zenon
    <3> QED
      BY <2>3, <2>4, <3>1 DEF RebindClass
  <2>5. ASSUME NEW maximum \in Maxima, SetThresholds(q, p, g, e, maximum)
        PROVE  TypeOK'
    <3> DEFINE d == [def[q] EXCEPT !.maximum = maximum, !.generation = @ + 1]
    <3>1. d \in Definition /\ d.generation \in 0..MaxGeneration
      <4>1. def[q] \in Definition /\ def[q].generation < MaxGeneration
        BY <2>5 DEF SetThresholds, CanAdvance
      <4> QED
        BY <4>1, ThresholdsType, ConstantTypes
    <3> QED
      BY <2>3, <2>5, <3>1 DEF SetThresholds
  <2>6. ASSUME NEW owner \in Principals, TransferOwnership(q, p, g, e, owner)
        PROVE  TypeOK'
    <3> DEFINE d == [def[q] EXCEPT !.owner = owner, !.generation = @ + 1]
    <3>1. d \in Definition /\ d.generation \in 0..MaxGeneration
      <4>1. def[q] \in Definition /\ def[q].generation < MaxGeneration
        BY <2>6 DEF TransferOwnership, CanAdvance
      <4> QED
        BY <4>1, OwnerType, ConstantTypes
    <3> QED
      BY <2>3, <2>6, <3>1 DEF TransferOwnership
  <2>7. ASSUME NEW sample \in Samples, IngestOccupancy(q, p, g, e, sample)
        PROVE  TypeOK'
    <3>1. occ' \in [Queues -> Occupancy]
      BY <2>7 DEF IngestOccupancy, Samples, Occupancy, Freshnesses, Epochs, Generations
    <3>2. drain' \in [Queues -> DrainState]
      BY <2>7, DrainUpdateType DEF IngestOccupancy
    <3>3. overflowed' \in [Queues -> BOOLEAN]
      BY <2>7 DEF IngestOccupancy, Overflows
    <3> QED
      BY <2>7, <3>1, <3>2, <3>3 DEF IngestOccupancy
  <2>8. CASE RequestDrain(q, p, g, e)
    BY <2>8 DEF RequestDrain, StartedDrain, NoDrain, DrainState, Lifecycles
  <2>9. CASE CancelDrain(q, p, g, e)
    BY <2>9 DEF CancelDrain, NoDrain, DrainState, Lifecycles
  <2>10. ASSUME NEW v \in Evidence, SubmitDrainEvidence(q, p, g, e, v)
         PROVE  TypeOK'
    BY <2>10 DEF SubmitDrainEvidence, DrainState
  <2>11. CASE QuiesceQueue(q, p, g, e)
    <3>1. drain' \in [Queues -> DrainState]
      BY <2>11, DrainUpdateType DEF QuiesceQueue
    <3> QED
      BY <2>11, <3>1 DEF QuiesceQueue, Lifecycles
  <2>12. CASE FenceQueue(q, p, g, e)
    BY <2>12 DEF FenceQueue, Epochs, Applicabilities
  <2>13. CASE FenceNotDurable(q, p, g, e)
    BY <2>13 DEF FenceNotDurable
  <2>14. CASE UnfenceQueue(q, p, g, e)
    BY <2>14 DEF UnfenceQueue
  <2>15. CASE FailQueue(q, p, g, e)
    BY <2>15 DEF FailQueue, Lifecycles
  <2>16. CASE RetireQueue(q, p, g, e)
    BY <2>16 DEF RetireQueue, Lifecycles, NoOccupancy, NoDrain, Occupancy, DrainState, Freshnesses
  <2>17. ASSUME NEW a \in Acknowledgements, AcknowledgeBackend(q, p, g, e, a)
         PROVE  TypeOK'
    <3>1. a \in Acknowledgement
      BY AcknowledgementsType
    <3> QED
      BY <2>17, <3>1 DEF AcknowledgeBackend
  <2> QED
    BY <1>2, <2>1, <2>2, <2>4, <2>5, <2>6, <2>7, <2>8, <2>9, <2>10, <2>11, <2>12, <2>13, <2>14,
       <2>15, <2>16, <2>17 DEF Mutate
<1>3. ASSUME NEW p \in Principals, NEW e \in Epochs, Govern(p, e)
      PROVE  TypeOK'
  <2>1. ASSUME NEW q \in Queues, NEW n \in Names,
               NEW cls \in [id : Classes, generation : Generations],
               NEW pool \in [id : Pools, generation : Generations], NEW maximum \in Maxima,
               DeclareQueue(q, p, e, n, cls, pool, maximum)
        PROVE  TypeOK'
    <3>1. /\ def' \in [Queues -> Definition]
          /\ \A r \in Queues : def'[r].generation \in 0..MaxGeneration
      <4>1. [name |-> n, cls |-> cls, pool |-> pool, maximum |-> maximum, owner |-> p,
             generation |-> 1] \in Definition
        BY ConstantTypes DEF Definition
      <4> QED
        BY <2>1, <4>1 DEF DeclareQueue
    <3> QED
      BY <2>1, <3>1 DEF DeclareQueue, Lifecycles
  <2>2. ASSUME NEW grantee \in Principals, NEW capabilities \in CapabilitySets,
               GrantCapabilities(p, e, grantee, capabilities)
        PROVE  TypeOK'
    BY <2>2 DEF GrantCapabilities
  <2>3. ASSUME NEW c \in Classes, DeclareClass(p, e, c)
        PROVE  TypeOK'
    BY <2>3, InvalidateType DEF DeclareClass, Generations, Applicabilities, Freshnesses
  <2>4. ASSUME NEW c \in Pools, DeclarePool(p, e, c)
        PROVE  TypeOK'
    BY <2>4 DEF DeclarePool, Generations
  <2>5. ASSUME NEW b \in Backends, NEW i \in Incarnations, RegisterBackend(p, e, b, i)
        PROVE  TypeOK'
    BY <2>5 DEF RegisterBackend
  <2>6. ASSUME NEW b \in Backends, NEW i \in Incarnations, MarkBackendDead(p, e, b, i)
        PROVE  TypeOK'
    BY <2>6 DEF MarkBackendDead
  <2>7. CASE SyncFails(p, e)
    BY <2>7 DEF SyncFails
  <2>8. ASSUME NEW q \in Queues, InvalidateEvidence(q, p, e)
        PROVE  TypeOK'
    BY <2>8, InvalidateType DEF InvalidateEvidence, Applicabilities, Freshnesses
  <2> QED
    BY <1>3, <2>1, <2>2, <2>3, <2>4, <2>5, <2>6, <2>7, <2>8 DEF Govern
<1>4. ASSUME NEW p \in Principals, AdvanceEpoch(p)
      PROVE  TypeOK'
  BY <1>4, InvalidateType DEF AdvanceEpoch, Epochs, Applicabilities, Freshnesses
<1>5. CASE RefreshFreshness
  <2>1. \A q \in Queues :
          classify_freshness(occ[q], now, MaxAge, MaxSkew, def[q].generation) \in Freshnesses
    BY ClassifyType DEF Definition
  <2>2. occ' \in [Queues -> Occupancy]
    BY <1>5, <2>1, FreshnessUpdateType DEF RefreshFreshness
  <2> QED
    BY <1>5, <2>2 DEF RefreshFreshness
<1>6. CASE Shutdown
  BY <1>6 DEF Shutdown
<1>7. CASE Restart
  <2>1. now' \in Nat /\ epoch' \in Epochs /\ fenceTokens' \in Nat
    BY <1>7 DEF Restart, Epochs
  <2>2. occ' \in [Queues -> Occupancy]
    BY <1>7, InvalidateType DEF Restart, Freshnesses
  <2>3. drain' \in [Queues -> DrainState]
    BY <1>7, RestoredDrainType DEF Restart
  <2>4. backends' \in [Backends -> [incarnation : Nat, alive : BOOLEAN]]
    BY <1>7 DEF Restart
  <2> QED
    BY <1>7, <2>1, <2>2, <2>3, <2>4 DEF Restart, Applicabilities
<1>8. CASE Tick
  BY <1>8 DEF Tick
<1> QED
  BY <1>1, <1>2, <1>3, <1>4, <1>5, <1>6, <1>7, <1>8 DEF Next

\* Every reachable state of the fabric is well typed, for any number of queues,
\* principals, classes, backends, epochs and generations.
THEOREM TypeCorrect == Spec => []TypeOK
BY InitType, TypeStep, PTL DEF Spec

-----------------------------------------------------------------------------
(* What the operations that touch many fields do, field by field *)

\* The three mutations that give a queue a new definition.
Redefines(q, p, g, e) ==
  \/ \E cls \in [id : Classes, generation : Generations] : RebindClass(q, p, g, e, cls)
  \/ \E maximum \in Maxima : SetThresholds(q, p, g, e, maximum)
  \/ \E owner \in Principals : TransferOwnership(q, p, g, e, owner)

\* Evidence of the old definition is neither fresh nor acknowledged any more.
LEMMA AdvanceEffect ==
  ASSUME TypeOK, NEW q \in Queues, NEW d, AdvanceDefinition(q, d)
  PROVE  /\ def'[q] = d
         /\ occ'[q].present = occ[q].present
         /\ occ'[q].level = occ[q].level
         /\ occ'[q].sequence = occ[q].sequence
         /\ occ'[q].generation = occ[q].generation
         /\ occ'[q].epoch = occ[q].epoch
         /\ occ'[q].freshness = IF occ[q].present THEN "stale_generation" ELSE "unknown"
         /\ ~applied'[q].known
         /\ flags'[q] = flags[q] \cup {"stale"}
         /\ \A r \in Queues \ {q} : /\ def'[r] = def[r] /\ occ'[r] = occ[r]
                                    /\ applied'[r] = applied[r] /\ flags'[r] = flags[r]
         /\ UNCHANGED <<now, epoch, classGen, poolGen, backends, fenceTokens, lifecycle, fence,
                        drain, overflowed>>
<1>1. /\ occ'[q] = invalidate_occupancy(occ[q], "stale_generation")
      /\ applied'[q] = [applied[q] EXCEPT !.known = FALSE]
  BY DEF AdvanceDefinition, TypeOK
<1>2. ~applied'[q].known
  BY <1>1, WithdrawBare DEF TypeOK
<1>3. /\ occ[q] \in Occupancy
      /\ "stale_generation" \in Freshnesses
  BY DEF TypeOK, Freshnesses
<1>4. /\ occ'[q].present = occ[q].present
      /\ occ'[q].level = occ[q].level
      /\ occ'[q].sequence = occ[q].sequence
      /\ occ'[q].generation = occ[q].generation
      /\ occ'[q].epoch = occ[q].epoch
      /\ occ'[q].freshness = IF occ[q].present THEN "stale_generation" ELSE "unknown"
  BY <1>1, <1>3, InvalidateType
<1> QED
  BY <1>2, <1>4 DEF AdvanceDefinition, TypeOK, topologyVars

\* A redefinition moves one queue to its next generation, and leaves it with
\* its old class binding or with one that is exact.
LEMMA RedefineEffect ==
  ASSUME TypeOK, NEW q \in Queues, NEW p \in Principals, NEW g \in Generations, NEW e \in Epochs,
         Redefines(q, p, g, e)
  PROVE  \E d \in Definition :
           /\ AdvanceDefinition(q, d)
           /\ \E kind \in {"rebind_class", "set_thresholds", "transfer_ownership"} :
                Admitted(q, p, kind, g, e)
           /\ def[q].generation < MaxGeneration
           /\ d.generation = def[q].generation + 1
           /\ d.cls = def[q].cls \/ BindingIsExact(d.cls)
<1>0. def[q] \in Definition
  BY DEF TypeOK
<1>1. ASSUME NEW cls \in [id : Classes, generation : Generations], RebindClass(q, p, g, e, cls)
      PROVE  \E d \in Definition :
               /\ AdvanceDefinition(q, d)
               /\ Admitted(q, p, "rebind_class", g, e)
               /\ def[q].generation < MaxGeneration
               /\ d.generation = def[q].generation + 1
               /\ d.cls = def[q].cls \/ BindingIsExact(d.cls)
  <2> DEFINE d == [def[q] EXCEPT !.cls = cls, !.generation = @ + 1]
  <2>1. cls \in Binding
    BY ConstantTypes
  <2>2. /\ AdvanceDefinition(q, d) /\ Admitted(q, p, "rebind_class", g, e)
        /\ def[q].generation < MaxGeneration /\ BindingIsExact(cls)
    BY <1>1 DEF RebindClass, CanAdvance
  <2>3. d \in Definition /\ d.generation = def[q].generation + 1
    BY <1>0, <2>1, <2>2, RebindType, Zenon
  <2>4. d.cls = cls
    BY <1>0 DEF Definition
  <2> HIDE DEF d
  <2> QED
    BY <2>2, <2>3, <2>4
<1>2. ASSUME NEW maximum \in Maxima, SetThresholds(q, p, g, e, maximum)
      PROVE  \E d \in Definition :
               /\ AdvanceDefinition(q, d)
               /\ Admitted(q, p, "set_thresholds", g, e)
               /\ def[q].generation < MaxGeneration
               /\ d.generation = def[q].generation + 1
               /\ d.cls = def[q].cls
  <2> DEFINE d == [def[q] EXCEPT !.maximum = maximum, !.generation = @ + 1]
  <2>1. maximum \in Nat
    BY ConstantTypes
  <2>2. /\ AdvanceDefinition(q, d) /\ Admitted(q, p, "set_thresholds", g, e)
        /\ def[q].generation < MaxGeneration
    BY <1>2 DEF SetThresholds, CanAdvance
  <2>3. d \in Definition /\ d.generation = def[q].generation + 1
    BY <1>0, <2>1, <2>2, ThresholdsType, Zenon
  <2>4. d.cls = def[q].cls
    BY <1>0 DEF Definition
  <2> HIDE DEF d
  <2> QED
    BY <2>2, <2>3, <2>4
<1>3. ASSUME NEW owner \in Principals, TransferOwnership(q, p, g, e, owner)
      PROVE  \E d \in Definition :
               /\ AdvanceDefinition(q, d)
               /\ Admitted(q, p, "transfer_ownership", g, e)
               /\ def[q].generation < MaxGeneration
               /\ d.generation = def[q].generation + 1
               /\ d.cls = def[q].cls
  <2> DEFINE d == [def[q] EXCEPT !.owner = owner, !.generation = @ + 1]
  <2>1. owner \in Nat
    BY ConstantTypes
  <2>2. /\ AdvanceDefinition(q, d) /\ Admitted(q, p, "transfer_ownership", g, e)
        /\ def[q].generation < MaxGeneration
    BY <1>3 DEF TransferOwnership, CanAdvance
  <2>3. d \in Definition /\ d.generation = def[q].generation + 1
    BY <1>0, <2>1, <2>2, OwnerType, Zenon
  <2>4. d.cls = def[q].cls
    BY <1>0 DEF Definition
  <2> HIDE DEF d
  <2> QED
    BY <2>2, <2>3, <2>4
<1> QED
  BY <1>1, <1>2, <1>3 DEF Redefines

\* A refresh re-evaluates freshness only.
LEMMA RefreshEffect ==
  ASSUME TypeOK, RefreshFreshness, NEW q \in Queues
  PROVE  /\ occ'[q].present = occ[q].present
         /\ occ'[q].level = occ[q].level
         /\ occ'[q].sequence = occ[q].sequence
         /\ occ'[q].generation = occ[q].generation
         /\ occ'[q].epoch = occ[q].epoch
         /\ occ[q].present /\ is_sticky(occ[q].freshness) => occ'[q].freshness = occ[q].freshness
         /\ occ'[q].freshness = "fresh" => occ[q].generation = def[q].generation
         /\ ~occ[q].present => occ'[q].freshness = "unknown"
         /\ UNCHANGED <<now, epoch, classGen, poolGen, backends, fenceTokens, lifecycle, flags, def,
                        fence, drain, applied, overflowed>>
<1> DEFINE f == classify_freshness(occ[q], now, MaxAge, MaxSkew, def[q].generation)
<1>1. occ[q] \in Occupancy /\ now \in Nat /\ def[q].generation \in Nat
  BY DEF TypeOK, Definition
<1>2. /\ f \in Freshnesses
      /\ ~occ[q].present => f = "unknown"
      /\ occ[q].present /\ is_sticky(occ[q].freshness) => f = occ[q].freshness
      /\ f = "fresh" => occ[q].generation = def[q].generation
  BY <1>1, ClassifyType
<1>3. occ'[q] = [occ[q] EXCEPT !.freshness = f]
  BY DEF RefreshFreshness
<1> HIDE DEF f
<1>4. /\ occ'[q].present = occ[q].present
      /\ occ'[q].level = occ[q].level
      /\ occ'[q].sequence = occ[q].sequence
      /\ occ'[q].epoch = occ[q].epoch
      /\ occ'[q].generation = occ[q].generation
      /\ occ'[q].freshness = f
  BY <1>1, <1>2, <1>3, RefreshKeeps
<1> QED
  BY <1>2, <1>4 DEF RefreshFreshness, topologyVars

-----------------------------------------------------------------------------
(* The inductive invariant *)

\* A queue that was never declared carries no evidence.
UndeclaredBare ==
  \A q \in Queues : lifecycle[q] = "undeclared" => ~occ[q].present /\ ~applied[q].known

\* A declared queue is bound to a class of the resource, at a generation the
\* class has reached: once superseded, a binding never becomes exact again.
BindingKnown ==
  \A q \in Queues :
    Declared(q) => def[q].cls.id \in Classes /\ def[q].cls.generation <= classGen[def[q].cls.id]

\* What makes FreshEvidence inductive: it also speaks of evidence that is not
\* fresh now but that classify_freshness() could report fresh again.
EvidenceBound ==
  \A q \in Queues : occ[q].present =>
    /\ occ[q].generation <= def[q].generation
    /\ occ[q].freshness = "fresh" => occ[q].generation = def[q].generation
    /\ ~is_sticky(occ[q].freshness) /\ occ[q].generation = def[q].generation
         /\ BindingIsExact(def[q].cls) => occ[q].epoch = epoch

\* Evidence only reaches declared queues.
LEMMA BareStep == TypeOK /\ UndeclaredBare /\ [Next]_vars => UndeclaredBare'
<1> SUFFICES ASSUME TypeOK, UndeclaredBare, [Next]_vars PROVE UndeclaredBare'
  OBVIOUS
<1>1. CASE UNCHANGED <<lifecycle, occ, applied>>
  BY <1>1 DEF UndeclaredBare
<1>2. ASSUME NEW q \in Queues, NEW p \in Principals, NEW g \in Generations, NEW e \in Epochs,
             Mutate(q, p, g, e)
      PROVE  UndeclaredBare'
  <2>1. CASE ValidateQueue(q, p, g, e)
    BY <2>1 DEF ValidateQueue, UndeclaredBare, TypeOK
  <2>2. CASE ActivateQueue(q, p, g, e)
    BY <2>2 DEF ActivateQueue, UndeclaredBare, TypeOK
  <2>3. CASE Redefines(q, p, g, e)
    <3>1. PICK d \in Definition : AdvanceDefinition(q, d)
      BY <2>3, RedefineEffect
    <3> QED
      BY <3>1, AdvanceEffect DEF UndeclaredBare
  <2>4. ASSUME NEW s \in Samples, IngestOccupancy(q, p, g, e, s)
        PROVE  UndeclaredBare'
    BY <2>4 DEF IngestOccupancy, Admitted, Declared, UndeclaredBare, TypeOK
  <2>5. CASE RequestDrain(q, p, g, e)
    BY <2>5 DEF RequestDrain, UndeclaredBare, TypeOK
  <2>6. CASE CancelDrain(q, p, g, e)
    BY <2>6 DEF CancelDrain, UndeclaredBare, TypeOK
  <2>7. CASE QuiesceQueue(q, p, g, e)
    BY <2>7 DEF QuiesceQueue, UndeclaredBare, TypeOK
  <2>8. CASE FailQueue(q, p, g, e)
    BY <2>8 DEF FailQueue, UndeclaredBare, TypeOK
  <2>9. CASE RetireQueue(q, p, g, e)
    BY <2>9 DEF RetireQueue, UndeclaredBare, TypeOK, NoOccupancy
  <2>10. ASSUME NEW a \in Acknowledgements, AcknowledgeBackend(q, p, g, e, a)
         PROVE  UndeclaredBare'
    BY <2>10 DEF AcknowledgeBackend, Admitted, Declared, UndeclaredBare, TypeOK
  <2> QED
    BY <1>1, <1>2, <2>1, <2>2, <2>3, <2>4, <2>5, <2>6, <2>7, <2>8, <2>9, <2>10
       DEF Mutate, Redefines, SubmitDrainEvidence, FenceQueue, FenceNotDurable, UnfenceQueue,
           queueVars, topologyVars
<1>3. ASSUME NEW p \in Principals, NEW e \in Epochs, Govern(p, e)
      PROVE  UndeclaredBare'
  <2>1. ASSUME NEW q \in Queues, NEW n \in Names,
               NEW cls \in [id : Classes, generation : Generations],
               NEW pool \in [id : Pools, generation : Generations], NEW maximum \in Maxima,
               DeclareQueue(q, p, e, n, cls, pool, maximum)
        PROVE  UndeclaredBare'
    BY <2>1 DEF DeclareQueue, UndeclaredBare, TypeOK
  <2>2. ASSUME NEW c \in Classes, DeclareClass(p, e, c)
        PROVE  UndeclaredBare'
    BY <2>2, InvalidateType DEF DeclareClass, UndeclaredBare, TypeOK, Freshnesses
  <2>3. ASSUME NEW q \in Queues, InvalidateEvidence(q, p, e)
        PROVE  UndeclaredBare'
    BY <2>3, InvalidateType DEF InvalidateEvidence, UndeclaredBare, TypeOK, Freshnesses
  <2> QED
    BY <1>1, <1>3, <2>1, <2>2, <2>3 DEF Govern, GrantCapabilities, DeclarePool, RegisterBackend,
                                        MarkBackendDead, SyncFails, queueVars, topologyVars
<1>4. ASSUME NEW p \in Principals, AdvanceEpoch(p)
      PROVE  UndeclaredBare'
  BY <1>4, InvalidateType DEF AdvanceEpoch, UndeclaredBare, TypeOK, Freshnesses
<1>5. CASE RefreshFreshness
  BY <1>5, RefreshEffect DEF UndeclaredBare
<1>6. CASE Restart
  BY <1>6, InvalidateType DEF Restart, UndeclaredBare, TypeOK, Freshnesses
<1> QED
  BY <1>1, <1>2, <1>3, <1>4, <1>5, <1>6 DEF Next, vars, Shutdown, Tick, queueVars, topologyVars

\* Classes are never withdrawn and their generations only grow.
LEMMA BindingStep == TypeOK /\ BindingKnown /\ [Next]_vars => BindingKnown'
<1> SUFFICES ASSUME TypeOK, BindingKnown, [Next]_vars PROVE BindingKnown'
  OBVIOUS
<1>1. CASE UNCHANGED <<lifecycle, def, classGen>>
  BY <1>1 DEF BindingKnown, Declared
<1>2. ASSUME NEW q \in Queues, NEW p \in Principals, NEW g \in Generations, NEW e \in Epochs,
             Mutate(q, p, g, e)
      PROVE  BindingKnown'
  <2>1. CASE ValidateQueue(q, p, g, e)
    BY <2>1 DEF ValidateQueue, Admitted, BindingKnown, Declared, TypeOK, topologyVars
  <2>2. CASE ActivateQueue(q, p, g, e)
    BY <2>2 DEF ActivateQueue, Admitted, BindingKnown, Declared, TypeOK, topologyVars
  <2>3. CASE Redefines(q, p, g, e)
    <3>1. PICK d \in Definition :
             AdvanceDefinition(q, d) /\ (d.cls = def[q].cls \/ BindingIsExact(d.cls))
      BY <2>3, RedefineEffect
    <3>2. BindingIsExact(d.cls) => d.cls.generation <= classGen[d.cls.id]
      BY ConstantTypes DEF BindingIsExact, Definition, Binding
    <3> QED
      BY <3>1, <3>2, AdvanceEffect DEF BindingKnown, BindingIsExact, Declared
  <2>4. CASE RequestDrain(q, p, g, e)
    BY <2>4 DEF RequestDrain, Admitted, BindingKnown, Declared, TypeOK, topologyVars
  <2>5. CASE CancelDrain(q, p, g, e)
    BY <2>5 DEF CancelDrain, Admitted, BindingKnown, Declared, TypeOK, topologyVars
  <2>6. CASE QuiesceQueue(q, p, g, e)
    BY <2>6 DEF QuiesceQueue, Admitted, BindingKnown, Declared, TypeOK, topologyVars
  <2>7. CASE FailQueue(q, p, g, e)
    BY <2>7 DEF FailQueue, Admitted, BindingKnown, Declared, TypeOK, topologyVars
  <2>8. CASE RetireQueue(q, p, g, e)
    BY <2>8 DEF RetireQueue, Admitted, BindingKnown, Declared, TypeOK, topologyVars
  <2> QED
    BY <1>1, <1>2, <2>1, <2>2, <2>3, <2>4, <2>5, <2>6, <2>7, <2>8
       DEF Mutate, Redefines, IngestOccupancy, SubmitDrainEvidence, FenceQueue, FenceNotDurable,
           UnfenceQueue, AcknowledgeBackend, queueVars, topologyVars
<1>3. ASSUME NEW p \in Principals, NEW e \in Epochs, Govern(p, e)
      PROVE  BindingKnown'
  <2>1. ASSUME NEW q \in Queues, NEW n \in Names,
               NEW cls \in [id : Classes, generation : Generations],
               NEW pool \in [id : Pools, generation : Generations], NEW maximum \in Maxima,
               DeclareQueue(q, p, e, n, cls, pool, maximum)
        PROVE  BindingKnown'
    <3>1. cls.id \in Classes /\ cls.generation <= classGen[cls.id]
      BY <2>1, ConstantTypes DEF DeclareQueue, BindingIsExact, Generations
    <3> QED
      BY <2>1, <3>1 DEF DeclareQueue, BindingKnown, Declared, TypeOK, topologyVars
  <2>2. ASSUME NEW c \in Classes, DeclareClass(p, e, c)
        PROVE  BindingKnown'
    <3>1. \A x \in Classes :
            classGen'[x] \in Nat /\ classGen[x] \in Nat /\ classGen[x] <= classGen'[x]
      BY <2>2, ConstantTypes DEF DeclareClass, TypeOK, Generations
    <3>2. \A q \in Queues : def[q].cls.generation \in Nat
      BY DEF TypeOK, Definition, Binding
    <3>3. UNCHANGED <<lifecycle, def>>
      BY <2>2 DEF DeclareClass
    <3> QED
      BY <3>1, <3>2, <3>3 DEF BindingKnown, Declared
  <2> QED
    BY <1>1, <1>3, <2>1, <2>2 DEF Govern, GrantCapabilities, DeclarePool, RegisterBackend,
                                  MarkBackendDead, SyncFails, InvalidateEvidence, queueVars,
                                  topologyVars
<1> QED
  BY <1>1, <1>2, <1>3 DEF Next, vars, AdvanceEpoch, RefreshFreshness, Shutdown, Restart, Tick,
                          queueVars, topologyVars

\* A declaration takes an identity that was never declared.
LEMMA DeclareFresh ==
  ASSUME NEW q \in Queues, NEW p, NEW e, NEW n, NEW cls, NEW pool, NEW maximum,
         DeclareQueue(q, p, e, n, cls, pool, maximum)
  PROVE  lifecycle[q] = "undeclared"
<1>1. q \in Nat
  BY ConstantsAssumption DEF ConstantsAssumption, Queues
<1>2. Declared(q) => q < q
  BY DEF DeclareQueue
<1> QED
  BY <1>1, <1>2 DEF Declared

\* Re-declaring a class makes stale exactly the queues bound to it, whose
\* binding is superseded for good, and leaves the others alone.
LEMMA DeclareClassEffect ==
  ASSUME TypeOK, BindingKnown, NEW p, NEW e, NEW c \in Classes, DeclareClass(p, e, c),
         NEW q \in Queues, Declared(q)
  PROVE  /\ occ'[q].present = occ[q].present
         /\ occ'[q].level = occ[q].level
         /\ occ'[q].sequence = occ[q].sequence
         /\ occ'[q].generation = occ[q].generation
         /\ occ'[q].epoch = occ[q].epoch
         /\ \/ def[q].cls.id = c /\ ~BindingIsExact(def[q].cls)' /\ occ'[q].freshness # "fresh"
            \/ BindingIsExact(def[q].cls)' = BindingIsExact(def[q].cls) /\ occ'[q] = occ[q]
<1>1. /\ classGen'[c] = classGen[c] + 1 /\ classGen[c] \in Nat
      /\ \A x \in Classes \ {c} : classGen'[x] = classGen[x]
  BY ConstantTypes DEF DeclareClass, TypeOK, Generations
<1>2. /\ def[q].cls.id \in Classes /\ def[q].cls.generation <= classGen[def[q].cls.id]
      /\ def[q].cls.generation \in Nat /\ occ[q] \in Occupancy
  BY DEF BindingKnown, TypeOK, Definition, Binding
<1>3. def' = def
  BY DEF DeclareClass
<1>4. CASE def[q].cls.id = c
  <2>1. def[q].cls.generation # classGen'[c]
    BY <1>1, <1>2, <1>4
  <2>2. occ'[q] = invalidate_occupancy(occ[q], "stale_generation")
    BY <1>4, <2>1 DEF DeclareClass
  <2> QED
    BY <1>2, <1>3, <1>4, <2>1, <2>2, InvalidateType DEF BindingIsExact, Freshnesses
<1>5. CASE def[q].cls.id # c
  <2>1. occ'[q] = occ[q]
    BY <1>5 DEF DeclareClass
  <2> QED
    BY <1>1, <1>2, <1>3, <1>5, <2>1 DEF BindingIsExact
<1> QED
  BY <1>4, <1>5

\* Evidence that could be reported fresh is bound to the current epoch, unless
\* the class binding it was observed under has been superseded.
LEMMA EvidenceStep ==
  TypeOK /\ UndeclaredBare /\ BindingKnown /\ EvidenceBound /\ [Next]_vars
  => EvidenceBound'
<1> SUFFICES ASSUME TypeOK, UndeclaredBare, BindingKnown, EvidenceBound, [Next]_vars
             PROVE  EvidenceBound'
  OBVIOUS
<1>1. CASE UNCHANGED <<occ, def, epoch, classGen>>
  BY <1>1 DEF EvidenceBound, BindingIsExact
<1>2. ASSUME NEW q \in Queues, NEW p \in Principals, NEW g \in Generations, NEW e \in Epochs,
             Mutate(q, p, g, e)
      PROVE  EvidenceBound'
  <2>1. CASE Redefines(q, p, g, e)
    <3>1. PICK d \in Definition :
             AdvanceDefinition(q, d) /\ d.generation = def[q].generation + 1
      BY <2>1, RedefineEffect
    <3>2. def[q].generation \in Nat /\ occ[q].generation \in Nat
      BY DEF TypeOK, Definition, Occupancy
    <3> QED
      BY <3>1, <3>2, AdvanceEffect DEF EvidenceBound, BindingIsExact
  <2>2. ASSUME NEW s \in Samples, IngestOccupancy(q, p, g, e, s)
        PROVE  EvidenceBound'
    <3>1. s.generation = def[q].generation /\ s.epoch = epoch /\ def[q].generation \in Nat
      BY <2>2 DEF IngestOccupancy, TypeOK, Definition
    <3> QED
      BY <2>2, <3>1 DEF IngestOccupancy, EvidenceBound, TypeOK, BindingIsExact, topologyVars
  <2>3. CASE RetireQueue(q, p, g, e)
    BY <2>3 DEF RetireQueue, EvidenceBound, TypeOK, BindingIsExact, NoOccupancy, topologyVars
  <2> QED
    BY <1>1, <1>2, <2>1, <2>2, <2>3 DEF Mutate, Redefines, ValidateQueue, ActivateQueue,
                                        RequestDrain, CancelDrain, SubmitDrainEvidence,
                                        QuiesceQueue, FenceQueue, FenceNotDurable, UnfenceQueue,
                                        FailQueue, AcknowledgeBackend, queueVars, topologyVars
<1>3. ASSUME NEW p \in Principals, NEW e \in Epochs, Govern(p, e)
      PROVE  EvidenceBound'
  <2>1. ASSUME NEW q \in Queues, NEW n \in Names,
               NEW cls \in [id : Classes, generation : Generations],
               NEW pool \in [id : Pools, generation : Generations], NEW maximum \in Maxima,
               DeclareQueue(q, p, e, n, cls, pool, maximum)
        PROVE  EvidenceBound'
    <3>1. ~occ[q].present
      BY <2>1, DeclareFresh DEF UndeclaredBare
    <3> QED
      BY <2>1, <3>1 DEF DeclareQueue, EvidenceBound, TypeOK, BindingIsExact, topologyVars
  <2>2. ASSUME NEW c \in Classes, DeclareClass(p, e, c)
        PROVE  EvidenceBound'
    <3>1. UNCHANGED <<def, epoch>>
      BY <2>2 DEF DeclareClass
    <3>2. ASSUME NEW q \in Queues, ~Declared(q)
          PROVE  ~occ'[q].present
      BY <2>2, <3>2, InvalidateType DEF UndeclaredBare, Declared, DeclareClass, TypeOK, Freshnesses
    <3>3. ASSUME NEW q \in Queues, Declared(q), occ'[q].present
          PROVE  /\ occ'[q].generation <= def'[q].generation
                 /\ occ'[q].freshness = "fresh" => occ'[q].generation = def'[q].generation
                 /\ ~is_sticky(occ'[q].freshness) /\ occ'[q].generation = def'[q].generation
                      /\ BindingIsExact(def[q].cls)' => occ'[q].epoch = epoch'
      BY <2>2, <3>1, <3>3, DeclareClassEffect DEF EvidenceBound
    <3> QED
      BY <3>2, <3>3 DEF EvidenceBound
  <2>3. ASSUME NEW q \in Queues, InvalidateEvidence(q, p, e)
        PROVE  EvidenceBound'
    BY <2>3, InvalidateType DEF InvalidateEvidence, EvidenceBound, TypeOK, BindingIsExact,
                                Freshnesses, is_sticky, topologyVars
  <2> QED
    BY <1>1, <1>3, <2>1, <2>2, <2>3 DEF Govern, GrantCapabilities, DeclarePool, RegisterBackend,
                                        MarkBackendDead, SyncFails, queueVars, topologyVars
<1>4. ASSUME NEW p \in Principals, AdvanceEpoch(p)
      PROVE  EvidenceBound'
  BY <1>4, InvalidateType DEF AdvanceEpoch, EvidenceBound, TypeOK, BindingIsExact, Freshnesses,
                              is_sticky, topologyVars
<1>5. CASE RefreshFreshness
  BY <1>5, RefreshEffect DEF EvidenceBound, BindingIsExact
<1>6. CASE Restart
  BY <1>6, InvalidateType DEF Restart, EvidenceBound, TypeOK, BindingIsExact, Freshnesses,
                              is_sticky, topologyVars
<1> QED
  BY <1>1, <1>2, <1>3, <1>4, <1>5, <1>6 DEF Next, vars, Shutdown, Tick, queueVars, topologyVars

\* The fence record and the flag change together, and a fence keeps a queue in service.
LEMMA FenceStep == TypeOK /\ FenceConsistent /\ [Next]_vars => FenceConsistent'
<1> SUFFICES ASSUME TypeOK, FenceConsistent, [Next]_vars PROVE FenceConsistent'
  OBVIOUS
<1>1. CASE UNCHANGED <<lifecycle, flags, fence>>
  BY <1>1 DEF FenceConsistent
<1>2. ASSUME NEW q \in Queues, NEW p \in Principals, NEW g \in Generations, NEW e \in Epochs,
             Mutate(q, p, g, e)
      PROVE  FenceConsistent'
  <2>1. CASE ValidateQueue(q, p, g, e)
    BY <2>1 DEF ValidateQueue, FenceConsistent, TypeOK, Applicabilities, Admitted, authorize,
                required_capability, Declared
  <2>2. CASE ActivateQueue(q, p, g, e)
    BY <2>2 DEF ActivateQueue, FenceConsistent, TypeOK, Applicabilities, Admitted, authorize,
                required_capability, Declared
  <2>3. CASE Redefines(q, p, g, e)
    <3>1. PICK d \in Definition : AdvanceDefinition(q, d)
      BY <2>3, RedefineEffect
    <3> QED
      BY <3>1, AdvanceEffect DEF FenceConsistent
  <2>4. ASSUME NEW s \in Samples, IngestOccupancy(q, p, g, e, s)
        PROVE  FenceConsistent'
    BY <2>4 DEF IngestOccupancy, FenceConsistent, TypeOK, Applicabilities, Admitted, authorize,
                required_capability, Declared
  <2>5. CASE RequestDrain(q, p, g, e)
    BY <2>5 DEF RequestDrain, FenceConsistent, TypeOK, Applicabilities, Admitted, authorize,
                required_capability, Declared
  <2>6. CASE CancelDrain(q, p, g, e)
    BY <2>6 DEF CancelDrain, FenceConsistent, TypeOK, Applicabilities, Admitted, authorize,
                required_capability, Declared
  <2>7. CASE QuiesceQueue(q, p, g, e)
    BY <2>7 DEF QuiesceQueue, FenceConsistent, TypeOK, Applicabilities, Admitted, authorize,
                required_capability, Declared
  <2>8. CASE FenceQueue(q, p, g, e)
    BY <2>8 DEF FenceQueue, FenceConsistent, TypeOK, Applicabilities, Admitted, authorize,
                required_capability, Declared
  <2>9. CASE UnfenceQueue(q, p, g, e)
    BY <2>9 DEF UnfenceQueue, FenceConsistent, TypeOK, Applicabilities, Admitted, authorize,
                required_capability, Declared
  <2>10. CASE FailQueue(q, p, g, e)
    BY <2>10 DEF FailQueue, FenceConsistent, TypeOK, Applicabilities, Admitted, authorize,
                 required_capability, Declared
  <2>11. CASE RetireQueue(q, p, g, e)
    BY <2>11 DEF RetireQueue, FenceConsistent, TypeOK, Applicabilities, Admitted, authorize,
                 required_capability, Declared
  <2>12. ASSUME NEW a \in Acknowledgements, AcknowledgeBackend(q, p, g, e, a)
         PROVE  FenceConsistent'
    BY <2>12 DEF AcknowledgeBackend, FenceConsistent, TypeOK, Applicabilities, Admitted,
                 authorize, required_capability, Declared
  <2> QED
    BY <1>1, <1>2, <2>1, <2>2, <2>3, <2>4, <2>5, <2>6, <2>7, <2>8, <2>9, <2>10, <2>11, <2>12
       DEF Mutate, Redefines, SubmitDrainEvidence, FenceNotDurable, queueVars, topologyVars
<1>3. ASSUME NEW p \in Principals, NEW e \in Epochs, Govern(p, e)
      PROVE  FenceConsistent'
  <2>1. ASSUME NEW q \in Queues, NEW n \in Names,
               NEW cls \in [id : Classes, generation : Generations],
               NEW pool \in [id : Pools, generation : Generations], NEW maximum \in Maxima,
               DeclareQueue(q, p, e, n, cls, pool, maximum)
        PROVE  FenceConsistent'
    BY <2>1, DeclareFresh DEF DeclareQueue, FenceConsistent, TypeOK, Applicabilities
  <2>2. ASSUME NEW c \in Classes, DeclareClass(p, e, c)
        PROVE  FenceConsistent'
    BY <2>2 DEF DeclareClass, FenceConsistent, TypeOK, Applicabilities
  <2>3. ASSUME NEW q \in Queues, InvalidateEvidence(q, p, e)
        PROVE  FenceConsistent'
    BY <2>3 DEF InvalidateEvidence, FenceConsistent, TypeOK, Applicabilities
  <2> QED
    BY <1>1, <1>3, <2>1, <2>2, <2>3 DEF Govern, GrantCapabilities, DeclarePool, RegisterBackend,
                                        MarkBackendDead, SyncFails, queueVars, topologyVars
<1>4. ASSUME NEW p \in Principals, AdvanceEpoch(p)
      PROVE  FenceConsistent'
  BY <1>4 DEF AdvanceEpoch, FenceConsistent, TypeOK, Applicabilities
<1>5. CASE Restart
  BY <1>5 DEF Restart, FenceConsistent, TypeOK, Applicabilities
<1> QED
  BY <1>1, <1>2, <1>3, <1>4, <1>5 DEF Next, vars, RefreshFreshness, Shutdown, Tick, queueVars,
                                      topologyVars

\* Tokens are handed out in increasing order, and the counter is never behind.
TokensBounded == \A q \in Queues : fence[q].token <= fenceTokens

\* A new fence takes a token above every token any queue carries.
LEMMA TokenStep ==
  TypeOK /\ TokensBounded /\ FenceTokensDistinct /\ [Next]_vars
  => (TokensBounded /\ FenceTokensDistinct)'
<1> SUFFICES ASSUME TypeOK, TokensBounded, FenceTokensDistinct, [Next]_vars
             PROVE  (TokensBounded /\ FenceTokensDistinct)'
  OBVIOUS
<1>1. CASE UNCHANGED <<fence, fenceTokens>>
  BY <1>1 DEF TokensBounded, FenceTokensDistinct
<1>2. ASSUME NEW q \in Queues, NEW p \in Principals, NEW g \in Generations, NEW e \in Epochs,
             Mutate(q, p, g, e)
      PROVE  (TokensBounded /\ FenceTokensDistinct)'
  <2>1. CASE Redefines(q, p, g, e)
    BY <2>1, RedefineEffect, AdvanceEffect DEF TokensBounded, FenceTokensDistinct
  <2>2. CASE FenceQueue(q, p, g, e)
    BY <2>2 DEF FenceQueue, TokensBounded, FenceTokensDistinct, TypeOK
  <2>3. CASE FenceNotDurable(q, p, g, e)
    BY <2>3 DEF FenceNotDurable, TokensBounded, FenceTokensDistinct, TypeOK, queueVars,
                topologyVars
  <2>4. CASE UnfenceQueue(q, p, g, e)
    BY <2>4 DEF UnfenceQueue, TokensBounded, FenceTokensDistinct, TypeOK
  <2> QED
    BY <1>1, <1>2, <2>1, <2>2, <2>3, <2>4 DEF Mutate, Redefines, ValidateQueue, ActivateQueue,
                                              IngestOccupancy, RequestDrain, CancelDrain,
                                              SubmitDrainEvidence, QuiesceQueue, FailQueue,
                                              RetireQueue, AcknowledgeBackend, queueVars,
                                              topologyVars
<1>3. ASSUME NEW p \in Principals, NEW e \in Epochs, Govern(p, e)
      PROVE  (TokensBounded /\ FenceTokensDistinct)'
  BY <1>1, <1>3 DEF Govern, DeclareQueue, GrantCapabilities, DeclareClass, DeclarePool,
                    RegisterBackend, MarkBackendDead, SyncFails, InvalidateEvidence, queueVars,
                    topologyVars
<1>4. CASE Restart
  BY <1>4 DEF Restart, TokensBounded, FenceTokensDistinct, TypeOK, RestoredFenceTokens
<1> QED
  BY <1>1, <1>2, <1>3, <1>4 DEF Next, vars, AdvanceEpoch, RefreshFreshness, Shutdown, Tick,
                                queueVars, topologyVars

\* What makes AckBound inductive: an acknowledged incarnation is a real one, so
\* its backend identity is taken and is never registered again.
AckHeld ==
  AckBound /\ \A q \in Queues : applied[q].known => applied[q].incarnation # 0

\* An acknowledgement is withdrawn with the definition it acknowledged, and a
\* backend identity is minted once.
LEMMA AckStep == TypeOK /\ UndeclaredBare /\ AckHeld /\ [Next]_vars => AckHeld'
<1> SUFFICES ASSUME TypeOK, UndeclaredBare, AckHeld, [Next]_vars PROVE AckHeld'
  OBVIOUS
<1>1. CASE UNCHANGED <<applied, def, epoch, backends>>
  BY <1>1 DEF AckHeld, AckBound
<1>2. ASSUME NEW q \in Queues, NEW p \in Principals, NEW g \in Generations, NEW e \in Epochs,
             Mutate(q, p, g, e)
      PROVE  AckHeld'
  <2>1. CASE Redefines(q, p, g, e)
    <3>1. PICK d \in Definition : AdvanceDefinition(q, d)
      BY <2>1, RedefineEffect
    <3> QED
      BY <3>1, AdvanceEffect DEF AckHeld, AckBound
  <2>2. ASSUME NEW a \in Acknowledgements, AcknowledgeBackend(q, p, g, e, a)
        PROVE  AckHeld'
    <3>1. /\ a.known /\ a.incarnation # 0 /\ a.epoch = epoch
          /\ a.generation = def[q].generation /\ a.cls = def[q].cls
          /\ a.backend \in Backends /\ backends[a.backend].incarnation = a.incarnation
      BY <2>2 DEF AcknowledgeBackend, verify_backend_applied, find_live_backend
    <3>2. epoch \in Nat
      BY ConstantTypes DEF TypeOK
    <3> QED
      BY <2>2, <3>1, <3>2 DEF AcknowledgeBackend, AckHeld, AckBound, TypeOK
  <2> QED
    BY <1>1, <1>2, <2>1, <2>2 DEF Mutate, Redefines, ValidateQueue, ActivateQueue,
                                  IngestOccupancy, RequestDrain, CancelDrain, SubmitDrainEvidence,
                                  QuiesceQueue, FenceQueue, FenceNotDurable, UnfenceQueue,
                                  FailQueue, RetireQueue, queueVars, topologyVars
<1>3. ASSUME NEW p \in Principals, NEW e \in Epochs, Govern(p, e)
      PROVE  AckHeld'
  <2>1. ASSUME NEW q \in Queues, NEW n \in Names,
               NEW cls \in [id : Classes, generation : Generations],
               NEW pool \in [id : Pools, generation : Generations], NEW maximum \in Maxima,
               DeclareQueue(q, p, e, n, cls, pool, maximum)
        PROVE  AckHeld'
    <3>1. ~applied[q].known
      BY <2>1, DeclareFresh DEF UndeclaredBare
    <3> QED
      BY <2>1, <3>1 DEF DeclareQueue, AckHeld, AckBound, TypeOK
  <2>2. ASSUME NEW b \in Backends, NEW i \in Incarnations, RegisterBackend(p, e, b, i)
        PROVE  AckHeld'
    <3>1. backends[b].incarnation = 0
      BY <2>2, ConstantTypes DEF RegisterBackend
    <3>2. \A x \in Backends : x # b => backends'[x] = backends[x]
      BY <2>2 DEF RegisterBackend, TypeOK
    <3> QED
      BY <2>2, <3>1, <3>2 DEF RegisterBackend, AckHeld, AckBound, queueVars
  <2>3. ASSUME NEW b \in Backends, NEW i \in Incarnations, MarkBackendDead(p, e, b, i)
        PROVE  AckHeld'
    <3>1. \A x \in Backends : backends'[x].incarnation = backends[x].incarnation
      BY <2>3 DEF MarkBackendDead, TypeOK
    <3> QED
      BY <2>3, <3>1 DEF MarkBackendDead, AckHeld, AckBound, queueVars
  <2> QED
    BY <1>1, <1>3, <2>1, <2>2, <2>3 DEF Govern, GrantCapabilities, DeclareClass, DeclarePool,
                                        SyncFails, InvalidateEvidence, queueVars, topologyVars
<1>4. ASSUME NEW p \in Principals, AdvanceEpoch(p)
      PROVE  AckHeld'
  <2>1. epoch' = epoch + 1 /\ epoch \in Nat /\ UNCHANGED <<applied, def, backends>>
    BY <1>4, ConstantTypes DEF AdvanceEpoch, TypeOK
  <2>2. \A q \in Queues : applied[q].epoch \in Nat
    BY DEF TypeOK, Acknowledgement
  <2> QED
    BY <2>1, <2>2 DEF AckHeld, AckBound
<1>5. CASE Restart
  <2>1. epoch' = epoch + 1 /\ epoch \in Nat /\ UNCHANGED <<applied, def>>
    BY <1>5, ConstantTypes DEF Restart, TypeOK
  <2>2. \A q \in Queues : applied[q].epoch \in Nat
    BY DEF TypeOK, Acknowledgement
  <2>3. \A x \in Backends : backends'[x].incarnation = backends[x].incarnation
    BY <1>5 DEF Restart, TypeOK
  <2> QED
    BY <2>1, <2>2, <2>3 DEF AckHeld, AckBound
<1> QED
  BY <1>1, <1>2, <1>3, <1>4, <1>5 DEF Next, vars, RefreshFreshness, Shutdown, Tick, queueVars,
                                      topologyVars

\* What makes OverflowReported inductive: it holds of all evidence of the present
\* generation, whatever its freshness is now.
OverflowRecorded ==
  \A q \in Queues :
    /\ occ[q].present
    /\ occ[q].generation = def[q].generation
    /\ def[q].maximum # 0 /\ occ[q].level > def[q].maximum
    => overflowed[q]

\* A threshold change makes older evidence evidence of an older generation.
LEMMA OverflowStep ==
  TypeOK /\ UndeclaredBare /\ EvidenceBound /\ OverflowRecorded /\ [Next]_vars
  => OverflowRecorded'
<1> SUFFICES ASSUME TypeOK, UndeclaredBare, EvidenceBound, OverflowRecorded, [Next]_vars
             PROVE  OverflowRecorded'
  OBVIOUS
<1>1. CASE UNCHANGED <<occ, def, overflowed>>
  BY <1>1 DEF OverflowRecorded
<1>2. ASSUME NEW q \in Queues, NEW p \in Principals, NEW g \in Generations, NEW e \in Epochs,
             Mutate(q, p, g, e)
      PROVE  OverflowRecorded'
  <2>1. CASE Redefines(q, p, g, e)
    <3>1. PICK d \in Definition :
             AdvanceDefinition(q, d) /\ d.generation = def[q].generation + 1
      BY <2>1, RedefineEffect
    <3>2. def[q].generation \in Nat /\ occ[q].generation \in Nat
      BY DEF TypeOK, Definition, Occupancy
    <3>3. occ'[q].present => occ'[q].generation # def'[q].generation
      BY <3>1, <3>2, AdvanceEffect DEF EvidenceBound
    <3> QED
      BY <3>1, <3>3, AdvanceEffect DEF OverflowRecorded
  <2>2. ASSUME NEW s \in Samples, IngestOccupancy(q, p, g, e, s)
        PROVE  OverflowRecorded'
    BY <2>2 DEF IngestOccupancy, OverflowRecorded, TypeOK, Overflows
  <2>3. CASE RetireQueue(q, p, g, e)
    BY <2>3 DEF RetireQueue, OverflowRecorded, TypeOK, NoOccupancy
  <2> QED
    BY <1>1, <1>2, <2>1, <2>2, <2>3 DEF Mutate, Redefines, ValidateQueue, ActivateQueue,
                                        RequestDrain, CancelDrain, SubmitDrainEvidence,
                                        QuiesceQueue, FenceQueue, FenceNotDurable, UnfenceQueue,
                                        FailQueue, AcknowledgeBackend, queueVars, topologyVars
<1>3. ASSUME NEW p \in Principals, NEW e \in Epochs, Govern(p, e)
      PROVE  OverflowRecorded'
  <2>1. ASSUME NEW q \in Queues, NEW n \in Names,
               NEW cls \in [id : Classes, generation : Generations],
               NEW pool \in [id : Pools, generation : Generations], NEW maximum \in Maxima,
               DeclareQueue(q, p, e, n, cls, pool, maximum)
        PROVE  OverflowRecorded'
    <3>1. ~occ[q].present
      BY <2>1, DeclareFresh DEF UndeclaredBare
    <3> QED
      BY <2>1, <3>1 DEF DeclareQueue, OverflowRecorded, TypeOK
  <2>2. ASSUME NEW c \in Classes, DeclareClass(p, e, c)
        PROVE  OverflowRecorded'
    BY <2>2, InvalidateType DEF DeclareClass, OverflowRecorded, TypeOK, Freshnesses
  <2>3. ASSUME NEW q \in Queues, InvalidateEvidence(q, p, e)
        PROVE  OverflowRecorded'
    BY <2>3, InvalidateType DEF InvalidateEvidence, OverflowRecorded, TypeOK, Freshnesses
  <2> QED
    BY <1>1, <1>3, <2>1, <2>2, <2>3 DEF Govern, GrantCapabilities, DeclarePool, RegisterBackend,
                                        MarkBackendDead, SyncFails, queueVars, topologyVars
<1>4. ASSUME NEW p \in Principals, AdvanceEpoch(p)
      PROVE  OverflowRecorded'
  BY <1>4, InvalidateType DEF AdvanceEpoch, OverflowRecorded, TypeOK, Freshnesses
<1>5. CASE RefreshFreshness
  BY <1>5, RefreshEffect DEF OverflowRecorded
<1>6. CASE Restart
  BY <1>6, InvalidateType DEF Restart, OverflowRecorded, TypeOK, Freshnesses
<1> QED
  BY <1>1, <1>2, <1>3, <1>4, <1>5, <1>6 DEF Next, vars, Shutdown, Tick, queueVars, topologyVars

\* Without an observation there is nothing to invalidate.
LEMMA InvalidateNothing == invalidate_occupancy(NoOccupancy, "stale_generation") = NoOccupancy
BY DEF invalidate_occupancy, NoOccupancy

\* Nor anything to re-evaluate.
LEMMA RefreshNothing ==
  ASSUME NEW n, NEW g
  PROVE  [NoOccupancy EXCEPT !.freshness = classify_freshness(NoOccupancy, n, MaxAge, MaxSkew, g)]
           = NoOccupancy
BY DEF classify_freshness, NoOccupancy

\* Retirement clears the evidence, and authorize() lets none back in.
LEMMA RetiredStep == TypeOK /\ RetiredBare /\ [Next]_vars => RetiredBare'
<1> SUFFICES ASSUME TypeOK, RetiredBare, [Next]_vars PROVE RetiredBare'
  OBVIOUS
<1>1. CASE UNCHANGED <<lifecycle, occ, drain>>
  BY <1>1 DEF RetiredBare
<1>2. ASSUME NEW q \in Queues, NEW p \in Principals, NEW g \in Generations, NEW e \in Epochs,
             Mutate(q, p, g, e)
      PROVE  RetiredBare'
  <2>1. CASE ValidateQueue(q, p, g, e)
    BY <2>1 DEF ValidateQueue, RetiredBare, TypeOK, Admitted, authorize, required_capability,
                check_transition, kRules, Declared
  <2>2. CASE ActivateQueue(q, p, g, e)
    BY <2>2 DEF ActivateQueue, RetiredBare, TypeOK, Admitted, authorize, required_capability,
                check_transition, kRules, Declared
  <2>3. CASE Redefines(q, p, g, e)
    <3>1. lifecycle[q] # "retired"
      BY <2>3, RedefineEffect DEF Admitted, authorize, required_capability
    <3>2. PICK d \in Definition : AdvanceDefinition(q, d)
      BY <2>3, RedefineEffect
    <3> QED
      BY <3>1, <3>2, AdvanceEffect DEF RetiredBare
  <2>4. ASSUME NEW s \in Samples, IngestOccupancy(q, p, g, e, s)
        PROVE  RetiredBare'
    <3>1. lifecycle[q] # "retired" /\ lifecycle' = lifecycle
      BY <2>4 DEF IngestOccupancy, Admitted, authorize, required_capability
    <3>2. \A r \in Queues \ {q} : occ'[r] = occ[r] /\ drain'[r] = drain[r]
      BY <2>4 DEF IngestOccupancy, TypeOK
    <3> QED
      BY <3>1, <3>2 DEF RetiredBare
  <2>5. CASE RequestDrain(q, p, g, e)
    BY <2>5 DEF RequestDrain, RetiredBare, TypeOK, Admitted, authorize, required_capability,
                check_transition, kRules, Declared
  <2>6. CASE CancelDrain(q, p, g, e)
    BY <2>6 DEF CancelDrain, RetiredBare, TypeOK, Admitted, authorize, required_capability,
                check_transition, kRules, Declared
  <2>7. ASSUME NEW v \in Evidence, SubmitDrainEvidence(q, p, g, e, v)
        PROVE  RetiredBare'
    BY <2>7 DEF SubmitDrainEvidence, RetiredBare, TypeOK, Admitted, authorize,
                required_capability, check_transition, kRules, Declared
  <2>8. CASE QuiesceQueue(q, p, g, e)
    BY <2>8 DEF QuiesceQueue, RetiredBare, TypeOK, Admitted, authorize, required_capability,
                check_transition, kRules, Declared
  <2>9. CASE FailQueue(q, p, g, e)
    BY <2>9 DEF FailQueue, RetiredBare, TypeOK, Admitted, authorize, required_capability,
                check_transition, kRules, Declared
  <2>10. CASE RetireQueue(q, p, g, e)
    BY <2>10 DEF RetireQueue, RetiredBare, TypeOK, Admitted, authorize, required_capability,
                 check_transition, kRules, Declared
  <2> QED
    BY <1>1, <1>2, <2>1, <2>2, <2>3, <2>4, <2>5, <2>6, <2>7, <2>8, <2>9, <2>10
       DEF Mutate, Redefines, FenceQueue, FenceNotDurable, UnfenceQueue, AcknowledgeBackend,
           queueVars, topologyVars
<1>3. ASSUME NEW p \in Principals, NEW e \in Epochs, Govern(p, e)
      PROVE  RetiredBare'
  <2>1. ASSUME NEW q \in Queues, NEW n \in Names,
               NEW cls \in [id : Classes, generation : Generations],
               NEW pool \in [id : Pools, generation : Generations], NEW maximum \in Maxima,
               DeclareQueue(q, p, e, n, cls, pool, maximum)
        PROVE  RetiredBare'
    BY <2>1 DEF DeclareQueue, RetiredBare, TypeOK
  <2>2. ASSUME NEW c \in Classes, DeclareClass(p, e, c)
        PROVE  RetiredBare'
    BY <2>2, InvalidateNothing DEF DeclareClass, RetiredBare, TypeOK
  <2>3. ASSUME NEW q \in Queues, InvalidateEvidence(q, p, e)
        PROVE  RetiredBare'
    <3>1. \A r \in Queues : occ[r] = NoOccupancy => occ'[r] = NoOccupancy
      <4>1. ~NoOccupancy.present
        BY DEF NoOccupancy
      <4> QED
        BY <2>3, <4>1 DEF InvalidateEvidence, TypeOK
    <3> QED
      BY <2>3, <3>1 DEF InvalidateEvidence, RetiredBare
  <2> QED
    BY <1>1, <1>3, <2>1, <2>2, <2>3 DEF Govern, GrantCapabilities, DeclarePool, RegisterBackend,
                                        MarkBackendDead, SyncFails, queueVars, topologyVars
<1>4. ASSUME NEW p \in Principals, AdvanceEpoch(p)
      PROVE  RetiredBare'
  <2>1. \A r \in Queues : occ[r] = NoOccupancy => occ'[r] = NoOccupancy
    BY <1>4 DEF AdvanceEpoch, TypeOK, NoOccupancy
  <2> QED
    BY <1>4, <2>1 DEF AdvanceEpoch, RetiredBare
<1>5. CASE RefreshFreshness
  <2>1. \A r \in Queues : occ[r] = NoOccupancy => occ'[r] = NoOccupancy
    BY <1>5, RefreshNothing DEF RefreshFreshness
  <2> QED
    BY <1>5, <2>1 DEF RefreshFreshness, RetiredBare
<1>6. CASE Restart
  <2>1. \A r \in Queues : occ[r] = NoOccupancy => occ'[r] = NoOccupancy
    BY <1>6 DEF Restart, TypeOK, NoOccupancy
  <2>2. \A r \in Queues : drain[r] = NoDrain => drain'[r] = NoDrain
    <3>1. NoDrain.phase = "idle"
      BY DEF NoDrain
    <3> QED
      BY <1>6, <3>1, RestoredDrainType DEF Restart, TypeOK
  <2> QED
    BY <1>6, <2>1, <2>2 DEF Restart, RetiredBare
<1> QED
  BY <1>1, <1>2, <1>3, <1>4, <1>5, <1>6 DEF Next, vars, Shutdown, Tick, queueVars, topologyVars

\* A drain ends with the DRAINING state, never before it.
LEMMA DrainStep == TypeOK /\ DrainInProgress /\ [Next]_vars => DrainInProgress'
<1> SUFFICES ASSUME TypeOK, DrainInProgress, [Next]_vars PROVE DrainInProgress'
  OBVIOUS
<1>1. CASE UNCHANGED <<lifecycle, drain>>
  BY <1>1 DEF DrainInProgress, in_progress
<1>2. ASSUME NEW q \in Queues, NEW p \in Principals, NEW g \in Generations, NEW e \in Epochs,
             Mutate(q, p, g, e)
      PROVE  DrainInProgress'
  <2>1. CASE ValidateQueue(q, p, g, e)
    BY <2>1 DEF ValidateQueue, DrainInProgress, TypeOK, in_progress
  <2>2. CASE ActivateQueue(q, p, g, e)
    BY <2>2 DEF ActivateQueue, DrainInProgress, TypeOK, in_progress
  <2>3. CASE Redefines(q, p, g, e)
    <3>1. PICK d \in Definition : AdvanceDefinition(q, d)
      BY <2>3, RedefineEffect
    <3> QED
      BY <3>1, AdvanceEffect DEF DrainInProgress, in_progress
  <2>4. ASSUME NEW s \in Samples, IngestOccupancy(q, p, g, e, s)
        PROVE  DrainInProgress'
    <3>1. \A r \in Queues : drain'[r].phase = drain[r].phase
      <4>1. \A d \in DrainState, z \in BOOLEAN : [d EXCEPT !.zero_observed = z].phase = d.phase
        BY DEF DrainState
      <4> QED
        BY <2>4, <4>1 DEF IngestOccupancy, TypeOK
    <3> QED
      BY <2>4, <3>1 DEF IngestOccupancy, DrainInProgress, in_progress
  <2>5. CASE RequestDrain(q, p, g, e)
    BY <2>5 DEF RequestDrain, DrainInProgress, TypeOK, in_progress, StartedDrain, NoDrain
  <2>6. CASE CancelDrain(q, p, g, e)
    BY <2>6 DEF CancelDrain, DrainInProgress, TypeOK, in_progress
  <2>7. ASSUME NEW v \in Evidence, SubmitDrainEvidence(q, p, g, e, v)
        PROVE  DrainInProgress'
    BY <2>7 DEF SubmitDrainEvidence, DrainInProgress, TypeOK, in_progress
  <2>8. CASE QuiesceQueue(q, p, g, e)
    <3>1. \A r \in Queues \ {q} : drain'[r] = drain[r] /\ lifecycle'[r] = lifecycle[r]
      BY <2>8 DEF QuiesceQueue, TypeOK
    <3>2. lifecycle'[q] # "draining"
      BY <2>8 DEF QuiesceQueue, TypeOK
    <3> QED
      BY <3>1, <3>2 DEF DrainInProgress, in_progress
  <2>9. CASE FailQueue(q, p, g, e)
    BY <2>9 DEF FailQueue, DrainInProgress, TypeOK, in_progress
  <2>10. CASE RetireQueue(q, p, g, e)
    BY <2>10 DEF RetireQueue, DrainInProgress, TypeOK, in_progress
  <2> QED
    BY <1>1, <1>2, <2>1, <2>2, <2>3, <2>4, <2>5, <2>6, <2>7, <2>8, <2>9, <2>10
       DEF Mutate, Redefines, FenceQueue, FenceNotDurable, UnfenceQueue, AcknowledgeBackend,
           queueVars, topologyVars
<1>3. ASSUME NEW p \in Principals, NEW e \in Epochs, Govern(p, e)
      PROVE  DrainInProgress'
  <2>1. ASSUME NEW q \in Queues, NEW n \in Names,
               NEW cls \in [id : Classes, generation : Generations],
               NEW pool \in [id : Pools, generation : Generations], NEW maximum \in Maxima,
               DeclareQueue(q, p, e, n, cls, pool, maximum)
        PROVE  DrainInProgress'
    BY <2>1 DEF DeclareQueue, DrainInProgress, TypeOK, in_progress
  <2> QED
    BY <1>1, <1>3, <2>1 DEF Govern, GrantCapabilities, DeclareClass, DeclarePool, RegisterBackend,
                            MarkBackendDead, SyncFails, InvalidateEvidence, queueVars,
                            topologyVars
<1>4. CASE Restart
  BY <1>4, RestoredDrainType DEF Restart, DrainInProgress, TypeOK
<1> QED
  BY <1>1, <1>2, <1>3, <1>4 DEF Next, vars, AdvanceEpoch, RefreshFreshness, Shutdown, Tick,
                                queueVars, topologyVars

-----------------------------------------------------------------------------
(* The theorems *)

\* Everything the safety properties rest on, as one inductive invariant.
IInv ==
  /\ TypeOK
  /\ UndeclaredBare
  /\ BindingKnown
  /\ EvidenceBound
  /\ FenceConsistent
  /\ TokensBounded /\ FenceTokensDistinct
  /\ AckHeld
  /\ OverflowRecorded
  /\ RetiredBare
  /\ DrainInProgress

\* A fabric without queues satisfies it.
LEMMA InitInductive == Init => IInv
<1> SUFFICES ASSUME Init PROVE IInv
  OBVIOUS
<1>1. TypeOK
  BY InitType
<1>2. /\ UndeclaredBare /\ EvidenceBound /\ OverflowRecorded
  BY DEF Init, UndeclaredBare, EvidenceBound, OverflowRecorded, NoOccupancy, NoAcknowledgement
<1>3. BindingKnown /\ RetiredBare /\ DrainInProgress
  BY DEF Init, BindingKnown, RetiredBare, DrainInProgress, Declared
<1>4. FenceConsistent
  BY DEF Init, FenceConsistent, NoFence
<1>5. TokensBounded /\ FenceTokensDistinct
  BY DEF Init, TokensBounded, FenceTokensDistinct, NoFence
<1>6. AckHeld
  BY DEF Init, AckHeld, AckBound, NoAcknowledgement
<1> QED
  BY <1>1, <1>2, <1>3, <1>4, <1>5, <1>6 DEF IInv

\* Every reachable state satisfies the inductive invariant.
LEMMA Inductive == Spec => []IInv
<1>1. IInv /\ [Next]_vars => IInv'
  BY TypeStep, BareStep, BindingStep, EvidenceStep, FenceStep, TokenStep, AckStep, OverflowStep,
     RetiredStep, DrainStep DEF IInv
<1> QED
  BY InitInductive, <1>1, PTL DEF Spec

\* INV-FENCE holds for any number of queues and fences.
THEOREM FencesConsistent == Spec => []FenceConsistent
<1>1. IInv => FenceConsistent
  BY DEF IInv
<1> QED
  BY Inductive, <1>1, PTL

\* No two queues ever hold one fence token, over failed fences and restarts.
THEOREM TokensDistinct == Spec => []FenceTokensDistinct
<1>1. IInv => FenceTokensDistinct
  BY DEF IInv
<1> QED
  BY Inductive, <1>1, PTL

\* Fresh evidence is of the current generation and, while the class binding is
\* current, of the current epoch.
THEOREM EvidenceFresh == Spec => []FreshEvidence
<1>1. IInv => FreshEvidence
  <2> SUFFICES ASSUME IInv, NEW q \in Queues, occ[q].present, occ[q].freshness = "fresh"
               PROVE  /\ occ[q].generation = def[q].generation
                      /\ BindingIsExact(def[q].cls) => occ[q].epoch = epoch
    BY DEF FreshEvidence
  <2>1. ~is_sticky(occ[q].freshness)
    BY DEF is_sticky
  <2> QED
    BY <2>1 DEF IInv, EvidenceBound
<1> QED
  BY Inductive, <1>1, PTL

\* INV-OVERFLOW holds for every ladder and every history of redefinitions.
THEOREM OverflowsReported == Spec => []OverflowReported
<1>1. IInv => OverflowReported
  BY DEF IInv, OverflowRecorded, OverflowReported
<1> QED
  BY Inductive, <1>1, PTL

\* An acknowledgement still held is for the present definition and names a
\* registered backend life.
THEOREM AcksBound == Spec => []AckBound
<1>1. IInv => AckBound
  BY DEF IInv, AckHeld
<1> QED
  BY Inductive, <1>1, PTL

\* INV-RETIRE: no evidence survives retirement or reaches a retired queue.
THEOREM RetiredQueuesBare == Spec => []RetiredBare
<1>1. IInv => RetiredBare
  BY DEF IInv
<1> QED
  BY Inductive, <1>1, PTL

\* A draining queue always has a drain in progress.
THEOREM DrainsInProgress == Spec => []DrainInProgress
<1>1. IInv => DrainInProgress
  BY DEF IInv
<1> QED
  BY Inductive, <1>1, PTL

-----------------------------------------------------------------------------
(* What a step may never do *)

\* Only quiesce_queue quiesces, and only a queue whose drain is in progress, so the
\* shortcut of assess_drain() for a completed drain is never taken.
LEMMA QuiesceStep == IInv /\ [Next]_vars => QuiescesOnProof
<1> SUFFICES ASSUME IInv, [Next]_vars PROVE QuiescesOnProof
  OBVIOUS
<1>1. CASE UNCHANGED <<lifecycle>>
  BY <1>1 DEF QuiescesOnProof
<1>2. ASSUME NEW q \in Queues, NEW p \in Principals, NEW g \in Generations, NEW e \in Epochs,
             Mutate(q, p, g, e)
      PROVE  QuiescesOnProof
  <2>1. CASE ValidateQueue(q, p, g, e)
    BY <2>1 DEF ValidateQueue, IInv, QuiescesOnProof, TypeOK
  <2>2. CASE ActivateQueue(q, p, g, e)
    BY <2>2 DEF ActivateQueue, IInv, QuiescesOnProof, TypeOK
  <2>3. CASE Redefines(q, p, g, e)
    <3>1. PICK d \in Definition : AdvanceDefinition(q, d)
      BY <2>3, RedefineEffect DEF IInv
    <3> QED
      BY <3>1, AdvanceEffect DEF IInv, QuiescesOnProof
  <2>4. CASE RequestDrain(q, p, g, e)
    BY <2>4 DEF RequestDrain, IInv, QuiescesOnProof, TypeOK
  <2>5. CASE CancelDrain(q, p, g, e)
    BY <2>5 DEF CancelDrain, IInv, QuiescesOnProof, TypeOK
  <2>6. CASE QuiesceQueue(q, p, g, e)
    <3> DEFINE b == drain[q].backend
    <3>1. TypeOK /\ DrainInProgress
      BY DEF IInv
    <3>2. \A r \in Queues \ {q} : lifecycle'[r] = lifecycle[r]
      BY <2>6, <3>1 DEF QuiesceQueue, TypeOK
    <3>3. lifecycle[q] = "draining"
      BY <2>6 DEF QuiesceQueue, check_transition, kRules
    <3>4. drain[q].phase # "completed"
      BY <3>1, <3>3 DEF DrainInProgress, in_progress
    <3>5. find_live_backend(b) # 0
          => b \in Backends /\ backends[b].alive /\ backends[b].incarnation = find_live_backend(b)
      BY DEF find_live_backend
    <3>6. /\ drain[q].request_accepted /\ drain[q].reported_drained /\ drain[q].epoch = epoch
          /\ find_live_backend(b) # 0 /\ drain[q].incarnation = find_live_backend(b)
          /\ occ[q].present /\ occ[q].freshness = "fresh" /\ occ[q].level = 0
          /\ occ[q].observed_at >= drain[q].requested_at
      BY <2>6, <3>4 DEF QuiesceQueue, assess_drain
    <3>7. RequireAck => applied[q].known /\ applied[q].backend = b /\ applied[q].epoch = epoch
      BY <2>6 DEF QuiesceQueue, verify_backend_applied
    <3> QED
      BY <3>2, <3>5, <3>6, <3>7 DEF QuiescesOnProof
  <2>7. CASE FailQueue(q, p, g, e)
    BY <2>7 DEF FailQueue, IInv, QuiescesOnProof, TypeOK
  <2>8. CASE RetireQueue(q, p, g, e)
    BY <2>8 DEF RetireQueue, IInv, QuiescesOnProof, TypeOK
  <2> QED
    BY <1>1, <1>2, <2>1, <2>2, <2>3, <2>4, <2>5, <2>6, <2>7, <2>8
       DEF Mutate, Redefines, IngestOccupancy, SubmitDrainEvidence, FenceQueue, FenceNotDurable,
           UnfenceQueue, AcknowledgeBackend, queueVars, topologyVars
<1>3. ASSUME NEW p \in Principals, NEW e \in Epochs, Govern(p, e)
      PROVE  QuiescesOnProof
  <2>1. ASSUME NEW q \in Queues, NEW n \in Names,
               NEW cls \in [id : Classes, generation : Generations],
               NEW pool \in [id : Pools, generation : Generations], NEW maximum \in Maxima,
               DeclareQueue(q, p, e, n, cls, pool, maximum)
        PROVE  QuiescesOnProof
    BY <2>1 DEF DeclareQueue, IInv, QuiescesOnProof, TypeOK
  <2> QED
    BY <1>1, <1>3, <2>1 DEF Govern, GrantCapabilities, DeclareClass, DeclarePool, RegisterBackend,
                            MarkBackendDead, SyncFails, InvalidateEvidence, queueVars,
                            topologyVars
<1> QED
  BY <1>1, <1>2, <1>3 DEF Next, vars, AdvanceEpoch, RefreshFreshness, Shutdown, Restart, Tick,
                          queueVars, topologyVars

\* Whatever could disturb a fenced queue needs a capability authorize() denies it.
LEMMA FrozenStep == IInv /\ [Next]_vars => KeepsFrozen
<1> SUFFICES ASSUME IInv, [Next]_vars PROVE KeepsFrozen
  OBVIOUS
<1>1. CASE UNCHANGED <<lifecycle, def, fence, applied, occ>>
  BY <1>1 DEF KeepsFrozen
<1>2. ASSUME NEW q \in Queues, NEW p \in Principals, NEW g \in Generations, NEW e \in Epochs,
             Mutate(q, p, g, e)
      PROVE  KeepsFrozen
  <2>1. CASE ValidateQueue(q, p, g, e)
    BY <2>1 DEF ValidateQueue, IInv, FenceConsistent, KeepsFrozen, TypeOK, Admitted, authorize,
                required_capability
  <2>2. CASE ActivateQueue(q, p, g, e)
    BY <2>2 DEF ActivateQueue, IInv, FenceConsistent, KeepsFrozen, TypeOK, Admitted, authorize,
                required_capability
  <2>3. CASE Redefines(q, p, g, e)
    <3>1. "fenced" \notin flags[q]
      BY <2>3, RedefineEffect DEF IInv, Admitted, authorize, required_capability
    <3>2. PICK d \in Definition : AdvanceDefinition(q, d)
      BY <2>3, RedefineEffect DEF IInv
    <3> QED
      BY <3>1, <3>2, AdvanceEffect DEF IInv, FenceConsistent, KeepsFrozen
  <2>4. ASSUME NEW s \in Samples, IngestOccupancy(q, p, g, e, s)
        PROVE  KeepsFrozen
    BY <2>4 DEF IngestOccupancy, IInv, FenceConsistent, KeepsFrozen, TypeOK, Admitted, authorize,
                required_capability
  <2>5. CASE RequestDrain(q, p, g, e)
    BY <2>5 DEF RequestDrain, IInv, FenceConsistent, KeepsFrozen, TypeOK, Admitted, authorize,
                required_capability
  <2>6. CASE CancelDrain(q, p, g, e)
    BY <2>6 DEF CancelDrain, IInv, FenceConsistent, KeepsFrozen, TypeOK, Admitted, authorize,
                required_capability
  <2>7. CASE QuiesceQueue(q, p, g, e)
    BY <2>7 DEF QuiesceQueue, IInv, FenceConsistent, KeepsFrozen, TypeOK, Admitted, authorize,
                required_capability
  <2>8. CASE FenceQueue(q, p, g, e)
    BY <2>8 DEF FenceQueue, IInv, FenceConsistent, KeepsFrozen, TypeOK, Admitted, authorize,
                required_capability
  <2>9. CASE UnfenceQueue(q, p, g, e)
    BY <2>9 DEF UnfenceQueue, IInv, FenceConsistent, KeepsFrozen, TypeOK, Admitted, authorize,
                required_capability
  <2>10. CASE FailQueue(q, p, g, e)
    BY <2>10 DEF FailQueue, IInv, FenceConsistent, KeepsFrozen, TypeOK, Admitted, authorize,
                 required_capability
  <2>11. CASE RetireQueue(q, p, g, e)
    BY <2>11 DEF RetireQueue, IInv, FenceConsistent, KeepsFrozen, TypeOK, Admitted, authorize,
                 required_capability
  <2>12. ASSUME NEW a \in Acknowledgements, AcknowledgeBackend(q, p, g, e, a)
         PROVE  KeepsFrozen
    BY <2>12 DEF AcknowledgeBackend, IInv, FenceConsistent, KeepsFrozen, TypeOK, Admitted,
                 authorize, required_capability
  <2> QED
    BY <1>1, <1>2, <2>1, <2>2, <2>3, <2>4, <2>5, <2>6, <2>7, <2>8, <2>9, <2>10, <2>11, <2>12
       DEF Mutate, Redefines, SubmitDrainEvidence, FenceNotDurable, queueVars, topologyVars
<1>3. ASSUME NEW p \in Principals, NEW e \in Epochs, Govern(p, e)
      PROVE  KeepsFrozen
  <2>1. ASSUME NEW q \in Queues, NEW n \in Names,
               NEW cls \in [id : Classes, generation : Generations],
               NEW pool \in [id : Pools, generation : Generations], NEW maximum \in Maxima,
               DeclareQueue(q, p, e, n, cls, pool, maximum)
        PROVE  KeepsFrozen
    BY <2>1, DeclareFresh DEF DeclareQueue, IInv, FenceConsistent, KeepsFrozen, TypeOK
  <2>2. ASSUME NEW c \in Classes, DeclareClass(p, e, c)
        PROVE  KeepsFrozen
    BY <2>2, InvalidateType DEF DeclareClass, IInv, FenceConsistent, KeepsFrozen, TypeOK,
                                Freshnesses
  <2>3. ASSUME NEW q \in Queues, InvalidateEvidence(q, p, e)
        PROVE  KeepsFrozen
    BY <2>3, InvalidateType DEF InvalidateEvidence, IInv, FenceConsistent, KeepsFrozen, TypeOK,
                                Freshnesses
  <2> QED
    BY <1>1, <1>3, <2>1, <2>2, <2>3 DEF Govern, GrantCapabilities, DeclarePool, RegisterBackend,
                                        MarkBackendDead, SyncFails, queueVars, topologyVars
<1>4. ASSUME NEW p \in Principals, AdvanceEpoch(p)
      PROVE  KeepsFrozen
  BY <1>4, InvalidateType DEF AdvanceEpoch, IInv, FenceConsistent, KeepsFrozen, TypeOK,
                              Freshnesses
<1>5. CASE RefreshFreshness
  BY <1>5, RefreshEffect DEF IInv, KeepsFrozen
<1>6. CASE Restart
  BY <1>6, InvalidateType DEF Restart, IInv, FenceConsistent, KeepsFrozen, TypeOK, Freshnesses
<1> QED
  BY <1>1, <1>2, <1>3, <1>4, <1>5, <1>6 DEF Next, vars, Shutdown, Tick, queueVars, topologyVars

\* README invariant 5, for every drain and every restart in between.
THEOREM QuiesceIsProven == Spec => QuiesceProven
BY Inductive, QuiesceStep, PTL DEF Spec, QuiesceProven

\* README invariant 3, for every sequence of operations on a fenced queue, restarts
\* in between included.
THEOREM FencedQueuesFrozen == Spec => FencedFrozen
BY Inductive, FrozenStep, PTL DEF Spec, FencedFrozen
=============================================================================
