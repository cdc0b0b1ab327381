----------------------------- MODULE Governance -----------------------------
(***************************************************************************)
(* The governed state of one fabric resource and of the queues in it, and  *)
(* every operation of Fabric that changes it: the mutation kinds of        *)
(* apply_kind_locked, the topology operations, epochs, evidence            *)
(* invalidation, freshness refresh, shutdown, and a restart from a         *)
(* compacted journal.                                                      *)
(*                                                                         *)
(* Every public method of Fabric runs under one mutex, so each is one      *)
(* step.  A request the code refuses, or accepts as an idempotent no-op,   *)
(* leaves this state alone: it is a stuttering step and has no action.     *)
(* The attempt memo and the provenance tracker, which can only turn a      *)
(* request into a refusal or a replay, are the subject of Attempts; what a *)
(* crash does to an uncompacted journal is the subject of Recovery.        *)
(*                                                                         *)
(* Bytes and packets of an observation are one natural, its level, 0 when  *)
(* both are 0.  A threshold ladder is its max_occupancy_bytes, 0 for none. *)
(* A publisher life (publisher, incarnation, boot) is one value.           *)
(***************************************************************************)
EXTENDS QueueRules

CONSTANTS
  Names,            \* queue names
  MaxQueues,        \* limits.max_queues_total
  Principals,       \* owners that present requests
  CapabilitySets,   \* capability masks an administrator may grant
  Classes, Pools,   \* scheduling classes and buffer pools of the resource
  MaxBackends,      \* backend capacity of the resource
  Incarnations,     \* incarnations a backend may register with
  Lives,            \* publisher lives that publish occupancy
  Levels,           \* observed occupancy levels
  Maxima,           \* threshold ladders
  Evidence,         \* drain evidence that is submitted
  MaxDrainRecords,  \* policy.max_drain_evidence_records
  RequireAck,       \* policy.require_backend_ack_for_drain
  MaxAge, MaxSkew,  \* policy.max_age and policy.max_future_skew
  MaxGeneration, MaxEpoch, MaxSample, MaxTime, MaxToken,   \* bounds
  JournalFaults,    \* whether a journal sync may fail
  Workload          \* the operations the environment performs

VARIABLES
  now,         \* clock_watermark
  epoch,
  closed,      \* shutting_down
  healthy,
  grants,      \* authority.grants of the resource
  classGen,    \* current generation of each class, 0 before it is declared
  poolGen,
  backends,    \* registry: backend id -> incarnation and liveness
  fenceTokens, \* fence_tokens, the last fence token handed out
  lifecycle,   \* "undeclared", or QueueRecord::lifecycle
  flags,       \* QueueRecord::applicability
  def,         \* QueueRecord::def
  fence,       \* QueueRecord::fence
  occ,         \* QueueRecord::occupancy
  drain,       \* QueueRecord::drain
  applied,     \* QueueRecord::applied, the last backend acknowledgement
  overflowed   \* QueueRecord::overflow_events > 0

topologyVars == <<classGen, poolGen>>
queueVars == <<lifecycle, flags, def, fence, occ, drain, applied, overflowed>>
vars == <<now, epoch, closed, healthy, grants, topologyVars, backends, fenceTokens, queueVars>>

-----------------------------------------------------------------------------
(* Value sets *)

Queues      == 1..MaxQueues
Backends    == 1..MaxBackends
Generations == 1..MaxGeneration
Epochs      == 1..MaxEpoch

Binding == [id : Nat, generation : Nat]

Definition ==
  [name : Nat, cls : Binding, pool : Binding, maximum : Nat, owner : Nat, generation : Nat]

Occupancy ==
  [present : BOOLEAN, level : Nat, observed_at : Nat, sequence : Nat, epoch : Nat,
   life : Nat, generation : Nat, freshness : Freshnesses]

DrainState ==
  [phase : {"idle", "requested", "evidence_pending", "completed"}, requested_at : Nat,
   records : Nat, request_accepted : BOOLEAN, reported_drained : BOOLEAN,
   backend : Nat, incarnation : Nat, epoch : Nat, zero_observed : BOOLEAN,
   revalidated : BOOLEAN]

Acknowledgement ==
  [known : BOOLEAN, backend : Nat, incarnation : Nat, epoch : Nat, generation : Nat,
   cls : Binding]

ASSUME ConstantsAssumption ==
  /\ Names \subseteq Nat \ {0} /\ Principals \subseteq Nat \ {0}
  /\ Classes \subseteq Nat \ {0} /\ Pools \subseteq Nat \ {0} /\ Lives \subseteq Nat \ {0}
  /\ MaxQueues \in Nat /\ MaxBackends \in Nat /\ MaxDrainRecords \in Nat
  /\ MaxAge \in Nat /\ MaxSkew \in Nat
  /\ MaxGeneration \in Nat \ {0} /\ MaxEpoch \in Nat \ {0} /\ MaxSample \in Nat
  /\ MaxTime \in Nat /\ MaxToken \in Nat
  /\ CapabilitySets \subseteq SUBSET Capabilities
  /\ Incarnations \subseteq Nat \ {0}
  /\ Levels \subseteq Nat /\ Maxima \subseteq Nat
  /\ Evidence \subseteq [records : Nat, request_accepted : BOOLEAN, reported_drained : BOOLEAN,
                         backend : Nat, incarnation : Nat, epoch : Nat, zero_observed : BOOLEAN]
  /\ RequireAck \in BOOLEAN /\ JournalFaults \in BOOLEAN

-----------------------------------------------------------------------------
(* Default-constructed members of QueueRecord *)

NoBinding == [id |-> 0, generation |-> 0]

NoDefinition ==
  [name |-> 0, cls |-> NoBinding, pool |-> NoBinding, maximum |-> 0, owner |-> 0, generation |-> 0]

NoFence == [fenced |-> FALSE, token |-> 0, epoch |-> 0]

NoOccupancy ==
  [present |-> FALSE, level |-> 0, observed_at |-> 0, sequence |-> 0, epoch |-> 0, life |-> 0,
   generation |-> 0, freshness |-> "unknown"]

NoDrain ==
  [phase |-> "idle", requested_at |-> 0, records |-> 0, request_accepted |-> FALSE,
   reported_drained |-> FALSE, backend |-> 0, incarnation |-> 0, epoch |-> 0,
   zero_observed |-> FALSE, revalidated |-> TRUE]

NoAcknowledgement ==
  [known |-> FALSE, backend |-> 0, incarnation |-> 0, epoch |-> 0, generation |-> 0,
   cls |-> NoBinding]

-----------------------------------------------------------------------------
(* Initially recover() has run on an empty journal, and the resource, its  *)
(* classes and its pools have been declared by an owner, who holds every   *)
(* capability.                                                             *)

Init ==
  /\ now = 0 /\ epoch = 1 /\ closed = FALSE /\ healthy = TRUE
  /\ \E owner \in Principals :
       grants = [p \in Principals |-> IF p = owner THEN Capabilities ELSE {}]
  /\ classGen = [c \in Classes |-> 1]
  /\ poolGen = [c \in Pools |-> 1]
  /\ backends = [b \in Backends |-> [incarnation |-> 0, alive |-> FALSE]]
  /\ fenceTokens = 0
  /\ lifecycle = [q \in Queues |-> "undeclared"]
  /\ flags = [q \in Queues |-> {}]
  /\ def = [q \in Queues |-> NoDefinition]
  /\ fence = [q \in Queues |-> NoFence]
  /\ occ = [q \in Queues |-> NoOccupancy]
  /\ drain = [q \in Queues |-> NoDrain]
  /\ applied = [q \in Queues |-> NoAcknowledgement]
  /\ overflowed = [q \in Queues |-> FALSE]

-----------------------------------------------------------------------------
(* Guards shared by the operations *)

Declared(q) == lifecycle[q] # "undeclared"

\* The incarnation of the live registry entry of backend b, 0 if there is none.
find_live_backend(b) ==
  IF b \in Backends THEN IF backends[b].alive THEN backends[b].incarnation ELSE 0 ELSE 0

\* Operations of the resource itself: never fenced, always "active".
ResourceAuthorizes(p, required, e) ==
  /\ ~closed
  /\ authorize(grants[p], required, e, epoch, {}, "active")

\* Stages 2 and 4 of apply_existing_locked: principal p asks for a mutation of
\* queue q at the expected generation g and epoch e.
Admitted(q, p, kind, g, e) ==
  /\ kind \in Workload
  /\ ~closed
  /\ Declared(q)
  /\ authorize(grants[p], required_capability(kind), e, epoch, flags[q], lifecycle[q])
  /\ g = def[q].generation
  /\ e = epoch

BindingIsExact(cls) == cls.id \in Classes /\ cls.generation = classGen[cls.id]

\* Mutant: generation exhaustion is not detected.
CanAdvance_unchecked(q) == TRUE

\* Generation::next() refuses to wrap.
CanAdvance(q) == def[q].generation < MaxGeneration

\* The class, thresholds or owner changed: the definition generation advances
\* and all evidence bound to the old generation is invalidated.
AdvanceDefinition(q, d) ==
  /\ def' = [def EXCEPT ![q] = d]
  /\ flags' = [flags EXCEPT ![q] = @ \cup {"stale"}]
  /\ occ' = [occ EXCEPT ![q] = invalidate_occupancy(@, "stale_generation")]
  /\ applied' = [applied EXCEPT ![q].known = FALSE]
  /\ UNCHANGED <<now, epoch, closed, healthy, grants, topologyVars, backends, fenceTokens,
                 lifecycle, fence, drain, overflowed>>

-----------------------------------------------------------------------------
(* Queue mutations: apply_declare_locked and apply_kind_locked             *)

\* Queue identities are handed out in order and names are never recycled.
DeclareQueue(q, p, e, n, cls, pool, maximum) ==
  /\ "declare_queue" \in Workload
  /\ ResourceAuthorizes(p, "declare_queue", e)
  /\ \A other \in Queues : Declared(other) => other < q /\ def[other].name # n
  /\ \A other \in 1..(q - 1) : Declared(other)
  /\ BindingIsExact(cls)
  /\ pool.id \in Pools /\ pool.generation = poolGen[pool.id]
  /\ lifecycle' = [lifecycle EXCEPT ![q] = "declared"]
  /\ def' = [def EXCEPT ![q] = [name |-> n, cls |-> cls, pool |-> pool, maximum |-> maximum,
                                owner |-> p, generation |-> 1]]
  /\ UNCHANGED <<now, epoch, closed, healthy, grants, topologyVars, backends, fenceTokens,
                 flags, fence, occ, drain, applied, overflowed>>

ValidateQueue(q, p, g, e) ==
  /\ Admitted(q, p, "validate_queue", g, e)
  /\ lifecycle[q] # "validated"
  /\ check_transition(lifecycle[q], "validated")
  /\ BindingIsExact(def[q].cls)
  /\ lifecycle' = [lifecycle EXCEPT ![q] = "validated"]
  /\ UNCHANGED <<now, epoch, closed, healthy, grants, topologyVars, backends, fenceTokens,
                 flags, def, fence, occ, drain, applied, overflowed>>

\* Also reactivates a quiesced queue; the drain state is left as it was.
ActivateQueue(q, p, g, e) ==
  /\ Admitted(q, p, "activate_queue", g, e)
  /\ lifecycle[q] # "active"
  /\ check_transition(lifecycle[q], "active")
  /\ BindingIsExact(def[q].cls)
  /\ lifecycle' = [lifecycle EXCEPT ![q] = "active"]
  /\ UNCHANGED <<now, epoch, closed, healthy, grants, topologyVars, backends, fenceTokens,
                 flags, def, fence, occ, drain, applied, overflowed>>

RebindClass(q, p, g, e, cls) ==
  /\ Admitted(q, p, "rebind_class", g, e)
  /\ BindingIsExact(cls)
  /\ def[q].cls # cls
  /\ CanAdvance(q)
  /\ AdvanceDefinition(q, [def[q] EXCEPT !.cls = cls, !.generation = @ + 1])

SetThresholds(q, p, g, e, maximum) ==
  /\ Admitted(q, p, "set_thresholds", g, e)
  /\ def[q].maximum # maximum
  /\ CanAdvance(q)
  /\ AdvanceDefinition(q, [def[q] EXCEPT !.maximum = maximum, !.generation = @ + 1])

TransferOwnership(q, p, g, e, owner) ==
  /\ Admitted(q, p, "transfer_ownership", g, e)
  /\ def[q].owner # owner
  /\ CanAdvance(q)
  /\ AdvanceDefinition(q, [def[q] EXCEPT !.owner = owner, !.generation = @ + 1])

\* Mutant: off by one against the configured maximum.
Overflows_late(d, level) == d.maximum # 0 /\ level > d.maximum + 1

Overflows(d, level) == d.maximum # 0 /\ level > d.maximum

\* A sample is accepted in every lifecycle state that authorize() lets through,
\* QUIESCED included.  With a skew of 0 no sample is refused as being ahead of
\* the clock.  While a drain is in progress the sample also sets or clears its
\* zero-occupancy evidence.
IngestOccupancy(q, p, g, e, s) ==
  /\ Admitted(q, p, "ingest_occupancy", g, e)
  /\ s.generation = def[q].generation
  /\ s.epoch = epoch
  /\ MaxSkew > 0 => s.observed_at <= now + MaxSkew
  /\ occ[q].present /\ occ[q].life = s.life => s.sequence > occ[q].sequence
  /\ occ' = [occ EXCEPT ![q] = [present |-> TRUE, level |-> s.level, observed_at |-> s.observed_at,
                                sequence |-> s.sequence, epoch |-> s.epoch, life |-> s.life,
                                generation |-> s.generation, freshness |-> "fresh"]]
  /\ flags' = [flags EXCEPT ![q] = @ \ {"stale"}]
  /\ drain' = IF in_progress(drain[q])
              THEN [drain EXCEPT ![q].zero_observed = (s.level = 0)]
              ELSE drain
  /\ overflowed' = [overflowed EXCEPT ![q] = @ \/ Overflows(def[q], s.level)]
  /\ UNCHANGED <<now, epoch, closed, healthy, grants, topologyVars, backends, fenceTokens,
                 lifecycle, def, fence, applied>>

\* Mutant: only an idle drain state is reset.
StartedDrain_if_idle(d) ==
  IF d.phase = "idle" THEN [d EXCEPT !.phase = "requested", !.requested_at = now] ELSE d

StartedDrain(d) == [NoDrain EXCEPT !.phase = "requested", !.requested_at = now]

RequestDrain(q, p, g, e) ==
  /\ Admitted(q, p, "request_drain", g, e)
  /\ lifecycle[q] # "draining"
  /\ check_transition(lifecycle[q], "draining")
  /\ lifecycle' = [lifecycle EXCEPT ![q] = "draining"]
  /\ drain' = [drain EXCEPT ![q] = StartedDrain(@)]
  /\ UNCHANGED <<now, epoch, closed, healthy, grants, topologyVars, backends, fenceTokens,
                 flags, def, fence, occ, applied, overflowed>>

CancelDrain(q, p, g, e) ==
  /\ Admitted(q, p, "cancel_drain", g, e)
  /\ lifecycle[q] = "draining"
  /\ lifecycle' = [lifecycle EXCEPT ![q] = "active"]
  /\ drain' = [drain EXCEPT ![q] = NoDrain]
  /\ UNCHANGED <<now, epoch, closed, healthy, grants, topologyVars, backends, fenceTokens,
                 flags, def, fence, occ, applied, overflowed>>

\* A backend or an epoch of 0 in the evidence is absent and not checked here.
SubmitDrainEvidence(q, p, g, e, v) ==
  /\ Admitted(q, p, "submit_drain_evidence", g, e)
  /\ in_progress(drain[q])
  /\ v.records \in 1..MaxDrainRecords
  /\ v.backend # 0 => /\ find_live_backend(v.backend) # 0
                      /\ find_live_backend(v.backend) = v.incarnation
  /\ v.epoch # 0 => v.epoch = epoch
  /\ drain' = [drain EXCEPT ![q] =
       [phase |-> "evidence_pending", requested_at |-> drain[q].requested_at,
        records |-> v.records, request_accepted |-> v.request_accepted,
        reported_drained |-> v.reported_drained, backend |-> v.backend,
        incarnation |-> v.incarnation, epoch |-> v.epoch, zero_observed |-> v.zero_observed,
        revalidated |-> TRUE]]
  /\ UNCHANGED <<now, epoch, closed, healthy, grants, topologyVars, backends, fenceTokens,
                 lifecycle, flags, def, fence, occ, applied, overflowed>>

QuiesceQueue(q, p, g, e) ==
  LET backend == drain[q].backend
      live    == find_live_backend(backend)
  IN
  /\ Admitted(q, p, "quiesce_queue", g, e)
  /\ lifecycle[q] # "quiesced"
  /\ check_transition(lifecycle[q], "quiesced")
  /\ assess_drain(drain[q], occ[q], live, epoch, MaxAge, now)
  /\ RequireAck => verify_backend_applied(applied[q], backend, live, epoch, def[q].generation,
                                          def[q].cls)
  /\ lifecycle' = [lifecycle EXCEPT ![q] = "quiesced"]
  /\ drain' = [drain EXCEPT ![q].phase = "completed"]
  /\ UNCHANGED <<now, epoch, closed, healthy, grants, topologyVars, backends, fenceTokens,
                 flags, def, fence, occ, applied, overflowed>>

\* The token is taken from the counter while working on the copy of the record.
FenceQueue(q, p, g, e) ==
  /\ Admitted(q, p, "fence_queue", g, e)
  /\ ~fence[q].fenced
  /\ fenceTokens < MaxToken
  /\ fenceTokens' = fenceTokens + 1
  /\ fence' = [fence EXCEPT ![q] = [fenced |-> TRUE, token |-> fenceTokens + 1, epoch |-> epoch]]
  /\ flags' = [flags EXCEPT ![q] = @ \cup {"fenced"}]
  /\ UNCHANGED <<now, epoch, closed, healthy, grants, topologyVars, backends, lifecycle, def, occ,
                 drain, applied, overflowed>>

\* The journal commit of a fence failed: the copy is dropped, the token is spent.
\* Every other durable mutation whose commit fails leaves this state alone.
FenceNotDurable(q, p, g, e) ==
  /\ JournalFaults
  /\ Admitted(q, p, "fence_queue", g, e)
  /\ ~fence[q].fenced
  /\ fenceTokens < MaxToken
  /\ fenceTokens' = fenceTokens + 1
  /\ UNCHANGED <<now, epoch, closed, healthy, grants, topologyVars, backends, queueVars>>

UnfenceQueue(q, p, g, e) ==
  /\ Admitted(q, p, "unfence_queue", g, e)
  /\ fence[q].fenced
  /\ fence' = [fence EXCEPT ![q].fenced = FALSE]
  /\ flags' = [flags EXCEPT ![q] = @ \ {"fenced"}]
  /\ UNCHANGED <<now, epoch, closed, healthy, grants, topologyVars, backends, fenceTokens,
                 lifecycle, def, occ, drain, applied, overflowed>>

FailQueue(q, p, g, e) ==
  /\ Admitted(q, p, "fail_queue", g, e)
  /\ lifecycle[q] # "failed"
  /\ check_transition(lifecycle[q], "failed")
  /\ lifecycle' = [lifecycle EXCEPT ![q] = "failed"]
  /\ UNCHANGED <<now, epoch, closed, healthy, grants, topologyVars, backends, fenceTokens,
                 flags, def, fence, occ, drain, applied, overflowed>>

RetireQueue(q, p, g, e) ==
  /\ Admitted(q, p, "retire_queue", g, e)
  /\ lifecycle[q] \notin {"retired", "active"}
  /\ check_transition(lifecycle[q], "retired")
  /\ lifecycle' = [lifecycle EXCEPT ![q] = "retired"]
  /\ occ' = [occ EXCEPT ![q] = NoOccupancy]
  /\ drain' = [drain EXCEPT ![q] = NoDrain]
  /\ flags' = [flags EXCEPT ![q] = {}]
  /\ UNCHANGED <<now, epoch, closed, healthy, grants, topologyVars, backends, fenceTokens,
                 def, fence, applied, overflowed>>

AcknowledgeBackend(q, p, g, e, a) ==
  /\ Admitted(q, p, "acknowledge_backend", g, e)
  /\ verify_backend_applied(a, a.backend, find_live_backend(a.backend), epoch,
                            def[q].generation, def[q].cls)
  /\ applied' = [applied EXCEPT ![q] = a]
  /\ flags' = [flags EXCEPT ![q] = @ \ {"stale"}]
  /\ UNCHANGED <<now, epoch, closed, healthy, grants, topologyVars, backends, fenceTokens,
                 lifecycle, def, fence, occ, drain, overflowed>>

-----------------------------------------------------------------------------
(* Topology, authority and the backend registry                            *)

GrantCapabilities(p, e, grantee, capabilities) ==
  /\ "grant_capabilities" \in Workload
  /\ ResourceAuthorizes(p, "admin", e)
  /\ grants' = [grants EXCEPT ![grantee] = capabilities]
  /\ UNCHANGED <<now, epoch, closed, healthy, topologyVars, backends, fenceTokens, queueVars>>

\* Re-declaring a class supersedes its generation, and every queue bound to an
\* older generation of it becomes stale.
DeclareClass(p, e, c) ==
  LET superseded == {q \in Queues : Declared(q) /\ def[q].cls.id = c
                                     /\ def[q].cls.generation # classGen'[c]}
  IN
  /\ "declare_class" \in Workload
  /\ ResourceAuthorizes(p, "declare_topology", e)
  /\ classGen[c] < MaxGeneration
  /\ classGen' = [classGen EXCEPT ![c] = @ + 1]
  /\ flags' = [q \in Queues |-> IF q \in superseded THEN flags[q] \cup {"stale"} ELSE flags[q]]
  /\ occ' = [q \in Queues |-> IF q \in superseded
                               THEN invalidate_occupancy(occ[q], "stale_generation")
                               ELSE occ[q]]
  /\ UNCHANGED <<now, epoch, closed, healthy, grants, poolGen, backends, fenceTokens,
                 lifecycle, def, fence, drain, applied, overflowed>>

DeclarePool(p, e, c) ==
  /\ "declare_pool" \in Workload
  /\ ResourceAuthorizes(p, "declare_topology", e)
  /\ poolGen[c] < MaxGeneration
  /\ poolGen' = [poolGen EXCEPT ![c] = @ + 1]
  /\ UNCHANGED <<now, epoch, closed, healthy, grants, classGen, backends, fenceTokens, queueVars>>

\* Mints the next backend identity.  The entry is published before it is
\* journalled, so it stays live when the sync fails.
RegisterBackend(p, e, b, incarnation) ==
  /\ "register_backend" \in Workload
  /\ ResourceAuthorizes(p, "declare_topology", e)
  /\ \A other \in Backends : backends[other].incarnation = 0 <=> other >= b
  /\ backends' = [backends EXCEPT ![b] = [incarnation |-> incarnation, alive |-> TRUE]]
  /\ healthy' \in IF JournalFaults THEN {healthy, FALSE} ELSE {healthy}
  /\ UNCHANGED <<now, epoch, closed, grants, topologyVars, fenceTokens, queueVars>>

MarkBackendDead(p, e, b, incarnation) ==
  /\ "mark_backend_dead" \in Workload
  /\ ResourceAuthorizes(p, "admin", e)
  /\ backends[b].incarnation = incarnation
  /\ backends' = [backends EXCEPT ![b].alive = FALSE]
  /\ UNCHANGED <<now, epoch, closed, healthy, grants, topologyVars, fenceTokens, queueVars>>

\* The sync of a grant, a topology record or an epoch failed: nothing is
\* published and the fabric is no longer healthy.
SyncFails(p, e) ==
  /\ JournalFaults
  /\ \E required \in {"admin", "declare_topology"} : ResourceAuthorizes(p, required, e)
  /\ healthy' = FALSE
  /\ UNCHANGED <<now, epoch, closed, grants, topologyVars, backends, fenceTokens, queueVars>>

-----------------------------------------------------------------------------
(* Epochs, evidence, time and process life                                 *)

AdvanceEpoch(p) ==
  /\ "advance_epoch" \in Workload
  /\ ~closed /\ healthy
  /\ "admin" \in grants[p]
  /\ epoch < MaxEpoch
  /\ epoch' = epoch + 1
  /\ occ' = [q \in Queues |-> IF occ[q].present THEN invalidate_occupancy(occ[q], "stale_epoch")
                                                 ELSE occ[q]]
  /\ flags' = [q \in Queues |-> IF occ[q].present \/ applied[q].known
                                 THEN flags[q] \cup {"stale"} ELSE flags[q]]
  /\ UNCHANGED <<now, closed, healthy, grants, topologyVars, backends, fenceTokens, lifecycle, def,
                 fence, drain, applied, overflowed>>

\* Does not look at shutting_down.
InvalidateEvidence(q, p, e) ==
  /\ "invalidate_evidence" \in Workload
  /\ Declared(q)
  /\ authorize(grants[p], "admin", e, epoch, flags[q], lifecycle[q])
  /\ occ' = [occ EXCEPT ![q] = IF @.present THEN invalidate_occupancy(@, "stale_backend") ELSE @]
  /\ flags' = [flags EXCEPT ![q] = @ \cup {"stale"}]
  /\ UNCHANGED <<now, epoch, closed, healthy, grants, topologyVars, backends, fenceTokens,
                 lifecycle, def, fence, drain, applied, overflowed>>

RefreshFreshness ==
  /\ "refresh_freshness" \in Workload
  /\ ~closed
  /\ occ' = [q \in Queues |->
       [occ[q] EXCEPT !.freshness =
          classify_freshness(occ[q], now, MaxAge, MaxSkew, def[q].generation)]]
  /\ UNCHANGED <<now, epoch, closed, healthy, grants, topologyVars, backends, fenceTokens,
                 lifecycle, flags, def, fence, drain, applied, overflowed>>

Shutdown ==
  /\ "shutdown" \in Workload
  /\ ~closed
  /\ closed' = TRUE
  /\ UNCHANGED <<now, epoch, healthy, grants, topologyVars, backends, fenceTokens, queueVars>>

\* Mutant: a drain that was in progress is forgotten.
RestoredDrain_forgotten(d) ==
  IF d.phase = "completed" THEN d ELSE [d EXCEPT !.phase = "idle"]

\* Restored evidence has to be submitted again, a completed drain included.
RestoredDrain(d) ==
  IF d.phase = "idle" THEN d
  ELSE [d EXCEPT !.revalidated = FALSE,
                 !.phase = IF @ = "completed" THEN "evidence_pending" ELSE @]

\* Mutant: the counter starts again from nothing.
RestoredFenceTokens_reset(tokens) == tokens = 0

\* rebuild_indexes_locked resumes from the largest token any queue carries.
RestoredFenceTokens(tokens) ==
  /\ tokens \in {0} \cup {fence[q].token : q \in Queues}
  /\ \A q \in Queues : fence[q].token <= tokens

\* compact() followed by a crash and recover(): the snapshot is restored, every
\* queue is stale, no backend is live and the epoch has advanced.  The steady
\* clock of the new process continues, or starts again after a reboot.  There is
\* nothing behind the snapshot to replay; the replay of requests, which runs them
\* again and does not give back the same state, is in Recovery.
Restart ==
  /\ "restart" \in Workload
  /\ ~closed
  /\ epoch < MaxEpoch
  /\ now' \in {0, now}
  /\ epoch' = epoch + 1
  /\ closed' = FALSE /\ healthy' = TRUE
  /\ backends' = [b \in Backends |-> [backends[b] EXCEPT !.alive = FALSE]]
  /\ \E tokens \in 0..fenceTokens : RestoredFenceTokens(tokens) /\ fenceTokens' = tokens
  /\ occ' = [q \in Queues |-> IF occ[q].present THEN invalidate_occupancy(occ[q], "stale_restart")
                                                 ELSE occ[q]]
  /\ drain' = [q \in Queues |-> RestoredDrain(drain[q])]
  /\ flags' = [q \in Queues |-> IF Declared(q) THEN flags[q] \cup {"stale"} ELSE flags[q]]
  /\ UNCHANGED <<grants, topologyVars, lifecycle, def, fence, applied, overflowed>>

\* The clock is external.
Tick ==
  /\ now < MaxTime
  /\ now' = now + 1
  /\ UNCHANGED <<epoch, closed, healthy, grants, topologyVars, backends, fenceTokens, queueVars>>

-----------------------------------------------------------------------------

Samples ==
  [level : Levels, observed_at : 0..MaxTime, sequence : 1..MaxSample, epoch : Epochs,
   life : Lives, generation : Generations]

Acknowledgements ==
  [known : BOOLEAN, backend : Backends, incarnation : Incarnations, epoch : Epochs,
   generation : Generations, cls : [id : Classes, generation : Generations]]

Mutate(q, p, g, e) ==
  \/ ValidateQueue(q, p, g, e)
  \/ ActivateQueue(q, p, g, e)
  \/ \E cls \in [id : Classes, generation : Generations] : RebindClass(q, p, g, e, cls)
  \/ \E maximum \in Maxima : SetThresholds(q, p, g, e, maximum)
  \/ \E owner \in Principals : TransferOwnership(q, p, g, e, owner)
  \/ \E s \in Samples : IngestOccupancy(q, p, g, e, s)
  \/ RequestDrain(q, p, g, e)
  \/ CancelDrain(q, p, g, e)
  \/ \E v \in Evidence : SubmitDrainEvidence(q, p, g, e, v)
  \/ QuiesceQueue(q, p, g, e)
  \/ FenceQueue(q, p, g, e)
  \/ FenceNotDurable(q, p, g, e)
  \/ UnfenceQueue(q, p, g, e)
  \/ FailQueue(q, p, g, e)
  \/ RetireQueue(q, p, g, e)
  \/ \E a \in Acknowledgements : AcknowledgeBackend(q, p, g, e, a)

Govern(p, e) ==
  \/ \E q \in Queues, n \in Names, cls \in [id : Classes, generation : Generations],
        pool \in [id : Pools, generation : Generations], maximum \in Maxima :
       DeclareQueue(q, p, e, n, cls, pool, maximum)
  \/ \E grantee \in Principals, capabilities \in CapabilitySets :
       GrantCapabilities(p, e, grantee, capabilities)
  \/ \E c \in Classes : DeclareClass(p, e, c)
  \/ \E c \in Pools : DeclarePool(p, e, c)
  \/ \E b \in Backends, i \in Incarnations : RegisterBackend(p, e, b, i)
  \/ \E b \in Backends, i \in Incarnations : MarkBackendDead(p, e, b, i)
  \/ SyncFails(p, e)
  \/ \E q \in Queues : InvalidateEvidence(q, p, e)

Next ==
  \/ \E q \in Queues, p \in Principals, g \in Generations, e \in Epochs : Mutate(q, p, g, e)
  \/ \E p \in Principals, e \in Epochs : Govern(p, e)
  \/ \E p \in Principals : AdvanceEpoch(p)
  \/ RefreshFreshness
  \/ Shutdown
  \/ Restart
  \/ Tick

Spec == Init /\ [][Next]_vars

-----------------------------------------------------------------------------
(* Properties *)

\* Every variable has its type, and no counter passes the bound at which the
\* code refuses to advance it (Generation::next, Epoch::next).
TypeOK ==
  /\ now \in Nat
  /\ epoch \in Epochs
  /\ closed \in BOOLEAN /\ healthy \in BOOLEAN
  /\ grants \in [Principals -> SUBSET Capabilities]
  /\ classGen \in [Classes -> Generations] /\ poolGen \in [Pools -> Generations]
  /\ backends \in [Backends -> [incarnation : Nat, alive : BOOLEAN]]
  /\ fenceTokens \in Nat
  /\ lifecycle \in [Queues -> Lifecycles \cup {"undeclared"}]
  /\ flags \in [Queues -> SUBSET Applicabilities]
  /\ def \in [Queues -> Definition]
  /\ \A q \in Queues : def[q].generation \in 0..MaxGeneration
  /\ fence \in [Queues -> [fenced : BOOLEAN, token : Nat, epoch : Nat]]
  /\ occ \in [Queues -> Occupancy]
  /\ drain \in [Queues -> DrainState]
  /\ applied \in [Queues -> Acknowledgement]
  /\ overflowed \in [Queues -> BOOLEAN]

\* INV-FENCE: the fence record and the FENCED flag, which are written and
\* cleared in different places (retire_queue resets every flag), never disagree,
\* and a queue that left service for good is not fenced.
FenceConsistent ==
  \A q \in Queues :
    /\ fence[q].fenced <=> "fenced" \in flags[q]
    /\ fence[q].fenced => lifecycle[q] \notin {"undeclared", "retired", "failed"}

\* A fence token names one fence: no two queues ever hold the same token, although
\* fence_tokens is not journalled, is spent by fences that fail to become durable
\* and is rebuilt from the queue records after a restart.
FenceTokensDistinct ==
  \A q, r \in Queues : q # r /\ fence[q].token # 0 => fence[q].token # fence[r].token

\* Evidence of a queue whose class binding is current counts as fresh only if it
\* was observed at the current definition generation and in the current epoch.
\* Under an inexact binding it may be of an older epoch: declaring the class again
\* overwrites the sticky reason (fabric.cpp:430) by one the next refresh clears.
FreshEvidence ==
  \A q \in Queues :
    occ[q].present /\ occ[q].freshness = "fresh" =>
      /\ occ[q].generation = def[q].generation
      /\ BindingIsExact(def[q].cls) => occ[q].epoch = epoch

\* INV-OVERFLOW: fresh evidence above the maximum now configured was reported as
\* an overflow, however thresholds, bindings and epochs changed in between.
OverflowReported ==
  \A q \in Queues :
    /\ occ[q].present /\ occ[q].freshness = "fresh"
    /\ occ[q].generation = def[q].generation
    /\ def[q].maximum # 0 /\ occ[q].level > def[q].maximum
    => overflowed[q]

\* INV-BACKEND, strengthened: an acknowledgement that is still held names the
\* queue's present generation and class binding, an epoch that is not in the
\* future, and a backend registered with that very incarnation.
AckBound ==
  \A q \in Queues :
    applied[q].known =>
      /\ applied[q].generation = def[q].generation
      /\ applied[q].cls = def[q].cls
      /\ applied[q].epoch <= epoch
      /\ applied[q].backend \in Backends
      /\ backends[applied[q].backend].incarnation = applied[q].incarnation

\* INV-RETIRE, strengthened: a retired queue carries neither occupancy nor drain
\* state, whatever invalidations, refreshes and restarts follow.
RetiredBare ==
  \A q \in Queues : lifecycle[q] = "retired" => occ[q] = NoOccupancy /\ drain[q] = NoDrain

\* A DRAINING queue has a drain in progress, never one already completed, so
\* assess_drain cannot take its "drain-already-proven-complete" shortcut.
DrainInProgress ==
  \A q \in Queues : lifecycle[q] = "draining" => in_progress(drain[q])

\* README invariant 5: a queue becomes QUIESCED only on an accepted request and a
\* drained report of the live backend at the current epoch, and a fresh zero
\* observation not older than the request; where the policy asks for it, the same
\* backend has acknowledged the present definition.
QuiescesOnProof ==
  \A q \in Queues :
    lifecycle[q] # "quiesced" /\ lifecycle'[q] = "quiesced" =>
      LET b == drain[q].backend IN
      /\ drain[q].request_accepted /\ drain[q].reported_drained
      /\ drain[q].epoch = epoch
      /\ b \in Backends
      /\ backends[b].alive
      /\ backends[b].incarnation = drain[q].incarnation
      /\ occ[q].present /\ occ[q].freshness = "fresh" /\ occ[q].level = 0
      /\ occ[q].observed_at >= drain[q].requested_at
      /\ RequireAck => applied[q].known /\ applied[q].backend = b /\ applied[q].epoch = epoch

\* Every step that quiesces a queue (quiesce_queue, over all interleavings) does so
\* on that proof.
QuiesceProven == [][QuiescesOnProof]_vars

\* README invariant 3: while a queue stays fenced nothing moves it, redefines it
\* or brings it new evidence, and the fence itself keeps its token.
KeepsFrozen ==
  \A q \in Queues :
    fence[q].fenced /\ fence'[q].fenced =>
      /\ lifecycle'[q] = lifecycle[q]
      /\ def'[q] = def[q]
      /\ fence'[q] = fence[q]
      /\ applied'[q] = applied[q]
      /\ occ'[q].present = occ[q].present
      /\ occ'[q].sequence = occ[q].sequence /\ occ'[q].level = occ[q].level

\* No operation of a running fabric breaks the freeze, in the life in which the
\* queue was fenced or in a later one: authorize() lets only unfence_queue and
\* admin through a fence.  The step from one life to the next is left out: a
\* restart that replays the fence mints it again, with a new token and epoch
\* (fabric_kinds.cpp:361-362), which Restart, having compacted, does not show.
FencedFrozen == [][~Restart => KeepsFrozen]_vars

\* The lifecycle, fence and generation of every queue behave as QueueLifecycle
\* promises to an observer who sees nothing else.
Lifecycle == INSTANCE QueueLifecycle WITH
  fenced <- [q \in Queues |-> fence[q].fenced],
  generation <- [q \in Queues |-> def[q].generation]

LifecycleRefinement == Lifecycle!Spec

=============================================================================
