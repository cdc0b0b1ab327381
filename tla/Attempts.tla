------------------------------ MODULE Attempts ------------------------------
(***************************************************************************)
(* Idempotency of the mutation path: the bounded attempt memo of a queue,  *)
(* the provenance tracker shared by all queues, and the reservations of    *)
(* two-phase backend applies, which go through the same path.              *)
(*                                                                         *)
(* What a mutation does to the rest of a queue is the subject of           *)
(* Governance; here it is applied, with or without a new definition        *)
(* generation, or refused.  Whether the principal is authorized is a       *)
(* choice of the environment.  The content of a request is its body and    *)
(* its expected generation: what fingerprint() hashes, which leaves out    *)
(* attempt, provenance and epoch.  A replay answers from the memo and      *)
(* changes nothing, so it has no action of its own.                        *)
(***************************************************************************)
EXTENDS AttemptMemo, FiniteSets

CONSTANTS
  MaxQueues,        \* queue identities
  Publishers, Boots, Bodies,
  MaxIncarnation, MaxSequence, MaxGeneration, MaxEpoch, MaxLife,   \* bounds
  MaxPublishers,    \* capacity of the provenance tracker
  MaxPending,       \* limits.max_pending_attempts
  JournalFaults     \* whether a journal sync may fail

VARIABLES
  epoch,
  life,        \* coordinator_incarnation, one more after every restart
  closed,      \* shutting_down
  healthy,
  generation,  \* def.generation of each queue, 0 before it is declared
  memo,        \* QueueRecord::memo
  tracker,     \* ProvenanceTracker::states_, incarnation 0 when absent
  plans,       \* reservations of backend applies
  pending,     \* attempts of the reservations, in order
  accepted,    \* history: how often each provenance identity was accepted
  effects      \* history: what was applied to which queue under which attempt

attemptVars == <<memo, tracker, generation, accepted, effects>>
planVars == <<plans, pending>>
vars == <<epoch, life, closed, healthy, attemptVars, planVars>>

-----------------------------------------------------------------------------

Queues       == 1..MaxQueues
Incarnations == 1..MaxIncarnation
SequenceNos  == 1..MaxSequence
Generations  == 1..MaxGeneration
Epochs       == 1..MaxEpoch
Lives        == 1..MaxLife

ASSUME AttemptsAssumption ==
  /\ Bodies \subseteq Nat \ {0}
  /\ MaxQueues \in Nat /\ MaxIncarnation \in Nat /\ MaxSequence \in Nat
  /\ MaxGeneration \in Nat \ {0} /\ MaxEpoch \in Nat \ {0} /\ MaxLife \in Nat \ {0}
  /\ MaxPublishers \in Nat /\ MaxPending \in Nat
  /\ JournalFaults \in BOOLEAN

Provenance ==
  [publisher : Publishers, incarnation : Incarnations, boot : Boots, epoch : Epochs,
   sequence : SequenceNos]

\* AttemptId names a publisher and a sequence, not the publisher's incarnation.
AttemptId == [publisher : Publishers, counter : SequenceNos]

Content == [body : Bodies, generation : Generations]

\* The content of a declaration, which no mutation of a queue shares.
Declaration == [body |-> 0, generation |-> 0]

Fingerprints == Content \cup {Declaration}

\* A provenance record as far as it identifies one act of one publisher, within
\* one life of the fabric.
Identity ==
  [publisher : Publishers, incarnation : Incarnations, sequence : SequenceNos, life : Lives]

NoState == [incarnation |-> 0, boot |-> 0, epoch |-> 0, sequence |-> 0]

\* A request as make_request builds it.
Request(q, p, attempt, content) ==
  [queue |-> q, provenance |-> p, attempt |-> attempt, content |-> content]

OwnAttempt(p) == [publisher |-> p.publisher, counter |-> p.sequence]

-----------------------------------------------------------------------------

Init ==
  /\ epoch = 1 /\ life = 1 /\ closed = FALSE /\ healthy = TRUE
  /\ generation = [q \in Queues |-> 0]
  /\ memo = [q \in Queues |-> << >>]
  /\ tracker = [p \in Publishers |-> NoState]
  /\ plans = {} /\ pending = << >>
  /\ accepted = [id \in Identity |-> 0]
  /\ effects = {}

-----------------------------------------------------------------------------
(* ProvenanceTracker (provenance.cpp)                                      *)

\* Mutant: an equal sequence is not a duplicate.
Accepts_equal_sequence(p) ==
  LET s == tracker[p.publisher] IN
  \/ s.incarnation = 0
  \/ p.incarnation > s.incarnation
  \/ /\ p.incarnation = s.incarnation
     /\ p.boot = s.boot /\ p.epoch >= s.epoch /\ p.sequence >= s.sequence

\* classify() = accepted.
Accepts(p) ==
  LET s == tracker[p.publisher] IN
  \/ /\ s.incarnation = 0
     /\ Cardinality({x \in Publishers : tracker[x].incarnation # 0}) < MaxPublishers
  \/ s.incarnation # 0 /\ p.incarnation > s.incarnation
  \/ /\ s.incarnation # 0 /\ p.incarnation = s.incarnation
     /\ p.boot = s.boot
     /\ p.epoch >= s.epoch
     /\ p.sequence > s.sequence

\* observe() of a provenance record that classify() accepts.
Observe(p) ==
  tracker' = [tracker EXCEPT ![p.publisher] =
    [incarnation |-> p.incarnation, boot |-> p.boot, epoch |-> p.epoch, sequence |-> p.sequence]]

Count(p) ==
  accepted' = [accepted EXCEPT ![[publisher |-> p.publisher, incarnation |-> p.incarnation,
                                  sequence |-> p.sequence, life |-> life]] = @ + 1]

-----------------------------------------------------------------------------
(* Entries of the attempt memo *)

Memo(r, ok) == [attempt |-> r.attempt, fingerprint |-> r.content, ok |-> ok]

record_rejection(r) == memo' = [memo EXCEPT ![r.queue] = remember(@, Memo(r, FALSE))]

-----------------------------------------------------------------------------
(* The stages of apply_existing_locked                                     *)

\* Stage 1: the attempt is known with other content.  The rejection is
\* remembered over the entry it conflicts with.
Conflicts(r) ==
  /\ \E i \in find_attempt(memo[r.queue], r.attempt) : memo[r.queue][i].fingerprint # r.content
  /\ record_rejection(r)
  /\ UNCHANGED <<tracker, generation, accepted, effects>>

\* Stage 1: the attempt is known with this content and had this outcome.
Replays(r, ok) ==
  \E i \in find_attempt(memo[r.queue], r.attempt) :
    memo[r.queue][i].fingerprint = r.content /\ memo[r.queue][i].ok = ok

\* Stages 2 and 3: authority, or provenance, refuses before the tracker moves.
RefusesEarly(r) ==
  /\ find_attempt(memo[r.queue], r.attempt) = {}
  /\ record_rejection(r)
  /\ UNCHANGED <<tracker, generation, accepted, effects>>

\* Stages 4 and 5: the generation, the epoch, the kind or the journal refuses
\* after the provenance was observed.
RefusesLate(r) ==
  /\ find_attempt(memo[r.queue], r.attempt) = {}
  /\ Accepts(r.provenance)
  /\ Observe(r.provenance)
  /\ record_rejection(r)
  /\ UNCHANGED <<generation, accepted, effects>>

\* Mutant: generation exhaustion is not detected.
CanAdvance_unchecked(q) == TRUE

\* Generation::next() refuses to wrap.
CanAdvance(q) == generation[q] < MaxGeneration

\* Mutant: the memo entry is written before the mutation is applied and the
\* effect is lost.
Applies_memo_only(r, advances) ==
  /\ find_attempt(memo[r.queue], r.attempt) = {}
  /\ Accepts(r.provenance)
  /\ Observe(r.provenance) /\ Count(r.provenance)
  /\ memo' = [memo EXCEPT ![r.queue] = remember(@, Memo(r, TRUE))]
  /\ UNCHANGED <<generation, effects>>

Applies(r, advances) ==
  /\ find_attempt(memo[r.queue], r.attempt) = {}
  /\ Accepts(r.provenance)
  /\ r.content.generation = generation[r.queue]
  /\ advances => CanAdvance(r.queue)
  /\ Observe(r.provenance) /\ Count(r.provenance)
  /\ generation' = [generation EXCEPT ![r.queue] = IF advances THEN @ + 1 ELSE @]
  /\ memo' = [memo EXCEPT ![r.queue] = remember(@, Memo(r, TRUE))]
  /\ effects' = effects \cup
       {[queue |-> r.queue, attempt |-> r.attempt, content |-> r.content]}

-----------------------------------------------------------------------------
(* Operations *)

\* apply_declare_locked: the next identity; the record starts with the memo of
\* its own declaration.  A refused or repeated declaration changes nothing here.
DeclareQueue(q, p) ==
  /\ ~closed
  /\ \A other \in Queues : generation[other] = 0 <=> other >= q
  /\ Accepts(p)
  /\ Observe(p) /\ Count(p)
  /\ generation' = [generation EXCEPT ![q] = 1]
  /\ memo' = [memo EXCEPT ![q] =
               remember(<< >>, Memo(Request(q, p, OwnAttempt(p), Declaration), TRUE))]
  /\ effects' = effects \cup {[queue |-> q, attempt |-> OwnAttempt(p), content |-> Declaration]}
  /\ UNCHANGED <<epoch, life, closed, healthy, planVars>>

\* apply() of a mutation of a declared queue, presented at epoch e.
SubmitMutation(q, p, content, e, advances) ==
  LET r == Request(q, p, OwnAttempt(p), content) IN
  /\ ~closed
  /\ generation[q] # 0
  /\ \/ Conflicts(r)
     \/ RefusesEarly(r)
     \/ RefusesLate(r)
     \/ e = epoch /\ Applies(r, advances)
  /\ UNCHANGED <<epoch, life, closed, healthy, planVars>>

\* The provenance is observed before the reservation is journalled, so a failed
\* sync has used it up.
PlanBackendApply(q, p, g) ==
  LET plan == [attempt |-> OwnAttempt(p), queue |-> q, generation |-> g] IN
  /\ ~closed /\ healthy
  /\ generation[q] # 0 /\ g = generation[q]
  /\ Cardinality(plans) < MaxPending
  /\ Accepts(p)
  /\ \A other \in plans : other.attempt # plan.attempt
  /\ Observe(p)
  /\ \/ /\ plans' = plans \cup {plan}
        /\ LET grown == Append(pending, plan.attempt) IN
           pending' = IF Len(grown) > MaxPending THEN Tail(grown) ELSE grown
        /\ Count(p)
        /\ UNCHANGED healthy
     \/ /\ JournalFaults
        /\ healthy' \in {healthy, FALSE}
        /\ UNCHANGED <<planVars, accepted>>
  /\ UNCHANGED <<epoch, life, closed, generation, memo, effects>>

\* Mutant: the reservation is dropped and its pending entry forgotten.
Release_plan_only(plan) ==
  /\ plans' = plans \ {plan}
  /\ UNCHANGED pending

\* The reservation is dropped, with its first pending entry.
Release(plan) ==
  /\ plans' = plans \ {plan}
  /\ pending' = IF \E i \in DOMAIN pending : pending[i] = plan.attempt
                THEN LET i == CHOOSE i \in DOMAIN pending :
                                /\ pending[i] = plan.attempt
                                /\ \A j \in 1..(i - 1) : pending[j] # plan.attempt
                     IN SubSeq(pending, 1, i - 1) \o SubSeq(pending, i + 1, Len(pending))
                ELSE pending

\* The acknowledgement goes through apply_existing_locked under the attempt of
\* the plan and a provenance of its own.  The reservation survives a refusal.
CommitBackendApply(plan, p, body) ==
  LET r == Request(plan.queue, p, plan.attempt, [body |-> body, generation |-> plan.generation]) IN
  /\ ~closed
  /\ plan \in plans
  /\ generation[plan.queue] = plan.generation
  /\ \/ /\ Conflicts(r) \/ RefusesEarly(r) \/ RefusesLate(r)
        /\ UNCHANGED planVars
     \/ /\ Replays(r, TRUE)
        /\ Release(plan)
        /\ UNCHANGED attemptVars
     \/ /\ Applies(r, FALSE)
        /\ Release(plan)
  /\ UNCHANGED <<epoch, life, closed, healthy>>

\* Still possible after shutdown.
AbortBackendApply(plan) ==
  /\ plan \in plans
  /\ Release(plan)
  /\ UNCHANGED <<epoch, life, closed, healthy, attemptVars>>

\* The sync of a commit or abort marker, or of a new epoch, failed.
SyncFails ==
  /\ JournalFaults
  /\ healthy' = FALSE
  /\ UNCHANGED <<epoch, life, closed, attemptVars, planVars>>

AdvanceEpoch ==
  /\ ~closed /\ healthy
  /\ epoch < MaxEpoch
  /\ epoch' = epoch + 1
  /\ UNCHANGED <<life, closed, healthy, attemptVars, planVars>>

\* The pending list is cleared, the reservations are not.
Shutdown ==
  /\ ~closed
  /\ closed' = TRUE
  /\ pending' = << >>
  /\ UNCHANGED <<epoch, life, healthy, attemptVars, plans>>

\* compact(), which refuses while anything is reserved, then a crash and
\* recover(): memos are restored, the tracker is empty.
Restart ==
  /\ ~closed
  /\ plans = {}
  /\ epoch < MaxEpoch /\ life < MaxLife
  /\ epoch' = epoch + 1 /\ life' = life + 1
  /\ closed' = FALSE /\ healthy' = TRUE
  /\ tracker' = [p \in Publishers |-> NoState]
  /\ pending' = << >>
  /\ UNCHANGED <<generation, memo, accepted, effects, plans>>

Next ==
  \/ \E q \in Queues, p \in Provenance : DeclareQueue(q, p)
  \/ \E q \in Queues, p \in Provenance, content \in Content, e \in Epochs, advances \in BOOLEAN :
       SubmitMutation(q, p, content, e, advances)
  \/ \E q \in Queues, p \in Provenance, g \in Generations : PlanBackendApply(q, p, g)
  \/ \E plan \in plans, p \in Provenance, body \in Bodies : CommitBackendApply(plan, p, body)
  \/ \E plan \in plans : AbortBackendApply(plan)
  \/ SyncFails
  \/ AdvanceEpoch
  \/ Shutdown
  \/ Restart

Spec == Init /\ [][Next]_vars

-----------------------------------------------------------------------------
(* Properties *)

MemoEntry == [attempt : AttemptId, fingerprint : Fingerprints, ok : BOOLEAN]

\* Every variable has its type.
TypeOK ==
  /\ epoch \in Epochs /\ life \in Lives
  /\ closed \in BOOLEAN /\ healthy \in BOOLEAN
  /\ generation \in [Queues -> 0..MaxGeneration]
  /\ memo \in [Queues -> Seq(MemoEntry)]
  /\ tracker \in [Publishers -> [incarnation : Nat, boot : Boots \cup {0}, epoch : Nat,
                                 sequence : Nat]]
  /\ plans \subseteq [attempt : AttemptId, queue : Queues, generation : Generations]
  /\ pending \in Seq(AttemptId)
  /\ accepted \in [Identity -> Nat]
  /\ effects \subseteq [queue : Queues, attempt : AttemptId, content : Fingerprints]

\* One act of one publisher takes effect at most once in a life of the fabric,
\* over all queues and whether as a mutation, a declaration or a reservation,
\* also after the memo has evicted it and when it is repeated with other content.
AtMostOnce == \A id \in Identity : accepted[id] <= 1

\* A memo entry that answers a repeated attempt with success stands for a
\* mutation of that queue, under that attempt and with that content, that did
\* take effect, in this life or an earlier one.
MemoSound ==
  \A q \in Queues : \A i \in DOMAIN memo[q] :
    memo[q][i].ok =>
      [queue |-> q, attempt |-> memo[q][i].attempt, content |-> memo[q][i].fingerprint]
        \in effects

\* INV-BOUND, strengthened: the memo stays within its bound and holds one entry
\* per attempt, so find_attempt, which takes the first, never meets an outdated one.
MemoBounded ==
  \A q \in Queues :
    /\ Len(memo[q]) <= MaxMemo
    /\ \A i, j \in DOMAIN memo[q] : memo[q][i].attempt = memo[q][j].attempt => i = j

\* Until shutdown the pending list names exactly the attempts reserved, each
\* once, although it is kept apart from the reservations and drops its oldest
\* entry when full.
PendingMirrorsPlans ==
  ~closed =>
    /\ {pending[i] : i \in DOMAIN pending} = {plan.attempt : plan \in plans}
    /\ Len(pending) = Cardinality(plans)
    /\ Cardinality(plans) <= MaxPending
=============================================================================
