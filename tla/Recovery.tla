----------------------------- MODULE Recovery ------------------------------
(***************************************************************************)
(* What the journal makes of the fabric's durable state: write-ahead       *)
(* commits, failed syncs, crashes at any point, compaction, and            *)
(* recover(), which scans the file and replays its commits through the     *)
(* ordinary mutation path.                                                 *)
(*                                                                         *)
(* A queue is what its durable mutations make of it: those of the          *)
(* lifecycle, set_thresholds for the ones that advance the definition,     *)
(* fence and unfence, and ingest_occupancy for those that only leave a     *)
(* memo entry.  Drain evidence, which is not durable, either completes a   *)
(* drain or is not there.  The resource is the generation of its class and *)
(* whether the publisher holds its capabilities.  Requests arrive once     *)
(* each, in order; repeats are the subject of Attempts, evidence that of   *)
(* Governance.  A sync does not fail during recovery itself.               *)
(***************************************************************************)
EXTENDS Journal, AttemptMemo, QueueRules, SequencesExt

CONSTANTS
  Names, Maxima,
  MaxQueues,      \* limits.max_queues_total
  MaxGeneration, MaxEpoch, MaxAttempt,   \* bounds
  MaxIncidents,   \* bound on failed syncs, decays, interrupted recoveries, changes of resource or epoch
  SyncFaults,     \* whether a sync may fail
  Workload        \* the operations the environment performs

VARIABLES
  mode,         \* "up", "down", or "refused" by recover()
  epoch, healthy,
  resource,     \* class generation and grant
  queues,       \* the queues by identity, while down those before the crash
  journal,
  sequence,     \* the last attempt that was presented
  incidents,    \* how many of the events that MaxIncidents bounds have happened
  recoverable,  \* history: while down, the durable states a recovery may come up with
  disturbed     \* history: the journal no longer replays to the fabric's state

historyVars == <<recoverable, disturbed>>
vars == <<mode, epoch, healthy, resource, queues, journal, sequence, incidents, historyVars>>

-----------------------------------------------------------------------------

Attempts    == 1..MaxAttempt
Generations == 1..MaxGeneration
Epochs      == 1..MaxEpoch
QueueIds    == 1..MaxQueues

ASSUME RecoveryAssumption ==
  /\ MaxQueues \in Nat /\ MaxGeneration \in Nat \ {0} /\ MaxEpoch \in Nat \ {0}
  /\ MaxAttempt \in Nat /\ MaxIncidents \in Nat
  /\ SyncFaults \in BOOLEAN

\* The lifecycle each of these kinds leads to.
Target == [validate_queue |-> "validated", activate_queue |-> "active", request_drain |-> "draining",
           cancel_drain |-> "active", quiesce_queue |-> "quiesced", fail_queue |-> "failed",
           retire_queue |-> "retired"]

LifecycleKinds == DOMAIN Target

\* The kinds that carry nothing but the queue they are about.
PlainKinds == LifecycleKinds \cup {"fence_queue", "unfence_queue", "ingest_occupancy",
                                  "submit_drain_evidence", "acknowledge_backend"}

RequestsOf(kinds, attempts) ==
  [kind : kinds \cap {"declare_queue"}, attempt : attempts, queue : {0}, generation : {0}, name : Names,
   cls : Generations, maximum : {0}]
  \cup
  [kind : kinds \cap {"set_thresholds"}, attempt : attempts, queue : QueueIds, generation : Generations,
   name : {0}, cls : {0}, maximum : Maxima]
  \cup
  [kind : kinds \cap PlainKinds, attempt : attempts, queue : QueueIds, generation : Generations,
   name : {0}, cls : {0}, maximum : {0}]

Requests == RequestsOf(PlainKinds \cup {"declare_queue", "set_thresholds"}, Attempts)

EpochState(e)    == [type |-> "epoch", epoch |-> e]
ResourceState(r) == [type |-> "resource", resource |-> r]
QueueState(q)    == [type |-> "queue", queue |-> q]
Begin(m)         == [type |-> "begin", request |-> m]
Commit(m)        == [type |-> "commit", request |-> m]

\* The first life of the fabric has opened a new file and declared a resource.
Init ==
  /\ mode = "up" /\ epoch = 1 /\ healthy = TRUE
  /\ resource = [cls |-> 1, granted |-> TRUE]
  /\ queues = << >>
  /\ journal = [entries |-> <<EpochState(1), ResourceState(resource)>>, valid |-> 2, synced |-> 2,
                header |-> 1, stored |-> 1]
  /\ sequence = 0 /\ incidents = 0
  /\ recoverable = {} /\ disturbed = FALSE

-----------------------------------------------------------------------------
(* The mutation path, on a fabric state s of queues, resource and journal  *)

\* Mutant: the name of a declared queue may be declared again.
CanDeclare_again(s, m) ==
  s.resource.granted /\ m.cls = s.resource.cls /\ Len(s.queues) < MaxQueues

\* apply_declare_locked; a repeated declaration is answered without a change.
CanDeclare(s, m) ==
  /\ s.resource.granted
  /\ \A q \in DOMAIN s.queues : s.queues[q].name # m.name
  /\ Len(s.queues) < MaxQueues
  /\ m.cls = s.resource.cls

Moves(q, m) == m.kind \in LifecycleKinds /\ q.lifecycle # Target[m.kind]

\* What the kind itself requires of the queue; to be where it leads is enough,
\* except for cancel_drain.  No backend is live while a commit is replayed, and
\* CommitBackendApply has the acknowledgements of a running fabric.
KindAllows(s, q, m) ==
  /\ Moves(q, m) =>
       /\ check_transition(q.lifecycle, Target[m.kind])
       /\ m.kind \in {"validate_queue", "activate_queue"} => q.cls = s.resource.cls
       /\ m.kind = "quiesce_queue" => q.drain \in {"proven", "completed"}
  /\ m.kind = "cancel_drain" => q.lifecycle = "draining"
  /\ m.kind = "submit_drain_evidence" => q.drain \in {"requested", "proven"}
  /\ m.kind = "set_thresholds" /\ m.maximum # q.maximum => q.generation < MaxGeneration
  /\ m.kind # "acknowledge_backend"

\* Stages 2, 4 and 5 of apply_existing_locked.
Admits(s, m) ==
  LET q == s.queues[m.queue] IN
  /\ s.resource.granted
  /\ q.fenced => m.kind = "unfence_queue"
  /\ q.lifecycle \in {"retired", "failed"} => m.kind = "retire_queue"
  /\ m.generation = q.generation
  /\ KindAllows(s, q, m)

\* "unchanged" leaves the state alone, as a refusal without a queue to record it
\* on does, and the replay of a known attempt.
Decision(s, m) ==
  IF m.kind = "declare_queue" THEN IF CanDeclare(s, m) THEN "applied" ELSE "unchanged"
  ELSE IF m.queue \notin DOMAIN s.queues THEN "unchanged"
  ELSE LET memo  == s.queues[m.queue].memo
           known == find_attempt(memo, m.attempt)
       IN IF known # {}
          THEN IF \E i \in known : memo[i].request # m THEN "rejected" ELSE "unchanged"
          ELSE IF Admits(s, m) THEN "applied" ELSE "rejected"

Entry(m, ok) == [attempt |-> m.attempt, request |-> m, ok |-> ok]

\* record_rejection; a refused declaration has no record to remember it.
Rejected(qs, m) ==
  IF m.kind = "declare_queue" THEN qs
  ELSE [qs EXCEPT ![m.queue].memo = remember(@, Entry(m, FALSE))]

Effect(q, m) ==
  [q EXCEPT
     !.lifecycle  = IF m.kind \in LifecycleKinds THEN Target[m.kind] ELSE @,
     !.drain      = CASE Moves(q, m) /\ m.kind = "request_drain" -> "requested"
                      [] Moves(q, m) /\ m.kind = "quiesce_queue" -> "completed"
                      [] Moves(q, m) /\ m.kind \in {"cancel_drain", "retire_queue"} -> "idle"
                      [] m.kind = "submit_drain_evidence" -> "proven"
                      [] OTHER -> @,
     !.maximum    = IF m.kind = "set_thresholds" THEN m.maximum ELSE @,
     !.generation = IF m.kind = "set_thresholds" /\ m.maximum # q.maximum THEN @ + 1 ELSE @,
     !.fenced     = CASE m.kind = "fence_queue" -> TRUE
                      [] m.kind = "unfence_queue" -> FALSE
                      [] OTHER -> @,
     !.memo       = remember(@, Entry(m, TRUE))]

Applied(qs, m) ==
  IF m.kind = "declare_queue"
  THEN Append(qs, [name |-> m.name, cls |-> m.cls, maximum |-> m.maximum, generation |-> 1,
                   lifecycle |-> "declared", drain |-> "idle", fenced |-> FALSE,
                   memo |-> remember(<< >>, Entry(m, TRUE))])
  ELSE [qs EXCEPT ![m.queue] = Effect(@, m)]

is_durable(kind) == kind \notin {"ingest_occupancy", "submit_drain_evidence", "acknowledge_backend"}

\* journal_commit_locked up to its sync; a full file may take the begin record
\* and refuse the commit record.
journal_commit(j, m) ==
  IF ~Fits(j, Begin(m)) THEN [ok |-> FALSE, journal |-> j]
  ELSE LET begun == append(j, Begin(m)) IN
       IF ~Fits(begun, Commit(m)) THEN [ok |-> FALSE, journal |-> begun]
       ELSE [ok |-> TRUE, journal |-> append(begun, Commit(m))]

-----------------------------------------------------------------------------
(* Operations of a running fabric *)

Now == [queues |-> queues, resource |-> resource, journal |-> journal]

\* The part of the queues that must survive a restart.
DurableView(qs) ==
  [q \in DOMAIN qs |-> [name |-> qs[q].name, maximum |-> qs[q].maximum,
                        generation |-> qs[q].generation, lifecycle |-> qs[q].lifecycle,
                        fenced |-> qs[q].fenced]]

Incident == incidents < MaxIncidents /\ incidents' = incidents + 1

Presented(m) ==
  /\ mode = "up"
  /\ sequence' = m.attempt

\* The commit of a quiescence is journalled, the evidence that allowed it is not.
TakesEvidence(m) == m.kind = "quiesce_queue" /\ Moves(queues[m.queue], m)

\* A request that is refused, or that applies to dynamic evidence only.
ApplyInMemory(m) ==
  /\ Presented(m)
  /\ m.kind # "acknowledge_backend"
  /\ \/ Decision(Now, m) = "rejected" /\ queues' = Rejected(queues, m)
     \/ Decision(Now, m) = "applied" /\ ~is_durable(m.kind) /\ queues' = Applied(queues, m)
  /\ UNCHANGED <<mode, epoch, healthy, resource, journal, incidents, historyVars>>

ApplyDurably(m) ==
  LET commit == journal_commit(journal, m) IN
  /\ Presented(m)
  /\ Decision(Now, m) = "applied" /\ is_durable(m.kind)
  /\ commit.ok
  /\ journal' = sync(commit.journal)
  /\ queues' = Applied(queues, m)
  /\ disturbed' = (disturbed \/ TakesEvidence(m))
  /\ UNCHANGED <<mode, epoch, healthy, resource, incidents, recoverable>>

\* The marker of a planned apply is durable before the acknowledgement is
\* verified, which may fail; it has no begin record.
CommitBackendApply(m) ==
  /\ Presented(m)
  /\ m.kind = "acknowledge_backend"
  /\ m.queue \in DOMAIN queues /\ queues[m.queue].generation = m.generation
  /\ Fits(journal, Commit(m))
  /\ \/ /\ journal' = sync(append(journal, Commit(m)))
        /\ \E verified \in BOOLEAN :
             /\ verified => resource.granted /\ ~queues[m.queue].fenced
                              /\ queues[m.queue].lifecycle \notin {"retired", "failed"}
             /\ queues' = [queues EXCEPT ![m.queue].memo = remember(@, Entry(m, verified))]
        /\ UNCHANGED <<healthy, incidents>>
     \/ /\ SyncFaults /\ Incident
        /\ journal' = append(journal, Commit(m))
        /\ healthy' = FALSE
        /\ UNCHANGED queues
  /\ UNCHANGED <<mode, epoch, resource, historyVars>>

\* The file is full or the sync fails: the copy is dropped and the request
\* refused with not_durable, while its records stay in the file.
RefuseNotDurable(m) ==
  LET commit == journal_commit(journal, m) IN
  /\ Presented(m)
  /\ Decision(Now, m) = "applied" /\ is_durable(m.kind)
  /\ IF commit.ok THEN SyncFaults /\ Incident ELSE UNCHANGED incidents
  /\ journal' = commit.journal
  /\ queues' = Rejected(queues, m)
  /\ disturbed' = (disturbed \/ commit.ok)
  /\ UNCHANGED <<mode, epoch, healthy, resource, recoverable>>

\* The process dies before it can answer: either outcome is right.
CrashWhileCommitting(m) ==
  LET commit == journal_commit(journal, m) IN
  /\ Presented(m)
  /\ Decision(Now, m) = "applied" /\ is_durable(m.kind)
  /\ journal' \in Survivors(commit.journal)
  /\ mode' = "down"
  /\ recoverable' = {DurableView(queues), DurableView(Applied(queues, m))}
  /\ disturbed' = (disturbed \/ TakesEvidence(m))
  /\ UNCHANGED <<epoch, healthy, resource, queues, incidents>>

\* A class is declared again, or the publisher loses its capabilities: the
\* resource record is published once it is durable.
ChangeResource(r) ==
  LET written == append(journal, ResourceState(r))
      replays == \E i \in DOMAIN journal.entries : journal.entries[i].type = "commit"
  IN
  /\ mode = "up" /\ Incident
  /\ \/ "declare_class" \in Workload /\ r = [resource EXCEPT !.cls = @ + 1] /\ r.cls \in Generations
     \/ "grant_capabilities" \in Workload /\ resource.granted /\ r = [resource EXCEPT !.granted = FALSE]
  /\ Fits(journal, ResourceState(r))
  /\ \/ /\ journal' = sync(written) /\ resource' = r /\ UNCHANGED healthy
        /\ disturbed' = (disturbed \/ replays)
     \/ /\ SyncFaults
        /\ journal' = written /\ healthy' = FALSE /\ disturbed' = TRUE /\ UNCHANGED resource
  /\ UNCHANGED <<mode, epoch, queues, sequence, recoverable>>

\* Evidence of another epoch proves nothing.
Unproven(q, phases) == [q EXCEPT !.drain = IF @ \in phases THEN "requested" ELSE @]

AdvanceEpoch ==
  LET written == append(journal, EpochState(epoch + 1)) IN
  /\ "advance_epoch" \in Workload
  /\ mode = "up" /\ healthy /\ Incident
  /\ epoch < MaxEpoch
  /\ Fits(journal, EpochState(epoch + 1))
  /\ \/ /\ journal' = sync(written) /\ epoch' = epoch + 1 /\ UNCHANGED healthy
        /\ queues' = [q \in DOMAIN queues |-> Unproven(queues[q], {"proven"})]
     \/ SyncFaults /\ journal' = written /\ healthy' = FALSE /\ UNCHANGED <<epoch, queues>>
  /\ UNCHANGED <<mode, resource, sequence, historyVars>>

\* build_snapshot_locked
Snapshot ==
  <<EpochState(epoch), ResourceState(resource)>> \o [q \in DOMAIN queues |-> QueueState(queues[q])]

Compact ==
  /\ "compact" \in Workload
  /\ mode = "up"
  /\ Size(Snapshot) <= MaxSize
  /\ journal' = rewrite(journal, Snapshot)
  /\ disturbed' = FALSE
  /\ UNCHANGED <<mode, epoch, healthy, resource, queues, sequence, incidents, recoverable>>

Crash ==
  /\ mode = "up"
  /\ journal' \in Survivors(journal)
  /\ mode' = "down"
  /\ recoverable' = {DurableView(queues)}
  /\ UNCHANGED <<epoch, healthy, resource, queues, sequence, incidents, disturbed>>

\* The medium damages one record of the file, its length field or another part,
\* while no process has it open.
Decay ==
  /\ "decay" \in Workload
  /\ mode = "down" /\ Incident
  /\ \E i \in DOMAIN journal.entries, damage \in {Bad, Unsized} :
       /\ ~Damaged(journal.entries[i])
       /\ journal' = [journal EXCEPT !.entries[i] = damage]
  /\ disturbed' = TRUE
  /\ UNCHANGED <<mode, epoch, healthy, resource, queues, sequence, recoverable>>

-----------------------------------------------------------------------------
(* recover_locked *)

OfType(records, type) ==
  LET Chosen[i \in 0..Len(records)] ==
        IF i = 0 THEN << >>
        ELSE IF records[i].type = type THEN Append(Chosen[i - 1], records[i]) ELSE Chosen[i - 1]
  IN Chosen[Len(records)]

\* Mutant: only the header is consulted.
PreviousEpoch_header(j, records) == j.header

PreviousEpoch(j, records) ==
  Max({j.header} \cup {records[i].epoch : i \in {k \in DOMAIN records : records[k].type = "epoch"}})

\* One replayed commit.  It goes through the mutation path again, journal
\* included, without the checks of epoch and provenance.
Replay(s, r) ==
  LET m == r.request
      d == Decision(s, m)
      commit == journal_commit(s.journal, m)
  IN IF d = "unchanged" THEN s
     ELSE IF d = "rejected" THEN [s EXCEPT !.queues = Rejected(@, m)]
     ELSE IF commit.ok THEN [s EXCEPT !.queues = Applied(@, m), !.journal = sync(commit.journal)]
     ELSE [s EXCEPT !.queues = Rejected(@, m), !.journal = commit.journal]

\* The state after the replay of the usable records: the last resource record
\* is in force from the beginning, the queues start as their snapshots.
Replayed(j, valid) ==
  LET records   == SubSeq(j.entries, 1, valid)
      resources == OfType(records, "resource")
      snapshots == OfType(records, "queue")
      commits   == OfType(records, "commit")
      scanned   ==
        [queues   |-> [q \in DOMAIN snapshots |-> Unproven(snapshots[q].queue, {"proven", "completed"})],
         resource |-> IF resources = << >> THEN [cls |-> 0, granted |-> FALSE]
                      ELSE Last(resources).resource,
         journal  |-> [j EXCEPT !.valid = valid]]
      After[i \in 0..Len(commits)] == IF i = 0 THEN scanned ELSE Replay(After[i - 1], commits[i])
  IN After[Len(commits)]

\* The header is written and the torn tail cut after the replay, and the new
\* epoch recorded last.
Closed(j, e) == truncate_to_valid_prefix(write_header(j, e))

\* Whether damaged bytes are still in the file: the replay was appended behind
\* them, which moved the valid prefix to the end, so that nothing was cut.
Buried(j) == \E i \in DOMAIN j.entries : Damaged(j.entries[i])

Recover ==
  /\ mode = "down"
  /\ \E opened \in open(journal) :
       LET s == Replayed(journal, opened.valid)
           e == PreviousEpoch(journal, SubSeq(journal.entries, 1, opened.valid)) + 1
           closed == Closed(s.journal, e)
       IN \/ /\ ~opened.ok
             /\ mode' = "refused" /\ healthy' = FALSE
             /\ UNCHANGED <<epoch, resource, queues, journal, historyVars>>
          \/ /\ opened.ok /\ e \in Epochs
             /\ queues' = s.queues /\ resource' = s.resource /\ epoch' = e
             /\ \/ /\ Fits(closed, EpochState(e))
                   /\ journal' = sync(append(closed, EpochState(e)))
                   /\ mode' = "up" /\ healthy' = TRUE
                   /\ recoverable' = {} /\ disturbed' = (disturbed \/ Buried(closed))
                \/ /\ ~Fits(closed, EpochState(e))
                   /\ journal' = closed
                   /\ mode' = "refused" /\ healthy' = FALSE
                   /\ UNCHANGED historyVars
  /\ UNCHANGED <<sequence, incidents>>

\* Whether the memo of every queue can hold all the attempts to be replayed.
MemoCovers(records) ==
  \A q \in QueueIds :
    Cardinality({r \in ToSet(OfType(records, "commit")) : r.request.queue = q}) <= MaxMemo

\* The process dies again somewhere in the replay, which leaves some commits in
\* the file a second time.
CrashWhileRecovering ==
  /\ mode = "down" /\ Incident
  /\ \E opened \in open(journal) :
       LET e == PreviousEpoch(journal, SubSeq(journal.entries, 1, opened.valid)) + 1
           s == Replayed(journal, opened.valid)
       IN /\ opened.ok /\ e \in Epochs
          /\ journal' \in Survivors([write_header(s.journal, e) EXCEPT !.synced = journal.synced])
  /\ disturbed' = (disturbed \/ ~MemoCovers(journal.entries))
  /\ UNCHANGED <<mode, epoch, healthy, resource, queues, sequence, recoverable>>

NextRequests == RequestsOf(Workload, Attempts \cap {sequence + 1})

Next ==
  \/ \E m \in NextRequests : ApplyInMemory(m)
  \/ \E m \in NextRequests : ApplyDurably(m)
  \/ \E m \in NextRequests : RefuseNotDurable(m)
  \/ \E m \in NextRequests : CrashWhileCommitting(m)
  \/ \E m \in NextRequests : CommitBackendApply(m)
  \/ \E r \in [cls : Generations, granted : BOOLEAN] : ChangeResource(r)
  \/ AdvanceEpoch
  \/ Compact
  \/ Crash
  \/ Decay
  \/ Recover
  \/ CrashWhileRecovering

Spec == Init /\ [][Next]_vars

-----------------------------------------------------------------------------
(* Properties *)

QueueRecord ==
  [name : Names, cls : Generations, maximum : Maxima \cup {0}, generation : Generations,
   lifecycle : Lifecycles, drain : {"idle", "requested", "proven", "completed"}, fenced : BOOLEAN,
   memo : Seq([attempt : Attempts, request : Requests, ok : BOOLEAN])]

Resource == [cls : Nat, granted : BOOLEAN]

Records ==
  [type : {"epoch"}, epoch : Epochs] \cup [type : {"resource"}, resource : Resource]
  \cup [type : {"queue"}, queue : QueueRecord] \cup [type : {"begin", "commit"}, request : Requests]

\* Every variable has its type, and a running fabric has bytes_written and
\* valid_prefix_bytes agree, so that truncate_to_valid_prefix has nothing to cut.
TypeOK ==
  /\ mode \in {"up", "down", "refused"}
  /\ epoch \in Epochs /\ healthy \in BOOLEAN
  /\ resource \in Resource
  /\ queues \in Seq(QueueRecord)
  /\ \A i \in DOMAIN journal.entries : journal.entries[i] \in Records \cup {Bad, Unsized, Torn}
  /\ journal.synced \in 0..Len(journal.entries)
  /\ journal.header \in Epochs /\ journal.stored \in Epochs
  /\ mode = "up" => journal.valid = Len(journal.entries)
  /\ sequence \in 0..MaxAttempt

ComesUp == mode = "down" /\ mode' = "up"

\* The replay writes begin and commit of every commit again, and the new epoch.
HasRoom ==
  LET commits == OfType(journal.entries, "commit")
  IN Size(journal.entries) + 2 * Size(commits) + Size(<<EpochState(epoch)>>) <= MaxSize

\* README, Durability: committed authoritative state is restored.  A fabric that
\* comes up has every queue under its identity, exactly as acknowledged, up to
\* the one mutation that was not yet answered, over any number of crashes, torn
\* tails, crashes during recovery and compactions.  It takes a journal with room
\* for its replay, in which since the last compaction no sync has failed, no
\* class was declared again or grant revoked after a commit, no queue was
\* quiesced, no record decayed, no recovery has appended its replay behind a torn
\* tail, and none was interrupted that had more commits of a queue to replay than
\* its memo holds.
RestoresCommitted ==
  [][ComesUp /\ ~disturbed /\ HasRoom => DurableView(queues') \in recoverable]_vars

\* The file has no damage, or only the torn record of the last crash at its end.
TornTailOnly(j) ==
  \A i \in DOMAIN j.entries : Damaged(j.entries[i]) => i = Len(j.entries) /\ j.entries[i] = Torn

\* README: restart always advances the coordinator epoch, past the epoch that was
\* last published, whichever of header, records and failed syncs survived, from a
\* file whose only damage is a torn tail.  Behind a decayed record, or behind a
\* tear that an earlier recovery has written its replay after, an epoch record is
\* lost and the epoch may be published a second time.
RestartAdvancesEpoch == [][ComesUp /\ TornTailOnly(journal) => epoch' > epoch]_vars

-----------------------------------------------------------------------------
(* What the repository says of this state and the code does not keep *)

\* README: committed authoritative state (queue definitions, lifecycle,
\* generations) is restored; a mutation refused with not_durable leaves no
\* partial effect.  Without the conditions of RestoresCommitted on what has
\* happened since the last compaction.
RestoresAlways ==
  [][ComesUp /\ HasRoom => DurableView(queues') \in recoverable]_vars
=============================================================================
